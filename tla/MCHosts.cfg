SPECIFICATION Spec
CONSTANTS
    Order = {o1}
    Total = 2
    OnlineOrder = {p1, p2}
    Qty <- OnePortion
    Stock = 2
    Prepaid = TRUE
    MaxSold = 1
    Transfer = {t1}
    Node = {n1, n2}
    HQ = HQ
    NoSite = NoSite
    Goods = 1
    Shop = {a}
    Online = Online
    MaxOrder = 2
    Concurrent = TRUE
SYMMETRY Symmetry
INVARIANTS
    TypesOK
    HostsAgree
    GoodsConserved
    NotSoldTwice
    ReceiverTold
    BonusOnce
    CouponTold
CHECK_DEADLOCK FALSE
