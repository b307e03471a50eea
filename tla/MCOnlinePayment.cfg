SPECIFICATION Spec
CONSTANTS
    Order = {o1, o2}
    Trade = {t1, t2}
    Worker = {w1, w2}
    Channels <- MCChannels
    Total = 2
    AutoRefund = TRUE
    MaxFault = 1
    NoTrade = NoTrade
CONSTRAINT SameChannel
SYMMETRY Symmetry
INVARIANTS
    TypeOK
    OnlinePaymentRecorded
    CancelledKeepsNothing
    ChargeWatched
    BillSettlesOnce
    

    
CHECK_DEADLOCK FALSE
