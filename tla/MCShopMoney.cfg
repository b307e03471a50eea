\* One order of up to three portions, with or without a discount and with a service
\* charge, a delivery fee or neither, voided and refunded step by step by two
\* terminals: every split of the amount over the portions, with rounding.
SPECIFICATION Spec
CONSTANTS
    manager = manager
    staff = staff
    Order = {o1}
    Terminal = {manager, staff}
    Role <- MCRole
    Stock0 = 3
    MaxQty = 3
    MaxGift = 0
    Price = 4
    Discount = {0, 2}
    Charges = {0, 10}
    Fees = {0, 2}
    Restock = {TRUE}
    MaxRefund = 1
    MaxPickup = 1
INVARIANTS
    PaidMeansCollected
    NetWithinItems
