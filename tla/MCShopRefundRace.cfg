\* A void and a settlement between a cancellation's read and its swap.
SPECIFICATION Spec
CONSTANTS
    manager = manager
    staff = staff
    Order = {o1}
    Terminal = {manager, staff}
    Role <- MCRole
    Stock0 = 3
    MaxQty = 2
    MaxGift = 0
    Price = 3
    Discount = {0}
    Charges = {0}
    Fees = {0}
    Restock = {TRUE}
    MaxRefund = 1
    MaxPickup = 1
INVARIANTS
    RefundWithinTotal
