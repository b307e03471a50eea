\* Two orders compete for two portions, so that a gift is dropped and a checkout
\* fails; a manager and a member of staff work on both at the same time, while the
\* setting to put cancelled and voided portions back is switched on and off.
SPECIFICATION Spec
CONSTANTS
    manager = manager
    staff = staff
    Order = {o1, o2}
    Terminal = {manager, staff}
    Role <- MCRole
    Stock0 = 2
    MaxQty = 1
    MaxGift = 1
    Price = 3
    Discount = {1}
    Charges = {0}
    Fees = {0}
    Restock = {TRUE, FALSE}
    MaxRefund = 1
    MaxPickup = 2
SYMMETRY OrderSymmetry
INVARIANTS
    TypeOK
    StockConserved
    LinesMatchStock
    CancelledIsRefunded
    TillBalances
    PickupInTurn
PROPERTIES
    StatusForward
    OnlyManagersUndoPickup
