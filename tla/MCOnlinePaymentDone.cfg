SPECIFICATION Spec
CONSTANTS
    Order = {o1}
    Trade = {t1}
    Worker = {w1}
    Channels <- MCChannels
    Total = 2
    AutoRefund = TRUE
    MaxFault = 0
    NoTrade = NoTrade
INVARIANT DoneMeansReturned
CHECK_DEADLOCK FALSE
