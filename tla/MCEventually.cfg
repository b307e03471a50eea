SPECIFICATION AllSpec
CONSTANTS
    Order = {o1}
    Qty <- MCQty
    Stock = 1
    Prepaid = TRUE
    MaxSold = 1
    PaidOrder = {p1}
    Trade = {t1}
    Worker = {w1, w2}
    Total = 1
    MaxFault = 1
    NoTrade = NoTrade
    NoWorker = NoWorker
    Scheduler = scheduler
PROPERTIES
    PaymentsEnd
    NewsArrives
    JobsEnd
CHECK_DEADLOCK FALSE
