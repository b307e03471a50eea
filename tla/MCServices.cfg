SPECIFICATION Spec
CONSTANTS
    Till = {till1, till2}
    Trade = {trade1, trade2}
    NoTrade = NoTrade
    Main = {m1, m2}
    Addon = {a1, a2}
    Source = Source
    Sink = Sink
    Branch = {branch}
    Hub = hub
    Request = {r1, r2}
    Three = {e1, e2, e3}
    Table = {t1, t2}
    Order = {o1, o2}
    Meal = {meal}
    Clock = clock
    Vacant = vacant
    Unused = unused
    Person = {1, 2}
    Item = {1, 2, 3}
    Station = {"grill", "bar"}
    StationOf <- MCStationOf
    NoStation = "none"
    Member = {1}
    MaxCrash = 1
    MaxDeath = 1
    MaxAttempt = 2
    Tickets = 2
    MaxSend = 2
    MaxReprint = 1
    DailyJobs = 2
    DueAt = 1
    DayLength = 3
    Lease = 2
    MaxTime = 8
    MaxCall = 4
    MaxToken = 3
    Limit = 2
    QueueSize = 2
    MaxChange = 4
    MaxBroken = 1
    Many = 3
    Seats = 3
    MaxParty = 2
    MaxTries = 2
    Staff = {1, 2}
    FirstDay = 3
    LastDay = 5
    MaxRow = 2
    MaxDay = 2
    MaxWeek = 3
    MaxLength = 2
    Opening = 1
    Closing = 6
    MaxNeed = 2
    MaxHours = 4
    Phone = {1}
    MaxCode = 2
    MaxOrders = 1
    MaxWindow = 2
    MaxOffline = 1
    MaxShift = 2
    MaxRecord = 2
    RequireShift = TRUE
    Locks = FALSE
    Stock0 = 2
    MaxStock = 2
    MaxLot = 2
    MaxRecipe = 2
    BlockShort = TRUE
    Amount = 2
    MaxAttempts = 2
    MaxLost = 1
    Id = {1, 2}
    Batch = 2
    Value = 2
    MaxCommit = 3
    MaxFailure = 2
    Issued = 3
    Cups = 3
    MaxUse = 2
    CardSize = 3
    MaxStamps = 2
    FirstPoints = 3
    MaxVoucher = 4
    MaxMeal = 2
    Valid = 1
    MaxRows = 6
    MaxPoints = 2
SYMMETRY Symmetry
INVARIANTS
    PricesRight
    BooksBalance
    AdvancesKept
    PlansKept
    OnceEach
PROPERTIES
    OnlineFits
CHECK_DEADLOCK FALSE
