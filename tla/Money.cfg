CONSTANTS
    Customers = {c1}
    KES = KES
    USD = USD
    Currencies = {KES, USD}
    Quotes = {q1, q2}
    Keys = {k1, k2}
    Adjustments = {x1, x2}
    Offers <- WithVanishing
    CreditAmounts = {0, 2}
    MaxMoney = 2
    LastInstant = 1
    None = None
    Workers = {w1, w2}
    Rank <- Alphabetical
    TTL = 1
    EmptyKey = EmptyKey
SPECIFICATION Spec
SYMMETRY Interchangeable
INVARIANTS
    TypeOK
    BalanceMatchesLedger
    LedgerMatchesRecords
    OneKeyPerExecution
    AnswersAreTrue
    NoLostUpdate
    BackstopsUnreached
    NoWaitCycle
    LocksClimb
PROPERTIES
    HistoryIsKept
    LapsedQuotesStayLapsed
    InternalErrorsExplained
    RequestsAdvance
    LedgerSpec
