CONSTANTS
    Customers = {c1}
    KES = KES
    USD = USD
    Currencies = {KES, USD}
    Quotes = {q1, q2}
    Keys = {k1, k2}
    Adjustments = {x1}
    Offers <- OneWay
    CreditAmounts = {1}
    MaxMoney = 2
    LastInstant = 1
    None = None
    Workers = {w1, w2}
    Rank <- Alphabetical
    TTL = 1
    EmptyKey = EmptyKey
SPECIFICATION MeteredFairSpec
INVARIANTS
    CountersAsDocumented
    SuccessesAreExecutions
PROPERTIES
    EveryRequestEnds
