CONSTANTS
    Customers = {c1}
    KES = KES
    USD = USD
    Currencies = {KES, USD}
    Quotes = {q1}
    Keys = {k1}
    Adjustments = {x1}
    Offers <- WithVanishing
    CreditAmounts = {0, 2}
    MaxMoney = 2
    LastInstant = 1
    None = None
    Workers = {w1}
    Rank <- Alphabetical
    TTL = 1
    EmptyKey = EmptyKey
SPECIFICATION Spec
SYMMETRY Interchangeable
INVARIANTS
    FailedMeansSystemFault
