SPECIFICATION Spec
CONSTANTS
    Usd = USD
    Eur = EUR
    KES = KES
    Currencies <- ThreeCurrencies
    CanonicalPairs <- TwoPairs
    RateScale = 4
    RawScale = 2
    BasisPoints = 10
    BuySpread = 1
    SellSpread = 1
    Payloads <- DollarPayloads
    Freshness = 1
    Amounts = {6}
    MaxRate = 20
    MaxMoney = 1000
    Refreshers = {w1, w2}
    Quoters = {u1}
    Attempts = {a1, a2}
    MaxQuotes = 1
    LastInstant = 1
    None = None
INVARIANT UpstreamFailuresAudited
