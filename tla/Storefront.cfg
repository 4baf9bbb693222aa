\* Order intake: a call, its repetition and another order share two connections,
\* with two relays and two failures.  The bounds of the other parts follow.
CONSTANTS
    r1 = r1  r2 = r2  r3 = r3
    k1 = k1  k2 = k2
    NoReply = NoReply
    Refused = Refused
    Failed = Failed
    Keys = {k1, k2}
    Requests = {r1, r2, r3}
    KeyOf <- OneRepeated
    Relays = {p1, p2}
    PoolSize = 2
    MaxFaults = 2
    Payers = {c1, c2}
    PaymentIds = {1, 2}
    PayKeys = {k1}
    NoKey = NoKey
    Customers = {u1}
    Amounts = {1, 2, 3}
    FraudLimit = 2
    AttemptsPerMinute = 2
    Emails = {"admin", "user"}
    Persons = {1, 2}
    SeedAdmins = {"admin"}
    MaxSwitches = 3
    CacheUsers = {1, 2}
    MaxVersion = 3
    Limit = 2
    Window = 3
    MaxCalls = 4
    RetryOptions <- mcRetryOptions
    Exponents = 4
    Calls = {call1, call2, call3}
    FailureThreshold = 5
    SuccessThreshold = 3
SPECIFICATION StorefrontSpec
INVARIANTS OneOrderPerKey AnswersAgree QueuedOnce QueuedIsReady OneChargePerKey RefundsWithinPayment CacheTellsTheRow OneAccountPerEmail SwitchedOffStaysOut LimitsHold HoldIsKnown
PROPERTIES EveryCallEnds LedgerUntilMet ClosingIsEarned Recovers
CHECK_DEADLOCK FALSE
