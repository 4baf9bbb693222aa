---- MODULE MCStorefront ----
(***************************************************************************)
(* Seven parts that answer requests, each with several callers at once:    *)
(* order intake, the payment gateway, accounts, the stock cache, the       *)
(* request limiters, the retries around a reservation and the circuit      *)
(* breaker around the saga's calls.  They share no state, so a behaviour   *)
(* moves one part and leaves the others where they start: the run explores *)
(* the sum of the seven state spaces and not their product.                *)
(***************************************************************************)
EXTENDS OrderIntake, Payments, Accounts, StockCache, RateLimits, Retries, CircuitBreaker

CONSTANTS r1, r2, r3, k1, k2

VARIABLE part

intakeVars == vars
storefrontVars ==
    <<part, intakeVars, payVars, accountVars, cacheVars, limitVars, retryVars, breakerVars>>

Intake(A) ==
    part = "intake" /\ A
    /\ UNCHANGED <<part, payVars, accountVars, cacheVars, limitVars, retryVars, breakerVars>>
Pay(A) ==
    part = "payments" /\ A
    /\ UNCHANGED <<part, intakeVars, accountVars, cacheVars, limitVars, retryVars, breakerVars>>
Users(A) ==
    part = "accounts" /\ A
    /\ UNCHANGED <<part, intakeVars, payVars, cacheVars, limitVars, retryVars, breakerVars>>
Cache(A) ==
    part = "cache" /\ A
    /\ UNCHANGED <<part, intakeVars, payVars, accountVars, limitVars, retryVars, breakerVars>>
Limiter(A) ==
    part = "limits" /\ A
    /\ UNCHANGED <<part, intakeVars, payVars, accountVars, cacheVars, retryVars, breakerVars>>
Retry(A) ==
    part = "retries" /\ A
    /\ UNCHANGED <<part, intakeVars, payVars, accountVars, cacheVars, limitVars, breakerVars>>
Breaker(A) ==
    part = "breaker" /\ A
    /\ UNCHANGED <<part, intakeVars, payVars, accountVars, cacheVars, limitVars, retryVars>>

\* The part that moves starts in any of its initial states, the others in one.
StorefrontInit ==
    /\ Init /\ PaymentsInit /\ AccountsInit /\ CacheInit /\ LimitsInit /\ RetryInit
    /\ BreakerInit
    /\ part \in {"intake", "payments", "accounts", "cache", "limits", "retries", "breaker"}
    /\ part # "payments" => gateway = "PaymentsService"
    /\ part # "limits" => limiter = "gateway"
    /\ part # "retries" => caller = Client

StorefrontNext ==
    \/ Intake(\E r \in Requests : FindExisting(r))
    \/ Intake(\E r \in Requests : ValidateProducts(r))
    \/ Intake(\E r \in Requests : StartTransaction(r))
    \/ Intake(\E r \in Requests : InsertOrder(r))
    \/ Intake(\E r \in Requests : StartSaga(r))
    \/ Intake(\E r \in Requests : Commit(r))
    \/ Intake(\E r \in Requests : Enqueue(r))
    \/ Intake(\E r \in Requests : Fails(r))
    \/ Intake(\E r \in Requests : CommitUnacknowledged(r))
    \/ Intake(\E r \in Requests : StartFails(r))
    \/ Intake(Crash)
    \/ Intake(\E p \in Relays : FetchPending(p))
    \/ Intake(\E p \in Relays : ProcessEvent(p))
    \/ Intake(\E p \in Relays : RelayFails(p))
    \/ Pay(\E c \in Payers, u \in Customers, a \in Amounts, k \in PayKeys \cup {NoKey} :
              ProcessPayment(c, u, a, k))
    \/ Pay(\E u \in Customers, k \in PayKeys : ReturnExisting(u, k))
    \/ Pay(\E u \in Customers : MethodRefused(u))
    \/ Pay(\E c \in Payers : PaymentSucceeds(c))
    \/ Pay(\E c \in Payers : PaymentFails(c))
    \/ Pay(\E c \in Payers, p \in Stored, a \in Amounts : RefundPayment(c, p, a))
    \/ Pay(\E c \in Payers : RefundStored(c))
    \/ Pay(\E u \in Customers : WindowEnds(u))
    \/ Users(\E c \in Persons, e \in Emails : Register(c, e))
    \/ Users(\E c \in Persons : FindByEmail(c))
    \/ Users(\E c \in Persons : SaveUser(c))
    \/ Users(\E c \in Persons, e \in Emails : Login(c, e))
    \/ Users(\E c \in Persons, e \in Emails : RefreshToken(c, e))
    \/ Users(\E c \in Persons : GiveTokens(c))
    \/ Users(\E c \in Persons, e \in Emails : PostUser(c, e))
    \/ Users(\E c \in Persons, e \in Emails : DeleteUser(c, e))
    \/ Users(\E c \in Persons, e \in Emails : PatchInactive(c, e))
    \/ Users(\E c \in Persons, e \in Emails : PatchActivate(c, e))
    \/ Users(\E c \in Persons : SoftDelete(c))
    \/ Users(\E c \in Persons : UpdateInactive(c))
    \/ Users(\E c \in Persons : RestoreUser(c))
    \/ Users(\E c \in Persons : ActivateUser(c))
    \/ Users(SeedUsers)
    \/ Cache(\E c \in CacheUsers, k \in CacheKeys : FindHits(c, k))
    \/ Cache(\E c \in CacheUsers, k \in CacheKeys : FindMisses(c, k))
    \/ Cache(\E c \in CacheUsers, k \in CacheKeys : Fill(c, k))
    \/ Cache(\E c \in CacheUsers : FillEnds(c))
    \/ Cache(\E c \in CacheUsers : Forget(c))
    \/ Cache(\E c \in CacheUsers : SaveItem(c))
    \/ Cache(\E c \in CacheUsers : UpdateItem(c))
    \/ Cache(\E c \in CacheUsers : UpdateConflicts(c))
    \/ Cache(\E c \in CacheUsers : DeleteItem(c))
    \/ Cache(\E c \in CacheUsers : DropKeys(c))
    \/ Cache(\E c \in CacheUsers : IncrementDrops(c))
    \/ Cache(\E c \in CacheUsers : IncrementVersion(c))
    \/ Cache(\E c \in CacheUsers : CallCutOff(c))
    \/ Cache(\E k \in CacheKeys : EntryExpires(k))
    \/ Limiter(Increment) \/ Limiter(IncrementBreaks)
    \/ Limiter(Incr) \/ Limiter(ExpireKey) \/ Limiter(ExpireLost) \/ Limiter(TtlFails)
    \/ Limiter(TimePasses)
    \/ Retry(SendRequest)
    \/ Retry(Answered)
    \/ Retry(\E error \in Errors : AttemptFails(error))
    \/ Retry(LateServed)
    \/ Breaker(\E c \in Calls : Admit(c))
    \/ Breaker(\E c \in Calls : Success(c))
    \/ Breaker(\E c \in Calls : Failure(c))
    \/ Breaker(Due) \/ Breaker(ForceOpen) \/ Breaker(ForceClose) \/ Breaker(Recover)

\* The calls of the order intake and its relays go on, and around the breaker
\* callers keep calling, calls end and the clock advances, as the two FairSpecs
\* say; the properties of the other parts need no fairness.
StorefrontSpec ==
    /\ StorefrontInit /\ [][StorefrontNext]_storefrontVars
    /\ \A r \in Requests : WF_storefrontVars(Intake(Call(r)))
    /\ \A p \in Relays : WF_storefrontVars(Intake(FetchPending(p) \/ ProcessEvent(p)))
    /\ \A c \in Calls : WF_storefrontVars(Breaker(Admit(c)))
    /\ \A c \in Calls : WF_storefrontVars(Breaker(Success(c) \/ Failure(c)))
    /\ WF_storefrontVars(Breaker(Due))

-----------------------------------------------------------------------------
Options(max, initialDelay, maxDelay, doubleMultiplier, jitter, isRetriable) ==
    [maxAttempts |-> max, initialDelay |-> initialDelay, maxDelay |-> maxDelay,
     doubleMultiplier |-> doubleMultiplier, jitter |-> jitter, isRetriable |-> isRetriable]

\* A call, its repetition, and another order.
OneRepeated == [r \in Requests |-> IF r = r3 THEN k2 ELSE k1]

\* createDefaultOptions, createAggressiveOptions and createConservativeOptions,
\* and a caller's own, whose delays reach their maximum.
mcRetryOptions == {Options(3, 1000, 30000, 4, 200, FALSE), Options(5, 500, 10000, 3, 100, FALSE),
                   Options(2, 5000, 60000, 4, 500, FALSE), Options(5, 500, 1500, 4, 100, TRUE)}
====
