---- MODULE RateLimits ----
(***************************************************************************)
(* The two request limiters that count in Redis, for one key: that of the  *)
(* inventory service (one per address, or per address and method), which   *)
(* increments and renews the expiry in one pipeline at every call, and     *)
(* that of the API gateway, which increments and, in a second command,     *)
(* sets the expiry at the first call.  Both let a call pass when Redis     *)
(* fails.                                                                  *)
(***************************************************************************)
EXTENDS Naturals

CONSTANTS
    Limit,      \* calls a window admits: 100 and 200, 100 at the gateway
    Window,     \* its length in ticks
    MaxCalls    \* bound: calls in the life of a key

ASSUME LimitsAssumption == Limit \in Nat /\ Window \in Nat \ {0} /\ MaxCalls \in Nat

VARIABLES
    limiter,    \* "service" or "gateway"
    count,      \* the counter, 0 when there is no key
    ttl,        \* ticks until the key expires, Forever without an expiry
    expiring,   \* gateway calls between the two commands
    admitted,   \* history: calls admitted in the life of the key
    quiet,      \* history: ticks since the last counted call
    redisFailed \* history: whether Redis failed in the life of the key

limitVars == <<limiter, count, ttl, expiring, admitted, quiet, redisFailed>>

Forever == Window + 1

\* Seeded fault: the limit itself is refused no more.
LetThrough_offByOne == admitted' = IF count <= Limit THEN admitted + 1 ELSE admitted

LetThrough == admitted' = IF count + 1 <= Limit THEN admitted + 1 ELSE admitted

\* Increment and the Middleware of the service: a refused call counts too.
Increment ==
    /\ limiter = "service" /\ count < MaxCalls
    /\ count' = count + 1 /\ ttl' = Window
    /\ quiet' = 0 /\ LetThrough
    /\ UNCHANGED <<limiter, expiring, redisFailed>>

\* The pipeline is no transaction: the connection breaks behind the INCR, the
\* answer is an error and the call passes.
IncrementBreaks ==
    /\ limiter = "service" /\ count < MaxCalls
    /\ count' = count + 1
    /\ ttl' = IF count = 0 THEN Forever ELSE ttl
    /\ admitted' = admitted + 1
    /\ redisFailed' = TRUE
    /\ UNCHANGED <<limiter, expiring, quiet>>

-----------------------------------------------------------------------------
\* rateLimiterMiddleware: incr, and expire to follow when it answers 1.  The
\* call is admitted or refused after that.
Incr ==
    /\ limiter = "gateway" /\ count < MaxCalls
    /\ count' = count + 1
    /\ IF count = 0 THEN ttl' = Forever /\ expiring' = expiring + 1
                    ELSE UNCHANGED <<ttl, expiring>>
    /\ quiet' = 0 /\ LetThrough
    /\ UNCHANGED <<limiter, redisFailed>>

ExpireKey ==
    /\ expiring > 0 /\ expiring' = expiring - 1
    /\ ttl' = IF count > 0 THEN Window ELSE ttl
    /\ UNCHANGED <<limiter, count, admitted, quiet, redisFailed>>

\* The gateway dies, or Redis does not answer: the key stays without expiry.
ExpireLost ==
    /\ expiring > 0 /\ expiring' = expiring - 1
    /\ redisFailed' = TRUE
    /\ UNCHANGED <<limiter, count, ttl, admitted, quiet>>

\* ttl() is not answered: the call passes, over the limit or not.
TtlFails ==
    /\ limiter = "gateway" /\ count \in 1..(MaxCalls - 1)
    /\ count' = count + 1
    /\ admitted' = admitted + 1
    /\ redisFailed' = TRUE /\ quiet' = 0
    /\ UNCHANGED <<limiter, ttl, expiring>>

-----------------------------------------------------------------------------
TimePasses ==
    /\ quiet' = IF quiet < Window THEN quiet + 1 ELSE quiet
    /\ IF count > 0 /\ ttl = 1
       THEN count' = 0 /\ ttl' = 0 /\ admitted' = 0 /\ redisFailed' = FALSE
       ELSE /\ ttl' = IF ttl \in {0, Forever} THEN ttl ELSE ttl - 1
            /\ UNCHANGED <<count, admitted, redisFailed>>
    /\ UNCHANGED <<limiter, expiring>>

LimitsInit ==
    /\ limiter \in {"service", "gateway"}
    /\ count = 0 /\ ttl = 0 /\ expiring = 0 /\ admitted = 0
    /\ quiet = Window /\ redisFailed = FALSE

LimitsNext ==
    \/ Increment \/ IncrementBreaks
    \/ Incr \/ ExpireKey \/ ExpireLost \/ TtlFails
    \/ TimePasses

LimitsSpec == LimitsInit /\ [][LimitsNext]_limitVars

-----------------------------------------------------------------------------
\* No life of a key admits more than the limit, and a client that stays quiet
\* is let in again: a key has an expiry, unless a call of the gateway is about
\* to set it, and at the service none outlives a window without calls.  The
\* exception is a key in whose life Redis failed: calls pass uncounted, or an
\* expiry is lost and, at the gateway, never set again.
LimitsHold ==
    \/ redisFailed
    \/ /\ admitted <= Limit
       /\ ttl = Forever => expiring > 0
       /\ limiter = "service" /\ count > 0 => ttl + quiet <= Window

\* redis.go:148, "Increment increments a counter in Redis and sets expiration
\* if it's a new key": counting a call of a key that is there leaves its expiry
\* alone.
NewKeysExpire ==
    [][limiter = "service" /\ count > 0 /\ count' = count + 1 => ttl' <= ttl]_limitVars
====
