---- MODULE SmsProvider ----
(***************************************************************************)
(* SMSProvider: at most five messages a minute to a number.  send checks   *)
(* the limit, waits for a simulated delay and then records the message, so *)
(* the sends of others come between the check and the record.              *)
(***************************************************************************)
EXTENDS Naturals, FiniteSets

CONSTANTS
    Numbers,
    SmsSenders,   \* callers of send, one call at a time each
    SmsPerMinute  \* RATE_LIMIT_MAX_MESSAGES: 5

ASSUME SmsAssumption == IsFiniteSet(SmsSenders) /\ SmsPerMinute \in Nat \ {0}

VARIABLES
    recent,    \* rateLimits: messages of the last minute, per number
    texting,   \* the call each sender has in flight: the number it goes to
    optedOut,  \* optedOutNumbers
    unwanted   \* history: messages that came after the number had opted out

smsVars == <<recent, texting, optedOut, unwanted>>

To(n) == {s \in SmsSenders : n \in texting[s]}

\* checkRateLimit
MayText_ignored(n) == TRUE
MayText(n) == recent[n] < SmsPerMinute

\* isOptedOut
Refuses(n) == n \in optedOut

\* send, up to the delay.  A refused message changes nothing.
SendSms(s, n) ==
    /\ texting[s] = {} /\ ~Refuses(n) /\ MayText(n)
    /\ texting' = [texting EXCEPT ![s] = {n}]
    /\ UNCHANGED <<recent, optedOut, unwanted>>

\* After the delay: recordSend, whatever happened meanwhile.
SmsSent(s) ==
    \E n \in texting[s] :
    /\ recent' = [recent EXCEPT ![n] = @ + 1]
    /\ texting' = [texting EXCEPT ![s] = {}]
    /\ unwanted' = IF n \in optedOut THEN [unwanted EXCEPT ![n] = @ + 1] ELSE unwanted
    /\ UNCHANGED optedOut

\* The oldest message is more than a minute old.
SmsAges(n) ==
    /\ recent[n] > 0
    /\ recent' = [recent EXCEPT ![n] = @ - 1]
    /\ UNCHANGED <<texting, optedOut, unwanted>>

OptOut(n) ==
    /\ optedOut' = optedOut \cup {n}
    /\ UNCHANGED <<recent, texting, unwanted>>

OptIn(n) ==
    /\ optedOut' = optedOut \ {n}
    /\ unwanted' = [unwanted EXCEPT ![n] = 0]
    /\ UNCHANGED <<recent, texting>>

ClearRateLimits ==
    /\ recent' = [n \in Numbers |-> 0]
    /\ UNCHANGED <<texting, optedOut, unwanted>>

SmsInit ==
    /\ recent = [n \in Numbers |-> 0]
    /\ texting = [s \in SmsSenders |-> {}]
    /\ optedOut = {}
    /\ unwanted = [n \in Numbers |-> 0]

SmsNext ==
    \/ \E s \in SmsSenders, n \in Numbers : SendSms(s, n)
    \/ \E s \in SmsSenders : SmsSent(s)
    \/ \E n \in Numbers : SmsAges(n) \/ OptOut(n) \/ OptIn(n)
    \/ ClearRateLimits

SmsSpec == SmsInit /\ [][SmsNext]_smsVars

-----------------------------------------------------------------------------
\* The limit is overrun by the messages in flight and by no more: a check does
\* not count them, so with S senders a number gets at most S - 1 too many.  A
\* number that has opted out still gets the messages that had passed the check,
\* at most one of each sender.
SmsLimitHolds ==
    \A n \in Numbers :
       /\ recent[n] + Cardinality(To(n)) <= SmsPerMinute + Cardinality(SmsSenders) - 1
       /\ n \in optedOut => unwanted[n] + Cardinality(To(n)) <= Cardinality(SmsSenders)
====
