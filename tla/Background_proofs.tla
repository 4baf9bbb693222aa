-------------------------- MODULE Background_proofs --------------------------
(***************************************************************************)
(* Proofs about four parts that work in the background and share no state: *)
(* a Bull queue with its processors, the notification jobs, the sender of  *)
(* text messages, and the scheduler of the sweep.  Each holds for any      *)
(* jobs, executions, numbers, senders, reservations and faults.            *)
(***************************************************************************)
EXTENDS Jobs, Notifications, SmsProvider, Scheduler, FiniteSetTheorems, TLAPS

-----------------------------------------------------------------------------
(* Text messages.  A check counts what was sent and not what is on its     *)
(* way; a sender has one message on its way at most, so it is the number   *)
(* of senders that bounds what the checks did not see.                     *)

\* A sender has a message to one number in flight, or none.
SmsTypeOK ==
    /\ recent \in [Numbers -> Nat]
    /\ texting \in [SmsSenders -> {{}} \cup {{n} : n \in Numbers}]
    /\ unwanted \in [Numbers -> Nat]

\* Only a number that has opted out has unwanted messages.
OptedInGotNone == \A n \in Numbers : n \notin optedOut => unwanted[n] = 0

SmsInv == SmsTypeOK /\ OptedInGotNone /\ SmsLimitHolds

\* The senders of messages in flight are among the senders.
LEMMA SendersAreFew ==
    \A n : IsFiniteSet(To(n)) /\ Cardinality(To(n)) \in Nat
           /\ Cardinality(To(n)) <= Cardinality(SmsSenders) /\ Cardinality(SmsSenders) \in Nat
<1>1. TAKE n
<1>2. To(n) \subseteq SmsSenders
  BY DEF To
<1> QED
  BY <1>2, SmsAssumption, FS_Subset, FS_CardinalityType

\* No message is in flight at first.
LEMMA SmsInitially == SmsInit => SmsInv
<1> SUFFICES ASSUME SmsInit PROVE SmsInv
  OBVIOUS
<1>1. SmsTypeOK /\ OptedInGotNone
  BY DEF SmsInit, SmsTypeOK, OptedInGotNone
<1>2. \A n : To(n) = {}
  BY DEF SmsInit, To
<1>3. Cardinality({}) = 0
  BY FS_EmptySet
<1> QED
  BY <1>1, <1>2, <1>3, SendersAreFew, SmsAssumption DEF SmsInv, SmsInit, SmsLimitHolds

\* Every call of the provider keeps the limit.
LEMMA SmsInvIsKept == SmsInv /\ [SmsNext]_smsVars => SmsInv'
<1> SUFFICES ASSUME SmsInv, [SmsNext]_smsVars PROVE SmsInv'
  OBVIOUS
<1> USE SmsAssumption
<1> DEFINE S == Cardinality(SmsSenders)
<1>0. SmsTypeOK /\ OptedInGotNone /\ SmsLimitHolds
  BY DEF SmsInv
<1>f. /\ S \in Nat
      /\ \A n : Cardinality(To(n)) \in Nat /\ Cardinality(To(n)) <= S
  BY SendersAreFew
<1>g. \A n : Cardinality(To(n)') \in Nat /\ Cardinality(To(n)') <= S
  <2>1. \A n : To(n)' \subseteq SmsSenders
    BY DEF To
  <2> QED
    BY <2>1, FS_Subset, FS_CardinalityType
<1>1. ASSUME NEW s \in SmsSenders, NEW n \in Numbers, SendSms(s, n) PROVE SmsInv'
  <2>1. SmsTypeOK' /\ OptedInGotNone'
    BY <1>0, <1>1 DEF SmsTypeOK, OptedInGotNone, SendSms
  <2>2. recent[n] < SmsPerMinute /\ n \notin optedOut
    BY <1>1 DEF SendSms, MayText, Refuses
  <2>3. \A m \in Numbers : m # n => To(m)' = To(m)
    BY <1>0, <1>1 DEF To, SendSms, SmsTypeOK
  <2>4. UNCHANGED <<recent, optedOut, unwanted>>
    BY <1>1 DEF SendSms
  <2>5. recent[n] \in Nat
    BY <1>0 DEF SmsTypeOK
  <2>6. SmsLimitHolds'
    <3>1. ASSUME NEW m \in Numbers
          PROVE  /\ recent'[m] + Cardinality(To(m)') <= SmsPerMinute + S - 1
                 /\ m \in optedOut' => unwanted'[m] + Cardinality(To(m)') <= S
      <4>1. CASE m = n
        BY <1>f, <1>g, <2>2, <2>4, <2>5, <4>1
      <4>2. CASE m # n
        BY <1>0, <2>3, <2>4, <4>2 DEF SmsLimitHolds
      <4> QED
        BY <4>1, <4>2
    <3> QED
      BY <3>1 DEF SmsLimitHolds
  <2> QED
    BY <2>1, <2>6 DEF SmsInv
<1>2. ASSUME NEW s \in SmsSenders, SmsSent(s) PROVE SmsInv'
  <2>1. PICK n \in texting[s] :
           /\ recent' = [recent EXCEPT ![n] = @ + 1]
           /\ texting' = [texting EXCEPT ![s] = {}]
           /\ unwanted' = IF n \in optedOut THEN [unwanted EXCEPT ![n] = @ + 1] ELSE unwanted
           /\ UNCHANGED optedOut
    BY <1>2 DEF SmsSent
  <2>2. n \in Numbers /\ texting[s] = {n}
    BY <1>0, <2>1 DEF SmsTypeOK
  <2>3. SmsTypeOK' /\ OptedInGotNone'
    BY <1>0, <2>1, <2>2 DEF SmsTypeOK, OptedInGotNone
  <2>4. To(n)' = To(n) \ {s} /\ s \in To(n) /\ \A m \in Numbers : m # n => To(m)' = To(m)
    BY <1>0, <2>1, <2>2 DEF To, SmsTypeOK
  <2>5. Cardinality(To(n)') = Cardinality(To(n)) - 1
    BY <2>4, SendersAreFew, FS_RemoveElement
  <2>6. SmsLimitHolds'
    <3>1. ASSUME NEW m \in Numbers
          PROVE  /\ recent'[m] + Cardinality(To(m)') <= SmsPerMinute + S - 1
                 /\ m \in optedOut' => unwanted'[m] + Cardinality(To(m)') <= S
      <4>0. recent[m] \in Nat /\ unwanted[m] \in Nat
        BY <1>0 DEF SmsTypeOK
      <4>1. CASE m = n
        <5>1. recent'[n] = recent[n] + 1 /\ (n \in optedOut => unwanted'[n] = unwanted[n] + 1)
          BY <1>0, <2>1, <2>2 DEF SmsTypeOK
        <5> QED
          BY <1>0, <1>f, <2>1, <2>2, <2>5, <4>0, <4>1, <5>1 DEF SmsLimitHolds
      <4>2. CASE m # n
        <5>1. recent'[m] = recent[m] /\ unwanted'[m] = unwanted[m]
          BY <1>0, <2>1, <2>2, <4>2 DEF SmsTypeOK
        <5> QED
          BY <1>0, <2>1, <2>4, <4>2, <5>1 DEF SmsLimitHolds
      <4> QED
        BY <4>1, <4>2
    <3> QED
      BY <3>1 DEF SmsLimitHolds
  <2> QED
    BY <2>3, <2>6 DEF SmsInv
<1>3. ASSUME NEW n \in Numbers, SmsAges(n) PROVE SmsInv'
  <2>1. SmsTypeOK' /\ OptedInGotNone'
    BY <1>0, <1>3 DEF SmsTypeOK, OptedInGotNone, SmsAges
  <2>2. \A m \in Numbers : To(m)' = To(m) /\ recent'[m] <= recent[m]
    BY <1>0, <1>3 DEF To, SmsAges, SmsTypeOK
  <2>3. \A m \in Numbers : recent[m] \in Nat /\ recent'[m] \in Nat
    BY <1>0, <2>1 DEF SmsTypeOK
  <2> QED
    BY <1>0, <1>3, <1>f, <2>1, <2>2, <2>3 DEF SmsInv, SmsLimitHolds, SmsAges
<1>4. ASSUME NEW n \in Numbers, OptOut(n) PROVE SmsInv'
  <2>1. SmsTypeOK' /\ OptedInGotNone'
    BY <1>0, <1>4 DEF SmsTypeOK, OptedInGotNone, OptOut
  <2>2. \A m \in Numbers : To(m)' = To(m)
    BY <1>4 DEF To, OptOut
  <2> QED
    BY <1>0, <1>4, <1>f, <2>1, <2>2 DEF SmsInv, SmsLimitHolds, OptOut, OptedInGotNone
<1>5. ASSUME NEW n \in Numbers, OptIn(n) PROVE SmsInv'
  <2>1. SmsTypeOK' /\ OptedInGotNone'
    BY <1>0, <1>5 DEF SmsTypeOK, OptedInGotNone, OptIn
  <2>2. \A m \in Numbers : To(m)' = To(m)
    BY <1>5 DEF To, OptIn
  <2>3. \A m \in Numbers : m \in optedOut' => m # n /\ unwanted'[m] = unwanted[m]
    BY <1>0, <1>5 DEF OptIn, SmsTypeOK
  <2> QED
    BY <1>0, <1>5, <1>f, <2>1, <2>2, <2>3 DEF SmsInv, SmsLimitHolds, OptIn
<1>6. CASE ClearRateLimits
  <2>1. SmsTypeOK' /\ OptedInGotNone'
    BY <1>0, <1>6 DEF SmsTypeOK, OptedInGotNone, ClearRateLimits
  <2>2. \A m \in Numbers : To(m)' = To(m) /\ recent'[m] = 0
    BY <1>6 DEF To, ClearRateLimits
  <2> QED
    BY <1>0, <1>6, <1>f, <2>1, <2>2 DEF SmsInv, SmsLimitHolds, ClearRateLimits
<1>7. CASE UNCHANGED smsVars
  BY <1>0, <1>7 DEF smsVars, SmsInv, SmsTypeOK, OptedInGotNone, SmsLimitHolds, To
<1> QED
  BY <1>1, <1>2, <1>3, <1>4, <1>5, <1>6, <1>7 DEF SmsNext

\* However the calls of send interleave, a number gets at most one message
\* for each sender but one beyond the limit, and one that has opted out at
\* most one of each sender.
THEOREM TheLimitIsOverrunByTheSenders == SmsSpec => []SmsLimitHolds
<1>1. SmsInv => SmsLimitHolds
  BY DEF SmsInv
<1> QED
  BY SmsInitially, SmsInvIsKept, <1>1, PTL DEF SmsSpec

-----------------------------------------------------------------------------
(* The queue.  A job whose execution Bull waits for is not queued, so that  *)
(* it is given to no other; and every run but the first was paid for, by an *)
(* attempt or by a stall, before it began.                                  *)

JobStates == {"none", "waiting", "active", "delayed", "completed", "failed", "removed"}
Grips == {"held", "timedOut", "lost"}

JobsTypeOK ==
    /\ jobs \in [JobIds -> [state : JobStates, attempts : Nat, stalled : Nat, progress : Nat]]
    /\ DOMAIN runs = Slots
    /\ \A w \in Slots :
          Busy(w) => runs[w] \in [job : JobIds, done : 0..Len(Percentages), grip : Grips]
    /\ begun \in [JobIds -> Nat]

\* A job that waits for a run has begun no more than were given up, and it has
\* attempts left until it fails.
RunsArePaidFor ==
    \A j \in JobIds :
       /\ jobs[j].state = "none" => begun[j] = 0
       /\ jobs[j].state \in {"waiting", "delayed"} =>
             begun[j] <= jobs[j].attempts + jobs[j].stalled
       /\ jobs[j].state \in {"none", "waiting", "active", "delayed"} =>
             jobs[j].attempts < JobAttempts

\* A job is run once, and again for each attempt or stall that was counted.
Budget ==
    \A j \in JobIds :
       /\ begun[j] <= 1 + jobs[j].attempts + jobs[j].stalled
       /\ jobs[j].state = "failed" =>
             jobs[j].attempts = JobAttempts \/ jobs[j].stalled > MaxStalledCount

\* The job of an execution Bull waits for is active, or was ended by one that
\* it had given up, and Bull waits for no other execution of it.
OneOwner ==
    \A w \in Slots : Owned(w) =>
        /\ jobs[runs[w].job].state \in {"active", "completed", "removed"}
        /\ \A v \in Slots : Owned(v) /\ runs[v].job = runs[w].job => v = w

JobsInv == JobsTypeOK /\ RunsArePaidFor /\ Budget /\ OneOwner

\* What the processors report is a number, and every processor reports.
LEMMA ProgressIsANumber == Percentages \in Seq(Nat)
BY JobsAssumption
   DEF Percentages, PaymentSteps, InventorySteps, NotificationSteps, OrderSteps

\* The queue starts empty.
LEMMA JobsInitially == JobsInit => JobsInv
<1> SUFFICES ASSUME JobsInit PROVE JobsInv
  OBVIOUS
<1>1. \A w \in Slots : ~Busy(w)
  BY DEF JobsInit, Busy
<1> QED
  BY <1>1, JobsAssumption
     DEF JobsInit, JobsInv, JobsTypeOK, JobStates, RunsArePaidFor, Budget, OneOwner, Owned

\* A job with a loss counted against it.
LEMMA JobRewritten ==
    ASSUME NEW r \in [state : JobStates, attempts : Nat, stalled : Nat, progress : Nat],
           NEW state \in JobStates, NEW n \in Nat
    PROVE  /\ LET job == [r EXCEPT !.attempts = n, !.state = state]
              IN  /\ job.attempts = n /\ job.stalled = r.stalled /\ job.state = state
                  /\ job \in [state : JobStates, attempts : Nat, stalled : Nat, progress : Nat]
           /\ LET job == [r EXCEPT !.stalled = n, !.state = state]
              IN  /\ job.stalled = n /\ job.attempts = r.attempts /\ job.state = state
                  /\ job \in [state : JobStates, attempts : Nat, stalled : Nat, progress : Nat]
OBVIOUS

\* What a step that writes one job, but no execution, must see to.
JobStep(j, job) ==
    /\ jobs' = [jobs EXCEPT ![j] = job]
    /\ job \in [state : JobStates, attempts : Nat, stalled : Nat, progress : Nat]
    /\ begun[j] <= 1 + job.attempts + job.stalled
    /\ job.state = "none" => begun[j] = 0
    /\ job.state \in {"waiting", "delayed"} => begun[j] <= job.attempts + job.stalled
    /\ job.state \in {"none", "waiting", "active", "delayed"} => job.attempts < JobAttempts
    /\ job.state = "failed" => job.attempts = JobAttempts \/ job.stalled > MaxStalledCount

\* The books of the runs are kept by a step that writes one job.
LEMMA BooksOfAJob ==
    ASSUME JobsInv, NEW j \in JobIds, NEW job, JobStep(j, job), UNCHANGED begun
    PROVE  /\ jobs' \in [JobIds -> [state : JobStates, attempts : Nat, stalled : Nat,
                                    progress : Nat]]
           /\ RunsArePaidFor' /\ Budget'
<1>1. jobs' \in [JobIds -> [state : JobStates, attempts : Nat, stalled : Nat, progress : Nat]]
  BY DEF JobsInv, JobsTypeOK, JobStep
<1>2. jobs'[j] = job /\ \A i \in JobIds : i # j => jobs'[i] = jobs[i]
  BY DEF JobsInv, JobsTypeOK, JobStep
<1>3. RunsArePaidFor'
  BY <1>2 DEF JobsInv, JobStep, RunsArePaidFor
<1>4. Budget'
  BY <1>2 DEF JobsInv, JobStep, Budget
<1> QED
  BY <1>1, <1>3, <1>4

\* The jobs whose executions go on undisturbed.
LEMMA OtherRuns ==
    ASSUME JobsInv, NEW w \in Slots, Busy(w)
    PROVE  /\ runs[w].job \in JobIds /\ runs[w].grip \in Grips
           /\ runs[w].done \in 0..Len(Percentages)
           /\ runs[w] \in [job : JobIds, done : 0..Len(Percentages), grip : Grips]
BY DEF JobsInv, JobsTypeOK

\* A step that leaves the executions alone, and whichever job one of them has
\* in hand.
LEMMA RunsLeftAlone ==
    ASSUME JobsInv, UNCHANGED runs,
           \A w \in Slots : Owned(w) =>
               jobs'[runs[w].job].state \in {"active", "completed", "removed"}
    PROVE  /\ OneOwner'
           /\ DOMAIN runs' = Slots
           /\ \A w \in Slots : Busy(w)' =>
                 runs'[w] \in [job : JobIds, done : 0..Len(Percentages), grip : Grips]
BY DEF JobsInv, JobsTypeOK, OneOwner, Owned, Busy

\* Every step of the queue, the processors and the service keeps all of it.
LEMMA JobsInvIsKept == JobsInv /\ [JobsNext]_jobVars => JobsInv'
<1> SUFFICES ASSUME JobsInv, [JobsNext]_jobVars PROVE JobsInv'
  OBVIOUS
<1> USE JobsAssumption
<1>0. JobsTypeOK /\ RunsArePaidFor /\ Budget /\ OneOwner
  BY DEF JobsInv
<1>t. \A j \in JobIds : /\ jobs[j] \in [state : JobStates, attempts : Nat, stalled : Nat,
                                        progress : Nat]
                        /\ begun[j] \in Nat
  BY <1>0 DEF JobsTypeOK
<1>p. Percentages \in Seq(Nat) /\ Len(Percentages) \in Nat
  BY ProgressIsANumber
<1>1. ASSUME NEW j \in JobIds, AddJob(j) PROVE JobsInv'
  <2> DEFINE job == [jobs[j] EXCEPT !.state = "waiting"]
  <2>1. JobStep(j, job)
    BY <1>0, <1>1, <1>t DEF AddJob, JobStep, RunsArePaidFor, JobStates
  <2>2. \A w \in Slots : Owned(w) =>
               jobs'[runs[w].job].state \in {"active", "completed", "removed"}
    BY <1>0, <1>1, OtherRuns DEF AddJob, OneOwner, Owned, JobsTypeOK
  <2> QED
    BY <1>0, <1>1, <2>1, <2>2, BooksOfAJob, RunsLeftAlone
       DEF AddJob, JobsInv, JobsTypeOK
<1>2. ASSUME NEW w \in Slots, NEW j \in JobIds, TakeJob(w, j) PROVE JobsInv'
  <2>1. /\ jobs' = [jobs EXCEPT ![j].state = "active"]
        /\ runs' = [runs EXCEPT ![w] = [job |-> j, done |-> 0, grip |-> "held"]]
        /\ begun' = [begun EXCEPT ![j] = @ + 1]
        /\ jobs[j].state = "waiting"
    BY <1>2 DEF TakeJob
  <2>2. /\ jobs'[j] = [jobs[j] EXCEPT !.state = "active"] /\ begun'[j] = begun[j] + 1
        /\ \A i \in JobIds : i # j => jobs'[i] = jobs[i] /\ begun'[i] = begun[i]
        /\ \A v \in Slots : v # w => runs'[v] = runs[v]
        /\ runs'[w] = [job |-> j, done |-> 0, grip |-> "held"]
    BY <1>0, <2>1 DEF JobsTypeOK
  <2>3. JobsTypeOK'
    <3>1. jobs' \in [JobIds -> [state : JobStates, attempts : Nat, stalled : Nat,
                                progress : Nat]]
      <4>1. jobs'[j] \in [state : JobStates, attempts : Nat, stalled : Nat, progress : Nat]
        BY <1>t, <2>2 DEF JobStates
      <4>2. DOMAIN jobs' = JobIds /\ jobs' = [i \in JobIds |-> jobs'[i]]
        BY <1>0, <2>1 DEF JobsTypeOK
      <4>3. \A i \in JobIds : jobs'[i] \in [state : JobStates, attempts : Nat,
                                             stalled : Nat, progress : Nat]
        BY <1>t, <2>2, <4>1
      <4> QED
        BY <4>2, <4>3
    <3>2. begun' \in [JobIds -> Nat] /\ DOMAIN runs' = Slots
      BY <1>0, <1>t, <2>1 DEF JobsTypeOK
    <3>3. runs'[w] \in [job : JobIds, done : 0..Len(Percentages), grip : Grips]
      BY <1>p, <2>2 DEF Grips
    <3>4. ASSUME NEW v \in Slots, Busy(v)'
          PROVE  runs'[v] \in [job : JobIds, done : 0..Len(Percentages), grip : Grips]
      <4>1. CASE v = w
        BY <3>3, <4>1
      <4>2. CASE v # w
        BY <2>2, <3>4, <4>2, OtherRuns DEF Busy
      <4> QED
        BY <4>1, <4>2
    <3> QED
      BY <3>1, <3>2, <3>4 DEF JobsTypeOK
  <2>4. RunsArePaidFor' /\ Budget'
    BY <1>0, <1>t, <2>1, <2>2 DEF RunsArePaidFor, Budget
  <2>5. \A v \in Slots : Owned(v) => runs[v].job # j
    BY <1>0, <2>1 DEF OneOwner
  <2>6. \A v \in Slots : Owned(v)' => v = w \/ (Owned(v) /\ runs'[v] = runs[v])
    BY <2>2 DEF Owned, Busy
  <2>7. \A v \in Slots : Owned(v) => runs[v].job \in JobIds
    BY OtherRuns DEF Owned
  <2>8. OneOwner'
    BY <1>0, <1>t, <2>2, <2>5, <2>6, <2>7 DEF OneOwner
  <2> QED
    BY <2>3, <2>4, <2>8 DEF JobsInv
<1>3. ASSUME NEW w \in Slots, UpdateProgress(w) PROVE JobsInv'
  <2> DEFINE j == runs[w].job
             k == runs[w].done + 1
  <2>1. /\ Busy(w) /\ k <= Len(Percentages)
        /\ runs' = [runs EXCEPT ![w].done = k]
        /\ jobs' = IF jobs[j].state = "removed" THEN jobs
                   ELSE [jobs EXCEPT ![j].progress = Percentages[k]]
        /\ begun' = begun
    BY <1>3 DEF UpdateProgress
  <2>2. j \in JobIds /\ k \in 1..Len(Percentages) /\ Percentages[k] \in Nat
    BY <1>p, <2>1, OtherRuns
  <2>3. /\ \A i \in JobIds : i # j => jobs'[i] = jobs[i]
        /\ jobs'[j].state = jobs[j].state /\ jobs'[j].attempts = jobs[j].attempts
        /\ jobs'[j].stalled = jobs[j].stalled
        /\ jobs[j].state # "removed" => jobs'[j].progress = Percentages[k]
    BY <1>0, <1>t, <2>1, <2>2 DEF JobsTypeOK
  <2>4. /\ \A v \in Slots : v # w => runs'[v] = runs[v]
        /\ runs'[w].job = j /\ runs'[w].done = k /\ runs'[w].grip = runs[w].grip
        /\ runs'[w] \in [job : JobIds, done : 0..Len(Percentages), grip : Grips]
    <3>1. runs'[w] = [runs[w] EXCEPT !.done = k] /\ \A v \in Slots : v # w => runs'[v] = runs[v]
      BY <1>0, <2>1 DEF JobsTypeOK
    <3>2. runs[w] \in [job : JobIds, done : 0..Len(Percentages), grip : Grips]
      BY <2>1, OtherRuns
    <3>3. k \in 0..Len(Percentages)
      BY <1>p, <2>2
    <3> HIDE DEF k
    <3> QED
      BY <3>1, <3>2, <3>3
  <2>5. JobsTypeOK'
    <3>1. jobs' \in [JobIds -> [state : JobStates, attempts : Nat, stalled : Nat,
                                progress : Nat]]
      BY <1>0, <2>1, <2>2 DEF JobsTypeOK
    <3>2. DOMAIN runs' = Slots
      BY <1>0, <2>1 DEF JobsTypeOK
    <3>3. \A v \in Slots :
            Busy(v)' => runs'[v] \in [job : JobIds, done : 0..Len(Percentages), grip : Grips]
      BY <1>0, <2>4 DEF JobsTypeOK, Busy
    <3>4. begun' = begun
      BY <2>1
    <3> QED
      BY <1>0, <3>1, <3>2, <3>3, <3>4 DEF JobsTypeOK
  <2>6. RunsArePaidFor' /\ Budget'
    <3>1. \A i \in JobIds : /\ jobs'[i].state = jobs[i].state
                            /\ jobs'[i].attempts = jobs[i].attempts
                            /\ jobs'[i].stalled = jobs[i].stalled /\ begun'[i] = begun[i]
      BY <2>1, <2>3
    <3> QED
      BY <1>0, <3>1 DEF RunsArePaidFor, Budget
  <2>7. \A v \in Slots : Busy(v)' => Busy(v)
    BY <2>1, <2>4 DEF Busy
  <2>8. \A v \in Slots : Busy(v) => runs'[v].job = runs[v].job /\ runs'[v].grip = runs[v].grip
    BY <2>4
  <2>9. \A v \in Slots : Owned(v)' => Owned(v)
    BY <2>7, <2>8 DEF Owned
  <2>10. \A v \in Slots : Owned(v) => runs[v].job \in JobIds
    BY OtherRuns DEF Owned
  <2>11. OneOwner'
    BY <1>0, <2>3, <2>8, <2>9, <2>10 DEF OneOwner, Owned
  <2> QED
    BY <2>5, <2>6, <2>11 DEF JobsInv
<1>4. ASSUME NEW w \in Slots, Busy(w), EndRun(w) PROVE JobsInv'
  <2> DEFINE j == runs[w].job
             job == IF Counts(w) THEN [jobs[j] EXCEPT !.state = "completed"] ELSE jobs[j]
  <2>1. /\ runs' = [runs EXCEPT ![w] = Idle] /\ begun' = begun
        /\ jobs' = IF Counts(w) THEN [jobs EXCEPT ![j].state = "completed"] ELSE jobs
    BY <1>4 DEF EndRun
  <2>2. j \in JobIds
    BY <1>4, OtherRuns
  <2>3. jobs' = [jobs EXCEPT ![j] = job]
    BY <1>0, <2>1, <2>2 DEF JobsTypeOK
  <2>4. JobStep(j, job)
    BY <1>0, <1>t, <2>2, <2>3 DEF JobStep, RunsArePaidFor, Budget, JobStates
  <2>5. /\ RunsArePaidFor' /\ Budget'
        /\ jobs' \in [JobIds -> [state : JobStates, attempts : Nat, stalled : Nat,
                                 progress : Nat]]
    BY <2>1, <2>2, <2>4, BooksOfAJob
  <2>6. \A v \in Slots : Busy(v)' => Busy(v) /\ v # w /\ runs'[v] = runs[v]
    BY <1>0, <2>1 DEF Busy, JobsTypeOK
  <2>7. \A i \in JobIds : jobs'[i].state \in {jobs[i].state, "completed"}
    BY <1>0, <1>t, <2>1, <2>2 DEF JobsTypeOK
  <2>8. JobsTypeOK'
    BY <1>0, <2>1, <2>5, <2>6 DEF JobsTypeOK
  <2>9. \A v \in Slots : Owned(v)' => Owned(v) /\ runs'[v] = runs[v] /\ runs[v].job \in JobIds
    BY <2>6, OtherRuns DEF Owned
  <2>10. OneOwner'
    BY <1>0, <2>7, <2>9 DEF OneOwner
  <2> QED
    BY <2>5, <2>8, <2>10 DEF JobsInv
<1>5. ASSUME NEW w \in Slots, ReturnSuccess(w) \/ ReturnFailure(w) PROVE JobsInv'
  BY <1>4, <1>5 DEF ReturnSuccess, ReturnFailure
<1>6. ASSUME NEW w \in Slots, Owned(w), NEW grip \in Grips \ {"held"}, GiveUp(w, grip),
             NEW job, JobStep(runs[w].job, job), begun' = begun
      PROVE  JobsInv'
  <2> DEFINE j == runs[w].job
  <2>1. Busy(w) /\ runs[w].grip = "held" /\ j \in JobIds
    BY <1>6, OtherRuns DEF Owned
  <2>2. runs' = [runs EXCEPT ![w].grip = grip]
    BY <1>6 DEF GiveUp
  <2>3. /\ RunsArePaidFor' /\ Budget'
        /\ jobs' \in [JobIds -> [state : JobStates, attempts : Nat, stalled : Nat,
                                 progress : Nat]]
    BY <1>6, <2>1, BooksOfAJob
  <2>4. /\ \A v \in Slots : v # w => runs'[v] = runs[v]
        /\ runs'[w] = [runs[w] EXCEPT !.grip = grip]
        /\ DOMAIN runs' = Slots
    BY <1>0, <2>2 DEF JobsTypeOK
  <2>5. /\ runs'[w].job = j /\ runs'[w].done = runs[w].done
        /\ runs'[w] \in [job : JobIds, done : 0..Len(Percentages), grip : Grips]
    BY <2>1, <2>4, OtherRuns
  <2>6. JobsTypeOK'
    BY <1>0, <1>6, <2>3, <2>4, <2>5 DEF JobsTypeOK, Busy
  <2>7. \A v \in Slots : Owned(v)' =>
            /\ Owned(v) /\ v # w /\ runs'[v] = runs[v]
            /\ runs[v].job \in JobIds /\ runs[v].job # j
    <3> SUFFICES ASSUME NEW v \in Slots, Owned(v)'
                 PROVE  /\ Owned(v) /\ v # w /\ runs'[v] = runs[v]
                        /\ runs[v].job \in JobIds /\ runs[v].job # j
      OBVIOUS
    <3>1. runs'[w].grip = grip
      BY <2>1, <2>4, OtherRuns
    <3>2. v # w
      BY <3>1, <1>6 DEF Owned
    <3>3. runs'[v] = runs[v] /\ Owned(v)
      BY <2>4, <3>2 DEF Owned, Busy
    <3>4. runs[v].job # j
      BY <1>0, <1>6, <3>2, <3>3 DEF OneOwner
    <3> QED
      BY <3>2, <3>3, <3>4, OtherRuns DEF Owned
  <2>8. \A i \in JobIds : i # j => jobs'[i] = jobs[i]
    BY <1>0, <1>6 DEF JobStep, JobsTypeOK
  <2>9. OneOwner'
    BY <1>0, <2>7, <2>8 DEF OneOwner
  <2> QED
    BY <2>3, <2>6, <2>9 DEF JobsInv
<1>7. ASSUME NEW w \in Slots, TimeOut(w) PROVE JobsInv'
  <2> DEFINE j == runs[w].job
             job == IF jobs[j].state = "active"
                    THEN [jobs[j] EXCEPT !.attempts = @ + 1,
                            !.state = IF jobs[j].attempts + 1 < JobAttempts
                                      THEN "delayed" ELSE "failed"]
                    ELSE jobs[j]
  <2>1. Owned(w) /\ GiveUp(w, "timedOut") /\ begun' = begun /\ j \in JobIds
    BY <1>7, OtherRuns DEF TimeOut, Owned
  <2>2. jobs' = [jobs EXCEPT ![j] = job]
    BY <1>0, <1>7, <1>t, <2>1 DEF TimeOut, AttemptFailed, JobsTypeOK
  <2>3. JobStep(j, job)
    <3>1. CASE jobs[j].state # "active"
      BY <1>0, <1>t, <2>1, <2>2, <3>1
         DEF JobStep, RunsArePaidFor, Budget, JobStates
    <3>2. CASE jobs[j].state = "active"
      <4>1. /\ begun[j] <= 1 + jobs[j].attempts + jobs[j].stalled
            /\ jobs[j].attempts < JobAttempts
        BY <1>0, <2>1, <3>2 DEF RunsArePaidFor, Budget
      <4>2. /\ job.attempts = jobs[j].attempts + 1 /\ job.stalled = jobs[j].stalled
            /\ job.state = IF jobs[j].attempts + 1 < JobAttempts THEN "delayed" ELSE "failed"
            /\ job \in [state : JobStates, attempts : Nat, stalled : Nat, progress : Nat]
        <5> DEFINE state == IF jobs[j].attempts + 1 < JobAttempts THEN "delayed" ELSE "failed"
                   n == jobs[j].attempts + 1
        <5>1. /\ state \in JobStates /\ n \in Nat
             /\ job = [jobs[j] EXCEPT !.attempts = n, !.state = state]
          BY <1>t, <2>1, <3>2 DEF JobStates
        <5> HIDE DEF job, n, state
        <5>2. /\ job.attempts = n /\ job.stalled = jobs[j].stalled /\ job.state = state
              /\ job \in [state : JobStates, attempts : Nat, stalled : Nat, progress : Nat]
          BY <1>t, <2>1, <5>1, JobRewritten
        <5> QED
          BY <5>2 DEF n, state
      <4>3. jobs[j].attempts \in Nat /\ jobs[j].stalled \in Nat /\ begun[j] \in Nat
        BY <1>t, <2>1
      <4> HIDE DEF job
      <4> QED
        BY <2>2, <4>1, <4>2, <4>3 DEF JobStep
    <3> QED
      BY <3>1, <3>2
  <2> QED
    BY <1>6, <2>1, <2>3 DEF Grips
<1>8. ASSUME NEW w \in Slots, LoseLock(w) PROVE JobsInv'
  <2> DEFINE j == runs[w].job
  <2>1. Owned(w) /\ GiveUp(w, "lost") /\ begun' = begun /\ j \in JobIds /\ jobs' = jobs
    BY <1>8, OtherRuns DEF LoseLock, Owned
  <2>2. JobStep(j, jobs[j])
    BY <1>0, <1>t, <2>1 DEF JobStep, RunsArePaidFor, Budget, JobsTypeOK
  <2> QED
    BY <1>6, <2>1, <2>2 DEF Grips
<1>9. ASSUME NEW j \in JobIds, BackoffEnds(j) PROVE JobsInv'
  <2> DEFINE job == [jobs[j] EXCEPT !.state = "waiting"]
  <2>1. JobStep(j, job)
    BY <1>0, <1>9, <1>t DEF BackoffEnds, JobStep, RunsArePaidFor, Budget, JobStates
  <2>2. \A w \in Slots : Owned(w) =>
               jobs'[runs[w].job].state \in {"active", "completed", "removed"}
    BY <1>0, <1>9, OtherRuns DEF BackoffEnds, OneOwner, Owned, JobsTypeOK
  <2> QED
    BY <1>0, <1>9, <2>1, <2>2, BooksOfAJob, RunsLeftAlone
       DEF BackoffEnds, JobsInv, JobsTypeOK
<1>10. ASSUME NEW j \in JobIds, StalledCheck(j) PROVE JobsInv'
  <2> DEFINE job == [jobs[j] EXCEPT !.stalled = @ + 1,
                       !.state = IF jobs[j].stalled < MaxStalledCount
                                 THEN "waiting" ELSE "failed"]
  <2>1. jobs[j].state = "active" /\ jobs' = [jobs EXCEPT ![j] = job] /\ ~HasOwner(j)
        /\ UNCHANGED <<runs, begun>>
    BY <1>0, <1>10 DEF StalledCheck, JobsTypeOK
  <2>2. JobStep(j, job)
    <3>1. begun[j] <= 1 + jobs[j].attempts + jobs[j].stalled /\ jobs[j].attempts < JobAttempts
      BY <1>0, <2>1 DEF RunsArePaidFor, Budget
    <3>2. /\ job.stalled = jobs[j].stalled + 1 /\ job.attempts = jobs[j].attempts
          /\ job.state = IF jobs[j].stalled < MaxStalledCount THEN "waiting" ELSE "failed"
          /\ job \in [state : JobStates, attempts : Nat, stalled : Nat, progress : Nat]
      <4> DEFINE state == IF jobs[j].stalled < MaxStalledCount THEN "waiting" ELSE "failed"
                 n == jobs[j].stalled + 1
      <4>1. /\ state \in JobStates /\ n \in Nat
            /\ job = [jobs[j] EXCEPT !.stalled = n, !.state = state]
        BY <1>t DEF JobStates
      <4> HIDE DEF job, n, state
      <4>2. /\ job.stalled = n /\ job.attempts = jobs[j].attempts /\ job.state = state
            /\ job \in [state : JobStates, attempts : Nat, stalled : Nat, progress : Nat]
        BY <1>t, <4>1, JobRewritten
      <4> QED
        BY <4>2 DEF n, state
    <3>3. jobs[j].attempts \in Nat /\ jobs[j].stalled \in Nat /\ begun[j] \in Nat
      BY <1>t
    <3> HIDE DEF job
    <3> QED
      BY <2>1, <3>1, <3>2, <3>3 DEF JobStep
  <2>3. \A w \in Slots : Owned(w) =>
               jobs'[runs[w].job].state \in {"active", "completed", "removed"}
    BY <1>0, <2>1, OtherRuns DEF HasOwner, Owned, OneOwner, JobsTypeOK
  <2> QED
    BY <1>0, <2>1, <2>2, <2>3, BooksOfAJob, RunsLeftAlone
       DEF JobsInv, JobsTypeOK
<1>11. ASSUME runs' = [w \in Slots |-> Idle], UNCHANGED <<jobs, begun>>
       PROVE  JobsInv'
  <2>1. \A w \in Slots : ~Busy(w)'
    BY <1>11 DEF Busy
  <2> QED
    BY <1>0, <1>11, <2>1
       DEF JobsInv, JobsTypeOK, RunsArePaidFor, Budget, OneOwner,
           Owned
<1>12. ASSUME NEW states \in SUBSET {"waiting", "delayed", "completed", "failed"},
              RemoveIn(states)
       PROVE  JobsInv'
  <2>1. /\ jobs' = [j \in JobIds |-> IF jobs[j].state \in states
                                     THEN [jobs[j] EXCEPT !.state = "removed"] ELSE jobs[j]]
        /\ UNCHANGED <<runs, begun>>
    BY <1>12 DEF RemoveIn
  <2>2. JobsTypeOK'
    <3>1. ASSUME NEW j \in JobIds
          PROVE  jobs'[j] \in [state : JobStates, attempts : Nat, stalled : Nat, progress : Nat]
      <4>1. CASE jobs[j].state \in states
        BY <1>t, <2>1, <4>1 DEF JobStates
      <4>2. CASE jobs[j].state \notin states
        BY <1>t, <2>1, <4>2
      <4> QED
        BY <4>1, <4>2
    <3>2. jobs' \in [JobIds -> [state : JobStates, attempts : Nat, stalled : Nat,
                                progress : Nat]]
      BY <2>1, <3>1
    <3> QED
      BY <1>0, <2>1, <3>2 DEF JobsTypeOK, Busy
  <2>3. \A j \in JobIds : /\ jobs'[j].state \in {jobs[j].state, "removed"}
                          /\ jobs'[j].attempts = jobs[j].attempts
                          /\ jobs'[j].stalled = jobs[j].stalled
                          /\ jobs[j].state = "active" => jobs'[j] = jobs[j]
    BY <1>t, <2>1
  <2>4. RunsArePaidFor' /\ Budget'
    BY <1>0, <2>1, <2>3 DEF RunsArePaidFor, Budget
  <2>5. \A w \in Slots : Owned(w) =>
               jobs'[runs[w].job].state \in {"active", "completed", "removed"}
    BY <1>0, <2>3, OtherRuns DEF OneOwner, Owned
  <2> QED
    BY <2>1, <2>2, <2>4, <2>5, RunsLeftAlone DEF JobsInv
<1>13. ASSUME UNCHANGED <<jobs, runs, begun>> PROVE JobsInv'
  BY <1>0, <1>13
     DEF JobsInv, JobsTypeOK, RunsArePaidFor, Budget, OneOwner,
         Owned, Busy
<1>14. CASE CrashAndRestart \/ Restart
  BY <1>11, <1>14 DEF CrashAndRestart, Restart
<1>15. CASE EmptyQueue \/ CleanQueue
  BY <1>12, <1>15 DEF EmptyQueue, CleanQueue
<1>16. CASE \/ PauseQueue \/ ResumeQueue \/ GracefulShutdown \/ SeesNoActiveJob
            \/ DrainTimesOut \/ SigtermOrders \/ Close \/ UNCHANGED jobVars
  BY <1>13, <1>16
     DEF PauseQueue, ResumeQueue, GracefulShutdown, SeesNoActiveJob, DrainTimesOut,
         SigtermOrders, Close, jobVars
<1> QED
  BY <1>1, <1>2, <1>3, <1>5, <1>7, <1>8, <1>9, <1>10, <1>14, <1>15, <1>16 DEF JobsNext

\* However timeouts, lost locks, crashes, pauses and shutdowns interleave with
\* the work, for any number of jobs and executions: Bull waits for one
\* execution of a job at a time, and each but the first was paid for by an
\* attempt or a stall.
THEOREM RunsAreOneForEachLoss == JobsSpec => []RunsComeInTurn
<1>1. JobsInv => RunsComeInTurn
  BY DEF JobsInv, Budget, OneOwner, RunsComeInTurn
<1> QED
  BY JobsInitially, JobsInvIsKept, <1>1, PTL DEF JobsSpec

-----------------------------------------------------------------------------
(* The notification jobs.  An execution sends its mail and then saves its  *)
(* row, so the invariant says for each step of it how the mails stand to   *)
(* the rows: one mail may have gone out that no row tells of yet, and a    *)
(* job that is run again has paid for it.                                  *)

NoteStates == {"none", "waiting", "active", "delayed", "completed", "failed"}
Results == {"none", "SENT", "FAILED", "BOUNCED"}
Placeholders == OrderConfirmation \cup PaymentFailure \cup ShippingUpdate \cup WelcomeEmail
NoteRows == [status : Results, unfilled : SUBSET Placeholders]

NotesTypeOK ==
    /\ notes \in [NoteJobs -> [state : NoteStates, attempts : Nat, stalled : Nat]]
    /\ DOMAIN mailing = Mailers
    /\ \A w \in Mailers :
          Mailing(w) => mailing[w] \in [job : NoteJobs, at : {"send", "save"}, result : Results]
    /\ records \in [NoteJobs -> Seq(NoteRows)]
    /\ mails \in [NoteJobs -> Nat]
    /\ tracked \in [NoteJobs -> {"none", "SENT", "OPENED", "CLICKED"}]

\* A job that is in hand is active, and in nobody else's hands.
OneMailInHand ==
    \A w \in Mailers : Mailing(w) =>
        /\ notes[mailing[w].job].state = "active" /\ Known(mailing[w].job)
        /\ \A v \in Mailers : Mailing(v) /\ mailing[v].job = mailing[w].job => v = w

\* One mail more than rows and losses account for may be out while the job is
\* active; and it has a row for each run but the one it is in.
MailsAreAccounted ==
    \A j \in NoteJobs :
       /\ SentRows(j) <= mails[j]
       /\ mails[j] <= SentRows(j) + Repeated(j) + (IF notes[j].state = "active" THEN 1 ELSE 0)
       /\ Len(records[j]) <= Repeated(j) + (IF notes[j].state = "completed" THEN 1 ELSE 0)
       /\ notes[j].state = "completed" /\ Known(j) => records[j] # <<>>

\* An execution has a mail out that no row tells of.
Unrecorded(w) == Saving(w) /\ mailing[w].result = "SENT"

\* That mail is the one, and the provider knows of it; without it the account
\* is even.
MailInHandIsAccounted ==
    \A w \in Mailers : Mailing(w) =>
       IF Unrecorded(w)
       THEN /\ SentRows(mailing[w].job) + 1 <= mails[mailing[w].job]
            /\ tracked[mailing[w].job] # "none"
       ELSE mails[mailing[w].job] <= SentRows(mailing[w].job) + Repeated(mailing[w].job)

\* What a row says of the placeholders and of the provider is true.
RowIsTrue(row, j, known) ==
    /\ row.unfilled \cap (JobData[j].fields \cup {"customerName", "userName"}) = {}
    /\ row.status = "SENT" => known

RowsAreTrue ==
    \A j \in NoteJobs : \A i \in 1..Len(records[j]) :
       RowIsTrue(records[j][i], j, j \in died \/ tracked[j] # "none")

NotesInv ==
    /\ NotesTypeOK /\ OneMailInHand /\ MailsAreAccounted
    /\ MailInHandIsAccounted /\ RowsAreTrue

\* The rows of a table that say SENT.
SentIn(s) == {i \in DOMAIN s : s[i].status = "SENT"}

\* They can be counted, and one that is added counts if it says so.
LEMMA RowsAreCounted ==
    ASSUME NEW s \in Seq(NoteRows)
    PROVE  /\ IsFiniteSet(SentIn(s)) /\ Cardinality(SentIn(s)) \in Nat
           /\ \A i \in 1..Len(s) : s[i].status = "SENT" => Cardinality(SentIn(s)) > 0
           /\ s = <<>> => Cardinality(SentIn(s)) = 0
<1>1. IsFiniteSet(SentIn(s))
  <2>1. SentIn(s) \subseteq 1..Len(s) /\ Len(s) \in Nat
    BY DEF SentIn
  <2>2. IsFiniteSet(1..Len(s))
    BY <2>1, FS_Interval
  <2> QED
    BY <2>1, <2>2, FS_Subset
<1>2. Cardinality(SentIn(s)) \in Nat
  BY <1>1, FS_CardinalityType
<1>3. \A i \in 1..Len(s) : s[i].status = "SENT" => Cardinality(SentIn(s)) > 0
  <2> SUFFICES ASSUME NEW i \in 1..Len(s), s[i].status = "SENT"
               PROVE  Cardinality(SentIn(s)) > 0
    OBVIOUS
  <2>1. i \in SentIn(s)
    BY DEF SentIn
  <2>2. SentIn(s) # {}
    BY <2>1
  <2>3. Cardinality(SentIn(s)) # 0
    BY <1>1, <2>2, FS_EmptySet
  <2> QED
    BY <1>2, <2>3
<1>4. s = <<>> => SentIn(s) = {}
  BY DEF SentIn
<1> QED
  BY <1>1, <1>2, <1>3, <1>4, FS_EmptySet

\* A row added to the record adds one to the mails on record if it says SENT.
LEMMA RowIsCounted ==
    ASSUME NEW s \in Seq(NoteRows), NEW row \in NoteRows
    PROVE  Cardinality(SentIn(Append(s, row))) =
               Cardinality(SentIn(s)) + (IF row.status = "SENT" THEN 1 ELSE 0)
<1> DEFINE t == Append(s, row)
           n == Len(s) + 1
<1>1. /\ t \in Seq(NoteRows) /\ Len(t) = n /\ t[n] = row /\ Len(s) \in Nat
      /\ \A i \in 1..Len(s) : t[i] = s[i]
      /\ DOMAIN t = 1..n /\ DOMAIN s = 1..Len(s)
  OBVIOUS
<1> HIDE DEF t
<1>2. 1..n = (1..Len(s)) \cup {n} /\ n \notin 1..Len(s)
  BY <1>1
<1>3. IsFiniteSet(SentIn(s)) /\ Cardinality(SentIn(s)) \in Nat
  BY RowsAreCounted
<1>4. CASE row.status = "SENT"
  <2>1. SentIn(t) = SentIn(s) \cup {n} /\ n \notin SentIn(s)
    BY <1>1, <1>2, <1>4 DEF SentIn
  <2> QED
    BY <1>3, <1>4, <2>1, FS_AddElement DEF t
<1>5. CASE row.status # "SENT"
  <2>1. SentIn(t) = SentIn(s)
    BY <1>1, <1>2, <1>5 DEF SentIn
  <2> QED
    BY <1>3, <1>5, <2>1 DEF t
<1> QED
  BY <1>4, <1>5

\* A template's placeholders are names, and what is left of them is neither in
\* the job's data nor made up by the service.
LEMMA NothingFillableIsLeft ==
    ASSUME NEW j, Known(j)
    PROVE  /\ Unfilled(j) \in SUBSET Placeholders
           /\ Unfilled(j) \cap (JobData[j].fields \cup {"customerName", "userName"}) = {}
<1>1. JobData[j].type \in {"order-confirmation", "payment-failure", "shipping-update", "welcome"}
  BY DEF Known, Templates
<1>2. /\ Templates["order-confirmation"] = OrderConfirmation
      /\ Templates["payment-failure"] = PaymentFailure
      /\ Templates["shipping-update"] = ShippingUpdate
      /\ Templates["welcome"] = WelcomeEmail
  BY DEF Templates
<1>3. CASE JobData[j].type = "welcome"
  BY <1>2, <1>3 DEF Unfilled, TemplateData, OwnFields, WelcomeEmail, Placeholders
<1>4. CASE JobData[j].type # "welcome"
  <2> DEFINE T == Templates[JobData[j].type]
  <2>1. T \in SUBSET Placeholders /\ "userName" \notin T
    <3>1. OrderConfirmation \in SUBSET Placeholders /\ "userName" \notin OrderConfirmation
      BY DEF OrderConfirmation, Placeholders
    <3>2. PaymentFailure \in SUBSET Placeholders /\ "userName" \notin PaymentFailure
      BY DEF PaymentFailure, Placeholders
    <3>3. ShippingUpdate \in SUBSET Placeholders /\ "userName" \notin ShippingUpdate
      BY DEF ShippingUpdate, Placeholders
    <3> QED
      BY <1>1, <1>2, <1>4, <3>1, <3>2, <3>3
  <2>2. Unfilled(j) = T \ (JobData[j].fields \cup {"customerName"})
    BY <1>4 DEF Unfilled, TemplateData, OwnFields
  <2> HIDE DEF T
  <2> QED
    BY <2>1, <2>2
<1> QED
  BY <1>3, <1>4

\* Nothing is queued and nothing was sent at first.
LEMMA NotesInitially == NotesInit => NotesInv
<1> SUFFICES ASSUME NotesInit PROVE NotesInv
  OBVIOUS
<1>1. \A w \in Mailers : ~Mailing(w)
  BY DEF NotesInit, Mailing
<1>2. NotesTypeOK
  BY <1>1 DEF NotesInit, NotesTypeOK, NoteStates
<1>s. <<>> \in Seq(NoteRows)
  OBVIOUS
<1>3. \A j \in NoteJobs : SentRows(j) = 0
  <2> TAKE j \in NoteJobs
  <2>1. records[j] = <<>>
    BY DEF NotesInit
  <2>2. SentRows(j) = Cardinality(SentIn(records[j]))
    BY DEF SentRows, SentIn
  <2> QED
    BY <2>1, <2>2, RowsAreCounted, <1>s
<1>4. MailsAreAccounted
  BY <1>3 DEF NotesInit, MailsAreAccounted, Repeated
<1> QED
  BY <1>1, <1>2, <1>4 DEF NotesInit, NotesInv, OneMailInHand, MailInHandIsAccounted, RowsAreTrue

\* What the invariant says of one execution.
LEMMA InHandFacts ==
    ASSUME NotesInv, NEW w \in Mailers, Mailing(w)
    PROVE  /\ mailing[w].job \in NoteJobs /\ mailing[w].at \in {"send", "save"}
           /\ mailing[w].result \in Results
           /\ notes[mailing[w].job].state = "active" /\ Known(mailing[w].job)
           /\ \A v \in Mailers : Mailing(v) /\ mailing[v].job = mailing[w].job => v = w
BY DEF NotesInv, NotesTypeOK, OneMailInHand

\* The numbers of the account are numbers.
LEMMA AccountTypes ==
    ASSUME NotesInv, NEW j \in NoteJobs
    PROVE  /\ SentRows(j) \in Nat /\ mails[j] \in Nat /\ Repeated(j) \in Nat
           /\ notes[j] \in [state : NoteStates, attempts : Nat, stalled : Nat]
           /\ records[j] \in Seq(NoteRows) /\ Len(records[j]) \in Nat
           /\ SentRows(j) = Cardinality(SentIn(records[j]))
<1>1. /\ mails[j] \in Nat
      /\ notes[j] \in [state : NoteStates, attempts : Nat, stalled : Nat]
      /\ records[j] \in Seq(NoteRows)
  BY DEF NotesInv, NotesTypeOK
<1>2. SentRows(j) = Cardinality(SentIn(records[j]))
  BY DEF SentRows, SentIn
<1> QED
  BY <1>1, <1>2, RowsAreCounted DEF Repeated

\* The account of a job whose rows, mails and losses stand as given.
Even(j, note, rows, mailed) ==
    LET sent == Cardinality(SentIn(rows))
        again == note.attempts + note.stalled
    IN  /\ sent <= mailed
        /\ mailed <= sent + again + (IF note.state = "active" THEN 1 ELSE 0)
        /\ Len(rows) <= again + (IF note.state = "completed" THEN 1 ELSE 0)
        /\ note.state = "completed" /\ Known(j) => rows # <<>>

\* The account in numbers.
LEMMA EvenInNumbers ==
    ASSUME NEW j, NEW note, NEW rows, NEW mailed \in Nat,
           NEW sent \in Nat, NEW rowCount \in Nat, NEW again \in Nat,
           Cardinality(SentIn(rows)) = sent, Len(rows) = rowCount,
           note.attempts + note.stalled = again
    PROVE  Even(j, note, rows, mailed) <=>
             /\ sent <= mailed
             /\ note.state = "active" => mailed <= sent + again + 1
             /\ note.state # "active" => mailed <= sent + again
             /\ note.state = "completed" => rowCount <= again + 1
             /\ note.state # "completed" => rowCount <= again
             /\ note.state = "completed" /\ Known(j) => rows # <<>>
<1>1. CASE note.state = "active"
  BY <1>1 DEF Even
<1>2. CASE note.state = "completed"
  BY <1>2 DEF Even
<1>3. CASE note.state # "active" /\ note.state # "completed"
  BY <1>3 DEF Even
<1> QED
  BY <1>1, <1>2, <1>3

\* The account of an execution that stands so with its job.
InHandEven(mail, note, rows, mailed, track) ==
    LET sent == Cardinality(SentIn(rows))
    IN  IF mail.at = "save" /\ mail.result = "SENT"
        THEN sent + 1 <= mailed /\ track # "none"
        ELSE mailed <= sent + (note.attempts + note.stalled)

\* Both accounts, told of the values that a step leaves behind.
LEMMA AccountsAsValues ==
    /\ MailsAreAccounted <=>
         \A j \in NoteJobs : Even(j, notes[j], records[j], mails[j])
    /\ NotesTypeOK => (MailInHandIsAccounted <=>
         \A w \in Mailers : Mailing(w) =>
            InHandEven(mailing[w], notes[mailing[w].job], records[mailing[w].job],
                       mails[mailing[w].job], tracked[mailing[w].job]))
<1>1. \A j : SentRows(j) = Cardinality(SentIn(records[j]))
  BY DEF SentRows, SentIn
<1>2. MailsAreAccounted <=>
         \A j \in NoteJobs : Even(j, notes[j], records[j], mails[j])
  BY <1>1 DEF MailsAreAccounted, Even, Repeated
<1>3. ASSUME NotesTypeOK
      PROVE  MailInHandIsAccounted <=>
         \A w \in Mailers : Mailing(w) =>
            InHandEven(mailing[w], notes[mailing[w].job], records[mailing[w].job],
                       mails[mailing[w].job], tracked[mailing[w].job])
  <2>1. ASSUME NEW w \in Mailers, Mailing(w)
        PROVE  (IF Unrecorded(w)
                THEN /\ SentRows(mailing[w].job) + 1 <= mails[mailing[w].job]
                     /\ tracked[mailing[w].job] # "none"
                ELSE mails[mailing[w].job] <= SentRows(mailing[w].job) + Repeated(mailing[w].job))
               <=> InHandEven(mailing[w], notes[mailing[w].job], records[mailing[w].job],
                              mails[mailing[w].job], tracked[mailing[w].job])
    <3> DEFINE j == mailing[w].job
    <3>1. /\ j \in NoteJobs /\ records[j] \in Seq(NoteRows)
          /\ notes[j].attempts \in Nat /\ notes[j].stalled \in Nat
      BY <1>3, <2>1 DEF NotesTypeOK
    <3>2. SentRows(j) \in Nat
      BY <1>1, <3>1, RowsAreCounted
    <3>3. SentRows(j) + Repeated(j) = SentRows(j) + (notes[j].attempts + notes[j].stalled)
      BY <3>1, <3>2 DEF Repeated
    <3> QED
      BY <1>1, <2>1, <3>3 DEF InHandEven, Unrecorded, Saving
  <2> QED
    BY <2>1 DEF MailInHandIsAccounted
<1> QED
  BY <1>2, <1>3

\* A job in nobody's hands changes its state.
NoteStep(j, note) ==
    /\ notes' = [notes EXCEPT ![j] = note]
    /\ note \in [state : NoteStates, attempts : Nat, stalled : Nat]
    /\ Even(j, note, records[j], mails[j])
    /\ UNCHANGED <<mailing, records, mails, tracked, died>>

\* A job in nobody's hands changes its state: no mail and no row does.
LEMMA NoteStepKeeps ==
    ASSUME NotesInv, NEW j \in NoteJobs, ~InHand(j), NEW note, NoteStep(j, note)
    PROVE  NotesInv'
<1>0. NotesTypeOK /\ OneMailInHand /\ MailsAreAccounted /\ MailInHandIsAccounted /\ RowsAreTrue
  BY DEF NotesInv
<1>1. NotesTypeOK'
  BY <1>0 DEF NotesTypeOK, NoteStep, Mailing
<1>2. notes'[j] = note /\ \A i \in NoteJobs : i # j => notes'[i] = notes[i]
  BY <1>0 DEF NotesTypeOK, NoteStep
<1>3. \A w \in Mailers : Mailing(w) => mailing[w].job \in NoteJobs /\ mailing[w].job # j
  BY InHandFacts DEF InHand
<1>4. OneMailInHand'
  BY <1>0, <1>2, <1>3 DEF OneMailInHand, NoteStep, Mailing, Known
<1>5. \A i \in NoteJobs : Even(i, notes'[i], records'[i], mails'[i])
  BY <1>0, <1>2, AccountsAsValues DEF NoteStep
<1>6. MailsAreAccounted'
  BY <1>5, AccountsAsValues DEF Known, Even, SentRows, SentIn, MailsAreAccounted, Repeated
<1>7. MailInHandIsAccounted'
  BY <1>0, <1>2, <1>3
     DEF NoteStep, MailInHandIsAccounted, Mailing, Unrecorded, Saving, SentRows, Repeated
<1>8. RowsAreTrue'
  BY <1>0 DEF NoteStep, RowsAreTrue, RowIsTrue
<1> QED
  BY <1>1, <1>4, <1>6, <1>7, <1>8 DEF NotesInv

\* The accounts after a step, told of the values it leaves behind.
LEMMA AccountsAsNextValues ==
    /\ MailsAreAccounted' <=>
         \A j \in NoteJobs : Even(j, notes'[j], records'[j], mails'[j])
    /\ NotesTypeOK' => (MailInHandIsAccounted' <=>
         \A w \in Mailers : Mailing(w)' =>
            InHandEven(mailing'[w], notes'[mailing'[w].job], records'[mailing'[w].job],
                       mails'[mailing'[w].job], tracked'[mailing'[w].job]))
<1>1. (/\ MailsAreAccounted <=>
            \A j \in NoteJobs : Even(j, notes[j], records[j], mails[j])
       /\ NotesTypeOK => (MailInHandIsAccounted <=>
            \A w \in Mailers : Mailing(w) =>
               InHandEven(mailing[w], notes[mailing[w].job], records[mailing[w].job],
                          mails[mailing[w].job], tracked[mailing[w].job])))'
  BY AccountsAsValues, PTL
<1> QED
  BY <1>1 DEF Known, Even, InHandEven

\* What an execution writes of its job when it does a step: the job, its rows,
\* its mails and what the provider keeps, and itself.
MailerWrites(w, note, rows, mailed, track, mail) ==
    LET j == mailing[w].job
    IN  /\ notes' = [notes EXCEPT ![j] = note]
        /\ records' = [records EXCEPT ![j] = rows]
        /\ mails' = [mails EXCEPT ![j] = mailed]
        /\ tracked' = [tracked EXCEPT ![j] = track]
        /\ mailing' = [mailing EXCEPT ![w] = mail]
        /\ died' = died

\* What it writes is of the right kind and leaves the accounts even; and it
\* goes on with the job while that is active, or lets go of it.
WritesWell(w, note, rows, mailed, track, mail) ==
    LET j == mailing[w].job
    IN  /\ note \in [state : NoteStates, attempts : Nat, stalled : Nat]
        /\ rows \in Seq(NoteRows) /\ mailed \in Nat
        /\ track \in {"none", "SENT", "OPENED", "CLICKED"}
        /\ Even(j, note, rows, mailed)
        /\ \/ mail = NotMailing
           \/ /\ mail \in [job : {j}, at : {"send", "save"}, result : Results]
              /\ note.state = "active" /\ InHandEven(mail, note, rows, mailed, track)
        /\ \A i \in 1..Len(rows) : RowIsTrue(rows[i], j, j \in died \/ track # "none")

\* Then the whole invariant is kept.
LEMMA MailerStepKeeps ==
    ASSUME NotesInv, NEW w \in Mailers, Mailing(w),
           NEW note, NEW rows, NEW mailed, NEW track, NEW mail,
           MailerWrites(w, note, rows, mailed, track, mail),
           WritesWell(w, note, rows, mailed, track, mail)
    PROVE  NotesInv'
<1> DEFINE j == mailing[w].job
<1>0. NotesTypeOK /\ OneMailInHand /\ MailsAreAccounted /\ MailInHandIsAccounted /\ RowsAreTrue
  BY DEF NotesInv
<1>1. j \in NoteJobs /\ Known(j)
  BY InHandFacts
<1>2. /\ notes'[j] = note /\ records'[j] = rows /\ mails'[j] = mailed /\ tracked'[j] = track
      /\ mailing'[w] = mail /\ died' = died
      /\ \A i \in NoteJobs : i # j =>
           /\ notes'[i] = notes[i] /\ records'[i] = records[i] /\ mails'[i] = mails[i]
           /\ tracked'[i] = tracked[i]
      /\ \A v \in Mailers : v # w => mailing'[v] = mailing[v]
  BY <1>0, <1>1 DEF MailerWrites, NotesTypeOK
<1>3. \A v \in Mailers : v # w /\ Mailing(v)' => Mailing(v) /\ mailing[v].job # j
  BY <1>2, InHandFacts DEF Mailing
<1>4. Mailing(w)' => /\ mail \in [job : {j}, at : {"send", "save"}, result : Results]
                     /\ note.state = "active" /\ InHandEven(mail, note, rows, mailed, track)
                     /\ mail.job = j
  BY <1>2 DEF WritesWell, Mailing
<1>5. NotesTypeOK'
  <2>1. /\ notes' \in [NoteJobs -> [state : NoteStates, attempts : Nat, stalled : Nat]]
        /\ records' \in [NoteJobs -> Seq(NoteRows)]
        /\ mails' \in [NoteJobs -> Nat]
        /\ tracked' \in [NoteJobs -> {"none", "SENT", "OPENED", "CLICKED"}]
        /\ DOMAIN mailing' = Mailers
    BY <1>0, <1>1 DEF NotesTypeOK, MailerWrites, WritesWell
  <2>2. ASSUME NEW v \in Mailers, Mailing(v)'
        PROVE  mailing'[v] \in [job : NoteJobs, at : {"send", "save"}, result : Results]
    <3>1. CASE v = w
      BY <1>1, <1>2, <1>4, <2>2, <3>1
    <3>2. CASE v # w
      BY <1>0, <1>2, <1>3, <2>2, <3>2 DEF NotesTypeOK
    <3> QED
      BY <3>1, <3>2
  <2> QED
    BY <2>1, <2>2 DEF NotesTypeOK
<1>6. OneMailInHand'
  <2> SUFFICES ASSUME NEW v \in Mailers, Mailing(v)'
               PROVE  /\ notes'[mailing'[v].job].state = "active" /\ Known(mailing'[v].job)
                      /\ \A u \in Mailers :
                            Mailing(u)' /\ mailing'[u].job = mailing'[v].job => u = v
    BY DEF OneMailInHand
  <2>1. CASE v = w
    BY <1>1, <1>2, <1>3, <1>4, <2>1 DEF Known
  <2>2. CASE v # w
    <3>1. /\ mailing'[v] = mailing[v] /\ Mailing(v)
            /\ mailing[v].job # j /\ mailing[v].job \in NoteJobs
      BY <1>2, <1>3, <2>2, InHandFacts
    <3>2. notes'[mailing'[v].job].state = "active" /\ Known(mailing'[v].job)
      BY <1>2, <3>1, InHandFacts DEF Known
    <3>3. ASSUME NEW u \in Mailers, Mailing(u)', mailing'[u].job = mailing'[v].job PROVE u = v
      <4>1. u # w
        BY <1>2, <1>4, <3>1, <3>3
      <4>2. Mailing(u) /\ mailing'[u] = mailing[u]
        BY <1>2, <1>3, <3>3, <4>1
      <4> QED
        BY <3>1, <3>3, <4>2, InHandFacts
    <3> QED
      BY <3>2, <3>3
  <2> QED
    BY <2>1, <2>2
<1>7. MailsAreAccounted'
  <2>1. \A i \in NoteJobs : Even(i, notes'[i], records'[i], mails'[i])
    BY <1>0, <1>2, AccountsAsValues DEF WritesWell
  <2> QED
    BY <2>1, AccountsAsNextValues
<1>8. MailInHandIsAccounted'
  <2>1. ASSUME NEW v \in Mailers, Mailing(v)'
        PROVE  InHandEven(mailing'[v], notes'[mailing'[v].job], records'[mailing'[v].job],
                          mails'[mailing'[v].job], tracked'[mailing'[v].job])
    <3>1. CASE v = w
      BY <1>2, <1>4, <2>1, <3>1
    <3>2. CASE v # w
      <4>1. /\ mailing'[v] = mailing[v] /\ Mailing(v)
            /\ mailing[v].job # j /\ mailing[v].job \in NoteJobs
        BY <1>2, <1>3, <2>1, <3>2, InHandFacts
      <4> QED
        BY <1>0, <1>2, <4>1, AccountsAsValues
    <3> QED
      BY <3>1, <3>2
  <2> QED
    BY <1>5, <2>1, AccountsAsNextValues
<1>9. RowsAreTrue'
  BY <1>0, <1>2 DEF RowsAreTrue, WritesWell, RowIsTrue
<1> QED
  BY <1>5, <1>6, <1>7, <1>8, <1>9 DEF NotesInv

\* A notification's job with its state, and a loss if there is one, written.
LEMMA NoteRewritten ==
    ASSUME NEW r \in [state : NoteStates, attempts : Nat, stalled : Nat],
           NEW state \in NoteStates, NEW n \in Nat
    PROVE  /\ LET note == [r EXCEPT !.state = state]
              IN  /\ note.attempts = r.attempts /\ note.stalled = r.stalled /\ note.state = state
                  /\ note \in [state : NoteStates, attempts : Nat, stalled : Nat]
           /\ LET note == [r EXCEPT !.attempts = n, !.state = state]
              IN  /\ note.attempts = n /\ note.stalled = r.stalled /\ note.state = state
                  /\ note \in [state : NoteStates, attempts : Nat, stalled : Nat]
           /\ LET note == [r EXCEPT !.stalled = n, !.state = state]
              IN  /\ note.stalled = n /\ note.attempts = r.attempts /\ note.state = state
                  /\ note \in [state : NoteStates, attempts : Nat, stalled : Nat]
OBVIOUS

\* Every step of the notification jobs keeps the invariant.
LEMMA NotesInvIsKept == NotesInv /\ [NotesNext]_noteVars => NotesInv'
<1> SUFFICES ASSUME NotesInv, [NotesNext]_noteVars PROVE NotesInv'
  OBVIOUS
<1>0. NotesTypeOK /\ OneMailInHand /\ MailsAreAccounted /\ MailInHandIsAccounted /\ RowsAreTrue
  BY DEF NotesInv
<1>e. \A j \in NoteJobs :
        /\ Even(j, notes[j], records[j], mails[j])
        /\ notes[j] \in [state : NoteStates, attempts : Nat, stalled : Nat]
        /\ records[j] \in Seq(NoteRows) /\ mails[j] \in Nat
        /\ tracked[j] \in {"none", "SENT", "OPENED", "CLICKED"}
        /\ Len(records[j]) \in Nat /\ Cardinality(SentIn(records[j])) \in Nat
  BY <1>0, AccountsAsValues, RowsAreCounted DEF NotesTypeOK
<1>h. \A w \in Mailers : Mailing(w) =>
         InHandEven(mailing[w], notes[mailing[w].job], records[mailing[w].job],
                    mails[mailing[w].job], tracked[mailing[w].job])
  BY <1>0, AccountsAsValues
<1>a. \A j \in NoteJobs : notes[j].state # "active" => ~InHand(j)
  BY InHandFacts DEF InHand
<1>1. ASSUME NEW j \in NoteJobs, QueueNote(j) PROVE NotesInv'
  <2> DEFINE note == [notes[j] EXCEPT !.state = "waiting"]
  <2>1. NoteStep(j, note) /\ ~InHand(j)
    BY <1>0, <1>1, <1>a, <1>e DEF QueueNote, SetState, NoteStep, NotesTypeOK, NoteStates, Even
  <2> QED
    BY <2>1, NoteStepKeeps
<1>2. ASSUME NEW j \in NoteJobs, RetryNote(j) PROVE NotesInv'
  <2> DEFINE note == [notes[j] EXCEPT !.state = "waiting"]
  <2>1. NoteStep(j, note) /\ ~InHand(j)
    BY <1>0, <1>2, <1>a, <1>e DEF RetryNote, SetState, NoteStep, NotesTypeOK, NoteStates, Even
  <2> QED
    BY <2>1, NoteStepKeeps
<1>3. ASSUME NEW w \in Mailers, NEW j \in NoteJobs, HandleNotification(w, j), ~Known(j)
      PROVE  NotesInv'
  <2> DEFINE note == [notes[j] EXCEPT !.state = "completed"]
  <2>1. /\ notes[j].state = "waiting" /\ notes' = [notes EXCEPT ![j] = note]
        /\ UNCHANGED <<mailing, records, mails, tracked, died>>
    BY <1>0, <1>3 DEF HandleNotification, SetState, NotesTypeOK
  <2>2. /\ notes[j] \in [state : NoteStates, attempts : Nat, stalled : Nat]
        /\ "completed" \in NoteStates
    BY <1>e DEF NoteStates
  <2>3. /\ note.attempts = notes[j].attempts /\ note.stalled = notes[j].stalled
        /\ note.state = "completed"
        /\ note \in [state : NoteStates, attempts : Nat, stalled : Nat]
    BY <2>2, NoteRewritten
  <2> HIDE DEF note
  <2>4. Even(j, note, records[j], mails[j])
    <3>1. /\ Even(j, notes[j], records[j], mails[j]) /\ Len(records[j]) \in Nat
          /\ mails[j] \in Nat /\ Cardinality(SentIn(records[j])) \in Nat
          /\ notes[j].attempts \in Nat /\ notes[j].stalled \in Nat
      BY <1>e
    <3> DEFINE sent == Cardinality(SentIn(records[j]))
               again == Repeated(j)
               before == Len(records[j])
               mailed == mails[j]
    <3>2. again \in Nat /\ again = notes[j].attempts + notes[j].stalled
      BY <3>1 DEF Repeated
    <3>3. note.attempts + note.stalled = again
      BY <2>3, <3>2
    <3>7. before \in Nat /\ mailed \in Nat /\ sent \in Nat /\ Even(j, notes[j], records[j], mailed)
      BY <3>1
    <3>8. Cardinality(SentIn(records[j])) = sent /\ Len(records[j]) = before
      OBVIOUS
    <3> HIDE DEF again, sent, before, mailed
    <3>4. notes[j].state # "active" /\ notes[j].state # "completed" /\ note.state # "active"
      BY <2>1, <2>3
    <3>5. sent <= mailed /\ mailed <= sent + again /\ before <= again
      BY <3>2, <3>4, <3>7, <3>8, EvenInNumbers
    <3>6. before <= again + 1
      BY <3>2, <3>5, <3>7
    <3> QED
      BY <1>3, <2>3, <3>2, <3>3, <3>4, <3>5, <3>6, <3>7, <3>8, EvenInNumbers, SMTT(30) DEF mailed
  <2> QED
    BY <1>a, <2>1, <2>3, <2>4, NoteStepKeeps DEF NoteStep
<1>4. ASSUME NEW j \in NoteJobs, NoteStalled(j) PROVE NotesInv'
  <2> DEFINE state == IF notes[j].stalled < NoteStalls THEN "waiting" ELSE "failed"
             n == notes[j].stalled + 1
             note == [notes[j] EXCEPT !.stalled = n, !.state = state]
  <2>1. /\ notes[j].state = "active" /\ ~InHand(j) /\ notes' = [notes EXCEPT ![j] = note]
        /\ UNCHANGED <<mailing, records, mails, tracked, died>>
    BY <1>0, <1>4 DEF NoteStalled, NotesTypeOK
  <2>2. state \in {"waiting", "failed"} /\ n \in Nat
    BY <1>e
  <2>3. /\ note.stalled = n /\ note.attempts = notes[j].attempts /\ note.state = state
        /\ note \in [state : NoteStates, attempts : Nat, stalled : Nat]
    <3>1. /\ notes[j] \in [state : NoteStates, attempts : Nat, stalled : Nat]
          /\ state \in NoteStates /\ n \in Nat
      BY <1>e, <2>2 DEF NoteStates
    <3> HIDE DEF state, n
    <3> QED
      BY <3>1, NoteRewritten
  <2>4. Even(j, note, records[j], mails[j])
    <3>1. /\ Even(j, notes[j], records[j], mails[j]) /\ Len(records[j]) \in Nat
          /\ mails[j] \in Nat /\ Cardinality(SentIn(records[j])) \in Nat
          /\ notes[j].attempts \in Nat /\ notes[j].stalled \in Nat
      BY <1>e
    <3> DEFINE sent == Cardinality(SentIn(records[j]))
               again == Repeated(j)
               before == Len(records[j])
               mailed == mails[j]
    <3>2. again = notes[j].attempts + notes[j].stalled /\ again \in Nat
      BY <3>1 DEF Repeated
    <3>3. /\ note.attempts = notes[j].attempts /\ note.stalled = notes[j].stalled + 1
          /\ note.state # "active" /\ note.state # "completed"
      BY <2>2, <2>3
    <3>4. notes[j].state # "completed" /\ notes[j].state = "active"
      BY <2>1
    <3>5. before \in Nat /\ mailed \in Nat /\ sent \in Nat
      BY <3>1
    <3> HIDE DEF state, note, sent, again, before, mailed
    <3>6. sent <= mailed /\ mailed <= sent + again + 1 /\ before <= again
      BY <3>1, <3>2, <3>4, <3>5, EvenInNumbers, SMTT(30) DEF sent, before, mailed
    <3>7. note.attempts + note.stalled = again + 1
      <4>1. notes[j].attempts \in Nat /\ notes[j].stalled \in Nat
        BY <1>e
      <4> QED
        BY <3>2, <3>3, <4>1
    <3>8. again + 1 \in Nat /\ mailed <= sent + (again + 1) /\ before <= again + 1
      BY <3>2, <3>5, <3>6
    <3> QED
      BY <3>3, <3>5, <3>6, <3>7, <3>8, EvenInNumbers DEF sent, before, mailed
  <2> HIDE DEF state, note
  <2>5. NoteStep(j, note)
    BY <2>1, <2>3, <2>4 DEF NoteStep
  <2> QED
    BY <2>1, <2>5, NoteStepKeeps
<1>5. ASSUME NEW w \in Mailers, NEW j \in NoteJobs, HandleNotification(w, j), Known(j)
      PROVE  NotesInv'
  <2> DEFINE note == [notes[j] EXCEPT !.state = "active"]
             mail == [job |-> j, at |-> "send", result |-> "none"]
  <2>1. /\ notes[j].state = "waiting" /\ ~Mailing(w) /\ ~InHand(j)
        /\ notes' = [notes EXCEPT ![j] = note] /\ mailing' = [mailing EXCEPT ![w] = mail]
        /\ UNCHANGED <<records, mails, tracked, died>>
    BY <1>0, <1>5, <1>a DEF HandleNotification, SetState, NotesTypeOK
  <2>2. /\ notes'[j] = note /\ \A i \in NoteJobs : i # j => notes'[i] = notes[i]
        /\ mailing'[w] = mail /\ \A v \in Mailers : v # w => mailing'[v] = mailing[v]
        /\ note.state = "active" /\ note.attempts = notes[j].attempts
        /\ note.stalled = notes[j].stalled
        /\ note \in [state : NoteStates, attempts : Nat, stalled : Nat]
    BY <1>0, <1>e, <2>1 DEF NotesTypeOK, NoteStates
  <2> HIDE DEF note
  <2>3. \A v \in Mailers : Mailing(v) => mailing[v].job \in NoteJobs /\ mailing[v].job # j
    BY <2>1, InHandFacts DEF InHand
  <2>4. \A v \in Mailers : v # w /\ Mailing(v)' => Mailing(v)
    BY <2>2 DEF Mailing
  <2>5. NotesTypeOK'
    <3>1. /\ notes' \in [NoteJobs -> [state : NoteStates, attempts : Nat, stalled : Nat]]
          /\ DOMAIN mailing' = Mailers
      BY <1>0, <2>1, <2>2 DEF NotesTypeOK
    <3>2. mail \in [job : NoteJobs, at : {"send", "save"}, result : Results]
      BY DEF Results
    <3>3. \A v \in Mailers :
            Mailing(v)' => mailing'[v] \in [job : NoteJobs, at : {"send", "save"}, result : Results]
      BY <1>0, <2>2, <2>4, <3>2 DEF NotesTypeOK
    <3> QED
      BY <1>0, <2>1, <3>1, <3>3 DEF NotesTypeOK
  <2>6. OneMailInHand'
    <3>1. \A v \in Mailers : Mailing(v)' =>
            \/ v = w /\ mailing'[v].job = j
            \/ v # w /\ mailing'[v] = mailing[v] /\ Mailing(v) /\ mailing[v].job # j
      BY <2>2, <2>3, <2>4
    <3>2. \A v \in Mailers : Mailing(v)' =>
            notes'[mailing'[v].job].state = "active" /\ Known(mailing'[v].job)
      BY <1>5, <2>2, <2>3, <3>1, InHandFacts
    <3>3. \A u, v \in Mailers :
            Mailing(u)' /\ Mailing(v)' /\ mailing'[u].job = mailing'[v].job => u = v
      BY <3>1, InHandFacts
    <3> QED
      BY <3>2, <3>3 DEF OneMailInHand, Known
  <2>7. MailsAreAccounted'
    <3>1. /\ Even(j, note, records[j], mails[j])
          /\ InHandEven(mail, note, records[j], mails[j], tracked[j])
      BY <1>e, <2>1, <2>2 DEF Even, InHandEven
    <3>2. \A i \in NoteJobs : Even(i, notes'[i], records'[i], mails'[i])
      BY <1>e, <2>1, <2>2, <3>1
    <3> QED
      BY <3>2, AccountsAsNextValues
  <2>8. MailInHandIsAccounted'
    <3>1. InHandEven(mail, note, records[j], mails[j], tracked[j]) /\ mail.job = j
      BY <1>e, <2>1, <2>2 DEF Even, InHandEven
    <3>2. ASSUME NEW v \in Mailers, Mailing(v)'
          PROVE  InHandEven(mailing'[v], notes'[mailing'[v].job], records'[mailing'[v].job],
                            mails'[mailing'[v].job], tracked'[mailing'[v].job])
      <4>1. CASE v = w
        BY <2>1, <2>2, <3>1, <4>1
      <4>2. CASE v # w
        BY <1>h, <2>1, <2>2, <2>3, <2>4, <3>2, <4>2
      <4> QED
        BY <4>1, <4>2
    <3> QED
      BY <2>5, <3>2, AccountsAsNextValues
  <2>9. RowsAreTrue'
    BY <1>0, <2>1 DEF RowsAreTrue, RowIsTrue
  <2> QED
    BY <2>5, <2>6, <2>7, <2>8, <2>9 DEF NotesInv
<1>6. ASSUME NEW w \in Mailers, Mailing(w)
      PROVE  LET j == mailing[w].job
             IN  /\ j \in NoteJobs /\ Known(j) /\ notes[j].state = "active"
                 /\ notes' = [notes EXCEPT ![j] = notes[j]] <=> notes' = notes
                 /\ records' = [records EXCEPT ![j] = records[j]] <=> records' = records
                 /\ mails' = [mails EXCEPT ![j] = mails[j]] <=> mails' = mails
                 /\ tracked' = [tracked EXCEPT ![j] = tracked[j]] <=> tracked' = tracked
  BY <1>0, <1>6, InHandFacts DEF NotesTypeOK
<1>r. ASSUME NEW w \in Mailers, Mailing(w)
      PROVE  \A i \in 1..Len(records[mailing[w].job]) :
                RowIsTrue(records[mailing[w].job][i], mailing[w].job,
                          mailing[w].job \in died \/ tracked[mailing[w].job] # "none")
  BY <1>0, <1>6, <1>r DEF RowsAreTrue
<1>n. ASSUME NEW w \in Mailers, Mailing(w)
      PROVE  LET j == mailing[w].job
                 sent == Cardinality(SentIn(records[j]))
             IN  /\ notes[j].attempts \in Nat /\ notes[j].stalled \in Nat
                 /\ notes[j] \in [state : NoteStates, attempts : Nat, stalled : Nat]
                 /\ records[j] \in Seq(NoteRows) /\ Len(records[j]) \in Nat
                 /\ mails[j] \in Nat /\ sent \in Nat /\ sent <= mails[j]
                 /\ tracked[j] \in {"none", "SENT", "OPENED", "CLICKED"}
                 /\ Repeated(j) = notes[j].attempts + notes[j].stalled /\ Repeated(j) \in Nat
                 /\ Len(records[j]) <= Repeated(j) /\ mails[j] <= sent + Repeated(j) + 1
  <2> DEFINE j == mailing[w].job
             sent == Cardinality(SentIn(records[j]))
  <2>1. j \in NoteJobs /\ notes[j].state = "active"
    BY <1>6, <1>n
  <2>2. /\ notes[j].attempts \in Nat /\ notes[j].stalled \in Nat
        /\ notes[j] \in [state : NoteStates, attempts : Nat, stalled : Nat]
        /\ records[j] \in Seq(NoteRows) /\ Len(records[j]) \in Nat
        /\ mails[j] \in Nat /\ sent \in Nat
        /\ tracked[j] \in {"none", "SENT", "OPENED", "CLICKED"}
    BY <1>e, <2>1
  <2>3. Even(j, notes[j], records[j], mails[j])
    BY <1>e, <2>1
  <2>4. Repeated(j) = notes[j].attempts + notes[j].stalled /\ Repeated(j) \in Nat
    BY <2>2 DEF Repeated
  <2> DEFINE again == Repeated(j)
             before == Len(records[j])
             mailed == mails[j]
  <2>5. sent <= mailed /\ before <= again /\ mailed <= sent + again + 1
    <3>1. again = notes[j].attempts + notes[j].stalled /\ again \in Nat
      BY <2>4
    <3>2. before \in Nat /\ mailed \in Nat /\ sent \in Nat
      BY <2>2
    <3>3. notes[j].state = "active" /\ notes[j].state # "completed"
      BY <2>1
    <3> HIDE DEF again, before, mailed, sent
    <3> QED
      BY <2>3, <3>1, <3>2, <3>3, EvenInNumbers, SMTT(30) DEF before, mailed, sent
  <2> QED
    BY <2>2, <2>4, <2>5
<1>7. ASSUME NEW w \in Mailers, MailGoesOut(w) PROVE NotesInv'
  <2> DEFINE j == mailing[w].job
             mail == [mailing[w] EXCEPT !.at = "save", !.result = "SENT"]
  <2>1. Mailing(w) /\ mailing[w].at = "send"
    BY <1>7 DEF MailGoesOut, Sending
  <2>2. MailerWrites(w, notes[j], records[j], mails[j] + 1, "SENT", mail)
    BY <1>0, <1>6, <1>7, <2>1 DEF MailGoesOut, MailerWrites, ToSave, NotesTypeOK
  <2>3. mail \in [job : {j}, at : {"send", "save"}, result : Results]
        /\ mail.at = "save" /\ mail.result = "SENT"
    BY <1>0, <2>1 DEF NotesTypeOK, Results
  <2>4. j \in NoteJobs /\ Known(j) /\ notes[j].state = "active"
    BY <1>6, <2>1
  <2>5. InHandEven(mailing[w], notes[j], records[j], mails[j], tracked[j])
    BY <1>h, <2>1
  <2>6. /\ Even(j, notes[j], records[j], mails[j] + 1)
        /\ InHandEven(mail, notes[j], records[j], mails[j] + 1, "SENT")
    <3> DEFINE sent == Cardinality(SentIn(records[j]))
               again == Repeated(j)
               before == Len(records[j])
               mailed == mails[j]
    <3>1. /\ again \in Nat /\ before \in Nat /\ mailed \in Nat /\ sent \in Nat
          /\ sent <= mailed /\ before <= again
      BY <1>n, <2>1
    <3>2. again = notes[j].attempts + notes[j].stalled
      BY <1>n, <2>1
    <3>3. mailed <= sent + again
      BY <2>1, <2>5, <3>2 DEF InHandEven
    <3>4. notes[j].state = "active" /\ notes[j].state # "completed"
      BY <2>4
    <3>5. Cardinality(SentIn(records[j])) = sent /\ Len(records[j]) = before
      OBVIOUS
    <3> DEFINE now == mailed + 1
    <3> HIDE DEF mail, sent, again, before, mailed
    <3>6. /\ now \in Nat /\ sent <= now /\ now <= sent + again + 1 /\ sent + 1 <= now
      BY <3>1, <3>3
    <3> HIDE DEF now
    <3>7. Even(j, notes[j], records[j], now)
      BY <3>1, <3>2, <3>4, <3>5, <3>6, EvenInNumbers, SMTT(30)
    <3>8. InHandEven(mail, notes[j], records[j], now, "SENT")
      BY <2>3, <3>5, <3>6 DEF InHandEven
    <3> QED
      BY <3>7, <3>8 DEF now, mailed
  <2>7. \A i \in 1..Len(records[j]) : RowIsTrue(records[j][i], j, j \in died \/ "SENT" # "none")
    BY <1>r, <2>1 DEF RowIsTrue
  <2>8. WritesWell(w, notes[j], records[j], mails[j] + 1, "SENT", mail)
    <3>1. /\ notes[j] \in [state : NoteStates, attempts : Nat, stalled : Nat]
          /\ records[j] \in Seq(NoteRows) /\ mails[j] + 1 \in Nat
      BY <1>n, <2>1
    <3> HIDE DEF mail
    <3> QED
      BY <2>3, <2>4, <2>6, <2>7, <3>1 DEF WritesWell
  <2> QED
    BY <2>1, <2>2, <2>8, MailerStepKeeps
<1>8. ASSUME NEW w \in Mailers, MailRefused(w) PROVE NotesInv'
  <2>1. PICK result \in {"FAILED", "BOUNCED"} : ToSave(w, result)
    BY <1>8 DEF MailRefused
  <2> DEFINE j == mailing[w].job
             mail == [mailing[w] EXCEPT !.at = "save", !.result = result]
  <2>2. Mailing(w) /\ mailing[w].at = "send"
    BY <1>8 DEF MailRefused, Sending
  <2>3. MailerWrites(w, notes[j], records[j], mails[j], tracked[j], mail)
    BY <1>0, <1>6, <1>8, <2>1, <2>2 DEF MailRefused, MailerWrites, ToSave, NotesTypeOK
  <2>4. mail \in [job : {j}, at : {"send", "save"}, result : Results]
        /\ mail.at = "save" /\ mail.result # "SENT"
    BY <1>0, <2>2 DEF NotesTypeOK, Results
  <2>5. j \in NoteJobs /\ Known(j) /\ notes[j].state = "active"
    BY <1>6, <2>2
  <2>6. InHandEven(mailing[w], notes[j], records[j], mails[j], tracked[j])
    BY <1>h, <2>2
  <2>7. InHandEven(mail, notes[j], records[j], mails[j], tracked[j])
    <3> HIDE DEF mail
    <3> QED
      BY <2>2, <2>4, <2>6 DEF InHandEven
  <2>8. WritesWell(w, notes[j], records[j], mails[j], tracked[j], mail)
    <3> HIDE DEF mail
    <3> QED
      BY <1>e, <1>r, <2>2, <2>4, <2>5, <2>7 DEF WritesWell
  <2> QED
    BY <2>2, <2>3, <2>8, MailerStepKeeps
<1>9. ASSUME NEW w \in Mailers, Saving(w), NEW note,
             note \in [state : NoteStates, attempts : Nat, stalled : Nat],
             \/ note.state = "completed" /\ note.attempts = notes[mailing[w].job].attempts
             \/ /\ note.state \in {"delayed", "failed"}
                /\ note.attempts = notes[mailing[w].job].attempts + 1,
             note.stalled = notes[mailing[w].job].stalled,
             notes' = [notes EXCEPT ![mailing[w].job] = note],
             AddRow(w) \/ (note.state # "completed" /\ UNCHANGED records),
             Release(w), UNCHANGED <<mails, tracked, died>>
      PROVE  NotesInv'
  <2> DEFINE j == mailing[w].job
             rows == IF AddRow(w) THEN Append(records[j], Row(w)) ELSE records[j]
  <2>1. Mailing(w) /\ mailing[w].at = "save" /\ mailing[w].result \in Results
    BY <1>9, InHandFacts DEF Saving
  <2>2. j \in NoteJobs /\ Known(j) /\ notes[j].state = "active"
    BY <1>6, <2>1
  <2>3. /\ Row(w) \in NoteRows /\ Row(w).status = mailing[w].result
        /\ Row(w).unfilled \cap (JobData[j].fields \cup {"customerName", "userName"}) = {}
    BY <2>1, <2>2, NothingFillableIsLeft DEF Row, NoteRows
  <2>4. MailerWrites(w, note, rows, mails[j], tracked[j], NotMailing)
    BY <1>0, <1>6, <1>9, <2>1 DEF MailerWrites, AddRow, Release, NotesTypeOK
  <2>5. InHandEven(mailing[w], notes[j], records[j], mails[j], tracked[j])
    BY <1>h, <2>1
  <2>6. \A i \in 1..Len(records[j]) : RowIsTrue(records[j][i], j, j \in died \/ tracked[j] # "none")
    BY <1>r, <2>1
  <2>7. /\ rows \in Seq(NoteRows) /\ Even(j, note, rows, mails[j])
        /\ \A i \in 1..Len(rows) : RowIsTrue(rows[i], j, j \in died \/ tracked[j] # "none")
    <3>1. CASE AddRow(w)
      <4> DEFINE s == records[j]
                 row == Row(w)
      <4>0. s \in Seq(NoteRows) /\ row \in NoteRows
        BY <1>e, <2>2, <2>3
      <4>1. rows = Append(s, row)
        BY <3>1
      <4>2. Cardinality(SentIn(rows)) =
                Cardinality(SentIn(s)) + (IF row.status = "SENT" THEN 1 ELSE 0)
        BY <4>0, <4>1, RowIsCounted
      <4>3. /\ rows \in Seq(NoteRows) /\ Len(rows) = Len(s) + 1 /\ rows # <<>>
            /\ \A i \in 1..Len(rows) : (i \in 1..Len(s) /\ rows[i] = s[i]) \/ rows[i] = row
        <5> HIDE DEF rows, s, row
        <5>1. rows \in Seq(NoteRows) /\ Len(rows) = Len(s) + 1 /\ Len(s) \in Nat
          BY <4>0, <4>1
        <5>2. rows[Len(s) + 1] = row /\ \A i \in 1..Len(s) : rows[i] = s[i]
          BY <4>0, <4>1
        <5>3. rows # <<>>
          BY <5>1
        <5>4. \A i \in 1..Len(rows) : i \in 1..Len(s) \/ i = Len(s) + 1
          BY <5>1
        <5> QED
          BY <5>1, <5>2, <5>3, <5>4
      <4>4. RowIsTrue(row, j, j \in died \/ tracked[j] # "none")
        BY <2>1, <2>3, <2>5 DEF RowIsTrue, InHandEven
      <4>5. Even(j, note, rows, mails[j])
        <5> DEFINE sent == Cardinality(SentIn(records[j]))
                   again == Repeated(j)
                   count == Cardinality(SentIn(rows))
                   before == Len(records[j])
                   after == Len(rows)
                   mailed == mails[j]
        <5>1. /\ again \in Nat /\ before \in Nat /\ mailed \in Nat /\ sent \in Nat
              /\ sent <= mailed /\ before <= again /\ mailed <= sent + again + 1
          BY <1>n, <2>1
        <5>2. IF row.status = "SENT" THEN sent + 1 <= mailed ELSE mailed <= sent + again
          <6>1. again = notes[j].attempts + notes[j].stalled
            BY <1>n, <2>1
          <6> QED
            BY <2>1, <2>3, <2>5, <6>1 DEF InHandEven
        <5>3. note.stalled = notes[j].stalled /\ note.state # "active"
          BY <1>9
        <5>4. \/ note.state = "completed" /\ note.attempts + note.stalled = again
              \/ note.state # "completed" /\ note.attempts + note.stalled = again + 1
          <6>1. /\ again = notes[j].attempts + notes[j].stalled
                /\ notes[j].attempts \in Nat /\ notes[j].stalled \in Nat
            BY <1>n, <2>1
          <6>2. \/ note.state = "completed" /\ note.attempts = notes[j].attempts
                \/ note.state # "completed" /\ note.attempts = notes[j].attempts + 1
            BY <1>9
          <6> HIDE DEF again
          <6> QED
            BY <5>3, <6>1, <6>2
        <5>5. count = IF row.status = "SENT" THEN sent + 1 ELSE sent
          <6>1. sent \in Nat
            BY <1>n, <2>1
          <6> HIDE DEF row, rows
          <6> QED
            BY <4>2, <6>1
        <5>6. after = before + 1 /\ rows # <<>>
          BY <4>3
        <5> HIDE DEF rows, row, sent, again, count, before, after, mailed
        <5>7. count \in Nat /\ count <= mailed /\ mailed <= count + again
          BY <5>1, <5>2, <5>5
        <5>8. after \in Nat /\ after <= again + 1 /\ again + 1 \in Nat
          BY <5>1, <5>6
        <5>9. CASE note.state = "completed"
          <6>1. note.attempts + note.stalled = again
            BY <5>4, <5>9
          <6> QED
            BY <5>1, <5>6, <5>7, <5>8, <5>9, <6>1, EvenInNumbers, SMTT(30)
               DEF count, after, mailed
        <5>10. CASE note.state # "completed"
          <6>1. note.attempts + note.stalled = again + 1
            BY <5>4, <5>10
          <6>2. mailed <= count + (again + 1)
            BY <5>1, <5>7
          <6> QED
            BY <5>1, <5>3, <5>7, <5>8, <5>10, <6>1, <6>2, EvenInNumbers, SMTT(30)
               DEF count, after, mailed
        <5> QED
          BY <5>9, <5>10 DEF mailed
      <4> QED
        BY <2>6, <4>3, <4>4, <4>5
    <3>2. CASE ~AddRow(w)
      <4>1. rows = records[j] /\ note.state # "completed"
        BY <1>9, <3>2
      <4>2. Even(j, note, rows, mails[j])
        <5> DEFINE sent == Cardinality(SentIn(records[j]))
                   again == Repeated(j)
                   before == Len(records[j])
                   mailed == mails[j]
        <5>1. /\ again \in Nat /\ before \in Nat /\ mailed \in Nat /\ sent \in Nat
              /\ sent <= mailed /\ before <= again /\ mailed <= sent + again + 1
          BY <1>n, <2>1
        <5>2. /\ note.state # "active" /\ note.state # "completed"
              /\ note.attempts = notes[j].attempts + 1 /\ note.stalled = notes[j].stalled
          BY <1>9, <4>1
        <5>3. /\ again = notes[j].attempts + notes[j].stalled
              /\ notes[j].attempts \in Nat /\ notes[j].stalled \in Nat
          BY <1>n, <2>1
        <5>4. Cardinality(SentIn(rows)) = sent /\ Len(rows) = before
          BY <4>1
        <5> HIDE DEF rows, again, sent, before, mailed
        <5>5. note.attempts + note.stalled = again + 1
          BY <5>2, <5>3
        <5>6. again + 1 \in Nat /\ mailed <= sent + (again + 1) /\ before <= again + 1
          BY <5>1
        <5>7. Even(j, note, rows, mailed)
          BY <5>1, <5>2, <5>4, <5>5, <5>6, EvenInNumbers
        <5> QED
          BY <5>7 DEF mailed
      <4> QED
        BY <1>e, <2>2, <2>6, <4>1, <4>2
    <3> QED
      BY <3>1, <3>2
  <2>8. WritesWell(w, note, rows, mails[j], tracked[j], NotMailing)
    <3> HIDE DEF rows
    <3> QED
      BY <1>9, <1>e, <2>2, <2>7 DEF WritesWell
  <2> QED
    BY <2>1, <2>4, <2>8, MailerStepKeeps
<1>10. ASSUME NEW w \in Mailers, SaveNotification(w) PROVE NotesInv'
  <2> DEFINE j == mailing[w].job
             note == [notes[j] EXCEPT !.state = "completed"]
  <2>1. Mailing(w) /\ j \in NoteJobs
    BY <1>6, <1>10 DEF SaveNotification, Saving
  <2>2. /\ note \in [state : NoteStates, attempts : Nat, stalled : Nat]
        /\ note.state = "completed" /\ note.attempts = notes[j].attempts
        /\ note.stalled = notes[j].stalled
        /\ notes' = [notes EXCEPT ![j] = note]
    <3>1. notes' = [notes EXCEPT ![j] = note]
      BY <1>0, <1>10, <2>1 DEF SaveNotification, SetState, NotesTypeOK
    <3>2. /\ "completed" \in NoteStates
          /\ notes[j] \in [state : NoteStates, attempts : Nat, stalled : Nat]
      BY <1>e, <2>1 DEF NoteStates
    <3> QED
      BY <3>1, <3>2, NoteRewritten
  <2> HIDE DEF note
  <2> QED
    BY <1>9, <1>10, <2>2 DEF SaveNotification
<1>11. ASSUME NEW w \in Mailers, SaveFails(w) PROVE NotesInv'
  <2> DEFINE j == mailing[w].job
             state == IF notes[j].attempts + 1 < NoteAttempts THEN "delayed" ELSE "failed"
             n == notes[j].attempts + 1
             note == [notes[j] EXCEPT !.attempts = n, !.state = state]
  <2>1. Mailing(w) /\ j \in NoteJobs
    BY <1>6, <1>11 DEF SaveFails, Saving
  <2>2. state \in {"delayed", "failed"} /\ state \in NoteStates /\ n \in Nat
    BY <1>e, <2>1 DEF NoteStates
  <2>3. notes' = [notes EXCEPT ![j] = note]
    BY <1>0, <1>11, <2>1 DEF SaveFails, NotesTypeOK
  <2>4. /\ note \in [state : NoteStates, attempts : Nat, stalled : Nat]
        /\ note.state = state /\ note.attempts = n /\ note.stalled = notes[j].stalled
    <3> HIDE DEF state, n
    <3> QED
      BY <1>e, <2>1, <2>2
  <2> HIDE DEF note, state
  <2>5. note.state \in {"delayed", "failed"} /\ note.attempts = notes[j].attempts + 1
    BY <2>2, <2>4
  <2> QED
    BY <1>9, <1>11, <2>3, <2>4, <2>5 DEF SaveFails
<1>12. ASSUME NEW j \in NoteJobs, MailOpened(j) \/ MailClicked(j) PROVE NotesInv'
  <2>1. /\ \E status \in {"OPENED", "CLICKED"} : tracked' = [tracked EXCEPT ![j] = status]
        /\ tracked[j] # "none"
        /\ UNCHANGED <<notes, mailing, records, mails, died>>
    BY <1>12 DEF MailOpened, MailClicked
  <2>2. \A i \in NoteJobs : tracked[i] # "none" => tracked'[i] # "none"
    BY <1>0, <2>1 DEF NotesTypeOK
  <2>3. NotesTypeOK' /\ OneMailInHand'
    BY <1>0, <2>1 DEF NotesTypeOK, OneMailInHand, Mailing, Known
  <2>4. MailsAreAccounted'
    BY <1>e, <2>1, AccountsAsNextValues
  <2>5. MailInHandIsAccounted'
    <3>1. \A w \in Mailers : Mailing(w)' => Mailing(w) /\ mailing[w].job \in NoteJobs
      BY <2>1, InHandFacts DEF Mailing
    <3>2. \A w \in Mailers : Mailing(w)' =>
            InHandEven(mailing'[w], notes'[mailing'[w].job], records'[mailing'[w].job],
                       mails'[mailing'[w].job], tracked'[mailing'[w].job])
      BY <1>h, <2>1, <2>2, <3>1 DEF InHandEven
    <3> QED
      BY <2>3, <3>2, AccountsAsNextValues
  <2>6. RowsAreTrue'
    BY <1>0, <2>1, <2>2 DEF RowsAreTrue, RowIsTrue
  <2> QED
    BY <2>3, <2>4, <2>5, <2>6 DEF NotesInv
<1>13. CASE ProcessDies
  <2>1. /\ mailing' = [w \in Mailers |-> NotMailing] /\ tracked' = [j \in NoteJobs |-> "none"]
        /\ died' = died \cup {j \in NoteJobs : mails[j] > 0}
        /\ UNCHANGED <<notes, records, mails>>
    BY <1>13 DEF ProcessDies
  <2>2. \A w \in Mailers : ~Mailing(w)'
    BY <2>1 DEF Mailing
  <2>3. NotesTypeOK' /\ OneMailInHand' /\ MailInHandIsAccounted'
    BY <1>0, <2>1, <2>2 DEF NotesTypeOK, OneMailInHand, MailInHandIsAccounted
  <2>4. MailsAreAccounted'
    BY <1>e, <2>1, AccountsAsNextValues
  <2>5. RowsAreTrue'
    <3> SUFFICES ASSUME NEW j \in NoteJobs, NEW i \in 1..Len(records[j])
                 PROVE  RowIsTrue(records[j][i], j, j \in died' \/ tracked'[j] # "none")
      BY <2>1 DEF RowsAreTrue, RowIsTrue
    <3>1. records[j][i].unfilled
                        \cap (JobData[j].fields \cup {"customerName", "userName"}) = {}
      BY <1>0 DEF RowsAreTrue, RowIsTrue
    <3>2. ASSUME records[j][i].status = "SENT" PROVE j \in died'
      <4>1. Cardinality(SentIn(records[j])) > 0
        BY <1>e, <3>2, RowsAreCounted
      <4>2. mails[j] > 0
        BY <1>e, <4>1 DEF Even
      <4> QED
        BY <2>1, <4>2
    <3> QED
      BY <3>1, <3>2 DEF RowIsTrue
  <2> QED
    BY <2>3, <2>4, <2>5 DEF NotesInv
<1>14. CASE UNCHANGED noteVars
  BY <1>0, <1>14
     DEF noteVars, NotesInv, NotesTypeOK, OneMailInHand, MailsAreAccounted, RowsAreTrue,
         MailInHandIsAccounted, Mailing, Known, Unrecorded, Saving, SentRows, Repeated, RowIsTrue
<1> QED
  BY <1>1, <1>2, <1>3, <1>4, <1>5, <1>7, <1>8, <1>10, <1>11, <1>12, <1>13, <1>14 DEF NotesNext

\* However failed saves, stalls and deaths of the process interleave with the
\* sending, for any jobs and executions: a job that is done with has its row,
\* the mails are the rows that say SENT and one more at most for each time the
\* job was run again, and the provider bears the table out until the process
\* dies.
THEOREM TheTableAccountsForTheMails == NotesSpec => []MailsAreOnRecord
<1>1. NotesInv => MailsAreOnRecord
  <2> SUFFICES ASSUME NotesInv, NEW j \in NoteJobs
      PROVE  /\ notes[j].state = "completed" /\ Known(j) => records[j] # <<>>
             /\ NoteEnded(j) => /\ SentRows(j) <= mails[j] /\ mails[j] <= SentRows(j) + Repeated(j)
                                /\ Len(records[j]) <= 1 + Repeated(j)
             /\ \A i \in DOMAIN records[j] :
                   /\ records[j][i].unfilled
                        \cap (JobData[j].fields \cup {"customerName", "userName"}) = {}
                   /\ GetNotificationStatus(records[j][i]) => j \in died \/ GetStatus(j) # "FAILED"
    BY DEF MailsAreOnRecord
  <2>1. MailsAreAccounted /\ RowsAreTrue /\ NotesTypeOK
    BY DEF NotesInv
  <2>2. notes[j].state = "completed" /\ Known(j) => records[j] # <<>>
    BY <2>1 DEF MailsAreAccounted
  <2>3. NoteEnded(j) => /\ SentRows(j) <= mails[j] /\ mails[j] <= SentRows(j) + Repeated(j)
                        /\ Len(records[j]) <= 1 + Repeated(j)
    BY <2>1, AccountTypes DEF MailsAreAccounted, NoteEnded
  <2>4. ASSUME NEW i \in DOMAIN records[j]
        PROVE  /\ records[j][i].unfilled
                        \cap (JobData[j].fields \cup {"customerName", "userName"}) = {}
               /\ GetNotificationStatus(records[j][i]) => j \in died \/ GetStatus(j) # "FAILED"
    <3>1. records[j] \in Seq(NoteRows) /\ i \in 1..Len(records[j]) /\ records[j][i] \in NoteRows
      BY AccountTypes
    <3>2. RowIsTrue(records[j][i], j, j \in died \/ tracked[j] # "none")
      BY <2>1, <3>1 DEF RowsAreTrue
    <3>3. records[j][i].status \in Results
      BY <3>1 DEF NoteRows
    <3>4. GetNotificationStatus(records[j][i]) => records[j][i].status = "SENT"
      BY <3>3 DEF Results, GetNotificationStatus
    <3>5. tracked[j] # "none" => GetStatus(j) # "FAILED"
      BY <2>1 DEF GetStatus, NotesTypeOK
    <3> QED
      BY <3>2, <3>4, <3>5 DEF RowIsTrue
  <2> QED
    BY <2>2, <2>3, <2>4
<1> QED
  BY NotesInitially, NotesInvIsKept, <1>1, PTL DEF NotesSpec

-----------------------------------------------------------------------------
(* The scheduler.  Stop blocks on a channel that only the goroutine reads,  *)
(* so the process ends only if the goroutine is never gone before it; and   *)
(* the reservations are worked off only if none comes back.                 *)

SchedulerSpec == SchedulerInit /\ [][SchedulerNext]_schedulerVars

Released == Expiring \ (pending \cup backlog)

\* The goroutine has ended exactly while the process shuts down or is down.
GoroutineLives == loop = "ended" <=> process \in {"closing", "down"}

\* A sweep's list is in its hands only, and holds what had expired.
SweepsHoldExpired ==
    /\ left \cap pending = {} /\ adminLeft \cap pending = {}
    /\ left # {} => loop = "sweeping"
    /\ adminLeft # {} => adminCalls
    /\ adminCalls => Alive

SchedulerInv ==
    /\ process \in {"up", "stopping", "closing", "down"}
    /\ loop \in {"select", "sweeping", "ended"}
    /\ GoroutineLives /\ SweepsHoldExpired
    /\ pending \cup backlog \subseteq Expiring /\ pending \cap backlog = {}
    /\ left \subseteq Expiring /\ adminLeft \subseteq Expiring

\* What has been released stays released, and had expired.
ReleasedStays == Released \subseteq Released' /\ Released' \subseteq Expiring \ pending

\* Every step keeps the goroutine where the process expects it.
LEMMA SchedulerStep ==
    ASSUME SchedulerInv, [SchedulerNext]_schedulerVars
    PROVE  SchedulerInv' /\ ReleasedStays
<1> USE DEF SchedulerInv, GoroutineLives, SweepsHoldExpired, Alive, ReleasedStays, Released
<1>1. CASE Expires
  BY <1>1 DEF Expires
<1>2. CASE Tick \/ TakeStop
  BY <1>2 DEF Tick, TakeStop
<1>3. CASE SweepFails
  BY <1>3 DEF SweepFails, SweepError
<1>4. CASE SweepReleases
  BY <1>4 DEF SweepReleases, Panic
<1>5. CASE SweepConflicts \/ SweepEnds
  BY <1>5 DEF SweepConflicts, SweepEnds
<1>6. CASE ReleaseExpired
  BY <1>6 DEF ReleaseExpired
<1>7. CASE AdminReleases
  BY <1>7 DEF AdminReleases
<1>8. CASE AdminAnswered
  BY <1>8 DEF AdminAnswered, SweepError
<1>9. CASE Sigterm \/ ShutDown \/ StartUp
  BY <1>9 DEF Sigterm, ShutDown, StartUp
<1>10. CASE UNCHANGED schedulerVars
  BY <1>10 DEF schedulerVars
<1> QED
  BY <1>1, <1>2, <1>3, <1>4, <1>5, <1>6, <1>7, <1>8, <1>9, <1>10 DEF SchedulerNext

\* The service starts with its goroutine in the select.
LEMMA SchedulerInitially == SchedulerInit => SchedulerInv
BY DEF SchedulerInit, SchedulerInv, GoroutineLives, SweepsHoldExpired, Alive

\* Stop never waits for a goroutine that is gone: until its send has been
\* taken the goroutine is in its select or in a sweep, and from then on
\* nothing is being swept (the safety under StopEnds).
THEOREM StopIsHeard ==
    SchedulerSpec => [](/\ process = "stopping" => loop \in {"select", "sweeping"}
                        /\ process = "closing" => loop = "ended" /\ left = {})
<1> DEFINE Heard == /\ process = "stopping" => loop \in {"select", "sweeping"}
                    /\ process = "closing" => loop = "ended" /\ left = {}
<1>1. SchedulerInv /\ [SchedulerNext]_schedulerVars => SchedulerInv'
  BY SchedulerStep
<1>2. SchedulerInv => Heard
  BY DEF SchedulerInv, GoroutineLives, SweepsHoldExpired
<1> QED
  BY <1>1, <1>2, SchedulerInitially, PTL DEF SchedulerSpec

\* Whatever panics, fails, is swept twice or dies in between, what has been
\* released stays released, and only what has expired is released (the
\* safety under BacklogDrains).
THEOREM ReleasedForGood == SchedulerSpec => [][ReleasedStays]_schedulerVars
<1>1. SchedulerInv /\ [SchedulerNext]_schedulerVars => SchedulerInv' /\ [ReleasedStays]_schedulerVars
  BY SchedulerStep
<1> QED
  BY <1>1, SchedulerInitially, PTL DEF SchedulerSpec
==============================================================================
