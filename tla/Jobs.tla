---- MODULE Jobs ----
(***************************************************************************)
(* A Bull queue with the processors built on BaseProcessor, and the        *)
(* QueueService that pauses, empties and shuts it down.  The queue lives   *)
(* in Redis and outlives the process; an execution lives in the process.   *)
(* Bull gives an execution up when the job's timeout runs out or its lock  *)
(* is lost, but nothing stops the execution itself: it goes on.            *)
(***************************************************************************)
EXTENDS Naturals, Sequences, FiniteSets

CONSTANTS
    JobIds,
    Slots,         \* executions one process may have in hand
    Queue,         \* which queue is looked at
    JobAttempts,   \* attempts in queueConfigs
    MaxStalledCount, \* 2 in bullConfig
    MaxJobFaults   \* bound: timeouts, lost locks and crashes together

ASSUME JobsAssumption ==
    /\ Queue \in {"payment-processing", "inventory-management",
                  "notification-sending", "order-processing"}
    /\ JobAttempts \in Nat \ {0}
    /\ MaxStalledCount \in Nat

VARIABLES
    jobs,       \* in Redis: state, failed attempts, stalls, progress
    runs,       \* executions: the job, the steps done, whether Bull waits for them
    paused,     \* the queue's flag in Redis
    service,    \* the process: "up", "draining", "closing" or "closed"
    begun,      \* history: executions begun of each job
    jobFaults

jobVars == <<jobs, runs, paused, service, begun, jobFaults>>

Idle == [job |-> "none"]
Busy(w) == runs[w] # Idle
Owned(w) == Busy(w) /\ runs[w].grip = "held"
HasOwner(j) == \E w \in Slots : Owned(w) /\ runs[w].job = j
Ended(j) == jobs[j].state \in {"completed", "failed", "removed"}

\* What each processor reports: 0 and 100 by handleJob, the rest by processJob.
PaymentSteps == <<0, 20, 40, 70, 90, 100>>
InventorySteps == <<0, 30, 60, 90, 100>>
NotificationSteps == <<0, 20, 40, 70, 90, 100>>
OrderSteps == <<0, 10, 100, 100>>
Percentages ==
    CASE Queue = "payment-processing" -> PaymentSteps
      [] Queue = "inventory-management" -> InventorySteps
      [] Queue = "notification-sending" -> NotificationSteps
      [] Queue = "order-processing" -> OrderSteps

-----------------------------------------------------------------------------
\* QueueService.addOrderJob, addPaymentJob, addInventoryJob and
\* addNotificationJob: a paused queue takes jobs as well.
AddJob(j) ==
    /\ jobs[j].state = "none"
    /\ jobs' = [jobs EXCEPT ![j].state = "waiting"]
    /\ UNCHANGED <<runs, paused, service, begun, jobFaults>>

TakeJob(w, j) ==
    /\ jobs[j].state = "waiting" /\ ~paused
    /\ service \in {"up", "draining"} /\ ~Busy(w)
    /\ jobs' = [jobs EXCEPT ![j].state = "active"]
    /\ runs' = [runs EXCEPT ![w] = [job |-> j, done |-> 0, grip |-> "held"]]
    /\ begun' = [begun EXCEPT ![j] = @ + 1]
    /\ UNCHANGED <<paused, service, jobFaults>>

\* updateProgress: written by whoever runs the job; a failed write is only
\* logged, and a job that is gone cannot be written.
UpdateProgress(w) ==
    LET j == runs[w].job
        k == runs[w].done + 1
    IN  /\ Busy(w) /\ k <= Len(Percentages)
        /\ runs' = [runs EXCEPT ![w].done = k]
        /\ jobs' = IF jobs[j].state = "removed" THEN jobs
                   ELSE [jobs EXCEPT ![j].progress = Percentages[k]]
        /\ UNCHANGED <<paused, service, begun, jobFaults>>

\* Bull takes the result of an execution whose process holds the job's lock.
\* The lock bears the process's name, so an execution that lost it can end the
\* job in the place of the one that took the job up again.  A result after the
\* timeout is dropped.
Counts(w) ==
    /\ runs[w].grip \in {"held", "lost"}
    /\ jobs[runs[w].job].state = "active" /\ HasOwner(runs[w].job)

\* handleJob returns: Bull completes the job or drops the result.
EndRun(w) ==
    /\ runs' = [runs EXCEPT ![w] = Idle]
    /\ jobs' = IF Counts(w) THEN [jobs EXCEPT ![runs[w].job].state = "completed"] ELSE jobs
    /\ UNCHANGED <<paused, service, begun, jobFaults>>

ReturnSuccess(w) == Busy(w) /\ runs[w].done = Len(Percentages) /\ EndRun(w)

\* Seeded fault: the catch puts the job back into the queue itself.
ReturnFailure_queuesAgain(w) ==
    /\ Busy(w) /\ runs[w].done \in 1..(Len(Percentages) - 1)
    /\ runs' = [runs EXCEPT ![w] = Idle]
    /\ jobs' = IF Counts(w) THEN [jobs EXCEPT ![runs[w].job].state = "waiting"] ELSE jobs
    /\ UNCHANGED <<paused, service, begun, jobFaults>>

\* processJob throws, as a processor may: the catch logs a dead letter and
\* returns a result too, so Bull counts the job as completed.
ReturnFailure(w) == Busy(w) /\ runs[w].done \in 1..(Len(Percentages) - 1) /\ EndRun(w)

-----------------------------------------------------------------------------
JobFault == jobFaults < MaxJobFaults /\ jobFaults' = jobFaults + 1

\* Bull's failure of an attempt: again after the backoff, or failed for good.
AttemptFailed(j) ==
    jobs' = [jobs EXCEPT ![j].attempts = @ + 1,
               ![j].state = IF jobs[j].attempts + 1 < JobAttempts THEN "delayed" ELSE "failed"]

GiveUp(w, grip) == runs' = [runs EXCEPT ![w].grip = grip]

\* The timeout of 60 seconds runs out.
TimeOut(w) ==
    /\ Owned(w) /\ JobFault
    /\ IF jobs[runs[w].job].state = "active" THEN AttemptFailed(runs[w].job) ELSE jobs' = jobs
    /\ GiveUp(w, "timedOut")
    /\ UNCHANGED <<paused, service, begun>>

BackoffEnds(j) ==
    /\ jobs[j].state = "delayed"
    /\ jobs' = [jobs EXCEPT ![j].state = "waiting"]
    /\ UNCHANGED <<runs, paused, service, begun, jobFaults>>

\* The event loop is blocked and the lock is not renewed in time.
LoseLock(w) ==
    /\ Owned(w) /\ JobFault
    /\ GiveUp(w, "lost")
    /\ UNCHANGED <<jobs, paused, service, begun>>

\* The process dies and is started again.
CrashAndRestart ==
    /\ JobFault
    /\ runs' = [w \in Slots |-> Idle]
    /\ service' = "up"
    /\ UNCHANGED <<jobs, paused, begun>>

StalledCheck_onlyRunning(j) ==
    /\ jobs[j].state = "active" /\ ~HasOwner(j) /\ \E w \in Slots : Busy(w) /\ runs[w].job = j
    /\ jobs' = [jobs EXCEPT ![j].stalled = @ + 1,
                  ![j].state = IF jobs[j].stalled < MaxStalledCount THEN "waiting" ELSE "failed"]
    /\ UNCHANGED <<runs, paused, service, begun, jobFaults>>

\* The check for active jobs without a lock, every 30 seconds.
StalledCheck(j) ==
    /\ jobs[j].state = "active" /\ ~HasOwner(j)
    /\ jobs' = [jobs EXCEPT ![j].stalled = @ + 1,
                  ![j].state = IF jobs[j].stalled < MaxStalledCount THEN "waiting" ELSE "failed"]
    /\ UNCHANGED <<runs, paused, service, begun, jobFaults>>

-----------------------------------------------------------------------------
\* pauseQueue and resumeQueue: queue.pause() without arguments is global.
PauseQueue ==
    /\ ~paused /\ paused' = TRUE
    /\ UNCHANGED <<jobs, runs, service, begun, jobFaults>>

ResumeQueue ==
    /\ paused /\ paused' = FALSE
    /\ UNCHANGED <<jobs, runs, service, begun, jobFaults>>

RemoveIn(states) ==
    /\ \E j \in JobIds : jobs[j].state \in states
    /\ jobs' = [j \in JobIds |-> IF jobs[j].state \in states
                                 THEN [jobs[j] EXCEPT !.state = "removed"] ELSE jobs[j]]
    /\ UNCHANGED <<runs, paused, service, begun, jobFaults>>

EmptyQueue == RemoveIn({"waiting", "delayed"})
CleanQueue == RemoveIn({"completed"}) \/ RemoveIn({"failed"})

\* gracefulShutdown pauses every queue, polls the active count and closes.
GracefulShutdown ==
    /\ service = "up" /\ service' = "draining"
    /\ paused' = TRUE
    /\ UNCHANGED <<jobs, runs, begun, jobFaults>>

SeesNoActiveJob ==
    /\ service = "draining" /\ \A j \in JobIds : jobs[j].state # "active"
    /\ service' = "closing"
    /\ UNCHANGED <<jobs, runs, paused, begun, jobFaults>>

DrainTimesOut ==
    /\ service = "draining" /\ service' = "closing"
    /\ UNCHANGED <<jobs, runs, paused, begun, jobFaults>>

\* SIGTERM: the application closes its queues without pausing them.
SigtermOrders ==
    /\ service = "up" /\ service' = "closing"
    /\ UNCHANGED <<jobs, runs, paused, begun, jobFaults>>

\* queue.close() waits for the executions Bull waits for.
Close ==
    /\ service = "closing" /\ \A w \in Slots : ~Owned(w)
    /\ service' = "closed"
    /\ UNCHANGED <<jobs, runs, paused, begun, jobFaults>>

\* The process exits, with what is still running, and is started again.
Restart ==
    /\ service = "closed" /\ service' = "up"
    /\ runs' = [w \in Slots |-> Idle]
    /\ UNCHANGED <<jobs, paused, begun, jobFaults>>

-----------------------------------------------------------------------------
JobsInit ==
    /\ jobs = [j \in JobIds |-> [state |-> "none", attempts |-> 0, stalled |-> 0, progress |-> 0]]
    /\ runs = [w \in Slots |-> Idle]
    /\ paused = FALSE /\ service = "up"
    /\ begun = [j \in JobIds |-> 0] /\ jobFaults = 0

Work(w) == UpdateProgress(w) \/ ReturnSuccess(w)
BullStep(j) == (\E w \in Slots : TakeJob(w, j)) \/ BackoffEnds(j) \/ StalledCheck(j)

JobsNext ==
    \/ \E j \in JobIds : AddJob(j)
    \/ \E w \in Slots, j \in JobIds : TakeJob(w, j)
    \/ \E w \in Slots : UpdateProgress(w)
    \/ \E w \in Slots : ReturnSuccess(w)
    \/ \E w \in Slots : ReturnFailure(w)
    \/ \E w \in Slots : TimeOut(w)
    \/ \E w \in Slots : LoseLock(w)
    \/ \E j \in JobIds : BackoffEnds(j)
    \/ \E j \in JobIds : StalledCheck(j)
    \/ CrashAndRestart
    \/ PauseQueue \/ ResumeQueue \/ EmptyQueue \/ CleanQueue
    \/ GracefulShutdown \/ SeesNoActiveJob \/ DrainTimesOut \/ SigtermOrders \/ Close \/ Restart

JobsSpec == JobsInit /\ [][JobsNext]_jobVars

-----------------------------------------------------------------------------
\* However executions time out, lose their lock and go on, processes die and
\* shut down: Bull waits for one execution of a job at a time, each but the
\* first is paid for by an attempt or a stall that was counted, so that a job
\* is run no oftener than its budget, and it fails only when that is spent
\* (attempts, timeout and maxStalledCount, redis.config.ts:86-120).
RunsComeInTurn ==
    /\ \A v, w \in Slots : Owned(v) /\ Owned(w) /\ runs[v].job = runs[w].job => v = w
    /\ \A j \in JobIds :
          /\ begun[j] <= 1 + jobs[j].attempts + jobs[j].stalled
          /\ jobs[j].state = "failed" =>
                jobs[j].attempts = JobAttempts \/ jobs[j].stalled > MaxStalledCount

\* A job that was added ends, unless the queue is paused, which
\* gracefulShutdown does for every process and nothing undoes, or the process
\* is on its way out.
JobsEnd ==
    \A j \in JobIds :
       jobs[j].state = "waiting" ~> (Ended(j) \/ paused \/ service # "up")
====
