---- MODULE MCBackground ----
(***************************************************************************)
(* Four parts that work in the background and share no state: a Bull queue *)
(* with its processors, the notification jobs, the sender of text messages *)
(* and the inventory service's scheduler.  A behaviour moves one part and  *)
(* leaves the others where they start, so the run explores the sum of the  *)
(* four state spaces and not their product.                                *)
(***************************************************************************)
EXTENDS Jobs, Notifications, SmsProvider, Scheduler

VARIABLE part

backgroundVars == <<part, jobVars, noteVars, smsVars, schedulerVars>>

Bull(A) == part = "jobs" /\ A /\ UNCHANGED <<part, noteVars, smsVars, schedulerVars>>
Mail(A) == part = "mail" /\ A /\ UNCHANGED <<part, jobVars, smsVars, schedulerVars>>
Text(A) == part = "sms" /\ A /\ UNCHANGED <<part, jobVars, noteVars, schedulerVars>>
Sweeper(A) == part = "scheduler" /\ A /\ UNCHANGED <<part, jobVars, noteVars, smsVars>>

BackgroundInit ==
    /\ JobsInit /\ NotesInit /\ SmsInit /\ SchedulerInit
    /\ part \in {"jobs", "mail", "sms", "scheduler"}

BackgroundNext ==
    \/ Bull(\E j \in JobIds : AddJob(j))
    \/ Bull(\E w \in Slots, j \in JobIds : TakeJob(w, j))
    \/ Bull(\E w \in Slots : UpdateProgress(w))
    \/ Bull(\E w \in Slots : ReturnSuccess(w))
    \/ Bull(\E w \in Slots : ReturnFailure(w))
    \/ Bull(\E w \in Slots : TimeOut(w))
    \/ Bull(\E w \in Slots : LoseLock(w))
    \/ Bull(\E j \in JobIds : BackoffEnds(j))
    \/ Bull(\E j \in JobIds : StalledCheck(j))
    \/ Bull(CrashAndRestart)
    \/ Bull(PauseQueue) \/ Bull(ResumeQueue) \/ Bull(EmptyQueue) \/ Bull(CleanQueue)
    \/ Bull(GracefulShutdown) \/ Bull(SeesNoActiveJob) \/ Bull(DrainTimesOut)
    \/ Bull(SigtermOrders) \/ Bull(Close) \/ Bull(Restart)
    \/ Mail(\E j \in NoteJobs : QueueNote(j))
    \/ Mail(\E w \in Mailers, j \in NoteJobs : HandleNotification(w, j))
    \/ Mail(\E w \in Mailers : MailGoesOut(w))
    \/ Mail(\E w \in Mailers : MailRefused(w))
    \/ Mail(\E w \in Mailers : SaveNotification(w))
    \/ Mail(\E w \in Mailers : SaveFails(w))
    \/ Mail(\E j \in NoteJobs : RetryNote(j))
    \/ Mail(\E j \in NoteJobs : NoteStalled(j))
    \/ Mail(\E j \in NoteJobs : MailOpened(j))
    \/ Mail(\E j \in NoteJobs : MailClicked(j))
    \/ Mail(ProcessDies)
    \/ Text(\E s \in SmsSenders, n \in Numbers : SendSms(s, n))
    \/ Text(\E s \in SmsSenders : SmsSent(s))
    \/ Text(\E n \in Numbers : SmsAges(n))
    \/ Text(\E n \in Numbers : OptOut(n))
    \/ Text(\E n \in Numbers : OptIn(n))
    \/ Text(ClearRateLimits)
    \/ Sweeper(Expires)
    \/ Sweeper(Tick) \/ Sweeper(TakeStop)
    \/ Sweeper(SweepFails) \/ Sweeper(SweepReleases)
    \/ Sweeper(SweepConflicts) \/ Sweeper(SweepEnds)
    \/ Sweeper(ReleaseExpired) \/ Sweeper(AdminReleases) \/ Sweeper(AdminAnswered)
    \/ Sweeper(Sigterm) \/ Sweeper(ShutDown) \/ Sweeper(StartUp)

\* Executions go on and Bull, with its timers, and the container runtime do
\* their work.  Go's select picks among ready cases at random, so a stop that
\* waits is taken although the ticker may be ready each time.
BackgroundSpec ==
    /\ BackgroundInit /\ [][BackgroundNext]_backgroundVars
    /\ \A w \in Slots : WF_backgroundVars(Bull(Work(w)))
    /\ \A j \in JobIds : WF_backgroundVars(Bull(BullStep(j)))
    /\ \A w \in Mailers : WF_backgroundVars(Mail(MailerStep(w)))
    /\ \A j \in NoteJobs : WF_backgroundVars(Mail(NoteQueueStep(j)))
    /\ WF_backgroundVars(Sweeper(GoroutineStep))
    /\ WF_backgroundVars(Sweeper(HandlerStep))
    /\ WF_backgroundVars(Sweeper(ContainerStep))
    /\ SF_backgroundVars(Sweeper(TakeStop))

-----------------------------------------------------------------------------
\* Whatever is queued is done with in the end: a job of a queue that is not
\* paused by a process that runs, and every notification.
QueuedWorkEnds == JobsEnd /\ NotesEnd

\* The scheduler's process does its two duties: it works the expired
\* reservations off, and it ends when it is told to.
SchedulerServes == BacklogDrains /\ StopEnds

-----------------------------------------------------------------------------
\* A known type whose mail has fields of its own, and one that is not known.
mcJobData == <<[type |-> "payment-failure", fields |-> {"orderNumber"}],
               [type |-> "other", fields |-> {}]>>
====
