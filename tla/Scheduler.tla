---- MODULE Scheduler ----
(***************************************************************************)
(* The life of an inventory-service process: the scheduler's goroutine,    *)
(* which sweeps expired reservations at every tick, and the main           *)
(* goroutine, which waits for SIGTERM, stops the scheduler and shuts the   *)
(* server down.  cmd/api hands the use case a nil publisher, so releasing  *)
(* a reservation panics once both rows are written: in the goroutine that  *)
(* ends the process, in the admin handler gin recovers.                    *)
(***************************************************************************)
EXTENDS Naturals, FiniteSets

CONSTANTS
    Expiring,         \* reservations that expire
    MaxSweepErrors,   \* bound: repository calls of a sweep that fail
    MaxStops          \* bound: times the service is told to stop

VARIABLES
    process,     \* "up", "stopping" (in Stop), "closing" (in Shutdown) or "down"
    loop,        \* the goroutine: "select", "sweeping" or "ended"
    left,        \* reservations the sweep has found and not tried
    adminLeft,   \* the same for the admin's sweep
    adminCalls,  \* whether a call of the admin endpoint is in hand
    pending,     \* reservations that have not expired yet
    backlog,     \* expired reservations that are not released
    sweepErrors, stops

schedulerVars == <<process, loop, left, adminLeft, adminCalls, pending, backlog, sweepErrors, stops>>

Alive == process # "down"

Expires ==
    \E r \in pending :
    /\ pending' = pending \ {r} /\ backlog' = backlog \cup {r}
    /\ UNCHANGED <<process, loop, left, adminLeft, adminCalls, sweepErrors, stops>>

-----------------------------------------------------------------------------
\* Start's loop: a select of the ticker and the stop channel.
Tick ==
    /\ Alive /\ loop = "select"
    /\ loop' = "sweeping" /\ left' = backlog
    /\ UNCHANGED <<process, adminLeft, adminCalls, pending, backlog, sweepErrors, stops>>

\* The goroutine sits in the select again and takes the stop.
TakeStop ==
    /\ process = "stopping" /\ loop = "select"
    /\ loop' = "ended" /\ process' = "closing"
    /\ UNCHANGED <<left, adminLeft, adminCalls, pending, backlog, sweepErrors, stops>>

SweepError == sweepErrors < MaxSweepErrors /\ sweepErrors' = sweepErrors + 1

\* FindExpired or one release fails, or the two minutes are over: the
\* reservations stay, and the sweep ends or goes on with the next one.
SweepFails ==
    /\ Alive /\ loop = "sweeping" /\ SweepError
    /\ \E r \in left : left' \in {{}, left \ {r}}
    /\ UNCHANGED <<process, loop, adminLeft, adminCalls, pending, backlog, stops>>

\* Nothing in the goroutine recovers from the panic.
Panic ==
    /\ process' = "down" /\ loop' = "ended"
    /\ left' = {} /\ adminLeft' = {} /\ adminCalls' = FALSE

SweepReleases_publishFirst ==
    /\ Alive /\ loop = "sweeping" /\ left # {}
    /\ Panic
    /\ UNCHANGED <<pending, backlog, sweepErrors, stops>>

\* Both rows are written, then the nil publisher is called.  What the admin's
\* sweep released meanwhile is written a second time, or refused.
SweepReleases ==
    \E r \in left :
    /\ Alive /\ loop = "sweeping"
    /\ backlog' = backlog \ {r}
    /\ Panic
    /\ UNCHANGED <<pending, sweepErrors, stops>>

SweepConflicts ==
    \E r \in left \ backlog :
    /\ Alive /\ loop = "sweeping"
    /\ left' = left \ {r}
    /\ UNCHANGED <<process, loop, adminLeft, adminCalls, pending, backlog, sweepErrors, stops>>

SweepEnds ==
    /\ Alive /\ loop = "sweeping" /\ left = {}
    /\ loop' = "select"
    /\ UNCHANGED <<process, left, adminLeft, adminCalls, pending, backlog, sweepErrors, stops>>

-----------------------------------------------------------------------------
\* POST /admin/reservations/release-expired: the same use case.
ReleaseExpired ==
    /\ process \in {"up", "stopping"} /\ ~adminCalls
    /\ adminCalls' = TRUE /\ adminLeft' = backlog
    /\ UNCHANGED <<process, loop, left, pending, backlog, sweepErrors, stops>>

\* It panics after the first release as well, and gin answers 500.
AdminReleases ==
    \E r \in adminLeft :
    /\ Alive /\ adminCalls
    /\ backlog' = backlog \ {r}
    /\ adminCalls' = FALSE /\ adminLeft' = {}
    /\ UNCHANGED <<process, loop, left, pending, sweepErrors, stops>>

\* Nothing was found, or every reservation met an error or a conflict.
AdminAnswered ==
    /\ Alive /\ adminCalls
    /\ IF adminLeft \cap backlog = {} THEN UNCHANGED sweepErrors ELSE SweepError
    /\ adminCalls' = FALSE /\ adminLeft' = {}
    /\ UNCHANGED <<process, loop, left, pending, backlog, stops>>

-----------------------------------------------------------------------------
\* Stop sends on the unbuffered channel and blocks until the loop receives.
Sigterm ==
    /\ process = "up" /\ process' = "stopping"
    /\ stops < MaxStops /\ stops' = stops + 1
    /\ UNCHANGED <<loop, left, adminLeft, adminCalls, pending, backlog, sweepErrors>>

\* srv.Shutdown waits five seconds for the calls in hand; then the process
\* exits with or without them.
ShutDown ==
    /\ process = "closing" /\ process' = "down"
    /\ adminCalls' = FALSE /\ adminLeft' = {}
    /\ UNCHANGED <<loop, left, pending, backlog, sweepErrors, stops>>

\* The container is started again, and main calls Start.
StartUp ==
    /\ process = "down" /\ process' = "up"
    /\ loop' = "select"
    /\ UNCHANGED <<left, adminLeft, adminCalls, pending, backlog, sweepErrors, stops>>

SchedulerInit ==
    /\ process = "up" /\ loop = "select" /\ left = {}
    /\ adminCalls = FALSE /\ adminLeft = {}
    /\ pending = Expiring /\ backlog = {} /\ sweepErrors = 0 /\ stops = 0

GoroutineStep == Tick \/ SweepReleases \/ SweepConflicts \/ SweepEnds
HandlerStep == AdminReleases \/ AdminAnswered
ContainerStep == ShutDown \/ StartUp

SchedulerNext ==
    \/ Expires
    \/ Tick \/ TakeStop
    \/ SweepFails \/ SweepReleases \/ SweepConflicts \/ SweepEnds
    \/ ReleaseExpired \/ AdminReleases \/ AdminAnswered
    \/ Sigterm \/ ShutDown \/ StartUp

-----------------------------------------------------------------------------
\* Every expired reservation is released in the end, although each release by
\* the scheduler costs the process its life: the rows are written before the
\* panic, so every life of the process gets one reservation further.
BacklogDrains == \A r \in Expiring : r \in backlog ~> r \notin backlog

\* Stop waits for the sweep in hand and no longer: a process that is told to
\* end does, unless the sweep ends it first.
StopEnds == process = "stopping" ~> process = "down"
====
