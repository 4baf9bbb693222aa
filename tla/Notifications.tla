---- MODULE Notifications ----
(***************************************************************************)
(* The notification jobs of the notifications module.                      *)
(* NotificationProcessor takes a job, NotificationsService renders the     *)
(* template, lets EmailProvider send the mail and saves what came of it.   *)
(* A mail that is refused is a result, not an error: it is saved and the   *)
(* job is complete.  Only an error (the save fails) or the death of the    *)
(* process runs the job again, and then the mail is sent again.            *)
(***************************************************************************)
EXTENDS Naturals, Sequences, FiniteSets

CONSTANTS
    NoteJobs,
    JobData,        \* what each job carries: its type and the fields of its data
    Mailers,        \* executions at once
    NoteAttempts,   \* 3 in queueConfigs
    NoteStalls,     \* maxStalledCount: 2 in bullConfig
    MaxNoteFaults   \* bound: failed saves and deaths of the process

VARIABLES
    notes,     \* per job, in Redis: its state, failed attempts and stalls
    mailing,   \* per execution: its job, its step and the result of the send
    records,   \* the rows of the notifications table, per job in their order
    mails,     \* per job: the mails that went out
    tracked,   \* messageStatuses, in memory: the last mail of each job
    died,      \* history: jobs that had a mail when the process died
    noteFaults

noteVars == <<notes, mailing, records, mails, tracked, died, noteFaults>>

-----------------------------------------------------------------------------
\* TemplateService: a template is its placeholders.
OrderConfirmation == {"orderNumber", "customerName", "totalAmount"}
PaymentFailure == {"orderNumber", "customerName", "reason"}
ShippingUpdate == {"orderNumber", "customerName", "trackingNumber"}
WelcomeEmail == {"userName"}

Templates ==
    [type \in {"order-confirmation", "payment-failure", "shipping-update", "welcome"} |->
        CASE type = "order-confirmation" -> OrderConfirmation
          [] type = "payment-failure" -> PaymentFailure
          [] type = "shipping-update" -> ShippingUpdate
          [] type = "welcome" -> WelcomeEmail]

Known(j) == JobData[j].type \in DOMAIN Templates

\* templateData of the four send methods: names are made up by the service,
\* the rest comes from the job's data.
OwnFields(type) == IF type = "welcome" THEN {"userName"} ELSE {"customerName"}

TemplateData_dataOnly(j) == JobData[j].fields
TemplateData(j) == JobData[j].fields \cup OwnFields(JobData[j].type)

\* render leaves a placeholder without a value as it stands.
Unfilled(j) == Templates[JobData[j].type] \ TemplateData(j)

-----------------------------------------------------------------------------
NotMailing == [job |-> "none"]
Mailing(w) == mailing[w] # NotMailing
InHand(j) == \E w \in Mailers : Mailing(w) /\ mailing[w].job = j
NoteEnded(j) == notes[j].state \in {"completed", "failed"}

SetState(j, state) == notes' = [notes EXCEPT ![j].state = state]

QueueNote(j) ==
    /\ notes[j].state = "none"
    /\ SetState(j, "waiting")
    /\ UNCHANGED <<mailing, records, mails, tracked, died, noteFaults>>

\* handleNotification takes a job; one of an unknown type is only logged.
HandleNotification(w, j) ==
    /\ notes[j].state = "waiting" /\ ~Mailing(w)
    /\ IF Known(j)
       THEN /\ SetState(j, "active")
            /\ mailing' = [mailing EXCEPT ![w] = [job |-> j, at |-> "send", result |-> "none"]]
       ELSE SetState(j, "completed") /\ UNCHANGED mailing
    /\ UNCHANGED <<records, mails, tracked, died, noteFaults>>

Sending(w) == Mailing(w) /\ mailing[w].at = "send"
ToSave(w, result) == mailing' = [mailing EXCEPT ![w].at = "save", ![w].result = result]

\* EmailProvider.send: the mail goes out and its status is kept.
MailGoesOut(w) ==
    LET j == mailing[w].job IN
    /\ Sending(w)
    /\ mails' = [mails EXCEPT ![j] = @ + 1]
    /\ tracked' = [tracked EXCEPT ![j] = "SENT"]
    /\ ToSave(w, "SENT")
    /\ UNCHANGED <<notes, records, died, noteFaults>>

\* It is not sent: invalid, unsubscribed or unlucky, or it bounces.
MailRefused(w) ==
    /\ Sending(w)
    /\ \E result \in {"FAILED", "BOUNCED"} : ToSave(w, result)
    /\ UNCHANGED <<notes, records, mails, tracked, died, noteFaults>>

Row(w) == [status |-> mailing[w].result, unfilled |-> Unfilled(mailing[w].job)]
AddRow(w) == records' = [records EXCEPT ![mailing[w].job] = Append(@, Row(w))]
Saving(w) == Mailing(w) /\ mailing[w].at = "save"
Release(w) == mailing' = [mailing EXCEPT ![w] = NotMailing]

\* saveNotification; the job is complete whatever the status.
SaveNotification(w) ==
    /\ Saving(w)
    /\ AddRow(w)
    /\ SetState(mailing[w].job, "completed")
    /\ Release(w)
    /\ UNCHANGED <<mails, tracked, died, noteFaults>>

NoteFault == noteFaults < MaxNoteFaults /\ noteFaults' = noteFaults + 1

\* The save throws, with the row written or not.  The processor throws the
\* error again and Bull tries the job once more, or gives it up.
SaveFails(w) ==
    LET j == mailing[w].job IN
    /\ Saving(w) /\ NoteFault
    /\ AddRow(w) \/ UNCHANGED records
    /\ notes' = [notes EXCEPT ![j].attempts = @ + 1,
                   ![j].state = IF notes[j].attempts + 1 < NoteAttempts THEN "delayed" ELSE "failed"]
    /\ Release(w)
    /\ UNCHANGED <<mails, tracked, died>>

RetryNote(j) ==
    /\ notes[j].state = "delayed"
    /\ SetState(j, "waiting")
    /\ UNCHANGED <<mailing, records, mails, tracked, died, noteFaults>>

\* The process dies and is started again, without the statuses in memory.
ProcessDies ==
    /\ NoteFault
    /\ mailing' = [w \in Mailers |-> NotMailing]
    /\ tracked' = [j \in NoteJobs |-> "none"]
    /\ died' = died \cup {j \in NoteJobs : mails[j] > 0}
    /\ UNCHANGED <<notes, records, mails>>

\* Bull's check finds the job active and in nobody's hands.
NoteStalled(j) ==
    /\ notes[j].state = "active" /\ ~InHand(j)
    /\ notes' = [notes EXCEPT ![j].stalled = @ + 1,
                   ![j].state = IF notes[j].stalled < NoteStalls THEN "waiting" ELSE "failed"]
    /\ UNCHANGED <<mailing, records, mails, tracked, died, noteFaults>>

\* simulateStatusUpdates: only the memory hears of it, the row stays SENT.
MailOpened(j) ==
    /\ tracked[j] = "SENT"
    /\ tracked' = [tracked EXCEPT ![j] = "OPENED"]
    /\ UNCHANGED <<notes, mailing, records, mails, died, noteFaults>>

MailClicked(j) ==
    /\ tracked[j] = "OPENED"
    /\ tracked' = [tracked EXCEPT ![j] = "CLICKED"]
    /\ UNCHANGED <<notes, mailing, records, mails, died, noteFaults>>

-----------------------------------------------------------------------------
\* getNotificationStatus asks the row, EmailProvider.getStatus its memory.
GetNotificationStatus(row) == row.status \in {"SENT", "OPENED", "CLICKED"}
GetStatus(j) == IF tracked[j] = "none" THEN "FAILED" ELSE tracked[j]

NotesInit ==
    /\ notes = [j \in NoteJobs |-> [state |-> "none", attempts |-> 0, stalled |-> 0]]
    /\ mailing = [w \in Mailers |-> NotMailing]
    /\ records = [j \in NoteJobs |-> <<>>]
    /\ mails = [j \in NoteJobs |-> 0]
    /\ tracked = [j \in NoteJobs |-> "none"]
    /\ died = {} /\ noteFaults = 0

MailerStep(w) == MailGoesOut(w) \/ MailRefused(w) \/ SaveNotification(w)
NoteQueueStep(j) ==
    (\E w \in Mailers : HandleNotification(w, j)) \/ RetryNote(j) \/ NoteStalled(j)

NotesNext ==
    \/ \E j \in NoteJobs : QueueNote(j)
    \/ \E w \in Mailers, j \in NoteJobs : HandleNotification(w, j)
    \/ \E w \in Mailers : MailGoesOut(w)
    \/ \E w \in Mailers : MailRefused(w)
    \/ \E w \in Mailers : SaveNotification(w)
    \/ \E w \in Mailers : SaveFails(w)
    \/ \E j \in NoteJobs : RetryNote(j)
    \/ \E j \in NoteJobs : NoteStalled(j)
    \/ \E j \in NoteJobs : MailOpened(j)
    \/ \E j \in NoteJobs : MailClicked(j)
    \/ ProcessDies

NotesSpec == NotesInit /\ [][NotesNext]_noteVars

-----------------------------------------------------------------------------
SentRows(j) == Cardinality({i \in DOMAIN records[j] : records[j][i].status = "SENT"})
Repeated(j) == notes[j].attempts + notes[j].stalled

\* The table accounts for the mails: a job that is complete has a row, whatever
\* became of its mail, and as many mails went out as rows say so, but for one
\* for each time the job was run again.  No mail shows a placeholder that the
\* job's data could have filled.  What the table calls sent, the provider does
\* not call failed, unless the process died since: getStatus takes what it does
\* not know for failed.
MailsAreOnRecord ==
    \A j \in NoteJobs :
       /\ notes[j].state = "completed" /\ Known(j) => records[j] # <<>>
       /\ NoteEnded(j) => /\ SentRows(j) <= mails[j] /\ mails[j] <= SentRows(j) + Repeated(j)
                          /\ Len(records[j]) <= 1 + Repeated(j)
       /\ \A i \in DOMAIN records[j] :
             /\ records[j][i].unfilled \cap (JobData[j].fields \cup {"customerName", "userName"}) = {}
             /\ GetNotificationStatus(records[j][i]) => j \in died \/ GetStatus(j) # "FAILED"

\* Every job is completed or failed in the end.
NotesEnd == \A j \in NoteJobs : notes[j].state = "waiting" ~> NoteEnded(j)
====
