------------------------ MODULE OutboxNotifications ------------------------
(***************************************************************************)
(* Review e-mails. Holding a reel for review emits an outbox event; the    *)
(* outbox subscriber of a worker process turns the event into one          *)
(* email_notifications row per recipient and one email_send job, and a     *)
(* worker thread sends the message and records the outcome in the rows.    *)
(*                                                                         *)
(* Of the work queue only what the e-mail jobs see is kept: any queued job *)
(* may be claimed, a newer request of the property may supersede it, and a *)
(* starting process puts any processing job back whose lease has expired.  *)
(***************************************************************************)
EXTENDS Naturals

CONSTANTS
  Properties,  \* the reels of one agency
  Recipients,  \* addresses its settings may name
  Processes,   \* worker processes: one subscriber and one e-mail worker each
  MaxEvents,   \* bound: review requests
  MaxJobs,     \* bound: e-mail jobs
  MaxFaults    \* bound: crashes and failed transactions

ASSUME NotificationsAssumption == /\ MaxEvents \in Nat
                                  /\ MaxJobs \in Nat
                                  /\ MaxFaults \in Nat

Events == 1 .. MaxEvents
Jobs   == 1 .. MaxJobs
Kinds  == {"review_requested", "review_requested_resent"}

NoEvent == 0

\* The columns of uq_email_notifications_dedup.
Slots == Properties \X Recipients \X Kinds

VARIABLES
  event,   \* outbox_events of type review_requested, in created_at order
  row,     \* the email_notifications row of each slot
  job,     \* the email_send jobs, in created_at order
  sub,     \* what the subscriber of each process is doing
  mailer,  \* what the e-mail worker of each process is doing
  up,      \* which processes run
  faults   \* faults so far

vars == <<event, row, job, sub, mailer, up, faults>>

-----------------------------------------------------------------------------
(* Rows and the states of the actors.                                      *)

EventRow == [status : {"absent", "pending", "processing", "dispatched",
                       "failed"},
             about  : Properties]

EmailRow == [status : {"absent", "queued", "sent", "failed"},
             recent : BOOLEAN]    \* sent_at >= now - throttle_seconds

JobStatuses == {"absent", "queued", "processing", "completed", "failed",
                "superseded"}

JobRow == [status    : JobStatuses,
           event     : Events \cup {NoEvent},  \* history: what it came from
           to        : SUBSET Recipients,
           kind      : Kinds,
           mails     : Nat,         \* history: messages the server accepted
           recovered : Nat]         \* history: recoveries of its lease

IdleSub == [pc |-> "idle"]
BusySub == [pc    : {"claimed", "read", "failing"},
            event : Events,
            to    : SUBSET Recipients,  \* surviving recipients
            kind  : Kinds]

IdleMailer == [pc |-> "idle"]
BusyMailer == [pc  : {"handling", "mailed", "refused", "done", "raised"},
               job : Jobs]

Subscribing(p, pc) == sub[p].pc = pc
Mailing(p, pc)     == mailer[p].pc = pc

Covers(q, to, k) == {<<q, r, k>> : r \in to}
SlotsOf(j)       == Covers(event[job[j].event].about, job[j].to, job[j].kind)

Fault == /\ faults < MaxFaults
         /\ faults' = faults + 1

-----------------------------------------------------------------------------
(* The outbox subscriber.                                                  *)

\* The pipeline holds a reel for review; Init has drawn which one.
Emit(e) ==
  /\ event[e].status = "absent"
  /\ \A f \in Events : f < e => event[f].status # "absent"
  /\ event' = [event EXCEPT ![e].status = "pending"]
  /\ UNCHANGED <<row, job, sub, mailer, up, faults>>

\* Mutants of Claimable: a restarted worker takes its processing events up
\* again, or an unfinished event blocks the ones behind it.
ReclaimProcessing(e) == event[e].status \in {"pending", "processing"}
OneAtATime(e)        == /\ event[e].status = "pending"
                        /\ \A f \in Events : event[f].status # "processing"

Claimable(e) == event[e].status = "pending"

\* Claim and mark the oldest pending event, in a transaction of its own.
ClaimEvent(p, e) ==
  /\ up[p] /\ Subscribing(p, "idle")
  /\ Claimable(e)
  /\ \A f \in Events : f < e => ~Claimable(f)
  /\ event' = [event EXCEPT ![e].status = "processing"]
  /\ sub' = [sub EXCEPT ![p] = [pc |-> "claimed", event |-> e, to |-> {},
                                kind |-> "review_requested"]]
  /\ UNCHANGED <<row, job, mailer, up, faults>>

\* find_recent_sent: a row of any reel of the agency.
Throttled(r) == \E s \in Slots : /\ s[2] = r
                                 /\ row[s].status = "sent"
                                 /\ row[s].recent

\* _resolve_event_kind looks for a first mail to the first survivor, whoever
\* the settings list first, among the 200 newest rows of the agency.
KindsFor(q, to) ==
  {"review_requested"} \cup
  (IF \E r \in to : row[<<q, r, "review_requested">>].status # "absent"
   THEN {"review_requested_resent"} ELSE {})

\* The handler's transaction reads the configured recipients, the throttle and
\* the kind.
DispatchRead(p) ==
  /\ Subscribing(p, "claimed")
  /\ \E configured \in SUBSET Recipients :
       LET surviving == {r \in configured : ~Throttled(r)}
       IN \E k \in KindsFor(event[sub[p].event].about, surviving) :
            sub' = [sub EXCEPT ![p].pc = "read", ![p].to = surviving,
                               ![p].kind = k]
  /\ UNCHANGED <<event, row, job, mailer, up, faults>>

\* Nobody is configured, or everybody is throttled.
DispatchSkip(p) ==
  /\ Subscribing(p, "read") /\ sub[p].to = {}
  /\ event' = [event EXCEPT ![sub[p].event].status = "dispatched"]
  /\ sub' = [sub EXCEPT ![p] = IdleSub]
  /\ UNCHANGED <<row, job, mailer, up, faults>>

IsNextJob(j) == /\ job[j].status = "absent"
                /\ \A k \in Jobs : k < j => job[k].status # "absent"

NewJob(s) == [status |-> "queued", event |-> s.event, to |-> s.to,
              kind |-> s.kind, mails |-> 0, recovered |-> 0]

\* insert_pending: an existing row is kept as it is, whatever its status.
Inserted(s) == IF row[s].status = "absent"
               THEN [status |-> "queued", recent |-> FALSE] ELSE row[s]

\* Insert the rows and the job and mark the event, in one commit.
DispatchJob(p, j) ==
  /\ Subscribing(p, "read") /\ sub[p].to # {}
  /\ IsNextJob(j)
  /\ LET q     == event[sub[p].event].about
         slots == Covers(q, sub[p].to, sub[p].kind)
     IN row' = [s \in Slots |-> IF s \in slots THEN Inserted(s) ELSE row[s]]
  /\ job' = [job EXCEPT ![j] = NewJob(sub[p])]
  /\ event' = [event EXCEPT ![sub[p].event].status = "dispatched"]
  /\ sub' = [sub EXCEPT ![p] = IdleSub]
  /\ UNCHANGED <<mailer, up, faults>>

\* The handler raises or its commit fails: the transaction is rolled back.
DispatchFails(p) ==
  /\ sub[p].pc \in {"claimed", "read"}
  /\ Fault
  /\ sub' = [sub EXCEPT ![p].pc = "failing"]
  /\ UNCHANGED <<event, row, job, mailer, up>>

MarkEventFailed(p) ==
  /\ Subscribing(p, "failing")
  /\ event' = [event EXCEPT ![sub[p].event].status = "failed"]
  /\ sub' = [sub EXCEPT ![p] = IdleSub]
  /\ UNCHANGED <<row, job, mailer, up, faults>>

\* That transaction fails too, in the same outage, and is only logged.
MarkEventLost(p) ==
  /\ Subscribing(p, "failing")
  /\ sub' = [sub EXCEPT ![p] = IdleSub]
  /\ UNCHANGED <<event, row, job, mailer, up, faults>>

-----------------------------------------------------------------------------
(* The e-mail worker.                                                      *)

TakeJob(p, j) ==
  /\ up[p] /\ Mailing(p, "idle")
  /\ job[j].status = "queued"
  /\ job' = [job EXCEPT ![j].status = "processing"]
  /\ mailer' = [mailer EXCEPT ![p] = [pc |-> "handling", job |-> j]]
  /\ UNCHANGED <<event, row, sub, up, faults>>

Accepted(j) == job' = [job EXCEPT ![j].mails = @ + 1]

\* The server accepts one message for all recipients; send() ignores which of
\* them it refused.
Send(p) ==
  /\ Mailing(p, "handling")
  /\ Accepted(mailer[p].job)
  /\ mailer' = [mailer EXCEPT ![p].pc = "mailed"]
  /\ UNCHANGED <<event, row, sub, up, faults>>

\* send() raises; a connection lost late may have delivered the message.
SendRaises(p) ==
  /\ Mailing(p, "handling")
  /\ \/ Accepted(mailer[p].job)
     \/ UNCHANGED job
  /\ mailer' = [mailer EXCEPT ![p].pc = "refused"]
  /\ UNCHANGED <<event, row, sub, up, faults>>

\* Mutant of Recordable: the rows are marked before the message is sent.
RecordEarly(p) == mailer[p].pc \in {"handling", "mailed"}

Recordable(p) == Mailing(p, "mailed")

\* Every row of the job, refused recipients included, with the time of the
\* sending, which may have left the throttle window by now.
MarkSent(p) ==
  /\ Recordable(p)
  /\ \E recent \in BOOLEAN :
       row' = [s \in Slots |-> IF s \in SlotsOf(mailer[p].job)
                               THEN [status |-> "sent", recent |-> recent]
                               ELSE row[s]]
  /\ mailer' = [mailer EXCEPT ![p].pc = "done"]
  /\ UNCHANGED <<event, job, sub, up, faults>>

\* _mark_all_failed. sent_at stays, but only that of a sent row is ever read.
MarkFailed(p) ==
  /\ Mailing(p, "refused")
  /\ row' = [s \in Slots |-> IF s \in SlotsOf(mailer[p].job)
                             THEN [status |-> "failed", recent |-> FALSE]
                             ELSE row[s]]
  /\ mailer' = [mailer EXCEPT ![p].pc = "raised"]
  /\ UNCHANGED <<event, job, sub, up, faults>>

\* Mutant of AfterLostMark: the failed transaction is only logged.
LoggedOnly == "done"

\* The exception of the transaction leaves the handler.
AfterLostMark == "raised"

\* The transaction that marks the rows fails.
MarkLost(p) ==
  /\ mailer[p].pc \in {"mailed", "refused"}
  /\ Fault
  /\ mailer' = [mailer EXCEPT ![p].pc = AfterLostMark]
  /\ UNCHANGED <<event, row, job, sub, up>>

\* mark_job_completed and mark_job_failed look at the id alone.
Settle(p, status) ==
  /\ job' = [job EXCEPT ![mailer[p].job].status = status]
  /\ mailer' = [mailer EXCEPT ![p] = IdleMailer]
  /\ UNCHANGED <<event, row, sub, up, faults>>

\* Mutant of FailureStatus: SMTP errors are retried.
RetryStatus == "queued"

\* Neither SMTP nor database errors are retryable: the first one is final.
FailureStatus == "failed"

AckCompleted(p) == Mailing(p, "done") /\ Settle(p, "completed")
AckFailed(p)    == Mailing(p, "raised") /\ Settle(p, FailureStatus)

\* The acknowledging transaction fails: the worker goes on, the job stays.
AckLost(p) ==
  /\ mailer[p].pc \in {"done", "raised"}
  /\ Fault
  /\ mailer' = [mailer EXCEPT ![p] = IdleMailer]
  /\ UNCHANGED <<event, row, job, sub, up>>

-----------------------------------------------------------------------------
(* The queue, the processes and time.                                      *)

\* A reel request of the property: supersede_queued_jobs has no kind filter.
Supersede(q) ==
  LET stale == {j \in Jobs : /\ job[j].status = "queued"
                             /\ event[job[j].event].about = q}
  IN /\ stale # {}
     /\ job' = [j \in Jobs |-> IF j \in stale
                               THEN [job[j] EXCEPT !.status = "superseded"]
                               ELSE job[j]]
     /\ UNCHANGED <<event, row, sub, mailer, up, faults>>

Crash(p) ==
  /\ up[p]
  /\ Fault
  /\ up' = [up EXCEPT ![p] = FALSE]
  /\ sub' = [sub EXCEPT ![p] = IdleSub]
  /\ mailer' = [mailer EXCEPT ![p] = IdleMailer]
  /\ UNCHANGED <<event, row, job>>

\* A starting process recovers the expired leases, of jobs other processes
\* still run too, and no events.
Start(p) ==
  /\ ~up[p]
  /\ up' = [up EXCEPT ![p] = TRUE]
  /\ \E expired \in SUBSET {j \in Jobs : job[j].status = "processing"} :
       job' = [j \in Jobs |->
                 IF j \in expired
                 THEN [job[j] EXCEPT !.status = "queued", !.recovered = @ + 1]
                 ELSE job[j]]
  /\ UNCHANGED <<event, row, sub, mailer, faults>>

\* More than throttle_seconds pass.
WindowElapses ==
  /\ row' = [s \in Slots |-> [row[s] EXCEPT !.recent = FALSE]]
  /\ UNCHANGED <<event, job, sub, mailer, up, faults>>

-----------------------------------------------------------------------------
Init ==
  /\ event \in [Events -> {[status |-> "absent", about |-> q]
                             : q \in Properties}]
  /\ row = [s \in Slots |-> [status |-> "absent", recent |-> FALSE]]
  /\ job = [j \in Jobs |-> [status |-> "absent", event |-> NoEvent, to |-> {},
                            kind |-> "review_requested", mails |-> 0,
                            recovered |-> 0]]
  /\ sub = [p \in Processes |-> IdleSub]
  /\ mailer = [p \in Processes |-> IdleMailer]
  /\ up = [p \in Processes |-> TRUE]
  /\ faults = 0

Subscribe(p) == \/ \E e \in Events : ClaimEvent(p, e)
                \/ DispatchRead(p)
                \/ DispatchSkip(p)
                \/ \E j \in Jobs : DispatchJob(p, j)
                \/ MarkEventFailed(p)

Mail(p) == \/ \E j \in Jobs : TakeJob(p, j)
           \/ Send(p) \/ SendRaises(p)
           \/ MarkSent(p) \/ MarkFailed(p)
           \/ AckCompleted(p) \/ AckFailed(p)

Fail(p) == \/ DispatchFails(p) \/ MarkEventLost(p)
           \/ MarkLost(p) \/ AckLost(p)
           \/ Crash(p)

Next == \/ \E e \in Events : Emit(e)
        \/ \E q \in Properties : Supersede(q)
        \/ WindowElapses
        \/ \E p \in Processes :
             Subscribe(p) \/ Mail(p) \/ Fail(p) \/ Start(p)

Spec == Init /\ [][Next]_vars

\* The subscriber's loop never gives up, and a process that died is started
\* again (restart: unless-stopped).
FairSpec == /\ Spec
            /\ \A p \in Processes : WF_vars(Subscribe(p)) /\ WF_vars(Start(p))

-----------------------------------------------------------------------------
(* Properties.                                                             *)

\* Every variable keeps its type.
TypeOK == /\ event \in [Events -> EventRow]
          /\ row \in [Slots -> EmailRow]
          /\ job \in [Jobs -> JobRow]
          /\ sub \in [Processes -> {IdleSub} \cup BusySub]
          /\ mailer \in [Processes -> {IdleMailer} \cup BusyMailer]
          /\ up \in [Processes -> BOOLEAN]
          /\ faults \in 0 .. MaxFaults

Enqueued(j) == job[j].status # "absent"

\* However subscribers crash, restart and fail, one review request leads to at
\* most one e-mail job, and only to one when it ends up dispatched: a failed or
\* stuck event mails nobody.
DispatchedOnce ==
  /\ \A j \in Jobs :
       Enqueued(j) => event[job[j].event].status = "dispatched"
  /\ \A j, k \in Jobs :
       Enqueued(j) /\ Enqueued(k) /\ job[j].event = job[k].event => j = k

\* A row says sent only when the server accepted a message for the row's reel,
\* recipient and kind. (Refused recipients of an accepted message are not
\* told apart, and the message may be that of an earlier job of the slot.)
SentMeansMailed ==
  \A s \in Slots :
    row[s].status = "sent" =>
      \E j \in Jobs : Enqueued(j) /\ s \in SlotsOf(j) /\ job[j].mails > 0

\* A completed job leaves no row of its slots queued: whoever reads the audit
\* rows learns what became of it, whatever failed on the way.
CompletedIsRecorded ==
  \A j \in Jobs : job[j].status = "completed" =>
    \A s \in SlotsOf(j) : row[s].status \in {"sent", "failed"}

\* A message goes out a second time only when a recovery put its job back:
\* refusals, failed transactions and superseding requests repeat none.
RepeatedOnlyByRecovery ==
  \A j \in Jobs : job[j].mails <= 1 + job[j].recovered

\* Every review request is taken up, even behind events that a crash left in
\* processing for good.
RequestsAreTaken ==
  \A e \in Events :
    event[e].status = "pending" ~> event[e].status # "pending"
=============================================================================
