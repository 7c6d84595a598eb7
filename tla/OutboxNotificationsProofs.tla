--------------------- MODULE OutboxNotificationsProofs ---------------------
(***************************************************************************)
(* Proofs about OutboxNotifications, for any number of reels, recipients,  *)
(* processes, review requests and faults.                                  *)
(***************************************************************************)
EXTENDS OutboxNotifications, FiniteSetTheorems, TLAPS

\* What a busy subscriber and a busy e-mail worker are made of.
LEMMA Busy ==
  ASSUME TypeOK, NEW p \in Processes
  PROVE  /\ sub[p].pc # "idle" => sub[p] \in BusySub
         /\ mailer[p].pc # "idle" => mailer[p] \in BusyMailer
BY DEF TypeOK, IdleSub, IdleMailer

\* The outcome of the reads: some recipients and a kind.
LEMMA Reading ==
  ASSUME NEW p \in Processes, DispatchRead(p)
  PROVE  \E to \in SUBSET Recipients, k \in Kinds :
           sub' = [sub EXCEPT ![p].pc = "read", ![p].to = to, ![p].kind = k]
<1>1. PICK configured \in SUBSET Recipients :
        \E k \in KindsFor(event[sub[p].event].about,
                          {r \in configured : ~Throttled(r)}) :
          sub' = [sub EXCEPT ![p].pc = "read",
                             ![p].to = {r \in configured : ~Throttled(r)},
                             ![p].kind = k]
  BY DEF DispatchRead
<1>2. KindsFor(event[sub[p].event].about, {r \in configured : ~Throttled(r)})
        \subseteq Kinds
  BY DEF KindsFor, Kinds
<1> QED BY <1>1, <1>2

\* The typing of the variables the subscriber's steps change.
LEMMA SubscribeTyped ==
  ASSUME TypeOK, NEW p \in Processes,
         \/ Subscribe(p) \/ DispatchFails(p) \/ MarkEventLost(p)
  PROVE  TypeOK'
<1> USE NotificationsAssumption
<1>1. CASE \E e \in Events : ClaimEvent(p, e)
  <2>1. PICK e \in Events : ClaimEvent(p, e)
    BY <1>1
  <2>2. event' \in [Events -> EventRow]
    BY <2>1 DEF ClaimEvent, TypeOK, EventRow
  <2>3. [pc |-> "claimed", event |-> e, to |-> {}, kind |-> "review_requested"]
          \in BusySub
    BY DEF BusySub, Kinds
  <2> QED BY <2>1, <2>2, <2>3 DEF ClaimEvent, TypeOK
<1>2. CASE DispatchRead(p)
  <2>1. sub[p] \in BusySub
    BY <1>2, Busy DEF DispatchRead, Subscribing
  <2>2. PICK to \in SUBSET Recipients, k \in Kinds :
          sub' = [sub EXCEPT ![p].pc = "read", ![p].to = to, ![p].kind = k]
    BY <1>2, Reading
  <2>3. [sub[p] EXCEPT !.pc = "read", !.to = to, !.kind = k] \in BusySub
    BY <2>1 DEF BusySub
  <2>4. sub' = [sub EXCEPT ![p] = [sub[p] EXCEPT !.pc = "read", !.to = to,
                                                 !.kind = k]]
    BY <2>2 DEF TypeOK
  <2> QED BY <1>2, <2>3, <2>4 DEF DispatchRead, TypeOK
<1>3. CASE DispatchSkip(p)
  BY <1>3 DEF DispatchSkip, TypeOK, EventRow
<1>4. CASE \E j \in Jobs : DispatchJob(p, j)
  <2>1. PICK j \in Jobs : DispatchJob(p, j)
    BY <1>4
  <2>2. sub[p] \in BusySub
    BY <2>1, Busy DEF DispatchJob, Subscribing
  <2>3. NewJob(sub[p]) \in JobRow
    BY <2>2 DEF NewJob, JobRow, JobStatuses, BusySub
  <2>4. event' \in [Events -> EventRow]
    BY <2>1 DEF DispatchJob, TypeOK, EventRow
  <2>5. \A s \in Slots : Inserted(s) \in EmailRow
    BY DEF Inserted, TypeOK, EmailRow
  <2>6. row' \in [Slots -> EmailRow]
    BY <2>1, <2>5 DEF DispatchJob, TypeOK
  <2> QED BY <2>1, <2>3, <2>4, <2>6 DEF DispatchJob, TypeOK
<1>5. CASE MarkEventFailed(p)
  BY <1>5 DEF MarkEventFailed, TypeOK, EventRow
<1>6. CASE DispatchFails(p)
  <2>1. sub[p] \in BusySub
    BY <1>6, Busy DEF DispatchFails
  <2>2. [sub[p] EXCEPT !.pc = "failing"] \in BusySub
    BY <2>1 DEF BusySub
  <2> QED BY <1>6, <2>2 DEF DispatchFails, Fault, TypeOK
<1>7. CASE MarkEventLost(p)
  BY <1>7 DEF MarkEventLost, Fault, TypeOK
<1> QED BY <1>1, <1>2, <1>3, <1>4, <1>5, <1>6, <1>7 DEF Subscribe

\* The typing of the variables the e-mail worker's steps change.
LEMMA MailTyped ==
  ASSUME TypeOK, NEW p \in Processes, Mail(p) \/ MarkLost(p) \/ AckLost(p)
  PROVE  TypeOK'
<1> USE NotificationsAssumption
<1> DEFINE j == mailer[p].job
<1>1. CASE \E k \in Jobs : TakeJob(p, k)
  <2>1. PICK k \in Jobs : TakeJob(p, k)
    BY <1>1
  <2>2. [pc |-> "handling", job |-> k] \in BusyMailer
    BY DEF BusyMailer
  <2>3. job' \in [Jobs -> JobRow]
    BY <2>1 DEF TakeJob, TypeOK, JobRow, JobStatuses
  <2> QED BY <2>1, <2>2, <2>3 DEF TakeJob, TypeOK
<1>2. SUFFICES ASSUME mailer[p] \in BusyMailer,
                      \/ Send(p) \/ SendRaises(p) \/ MarkSent(p)
                      \/ MarkFailed(p) \/ AckCompleted(p) \/ AckFailed(p)
                      \/ MarkLost(p) \/ AckLost(p)
               PROVE  TypeOK'
  BY <1>1, Busy DEF Mail, Send, SendRaises, MarkSent, MarkFailed, AckCompleted,
                    AckFailed, MarkLost, AckLost, Mailing, Recordable
<1>3. /\ j \in Jobs
      /\ \A pc \in {"mailed", "refused", "done", "raised"} :
           [mailer[p] EXCEPT !.pc = pc] \in BusyMailer
  BY <1>2 DEF BusyMailer
<1>4. ASSUME Accepted(j) PROVE job' \in [Jobs -> JobRow]
  <2>1. job[j] \in JobRow
    BY <1>3 DEF TypeOK
  <2>2. [job[j] EXCEPT !.mails = @ + 1] \in JobRow
    BY <2>1 DEF JobRow
  <2> QED BY <1>3, <1>4, <2>2 DEF Accepted, TypeOK
<1>5. CASE Send(p)
  BY <1>3, <1>4, <1>5 DEF Send, TypeOK
<1>6. CASE SendRaises(p)
  BY <1>3, <1>4, <1>6 DEF SendRaises, TypeOK
<1>7. CASE MarkSent(p)
  <2>1. row' \in [Slots -> EmailRow]
    BY <1>7 DEF MarkSent, TypeOK, EmailRow
  <2> QED BY <1>3, <1>7, <2>1 DEF MarkSent, TypeOK
<1>8. CASE MarkFailed(p)
  <2>1. row' \in [Slots -> EmailRow]
    BY <1>8 DEF MarkFailed, TypeOK, EmailRow
  <2> QED BY <1>3, <1>8, <2>1 DEF MarkFailed, TypeOK
<1>9. CASE AckCompleted(p) \/ AckFailed(p)
  <2>1. PICK status \in {"completed", "failed"} : Settle(p, status)
    BY <1>9 DEF AckCompleted, AckFailed, FailureStatus
  <2>2. job[j] \in JobRow
    BY <1>3 DEF TypeOK
  <2>3. [job[j] EXCEPT !.status = status] \in JobRow
    BY <2>2 DEF JobRow, JobStatuses
  <2>4. job' = [job EXCEPT ![j] = [job[j] EXCEPT !.status = status]]
    BY <2>1 DEF Settle
  <2>5. job' \in [Jobs -> JobRow]
    BY <1>3, <2>3, <2>4 DEF TypeOK
  <2> QED BY <2>1, <2>5 DEF Settle, TypeOK
<1>10. CASE MarkLost(p)
  BY <1>3, <1>10 DEF MarkLost, AfterLostMark, Fault, TypeOK
<1>11. CASE AckLost(p)
  BY <1>11 DEF AckLost, Fault, TypeOK
<1> QED BY <1>2, <1>5, <1>6, <1>7, <1>8, <1>9, <1>10, <1>11

\* Every variable of the outbox, the rows, the jobs and the worker processes
\* keeps its type.
THEOREM TypeCorrect == Spec => []TypeOK
<1> USE NotificationsAssumption
<1>1. Init => TypeOK
  BY DEF Init, TypeOK, EventRow, EmailRow, JobRow, JobStatuses, Kinds
<1>2. TypeOK /\ [Next]_vars => TypeOK'
  <2> SUFFICES ASSUME TypeOK, [Next]_vars PROVE TypeOK'
    OBVIOUS
  <2>1. CASE \E e \in Events : Emit(e)
    BY <2>1 DEF Emit, TypeOK, EventRow
  <2>2. CASE \E q \in Properties : Supersede(q)
    <3>1. \A j \in Jobs : [job[j] EXCEPT !.status = "superseded"] \in JobRow
      BY DEF TypeOK, JobRow, JobStatuses
    <3> QED BY <2>2, <3>1 DEF Supersede, TypeOK
  <2>3. CASE WindowElapses
    BY <2>3 DEF WindowElapses, TypeOK, EmailRow
  <2>4. ASSUME NEW p \in Processes, Crash(p) PROVE TypeOK'
    BY <2>4 DEF Crash, Fault, TypeOK
  <2>5. ASSUME NEW p \in Processes, Start(p) PROVE TypeOK'
    <3>1. ASSUME NEW j \in Jobs
          PROVE  [job[j] EXCEPT !.status = "queued", !.recovered = @ + 1]
                   \in JobRow
      <4>1. job[j] \in JobRow
        BY DEF TypeOK
      <4>2. \A n \in Nat : [job[j] EXCEPT !.status = "queued",
                                          !.recovered = n] \in JobRow
        BY <4>1 DEF JobRow, JobStatuses
      <4>3. job[j].recovered + 1 \in Nat
        BY <4>1 DEF JobRow
      <4> QED BY <4>2, <4>3
    <3> QED BY <2>5, <3>1 DEF Start, TypeOK
  <2>6. CASE UNCHANGED vars
    BY <2>6 DEF vars, TypeOK
  <2> QED BY <2>1, <2>2, <2>3, <2>4, <2>5, <2>6, SubscribeTyped, MailTyped
          DEF Next, Fail
<1> QED BY <1>1, <1>2, PTL DEF Spec

-----------------------------------------------------------------------------
(* Jobs are enqueued by DispatchJob alone, and what they are for stays.    *)

\* A worker holds a job of the table; a job of the table came from an event.
Held == /\ \A p \in Processes :
             mailer[p].pc # "idle" => Enqueued(mailer[p].job)
        /\ \A j \in Jobs : Enqueued(j) => job[j].event \in Events

\* A step that enqueues nothing.
KeepsJobs ==
  \A j \in Jobs : /\ Enqueued(j)' <=> Enqueued(j)
                  /\ job'[j].event = job[j].event
                  /\ job'[j].to = job[j].to
                  /\ job'[j].kind = job[j].kind
                  /\ job[j].mails > 0 => job'[j].mails > 0

\* The worker's own steps and its lost transactions enqueue nothing.
LEMMA MailKeepsJobs ==
  ASSUME TypeOK, Held, NEW p \in Processes,
         Mail(p) \/ MarkLost(p) \/ AckLost(p)
  PROVE  KeepsJobs /\ Held'
<1>1. CASE \E k \in Jobs : TakeJob(p, k)
  <2>1. PICK k \in Jobs : TakeJob(p, k)
    BY <1>1
  <2>2. KeepsJobs
    BY <2>1 DEF TakeJob, KeepsJobs, Enqueued, TypeOK, JobRow
  <2> QED BY <2>1, <2>2 DEF TakeJob, Held, KeepsJobs, Enqueued, TypeOK
<1>2. SUFFICES ASSUME mailer[p] \in BusyMailer,
                      \/ Send(p) \/ SendRaises(p) \/ MarkSent(p)
                      \/ MarkFailed(p) \/ AckCompleted(p) \/ AckFailed(p)
                      \/ MarkLost(p) \/ AckLost(p)
               PROVE  KeepsJobs /\ Held'
  BY <1>1, Busy DEF Mail, Send, SendRaises, MarkSent, MarkFailed, AckCompleted,
                    AckFailed, MarkLost, AckLost, Mailing, Recordable
<1>3. /\ mailer[p].job \in Jobs
      /\ Enqueued(mailer[p].job)
  BY <1>2 DEF BusyMailer, Held
<1>4. KeepsJobs
  <2>1. CASE Send(p) \/ SendRaises(p)
    <3>1. Accepted(mailer[p].job) => KeepsJobs
      BY <1>3 DEF Accepted, KeepsJobs, Enqueued, TypeOK, JobRow
    <3>2. UNCHANGED job => KeepsJobs
      BY DEF KeepsJobs, Enqueued
    <3> QED BY <2>1, <3>1, <3>2 DEF Send, SendRaises
  <2>2. CASE AckCompleted(p) \/ AckFailed(p)
    BY <1>3, <2>2 DEF AckCompleted, AckFailed, FailureStatus, Settle, KeepsJobs,
                      Enqueued, TypeOK, JobRow
  <2>3. CASE MarkSent(p) \/ MarkFailed(p) \/ MarkLost(p) \/ AckLost(p)
    BY <2>3 DEF MarkSent, MarkFailed, MarkLost, AckLost, KeepsJobs, Enqueued
  <2> QED BY <1>2, <2>1, <2>2, <2>3
<1>5. \A o \in Processes : mailer'[o].pc # "idle" =>
        mailer[o].pc # "idle" /\ mailer'[o].job = mailer[o].job
  BY <1>2 DEF Send, SendRaises, MarkSent, MarkFailed, AckCompleted, AckFailed,
              Settle, MarkLost, AckLost, IdleMailer, BusyMailer, TypeOK
<1> QED BY <1>4, <1>5, Busy DEF Held, KeepsJobs, BusyMailer

\* Every step enqueues nothing or dispatches one event, and keeps Held.
LEMMA JobSteps ==
  ASSUME TypeOK, Held, [Next]_vars
  PROVE  /\ \/ KeepsJobs
            \/ \E p \in Processes, j \in Jobs : DispatchJob(p, j)
         /\ Held'
<1>1. ASSUME NEW p \in Processes, NEW j \in Jobs, DispatchJob(p, j)
      PROVE  Held'
  <2>1. sub[p] \in BusySub
    BY <1>1, Busy DEF DispatchJob, Subscribing
  <2> QED BY <1>1, <2>1
          DEF DispatchJob, NewJob, BusySub, Held, Enqueued, TypeOK
<1>2. CASE \E q \in Properties : Supersede(q)
  <2>1. KeepsJobs /\ UNCHANGED mailer
    BY <1>2 DEF Supersede, KeepsJobs, Enqueued, TypeOK, JobRow
  <2> QED BY <2>1, Busy DEF Held, KeepsJobs, BusyMailer
<1>3. ASSUME NEW p \in Processes, Start(p) PROVE KeepsJobs /\ Held'
  <2>1. KeepsJobs /\ UNCHANGED mailer
    <3>1. PICK expired \in SUBSET {j \in Jobs : job[j].status = "processing"} :
            job' = [j \in Jobs |-> IF j \in expired
                                  THEN [job[j] EXCEPT !.status = "queued",
                                                      !.recovered = @ + 1]
                                  ELSE job[j]]
      BY <1>3 DEF Start
    <3>2. ASSUME NEW j \in Jobs, NEW n
          PROVE  /\ [job[j] EXCEPT !.status = "queued",
                                   !.recovered = n].status = "queued"
                 /\ \A c \in {"event", "to", "kind", "mails"} :
                      [job[j] EXCEPT !.status = "queued",
                                     !.recovered = n][c] = job[j][c]
      BY DEF TypeOK, JobRow
    <3>3. ASSUME NEW j \in Jobs, j \in expired
          PROVE  /\ job[j].status = "processing" /\ job'[j].status = "queued"
                 /\ job'[j].event = job[j].event /\ job'[j].to = job[j].to
                 /\ job'[j].kind = job[j].kind /\ job'[j].mails = job[j].mails
      BY <3>1, <3>2, <3>3
    <3>4. \A j \in Jobs : j \notin expired => job'[j] = job[j]
      BY <3>1
    <3> QED BY <1>3, <3>3, <3>4 DEF Start, KeepsJobs, Enqueued
  <2> QED BY <2>1, Busy DEF Held, KeepsJobs, BusyMailer
<1>4. ASSUME NEW p \in Processes, Crash(p) PROVE KeepsJobs /\ Held'
  BY <1>4 DEF Crash, Held, KeepsJobs, Enqueued, IdleMailer, TypeOK
<1>5. UNCHANGED <<job, mailer>> => KeepsJobs /\ Held'
  BY DEF Held, KeepsJobs, Enqueued
<1>6. CASE (\E e \in Events : Emit(e)) \/ WindowElapses \/ UNCHANGED vars
  BY <1>5, <1>6 DEF Emit, WindowElapses, vars
<1>7. ASSUME NEW p \in Processes,
             \/ \E e \in Events : ClaimEvent(p, e)
             \/ DispatchRead(p) \/ DispatchSkip(p) \/ MarkEventFailed(p)
             \/ DispatchFails(p) \/ MarkEventLost(p)
      PROVE  KeepsJobs /\ Held'
  BY <1>5, <1>7 DEF ClaimEvent, DispatchRead, DispatchSkip, MarkEventFailed,
                    DispatchFails, MarkEventLost
<1> QED BY <1>1, <1>2, <1>3, <1>4, <1>6, <1>7, MailKeepsJobs
        DEF Next, Subscribe, Fail

\* Who changes which event, from which status to which.
LEMMA EventSteps ==
  ASSUME TypeOK, [Next]_vars, NEW e \in Events
  PROVE  /\ event'[e].about = event[e].about
         /\ \/ event'[e] = event[e]
            \/ event[e].status = "absent" /\ event'[e].status = "pending"
            \/ /\ event[e].status = "pending"
               /\ \E p \in Processes : ClaimEvent(p, e)
            \/ \E p \in Processes :
                 /\ sub[p].pc # "idle" /\ sub[p].event = e
                 /\ DispatchSkip(p) \/ MarkEventFailed(p)
                    \/ \E j \in Jobs : DispatchJob(p, j)
<1>2. CASE \E f \in Events : Emit(f)
  BY <1>2 DEF Emit, TypeOK, EventRow
<1>3. ASSUME NEW p \in Processes, NEW f \in Events, ClaimEvent(p, f)
      PROVE  /\ event'[e].about = event[e].about
             /\ e # f => event'[e] = event[e]
             /\ event[f].status = "pending"
  BY <1>3 DEF ClaimEvent, Claimable, TypeOK, EventRow
<1>4. ASSUME NEW p \in Processes,
             DispatchSkip(p) \/ MarkEventFailed(p)
             \/ \E j \in Jobs : DispatchJob(p, j)
      PROVE  /\ event'[e].about = event[e].about
             /\ sub[p].pc # "idle"
             /\ event'[e] = event[e] \/ sub[p].event = e
  BY <1>4 DEF DispatchSkip, DispatchJob, MarkEventFailed, Subscribing, TypeOK,
              EventRow
<1>5. CASE UNCHANGED event
  BY <1>5
<1>6. ASSUME NEW p \in Processes, Mail(p) \/ Fail(p) \/ Start(p)
      PROVE  UNCHANGED event
  BY <1>6 DEF Mail, Fail, TakeJob, Send, SendRaises, MarkSent, MarkFailed,
              AckCompleted, AckFailed, Settle, MarkLost, AckLost, Crash, Start,
              DispatchFails, MarkEventLost
<1>7. ASSUME (\E q \in Properties : Supersede(q)) \/ WindowElapses
             \/ UNCHANGED vars \/ \E p \in Processes : DispatchRead(p)
      PROVE  UNCHANGED event
  BY <1>7 DEF Supersede, WindowElapses, DispatchRead, vars
<1> QED BY <1>2, <1>3, <1>4, <1>5, <1>6, <1>7 DEF Next, Subscribe

\* The reel of an event, and so the slots of a job, never change.
LEMMA SlotsKept ==
  ASSUME TypeOK, Held, [Next]_vars, NEW j \in Jobs, Enqueued(j)
  PROVE  /\ Enqueued(j)' /\ SlotsOf(j)' = SlotsOf(j)
         /\ SlotsOf(j) \subseteq Slots
         /\ job[j].mails > 0 => job'[j].mails > 0
<1>1. \A e \in Events : event'[e].about = event[e].about
  BY EventSteps
<1>2. \/ KeepsJobs
      \/ \E p \in Processes, k \in Jobs : DispatchJob(p, k)
  BY JobSteps
<1>3. /\ Enqueued(j)'
      /\ job'[j].event = job[j].event
      /\ job'[j].to = job[j].to
      /\ job'[j].kind = job[j].kind
      /\ job[j].mails > 0 => job'[j].mails > 0
  BY <1>2 DEF KeepsJobs, DispatchJob, IsNextJob, Enqueued, TypeOK
<1>4. /\ event[job[j].event].about \in Properties
      /\ job[j].to \subseteq Recipients /\ job[j].kind \in Kinds
  BY DEF Held, TypeOK, EventRow, JobRow
<1> QED BY <1>1, <1>3, <1>4 DEF Held, SlotsOf, Covers, Slots

-----------------------------------------------------------------------------
(* One request, at most one job.                                           *)

\* The strengthening of DispatchedOnce: an event in a subscriber's hands is in
\* processing, so no job came from it yet, and nobody else has it.
OnceInv ==
  /\ DispatchedOnce
  /\ \A p \in Processes :
       sub[p].pc # "idle" => event[sub[p].event].status = "processing"
  /\ \A p, o \in Processes :
       sub[p].pc # "idle" /\ sub[o].pc # "idle" /\ sub[p].event = sub[o].event
         => p = o

\* A step that changes no event keeps OnceInv, if it keeps the jobs and gives
\* no subscriber an event.
LEMMA OnceKept ==
  ASSUME TypeOK, Held, OnceInv, KeepsJobs,
         \A e \in Events : \/ event'[e] = event[e]
                           \/ event[e].status = "absent",
         \A p \in Processes : sub'[p].pc # "idle" =>
           sub[p].pc # "idle" /\ sub'[p].event = sub[p].event
  PROVE  OnceInv'
<1>1. \A p \in Processes : sub'[p].pc # "idle" =>
        /\ sub[p].event \in Events
        /\ event'[sub[p].event].status = "processing"
  BY Busy DEF OnceInv, BusySub
<1>2. DispatchedOnce'
  BY DEF OnceInv, DispatchedOnce, KeepsJobs, Held
<1> QED BY <1>1, <1>2 DEF OnceInv

LEMMA OnceStep ==
  ASSUME TypeOK, Held, OnceInv, [Next]_vars
  PROVE  OnceInv'
<1>1. ASSUME NEW p \in Processes, NEW e \in Events, ClaimEvent(p, e)
      PROVE  OnceInv'
  <2>1. /\ event[e].status = "pending"
        /\ event'[e].status = "processing"
        /\ \A f \in Events : f # e => event'[f] = event[f]
        /\ sub'[p].event = e
        /\ \A o \in Processes : o # p => sub'[o] = sub[o]
        /\ job' = job
    BY <1>1 DEF ClaimEvent, Claimable, TypeOK, EventRow
  <2>2. \A o \in Processes : sub[o].pc # "idle" =>
          sub[o].event \in Events /\ sub[o].event # e
    BY <2>1, Busy DEF OnceInv, BusySub
  <2>3. DispatchedOnce'
    BY <2>1 DEF OnceInv, DispatchedOnce, Held, Enqueued
  <2> QED BY <2>1, <2>2, <2>3 DEF OnceInv
<1>2. ASSUME NEW p \in Processes,
             DispatchSkip(p) \/ MarkEventFailed(p)
             \/ \E j \in Jobs : DispatchJob(p, j)
      PROVE  OnceInv'
  <2> DEFINE e == sub[p].event
  <2>1. /\ e \in Events /\ event[e].status = "processing"
        /\ sub[p].pc # "idle" /\ sub'[p].pc = "idle"
        /\ \A f \in Events : f # e => event'[f] = event[f]
        /\ \A o \in Processes : o # p => sub'[o] = sub[o]
    BY <1>2, Busy DEF DispatchSkip, DispatchJob, MarkEventFailed, Subscribing,
                      IdleSub, TypeOK, OnceInv, BusySub
  <2>2. \A j \in Jobs : Enqueued(j) => job[j].event # e
    BY <2>1 DEF OnceInv, DispatchedOnce
  <2>3. \A o \in Processes : sub'[o].pc # "idle" =>
          /\ sub'[o] = sub[o]
          /\ sub[o].event \in Events /\ sub[o].event # e
    BY <2>1, Busy DEF OnceInv, BusySub
  <2>4. CASE job' = job
    BY <2>1, <2>2, <2>3, <2>4 DEF OnceInv, DispatchedOnce, Held, Enqueued
  <2>5. ASSUME NEW j \in Jobs, DispatchJob(p, j) PROVE OnceInv'
    <3>1. /\ event'[e].status = "dispatched"
          /\ ~Enqueued(j) /\ job'[j].event = e
          /\ \A k \in Jobs : k # j => job'[k] = job[k]
      BY <2>1, <2>5 DEF DispatchJob, IsNextJob, NewJob, Enqueued, TypeOK,
                        EventRow
    <3>2. DispatchedOnce'
      BY <2>1, <2>2, <3>1 DEF OnceInv, DispatchedOnce, Held, Enqueued
    <3> QED BY <2>1, <2>3, <3>2 DEF OnceInv
  <2> QED BY <1>2, <2>4, <2>5 DEF DispatchSkip, MarkEventFailed
<1>3. ASSUME ~\E p \in Processes :
               \/ \E e \in Events : ClaimEvent(p, e)
               \/ DispatchSkip(p) \/ MarkEventFailed(p)
               \/ \E j \in Jobs : DispatchJob(p, j)
      PROVE  OnceInv'
  <2>1. KeepsJobs
    BY <1>3, JobSteps
  <2>2. \A e \in Events : event'[e] = event[e] \/ event[e].status = "absent"
    BY <1>3, EventSteps
  <2>3. ASSUME NEW p \in Processes, sub'[p].pc # "idle"
        PROVE  sub[p].pc # "idle" /\ sub'[p].event = sub[p].event
    <3>1. ASSUME NEW o \in Processes, DispatchRead(o) \/ DispatchFails(o)
          PROVE  sub[p].pc # "idle" /\ sub'[p].event = sub[p].event
      <4>1. sub[o] \in BusySub /\ sub[o].pc # "idle"
        BY <3>1, Busy DEF DispatchRead, DispatchFails, Subscribing
      <4>2. p # o => sub'[p] = sub[p]
        BY <3>1 DEF DispatchRead, DispatchFails, TypeOK
      <4>3. ASSUME DispatchRead(o) PROVE sub'[o].event = sub[o].event
        <5>1. PICK to \in SUBSET Recipients, k \in Kinds :
                sub' = [sub EXCEPT ![o].pc = "read", ![o].to = to, ![o].kind = k]
          BY <4>3, Reading
        <5>2. sub' = [sub EXCEPT ![o] = [sub[o] EXCEPT !.pc = "read", !.to = to,
                                                       !.kind = k]]
          BY <5>1 DEF TypeOK
        <5> QED BY <4>1, <5>2 DEF TypeOK, BusySub
      <4>4. DispatchFails(o) => sub'[o].event = sub[o].event
        BY <4>1 DEF DispatchFails, TypeOK, BusySub
      <4> QED BY <2>3, <3>1, <4>1, <4>2, <4>3, <4>4
    <3>2. ASSUME NEW o \in Processes, MarkEventLost(o) \/ Crash(o)
          PROVE  sub'[p] = sub[p]
      BY <2>3, <3>2 DEF MarkEventLost, Crash, IdleSub, TypeOK
    <3>3. ASSUME NEW o \in Processes,
                 Mail(o) \/ MarkLost(o) \/ AckLost(o) \/ Start(o)
          PROVE  sub'[p] = sub[p]
      BY <3>3 DEF Mail, TakeJob, Send, SendRaises, MarkSent, MarkFailed,
                  AckCompleted, AckFailed, Settle, MarkLost, AckLost, Start
    <3>4. ASSUME (\E e \in Events : Emit(e)) \/ WindowElapses
                 \/ (\E q \in Properties : Supersede(q)) \/ UNCHANGED vars
          PROVE  sub'[p] = sub[p]
      BY <3>4 DEF Emit, Supersede, WindowElapses, vars
    <3> QED BY <1>3, <2>3, <3>1, <3>2, <3>3, <3>4 DEF Next, Subscribe, Fail
  <2> QED BY <2>1, <2>2, <2>3, OnceKept
<1> QED BY <1>1, <1>2, <1>3

\* However subscribers crash, restart and fail, a review request leads to at
\* most one e-mail job, and to none unless its event ends up dispatched.
THEOREM OncePerRequest == Spec => []DispatchedOnce
<1>1. Init => Held /\ OnceInv
  BY DEF Init, Held, OnceInv, DispatchedOnce, Enqueued, IdleSub, IdleMailer
<1>2. TypeOK /\ Held /\ OnceInv /\ [Next]_vars => Held' /\ OnceInv'
  BY JobSteps, OnceStep
<1>3. OnceInv => DispatchedOnce
  BY DEF OnceInv
<1> QED BY <1>1, <1>2, <1>3, TypeCorrect, PTL DEF Spec

-----------------------------------------------------------------------------
(* What the rows say.                                                      *)

\* How a step may change a row.
LEMMA RowSteps ==
  ASSUME TypeOK, [Next]_vars, NEW s \in Slots
  PROVE  /\ row[s].status # "absent" => row'[s].status # "absent"
         /\ row[s].status \in {"sent", "failed"} =>
              row'[s].status \in {"sent", "failed"}
         /\ row'[s].status = "sent" =>
              \/ row[s].status = "sent"
              \/ \E p \in Processes : /\ Mailing(p, "mailed")
                                      /\ s \in SlotsOf(mailer[p].job)
<1>1. ASSUME NEW p \in Processes, NEW j \in Jobs, DispatchJob(p, j)
      PROVE  \/ row'[s] = row[s]
             \/ row[s].status = "absent" /\ row'[s].status = "queued"
  BY <1>1 DEF DispatchJob, Inserted
<1>2. ASSUME NEW p \in Processes, MarkSent(p)
      PROVE  \/ row'[s] = row[s]
             \/ /\ row'[s].status = "sent"
                /\ Mailing(p, "mailed") /\ s \in SlotsOf(mailer[p].job)
  BY <1>2 DEF MarkSent, Recordable
<1>3. ASSUME NEW p \in Processes, MarkFailed(p)
      PROVE  row'[s] = row[s] \/ row'[s].status = "failed"
  BY <1>3 DEF MarkFailed, TypeOK, EmailRow
<1>4. CASE WindowElapses
  BY <1>4 DEF WindowElapses, TypeOK, EmailRow
<1>5. ASSUME NEW p \in Processes,
             \/ \E e \in Events : ClaimEvent(p, e)
             \/ DispatchRead(p) \/ DispatchSkip(p) \/ MarkEventFailed(p)
             \/ \E j \in Jobs : TakeJob(p, j)
             \/ Send(p) \/ SendRaises(p) \/ AckCompleted(p) \/ AckFailed(p)
             \/ Fail(p) \/ Start(p)
      PROVE  row' = row
  BY <1>5 DEF ClaimEvent, DispatchRead, DispatchSkip, MarkEventFailed, TakeJob,
              Send, SendRaises, AckCompleted, AckFailed, Settle, Fail,
              DispatchFails, MarkEventLost, MarkLost, AckLost, Crash, Start
<1>6. ASSUME (\E e \in Events : Emit(e)) \/ UNCHANGED vars
             \/ \E q \in Properties : Supersede(q)
      PROVE  row' = row
  BY <1>6 DEF Emit, Supersede, vars
<1> QED BY <1>1, <1>2, <1>3, <1>4, <1>5, <1>6 DEF Next, Subscribe, Mail

\* A worker gets past the sending, and past the marking, one way only.
LEMMA MailerSteps ==
  ASSUME TypeOK, [Next]_vars, NEW p \in Processes
  PROVE  /\ Mailing(p, "mailed")' =>
              /\ mailer'[p].job = mailer[p].job /\ mailer[p].pc # "idle"
              /\ Mailing(p, "mailed") \/ Send(p)
         /\ Mailing(p, "done")' =>
              /\ mailer'[p].job = mailer[p].job /\ mailer[p].pc # "idle"
              /\ Mailing(p, "done") \/ MarkSent(p)
<1>1. ASSUME mailer'[p] # mailer[p]
      PROVE  \/ (\E j \in Jobs : TakeJob(p, j)) \/ Send(p) \/ SendRaises(p)
             \/ MarkSent(p) \/ MarkFailed(p) \/ AckCompleted(p)
             \/ AckFailed(p) \/ MarkLost(p) \/ AckLost(p) \/ Crash(p)
  <2>1. ASSUME NEW o \in Processes, o # p, Mail(o) \/ Fail(o)
        PROVE  FALSE
    BY <1>1, <2>1 DEF Mail, Fail, TakeJob, Send, SendRaises, MarkSent,
                      MarkFailed, AckCompleted, AckFailed, Settle, MarkLost,
                      AckLost, Crash, DispatchFails, MarkEventLost, TypeOK
  <2>2. ASSUME NEW o \in Processes,
               \/ Subscribe(o) \/ Start(o)
               \/ DispatchFails(o) \/ MarkEventLost(o)
        PROVE  FALSE
    BY <1>1, <2>2 DEF Subscribe, ClaimEvent, DispatchRead, DispatchSkip,
                      DispatchJob, MarkEventFailed, Start, DispatchFails,
                      MarkEventLost
  <2>3. ASSUME (\E e \in Events : Emit(e)) \/ UNCHANGED vars \/ WindowElapses
               \/ \E q \in Properties : Supersede(q)
        PROVE  FALSE
    BY <1>1, <2>3 DEF Emit, Supersede, WindowElapses, vars
  <2> QED BY <2>1, <2>2, <2>3 DEF Next, Mail, Fail
<1>2. CASE mailer'[p] = mailer[p]
  BY <1>2 DEF Mailing
<1>3. CASE (\E j \in Jobs : TakeJob(p, j)) \/ AckCompleted(p) \/ AckFailed(p)
           \/ AckLost(p) \/ Crash(p)
  BY <1>3 DEF TakeJob, AckCompleted, AckFailed, Settle, AckLost, Crash,
              IdleMailer, Mailing, TypeOK
<1>4. CASE Send(p) \/ SendRaises(p) \/ MarkSent(p) \/ MarkFailed(p)
           \/ MarkLost(p)
  <2>1. mailer[p] \in BusyMailer /\ mailer[p].pc # "idle"
    BY <1>4, Busy DEF Send, SendRaises, MarkSent, MarkFailed, MarkLost, Mailing,
                      Recordable
  <2>2. PICK pc \in {"mailed", "refused", "done", "raised"} :
          /\ mailer' = [mailer EXCEPT ![p].pc = pc]
          /\ pc = "mailed" => Send(p)
          /\ pc = "done" => MarkSent(p)
    BY <1>4 DEF Send, SendRaises, MarkSent, MarkFailed, MarkLost, AfterLostMark
  <2>3. mailer'[p].pc = pc /\ mailer'[p].job = mailer[p].job
    BY <2>1, <2>2 DEF TypeOK, BusyMailer
  <2> QED BY <2>1, <2>2, <2>3 DEF Mailing
<1> QED BY <1>1, <1>2, <1>3, <1>4

\* The strengthening of SentMeansMailed: a worker past the sending has sent.
SentInv == /\ SentMeansMailed
           /\ \A p \in Processes :
                Mailing(p, "mailed") => job[mailer[p].job].mails > 0

LEMMA SentStep ==
  ASSUME TypeOK, Held, SentInv, [Next]_vars
  PROVE  SentInv'
<1>1. ASSUME NEW p \in Processes, Mailing(p, "mailed")'
      PROVE  job'[mailer'[p].job].mails > 0
  <2>1. /\ mailer[p] \in BusyMailer /\ mailer'[p].job = mailer[p].job
        /\ Mailing(p, "mailed") \/ Send(p)
    BY <1>1, MailerSteps, Busy
  <2>2. mailer[p].job \in Jobs /\ Enqueued(mailer[p].job)
    BY <2>1 DEF Held, BusyMailer
  <2>3. CASE Mailing(p, "mailed")
    BY <2>1, <2>2, <2>3, SlotsKept DEF SentInv
  <2>4. CASE Send(p)
    BY <2>1, <2>2, <2>4 DEF Send, Accepted, TypeOK, JobRow
  <2> QED BY <2>1, <2>3, <2>4
<1>2. ASSUME NEW s \in Slots, row'[s].status = "sent"
      PROVE  \E j \in Jobs : /\ Enqueued(j)' /\ s \in SlotsOf(j)'
                            /\ job'[j].mails > 0
  <2>1. PICK j \in Jobs :
          Enqueued(j) /\ s \in SlotsOf(j) /\ job[j].mails > 0
    <3>1. CASE row[s].status = "sent"
      BY <3>1 DEF SentInv, SentMeansMailed
    <3>2. ASSUME NEW p \in Processes, Mailing(p, "mailed"),
                 s \in SlotsOf(mailer[p].job)
          PROVE  \E j \in Jobs :
                   Enqueued(j) /\ s \in SlotsOf(j) /\ job[j].mails > 0
      BY <3>2, Busy DEF Mailing, BusyMailer, Held, SentInv
    <3> QED BY <1>2, <3>1, <3>2, RowSteps
  <2> QED BY <2>1, SlotsKept
<1> QED BY <1>1, <1>2 DEF SentInv, SentMeansMailed, Mailing

\* Whatever fails, is repeated or happens twice at once: a row that says sent is
\* backed by a message the server accepted for its reel, recipient and kind.
THEOREM SentRowsAreTrue == Spec => []SentMeansMailed
<1>1. Init => Held /\ SentInv
  BY DEF Init, Held, SentInv, SentMeansMailed, Mailing, Enqueued, IdleMailer
<1>2. TypeOK /\ Held /\ SentInv /\ [Next]_vars => Held' /\ SentInv'
  BY JobSteps, SentStep
<1>3. SentInv => SentMeansMailed
  BY DEF SentInv
<1> QED BY <1>1, <1>2, <1>3, TypeCorrect, PTL DEF Spec

\* The strengthening of CompletedIsRecorded: a job's slots have rows from its
\* enqueueing on, and a worker that is done has marked them.
RecordedInv ==
  /\ CompletedIsRecorded
  /\ \A j \in Jobs : Enqueued(j) =>
       \A s \in SlotsOf(j) : row[s].status # "absent"
  /\ \A p \in Processes : Mailing(p, "done") =>
       \A s \in SlotsOf(mailer[p].job) : row[s].status \in {"sent", "failed"}

\* Only the acknowledgement of a done worker completes a job.
LEMMA CompletedSteps ==
  ASSUME TypeOK, [Next]_vars, NEW j \in Jobs, job'[j].status = "completed"
  PROVE  \/ job[j].status = "completed"
         \/ \E p \in Processes : Mailing(p, "done") /\ mailer[p].job = j
<1>1. ASSUME NEW p \in Processes, AckCompleted(p)
      PROVE  job'[j] = job[j] \/ (Mailing(p, "done") /\ mailer[p].job = j)
  BY <1>1 DEF AckCompleted, Settle, TypeOK
<1>2. ASSUME NEW p \in Processes,
             AckFailed(p) \/ (\E k \in Jobs : TakeJob(p, k))
             \/ (\E k \in Jobs : DispatchJob(p, k))
      PROVE  job'[j] = job[j]
  BY <1>2 DEF AckFailed, FailureStatus, Settle, TakeJob, DispatchJob, NewJob,
              TypeOK, JobRow
<1>3. ASSUME NEW p \in Processes, Send(p) \/ SendRaises(p)
      PROVE  job'[j].status = job[j].status
  BY <1>3 DEF Send, SendRaises, Accepted, TypeOK, JobRow
<1>4. ASSUME NEW p \in Processes, Start(p)
      PROVE  job'[j] = job[j]
  <2>1. PICK expired \in SUBSET {k \in Jobs : job[k].status = "processing"} :
          job' = [k \in Jobs |-> IF k \in expired
                                THEN [job[k] EXCEPT !.status = "queued",
                                                    !.recovered = @ + 1]
                                ELSE job[k]]
    BY <1>4 DEF Start
  <2>2. \A n : [job[j] EXCEPT !.status = "queued",
                              !.recovered = n].status = "queued"
    BY DEF TypeOK, JobRow
  <2> QED BY <2>1, <2>2
<1>5. CASE \E q \in Properties : Supersede(q)
  BY <1>5 DEF Supersede, TypeOK, JobRow
<1>6. ASSUME NEW p \in Processes,
             \/ \E e \in Events : ClaimEvent(p, e)
             \/ DispatchRead(p) \/ DispatchSkip(p) \/ MarkEventFailed(p)
             \/ MarkSent(p) \/ MarkFailed(p) \/ Fail(p)
      PROVE  job' = job
  BY <1>6 DEF ClaimEvent, DispatchRead, DispatchSkip, MarkEventFailed, MarkSent,
              MarkFailed, Fail, DispatchFails, MarkEventLost, MarkLost, AckLost,
              Crash
<1>7. ASSUME (\E e \in Events : Emit(e)) \/ WindowElapses \/ UNCHANGED vars
      PROVE  job' = job
  BY <1>7 DEF Emit, WindowElapses, vars
<1> QED BY <1>1, <1>2, <1>3, <1>4, <1>5, <1>6, <1>7 DEF Next, Subscribe, Mail

LEMMA RecordedStep ==
  ASSUME TypeOK, Held, RecordedInv, [Next]_vars
  PROVE  RecordedInv'
<1> DEFINE Marked(j) == \A s \in SlotsOf(j) : row[s].status \in {"sent", "failed"}
<1>1. ASSUME NEW j \in Jobs, Enqueued(j), Marked(j)
      PROVE  Marked(j)'
  BY <1>1, SlotsKept, RowSteps
<1>2. ASSUME NEW j \in Jobs, job'[j].status = "completed"
      PROVE  Marked(j)'
  BY <1>1, <1>2, CompletedSteps
  DEF RecordedInv, CompletedIsRecorded, Enqueued, Held, Mailing
<1>3. ASSUME NEW p \in Processes, Mailing(p, "done")'
      PROVE  Marked(mailer[p].job)' /\ mailer'[p].job = mailer[p].job
  <2>1. /\ mailer[p] \in BusyMailer /\ mailer'[p].job = mailer[p].job
        /\ Mailing(p, "done") \/ MarkSent(p)
    BY <1>3, MailerSteps, Busy
  <2>2. mailer[p].job \in Jobs /\ Enqueued(mailer[p].job)
    BY <2>1 DEF Held, BusyMailer
  <2>3. CASE Mailing(p, "done")
    BY <1>1, <2>1, <2>2, <2>3 DEF RecordedInv
  <2>4. CASE MarkSent(p)
    <3>1. \A s \in SlotsOf(mailer[p].job) :
            s \in Slots /\ row'[s].status = "sent"
      BY <2>2, <2>4, SlotsKept DEF MarkSent
    <3>2. SlotsOf(mailer[p].job)' = SlotsOf(mailer[p].job)
      BY <2>1, <2>2, SlotsKept
    <3> QED BY <2>1, <3>1, <3>2
  <2> QED BY <2>1, <2>3, <2>4
<1>4. ASSUME NEW j \in Jobs, Enqueued(j)'
      PROVE  \A s \in SlotsOf(j)' : row'[s].status # "absent"
  <2>1. CASE Enqueued(j)
    BY <2>1, SlotsKept, RowSteps DEF RecordedInv
  <2>2. CASE ~Enqueued(j)
    <3>1. PICK p \in Processes, k \in Jobs : DispatchJob(p, k)
      BY <1>4, <2>2, JobSteps DEF KeepsJobs
    <3>2. j = k
      BY <1>4, <2>2, <3>1 DEF DispatchJob, Enqueued, TypeOK
    <3>3. /\ sub[p] \in BusySub
          /\ job'[j] = NewJob(sub[p])
          /\ event'[sub[p].event].about = event[sub[p].event].about
      BY <3>1, <3>2, Busy, EventSteps
      DEF DispatchJob, Subscribing, TypeOK, BusySub
    <3>4. SlotsOf(j)' = Covers(event[sub[p].event].about, sub[p].to, sub[p].kind)
      BY <3>3 DEF SlotsOf, NewJob, Covers
    <3>5. SlotsOf(j)' \subseteq Slots
      BY <3>3, <3>4 DEF Covers, Slots, BusySub, TypeOK, EventRow
    <3> QED BY <3>1, <3>4, <3>5 DEF DispatchJob, Inserted
  <2> QED BY <2>1, <2>2
<1> QED BY <1>2, <1>3, <1>4 DEF RecordedInv, CompletedIsRecorded, Mailing

\* A completed e-mail job leaves none of its rows queued: they say sent or
\* failed, whatever other jobs and lost transactions did to them.
THEOREM CompletedJobsAreRecorded == Spec => []CompletedIsRecorded
<1>1. Init => Held /\ RecordedInv
  BY DEF Init, Held, RecordedInv, CompletedIsRecorded, Mailing, Enqueued,
         IdleMailer
<1>2. TypeOK /\ Held /\ RecordedInv /\ [Next]_vars => Held' /\ RecordedInv'
  BY JobSteps, RecordedStep
<1>3. RecordedInv => CompletedIsRecorded
  BY DEF RecordedInv
<1> QED BY <1>1, <1>2, <1>3, TypeCorrect, PTL DEF Spec
-----------------------------------------------------------------------------
(* How often a message goes out.                                           *)

\* The workers that are about to send the message of a job.
Senders(k) == {p \in Processes : Mailing(p, "handling") /\ mailer[p].job = k}

Queued(k) == IF job[k].status = "queued" THEN 1 ELSE 0

\* The messages that went out, and those that can still go out without another
\* recovery: one for each sender, and one if the job is queued.
MailBudget ==
  \A k \in Jobs :
    /\ IsFiniteSet(Senders(k))
    /\ Enqueued(k) => job[k].mails + Cardinality(Senders(k)) + Queued(k)
                        <= 1 + job[k].recovered

\* A job gets a sender when it is taken from the queue, and sending, or failing
\* to, is the end of one.
LEMMA SendersStep ==
  ASSUME TypeOK, [Next]_vars, NEW k \in Jobs
  PROVE  /\ \/ Senders(k)' \subseteq Senders(k)
            \/ \E p \in Processes : /\ TakeJob(p, k)
                                    /\ Senders(k)' \subseteq Senders(k) \cup {p}
         /\ \A p \in Processes :
              (Send(p) \/ SendRaises(p)) /\ mailer[p].job = k
                => /\ p \in Senders(k)
                   /\ Senders(k)' \subseteq Senders(k) \ {p}
<1>1. ASSUME NEW p \in Processes, NEW j \in Jobs, TakeJob(p, j)
      PROVE  /\ j = k => Senders(k)' \subseteq Senders(k) \cup {p}
             /\ j # k => Senders(k)' \subseteq Senders(k)
  BY <1>1 DEF TakeJob, Senders, Mailing, TypeOK
<1>2. ASSUME NEW p \in Processes, NEW pc \in {"mailed", "refused", "done", "raised"},
             mailer' = [mailer EXCEPT ![p].pc = pc]
      PROVE  Senders(k)' \subseteq Senders(k) \ {p}
  BY <1>2 DEF Senders, Mailing, TypeOK
<1>3. ASSUME NEW p \in Processes, mailer' = [mailer EXCEPT ![p] = IdleMailer]
      PROVE  Senders(k)' \subseteq Senders(k)
  BY <1>3 DEF Senders, Mailing, IdleMailer, TypeOK
<1>4. ASSUME UNCHANGED mailer
      PROVE  Senders(k)' \subseteq Senders(k)
  BY <1>4 DEF Senders, Mailing
<1>5. ASSUME NEW p \in Processes, Mail(p)
      PROVE  \/ Senders(k)' \subseteq Senders(k)
             \/ TakeJob(p, k) /\ Senders(k)' \subseteq Senders(k) \cup {p}
  BY <1>1, <1>2, <1>3, <1>5
     DEF Mail, Send, SendRaises, MarkSent, MarkFailed, AckCompleted, AckFailed,
         Settle
<1>6. ASSUME NEW p \in Processes, Fail(p)
      PROVE  Senders(k)' \subseteq Senders(k)
  BY <1>2, <1>3, <1>4, <1>6
     DEF Fail, DispatchFails, MarkEventLost, MarkLost, AfterLostMark, AckLost, Crash
<1>7. ASSUME NEW p \in Processes, Subscribe(p) \/ Start(p)
      PROVE  Senders(k)' \subseteq Senders(k)
  BY <1>4, <1>7
     DEF Subscribe, ClaimEvent, DispatchRead, DispatchSkip, DispatchJob,
         MarkEventFailed, Start
<1>8. ASSUME (\E e \in Events : Emit(e)) \/ WindowElapses \/ UNCHANGED vars
             \/ \E q \in Properties : Supersede(q)
      PROVE  Senders(k)' \subseteq Senders(k)
  BY <1>4, <1>8 DEF Emit, Supersede, WindowElapses, vars
<1>9. ASSUME NEW p \in Processes, Send(p) \/ SendRaises(p), mailer[p].job = k
      PROVE  p \in Senders(k) /\ Senders(k)' \subseteq Senders(k) \ {p}
  BY <1>2, <1>9 DEF Send, SendRaises, Senders
<1> QED BY <1>5, <1>6, <1>7, <1>8, <1>9 DEF Next

\* What a step does to a job it does not insert.
LEMMA MailedSteps ==
  ASSUME TypeOK, [Next]_vars, NEW k \in Jobs,
         ~\E p \in Processes : DispatchJob(p, k)
  PROVE  \/ /\ job'[k].mails = job[k].mails /\ job'[k].recovered = job[k].recovered
            /\ \/ job'[k].status = job[k].status
               \/ job'[k].status \in {"completed", "failed", "superseded"}
               \/ job[k].status = "queued" /\ job'[k].status = "processing"
         \/ /\ job'[k].mails = job[k].mails + 1
            /\ job'[k].recovered = job[k].recovered
            /\ job'[k].status = job[k].status
            /\ \E p \in Processes : (Send(p) \/ SendRaises(p)) /\ mailer[p].job = k
         \/ /\ job'[k].mails = job[k].mails
            /\ job'[k].recovered = job[k].recovered + 1
            /\ job[k].status = "processing" /\ job'[k].status = "queued"
<1>0. job \in [Jobs -> JobRow] /\ job[k] \in JobRow /\ job[k].recovered \in Nat
  BY DEF TypeOK, JobRow
<1>1. ASSUME NEW s \in JobStatuses, job'[k] = [job[k] EXCEPT !.status = s]
      PROVE  /\ job'[k].mails = job[k].mails /\ job'[k].recovered = job[k].recovered
             /\ job'[k].status = s
  BY <1>0, <1>1 DEF JobRow
<1>2. ASSUME NEW p \in Processes, NEW j \in Jobs, TakeJob(p, j)
      PROVE  /\ job'[k].mails = job[k].mails /\ job'[k].recovered = job[k].recovered
             /\ \/ job'[k].status = job[k].status
                \/ job[k].status = "queued" /\ job'[k].status = "processing"
  <2>1. CASE j = k
    <3>1. job'[k] = [job[k] EXCEPT !.status = "processing"] /\ job[k].status = "queued"
      BY <1>0, <1>2, <2>1 DEF TakeJob
    <3> QED BY <1>1, <3>1 DEF JobStatuses
  <2>2. CASE j # k
    BY <1>0, <1>2, <2>2 DEF TakeJob
  <2> QED BY <2>1, <2>2
<1>3. ASSUME NEW p \in Processes, AckCompleted(p) \/ AckFailed(p)
      PROVE  /\ job'[k].mails = job[k].mails /\ job'[k].recovered = job[k].recovered
             /\ \/ job'[k].status = job[k].status
                \/ job'[k].status \in {"completed", "failed"}
  <2>1. PICK s \in {"completed", "failed"} :
          job' = [job EXCEPT ![mailer[p].job].status = s]
    BY <1>3 DEF AckCompleted, AckFailed, Settle, FailureStatus
  <2>2. CASE mailer[p].job = k
    <3>1. job'[k] = [job[k] EXCEPT !.status = s]
      BY <1>0, <2>1, <2>2
    <3> QED BY <1>1, <3>1 DEF JobStatuses
  <2>3. CASE mailer[p].job # k
    BY <1>0, <2>1, <2>3
  <2> QED BY <2>2, <2>3
<1>4. ASSUME NEW p \in Processes, Send(p) \/ SendRaises(p)
      PROVE  \/ job'[k] = job[k]
             \/ /\ job'[k].mails = job[k].mails + 1
                /\ job'[k].recovered = job[k].recovered
                /\ job'[k].status = job[k].status
                /\ mailer[p].job = k
  <2>1. CASE UNCHANGED job
    BY <2>1
  <2>2. CASE Accepted(mailer[p].job)
    <3>1. CASE mailer[p].job = k
      BY <1>0, <2>2, <3>1 DEF Accepted, JobRow
    <3>2. CASE mailer[p].job # k
      BY <1>0, <2>2, <3>2 DEF Accepted
    <3> QED BY <3>1, <3>2
  <2> QED BY <1>4, <2>1, <2>2 DEF Send, SendRaises
<1>5. CASE \E q \in Properties : Supersede(q)
  <2>1. job'[k] \in {job[k], [job[k] EXCEPT !.status = "superseded"]}
    BY <1>0, <1>5 DEF Supersede
  <2> QED BY <1>1, <2>1 DEF JobStatuses
<1>6. ASSUME NEW p \in Processes, Start(p)
      PROVE  \/ job'[k] = job[k]
             \/ /\ job'[k].mails = job[k].mails
                /\ job'[k].recovered = job[k].recovered + 1
                /\ job[k].status = "processing" /\ job'[k].status = "queued"
  <2>1. PICK expired \in SUBSET {j \in Jobs : job[j].status = "processing"} :
          job' = [j \in Jobs |-> IF j \in expired
                                THEN [job[j] EXCEPT !.status = "queued",
                                                    !.recovered = @ + 1]
                                ELSE job[j]]
    BY <1>6 DEF Start
  <2>2. CASE k \in expired
    <3>1. job[k].status = "processing"
          /\ job'[k] = [job[k] EXCEPT !.status = "queued", !.recovered = @ + 1]
      BY <2>1, <2>2
    <3>2. \A n \in Nat : LET r == [job[k] EXCEPT !.status = "queued",
                                                !.recovered = n]
                         IN /\ r.mails = job[k].mails /\ r.recovered = n
                            /\ r.status = "queued"
      BY <1>0 DEF JobRow
    <3>3. job[k].recovered + 1 \in Nat
      BY <1>0
    <3> QED BY <3>1, <3>2, <3>3
  <2>3. CASE k \notin expired
    BY <2>1, <2>3
  <2> QED BY <2>2, <2>3
<1>7. ASSUME NEW p \in Processes, NEW j \in Jobs, DispatchJob(p, j)
      PROVE  job'[k] = job[k]
  BY <1>0, <1>7 DEF DispatchJob
<1>8. ASSUME NEW p \in Processes,
             \/ \E e \in Events : ClaimEvent(p, e)
             \/ DispatchRead(p) \/ DispatchSkip(p) \/ MarkEventFailed(p)
             \/ MarkSent(p) \/ MarkFailed(p) \/ Fail(p)
      PROVE  job' = job
  BY <1>8 DEF ClaimEvent, DispatchRead, DispatchSkip, MarkEventFailed, MarkSent,
              MarkFailed, Fail, DispatchFails, MarkEventLost, MarkLost, AckLost,
              Crash
<1>9. ASSUME (\E e \in Events : Emit(e)) \/ WindowElapses \/ UNCHANGED vars
      PROVE  job' = job
  BY <1>9 DEF Emit, WindowElapses, vars
<1> QED BY <1>2, <1>3, <1>4, <1>5, <1>6, <1>7, <1>8, <1>9 DEF Next, Subscribe, Mail

\* Nothing was sent for a job that is not in the table.
Unsent == \A k \in Jobs : Enqueued(k) \/ job[k].mails = 0

LEMMA UnsentStep ==
  ASSUME TypeOK, Held, Unsent, [Next]_vars
  PROVE  Unsent'
<1> SUFFICES ASSUME NEW k \in Jobs, ~Enqueued(k)'
             PROVE  job'[k].mails = 0
  BY DEF Unsent
<1>1. ~Enqueued(k)
  BY SlotsKept
<1>2. ~\E p \in Processes : DispatchJob(p, k)
  <2>1. ASSUME NEW p \in Processes, DispatchJob(p, k)
        PROVE  job'[k] = NewJob(sub[p])
    BY <2>1 DEF DispatchJob, TypeOK
  <2>2. ASSUME NEW s PROVE NewJob(s).status # "absent"
    BY DEF NewJob
  <2> QED BY <2>1, <2>2 DEF Enqueued
<1>3. ~\E p \in Processes : (Send(p) \/ SendRaises(p)) /\ mailer[p].job = k
  BY <1>1 DEF Send, SendRaises, Mailing, Held
<1>4. job'[k].mails = job[k].mails
  BY <1>2, <1>3, MailedSteps
<1> QED BY <1>1, <1>4 DEF Unsent

LEMMA MailBudgetStep ==
  ASSUME TypeOK, TypeOK', Held, MailBudget, [Next]_vars
  PROVE  MailBudget'
<1> SUFFICES ASSUME NEW k \in Jobs
             PROVE  /\ IsFiniteSet(Senders(k)')
                    /\ Enqueued(k)' =>
                         job'[k].mails + Cardinality(Senders(k)') + Queued(k)'
                           <= 1 + job'[k].recovered
  BY DEF MailBudget
<1> DEFINE S == Senders(k)
           T == Senders(k)'
           m  == job[k].mails
           m1 == job'[k].mails
           r  == job[k].recovered
           r1 == job'[k].recovered
           q  == Queued(k)
           q1 == Queued(k)'
<1>a. IsFiniteSet(S)
  BY DEF MailBudget
<1>b. \/ T \subseteq S
      \/ \E p \in Processes : TakeJob(p, k) /\ T \subseteq S \cup {p}
  BY SendersStep
<1>c. m \in Nat /\ m1 \in Nat /\ r \in Nat /\ r1 \in Nat
  BY DEF TypeOK, JobRow
<1>d. q \in {0, 1} /\ q1 \in {0, 1}
  BY DEF Queued
<1>e. Cardinality(S) \in Nat
  BY <1>a, FS_CardinalityType
<1>1. ASSUME T \subseteq S
      PROVE  IsFiniteSet(T) /\ Cardinality(T) <= Cardinality(S)
  BY <1>a, <1>1, FS_Subset
<1>2. ASSUME NEW p \in Processes, T \subseteq S \cup {p}
      PROVE  IsFiniteSet(T) /\ Cardinality(T) <= Cardinality(S) + 1
  <2>1. /\ IsFiniteSet(S \cup {p})
        /\ \/ Cardinality(S \cup {p}) = Cardinality(S)
           \/ Cardinality(S \cup {p}) = Cardinality(S) + 1
    BY <1>a, FS_AddElement
  <2>2. IsFiniteSet(T) /\ Cardinality(T) <= Cardinality(S \cup {p})
    BY <1>2, <2>1, FS_Subset
  <2>3. Cardinality(T) \in Nat
    BY <2>2, FS_CardinalityType
  <2> HIDE DEF S, T
  <2> QED BY <1>e, <2>1, <2>2, <2>3
<1>3. IsFiniteSet(T)
  BY <1>b, <1>1, <1>2
<1>4. Cardinality(T) \in Nat
  BY <1>3, FS_CardinalityType
<1>5. ASSUME Enqueued(k)'
      PROVE  m1 + Cardinality(T) + q1 <= 1 + r1
  \* A job that is enqueued has no senders yet.
  <2>1. CASE ~Enqueued(k)
    <3>1. PICK p \in Processes, j \in Jobs : DispatchJob(p, j)
      BY <1>5, <2>1, JobSteps DEF KeepsJobs
    <3>2. j = k
      BY <1>5, <2>1, <3>1 DEF DispatchJob, Enqueued, TypeOK
    <3>3. job'[k] = NewJob(sub[p])
      BY <3>1, <3>2 DEF DispatchJob, TypeOK
    <3>4. m1 = 0
      BY <3>3 DEF NewJob
    <3>5. S = {}
      BY <2>1 DEF Senders, Mailing, Held
    <3>6. T = {}
      BY <2>1, <3>5, <1>b DEF TakeJob, Enqueued
    <3>7. Cardinality(T) = 0
      BY <3>6, FS_EmptySet
    <3> HIDE DEF S, T, m1, r1, q1
    <3> QED BY <1>c, <1>d, <3>4, <3>7
  <2>2. CASE Enqueued(k)
    <3>0. ~\E p \in Processes : DispatchJob(p, k)
      BY <2>2 DEF DispatchJob, IsNextJob, Enqueued
    <3>1. m + Cardinality(S) + q <= 1 + r
      BY <2>2 DEF MailBudget
    <3>2. CASE \E p \in Processes : (Send(p) \/ SendRaises(p)) /\ mailer[p].job = k
      <4>1. PICK p \in Processes : p \in S /\ T \subseteq S \ {p}
        BY <3>2, SendersStep
      <4>2. IsFiniteSet(S \ {p}) /\ Cardinality(S \ {p}) = Cardinality(S) - 1
        BY <1>a, <4>1, FS_RemoveElement
      <4>3. Cardinality(T) <= Cardinality(S) - 1
        BY <4>1, <4>2, FS_Subset
      <4>4. m1 <= m + 1 /\ r1 >= r /\ q1 - q <= r1 - r
        <5>1. /\ m1 = m \/ m1 = m + 1
              /\ \/ r1 = r /\ (job'[k].status = "queued" => job[k].status = "queued")
                 \/ r1 = r + 1
          BY <3>0, MailedSteps
        <5>2. r1 = r => q1 <= q
          BY <5>1, <1>c DEF Queued
        <5> HIDE DEF S, T, m, m1, r, r1, q, q1
        <5> QED BY <1>c, <1>d, <5>1, <5>2
      <4> HIDE DEF S, T, m, m1, r, r1, q, q1
      <4> QED BY <1>c, <1>d, <1>e, <1>4, <3>1, <4>3, <4>4
    <3>3. CASE ~\E p \in Processes : (Send(p) \/ SendRaises(p)) /\ mailer[p].job = k
      <4>1. /\ m1 = m
            /\ \/ /\ r1 = r
                  /\ \/ job'[k].status = job[k].status
                     \/ job'[k].status \in {"completed", "failed", "superseded"}
                     \/ job[k].status = "queued" /\ job'[k].status = "processing"
               \/ /\ r1 = r + 1
                  /\ job[k].status = "processing" /\ job'[k].status = "queued"
        BY <3>0, <3>3, MailedSteps
      <4>2. CASE \E p \in Processes : TakeJob(p, k)
        <5>1. job[k].status = "queued" /\ job'[k].status = "processing"
          BY <4>2 DEF TakeJob, TypeOK, JobRow
        <5>2. q = 1 /\ q1 = 0 /\ r1 = r
          BY <4>1, <5>1 DEF Queued
        <5>3. Cardinality(T) <= Cardinality(S) \/ Cardinality(T) <= Cardinality(S) + 1
          BY <1>b, <1>1, <1>2
        <5> HIDE DEF S, T, m, m1, r, r1, q, q1
        <5> QED BY <1>c, <1>e, <1>4, <3>1, <4>1, <5>2, <5>3
      <4>3. CASE ~\E p \in Processes : TakeJob(p, k)
        <5>1. Cardinality(T) <= Cardinality(S)
          BY <1>1, <1>b, <4>3
        <5>2. r1 = r => q1 <= q
          BY <4>1, <1>c DEF Queued
        <5>3. r1 = r \/ r1 = r + 1
          BY <4>1
        <5> HIDE DEF S, T, m, m1, r, r1, q, q1
        <5> QED BY <1>c, <1>d, <1>e, <1>4, <3>1, <4>1, <5>1, <5>2, <5>3
      <4> QED BY <4>2, <4>3
    <3> QED BY <3>2, <3>3
  <2> QED BY <2>1, <2>2
<1> QED BY <1>3, <1>5

\* Whatever fails, crashes, is refused or superseded, and however many processes
\* handle one job at once: a message goes out at most once more than its job's
\* lease was recovered.
THEOREM RepeatsAreRecoveries == Spec => []RepeatedOnlyByRecovery
<1>1. Init => Held /\ MailBudget /\ Unsent
  <2>1. ASSUME Init, NEW k \in Jobs
        PROVE  Senders(k) = {} /\ ~Enqueued(k) /\ job[k].mails = 0
    BY <2>1 DEF Init, Senders, Mailing, IdleMailer, Enqueued
  <2>2. Init => Held
    BY DEF Init, Held, Enqueued, IdleMailer
  <2> QED BY <2>1, <2>2, FS_EmptySet DEF MailBudget, Unsent
<1>2. /\ TypeOK /\ TypeOK' /\ Held /\ MailBudget /\ Unsent /\ [Next]_vars
         => Held' /\ MailBudget' /\ Unsent'
  BY JobSteps, MailBudgetStep, UnsentStep
<1>3. TypeOK /\ MailBudget /\ Unsent => RepeatedOnlyByRecovery
  <2> SUFFICES ASSUME TypeOK, MailBudget, Unsent, NEW k \in Jobs
               PROVE  job[k].mails <= 1 + job[k].recovered
    BY DEF RepeatedOnlyByRecovery
  <2>1. /\ job[k].mails \in Nat /\ job[k].recovered \in Nat
        /\ Queued(k) \in Nat /\ Cardinality(Senders(k)) \in Nat
    BY FS_CardinalityType DEF TypeOK, JobRow, Queued, MailBudget
  <2>2. CASE Enqueued(k)
    BY <2>1, <2>2 DEF MailBudget
  <2>3. CASE ~Enqueued(k)
    BY <2>1, <2>3 DEF Unsent
  <2> QED BY <2>2, <2>3
<1> QED BY <1>1, <1>2, <1>3, TypeCorrect, PTL DEF Spec
=============================================================================
