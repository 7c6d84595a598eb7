------------------------------ MODULE JobQueue ------------------------------
(***************************************************************************)
(* The durable work queue: the jobs and webhook_events tables, the API     *)
(* transactions that fill them and the worker processes that drain them.   *)
(*                                                                         *)
(* Every database transaction runs at READ COMMITTED, so a statement sees  *)
(* what was committed when that statement began, and a row somebody else   *)
(* has locked is waited for (UPDATE) or skipped (FOR UPDATE SKIP LOCKED).  *)
(* A transaction of several statements is therefore several actions here;  *)
(* what it writes becomes visible in the action that commits it.           *)
(***************************************************************************)
EXTENDS Naturals, FiniteSets

CONSTANTS
  MaxJobs,      \* bound: how many jobs are ever requested
  Properties,   \* (external_source_id, property_id) pairs with a property id
  NoProperty,   \* the pair of a payload without a property id
  Origins,      \* which callers enqueue jobs
  ApiProcesses, \* how many API processes serve requests
  Processes,    \* worker processes (python -m apps.worker)
  Threads,      \* their worker threads
  Home,         \* the process of each thread
  MaxAttempts,  \* WORKER_JOB_MAX_ATTEMPTS
  MaxFaults     \* bound: crashes, stop signals and failed transactions

ReelOrigins  == {"webhook", "approve", "manual", "edit"}
PlainOrigins == {"scripted", "email"}

ASSUME JobQueueAssumption ==
  /\ MaxJobs \in Nat
  /\ MaxAttempts \in Nat \ {0}
  /\ MaxFaults \in Nat
  /\ ApiProcesses \in Nat \ {0}
  /\ NoProperty \notin Properties
  /\ Origins \subseteq ReelOrigins \cup PlainOrigins
  /\ Home \in [Threads -> Processes]

Jobs  == 1 .. MaxJobs
NoJob == 0

VARIABLES
  job,        \* the jobs table, by job id; ids are in created_at order
  event,      \* webhook_events.status of the event created with each job
  request,    \* the API transaction that inserts each job
  thread,     \* what each worker thread is doing
  process,    \* "up", "stopping" or "down"
  faults,     \* faults so far
  recoveries  \* history: how often each job's expired lease was recovered

vars == <<job, event, request, thread, process, faults, recoveries>>

-----------------------------------------------------------------------------
(* Rows and the states of the actors.                                      *)

JobStatuses == {"absent", "queued", "processing", "completed", "failed",
                "superseded"}
Terminal    == {"completed", "failed", "superseded"}

JobRow == [status       : JobStatuses,
           origin       : Origins \cup {"none"},
           property     : Properties \cup {NoProperty},
           attempt      : Nat,
           available    : BOOLEAN,                      \* available_at <= now
           lease        : {"none", "held", "expired"},
           wiped        : BOOLEAN,  \* publish context and secrets erased
           supersededBy : Jobs \cup {NoJob}]

EventStatuses == {"absent", "queued", "processing", "completed", "noop",
                  "failed", "superseded"}
ClosedEvent   == {"completed", "noop", "failed", "superseded"}

Request == [pc     : {"absent", "arrived", "selected", "inserting", "committed"},
            seen   : SUBSET Jobs,   \* rows of the SELECT in supersede_queued_jobs
            target : SUBSET Jobs]   \* rows in the snapshot of its UPDATE

IdleThread == [pc |-> "idle", job |-> NoJob, ticket |-> 0]
BusyThread == [pc     : {"claiming", "handling"},
               job    : Jobs,
               ticket : Nat]        \* attempt_count as the claim returned it
Thread     == {IdleThread} \cup BusyThread

IsReelJob(j) == job[j].origin \in ReelOrigins
Active(j)    == job[j].status \in {"queued", "processing"}
Committed(j) == request[j].pc = "committed"

\* The SQL comparison of two rows: a NULL property_id equals nothing.
SameProperty(j, k) == /\ job[j].property = job[k].property
                      /\ job[j].property # NoProperty

Locked(j)  == \E t \in Threads : thread[t].pc = "claiming" /\ thread[t].job = j
Holding(t) == thread[t].pc = "handling"

-----------------------------------------------------------------------------
(* The API side: webhooks, approve, manual regenerate, override edits.     *)

InFlight(j) == request[j].pc \in {"arrived", "selected", "inserting"}

\* Mutant of LoopFree: the endpoints run in a thread pool.
ThreadPoolLoop == TRUE

\* The endpoints are coroutines that never await inside their transaction: an
\* API process is at most inside one of them.
LoopFree == Cardinality({k \in Jobs : InFlight(k)}) < ApiProcesses

\* approve and the override edits write the reels row before they look at
\* the queue, so they hold its row lock until they commit.
ReelRowLocked(p) ==
  \E k \in Jobs : /\ InFlight(k)
                  /\ job[k].property = p
                  /\ job[k].origin \in {"approve", "edit"}

ActiveReelJob(p) ==
  \E k \in Jobs : Active(k) /\ IsReelJob(k) /\ job[k].property = p

\* Mutants of Admitted: no row lock precedes the check, or nothing is checked.
LocklessAdmitted(o, p) == /\ o # "webhook" => p # NoProperty
                          /\ o \in {"approve", "manual"} => ~ActiveReelJob(p)
UncheckedAdmitted(o, p) == o # "webhook" => p # NoProperty

\* What each caller checks before it supersedes and enqueues; a caller that
\* finds an active job replays it (approve) or answers 409 (manual).
Admitted(o, p) ==
  /\ o # "webhook" => p # NoProperty
  /\ o \in {"approve", "edit"}   => ~ReelRowLocked(p)
  /\ o \in {"approve", "manual"} => ~ActiveReelJob(p)

NewRow(o, p) == [status |-> "absent", origin |-> o, property |-> p,
                 attempt |-> 0, available |-> TRUE, lease |-> "none",
                 wiped |-> FALSE, supersededBy |-> NoJob]

\* The request draws its timestamps; ids are given out in that order.
IsNextJob(j) == /\ request[j].pc = "absent"
                /\ \A k \in Jobs : k < j => request[k].pc # "absent"

Arrive(j, o, p) ==
  /\ IsNextJob(j)
  /\ o \in Origins \cap ReelOrigins
  /\ LoopFree
  /\ Admitted(o, p)
  /\ job' = [job EXCEPT ![j] = NewRow(o, p)]
  /\ request' = [request EXCEPT ![j].pc = "arrived"]
  /\ UNCHANGED <<event, thread, process, faults, recoveries>>

QueuedSiblings(j) ==
  {k \in Jobs : job[k].status = "queued" /\ SameProperty(j, k)}

\* supersede_queued_jobs, its SELECT: with no row it returns at once.
SelectQueued(j) ==
  /\ request[j].pc = "arrived"
  /\ request' = [request EXCEPT ![j].pc = IF QueuedSiblings(j) = {}
                                          THEN "inserting" ELSE "selected",
                                ![j].seen = QueuedSiblings(j)]
  /\ UNCHANGED <<job, event, thread, process, faults, recoveries>>

\* ... and the snapshot of its UPDATE, a later one.
SnapshotUpdate(j) ==
  /\ request[j].pc = "selected"
  /\ request' = [request EXCEPT ![j].pc = "inserting",
                                ![j].target = QueuedSiblings(j)]
  /\ UNCHANGED <<job, event, thread, process, faults, recoveries>>

\* Mutant of Superseding: the UPDATE has no status condition of its own.
BlindSuperseding(j) == request[j].target

\* The UPDATE waits for rows a claim has locked and looks at them again.
Superseding(j) == {k \in request[j].target : job[k].status = "queued"}

Replaced(row, j) == [row EXCEPT !.status = "superseded", !.wiped = TRUE,
                                !.supersededBy = j]

\* Mutant of RowsAfter: the new row is inserted before the UPDATE.
InsertedFirst(j) ==
  [k \in Jobs |-> IF k \in Superseding(j) \cup {j} THEN Replaced(job[k], j)
                  ELSE job[k]]

RowsAfter(j) ==
  [k \in Jobs |-> IF k = j THEN [job[k] EXCEPT !.status = "queued"]
                  ELSE IF k \in Superseding(j) THEN Replaced(job[k], j)
                       ELSE job[k]]

\* The rows change, the events of the rows SELECTed are closed, the event and
\* the job are inserted, and the transaction commits.
Commit(j) ==
  /\ request[j].pc = "inserting"
  /\ \A k \in request[j].seen \cup request[j].target : ~Locked(k)
  /\ job' = RowsAfter(j)
  /\ event' = [k \in Jobs |-> IF k = j THEN "queued"
                              ELSE IF k \in request[j].seen THEN "superseded"
                                   ELSE event[k]]
  /\ request' = [request EXCEPT ![j] = [pc |-> "committed", seen |-> {},
                                        target |-> {}]]
  /\ UNCHANGED <<thread, process, faults, recoveries>>

\* Scripted renders, in an API process, and notification e-mails, in a worker's
\* outbox subscriber, insert without superseding.
EnqueuePlain(j, o, p) ==
  /\ IsNextJob(j)
  /\ o \in Origins \cap PlainOrigins
  /\ o = "scripted" => LoopFree
  /\ job' = [job EXCEPT ![j] = [NewRow(o, p) EXCEPT !.status = "queued"]]
  /\ event' = [event EXCEPT ![j] = "queued"]
  /\ request' = [request EXCEPT ![j].pc = "committed"]
  /\ UNCHANGED <<thread, process, faults, recoveries>>

-----------------------------------------------------------------------------
(* The worker threads.                                                     *)

\* Mutants of Claimable: no NOT EXISTS, and no FOR UPDATE SKIP LOCKED.
UnserializedClaimable(j) == job[j].status = "queued" /\ job[j].available
                            /\ ~Locked(j)
UnlockedClaimable(j) ==
  /\ job[j].status = "queued" /\ job[j].available
  /\ ~\E k \in Jobs : job[k].status = "processing" /\ SameProperty(j, k)

\* The candidate sub-query, on the snapshot of the claim statement.
Claimable(j) ==
  /\ job[j].status = "queued"
  /\ job[j].available
  /\ ~Locked(j)
  /\ ~\E k \in Jobs : job[k].status = "processing" /\ SameProperty(j, k)

Oldest(j) == \A k \in Jobs : Claimable(k) => j <= k

\* claim_next_ready_job locks the oldest candidate; nobody sees that yet.
ClaimStatement(t, j) ==
  /\ process[Home[t]] = "up"
  /\ thread[t].pc = "idle"
  /\ Claimable(j) /\ Oldest(j)
  /\ thread' = [thread EXCEPT ![t] = [pc |-> "claiming", job |-> j,
                                      ticket |-> 0]]
  /\ UNCHANGED <<job, event, request, process, faults, recoveries>>

Claimed(row) == [row EXCEPT !.status = "processing",
                            !.attempt = row.attempt + 1,
                            !.lease = "held"]

ClaimCommit(t) ==
  /\ thread[t].pc = "claiming"
  /\ LET j == thread[t].job IN
       /\ job' = [job EXCEPT ![j] = Claimed(job[j])]
       /\ event' = [event EXCEPT ![j] = "processing"]
       /\ thread' = [thread EXCEPT ![t] = [pc |-> "handling", job |-> j,
                                           ticket |-> job[j].attempt + 1]]
  /\ UNCHANGED <<request, process, faults, recoveries>>

\* mark_job_completed, mark_job_failed: the row is addressed by its id alone.
Finished(row, s) == [row EXCEPT !.status = s, !.wiped = TRUE, !.lease = "none"]
\* schedule_retry
Retried(row) == [row EXCEPT !.status = "queued", !.lease = "none",
                            !.available = FALSE]

\* Mutant of Acknowledge: the audit row is forgotten.
SilentAcknowledge(t, row, e) ==
  /\ Holding(t)
  /\ ~Locked(thread[t].job)
  /\ job' = [job EXCEPT ![thread[t].job] = row]
  /\ thread' = [thread EXCEPT ![t] = IdleThread]
  /\ UNCHANGED <<event, request, process, faults, recoveries>>

\* The handler of the job's kind has ended, and the transaction that says so
\* commits. Nothing but the thread knows of the first before the second.
Acknowledge(t, row, e) ==
  /\ Holding(t)
  /\ ~Locked(thread[t].job)
  /\ job' = [job EXCEPT ![thread[t].job] = row]
  /\ event' = [event EXCEPT ![thread[t].job] = e]
  /\ thread' = [thread EXCEPT ![t] = IdleThread]
  /\ UNCHANGED <<request, process, faults, recoveries>>

\* The handler returned a result, or None.
AckCompleted(t) ==
  \E e \in {"completed", "noop"} :
    Acknowledge(t, Finished(job[thread[t].job], "completed"), e)

\* The attempt_count the claim returned counts, not the row's.
MayRetry(t) == thread[t].ticket < MaxAttempts

\* It raised a retryable error.
AckRetry(t) ==
  /\ MayRetry(t)
  /\ Acknowledge(t, Retried(job[thread[t].job]), "queued")

\* It raised an error that is not retryable, or its attempts are used up.
AckFailed(t) ==
  Acknowledge(t, Finished(job[thread[t].job], "failed"), "failed")

\* A claim or acknowledgement transaction fails: it is rolled back, the loop
\* logs "Worker loop crashed" and goes on with another job.
LoopCrash(t) ==
  /\ thread[t].pc \in {"claiming", "handling"}
  /\ faults < MaxFaults
  /\ faults' = faults + 1
  /\ thread' = [thread EXCEPT ![t] = IdleThread]
  /\ UNCHANGED <<job, event, request, process, recoveries>>

-----------------------------------------------------------------------------
(* Time and the worker processes.                                          *)

BackoffElapses(j) ==
  /\ ~job[j].available
  /\ job' = [job EXCEPT ![j].available = TRUE]
  /\ UNCHANGED <<event, request, thread, process, faults, recoveries>>

\* lease_seconds after the claim; renew_job_lease has no caller.
LeaseExpires(j) ==
  /\ job[j].lease = "held"
  /\ job' = [job EXCEPT ![j].lease = "expired"]
  /\ UNCHANGED <<event, request, thread, process, faults, recoveries>>

ThreadsGone(p) ==
  thread' = [t \in Threads |-> IF Home[t] = p THEN IdleThread ELSE thread[t]]

\* SIGTERM or SIGINT: the threads take no further job.
SignalStop(p) ==
  /\ process[p] = "up"
  /\ faults < MaxFaults
  /\ faults' = faults + 1
  /\ process' = [process EXCEPT ![p] = "stopping"]
  /\ UNCHANGED <<job, event, request, thread, recoveries>>

\* stop() joins the threads for shutdown_timeout_seconds, then the process
\* ends and takes the daemon threads that are still busy with it.
Exit(p) ==
  /\ process[p] = "stopping"
  /\ process' = [process EXCEPT ![p] = "down"]
  /\ ThreadsGone(p)
  /\ UNCHANGED <<job, event, request, faults, recoveries>>

Crash(p) ==
  /\ process[p] # "down"
  /\ faults < MaxFaults
  /\ faults' = faults + 1
  /\ process' = [process EXCEPT ![p] = "down"]
  /\ ThreadsGone(p)
  /\ UNCHANGED <<job, event, request, recoveries>>

\* recover_expired_processing_jobs, which only start() calls.
Expired == {j \in Jobs : job[j].status = "processing" /\ job[j].lease = "expired"}

\* Mutants of Recovered: attempts start again, the status is left alone.
FreshRecovered(row) == [row EXCEPT !.status = "queued", !.lease = "none",
                                   !.available = TRUE, !.attempt = 0]
StuckRecovered(row) == [row EXCEPT !.lease = "none", !.available = TRUE]

Recovered(row) == [row EXCEPT !.status = "queued", !.lease = "none",
                              !.available = TRUE]

Start(p) ==
  /\ process[p] = "down"
  /\ process' = [process EXCEPT ![p] = "up"]
  /\ job' = [j \in Jobs |-> IF j \in Expired THEN Recovered(job[j]) ELSE job[j]]
  /\ recoveries' = [j \in Jobs |-> IF j \in Expired THEN recoveries[j] + 1
                                   ELSE recoveries[j]]
  /\ UNCHANGED <<event, request, thread, faults>>

-----------------------------------------------------------------------------
Init ==
  /\ job = [j \in Jobs |-> NewRow("none", NoProperty)]
  /\ event = [j \in Jobs |-> "absent"]
  /\ request = [j \in Jobs |-> [pc |-> "absent", seen |-> {}, target |-> {}]]
  /\ thread = [t \in Threads |-> IdleThread]
  /\ process = [p \in Processes |-> "up"]
  /\ faults = 0
  /\ recoveries = [j \in Jobs |-> 0]

RequestStep(j) ==
  \/ \E o \in Origins, p \in Properties \cup {NoProperty} :
        Arrive(j, o, p) \/ EnqueuePlain(j, o, p)
  \/ SelectQueued(j)
  \/ SnapshotUpdate(j)
  \/ Commit(j)

ThreadStep(t) ==
  \/ \E j \in Jobs : ClaimStatement(t, j)
  \/ ClaimCommit(t)
  \/ AckCompleted(t)
  \/ AckRetry(t)
  \/ AckFailed(t)
  \/ LoopCrash(t)

ProcessStep(p) == SignalStop(p) \/ Exit(p) \/ Crash(p) \/ Start(p)

Next ==
  \/ \E j \in Jobs : RequestStep(j) \/ BackoffElapses(j) \/ LeaseExpires(j)
  \/ \E t \in Threads : ThreadStep(t)
  \/ \E p \in Processes : ProcessStep(p)

Spec == Init /\ [][Next]_vars
-----------------------------------------------------------------------------
(* Fairness: a worker thread is always scheduled again, time passes, and a  *)
(* handler ends: its HTTP calls have timeouts, and ffmpeg, which has none,   *)
(* renders a reel of finite length.                                         *)

ThreadProgress(t) ==
  \/ \E j \in Jobs : ClaimStatement(t, j)
  \/ ClaimCommit(t)
  \/ AckCompleted(t)
  \/ AckRetry(t)
  \/ AckFailed(t)

Fairness == /\ \A t \in Threads : WF_vars(ThreadProgress(t))
            /\ \A j \in Jobs : WF_vars(BackoffElapses(j))

FairSpec == Spec /\ Fairness

\* A worker that stopped or crashed is started again (restart: unless-stopped).
RestartingSpec ==
  /\ FairSpec
  /\ \A p \in Processes : WF_vars(Exit(p)) /\ WF_vars(Start(p))
  /\ \A j \in Jobs : WF_vars(LeaseExpires(j))

-----------------------------------------------------------------------------
(* Properties of every deployment.                                         *)

TypeOK ==
  /\ job \in [Jobs -> JobRow]
  /\ event \in [Jobs -> EventStatuses]
  /\ request \in [Jobs -> Request]
  /\ thread \in [Threads -> Thread]
  /\ process \in [Processes -> {"up", "stopping", "down"}]
  /\ faults \in Nat
  /\ recoveries \in [Jobs -> Nat]

\* However leases expire and processes restart, two threads that run the same
\* job hold different attempt numbers, and none is above the row's: the
\* attempt_count a claim returns identifies its holder, though no
\* acknowledgement compares it.
TicketsIdentifyHolders ==
  \A t \in Threads : Holding(t) =>
    /\ thread[t].ticket <= job[thread[t].job].attempt
    /\ \A u \in Threads \ {t} :
         Holding(u) /\ thread[u].job = thread[t].job
           => thread[u].ticket # thread[t].ticket

\* The claim query never looks at max_attempts; still a job is claimed at most
\* MAX_ATTEMPTS times plus once for every recovery of its expired lease.
AttemptsBounded ==
  \A j \in Jobs : job[j].attempt <= MaxAttempts + recoveries[j]

\* Concurrent webhooks, approvals and edits never supersede each other's jobs
\* in a circle: a property somebody asked a job for keeps one that is not
\* superseded.
SupersedeKeepsOne ==
  \A p \in Properties :
    (\E j \in Jobs : Committed(j) /\ job[j].property = p)
      => \E j \in Jobs : /\ Committed(j)
                         /\ job[j].property = p
                         /\ job[j].status # "superseded"

\* The audit row of a job that ran to its end is closed, and an audit row
\* that reports success belongs to a completed job.
EventClosesWithJob ==
  \A j \in Jobs :
    /\ job[j].status \in {"completed", "failed"} => event[j] \in ClosedEvent
    /\ event[j] \in {"completed", "noop"} => job[j].status = "completed"

-----------------------------------------------------------------------------
(* Properties of one worker process, whatever its thread count.            *)

\* Only one thread runs a job, and the row says so until that thread
\* acknowledges it.
OneThreadPerJob ==
  /\ \A t \in Threads : Holding(t) => job[thread[t].job].status = "processing"
  /\ \A t, u \in Threads : Holding(t) /\ Holding(u) /\ t # u
                             => thread[t].job # thread[u].job

\* A handler never receives a job whose publish context and provider secrets
\* were erased.
HandlerHasContext == \A t \in Threads : Holding(t) => ~job[thread[t].job].wiped

\* A job is in one pair of hands, with all it needs, and not too often.
HandledInTurn == OneThreadPerJob /\ HandlerHasContext /\ AttemptsBounded

\* Double clicks on Approve, on any number of API instances, never leave two
\* approve jobs of a property under way.
ApproveNeverStacks ==
  \A j, k \in Jobs :
    /\ j # k
    /\ job[j].origin = "approve" /\ job[k].origin = "approve"
    /\ SameProperty(j, k)
    => ~((InFlight(j) \/ Active(j)) /\ (InFlight(k) \/ Active(k)))

-----------------------------------------------------------------------------
(* A property of one worker thread; with two it is what the documentation  *)
(* promises and the snapshot of the claim statement breaks.                *)

\* No two jobs of one property are in processing together.
PropertySerialized ==
  \A j, k \in Jobs :
    /\ j # k
    /\ job[j].status = "processing" /\ job[k].status = "processing"
    => ~SameProperty(j, k)

-----------------------------------------------------------------------------
(* Properties of one API process; with two, other processes' requests fall  *)
(* between the statements of a transaction.                                 *)

\* What last_error says, "Superseded by a newer queued job.": the job that
\* replaces another was requested after it.
SupersededByNewer ==
  \A j \in Jobs : job[j].status = "superseded" => j < job[j].supersededBy

\* A manual regenerate never stacks its job behind one of the same property
\* that is queued or processing.
ManualNeverStacks ==
  [][\A j \in Jobs :
       job[j].origin = "manual" /\ ~Committed(j) /\ request'[j].pc = "committed"
       => ~ActiveReelJob(job[j].property)]_vars

-----------------------------------------------------------------------------
\* Without crashes, stop signals and failed transactions every job that was
\* accepted is completed, failed or superseded in the end.
EveryJobSettles ==
  \A j \in Jobs : Committed(j) ~> job[j].status \in Terminal

\* With them, a job can be left in processing for ever, because only a start
\* recovers expired leases; if no lease stays expired, every job settles.
RecoveredJobsSettle ==
  (\A j \in Jobs : job[j].lease = "expired" ~> job[j].lease # "expired")
    => EveryJobSettles
=============================================================================
