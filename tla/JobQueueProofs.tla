---------------------------- MODULE JobQueueProofs ----------------------------
(***************************************************************************)
(* Theorems about JobQueue for any number of jobs, properties, threads,    *)
(* attempts and faults. Some hold for one worker process, one worker       *)
(* thread or one API process only, and say so in their hypotheses; the     *)
(* others hold for any number of processes.                                *)
(***************************************************************************)
EXTENDS JobQueueRefinement, FiniteSetTheorems, TLAPS

USE DEF Jobs, NoJob

-----------------------------------------------------------------------------
(* What the helpers on rows return.                                        *)

LEMMA RowTypes ==
  ASSUME NEW row \in JobRow, NEW j \in Jobs
  PROVE  /\ Finished(row, "completed") \in JobRow
         /\ Finished(row, "failed") \in JobRow
         /\ Retried(row) \in JobRow
         /\ Recovered(row) \in JobRow
         /\ Replaced(row, j) \in JobRow
         /\ Claimed(row) \in JobRow
         /\ row.attempt + 1 \in Nat
         /\ [row EXCEPT !.status = "queued"] \in JobRow
<1>1. row.attempt + 1 \in Nat
  BY DEF JobRow
<1>2. /\ Finished(row, "completed") \in JobRow
      /\ Finished(row, "failed") \in JobRow
      /\ Retried(row) \in JobRow
  BY DEF JobRow, JobStatuses, Finished, Retried
<1>3. /\ Recovered(row) \in JobRow
      /\ Replaced(row, j) \in JobRow
      /\ [row EXCEPT !.status = "queued"] \in JobRow
  BY DEF JobRow, JobStatuses, Recovered, Replaced
<1>4. Claimed(row) \in JobRow
  BY <1>1 DEF JobRow, JobStatuses, Claimed
<1>5. QED
  BY <1>1, <1>2, <1>3, <1>4

LEMMA NewRowType ==
  ASSUME NEW o \in Origins, NEW p \in Properties \cup {NoProperty}
  PROVE  /\ NewRow(o, p) \in JobRow
         /\ [NewRow(o, p) EXCEPT !.status = "queued"] \in JobRow
  BY DEF JobRow, JobStatuses, NewRow

LEMMA ThreadTypes ==
  /\ IdleThread \in Thread
  /\ \A th \in Thread : th.pc # "idle" => th \in BusyThread
  /\ \A th \in Thread : th.pc = "idle" => th = IdleThread
  BY DEF Thread, IdleThread, BusyThread

LEMMA GoneTypes ==
  ASSUME thread \in [Threads -> Thread], NEW p, ThreadsGone(p)
  PROVE  thread' \in [Threads -> Thread]
  BY ThreadTypes DEF ThreadsGone

\* The inductive step of the type invariant, one action at a time.
LEMMA TypePreserved == TypeOK /\ [Next]_vars => TypeOK'
<1> SUFFICES ASSUME TypeOK, [Next]_vars
             PROVE  TypeOK'
  OBVIOUS
<1> USE DEF TypeOK
<1>1. ASSUME NEW j \in Jobs, NEW o \in Origins,
             NEW p \in Properties \cup {NoProperty}, Arrive(j, o, p)
      PROVE  TypeOK'
  BY <1>1, NewRowType DEF Arrive, Request
<1>2. ASSUME NEW j \in Jobs, NEW o \in Origins,
             NEW p \in Properties \cup {NoProperty}, EnqueuePlain(j, o, p)
      PROVE  TypeOK'
  BY <1>2, NewRowType DEF EnqueuePlain, Request, EventStatuses
<1>3. ASSUME NEW j \in Jobs, SelectQueued(j)
      PROVE  TypeOK'
  <2> DEFINE next == IF QueuedSiblings(j) = {} THEN "inserting" ELSE "selected"
  <2>1. QueuedSiblings(j) \in SUBSET Jobs
    BY DEF QueuedSiblings
  <2>2. next \in {"inserting", "selected"}
    OBVIOUS
  <2>3. request' = [request EXCEPT ![j] = [@ EXCEPT !.pc = next,
                                                   !.seen = QueuedSiblings(j)]]
    BY <1>3 DEF SelectQueued
  <2> HIDE DEF next
  <2>4. request' \in [Jobs -> Request]
    BY <2>1, <2>2, <2>3 DEF Request
  <2>5. QED
    BY <1>3, <2>4 DEF SelectQueued
<1>4. ASSUME NEW j \in Jobs, SnapshotUpdate(j)
      PROVE  TypeOK'
  BY <1>4 DEF SnapshotUpdate, QueuedSiblings, Request
<1>5. ASSUME NEW j \in Jobs, Commit(j)
      PROVE  TypeOK'
  <2>1. RowsAfter(j) \in [Jobs -> JobRow]
    BY RowTypes DEF RowsAfter
  <2>2. QED
    BY <1>5, <2>1 DEF Commit, Request, EventStatuses
<1>6. ASSUME NEW t \in Threads, NEW j \in Jobs, ClaimStatement(t, j)
      PROVE  TypeOK'
  <2>1. [pc |-> "claiming", job |-> j, ticket |-> 0] \in Thread
    BY DEF Thread, BusyThread
  <2>2. QED
    BY <1>6, <2>1 DEF ClaimStatement
<1>7. ASSUME NEW t \in Threads, ClaimCommit(t)
      PROVE  TypeOK'
  <2> DEFINE k == thread[t].job
  <2>1. k \in Jobs
    BY <1>7, ThreadTypes DEF ClaimCommit, BusyThread
  <2>2. [pc |-> "handling", job |-> k, ticket |-> job[k].attempt + 1] \in Thread
    BY <2>1, RowTypes DEF Thread, BusyThread
  <2>3. job' \in [Jobs -> JobRow]
    BY <1>7, <2>1, RowTypes DEF ClaimCommit
  <2>4. QED
    BY <1>7, <2>1, <2>2, <2>3 DEF ClaimCommit, EventStatuses
<1>8. ASSUME NEW t \in Threads, AckCompleted(t) \/ AckRetry(t) \/ AckFailed(t)
      PROVE  TypeOK'
  <2>1. PICK row \in JobRow, e \in EventStatuses : Acknowledge(t, row, e)
    <3>1. thread[t].job \in Jobs
      BY <1>8, ThreadTypes
         DEF AckCompleted, AckRetry, AckFailed, Acknowledge, Holding, BusyThread
    <3>2. CASE AckCompleted(t)
      BY <3>1, <3>2, RowTypes DEF AckCompleted, EventStatuses
    <3>3. CASE AckRetry(t)
      BY <3>1, <3>3, RowTypes DEF AckRetry, EventStatuses
    <3>4. CASE AckFailed(t)
      BY <3>1, <3>4, RowTypes DEF AckFailed, EventStatuses
    <3>5. QED
      BY <1>8, <3>2, <3>3, <3>4
  <2>2. QED
    BY <2>1, ThreadTypes DEF Acknowledge
<1>9. ASSUME NEW t \in Threads, LoopCrash(t)
      PROVE  TypeOK'
  BY <1>9, ThreadTypes DEF LoopCrash
<1>10. ASSUME NEW j \in Jobs, BackoffElapses(j) \/ LeaseExpires(j)
       PROVE  TypeOK'
  <2>1. /\ [job[j] EXCEPT !.available = TRUE] \in JobRow
        /\ [job[j] EXCEPT !.lease = "expired"] \in JobRow
    BY DEF JobRow
  <2>2. QED
    BY <1>10, <2>1 DEF BackoffElapses, LeaseExpires
<1>11. ASSUME NEW p \in Processes, SignalStop(p)
       PROVE  TypeOK'
  BY <1>11 DEF SignalStop
<1>12. ASSUME NEW p \in Processes, Exit(p) \/ Crash(p)
       PROVE  TypeOK'
  BY <1>12, GoneTypes DEF Exit, Crash
<1>13. ASSUME NEW p \in Processes, Start(p)
       PROVE  TypeOK'
  <2>1. job' \in [Jobs -> JobRow]
    BY <1>13, RowTypes DEF Start
  <2>2. recoveries' \in [Jobs -> Nat]
    BY <1>13 DEF Start
  <2>3. QED
    BY <1>13, <2>1, <2>2 DEF Start
<1>14. CASE UNCHANGED vars
  BY <1>14 DEF vars
<1>15. QED
  BY <1>1, <1>2, <1>3, <1>4, <1>5, <1>6, <1>7, <1>8, <1>9, <1>10, <1>11,
     <1>12, <1>13, <1>14
     DEF Next, RequestStep, ThreadStep, ProcessStep

LEMMA TypeInit == Init => TypeOK
  BY ThreadTypes
     DEF Init, TypeOK, NewRow, JobRow, JobStatuses, EventStatuses, Request

\* Type correctness: every row, event, transaction and thread stays in the
\* sets the tables and the runtime allow.
THEOREM TypeCorrect == Spec => []TypeOK
  BY TypeInit, TypePreserved, PTL DEF Spec

-----------------------------------------------------------------------------
(* Attempt numbers identify their holders.                                 *)

\* Only committed rows have a status, and threads hold only such rows; so a
\* row somebody holds is never inserted again.
RowsCommitted    == \A j \in Jobs : job[j].status # "absent" => Committed(j)
HoldersCommitted == \A t \in Threads :
                      thread[t].pc # "idle" => Committed(thread[t].job)

TicketInv == /\ TypeOK
             /\ RowsCommitted
             /\ HoldersCommitted
             /\ TicketsIdentifyHolders

\* No step takes a commit back or lowers the attempt number of a committed
\* row, and a row gets its first status when it is committed.
LEMMA RowSteps ==
  ASSUME TypeOK, RowsCommitted, HoldersCommitted, [Next]_vars,
         NEW k \in Jobs
  PROVE  /\ Committed(k) => Committed(k)' /\ job'[k].attempt >= job[k].attempt
         /\ job'[k].status # "absent" => Committed(k)'
<1> USE DEF TypeOK, Committed
<1>0. job[k].attempt \in Nat
  BY DEF JobRow
<1>1. ASSUME NEW j \in Jobs, NEW o \in Origins,
             NEW p \in Properties \cup {NoProperty},
             Arrive(j, o, p) \/ EnqueuePlain(j, o, p)
      PROVE  /\ Committed(k) => Committed(k)' /\ job'[k].attempt >= job[k].attempt
             /\ job'[k].status # "absent" => Committed(k)'
  <2>1. request[j].pc = "absent"
    BY <1>1 DEF Arrive, EnqueuePlain, IsNextJob
  <2>2. CASE k = j
    <3>1. CASE Arrive(j, o, p)
      <4>1. job'[k] = NewRow(o, p)
        BY <2>2, <3>1 DEF Arrive
      <4>2. job'[k].status = "absent"
        BY <4>1 DEF NewRow
      <4>3. QED
        BY <2>1, <2>2, <4>2
    <3>2. CASE EnqueuePlain(j, o, p)
      <4>1. request'[k].pc = "committed"
        BY <2>2, <3>2 DEF EnqueuePlain, Request
      <4>2. QED
        BY <2>1, <2>2, <4>1
    <3>3. QED
      BY <1>1, <3>1, <3>2
  <2>3. CASE k # j
    <3>1. job'[k] = job[k]
      BY <1>1, <2>3 DEF Arrive, EnqueuePlain
    <3>2. request'[k] = request[k]
      BY <1>1, <2>3 DEF Arrive, EnqueuePlain
    <3>3. QED
      BY <1>0, <3>1, <3>2 DEF RowsCommitted
  <2>4. QED
    BY <2>2, <2>3
<1>2. ASSUME NEW j \in Jobs, SelectQueued(j) \/ SnapshotUpdate(j)
      PROVE  /\ Committed(k) => Committed(k)' /\ job'[k].attempt >= job[k].attempt
             /\ job'[k].status # "absent" => Committed(k)'
  <2>1. request[j].pc # "committed" /\ job' = job
    BY <1>2 DEF SelectQueued, SnapshotUpdate
  <2>2. Committed(k) => Committed(k)'
    BY <1>2, <2>1 DEF SelectQueued, SnapshotUpdate, Request
  <2>3. QED
    BY <1>0, <2>1, <2>2 DEF RowsCommitted
<1>3. ASSUME NEW j \in Jobs, Commit(j)
      PROVE  /\ Committed(k) => Committed(k)' /\ job'[k].attempt >= job[k].attempt
             /\ job'[k].status # "absent" => Committed(k)'
  <2>1. job'[k].attempt = job[k].attempt
    BY <1>3 DEF Commit, RowsAfter, Replaced, JobRow
  <2>2. CASE k = j
    BY <1>0, <1>3, <2>1, <2>2 DEF Commit
  <2>3. CASE k # j
    <3>1. request'[k] = request[k]
      BY <1>3, <2>3 DEF Commit
    <3>2. job'[k].status # "absent" => job[k].status # "absent"
      BY <1>3, <2>3 DEF Commit, RowsAfter, Superseding
    <3>3. QED
      BY <1>0, <2>1, <3>1, <3>2 DEF RowsCommitted
  <2>4. QED
    BY <2>2, <2>3
<1>4. ASSUME NEW t \in Threads, ClaimCommit(t)
      PROVE  /\ Committed(k) => Committed(k)' /\ job'[k].attempt >= job[k].attempt
             /\ job'[k].status # "absent" => Committed(k)'
  <2>1. request' = request
    BY <1>4 DEF ClaimCommit
  <2>2. CASE k = thread[t].job
    <3>1. job'[k] = Claimed(job[k]) /\ Committed(k)
      BY <1>4, <2>2 DEF ClaimCommit, HoldersCommitted
    <3>2. Claimed(job[k]).attempt = job[k].attempt + 1
      BY DEF Claimed, JobRow
    <3>3. QED
      BY <1>0, <2>1, <3>1, <3>2
  <2>3. CASE k # thread[t].job
    <3>1. job'[k] = job[k]
      BY <1>4, <2>3 DEF ClaimCommit
    <3>2. QED
      BY <1>0, <2>1, <3>1 DEF RowsCommitted
  <2>4. QED
    BY <2>2, <2>3
<1>5. ASSUME NEW t \in Threads, AckCompleted(t) \/ AckRetry(t) \/ AckFailed(t)
      PROVE  /\ Committed(k) => Committed(k)' /\ job'[k].attempt >= job[k].attempt
             /\ job'[k].status # "absent" => Committed(k)'
  <2>1. request' = request /\ Holding(t)
    BY <1>5 DEF AckCompleted, AckRetry, AckFailed, Acknowledge
  <2>2. CASE k = thread[t].job
    <3>1. Committed(k)
      BY <2>1, <2>2 DEF HoldersCommitted, Holding
    <3>2. job'[k] \in {Finished(job[k], "completed"), Retried(job[k]),
                       Finished(job[k], "failed")}
      BY <1>5, <2>2 DEF AckCompleted, AckRetry, AckFailed, Acknowledge
    <3>3. job'[k].attempt = job[k].attempt
      BY <3>2 DEF Finished, Retried, JobRow
    <3>4. QED
      BY <1>0, <2>1, <3>1, <3>3
  <2>3. CASE k # thread[t].job
    <3>1. job'[k] = job[k]
      BY <1>5, <2>3 DEF AckCompleted, AckRetry, AckFailed, Acknowledge
    <3>2. QED
      BY <1>0, <2>1, <3>1 DEF RowsCommitted
  <2>4. QED
    BY <2>2, <2>3
<1>6. ASSUME NEW j \in Jobs, BackoffElapses(j) \/ LeaseExpires(j)
      PROVE  /\ Committed(k) => Committed(k)' /\ job'[k].attempt >= job[k].attempt
             /\ job'[k].status # "absent" => Committed(k)'
  <2>1. /\ request' = request
        /\ job'[k].attempt = job[k].attempt
        /\ job'[k].status = job[k].status
    <3>1. job'[k] \in {job[k], [job[k] EXCEPT !.available = TRUE],
                       [job[k] EXCEPT !.lease = "expired"]}
      BY <1>6 DEF BackoffElapses, LeaseExpires
    <3>2. QED
      BY <1>6, <3>1 DEF BackoffElapses, LeaseExpires, JobRow
  <2>2. QED
    BY <1>0, <2>1 DEF RowsCommitted
<1>7. ASSUME NEW p \in Processes, Start(p)
      PROVE  /\ Committed(k) => Committed(k)' /\ job'[k].attempt >= job[k].attempt
             /\ job'[k].status # "absent" => Committed(k)'
  <2>1. request' = request
    BY <1>7 DEF Start
  <2>2. job'[k].attempt = job[k].attempt
    BY <1>7 DEF Start, Recovered, JobRow
  <2>3. job'[k].status # "absent" => job[k].status # "absent"
    BY <1>7 DEF Start, Expired
  <2>4. QED
    BY <1>0, <2>1, <2>2, <2>3 DEF RowsCommitted
<1>8. ASSUME UNCHANGED <<job, request>>
      PROVE  /\ Committed(k) => Committed(k)' /\ job'[k].attempt >= job[k].attempt
             /\ job'[k].status # "absent" => Committed(k)'
  BY <1>0, <1>8 DEF RowsCommitted
<1>9. QED
  BY <1>1, <1>2, <1>3, <1>4, <1>5, <1>6, <1>7, <1>8
     DEF Next, RequestStep, ThreadStep, ProcessStep, vars, ClaimStatement,
         LoopCrash, SignalStop, Exit, Crash

\* A thread that is busy after a step was as busy before it, or has just
\* locked a queued row, or has just claimed one with a number of its own.
LEMMA ThreadSteps ==
  ASSUME TypeOK, [Next]_vars, NEW t \in Threads, thread'[t].pc # "idle"
  PROVE  \/ thread'[t] = thread[t]
         \/ /\ thread'[t].pc = "claiming"
            /\ thread'[t].job \in Jobs
            /\ job[thread'[t].job].status = "queued"
         \/ /\ ClaimCommit(t)
            /\ thread[t].pc = "claiming"
            /\ thread'[t].job = thread[t].job
            /\ thread'[t].ticket = job[thread[t].job].attempt + 1
            /\ job'[thread[t].job].attempt = thread'[t].ticket
            /\ \A u \in Threads \ {t} : thread'[u] = thread[u]
<1> USE DEF TypeOK
<1>1. ASSUME NEW u \in Threads, NEW j \in Jobs, ClaimStatement(u, j), u = t
      PROVE  /\ thread'[t].pc = "claiming"
             /\ thread'[t].job \in Jobs
             /\ job[thread'[t].job].status = "queued"
  BY <1>1 DEF ClaimStatement, Claimable
<1>2. CASE ClaimCommit(t)
  <2>1. thread[t].job \in Jobs
    BY <1>2, ThreadTypes DEF ClaimCommit, BusyThread
  <2>2. job'[thread[t].job] = Claimed(job[thread[t].job])
    BY <1>2, <2>1 DEF ClaimCommit
  <2>3. job'[thread[t].job].attempt = job[thread[t].job].attempt + 1
    BY <2>1, <2>2 DEF Claimed, JobRow
  <2>4. QED
    BY <1>2, <2>3 DEF ClaimCommit
<1>3. ASSUME NEW u \in Threads, ThreadStep(u),
             ~ClaimCommit(t), ~\E j \in Jobs : ClaimStatement(t, j)
      PROVE  thread'[t] = thread[t]
  <2>1. CASE u # t
    BY <1>3, <2>1 DEF ThreadStep, ClaimStatement, ClaimCommit, AckCompleted,
                      AckRetry, AckFailed, Acknowledge, LoopCrash
  <2>2. CASE u = t
    BY <1>3, <2>2 DEF ThreadStep, AckCompleted, AckRetry, AckFailed,
                      Acknowledge, LoopCrash, IdleThread
  <2>3. QED
    BY <2>1, <2>2
<1>4. ASSUME NEW p \in Processes, Exit(p) \/ Crash(p)
      PROVE  thread'[t] = thread[t]
  BY <1>4 DEF Exit, Crash, ThreadsGone, IdleThread
<1>5. ASSUME UNCHANGED thread
      PROVE  thread'[t] = thread[t]
  BY <1>5
<1>6. QED
  BY <1>1, <1>2, <1>3, <1>4, <1>5
     DEF Next, RequestStep, ProcessStep, vars, Arrive, EnqueuePlain,
         SelectQueued, SnapshotUpdate, Commit, BackoffElapses, LeaseExpires,
         SignalStop, Start

LEMMA TicketPreserved == TicketInv /\ [Next]_vars => TicketInv'
<1> SUFFICES ASSUME TicketInv, [Next]_vars
             PROVE  TicketInv'
  OBVIOUS
<1> USE DEF TicketInv
<1>1. TypeOK'
  BY TypePreserved
<1>2. RowsCommitted'
  BY RowSteps DEF RowsCommitted
<1>3. ASSUME NEW t \in Threads, thread'[t].pc # "idle"
      PROVE  thread'[t].job \in Jobs /\ request'[thread'[t].job].pc = "committed"
  <2>1. thread'[t].job \in Jobs
    BY <1>1, <1>3 DEF TypeOK, Thread, IdleThread, BusyThread
  <2>2. PICK k \in Jobs : k = thread'[t].job
    BY <2>1
  <2>3. Committed(k)
    BY <1>3, <2>2, ThreadSteps DEF RowsCommitted, HoldersCommitted
  <2>4. Committed(k)'
    BY <2>3, RowSteps
  <2>5. QED
    BY <2>2, <2>4 DEF Committed
<1>4. HoldersCommitted'
  BY <1>3 DEF HoldersCommitted, Committed
<1>5. TicketsIdentifyHolders'
  <2>1. SUFFICES ASSUME NEW t \in Threads, Holding(t)'
                 PROVE  /\ thread'[t].ticket <= job'[thread'[t].job].attempt
                        /\ \A u \in Threads \ {t} :
                             Holding(u)' /\ thread'[u].job = thread'[t].job
                               => thread'[u].ticket # thread'[t].ticket
    BY DEF TicketsIdentifyHolders, Holding
  <2>2. PICK k \in Jobs : k = thread'[t].job
    BY <1>3, <2>1 DEF Holding
  <2>3. job[k].attempt \in Nat /\ job'[k].attempt \in Nat
    BY <1>1 DEF TypeOK, JobRow
  <2>4. \A u \in Threads : Holding(u)' => thread'[u].ticket \in Nat
    BY <1>1 DEF TypeOK, Thread, IdleThread, BusyThread, Holding
  \* A thread that keeps its claim keeps a number that was already issued.
  <2>5. ASSUME NEW u \in Threads, Holding(u)', thread'[u] = thread[u],
               thread'[u].job = k
        PROVE  /\ thread'[u].ticket <= job[k].attempt
               /\ job'[k].attempt >= job[k].attempt
    <3>1. Holding(u) /\ Committed(k)
      BY <2>5 DEF Holding, HoldersCommitted
    <3>2. QED
      BY <2>5, <3>1, RowSteps DEF TicketsIdentifyHolders
  <2>6. CASE thread'[t] = thread[t]
    <3>1. thread'[t].ticket <= job'[k].attempt
      BY <2>1, <2>2, <2>3, <2>4, <2>5, <2>6
    <3>2. ASSUME NEW u \in Threads \ {t}, Holding(u)', thread'[u].job = k
          PROVE  thread'[u].ticket # thread'[t].ticket
      <4>1. CASE thread'[u] = thread[u]
        BY <2>1, <2>2, <2>6, <3>2, <4>1 DEF TicketsIdentifyHolders, Holding
      <4>2. CASE thread'[u] # thread[u]
        <5>1. thread'[u].ticket = job[k].attempt + 1
          BY <3>2, <4>2, ThreadSteps DEF Holding
        <5>2. thread'[t].ticket <= job[k].attempt
          BY <2>1, <2>2, <2>5, <2>6
        <5>3. QED
          BY <2>1, <2>3, <2>4, <5>1, <5>2
      <4>3. QED
        BY <4>1, <4>2
    <3>3. QED
      BY <2>2, <3>1, <3>2
  <2>7. CASE thread'[t] # thread[t]
    <3>1. /\ thread'[t].ticket = job[k].attempt + 1
          /\ job'[k].attempt = thread'[t].ticket
          /\ \A u \in Threads \ {t} : thread'[u] = thread[u]
      BY <2>1, <2>2, <2>7, ThreadSteps DEF Holding
    <3>2. ASSUME NEW u \in Threads \ {t}, Holding(u)', thread'[u].job = k
          PROVE  thread'[u].ticket # thread'[t].ticket
      BY <2>3, <2>4, <2>5, <3>1, <3>2
    <3>3. QED
      BY <2>2, <2>3, <3>1, <3>2
  <2>8. QED
    BY <2>6, <2>7
<1>6. QED
  BY <1>1, <1>2, <1>4, <1>5

LEMMA TicketInit == Init => TicketInv
  BY TypeInit
     DEF Init, TicketInv, RowsCommitted, HoldersCommitted, NewRow, IdleThread,
         TicketsIdentifyHolders, Holding

\* Two threads that run the same job hold different attempt numbers, whatever
\* the crashes, recoveries and processes.
THEOREM Tickets == Spec => []TicketsIdentifyHolders
<1>1. TicketInv => TicketsIdentifyHolders
  BY DEF TicketInv
<1>2. QED
  BY <1>1, TicketInit, TicketPreserved, PTL DEF Spec

-----------------------------------------------------------------------------
(* The life of a row.                                                      *)

\* Nothing happens to a row but that its lease expires or its backoff ends.
RowKept(k) == /\ job'[k] \in {job[k], [job[k] EXCEPT !.available = TRUE],
                              [job[k] EXCEPT !.lease = "expired"]}
              /\ recoveries'[k] = recoveries[k]

RowReplaced(k) == /\ \E j \in Jobs \ {k} : /\ Commit(j)
                                           /\ k \in Superseding(j)
                                           /\ job'[k] = Replaced(job[k], j)
                  /\ recoveries'[k] = recoveries[k]

RowClaimed(k) == /\ \E t \in Threads : ClaimCommit(t) /\ thread[t].job = k
                 /\ job'[k] = Claimed(job[k])
                 /\ recoveries'[k] = recoveries[k]

RowEnded(k) == /\ \E t \in Threads : /\ thread[t].job = k
                                     /\ \/ /\ AckCompleted(t)
                                           /\ job'[k] = Finished(job[k], "completed")
                                        \/ /\ AckRetry(t)
                                           /\ job'[k] = Retried(job[k])
                                        \/ /\ AckFailed(t)
                                           /\ job'[k] = Finished(job[k], "failed")
               /\ recoveries'[k] = recoveries[k]

RowRecovered(k) == /\ \E p \in Processes : Start(p)
                   /\ k \in Expired
                   /\ job'[k] = Recovered(job[k])
                   /\ recoveries'[k] = recoveries[k] + 1

RowStep(k) == RowKept(k) \/ RowReplaced(k) \/ RowClaimed(k) \/ RowEnded(k)
              \/ RowRecovered(k)

\* A committed row stays committed, and goes through these steps only.
LEMMA CommittedRow ==
  ASSUME TypeOK, HoldersCommitted, [Next]_vars, NEW k \in Jobs, Committed(k)
  PROVE  Committed(k)' /\ RowStep(k)
<1> USE DEF TypeOK, Committed
<1>1. ASSUME NEW j \in Jobs, NEW o \in Origins,
             NEW p \in Properties \cup {NoProperty},
             Arrive(j, o, p) \/ EnqueuePlain(j, o, p)
      PROVE  Committed(k)' /\ RowKept(k)
  BY <1>1 DEF Arrive, EnqueuePlain, IsNextJob, RowKept
<1>2. ASSUME NEW j \in Jobs, SelectQueued(j) \/ SnapshotUpdate(j)
      PROVE  Committed(k)' /\ RowKept(k)
  BY <1>2 DEF SelectQueued, SnapshotUpdate, RowKept
<1>3. ASSUME NEW j \in Jobs, Commit(j)
      PROVE  Committed(k)' /\ RowStep(k)
  <2>1. j # k /\ request'[k] = request[k] /\ recoveries' = recoveries
    BY <1>3 DEF Commit
  <2>2. CASE k \in Superseding(j)
    BY <1>3, <2>1, <2>2 DEF Commit, RowsAfter, RowReplaced, RowStep
  <2>3. CASE k \notin Superseding(j)
    BY <1>3, <2>1, <2>3 DEF Commit, RowsAfter, RowKept, RowStep
  <2>4. QED
    BY <2>2, <2>3
<1>4. ASSUME NEW t \in Threads, ClaimCommit(t)
      PROVE  Committed(k)' /\ RowStep(k)
  <2>1. CASE thread[t].job = k
    BY <1>4, <2>1 DEF ClaimCommit, RowClaimed, RowStep
  <2>2. CASE thread[t].job # k
    BY <1>4, <2>2 DEF ClaimCommit, RowKept, RowStep
  <2>3. QED
    BY <2>1, <2>2
<1>5. ASSUME NEW t \in Threads, AckCompleted(t) \/ AckRetry(t) \/ AckFailed(t)
      PROVE  Committed(k)' /\ RowStep(k)
  <2>1. request' = request /\ recoveries' = recoveries
    BY <1>5 DEF AckCompleted, AckRetry, AckFailed, Acknowledge
  <2>2. CASE thread[t].job = k
    BY <1>5, <2>1, <2>2
       DEF AckCompleted, AckRetry, AckFailed, Acknowledge, RowEnded, RowStep
  <2>3. CASE thread[t].job # k
    BY <1>5, <2>1, <2>3
       DEF AckCompleted, AckRetry, AckFailed, Acknowledge, RowKept, RowStep
  <2>4. QED
    BY <2>2, <2>3
<1>6. ASSUME NEW j \in Jobs, BackoffElapses(j) \/ LeaseExpires(j)
      PROVE  Committed(k)' /\ RowKept(k)
  BY <1>6 DEF BackoffElapses, LeaseExpires, RowKept
<1>7. ASSUME NEW p \in Processes, Start(p)
      PROVE  Committed(k)' /\ RowStep(k)
  <2>1. CASE k \in Expired
    BY <1>7, <2>1 DEF Start, RowRecovered, RowStep
  <2>2. CASE k \notin Expired
    BY <1>7, <2>2 DEF Start, RowKept, RowStep
  <2>3. QED
    BY <2>1, <2>2
<1>8. ASSUME UNCHANGED <<job, request, recoveries>>
      PROVE  Committed(k)' /\ RowKept(k)
  BY <1>8 DEF RowKept
<1>9. QED
  BY <1>1, <1>2, <1>3, <1>4, <1>5, <1>6, <1>7, <1>8
     DEF Next, RequestStep, ThreadStep, ProcessStep, vars, ClaimStatement,
         LoopCrash, SignalStop, Exit, Crash, RowStep

\* What each of these steps leaves alone.
LEMMA RowFields ==
  ASSUME TypeOK, NEW k \in Jobs, RowStep(k)
  PROVE  /\ job'[k].origin = job[k].origin
         /\ job'[k].property = job[k].property
         /\ RowKept(k) => /\ job'[k].status = job[k].status
                          /\ job'[k].attempt = job[k].attempt
                          /\ job'[k].wiped = job[k].wiped
                          /\ job'[k].supersededBy = job[k].supersededBy
<1>1. job[k] \in JobRow
  BY DEF TypeOK
<1>2. CASE RowKept(k)
  BY <1>1, <1>2 DEF RowKept, JobRow
<1>3. CASE RowReplaced(k)
  <2>1. PICK j \in Jobs \ {k} : job'[k] = Replaced(job[k], j)
    BY <1>3 DEF RowReplaced
  <2>2. job'[k].origin = job[k].origin /\ job'[k].property = job[k].property
    BY <1>1, <2>1 DEF Replaced, JobRow
  <2>3. RowKept(k) => job'[k].status = job[k].status
    BY <1>1 DEF RowKept, JobRow
  <2> QED BY <1>2, <2>2
<1>4. CASE RowClaimed(k)
  <2>1. job'[k].origin = job[k].origin /\ job'[k].property = job[k].property
    BY <1>1, <1>4 DEF RowClaimed, Claimed, JobRow
  <2> QED BY <1>2, <2>1
<1>5. CASE RowEnded(k)
  <2>1. job'[k] \in {Finished(job[k], "completed"), Retried(job[k]),
                     Finished(job[k], "failed")}
    BY <1>5 DEF RowEnded
  <2>2. job'[k].origin = job[k].origin /\ job'[k].property = job[k].property
    BY <1>1, <2>1 DEF Finished, Retried, JobRow
  <2> QED BY <1>2, <2>2
<1>6. CASE RowRecovered(k)
  <2>1. job'[k].origin = job[k].origin /\ job'[k].property = job[k].property
    BY <1>1, <1>6 DEF RowRecovered, Recovered, JobRow
  <2> QED BY <1>2, <2>1
<1>7. QED
  BY <1>2, <1>3, <1>4, <1>5, <1>6 DEF RowStep

-----------------------------------------------------------------------------
(* Locks, targets and rows that are not committed.                         *)

\* A row a claim has locked is still queued, and locked by one claim.
LockedQueued == \A t \in Threads :
                  thread[t].pc = "claiming" => job[thread[t].job].status = "queued"
OneLock      == \A t, u \in Threads :
                  /\ thread[t].pc = "claiming" /\ thread[u].pc = "claiming"
                  /\ thread[t].job = thread[u].job
                  => t = u

\* What an UPDATE is about to supersede is committed and of its own property.
TargetsMatch == \A j \in Jobs : \A k \in request[j].target :
                  InFlight(j) /\ SameProperty(j, k) /\ Committed(k)

FreshRows == \A j \in Jobs : ~Committed(j) => /\ job[j].status = "absent"
                                              /\ job[j].attempt = 0
                                              /\ ~job[j].wiped

QueueInv == /\ TypeOK /\ RowsCommitted /\ HoldersCommitted
            /\ LockedQueued /\ OneLock /\ TargetsMatch /\ FreshRows

\* What the SELECT changes of its request.
LEMMA SelectRequest ==
  ASSUME TypeOK, NEW j \in Jobs, SelectQueued(j)
  PROVE  /\ request'[j].pc \in {"inserting", "selected"}
         /\ request'[j].target = request[j].target
         /\ \A i \in Jobs \ {j} : request'[i] = request[i]
<1> DEFINE next == IF QueuedSiblings(j) = {} THEN "inserting" ELSE "selected"
<1>1. request' = [request EXCEPT ![j] = [@ EXCEPT !.pc = next,
                                                  !.seen = QueuedSiblings(j)]]
  BY DEF SelectQueued
<1>2. next \in {"inserting", "selected"}
  OBVIOUS
<1>3. request[j] \in Request
  BY DEF TypeOK
<1> HIDE DEF next
<1> QED BY <1>1, <1>2, <1>3 DEF TypeOK, Request

\* A row before its commit: it is nobody's, and its commit queues it.
LEMMA FreshRow ==
  ASSUME QueueInv, [Next]_vars, NEW k \in Jobs, ~Committed(k)
  PROVE  /\ job'[k].attempt = 0 /\ ~job'[k].wiped
         /\ recoveries'[k] = recoveries[k]
         /\ ~Committed(k)' => job'[k].status = "absent"
         /\ Committed(k)' => /\ job'[k].status = "queued"
                             /\ \/ /\ Commit(k)
                                   /\ job'[k].property = job[k].property
                                   /\ job'[k].origin = job[k].origin
                                \/ \E o \in Origins, p \in Properties \cup {NoProperty} :
                                     /\ EnqueuePlain(k, o, p)
                                     /\ job'[k].property = p /\ job'[k].origin = o
         /\ InFlight(k) => /\ job'[k].property = job[k].property
                           /\ job'[k].origin = job[k].origin
<1> DEFINE Goal ==
         /\ job'[k].attempt = 0 /\ ~job'[k].wiped
         /\ recoveries'[k] = recoveries[k]
         /\ ~Committed(k)' => job'[k].status = "absent"
         /\ Committed(k)' => /\ job'[k].status = "queued"
                             /\ \/ /\ Commit(k)
                                   /\ job'[k].property = job[k].property
                                   /\ job'[k].origin = job[k].origin
                                \/ \E o \in Origins, p \in Properties \cup {NoProperty} :
                                     /\ EnqueuePlain(k, o, p)
                                     /\ job'[k].property = p /\ job'[k].origin = o
         /\ InFlight(k) => /\ job'[k].property = job[k].property
                           /\ job'[k].origin = job[k].origin
<1>0. /\ job[k] \in JobRow /\ request[k] \in Request /\ job \in [Jobs -> JobRow]
      /\ request \in [Jobs -> Request] /\ recoveries \in [Jobs -> Nat]
      /\ job[k].status = "absent" /\ job[k].attempt = 0 /\ ~job[k].wiped
      /\ request[k].pc # "committed"
      /\ \A t \in Threads : thread[t].pc # "idle" => thread[t].job # k
  BY DEF QueueInv, TypeOK, FreshRows, HoldersCommitted, Committed
<1> USE DEF Committed
<1>1. ASSUME NEW j \in Jobs, NEW o \in Origins,
             NEW p \in Properties \cup {NoProperty}, Arrive(j, o, p)
      PROVE  Goal
  <2>1. CASE j = k
    <3>1. job'[k] = NewRow(o, p) /\ request'[k].pc = "arrived" /\ ~InFlight(k)
          /\ recoveries' = recoveries
      BY <1>0, <1>1, <2>1 DEF Arrive, IsNextJob, InFlight, Request
    <3> QED BY <3>1 DEF NewRow
  <2>2. CASE j # k
    BY <1>0, <1>1, <2>2 DEF Arrive
  <2> QED BY <2>1, <2>2
<1>2. ASSUME NEW j \in Jobs, NEW o \in Origins,
             NEW p \in Properties \cup {NoProperty}, EnqueuePlain(j, o, p)
      PROVE  Goal
  <2>1. CASE j = k
    <3>1. job'[k] = [NewRow(o, p) EXCEPT !.status = "queued"] /\ ~InFlight(k)
          /\ recoveries' = recoveries /\ request'[k].pc = "committed"
      BY <1>0, <1>2, <2>1 DEF EnqueuePlain, IsNextJob, InFlight, Request
    <3> QED BY <1>2, <2>1, <3>1 DEF NewRow
  <2>2. CASE j # k
    BY <1>0, <1>2, <2>2 DEF EnqueuePlain
  <2> QED BY <2>1, <2>2
<1>3. ASSUME NEW j \in Jobs, Commit(j)
      PROVE  Goal
  <2>1. CASE j = k
    <3>1. job'[k] = [job[k] EXCEPT !.status = "queued"]
          /\ recoveries' = recoveries /\ request'[k].pc = "committed"
      BY <1>0, <1>3, <2>1 DEF Commit, RowsAfter
    <3> QED BY <1>0, <1>3, <2>1, <3>1 DEF JobRow
  <2>2. CASE j # k
    <3>1. job'[k] = job[k]
      BY <1>0, <1>3, <2>2 DEF Commit, RowsAfter, Superseding
    <3> QED BY <1>0, <1>3, <2>2, <3>1 DEF Commit
  <2> QED BY <2>1, <2>2
<1>4. ASSUME NEW j \in Jobs, SelectQueued(j) \/ SnapshotUpdate(j)
      PROVE  Goal
  <2>1. request'[j].pc \in {"inserting", "selected"}
    <3>1. CASE SelectQueued(j)
      BY <1>0, <3>1, SelectRequest DEF QueueInv
    <3>2. CASE SnapshotUpdate(j)
      BY <1>0, <3>2 DEF SnapshotUpdate, Request
    <3> QED BY <1>4, <3>1, <3>2
  <2>2. j # k => request'[k] = request[k]
    BY <1>0, <1>4 DEF SelectQueued, SnapshotUpdate
  <2>3. job' = job /\ recoveries' = recoveries
    BY <1>4 DEF SelectQueued, SnapshotUpdate
  <2> QED BY <1>0, <2>1, <2>2, <2>3
<1>5. ASSUME NEW t \in Threads, ThreadStep(t)
      PROVE  Goal
  <2>1. job'[k] = job[k] /\ recoveries' = recoveries /\ request' = request
    BY <1>0, <1>5
       DEF ThreadStep, ClaimStatement, ClaimCommit, AckCompleted, AckRetry,
           AckFailed, Acknowledge, LoopCrash, Holding
  <2> QED BY <1>0, <2>1
<1>6. ASSUME NEW j \in Jobs, BackoffElapses(j) \/ LeaseExpires(j)
      PROVE  Goal
  <2>1. /\ job'[k] \in {job[k], [job[k] EXCEPT !.available = TRUE],
                        [job[k] EXCEPT !.lease = "expired"]}
        /\ recoveries' = recoveries /\ request' = request
    BY <1>0, <1>6 DEF BackoffElapses, LeaseExpires
  <2>2. /\ job'[k].attempt = 0 /\ ~job'[k].wiped
        /\ job'[k].property = job[k].property /\ job'[k].origin = job[k].origin
        /\ job'[k].status = "absent"
    BY <1>0, <2>1 DEF JobRow
  <2> QED BY <1>0, <2>1, <2>2
<1>7. ASSUME NEW p \in Processes, ProcessStep(p)
      PROVE  Goal
  <2>1. k \notin Expired
    BY <1>0 DEF Expired
  <2> QED BY <1>0, <1>7, <2>1 DEF ProcessStep, SignalStop, Exit, Crash, Start
<1>8. CASE UNCHANGED vars
  BY <1>0, <1>8 DEF vars
<1>9. QED
  BY <1>1, <1>2, <1>3, <1>4, <1>5, <1>6, <1>7, <1>8 DEF Next, RequestStep

\* The snapshot of the UPDATE is the only step that adds a target.
LEMMA TargetsStep == QueueInv /\ [Next]_vars => TargetsMatch'
<1> SUFFICES ASSUME QueueInv, [Next]_vars, NEW j \in Jobs,
                    NEW k \in request'[j].target
             PROVE  InFlight(j)' /\ SameProperty(j, k)' /\ Committed(k)'
  BY DEF TargetsMatch
<1>0. /\ TypeOK /\ HoldersCommitted /\ RowsCommitted /\ TargetsMatch
      /\ request \in [Jobs -> Request] /\ k \in Jobs
  <2>1. TypeOK'
    BY TypePreserved DEF QueueInv
  <2> QED BY <2>1 DEF QueueInv, TypeOK, Request
<1>1. /\ InFlight(j)'
      /\ \/ k \in request[j].target
         \/ InFlight(j) /\ SameProperty(j, k) /\ Committed(k)
  <2>1. ASSUME NEW i \in Jobs, SelectQueued(i)
        PROVE  InFlight(j)' /\ k \in request[j].target
    <3>1. /\ request'[j].target = request[j].target
          /\ i # j => request'[j].pc = request[j].pc
      BY <1>0, <2>1, SelectRequest
    <3>2. i = j => request'[j].pc \in {"inserting", "selected"}
      BY <1>0, <2>1, SelectRequest
    <3> QED BY <1>0, <3>1, <3>2 DEF TargetsMatch, InFlight
  <2>2. ASSUME NEW i \in Jobs, SnapshotUpdate(i)
        PROVE  /\ InFlight(j)'
               /\ \/ k \in request[j].target
                  \/ InFlight(j) /\ SameProperty(j, k) /\ Committed(k)
    <3>1. CASE i = j
      <4>1. /\ request'[j].pc = "inserting" /\ request[j].pc = "selected"
            /\ k \in QueuedSiblings(j)
        BY <1>0, <2>2, <3>1 DEF SnapshotUpdate, Request
      <4>2. Committed(k)
        BY <1>0, <4>1 DEF RowsCommitted, QueuedSiblings
      <4> QED BY <4>1, <4>2 DEF InFlight, QueuedSiblings
    <3>2. CASE i # j
      BY <1>0, <2>2, <3>2 DEF SnapshotUpdate, TargetsMatch, InFlight
    <3> QED BY <3>1, <3>2
  <2>3. ASSUME NEW i \in Jobs, Commit(i)
        PROVE  InFlight(j)' /\ k \in request[j].target
    <3>1. i # j
      BY <1>0, <2>3 DEF Commit
    <3> QED BY <1>0, <2>3, <3>1 DEF Commit, TargetsMatch, InFlight
  <2>4. ASSUME NEW i \in Jobs, NEW o \in Origins,
               NEW p \in Properties \cup {NoProperty},
               Arrive(i, o, p) \/ EnqueuePlain(i, o, p)
        PROVE  InFlight(j)' /\ k \in request[j].target
    <3>1. request'[j].target = request[j].target
      <4>1. PICK pc \in {"arrived", "committed"} :
              request' = [request EXCEPT ![i].pc = pc]
        BY <2>4 DEF Arrive, EnqueuePlain
      <4> QED BY <1>0, <4>1 DEF Request
    <3>2. InFlight(j)
      BY <1>0, <3>1 DEF TargetsMatch
    <3>3. i # j
      BY <2>4, <3>2 DEF Arrive, EnqueuePlain, IsNextJob, InFlight
    <3> QED BY <1>0, <2>4, <3>1, <3>2, <3>3 DEF Arrive, EnqueuePlain, InFlight
  <2>5. ASSUME UNCHANGED request
        PROVE  InFlight(j)' /\ k \in request[j].target
    BY <1>0, <2>5 DEF TargetsMatch, InFlight
  <2> QED
    BY <2>1, <2>2, <2>3, <2>4, <2>5
       DEF Next, RequestStep, ThreadStep, ProcessStep, vars, ClaimStatement,
           ClaimCommit, AckCompleted, AckRetry, AckFailed, Acknowledge,
           LoopCrash, BackoffElapses, LeaseExpires, SignalStop, Exit, Crash,
           Start
<1>2. InFlight(j) /\ SameProperty(j, k) /\ Committed(k)
  BY <1>0, <1>1 DEF TargetsMatch
<1>3. Committed(k)' /\ job'[k].property = job[k].property
  BY <1>0, <1>2, CommittedRow, RowFields
<1>4. job'[j].property = job[j].property
  BY <1>2, FreshRow DEF InFlight, Committed
<1> QED BY <1>1, <1>2, <1>3, <1>4 DEF SameProperty

\* A locked row is left alone by everybody but its claim.
LEMMA LockedStep ==
  ASSUME QueueInv, [Next]_vars, NEW t \in Threads, thread[t].pc = "claiming",
         thread'[t] = thread[t]
  PROVE  job'[thread[t].job].status = "queued"
<1>0. PICK k \in Jobs : k = thread[t].job
  BY ThreadTypes DEF QueueInv, TypeOK, BusyThread
<1>1. job[k].status = "queued" /\ Committed(k) /\ Locked(k)
      /\ TypeOK /\ HoldersCommitted /\ job[k] \in JobRow
  BY <1>0 DEF QueueInv, LockedQueued, HoldersCommitted, Locked, TypeOK
<1>2. CASE RowKept(k)
  BY <1>0, <1>1, <1>2, RowFields DEF RowStep
<1>3. CASE RowReplaced(k)
  BY <1>1, <1>3 DEF RowReplaced, Commit, Superseding
<1>4. CASE RowClaimed(k)
  <2>1. PICK u \in Threads : ClaimCommit(u) /\ thread[u].job = k
    BY <1>4 DEF RowClaimed
  <2>2. u = t
    BY <1>0, <2>1 DEF ClaimCommit, QueueInv, OneLock
  <2>3. thread'[t].pc = "handling"
    BY <2>1, <2>2 DEF ClaimCommit, QueueInv, TypeOK
  <2> QED BY <2>3
<1>5. CASE RowEnded(k)
  BY <1>1, <1>5 DEF RowEnded, AckCompleted, AckRetry, AckFailed, Acknowledge
<1>6. CASE RowRecovered(k)
  BY <1>1, <1>6 DEF RowRecovered, Expired
<1> QED
  BY <1>0, <1>1, <1>2, <1>3, <1>4, <1>5, <1>6, CommittedRow DEF RowStep

\* Who is claiming was claiming already, or has just looked at the table.
LEMMA ClaimersStep ==
  ASSUME QueueInv, [Next]_vars, NEW t \in Threads, thread'[t].pc = "claiming"
  PROVE  \/ thread'[t] = thread[t]
         \/ \E j \in Jobs : ClaimStatement(t, j) /\ thread'[t].job = j
<1>1. ASSUME NEW u \in Threads, ThreadStep(u)
      PROVE  \/ thread'[t] = thread[t]
             \/ \E j \in Jobs : ClaimStatement(t, j) /\ thread'[t].job = j
  BY <1>1
     DEF ThreadStep, ClaimStatement, ClaimCommit, AckCompleted, AckRetry,
         AckFailed, Acknowledge, LoopCrash, IdleThread, QueueInv, TypeOK
<1>2. ASSUME NEW p \in Processes, ProcessStep(p)
      PROVE  thread'[t] = thread[t]
  BY <1>2 DEF ProcessStep, SignalStop, Exit, Crash, Start, ThreadsGone, IdleThread
<1>3. ASSUME UNCHANGED thread
      PROVE  thread'[t] = thread[t]
  BY <1>3
<1> QED
  BY <1>1, <1>2, <1>3
     DEF Next, RequestStep, vars, Arrive, EnqueuePlain, SelectQueued,
         SnapshotUpdate, Commit, BackoffElapses, LeaseExpires

LEMMA LocksStep == QueueInv /\ [Next]_vars => (LockedQueued /\ OneLock)'
<1> SUFFICES ASSUME QueueInv, [Next]_vars
             PROVE  (LockedQueued /\ OneLock)'
  OBVIOUS
<1>2. ASSUME NEW t \in Threads, NEW j \in Jobs, ClaimStatement(t, j)
      PROVE  /\ job' = job /\ job[j].status = "queued" /\ ~Locked(j)
             /\ \A u \in Threads \ {t} : thread'[u] = thread[u]
  BY <1>2 DEF ClaimStatement, Claimable, QueueInv, TypeOK
<1>3. LockedQueued'
  BY ClaimersStep, <1>2, LockedStep DEF LockedQueued
<1>4. OneLock'
  <2> SUFFICES ASSUME NEW t \in Threads, NEW u \in Threads,
                      thread'[t].pc = "claiming", thread'[u].pc = "claiming",
                      thread'[t].job = thread'[u].job, t # u
               PROVE  FALSE
    BY DEF OneLock
  <2>1. CASE thread'[t] = thread[t] /\ thread'[u] = thread[u]
    BY <2>1 DEF QueueInv, OneLock
  <2>2. CASE thread'[t] # thread[t]
    BY ClaimersStep, <1>2, <2>2 DEF Locked
  <2>3. CASE thread'[u] # thread[u]
    BY ClaimersStep, <1>2, <2>3 DEF Locked
  <2> QED BY <2>1, <2>2, <2>3
<1> QED BY <1>3, <1>4

LEMMA QueueStep == QueueInv /\ [Next]_vars => QueueInv'
<1> SUFFICES ASSUME QueueInv, [Next]_vars PROVE QueueInv'
  OBVIOUS
<1>1. TypeOK' /\ RowsCommitted'
  BY TypePreserved, RowSteps DEF QueueInv, RowsCommitted
<1>2. HoldersCommitted'
  <2> SUFFICES ASSUME NEW t \in Threads, thread'[t].pc # "idle"
               PROVE  request'[thread'[t].job].pc = "committed"
    BY DEF HoldersCommitted, Committed
  <2>1. PICK k \in Jobs : k = thread'[t].job
    BY <1>1 DEF TypeOK, Thread, IdleThread, BusyThread
  <2>2. Committed(k)
    BY <2>1, ThreadSteps DEF QueueInv, RowsCommitted, HoldersCommitted
  <2>3. Committed(k)'
    BY <2>2, CommittedRow DEF QueueInv
  <2> QED BY <2>1, <2>3 DEF Committed
<1>3. FreshRows'
  <2> SUFFICES ASSUME NEW k \in Jobs, ~Committed(k)'
               PROVE  /\ job'[k].status = "absent" /\ job'[k].attempt = 0
                      /\ ~job'[k].wiped
    BY DEF FreshRows
  <2>1. ~Committed(k)
    BY CommittedRow DEF QueueInv
  <2> QED BY <2>1, FreshRow
<1> QED BY <1>1, <1>2, <1>3, TargetsStep, LocksStep DEF QueueInv

LEMMA QueueInit == Init => QueueInv
  BY TypeInit
     DEF Init, QueueInv, RowsCommitted, HoldersCommitted, LockedQueued, OneLock,
         TargetsMatch, FreshRows, NewRow, IdleThread, Committed

-----------------------------------------------------------------------------
(* Superseding.                                                            *)

\* Only a commit supersedes, and it leaves a queued job of the property behind.
LEMMA KeepsOneStep ==
  QueueInv /\ SupersedeKeepsOne /\ [Next]_vars => SupersedeKeepsOne'
<1> SUFFICES ASSUME QueueInv, SupersedeKeepsOne, [Next]_vars,
                    NEW p \in Properties,
                    NEW k \in Jobs, Committed(k)', job'[k].property = p
             PROVE  \E j \in Jobs : /\ Committed(j)'
                                    /\ job'[j].property = p
                                    /\ job'[j].status # "superseded"
  BY DEF SupersedeKeepsOne, Committed
<1>0. TypeOK /\ HoldersCommitted
  BY DEF QueueInv
<1>1. CASE ~Committed(k)
  BY <1>1, FreshRow
<1>2. CASE Committed(k)
  <2>1. job[k].property = p
    BY <1>0, <1>2, CommittedRow, RowFields
  <2>2. PICK w \in Jobs : /\ Committed(w) /\ job[w].property = p
                          /\ job[w].status # "superseded"
    BY <1>2, <2>1 DEF SupersedeKeepsOne
  <2>3. Committed(w)' /\ job'[w].property = p /\ RowStep(w)
    BY <1>0, <2>2, CommittedRow, RowFields
  <2>4. CASE RowReplaced(w)
    <3>1. PICK j \in Jobs \ {w} : Commit(j) /\ w \in Superseding(j)
      BY <2>4 DEF RowReplaced
    <3>2. SameProperty(j, w) /\ InFlight(j)
      BY <3>1 DEF QueueInv, TargetsMatch, Superseding
    <3>3. Committed(j)'
      BY <3>1 DEF Commit, Committed, QueueInv, TypeOK
    <3>4. job'[j].property = p /\ job'[j].status = "queued"
      BY <2>2, <3>2, <3>3, FreshRow DEF SameProperty, InFlight, Committed
    <3> QED BY <3>3, <3>4
  <2>5. CASE ~RowReplaced(w)
    <3>1. job[w] \in JobRow
      BY <1>0 DEF TypeOK
    <3>2. RowKept(w) => job'[w].status = job[w].status
      BY <1>0, <2>3, RowFields
    <3>3. ~RowKept(w) => job'[w].status # "superseded"
      BY <2>3, <2>5, <3>1
         DEF RowStep, RowClaimed, RowEnded, RowRecovered, Claimed, Finished,
             Retried, Recovered, JobRow
    <3> QED BY <2>2, <2>3, <3>2, <3>3
  <2> QED BY <2>4, <2>5
<1> QED BY <1>1, <1>2

\* Whatever requests supersede each other, on any number of API processes, a
\* property somebody asked a job for keeps one that is not superseded.
THEOREM SupersedeKeeps == Spec => []SupersedeKeepsOne
<1>1. Init => SupersedeKeepsOne
  BY DEF Init, SupersedeKeepsOne, Committed
<1> QED BY <1>1, QueueInit, QueueStep, KeepsOneStep, PTL DEF Spec

-----------------------------------------------------------------------------
(* How often a job is claimed.                                             *)

\* Who may still put the job back in the queue.
RetryHolders(k) == {t \in Threads : /\ Holding(t) /\ thread[t].job = k
                                    /\ thread[t].ticket < MaxAttempts}

Waiting(k) == IF job[k].status = "queued" THEN 1 ELSE 0

\* Tickets below the limit that were not given out yet, but for the next one.
Unused(k) == IF job[k].attempt < MaxAttempts - 1
             THEN MaxAttempts - 1 - job[k].attempt ELSE 0

\* Every claim so far, and every claim that can still come without a recovery:
\* of the row if it is queued, of each holder that may retry, of each ticket
\* below the limit.
Budget == \A k \in Jobs :
            /\ IsFiniteSet(RetryHolders(k))
            /\ Committed(k) =>
                 job[k].attempt + Waiting(k) + Cardinality(RetryHolders(k))
                   + Unused(k) <= MaxAttempts + recoveries[k]

\* A step gives a job at most one more holder that may retry, by a claim with
\* a ticket below the limit, and a retry takes its holder away.
LEMMA RetryHoldersStep ==
  ASSUME TypeOK, [Next]_vars, NEW k \in Jobs
  PROVE  /\ \/ RetryHolders(k)' \subseteq RetryHolders(k)
            \/ \E t \in Threads :
                 /\ ClaimCommit(t) /\ thread[t].job = k
                 /\ job[k].attempt + 1 < MaxAttempts
                 /\ RetryHolders(k)' \subseteq RetryHolders(k) \cup {t}
         /\ \A t \in Threads :
              AckRetry(t) /\ thread[t].job = k
                => t \in RetryHolders(k) \ RetryHolders(k)'
<1>0. \A t \in Threads : t \in RetryHolders(k)' =>
        /\ thread'[t].pc = "handling" /\ thread'[t].job = k
        /\ thread'[t].ticket < MaxAttempts
  BY DEF RetryHolders, Holding
<1>1. ASSUME NEW t \in Threads, t \in RetryHolders(k)', t \notin RetryHolders(k)
      PROVE  /\ ClaimCommit(t) /\ thread[t].job = k
             /\ job[k].attempt + 1 < MaxAttempts
             /\ RetryHolders(k)' \subseteq RetryHolders(k) \cup {t}
  <2>1. thread'[t] # thread[t]
    BY <1>0, <1>1 DEF RetryHolders, Holding
  <2>2. /\ ClaimCommit(t) /\ thread[t].job = k
        /\ thread'[t].ticket = job[k].attempt + 1
        /\ \A u \in Threads \ {t} : thread'[u] = thread[u]
    BY <1>0, <1>1, <2>1, ThreadSteps
  <2>3. RetryHolders(k)' \subseteq RetryHolders(k) \cup {t}
    BY <1>0, <2>2 DEF RetryHolders, Holding
  <2> QED BY <1>0, <1>1, <2>2, <2>3
<1>2. ASSUME NEW t \in Threads, AckRetry(t), thread[t].job = k
      PROVE  t \in RetryHolders(k) \ RetryHolders(k)'
  <2>1. thread'[t] = IdleThread
    BY <1>2 DEF AckRetry, Acknowledge, TypeOK
  <2>2. t \notin RetryHolders(k)'
    BY <1>0, <2>1 DEF IdleThread
  <2>3. t \in RetryHolders(k)
    BY <1>2 DEF AckRetry, Acknowledge, MayRetry, RetryHolders
  <2> QED BY <2>2, <2>3
<1>3. RetryHolders(k)' \subseteq Threads
  BY DEF RetryHolders
<1> QED BY <1>1, <1>2, <1>3

\* The sets of holders stay finite, and grow only by such a claim.
LEMMA HoldersCounted ==
  ASSUME TypeOK, [Next]_vars, NEW k \in Jobs, IsFiniteSet(RetryHolders(k))
  PROVE  /\ IsFiniteSet(RetryHolders(k)')
         /\ Cardinality(RetryHolders(k)) \in Nat
         /\ Cardinality(RetryHolders(k)') \in Nat
         /\ \/ Cardinality(RetryHolders(k)') <= Cardinality(RetryHolders(k))
            \/ /\ \E t \in Threads : ClaimCommit(t) /\ thread[t].job = k
               /\ job[k].attempt + 1 < MaxAttempts
               /\ Cardinality(RetryHolders(k)') <= Cardinality(RetryHolders(k)) + 1
<1> DEFINE H == RetryHolders(k)
           G == RetryHolders(k)'
<1>1. \/ G \subseteq H
      \/ \E t \in Threads : /\ ClaimCommit(t) /\ thread[t].job = k
                            /\ job[k].attempt + 1 < MaxAttempts
                            /\ G \subseteq H \cup {t}
  BY RetryHoldersStep
<1>2. IsFiniteSet(H)
  OBVIOUS
<1> HIDE DEF H, G
<1>3. Cardinality(H) \in Nat
  BY <1>2, FS_CardinalityType
<1>4. CASE G \subseteq H
  <2>1. IsFiniteSet(G) /\ Cardinality(G) <= Cardinality(H)
    BY <1>2, <1>4, FS_Subset
  <2>2. Cardinality(G) \in Nat
    BY <2>1, FS_CardinalityType
  <2> QED BY <1>3, <2>1, <2>2 DEF H, G
<1>5. CASE ~(G \subseteq H)
  <2>1. PICK t \in Threads : /\ ClaimCommit(t) /\ thread[t].job = k
                             /\ job[k].attempt + 1 < MaxAttempts
                             /\ G \subseteq H \cup {t}
    BY <1>1, <1>5
  <2>2. /\ IsFiniteSet(H \cup {t})
        /\ \/ Cardinality(H \cup {t}) = Cardinality(H)
           \/ Cardinality(H \cup {t}) = Cardinality(H) + 1
    BY <1>2, FS_AddElement
  <2>3. IsFiniteSet(G) /\ Cardinality(G) <= Cardinality(H \cup {t})
    BY <2>1, <2>2, FS_Subset
  <2>4. Cardinality(G) \in Nat
    BY <2>3, FS_CardinalityType
  <2>5. Cardinality(G) <= Cardinality(H) + 1
    BY <1>3, <2>2, <2>3, <2>4
  <2> QED BY <1>3, <2>1, <2>3, <2>4, <2>5 DEF H, G
<1> QED BY <1>4, <1>5

\* A claim is what raises an attempt number.
LEMMA ClaimRaises ==
  ASSUME TypeOK, NEW t \in Threads, NEW k \in Jobs, ClaimCommit(t), thread[t].job = k
  PROVE  job'[k].attempt = job[k].attempt + 1
<1>1. job'[k] = Claimed(job[k]) /\ job[k] \in JobRow
  BY DEF ClaimCommit, TypeOK
<1> QED BY <1>1 DEF Claimed, JobRow

\* A committed row's sum grows by its recoveries only.
LEMMA BudgetKept ==
  ASSUME QueueInv, [Next]_vars, NEW k \in Jobs, Committed(k),
         IsFiniteSet(RetryHolders(k))
  PROVE  job'[k].attempt + Waiting(k)' + Cardinality(RetryHolders(k)') + Unused(k)'
           + recoveries[k]
         <= job[k].attempt + Waiting(k) + Cardinality(RetryHolders(k)) + Unused(k)
              + recoveries'[k]
<1> DEFINE a  == job[k].attempt
           a1 == job'[k].attempt
           w  == Waiting(k)
           w1 == Waiting(k)'
           n  == Cardinality(RetryHolders(k))
           n1 == Cardinality(RetryHolders(k)')
           u  == Unused(k)
           u1 == Unused(k)'
           r  == recoveries[k]
           r1 == recoveries'[k]
           Kept == a1 + w1 + n1 + u1 + r <= a + w + n + u + r1
<1> SUFFICES Kept
  OBVIOUS
<1>a. TypeOK /\ HoldersCommitted /\ TypeOK'
  BY TypePreserved DEF QueueInv
<1>b. job[k] \in JobRow /\ job'[k] \in JobRow /\ r \in Nat /\ r1 \in Nat
  BY <1>a DEF TypeOK
<1>c. a \in Nat /\ a1 \in Nat /\ MaxAttempts \in Nat \ {0}
  BY <1>b, JobQueueAssumption DEF JobRow
<1>d. n \in Nat /\ n1 \in Nat
  BY <1>a, HoldersCounted
<1>e. w \in {0, 1} /\ w1 \in {0, 1}
  BY DEF Waiting
<1>f. u \in Nat /\ u1 \in Nat
  BY <1>c DEF Unused
<1>g. \/ n1 <= n
      \/ /\ \E t \in Threads : ClaimCommit(t) /\ thread[t].job = k
         /\ a + 1 < MaxAttempts
         /\ n1 <= n + 1
  BY <1>a, HoldersCounted
\* The number stays the same: nobody claimed the row.
<1>h. a1 = a => n1 <= n /\ u1 = u
  <2>1. ASSUME a1 = a PROVE ~\E t \in Threads : ClaimCommit(t) /\ thread[t].job = k
    BY <1>a, <1>c, <2>1, ClaimRaises
  <2>2. ASSUME a1 = a PROVE u1 = u
    BY <2>2 DEF Unused
  <2> QED BY <1>g, <2>1, <2>2
<1>1. CASE RowKept(k)
  <2>1. a1 = a /\ r1 = r /\ job'[k].status = job[k].status
    BY <1>a, <1>1, RowFields DEF RowKept, RowStep
  <2>2. w1 = w
    BY <2>1 DEF Waiting
  <2> HIDE DEF a, a1, w, w1, n, n1, u, u1, r, r1
  <2> QED BY <1>b, <1>c, <1>d, <1>e, <1>f, <1>h, <2>1, <2>2
<1>2. CASE RowReplaced(k)
  <2>1. PICK j \in Jobs : job'[k] = Replaced(job[k], j) /\ r1 = r
    BY <1>2 DEF RowReplaced
  <2>2. a1 = a /\ job'[k].status = "superseded"
    BY <1>b, <2>1 DEF Replaced, JobRow
  <2>3. w1 = 0
    BY <2>2 DEF Waiting
  <2> HIDE DEF a, a1, w, w1, n, n1, u, u1, r, r1
  <2> QED BY <1>b, <1>c, <1>d, <1>e, <1>f, <1>h, <2>1, <2>2, <2>3
<1>3. CASE RowClaimed(k)
  <2>1. job[k].status = "queued"
    BY <1>3 DEF RowClaimed, ClaimCommit, QueueInv, LockedQueued
  <2>2. job'[k].status = "processing" /\ a1 = a + 1 /\ r1 = r
    BY <1>b, <1>3 DEF RowClaimed, Claimed, JobRow
  <2>3. w = 1 /\ w1 = 0
    BY <2>1, <2>2 DEF Waiting
  <2>4. CASE a + 1 < MaxAttempts
    <3>1. u = u1 + 1
      BY <1>c, <2>2, <2>4 DEF Unused
    <3> HIDE DEF a, a1, w, w1, n, n1, u, u1, r, r1
    <3> QED BY <1>b, <1>c, <1>d, <1>f, <1>g, <2>2, <2>3, <3>1
  <2>5. CASE ~(a + 1 < MaxAttempts)
    <3>1. u = 0 /\ u1 = 0
      BY <1>c, <2>2, <2>5 DEF Unused
    <3>2. n1 <= n
      BY <1>g, <2>5
    <3> HIDE DEF a, a1, w, w1, n, n1, u, u1, r, r1
    <3> QED BY <1>b, <1>c, <1>d, <2>2, <2>3, <3>1, <3>2
  <2> QED BY <2>4, <2>5
<1>4. CASE RowEnded(k)
  <2>1. PICK t \in Threads :
          /\ thread[t].job = k
          /\ \/ AckCompleted(t) /\ job'[k] = Finished(job[k], "completed")
             \/ AckRetry(t) /\ job'[k] = Retried(job[k])
             \/ AckFailed(t) /\ job'[k] = Finished(job[k], "failed")
    BY <1>4 DEF RowEnded
  <2>2. a1 = a /\ r1 = r
    <3>1. job'[k] \in {Finished(job[k], "completed"), Retried(job[k]),
                       Finished(job[k], "failed")}
      BY <2>1
    <3> QED BY <1>b, <1>4, <3>1 DEF RowEnded, Finished, Retried, JobRow
  <2>3. CASE AckRetry(t)
    <3>1. t \in RetryHolders(k) /\ t \notin RetryHolders(k)'
      BY <1>a, <2>1, <2>3, RetryHoldersStep
    <3>2. RetryHolders(k)' \subseteq RetryHolders(k)
      BY <1>a, <1>c, <2>2, RetryHoldersStep, ClaimRaises
    <3>3. IsFiniteSet(RetryHolders(k) \ {t})
          /\ Cardinality(RetryHolders(k) \ {t}) = n - 1
      BY <3>1, FS_RemoveElement
    <3>4. n1 <= n - 1
      BY <3>1, <3>2, <3>3, FS_Subset
    <3> HIDE DEF a, a1, w, w1, n, n1, u, u1, r, r1
    <3> QED BY <1>b, <1>c, <1>d, <1>e, <1>f, <1>h, <2>2, <3>4
  <2>4. CASE ~AckRetry(t)
    <3>1. job'[k] \in {Finished(job[k], "completed"), Finished(job[k], "failed")}
      BY <2>1, <2>4
    <3>2. job'[k].status \in {"completed", "failed"}
      BY <1>b, <3>1 DEF Finished, JobRow
    <3>3. w1 = 0
      BY <3>2 DEF Waiting
    <3> HIDE DEF a, a1, w, w1, n, n1, u, u1, r, r1
    <3> QED BY <1>b, <1>c, <1>d, <1>e, <1>f, <1>h, <2>2, <3>3
  <2> QED BY <2>3, <2>4
<1>5. CASE RowRecovered(k)
  <2>1. job[k].status = "processing" /\ job'[k] = Recovered(job[k]) /\ r1 = r + 1
    BY <1>5 DEF RowRecovered, Expired
  <2>2. a1 = a
    BY <1>b, <2>1 DEF Recovered, JobRow
  <2>3. w = 0
    BY <2>1 DEF Waiting
  <2> HIDE DEF a, a1, w, w1, n, n1, u, u1, r, r1
  <2> QED BY <1>b, <1>c, <1>d, <1>e, <1>f, <1>h, <2>1, <2>2, <2>3
<1>6. RowStep(k)
  BY <1>a, CommittedRow
<1> HIDE DEF Kept
<1> QED BY <1>1, <1>2, <1>3, <1>4, <1>5, <1>6 DEF RowStep

LEMMA BudgetStep == QueueInv /\ Budget /\ [Next]_vars => Budget'
<1> SUFFICES ASSUME QueueInv, Budget, [Next]_vars, NEW k \in Jobs
             PROVE  /\ IsFiniteSet(RetryHolders(k)')
                    /\ Committed(k)' =>
                         job'[k].attempt + Waiting(k)' + Cardinality(RetryHolders(k)')
                           + Unused(k)' <= MaxAttempts + recoveries'[k]
  BY DEF Budget
<1> DEFINE s  == job[k].attempt + Waiting(k) + Cardinality(RetryHolders(k)) + Unused(k)
           s1 == job'[k].attempt + Waiting(k)' + Cardinality(RetryHolders(k)')
                   + Unused(k)'
           r  == recoveries[k]
           r1 == recoveries'[k]
<1>1. TypeOK /\ TypeOK' /\ IsFiniteSet(RetryHolders(k))
  BY TypePreserved DEF QueueInv, Budget
<1>2. /\ IsFiniteSet(RetryHolders(k)')
      /\ Cardinality(RetryHolders(k)) \in Nat /\ Cardinality(RetryHolders(k)') \in Nat
  BY <1>1, HoldersCounted
<1>3. job[k].attempt \in Nat /\ job'[k].attempt \in Nat /\ r \in Nat /\ r1 \in Nat
      /\ MaxAttempts \in Nat \ {0}
  BY <1>1, JobQueueAssumption DEF TypeOK, JobRow
<1>4. Waiting(k) \in Nat /\ Waiting(k)' \in Nat /\ Unused(k) \in Nat /\ Unused(k)' \in Nat
  BY <1>3 DEF Waiting, Unused
<1>5. s \in Nat /\ s1 \in Nat
  BY <1>2, <1>3, <1>4
<1>6. ASSUME Committed(k)
      PROVE  s1 <= MaxAttempts + r1
  <2>1. s <= MaxAttempts + r
    BY <1>6 DEF Budget
  <2>2. s1 + r <= s + r1
    BY <1>1, <1>6, BudgetKept
  <2> HIDE DEF s, s1, r, r1
  <2> QED BY <1>3, <1>5, <2>1, <2>2
\* A row that is inserted has no holders.
<1>7. ASSUME ~Committed(k), Committed(k)'
      PROVE  s1 <= MaxAttempts + r1
  <2>1. job'[k].attempt = 0 /\ job'[k].status = "queued"
    BY <1>7, FreshRow
  <2>2. RetryHolders(k) = {}
    BY <1>7 DEF RetryHolders, Holding, QueueInv, HoldersCommitted
  <2>3. ~\E t \in Threads : ClaimCommit(t) /\ thread[t].job = k
    BY <1>7 DEF ClaimCommit, QueueInv, HoldersCommitted
  <2>4. RetryHolders(k)' \subseteq {}
    BY <1>1, <2>2, <2>3, RetryHoldersStep
  <2>5. RetryHolders(k)' = {}
    BY <2>4
  <2>6. Cardinality(RetryHolders(k)') = 0
    BY <2>5, FS_EmptySet
  <2>7. Waiting(k)' = 1 /\ Unused(k)' = MaxAttempts - 1
    BY <1>3, <2>1 DEF Waiting, Unused
  <2> QED BY <1>3, <2>1, <2>6, <2>7
<1> QED BY <1>2, <1>6, <1>7

LEMMA BudgetInit == Init => Budget
<1> SUFFICES ASSUME Init, NEW k \in Jobs
             PROVE  IsFiniteSet(RetryHolders(k)) /\ ~Committed(k)
  BY DEF Budget
<1>1. RetryHolders(k) = {}
  BY DEF Init, RetryHolders, Holding, IdleThread
<1> QED BY <1>1, FS_EmptySet DEF Init, Committed

LEMMA BudgetBounds == QueueInv /\ Budget => AttemptsBounded
<1> SUFFICES ASSUME QueueInv, Budget, NEW k \in Jobs
             PROVE  job[k].attempt <= MaxAttempts + recoveries[k]
  BY DEF AttemptsBounded
<1>1. /\ job[k].attempt \in Nat /\ recoveries[k] \in Nat
      /\ MaxAttempts \in Nat \ {0} /\ Waiting(k) \in Nat /\ Unused(k) \in Nat
      /\ Cardinality(RetryHolders(k)) \in Nat
  BY JobQueueAssumption, FS_CardinalityType
     DEF QueueInv, TypeOK, JobRow, Budget, Waiting, Unused
<1>2. CASE Committed(k)
  BY <1>1, <1>2 DEF Budget
<1>3. CASE ~Committed(k)
  BY <1>1, <1>3 DEF QueueInv, FreshRows
<1> QED BY <1>2, <1>3

\* However many processes run, crash, recover each other's jobs and acknowledge
\* what they no longer own, a job is claimed at most MaxAttempts times plus once
\* for every recovery, although no query looks at the limit.
THEOREM AttemptsCounted == Spec => []AttemptsBounded
  BY QueueInit, QueueStep, BudgetInit, BudgetStep, BudgetBounds, PTL DEF Spec

-----------------------------------------------------------------------------
(* The audit rows.                                                         *)

\* What a step does to the event of a job whose row it changes.
LEMMA EventStep ==
  ASSUME QueueInv, EventClosesWithJob, [Next]_vars
  PROVE  EventClosesWithJob'
<1> SUFFICES ASSUME NEW k \in Jobs
             PROVE  /\ job'[k].status \in {"completed", "failed"}
                         => event'[k] \in ClosedEvent
                    /\ event'[k] \in {"completed", "noop"}
                         => job'[k].status = "completed"
  BY DEF EventClosesWithJob
<1> DEFINE Closed == /\ job'[k].status \in {"completed", "failed"}
                          => event'[k] \in ClosedEvent
                     /\ event'[k] \in {"completed", "noop"}
                          => job'[k].status = "completed"
<1>0. /\ job \in [Jobs -> JobRow] /\ event \in [Jobs -> EventStatuses]
      /\ job[k] \in JobRow /\ thread \in [Threads -> Thread]
      /\ job[k].status \in {"completed", "failed"} => event[k] \in ClosedEvent
      /\ event[k] \in {"completed", "noop"} => job[k].status = "completed"
  BY DEF QueueInv, TypeOK, EventClosesWithJob
<1>1. ASSUME NEW j \in Jobs, NEW o \in Origins,
             NEW p \in Properties \cup {NoProperty}, Arrive(j, o, p)
      PROVE  Closed
  <2>1. CASE j = k
    <3>1. job[k].status = "absent" /\ event'[k] = event[k]
      BY <1>1, <2>1 DEF Arrive, IsNextJob, QueueInv, FreshRows, Committed
    <3>2. job'[k].status = "absent"
      BY <1>0, <1>1, <2>1 DEF Arrive, NewRow
    <3> QED BY <1>0, <3>1, <3>2
  <2>2. CASE j # k
    BY <1>0, <1>1, <2>2 DEF Arrive
  <2> QED BY <2>1, <2>2
<1>2. ASSUME NEW j \in Jobs, NEW o \in Origins,
             NEW p \in Properties \cup {NoProperty}, EnqueuePlain(j, o, p)
      PROVE  Closed
  <2>1. CASE j = k
    <3>1. event'[k] = "queued" /\ job'[k] = [NewRow(o, p) EXCEPT !.status = "queued"]
      BY <1>0, <1>2, <2>1 DEF EnqueuePlain
    <3> QED BY <3>1 DEF NewRow
  <2>2. CASE j # k
    BY <1>0, <1>2, <2>2 DEF EnqueuePlain
  <2> QED BY <2>1, <2>2
<1>3. ASSUME NEW j \in Jobs, Commit(j)
      PROVE  Closed
  <2>1. CASE k = j
    <3>1. event'[k] = "queued" /\ job'[k] = [job[k] EXCEPT !.status = "queued"]
      BY <1>3, <2>1 DEF Commit, RowsAfter
    <3> QED BY <1>0, <3>1 DEF JobRow
  <2>2. CASE k # j
    <3>1. event'[k] \in {event[k], "superseded"}
      BY <1>3, <2>2 DEF Commit
    <3>2. CASE k \in Superseding(j)
      <4>1. job[k].status = "queued" /\ job'[k] = Replaced(job[k], j)
        BY <1>3, <2>2, <3>2 DEF Commit, RowsAfter, Superseding
      <4>2. job'[k].status = "superseded"
        BY <1>0, <4>1 DEF Replaced, JobRow
      <4> QED BY <1>0, <3>1, <4>1, <4>2
    <3>3. CASE k \notin Superseding(j)
      <4>1. job'[k] = job[k]
        BY <1>3, <2>2, <3>3 DEF Commit, RowsAfter
      <4>2. event'[k] = "superseded" => event'[k] \in ClosedEvent
        BY DEF ClosedEvent
      <4> QED BY <1>0, <3>1, <4>1, <4>2
    <3> QED BY <3>2, <3>3
  <2> QED BY <2>1, <2>2
<1>4. ASSUME NEW t \in Threads, ClaimCommit(t)
      PROVE  Closed
  <2>1. CASE thread[t].job = k
    <3>1. event'[k] = "processing" /\ job'[k] = Claimed(job[k])
      BY <1>0, <1>4, <2>1 DEF ClaimCommit
    <3>2. job'[k].status = "processing"
      BY <1>0, <3>1 DEF Claimed, JobRow
    <3> QED BY <3>1, <3>2
  <2>2. CASE thread[t].job # k
    BY <1>0, <1>4, <2>2 DEF ClaimCommit
  <2> QED BY <2>1, <2>2
<1>5. ASSUME NEW t \in Threads, AckCompleted(t) \/ AckRetry(t) \/ AckFailed(t)
      PROVE  Closed
  <2>1. CASE thread[t].job = k
    <3>1. CASE AckCompleted(t)
      <4>1. job'[k] = Finished(job[k], "completed")
            /\ event'[k] \in {"completed", "noop"}
        BY <1>0, <2>1, <3>1 DEF AckCompleted, Acknowledge
      <4> QED BY <1>0, <4>1 DEF Finished, JobRow, ClosedEvent
    <3>2. CASE AckRetry(t)
      <4>1. job'[k] = Retried(job[k]) /\ event'[k] = "queued"
        BY <1>0, <2>1, <3>2 DEF AckRetry, Acknowledge
      <4> QED BY <1>0, <4>1 DEF Retried, JobRow
    <3>3. CASE AckFailed(t)
      <4>1. job'[k] = Finished(job[k], "failed") /\ event'[k] = "failed"
        BY <1>0, <2>1, <3>3 DEF AckFailed, Acknowledge
      <4> QED BY <1>0, <4>1 DEF Finished, JobRow, ClosedEvent
    <3> QED BY <1>5, <3>1, <3>2, <3>3
  <2>2. CASE thread[t].job # k
    BY <1>0, <1>5, <2>2 DEF AckCompleted, AckRetry, AckFailed, Acknowledge
  <2> QED BY <2>1, <2>2
<1>6. ASSUME NEW j \in Jobs, BackoffElapses(j) \/ LeaseExpires(j)
      PROVE  Closed
  <2>1. event' = event
        /\ job'[k] \in {job[k], [job[k] EXCEPT !.available = TRUE],
                        [job[k] EXCEPT !.lease = "expired"]}
    BY <1>0, <1>6 DEF BackoffElapses, LeaseExpires
  <2>2. job'[k].status = job[k].status
    BY <1>0, <2>1 DEF JobRow
  <2> QED BY <1>0, <2>1, <2>2
<1>7. ASSUME NEW p \in Processes, Start(p)
      PROVE  Closed
  <2>1. event' = event
    BY <1>7 DEF Start
  <2>2. CASE k \in Expired
    <3>1. job[k].status = "processing" /\ job'[k] = Recovered(job[k])
      BY <1>7, <2>2 DEF Start, Expired
    <3>2. job'[k].status = "queued"
      BY <1>0, <3>1 DEF Recovered, JobRow
    <3> QED BY <1>0, <2>1, <3>1, <3>2
  <2>3. CASE k \notin Expired
    BY <1>0, <1>7, <2>1, <2>3 DEF Start
  <2> QED BY <2>2, <2>3
<1>8. ASSUME UNCHANGED <<job, event>>
      PROVE  Closed
  BY <1>0, <1>8
<1>9. QED
  BY <1>1, <1>2, <1>3, <1>4, <1>5, <1>6, <1>7, <1>8
     DEF Next, RequestStep, ThreadStep, ProcessStep, vars, SelectQueued,
         SnapshotUpdate, ClaimStatement, LoopCrash, SignalStop, Exit, Crash

\* In every deployment a job that ran to its end has a closed audit row, and
\* an audit row that reports success belongs to a completed job.
THEOREM EventsClose == Spec => []EventClosesWithJob
<1>1. Init => EventClosesWithJob
  BY DEF Init, EventClosesWithJob, NewRow
<1> QED BY <1>1, QueueInit, QueueStep, EventStep, PTL DEF Spec

-----------------------------------------------------------------------------
(* One worker process.                                                     *)

OneWorkerProcess == \A p, q \in Processes : p = q

\* The threads of a process that is down are gone.
DownIdle == \A t \in Threads : process[Home[t]] = "down" => thread[t].pc = "idle"

\* What a job needs is erased only when it is over.
ContextKept == \A j \in Jobs : Active(j) => ~job[j].wiped

ProcessInv == QueueInv /\ DownIdle /\ OneThreadPerJob /\ ContextKept

LEMMA DownIdleStep == TypeOK /\ DownIdle /\ [Next]_vars => DownIdle'
<1> SUFFICES ASSUME TypeOK, DownIdle, [Next]_vars, NEW t \in Threads,
                    process'[Home[t]] = "down"
             PROVE  thread'[t].pc = "idle"
  BY DEF DownIdle
<1>0. thread \in [Threads -> Thread] /\ Home[t] \in Processes
      /\ process \in [Processes -> {"up", "stopping", "down"}]
  BY JobQueueAssumption DEF TypeOK
<1>1. ASSUME NEW u \in Threads, ThreadStep(u)
      PROVE  thread'[t].pc = "idle"
  <2>1. process' = process
    BY <1>1 DEF ThreadStep, ClaimStatement, ClaimCommit, AckCompleted, AckRetry,
                AckFailed, Acknowledge, LoopCrash
  <2>2. thread[t].pc = "idle" /\ process[Home[t]] # "up"
    BY <2>1 DEF DownIdle
  <2> QED
    BY <1>0, <1>1, <2>2
       DEF ThreadStep, ClaimStatement, ClaimCommit, AckCompleted, AckRetry,
           AckFailed, Acknowledge, LoopCrash, IdleThread
<1>2. ASSUME NEW p \in Processes, ProcessStep(p)
      PROVE  thread'[t].pc = "idle"
  <2>1. CASE Exit(p) \/ Crash(p)
    BY <1>0, <2>1 DEF Exit, Crash, ThreadsGone, IdleThread, DownIdle
  <2>2. CASE SignalStop(p) \/ Start(p)
    BY <1>0, <2>2 DEF SignalStop, Start, DownIdle
  <2> QED BY <1>2, <2>1, <2>2 DEF ProcessStep
<1>3. ASSUME UNCHANGED <<thread, process>>
      PROVE  thread'[t].pc = "idle"
  BY <1>3 DEF DownIdle
<1> QED
  BY <1>1, <1>2, <1>3
     DEF Next, RequestStep, vars, Arrive, EnqueuePlain, SelectQueued,
         SnapshotUpdate, Commit, BackoffElapses, LeaseExpires

\* A row somebody holds stays in processing until the holder lets go of it.
LEMMA HeldRow ==
  ASSUME OneWorkerProcess, ProcessInv, [Next]_vars, NEW t \in Threads,
         Holding(t), thread'[t] = thread[t]
  PROVE  job'[thread[t].job].status = "processing"
<1>0. PICK k \in Jobs : k = thread[t].job
  BY ThreadTypes DEF ProcessInv, QueueInv, TypeOK, BusyThread, Holding
<1>1. TypeOK /\ HoldersCommitted /\ Committed(k) /\ job[k].status = "processing"
  BY <1>0 DEF ProcessInv, QueueInv, HoldersCommitted, Holding, OneThreadPerJob
<1>2. CASE RowKept(k)
  BY <1>0, <1>1, <1>2, RowFields DEF RowStep
<1>3. CASE RowReplaced(k)
  BY <1>1, <1>3 DEF RowReplaced, Superseding
<1>4. CASE RowClaimed(k)
  BY <1>1, <1>4 DEF RowClaimed, ClaimCommit, ProcessInv, QueueInv, LockedQueued
<1>5. CASE RowEnded(k)
  <2>1. PICK u \in Threads : thread[u].job = k
                             /\ (AckCompleted(u) \/ AckRetry(u) \/ AckFailed(u))
    BY <1>5 DEF RowEnded
  <2>2. Holding(u) /\ thread'[u] = IdleThread
    BY <1>1, <2>1 DEF AckCompleted, AckRetry, AckFailed, Acknowledge, TypeOK
  <2>3. u = t
    BY <1>0, <2>1, <2>2 DEF ProcessInv, OneThreadPerJob
  <2> QED BY <2>2, <2>3 DEF Holding, IdleThread
<1>6. CASE RowRecovered(k)
  <2>1. PICK p \in Processes : process[p] = "down"
    BY <1>6 DEF RowRecovered, Start
  <2>2. Home[t] = p
    BY JobQueueAssumption DEF OneWorkerProcess
  <2> QED BY <2>1, <2>2 DEF ProcessInv, DownIdle, Holding
<1> QED
  BY <1>0, <1>1, <1>2, <1>3, <1>4, <1>5, <1>6, CommittedRow DEF RowStep

LEMMA OneThreadStep ==
  ASSUME OneWorkerProcess, ProcessInv, [Next]_vars
  PROVE  OneThreadPerJob'
<1>0. TypeOK
  BY DEF ProcessInv, QueueInv
<1>1. ASSUME NEW t \in Threads, Holding(t)'
      PROVE  \/ Holding(t) /\ thread'[t] = thread[t]
             \/ /\ ClaimCommit(t) /\ thread'[t].job = thread[t].job
                /\ thread[t].pc = "claiming"
                /\ thread[t].job \in Jobs
                /\ \A u \in Threads \ {t} : thread'[u] = thread[u]
  <2>1. ClaimCommit(t) => thread[t].job \in Jobs
    BY <1>0, ThreadTypes DEF ClaimCommit, TypeOK, BusyThread
  <2> QED BY <1>0, <1>1, <2>1, ThreadSteps DEF Holding
<1>2. ASSUME NEW t \in Threads, Holding(t)'
      PROVE  job'[thread'[t].job].status = "processing"
  <2>1. CASE Holding(t) /\ thread'[t] = thread[t]
    BY <2>1, HeldRow
  <2>2. CASE ~(Holding(t) /\ thread'[t] = thread[t])
    <3>1. PICK k \in Jobs : k = thread[t].job /\ k = thread'[t].job /\ ClaimCommit(t)
      BY <1>1, <1>2, <2>2
    <3>2. job'[k] = Claimed(job[k]) /\ job[k] \in JobRow
      BY <1>0, <3>1 DEF ClaimCommit, TypeOK
    <3> QED BY <3>1, <3>2 DEF Claimed, JobRow
  <2> QED BY <2>1, <2>2
<1>3. ASSUME NEW t \in Threads, NEW u \in Threads, Holding(t)', Holding(u)', t # u,
             thread'[t].job = thread'[u].job, thread'[t] # thread[t]
      PROVE  FALSE
  <2>1. thread[t].pc = "claiming" /\ thread[u].job = thread[t].job /\ Holding(u)
    BY <1>1, <1>3 DEF Holding
  <2> QED BY <2>1 DEF ProcessInv, QueueInv, LockedQueued, OneThreadPerJob
<1>4. ASSUME NEW t \in Threads, NEW u \in Threads, Holding(t)', Holding(u)', t # u
      PROVE  thread'[t].job # thread'[u].job
  <2>1. CASE thread'[t] = thread[t] /\ thread'[u] = thread[u]
    BY <1>4, <2>1 DEF ProcessInv, OneThreadPerJob, Holding
  <2> QED BY <1>3, <1>4, <2>1
<1> QED BY <1>2, <1>4 DEF OneThreadPerJob, Holding

\* A row is only put back in the queue by who holds it, or by the recovery of
\* its lease.
LEMMA ActiveRow ==
  ASSUME QueueInv, OneThreadPerJob, [Next]_vars, NEW k \in Jobs, Committed(k),
         Active(k)'
  PROVE  Active(k) /\ job'[k].wiped = job[k].wiped
<1>a. TypeOK /\ HoldersCommitted /\ job[k] \in JobRow
  BY DEF QueueInv, TypeOK
<1>1. CASE RowKept(k)
  <2>1. job'[k].status = job[k].status /\ job'[k].wiped = job[k].wiped
    BY <1>a, <1>1, RowFields DEF RowStep
  <2> QED BY <2>1 DEF Active
<1>2. CASE RowReplaced(k)
  <2>1. job'[k].status = "superseded"
    BY <1>a, <1>2 DEF RowReplaced, Replaced, JobRow
  <2> QED BY <2>1 DEF Active
<1>3. CASE RowClaimed(k)
  <2>1. Active(k)
    BY <1>3 DEF RowClaimed, ClaimCommit, QueueInv, LockedQueued, Active
  <2>2. job'[k].wiped = job[k].wiped
    BY <1>a, <1>3 DEF RowClaimed, Claimed, JobRow
  <2> QED BY <2>1, <2>2
<1>4. CASE RowEnded(k)
  <2>1. Active(k)
    BY <1>4 DEF RowEnded, AckCompleted, AckRetry, AckFailed, Acknowledge,
                OneThreadPerJob, Active
  <2>2. job'[k] \in {Finished(job[k], "completed"), Retried(job[k]),
                     Finished(job[k], "failed")}
    BY <1>4 DEF RowEnded
  <2>3. CASE job'[k] = Retried(job[k])
    <3>1. job'[k].wiped = job[k].wiped
      BY <1>a, <2>3 DEF Retried, JobRow
    <3> QED BY <2>1, <3>1
  <2>4. CASE job'[k] # Retried(job[k])
    <3>1. job'[k].status \in {"completed", "failed"}
      BY <1>a, <2>2, <2>4 DEF Finished, JobRow
    <3> QED BY <3>1 DEF Active
  <2> QED BY <2>3, <2>4
<1>5. CASE RowRecovered(k)
  <2>1. Active(k)
    BY <1>5 DEF RowRecovered, Expired, Active
  <2>2. job'[k].wiped = job[k].wiped
    BY <1>a, <1>5 DEF RowRecovered, Recovered, JobRow
  <2> QED BY <2>1, <2>2
<1> QED
  BY <1>a, <1>1, <1>2, <1>3, <1>4, <1>5, CommittedRow DEF RowStep

LEMMA ContextStep ==
  ASSUME ProcessInv, [Next]_vars
  PROVE  ContextKept'
<1> SUFFICES ASSUME NEW k \in Jobs, Active(k)'
             PROVE  ~job'[k].wiped
  BY DEF ContextKept
<1>1. CASE ~Committed(k)
  BY <1>1, FreshRow DEF ProcessInv
<1>2. CASE Committed(k)
  BY <1>2, ActiveRow DEF ProcessInv, ContextKept
<1> QED BY <1>1, <1>2

LEMMA ProcessStepKeeps ==
  ASSUME OneWorkerProcess
  PROVE  ProcessInv /\ [Next]_vars => ProcessInv'
  BY QueueStep, DownIdleStep, OneThreadStep, ContextStep DEF ProcessInv, QueueInv

LEMMA ProcessInit == Init => ProcessInv
  BY QueueInit
     DEF Init, ProcessInv, DownIdle, OneThreadPerJob, ContextKept, Holding, Active,
         IdleThread, NewRow

\* With one worker process, however many threads it has and however often it
\* crashes, a job is in the hands of one thread, with its context, and claimed
\* within its budget.
THEOREM InTurn ==
  ASSUME OneWorkerProcess
  PROVE  Spec => []HandledInTurn
<1>1. ProcessInv /\ AttemptsBounded => HandledInTurn
  <2> SUFFICES ASSUME ProcessInv, NEW t \in Threads, Holding(t)
               PROVE  ~job[thread[t].job].wiped
    BY DEF HandledInTurn, HandlerHasContext, ProcessInv
  <2>1. thread[t].job \in Jobs
    BY ThreadTypes DEF ProcessInv, QueueInv, TypeOK, BusyThread, Holding
  <2> QED BY <2>1 DEF ProcessInv, OneThreadPerJob, ContextKept, Active
<1>2. Spec => []ProcessInv
  BY ProcessInit, ProcessStepKeeps, PTL DEF Spec
<1> QED BY <1>1, <1>2, AttemptsCounted, PTL

-----------------------------------------------------------------------------
(* Who comes to be under way.                                              *)

UnderWay(k) == InFlight(k) \/ Active(k)

\* A request that appears was sent by one caller, and is on its way or done.
LEMMA NewRequest ==
  ASSUME QueueInv, [Next]_vars, NEW k \in Jobs,
         request[k].pc = "absent", request'[k].pc # "absent"
  PROVE  \E o \in Origins, p \in Properties \cup {NoProperty} :
           /\ \/ Arrive(k, o, p) /\ request'[k].pc = "arrived"
              \/ EnqueuePlain(k, o, p) /\ request'[k].pc = "committed"
           /\ job'[k].origin = o /\ job'[k].property = p
           /\ \A i \in Jobs \ {k} : request'[i] = request[i] /\ job'[i] = job[i]
<1>0. /\ job \in [Jobs -> JobRow] /\ request \in [Jobs -> Request] /\ TypeOK
      /\ request[k] \in Request
  BY DEF QueueInv, TypeOK
<1>1. ASSUME NEW j \in Jobs, SelectQueued(j) \/ SnapshotUpdate(j) \/ Commit(j)
      PROVE  FALSE
  <2>1. j # k
    BY <1>1 DEF SelectQueued, SnapshotUpdate, Commit
  <2>2. request'[k] = request[k]
    BY <1>0, <1>1, <2>1 DEF SelectQueued, SnapshotUpdate, Commit
  <2> QED BY <2>2
<1>2. PICK j \in Jobs, o \in Origins, p \in Properties \cup {NoProperty} :
        Arrive(j, o, p) \/ EnqueuePlain(j, o, p)
  BY <1>1 DEF Next, RequestStep, ThreadStep, ProcessStep, vars, ClaimStatement,
              ClaimCommit, AckCompleted, AckRetry, AckFailed, Acknowledge,
              LoopCrash, BackoffElapses, LeaseExpires, SignalStop, Exit, Crash,
              Start
<1>3. j = k
  BY <1>0, <1>2 DEF Arrive, EnqueuePlain
<1>4. CASE Arrive(k, o, p)
  <2>1. job'[k] = NewRow(o, p) /\ request'[k].pc = "arrived"
        /\ \A i \in Jobs \ {k} : request'[i] = request[i] /\ job'[i] = job[i]
    BY <1>0, <1>4 DEF Arrive, Request
  <2>2. job'[k].origin = o /\ job'[k].property = p
    BY <2>1 DEF NewRow
  <2> QED BY <1>4, <2>1, <2>2
<1>5. CASE EnqueuePlain(k, o, p)
  <2>1. job'[k] = [NewRow(o, p) EXCEPT !.status = "queued"]
        /\ request'[k].pc = "committed"
        /\ \A i \in Jobs \ {k} : request'[i] = request[i] /\ job'[i] = job[i]
    BY <1>0, <1>5 DEF EnqueuePlain, Request
  <2>2. job'[k].origin = o /\ job'[k].property = p
    BY <2>1 DEF NewRow
  <2> QED BY <1>5, <2>1, <2>2
<1> QED BY <1>2, <1>3, <1>4, <1>5

\* Under way is what was under way, or a request that appears.
LEMMA UnderWayStep ==
  ASSUME QueueInv, OneThreadPerJob, [Next]_vars, NEW k \in Jobs, UnderWay(k)'
  PROVE  \/ /\ UnderWay(k)
            /\ job'[k].origin = job[k].origin
            /\ job'[k].property = job[k].property
         \/ \E o \in Origins, p \in Properties \cup {NoProperty} :
              /\ \/ Arrive(k, o, p) /\ request'[k].pc = "arrived"
                 \/ EnqueuePlain(k, o, p)
              /\ job'[k].origin = o /\ job'[k].property = p
              /\ \A i \in Jobs \ {k} : request'[i] = request[i] /\ job'[i] = job[i]
<1>0. TypeOK /\ HoldersCommitted /\ request[k] \in Request
  BY DEF QueueInv, TypeOK
<1>1. CASE Committed(k)
  <2>1. Committed(k)' /\ RowStep(k)
    BY <1>0, <1>1, CommittedRow
  <2>2. Active(k)'
    BY <2>1 DEF UnderWay, InFlight, Committed
  <2> QED BY <1>0, <1>1, <2>1, <2>2, ActiveRow, RowFields DEF UnderWay
<1>2. CASE InFlight(k)
  BY <1>2, FreshRow DEF UnderWay, InFlight, Committed
<1>3. CASE request[k].pc = "absent"
  <2>1. ~Committed(k)
    BY <1>3 DEF Committed
  <2>2. request'[k].pc # "absent"
    BY <2>1, FreshRow DEF UnderWay, InFlight, Active, Committed
  <2> QED BY <1>3, <2>2, NewRequest
<1> QED BY <1>0, <1>1, <1>2, <1>3 DEF Request, InFlight, Committed

-----------------------------------------------------------------------------
(* Approvals.                                                              *)

LEMMA ApproveStep ==
  ASSUME QueueInv, OneThreadPerJob, ApproveNeverStacks, [Next]_vars
  PROVE  ApproveNeverStacks'
<1> SUFFICES ASSUME NEW j \in Jobs, NEW k \in Jobs, j # k,
                    job'[j].origin = "approve", job'[k].origin = "approve",
                    SameProperty(j, k)', UnderWay(j)', UnderWay(k)'
             PROVE  FALSE
  BY DEF ApproveNeverStacks, UnderWay
<1>0. job'[j].property = job'[k].property /\ job'[j].property # NoProperty
  BY DEF SameProperty
\* Whoever arrives finds the other one's row lock or its active job.
<1>1. ASSUME NEW i \in Jobs, NEW l \in Jobs \ {i}, NEW p,
             Arrive(i, "approve", p), UnderWay(l), job[l].origin = "approve",
             job[l].property = p
      PROVE  FALSE
  <2>1. Admitted("approve", p)
    BY <1>1 DEF Arrive
  <2>2. CASE InFlight(l)
    BY <1>1, <2>1, <2>2 DEF Admitted, ReelRowLocked
  <2>3. CASE Active(l)
    BY <1>1, <2>1, <2>3 DEF Admitted, ActiveReelJob, IsReelJob, ReelOrigins
  <2> QED BY <1>1, <2>2, <2>3 DEF UnderWay
\* An approval is new only if it arrives, and then nobody else is new.
<1>2. ASSUME NEW i \in Jobs, UnderWay(i)', job'[i].origin = "approve"
      PROVE  \/ /\ UnderWay(i) /\ job[i].origin = "approve"
                /\ job'[i].property = job[i].property
             \/ /\ Arrive(i, "approve", job'[i].property)
                /\ \A l \in Jobs \ {i} : request'[l] = request[l] /\ job'[l] = job[l]
  BY <1>2, UnderWayStep DEF EnqueuePlain, PlainOrigins
<1>3. ASSUME NEW i \in Jobs, NEW l \in Jobs \ {i},
             Arrive(i, "approve", job'[i].property),
             \A m \in Jobs \ {i} : request'[m] = request[m] /\ job'[m] = job[m],
             UnderWay(l)', job'[l].origin = "approve",
             job'[i].property = job'[l].property
      PROVE  FALSE
  <2>1. UnderWay(l) /\ job[l].origin = "approve" /\ job[l].property = job'[i].property
    BY <1>3 DEF UnderWay, InFlight, Active
  <2> QED BY <1>1, <1>3, <2>1
<1>4. CASE UnderWay(j) /\ UnderWay(k) /\ job[j].origin = "approve"
           /\ job[k].origin = "approve" /\ job'[j].property = job[j].property
           /\ job'[k].property = job[k].property
  BY <1>0, <1>4 DEF ApproveNeverStacks, SameProperty, UnderWay
<1> QED BY <1>0, <1>2, <1>3, <1>4

\* With one worker process, double clicks on Approve on any number of API
\* instances never leave two approve jobs of a property under way.
THEOREM ApprovalsAlone ==
  ASSUME OneWorkerProcess
  PROVE  Spec => []ApproveNeverStacks
<1>1. Init => ApproveNeverStacks
  BY DEF Init, ApproveNeverStacks, NewRow
<1>2. ProcessInv /\ ApproveNeverStacks /\ [Next]_vars => ApproveNeverStacks'
  BY ApproveStep DEF ProcessInv
<1> QED BY <1>1, <1>2, ProcessInit, ProcessStepKeeps, PTL DEF Spec

-----------------------------------------------------------------------------
(* One worker thread.                                                      *)

OneWorkerThread == \A t, u \in Threads : t = u

\* Since its snapshot, no other job of the property went into processing.
ClaimReady ==
  \A t \in Threads : thread[t].pc = "claiming" =>
    \A k \in Jobs : job[k].status = "processing" => ~SameProperty(thread[t].job, k)

\* A row is in processing because it was, or because a thread claims it now.
LEMMA ProcessingRow ==
  ASSUME QueueInv, [Next]_vars, NEW k \in Jobs, job'[k].status = "processing"
  PROVE  /\ job'[k].property = job[k].property
         /\ \/ job[k].status = "processing"
            \/ \E t \in Threads : ClaimCommit(t) /\ thread[t].job = k
<1>a. TypeOK /\ HoldersCommitted /\ job[k] \in JobRow
  BY DEF QueueInv, TypeOK
<1>1. Committed(k)
  <2>1. ASSUME ~Committed(k) PROVE job'[k].status \in {"absent", "queued"}
    BY <2>1, FreshRow
  <2> QED BY <2>1
<1>2. RowStep(k)
  BY <1>a, <1>1, CommittedRow
<1>3. RowKept(k) => job[k].status = "processing"
  BY <1>a, <1>2, RowFields
<1>4. ~RowReplaced(k)
  BY <1>a DEF RowReplaced, Replaced, JobRow
<1>5. ~RowEnded(k)
  <2>1. ASSUME RowEnded(k)
        PROVE  job'[k] \in {Finished(job[k], "completed"), Retried(job[k]),
                            Finished(job[k], "failed")}
    BY <2>1 DEF RowEnded
  <2> QED BY <1>a, <2>1 DEF Finished, Retried, JobRow
<1>6. ~RowRecovered(k)
  BY <1>a DEF RowRecovered, Recovered, JobRow
<1> QED
  BY <1>a, <1>2, <1>3, <1>4, <1>5, <1>6, RowFields DEF RowStep, RowClaimed

LEMMA ClaimReadyStep ==
  ASSUME OneWorkerThread, QueueInv, ClaimReady, [Next]_vars
  PROVE  ClaimReady'
<1> SUFFICES ASSUME NEW t \in Threads, thread'[t].pc = "claiming",
                    NEW k \in Jobs, job'[k].status = "processing"
             PROVE  ~(/\ job'[thread'[t].job].property = job'[k].property
                      /\ job'[thread'[t].job].property # NoProperty)
  BY DEF ClaimReady, SameProperty
<1>a. TypeOK /\ HoldersCommitted
  BY DEF QueueInv
<1>1. CASE thread'[t] = thread[t]
  <2>1. PICK j \in Jobs : j = thread[t].job /\ thread[t].pc = "claiming"
    BY <1>a, <1>1, ThreadTypes DEF TypeOK, BusyThread
  <2>2. ~ClaimCommit(t)
    BY <1>a, <1>1, <2>1 DEF ClaimCommit, TypeOK
  <2>3. job[k].status = "processing" /\ job'[k].property = job[k].property
    BY <2>2, ProcessingRow DEF OneWorkerThread
  <2>4. job'[j].property = job[j].property
    BY <1>a, <2>1, CommittedRow, RowFields DEF HoldersCommitted
  <2> QED BY <1>1, <2>1, <2>3, <2>4 DEF ClaimReady, SameProperty
<1>2. CASE thread'[t] # thread[t]
  <2>1. PICK j \in Jobs : ClaimStatement(t, j) /\ thread'[t].job = j
    BY <1>2, ClaimersStep
  <2>2. job' = job /\ Claimable(j)
    BY <2>1 DEF ClaimStatement
  <2> QED BY <2>1, <2>2 DEF Claimable, SameProperty
<1> QED BY <1>1, <1>2

LEMMA SerializedStep ==
  ASSUME OneWorkerThread, QueueInv, ClaimReady, PropertySerialized, [Next]_vars
  PROVE  PropertySerialized'
<1> SUFFICES ASSUME NEW j \in Jobs, NEW k \in Jobs, j # k,
                    job'[j].status = "processing", job'[k].status = "processing"
             PROVE  ~SameProperty(j, k)'
  BY DEF PropertySerialized
<1>1. /\ job'[j].property = job[j].property
      /\ job'[k].property = job[k].property
  BY ProcessingRow
<1>2. CASE job[j].status = "processing" /\ job[k].status = "processing"
  BY <1>1, <1>2 DEF PropertySerialized, SameProperty
<1>3. ASSUME NEW i \in Jobs, NEW l \in Jobs \ {i},
             job'[i].status = "processing", job'[l].status = "processing",
             job[i].status # "processing"
      PROVE  ~SameProperty(i, l)
  <2>1. PICK t \in Threads : ClaimCommit(t) /\ thread[t].job = i
    BY <1>3, ProcessingRow
  <2>2. job[l].status = "processing"
    BY <1>3, <2>1, ProcessingRow DEF OneWorkerThread
  <2> QED BY <2>1, <2>2 DEF ClaimCommit, ClaimReady
<1> QED BY <1>1, <1>2, <1>3 DEF SameProperty

\* One worker thread never has two jobs of a property in processing, although
\* the claim's look at the table and its commit are two steps.
THEOREM Serialized ==
  ASSUME OneWorkerThread
  PROVE  Spec => []PropertySerialized
<1>1. Init => ClaimReady /\ PropertySerialized
  BY DEF Init, ClaimReady, PropertySerialized, NewRow, IdleThread
<1>2. /\ QueueInv /\ ClaimReady /\ PropertySerialized /\ [Next]_vars
           => (ClaimReady /\ PropertySerialized)'
  BY ClaimReadyStep, SerializedStep
<1> QED BY <1>1, <1>2, QueueInit, QueueStep, PTL DEF Spec

-----------------------------------------------------------------------------
(* One API process.                                                        *)

\* Its endpoints never await inside a transaction, so one is open at a time,
\* and only notification e-mails are inserted meanwhile.
OneInFlight == \A j, k \in Jobs : InFlight(j) /\ InFlight(k) => j = k

IdsInOrder == \A j, k \in Jobs :
                j < k /\ request[k].pc # "absent" => request[j].pc # "absent"

NewestInFlight ==
  \A j, k \in Jobs : InFlight(j) /\ j < k
                       => request[k].pc = "absent" \/ job[k].origin = "email"

\* A row nobody asked for has no caller.
NoCaller == \A j \in Jobs : request[j].pc = "absent" => job[j].origin = "none"

ApiInv == OneInFlight /\ IdsInOrder /\ NewestInFlight /\ NoCaller

LEMMA NobodyInFlight ==
  ASSUME ApiProcesses = 1, LoopFree
  PROVE  \A k \in Jobs : ~InFlight(k)
<1> DEFINE S == {k \in Jobs : InFlight(k)}
<1>1. IsFiniteSet(Jobs)
  BY FS_Interval, JobQueueAssumption
<1>2. IsFiniteSet(S)
  BY <1>1, FS_Subset
<1>3. Cardinality(S) < 1
  BY DEF LoopFree
<1>4. Cardinality(S) \in Nat
  BY <1>2, FS_CardinalityType
<1>5. Cardinality(S) = 0
  BY <1>3, <1>4
<1>6. S = {}
  BY <1>2, <1>5, FS_EmptySet
<1> QED BY <1>6

\* A request that is there stays there, in flight or committed.
LEMMA RequestStays ==
  ASSUME QueueInv, [Next]_vars, NEW k \in Jobs
  PROVE  /\ request[k].pc # "absent" => request'[k].pc # "absent"
         /\ request[k].pc # "absent" => job'[k].origin = job[k].origin
         /\ InFlight(k)' => \/ InFlight(k)
                            \/ request[k].pc = "absent"
<1>a. TypeOK /\ HoldersCommitted /\ request[k] \in Request
  BY DEF QueueInv, TypeOK
<1>1. CASE Committed(k)
  BY <1>a, <1>1, CommittedRow, RowFields DEF Committed, InFlight
<1>2. CASE InFlight(k)
  <2>1. job'[k].origin = job[k].origin
    BY <1>2, FreshRow DEF InFlight, Committed
  <2>2. request'[k].pc # "absent"
    <3>1. ASSUME NEW j \in Jobs, SelectQueued(j)
          PROVE  request'[k].pc # "absent"
      <4>1. CASE j = k
        BY <1>a, <3>1, <4>1, SelectRequest
      <4>2. CASE j # k
        BY <1>a, <1>2, <3>1, <4>2, SelectRequest DEF InFlight
      <4> QED BY <4>1, <4>2
    <3>2. ASSUME NEW j \in Jobs, SnapshotUpdate(j)
          PROVE  request'[k].pc # "absent"
      <4>1. CASE j = k
        BY <1>a, <3>2, <4>1 DEF SnapshotUpdate, TypeOK, Request
      <4>2. CASE j # k
        BY <1>a, <1>2, <3>2, <4>2 DEF SnapshotUpdate, TypeOK, InFlight
      <4> QED BY <4>1, <4>2
    <3>3. ASSUME NEW j \in Jobs, Commit(j)
          PROVE  request'[k].pc # "absent"
      BY <1>a, <1>2, <3>3 DEF Commit, TypeOK, InFlight
    <3>4. ASSUME NEW j \in Jobs, NEW o \in Origins,
                 NEW p \in Properties \cup {NoProperty},
                 Arrive(j, o, p) \/ EnqueuePlain(j, o, p)
          PROVE  request'[k].pc # "absent"
      <4>1. j # k
        BY <1>2, <3>4 DEF Arrive, EnqueuePlain, IsNextJob, InFlight
      <4> QED BY <1>a, <1>2, <3>4, <4>1 DEF Arrive, EnqueuePlain, TypeOK, InFlight
    <3>5. ASSUME UNCHANGED request
          PROVE  request'[k].pc # "absent"
      BY <1>2, <3>5 DEF InFlight
    <3> QED
      BY <3>1, <3>2, <3>3, <3>4, <3>5
         DEF Next, RequestStep, ThreadStep, ProcessStep, vars, ClaimStatement,
             ClaimCommit, AckCompleted, AckRetry, AckFailed, Acknowledge,
             LoopCrash, BackoffElapses, LeaseExpires, SignalStop, Exit, Crash,
             Start
  <2> QED BY <1>2, <2>1, <2>2
<1>3. CASE request[k].pc = "absent"
  BY <1>3
<1> QED BY <1>a, <1>1, <1>2, <1>3 DEF Request, InFlight, Committed

\* What is new while a request is in flight is an e-mail.
LEMMA NewIsEmail ==
  ASSUME ApiProcesses = 1, QueueInv, [Next]_vars, NEW j \in Jobs, InFlight(j),
         NEW k \in Jobs, request[k].pc = "absent", request'[k].pc # "absent"
  PROVE  /\ job'[k].origin = "email" /\ request'[k].pc = "committed"
         /\ request'[j] = request[j]
<1>1. j # k
  BY DEF InFlight
<1>2. PICK o \in Origins, p \in Properties \cup {NoProperty} :
        /\ \/ Arrive(k, o, p) /\ request'[k].pc = "arrived"
           \/ EnqueuePlain(k, o, p) /\ request'[k].pc = "committed"
        /\ job'[k].origin = o /\ job'[k].property = p
        /\ \A i \in Jobs \ {k} : request'[i] = request[i] /\ job'[i] = job[i]
  BY NewRequest
<1>3. ~LoopFree
  BY NobodyInFlight
<1> QED BY <1>1, <1>2, <1>3 DEF Arrive, EnqueuePlain, PlainOrigins

\* Above a request that arrives there is nothing.
LEMMA ArrivesLast ==
  ASSUME IdsInOrder, NEW j \in Jobs, request[j].pc = "absent"
  PROVE  \A k \in Jobs : j < k => request[k].pc = "absent"
  BY DEF IdsInOrder

\* A row nobody asked for yet is left alone.
LEMMA AbsentRow ==
  ASSUME QueueInv, [Next]_vars, NEW k \in Jobs, request'[k].pc = "absent",
         request[k].pc = "absent"
  PROVE  job'[k].origin = job[k].origin
<1>0. /\ job \in [Jobs -> JobRow] /\ request \in [Jobs -> Request]
      /\ job[k] \in JobRow /\ job[k].status = "absent" /\ request[k] \in Request
      /\ \A t \in Threads : thread[t].pc # "idle" => thread[t].job # k
  BY DEF QueueInv, TypeOK, FreshRows, HoldersCommitted, Committed
<1>1. ASSUME NEW j \in Jobs, RequestStep(j)
      PROVE  job'[k] = job[k]
  <2>1. CASE SelectQueued(j) \/ SnapshotUpdate(j)
    BY <2>1 DEF SelectQueued, SnapshotUpdate
  <2>2. CASE Commit(j)
    BY <1>0, <2>2 DEF Commit, RowsAfter, Superseding
  <2>3. ASSUME NEW o \in Origins, NEW p \in Properties \cup {NoProperty},
               Arrive(j, o, p) \/ EnqueuePlain(j, o, p)
        PROVE  job'[k] = job[k]
    <3>1. PICK pc \in {"arrived", "committed"} :
            request' = [request EXCEPT ![j].pc = pc]
      BY <2>3 DEF Arrive, EnqueuePlain
    <3>2. j # k
      BY <1>0, <3>1 DEF Request
    <3> QED BY <1>0, <2>3, <3>2 DEF Arrive, EnqueuePlain
  <2> QED BY <1>1, <2>1, <2>2, <2>3 DEF RequestStep
<1>2. ASSUME NEW t \in Threads, ThreadStep(t)
      PROVE  job'[k] = job[k]
  BY <1>0, <1>2
     DEF ThreadStep, ClaimStatement, ClaimCommit, AckCompleted, AckRetry,
         AckFailed, Acknowledge, LoopCrash, Holding
<1>3. ASSUME NEW j \in Jobs, BackoffElapses(j) \/ LeaseExpires(j)
      PROVE  job'[k].origin = job[k].origin
  <2>1. job'[k] \in {job[k], [job[k] EXCEPT !.available = TRUE],
                     [job[k] EXCEPT !.lease = "expired"]}
    BY <1>0, <1>3 DEF BackoffElapses, LeaseExpires
  <2> QED BY <1>0, <2>1 DEF JobRow
<1>4. ASSUME NEW p \in Processes, ProcessStep(p)
      PROVE  job'[k] = job[k]
  BY <1>0, <1>4 DEF ProcessStep, SignalStop, Exit, Crash, Start, Expired
<1> QED BY <1>1, <1>2, <1>3, <1>4 DEF Next, vars

LEMMA ApiStep ==
  ASSUME ApiProcesses = 1, QueueInv, ApiInv, [Next]_vars
  PROVE  ApiInv'
<1>1. OneInFlight'
  <2> SUFFICES ASSUME NEW j \in Jobs, NEW k \in Jobs, InFlight(j)', InFlight(k)', j # k
               PROVE  FALSE
    BY DEF OneInFlight
  <2>1. ~(InFlight(j) /\ InFlight(k))
    BY DEF ApiInv, OneInFlight
  <2>2. ASSUME NEW i \in Jobs, NEW l \in Jobs, InFlight(i), InFlight(i)',
               InFlight(l)', request[l].pc = "absent"
        PROVE  FALSE
    <3>1. request'[l].pc # "absent"
      BY <2>2 DEF InFlight
    <3>2. request'[l].pc = "committed"
      BY <2>2, <3>1, NewIsEmail
    <3> QED BY <2>2, <3>2 DEF InFlight
  <2>3. CASE request[j].pc = "absent" /\ request[k].pc = "absent"
    <3>1. request'[j].pc # "absent" /\ request'[k].pc # "absent"
      BY DEF InFlight
    <3>2. \A i \in Jobs \ {j} : request'[i] = request[i]
      BY <2>3, <3>1, NewRequest
    <3> QED BY <2>3, <3>1, <3>2
  <2> QED BY <2>1, <2>2, <2>3, RequestStays
<1>2. IdsInOrder'
  <2> SUFFICES ASSUME NEW j \in Jobs, NEW k \in Jobs, j < k,
                      request'[k].pc # "absent"
               PROVE  request'[j].pc # "absent"
    BY DEF IdsInOrder
  <2>1. CASE request[k].pc # "absent"
    BY <2>1, RequestStays DEF ApiInv, IdsInOrder
  <2>2. CASE request[k].pc = "absent"
    <3>1. IsNextJob(k)
      BY <2>2, NewRequest DEF Arrive, EnqueuePlain
    <3> QED BY <3>1, RequestStays DEF IsNextJob
  <2> QED BY <2>1, <2>2
<1>3. NewestInFlight'
  <2> SUFFICES ASSUME NEW j \in Jobs, NEW k \in Jobs, InFlight(j)', j < k,
                      request'[k].pc # "absent"
               PROVE  job'[k].origin = "email"
    BY DEF NewestInFlight, InFlight
  <2>1. CASE InFlight(j) /\ request[k].pc # "absent"
    BY <2>1, RequestStays DEF ApiInv, NewestInFlight
  <2>2. CASE InFlight(j) /\ request[k].pc = "absent"
    BY <2>2, NewIsEmail
  <2>3. CASE request[j].pc = "absent"
    <3>1. request[k].pc = "absent"
      BY <2>3, ArrivesLast DEF ApiInv
    <3>2. request'[j].pc # "absent" /\ j # k
      BY DEF InFlight
    <3>3. request'[k] = request[k]
      BY <2>3, <3>2, NewRequest
    <3> QED BY <3>1, <3>3
  <2> QED BY <2>1, <2>2, <2>3, RequestStays
<1>4. NoCaller'
  <2> SUFFICES ASSUME NEW k \in Jobs, request'[k].pc = "absent"
               PROVE  job'[k].origin = "none"
    BY DEF NoCaller
  <2>1. request[k].pc = "absent"
    BY RequestStays
  <2>2. job[k].origin = "none" /\ ~Committed(k)
    BY <2>1 DEF ApiInv, NoCaller, Committed
  <2>3. job'[k].origin = job[k].origin
    BY <2>1, <2>2, AbsentRow
  <2> QED BY <2>2, <2>3
<1> QED BY <1>1, <1>2, <1>3, <1>4 DEF ApiInv

LEMMA ApiInit == Init => ApiInv
  BY DEF Init, ApiInv, OneInFlight, IdsInOrder, NewestInFlight, NoCaller, InFlight,
         NewRow

\* The job that replaced another was requested after it, but for a
\* notification e-mail's job.
ReplacedByNewer ==
  \A j \in Jobs : job[j].status = "superseded"
                    => j < job[j].supersededBy \/ job[j].origin = "email"

LEMMA ReplacedStep ==
  ASSUME QueueInv, ApiInv, ReplacedByNewer, [Next]_vars
  PROVE  ReplacedByNewer'
<1> SUFFICES ASSUME NEW k \in Jobs, job'[k].status = "superseded"
             PROVE  k < job'[k].supersededBy \/ job'[k].origin = "email"
  BY DEF ReplacedByNewer
<1>a. TypeOK /\ HoldersCommitted /\ job[k] \in JobRow
  BY DEF QueueInv, TypeOK
<1>1. Committed(k)
  <2>1. ASSUME ~Committed(k) PROVE job'[k].status \in {"absent", "queued"}
    BY <2>1, FreshRow
  <2> QED BY <2>1
<1>2. RowStep(k) /\ job'[k].origin = job[k].origin
  BY <1>a, <1>1, CommittedRow, RowFields
<1>3. CASE RowKept(k)
  BY <1>a, <1>2, <1>3, RowFields DEF ReplacedByNewer
<1>4. CASE RowReplaced(k)
  <2>1. PICK j \in Jobs \ {k} : /\ k \in Superseding(j)
                                /\ job'[k] = Replaced(job[k], j)
    BY <1>4 DEF RowReplaced
  <2>2. InFlight(j)
    BY <2>1 DEF Superseding, QueueInv, TargetsMatch
  <2>3. j < k => job[k].origin = "email"
    BY <1>1, <2>2 DEF ApiInv, NewestInFlight, Committed
  <2>4. job'[k].supersededBy = j
    BY <1>a, <2>1 DEF Replaced, JobRow
  <2>5. j \in Int /\ k \in Int /\ j # k
    BY JobQueueAssumption
  <2> QED BY <1>2, <2>3, <2>4, <2>5
<1>5. CASE RowClaimed(k) \/ RowEnded(k) \/ RowRecovered(k)
  <2>1. job'[k] \in {Claimed(job[k]), Finished(job[k], "completed"),
                     Retried(job[k]), Finished(job[k], "failed"),
                     Recovered(job[k])}
    BY <1>5 DEF RowClaimed, RowEnded, RowRecovered
  <2> QED BY <1>a, <2>1 DEF Claimed, Finished, Retried, Recovered, JobRow
<1> QED BY <1>2, <1>3, <1>4, <1>5 DEF RowStep

\* With one API process, a job is superseded by a job requested after it; only
\* a notification e-mail, which the worker inserts without asking that
\* process, may be superseded by an older request.
THEOREM NewerReplace ==
  ASSUME ApiProcesses = 1
  PROVE  Spec => []ReplacedByNewer
<1>1. Init => ReplacedByNewer
  BY DEF Init, ReplacedByNewer, NewRow
<1> QED
  BY <1>1, ApiInit, ApiStep, ReplacedStep, QueueInit, QueueStep, PTL DEF Spec

\* So where no e-mails are sent last_error is right: the newer job replaces
\* the older one.
THEOREM NewerReplaceOlder ==
  ASSUME ApiProcesses = 1, "email" \notin Origins
  PROVE  Spec => []SupersededByNewer
<1>1. TypeOK /\ ReplacedByNewer => SupersededByNewer
  BY DEF TypeOK, JobRow, ReplacedByNewer, SupersededByNewer
<1> QED BY <1>1, TypeCorrect, NewerReplace, PTL

-----------------------------------------------------------------------------
(* Manual regenerations, with one API process and one worker process.      *)

ManualAlone ==
  \A j \in Jobs : InFlight(j) /\ job[j].origin = "manual"
                    => ~ActiveReelJob(job[j].property)

LEMMA ManualStep ==
  ASSUME QueueInv, OneThreadPerJob, ApiInv, ManualAlone, [Next]_vars
  PROVE  ManualAlone'
<1> SUFFICES ASSUME NEW j \in Jobs, InFlight(j)', job'[j].origin = "manual",
                    NEW k \in Jobs, Active(k)', IsReelJob(k)',
                    job'[k].property = job'[j].property
             PROVE  FALSE
  BY DEF ManualAlone, ActiveReelJob
<1>1. CASE InFlight(j)
  <2>1. job[j].origin = "manual" /\ job[j].property = job'[j].property
    BY <1>1, FreshRow DEF InFlight, Committed
  <2>2. CASE Committed(k)
    <3>1. Active(k)
      BY <2>2, ActiveRow
    <3>2. job'[k].origin = job[k].origin /\ job'[k].property = job[k].property
      BY <2>2, CommittedRow, RowFields DEF QueueInv
    <3> QED BY <1>1, <2>1, <3>1, <3>2 DEF ManualAlone, ActiveReelJob, IsReelJob
  <2>3. CASE ~Committed(k)
    <3>1. Committed(k)'
      BY <2>3, FreshRow DEF Active
    <3>2. CASE Commit(k)
      <4>1. InFlight(k)
        BY <3>2 DEF Commit, InFlight
      <4>2. k = j
        BY <1>1, <4>1 DEF ApiInv, OneInFlight
      <4> QED BY <3>1, <4>2 DEF InFlight, Committed
    <3>3. CASE ~Commit(k)
      <4>1. job'[k].origin \in PlainOrigins
        BY <2>3, <3>1, <3>3, FreshRow DEF EnqueuePlain
      <4> QED BY <4>1 DEF IsReelJob, ReelOrigins, PlainOrigins
    <3> QED BY <3>2, <3>3
  <2> QED BY <2>2, <2>3
<1>2. CASE request[j].pc = "absent"
  <2>1. request'[j].pc # "absent" /\ request'[j].pc # "committed"
    BY DEF InFlight
  <2>2. PICK o \in Origins, p \in Properties \cup {NoProperty} :
          /\ Arrive(j, o, p) /\ job'[j].origin = o /\ job'[j].property = p
          /\ \A i \in Jobs \ {j} : request'[i] = request[i] /\ job'[i] = job[i]
    BY <1>2, <2>1, NewRequest
  <2>3. ~ActiveReelJob(p)
    BY <2>2 DEF Arrive, Admitted
  <2>4. k # j
    <3>1. ~Committed(j) /\ ~Committed(j)'
      BY <1>2, <2>1 DEF Committed
    <3>2. job'[j].status = "absent"
      BY <3>1, FreshRow
    <3> QED BY <3>2 DEF Active
  <2> QED BY <2>2, <2>3, <2>4 DEF ActiveReelJob, Active, IsReelJob
<1> QED BY <1>1, <1>2, RequestStays

\* With one API process and one worker process a manual regenerate never
\* stacks its job behind an active one of its property.
THEOREM ManualNeverBehind ==
  ASSUME ApiProcesses = 1, OneWorkerProcess
  PROVE  Spec => ManualNeverStacks
<1>1. Init => ManualAlone
  BY DEF Init, ManualAlone, InFlight
<1>2. /\ ProcessInv /\ ApiInv /\ ManualAlone /\ [Next]_vars
         => (ApiInv /\ ManualAlone)'
  BY ApiStep, ManualStep DEF ProcessInv
<1>3. ASSUME ProcessInv, ApiInv, ManualAlone, [Next]_vars
      PROVE  \A j \in Jobs :
               job[j].origin = "manual" /\ ~Committed(j)
                 /\ request'[j].pc = "committed"
               => ~ActiveReelJob(job[j].property)
  <2> SUFFICES ASSUME NEW j \in Jobs, job[j].origin = "manual", ~Committed(j)
               PROVE  InFlight(j)
    BY <1>3 DEF ManualAlone
  <2>1. request[j] \in Request
    BY <1>3 DEF ProcessInv, QueueInv, TypeOK
  <2> QED BY <1>3, <2>1 DEF ApiInv, NoCaller, Request, InFlight, Committed
<1> QED
  BY <1>1, <1>2, <1>3, ApiInit, ProcessInit, ProcessStepKeeps, PTL
     DEF Spec, ManualNeverStacks

-----------------------------------------------------------------------------
(* One worker process with one thread implements PropertyQueue.            *)

LEMMA PhaseOf ==
  ASSUME NEW row \in JobRow
  PROVE  /\ row.status = "absent" <=> Phase(row) = "absent"
         /\ row.status = "queued" <=> Phase(row) = "waiting"
         /\ row.status = "processing" <=> Phase(row) = "running"
         /\ row.status = "superseded" <=> Phase(row) = "replaced"
         /\ row.status \in {"completed", "failed"} <=> Phase(row) = "ended"
         /\ row.status # "absent" => About(row) = row.property
         /\ row.status = "absent" => About(row) = NoProperty
  BY DEF Phase, About, JobRow, JobStatuses

RefinementInv ==
  ProcessInv /\ ClaimReady /\ PropertySerialized

\* A step that changes no row's status, and no property of a committed row, is
\* none of the promised queue.
LEMMA QueueStutters ==
  ASSUME TypeOK, TypeOK',
         \A k \in Jobs : /\ job'[k].status = job[k].status
                         /\ job[k].status # "absent"
                              => job'[k].property = job[k].property
  PROVE  UNCHANGED Queue!vars
<1>1. ASSUME NEW k \in Jobs
      PROVE  Phase(job'[k]) = Phase(job[k]) /\ About(job'[k]) = About(job[k])
  BY DEF Phase, About
<1> QED BY <1>1 DEF Queue!vars, PhaseOfJob, PropertyOfJob

\* A step that keeps the properties and changes one row's status.
LEMMA RowMoves ==
  ASSUME TypeOK, NEW j \in Jobs,
         job[j].status # "absent", job'[j].status # "absent",
         job'[j].property = job[j].property,
         \A k \in Jobs \ {j} : job'[k] = job[k]
  PROVE  /\ PhaseOfJob' = [PhaseOfJob EXCEPT ![j] = Phase(job'[j])]
         /\ PropertyOfJob' = PropertyOfJob
<1>1. ASSUME NEW k \in Jobs
      PROVE  /\ Phase(job'[k]) = (IF k = j THEN Phase(job'[j]) ELSE Phase(job[k]))
             /\ About(job'[k]) = About(job[k])
  BY DEF About
<1> QED BY <1>1 DEF PhaseOfJob, PropertyOfJob

\* The property of every committed row is the one the promised queue knows.
LEMMA KnownAbout ==
  ASSUME TypeOK, NEW k \in Jobs
  PROVE  /\ PhaseOfJob[k] = Phase(job[k]) /\ PropertyOfJob[k] = About(job[k])
         /\ job[k] \in JobRow
  BY DEF PhaseOfJob, PropertyOfJob, TypeOK

LEMMA ClaimRuns ==
  ASSUME RefinementInv, TypeOK', NEW t \in Threads, ClaimCommit(t), [Next]_vars
  PROVE  \E j \in Jobs : Queue!Run(j)
<1>a. TypeOK /\ HoldersCommitted
  BY DEF RefinementInv, ProcessInv, QueueInv
<1>1. PICK j \in Jobs : j = thread[t].job
  BY <1>a, ThreadTypes DEF ClaimCommit, TypeOK, BusyThread
<1>2. job[j].status = "queued" /\ job[j] \in JobRow
  BY <1>a, <1>1 DEF ClaimCommit, TypeOK, RefinementInv, ProcessInv, QueueInv,
                    LockedQueued
<1>3. job'[j] = Claimed(job[j]) /\ \A k \in Jobs \ {j} : job'[k] = job[k]
  BY <1>a, <1>1 DEF ClaimCommit, TypeOK
<1>4. job'[j].status = "processing" /\ job'[j].property = job[j].property
  BY <1>2, <1>3 DEF Claimed, JobRow
<1>5. Phase(job'[j]) = "running"
  BY <1>4 DEF Phase
<1>6. PropertyOfJob' = PropertyOfJob
  BY <1>a, <1>2, <1>3, <1>4, RowMoves
<1>7. PhaseOfJob' = [PhaseOfJob EXCEPT ![j] = "running"]
  BY <1>a, <1>2, <1>3, <1>4, <1>5, RowMoves
<1>8. PhaseOfJob[j] = "waiting"
  BY <1>a, <1>2, KnownAbout, PhaseOf
<1>9. ASSUME NEW k \in Jobs, k \in Queue!About(PropertyOfJob[j])
      PROVE  PhaseOfJob[k] # "running"
  <2>1. PropertyOfJob[k] = PropertyOfJob[j] /\ PropertyOfJob[j] # NoProperty
    BY <1>9 DEF Queue!About
  <2>2. PropertyOfJob[j] = job[j].property
    BY <1>a, <1>2, KnownAbout, PhaseOf
  <2>3. PhaseOfJob[k] = "running" => /\ job[k].status = "processing"
                                     /\ PropertyOfJob[k] = job[k].property
    BY <1>a, KnownAbout, PhaseOf
  <2>4. job[k].status = "processing" => ~SameProperty(j, k)
    BY <1>1 DEF RefinementInv, ClaimReady, ClaimCommit
  <2> QED BY <2>1, <2>2, <2>3, <2>4 DEF SameProperty
<1>10. Queue!About(PropertyOfJob[j]) \subseteq Jobs
  BY DEF Queue!About
<1> QED BY <1>6, <1>7, <1>8, <1>9, <1>10 DEF Queue!Run

LEMMA AckMoves ==
  ASSUME RefinementInv, TypeOK', NEW t \in Threads,
         AckCompleted(t) \/ AckRetry(t) \/ AckFailed(t), [Next]_vars
  PROVE  (\E j \in Jobs : Queue!End(j)) \/ Queue!Requeue
<1>a. TypeOK /\ Holding(t)
  BY DEF RefinementInv, ProcessInv, QueueInv, AckCompleted, AckRetry, AckFailed,
         Acknowledge
<1>1. PICK j \in Jobs : j = thread[t].job
  BY <1>a, ThreadTypes DEF Holding, TypeOK, BusyThread
<1>2. job[j].status = "processing" /\ job[j] \in JobRow
  BY <1>a, <1>1 DEF TypeOK, RefinementInv, ProcessInv, OneThreadPerJob
<1>3. /\ job'[j] \in {Finished(job[j], "completed"), Retried(job[j]),
                      Finished(job[j], "failed")}
      /\ \A k \in Jobs \ {j} : job'[k] = job[k]
  BY <1>a, <1>1 DEF AckCompleted, AckRetry, AckFailed, Acknowledge, TypeOK
<1>4. job'[j].property = job[j].property
      /\ job'[j].status \in {"completed", "queued", "failed"}
  BY <1>2, <1>3 DEF Finished, Retried, JobRow
<1>5. PhaseOfJob[j] = "running"
  BY <1>a, <1>2, KnownAbout, PhaseOf
<1>6. /\ PhaseOfJob' = [PhaseOfJob EXCEPT ![j] = Phase(job'[j])]
      /\ PropertyOfJob' = PropertyOfJob
  BY <1>a, <1>2, <1>3, <1>4, RowMoves
<1>7. CASE job'[j].status = "queued"
  <2>1. Phase(job'[j]) = "waiting"
    BY <1>7 DEF Phase
  <2>2. {j} \in SUBSET {k \in Jobs : PhaseOfJob[k] = "running"}
    BY <1>5
  <2>3. PhaseOfJob' = [k \in Jobs |-> IF k \in {j} THEN "waiting" ELSE PhaseOfJob[k]]
    BY <1>6, <2>1 DEF PhaseOfJob
  <2> QED BY <1>6, <2>2, <2>3 DEF Queue!Requeue
<1>8. CASE job'[j].status # "queued"
  <2>1. Phase(job'[j]) = "ended"
    BY <1>4, <1>8 DEF Phase
  <2>2. PhaseOfJob' = [PhaseOfJob EXCEPT ![j] = "ended"]
    BY <1>6, <2>1
  <2> QED BY <1>5, <1>6, <2>1, <2>2 DEF Queue!End
<1> QED BY <1>7, <1>8

LEMMA StartRequeues ==
  ASSUME TypeOK, TypeOK', NEW p \in Processes, Start(p)
  PROVE  Queue!Requeue
<1>1. ASSUME NEW k \in Jobs, k \in Expired
      PROVE  /\ job[k].status = "processing" /\ job'[k].status = "queued"
             /\ job'[k].property = job[k].property
             /\ Phase(job'[k]) = "waiting" /\ PhaseOfJob[k] = "running"
  <2>1. job'[k] = Recovered(job[k]) /\ job[k].status = "processing"
        /\ job[k] \in JobRow
    BY <1>1 DEF Start, Expired, TypeOK
  <2>2. job'[k].status = "queued" /\ job'[k].property = job[k].property
    BY <2>1 DEF Recovered, JobRow
  <2>3. Phase(job'[k]) = "waiting"
    BY <2>2 DEF Phase
  <2> QED BY <2>1, <2>2, <2>3, KnownAbout, PhaseOf
<1>2. \A k \in Jobs : k \notin Expired => job'[k] = job[k]
  BY DEF Start
<1>3. Expired \in SUBSET Jobs
  BY DEF Expired
<1>4. /\ PhaseOfJob' = [k \in Jobs |-> IF k \in Expired THEN "waiting"
                                       ELSE PhaseOfJob[k]]
      /\ PropertyOfJob' = PropertyOfJob
  <2>1. ASSUME NEW k \in Jobs
        PROVE  /\ Phase(job'[k]) = (IF k \in Expired THEN "waiting"
                                    ELSE Phase(job[k]))
               /\ About(job'[k]) = About(job[k])
    <3>1. CASE k \in Expired
      BY <1>1, <3>1 DEF About
    <3> QED BY <1>2, <3>1
  <2> QED BY <2>1 DEF PhaseOfJob, PropertyOfJob
<1>5. Expired \in SUBSET {k \in Jobs : PhaseOfJob[k] = "running"}
  BY <1>1, <1>3
<1> QED BY <1>4, <1>5 DEF Queue!Requeue

LEMMA CommitSubmits ==
  ASSUME QueueInv, TypeOK', NEW j \in Jobs, Commit(j)
  PROVE  \E p \in Properties \cup {NoProperty} : Queue!Submit(j, p)
<1>a. TypeOK /\ job[j] \in JobRow
  BY DEF QueueInv, TypeOK
<1> DEFINE p == job[j].property
           js == Superseding(j)
<1>1. job[j].status = "absent" /\ p \in Properties \cup {NoProperty}
  BY <1>a DEF Commit, QueueInv, FreshRows, Committed, JobRow
<1>2. ASSUME NEW k \in js
      PROVE  /\ k \in Jobs /\ k # j /\ job[k].status = "queued"
             /\ job[k].property = p /\ p # NoProperty
             /\ job'[k].status = "superseded" /\ job'[k].property = p
  <2>1. k \in Jobs /\ job[k].status = "queued" /\ SameProperty(j, k)
    BY <1>a DEF Superseding, QueueInv, TargetsMatch, TypeOK, Request
  <2>2. k # j
    BY <1>1, <2>1
  <2>3. job'[k] = Replaced(job[k], j) /\ job[k] \in JobRow
    BY <1>a, <2>1, <2>2 DEF Commit, RowsAfter, TypeOK
  <2>4. job'[k].status = "superseded" /\ job'[k].property = job[k].property
    BY <2>3 DEF Replaced, JobRow
  <2> QED BY <2>1, <2>2, <2>4 DEF SameProperty
<1>3. job'[j].status = "queued" /\ job'[j].property = p
  BY <1>a DEF Commit, RowsAfter, JobRow
<1>4. \A k \in Jobs \ js : k # j => job'[k] = job[k]
  BY DEF Commit, RowsAfter
<1>5. ASSUME NEW k \in Jobs
      PROVE  /\ PhaseOfJob'[k] = Phase(job'[k])
             /\ PropertyOfJob'[k] = About(job'[k])
             /\ PhaseOfJob[k] = Phase(job[k])
             /\ PropertyOfJob[k] = About(job[k])
  BY DEF PhaseOfJob, PropertyOfJob
<1> HIDE DEF p, js
<1>6. ASSUME NEW k \in Jobs
      PROVE  /\ PhaseOfJob'[k] = IF k = j THEN "waiting"
                                 ELSE IF k \in js THEN "replaced"
                                      ELSE PhaseOfJob[k]
             /\ PropertyOfJob'[k] = IF k = j THEN p ELSE PropertyOfJob[k]
             /\ k \in js => PhaseOfJob[k] = "waiting" /\ PropertyOfJob[k] = p
                            /\ p # NoProperty
  <2>1. CASE k = j
    <3>1. k \notin js
      BY <1>2, <2>1
    <3> QED BY <1>3, <1>5, <2>1, <3>1 DEF Phase, About
  <2>2. CASE k \in js
    BY <1>2, <1>5, <2>2 DEF Phase, About
  <2>3. CASE k # j /\ k \notin js
    BY <1>4, <1>5, <2>3
  <2> QED BY <2>1, <2>2, <2>3
<1>7. /\ PhaseOfJob' = [k \in Jobs |-> IF k = j THEN "waiting"
                                       ELSE IF k \in js THEN "replaced"
                                            ELSE PhaseOfJob[k]]
      /\ PropertyOfJob' = [PropertyOfJob EXCEPT ![j] = p]
  BY <1>6 DEF PhaseOfJob, PropertyOfJob
<1>8. js \in SUBSET {k \in Queue!About(p) : PhaseOfJob[k] = "waiting"}
  BY <1>2, <1>6 DEF Queue!About
<1>9. PhaseOfJob[j] = "absent"
  BY <1>1, <1>5 DEF Phase
<1>10. Queue!Submit(j, p)
  BY <1>7, <1>8, <1>9 DEF Queue!Submit
<1> QED BY <1>1, <1>10

LEMMA PlainSubmits ==
  ASSUME QueueInv, TypeOK', NEW j \in Jobs, NEW o \in Origins,
         NEW p \in Properties \cup {NoProperty}, EnqueuePlain(j, o, p)
  PROVE  Queue!Submit(j, p)
<1>1. job[j].status = "absent"
  BY DEF EnqueuePlain, IsNextJob, QueueInv, FreshRows, Committed
<1>2. job'[j] = [NewRow(o, p) EXCEPT !.status = "queued"]
      /\ \A k \in Jobs \ {j} : job'[k] = job[k]
  BY DEF EnqueuePlain, QueueInv, TypeOK
<1>3. job'[j].status = "queued" /\ job'[j].property = p
  BY <1>2 DEF NewRow
<1>4. ASSUME NEW k \in Jobs
      PROVE  /\ Phase(job'[k]) = IF k = j THEN "waiting" ELSE PhaseOfJob[k]
             /\ About(job'[k]) = IF k = j THEN p ELSE PropertyOfJob[k]
  BY <1>2, <1>3 DEF Phase, About, PhaseOfJob, PropertyOfJob
<1>5. /\ PhaseOfJob' = [k \in Jobs |-> IF k = j THEN "waiting"
                                       ELSE IF k \in {} THEN "replaced"
                                            ELSE PhaseOfJob[k]]
      /\ PropertyOfJob' = [PropertyOfJob EXCEPT ![j] = p]
  BY <1>4 DEF PhaseOfJob, PropertyOfJob
<1>6. PhaseOfJob[j] = "absent"
  BY <1>1 DEF PhaseOfJob, Phase
<1>7. {} \in SUBSET {k \in Queue!About(p) : PhaseOfJob[k] = "waiting"}
  OBVIOUS
<1> QED BY <1>5, <1>6, <1>7 DEF Queue!Submit

LEMMA QueueStepImplements ==
  ASSUME RefinementInv, [Next]_vars
  PROVE  [Queue!Next]_(Queue!vars)
<1>a. QueueInv /\ TypeOK
  BY DEF RefinementInv, ProcessInv, QueueInv
<1>b. TypeOK'
  BY <1>a, TypePreserved
<1>1. ASSUME NEW j \in Jobs, NEW o \in Origins,
             NEW p \in Properties \cup {NoProperty}, Arrive(j, o, p)
      PROVE  UNCHANGED Queue!vars
  <2>1. job[j].status = "absent"
    BY <1>a, <1>1 DEF Arrive, IsNextJob, QueueInv, FreshRows, Committed
  <2>2. job'[j].status = "absent" /\ \A k \in Jobs \ {j} : job'[k] = job[k]
    BY <1>a, <1>1 DEF Arrive, NewRow, TypeOK
  <2> QED BY <1>a, <1>b, <2>1, <2>2, QueueStutters
<1>2. ASSUME NEW j \in Jobs, BackoffElapses(j) \/ LeaseExpires(j)
      PROVE  UNCHANGED Queue!vars
  <2>1. ASSUME NEW k \in Jobs
        PROVE  job'[k].status = job[k].status /\ job'[k].property = job[k].property
    <3>1. job[k] \in JobRow
          /\ job'[k] \in {job[k], [job[k] EXCEPT !.available = TRUE],
                          [job[k] EXCEPT !.lease = "expired"]}
      BY <1>a, <1>2 DEF BackoffElapses, LeaseExpires, TypeOK
    <3> QED BY <3>1 DEF JobRow
  <2> QED BY <1>a, <1>b, <2>1, QueueStutters
<1>3. ASSUME UNCHANGED job
      PROVE  UNCHANGED Queue!vars
  BY <1>3 DEF Queue!vars, PhaseOfJob, PropertyOfJob
<1>4. ASSUME NEW j \in Jobs, NEW p \in Properties \cup {NoProperty}, Queue!Submit(j, p)
      PROVE  Queue!Next
  BY <1>4 DEF Queue!Next
<1>5. ASSUME NEW j \in Jobs, Queue!Run(j) \/ Queue!End(j)
      PROVE  Queue!Next
  BY <1>5 DEF Queue!Next
<1>6. Queue!Requeue => Queue!Next
  BY DEF Queue!Next
<1>7. ASSUME NEW j \in Jobs, RequestStep(j)
      PROVE  [Queue!Next]_(Queue!vars)
  BY <1>a, <1>b, <1>1, <1>3, <1>4, <1>7, CommitSubmits, PlainSubmits
     DEF RequestStep, SelectQueued, SnapshotUpdate
<1>8. ASSUME NEW t \in Threads, ThreadStep(t)
      PROVE  [Queue!Next]_(Queue!vars)
  BY <1>a, <1>b, <1>3, <1>5, <1>6, <1>8, ClaimRuns, AckMoves
     DEF ThreadStep, ClaimStatement, LoopCrash
<1>9. ASSUME NEW p \in Processes, ProcessStep(p)
      PROVE  [Queue!Next]_(Queue!vars)
  BY <1>a, <1>b, <1>3, <1>6, <1>9, StartRequeues
     DEF ProcessStep, SignalStop, Exit, Crash
<1>10. CASE UNCHANGED vars
  BY <1>3, <1>10 DEF vars
<1> QED BY <1>2, <1>7, <1>8, <1>9, <1>10 DEF Next

LEMMA QueueInitImplements == Init => Queue!Init
  BY DEF Init, Queue!Init, PhaseOfJob, PropertyOfJob, Phase, About, NewRow

\* One worker process with one thread serves the jobs table as PropertyQueue
\* promises, for any number of jobs, properties, API processes and crashes: the
\* transactions of several statements, the leases and the retries are steps of
\* the promised queue or none.
THEOREM OneThreadImplements ==
  ASSUME OneWorkerProcess, OneWorkerThread
  PROVE  Spec => ImplementsPropertyQueue
<1>1. Init => ClaimReady /\ PropertySerialized
  BY DEF Init, ClaimReady, PropertySerialized, NewRow, IdleThread
<1>2. /\ ProcessInv /\ ClaimReady /\ PropertySerialized /\ [Next]_vars
           => (ClaimReady /\ PropertySerialized)'
  BY ClaimReadyStep, SerializedStep DEF ProcessInv
<1>3. Spec => []RefinementInv
  BY <1>1, <1>2, ProcessInit, ProcessStepKeeps, PTL DEF Spec, RefinementInv
<1>4. Spec => []RefinementInv /\ Init /\ [][Next]_vars
  BY <1>3, PTL DEF Spec
<1> QED
  BY <1>4, QueueInitImplements, QueueStepImplements, PTL
     DEF ImplementsPropertyQueue, Queue!Spec
===============================================================================
