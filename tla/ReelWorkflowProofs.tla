------------------------- MODULE ReelWorkflowProofs -------------------------
(***************************************************************************)
(* Proofs about ReelWorkflow, for any number of jobs, runs and edits.      *)
(***************************************************************************)
EXTENDS ReelWorkflow, TLAPS

-----------------------------------------------------------------------------
(* Types.                                                                  *)

\* TypeOK, with what its preservation needs: a busy worker has a job and a
\* run, once it has decided it has an outcome, and an edit that was let in
\* has room for one more.
Typing ==
  /\ TypeOK
  /\ worker.pc # "idle" => worker.job \in Jobs /\ runs \in 1 .. MaxRuns
  /\ worker.pc \in {"decided", "publishing", "done"} => worker.outcome # "none"
  /\ session.op = "edit" => edits < MaxEdits

\* What an edit saves is a row: one override is the new edit, the others are
\* those of the row it read or NULL.
LEMMA EditedTyped ==
  ASSUME NEW r \in Row, NEW f \in Fields, NEW v \in 0 .. MaxEdits
  PROVE  /\ Edited(r, f, v) \in Row
         /\ Edited(r, f, v).workflow = r.workflow
         /\ Edited(r, f, v).publish = r.publish
         /\ Edited(r, f, v).revision = r.revision
<1> DEFINE o == [g \in Fields |-> IF g = f THEN v
                                  ELSE IF g \in Kept(f) THEN r.override[g]
                                       ELSE Unset]
<1>1. o \in Overrides
  BY ReelWorkflowAssumption DEF Row, Overrides, Unset
<1>2. Edited(r, f, v) = [r EXCEPT !.override = o]
  BY DEF Edited
<1> HIDE DEF o
<1> QED  BY <1>1, <1>2 DEF Row

\* Supersession and enqueueing keep the jobs typed, leave the jobs being
\* processed alone, and leave a queued job.
LEMMA EnqueuedJobs ==
  ASSUME TypeOK, NEW j \in Jobs, NEW g \in BOOLEAN, NEW m \in 0 .. MaxEdits,
         job[j].status = "absent"
  PROVE  /\ Enqueued(j, g, m) \in [Jobs -> Job]
         /\ Enqueued(j, g, m)[j].status = "queued"
         /\ \A k \in Jobs : job[k].status = "processing"
              => Enqueued(j, g, m)[k] = job[k]
<1>1. [status |-> "queued", gated |-> g, music |-> m] \in Job
  BY DEF Job
<1>2. \A k \in Jobs : job[k] \in Job /\ [job[k] EXCEPT !.status = "superseded"] \in Job
  BY DEF TypeOK, Job
<1> QED  BY <1>1, <1>2 DEF Enqueued

LEMMA EmptyTyped ==
  /\ EmptyRow \in Row /\ IdleSession \in Session /\ IdleWorker \in Worker
  /\ NoOverrides \in Overrides
  BY ReelWorkflowAssumption
  DEF EmptyRow, Row, IdleSession, Session, IdleWorker, Worker, NoOverrides,
      Overrides, Unset, NoRevision, NoJob, Fields, WorkflowStates,
      PublishStatuses

LEMMA InitIdle ==
  Init => row.publish = "" /\ session.op = "none" /\ worker.pc = "idle"
<1> SUFFICES ASSUME Init
             PROVE  row.publish = "" /\ session.op = "none" /\ worker.pc = "idle"
  OBVIOUS
<1>1. row = EmptyRow /\ session = IdleSession /\ worker = IdleWorker
  BY DEF Init
<1> QED  BY <1>1 DEF EmptyRow, IdleSession, IdleWorker

LEMMA TypingInit == Init => Typing
<1> SUFFICES ASSUME Init PROVE Typing  OBVIOUS
<1>1. job \in [Jobs -> Job]
  BY ReelWorkflowAssumption DEF Init, Job, Unset
<1>2. /\ row \in Row /\ session \in Session /\ worker \in Worker
      /\ rendered \in Overrides
  BY EmptyTyped DEF Init
<1>3. runs \in 0 .. MaxRuns /\ edits \in 0 .. MaxEdits
  BY ReelWorkflowAssumption DEF Init
<1>4. /\ posted \subseteq 1 .. MaxRuns
      /\ ended \in {"none", "completed", "failed"}
      /\ undone \in BOOLEAN /\ late \in BOOLEAN
  BY DEF Init
<1>5. TypeOK
  BY <1>1, <1>2, <1>3, <1>4 DEF TypeOK
<1> QED
  BY <1>5, InitIdle DEF Typing

\* The rows the writers save are rows.
LEMMA SavedTyped ==
  ASSUME NEW r \in Row, Typing
  PROVE  /\ Approved(r) \in Row /\ Rejected(r) \in Row /\ Ingested(r) \in Row
         /\ [r EXCEPT !.workflow = "assets_prepared"] \in Row
         /\ [r EXCEPT !.workflow = "rendered", !.revision = runs] \in Row
         /\ worker.outcome # "none" => Decided(r) \in Row
<1>1. runs \in 0 .. MaxRuns /\ NoRevision \in 0 .. MaxRuns
  BY ReelWorkflowAssumption DEF Typing, TypeOK, NoRevision
<1>2. /\ Approved(r) \in Row /\ Rejected(r) \in Row /\ Ingested(r) \in Row
      /\ [r EXCEPT !.workflow = "assets_prepared"] \in Row
      /\ [r EXCEPT !.workflow = "rendered", !.revision = runs] \in Row
  BY <1>1 DEF Row, WorkflowStates, PublishStatuses, Approved, Rejected, Ingested
<1>3. ASSUME worker.outcome # "none"  PROVE Decided(r) \in Row
  <2>1. worker.outcome \in {"awaiting_review", "published", "partial", "failed"}
    BY <1>3 DEF Typing, TypeOK, Worker
  <2> QED
    BY <1>1, <2>1 DEF Row, WorkflowStates, PublishStatuses, Decided
<1> QED  BY <1>2, <1>3

\* Reading and saving keep the types; what is saved has to be a row.
LEMMA ReadsTyped ==
  ASSUME Typing, NEW from, NEW to,
         <<from, to>> \in {<<"ingested", "preparing">>, <<"decided", "publishing">>},
         Reads(from, to)
  PROVE  Typing'
<1>1. worker' \in Worker /\ worker'.job = worker.job /\ worker.pc # "idle"
  BY DEF Reads, Typing, TypeOK, Worker
<1> QED  BY <1>1 DEF Reads, Typing, TypeOK, Jobs, Overrides, Job

LEMMA SavesTyped ==
  ASSUME Typing, NEW from, NEW to, NEW saved \in Row,
         <<from, to>> \in {<<"ingesting", "ingested">>,
                           <<"preparing", "prepared">>,
                           <<"storing", "stored">>, <<"publishing", "done">>},
         Saves(from, to, saved), UNCHANGED rendered
  PROVE  Typing'
<1>1. worker' \in Worker /\ worker'.job = worker.job /\ worker.pc # "idle"
  BY EmptyTyped DEF Saves, Typing, TypeOK, Worker
<1> QED  BY <1>1 DEF Saves, Typing, TypeOK

LEMMA OpenTyped ==
  ASSUME Typing, NEW op \in {"approve", "reject", "edit"}, NEW f \in Fields,
         Open(op, f)
  PROVE  session' \in Session /\ session'.op = op /\ session'.pc = "read"
         /\ session'.seen = row
  BY EmptyTyped DEF Open, Typing, TypeOK, Session, IdleSession

LEMMA SettleTyped ==
  ASSUME Typing, NEW s \in {"queued", "completed", "failed"},
         worker.pc # "idle", Settle(s)
  PROVE  Typing'
<1>1. job' \in [Jobs -> Job]
  BY DEF Settle, Typing, TypeOK, Job
<1>2. worker' \in Worker /\ worker'.pc = "idle"
  BY EmptyTyped DEF Settle, IdleWorker
<1>3. ended' \in {"none", "completed", "failed"}
  BY DEF Settle, Typing, TypeOK
<1> QED  BY <1>1, <1>2, <1>3 DEF Settle, Typing, TypeOK

LEMMA ApiTyped == Typing /\ ApiStep => Typing'
<1> SUFFICES ASSUME Typing, ApiStep PROVE Typing'  OBVIOUS
<1> USE DEF Typing
<1>1. TypeOK /\ row.override["music"] \in 0 .. MaxEdits
      /\ session.seen \in Row /\ session.seen.override["music"] \in 0 .. MaxEdits
  BY DEF TypeOK, Row, Session, Overrides, Fields
<1>2. ASSUME NEW j \in Jobs, NEW gated \in Gating, Webhook(j, gated)
      PROVE  Typing'
  <2>1. job' \in [Jobs -> Job]
    BY <1>2, EnqueuedJobs, ReelWorkflowAssumption
    DEF Webhook, IsNextJob, Unset
  <2> QED  BY <1>2, <2>1 DEF Webhook, TypeOK
<1>3. ASSUME NEW j \in Jobs, Manual(j)  PROVE Typing'
  <2>1. job' \in [Jobs -> Job]
    BY <1>1, <1>3, EnqueuedJobs DEF Manual, IsNextJob
  <2> QED  BY <1>3, <2>1 DEF Manual, TypeOK
<1>4. ASSUME NEW j \in Jobs, ApproveCommit(j)  PROVE Typing'
  <2>1. job' \in [Jobs -> Job]
    BY <1>1, <1>4, EnqueuedJobs DEF ApproveCommit, IsNextJob, TypeOK
  <2>2. row' \in Row
    BY <1>1, <1>4, SavedTyped DEF ApproveCommit
  <2>3. session' \in Session /\ session'.op = "none"
    BY <1>4, EmptyTyped DEF ApproveCommit, IdleSession
  <2>4. late' \in BOOLEAN
    BY <1>4 DEF ApproveCommit, NobodyPublishes
  <2> QED  BY <1>4, <2>1, <2>2, <2>3, <2>4 DEF ApproveCommit, TypeOK
<1>5. ASSUME NEW j \in Jobs, EditCommit(j)  PROVE Typing'
  <2> DEFINE f == session.field
             saved == Edited(session.seen, f, edits + 1)
  <2>1. edits + 1 \in 0 .. MaxEdits /\ f \in Fields
    BY <1>5, ReelWorkflowAssumption DEF EditCommit, TypeOK, Session
  <2>2. saved \in Row
    BY <1>1, <2>1, EditedTyped
  <2>3. saved.override["music"] \in 0 .. MaxEdits
    BY <2>2 DEF Row, Overrides, Fields
  <2>4. job' \in [Jobs -> Job]
    <3>1. CASE f = "descriptions"
      BY <1>5, <3>1 DEF EditCommit, EditJob, TypeOK
    <3>2. CASE f # "descriptions"
      <4>1. job' = Enqueued(j, FALSE, saved.override["music"])
        BY <1>5, <3>2 DEF EditCommit, EditJob
      <4> QED  BY <1>5, <2>3, <4>1, EnqueuedJobs DEF EditCommit, IsNextJob
    <3> QED  BY <3>1, <3>2
  <2>5. session' \in Session /\ session'.op = "none"
    BY <1>5, EmptyTyped DEF EditCommit, IdleSession
  <2>6. row' = saved /\ edits' = edits + 1
    BY <1>5 DEF EditCommit
  <2> QED  BY <1>5, <2>1, <2>2, <2>4, <2>5, <2>6 DEF EditCommit, TypeOK
<1>6. ASSUME Approve  PROVE Typing'
  <2>1. session' \in Session /\ session'.op = "approve"
    BY <1>6, OpenTyped DEF Approve, IdleSession, Fields
  <2> QED  BY <1>6, <2>1 DEF Approve, TypeOK
<1>7. ASSUME ApproveSave  PROVE Typing'
  <2>1. session' \in Session /\ session'.op = "approve"
    BY <1>7 DEF ApproveSave, TypeOK, Session, ActiveJob
  <2> QED  BY <1>7, <2>1 DEF ApproveSave, TypeOK
<1>8. ASSUME Reject  PROVE Typing'
  <2>1. session' \in Session /\ session'.op = "reject"
    BY <1>8, OpenTyped DEF Reject, IdleSession, Fields
  <2> QED  BY <1>8, <2>1 DEF Reject, TypeOK
<1>9. ASSUME RejectCommit  PROVE Typing'
  <2>1. row' \in Row
    BY <1>1, <1>9, SavedTyped DEF RejectCommit
  <2>2. session' \in Session /\ session'.op = "none"
    BY <1>9, EmptyTyped DEF RejectCommit, IdleSession
  <2> QED  BY <1>9, <2>1, <2>2 DEF RejectCommit, TypeOK
<1>10. ASSUME NEW f \in Editable, Edit(f)  PROVE Typing'
  <2>1. session' \in Session
    BY <1>10, OpenTyped, ReelWorkflowAssumption DEF Edit
  <2> QED  BY <1>10, <2>1 DEF Edit, TypeOK
<1> QED
  BY <1>2, <1>3, <1>4, <1>5, <1>6, <1>7, <1>8, <1>9, <1>10 DEF ApiStep

LEMMA WorkerTyped == Typing /\ WorkerStep => Typing'
<1> SUFFICES ASSUME Typing, WorkerStep PROVE Typing'  OBVIOUS
<1> USE DEF Typing
<1>1. TypeOK /\ worker.seen \in Row
  BY DEF TypeOK, Worker
<1>2. ASSUME NEW j \in Jobs, Claim(j)  PROVE Typing'
  <2>1. job' \in [Jobs -> Job]
    BY <1>2 DEF Claim, TypeOK, Job
  <2>2. worker' \in Worker /\ worker'.pc = "claimed" /\ worker'.job = j
    BY <1>2, EmptyTyped DEF Claim, IdleWorker, Worker
  <2>3. runs' \in 1 .. MaxRuns
    BY <1>2, ReelWorkflowAssumption DEF Claim, TypeOK
  <2> QED  BY <1>2, <2>1, <2>2, <2>3 DEF Claim, TypeOK
<1>3. ASSUME IngestRead  PROVE Typing'
  <2>1. job[worker.job].music \in 0 .. MaxEdits
    BY <1>3 DEF IngestRead, TypeOK, Job
  <2>2. [row.override EXCEPT !["music"] = job[worker.job].music] \in Overrides
    BY <2>1 DEF TypeOK, Row, Overrides
  <2>3. worker' \in Worker /\ worker'.pc = "ingesting" /\ worker'.job = worker.job
    BY <1>3, <2>2 DEF IngestRead, TypeOK, Worker
  <2> QED  BY <1>3, <2>3 DEF IngestRead, TypeOK
<1>4. ASSUME IngestCommit  PROVE Typing'
  BY <1>1, <1>4, SavedTyped, SavesTyped DEF IngestCommit
<1>5. ASSUME PrepareRead  PROVE Typing'
  BY <1>5, ReadsTyped DEF PrepareRead
<1>6. ASSUME PrepareCommit  PROVE Typing'
  BY <1>1, <1>6, SavedTyped, SavesTyped DEF PrepareCommit
<1>7. ASSUME PrepareSkip  PROVE Typing'
  <2>1. worker' \in Worker /\ worker'.pc = "prepared" /\ worker'.job = worker.job
    BY <1>7 DEF PrepareSkip, TypeOK, Worker
  <2> QED  BY <1>7, <2>1 DEF PrepareSkip, TypeOK
<1>8. ASSUME StoreRead  PROVE Typing'
  <2>1. worker' \in Worker /\ worker'.pc = "storing" /\ worker'.job = worker.job
        /\ rendered' \in Overrides
    BY <1>8 DEF StoreRead, TypeOK, Worker
  <2> QED  BY <1>8, <2>1 DEF StoreRead, TypeOK
<1>9. ASSUME StoreCommit  PROVE Typing'
  BY <1>1, <1>9, SavedTyped, SavesTyped DEF StoreCommit
<1>10. ASSUME Hold  PROVE Typing'
  <2>1. worker' \in Worker /\ worker'.job = worker.job
        /\ worker'.outcome = "awaiting_review"
    BY <1>10 DEF Hold, TypeOK, Worker
  <2> QED  BY <1>10, <2>1 DEF Hold, TypeOK
<1>11. ASSUME NEW outcome \in {"published", "partial", "failed"}, Post(outcome)
       PROVE  Typing'
  <2>1. worker' \in Worker /\ worker'.job = worker.job
        /\ worker'.outcome = outcome
    BY <1>11 DEF Post, TypeOK, Worker
  <2>2. posted' \subseteq 1 .. MaxRuns
    BY <1>11 DEF Post, TypeOK
  <2> QED  BY <1>11, <2>1, <2>2 DEF Post, TypeOK
<1>12. ASSUME PublishRead  PROVE Typing'
  BY <1>12, ReadsTyped DEF PublishRead
<1>13. ASSUME PublishCommit  PROVE Typing'
  <2>1. Decided(worker.seen) \in Row
    BY <1>1, <1>13, SavedTyped DEF PublishCommit, Saves
  <2> QED  BY <1>13, <2>1, SavesTyped DEF PublishCommit
<1>14. ASSUME Complete  PROVE Typing'
  BY <1>14, SettleTyped DEF Complete
<1>15. ASSUME Break  PROVE Typing'
  BY <1>15, SettleTyped DEF Break
<1> QED
  BY <1>2, <1>3, <1>4, <1>5, <1>6, <1>7, <1>8, <1>9, <1>10, <1>11, <1>12,
     <1>13, <1>14, <1>15
  DEF WorkerStep

LEMMA TypingNext == Typing /\ [Next]_vars => Typing'
<1>1. ASSUME Typing, UNCHANGED vars PROVE Typing'
  BY <1>1 DEF vars, Typing, TypeOK
<1> QED  BY <1>1, ApiTyped, WorkerTyped DEF Next

\* Every variable keeps its type: in particular no writer ever leaves in the
\* reels row a status outside the vocabulary of its column.
THEOREM TypeCorrect == Spec => []TypeOK
<1>1. Typing => TypeOK
  BY DEF Typing
<1> QED  BY TypingInit, TypingNext, <1>1, PTL DEF Spec

-----------------------------------------------------------------------------
(* A published row names a posted revision. A worker's copy of the row      *)
(* could bring an old "published" back together with a new revision; it     *)
(* cannot, because after an ingest nobody but that worker writes it: an      *)
(* approval and a rejection write other statuses, and an edit is let in      *)
(* only when the row it copies is not published.                            *)

\* The stages between the ingest of a run and the transaction that records
\* its publication.
Rendering == {"ingested", "preparing", "prepared", "storing", "stored",
              "decided", "publishing"}

PostedInv ==
  /\ PublishedWasPosted
  /\ session.op = "edit" => session.seen.publish # "published"
  /\ worker.pc \in Rendering => /\ row.publish # "published"
                                /\ worker.seen.publish # "published"
  /\ worker.pc \in {"decided", "publishing"} /\ worker.outcome = "published"
       => runs \in posted

LEMMA PostedInit == Init => PostedInv
  BY InitIdle DEF PostedInv, PublishedWasPosted, Rendering

LEMMA PostedApi == Typing /\ PostedInv /\ ApiStep => PostedInv'
<1> SUFFICES ASSUME Typing, PostedInv, ApiStep PROVE PostedInv'  OBVIOUS
<1> USE DEF PostedInv, PublishedWasPosted
<1>1. row \in Row /\ session \in Session /\ session.seen \in Row
  BY DEF Typing, TypeOK, Session
<1>2. ASSUME NEW j \in Jobs, NEW gated \in Gating, Webhook(j, gated)
      PROVE  PostedInv'
  BY <1>2 DEF Webhook
<1>3. ASSUME NEW j \in Jobs, Manual(j)  PROVE PostedInv'
  BY <1>3 DEF Manual
<1>4. ASSUME NEW j \in Jobs, ApproveCommit(j)  PROVE PostedInv'
  <2>1. row'.publish = "pending_publish" /\ session'.op = "none"
    BY <1>1, <1>4 DEF ApproveCommit, Approved, Row, IdleSession
  <2> QED  BY <1>4, <2>1 DEF ApproveCommit
<1>5. ASSUME NEW j \in Jobs, EditCommit(j)  PROVE PostedInv'
  <2>1. edits + 1 \in 0 .. MaxEdits /\ session.field \in Fields
    BY <1>1, <1>5, ReelWorkflowAssumption
    DEF EditCommit, Typing, TypeOK, Session
  <2>2. row'.publish = session.seen.publish
    BY <1>1, <1>5, <2>1, EditedTyped DEF EditCommit
  <2>3. row'.publish # "published" /\ session'.op = "none"
    BY <1>5, <2>2 DEF EditCommit, IdleSession
  <2> QED  BY <1>5, <2>3 DEF EditCommit
<1>6. ASSUME Approve  PROVE PostedInv'
  <2>1. session'.op = "approve"
    BY <1>6, OpenTyped DEF Approve, IdleSession, Fields
  <2> QED  BY <1>6, <2>1 DEF Approve
<1>7. ASSUME ApproveSave  PROVE PostedInv'
  <2>1. session'.op = "approve"
    BY <1>1, <1>7 DEF ApproveSave, Session
  <2> QED  BY <1>7, <2>1 DEF ApproveSave
<1>8. ASSUME Reject  PROVE PostedInv'
  <2>1. session'.op = "reject"
    BY <1>8, OpenTyped DEF Reject, IdleSession, Fields
  <2> QED  BY <1>8, <2>1 DEF Reject
<1>9. ASSUME RejectCommit  PROVE PostedInv'
  <2>1. row'.publish = "rejected" /\ session'.op = "none"
    BY <1>1, <1>9 DEF RejectCommit, Rejected, Row, IdleSession
  <2> QED  BY <1>9, <2>1 DEF RejectCommit
<1>10. ASSUME NEW f \in Editable, Edit(f)  PROVE PostedInv'
  <2>1. session'.seen = row
    BY <1>10, OpenTyped, ReelWorkflowAssumption DEF Edit
  <2>2. row.publish # "published"
    BY <1>10 DEF Edit, Unlocked
  <2> QED  BY <1>10, <2>1, <2>2 DEF Edit
<1> QED
  BY <1>2, <1>3, <1>4, <1>5, <1>6, <1>7, <1>8, <1>9, <1>10 DEF ApiStep

LEMMA PostedWorker == Typing /\ PostedInv /\ WorkerStep => PostedInv'
<1> SUFFICES ASSUME Typing, PostedInv, WorkerStep PROVE PostedInv'  OBVIOUS
<1> USE DEF PostedInv, PublishedWasPosted, Rendering
<1>1. row \in Row /\ worker \in Worker /\ worker.seen \in Row
  BY DEF Typing, TypeOK, Worker
<1>2. ASSUME NEW j \in Jobs, Claim(j)  PROVE PostedInv'
  <2>1. worker'.pc = "claimed"
    BY <1>2 DEF Claim, IdleWorker
  <2> QED  BY <1>2, <2>1 DEF Claim
<1>3. ASSUME IngestRead  PROVE PostedInv'
  <2>1. worker'.pc = "ingesting"
    BY <1>1, <1>3 DEF IngestRead, Worker
  <2> QED  BY <1>3, <2>1 DEF IngestRead
<1>4. ASSUME IngestCommit  PROVE PostedInv'
  <2>1. row'.publish = "pending"
    BY <1>1, <1>4 DEF IngestCommit, Saves, Ingested, Row
  <2>2. worker'.pc = "ingested" /\ worker'.seen.publish = ""
    BY <1>1, <1>4 DEF IngestCommit, Saves, Worker, EmptyRow
  <2> QED  BY <1>4, <2>1, <2>2 DEF IngestCommit, Saves
<1>5. ASSUME PrepareRead  PROVE PostedInv'
  <2>1. worker'.pc = "preparing" /\ worker'.seen = row
    BY <1>1, <1>5 DEF PrepareRead, Reads, Worker
  <2> QED  BY <1>5, <2>1 DEF PrepareRead, Reads
<1>6. ASSUME PrepareCommit  PROVE PostedInv'
  <2>1. row'.publish = worker.seen.publish
    BY <1>1, <1>6 DEF PrepareCommit, Saves, Row
  <2>2. worker'.pc = "prepared" /\ worker'.seen.publish = ""
    BY <1>1, <1>6 DEF PrepareCommit, Saves, Worker, EmptyRow
  <2>3. worker.pc = "preparing"
    BY <1>6 DEF PrepareCommit, Saves
  <2> QED  BY <1>6, <2>1, <2>2, <2>3 DEF PrepareCommit, Saves
<1>7. ASSUME PrepareSkip  PROVE PostedInv'
  <2>1. worker'.pc = "prepared" /\ worker'.seen = worker.seen
    BY <1>1, <1>7 DEF PrepareSkip, Worker
  <2> QED  BY <1>7, <2>1 DEF PrepareSkip
<1>8. ASSUME StoreRead  PROVE PostedInv'
  <2>1. worker'.pc = "storing" /\ worker'.seen = row
    BY <1>1, <1>8 DEF StoreRead, Worker
  <2> QED  BY <1>8, <2>1 DEF StoreRead
<1>9. ASSUME StoreCommit  PROVE PostedInv'
  <2>1. row'.publish = worker.seen.publish
    BY <1>1, <1>9 DEF StoreCommit, Saves, Row
  <2>2. worker'.pc = "stored" /\ worker'.seen.publish = ""
    BY <1>1, <1>9 DEF StoreCommit, Saves, Worker, EmptyRow
  <2>3. worker.pc = "storing"
    BY <1>9 DEF StoreCommit, Saves
  <2> QED  BY <1>9, <2>1, <2>2, <2>3 DEF StoreCommit, Saves
<1>10. ASSUME Hold  PROVE PostedInv'
  <2>1. worker'.outcome = "awaiting_review" /\ worker'.seen = worker.seen
    BY <1>1, <1>10 DEF Hold, Worker
  <2>2. worker.pc = "stored"
    BY <1>10 DEF Hold
  <2> QED  BY <1>10, <2>1, <2>2 DEF Hold
<1>11. ASSUME NEW outcome \in {"published", "partial", "failed"}, Post(outcome)
       PROVE  PostedInv'
  <2>1. worker'.outcome = outcome /\ worker'.seen = worker.seen
    BY <1>1, <1>11 DEF Post, Worker
  <2>2. posted \subseteq posted' /\ (outcome = "published" => runs \in posted')
    BY <1>11 DEF Post
  <2>3. worker.pc = "stored" /\ UNCHANGED <<row, session, runs>>
    BY <1>11 DEF Post
  <2> QED  BY <2>1, <2>2, <2>3
<1>12. ASSUME PublishRead  PROVE PostedInv'
  <2>1. worker'.seen = row /\ worker'.outcome = worker.outcome
    BY <1>1, <1>12 DEF PublishRead, Reads, Worker
  <2>2. worker.pc = "decided"
    BY <1>12 DEF PublishRead, Reads
  <2> QED  BY <1>12, <2>1, <2>2 DEF PublishRead, Reads
<1>13. ASSUME PublishCommit  PROVE PostedInv'
  <2>1. worker.pc = "publishing" /\ row' = Decided(worker.seen)
        /\ UNCHANGED <<session, runs, posted>>
    BY <1>13 DEF PublishCommit, Saves
  <2>2. row'.revision = runs
        /\ (row'.publish = "published" => worker.outcome = "published")
    BY <1>1, <2>1 DEF Decided, Row
  <2>3. worker'.pc = "done"
    BY <1>1, <1>13 DEF PublishCommit, Saves, Worker
  <2> QED  BY <2>1, <2>2, <2>3
<1>14. ASSUME NEW s, Settle(s)  PROVE PostedInv'
  <2>1. worker'.pc = "idle"
    BY <1>14 DEF Settle, IdleWorker
  <2> QED  BY <1>14, <2>1 DEF Settle
<1> QED
  BY <1>2, <1>3, <1>4, <1>5, <1>6, <1>7, <1>8, <1>9, <1>10, <1>11, <1>12,
     <1>13, <1>14
  DEF WorkerStep, Complete, Break

\* However approvals, rejections, edits and webhooks fall between the worker's
\* reads and saves, and whatever run breaks off: a row that says published
\* names a revision that was posted.
THEOREM NothingClaimedUnposted == Spec => []PublishedWasPosted
<1>1. PostedInv /\ UNCHANGED vars => PostedInv'
  BY DEF vars, PostedInv, PublishedWasPosted
<1>2. Typing /\ PostedInv /\ [Next]_vars => (Typing /\ PostedInv)'
  BY <1>1, TypingNext, PostedApi, PostedWorker DEF Next
<1>3. PostedInv => PublishedWasPosted
  BY DEF PostedInv
<1> QED  BY TypingInit, PostedInit, <1>2, <1>3, PTL DEF Spec

-----------------------------------------------------------------------------
(* A reel at rest is final, if captions are not edited: a descriptions edit  *)
(* saves a copy of the row and asks for no job.                             *)

\* Until the worker's last step, what it wrote can only be overwritten by a
\* rejection, by an approval that came too late, or by an approval or an edit
\* that puts a job in the queue.
RestInv ==
  /\ RestIsFinal
  /\ session.op = "edit" => session.field \in Editable
  /\ worker.pc # "idle" => job[worker.job].status = "processing"
  /\ worker.pc = "done" /\ worker.outcome # "failed"
       => \/ IsFinal
          \/ \E j \in Jobs : job[j].status = "queued"

LEMMA RestInit == Init => RestInv
<1> SUFFICES ASSUME Init PROVE RestInv  OBVIOUS
<1>1. ended = "none"
  BY DEF Init
<1> QED  BY <1>1, InitIdle DEF RestInv, RestIsFinal, AtRest

\* A new job in the queue: the reel is not at rest, and the job under way
\* stays under way.
LEMMA QueuedRests ==
  ASSUME Typing, RestInv,
         NEW j \in Jobs, NEW g \in BOOLEAN, NEW m \in 0 .. MaxEdits,
         job[j].status = "absent", job' = Enqueued(j, g, m),
         UNCHANGED <<worker, ended>>,
         session'.op = "edit" => session'.field \in Editable
  PROVE  RestInv'
<1>1. job'[j].status = "queued"
  BY EnqueuedJobs DEF Typing
<1>2. ~AtRest'
  BY <1>1 DEF AtRest, ActiveJob, Active, Jobs
<1>3. worker'.pc # "idle" => job'[worker'.job].status = "processing"
  BY EnqueuedJobs DEF RestInv, Typing
<1> QED  BY <1>1, <1>2, <1>3 DEF RestInv, RestIsFinal, Jobs

LEMMA RestApi ==
  ASSUME "descriptions" \notin Editable, Typing, RestInv, ApiStep
  PROVE  RestInv'
<1>1. /\ row \in Row /\ session \in Session /\ session.seen \in Row
      /\ row.override["music"] \in 0 .. MaxEdits
      /\ session.seen.override["music"] \in 0 .. MaxEdits
  BY DEF Typing, TypeOK, Session, Row, Overrides, Fields
<1>2. ASSUME NEW j \in Jobs, NEW gated \in Gating, Webhook(j, gated)
      PROVE  RestInv'
  BY <1>2, QueuedRests, ReelWorkflowAssumption
  DEF Webhook, IsNextJob, Unset, RestInv
<1>3. ASSUME NEW j \in Jobs, Manual(j)  PROVE RestInv'
  BY <1>1, <1>3, QueuedRests DEF Manual, IsNextJob, RestInv
<1>4. ASSUME NEW j \in Jobs, ApproveCommit(j)  PROVE RestInv'
  <2>1. row'.workflow = "approved" /\ session'.op = "none"
        /\ UNCHANGED <<worker, ended>>
    BY <1>1, <1>4 DEF ApproveCommit, Approved, Row, IdleSession
  <2>2. CASE session.replay
    <3>1. job' = job /\ (late' <=> NobodyPublishes)
      BY <1>4, <2>2 DEF ApproveCommit
    <3>2. CASE NobodyPublishes
      BY <2>1, <3>1, <3>2 DEF RestInv, RestIsFinal, IsFinal
    <3>3. CASE \E k \in Jobs : job[k].status = "queued"
      BY <2>1, <3>1, <3>3
      DEF RestInv, RestIsFinal, AtRest, ActiveJob, Active
    <3>4. CASE worker.pc \notin {"idle", "done"}
      BY <2>1, <3>1, <3>4
      DEF RestInv, Typing, RestIsFinal, AtRest, ActiveJob, Active
    <3> QED  BY <3>2, <3>3, <3>4 DEF NobodyPublishes
  <2>3. CASE ~session.replay
    <3>1. job' = Enqueued(j, FALSE, session.seen.override["music"])
          /\ job[j].status = "absent"
      BY <1>4, <2>3 DEF ApproveCommit, IsNextJob
    <3> QED  BY <1>1, <2>1, <3>1, QueuedRests
  <2> QED  BY <2>2, <2>3
<1>5. ASSUME NEW j \in Jobs, EditCommit(j)  PROVE RestInv'
  <2> DEFINE f == session.field
             saved == Edited(session.seen, f, edits + 1)
  <2>1. edits + 1 \in 0 .. MaxEdits /\ f \in Fields /\ f # "descriptions"
    BY <1>1, <1>5, ReelWorkflowAssumption
    DEF EditCommit, Typing, TypeOK, Session, RestInv
  <2>2. saved \in Row
    BY <1>1, <2>1, EditedTyped
  <2>3. saved.override["music"] \in 0 .. MaxEdits
    BY <2>2 DEF Row, Overrides, Fields
  <2>4. job' = Enqueued(j, FALSE, saved.override["music"])
        /\ job[j].status = "absent"
    BY <1>5, <2>1 DEF EditCommit, EditJob, IsNextJob
  <2>5. session'.op = "none" /\ UNCHANGED <<worker, ended>>
    BY <1>5 DEF EditCommit, IdleSession
  <2> QED  BY <2>3, <2>4, <2>5, QueuedRests
<1>6. ASSUME NEW op \in {"approve", "reject"}, session'.op = op,
             UNCHANGED <<row, job, worker, ended, late>>
      PROVE  RestInv'
  BY <1>6 DEF RestInv, RestIsFinal, IsFinal, AtRest, ActiveJob, Active
<1>7. ASSUME Approve \/ Reject  PROVE RestInv'
  <2>1. session'.op \in {"approve", "reject"}
    BY <1>7, OpenTyped DEF Approve, Reject, IdleSession, Fields
  <2> QED  BY <1>6, <1>7, <2>1 DEF Approve, Reject
<1>8. ASSUME ApproveSave  PROVE RestInv'
  <2>1. session'.op = "approve"
    BY <1>1, <1>8 DEF ApproveSave, Session
  <2> QED  BY <1>6, <1>8, <2>1 DEF ApproveSave
<1>9. ASSUME RejectCommit  PROVE RestInv'
  <2>1. row'.workflow = "rejected" /\ session'.op = "none"
    BY <1>1, <1>9 DEF RejectCommit, Rejected, Row, IdleSession
  <2> QED
    BY <1>9, <2>1 DEF RejectCommit, RestInv, RestIsFinal, IsFinal
<1>10. ASSUME NEW f \in Editable, Edit(f)  PROVE RestInv'
  <2>1. session'.field = f
    BY <1>10 DEF Edit, Open, IdleSession
  <2> QED
    BY <1>10, <2>1
    DEF Edit, RestInv, RestIsFinal, IsFinal, AtRest, ActiveJob, Active
<1> QED
  BY <1>2, <1>3, <1>4, <1>5, <1>7, <1>8, <1>9, <1>10 DEF ApiStep

\* While a job is under way, or has been put back, the reel is not at rest.
LEMMA BusyRests ==
  ASSUME Typing, RestInv, worker.pc # "idle",
         UNCHANGED <<job, session>>, worker'.job = worker.job,
         worker'.pc # "done"
  PROVE  RestInv'
<1>1. ~AtRest'
  BY DEF RestInv, Typing, AtRest, ActiveJob, Active
<1> QED  BY <1>1 DEF RestInv, RestIsFinal

LEMMA RestWorker == Typing /\ RestInv /\ WorkerStep => RestInv'
<1> SUFFICES ASSUME Typing, RestInv, WorkerStep PROVE RestInv'  OBVIOUS
<1>1. worker \in Worker /\ worker.seen \in Row /\ job \in [Jobs -> Job]
  BY DEF Typing, TypeOK, Worker
<1>2. ASSUME NEW j \in Jobs, Claim(j)  PROVE RestInv'
  <2>1. worker'.pc = "claimed" /\ worker'.job = j
    BY <1>2 DEF Claim, IdleWorker
  <2>2. job'[j].status = "processing"
    BY <1>1, <1>2 DEF Claim, Job
  <2>3. ~AtRest'
    BY <2>2 DEF AtRest, ActiveJob, Active, Jobs
  <2> QED  BY <1>2, <2>1, <2>2, <2>3 DEF Claim, RestInv, RestIsFinal
<1>3. ASSUME \/ IngestRead \/ PrepareRead \/ PrepareSkip \/ StoreRead \/ Hold
             \/ PublishRead
             \/ \E outcome \in {"published", "partial", "failed"} : Post(outcome)
      PROVE  RestInv'
  <2>1. /\ worker.pc # "idle" /\ UNCHANGED <<job, session>>
        /\ worker'.job = worker.job /\ worker'.pc # "done"
    BY <1>1, <1>3
    DEF IngestRead, PrepareRead, PrepareSkip, StoreRead, Hold, PublishRead,
        Post, Reads, Worker
  <2> QED  BY <2>1, BusyRests
<1>4. ASSUME IngestCommit \/ PrepareCommit \/ StoreCommit  PROVE RestInv'
  <2>1. /\ worker.pc # "idle" /\ UNCHANGED <<job, session>>
        /\ worker'.job = worker.job /\ worker'.pc # "done"
    BY <1>1, <1>4 DEF IngestCommit, PrepareCommit, StoreCommit, Saves, Worker
  <2> QED  BY <2>1, BusyRests
<1>5. ASSUME PublishCommit  PROVE RestInv'
  <2>1. worker'.job = worker.job /\ worker'.outcome = worker.outcome
        /\ worker.pc = "publishing" /\ UNCHANGED <<job, session>>
    BY <1>1, <1>5 DEF PublishCommit, Saves, Worker
  <2>2. row'.workflow = worker.outcome
    BY <1>1, <1>5 DEF PublishCommit, Saves, Decided, Row
  <2>3. worker.outcome \in {"awaiting_review", "published", "partial", "failed"}
    BY <1>1, <2>1 DEF Typing, Worker
  <2>4. ~AtRest'
    BY <2>1 DEF RestInv, Typing, AtRest, ActiveJob, Active
  <2> QED  BY <2>1, <2>2, <2>3, <2>4 DEF RestInv, RestIsFinal, IsFinal
<1>6. ASSUME Complete  PROVE RestInv'
  <2>1. worker'.pc = "idle" /\ UNCHANGED <<row, session, late>>
    BY <1>6 DEF Complete, Settle, IdleWorker
  <2>2. \A j \in Jobs : job[j].status = "queued" => job'[j].status = "queued"
    BY <1>1, <1>6 DEF Complete, Settle, Typing, RestInv
  <2>3. AtRest' => IsFinal
    BY <1>6, <2>1, <2>2
    DEF Complete, RestInv, AtRest, ActiveJob, Active, Jobs
  <2> QED  BY <2>1, <2>3 DEF RestInv, RestIsFinal, IsFinal
<1>7. ASSUME Break  PROVE RestInv'
  <2>1. PICK s \in {"queued", "failed"} : worker.pc # "idle" /\ Settle(s)
    BY <1>7 DEF Break
  <2>2. worker'.pc = "idle" /\ UNCHANGED session
    BY <2>1 DEF Settle, IdleWorker
  <2>3. ~AtRest'
    <3>1. CASE s = "failed"
      BY <2>1, <3>1 DEF Settle, AtRest
    <3>2. CASE s = "queued"
      <4>1. job'[worker.job].status = "queued" /\ worker.job \in Jobs
        BY <1>1, <2>1, <3>2 DEF Settle, Typing, Job
      <4> QED  BY <4>1 DEF AtRest, ActiveJob, Active, Jobs
    <3> QED  BY <3>1, <3>2
  <2> QED  BY <2>2, <2>3 DEF RestInv, RestIsFinal
<1> QED
  BY <1>2, <1>3, <1>4, <1>5, <1>6, <1>7 DEF WorkerStep

\* Without caption edits, a reel whose last job completed and that nobody
\* works on is held for review, rejected, published in whole or in part, or was
\* approved too late for that job, whatever stale copy was saved over the
\* worker's results.
THEOREM RestCorrect ==
  ASSUME "descriptions" \notin Editable
  PROVE  Spec => []RestIsFinal
<1>1. RestInv /\ UNCHANGED vars => RestInv'
  BY DEF vars, RestInv, RestIsFinal, IsFinal, AtRest, ActiveJob, Active
<1>2. Typing /\ RestInv /\ [Next]_vars => (Typing /\ RestInv)'
  BY <1>1, TypingNext, RestApi, RestWorker DEF Next
<1>3. RestInv => RestIsFinal
  BY DEF RestInv
<1> QED  BY TypingInit, RestInit, <1>2, <1>3, PTL DEF Spec

-----------------------------------------------------------------------------
(* The media files of a reel at rest show the overrides on record, if        *)
(* captions are not edited. A run that breaks off never rests, and one that  *)
(* completes stored files of the overrides it read at its ingest. Whoever    *)
(* changes the row behind its back has left a mark: an edit a queued job,    *)
(* a review undone.                                                          *)

Visible == {"photos", "subtitles", "slides"}
Same(o, p) == \A f \in Visible : o[f] = p[f]

\* The row need not hold the overrides of the run under way any more.
Replaced == undone \/ \E j \in Jobs : job[j].status = "queued"

\* The worker has read the row for the ingest of its run.
Ingesting == {"ingesting", "ingested", "preparing", "prepared", "storing",
              "stored", "decided", "publishing", "done"}
\* It holds a copy of the row.
Copying == {"ingesting", "preparing", "storing", "publishing"}
\* It has replaced the media files.
Storing == {"storing", "stored", "decided", "publishing", "done"}

CurrentInv ==
  /\ RenderedIsCurrent
  /\ worker.pc \in Ingesting /\ ~Replaced
       => Same(row.override, worker.context)
  /\ worker.pc \in Copying /\ ~Replaced
       => Same(worker.seen.override, worker.context)
  /\ worker.pc \in Storing => rendered = worker.context

LEMMA CurrentInit == Init => CurrentInv
<1> SUFFICES ASSUME Init PROVE CurrentInv  OBVIOUS
<1>1. ended = "none"
  BY DEF Init
<1> QED
  BY <1>1, InitIdle
  DEF CurrentInv, RenderedIsCurrent, AtRest, Ingesting, Copying, Storing

\* A new job in the queue: whatever happened to the row, a run follows.
LEMMA QueuedCurrent ==
  ASSUME Typing, CurrentInv,
         NEW j \in Jobs, NEW g \in BOOLEAN, NEW m \in 0 .. MaxEdits,
         job[j].status = "absent", job' = Enqueued(j, g, m),
         UNCHANGED <<worker, rendered>>
  PROVE  CurrentInv'
<1>1. job'[j].status = "queued"
  BY EnqueuedJobs DEF Typing
<1>2. ~AtRest' /\ Replaced'
  BY <1>1 DEF AtRest, ActiveJob, Active, Jobs, Replaced
<1> QED  BY <1>2 DEF CurrentInv, RenderedIsCurrent

\* A review that saves what is on record, or leaves its mark.
LEMMA ReviewCurrent ==
  ASSUME Typing, CurrentInv,
         undone' = (undone \/ row'.override # row.override),
         UNCHANGED <<job, worker, rendered, ended>>
  PROVE  CurrentInv'
<1>1. CASE row'.override # row.override
  BY <1>1 DEF CurrentInv, RenderedIsCurrent, Replaced
<1>2. CASE row'.override = row.override
  <2>1. undone' = undone
    BY <1>2 DEF Typing, TypeOK
  <2>2. (AtRest' <=> AtRest) /\ (Replaced' <=> Replaced)
    BY <2>1 DEF AtRest, ActiveJob, Active, Replaced
  <2> QED  BY <1>2, <2>1, <2>2 DEF CurrentInv, RenderedIsCurrent
<1> QED  BY <1>1, <1>2

\* A step that leaves all of it alone.
LEMMA SameCurrent ==
  ASSUME CurrentInv, UNCHANGED <<row, job, worker, rendered, ended, undone>>
  PROVE  CurrentInv'
BY DEF CurrentInv, RenderedIsCurrent, AtRest, ActiveJob, Active, Replaced

LEMMA CurrentApi ==
  ASSUME "descriptions" \notin Editable, Typing, RestInv, CurrentInv, ApiStep
  PROVE  CurrentInv'
<1>1. /\ row \in Row /\ session \in Session /\ session.seen \in Row
      /\ row.override["music"] \in 0 .. MaxEdits
      /\ session.seen.override["music"] \in 0 .. MaxEdits
  BY DEF Typing, TypeOK, Session, Row, Overrides, Fields
<1>2. ASSUME NEW j \in Jobs, NEW gated \in Gating, Webhook(j, gated)
      PROVE  CurrentInv'
  BY <1>2, QueuedCurrent, ReelWorkflowAssumption DEF Webhook, IsNextJob, Unset
<1>3. ASSUME NEW j \in Jobs, Manual(j)  PROVE CurrentInv'
  BY <1>1, <1>3, QueuedCurrent DEF Manual, IsNextJob
<1>4. ASSUME NEW j \in Jobs, ApproveCommit(j)  PROVE CurrentInv'
  <2>1. /\ row'.override = session.seen.override
        /\ UNCHANGED <<worker, rendered, ended>>
        /\ undone' = (undone \/ session.seen.override # row.override)
    BY <1>1, <1>4 DEF ApproveCommit, Approved, Row
  <2>2. CASE session.replay
    <3>1. job' = job
      BY <1>4, <2>2 DEF ApproveCommit
    <3> QED  BY <2>1, <3>1, ReviewCurrent
  <2>3. CASE ~session.replay
    <3>1. job' = Enqueued(j, FALSE, session.seen.override["music"])
          /\ job[j].status = "absent"
      BY <1>4, <2>3 DEF ApproveCommit, IsNextJob
    <3> QED  BY <1>1, <2>1, <3>1, QueuedCurrent
  <2> QED  BY <2>2, <2>3
<1>5. ASSUME NEW j \in Jobs, EditCommit(j)  PROVE CurrentInv'
  <2> DEFINE f == session.field
             saved == Edited(session.seen, f, edits + 1)
  <2>1. edits + 1 \in 0 .. MaxEdits /\ f \in Fields /\ f # "descriptions"
    BY <1>1, <1>5, ReelWorkflowAssumption
    DEF EditCommit, Typing, TypeOK, Session, RestInv
  <2>2. saved \in Row
    BY <1>1, <2>1, EditedTyped
  <2>3. saved.override["music"] \in 0 .. MaxEdits
    BY <2>2 DEF Row, Overrides, Fields
  <2>4. job' = Enqueued(j, FALSE, saved.override["music"])
        /\ job[j].status = "absent" /\ UNCHANGED <<worker, rendered>>
    BY <1>5, <2>1 DEF EditCommit, EditJob, IsNextJob
  <2> QED  BY <2>3, <2>4, QueuedCurrent
<1>6. ASSUME \/ Approve \/ ApproveSave \/ Reject \/ \E f \in Editable : Edit(f)
      PROVE  CurrentInv'
  BY <1>6, SameCurrent DEF Approve, ApproveSave, Reject, Edit
<1>7. ASSUME RejectCommit  PROVE CurrentInv'
  <2>1. /\ row'.override = session.seen.override
        /\ UNCHANGED <<job, worker, rendered, ended>>
        /\ undone' = (undone \/ session.seen.override # row.override)
    BY <1>1, <1>7 DEF RejectCommit, Rejected, Row
  <2> QED  BY <2>1, ReviewCurrent
<1> QED
  BY <1>2, <1>3, <1>4, <1>5, <1>6, <1>7 DEF ApiStep

\* Between two transactions of a run nothing is at rest, and the queue stays
\* as it is.
LEMMA BusyCurrent ==
  ASSUME Typing, RestInv, CurrentInv, worker.pc # "idle",
         UNCHANGED <<job, undone>>
  PROVE  ~AtRest' /\ (Replaced' <=> Replaced)
<1>1. ~AtRest'
  BY DEF RestInv, Typing, AtRest, ActiveJob, Active
<1> QED  BY <1>1 DEF Replaced

\* The worker reads the row.
LEMMA ReadsCurrent ==
  ASSUME Typing, RestInv, CurrentInv, NEW from, NEW to,
         <<from, to>> \in {<<"ingested", "preparing">>, <<"decided", "publishing">>},
         Reads(from, to)
  PROVE  CurrentInv'
<1>1. /\ worker.pc = from /\ worker'.pc = to /\ worker'.seen = row
      /\ worker'.context = worker.context
      /\ UNCHANGED <<row, job, rendered, undone>>
  BY DEF Reads, Typing, TypeOK, Worker
<1>2. ~AtRest' /\ (Replaced' <=> Replaced)
  BY <1>1, BusyCurrent
<1> QED
  BY <1>1, <1>2
  DEF CurrentInv, RenderedIsCurrent, Ingesting, Copying, Storing

\* The worker saves a copy with the overrides it read.
LEMMA SavesCurrent ==
  ASSUME Typing, RestInv, CurrentInv, NEW from, NEW to, NEW saved \in Row,
         <<from, to>> \in {<<"ingesting", "ingested">>,
                           <<"preparing", "prepared">>,
                           <<"storing", "stored">>, <<"publishing", "done">>},
         Saves(from, to, saved), UNCHANGED rendered,
         saved.override = worker.seen.override
  PROVE  CurrentInv'
<1>1. /\ worker.pc = from /\ worker'.pc = to
      /\ worker'.context = worker.context
      /\ row' = saved
      /\ UNCHANGED <<job, rendered, undone>>
  BY DEF Saves, Typing, TypeOK, Worker
<1>2. ~AtRest' /\ (Replaced' <=> Replaced)
  BY <1>1, BusyCurrent
<1>3. ~Replaced => Same(row'.override, worker'.context)
  BY <1>1 DEF CurrentInv, Copying
<1>4. worker'.pc \in Storing => worker.pc \in Storing
  BY <1>1 DEF Storing
<1> QED
  BY <1>1, <1>2, <1>3, <1>4
  DEF CurrentInv, RenderedIsCurrent, Copying

LEMMA CurrentWorker ==
  ASSUME Typing, RestInv, CurrentInv, WorkerStep
  PROVE  CurrentInv'
<1>1. /\ worker \in Worker /\ worker.seen \in Row /\ job \in [Jobs -> Job]
      /\ row.override \in Overrides
  BY DEF Typing, TypeOK, Worker, Row
<1>2. ASSUME NEW j \in Jobs, Claim(j)  PROVE CurrentInv'
  <2>1. worker'.pc = "claimed"
    BY <1>2 DEF Claim, IdleWorker
  <2>2. job'[j].status = "processing"
    BY <1>1, <1>2 DEF Claim, Job
  <2>3. ~AtRest'
    BY <2>2 DEF AtRest, ActiveJob, Active, Jobs
  <2> QED
    BY <2>1, <2>3
    DEF CurrentInv, RenderedIsCurrent, Ingesting, Copying, Storing
<1>3. ASSUME IngestRead  PROVE CurrentInv'
  <2>1. /\ worker.pc = "claimed" /\ worker'.pc = "ingesting"
        /\ worker'.seen = row
        /\ worker'.context
             = [row.override EXCEPT !["music"] = job[worker.job].music]
        /\ UNCHANGED <<row, job>>
    BY <1>1, <1>3 DEF IngestRead, Worker
  <2>2. Same(row.override, worker'.context)
    BY <1>1, <2>1 DEF Same, Visible, Overrides, Fields
  <2>3. ~AtRest'
    BY <2>1 DEF RestInv, Typing, AtRest, ActiveJob, Active
  <2> QED
    BY <2>1, <2>2, <2>3
    DEF CurrentInv, RenderedIsCurrent, Ingesting, Copying, Storing
<1>4. ASSUME IngestCommit  PROVE CurrentInv'
  <2>1. Ingested(worker.seen).override = worker.seen.override
    BY <1>1 DEF Ingested, Row
  <2> QED  BY <1>1, <1>4, <2>1, SavedTyped, SavesCurrent DEF IngestCommit
<1>5. ASSUME PrepareRead  PROVE CurrentInv'
  BY <1>5, ReadsCurrent DEF PrepareRead
<1>6. ASSUME PrepareCommit  PROVE CurrentInv'
  <2> DEFINE saved == [worker.seen EXCEPT !.workflow = "assets_prepared"]
  <2>1. saved.override = worker.seen.override /\ saved \in Row
    BY <1>1, SavedTyped DEF Row
  <2> QED  BY <1>6, <2>1, SavesCurrent DEF PrepareCommit
<1>7. ASSUME \/ PrepareSkip \/ Hold
             \/ \E outcome \in {"published", "partial", "failed"} : Post(outcome)
      PROVE  CurrentInv'
  <2>1. /\ worker'.context = worker.context
        /\ <<worker.pc, worker'.pc>> \in {<<"ingested", "prepared">>,
                                         <<"stored", "decided">>}
        /\ UNCHANGED <<row, job, rendered, undone>>
    BY <1>1, <1>7 DEF PrepareSkip, Hold, Post, Worker
  <2>2. ~AtRest' /\ (Replaced' <=> Replaced)
    BY <2>1, BusyCurrent
  <2> QED
    BY <2>1, <2>2
    DEF CurrentInv, RenderedIsCurrent, Ingesting, Copying, Storing
<1>8. ASSUME StoreRead  PROVE CurrentInv'
  <2>1. /\ worker.pc = "prepared" /\ worker'.pc = "storing"
        /\ worker'.seen = row /\ worker'.context = worker.context
        /\ rendered' = worker.context
        /\ UNCHANGED <<row, job, undone>>
    BY <1>1, <1>8 DEF StoreRead, Worker
  <2>2. ~AtRest' /\ (Replaced' <=> Replaced)
    BY <2>1, BusyCurrent
  <2> QED
    BY <2>1, <2>2
    DEF CurrentInv, RenderedIsCurrent, Ingesting, Copying, Storing
<1>9. ASSUME StoreCommit  PROVE CurrentInv'
  <2> DEFINE saved == [worker.seen EXCEPT !.workflow = "rendered",
                                          !.revision = runs]
  <2>1. saved.override = worker.seen.override /\ saved \in Row
    BY <1>1, SavedTyped DEF Row
  <2> QED  BY <1>9, <2>1, SavesCurrent DEF StoreCommit
<1>10. ASSUME PublishRead  PROVE CurrentInv'
  BY <1>10, ReadsCurrent DEF PublishRead
<1>11. ASSUME PublishCommit  PROVE CurrentInv'
  <2>1. Decided(worker.seen) \in Row
    BY <1>1, <1>11, SavedTyped DEF PublishCommit, Saves, Typing
  <2>2. Decided(worker.seen).override = worker.seen.override
    BY <1>1 DEF Decided, Row
  <2> QED  BY <1>11, <2>1, <2>2, SavesCurrent DEF PublishCommit
<1>12. ASSUME Complete  PROVE CurrentInv'
  <2>1. /\ worker.pc = "done" /\ worker'.pc = "idle"
        /\ UNCHANGED <<row, rendered, undone>>
    BY <1>12 DEF Complete, Settle, IdleWorker
  <2>2. \A j \in Jobs : job[j].status = "queued" => job'[j].status = "queued"
    BY <1>1, <1>12 DEF Complete, Settle, Typing, RestInv
  <2>3. AtRest' /\ ~undone' => ~Replaced
    BY <2>1, <2>2 DEF Replaced, AtRest, ActiveJob, Active
  <2>4. ~Replaced => Same(row.override, rendered)
    BY <2>1 DEF CurrentInv, Ingesting, Storing
  <2>5. RenderedIsCurrent'
    BY <2>1, <2>3, <2>4 DEF RenderedIsCurrent, Same, Visible
  <2> QED  BY <2>1, <2>5 DEF CurrentInv, Ingesting, Copying, Storing
<1>13. ASSUME Break  PROVE CurrentInv'
  <2>1. PICK s \in {"queued", "failed"} : worker.pc # "idle" /\ Settle(s)
    BY <1>13 DEF Break
  <2>2. worker'.pc = "idle"
    BY <2>1 DEF Settle, IdleWorker
  <2>3. ~AtRest'
    <3>1. CASE s = "failed"
      BY <2>1, <3>1 DEF Settle, AtRest
    <3>2. CASE s = "queued"
      <4>1. job'[worker.job].status = "queued" /\ worker.job \in Jobs
        BY <1>1, <2>1, <3>2 DEF Settle, Typing, Job
      <4> QED  BY <4>1 DEF AtRest, ActiveJob, Active, Jobs
    <3> QED  BY <3>1, <3>2
  <2> QED
    BY <2>2, <2>3
    DEF CurrentInv, RenderedIsCurrent, Ingesting, Copying, Storing
<1> QED
  BY <1>2, <1>3, <1>4, <1>5, <1>6, <1>7, <1>8, <1>9, <1>10, <1>11, <1>12,
     <1>13
  DEF WorkerStep

\* Without caption edits: however edits, reviews and runs overlap and
\* overwrite each other, the files of a reel at rest show the photos, the
\* subtitles and the slides on record, unless a review put former ones back.
THEOREM FilesShowTheRow ==
  ASSUME "descriptions" \notin Editable
  PROVE  Spec => []RenderedIsCurrent
<1>1. RestInv /\ UNCHANGED vars => RestInv'
  BY DEF vars, RestInv, RestIsFinal, IsFinal, AtRest, ActiveJob, Active
<1>2. CurrentInv /\ UNCHANGED vars => CurrentInv'
  BY SameCurrent DEF vars
<1>3. Typing /\ RestInv /\ CurrentInv /\ [Next]_vars
        => (Typing /\ RestInv /\ CurrentInv)'
  BY <1>1, <1>2, TypingNext, RestApi, RestWorker, CurrentApi, CurrentWorker
  DEF Next
<1>4. CurrentInv => RenderedIsCurrent
  BY DEF CurrentInv
<1> QED
  BY TypingInit, RestInit, CurrentInit, <1>3, <1>4, PTL DEF Spec
=============================================================================
