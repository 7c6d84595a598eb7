---------------------------- MODULE ReelWorkflow ----------------------------
(***************************************************************************)
(* The life of one reel: its row in the reels table, the reviewers who     *)
(* approve, reject, edit and regenerate it through the API, and the        *)
(* pipeline that ingests, prepares, renders, stores and publishes it in    *)
(* reel_publish jobs.                                                      *)
(*                                                                         *)
(* ReelStateRepository.save writes every column of the row. A writer reads *)
(* the row first, without a lock, and saves a changed copy of what it      *)
(* read, so what somebody else committed in between is overwritten. Each   *)
(* writer is therefore two actions here, one that reads and one that       *)
(* saves and commits.                                                      *)
(*                                                                         *)
(* The queue is the one PropertyQueue promises, for one property: a new    *)
(* job replaces the waiting ones, and one job runs at a time.              *)
(***************************************************************************)
EXTENDS Naturals

CONSTANTS
  MaxJobs,        \* bound: jobs ever requested
  MaxRuns,        \* bound: how often a job is taken up, retries included
  MaxEdits,       \* bound: override edits
  Editable,       \* the overrides the editor changes
  Requests,       \* what else is asked for: webhook, approve, reject, manual
  Gating,         \* the values automation.approval_required takes
  ReviewWorkflow  \* REVIEW_WORKFLOW_ENABLED

\* descriptions_override, music_id, photos_override, subtitles_override and
\* manifest_override.
Fields == {"descriptions", "music", "photos", "subtitles", "slides"}

ASSUME ReelWorkflowAssumption ==
  /\ MaxJobs \in Nat /\ MaxRuns \in Nat /\ MaxEdits \in Nat
  /\ Editable \subseteq Fields
  /\ Requests \subseteq {"webhook", "approve", "reject", "manual"}
  /\ Gating \subseteq BOOLEAN
  /\ ReviewWorkflow \in BOOLEAN

Jobs       == 1 .. MaxJobs
NoJob      == 0
NoRevision == 0
Unset      == 0   \* a NULL override; any other number names an edit

VARIABLES
  row,      \* the committed reels row
  job,      \* the jobs of this property, by id
  session,  \* the API transaction under way
  worker,   \* the job a worker runs, and how far it is
  runs,     \* jobs taken up so far; a run renders the revision of its number
  edits,    \* edits so far
  posted,   \* revisions that were posted to a platform
  rendered, \* the overrides of the media files on disk
  ended,    \* how the last job ended
  undone,   \* a review's save put overrides back that no run has read since
  late      \* the last approval asked for no job, and none publishes for it

vars == <<row, job, session, worker, runs, edits, posted, rendered, ended, undone, late>>

-----------------------------------------------------------------------------
WorkflowStates == {"none", "ingested", "assets_prepared", "rendered",
                   "awaiting_review", "approved", "rejected", "published",
                   "partial", "failed"}
PublishStatuses == {"", "pending", "pending_review", "pending_publish",
                    "rejected", "published", "partial", "failed"}

Overrides == [Fields -> 0 .. MaxEdits]
NoOverrides == [f \in Fields |-> Unset]

Row == [workflow : WorkflowStates,
        publish  : PublishStatuses,
        revision : 0 .. MaxRuns,
        override : Overrides]

EmptyRow == [workflow |-> "none", publish |-> "", revision |-> NoRevision,
             override |-> NoOverrides]

Job == [status : {"absent", "queued", "processing", "completed", "failed",
                  "superseded"},
        gated  : BOOLEAN,         \* publish_context.approval_required
        music  : 0 .. MaxEdits]   \* publish_context.override_music_track_id

Session == [op     : {"none", "approve", "reject", "edit"},
            pc     : {"idle", "read", "saved"},
            seen   : Row,         \* the row as it was read
            field  : Fields,      \* which override is edited
            replay : BOOLEAN]     \* an active job was found

IdleSession == [op |-> "none", pc |-> "idle", seen |-> EmptyRow,
                field |-> "photos", replay |-> FALSE]

Worker == [pc      : {"idle", "claimed", "ingesting", "ingested", "preparing",
                      "prepared", "storing", "stored", "decided",
                      "publishing", "done"},
           job     : Jobs \cup {NoJob},
           seen    : Row,
           context : Overrides,   \* PropertyContext
           outcome : {"none", "awaiting_review", "published", "partial",
                      "failed"}]

IdleWorker == [pc |-> "idle", job |-> NoJob, seen |-> EmptyRow,
               context |-> NoOverrides, outcome |-> "none"]

Exists    == row.workflow # "none"
Active(j) == job[j].status \in {"queued", "processing"}
ActiveJob == \E j \in Jobs : Active(j)

\* A transaction that saved the row keeps it locked until it commits.
RowLocked == session.pc = "saved"

-----------------------------------------------------------------------------
(* The queue.                                                              *)

IsNextJob(j) == /\ job[j].status = "absent"
                /\ \A k \in Jobs : k < j => job[k].status # "absent"
RoomForJob   == \E j \in Jobs : IsNextJob(j)

\* supersede_queued_jobs and enqueue_job
Enqueued(j, gated, music) ==
  [k \in Jobs |->
     IF k = j THEN [status |-> "queued", gated |-> gated, music |-> music]
     ELSE IF job[k].status = "queued" THEN [job[k] EXCEPT !.status = "superseded"]
          ELSE job[k]]

-----------------------------------------------------------------------------
(* The API. Its endpoints never await inside their transaction, and one API *)
(* process serves them: they do not interleave with each other, only with  *)
(* the worker.                                                             *)

Webhook(j, gated) ==
  /\ "webhook" \in Requests /\ session.pc = "idle"
  /\ IsNextJob(j)
  /\ job' = Enqueued(j, gated, Unset)
  /\ UNCHANGED <<row, session, worker, runs, edits, posted, rendered, ended, undone, late>>

\* RegenerateReelUseCase, mode manual_only: refused for a published reel and
\* while a job is under way; the row is not touched.
Manual(j) ==
  /\ "manual" \in Requests /\ session.pc = "idle"
  /\ Exists
  /\ row.publish # "published"
  /\ ~ActiveJob
  /\ IsNextJob(j)
  /\ job' = Enqueued(j, FALSE, row.override["music"])
  /\ UNCHANGED <<row, session, worker, runs, edits, posted, rendered, ended, undone, late>>

Open(op, field) ==
  session' = [IdleSession EXCEPT !.op = op, !.pc = "read", !.seen = row,
                                 !.field = field]

Approve ==
  /\ "approve" \in Requests /\ session.pc = "idle"
  /\ Exists /\ RoomForJob
  /\ Open("approve", IdleSession.field)
  /\ UNCHANGED <<row, job, worker, runs, edits, posted, rendered, ended, undone, late>>

\* The row is saved, and locked, before the queue is looked at.
ApproveSave ==
  /\ session.op = "approve" /\ session.pc = "read"
  /\ session' = [session EXCEPT !.pc = "saved", !.replay = ActiveJob]
  /\ UNCHANGED <<row, job, worker, runs, edits, posted, rendered, ended, undone, late>>

Approved(r) == [r EXCEPT !.workflow = "approved", !.publish = "pending_publish"]

\* No job waits, and the one under way, if any, has recorded its outcome: what
\* it has still to do is to complete.
NobodyPublishes == /\ \A j \in Jobs : job[j].status # "queued"
                   /\ worker.pc \in {"idle", "done"}

\* An approval that found an active job asks for none, even when that job has
\* nothing left to publish.
ApproveCommit(j) ==
  /\ session.op = "approve" /\ session.pc = "saved"
  /\ IsNextJob(j)
  /\ row' = Approved(session.seen)
  /\ job' = IF session.replay THEN job
            ELSE Enqueued(j, FALSE, session.seen.override["music"])
  /\ session' = IdleSession
  /\ undone' = (undone \/ session.seen.override # row.override)
  /\ late' = (session.replay /\ NobodyPublishes)
  /\ UNCHANGED <<worker, runs, edits, posted, rendered, ended>>

Reject ==
  /\ "reject" \in Requests /\ session.pc = "idle"
  /\ Exists
  /\ Open("reject", IdleSession.field)
  /\ UNCHANGED <<row, job, worker, runs, edits, posted, rendered, ended, undone, late>>

Rejected(r) == [r EXCEPT !.workflow = "rejected", !.publish = "rejected"]

\* RejectReelUseCase enqueues no job, and cancels none.
RejectCommit ==
  /\ session.op = "reject" /\ session.pc = "read"
  /\ row' = Rejected(session.seen)
  /\ session' = IdleSession
  /\ undone' = (undone \/ session.seen.override # row.override)
  /\ UNCHANGED <<job, worker, runs, edits, posted, rendered, ended, late>>

\* Two lock rules: by the statuses that stay editable, and by those that do not.
Unlocked(f) ==
  IF f \in {"descriptions", "music"}
  THEN row.publish \in {"", "pending", "pending_review"}
  ELSE row.workflow # "approved" /\ row.publish # "published"

Edit(f) ==
  /\ session.pc = "idle"
  /\ Exists /\ RoomForJob /\ edits < MaxEdits
  /\ Unlocked(f)
  /\ Open("edit", f)
  /\ UNCHANGED <<row, job, worker, runs, edits, posted, rendered, ended, undone, late>>

\* The overrides an edit copies from the row it read; it leaves the others out
\* of the ReelState it saves, which makes them NULL.
Kept(f) == CASE f = "descriptions" -> {}
             [] f = "music"        -> {"descriptions"}
             [] f = "photos"       -> {"descriptions", "music"}
             [] f = "subtitles"    -> {"descriptions", "music", "photos"}
             [] f = "slides"       -> {"descriptions", "music", "photos",
                                       "subtitles"}

Edited(r, f, value) ==
  [r EXCEPT !.override = [g \in Fields |-> IF g = f THEN value
                                           ELSE IF g \in Kept(f) THEN r.override[g]
                                                ELSE Unset]]

\* Mutant of EditJob: the edit is saved and no render is asked for.
SilentEdit(j, f, music) == job' = job

\* A descriptions edit waits for the next job; every other asks for one, which
\* publishes without approval.
EditJob(j, f, music) ==
  job' = IF f = "descriptions" THEN job ELSE Enqueued(j, FALSE, music)

EditCommit(j) ==
  LET f == session.field
      saved == Edited(session.seen, f, edits + 1)
  IN /\ session.op = "edit" /\ session.pc = "read"
     /\ IsNextJob(j)
     /\ row' = saved
     /\ EditJob(j, f, saved.override["music"])
     /\ edits' = edits + 1
     /\ session' = IdleSession
     /\ UNCHANGED <<worker, runs, posted, rendered, ended, undone, late>>

-----------------------------------------------------------------------------
(* The pipeline: ReelPipeline.handle, one use case and one transaction after *)
(* the other.                                                              *)

\* The worker reads the row ...
Reads(from, to) ==
  /\ worker.pc = from
  /\ worker' = [worker EXCEPT !.pc = to, !.seen = row]
  /\ UNCHANGED <<row, job, session, runs, edits, posted, rendered, ended, undone, late>>

\* ... and saves a copy of it, with what this step changes.
Saves(from, to, saved) ==
  /\ worker.pc = from
  /\ ~RowLocked
  /\ row' = saved
  /\ worker' = [worker EXCEPT !.pc = to, !.seen = EmptyRow]
  /\ UNCHANGED <<job, session, runs, edits, posted, ended, undone, late>>

Claim(j) ==
  /\ worker.pc = "idle"
  /\ job[j].status = "queued"
  /\ runs < MaxRuns
  /\ job' = [job EXCEPT ![j].status = "processing"]
  /\ worker' = [IdleWorker EXCEPT !.pc = "claimed", !.job = j]
  /\ runs' = runs + 1
  /\ UNCHANGED <<row, session, edits, posted, rendered, ended, undone, late>>

\* Photos, subtitles, slides and descriptions come from the row, the music
\* from the job.
IngestRead ==
  /\ worker.pc = "claimed"
  /\ worker' = [worker EXCEPT !.pc = "ingesting", !.seen = row,
                  !.context = [row.override EXCEPT !["music"] = job[worker.job].music]]
  /\ undone' = FALSE
  /\ UNCHANGED <<row, job, session, runs, edits, posted, rendered, ended, late>>

\* Mutant of Ingested: what is on record of the last publication is kept.
HistoryIngested(r) == [r EXCEPT !.workflow = "ingested"]

\* Every ingest asks for a render: the revision is dropped.
Ingested(r) == [r EXCEPT !.workflow = "ingested", !.publish = "pending",
                         !.revision = NoRevision]

IngestCommit ==
  /\ Saves("ingesting", "ingested", Ingested(worker.seen))
  /\ UNCHANGED rendered

PrepareRead == Reads("ingested", "preparing")

PrepareCommit ==
  /\ Saves("preparing", "prepared",
           [worker.seen EXCEPT !.workflow = "assets_prepared"])
  /\ UNCHANGED rendered

\* The selected photos of an earlier run are still there.
PrepareSkip ==
  /\ worker.pc = "ingested"
  /\ worker' = [worker EXCEPT !.pc = "prepared"]
  /\ UNCHANGED <<row, job, session, runs, edits, posted, rendered, ended, undone, late>>

\* The media files replace those of the last render, then their transaction
\* begins.
StoreRead ==
  /\ worker.pc = "prepared"
  /\ worker' = [worker EXCEPT !.pc = "storing", !.seen = row]
  /\ rendered' = worker.context
  /\ UNCHANGED <<row, job, session, runs, edits, posted, ended, undone, late>>

StoreCommit ==
  /\ Saves("storing", "stored",
           [worker.seen EXCEPT !.workflow = "rendered", !.revision = runs])
  /\ UNCHANGED rendered

Held == job[worker.job].gated \/ ReviewWorkflow

Hold ==
  /\ worker.pc = "stored" /\ Held
  /\ worker' = [worker EXCEPT !.pc = "decided", !.outcome = "awaiting_review"]
  /\ UNCHANGED <<row, job, session, runs, edits, posted, rendered, ended, undone, late>>

\* The platforms are called outside any transaction. A publication that fails
\* may have reached some of them.
Post(outcome) ==
  /\ worker.pc = "stored" /\ ~Held
  /\ worker' = [worker EXCEPT !.pc = "decided", !.outcome = outcome]
  /\ \/ posted' = posted \cup {runs}
     \/ outcome = "failed" /\ posted' = posted
  /\ UNCHANGED <<row, job, session, runs, edits, rendered, ended, undone, late>>

PublishRead == Reads("decided", "publishing")

\* update_publish_status and update_workflow_state
Decided(r) ==
  [r EXCEPT !.workflow = worker.outcome, !.revision = runs,
            !.publish = IF worker.outcome = "awaiting_review"
                        THEN "pending_review" ELSE worker.outcome]

PublishCommit ==
  /\ Saves("publishing", "done", Decided(worker.seen))
  /\ UNCHANGED rendered

Settle(status) ==
  /\ job' = [job EXCEPT ![worker.job].status = status]
  /\ worker' = IdleWorker
  /\ ended' = IF status = "queued" THEN ended ELSE status
  /\ UNCHANGED <<row, session, runs, edits, posted, rendered, undone, late>>

Complete == worker.pc = "done" /\ worker.outcome # "failed" /\ Settle("completed")

\* The handler raises at some stage, or the process dies and its lease is
\* recovered: the job is queued again, or it has failed.
Break ==
  /\ worker.pc # "idle"
  /\ \E status \in {"queued", "failed"} : Settle(status)

-----------------------------------------------------------------------------
Init ==
  /\ row = EmptyRow
  /\ job = [j \in Jobs |-> [status |-> "absent", gated |-> FALSE,
                            music |-> Unset]]
  /\ session = IdleSession
  /\ worker = IdleWorker
  /\ runs = 0 /\ edits = 0
  /\ posted = {}
  /\ rendered = NoOverrides
  /\ ended = "none"
  /\ undone = FALSE
  /\ late = FALSE

ApiStep ==
  \/ \E j \in Jobs : \/ \E gated \in Gating : Webhook(j, gated)
                     \/ Manual(j)
                     \/ ApproveCommit(j)
                     \/ EditCommit(j)
  \/ Approve
  \/ ApproveSave
  \/ Reject
  \/ RejectCommit
  \/ \E f \in Editable : Edit(f)

WorkerStep ==
  \/ \E j \in Jobs : Claim(j)
  \/ IngestRead
  \/ IngestCommit
  \/ PrepareRead
  \/ PrepareCommit
  \/ PrepareSkip
  \/ StoreRead
  \/ StoreCommit
  \/ Hold
  \/ \E outcome \in {"published", "partial", "failed"} : Post(outcome)
  \/ PublishRead
  \/ PublishCommit
  \/ Complete
  \/ Break

Next == ApiStep \/ WorkerStep

Spec == Init /\ [][Next]_vars
-----------------------------------------------------------------------------
TypeOK ==
  /\ row \in Row
  /\ job \in [Jobs -> Job]
  /\ session \in Session
  /\ worker \in Worker
  /\ runs \in 0 .. MaxRuns
  /\ edits \in 0 .. MaxEdits
  /\ posted \subseteq 1 .. MaxRuns
  /\ rendered \in Overrides
  /\ ended \in {"none", "completed", "failed"}
  /\ undone \in BOOLEAN
  /\ late \in BOOLEAN

\* Writers overwrite each other's columns; still a row that says published
\* names a revision that was posted.
PublishedWasPosted ==
  row.publish = "published" => row.revision \in posted

\* Nothing is under way, and the last job did what it was asked to.
AtRest == ~ActiveJob /\ ended = "completed"

\* The states in which nobody is expected to render or publish the reel any
\* more: "approved" is one only after an approval that came too late.
IsFinal == \/ row.workflow \in {"awaiting_review", "rejected", "published", "partial"}
           \/ row.workflow = "approved" /\ late

\* A reel at rest never stays in a state in which somebody is still expected
\* to render or publish it. An approval that finds an active job asks for none
\* (docs/API.md:1219-1225); the job it relies on settles the reel, as awaiting
\* review again when it was a gated one, unless it had made its last write
\* before: then, and only then, the reel stays approved for good.
RestIsFinal == AtRest => IsFinal

\* The media files of a reel at rest show the overrides on record: no edit
\* waits for a render nobody asked for, unless a review that read the row
\* before an ingest changed its overrides saved the former ones back.
RenderedIsCurrent ==
  AtRest /\ ~undone =>
    \A f \in {"photos", "subtitles", "slides"} :
      rendered[f] = row.override[f]
=============================================================================
