--------------------------- MODULE ReelPublishing ---------------------------
(***************************************************************************)
(* The last stage of a reel_publish job: PublishReelUseCase hands the reel *)
(* to the GoHighLevel publisher, which loads accounts and users, uploads   *)
(* each artifact once and creates one post per platform, and then records  *)
(* what came of it; the worker acknowledges, retries or fails the job, and *)
(* may die between any two of these calls.  Every call of the HTTP API is  *)
(* an action with an arbitrary answer.                                     *)
(***************************************************************************)
EXTENDS Naturals, Sequences, FiniteSets, SequencesExt

CONSTANTS
  Names,          \* what a platform is called in a job
  Platforms,      \* the canonical platform names
  Canonical,      \* normalize_platform_name, a function from Names to Platforms
  Configured,     \* platforms with a SocialPlatformConfig
  OnPoster,       \* platforms whose posts show the poster image
  Verified,       \* platforms whose posts are polled after creation (YouTube)
  Requests,       \* what jobs ask for: sequences of names
  RetryAttempts,  \* GO_HIGH_LEVEL retry attempts
  PollAttempts,   \* post_status_poll_attempts
  MaxAttempts,    \* max_attempts of the job
  MaxCrashes      \* bound: crashes of the worker, and failed recordings

ASSUME NamesAssumption ==
  /\ Canonical \in [Names -> Platforms]
  /\ Requests \subseteq Seq(Names)
  /\ Configured \subseteq Platforms
  /\ OnPoster \subseteq Configured
  /\ Verified \subseteq Configured
ASSUME BoundsAssumption ==
  /\ RetryAttempts \in Nat \ {0}
  /\ PollAttempts \in Nat \ {0}
  /\ MaxAttempts \in Nat \ {0}
  /\ MaxCrashes \in Nat

VARIABLES
  job,       \* the row of jobs: status and attempt_count
  context,   \* the job's publish context: gate, and platforms asked for
  step,      \* where the worker is
  try,       \* attempt of _run_with_retry
  poll,      \* attempt of _verify_created_post
  targets,   \* the platforms of the request, normalised
  accounts,  \* platforms with an active account at the location
  uploaded,  \* artifact kinds in uploaded_media_by_group
  outcomes,  \* outcomes of the targets so far
  raised,    \* how the handler ends
  row,       \* the reels row: publish_status and what publish_details say
  events,    \* types of the outbox events
  posts,     \* per platform, how many posts the service accepted
  doubt,     \* history: platforms with a post that may be there and is not on
             \* record as a success
  faults     \* history: crashes and failed recordings

vars == <<job, context, step, try, poll, targets, accounts, uploaded, outcomes,
          raised, row, events, posts, doubt, faults>>

Kinds == {"reel_video", "poster_image"}
KindOf(p) == IF p \in OnPoster THEN "poster_image" ELSE "reel_video"

\* An answer that is not "ok": no answer (httpx.HTTPError), a status of 500 or
\* more, one of 400 or more, and a body that cannot be used.
BadAnswers == {"lost", "error5xx", "error4xx", "unusable"}

\* _is_retryable_error, and what the worker's _is_retryable_external_error
\* says of the same error.
Retryable(answer) == answer \in {"lost", "error5xx"}

\* _should_retry.
TriesAgain(answer) == Retryable(answer) /\ try < RetryAttempts

\* The outcome of a post is the status the service gives it.  "published" stands
\* for every status that counts as a success (scheduled, queued, created, ...),
\* and "other_status" for those that do not and are refused by nobody (draft,
\* in_progress, cancelled, ...).
Outcome == [platform : Platforms,
            outcome : {"published", "failed", "verification_pending",
                       "other_status", "skipped_unsupported_platform",
                       "skipped_missing_account"},
            retryable : BOOLEAN]

Skipped(p, why) == [platform |-> p, outcome |-> why, retryable |-> FALSE]
Succeeded(p) == [platform |-> p, outcome |-> "published", retryable |-> FALSE]
Failed(p, again) == [platform |-> p, outcome |-> "failed", retryable |-> again]
Pending(p) ==
  [platform |-> p, outcome |-> "verification_pending", retryable |-> FALSE]
Kept(p) == [platform |-> p, outcome |-> "other_status", retryable |-> FALSE]

\* PlatformPublishOutcome.is_success.
IsSuccess(o) == o.outcome = "published"

Successful(os) == {os[k].platform : k \in {i \in DOMAIN os : IsSuccess(os[i])}}

\* Mutant of AggregateStatus: one success is enough.
GenerousStatus(asked, os) ==
  IF asked = <<>> THEN "skipped"
  ELSE IF Successful(os) = {} THEN "failed" ELSE "published"

\* MultiPlatformPublishResult.aggregate_status: of the outcomes that count, all
\* are successes, some or none.
AggregateStatus(asked, os) ==
  LET effective == {k \in DOMAIN os : os[k].outcome # "skipped_missing_account"}
      won == {k \in DOMAIN os : IsSuccess(os[k])}
  IN  CASE asked = <<>> -> "skipped"
        [] asked # <<>> /\ won = {} -> "failed"
        [] asked # <<>> /\ won # {} /\ won = effective -> "published"
        [] asked # <<>> /\ won # {} /\ won # effective -> "partial"

\* MultiPlatformPublishResult.should_retry.
ShouldRetry(os) ==
  /\ Successful(os) = {}
  /\ \E k \in DOMAIN os : os[k].retryable

\* _build_publish_targets drops platforms without a configuration; when none
\* is left the request falls back to the names themselves.
Planned(names) ==
  LET known == {n \in Range(names) : Canonical[n] \in Configured}
  IN  IF known = {} THEN Range(names) ELSE known

\* Mutant of NormaliseTargets: canonical names, repeated as they come.
AllTargets(names) ==
  FoldLeft(LAMBDA done, n : IF n \notin Planned(names) THEN done
                            ELSE Append(done, Canonical[n]),
           <<>>, names)

\* normalise_publish_targets: the canonical names of the planned ones, each once.
NormaliseTargets(names) ==
  FoldLeft(LAMBDA done, n : IF \/ n \notin Planned(names)
                               \/ \E k \in DOMAIN done : done[k] = Canonical[n]
                              THEN done ELSE Append(done, Canonical[n]),
           <<>>, names)

Context == [gate : {"post", "review", "none"}, names : Requests]

TypeOK ==
  /\ job \in [status : {"queued", "processing", "completed", "failed"},
              attempts : Nat]
  /\ context \in Context
  /\ step \in {"idle", "gate", "plan", "accounts", "users", "target", "upload",
               "post", "verify", "record", "ack"}
  /\ try \in 1..RetryAttempts
  /\ poll \in 1..PollAttempts
  /\ targets \in Seq(Platforms)
  /\ accounts \subseteq Platforms
  /\ uploaded \subseteq Kinds
  /\ outcomes \in Seq(Outcome)
  /\ raised \in [how : {"no", "transient", "permanent"}, result : BOOLEAN]
  /\ row \in [publish_status : {"pending", "skipped", "pending_review", "failed",
                                "published", "partial"},
              details : Seq(Outcome)]
  /\ events \subseteq {"publish_skipped", "review_requested", "publish_failed",
                       "publish_completed"}
  /\ posts \in [Platforms -> Nat]
  /\ doubt \subseteq Platforms
  /\ faults \in 0..MaxCrashes

NotRaised == [how |-> "no", result |-> FALSE]

Init ==
  /\ job = [status |-> "queued", attempts |-> 0]
  /\ context \in Context
  /\ step = "idle"
  /\ try = 1 /\ poll = 1
  /\ targets = <<>> /\ accounts = {} /\ uploaded = {} /\ outcomes = <<>>
  /\ raised = NotRaised
  /\ row = [publish_status |-> "pending", details |-> <<>>]
  /\ events = {}
  /\ posts = [p \in Platforms |-> 0]
  /\ doubt = {}
  /\ faults = 0

---------------------------------------------------------------------------
(* The worker and PublishReelUseCase up to the call of the publisher.      *)

Current == targets[Len(outcomes) + 1]

\* Leave the publisher with an error: how the worker will class it, and
\* whether it carries the outcomes (SocialPublishingResultError).
Raise(how, result) ==
  /\ raised' = [how |-> how, result |-> result]
  /\ step' = "record"

Class(answer) == IF Retryable(answer) THEN "transient" ELSE "permanent"

Record(status, details, event) ==
  /\ row' = [publish_status |-> status, details |-> details]
  /\ events' = events \cup {event}
  /\ step' = "ack"

\* The claim; ingest, prepare, render and store (module ReelWorkflow) are over
\* when the publisher starts, and every run starts from an empty batch.
Claim ==
  /\ job.status = "queued" /\ step = "idle"
  /\ job' = [status |-> "processing", attempts |-> job.attempts + 1]
  /\ step' = "gate"
  /\ try' = 1 /\ poll' = 1
  /\ targets' = <<>> /\ accounts' = {} /\ uploaded' = {} /\ outcomes' = <<>>
  /\ raised' = NotRaised
  /\ UNCHANGED <<context, row, events, posts, doubt, faults>>

\* _publish_externally: no publish context; then the gate before the try.
SkipOrHold ==
  /\ step = "gate" /\ context.gate # "post"
  /\ IF context.gate = "none" THEN Record("skipped", <<>>, "publish_skipped")
                      ELSE Record("pending_review", <<>>, "review_requested")
  /\ UNCHANGED <<job, context, try, poll, targets, accounts, uploaded, outcomes,
                 raised, posts, doubt, faults>>

EnterPublisher ==
  /\ step = "gate" /\ context.gate = "post"
  /\ step' = "plan"
  /\ UNCHANGED <<job, context, try, poll, targets, accounts, uploaded, outcomes,
                 raised, row, events, posts, doubt, faults>>

\* _build_publish_targets and the head of publish_media_to_platforms.
Plan ==
  /\ step = "plan"
  /\ targets' = NormaliseTargets(context.names)
  /\ step' = IF targets' = <<>> THEN "record" ELSE "accounts"
  /\ UNCHANGED <<job, context, try, poll, accounts, uploaded, outcomes, raised, row,
                 events, posts, doubt, faults>>

\* The poster has to be rendered first and there are no images, or an artifact
\* kind nobody can post: a SocialPublishingError before any call.
PlanFails ==
  /\ step = "plan"
  /\ \E n \in Planned(context.names) : Canonical[n] \in OnPoster
  /\ Raise("permanent", FALSE)
  /\ UNCHANGED <<job, context, try, poll, targets, accounts, uploaded, outcomes, row,
                 events, posts, doubt, faults>>

---------------------------------------------------------------------------
(* publish_media_to_platforms: the calls that every target needs.          *)

\* The except branch around both calls: every platform failed.
BatchFails(answer) ==
  /\ outcomes' = [k \in DOMAIN targets |-> Failed(targets[k], Retryable(answer))]
  /\ Raise(Class(answer), TRUE)

\* One call under _run_with_retry got a bad answer: again, or its error leaves.
TryAgain ==
  /\ try' = try + 1
  /\ UNCHANGED <<step, outcomes, raised>>

LoadAccounts ==
  /\ step = "accounts"
  /\ \/ /\ accounts' \in SUBSET Platforms
        /\ step' = "users" /\ try' = 1
        /\ UNCHANGED <<outcomes, raised>>
     \/ \E answer \in BadAnswers :
          /\ IF TriesAgain(answer) THEN TryAgain
             ELSE BatchFails(answer) /\ try' = 1
          /\ UNCHANGED accounts
  /\ UNCHANGED <<job, context, poll, targets, uploaded, row, events, posts, doubt,
                 faults>>

\* A location without users is refused like a bad answer.
LoadUsers ==
  /\ step = "users"
  /\ \/ /\ step' = "target" /\ try' = 1
        /\ UNCHANGED <<outcomes, raised>>
     \/ \E answer \in BadAnswers :
          IF TriesAgain(answer) THEN TryAgain
          ELSE BatchFails(answer) /\ try' = 1
  /\ UNCHANGED <<job, context, poll, targets, accounts, uploaded, row, events, posts,
                 doubt, faults>>

---------------------------------------------------------------------------
(* The loop over the targets.                                              *)

\* The outcome of the current target; the loop goes on.
Close(outcome) ==
  /\ outcomes' = Append(outcomes, outcome)
  /\ step' = "target"
  /\ try' = 1 /\ poll' = 1

SkipTarget ==
  /\ step = "target" /\ Len(outcomes) < Len(targets)
  /\ \/ /\ Current \notin Configured
        /\ Close(Skipped(Current, "skipped_unsupported_platform"))
     \/ /\ Current \in Configured \ accounts
        /\ Close(Skipped(Current, "skipped_missing_account"))
  /\ UNCHANGED <<job, context, targets, accounts, uploaded, raised, row, events, posts,
                 doubt, faults>>

TakeTarget ==
  /\ step = "target" /\ Len(outcomes) < Len(targets)
  /\ Current \in Configured \cap accounts
  /\ step' = IF KindOf(Current) \in uploaded THEN "post" ELSE "upload"
  /\ UNCHANGED <<job, context, try, poll, targets, accounts, uploaded, outcomes, raised,
                 row, events, posts, doubt, faults>>

\* The upload stands outside the try of its target: its error leaves the loop,
\* and with it the outcomes of the targets before.
Upload ==
  /\ step = "upload"
  /\ \/ /\ uploaded' = uploaded \cup {KindOf(Current)}
        /\ step' = "post" /\ try' = 1
        /\ UNCHANGED <<outcomes, raised, doubt>>
     \/ \E answer \in BadAnswers :
          /\ IF TriesAgain(answer) THEN TryAgain /\ UNCHANGED doubt
             ELSE /\ Raise(Class(answer), FALSE)
                  /\ doubt' = doubt \cup Successful(outcomes)
                  /\ try' = 1
                  /\ UNCHANGED outcomes
          /\ UNCHANGED uploaded
  /\ UNCHANGED <<job, context, poll, targets, accounts, row, events, posts, faults>>

\* A bad answer while the current post is created or verified: the whole of
\* _create_post again, or the target fails.
PostFails(answer) ==
  IF TriesAgain(answer)
    THEN /\ step' = "post"
         /\ try' = try + 1 /\ poll' = 1
         /\ UNCHANGED outcomes
    ELSE Close(Failed(Current, Retryable(answer)))

\* The POST of create_social_post and _validate_created_post.  A post that is
\* not verified, or has no id to ask for, keeps the status of the answer.  The
\* service may have accepted the post whatever the answer says, except when it
\* refuses it.
Post ==
  /\ step = "post"
  /\ \/ /\ posts' = [posts EXCEPT ![Current] = @ + 1]
        /\ \/ /\ Current \in Verified
              /\ step' = "verify" /\ poll' = 1
              /\ UNCHANGED <<try, outcomes, doubt>>
           \/ Close(Succeeded(Current)) /\ UNCHANGED doubt
           \/ Close(Kept(Current)) /\ doubt' = doubt \cup {Current}
     \/ \E answer \in BadAnswers, accepted \in BOOLEAN :
          /\ accepted => answer # "error4xx"
          /\ posts' = IF accepted THEN [posts EXCEPT ![Current] = @ + 1] ELSE posts
          /\ doubt' = IF accepted THEN doubt \cup {Current} ELSE doubt
          /\ PostFails(answer)
  /\ UNCHANGED <<job, context, targets, accounts, uploaded, raised, row, events, faults>>

\* _verify_created_post: GET until the status is final, at most PollAttempts
\* times.  A transient error of the GET repeats the POST.
Verify ==
  /\ step = "verify"
  /\ \/ Close(Succeeded(Current)) /\ UNCHANGED doubt
     \/ Close(Failed(Current, FALSE)) /\ doubt' = doubt \cup {Current}
     \/ IF poll < PollAttempts
          THEN /\ poll' = poll + 1
               /\ UNCHANGED <<step, try, outcomes, doubt>>
          ELSE Close(Pending(Current)) /\ doubt' = doubt \cup {Current}
     \/ \E answer \in BadAnswers :
          PostFails(answer) /\ doubt' = doubt \cup {Current}
  /\ UNCHANGED <<job, context, targets, accounts, uploaded, raised, row, events, posts,
                 faults>>

\* The end of the loop.
Finish ==
  /\ step = "target" /\ Len(outcomes) = Len(targets)
  /\ IF Successful(outcomes) # {}
       THEN step' = "record" /\ UNCHANGED raised
       ELSE Raise(IF ShouldRetry(outcomes) THEN "transient" ELSE "permanent", TRUE)
  /\ UNCHANGED <<job, context, try, poll, targets, accounts, uploaded, outcomes, row,
                 events, posts, doubt, faults>>

---------------------------------------------------------------------------
(* _persist_with_uow and the acknowledgement.                              *)

\* One transaction writes publish_status, workflow_state, the revision and the
\* outbox event; then the error, if there is one, goes on to the worker.
RecordResult ==
  /\ step = "record"
  /\ IF raised.how # "no"
       THEN Record("failed", IF raised.result THEN outcomes ELSE <<>>,
                   "publish_failed")
       ELSE LET status == AggregateStatus(targets, outcomes)
            IN  Record(status, outcomes,
                       IF status \in {"published", "partial"}
                         THEN "publish_completed" ELSE "publish_failed")
  /\ UNCHANGED <<job, context, try, poll, targets, accounts, uploaded, outcomes, raised,
                 posts, doubt, faults>>

\* The transaction fails: its error replaces whatever was raised, and is none
\* the worker would retry.
RecordFails ==
  /\ step = "record" /\ faults < MaxCrashes
  /\ raised' = [how |-> "permanent", result |-> FALSE]
  /\ step' = "ack"
  /\ faults' = faults + 1
  /\ doubt' = doubt \cup Successful(outcomes)
  /\ UNCHANGED <<job, context, try, poll, targets, accounts, uploaded, outcomes, row,
                 events, posts>>

\* Mutant of Ack: a retryable error without attempts left is not an error.
AckQuietly ==
  /\ step = "ack"
  /\ job' = [job EXCEPT !.status =
       IF raised.how = "permanent" THEN "failed"
       ELSE IF raised.how = "transient" /\ job.attempts < MaxAttempts
              THEN "queued" ELSE "completed"]
  /\ step' = "idle"
  /\ UNCHANGED <<context, try, poll, targets, accounts, uploaded, outcomes, raised, row,
                 events, posts, doubt, faults>>

\* _process_next_job after the handler, and _handle_job_failure.
Ack ==
  /\ step = "ack"
  /\ job' = [job EXCEPT !.status =
       IF raised.how = "no" THEN "completed"
       ELSE IF raised.how = "transient" /\ job.attempts < MaxAttempts
              THEN "queued" ELSE "failed"]
  /\ step' = "idle"
  /\ UNCHANGED <<context, try, poll, targets, accounts, uploaded, outcomes, raised, row,
                 events, posts, doubt, faults>>

\* The process dies; what it had posted is forgotten unless it was recorded and
\* the job acknowledged.
Crash ==
  /\ step # "idle" /\ faults < MaxCrashes
  /\ step' = "idle"
  /\ faults' = faults + 1
  /\ doubt' = doubt \cup {p \in Platforms : posts[p] > 0}
  /\ UNCHANGED <<job, context, try, poll, targets, accounts, uploaded, outcomes, raised,
                 row, events, posts>>

\* Mutant of Recover: a job without attempts left is not recovered.
RecoverWithinAttempts ==
  /\ job.status = "processing" /\ step = "idle" /\ job.attempts < MaxAttempts
  /\ job' = [job EXCEPT !.status = "queued"]
  /\ UNCHANGED <<context, step, try, poll, targets, accounts, uploaded, outcomes, raised,
                 row, events, posts, doubt, faults>>

\* recover_expired_processing_jobs of the next start.
Recover ==
  /\ job.status = "processing" /\ step = "idle"
  /\ job' = [job EXCEPT !.status = "queued"]
  /\ UNCHANGED <<context, step, try, poll, targets, accounts, uploaded, outcomes, raised,
                 row, events, posts, doubt, faults>>

Worker ==
  \/ Claim \/ SkipOrHold \/ EnterPublisher \/ Plan \/ PlanFails \/ LoadAccounts
  \/ LoadUsers \/ SkipTarget \/ TakeTarget \/ Upload \/ Post \/ Verify \/ Finish
  \/ RecordResult \/ RecordFails \/ Ack \/ Recover

Next == Worker \/ Crash

Spec == Init /\ [][Next]_vars /\ WF_vars(Worker)

---------------------------------------------------------------------------
(* Properties.                                                             *)

\* The record never claims more than happened: a platform recorded as a
\* success was posted to, a "published" reel leaves out only platforms that
\* have no account, and "published" or "partial" means that some post exists.
RecordedPostsExist ==
  /\ \A k \in DOMAIN row.details :
       IsSuccess(row.details[k]) => posts[row.details[k].platform] > 0
  /\ row.publish_status = "published" =>
       \A n \in Range(context.names) : Canonical[n] \in Configured =>
         \/ posts[Canonical[n]] > 0
         \/ Skipped(Canonical[n], "skipped_missing_account") \in Range(row.details)
  /\ row.publish_status \in {"published", "partial"} =>
       \E p \in Platforms : posts[p] > 0

\* The job and the reels row agree on how it ended, also after earlier runs of
\* the job that recorded something else: a completed job leaves no failed or
\* pending row, a failed one a failed row unless its record could not be written.
JobAgreesWithRow ==
  /\ job.status = "completed" =>
       row.publish_status \in {"skipped", "pending_review", "published", "partial"}
  /\ job.status = "failed" => row.publish_status = "failed" \/ faults > 0
  /\ row.publish_status \in {"published", "partial"} => "publish_completed" \in events

\* What is recorded of a publication is true, of the posts and of the job.
\* (The type invariant is checked with it.)
RecordsAreTrue == TypeOK /\ RecordedPostsExist /\ JobAgreesWithRow

\* Neither the retries inside a run, nor the runs of a retried job, nor a name
\* asked for twice repeat a post that was made and known for a success.  What is
\* repeated was left open: an answer that did not tell whether the post exists,
\* a post whose status is no success, an error or a crash that lost the record.
\* And however the calls of creation and verification fail and are retried, a run
\* posts at most RetryAttempts times to a platform.
RepeatsHaveACause ==
  \A p \in Platforms : /\ posts[p] > 1 => p \in doubt
                       /\ posts[p] <= RetryAttempts * job.attempts

\* Retries, polls, crashes and recoveries come to an end: the job is completed
\* or failed.
JobSettles == <>[](job.status \in {"completed", "failed"})
=============================================================================
