# 4robert: a TLA+ model of the reel pipeline

4robert turns WordPress property webhooks into short videos ("reels"), lets
agencies review them, and publishes them to social platforms through
GoHighLevel. An API process accepts webhooks and editor requests and writes
them to PostgreSQL; worker processes drain a `jobs` table and run the pipeline.
What is hard about it is what happens *between* transactions, between a row and
the file it names, and between two rules that were written apart: supersession,
leases, retries, approvals that race renders, files deleted before a commit,
overrides that count other photos than the renderer does. These modules model
that, TLC checks small instances, and TLAPS proves the invariants of the queue,
the review, the e-mails, the publication, the settings, the media, the
administration, the catalog, the photos and the content for every instance.

## 1. Inventory

| Component | State | Operations | Hard part | Modelled in |
|---|---|---|---|---|
| Work queue (`modules/delivery`: `job_repository`, `webhook_event_repository`) | `jobs`, `webhook_events` | enqueue, supersede, claim, complete, fail, retry, recover | READ COMMITTED snapshots, row locks, rows addressed by id | `JobQueue`, `PropertyQueue`, `JobQueueRefinement` |
| Worker dispatcher (`apps/worker/runtime.py`) | threads, stop flag | start (recovers), loop, acknowledge, stop | crash between handler and acknowledgement, leases nobody renews | `JobQueue` |
| Webhook ingestion | — | check the signature; supersede + enqueue in one transaction | timestamps drawn before the transaction; signature checked in another one | `JobQueue` (`Arrive` .. `Commit`), `AgencyAdmin` (`Verify`, `Accept`), `CatalogRows` (`SiteOf`, `KeyOf`), `ReelContent` (`Deliver`) |
| Review and overrides (`regenerate_reel`, `reject_reel`, `update_reel_*_override`) | `reels` row | approve, reject, regenerate, five edits, list, inspect, play | check-then-act, whole-row saves, what an edit may hold | `JobQueue` (queue), `ReelWorkflow` (row), `ReelContent`, `ReelOverrides`, `VideoRange` (data) |
| Reel pipeline (`orchestrator`, `ingest_property_into_reel`, `prepare_reel_assets`, `persist_local_artifacts`, `publish_reel`) | `reels` row, media files | ingest, prepare, render, store, hold or publish | one transaction per stage, lost updates, folders that outlive jobs | `ReelWorkflow`, `ReelContent`, `ReelPhotos` |
| Outbox and review e-mails (`outbox_subscriber`, `modules/notifications`) | `outbox_events`, `email_notifications` | claim event, throttle, enqueue e-mail, send | claim committed before the handler; throttle by rows already sent; shared rows | `OutboxNotifications` |
| Publishing (`modules/publishing`, GoHighLevel) | uploads, posts, `publish_details` | upload, post and verify per platform, aggregate, record | partial failure, doubtful answers, repeated posts | `ReelPublishing`, `ReelCaptions` (texts) |
| Settings and slots (`modules/configuration`) | brand, defaults, automation, templates; intro, outro, music and their files | partial saves, raw profile, uploads, `compute_next_publish_slot` | two defaults for one field, files changed before the commit, windows around midnight | `AgencySettings`, `PublishSlot`, `AgencyMedia`, `MediaUploads` |
| Tenancy, sources, connections (`modules/tenancy`, `modules/ingestion`, `modules/publishing/transport`) | `agencies`, `ingestion_sources`, `provider_connections`, session tokens | register, reconfigure, delete, provision, connect, sign in | ids in the path and in the body, unique names, history by foreign keys | `AgencyAdmin` |
| Rendering (`modules/rendering`, `services/media`) | photo folders, videos | select photos, order, caption, time line, join | a crash between two moves, positions in two orders | `PhotoSelection`, `ReelPhotos`, `ReelOverrides`, `ReelContent`; layout and ffmpeg not modelled |
| Catalog (`modules/catalog`) | `properties`, `property_images` | convert and upsert a listing, replace its images, give the payload on record | two readers of one id, contacts in any field, a conversion that is repeated | `CatalogRows`, `ReelPhotos`, `ReelContent` |
| API shell (`apps/api`) | — | authenticate, serve ranges | — | `AgencyAdmin`, `VideoRange` |
| Scripted renders (`modules/rendering/application`) | jobs | enqueue | runs beside reel jobs | `JobQueue` (origin `scripted`) |
| Shared infrastructure, settings, migrations, deployment, `youtube-test` | — | — | — | not modelled |

Interactions: the API and the workers share the database and the media folders.
API requests and pipeline stages are transactions on the same `reels` row and
`jobs` rows; a worker's handler runs outside any transaction between its claim
and its acknowledgement, and reads files the API may replace. A job carries a
copy of the agency's settings. Events of the pipeline reach the e-mail component
through the outbox.

What makes each component correct: the queue never runs two jobs of one property
together, never loses a property's last job, never takes up a finished job; a row in
`reels` never claims a publication that did not happen and never stays in an
intermediate state; an edit is rendered, and the video shows the row; what is recorded
of a publication was posted and nothing is posted twice without a reason; an e-mail is
sent once per review; rows and files name each other; a save changes what it names;
the queue and the catalog know a listing by one number; a post is not visible before
its hold is over; no agency changes another's rows and nothing unsigned is queued.

## 2. Modules

### JobQueue
Variables: `job` (rows of `jobs`: status, attempt count, whether `available_at`
is reached, lease, whether context and secrets are erased), `event`
(`webhook_events` status), `request` (an API transaction between its
statements), `thread` (a worker thread between its transactions), `process`
(up, stopping, down), and the histories `faults` and `recoveries`.

* `Arrive`, `SelectQueued`, `SnapshotUpdate`, `Commit` are one enqueueing
  transaction: draw id and time and pass the caller's checks; the SELECT of
  `supersede_queued_jobs`; the snapshot of its UPDATE; and the rest up to COMMIT.
  `EnqueuePlain` inserts without superseding.
* `ClaimStatement`, `ClaimCommit` are `claim_next_ready_job`: the candidate
  sub-query runs on a snapshot in which claims that are not committed are still
  queued; the locks of `FOR UPDATE SKIP LOCKED` are the `Locked` rows.
* `AckCompleted`, `AckRetry`, `AckFailed`, `LoopCrash` are the ways a handler
  ends; `Start`, `SignalStop`, `Exit`, `Crash` the life of a process;
  `BackoffElapses` and `LeaseExpires` are time.

Left out: `worker_id` (written, never compared), wording of errors, aborted
requests (they change nothing), approve without prerequisites (it enqueues
nothing). The "no handler" branch cannot be reached, because the claim filters
by the kinds that have handlers. Timestamps are drawn in `Arrive`, so a job's
number is its request order. Backoff and lease are booleans: TLC and the proofs
allow them to elapse at any moment. The claim's snapshot and its lock are one
step, and so are UPDATE and COMMIT of one row, where a lock hides the
difference.

### PropertyQueue and JobQueueRefinement
`PropertyQueue` is what callers are promised: per property, jobs wait, run one at
a time, end, or are replaced while waiting. `JobQueueRefinement` maps the tables
to it (`Phase`, `About`); `ImplementsPropertyQueue` says that one API process
and one worker thread implement it.

### ReelWorkflow
One property's `reels` row and everybody who writes it. `ReelStateRepository.save`
writes every column, and each writer first reads the row without a lock. So each
writer is two actions: `Approve`/`ApproveSave`/`ApproveCommit`,
`Reject`/`RejectCommit`, `Edit`/`EditCommit` in the API, and
`IngestRead`/`IngestCommit`, `PrepareRead`/`PrepareCommit` (or `PrepareSkip`),
`StoreRead`/`StoreCommit`, `Hold` or `Post`, `PublishRead`/`PublishCommit` in the
worker. `Kept(f)` says which overrides each edit copies: the use cases differ,
and so do their two lock rules (`Unlocked`). `Break` is a handler that raises or
a process that dies, at any stage, with the job queued again or failed. The queue
is the one `PropertyQueue` promises. Histories: `runs` numbers the renders
(`current_revision_id`), `posted` holds the revisions that reached a platform,
`rendered` the overrides the media files were made from, `late` that
the last approval relied on a job that had nothing left to publish.

Left out: agencies without a GoHighLevel connection or without platforms (the
`skipped` and `noop` outcomes), `render_status`, artifact paths,
`publish_details`, `media_revisions` and the outbox events of each stage.
Clearing an override is an edit with a new value. Approve's existence check and
its `update_workflow_state` read are merged, since only the second one is saved.
A webhook's job uses pool music, so its context carries no track.

### OutboxNotifications
From the outbox event `review_requested` to the e-mail. `event`, `row` and `job`
are the tables (`outbox_events`, `email_notifications`, and the `email_send` rows
of `jobs`); `sub[p]` and `mailer[p]` are the subscriber thread and the worker
thread of process `p` between their transactions.

* `ClaimEvent` is the transaction that claims and marks an event; `DispatchRead`
  the reads of the handler's transaction (recipients, throttle, kind);
  `DispatchSkip` and `DispatchJob` its commit; `DispatchFails`,
  `MarkEventFailed`, `MarkEventLost` what happens when it raises.
* `Send`, `SendRaises`, `MarkSent`, `MarkFailed`, `MarkLost`, `AckCompleted`,
  `AckFailed`, `AckLost` are `SendEmailJobHandler.handle` and its
  acknowledgement, each commit and each failure a step.
* Of the queue only what can happen to these jobs is kept, and more than that:
  any queued job may be taken, `Start` may recover any processing job (its lease
  may have expired while its holder still runs), and `Supersede` is a reel
  request of the property. So the result does not depend on the claim order or
  the serialization rule.

Left out: the message's content, the refusals of single recipients (`send()`
drops the dictionary smtplib returns, and every row is marked sent), the audit
rows in `webhook_events` (`JobQueue` has them), and events without a property id,
which end like those without recipients. The reads of the handler are one step:
a row that changes between the throttle's query and the kind's changes like one
that changes after both. `KindsFor` allows the first kind again although rows
exist, because the lookup reads the 200 newest rows of the agency only.

### ReelPublishing
The last stage of a publish job, with every call of the HTTP API an action that
may be answered in any way (`ok`, a retryable error, another error, no answer):
`RepeatsHaveACause` lives off the answers that leave open whether the post
exists. `NormaliseTargets` and the skips, `Upload` of each kind of artifact once,
`_run_with_retry` around creation and polling (`try`, `poll`), the aggregate
(`AggregateStatus`), the record (`RecordResult`, `RecordFails`), the
acknowledgement (`Ack`), `Crash` and `Recover`. History: `doubt`, the platforms
that may hold a post no record names; `faults`. It refines the `Post` step of
`ReelWorkflow` informally: there a publication is one step that may be repeated.
The status the service gives a post is a success, pending, or any other (`Kept`),
whatever its name.

### ReelCaptions
What is posted: the text, title and artifact of each platform (templates, default
texts, hashtags), the plan of targets at ingestion and what `property_publisher`
makes of it. Texts are sequences of words. Pure operators, used by `ReelContent`.

### ReelOverrides
What an editor may change and which of it is accepted: cues, slides, photo order
(`SubtitlesPayload`, `ValidCues`, ...), and what becomes of it on the time line:
segment lengths, cues cut by segments, the automatic cues. Times are frames. The
loops over lists (keep some, sum up, join) are the recursive functions of `Loops`,
which the proofs can follow position by position; `PhotoSelection`, `VideoRange` and
the list of reels use them too.

### ReelContent
One property of one agency from the listing to the posts, with data: the row's
overrides, the snapshot of automatic cues, the targets, the files, the cues drawn.
A request and a stage of the pipeline are one step each (their interleaving is
`ReelWorkflow`'s). `Deliver` is a webhook, `Editor` the endpoints, `Worker` the
stages with `Retry` and `GiveUp`; `ChangeSettings` changes the agency. The list
of reels (`ListReels`, `Inspected`) and range responses (`VideoRange`) answer
without state and are evaluated in every state, the list for every place the reel may
have among the agency's rows (`RowsAt`). Histories: `stale` and `behind`
say that a change came without a job, or after it.

### VideoRange
`apps/api/range_response.py`: which parts of a Range header are satisfiable and
what is answered. A file is a sequence of bytes.

### PhotoSelection and ReelPhotos
`PhotoSelection` ranks the classifier's rows and picks greedily (hero, exterior,
rooms, the rest within limits). `ReelPhotos` is the folder: `Clear`, `Download`,
`Feature`, `Classify`, `Move` (one photo at a time), `StorePrimary`, `Persist`
to the catalog (when no photo was found it raises, and its transaction is rolled
back), `Render`, and the editor's two orders; a failure or a crash
(`Abandon`) may come after any of them, and what it leaves is what the next job finds.
`PhotosToSelect` and `MaxSlides` are 3 instead of 7.

### AgencyMedia and MediaUploads
`MediaUploads` is what the upload endpoints find in a form, what they accept, and
the name a file is kept under. `AgencyMedia` has the rows (`slot`, `enabled`,
`tracks`, `fallback`), the files (`videos`, `songs`), the API request in progress
(`api`, with a step per file operation and for the commit, each of which may fail
or be the last thing the process does), and a job that resolves paths when it is
ingested and reads the files when it renders. A video is its own name (its hash).
Histories: `spoiled`, `left`, `reused`.

### PublishSlot and AgencySettings
`PublishSlot` is `compute_next_publish_slot` over days and times of the agency's
local clock. `AgencySettings` has the four sections with their readers, partial
saves and defaults, the raw profile that shows and saves them all, the logo, and
one job: asked for, perhaps approved, prepared (when its look and slot are
decided) and posted. The clock starts with the webhook. The raw profile shows the
templates and the music tracks (`Listed`) among the settings it is saved with; a track
is a member of a set here, its file is `AgencyMedia`'s.

### AgencyAdmin
`agencies`, `ingestion_sources`, `provider_connections`, what the queue was given,
the session tokens that are alive, and deliveries between their two transactions.
A refused request changes nothing and is no step; a constraint that fails is a
refusal. Each `*Routes` action is a router. `overtaken` marks a delivery whose
site changed after its signature was checked. `WEBHOOK_DISABLE_SECURITY`, which turns
the check off for local development, is off.

### CatalogRows
`jobs` are the jobs of the queue with their payloads, `rows` the table `properties`
from site and `source_property_id` to columns (`raw` is `raw_json`), `shown` the
agency's `showAgentPhoto`. `KeyOf` is the id the webhook reads for the queue,
`RowKey` the one the pipeline reads for the row, `Columns` the conversion of a
listing; a JSON value is its kind (how it is written) and its number. `Deliver` is a
webhook, `Ask` an edit that queues the payload on record, `Ingest` and `Prepare`
the two upserts of a run. The statements inside an enqueueing are `JobQueue`'s;
here it is one step, as is a claim.

### MC modules and proof modules
`MCJobQueue`, `MCReelPublishing`, `MCReelPhotos`, `MCReelContent`,
`MCAgencyMedia`, `MCAgencySettings`, `MCAgencyAdmin` and `MCCatalogRows` give the constants that a
cfg cannot write (functions, records, forms, bodies of requests).
`JobQueueProofs`, `ReelWorkflowProofs`, `OutboxNotificationsProofs`,
`ReelPublishingProofs`, `AgencyMediaProofs`, `AgencyProofs` (of `AgencySettings`,
`PublishSlot` and `AgencyAdmin`), `CatalogProofs` (of `CatalogRows`, `PhotoSelection`
and `ReelPhotos`) and `ReelContentProofs` (of `ReelContent` and `ReelCaptions`)
hold the theorems. Modules that share a proof module name their specifications
apart (`AdminSpec`, `PhotosSpec`).

## 3. Runs

Properties that say one thing about one part are checked together (a conjunction
of named parts); where a module is not proved type correct, its type invariant is
part of one of them.

| Run | Instance | What it shows |
|---|---|---|
| JobQueue_OneThread | 1 thread, 2 API processes, webhook + approve, 3 jobs, 2 attempts, 1 fault | `PropertySerialized`, `EventClosesWithJob`, `ApproveNeverStacks`, `SupersedeKeepsOne`, `ImplementsPropertyQueue` |
| JobQueue_TwoProcesses | 2 processes with 1 thread each, 2 API processes, webhook + e-mail, 2 jobs, 2 faults | `TicketsIdentifyHolders` |
| JobQueue_Recovery | 2 threads of 1 process, 1 API process, webhook, edit, manual and scripted, 2 jobs, restarted after a fault | `HandledInTurn` (one thread per job, context not erased, attempts bounded), `SupersededByNewer`, `ManualNeverStacks`, `RecoveredJobsSettle` |
| ReelWorkflow_Review | 3 jobs, 3 runs, 2 edits, all requests | `PublishedWasPosted`, `RestIsFinal`, `RenderedIsCurrent` |
| Notifications | 2 processes, 2 requests of 1 reel, 1 recipient, 2 faults | `DispatchedOnce`, `SentMeansMailed`, `CompletedIsRecorded`, `RepeatedOnlyByRecovery`, `RequestsAreTaken` |
| ReelPublishing | 5 names for 4 platforms (one shows the poster, one is verified, one is unknown), 2 retries, 2 polls, 2 attempts, 1 crash | `RecordsAreTrue` (posts and the row, the row and the job), `RepeatsHaveACause`, `JobSettles` |
| ReelContent | 2 listings, 2 edits of any kind, 2 settings, 3 jobs, 2 tries, 1 other reel, look-up among the first row | `ListingCaughtUp`, `VideoShowsTheRow`, `CaptionsAgree`, `PostedOnRecord`, `EditorFindsAndPlays` |
| ReelPhotos | 3 photos (two with one file name), 4 listings, 2 jobs, 1 edit | `CatalogPathsHold`, `ShowsItsListing` (photos and captions), `FeaturedAndSelected` |
| AgencyMedia | 2 tracks (one seeded), forms refused for one reason each, 3 requests, 1 job | `RowsAndFilesAgree`, `TrackPlaysItsUpload`, `FailureHasACause` |
| AgencySettings | days of 3 times, a reel that starts on a Thursday, Friday or Saturday, 1 music track, 2 saves | `LooksAsShown`, `PostsWhenAllowed`, `SavesChangeWhatTheyName` |
| AgencyAdmin | 3 agencies, 2 sources of 1 site, 2 secrets, 2 API processes, 3 requests, 1 delivery | `JobsBelongToTheirSite`, `AcceptedWasSigned`, `TenantIsolation` |
| CatalogRows | 2 sites, 8 deliveries (ids as number, digits, float, importer's, none), 3 jobs, 2 tries, 1 fault, 1 change of the switch | `KeyTellsRow`, `EditsKeepTheListing` |

Bounds. Three jobs are enough for one that runs, one that is superseded and the one
that supersedes; two, in the runs of several threads or processes, for one that is
superseded while it waits for a retry; two attempts show a retry and the last
attempt; one fault shows a crash or stop at every point and the recovery after it,
two faults show two processes that fail one after the other. In `ReelWorkflow`,
three runs show a published revision, its replacement, and a retry in between; two
edits show one override that is edited while the other is kept or lost, and a stale
copy of the first saved over the second. In `OutboxNotifications` two requests show
a second one that is throttled, shares the rows of the first or gets rows of its
own, and two faults a crash at every point, a restart that recovers the other
process's jobs, and one more failure after it; more recipients add only choices of
whom to mail, and the three invariants that speak of them are proved for any number.
One property is enough in these runs because the queue's conditions and the row's
key both name the property. All bounds are guards on jobs, runs, edits and faults,
named in CONSTANTS; deadlock is not checked because a bounded instance stops when
its jobs are used up.

In the later modules two of a kind are what a hazard needs, and a third shows that the
first two are dealt with: two attempts and one crash in `ReelPublishing` (the crash
may come in the last attempt); two listings and three jobs in `ReelContent`, so that
an older one may be retried after a newer one, and one other reel with a look-up of
one row, so that the reel is within its reach and beyond; two jobs in `ReelPhotos`,
the second finding what the first left at any step; three requests in `AgencyMedia`,
for a track uploaded, uploaded over and deleted; two saves in `AgencySettings`, a
first one that creates a row and one that leaves a field out, and reels that start
right before and in a weekend, with windows inside a day and around midnight; three
requests in `AgencyAdmin`, for a site that is deleted and registered again by somebody
else while a delivery waits; three jobs in `CatalogRows`, a listing, its edit and
another listing of the same row or of the property whose id is the first one's
importer number, and one change of the switch between them. `PublishSlot` is checked
for the rules and instants those saves reach.

Deployment matters. `compose.yml` and `.env.example` start one API process and
one worker with `WORKER_COUNT=1`. `PropertySerialized` and
`ImplementsPropertyQueue` need one worker thread; `HandledInTurn` and
`ManualNeverStacks` need one worker process; `ManualNeverStacks` and
`SupersededByNewer` need one API process, whose endpoints are coroutines that do
not await inside a transaction (`LoopFree`; its mutant `ThreadPoolLoop` breaks the
property). `SupersededByNewer` speaks of jobs the API asked for: its run queues no
e-mails, and its theorem says so.

Fairness. `FairSpec` assumes that a worker thread which can go on does, and that
backoffs elapse: the loop never gives up, and handlers end because HTTP calls
have timeouts and a render has finite length. `RestartingSpec` adds that a
stopped process exits and is started again (`restart: unless-stopped`) and that
leases expire. Only a start recovers leases, so `RecoveredJobsSettle` assumes in
its own statement that no lease stays expired for ever: without that assumption
a single failed acknowledgement transaction leaves a job in processing while the
process lives. In `OutboxNotifications`, `FairSpec` assumes that the subscriber's
loop goes on and that a process is started again, nothing about the mail server.
`ReelPublishing`'s
`Spec` assumes that the worker goes on and is started again; any number of calls
may fail. Safety runs assume no fairness.

## 4. Proofs

All proofs are for any values of the constants that satisfy the named assumptions
(`JobQueueAssumption`, `ReelWorkflowAssumption`, `NotificationsAssumption`,
`CatalogAssumption`; `NamesAssumption` and `BoundsAssumption` of `ReelPublishing`; of
`AgencyMedia` and `AgencyAdmin` those on seeds, slugs, founders, legacy secrets,
callers and bounds; of `AgencySettings` those on catalog, clock, bodies and logos;
`ListingsAssumption`, `AnswersAssumption` and `BoundsAssumption` of `ReelPhotos`;
`OverridesAssumption` and `ContentAssumption`), which TLC evaluates in every run.
`SeededAssumption` says that a seeded track looks like its suffix: the seeds are the
`.mp3` files of `default_music_tracks.py`. `BodiesAssumption` says what the payloads
let through: above all that a hold lies between nothing and a day
(payloads/automation.py:60-63).

Some theorems of the queue are about a deployment and say so in their ASSUME, as
the documents do: `ApiProcesses = 1` (one uvicorn process), `OneWorkerProcess`,
`OneWorkerThread`. Section 5 says what fails without.

| Theorem | Statement | Deployment |
|---|---|---|
| `JobQueueProofs`: `Tickets`, `SupersedeKeeps`, `EventsClose`, `AttemptsCounted` | `TicketsIdentifyHolders`, `SupersedeKeepsOne`, `EventClosesWithJob`, `AttemptsBounded` | any |
| `InTurn`, `ApprovalsAlone` | `HandledInTurn`, `ApproveNeverStacks` | one worker process |
| `Serialized` | `PropertySerialized` | one worker thread |
| `NewerReplace`, `NewerReplaceOlder` | `ReplacedByNewer`; `SupersededByNewer` where no e-mails are queued | one API process |
| `ManualNeverBehind` | `ManualNeverStacks` (a step property) | one API and one worker process |
| `OneThreadImplements` | `ImplementsPropertyQueue` (the refinement) | one worker process with one thread |
| `ReelWorkflowProofs`: `NothingClaimedUnposted` | `PublishedWasPosted` | any |
| `RestCorrect`, `FilesShowTheRow` | `RestIsFinal`, `RenderedIsCurrent`, captions not edited | any |
| `OutboxNotificationsProofs`: `OncePerRequest`, `SentRowsAreTrue`, `CompletedJobsAreRecorded`, `RepeatsAreRecoveries` | `DispatchedOnce`, `SentMeansMailed`, `CompletedIsRecorded`, `RepeatedOnlyByRecovery` | any |
| `ReelPublishingProofs`: `TargetsNormalised`, `RecordsCorrect`, `RepeatsExplained` | the fold of the targets, `RecordsAreTrue`, `RepeatsHaveACause` | any |
| `AgencyProofs`: `PostsAllowed`, `ShownCorrect`, `SavesCorrect` | `PostsWhenAllowed`, `LooksAsShown`, `SavesChangeWhatTheyName` (a step property) | any |
| `AgencyMediaProofs`: `MediaCorrect`, `MusicCorrect`, `FailuresExplained` | `RowsAndFilesAgree`, `TrackPlaysItsUpload`, `FailureHasACause` (a step property) | any |
| `JobsRooted`, `SignedJobs`, `Isolation` | `JobsBelongToTheirSite`, `AcceptedWasSigned`, `TenantIsolation` (a step property) | any |
| `CatalogProofs`: `KeysTellRows`, `EditsChangeNoListing` | `KeyTellsRow`, `EditsKeepTheListing` | any |
| `SelectionKeepsLimits` | the selection of photos: at most as many as asked for, `WithinLimits`, the reserved one first | any |
| `PhotosCatalogPathsHold`, `PhotosShowsItsListing`, `PhotosFeaturedAndSelected` | `CatalogPathsHold`, `ShowsItsListing`, `FeaturedAndSelected` | any |
| `ReelContentProofs`: `ContentCaughtUp`, `ContentShowsTheRow`, `ContentCaptionsAgree`, `ContentPosted`, `ContentFoundAndPlayed` | `ListingCaughtUp`, `VideoShowsTheRow`, `CaptionsAgree`, `PostedOnRecord`, `EditorFindsAndPlays` | any |
| `DefaultHasWords` | no known platform has an empty text by default | any |
| `SentAsAnnounced`, `FilesStream` | a file of any size is sent as announced, and whole in two parts | any |

`TypeCorrect` of six modules proves their type invariants; `JobsRooted`,
`KeysTellRows`, `PhotosAlways` and `ContentAlways` contain those of theirs. The
last two prove the inductive invariants of their modules (`PhotosInv`,
`ContentInv`).

The inductive invariants, and why they are needed:

* `JobQueueProofs`. The invariant behind `Tickets` says that an attempt count only
  rises, that a thread's ticket was the count at its claim, and that a claim in
  progress holds the row's lock: a recovered row can be claimed again, but with a
  higher count than any holder's. `QueueInv` adds the locks and the rows a request
  under way is about to supersede; from it follow the properties of every
  deployment, each by what may happen to one row (`RowStep`: claimed, ended,
  recovered). `SupersedeKeepsOne` needs that a request which superseded has its own
  row; `Budget`, behind `AttemptsBounded`, counts a recovery against the claim it
  makes possible. `ProcessInv` says of one worker process that a thread which holds
  a job has its row in processing: only a start recovers, and it finds no holder.
  `ApiInv` says of one API process that at most one request is between its
  statements (`LoopFree`), so that ids are committed in order. An e-mail's row is
  inserted by the worker, between those statements, and is the exception:
  `SupersededByNewer` is false with it, and `ReplacedByNewer` true. `RefinementInv`
  holds what the steps of `PropertyQueue` need of one thread: the candidate of a
  claim is still queued, and nothing of its property is running.
* `ReelWorkflowProofs`. `PublishedWasPosted` is not inductive: a worker's copy could
  carry an old `published` into a row with a new revision. `PostedInv` adds that
  between the ingest of a run and the transaction that records its publication
  neither the row nor the worker's copy says published, that an edit in flight never
  copied a published row, and that a worker that decided "published" has posted.
  `RestInv` adds to `RestIsFinal` that a busy worker's job is in processing, and that
  until the worker's last step what it wrote can only be overwritten by a final
  state, by an edit that leaves a job in the queue, or by an approval that is marked
  (`late`) when nobody is left to publish for it. `CurrentInv` says that the row,
  the copies that may still be saved over it and the files agree with the overrides
  the run took up, unless a former copy was saved (`undone`) or a job is queued.
  Both assume that captions are not edited: that edit queues no job and may save
  what the row said in the middle of a run (section 5).
* `OutboxNotificationsProofs`. The first two lemmas to read are
  `JobSteps` (only `DispatchJob` adds a job, and what a job is for never changes)
  and `EventSteps` (who may change which event). `OnceInv` adds that an event in a
  subscriber's hands is in processing and in nobody else's; `SentInv` that a
  worker past the sending has sent; `RecordedInv` that the rows of a job exist
  from its enqueueing on and that a worker that is done has marked them.
  `MailBudget` counts, besides the messages of a job, the mailers that still may
  send it (`Senders`) and the claim that is left while it is queued: a recovery adds
  one, nothing else does.
* `ReelPublishingProofs`. `TargetsNormalised` is about a fold: it is a recursive
  function on sets of positions, which exists (`IterExists`) and adds one name at a
  time (`Folded`); both are inductions over a number, stated with a set (`UpTo`).
  `RunInv` aligns the outcomes of a run with its targets, which are distinct and
  cover the plan. `TruthInv` says that successes, and a post under verification, are
  posted, and that a run about to be acknowledged is what the row says. `RepeatInv`
  splits the bound on posts: before its turn a platform has what earlier runs may
  have spent (`Floor`), in its turn one more for each attempt; and a post without
  doubt is one the run still knows of (`Known`) or of a job that is over, so that
  every way of forgetting has to pass `doubt`.
* `AgencyProofs`, settings. The slot first, as a function: `NextAllowedDayIsNext` says
  that the search over seven days finds the first publish day; `Reached` says that
  an instant keeps the hold and that no usable opening lies between, and each of
  the three shifts keeps it (`AfterWeekendReached`, `OnPublishDayReached`,
  `InsideQuietHoursReached`), so that `SlotIsOpen` and `SlotKeepsHold` hold of every
  answer. `HoldIsHonoured` compares two answers of a clock that went on: `IsJob`
  keeps both with the instants they were computed at, and `LaterMonotone` orders
  them. `RowsOK` says that rows are what valid bodies make of them; that no null and
  no missing value is stored is what makes the readers' defaults and the renderer's
  agree. `SavesCorrect` is an action property: one lemma per section says how a row
  that was just saved reads (`BrandReads`, `DefaultsReads`, `AutomationReads`).
* `AgencyMediaProofs`. `MediaInv` follows a replacement through its steps: which
  file was deleted or written before the commit, and which of them a failure leaves
  (`spoiled`, `left`). `SongInv` says that a track's file holds what was uploaded
  for it unless its name was used again (`reused`), and looks like its suffix.
  `FailuresExplained` needs both, and that a job holds the paths it resolved.

* `AgencyProofs`, administration. `Inv` adds to the
  types that ids are given once (`Fresh`: a new source overwrites no row, so no job
  changes its site) and that connections and sources belong to agencies that are
  there (`Housed`: an accepted delivery finds its agency). Deletions keep it because
  the database refuses to delete what a job refers to (`Unreferenced`).
  `SignedJobs` adds `WaitingSigned`: a delivery between its transactions knows the
  secret in force or is marked; `OvertakenSigned` is the one step that needs a
  proof. `Isolation` is an action property; it needs `Fresh`, because a source
  registered under an id another agency's source has would be an edit of that one.

* `CatalogProofs`, rows: `KeysTellRows`, `EditsChangeNoListing`.
  `KeyIsRowKey` is the fact about the two readers: where the webhook reads a
  number, the pipeline reads the same. `Inv` makes it one about jobs
  (`KeysAreRows`), adds that a superseded job's successor has its key, that jobs
  of one key take turns, and that a row is the conversion of the payload stored
  with it (`RowsAreListings`), which is why storing that payload again changes
  nothing but the photo.

* `CatalogProofs`, photos. `SelectionKeepsLimits` is about an algorithm: each round
  of the selection extends what the one before chose (`Extends`) and keeps the
  limits, whatever the classifier answered; the rounds are folds over the ranked
  rows, followed position by position. `PhotosInv` says what is in the folder at
  each step of a job (`Stages`): nothing but downloads until the classifier has
  answered, then a part of what was chosen (`dir.slots \o job.todo = job.chosen`),
  then all of it, drawn from the job's own downloads with the featured image set
  aside. A crash may leave any of these states, so the next job's steps may assume
  only what clearing the folder gives them; a sold house clears nothing and may
  reuse what it finds, which is the exception in `ShowsItsListing`. `CatalogHolds`
  says that the paths on record are right unless a later job has cleared the folder.
* `ReelContentProofs`. `ContentInv` has three parts about where things are. `Carried`:
  from its ingest on, a job under way finds on record its own listing and its plan,
  and the files are of its listing once it rendered. `Caught`: the newest listing is
  with the jobs that wait, if any do; else with the job under way; else on record.
  `Shown`: while no job waits, what the row asks for is in the video or in the hands
  of the job about to render it. Each handler either leaves both sides alone, or
  queues a job, or is marked (`stale`, `behind`). The endpoints are treated together:
  `EditorStep` says what all of them leave alone, and `JobAsked` and `NoneAsked` what
  they do otherwise, so that each part of the invariant is proved once for them all.
  `PostedOnRecord` speaks of the platforms for which the editor wrote nothing, and so
  of the captions, which an edit changes; what stays is `PostedAsPlanned`, which has
  the plan's words for every platform. That needs `DefaultHasWords`: `publish_reel`
  posts the editor's captions where a plan has no words, and a plan always has some,
  because every default text names the property's page or its site.
  `CaptionsAgree` is about the time line, for any number of segments of any length:
  each starts where the one before it ends (`Starts`, `StartsInOrder`), cues in
  order are apart two by two (`CuesApart`), and cutting them to segments keeps them
  apart, within one and across two (`SegmentApart`, `DrawnApart`). The snapshot has
  a cue per captioned slide, in order (`CaptionedRises`, `AutoCuesAre`), which the
  editor may send back (`AutoCuesValid`) and which is what is drawn
  (`AutoCuesDrawn`); `SnapshotMade` and `SnapshotStored` in `Shown` say that the
  snapshot on record was made with the video.

  `EditorFindsAndPlays` needs of the state only that the row is one the database may
  hold and that the video has no more slides than a template allows (`PhotosFit`). The
  rest is about lists with the reel anywhere in them (`RowsAreList`): the search for
  its state is accepted and finds it (`SearchAccepted`, `ReelIsHit`), page `p` of one
  row has the `p`-th row found (`SmallPage`), so the pages joined are the rows found,
  in order (`ReelIsFound`); and a file cut at a position is the file (`TwoParts`).

Every invariant and step property of the runs is proved, in the deployment the
table names. Model-checked only: liveness (`RecoveredJobsSettle`, `RequestsAreTaken`,
`JobSettles`: fairness and ENABLED are out of the prover's reach). What a loop or a
fold computes can be proved where the induction is over the positions and written
with sets (`UpTo`, `Recursion`), as for the targets, the photos, the time line and
the pages; the library's induction theorems, which take an operator, cannot be used.

## 5. Known not to hold, and not run

Where the code does something else than a text of the repository says, or
something a reader would not expect, the model does what the code does.

Queue and worker. A stop whose drain times out ends the process with its job
still processing and leased (runtime.py:106-133), although ARCHITECTURE.md:158
says it releases the leases. With two worker threads `PropertySerialized` fails:
two claims of one property may each miss the other's (ARCHITECTURE.md:160-162
calls the rule multi-worker safe). With two worker processes `HandledInTurn`
fails, because no worker renews its lease. With two API processes `SupersededByNewer`
and `ManualNeverStacks` fail, the latter also with two worker processes; an e-mail
queued by the worker between two statements of a request is superseded by that
request although it is the newer one. A job that a retry puts back
between the SELECT and the UPDATE of `supersede_queued_jobs` is superseded while
its event stays queued. `supersede_queued_jobs` has no filter on the kind of job
and also cancels queued e-mails of the property, whose rows stay queued.

Review. An approval may be answered with a job that was queued for review, which
then overwrites the approval and holds the reel again; one that comes between a job's
last write and its completion is answered with that job, which has nothing left to do:
the reel stays approved and pending, and nothing publishes it (the `late` of
`RestIsFinal`). docs/API.md:815 and 1219-1225 make no
difference between an active job and a fresh one. A
rejection cancels no job, so an approved job that is past its ingest posts
(docs/API.md:816). A photo edit erases the subtitle and slide overrides, since
each edit lists the fields it keeps. A rejection that read the row before an
edit's ingest saves the older overrides back (the `undone` of `RenderedIsCurrent`).
With captions edits `RestIsFinal` fails. A row that says `partial` may name a
revision that was not posted, because partial reels stay editable.

E-mails. A review request whose subscriber dies stays in processing for good,
although docs/email_notifications.md:74-76 says a restart re-attempts it. The
throttle sees rows already sent, so two e-mails within a window are possible
(docs/email_notifications.md:95). The kind depends on the first surviving
recipient alone, so a later request may reuse sent rows of the others.

Publishing. The upload of a later platform stands outside the per-platform `try`
(multi_publish.py:203): when it fails, the run is recorded as failed although
earlier platforms were posted, and the retry posts to them again (ARCHITECTURE.md:196
has "zero successes" for failed). A created post is recorded under
whatever status the service answers (multi_publish.py:258-261); one that is neither a
success nor a refusal ("draft", "in_progress", "cancelled") counts as none, and a retry
of the job posts it again. A name the context does not know as an alias ("gmb") loses
its template, title and hashtags.

Content. Edited captions are not posted, because the generated text is never empty;
admin_reels_router.py:577-580, docs/API.md:894-944 and
ingest_property_into_reel.py:1323-1344 say that they win. `PostedOnRecord` says
nothing of the words of a platform the editor wrote a caption for. Approved reels lose
titles and hashtags, since only the webhook's context has them (docs/API.md:438-440).
The automatic cues are computed from the prepared slides, the video opens with the
featured photo and is capped, so `SnapshotTellsVideo` is about the case in which both
agree. Edited cues are documented as seconds of the reel
(reel_subtitles_override.py:67-82) and drawn in each segment's own time. A newer
listing is lost when an edit supersedes its job, and undone when an older job is
retried after it (`behind`). A job under way stores its snapshot beside an override
saved meanwhile. The slides' durations and kinds do not reach the renderer. A
webhook's render ignores the row's music. Regenerating or inspecting a reel after
which 500 others were changed answers 404 (inspect_reel.py, reel_query.py:298):
`EditorFindsAndPlays` promises the look-up of the rows before only. Pages ordered by
`updated_at` alone may repeat or skip rows that change while one turns them. A video
replaced between two ranges mixes two renders (there is no ETag), and a range beyond
the end is refused, not cut.

Photos. Positions of an order count the prepared photos (frame_composition.py:473),
in the documentation those of the catalog, and leaving one out leaves it out
(docs/API.md:1068, 1195): with fewer photos prepared than in the catalog the editor
moves and drops others than it chose, and a featured photo that was deselected is
shown all the same. `FeaturedAndSelected` speaks of the prepared photos and of those
that are not featured. A reel of a sold or let house
reuses the folder as it is: the photo featured before, or a part of a selection
that crashed. A failed job has already deleted the earlier photos, so catalog paths
dangle. The temporary primary image of a failed classification is shown when all
downloads of the next job fail. Two photos whose URLs end in one name may swap
captions. `_seltmp_` folders stay after a crash.

Media. One broken default track fails every job of an agency, also one with an
override. A partial `music` setting drops `selection_rules` (the merge is shallow).
A video's bytes and size are not checked, and "ftyp" begins any MP4 file, also for
audio. Names of different files may clean to one stored name.

Settings. A brand nobody saved has three looks: the brand endpoint and the renderer
have #374151 and #9CA3AF (brand_router.py:165-166, preparation.py:361, poster.py:85,
render_reel.py:43, tests/integration/configuration/test_brand_router.py:39-40), the
raw profile answers #0F172A and #FFFFFF (read_aggregated_reel_profile.py:136-137),
which the first save stores, and the comments promise a #FECF4D ribbon and a black
panel of 0.38 or 0.46 (ingest_property_into_reel.py:993-995, 1022-1036;
frame_composition.py:294-296, 311-316). `LooksAsShown` speaks of the colours of saved
brands only. Without publish days or a window a post is made at once, without its
hold. The slot of an approval is computed again at preparation (docs/API.md:1261 says
it is persisted and kept). Where weekends are skipped and Sunday is a publish day, a
Saturday's post moves to the Sunday; compute_next_publish_slot.py:26-29,
payloads/automation.py:78-81 and docs/API.md:286, 1295-1297 say Monday.
`PostsWhenAllowed` says nothing of the slots of such rules. A post that is
due at once is made after the render, which may end outside the window. An empty list
of platforms posts to all defaults. Saving the raw profile unchanged stores the
templates and the tracks it showed. `PUT` of an empty profile with nothing stored ends
in a 500. Concurrent template saves of two API processes give the union of both.

Catalog. A delivery whose id is a float, a text with a comma, or absent has no key
in the queue: it supersedes nothing, waits for nothing, and a row may be stored by
two jobs at a time (the exception in `KeyTellsRow`); an approval does not see its
job. A listing without a readable id falls into the row of its `importer_id`, which
may be another property's id. An "inf", or a number larger than an int4 column,
fails the job after it superseded a readable listing. Two slugs may normalise to
one. A link with a port names another site than the field without one. Ids written
as text go through a float, so `KeyIsRowKey` is about ids below 2^53.

Administration. A `PATCH` with a name and no slug derives the slug anew
(admin_agencies_router.py:147 says absent fields keep their value); so does every
`PUT` of a WordPress source, which may be refused for it. Deleting an agency or a
source with history ends in a 500 where the router speaks of cascades. Two agencies
may share a location, and a look-up then returns either. A session token outlives
its connection.

## 6. Plan

A refinement between `ReelWorkflow`'s post and `ReelPublishing`, which is informal
now (section 2).

## 7. Not modelled, and why

* ffmpeg command lines, layout geometry, image drawing, `services/media`: data
  transformation without state that a property could be about.
  `rendering/infrastructure/preparation.py`, `formatting.py`, `ffmpeg/filters.py`,
  `poster.py` and `services/media/reel_rendering/runtime.py` contain unresolved
  merge conflicts and cannot be imported as committed; nothing is taken from
  those regions. (What the modules of rendering say is in the files that import.)
* `ScriptedVideoRenderService` uses stores of the unit of work
  (`wordpress_source_store`, `property_repository`, `scripted_video_store`;
  render_service.py:85-100, 255) that `DatabaseUnitOfWork` does not have, so every
  scripted job ends with an AttributeError; only its place in the queue is modelled.
* Parsing of WordPress fields beyond identity, contact, numbers, colours and photos
  (they are stored as text), request shapes, wording of refusals, tracking
  parameters of links, line breaks of texts, upper case and cutting of drawn text.
* Time zones and daylight saving (`PublishSlot` counts local time), the contents of
  e-mails, the HTTP API of GoHighLevel and the classifier (their answers are
  inputs), files that a failed write leaves half written.
* Database sessions, HTTP client, logging, encryption, migrations, deployment and
  scripts: infrastructure the other models take as transactions and calls.
* `requires_render` is always true in the ingestion, so the comparison of platforms
  in `_ingest_property_diffs.py` decides nothing and is left out.
* `youtube-test` is an experiment beside the service.
