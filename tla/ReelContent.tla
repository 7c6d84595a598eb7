----------------------------- MODULE ReelContent -----------------------------
(***************************************************************************)
(* What a reel says and shows, from the listing the website delivers and   *)
(* the changes an editor asks for to the video on disk, the captions drawn *)
(* in it and the posts made of it: one property of one agency, whose       *)
(* settings may change meanwhile.                                          *)
(*                                                                         *)
(* A request of the API, and a stage of the pipeline, is one step; how     *)
(* they interleave inside is in ReelWorkflow, the photos of the listing in *)
(* ReelPhotos, the choice of a music track in AgencyMedia.                 *)
(***************************************************************************)
EXTENDS ReelOverrides, ReelCaptions, VideoRange

CONSTANTS
  Listings,    \* what the website delivers, in its order; beside the fields of
               \* ReelCaptions: captions (of the photos), featured (a photo)
  Agencies,    \* the agency's settings at different times
  CueInputs, PhotosInputs, SlideInputs,        \* bodies of the edits
  CaptionInputs, MusicInputs,
  DefaultMusic,  \* a track of the rules or of the workspace
  Others,      \* the rows of the agency's other properties, the one changed last first
  DefaultPageSize, MaxPageSize,  \* of the list of reels
  MaxInspected,  \* how many rows the look-up of one reel goes through
  MaxSlides,   \* the most slides a template allows
  MaxJobs,     \* bound: jobs
  MaxRequests, \* bound: requests that change the row
  MaxChanges,  \* bound: changes of the settings
  MaxTries     \* job_max_attempts

ASSUME ContentAssumption ==
  /\ MaxJobs \in Nat /\ MaxRequests \in Nat /\ MaxChanges \in Nat
  /\ MaxTries \in Nat \ {0} /\ MaxSlides \in Nat
  /\ Listings \in Seq(Range(Listings))
  /\ \A i \in DOMAIN Listings :
       /\ WordsOfListing(Listings[i])
       /\ Listings[i].captions \in Seq(Seq(STRING)) \ {<<>>}
       /\ Listings[i].featured \in {None} \cup DOMAIN Listings[i].captions
  /\ \A a \in Agencies :
       /\ a.template \in [per : Nat \ {0}, max : Nat \ {0}, total : Nat]
       /\ a.template.max <= MaxSlides /\ a.intro \in Nat
  /\ PhotosInputs \subseteq {None} \cup Seq([position : Int, selected : BOOLEAN])
  /\ CueInputs \subseteq
       {None} \cup Seq([text : Seq(STRING), index : Int, in : Int, out : Int])
  /\ \A slides \in SlideInputs : slides = None \/ slides \in Seq(Range(slides))
  /\ MaxPageSize \in Nat /\ DefaultPageSize \in 1..MaxPageSize
  /\ MaxInspected \in Nat \ {0} /\ Others \in Seq(Range(Others))
  /\ \A k \in DOMAIN Others : Others[k].listing \in DOMAIN Listings

VARIABLES
  agency,   \* the agency's settings
  newest,   \* how many listings were delivered
  reel,     \* the reels row and, as listing, the payload stored of the property
  queue,    \* jobs waiting
  run,      \* the job under way and what it carries from stage to stage
  media,    \* the files of the reel
  feed,     \* the posts of the last publication
  jobs, requests, changes,  \* how many there were
  stale,    \* history: the row was changed, or its job given up, and no job
            \* that would make the video of it has begun since
  behind    \* history: a job may come after one with a newer listing, or the
            \* job with the newest was given up

vars == <<agency, newest, reel, queue, run, media, feed, jobs, requests, changes,
          stale, behind>>

Statuses == {"", "pending", "pending_review", "pending_publish", "rejected",
             "published", "partial", "failed"}
States == {"ingested", "assets_prepared", "rendered", "awaiting_review",
           "approved", "rejected", "published", "partial", "failed"}

NewRow == [listing |-> 0, ws |-> "ingested", ps |-> "", rs |-> "",
           captions |-> None, music |-> None, photos |-> None,
           subtitles |-> None, slides |-> None, auto |-> None,
           targets |-> <<>>]

Init ==
  /\ agency \in Agencies
  /\ newest = 0 /\ reel = None
  /\ queue = {} /\ run = None /\ media = None /\ feed = <<>>
  /\ jobs = 0 /\ requests = 0 /\ changes = 0
  /\ stale = FALSE /\ behind = FALSE

-----------------------------------------------------------------------------
(* Jobs. *)

\* The context of a delivery has the agency's words ...
DeliveryContext(a) ==
  [platforms |-> PlatformNames(a.platforms), templates |-> a.templates,
   titles |-> a.titles, tags |-> a.tags, music |-> None, gated |-> a.gated]

\* ... and that of a job the editor asks for only its templates.
StoredContext(a, music) ==
  [platforms |-> PlatformNames(a.platforms), templates |-> a.templates,
   titles |-> [p \in DOMAIN a.titles |-> <<>>],
   tags |-> [p \in DOMAIN a.tags |-> <<>>], music |-> music, gated |-> FALSE]

\* What any job may carry, and the plan of its posts for any listing.
Contexts == {DeliveryContext(a) : a \in Agencies}
            \cup {StoredContext(a, m) : a \in Agencies, m \in MusicInputs \cup {None}}
Plans == [c \in Contexts |-> [i \in DOMAIN Listings |-> Targets(c, Listings[i])]]

Job(listing, context) == [tries |-> 0, listing |-> listing, context |-> context]
UnderWay == queue \cup (IF run = None THEN {} ELSE {run.job})

\* A new job supersedes those that wait, whatever listing they carry.
Enqueue(job) ==
  /\ jobs < MaxJobs
  /\ jobs' = jobs + 1
  /\ queue' = {job}

Newer(listing) == \E job \in UnderWay : job.listing > listing

Deliver ==
  /\ newest < Len(Listings)
  /\ agency.connected
  /\ newest' = newest + 1
  /\ Enqueue(Job(newest + 1, DeliveryContext(agency)))
  /\ behind' = FALSE
  /\ UNCHANGED <<agency, reel, run, media, feed, requests, changes, stale>>

\* A job of the editor's carries the payload on record.
RenderJob(row) ==
  /\ Enqueue(Job(row.listing, StoredContext(agency, row.music)))
  /\ behind' = (behind \/ Newer(row.listing))
NoJob == UNCHANGED <<queue, jobs, behind>>

-----------------------------------------------------------------------------
(* The editor. *)

Request == reel # None /\ UNCHANGED <<agency, newest, run, media, feed, changes>>
Change == Request /\ requests < MaxRequests

\* The row goes with a job, or without one when there is no connection.
EditJob(row) ==
  \/ agency.connected /\ RenderJob(row) /\ UNCHANGED stale
  \/ ~agency.connected /\ NoJob /\ stale' = TRUE

MusicJob(row) == EditJob(row)
PhotosJob(row) == EditJob(row)
SubtitlesJob(row) == EditJob(row)

\* Mutant of SlidesJob: the render is left to whichever job comes next.
SlidesWithoutJob(row) == NoJob /\ UNCHANGED stale

SlidesJob(row) == EditJob(row)

\* Captions and music until the review is over, the rest until approval.
UnderReview == reel.ps \in {"", "pending", "pending_review", "needs-approval"}
Unlocked == reel.ws # "approved" /\ reel.ps # "published"

Save(row) ==
  /\ requests' = requests + 1
  /\ reel' = row

\* Each edit saves the row anew with the overrides it knows of: those that came
\* later are dropped, and the snapshot by all of them.
CaptionsEdited(captions) ==
  [reel EXCEPT !.captions = IF captions = <<>> THEN None ELSE captions,
               !.music = None, !.photos = None, !.subtitles = None,
               !.slides = None, !.auto = None]
MusicEdited(music) ==
  [reel EXCEPT !.music = music, !.photos = None, !.subtitles = None,
               !.slides = None, !.auto = None]
PhotosEdited(order) ==
  [reel EXCEPT !.photos = NormalPhotos(order), !.subtitles = None,
               !.slides = None, !.auto = None, !.rs = "pending"]

SubtitlesEdited(cues) ==
  [reel EXCEPT !.subtitles = NormalCues(cues), !.slides = None,
               !.auto = None, !.rs = "pending"]
SlidesEdited(slides) ==
  [reel EXCEPT !.slides = NormalSlides(slides), !.auto = None, !.rs = "pending"]

\* A captions edit asks for no job.
EditCaptions(captions) ==
  /\ Change /\ UnderReview
  /\ DOMAIN captions \subseteq Range(agency.platforms)
  /\ Save(CaptionsEdited(captions))
  /\ NoJob
  /\ stale' = TRUE

EditMusic(music) ==
  /\ Change /\ UnderReview
  /\ music \in agency.tracks \cup {None}
  /\ Save(MusicEdited(music))
  /\ MusicJob(reel')

EditPhotos(order) ==
  /\ Change /\ Unlocked
  /\ PhotosPayload(order)
  /\ ValidPhotos(NormalPhotos(order), Len(Listings[reel.listing].captions))
  /\ Save(PhotosEdited(order))
  /\ PhotosJob(reel')

EditSubtitles(cues) ==
  /\ Change /\ Unlocked
  /\ SubtitlesPayload(cues) /\ ValidCues(NormalCues(cues))
  /\ Save(SubtitlesEdited(cues))
  /\ SubtitlesJob(reel')

EditSlides(slides) ==
  /\ Change /\ Unlocked
  /\ SlidesPayload(slides)
  /\ ValidSlides(NormalSlides(slides), TargetDuration(agency.duration))
  /\ Save(SlidesEdited(slides))
  /\ SlidesJob(reel')

\* The row is approved in any case; a job under way answers for it.
Approve ==
  /\ Change
  /\ Save([reel EXCEPT !.ws = "approved", !.ps = "pending_publish"])
  /\ \/ agency.connected /\ UnderWay = {} /\ RenderJob(reel)
     \/ (~agency.connected \/ UnderWay # {}) /\ NoJob
  /\ UNCHANGED stale

Regenerate ==
  /\ Request
  /\ reel.ps # "published" /\ UnderWay = {} /\ agency.connected
  /\ RenderJob(reel)
  /\ UNCHANGED <<reel, requests, stale>>

Reject ==
  /\ Change
  /\ Save([reel EXCEPT !.ws = "rejected", !.ps = "rejected"])
  /\ NoJob
  /\ UNCHANGED stale

ChangeSettings(settings) ==
  /\ changes < MaxChanges /\ changes' = changes + 1
  /\ settings # agency
  /\ agency' = settings
  /\ UNCHANGED <<newest, reel, queue, run, media, feed, jobs, requests, stale, behind>>

\* Mutant of FilterStates: a state was added to the pipeline and not to the filter.
FilterStatesBefore == {"approved", "awaiting_review", "failed", "ingested",
  "needs_approval", "partial", "pending", "published", "rejected", "rendered",
  "skipped"}

\* The listing of reels: what the filters may name, and whom they let through.
FilterStates == {"approved", "assets_prepared", "awaiting_review", "failed",
  "ingested", "needs_approval", "partial", "pending", "published", "rejected",
  "rendered", "skipped"}
FilterStatuses == {"failed", "needs-approval", "needs_approval", "partial",
  "pending", "pending_publish", "pending_review", "published", "ready_to_publish",
  "rejected", "skipped"}

FilterAccepted(values, allowed) == Range(values) \subseteq allowed

\* A search finds a property by its slug and by the words of its title.
Searched(row) == {Listings[row.listing].slug} \cup Range(Listings[row.listing].title)
Matches(row, query) ==
  /\ query.states # <<>> => Contains(query.states, row.ws)
  /\ query.statuses # <<>> => Contains(query.statuses, row.ps)
  /\ query.q # None => query.q \in Searched(row)

\* The row changed last comes first: the reel stands behind those of the others
\* that were changed after it.  The page and the total have the same filter.
RowsAt(place) == InsertAt(Others, place + 1, reel)
Matching(rows, query) == Only(rows, {row \in Range(rows) : Matches(row, query)})

PageNumber(page) == IF page = None THEN 1 ELSE Max({1, page})
PageSize(size) ==
  IF size = None THEN DefaultPageSize ELSE Max({1, Min({size, MaxPageSize})})

\* What the editor sees of a row: a snapshot without cues counts as none.
SnapshotShown(row) == IF row.auto = <<>> THEN None ELSE row.auto
Item(row) ==
  [ws |-> row.ws, ps |-> row.ps, rs |-> row.rs, snapshot |-> SnapshotShown(row)]

Recent(hits, limit, offset) ==
  LET rows == SubSeq(hits, offset + 1, Min({offset + limit, Len(hits)}))
  IN [k \in DOMAIN rows |-> Item(rows[k])]

Page(rows, query) ==
  LET size == PageSize(query.size)
      number == PageNumber(query.page)
      hits == Matching(rows, query)
  IN [items |-> Recent(hits, size, (number - 1) * size),
      count |-> Len(hits), more |-> number * size < Len(hits)]

\* Without pages the old limit is the size of the one page.
Asked(query) ==
  IF query.size = None /\ query.page = None THEN [query EXCEPT !.size = query.limit]
  ELSE query
Accepted(query) ==
  /\ FilterAccepted(query.states, FilterStates)
  /\ FilterAccepted(query.statuses, FilterStatuses)
ListReels(rows, query) == IF Accepted(query) THEN Page(rows, Asked(query)) ELSE None

\* One reel is looked for among the rows changed last, whatever their state.
Inspected(row, rows) == \E k \in 1..Min({MaxInspected, Len(rows)}) : rows[k] = row

-----------------------------------------------------------------------------
(* The worker. *)

Settings == <<agency, newest, jobs, requests, changes>>
Stage(from) == run # None /\ run.step = from /\ UNCHANGED Settings

Take(job) ==
  /\ run = None
  /\ job \in queue
  /\ queue' = queue \ {job}
  /\ run' = [step |-> "taken", job |-> job, photos |-> None, subtitles |-> None,
             slides |-> None, captions |-> <<>>, targets |-> <<>>,
             music |-> None, template |-> None, drawn |-> FALSE, intro |-> 0]
  /\ UNCHANGED <<Settings, reel, media, feed, stale, behind>>

\* The track of the job when the agency has it still.
MusicFor(id) == IF id # None /\ id \in agency.tracks THEN id ELSE DefaultMusic

\* An uploaded intro's length; without one the reel begins at once.
IntroLength == agency.intro

\* Mutant of Upserted: an existing property keeps the payload it has.
UpsertedOnce(row, listing) ==
  IF row.listing = 0 THEN [row EXCEPT !.listing = listing] ELSE row

\* The payload of the job becomes the one on record.
Upserted(row, listing) == [row EXCEPT !.listing = listing]

\* The row's overrides but the music, which is the job's, and today's settings.
Ingest ==
  /\ Stage("taken")
  /\ LET row == IF reel = None THEN NewRow ELSE reel
         targets == Plans[run.job.context][run.job.listing]
     IN /\ reel' = [Upserted(row, run.job.listing) EXCEPT
                      !.ws = "ingested", !.ps = "pending", !.rs = "pending",
                      !.targets = targets]
        /\ run' = [run EXCEPT
                     !.step = "ingested", !.photos = row.photos,
                     !.subtitles = row.subtitles, !.slides = row.slides,
                     !.captions = Captions(targets, Optional(row.captions, <<>>)),
                     !.targets = targets, !.music = MusicFor(run.job.context.music),
                     !.template = agency.template, !.drawn = agency.drawn,
                     !.intro = IntroLength]
  /\ stale' = FALSE
  /\ UNCHANGED <<queue, media, feed, behind>>

\* A listing that is taken needs its main photo only.
Prepared(l) ==
  IF ~DeliveryPlan(l).status THEN [p \in DOMAIN l.captions |-> p]
  ELSE <<IF l.featured = None THEN 1 ELSE l.featured>>

\* Under a listing that is taken every slide says so.
SlideCaption(l, p) ==
  IF DeliveryPlan(l).status THEN Field("similar_required", l, PublicUrl(l))
  ELSE l.captions[p]
CaptionsOf(l, photos) == [k \in DOMAIN photos |-> SlideCaption(l, photos[k])]

\* The photos of a listing in the order of the overrides.
Ordered(l, order, slides) == SlidesApplied(PhotosApplied(Prepared(l), order), slides)

ProfileTemplate(l, template) ==
  IF DeliveryPlan(l).status THEN StatusTemplate(template) ELSE template

\* The captions are drawn when they are on; an override always is.
CuesDrawn(l, photos, template, override, on, intro) ==
  IF override = None /\ ~on THEN {}
  ELSE DrawnCues(override, CaptionsOf(l, photos), template, intro)

\* The snapshot is made of the prepared slides, in the order of the overrides.
Snapshot(l, order, slides, template, override) ==
  IF override # None THEN <<>>
  ELSE AutoCues(CaptionsOf(l, Ordered(l, order, slides)), ProfileTemplate(l, template).per)

\* The video of a listing, with the overrides of a job, and a poster with it.
Video(l, job) ==
  LET files == Ordered(l, job.photos, job.slides)
      template == ProfileTemplate(l, job.template)
      photos == SlidesShown(files, l.featured, template)
  IN [listing |-> run.job.listing, files |-> files, photos |-> photos,
      music |-> job.music, template |-> template, drawn |-> job.drawn,
      intro |-> job.intro,
      cues |-> CuesDrawn(l, photos, template, job.subtitles, job.drawn, job.intro),
      auto |-> Snapshot(l, job.photos, job.slides, job.template, job.subtitles)]

\* The photos are prepared and the video is made of them; its files take the
\* place of the earlier ones before the row says so.
Render ==
  /\ Stage("ingested")
  /\ reel' = [reel EXCEPT !.ws = "assets_prepared"]
  /\ media' = Video(Listings[run.job.listing], run)
  /\ run' = [run EXCEPT !.step = "rendered"]
  /\ UNCHANGED <<queue, feed, stale, behind>>

\* A render without a snapshot leaves the one on record.
SnapshotKept(row, auto) == IF auto = <<>> THEN row ELSE [row EXCEPT !.auto = auto]

StoreRow ==
  /\ Stage("rendered")
  /\ reel' = [SnapshotKept(reel, media.auto) EXCEPT !.rs = "completed",
                                                        !.ws = "rendered"]
  /\ run' = [run EXCEPT !.step = "stored"]
  /\ UNCHANGED <<queue, media, feed, stale, behind>>

Hold ==
  /\ Stage("stored") /\ run.job.context.gated
  /\ reel' = [reel EXCEPT !.ws = "awaiting_review", !.ps = "pending_review"]
  /\ run' = None
  /\ UNCHANGED <<queue, media, feed, stale, behind>>

Outcome(reached) ==
  CASE reached = DOMAIN run.targets -> "published"
    [] reached = {} -> "failed"
    [] OTHER -> "partial"

\* A publication that reached no platform ends the job with an error.
Publish(reached) ==
  /\ Stage("stored") /\ ~run.job.context.gated
  /\ LET posts == Posts(run.targets, run.captions, Listings[run.job.listing],
                        media.listing, media.listing)
     IN feed' = [p \in reached |-> posts[p]]
  /\ reel' = [reel EXCEPT !.ws = Outcome(reached), !.ps = Outcome(reached)]
  /\ run' = IF reached = {} THEN [run EXCEPT !.step = "failed"] ELSE None
  /\ UNCHANGED <<queue, media, stale, behind>>

\* An error, or the end of the process, at any stage: the same job waits again,
\* beside one that came later.
Retry ==
  /\ run # None /\ run.job.tries + 1 < MaxTries
  /\ queue' = queue \cup {[run.job EXCEPT !.tries = @ + 1]}
  /\ run' = None
  /\ behind' = (behind \/ \E job \in queue : job.listing > run.job.listing)
  /\ UNCHANGED <<Settings, reel, media, feed, stale>>

GiveUp ==
  /\ run # None /\ run.job.tries + 1 = MaxTries
  /\ run' = None
  /\ stale' = TRUE
  /\ behind' = (behind \/ (run.step = "taken" /\ run.job.listing = newest))
  /\ UNCHANGED <<Settings, reel, queue, media, feed>>

-----------------------------------------------------------------------------
Editor ==
  \/ \E captions \in CaptionInputs : EditCaptions(captions)
  \/ \E music \in MusicInputs : EditMusic(music)
  \/ \E order \in PhotosInputs : EditPhotos(order)
  \/ \E cues \in CueInputs : EditSubtitles(cues)
  \/ \E slides \in SlideInputs : EditSlides(slides)
  \/ Approve \/ Regenerate \/ Reject

Worker ==
  \/ \E job \in queue : Take(job)
  \/ Ingest \/ Render \/ StoreRow \/ Hold
  \/ run # None /\ \E reached \in SUBSET DOMAIN run.targets : Publish(reached)
  \/ Retry \/ GiveUp

Next ==
  \/ Deliver
  \/ Editor
  \/ \E settings \in Agencies : ChangeSettings(settings)
  \/ Worker

Spec == Init /\ [][Next]_vars

-----------------------------------------------------------------------------
\* What a row and a job may hold of each kind of edit, and of the plans.
Orders == {None} \cup {NormalPhotos(order) : order \in PhotosInputs}
CueLists ==
  {cues \in {None} \cup {NormalCues(cues) : cues \in CueInputs} : ValidCues(cues)}
SlideLists == {None} \cup {NormalSlides(slides) : slides \in SlideInputs}
Edits == CaptionInputs \cup {<<>>}
TargetPlans == {<<>>} \cup {Plans[c][i] : c \in Contexts, i \in DOMAIN Listings}
Snapshots ==
  {None} \cup {Snapshot(Listings[i], photos, slides, a.template, cues) :
               i \in DOMAIN Listings, photos \in Orders, slides \in SlideLists,
               a \in Agencies, cues \in CueLists}

Kept(field) == {a[field] : a \in Agencies}
Tracks == (UNION Kept("tracks")) \cup {DefaultMusic, None}
CaptionLists == {<<>>} \cup {Captions(t, e) : t \in TargetPlans, e \in Edits}

Jobs == [tries : 0..(MaxTries - 1), listing : DOMAIN Listings, context : Contexts]
ReelRows ==
  [listing : DOMAIN Listings, ws : States, ps : Statuses, rs : {"pending", "completed"},
   captions : CaptionInputs \cup {None}, music : MusicInputs \cup {None},
   photos : Orders, subtitles : CueLists, slides : SlideLists, auto : Snapshots,
   targets : TargetPlans]
Runs ==
  [step : {"taken", "ingested", "rendered", "stored", "failed"}, job : Jobs,
   photos : Orders, subtitles : CueLists, slides : SlideLists,
   captions : CaptionLists, targets : TargetPlans, music : Tracks,
   template : Kept("template") \cup {None}, drawn : Kept("drawn") \cup {FALSE},
   intro : Kept("intro") \cup {0}]

ASSUME NoneAssumption == None \notin ReelRows /\ None \notin Runs /\ None \notin Int

\* The variables hold what the code keeps there; a job under way leaves room in
\* the queue for its retry.
TypeOK ==
  /\ agency \in Agencies
  /\ newest \in 0..Len(Listings)
  /\ reel # None => reel \in ReelRows /\ reel.listing <= newest
  /\ run # None => run \in Runs
  /\ queue \subseteq Jobs
  /\ Cardinality(queue) + (IF run = None THEN 0 ELSE 1) <= 2
  /\ \A job \in UnderWay : job.listing <= newest
  /\ jobs \in 0..MaxJobs /\ requests \in 0..MaxRequests /\ changes \in 0..MaxChanges
  /\ stale \in BOOLEAN /\ behind \in BOOLEAN

AtRest == queue = {} /\ run = None
AtRestRendered == AtRest /\ reel # None /\ reel.rs = "completed"

\* When nothing is left to do the record of a property is the listing the
\* website delivered last, unless a job that carried an older one was asked for
\* or tried again after it, or the job that carried it was given up.  (The type
\* invariant is checked with it.)
ListingCaughtUp ==
  /\ TypeOK
  /\ AtRest /\ reel # None /\ ~behind => reel.listing = newest

\* When nothing is left to do and the reel counts as rendered, its video shows
\* the listing on record, its photos in the order and with the cues the row
\* asks for: no edit is lost between the row, its job and the render, whichever
\* requests, failures and retries came between, but for those the row was
\* changed by without a job.
VideoShowsTheRow ==
  AtRestRendered /\ ~stale =>
    LET l == Listings[reel.listing]
        files == Ordered(l, reel.photos, reel.slides)
        photos == SlidesShown(files, l.featured, media.template)
    IN /\ media.listing = reel.listing
       /\ media.photos = photos
       /\ media.cues = CuesDrawn(l, photos, media.template, reel.subtitles,
                                media.drawn, media.intro)

\* The cues the editor is shown are those drawn in the video, later by the
\* length of an uploaded intro, when no featured photo opens it, it leaves none
\* out and its slides last seconds_per_slide.
SnapshotTellsVideo ==
  LET t == media.template
      count == Len(media.photos)
      regular == /\ media.files = media.photos
                 /\ \A k \in 1..count : SegmentLengths(t, count)[k] = t.per
  IN AtRestRendered /\ ~stale /\ media.cues # {} /\ regular
     /\ SnapshotShown(reel) # None /\ reel.subtitles = None =>
       media.cues = {[text |-> c.text, in |-> c.in + media.intro,
                      out |-> c.out + media.intro] : c \in Range(SnapshotShown(reel))}

\* The snapshot can be sent back as an override, once its texts are short
\* enough: the editor starts from it.
SnapshotCanBeSentBack ==
  reel # None /\ SnapshotShown(reel) # None =>
    LET cues == SnapshotShown(reel)
    IN (\A i \in DOMAIN cues : Len(cues[i].text) <= MaxCueText) =>
         SubtitlesPayload(cues) /\ ValidCues(cues)

\* Two captions are never drawn over each other, in one segment or across two.
AtMostOneCaption ==
  media # None =>
    \A c, d \in media.cues : c = d \/ c.out <= d.in \/ d.out <= c.in

\* The captions of a reel agree wherever they are: drawn in the video, shown to
\* the editor, and sent back.
CaptionsAgree == SnapshotTellsVideo /\ SnapshotCanBeSentBack /\ AtMostOneCaption

\* The platforms for which the editor wrote a caption.
Written == DOMAIN Optional(reel.captions, <<>>)

\* A reel on record as published was posted to every platform of the plan on
\* record, with the video of the listing on record, and with the plan's words
\* where the editor wrote none.  (Of the words where the editor wrote a caption
\* nothing is said: the endpoint and the ingestion promise that it is posted, and
\* the code posts the plan's.)
PostedOnRecord ==
  reel # None /\ reel.ws = "published" =>
    \A p \in DOMAIN reel.targets :
      /\ p \in DOMAIN feed
      /\ feed[p].media = reel.listing
      /\ p \notin Written => feed[p].text = reel.targets[p].text

\* The parts a player may ask for of a file of that size, some beyond its end.
FirstPart(k) == [kind |-> "between", a |-> 0, b |-> k - 1]
RestPart(k) == [kind |-> "from", a |-> k]
LastPart(n) == [kind |-> "last", n |-> n]
PartsOf(size) ==
  {[kind |-> "between", a |-> a, b |-> b] : a \in 0..size, b \in 0..size}
  \cup {RestPart(a) : a \in 0..size} \cup {LastPart(n) : n \in 0..size + 1}
  \cup {[kind |-> "words"]}

\* What it must get: as many bytes as announced, and each byte once when it asks
\* for what it lacks, from either end.
SentWhole(file, parts) ==
  LET answer == RangeResponse(file, parts) IN Len(answer.body) = answer.length
Streams(size) ==
  LET file == [i \in 1..size |-> i]
  IN /\ SentWhole(file, <<>>)
     /\ \A p \in PartsOf(size) :
          SentWhole(file, <<p>>) /\ \A q \in PartsOf(size) : SentWhole(file, <<p, q>>)
     /\ \A k \in 1..(size - 1) :
          /\ RangeResponse(file, <<FirstPart(k), RestPart(k)>>).body = file
          /\ RangeResponse(file, <<FirstPart(k), LastPart(size - k)>>).body = file

StreamsOfSize == [size \in 0..MaxSlides |-> Streams(size)]

\* The editor's player gets the video on disk whole and in order, however it
\* cuts it, a segment standing for a byte, and never waits for bytes that were
\* announced and are not in it.
VideoStreams == media # None => StreamsOfSize[Len(media.photos)]

\* The editor can filter for any state a reel gets into and find it there, however
\* many of the others were changed after it: who turns small pages while there are
\* more meets the reel, and as many rows as one large page announced.  The look-up
\* of one reel finds it as long as fewer than MaxInspected rows were changed after
\* it; beyond it answers that there is no such reel.
SearchFor(row, page, size) ==
  [states |-> <<row.ws>>, statuses |-> IF row.ps = "" THEN <<>> ELSE <<row.ps>>,
   q |-> Listings[row.listing].slug,
   page |-> page, size |-> size, limit |-> MaxPageSize + 1]
FoundAt(place) ==
  LET rows == RowsAt(place)
      large == SearchFor(reel, None, None)
      small == [page \in DOMAIN rows |-> ListReels(rows, SearchFor(reel, page, 0))]
      last == CHOOSE page \in DOMAIN rows : ~small[page].more
      turned == Joined([page \in 1..last |-> small[page].items], last)
  IN /\ Accepted(large)
     /\ Contains(turned, Item(reel))
     /\ Len(turned) = ListReels(rows, large).count
     /\ place < MaxInspected => Inspected(reel, rows)
FoundByItsState == reel # None => \A place \in 0..Len(Others) : FoundAt(place)

\* Whatever state a reel is in, the editor finds it in the list and plays it.
EditorFindsAndPlays == FoundByItsState /\ VideoStreams

=============================================================================
