----------------------------- MODULE ReelPhotos -----------------------------
(***************************************************************************)
(* The photos of one property's reel, from the listing to the slides: the  *)
(* worker downloads them, has them classified, fills the folder of         *)
(* selected photos, records the images in the catalog and renders, while   *)
(* the editor stores orders for them.  Jobs of a property run one at a     *)
(* time; each may fail or lose its process at every step, and what it left *)
(* in the folders is what the next one finds.                              *)
(*                                                                         *)
(* Files keep the order list_image_files gives them: the selected photos   *)
(* 01_..., 02_..., then primary_image, the featured one.                   *)
(***************************************************************************)
EXTENDS PhotoSelection

CONSTANTS
  Photos,          \* images, each with a URL of its own
  Basename,        \* function from photo to the file name in its URL
  Listings,        \* what webhooks may deliver: [kind, photos, featured]
  Answers,         \* functions from photo to the classifier's answer
  Nothing,         \* no photo, no override
  PhotosToSelect,  \* DEFAULT_PHOTOS_TO_SELECT
  MaxSlides,       \* the template's max_slide_count
  MaxBegun,        \* bound: jobs
  MaxEdits,        \* bound: edits
  MaxManifest      \* bound: photo slides of a manifest

ListingKinds == {"curated", "status"}

ASSUME ListingsAssumption ==
  /\ IsFiniteSet(Photos) /\ Nothing \notin Photos
  /\ \A l \in Listings :
       /\ l.kind \in ListingKinds
       /\ l.photos \in Seq(Photos) /\ IsInjective(l.photos)
       /\ l.featured \in Photos \cup {Nothing}
       /\ l.photos = <<>> => l.featured = Nothing
ASSUME AnswersAssumption ==
  \A answer \in Answers, p \in Photos :
    answer[p].score \in Int /\ answer[p].confidence \in Int
ASSUME BoundsAssumption ==
  /\ PhotosToSelect \in Nat \ {0} /\ MaxSlides \in Nat \ {0}
  /\ MaxBegun \in Nat /\ MaxEdits \in Nat /\ MaxManifest \in Nat

VARIABLES
  dir,      \* selected_photos: the numbered files in order, and primary_image
  tmp,      \* _tmp_primary_image beside that folder, or Nothing
  audit,    \* gemini_selection.json: the photos selected, in order
  catalog,  \* property_images: [photo, path] in listing order
  order,    \* reels.photos_override: sequence of [position, selected]
  slides,   \* reels.manifest_override: the photo positions of its photo slides
  job,      \* the job in progress
  video,    \* the reel on record, Nothing while another is being made
  begun,    \* how many jobs there were
  edits,    \* how many edits there were
  cleared   \* history: the folder was cleared since the catalog was recorded

photosVars == <<dir, tmp, audit, catalog, order, slides, job, video, begun, edits,
          cleared>>
folders == <<dir, tmp, audit>>
overrides == <<order, slides, edits>>

NoDir == [slots |-> <<>>, primary |-> Nothing]
NoJob == [step |-> "idle", listing |-> Nothing, order |-> Nothing, slides |-> Nothing,
          got |-> {}, reserved |-> Nothing, todo |-> <<>>, chosen |-> <<>>,
          prepared |-> <<>>, from |-> "selected", reused |-> FALSE]

Primary == 0  \* the path of primary_image; the others count from 1

\* Files of selected_photos in their order; files of the property folder.
InSelected ==
  [i \in DOMAIN dir.slots |-> [photo |-> dir.slots[i], primary |-> FALSE]]
  \o IF dir.primary = Nothing THEN <<>>
     ELSE <<[photo |-> dir.primary, primary |-> TRUE]>>
InProperty == IF tmp = Nothing THEN <<>> ELSE <<[photo |-> tmp, primary |-> FALSE]>>

PhotosInit ==
  /\ dir = NoDir /\ tmp = Nothing /\ audit = [chosen |-> <<>>, reserved |-> Nothing] /\ catalog = <<>>
  /\ order = Nothing /\ slides = Nothing
  /\ job = NoJob /\ video = Nothing
  /\ begun = 0 /\ edits = 0
  /\ cleared = FALSE

-----------------------------------------------------------------------------
(* The worker. *)

\* primary_only is the strategy of a listing that was sold or let.
IngestPhotos(l) ==
  /\ job.step = "idle" /\ begun < MaxBegun
  /\ LET needed == l.kind = "curated" \/ InSelected = <<>>
     IN job' = [NoJob EXCEPT !.step = IF needed THEN "clear" ELSE "render",
                             !.listing = l, !.order = order, !.slides = slides,
                             !.prepared = IF needed THEN <<>> ELSE InSelected,
                             !.reused = ~needed]
  /\ begun' = begun + 1
  /\ video' = Nothing
  /\ UNCHANGED <<folders, catalog, overrides, cleared>>

\* Mutant of Clear: the earlier photos stay.
ClearNothing ==
  /\ job.step = "clear"
  /\ cleared' = TRUE
  /\ job' = [job EXCEPT !.step = IF job.listing.kind = "curated"
                                   THEN "download" ELSE "primary"]
  /\ UNCHANGED <<folders, catalog, overrides, video, begun>>

Clear ==
  /\ job.step = "clear"
  /\ dir' = NoDir
  /\ cleared' = TRUE
  /\ job' = [job EXCEPT !.step = IF job.listing.kind = "curated"
                                   THEN "download" ELSE "primary"]
  /\ UNCHANGED <<tmp, audit, catalog, overrides, video, begun>>

\* Every image is tried once.  With none at all the property folder itself is
\* taken for the folder of selected photos.
Download(got) ==
  /\ job.step = "download"
  /\ got \subseteq DOMAIN job.listing.photos
  /\ job' = IF got = {}
              THEN [job EXCEPT !.step = "persist", !.from = "property"]
              ELSE [job EXCEPT !.step = "feature", !.got = got]
  /\ UNCHANGED <<folders, catalog, overrides, video, begun, cleared>>

\* The featured image is moved aside when it is among the downloads, and
\* otherwise downloaded on its own, which may fail.
Feature(ok) ==
  /\ job.step = "feature"
  /\ LET f == job.listing.featured
         here == \E i \in job.got : job.listing.photos[i] = f
     IN /\ f = Nothing \/ here => ok
        /\ tmp' = IF f = Nothing THEN tmp ELSE IF ok THEN f ELSE Nothing
        /\ job' = [job EXCEPT !.step = "classify",
                              !.reserved = IF ok THEN f ELSE Nothing]
  /\ UNCHANGED <<dir, audit, catalog, overrides, video, begun, cleared>>

\* What is classified, in order: the reserved image and then the others.
Records ==
  LET others == Only([i \in DOMAIN job.listing.photos |-> i],
                     {i \in job.got : job.listing.photos[i] # job.reserved})
  IN (IF job.reserved = Nothing THEN <<>> ELSE <<job.reserved>>)
     \o [n \in DOMAIN others |-> job.listing.photos[others[n]]]

\* The rows of the first n answers, and the photos selected from rows.
Rows(answer, n) == [i \in 1..n |-> ResultRow(Records[i], answer[Records[i]])]
Selected(rows) ==
  LET chosen == ChooseSelected(rows, PhotosToSelect, job.reserved)
  IN [i \in DOMAIN chosen |-> chosen[i].file]

Classify(answer) ==
  /\ job.step = "classify"
  /\ audit' = [chosen |-> Selected(Rows(answer, Len(Records))),
             reserved |-> job.reserved]
  /\ LET paths == Only(audit'.chosen, Photos \ {job.reserved})
     IN job' = [job EXCEPT !.step = "move", !.todo = paths, !.chosen = paths]
  /\ UNCHANGED <<dir, tmp, catalog, overrides, video, begun, cleared>>

\* A photo the classifier gives no answer for ends the job: the daily quota,
\* an answer that is no object, or the last of its attempts.
ClassifyFails(answer, n) ==
  /\ job.step = "classify"
  /\ n < Len(Records)
  /\ LET rows == Append(Rows(answer, n), ErrorRow(Records[n + 1], "error"))
     IN audit' = [chosen |-> Selected(rows), reserved |-> job.reserved]
  /\ job' = NoJob
  /\ UNCHANGED <<dir, tmp, catalog, overrides, video, begun, cleared>>

\* The copies are moved into the folder one by one, then the featured image.
Move ==
  /\ job.step = "move"
  /\ job.todo # <<>>
  /\ dir' = [dir EXCEPT !.slots = Append(@, Head(job.todo))]
  /\ job' = [job EXCEPT !.todo = Tail(@)]
  /\ UNCHANGED <<tmp, audit, catalog, overrides, video, begun, cleared>>

StorePrimary ==
  /\ job.step = "move"
  /\ job.todo = <<>>
  /\ dir' = [dir EXCEPT !.primary = IF job.reserved = Nothing THEN @ ELSE job.reserved]
  /\ tmp' = IF job.reserved = Nothing THEN tmp ELSE Nothing
  /\ job' = [job EXCEPT !.step = "persist"]
  /\ UNCHANGED <<audit, catalog, overrides, video, begun, cleared>>

\* The one image of a listing that was sold or let.
PrimaryOnly ==
  /\ job.step = "primary"
  /\ job.listing.photos # <<>>
  /\ dir' = [dir EXCEPT !.primary = IF job.listing.featured # Nothing
                                      THEN job.listing.featured
                                      ELSE job.listing.photos[1]]
  /\ job' = [job EXCEPT !.step = "persist"]
  /\ UNCHANGED <<tmp, audit, catalog, overrides, video, begun, cleared>>

\* Mutant of PathOf: the image's own position for the number of its file.
PathByPosition(i) ==
  CASE i \notin job.got -> Nothing
    [] i \in job.got /\ job.listing.photos[i] = job.reserved -> Primary
    [] i \in job.got /\ job.listing.photos[i] # job.reserved -> i

\* The path replace_images stores for the image at i: by the name of its file.
PathOf(i) ==
  LET p == job.listing.photos[i]
      IsIt(q) == q = p
      n == SelectInSeq(job.chosen, IsIt)
  IN CASE i \notin job.got -> Nothing
       [] i \in job.got /\ p = job.reserved -> Primary
       [] i \in job.got /\ p # job.reserved -> IF n = 0 THEN Nothing ELSE n

\* The images are recorded together with the reel that shows them: without any
\* photo the error takes the transaction back, and the rows of an earlier job
\* stay beside the cleared folder.
Persist ==
  /\ job.step = "persist"
  /\ LET found == IF job.from = "property" THEN InProperty ELSE InSelected
     IN IF found = <<>>
          THEN job' = NoJob /\ UNCHANGED <<catalog, cleared>>
          ELSE /\ catalog' = [i \in DOMAIN job.listing.photos |->
                               [photo |-> job.listing.photos[i], path |-> PathOf(i)]]
               /\ cleared' = FALSE
               /\ job' = [job EXCEPT !.step = "render", !.prepared = found]
  /\ UNCHANGED <<folders, overrides, video, begun>>

\* Positions of an override that the prepared photos have.
Positions(prepared) == 0..(Len(prepared) - 1)

\* prepared reordered by wanted, a sequence of positions; as it is when none
\* of them exists.
Reordered(prepared, wanted) ==
  LET kept == Only(wanted, Positions(prepared))
  IN IF kept = <<>> THEN prepared ELSE [n \in DOMAIN kept |-> prepared[kept[n] + 1]]

\* Mutant of WantedPhotos: what is selected is not asked.
WantedInAnyCase == IF job.order = Nothing THEN <<>>
                   ELSE [n \in DOMAIN job.order |-> job.order[n].position]

\* The positions the editor selected, and those of the slides, in their order.
WantedPhotos == IF job.order = Nothing THEN <<>>
                ELSE LET entries == Only(job.order, {e \in Range(job.order) : e.selected})
                     IN [n \in DOMAIN entries |-> entries[n].position]
WantedSlides == IF job.slides = Nothing THEN <<>> ELSE job.slides

\* Mutant of Caption: the audit is read also for the property folder.
CaptionInAnyFolder(file) ==
  LET same(p) == Basename[p] = Basename[file.photo] /\ p # audit.reserved
      n == SelectLastInSeq(audit.chosen, same)
  IN IF file.primary
       THEN IF Contains(audit.chosen, audit.reserved) THEN audit.reserved ELSE Nothing
       ELSE IF n = 0 THEN Nothing ELSE audit.chosen[n]

\* The caption of a file: the row of the featured image for primary_image, and
\* for the others the last row whose file has the same name without its number.
Caption(file) ==
  LET rows == audit.chosen
      same(p) == Basename[p] = Basename[file.photo] /\ p # audit.reserved
      n == SelectLastInSeq(rows, same)
  IN CASE job.from = "property" -> Nothing
       [] job.from # "property" /\ file.primary ->
            IF Contains(rows, audit.reserved) THEN audit.reserved ELSE Nothing
       [] job.from # "property" /\ ~file.primary ->
            IF n = 0 THEN Nothing ELSE rows[n]

\* The featured image opens the reel: the file when the overrides kept it, and
\* otherwise a new download, with the caption of the featured image if any.
SlidesOf(files) ==
  LET slide(file) == [photo |-> file.photo, caption |-> Caption(file)]
      isPrimary(file) == file.primary
      others == Only(files, {file \in Range(files) : ~file.primary})
      p == SelectInSeq(files, isPrimary)
      first == IF p # 0 THEN <<slide(files[p])>>
               ELSE IF job.listing.featured = Nothing THEN <<>>
               ELSE <<slide([photo |-> job.listing.featured, primary |-> TRUE])>>
      all == first \o [n \in DOMAIN others |-> slide(others[n])]
      limit == IF job.listing.kind = "status" THEN 1 ELSE MaxSlides
  IN SubSeq(all, 1, IF limit < Len(all) THEN limit ELSE Len(all))

\* A reel needs its featured image when the overrides left it out.
Render ==
  /\ job.step = "render"
  /\ LET files == Reordered(Reordered(job.prepared, WantedPhotos), WantedSlides)
     IN video' = [listing |-> job.listing, slides |-> SlidesOf(files),
                  job |-> [job EXCEPT !.step = "idle"]]
  /\ job' = NoJob
  /\ UNCHANGED <<folders, catalog, overrides, begun, cleared>>

\* An exception or the end of the process, at any step: what the job wrote
\* stays, the image it set aside included.
Abandon ==
  /\ job.step # "idle"
  /\ job' = NoJob
  /\ UNCHANGED <<folders, catalog, overrides, video, begun, cleared>>

-----------------------------------------------------------------------------
(* The editor.  An edit also asks for a job, which IngestPhotos stands for. *)

Edit == edits < MaxEdits /\ edits' = edits + 1

\* Every photo of the catalog exactly once; the slides are dropped.
EditPhotos(o) ==
  /\ Edit
  /\ o # Nothing =>
       /\ catalog # <<>>
       /\ Len(o) = Len(catalog)
       /\ \A i, j \in DOMAIN o : o[i].position = o[j].position => i = j
       /\ \A i \in DOMAIN o : o[i].position < Len(catalog)
  /\ order' = o
  /\ slides' = Nothing
  /\ UNCHANGED <<folders, catalog, job, video, begun, cleared>>

\* The photo positions of the slides are not compared with any photos.
EditSlides(m) ==
  /\ Edit
  /\ slides' = m
  /\ UNCHANGED <<folders, catalog, order, job, video, begun, cleared>>

\* The image the admin API serves at i: the file the catalog names, which keeps
\* the last part of the URL in its name.
Served(i) ==
  LET n == catalog[i].path
  IN CASE n = Nothing -> Nothing
       [] n = Primary -> dir.primary
       [] OTHER -> IF /\ n \in DOMAIN dir.slots
                      /\ Basename[dir.slots[n]] = Basename[catalog[i].photo]
                     THEN dir.slots[n] ELSE Nothing

Orders == {Nothing} \cup UNION {[1..n -> [position : 0..(n - 1), selected : BOOLEAN]] :
                             n \in {Len(catalog)} \ {0}}
Manifests == {Nothing} \cup (BoundedSeq(0..(Cardinality(Photos) - 1), MaxManifest) \ {<<>>})

PhotosNext ==
  \/ \E l \in Listings : IngestPhotos(l)
  \/ Clear
  \/ \E got \in SUBSET (1..Cardinality(Photos)) : Download(got)
  \/ \E ok \in BOOLEAN : Feature(ok)
  \/ \E answer \in Answers : Classify(answer)
  \/ \E answer \in Answers, n \in 0..(Cardinality(Photos) - 1) : ClassifyFails(answer, n)
  \/ Move
  \/ StorePrimary
  \/ PrimaryOnly
  \/ Persist
  \/ Render
  \/ Abandon
  \/ \E o \in Orders : EditPhotos(o)
  \/ \E m \in Manifests : EditSlides(m)

PhotosSpec == PhotosInit /\ [][PhotosNext]_photosVars

-----------------------------------------------------------------------------
(* Properties. *)

File == [photo : Photos, primary : BOOLEAN]
Prepared == UNION {[1..n -> File] : n \in 0..(Cardinality(Photos) + 1)}
PhotoSeqs == UNION {[1..n -> Photos] : n \in 0..Cardinality(Photos)}

\* The variables hold what the code keeps there; a job that renders has photos.
PhotosTypeOK ==
  /\ dir \in [slots : PhotoSeqs, primary : Photos \cup {Nothing}]
  /\ tmp \in Photos \cup {Nothing}
  /\ audit \in [chosen : PhotoSeqs, reserved : Photos \cup {Nothing}]
  /\ catalog \in Seq([photo : Photos, path : Nat \cup {Nothing}])
  /\ job.step \in {"idle", "clear", "download", "feature", "classify", "move",
                   "primary", "persist", "render"}
  /\ job.prepared \in Prepared
  /\ job.step = "render" => job.prepared # <<>>
  /\ begun \in 0..MaxBegun /\ edits \in 0..MaxEdits /\ cleared \in BOOLEAN

Shown == {video.slides[i] : i \in DOMAIN video.slides}
InListing(l) == Range(l.photos) \cup {l.featured}

\* The image the admin API serves for a photo of the catalog is that photo,
\* until a later job clears the folder.  (The type invariant is checked with it.)
CatalogPathsHold ==
  /\ PhotosTypeOK
  /\ ~cleared => \A i \in DOMAIN catalog :
                   catalog[i].path # Nothing => Served(i) = catalog[i].photo

\* The photos of a reel are those of its own listing and only those this job
\* downloaded, whatever an earlier job left behind, with two exceptions: a
\* listing that was sold or let keeps the folder as it is, and a job without one
\* download takes up the image an abandoned job had set aside.
PhotosAreItsOwn ==
  video # Nothing =>
    \A s \in Shown : \/ s.photo \in InListing(video.listing)
                     \/ video.job.reused
                     \/ video.job.from = "property"

\* A caption was written for the photo it is shown with, or for one whose URL
\* ends in the same name; only a listing that was sold or let may show the
\* caption of the image featured before.
CaptionsMatch ==
  video # Nothing /\ video.listing.kind = "curated" =>
    \A s \in Shown : s.caption # Nothing => Basename[s.caption] = Basename[s.photo]

\* A reel shows its own listing, in its photos and in what is said of them.
ShowsItsListing == PhotosAreItsOwn /\ CaptionsMatch

\* The featured image opens the reel and is there once, though the classifier
\* rejects it or an override leaves it out.
FeaturedFirst ==
  video # Nothing /\ ~video.job.reused /\ video.listing.featured # Nothing =>
    /\ video.slides[1].photo = video.listing.featured
    /\ video.job.from = "selected" =>
         \A i \in DOMAIN video.slides :
           video.slides[i].photo = video.listing.featured => i = 1

\* The editor selects positions of the catalog (docs/API.md:1068).  The photos
\* are taken from those positions of the prepared ones; where they stand there as
\* in the catalog, a reel shows the photos selected, and the featured one, and no
\* other.  An order that selects none of the prepared photos is left aside.
OnlySelectedShown ==
  video # Nothing /\ ~video.job.reused /\ video.job.order # Nothing =>
    LET catalogued == video.listing.photos
        prepared == video.job.prepared
        selected == {e \in Range(video.job.order) : e.selected}
        taken == {e \in selected : e.position < Len(prepared)}
        inPlace == \A e \in taken :
                     /\ e.position + 1 \in DOMAIN catalogued
                     /\ prepared[e.position + 1].photo = catalogued[e.position + 1]
    IN taken # {} /\ inPlace =>
         \A s \in Shown :
           \/ s.photo = video.listing.featured
           \/ \E e \in selected : /\ e.position + 1 \in DOMAIN catalogued
                                 /\ s.photo = catalogued[e.position + 1]

\* What a reel shows is what the agency featured and the editor selected, as far
\* as the positions of the catalog and of the prepared photos agree.
FeaturedAndSelected == FeaturedFirst /\ OnlySelectedShown
=============================================================================
