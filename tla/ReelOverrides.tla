---------------------------- MODULE ReelOverrides ----------------------------
(***************************************************************************)
(* What an editor may change of a reel: the captions' cues, the slides and *)
(* the order of the photos; which of it the API accepts; and what becomes  *)
(* of it on the time line of the video.                                    *)
(*                                                                         *)
(* A text is a sequence of words and its limits count words.  Times are    *)
(* whole, in units of one frame.  A field an entry does not have is None.  *)
(***************************************************************************)
EXTENDS Integers, SequencesExt, FiniteSetsExt, Loops

CONSTANTS
  None,           \* null
  MaxCueText,     \* a cue's longest text
  MaxSlideText,   \* a text slide's longest text
  ReelTotal       \* REEL_TOTAL_DURATION_SECONDS

ASSUME OverridesAssumption ==
  MaxCueText \in Nat \ {0} /\ MaxSlideText \in Nat \ {0} /\ ReelTotal \in Nat \ {0}

Optional(value, default) == IF value = None THEN default ELSE value

\* The positions of entries are each of 0, 1, ... exactly once.
CoversPositions(entries) ==
  {entries[i].position : i \in DOMAIN entries} = 0..(Len(entries) - 1)

UniqueIn(entries, Key(_)) ==
  Cardinality({Key(entries[i]) : i \in DOMAIN entries}) = Len(entries)

-----------------------------------------------------------------------------
(* Cues: [index, text, in, out]. *)

CueAccepted(c) ==
  /\ c.index >= 0
  /\ Len(c.text) \in 1..MaxCueText
  /\ c.in >= 0 /\ c.out > c.in

\* Mutant of InOrder: windows may overlap.
IndicesInOrder(cues) ==
  \A i \in 2..Len(cues) : cues[i].index > cues[i - 1].index

\* A cue begins when the one before it has ended.
InOrder(cues) ==
  \A i \in 2..Len(cues) : /\ cues[i].index > cues[i - 1].index
                          /\ cues[i].in >= cues[i - 1].out

SubtitlesPayload(cues) ==
  cues # None => InOrder(cues) /\ \A i \in DOMAIN cues : CueAccepted(cues[i])

\* An empty list is no override.
NormalCues(cues) == IF cues = <<>> THEN None ELSE cues

\* The use case repeats every check of the payload on what it will store.
ValidCues(cues) ==
  cues # None =>
    /\ InOrder(cues)
    /\ \A i \in DOMAIN cues :
         /\ cues[i].index >= 0 /\ cues[i].in >= 0
         /\ cues[i].text # <<>> /\ Len(cues[i].text) <= MaxCueText
         /\ cues[i].out > cues[i].in

-----------------------------------------------------------------------------
(* Slides: [id, position, kind, duration, photo, url, text]. *)

SlideBase(s) == s.id # "" /\ s.position >= 0 /\ s.duration > 0

PhotoSlide(s) == s.kind = "photo" /\ s.photo # None /\ s.photo >= 0
VoiceoverSlide(s) == s.kind = "voiceover" /\ s.url # None
TextSlide(s) == s.kind = "text" /\ s.text # None /\ Len(s.text) \in 1..MaxSlideText
IntroCardSlide(s) == s.kind = "intro_card"
OutroCardSlide(s) == s.kind = "outro_card"

SlideAccepted(s) ==
  /\ SlideBase(s)
  /\ PhotoSlide(s) \/ VoiceoverSlide(s) \/ TextSlide(s) \/ IntroCardSlide(s)
     \/ OutroCardSlide(s)

SlidesPayload(slides) ==
  slides # None =>
    /\ \A i \in DOMAIN slides : SlideAccepted(slides[i])
    /\ UniqueIn(slides, LAMBDA s : s.id)
    /\ UniqueIn(slides, LAMBDA s : s.position)
    /\ CoversPositions(slides)

NormalSlides(slides) == IF slides = <<>> THEN None ELSE slides

\* duration_seconds of the agency's defaults, which may be unset or 0.
TargetDuration(duration) ==
  IF duration = None \/ duration = 0 THEN ReelTotal ELSE duration

KindFields(s) ==
  /\ s.kind = "photo" => s.photo >= 0
  /\ s.kind = "voiceover" => s.url # ""
  /\ s.kind = "text" => s.text # <<>>

SlideDurations(slides) ==
  FoldLeft(LAMBDA sum, s : sum + s.duration, 0, slides)

\* One and a half times the target is the most the slides may last.
WithinDuration(slides, target) == 2 * SlideDurations(slides) <= 3 * target

ValidSlides(slides, target) ==
  slides # None =>
    /\ UniqueIn(slides, LAMBDA s : s.id)
    /\ \A i \in DOMAIN slides : /\ SlideBase(slides[i])
                                /\ KindFields(slides[i])
    /\ CoversPositions(slides)
    /\ WithinDuration(slides, target)

-----------------------------------------------------------------------------
(* Photos: [position, selected]. *)

PhotosPayload(order) ==
  order # None => /\ \A i \in DOMAIN order : order[i].position >= 0
                  /\ UniqueIn(order, LAMBDA e : e.position)

NormalPhotos(order) == IF order = <<>> THEN None ELSE order

\* Every one of the catalog's count photos is named.
ValidPhotos(order, count) ==
  order # None =>
    /\ count > 0
    /\ Len(order) = count
    /\ UniqueIn(order, LAMBDA e : e.position)
    /\ \A i \in DOMAIN order : order[i].position < count

\* The photos of files at positions, those that exist; files when none does.
Picked(files, positions) ==
  LET kept == Only(positions, 0..(Len(files) - 1))
  IN IF kept = <<>> THEN files ELSE [n \in DOMAIN kept |-> files[kept[n] + 1]]

PhotosApplied(files, order) ==
  LET given == Optional(order, <<>>)
      entries == Only(given, {e \in Range(given) : e.selected})
  IN Picked(files, [n \in DOMAIN entries |-> entries[n].position])

\* By position; entries that share one keep their order.
ByPosition(entries) ==
  LET Ahead(i) == {j \in DOMAIN entries :
                     \/ entries[j].position < entries[i].position
                     \/ entries[j].position = entries[i].position /\ j < i}
  IN [p \in DOMAIN entries |->
        entries[CHOOSE i \in DOMAIN entries : Cardinality(Ahead(i)) = p - 1]]

\* Of the slides only the photos' order reaches the renderer: by position,
\* indexing files as the photos' order has already arranged them.
SlidesApplied(files, slides) ==
  LET given == Optional(slides, <<>>)
      photos == ByPosition(Only(given, {s \in Range(given) : s.kind = "photo"}))
  IN Picked(files, [n \in DOMAIN photos |-> photos[n].photo])

-----------------------------------------------------------------------------
(* The time line.  A template is [per, max, total]: the length of a slide, *)
(* the most slides there may be and the length of a reel with that many.   *)

\* The reel of a listing that was sold or let shows one slide.
StatusTemplate(t) == [per |-> t.per, max |-> 1, total |-> t.per]

\* The photos the video shows: the featured one, if any, opens it.
SlidesShown(files, featured, t) ==
  LET all == IF featured = None THEN files
             ELSE <<featured>> \o Only(files, Range(files) \ {featured})
  IN SubSeq(all, 1, Min({t.max, Len(all)}))

\* Below the maximum every slide has its own length; a full reel is divided
\* evenly, and its first slides take a frame of the remainder.
SegmentLengths(t, count) ==
  LET target == Max({count, t.total})
  IN [k \in 1..count |->
        IF count < t.max THEN Max({1, t.per})
        ELSE target \div count + (IF k <= target % count THEN 1 ELSE 0)]

\* Segment k starts where the ones before it end.
StartOf(lengths, k) == SumOf(lengths, k - 1)

\* The snapshot for the editor: a cue per slide that has a caption, each slide
\* taken to last per.
AutoCues(captions, per) ==
  LET captioned == Only([k \in DOMAIN captions |-> k],
                        {k \in DOMAIN captions : captions[k] # <<>>})
  IN IF per <= 0 THEN <<>>
     ELSE [i \in DOMAIN captioned |->
             [index |-> i - 1, text |-> captions[captioned[i]],
              in |-> (captioned[i] - 1) * per, out |-> captioned[i] * per]]

\* What one segment of a length draws, in the segment's own time: every cue of
\* the override, or the caption of the slide for its whole length.
SegmentCues(override, caption, length) ==
  LET raw == IF override = None
               THEN {[text |-> caption, in |-> 0, out |-> length]}
               ELSE {[text |-> c.text, in |-> c.in, out |-> Min({c.out, length})] :
                       c \in Range(override)}
  IN {c \in raw : c.text # <<>> /\ c.in < c.out}

\* What the video draws, in its own time: every segment is rendered on its own
\* and the segments are joined, after an intro video of a length.
DrawnCues(override, captions, t, intro) ==
  LET lengths == SegmentLengths(t, Len(captions))
      start(k) == intro + StartOf(lengths, k)
  IN UNION {{[text |-> c.text, in |-> start(k) + c.in, out |-> start(k) + c.out] :
               c \in SegmentCues(override, captions[k], lengths[k])} :
            k \in DOMAIN captions}

=============================================================================
