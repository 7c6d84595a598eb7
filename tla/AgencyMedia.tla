---------------------------- MODULE AgencyMedia ----------------------------
(***************************************************************************)
(* The media an agency uploads once and every reel uses: an intro and an   *)
(* outro video, and a library of music.  The admin API keeps a database    *)
(* row and a file for each, changes the file before its transaction        *)
(* commits, and serves one request at a time (its endpoints are coroutines *)
(* without an await between the first file operation and the commit).  The *)
(* worker reads rows and files with no lock, when it ingests a job, and    *)
(* the files again when it renders.                                        *)
(*                                                                         *)
(* Videos are stored under the hash of their bytes: a video is its own     *)
(* name.  Music is stored under the name the client gave the file.  A form *)
(* that is refused changes nothing (MediaUploads).                         *)
(***************************************************************************)
EXTENDS MediaUploads, FiniteSets

CONSTANTS
  VideoForms,   \* the forms an intro or outro is uploaded with
  MusicForms,   \* the forms music is uploaded with
  Cleaned,      \* what is left of the stem of a file name: a function
  Tracks,       \* ids of rows of agency_music_tracks
  Seeded,       \* function from track to file name: rows a new agency has
  SeedSong,     \* the bytes of the seeded files
  None,         \* no video, no file, no override
  MaxRequests,  \* bound: requests of the API
  MaxJobs       \* bound: jobs of the worker

\* The uploads that are accepted, by what the use cases get of them.
Videos == {VideoKey(f) : f \in {g \in VideoForms : AcceptsVideo(g)}}
MusicUploads ==
  {[name |-> MusicName(f, Cleaned), song |-> FilePart(f).bytes,
    default |-> DefaultText(f) \in Yes] : f \in {g \in MusicForms : AcceptsMusic(g)}}

\* What they may leave on disk.
Songs == {SeedSong} \cup {u.song : u \in MusicUploads}
FileNames == {Seeded[t] : t \in DOMAIN Seeded} \cup {u.name : u \in MusicUploads}

\* The seeded files are what their names say, MP3 files.
ASSUME SeededAssumption ==
  /\ DOMAIN Seeded \subseteq Tracks
  /\ \A t \in DOMAIN Seeded : LooksLike(ServedType[Seeded[t].suffix], SeedSong)
ASSUME NoneAssumption ==
  None \notin Videos /\ None \notin Songs /\ None \notin FileNames /\ None \notin Tracks
ASSUME BoundsAssumption == MaxRequests \in Nat /\ MaxJobs \in Nat

Slots == {"intro", "outro"}

VARIABLES
  slot,      \* agency_intro_outro_assets: the uploaded video, or None
  enabled,   \* agency_reel_defaults.intro_enabled, outro_enabled
  fallback,  \* settings.music.selection_rules.fallback_to_full_library
  tracks,    \* agency_music_tracks: function from id to its row
  videos,    \* files in the folder of each slot
  songs,     \* the file of each name, or None
  api,       \* the request in progress
  job,       \* the job in progress
  requests,  \* how many requests there were
  jobs,      \* how many jobs there were
  spoiled,   \* history: videos that a request which failed had deleted
  left,      \* history: videos that a request which failed left on disk
  reused     \* history: names uploaded again while a track or job used that file

vars == <<slot, enabled, fallback, tracks, videos, songs, api, job, requests,
          jobs, spoiled, left, reused>>
rows == <<slot, enabled, fallback, tracks>>
files == <<videos, songs>>
history == <<spoiled, left, reused>>

Row == [file : FileNames, default : BOOLEAN, song : Songs]

Idle == [step |-> "idle"]
Request ==
  {Idle}
  \cup [step : {"probe", "unlink", "commit"}, slot : Slots,
        old : Videos \cup {None}, new : Videos \cup {None}]
  \cup [step : {"probe_song", "commit_song"}, name : FileNames, song : Songs,
        default : BOOLEAN]

NoJob == [step |-> "idle", override |-> None,
          segments |-> [s \in Slots |-> None], pool |-> {}, why |-> "none"]
Job == [step : {"idle", "outro", "intro", "music", "override", "prepare", "mux",
                "prepend", "append", "done", "failed"},
        override : Tracks \cup {None},
        segments : [Slots -> Videos \cup {None}],
        pool : SUBSET FileNames,
        why : {"none", "no_tracks", "no_default", "blob_missing",
               "segment_missing"}]

TypeOK ==
  /\ slot \in [Slots -> Videos \cup {None}]
  /\ enabled \in [Slots -> BOOLEAN]
  /\ fallback \in BOOLEAN
  /\ DOMAIN tracks \subseteq Tracks
  /\ \A t \in DOMAIN tracks : tracks[t] \in Row
  /\ videos \in [Slots -> SUBSET Videos]
  /\ songs \in [FileNames -> Songs \cup {None}]
  /\ api \in Request
  /\ job \in Job
  /\ requests \in 0..MaxRequests
  /\ jobs \in 0..MaxJobs
  /\ spoiled \subseteq Slots \X Videos
  /\ left \subseteq Slots \X Videos
  /\ reused \subseteq FileNames

\* An agency as register_agency leaves it, with no row of defaults.
Init ==
  /\ slot = [s \in Slots |-> None]
  /\ enabled = [s \in Slots |-> s = "intro"]
  /\ fallback = TRUE
  /\ tracks = [t \in DOMAIN Seeded |->
                 [file |-> Seeded[t], default |-> TRUE, song |-> SeedSong]]
  /\ videos = [s \in Slots |-> {}]
  /\ songs = [n \in FileNames |->
                IF \E t \in DOMAIN Seeded : Seeded[t] = n THEN SeedSong ELSE None]
  /\ api = Idle
  /\ job = NoJob
  /\ requests = 0
  /\ jobs = 0
  /\ spoiled = {}
  /\ left = {}
  /\ reused = {}

-----------------------------------------------------------------------------
(* Requests of the admin API. *)

Begin == api.step = "idle" /\ requests < MaxRequests /\ requests' = requests + 1

\* A committed track has the file, or the job counts on it.
InUse(name) == name \in job.pool \/ \E t \in DOMAIN tracks : tracks[t].file = name

\* The upload of an intro or outro: the old row is read, the bytes are written
\* under their hash.
UploadVideo(s, v) ==
  /\ Begin
  /\ videos' = [videos EXCEPT ![s] = @ \cup {v}]
  /\ api' = [step |-> "probe", slot |-> s, old |-> slot[s], new |-> v]
  /\ spoiled' = spoiled \ {<<s, v>>}
  /\ UNCHANGED <<rows, songs, job, jobs, left, reused>>

\* ffprobe is missing or refuses the file: it is deleted, also when it is the
\* very file the row refers to.
VideoRefused ==
  /\ api.step = "probe"
  /\ videos' = [videos EXCEPT ![api.slot] = @ \ {api.new}]
  /\ spoiled' = IF api.new = slot[api.slot]
                  THEN spoiled \cup {<<api.slot, api.new>>} ELSE spoiled
  /\ left' = left \ {<<api.slot, api.new>>}
  /\ api' = Idle
  /\ UNCHANGED <<rows, songs, job, requests, jobs, reused>>

\* ffprobe takes longer than 30 seconds: the exception leaves the file.
VideoTimesOut ==
  /\ api.step = "probe"
  /\ left' = left \cup {<<api.slot, api.new>>}
  /\ api' = Idle
  /\ UNCHANGED <<rows, files, job, requests, jobs, spoiled, reused>>

\* The row is upserted, in the transaction.
VideoAccepted ==
  /\ api.step = "probe"
  /\ api' = [api EXCEPT !.step = "unlink"]
  /\ UNCHANGED <<rows, files, job, requests, jobs, history>>

\* DELETE: the row is read, then reset in the transaction.
DeleteVideo(s) ==
  /\ Begin
  /\ api' = [step |-> "unlink", slot |-> s, old |-> slot[s], new |-> None]
  /\ UNCHANGED <<rows, files, job, jobs, history>>

\* An earlier file under another key.
Replaced(a) == a.old # None /\ a.old # a.new

\* The earlier file is deleted before the transaction commits.
UnlinkPrevious ==
  /\ api.step = "unlink"
  /\ videos' = IF Replaced(api)
                 THEN [videos EXCEPT ![api.slot] = @ \ {api.old}] ELSE videos
  /\ left' = IF Replaced(api) THEN left \ {<<api.slot, api.old>>} ELSE left
  /\ api' = [api EXCEPT !.step = "commit"]
  /\ UNCHANGED <<rows, songs, job, requests, jobs, spoiled, reused>>

\* Mutant of CommitVideo: a row that exists stays as it is (DO NOTHING).
InsertVideo ==
  /\ api.step = "commit"
  /\ slot' = [slot EXCEPT ![api.slot] = IF @ = None THEN api.new ELSE @]
  /\ left' = left \ {<<api.slot, api.new>>}
  /\ api' = Idle
  /\ UNCHANGED <<enabled, fallback, tracks, files, job, requests, jobs, spoiled,
                 reused>>

CommitVideo ==
  /\ api.step = "commit"
  /\ slot' = [slot EXCEPT ![api.slot] = api.new]
  /\ left' = left \ {<<api.slot, api.new>>}
  /\ api' = Idle
  /\ UNCHANGED <<enabled, fallback, tracks, files, job, requests, jobs, spoiled,
                 reused>>

\* A music file is written under its name, over the file that was there.
UploadSong(u) ==
  /\ Begin
  /\ songs' = [songs EXCEPT ![u.name] = u.song]
  /\ reused' = IF InUse(u.name) THEN reused \cup {u.name} ELSE reused \ {u.name}
  /\ api' = [step |-> "probe_song", name |-> u.name, song |-> u.song,
             default |-> u.default]
  /\ UNCHANGED <<rows, videos, job, jobs, spoiled, left>>

\* Mutant of SongRefused: the track is registered all the same.
SongRefusedButKept ==
  /\ api.step = "probe_song"
  /\ songs' = [songs EXCEPT ![api.name] = None]
  /\ api' = [api EXCEPT !.step = "commit_song"]
  /\ UNCHANGED <<rows, videos, job, requests, jobs, history>>

\* The probe fails or the duration is zero or above ten minutes, or the INSERT
\* fails: the file is deleted.
SongRefused ==
  /\ api.step = "probe_song"
  /\ songs' = [songs EXCEPT ![api.name] = None]
  /\ api' = Idle
  /\ UNCHANGED <<rows, videos, job, requests, jobs, history>>

SongTimesOut ==
  /\ api.step = "probe_song"
  /\ api' = Idle
  /\ UNCHANGED <<rows, files, job, requests, jobs, history>>

\* The probe is satisfied, and the row is inserted in the transaction.
SongAccepted ==
  /\ api.step = "probe_song"
  /\ api' = [api EXCEPT !.step = "commit_song"]
  /\ UNCHANGED <<rows, files, job, requests, jobs, history>>

CommitSong ==
  /\ api.step = "commit_song"
  /\ \E t \in Tracks \ DOMAIN tracks :
       tracks' = [u \in DOMAIN tracks \cup {t} |->
                    IF u = t THEN [file |-> api.name, default |-> api.default,
                                   song |-> api.song]
                             ELSE tracks[u]]
  /\ api' = Idle
  /\ UNCHANGED <<slot, enabled, fallback, files, job, requests, jobs, history>>

\* The commit fails, or the process ends: the transaction is rolled back and
\* the files stay as they are.
Abandon ==
  /\ api.step # "idle"
  /\ left' = IF api.step \in {"probe", "unlink", "commit"} /\ api.new # None
               THEN left \cup {<<api.slot, api.new>>} ELSE left
  /\ spoiled' = IF api.step = "commit" /\ Replaced(api)
                  THEN spoiled \cup {<<api.slot, api.old>>} ELSE spoiled
  /\ api' = Idle
  /\ UNCHANGED <<rows, files, job, requests, jobs, reused>>

\* The requests that only change rows.
Reconfigure(t, d) ==
  /\ Begin
  /\ tracks' = [tracks EXCEPT ![t].default = d]
  /\ UNCHANGED <<slot, enabled, fallback, files, api, job, jobs, history>>

Remaining(t) == [u \in DOMAIN tracks \ {t} |-> tracks[u]]

\* Mutant of Decommission: the file goes with the row.
DecommissionWithFile(t) ==
  /\ Begin
  /\ tracks' = Remaining(t)
  /\ songs' = [songs EXCEPT ![tracks[t].file] = None]
  /\ UNCHANGED <<slot, enabled, fallback, videos, api, job, jobs, history>>

\* The row of a track is deleted; its file stays.
Decommission(t) ==
  /\ Begin
  /\ tracks' = Remaining(t)
  /\ UNCHANGED <<slot, enabled, fallback, files, api, job, jobs, history>>

\* PUT /defaults: fields that are left out keep their value.
SetEnabled(s, b) ==
  /\ Begin
  /\ enabled' = [enabled EXCEPT ![s] = b]
  /\ UNCHANGED <<slot, fallback, tracks, files, api, job, jobs, history>>

SetFallback(b) ==
  /\ Begin
  /\ fallback' = b
  /\ UNCHANGED <<slot, enabled, tracks, files, api, job, jobs, history>>

VideoRequest ==
  \/ \E s \in Slots, v \in Videos : UploadVideo(s, v)
  \/ \E s \in Slots : DeleteVideo(s)
  \/ VideoRefused
  \/ VideoTimesOut
  \/ VideoAccepted
  \/ UnlinkPrevious
  \/ CommitVideo

MusicRequest ==
  \/ \E u \in MusicUploads : UploadSong(u)
  \/ SongRefused
  \/ SongTimesOut
  \/ SongAccepted
  \/ CommitSong
  \/ \E t \in DOMAIN tracks, d \in BOOLEAN : Reconfigure(t, d)
  \/ \E t \in DOMAIN tracks : Decommission(t)

-----------------------------------------------------------------------------
(* The endpoints that show an administrator what is stored. *)

NotFound == [type |-> "404"]

\* The video of a slot, whether it is enabled or not.
ServedVideo(s) ==
  IF slot[s] # None /\ slot[s] \in videos[s]
    THEN [type |-> ServedType[slot[s].suffix], bytes |-> slot[s].bytes]
    ELSE NotFound

\* The file of a track: only under the name its row has.
ServedMusic(t, name) ==
  IF t \in DOMAIN tracks /\ tracks[t].file = name /\ songs[name] # None
    THEN [type |-> ServedType[name.suffix], bytes |-> songs[name]]
    ELSE NotFound

-----------------------------------------------------------------------------
(* The worker.  Reading a row and looking for its file is one step: a row   *)
(* that another transaction replaces in between is seen without its file    *)
(* also by a worker that reads before the commit.                           *)

Claim(o) ==
  /\ job.step \in {"idle", "done", "failed"}
  /\ jobs < MaxJobs
  /\ jobs' = jobs + 1
  /\ job' = [NoJob EXCEPT !.step = "outro", !.override = o]
  /\ UNCHANGED <<rows, files, api, requests, history>>

WorkerOnly == UNCHANGED <<rows, files, api, requests, jobs, history>>

\* _resolve_agency_outro_asset and _resolve_agency_intro_asset: the video of a
\* slot that is enabled and whose file is there; otherwise the reel does
\* without, and nothing but a log line tells.
Segment(s) ==
  IF enabled[s] /\ slot[s] # None /\ slot[s] \in videos[s] THEN slot[s] ELSE None

IngestSegment(s, next) ==
  /\ job.step = s
  /\ job' = [job EXCEPT !.segments[s] = Segment(s), !.step = next]
  /\ WorkerOnly

\* resolve_agency_background_audio_candidates: the default tracks, or the whole
\* library where the fallback is allowed.
Selected ==
  LET defaults == {t \in DOMAIN tracks : tracks[t].default}
  IN  IF defaults # {} THEN defaults
      ELSE IF fallback THEN DOMAIN tracks ELSE {}

Files(ids) == {tracks[t].file : t \in ids}

Broken(names) == \E n \in names : songs[n] = None

Fail(why) == job' = [job EXCEPT !.step = "failed", !.why = why]

\* The tracks a job counts on; one of them without its file fails it.
CountOn(names, next) ==
  IF Broken(names)
    THEN job' = [job EXCEPT !.pool = names, !.step = "failed", !.why = "blob_missing"]
    ELSE job' = [job EXCEPT !.pool = names, !.step = next]

IngestMusic ==
  /\ job.step = "music"
  /\ \/ DOMAIN tracks = {} /\ Fail("no_tracks")
     \/ DOMAIN tracks # {} /\ Selected = {} /\ Fail("no_default")
     \/ Selected # {} /\ CountOn(Files(Selected), "override")
  /\ WorkerOnly

\* _apply_music_track_override, after the selection: a track that no longer
\* exists leaves the selection as it is.
IngestOverride ==
  /\ job.step = "override"
  /\ IF job.override \in DOMAIN tracks
       THEN CountOn(Files({job.override}), "prepare")
       ELSE job' = [job EXCEPT !.step = "prepare"]
  /\ WorkerOnly

\* resolve_background_audio_paths: files that are gone by now are passed over.
PrepareMusic ==
  /\ job.step = "prepare"
  /\ IF \A n \in job.pool : songs[n] = None
       THEN Fail("blob_missing")
       ELSE job' = [job EXCEPT !.step = "mux",
                               !.pool = {n \in @ : songs[n] # None}]
  /\ WorkerOnly

\* mux_audio_candidates tries one file after the other.
MuxMusic ==
  /\ job.step = "mux"
  /\ IF \A n \in job.pool : songs[n] = None
       THEN Fail("blob_missing")
       ELSE job' = [job EXCEPT !.step = "prepend"]
  /\ WorkerOnly

\* _prepend_intro_to_reel and _append_outro_to_reel: a file that was there at
\* ingestion and is gone now fails the job.
Concat(s, at, next) ==
  /\ job.step = at
  /\ IF job.segments[s] \in videos[s] \cup {None}
       THEN job' = [job EXCEPT !.step = next]
       ELSE Fail("segment_missing")
  /\ WorkerOnly

Worker ==
  \/ \E o \in DOMAIN tracks \cup {None} : Claim(o)
  \/ IngestSegment("outro", "intro")
  \/ IngestSegment("intro", "music")
  \/ IngestMusic
  \/ IngestOverride
  \/ PrepareMusic
  \/ MuxMusic
  \/ Concat("intro", "prepend", "append")
  \/ Concat("outro", "append", "done")

Next ==
  \/ VideoRequest
  \/ MusicRequest
  \/ \E s \in Slots, b \in BOOLEAN : SetEnabled(s, b)
  \/ \E b \in BOOLEAN : SetFallback(b)
  \/ Abandon
  \/ Worker

Spec == Init /\ [][Next]_vars

-----------------------------------------------------------------------------
(* Properties. *)

\* A request on the slot has deleted the earlier file and not yet committed.
Replacing(s) == api.step = "commit" /\ api.slot = s

\* The row of an intro or outro refers to a file that is on disk.  A reel made
\* meanwhile silently goes without it; so the row may only dangle while a
\* replacement commits, or because a failed request deleted the file: its
\* commit failed, or it uploaded the same bytes and the probe refused them.
DanglingHasACause ==
  \A s \in Slots :
    slot[s] # None /\ ServedVideo(s) = NotFound
      => Replacing(s) \/ <<s, slot[s]>> \in spoiled

\* "Drop any prior blob so the agency folder never accumulates orphans": a
\* video that no row and no request has can only stem from a request whose
\* probe timed out, whose commit failed or whose process died.
OrphansHaveACause ==
  \A s \in Slots : \A v \in videos[s] :
    \/ v = slot[s]
    \/ <<s, v>> \in left
    \/ api.step \in {"probe", "unlink", "commit"} /\ api.slot = s /\ api.new = v

\* The row of an intro or outro and its files disagree for these reasons only; a
\* row without a file breaks every job, a file without a row is never freed.
\* (The type invariant is checked with it.)
RowsAndFilesAgree == TypeOK /\ DanglingHasACause /\ OrphansHaveACause

\* The file of a track holds the song that was uploaded for it, unless its
\* name was uploaded again: tracks may share a file name, and then the later
\* upload decides what both play, or that neither plays anything.  Whatever was
\* uploaded over it, what the preview plays is of the type it is served under:
\* the suffix of a stored name is that of the bytes behind it.  (A video's bytes
\* are not looked at, so its preview may lie.)
TrackPlaysItsUpload ==
  \A t \in DOMAIN tracks :
    LET served == ServedMusic(t, tracks[t].file)
    IN  /\ songs[tracks[t].file] = tracks[t].song \/ tracks[t].file \in reused
        /\ served # NotFound => LooksLike(served.type, served.bytes)

\* A job fails for want of a music file only if one of the names it counted on
\* was uploaded again (rows may be deleted and reconfigured while it runs), and
\* for want of an intro or outro only if the administrator replaced or removed
\* that video after the job was ingested, or tried to.
FailureHasACause ==
  [][/\ job'.why = "blob_missing" => job'.pool \cap reused' # {}
     /\ job'.why = "segment_missing" /\ job.why = "none"
          => \E s \in Slots :
               LET v == job.segments[s]
               IN  v # None /\ (slot[s] # v \/ Replacing(s) \/ <<s, v>> \in spoiled)]_vars
=============================================================================
