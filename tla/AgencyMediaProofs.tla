------------------------- MODULE AgencyMediaProofs -------------------------
(***************************************************************************)
(* Proofs about AgencyMedia, for any forms, names, tracks, requests and    *)
(* jobs.                                                                   *)
(***************************************************************************)
EXTENDS AgencyMedia, TLAPS

-----------------------------------------------------------------------------
(* Types.                                                                  *)

\* The steps of a request on a video, and of an upload of music.
Changing == {"probe", "unlink", "commit"}
Uploading == {"probe_song", "commit_song"}

LEMMA RequestKinds ==
  ASSUME api \in Request
  PROVE  /\ api.step \in {"idle"} \cup Changing \cup Uploading
         /\ api.step \in Changing
              => api \in [step : Changing, slot : Slots,
                          old : Videos \cup {None}, new : Videos \cup {None}]
         /\ api.step \in Uploading
              => api \in [step : Uploading, name : FileNames, song : Songs,
                          default : BOOLEAN]
BY DEF Request, Idle, Changing, Uploading

LEMMA IdleTyped == Idle \in Request /\ Idle.step = "idle"
BY DEF Request, Idle

LEMMA UploadTyped ==
  ASSUME NEW u \in MusicUploads
  PROVE  u.name \in FileNames /\ u.song \in Songs /\ u.default \in BOOLEAN
<1>1. u.name \in FileNames /\ u.song \in Songs
  BY DEF FileNames, Songs
<1>2. u.default \in BOOLEAN
  <2>1. PICK f \in MusicForms :
          u = [name |-> MusicName(f, Cleaned), song |-> FilePart(f).bytes,
               default |-> DefaultText(f) \in Yes]
    BY DEF MusicUploads
  <2> DEFINE yes == DefaultText(f) \in Yes
  <2>2. yes \in BOOLEAN
    OBVIOUS
  <2>3. u.default = yes
    BY <2>1
  <2> QED BY <2>2, <2>3
<1> QED BY <1>1, <1>2

LEMMA SeededTyped ==
  ASSUME NEW t \in DOMAIN Seeded
  PROVE  t \in Tracks /\ Seeded[t] \in FileNames
BY SeededAssumption DEF FileNames

\* TypeOK, and a video that is being probed is one.
Typing == TypeOK /\ (api.step = "probe" => api.new # None)

LEMMA TypingInit == Init => Typing
<1> SUFFICES ASSUME Init PROVE Typing  OBVIOUS
<1>1. slot \in [Slots -> Videos \cup {None}] /\ enabled \in [Slots -> BOOLEAN]
      /\ fallback \in BOOLEAN /\ videos \in [Slots -> SUBSET Videos]
  BY DEF Init
<1>2. SeedSong \in Songs
  BY DEF Songs
<1>3. DOMAIN tracks \subseteq Tracks /\ \A t \in DOMAIN tracks : tracks[t] \in Row
  BY <1>2, SeededTyped DEF Init, Row
<1>4. songs \in [FileNames -> Songs \cup {None}]
  BY <1>2 DEF Init
<1>5. job \in Job
  BY DEF Init, NoJob, Job
<1>6. requests \in 0..MaxRequests /\ jobs \in 0..MaxJobs
  BY BoundsAssumption DEF Init
<1>7. spoiled \subseteq Slots \X Videos /\ left \subseteq Slots \X Videos
      /\ reused \subseteq FileNames /\ api \in Request /\ api.step = "idle"
  BY IdleTyped DEF Init
<1> QED  BY <1>1, <1>3, <1>4, <1>5, <1>6, <1>7 DEF Typing, TypeOK

LEMMA BeginTyped == TypeOK /\ Begin => requests' \in 0..MaxRequests
BY BoundsAssumption DEF TypeOK, Begin

LEMMA VideoTyped == Typing /\ VideoRequest => Typing'
<1> SUFFICES ASSUME Typing, VideoRequest PROVE Typing'  OBVIOUS
<1> USE DEF Typing
<1>1. ASSUME NEW s \in Slots, NEW v \in Videos, UploadVideo(s, v)  PROVE Typing'
  <2>1. api' \in Request /\ api'.new = v
    BY <1>1 DEF UploadVideo, Request, TypeOK
  <2>2. videos' \in [Slots -> SUBSET Videos]
    BY <1>1 DEF UploadVideo, TypeOK
  <2>3. requests' \in 0..MaxRequests
    BY <1>1, BeginTyped DEF UploadVideo
  <2> QED
    BY <1>1, <2>1, <2>2, <2>3, NoneAssumption DEF UploadVideo, TypeOK, rows
<1>2. ASSUME NEW s \in Slots, DeleteVideo(s)  PROVE Typing'
  <2>1. api' \in Request /\ api'.step = "unlink"
    BY <1>2 DEF DeleteVideo, Request, TypeOK
  <2>2. requests' \in 0..MaxRequests
    BY <1>2, BeginTyped DEF DeleteVideo
  <2> QED
    BY <1>2, <2>1, <2>2 DEF DeleteVideo, TypeOK, rows, files, history
<1>3. ASSUME api.step \in Changing,
             VideoRefused \/ VideoTimesOut \/ VideoAccepted \/ UnlinkPrevious
               \/ CommitVideo
      PROVE  Typing'
  <2>1. api \in [step : Changing, slot : Slots, old : Videos \cup {None},
                 new : Videos \cup {None}]
    BY <1>3, RequestKinds DEF TypeOK
  <2>2. /\ [videos EXCEPT ![api.slot] = @ \ {api.new}] \in [Slots -> SUBSET Videos]
        /\ [videos EXCEPT ![api.slot] = @ \ {api.old}] \in [Slots -> SUBSET Videos]
        /\ [slot EXCEPT ![api.slot] = api.new] \in [Slots -> Videos \cup {None}]
    BY <2>1 DEF TypeOK
  <2>3. ASSUME NEW next \in {"unlink", "commit"}
        PROVE  /\ [api EXCEPT !.step = next] \in Request
               /\ [api EXCEPT !.step = next].step # "probe"
    BY <2>1, <2>3 DEF Request, Changing
  <2>4. api.step = "probe" => <<api.slot, api.new>> \in Slots \X Videos
    BY <2>1
  <2>5. CASE VideoRefused
    BY <2>2, <2>4, <2>5, IdleTyped DEF VideoRefused, TypeOK, rows
  <2>6. CASE VideoTimesOut
    BY <2>4, <2>6, IdleTyped DEF VideoTimesOut, TypeOK, rows, files
  <2>7. CASE VideoAccepted
    BY <2>3, <2>7 DEF VideoAccepted, TypeOK, rows, files, history
  <2>8. CASE UnlinkPrevious
    BY <2>2, <2>3, <2>8 DEF UnlinkPrevious, TypeOK, rows
  <2>9. CASE CommitVideo
    BY <2>2, <2>9, IdleTyped DEF CommitVideo, TypeOK, files
  <2> QED BY <1>3, <2>5, <2>6, <2>7, <2>8, <2>9
<1> QED
  BY <1>1, <1>2, <1>3
  DEF VideoRequest, VideoRefused, VideoTimesOut, VideoAccepted, UnlinkPrevious,
      CommitVideo, Changing

LEMMA MusicTyped == Typing /\ MusicRequest => Typing'
<1> SUFFICES ASSUME Typing, MusicRequest PROVE Typing'  OBVIOUS
<1> USE DEF Typing
<1>1. ASSUME NEW u \in MusicUploads, UploadSong(u)  PROVE Typing'
  <2>1. u.name \in FileNames /\ u.song \in Songs /\ u.default \in BOOLEAN
    BY UploadTyped
  <2>2. api' \in Request /\ api'.step = "probe_song"
    BY <1>1, <2>1 DEF UploadSong, Request
  <2>3. songs' \in [FileNames -> Songs \cup {None}] /\ reused' \subseteq FileNames
    BY <1>1, <2>1 DEF UploadSong, TypeOK
  <2>4. requests' \in 0..MaxRequests
    BY <1>1, BeginTyped DEF UploadSong
  <2> QED  BY <1>1, <2>2, <2>3, <2>4 DEF UploadSong, TypeOK, rows
<1>2. ASSUME api.step \in Uploading,
             SongRefused \/ SongTimesOut \/ SongAccepted \/ CommitSong
      PROVE  Typing'
  <2>1. api \in [step : Uploading, name : FileNames, song : Songs,
                 default : BOOLEAN]
    BY <1>2, RequestKinds DEF TypeOK
  <2>2. CASE SongRefused
    <3>1. songs' \in [FileNames -> Songs \cup {None}]
      BY <2>1, <2>2 DEF SongRefused, TypeOK
    <3> QED BY <2>2, <3>1, IdleTyped DEF SongRefused, TypeOK, rows, history
  <2>3. CASE SongTimesOut
    BY <2>3, IdleTyped DEF SongTimesOut, TypeOK, rows, files, history
  <2>4. CASE SongAccepted
    <3>1. api' \in Request /\ api'.step = "commit_song"
      BY <2>1, <2>4 DEF SongAccepted, Request, Uploading
    <3> QED BY <2>4, <3>1 DEF SongAccepted, TypeOK, rows, files, history
  <2>5. CASE CommitSong
    <3> DEFINE row == [file |-> api.name, default |-> api.default,
                       song |-> api.song]
    <3>1. row \in Row
      BY <2>1 DEF Row
    <3>2. PICK t \in Tracks \ DOMAIN tracks :
            tracks' = [u \in DOMAIN tracks \cup {t} |->
                         IF u = t THEN row ELSE tracks[u]]
      BY <2>5 DEF CommitSong
    <3>3. DOMAIN tracks' \subseteq Tracks
          /\ \A u \in DOMAIN tracks' : tracks'[u] \in Row
      BY <3>1, <3>2 DEF TypeOK
    <3> QED
      BY <2>5, <3>3, IdleTyped DEF CommitSong, TypeOK, files, history
  <2> QED BY <1>2, <2>2, <2>3, <2>4, <2>5
<1>3. ASSUME NEW t \in DOMAIN tracks, NEW d \in BOOLEAN, Reconfigure(t, d)
      PROVE  Typing'
  <2>1. DOMAIN tracks' \subseteq Tracks
        /\ \A u \in DOMAIN tracks' : tracks'[u] \in Row
    BY <1>3 DEF Reconfigure, TypeOK, Row
  <2>2. requests' \in 0..MaxRequests
    BY <1>3, BeginTyped DEF Reconfigure
  <2> QED  BY <1>3, <2>1, <2>2 DEF Reconfigure, TypeOK, files, history
<1>4. ASSUME NEW t \in DOMAIN tracks, Decommission(t)  PROVE Typing'
  <2>1. DOMAIN tracks' \subseteq Tracks
        /\ \A u \in DOMAIN tracks' : tracks'[u] \in Row
    BY <1>4 DEF Decommission, Remaining, TypeOK
  <2>2. requests' \in 0..MaxRequests
    BY <1>4, BeginTyped DEF Decommission
  <2> QED  BY <1>4, <2>1, <2>2 DEF Decommission, TypeOK, files, history
<1> QED
  BY <1>1, <1>2, <1>3, <1>4
  DEF MusicRequest, SongRefused, SongTimesOut, SongAccepted, CommitSong, Uploading

LEMMA SettingsTyped ==
  Typing /\ (\/ \E s \in Slots, b \in BOOLEAN : SetEnabled(s, b)
             \/ \E b \in BOOLEAN : SetFallback(b)
             \/ Abandon)
    => Typing'
<1> USE DEF Typing
<1>1. ASSUME Typing, NEW s \in Slots, NEW b \in BOOLEAN, SetEnabled(s, b)
      PROVE  Typing'
  BY <1>1, BeginTyped DEF SetEnabled, TypeOK, files, history
<1>2. ASSUME Typing, NEW b \in BOOLEAN, SetFallback(b)  PROVE Typing'
  BY <1>2, BeginTyped DEF SetFallback, TypeOK, files, history
<1>3. ASSUME Typing, Abandon  PROVE Typing'
  <2>1. ASSUME api.step \in Changing
        PROVE  api.slot \in Slots /\ api.old \in Videos \cup {None}
               /\ api.new \in Videos \cup {None}
    BY <1>3, <2>1, RequestKinds DEF TypeOK
  <2>2. left' \subseteq Slots \X Videos
    BY <1>3, <2>1 DEF Abandon, Changing, TypeOK
  <2>3. spoiled' \subseteq Slots \X Videos
    BY <1>3, <2>1 DEF Abandon, Replaced, Changing, TypeOK
  <2> QED  BY <1>3, <2>2, <2>3, IdleTyped DEF Abandon, TypeOK, rows, files
<1> QED BY <1>1, <1>2, <1>3

\* A job that goes on, or fails, is a job.
JobSteps == {"idle", "outro", "intro", "music", "override", "prepare", "mux",
             "prepend", "append", "done", "failed"}

LEMMA GoesOn ==
  ASSUME job \in Job, NEW next \in JobSteps
  PROVE  /\ [job EXCEPT !.step = next] \in Job
         /\ \A why \in {"no_tracks", "no_default", "blob_missing",
                        "segment_missing"} :
              [job EXCEPT !.step = "failed", !.why = why] \in Job
         /\ \A s \in Slots, v \in Videos \cup {None} :
              [job EXCEPT !.segments[s] = v, !.step = next] \in Job
         /\ \A names \in SUBSET FileNames :
              [job EXCEPT !.step = next, !.pool = names] \in Job
BY DEF Job, JobSteps

LEMMA CountOnTyped ==
  ASSUME job \in Job, NEW names \in SUBSET FileNames, NEW next \in JobSteps,
         CountOn(names, next)
  PROVE  job' \in Job
BY DEF CountOn, Job, JobSteps

LEMMA FilesTyped ==
  ASSUME TypeOK, NEW ids \in SUBSET DOMAIN tracks
  PROVE  Files(ids) \subseteq FileNames
BY DEF TypeOK, Files, Row

LEMMA SelectedTyped == Selected \subseteq DOMAIN tracks
BY DEF Selected

LEMMA WorkerTyped == Typing /\ Worker => Typing'
<1> SUFFICES ASSUME Typing, Worker PROVE Typing'  OBVIOUS
<1> USE DEF Typing
<1>1. ASSUME WorkerOnly, job' \in Job  PROVE Typing'
  BY <1>1 DEF WorkerOnly, TypeOK, rows, files, history
<1>2. job \in Job
  BY DEF TypeOK
<1>3. ASSUME NEW o \in DOMAIN tracks \cup {None}, Claim(o)  PROVE Typing'
  <2>1. job' \in Job
    BY <1>3 DEF Claim, NoJob, Job, TypeOK
  <2>2. jobs' \in 0..MaxJobs
    BY <1>3, BoundsAssumption DEF Claim, TypeOK
  <2> QED  BY <1>3, <2>1, <2>2 DEF Claim, TypeOK, rows, files, history
<1>4. ASSUME NEW s \in Slots, NEW next \in JobSteps, IngestSegment(s, next)
      PROVE  Typing'
  <2>1. Segment(s) \in Videos \cup {None}
    BY DEF Segment, TypeOK
  <2>2. job' \in Job
    BY <1>2, <1>4, <2>1, GoesOn DEF IngestSegment
  <2> QED  BY <1>1, <1>4, <2>2 DEF IngestSegment
<1>5. ASSUME IngestMusic  PROVE Typing'
  <2>1. Files(Selected) \in SUBSET FileNames
    BY FilesTyped, SelectedTyped
  <2>2. job' \in Job
    BY <1>2, <1>5, <2>1, GoesOn, CountOnTyped DEF IngestMusic, Fail, JobSteps
  <2> QED  BY <1>1, <1>5, <2>2 DEF IngestMusic
<1>6. ASSUME IngestOverride  PROVE Typing'
  <2>1. job.override \in DOMAIN tracks => Files({job.override}) \in SUBSET FileNames
    BY FilesTyped
  <2>2. job' \in Job
    BY <1>2, <1>6, <2>1, GoesOn, CountOnTyped DEF IngestOverride, JobSteps
  <2> QED  BY <1>1, <1>6, <2>2 DEF IngestOverride
<1>7. ASSUME PrepareMusic  PROVE Typing'
  <2>1. {n \in job.pool : songs[n] # None} \in SUBSET FileNames
    BY <1>2 DEF Job
  <2>2. job' \in Job
    BY <1>2, <1>7, <2>1, GoesOn DEF PrepareMusic, Fail, JobSteps
  <2> QED  BY <1>1, <1>7, <2>2 DEF PrepareMusic
<1>8. ASSUME MuxMusic  PROVE Typing'
  <2>1. job' \in Job
    BY <1>2, <1>8, GoesOn DEF MuxMusic, Fail, JobSteps
  <2> QED  BY <1>1, <1>8, <2>1 DEF MuxMusic
<1>9. ASSUME NEW s \in Slots, NEW at, NEW next \in JobSteps, Concat(s, at, next)
      PROVE  Typing'
  <2>1. job' \in Job
    BY <1>2, <1>9, GoesOn DEF Concat, Fail, JobSteps
  <2> QED  BY <1>1, <1>9, <2>1 DEF Concat
<1> QED
  BY <1>3, <1>4, <1>5, <1>6, <1>7, <1>8, <1>9 DEF Worker, JobSteps, Slots

LEMMA TypingNext == Typing /\ [Next]_vars => Typing'
<1>1. Typing /\ UNCHANGED vars => Typing'
  BY DEF vars, rows, files, history, Typing, TypeOK
<1> QED
  BY <1>1, VideoTyped, MusicTyped, SettingsTyped, WorkerTyped DEF Next

\* Every variable keeps its type: in particular a file is only ever looked for
\* under a name that an upload or the seeding gave it.
THEOREM TypeCorrect == Spec => []TypeOK
<1>1. Typing => TypeOK
  BY DEF Typing
<1> QED  BY TypingInit, TypingNext, <1>1, PTL DEF Spec

-----------------------------------------------------------------------------
(* The rows and the files of intros and outros.  A request that changes them *)
(* works on the row as it still is, and what it has written is on disk; so   *)
(* when it has deleted the former file, only its commit or a failure can     *)
(* follow, and when it fails it leaves a mark.                               *)

Lost(s) == slot[s] # None /\ slot[s] \notin videos[s]

\* A video that is there is served, and a lost one is not.
LEMMA LostIsNotFound ==
  ASSUME NEW s \in Slots
  PROVE  slot[s] # None /\ ServedVideo(s) = NotFound <=> Lost(s)
<1>1. ASSUME NEW type, NEW bytes
      PROVE  [type |-> type, bytes |-> bytes] # [type |-> "404"]
  <2>1. "bytes" \in DOMAIN [type |-> type, bytes |-> bytes]
    OBVIOUS
  <2>2. "bytes" \notin DOMAIN [type |-> "404"]
    OBVIOUS
  <2> QED BY <2>1, <2>2
<1>2. CASE slot[s] # None /\ slot[s] \in videos[s]
  BY <1>1, <1>2, Zenon DEF ServedVideo, NotFound, Lost
<1>3. CASE ~(slot[s] # None /\ slot[s] \in videos[s])
  BY <1>3 DEF ServedVideo, Lost
<1> QED BY <1>2, <1>3

Dangling == \A s \in Slots : Lost(s) => Replacing(s) \/ <<s, slot[s]>> \in spoiled

MediaInv ==
  /\ Dangling
  /\ OrphansHaveACause
  /\ api.step \in Changing => /\ slot[api.slot] = api.old
                              /\ api.new # None => api.new \in videos[api.slot]
  /\ api.step = "commit" /\ Replaced(api) => api.old \notin videos[api.slot]

LEMMA MediaInit == Init => MediaInv
<1> SUFFICES ASSUME Init PROVE MediaInv  OBVIOUS
<1>1. api.step = "idle"
  BY IdleTyped DEF Init
<1>2. Dangling
  BY DEF Init, Dangling, Lost
<1>3. OrphansHaveACause
  BY DEF Init, OrphansHaveACause
<1> QED BY <1>1, <1>2, <1>3 DEF MediaInv, Changing

\* What is neither a request on a video nor its end leaves all of it alone.
LEMMA MediaKept ==
  ASSUME MediaInv, UNCHANGED <<slot, videos, spoiled, left>>,
         \/ api' = api
         \/ api.step \notin Changing /\ api'.step \notin Changing
  PROVE  MediaInv'
BY DEF MediaInv, Dangling, Lost, OrphansHaveACause, Replacing, Replaced, Changing

LEMMA VideoMedia == Typing /\ MediaInv /\ VideoRequest => MediaInv'
<1> SUFFICES ASSUME Typing, MediaInv, VideoRequest PROVE MediaInv'  OBVIOUS
<1>1. slot \in [Slots -> Videos \cup {None}] /\ videos \in [Slots -> SUBSET Videos]
  BY DEF Typing, TypeOK
<1>2. ASSUME NEW s \in Slots, NEW v \in Videos, UploadVideo(s, v)  PROVE MediaInv'
  <2>1. /\ api.step = "idle" /\ slot' = slot /\ left' = left
        /\ videos' = [videos EXCEPT ![s] = @ \cup {v}]
        /\ spoiled' = spoiled \ {<<s, v>>}
        /\ api'.step = "probe" /\ api'.slot = s /\ api'.old = slot[s]
        /\ api'.new = v
    BY <1>2 DEF UploadVideo, Begin, rows
  <2>2. Dangling'
    BY <1>1, <2>1 DEF MediaInv, Dangling, Lost, Replacing
  <2>3. OrphansHaveACause'
    BY <1>1, <2>1 DEF MediaInv, OrphansHaveACause
  <2> QED  BY <1>1, <2>1, <2>2, <2>3 DEF MediaInv
<1>3. ASSUME NEW s \in Slots, DeleteVideo(s)  PROVE MediaInv'
  <2>1. /\ api.step = "idle"
        /\ UNCHANGED <<slot, videos, spoiled, left>>
        /\ api'.step = "unlink" /\ api'.slot = s /\ api'.old = slot[s]
        /\ api'.new = None
    BY <1>3 DEF DeleteVideo, Begin, rows, files, history
  <2>2. Dangling'
    BY <2>1 DEF MediaInv, Dangling, Lost, Replacing
  <2>3. OrphansHaveACause'
    BY <2>1 DEF MediaInv, OrphansHaveACause
  <2> QED  BY <2>1, <2>2, <2>3 DEF MediaInv
<1>4. ASSUME api.step \in Changing,
             VideoRefused \/ VideoTimesOut \/ VideoAccepted \/ UnlinkPrevious
               \/ CommitVideo
      PROVE  MediaInv'
  <2>1. api \in [step : Changing, slot : Slots, old : Videos \cup {None},
                 new : Videos \cup {None}]
    BY <1>4, RequestKinds DEF Typing, TypeOK
  <2>2. slot[api.slot] = api.old /\ (api.new # None => api.new \in videos[api.slot])
    BY <1>4 DEF MediaInv
  <2>3. CASE VideoRefused
    <3>1. /\ api.step = "probe" /\ slot' = slot
          /\ videos' = [videos EXCEPT ![api.slot] = @ \ {api.new}]
          /\ spoiled' = IF api.new = slot[api.slot]
                          THEN spoiled \cup {<<api.slot, api.new>>} ELSE spoiled
          /\ left' = left \ {<<api.slot, api.new>>}
          /\ api'.step = "idle"
      BY <2>3, IdleTyped DEF VideoRefused, rows
    <3>2. Dangling'
      BY <1>1, <2>1, <3>1 DEF MediaInv, Dangling, Lost, Replacing
    <3>3. OrphansHaveACause'
      BY <1>1, <2>1, <3>1 DEF MediaInv, OrphansHaveACause
    <3> QED  BY <3>1, <3>2, <3>3 DEF MediaInv, Changing
  <2>4. CASE VideoTimesOut
    <3>1. /\ api.step = "probe" /\ UNCHANGED <<slot, videos, spoiled>>
          /\ left' = left \cup {<<api.slot, api.new>>}
          /\ api'.step = "idle"
      BY <2>4, IdleTyped DEF VideoTimesOut, rows, files
    <3>2. Dangling'
      BY <3>1 DEF MediaInv, Dangling, Lost, Replacing
    <3>3. OrphansHaveACause'
      BY <1>1, <2>1, <3>1 DEF MediaInv, OrphansHaveACause
    <3> QED  BY <3>1, <3>2, <3>3 DEF MediaInv, Changing
  <2>5. CASE VideoAccepted
    <3>1. /\ api.step = "probe" /\ UNCHANGED <<slot, videos, spoiled, left>>
          /\ api'.step = "unlink" /\ api'.slot = api.slot
          /\ api'.old = api.old /\ api'.new = api.new
      BY <2>1, <2>5 DEF VideoAccepted, rows, files, history
    <3>2. Dangling'
      BY <3>1 DEF MediaInv, Dangling, Lost, Replacing
    <3>3. OrphansHaveACause'
      BY <3>1 DEF MediaInv, OrphansHaveACause
    <3> QED  BY <2>2, <3>1, <3>2, <3>3 DEF MediaInv
  <2>6. CASE UnlinkPrevious
    <3>1. /\ api.step = "unlink" /\ UNCHANGED <<slot, spoiled>>
          /\ videos' = IF Replaced(api)
                         THEN [videos EXCEPT ![api.slot] = @ \ {api.old}]
                         ELSE videos
          /\ left' = IF Replaced(api) THEN left \ {<<api.slot, api.old>>} ELSE left
          /\ api'.step = "commit" /\ api'.slot = api.slot
          /\ api'.old = api.old /\ api'.new = api.new
      BY <2>1, <2>6 DEF UnlinkPrevious, rows
    <3>2. Dangling'
      BY <1>1, <2>1, <3>1 DEF MediaInv, Dangling, Lost, Replacing
    <3>3. OrphansHaveACause'
      BY <1>1, <2>1, <3>1 DEF MediaInv, OrphansHaveACause
    <3> QED
      BY <1>1, <2>1, <2>2, <3>1, <3>2, <3>3 DEF MediaInv, Replaced
  <2>7. CASE CommitVideo
    <3>1. /\ api.step = "commit" /\ UNCHANGED <<videos, spoiled>>
          /\ slot' = [slot EXCEPT ![api.slot] = api.new]
          /\ left' = left \ {<<api.slot, api.new>>}
          /\ api'.step = "idle"
      BY <2>7, IdleTyped DEF CommitVideo, files
    <3>2. Dangling'
      BY <1>1, <2>1, <2>2, <3>1 DEF MediaInv, Dangling, Lost, Replacing
    <3>3. ASSUME NEW s \in Slots, NEW v \in videos'[s]
          PROVE  v = slot'[s] \/ <<s, v>> \in left'
      <4>1. v \in videos[s] /\ v # None
        BY <1>1, <3>1, NoneAssumption
      <4>2. \/ v = slot[s]
            \/ <<s, v>> \in left
            \/ api.slot = s /\ api.new = v
        BY <4>1 DEF MediaInv, OrphansHaveACause
      <4>3. CASE s = api.slot
        <5>1. slot'[s] = api.new /\ slot[s] = api.old
          BY <1>1, <2>2, <3>1, <4>3
        <5>2. v = slot[s] => v = api.new
          BY <3>1, <4>1, <4>3, <5>1 DEF MediaInv, Replaced
        <5>3. <<s, v>> \in left => v = api.new \/ <<s, v>> \in left'
          BY <3>1
        <5> QED  BY <4>2, <5>1, <5>2, <5>3
      <4>4. CASE s # api.slot
        BY <1>1, <3>1, <4>2, <4>4
      <4> QED  BY <4>3, <4>4
    <3>4. OrphansHaveACause'
      BY <3>3 DEF OrphansHaveACause
    <3> QED  BY <3>1, <3>2, <3>4 DEF MediaInv, Changing
  <2> QED  BY <1>4, <2>3, <2>4, <2>5, <2>6, <2>7
<1> QED
  BY <1>2, <1>3, <1>4
  DEF VideoRequest, VideoRefused, VideoTimesOut, VideoAccepted, UnlinkPrevious,
      CommitVideo, Changing

LEMMA AbandonMedia == Typing /\ MediaInv /\ Abandon => MediaInv'
<1> SUFFICES ASSUME Typing, MediaInv, Abandon PROVE MediaInv'  OBVIOUS
<1>1. slot \in [Slots -> Videos \cup {None}] /\ videos \in [Slots -> SUBSET Videos]
  BY DEF Typing, TypeOK
<1>2. api'.step = "idle" /\ UNCHANGED <<slot, videos>>
  BY IdleTyped DEF Abandon, rows, files
<1>3. CASE api.step \notin Changing
  <2>1. UNCHANGED <<spoiled, left>>
    BY <1>3 DEF Abandon, Changing
  <2> QED  BY <1>2, <1>3, <2>1, MediaKept DEF Changing
<1>4. CASE api.step \in Changing
  <2>1. api \in [step : Changing, slot : Slots, old : Videos \cup {None},
                 new : Videos \cup {None}]
    BY <1>4, RequestKinds DEF Typing, TypeOK
  <2>2. slot[api.slot] = api.old /\ (api.new # None => api.new \in videos[api.slot])
    BY <1>4 DEF MediaInv
  <2>3. /\ left' = IF api.new # None THEN left \cup {<<api.slot, api.new>>}
                   ELSE left
        /\ spoiled' = IF api.step = "commit" /\ Replaced(api)
                        THEN spoiled \cup {<<api.slot, api.old>>} ELSE spoiled
    BY <1>4 DEF Abandon, Changing
  <2>4. Dangling'
    BY <1>1, <1>2, <2>1, <2>2, <2>3
    DEF MediaInv, Dangling, Lost, Replacing, Replaced
  <2>5. ASSUME NEW s \in Slots, NEW v \in videos'[s]
        PROVE  v = slot'[s] \/ <<s, v>> \in left'
    <3>1. v \in videos[s] /\ v # None
      BY <1>1, <1>2, NoneAssumption
    <3>2. \/ v = slot[s]
          \/ <<s, v>> \in left
          \/ api.slot = s /\ api.new = v
      BY <3>1 DEF MediaInv, OrphansHaveACause
    <3> QED  BY <1>2, <2>3, <3>1, <3>2
  <2>6. OrphansHaveACause'
    BY <2>5 DEF OrphansHaveACause
  <2> QED  BY <1>2, <2>4, <2>6 DEF MediaInv, Changing
<1> QED  BY <1>3, <1>4

LEMMA MusicMedia ==
  Typing /\ MediaInv /\ MusicRequest => MediaInv'
<1> SUFFICES ASSUME Typing, MediaInv, MusicRequest PROVE MediaInv'  OBVIOUS
<1>1. ASSUME NEW u \in MusicUploads, UploadSong(u)  PROVE MediaInv'
  BY <1>1, MediaKept DEF UploadSong, Begin, rows, Changing
<1>2. ASSUME SongRefused \/ SongTimesOut \/ CommitSong  PROVE MediaInv'
  BY <1>2, MediaKept, IdleTyped
  DEF SongRefused, SongTimesOut, CommitSong, rows, files, history, Changing
<1>3. ASSUME SongAccepted  PROVE MediaInv'
  <2>1. api \in [step : Uploading, name : FileNames, song : Songs,
                 default : BOOLEAN]
    BY <1>3, RequestKinds DEF SongAccepted, Typing, TypeOK, Uploading
  <2>2. api.step = "probe_song" /\ api'.step = "commit_song"
    BY <1>3, <2>1 DEF SongAccepted
  <2> QED
    BY <1>3, <2>2, MediaKept DEF SongAccepted, rows, files, history, Changing
<1>4. ASSUME NEW t \in DOMAIN tracks,
             Decommission(t) \/ \E d \in BOOLEAN : Reconfigure(t, d)
      PROVE  MediaInv'
  BY <1>4, MediaKept DEF Decommission, Reconfigure, files, history
<1> QED  BY <1>1, <1>2, <1>3, <1>4 DEF MusicRequest

LEMMA WorkerChanges == Worker => UNCHANGED <<rows, files, api, requests, history>>
<1>1. ASSUME NEW o \in DOMAIN tracks \cup {None}, Claim(o)
      PROVE  UNCHANGED <<rows, files, api, requests, history>>
  BY <1>1 DEF Claim
<1>2. ASSUME WorkerOnly  PROVE UNCHANGED <<rows, files, api, requests, history>>
  BY <1>2 DEF WorkerOnly
<1>3. Worker => WorkerOnly \/ \E o \in DOMAIN tracks \cup {None} : Claim(o)
  BY DEF Worker, IngestSegment, IngestMusic, IngestOverride, PrepareMusic,
         MuxMusic, Concat
<1> QED  BY <1>1, <1>2, <1>3

LEMMA MediaNext == Typing /\ MediaInv /\ [Next]_vars => MediaInv'
<1> SUFFICES ASSUME Typing, MediaInv, [Next]_vars PROVE MediaInv'  OBVIOUS
<1>1. CASE Worker
  BY <1>1, WorkerChanges, MediaKept DEF rows, files, history
<1>2. ASSUME NEW b \in BOOLEAN, SetFallback(b) \/ \E s \in Slots : SetEnabled(s, b)
      PROVE  MediaInv'
  BY <1>2, MediaKept DEF SetFallback, SetEnabled, files, history
<1>3. CASE UNCHANGED vars
  BY <1>3, MediaKept DEF vars, rows, files, history
<1> QED
  BY <1>1, <1>2, <1>3, VideoMedia, AbandonMedia, MusicMedia DEF Next

LEMMA MediaAgrees == TypeOK /\ MediaInv => RowsAndFilesAgree
BY LostIsNotFound DEF MediaInv, Dangling, RowsAndFilesAgree, DanglingHasACause

\* Whatever uploads, removals, refused probes and failed commits happen: a row
\* of an intro or outro has its file unless a replacement is just committing or
\* a request that failed had deleted it, and a file without a row or request is
\* one that a failed request left.
THEOREM MediaCorrect == Spec => []RowsAndFilesAgree
<1>1. Typing => TypeOK
  BY DEF Typing
<1> QED
  BY TypingInit, MediaInit, TypingNext, MediaNext, MediaAgrees, <1>1, PTL
  DEF Spec

-----------------------------------------------------------------------------
(* The music and the jobs that play it.                                      *)

\* What is stored under a name is of the type its suffix tells.
Fits(name, song) == LooksLike(ServedType[name.suffix], song)

SongsFit == \A n \in FileNames : songs[n] # None => Fits(n, songs[n])

SongsKept ==
  \A t \in DOMAIN tracks :
    songs[tracks[t].file] = tracks[t].song \/ tracks[t].file \in reused

\* An upload that nobody sees yet has its own bytes on disk, over those of a
\* track only if the name is marked.
UploadHeld ==
  api.step \in Uploading => /\ songs[api.name] = api.song
                            /\ InUse(api.name) => api.name \in reused

\* The files a job counts on, and what it says when it fails.
PoolHeld ==
  /\ \A n \in job.pool : songs[n] # None \/ n \in reused
  /\ job.step \in {"override", "prepare", "mux"} => job.pool # {}
  /\ job.step # "failed" => job.why = "none"
  /\ job.why = "blob_missing" => job.pool \cap reused # {}

SongInv == SongsFit /\ SongsKept /\ UploadHeld /\ PoolHeld

\* What the accepted forms leave is what its suffix says: the suffix is chosen
\* by the declared type, and the bytes were held against that type.
LEMMA UploadFits ==
  ASSUME NEW u \in MusicUploads
  PROVE  Fits(u.name, u.song)
<1>1. PICK f \in MusicForms :
        /\ AcceptsMusic(f)
        /\ u = [name |-> MusicName(f, Cleaned), song |-> FilePart(f).bytes,
                default |-> DefaultText(f) \in Yes]
  BY DEF MusicUploads
<1> DEFINE type == FilePart(f).type
<1>2. type \in DOMAIN AudioSuffix /\ LooksLike(type, FilePart(f).bytes)
  BY <1>1 DEF AcceptsMusic, IsAudio
<1>3. u.song = FilePart(f).bytes /\ u.name.suffix = AudioSuffix[type]
  BY <1>1 DEF MusicName
<1>4. type \in {"audio/mpeg", "audio/mp4", "audio/wav", "audio/x-wav", "audio/wave"}
  BY <1>2 DEF AudioSuffix
<1> HIDE DEF type
<1>5. \/ type = "audio/mpeg" /\ ServedType[AudioSuffix[type]] = "audio/mpeg"
      \/ type = "audio/mp4" /\ ServedType[AudioSuffix[type]] = "audio/mp4"
      \/ type \in {"audio/wav", "audio/x-wav", "audio/wave"}
         /\ ServedType[AudioSuffix[type]] = "audio/wav"
  BY <1>4 DEF AudioSuffix, ServedType
<1> QED  BY <1>2, <1>3, <1>5 DEF Fits, LooksLike, type

LEMMA SongInit == Init => SongInv
<1> SUFFICES ASSUME Init PROVE SongInv  OBVIOUS
<1>1. SongsFit
  BY SeededAssumption DEF Init, SongsFit, Fits
<1>2. SongsKept
  BY SeededTyped DEF Init, SongsKept
<1>3. api.step = "idle" /\ job.pool = {} /\ job.step = "idle" /\ job.why = "none"
  BY IdleTyped DEF Init, NoJob
<1> QED  BY <1>1, <1>2, <1>3 DEF SongInv, UploadHeld, PoolHeld, Uploading

\* The file of a track is there, or its name is marked.
LEMMA TrackFile ==
  ASSUME TypeOK, SongsKept, NEW t \in DOMAIN tracks
  PROVE  songs[tracks[t].file] # None \/ tracks[t].file \in reused
BY NoneAssumption DEF TypeOK, SongsKept, Row

\* A request that changes neither music nor job.
LEMMA SongKept ==
  ASSUME SongInv, UNCHANGED <<songs, tracks, job, reused>>,
         api' = api \/ api'.step \notin Uploading
  PROVE  SongInv'
BY DEF SongInv, SongsFit, SongsKept, UploadHeld, InUse, PoolHeld

LEMMA VideoSongs == VideoRequest /\ Typing /\ SongInv => SongInv'
<1> SUFFICES ASSUME VideoRequest, Typing, SongInv PROVE SongInv'  OBVIOUS
<1>1. ASSUME NEW s \in Slots,
             DeleteVideo(s) \/ \E v \in Videos : UploadVideo(s, v)
      PROVE  SongInv'
  <2>1. api'.step \in Changing /\ UNCHANGED <<songs, tracks, job, reused>>
    BY <1>1 DEF DeleteVideo, UploadVideo, rows, files, history, Changing
  <2> QED BY <2>1, SongKept DEF Changing, Uploading
<1>2. ASSUME VideoRefused \/ VideoTimesOut \/ CommitVideo  PROVE SongInv'
  BY <1>2, SongKept, IdleTyped
  DEF VideoRefused, VideoTimesOut, CommitVideo, rows, files, Uploading
<1>3. ASSUME VideoAccepted \/ UnlinkPrevious  PROVE SongInv'
  <2>1. api.step \in Changing
    BY <1>3 DEF VideoAccepted, UnlinkPrevious, Changing
  <2>2. api \in [step : Changing, slot : Slots, old : Videos \cup {None},
                 new : Videos \cup {None}]
    BY <2>1, RequestKinds DEF Typing, TypeOK
  <2>3. api'.step \in {"unlink", "commit"} /\ UNCHANGED <<songs, tracks, job, reused>>
    BY <1>3, <2>2 DEF VideoAccepted, UnlinkPrevious, rows, files, history
  <2> QED BY <2>3, SongKept DEF Uploading
<1> QED  BY <1>1, <1>2, <1>3 DEF VideoRequest

LEMMA MusicSongs == MusicRequest /\ Typing /\ SongInv => SongInv'
<1> SUFFICES ASSUME MusicRequest, Typing, SongInv PROVE SongInv'  OBVIOUS
<1>1. songs \in [FileNames -> Songs \cup {None}] /\ job.pool \subseteq FileNames
      /\ \A t \in DOMAIN tracks : tracks[t].file \in FileNames
  BY DEF Typing, TypeOK, Job, Row
<1>2. ASSUME NEW u \in MusicUploads, UploadSong(u)  PROVE SongInv'
  <2>1. /\ songs' = [songs EXCEPT ![u.name] = u.song]
        /\ reused' = IF InUse(u.name) THEN reused \cup {u.name}
                     ELSE reused \ {u.name}
        /\ api'.step = "probe_song" /\ api'.name = u.name /\ api'.song = u.song
        /\ UNCHANGED <<tracks, job>>
    BY <1>2 DEF UploadSong, rows
  <2>2. u.name \in FileNames /\ u.song \in Songs /\ u.song # None
        /\ Fits(u.name, u.song)
    BY UploadTyped, UploadFits, NoneAssumption
  <2>3. SongsFit'
    BY <1>1, <2>1, <2>2 DEF SongInv, SongsFit
  <2>4. SongsKept'
    BY <1>1, <2>1, <2>2 DEF SongInv, SongsKept, InUse
  <2>5. UploadHeld'
    BY <1>1, <2>1, <2>2 DEF UploadHeld, InUse
  <2>6. PoolHeld'
    BY <1>1, <2>1, <2>2 DEF SongInv, PoolHeld, InUse
  <2> QED BY <2>3, <2>4, <2>5, <2>6 DEF SongInv
<1>3. ASSUME api.step \in Uploading,
             SongRefused \/ SongTimesOut \/ SongAccepted \/ CommitSong
      PROVE  SongInv'
  <2>1. api \in [step : Uploading, name : FileNames, song : Songs,
                 default : BOOLEAN]
    BY <1>3, RequestKinds DEF Typing, TypeOK
  <2>2. songs[api.name] = api.song /\ (InUse(api.name) => api.name \in reused)
    BY <1>3 DEF SongInv, UploadHeld
  <2>3. CASE SongRefused
    <3>1. /\ songs' = [songs EXCEPT ![api.name] = None]
          /\ api'.step = "idle" /\ UNCHANGED <<tracks, job, reused>>
      BY <2>3, IdleTyped DEF SongRefused, rows, history
    <3>2. SongsFit'
      BY <1>1, <2>1, <3>1 DEF SongInv, SongsFit
    <3>3. SongsKept'
      BY <1>1, <2>1, <2>2, <3>1 DEF SongInv, SongsKept, InUse
    <3>4. PoolHeld'
      BY <1>1, <2>1, <2>2, <3>1 DEF SongInv, PoolHeld, InUse
    <3> QED  BY <3>1, <3>2, <3>3, <3>4 DEF SongInv, UploadHeld, Uploading
  <2>4. CASE SongTimesOut
    BY <2>4, IdleTyped, SongKept
    DEF SongTimesOut, rows, files, history, Uploading
  <2>5. CASE SongAccepted
    <3>1. /\ api'.name = api.name /\ api'.song = api.song
          /\ UNCHANGED <<songs, tracks, job, reused>>
      BY <2>1, <2>5 DEF SongAccepted, rows, files, history
    <3>2. UploadHeld'
      BY <2>2, <3>1 DEF UploadHeld, InUse
    <3> QED  BY <3>1, <3>2 DEF SongInv, SongsFit, SongsKept, PoolHeld
  <2>6. CASE CommitSong
    <3>1. PICK t \in Tracks \ DOMAIN tracks :
            tracks' = [u \in DOMAIN tracks \cup {t} |->
                         IF u = t THEN [file |-> api.name, default |-> api.default,
                                        song |-> api.song]
                         ELSE tracks[u]]
      BY <2>6 DEF CommitSong
    <3>2. api'.step = "idle" /\ UNCHANGED <<songs, job, reused>>
      BY <2>6, IdleTyped DEF CommitSong, files, history
    <3>3. SongsKept'
      BY <2>2, <3>1, <3>2 DEF SongInv, SongsKept
    <3> QED
      BY <3>2, <3>3 DEF SongInv, SongsFit, UploadHeld, PoolHeld, Uploading
  <2> QED  BY <1>3, <2>3, <2>4, <2>5, <2>6
<1>4. ASSUME NEW t \in DOMAIN tracks,
             Decommission(t) \/ \E d \in BOOLEAN : Reconfigure(t, d)
      PROVE  SongInv'
  <2>1. api.step = "idle" /\ UNCHANGED <<songs, job, reused, api>>
    BY <1>4 DEF Decommission, Reconfigure, Begin, files, history
  <2>2. /\ DOMAIN tracks' \subseteq DOMAIN tracks
        /\ \A u \in DOMAIN tracks' : /\ tracks'[u].file = tracks[u].file
                                     /\ tracks'[u].song = tracks[u].song
    <3>1. CASE Decommission(t)
      BY <3>1 DEF Decommission, Remaining
    <3>2. ASSUME NEW d \in BOOLEAN, Reconfigure(t, d)
          PROVE  /\ DOMAIN tracks' = DOMAIN tracks
                 /\ \A u \in DOMAIN tracks' : /\ tracks'[u].file = tracks[u].file
                                              /\ tracks'[u].song = tracks[u].song
      BY <3>2 DEF Reconfigure, Typing, TypeOK, Row
    <3> QED BY <1>4, <3>1, <3>2
  <2>3. SongsKept'
    BY <2>1, <2>2 DEF SongInv, SongsKept
  <2> QED
    BY <2>1, <2>3 DEF SongInv, SongsFit, UploadHeld, PoolHeld, Uploading
<1> QED
  BY <1>2, <1>3, <1>4
  DEF MusicRequest, SongRefused, SongTimesOut, SongAccepted, CommitSong, Uploading

LEMMA AbandonSongs == Abandon /\ SongInv => SongInv'
BY SongKept, IdleTyped DEF Abandon, rows, files, Uploading

\* The names of a pool that is drawn from the rows.
LEMMA Drawn ==
  ASSUME TypeOK, SongsKept, NEW ids \in SUBSET DOMAIN tracks
  PROVE  /\ \A n \in Files(ids) : /\ songs[n] # None \/ n \in reused
                                  /\ InUse(n)
         /\ ids # {} => Files(ids) # {}
BY TrackFile DEF Files, InUse

\* A job that is given the names of some rows, for want of one of which it fails.
LEMMA CountOnHeld ==
  ASSUME Typing, SongInv, NEW ids \in SUBSET DOMAIN tracks, ids # {},
         NEW next \in {"override", "prepare"}, CountOn(Files(ids), next),
         WorkerOnly, job.step # "failed"
  PROVE  SongInv'
<1> DEFINE names == Files(ids)
<1>1. /\ \A n \in names : (songs[n] # None \/ n \in reused) /\ InUse(n)
      /\ names # {}
  BY Drawn DEF Typing, SongInv
<1>2. job \in Job /\ job.why = "none"
  BY DEF Typing, TypeOK, SongInv, PoolHeld
<1>3. UNCHANGED <<songs, tracks, reused, api>>
  BY DEF WorkerOnly, rows, files, history
<1>4. /\ job'.pool = names
      /\ \/ Broken(names) /\ job'.step = "failed" /\ job'.why = "blob_missing"
         \/ job'.step = next /\ job'.why = "none"
  BY <1>2 DEF CountOn, Job
<1> HIDE DEF names
<1>5. PoolHeld'
  BY <1>1, <1>3, <1>4 DEF PoolHeld, Broken
<1>6. UploadHeld'
  BY <1>1, <1>3, <1>4 DEF SongInv, UploadHeld, InUse
<1> QED BY <1>3, <1>5, <1>6 DEF SongInv, SongsFit, SongsKept

\* A job that keeps its pool, or what is left of it.
LEMMA PoolKept ==
  ASSUME SongInv, WorkerOnly, job'.pool \subseteq job.pool,
         job'.step \in {"override", "prepare", "mux"} => job'.pool # {},
         job'.step # "failed" => job'.why = "none",
         job'.why = "blob_missing" => job'.pool \cap reused # {}
  PROVE  SongInv'
<1>1. UNCHANGED <<songs, tracks, reused, api>>
  BY DEF WorkerOnly, rows, files, history
<1> QED
  BY <1>1 DEF SongInv, SongsFit, SongsKept, UploadHeld, InUse, PoolHeld

LEMMA WorkerSongs == Worker /\ Typing /\ SongInv => SongInv'
<1> SUFFICES ASSUME Worker, Typing, SongInv PROVE SongInv'  OBVIOUS
<1>1. job \in Job /\ PoolHeld
  BY DEF Typing, TypeOK, SongInv
<1>2. ASSUME NEW o \in DOMAIN tracks \cup {None}, Claim(o)  PROVE SongInv'
  <2>1. UNCHANGED <<songs, tracks, reused, api>>
        /\ job'.pool = {} /\ job'.step = "outro" /\ job'.why = "none"
    BY <1>2 DEF Claim, rows, files, history, NoJob
  <2> QED
    BY <2>1 DEF SongInv, SongsFit, SongsKept, UploadHeld, InUse, PoolHeld
<1>3. ASSUME NEW s \in Slots, NEW next \in {"intro", "music"},
             IngestSegment(s, next)
      PROVE  SongInv'
  <2>1. job'.pool = job.pool /\ job'.step = next /\ job'.why = job.why
        /\ job.step # "failed"
    BY <1>1, <1>3 DEF IngestSegment, Job, Slots
  <2> QED  BY <1>1, <1>3, <2>1, PoolKept DEF IngestSegment, PoolHeld
<1>4. ASSUME IngestMusic  PROVE SongInv'
  <2>1. ASSUME NEW why \in {"no_tracks", "no_default"}, Fail(why)  PROVE SongInv'
    <3>1. job'.pool = job.pool /\ job'.step = "failed" /\ job'.why = why
      BY <1>1, <2>1 DEF Fail, Job
    <3> QED  BY <1>4, <2>1, <3>1, PoolKept DEF IngestMusic
  <2>2. ASSUME Selected # {}, CountOn(Files(Selected), "override")  PROVE SongInv'
    BY <1>4, <2>2, SelectedTyped, CountOnHeld DEF IngestMusic
  <2> QED  BY <1>4, <2>1, <2>2 DEF IngestMusic
<1>5. ASSUME IngestOverride  PROVE SongInv'
  <2>1. CASE job.override \in DOMAIN tracks
    BY <1>5, <2>1, CountOnHeld DEF IngestOverride
  <2>2. CASE job.override \notin DOMAIN tracks
    <3>1. job'.pool = job.pool /\ job'.step = "prepare" /\ job'.why = job.why
          /\ job.step = "override"
      BY <1>1, <1>5, <2>2 DEF IngestOverride, Job
    <3> QED  BY <1>1, <1>5, <3>1, PoolKept DEF IngestOverride, PoolHeld
  <2> QED  BY <2>1, <2>2
\* For want of any of its files.
<1>6. ASSUME job.step \in {"prepare", "mux"}, \A n \in job.pool : songs[n] = None
      PROVE  job.pool \cap reused # {}
  BY <1>1, <1>6 DEF PoolHeld
<1>7. ASSUME PrepareMusic  PROVE SongInv'
  <2>1. CASE \A n \in job.pool : songs[n] = None
    <3>1. job'.pool = job.pool /\ job'.step = "failed"
      BY <1>1, <1>7, <2>1 DEF PrepareMusic, Fail, Job
    <3> QED  BY <1>6, <1>7, <2>1, <3>1, PoolKept DEF PrepareMusic
  <2>2. CASE \E n \in job.pool : songs[n] # None
    <3>1. job'.pool = {n \in job.pool : songs[n] # None} /\ job'.step = "mux"
          /\ job'.why = job.why /\ job.step = "prepare"
      BY <1>1, <1>7, <2>2 DEF PrepareMusic, Job
    <3> QED  BY <1>1, <1>7, <2>2, <3>1, PoolKept DEF PrepareMusic, PoolHeld
  <2> QED  BY <2>1, <2>2
<1>8. ASSUME MuxMusic  PROVE SongInv'
  <2>1. CASE \A n \in job.pool : songs[n] = None
    <3>1. job'.pool = job.pool /\ job'.step = "failed"
      BY <1>1, <1>8, <2>1 DEF MuxMusic, Fail, Job
    <3> QED  BY <1>6, <1>8, <2>1, <3>1, PoolKept DEF MuxMusic
  <2>2. CASE \E n \in job.pool : songs[n] # None
    <3>1. job'.pool = job.pool /\ job'.step = "prepend"
          /\ job'.why = job.why /\ job.step = "mux"
      BY <1>1, <1>8, <2>2 DEF MuxMusic, Job
    <3> QED  BY <1>1, <1>8, <3>1, PoolKept DEF MuxMusic, PoolHeld
  <2> QED  BY <2>1, <2>2
<1>9. ASSUME NEW s \in Slots, NEW at \in {"prepend", "append"},
             NEW next \in {"append", "done"}, Concat(s, at, next)
      PROVE  SongInv'
  <2>1. /\ job'.pool = job.pool /\ job.why = "none"
        /\ \/ job'.step = next /\ job'.why = "none"
           \/ job'.step = "failed" /\ job'.why = "segment_missing"
    BY <1>1, <1>9 DEF Concat, Fail, Job, PoolHeld
  <2> QED  BY <1>9, <2>1, PoolKept DEF Concat
<1> QED
  BY <1>2, <1>3, <1>4, <1>5, <1>7, <1>8, <1>9 DEF Worker, Slots

LEMMA SongNext == Typing /\ SongInv /\ [Next]_vars => SongInv'
<1> SUFFICES ASSUME Typing, SongInv, [Next]_vars PROVE SongInv'  OBVIOUS
<1>1. ASSUME NEW b \in BOOLEAN, SetFallback(b) \/ \E s \in Slots : SetEnabled(s, b)
      PROVE  SongInv'
  BY <1>1, SongKept DEF SetFallback, SetEnabled, files, history
<1>2. CASE UNCHANGED vars
  BY <1>2, SongKept DEF vars, rows, files, history
<1> QED
  BY <1>1, <1>2, VideoSongs, MusicSongs, AbandonSongs, WorkerSongs DEF Next

LEMMA SongsPlay == TypeOK /\ SongInv => TrackPlaysItsUpload
<1> SUFFICES ASSUME TypeOK, SongInv, NEW t \in DOMAIN tracks
             PROVE  LET served == ServedMusic(t, tracks[t].file)
                    IN  /\ \/ songs[tracks[t].file] = tracks[t].song
                           \/ tracks[t].file \in reused
                        /\ served # NotFound => LooksLike(served.type, served.bytes)
  BY DEF TrackPlaysItsUpload
<1>1. tracks[t].file \in FileNames
  BY DEF TypeOK, Row
<1> QED  BY <1>1 DEF ServedMusic, SongInv, SongsKept, SongsFit, Fits

\* Whatever is uploaded, refused, deleted and reconfigured: a track plays what
\* was uploaded for it unless its name was uploaded again, and what is served
\* of it is of the type it is served under.
THEOREM MusicCorrect == Spec => []TrackPlaysItsUpload
<1>1. Typing => TypeOK
  BY DEF Typing
<1> QED
  BY TypingInit, SongInit, TypingNext, SongNext, SongsPlay, <1>1, PTL
  DEF Spec

-----------------------------------------------------------------------------
(* Why a job fails.                                                          *)

\* A job finds an intro or outro gone that was there when it was ingested: the
\* row has another one, or the row has lost its file for a reason.
LEMMA SegmentGone ==
  ASSUME Typing, MediaInv, SongInv, Worker,
         job'.why = "segment_missing", job.why = "none"
  PROVE  \E s \in Slots :
           LET v == job.segments[s]
           IN  v # None /\ (slot[s] # v \/ Replacing(s) \/ <<s, v>> \in spoiled)
<1>1. job \in Job /\ Dangling
  BY DEF Typing, TypeOK, MediaInv
<1>2. ASSUME NEW o \in DOMAIN tracks \cup {None}, Claim(o)  PROVE FALSE
  BY <1>2 DEF Claim, NoJob
<1>3. ASSUME NEW s \in Slots, NEW next, IngestSegment(s, next)  PROVE FALSE
  BY <1>1, <1>3 DEF IngestSegment, Job
<1>4. ASSUME IngestMusic \/ IngestOverride \/ PrepareMusic \/ MuxMusic
      PROVE  FALSE
  BY <1>1, <1>4
  DEF IngestMusic, IngestOverride, PrepareMusic, MuxMusic, CountOn, Fail, Job
<1>5. ASSUME NEW s \in Slots, NEW at, NEW next, Concat(s, at, next)
      PROVE  job.segments[s] \notin videos[s] \cup {None}
  BY <1>1, <1>5 DEF Concat, Job
<1>6. PICK s \in Slots : job.segments[s] \notin videos[s] \cup {None}
  BY <1>2, <1>3, <1>4, <1>5 DEF Worker, Slots
<1> QED  BY <1>1, <1>6 DEF Dangling, Lost

LEMMA CauseOfFailure ==
  ASSUME Typing, MediaInv, SongInv, SongInv', [Next]_vars
  PROVE  /\ job'.why = "blob_missing" => job'.pool \cap reused' # {}
         /\ job'.why = "segment_missing" /\ job.why = "none"
              => \E s \in Slots :
                   LET v == job.segments[s]
                   IN  v # None /\ (slot[s] # v \/ Replacing(s) \/ <<s, v>> \in spoiled)
<1>1. job' = job \/ Worker
  BY DEF Next, vars, VideoRequest, UploadVideo, DeleteVideo, VideoRefused,
         VideoTimesOut, VideoAccepted, UnlinkPrevious, CommitVideo,
         MusicRequest, UploadSong, SongRefused, SongTimesOut, SongAccepted,
         CommitSong, Reconfigure, Decommission, SetEnabled, SetFallback, Abandon
<1>2. job'.why = "blob_missing" => job'.pool \cap reused' # {}
  BY DEF SongInv, PoolHeld
<1> QED  BY <1>1, <1>2, SegmentGone

\* A job fails for want of a music file only over a name that was uploaded
\* again, and for want of an intro or outro only after the administrator
\* changed that one, or tried to.
THEOREM FailuresExplained == Spec => FailureHasACause
<1>1. Typing /\ MediaInv /\ SongInv /\ [Next]_vars
        => (Typing /\ MediaInv /\ SongInv)'
  BY TypingNext, MediaNext, SongNext
<1>2. ASSUME Typing, MediaInv, SongInv, SongInv', [Next]_vars
      PROVE  [/\ job'.why = "blob_missing" => job'.pool \cap reused' # {}
              /\ job'.why = "segment_missing" /\ job.why = "none"
                   => \E s \in Slots :
                        LET v == job.segments[s]
                        IN  v # None /\ (slot[s] # v \/ Replacing(s)
                                           \/ <<s, v>> \in spoiled)]_vars
  BY <1>2, CauseOfFailure
<1> QED
  BY TypingInit, MediaInit, SongInit, <1>1, <1>2, PTL
  DEF Spec, FailureHasACause
=============================================================================
