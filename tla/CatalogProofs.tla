---------------------------- MODULE CatalogProofs ----------------------------
(***************************************************************************)
(* Proofs about the catalog.  First about CatalogRows, for any websites,   *)
(* payloads, numbers of jobs and of tries: the queue's key tells the row,  *)
(* an edit stores the listing again as it is, and the contact of a row can *)
(* be used.  Then about the photos, for any listings, classifier's answers *)
(* and numbers of slides, jobs and edits: what PhotoSelection selects, and *)
(* in ReelPhotos that the catalog names the right files and a reel shows   *)
(* its own listing and keeps what was chosen for it.                       *)
(***************************************************************************)
EXTENDS CatalogRows, ReelPhotos, SequenceTheorems, FiniteSetTheorems, TLAPS

-----------------------------------------------------------------------------
(* The inductive invariant. *)

\* A key is the number of the row the job's payload is stored in.
KeysAreRows ==
  \A i \in DOMAIN jobs :
    /\ jobs[i].key # None => RowKey(jobs[i].payload) = jobs[i].key
    /\ jobs[i].kind = "edit" => jobs[i].key # None
                                /\ <<jobs[i].site, jobs[i].key>> \in DOMAIN rows

\* What took the place of a job has its key.
SuccessorsHaveTheKey ==
  \A i \in DOMAIN jobs : jobs[i].status = "superseded" =>
    /\ jobs[i].by \in DOMAIN jobs
    /\ jobs[i].key # None
    /\ jobs[jobs[i].by].key = jobs[i].key
    /\ jobs[jobs[i].by].site = jobs[i].site

\* Of the jobs with one key, one is under way.
TakeTurns ==
  \A i, k \in DOMAIN jobs :
    /\ i # k /\ UnderWay(i) /\ UnderWay(k)
    /\ jobs[i].site = jobs[k].site /\ jobs[i].key = jobs[k].key
    => jobs[i].key = None

QueuedHaveTries == \A i \in DOMAIN jobs : jobs[i].status = "queued" => jobs[i].tries < MaxTries

\* The columns of a row are those of the payload stored with it.
RowOf(p, photo) ==
  [slug |-> Slug(p), beds |-> ToInt(p.beds), mobile |-> Mobile(p),
   email |-> Email(p), accent |-> Accent(p), photo |-> photo, raw |-> p]
RowsAreListings ==
  \A t \in DOMAIN rows :
    /\ t[2] = RowKey(rows[t].raw)
    /\ \E photo \in {None, rows[t].raw.photo} : rows[t] = RowOf(rows[t].raw, photo)

Inv == /\ TypeOK
       /\ KeysAreRows
       /\ SuccessorsHaveTheKey
       /\ TakeTurns
       /\ QueuedHaveTries
       /\ RowsAreListings

-----------------------------------------------------------------------------
(* Facts about the operators. *)

\* The bounds are natural numbers.
LEMMA Bounds ==
  MaxToggles \in Nat /\ MaxFaults \in Nat /\ MaxTries \in Nat
BY CatalogAssumption

\* Where the webhook reads a number, the catalog reads the same one.
LEMMA KeyIsRowKey ==
  ASSUME NEW p, KeyOf(p) # None
  PROVE  RowKey(p) = KeyOf(p)
BY DEF KeyOf, RowKey, ToInt, Of

\* What is stored of a payload are its columns, with or without the photo.
LEMMA ColumnsOf ==
  ASSUME NEW p, NEW withPhoto
  PROVE  /\ \E photo \in {None, p.photo} : Columns(p, withPhoto) = RowOf(p, photo)
         /\ Columns(p, withPhoto).raw = p
BY DEF Columns, RowOf

Same(entry, other) ==
  /\ entry.kind = other.kind /\ entry.site = other.site /\ entry.key = other.key
  /\ entry.payload = other.payload /\ entry.by = other.by

Begun == {"processing", "stored", "prepared"}

\* A step of one job changes its status, its tries and what it remembers.
LEMMA OneJob ==
  ASSUME TypeOK, NEW i \in DOMAIN jobs, NEW status \in Statuses,
         NEW tries \in 0..MaxTries, NEW withPhoto \in BOOLEAN,
         jobs' = [jobs EXCEPT ![i] = [jobs[i] EXCEPT !.status = status, !.tries = tries,
                                                     !.withPhoto = withPhoto]]
  PROVE  /\ jobs' \in Seq(Jobs)
         /\ DOMAIN jobs' = DOMAIN jobs
         /\ jobs'[i].status = status /\ jobs'[i].tries = tries
         /\ \A k \in DOMAIN jobs : k # i => jobs'[k] = jobs[k]
         /\ \A k \in DOMAIN jobs : Same(jobs'[k], jobs[k])
<1> DEFINE entry == [jobs[i] EXCEPT !.status = status, !.tries = tries,
                                  !.withPhoto = withPhoto]
<1>1. jobs \in Seq(Jobs) /\ i \in 1..Len(jobs) /\ jobs[i] \in Jobs
  BY ElementOfSeq, LenProperties DEF TypeOK
<1>2. entry \in Jobs /\ Same(entry, jobs[i]) /\ entry.status = status /\ entry.tries = tries
  BY <1>1 DEF Jobs, Same
<1> HIDE DEF entry
<1>3. jobs' = [jobs EXCEPT ![i] = entry]
  BY DEF entry
<1>4. jobs' \in Seq(Jobs)
  BY <1>1, <1>2, <1>3, ExceptSeq
<1>5. DOMAIN jobs' = DOMAIN jobs /\ jobs'[i] = entry
  BY <1>3
<1>6. \A k \in DOMAIN jobs : k # i => jobs'[k] = jobs[k]
  BY <1>3
<1>7. \A k \in DOMAIN jobs : Same(jobs'[k], jobs[k])
  BY <1>2, <1>5, <1>6 DEF Same
<1> QED BY <1>2, <1>4, <1>5, <1>6, <1>7

\* A new job comes last; the queued jobs of its key are superseded by it.
LEMMA Enqueued ==
  ASSUME TypeOK, NEW entry \in Jobs, Enqueue(entry)
  PROVE  /\ jobs' \in Seq(Jobs)
         /\ Len(jobs) + 1 \in DOMAIN jobs' /\ jobs'[Len(jobs) + 1] = entry
         /\ DOMAIN jobs' = DOMAIN jobs \cup {Len(jobs) + 1}
         /\ Len(jobs) + 1 \notin DOMAIN jobs
         /\ \A i \in DOMAIN jobs :
              jobs'[i] = IF jobs[i].status = "queued" /\ Twins(i, entry.site, entry.key)
                           THEN [jobs[i] EXCEPT !.status = "superseded",
                                                !.by = Len(jobs) + 1]
                           ELSE jobs[i]
<1> DEFINE n == Len(jobs)
           old == [i \in DOMAIN jobs |->
                     IF jobs[i].status = "queued" /\ Twins(i, entry.site, entry.key)
                       THEN [jobs[i] EXCEPT !.status = "superseded", !.by = n + 1]
                       ELSE jobs[i]]
<1>1. n \in Nat /\ DOMAIN jobs = 1..n /\ jobs \in [1..n -> Jobs]
  BY LenProperties DEF TypeOK
<1>2. ASSUME NEW i \in 1..n  PROVE  old[i] \in Jobs
  <2>1. jobs[i] \in Jobs /\ n + 1 \in Nat
    BY <1>1
  <2>2. [jobs[i] EXCEPT !.status = "superseded", !.by = n + 1] \in Jobs
    BY <2>1 DEF Jobs, Statuses
  <2>3. old[i] = jobs[i] \/ old[i] = [jobs[i] EXCEPT !.status = "superseded", !.by = n + 1]
    BY <1>1
  <2> QED BY <2>1, <2>2, <2>3
<1>3. old \in [1..n -> Jobs]
  BY <1>1, <1>2
<1>4. old \in Seq(Jobs) /\ Len(old) = n
  <2> HIDE DEF old
  <2>1. old \in Seq(Jobs)
    BY <1>1, <1>3
  <2>2. DOMAIN old = 1..n
    BY <1>3
  <2> QED BY <1>1, <2>1, <2>2, LenProperties
<1>5. jobs' = Append(old, entry)
  BY DEF Enqueue
<1>6. /\ jobs' \in Seq(Jobs) /\ Len(jobs') = n + 1
      /\ jobs'[n + 1] = entry
      /\ \A i \in 1..n : jobs'[i] = old[i]
  <2> HIDE DEF old
  <2> QED BY <1>1, <1>4, <1>5, AppendProperties
<1>7. DOMAIN jobs' = 1..(n + 1)
  BY <1>6, LenProperties
<1>8. \A i \in DOMAIN jobs :
        jobs'[i] = IF jobs[i].status = "queued" /\ Twins(i, entry.site, entry.key)
                     THEN [jobs[i] EXCEPT !.status = "superseded", !.by = n + 1]
                     ELSE jobs[i]
  BY <1>1, <1>6
<1>9. /\ n + 1 \in DOMAIN jobs' /\ n + 1 \notin DOMAIN jobs
      /\ DOMAIN jobs' = DOMAIN jobs \cup {n + 1}
  BY <1>1, <1>7
<1> QED BY <1>6, <1>8, <1>9

Moves(i, status, tries, withPhoto) ==
  jobs' = [jobs EXCEPT ![i] = [jobs[i] EXCEPT !.status = status, !.tries = tries,
                                              !.withPhoto = withPhoto]]

\* A job that was not superseded, and begins only when it is its turn, keeps
\* what the invariant says of the jobs.
LEMMA OneJobKeeps ==
  ASSUME Inv, NEW i \in DOMAIN jobs, NEW status \in Statuses \ {"superseded"},
         NEW tries \in 0..MaxTries, NEW withPhoto \in BOOLEAN,
         Moves(i, status, tries, withPhoto),
         jobs[i].status # "superseded",
         status = "queued" => tries < MaxTries,
         status \in Begun => UnderWay(i) \/ ~Blocked(i),
         DOMAIN rows \subseteq DOMAIN rows'
  PROVE  /\ jobs' \in Seq(Jobs)
         /\ KeysAreRows' /\ SuccessorsHaveTheKey' /\ TakeTurns' /\ QueuedHaveTries'
<1>1. /\ jobs' \in Seq(Jobs)
      /\ DOMAIN jobs' = DOMAIN jobs
      /\ jobs'[i].status = status /\ jobs'[i].tries = tries
      /\ \A k \in DOMAIN jobs : k # i => jobs'[k] = jobs[k]
      /\ \A k \in DOMAIN jobs : Same(jobs'[k], jobs[k])
  BY OneJob DEF Inv, Moves
<1>2. KeysAreRows'
  BY <1>1 DEF Inv, KeysAreRows, Same
<1>3. SuccessorsHaveTheKey'
  <2> SUFFICES ASSUME NEW k \in DOMAIN jobs, jobs'[k].status = "superseded"
               PROVE  /\ jobs'[k].by \in DOMAIN jobs /\ jobs'[k].key # None
                      /\ jobs'[jobs'[k].by].key = jobs'[k].key
                      /\ jobs'[jobs'[k].by].site = jobs'[k].site
    BY <1>1 DEF SuccessorsHaveTheKey
  <2>1. k # i /\ jobs[k].status = "superseded"
    BY <1>1
  <2>2. /\ jobs[k].by \in DOMAIN jobs /\ jobs[k].key # None
        /\ jobs[jobs[k].by].key = jobs[k].key
        /\ jobs[jobs[k].by].site = jobs[k].site
    BY <2>1 DEF Inv, SuccessorsHaveTheKey
  <2> QED BY <1>1, <2>1, <2>2 DEF Same
<1>4. TakeTurns'
  <2> SUFFICES ASSUME NEW k \in DOMAIN jobs, NEW l \in DOMAIN jobs, k # l,
                      UnderWay(k)', UnderWay(l)',
                      jobs'[k].site = jobs'[l].site, jobs'[k].key = jobs'[l].key
               PROVE  jobs'[k].key = None
    BY <1>1 DEF TakeTurns
  <2>1. jobs[k].site = jobs[l].site /\ jobs[k].key = jobs[l].key /\ jobs'[k].key = jobs[k].key
    BY <1>1 DEF Same
  <2>2. CASE k # i /\ l # i
    <3>1. UnderWay(k) /\ UnderWay(l)
      BY <1>1, <2>2 DEF UnderWay
    <3> QED BY <2>1, <3>1 DEF Inv, TakeTurns
  <2>3. CASE k = i
    <3>1. UnderWay(l) /\ status \in Begun
      BY <1>1, <2>3 DEF UnderWay, Begun
    <3> QED BY <2>1, <2>3, <3>1 DEF Inv, TakeTurns, Blocked, Twins
  <2>4. CASE l = i
    <3>1. UnderWay(k) /\ status \in Begun
      BY <1>1, <2>4 DEF UnderWay, Begun
    <3> QED BY <2>1, <2>4, <3>1 DEF Inv, TakeTurns, Blocked, Twins
  <2> QED BY <2>2, <2>3, <2>4
<1>5. QueuedHaveTries'
  BY <1>1 DEF Inv, QueuedHaveTries
<1> QED BY <1>1, <1>2, <1>3, <1>4, <1>5

\* So does an enqueueing of a job whose key is its row.
LEMMA EnqueuedKeeps ==
  ASSUME Inv, NEW entry \in Jobs, Enqueue(entry), UNCHANGED rows,
         entry.status = "queued", entry.tries = 0,
         entry.key # None => RowKey(entry.payload) = entry.key,
         entry.kind = "edit" => entry.key # None /\ <<entry.site, entry.key>> \in DOMAIN rows
  PROVE  /\ jobs' \in Seq(Jobs)
         /\ KeysAreRows' /\ SuccessorsHaveTheKey' /\ TakeTurns' /\ QueuedHaveTries'
<1> DEFINE n == Len(jobs) + 1
<1>1. /\ jobs' \in Seq(Jobs)
      /\ n \in DOMAIN jobs' /\ jobs'[n] = entry
      /\ DOMAIN jobs' = DOMAIN jobs \cup {n} /\ n \notin DOMAIN jobs
      /\ \A i \in DOMAIN jobs :
           jobs'[i] = IF jobs[i].status = "queued" /\ Twins(i, entry.site, entry.key)
                        THEN [jobs[i] EXCEPT !.status = "superseded", !.by = n]
                        ELSE jobs[i]
  BY Enqueued DEF Inv
<1> HIDE DEF n
<1>2. \A i \in DOMAIN jobs : jobs[i] \in Jobs
  BY ElementOfSeq, LenProperties DEF Inv, TypeOK
<1>3. ASSUME NEW i \in DOMAIN jobs
      PROVE  \/ jobs'[i] = jobs[i]
             \/ /\ jobs[i].site = entry.site /\ jobs[i].key = entry.key /\ entry.key # None
                /\ jobs'[i].status = "superseded" /\ jobs'[i].by = n
                /\ jobs'[i].kind = jobs[i].kind /\ jobs'[i].site = jobs[i].site
                /\ jobs'[i].key = jobs[i].key /\ jobs'[i].payload = jobs[i].payload
  <2>1. CASE jobs[i].status = "queued" /\ Twins(i, entry.site, entry.key)
    <3>1. jobs'[i] = [jobs[i] EXCEPT !.status = "superseded", !.by = n]
      BY <1>1, <2>1
    <3> QED BY <1>2, <2>1, <3>1 DEF Jobs, Twins
  <2>2. CASE ~(jobs[i].status = "queued" /\ Twins(i, entry.site, entry.key))
    BY <1>1, <2>2
  <2> QED BY <2>1, <2>2
<1>4. KeysAreRows'
  <2> SUFFICES ASSUME NEW i \in DOMAIN jobs'
               PROVE  /\ jobs'[i].key # None => RowKey(jobs'[i].payload) = jobs'[i].key
                      /\ jobs'[i].kind = "edit" =>
                           /\ jobs'[i].key # None
                           /\ <<jobs'[i].site, jobs'[i].key>> \in DOMAIN rows
    BY DEF KeysAreRows
  <2>1. CASE i = n
    BY <1>1, <2>1
  <2>2. CASE i \in DOMAIN jobs
    BY <1>3, <2>2 DEF Inv, KeysAreRows
  <2> QED BY <1>1, <2>1, <2>2
<1>5. SuccessorsHaveTheKey'
  <2> SUFFICES ASSUME NEW i \in DOMAIN jobs', jobs'[i].status = "superseded"
               PROVE  /\ jobs'[i].by \in DOMAIN jobs' /\ jobs'[i].key # None
                      /\ jobs'[jobs'[i].by].key = jobs'[i].key
                      /\ jobs'[jobs'[i].by].site = jobs'[i].site
    BY DEF SuccessorsHaveTheKey
  <2>1. i \in DOMAIN jobs
    BY <1>1
  <2>2. CASE jobs'[i] = jobs[i]
    <3>1. /\ jobs[i].by \in DOMAIN jobs /\ jobs[i].key # None
          /\ jobs[jobs[i].by].key = jobs[i].key
          /\ jobs[jobs[i].by].site = jobs[i].site
      BY <2>1, <2>2 DEF Inv, SuccessorsHaveTheKey
    <3>2. /\ jobs'[jobs[i].by].key = jobs[jobs[i].by].key
          /\ jobs'[jobs[i].by].site = jobs[jobs[i].by].site
      BY <1>3, <3>1
    <3> QED BY <1>1, <2>2, <3>1, <3>2
  <2>3. CASE jobs'[i] # jobs[i]
    BY <1>1, <1>3, <2>1, <2>3
  <2> QED BY <2>2, <2>3
<1>6. \A i \in DOMAIN jobs' : UnderWay(i)' =>
        i \in DOMAIN jobs /\ UnderWay(i) /\ jobs'[i] = jobs[i]
  <2> SUFFICES ASSUME NEW i \in DOMAIN jobs', UnderWay(i)'
               PROVE  i \in DOMAIN jobs /\ UnderWay(i) /\ jobs'[i] = jobs[i]
    OBVIOUS
  <2>1. jobs'[i].status \in Begun
    BY DEF UnderWay, Begun
  <2>2. i \in DOMAIN jobs
    BY <1>1, <2>1 DEF Begun
  <2>3. jobs'[i] = jobs[i]
    BY <1>3, <2>1, <2>2 DEF Begun
  <2> QED BY <2>1, <2>2, <2>3 DEF UnderWay
<1>7. TakeTurns'
  <2> SUFFICES ASSUME NEW i \in DOMAIN jobs', NEW k \in DOMAIN jobs', i # k,
                      UnderWay(i)', UnderWay(k)',
                      jobs'[i].site = jobs'[k].site, jobs'[i].key = jobs'[k].key
               PROVE  jobs'[i].key = None
    BY DEF TakeTurns
  <2> QED BY <1>6 DEF Inv, TakeTurns
<1>8. QueuedHaveTries'
  <2> SUFFICES ASSUME NEW i \in DOMAIN jobs', jobs'[i].status = "queued"
               PROVE  jobs'[i].tries < MaxTries
    BY DEF QueuedHaveTries
  <2>1. CASE i = n
    <3>1. 0 < MaxTries
      BY CatalogAssumption
    <3>2. jobs'[i].tries = 0
      BY <1>1, <2>1
    <3> QED BY <3>1, <3>2
  <2>2. CASE i \in DOMAIN jobs
    <3>1. jobs'[i] = jobs[i]
      BY <1>3, <2>2
    <3> QED BY <2>2, <3>1 DEF Inv, QueuedHaveTries
  <2> QED BY <1>1, <2>1, <2>2
<1> QED BY <1>1, <1>4, <1>5, <1>7, <1>8

-----------------------------------------------------------------------------
(* Every step keeps the invariant. *)

\* The invariant holds at first: there are no jobs and no rows.
LEMMA InitInv == Init => Inv
<1> SUFFICES ASSUME Init PROVE Inv
  OBVIOUS
<1>1. jobs \in Seq(Jobs) /\ DOMAIN jobs = {} /\ DOMAIN rows = {}
  BY EmptySeq DEF Init
<1> QED
  BY <1>1, CatalogAssumption
  DEF Init, Inv, TypeOK, KeysAreRows, SuccessorsHaveTheKey, TakeTurns,
      QueuedHaveTries, RowsAreListings

\* A delivery queues a job whose key, if any, is its row.
LEMMA DeliverKeeps ==
  ASSUME Inv, NEW delivery \in Deliveries, Deliver(delivery)
  PROVE  Inv'
<1> DEFINE p == Parsed(delivery)
           entry == Job("webhook", SiteOf(delivery), KeyOf(p), p)
<1>1. p \in Payloads /\ SiteOf(delivery) \in Sites /\ Enqueue(entry)
  BY DEF Deliver, Payloads
<1>2. KeyOf(p) \in Nat \cup {None}
  BY <1>1, CatalogAssumption
<1>3. 0 \in 0..MaxTries
  BY CatalogAssumption
<1>4. entry \in Jobs
  BY <1>1, <1>2, <1>3 DEF Job, Jobs, Statuses
<1>5. /\ entry.status = "queued" /\ entry.tries = 0 /\ entry.kind # "edit"
      /\ entry.key = KeyOf(p) /\ entry.payload = p
  BY DEF Job
<1>6. entry.key # None => RowKey(entry.payload) = entry.key
  BY <1>5, KeyIsRowKey
<1>7. UNCHANGED <<rows, shown, toggles, faults>>
  BY DEF Deliver
<1> HIDE DEF entry
<1>8. /\ jobs' \in Seq(Jobs)
      /\ KeysAreRows' /\ SuccessorsHaveTheKey' /\ TakeTurns' /\ QueuedHaveTries'
  BY <1>1, <1>4, <1>5, <1>6, <1>7, EnqueuedKeeps
<1> QED BY <1>7, <1>8 DEF Inv, TypeOK, RowsAreListings

\* An edit queues the payload of a row under the row's own id.
LEMMA AskKeeps ==
  ASSUME Inv, NEW t \in DOMAIN rows, Ask(t[1], t[2])
  PROVE  Inv'
<1> DEFINE entry == Job("edit", t[1], t[2], rows[t].raw)
<1>1. t = <<t[1], t[2]>> /\ t[1] \in Sites /\ t[2] \in Nat /\ rows[t].raw \in Payloads
  BY DEF Inv, TypeOK
<1>2. Enqueue(entry) /\ UNCHANGED <<rows, shown, toggles, faults>>
  BY <1>1 DEF Ask
<1>3. 0 \in 0..MaxTries
  BY CatalogAssumption
<1>4. entry \in Jobs
  BY <1>1, <1>3 DEF Job, Jobs, Statuses
<1>5. /\ entry.status = "queued" /\ entry.tries = 0 /\ entry.site = t[1]
      /\ entry.key = t[2] /\ entry.payload = rows[t].raw
  BY DEF Job
<1>6. entry.key # None /\ <<entry.site, entry.key>> \in DOMAIN rows
  BY <1>1, <1>5, CatalogAssumption
<1>7. RowKey(entry.payload) = entry.key
  BY <1>5 DEF Inv, RowsAreListings
<1> HIDE DEF entry
<1>8. /\ jobs' \in Seq(Jobs)
      /\ KeysAreRows' /\ SuccessorsHaveTheKey' /\ TakeTurns' /\ QueuedHaveTries'
  BY <1>2, <1>4, <1>5, <1>6, <1>7, EnqueuedKeeps
<1> QED BY <1>2, <1>8 DEF Inv, TypeOK, RowsAreListings

\* What a step of a job does to the job.
LEMMA Steps ==
  ASSUME Inv, NEW i \in DOMAIN jobs
  PROVE  /\ jobs[i] \in Jobs
         /\ jobs[i].tries \in 0..MaxTries /\ jobs[i].withPhoto \in BOOLEAN
         /\ Claim(i) => Moves(i, "processing", jobs[i].tries + 1, jobs[i].withPhoto)
         /\ Ingest(i) => Moves(i, "stored", jobs[i].tries, shown)
         /\ Prepare(i) => Moves(i, "prepared", jobs[i].tries, jobs[i].withPhoto)
         /\ Complete(i) => Moves(i, "completed", jobs[i].tries, jobs[i].withPhoto)
         /\ Fail(i) => Moves(i, IF jobs[i].tries < MaxTries THEN "queued" ELSE "failed",
                             jobs[i].tries, jobs[i].withPhoto)
<1>1. jobs[i] \in Jobs
  BY ElementOfSeq, LenProperties DEF Inv, TypeOK
<1>2. jobs[i].tries \in 0..MaxTries /\ jobs[i].withPhoto \in BOOLEAN
  BY <1>1 DEF Jobs
<1>3. ASSUME NEW status
      PROVE  [jobs EXCEPT ![i].status = status] =
             [jobs EXCEPT ![i] = [jobs[i] EXCEPT !.status = status, !.tries = jobs[i].tries,
                                                 !.withPhoto = jobs[i].withPhoto]]
  <2>1. [jobs[i] EXCEPT !.status = status, !.tries = jobs[i].tries,
                        !.withPhoto = jobs[i].withPhoto] =
        [jobs[i] EXCEPT !.status = status]
    BY <1>1 DEF Jobs
  <2> QED BY <2>1
<1>4. Claim(i) => Moves(i, "processing", jobs[i].tries + 1, jobs[i].withPhoto)
  BY <1>1 DEF Claim, Moves, Jobs
<1>5. Ingest(i) => Moves(i, "stored", jobs[i].tries, shown)
  BY <1>1 DEF Ingest, Moves, Jobs
<1>6. Prepare(i) => Moves(i, "prepared", jobs[i].tries, jobs[i].withPhoto)
  BY <1>3 DEF Prepare, Moves
<1>7. Complete(i) => Moves(i, "completed", jobs[i].tries, jobs[i].withPhoto)
  BY <1>3 DEF Complete, Moves
<1>8. Fail(i) => Moves(i, IF jobs[i].tries < MaxTries THEN "queued" ELSE "failed",
                       jobs[i].tries, jobs[i].withPhoto)
  BY <1>3 DEF Fail, Moves
<1> QED BY <1>1, <1>2, <1>4, <1>5, <1>6, <1>7, <1>8

\* A claimed job is the only one of its key under way.
LEMMA ClaimKeeps ==
  ASSUME Inv, NEW i \in DOMAIN jobs, Claim(i)
  PROVE  Inv'
<1>1. /\ Moves(i, "processing", jobs[i].tries + 1, jobs[i].withPhoto)
      /\ jobs[i].withPhoto \in BOOLEAN
  BY Steps
<1>2. jobs[i].tries + 1 \in 0..MaxTries
  <2>1. jobs[i].tries \in 0..MaxTries
    BY Steps
  <2>2. jobs[i].tries < MaxTries
    BY DEF Claim, Inv, QueuedHaveTries
  <2> QED BY <2>1, <2>2, Bounds
<1>3. jobs[i].status # "superseded" /\ ~Blocked(i) /\ UNCHANGED <<rows, shown, toggles, faults>>
  BY DEF Claim
<1>4. /\ jobs' \in Seq(Jobs)
      /\ KeysAreRows' /\ SuccessorsHaveTheKey' /\ TakeTurns' /\ QueuedHaveTries'
  BY <1>1, <1>2, <1>3, OneJobKeeps DEF Statuses
<1> QED BY <1>3, <1>4 DEF Inv, TypeOK, RowsAreListings

\* The row that is stored is that of the key, and has the columns of the payload.
LEMMA UpsertKeeps ==
  ASSUME Inv, NEW i \in DOMAIN jobs, UnderWay(i), NEW withPhoto \in BOOLEAN,
         Upsert(jobs[i], withPhoto), NEW status \in {"stored", "prepared"},
         Moves(i, status, jobs[i].tries, withPhoto),
         UNCHANGED <<shown, toggles, faults>>
  PROVE  Inv'
<1> DEFINE p == jobs[i].payload
           target == Target(jobs[i])
<1>1. jobs[i].tries \in 0..MaxTries /\ p \in Payloads /\ jobs[i].site \in Sites
  BY Steps DEF Jobs
<1>2. status \in Statuses \ {"superseded", "queued"} /\ jobs[i].status # "superseded"
  BY DEF UnderWay, Statuses
<1>3. target = <<jobs[i].site, RowKey(p)>> /\ target \in Sites \X Nat
  BY <1>1, CatalogAssumption DEF Target
<1>4. rows' = [t \in DOMAIN rows \cup {target} |->
                 IF t = target THEN Columns(p, withPhoto) ELSE rows[t]]
  BY DEF Upsert
<1>5. DOMAIN rows' = DOMAIN rows \cup {target} /\ rows'[target] = Columns(p, withPhoto)
  BY <1>4
<1>6. \A t \in DOMAIN rows' : t # target => t \in DOMAIN rows /\ rows'[t] = rows[t]
  BY <1>4, <1>5
<1> HIDE DEF target
<1>7. /\ jobs' \in Seq(Jobs)
      /\ KeysAreRows' /\ SuccessorsHaveTheKey' /\ TakeTurns' /\ QueuedHaveTries'
  BY <1>1, <1>2, <1>5, OneJobKeeps
<1>8. \A t \in DOMAIN rows' : rows'[t].raw \in Payloads
  <2>1. rows'[target].raw \in Payloads
    BY <1>1, <1>5, ColumnsOf
  <2> QED BY <1>6, <2>1 DEF Inv, TypeOK
<1>9. TypeOK'
  BY <1>3, <1>5, <1>7, <1>8 DEF Inv, TypeOK
<1>10. RowsAreListings'
  <2> SUFFICES ASSUME NEW t \in DOMAIN rows'
               PROVE  /\ t[2] = RowKey(rows'[t].raw)
                      /\ \E photo \in {None, rows'[t].raw.photo} :
                           rows'[t] = RowOf(rows'[t].raw, photo)
    BY DEF RowsAreListings
  <2>1. CASE t = target
    <3>1. rows'[t] = Columns(p, withPhoto) /\ rows'[t].raw = p /\ t[2] = RowKey(p)
      BY <1>3, <1>5, <2>1, ColumnsOf
    <3>2. \E photo \in {None, p.photo} : Columns(p, withPhoto) = RowOf(p, photo)
      BY ColumnsOf
    <3> QED BY <3>1, <3>2
  <2>2. CASE t # target
    BY <1>6, <2>2 DEF Inv, RowsAreListings
  <2> QED BY <2>1, <2>2
<1> QED BY <1>7, <1>9, <1>10 DEF Inv

\* Both upserts of a run keep the invariant.
LEMMA StoreKeeps ==
  ASSUME Inv, NEW i \in DOMAIN jobs, Ingest(i) \/ Prepare(i)
  PROVE  Inv'
<1>1. CASE Ingest(i)
  <2>1. UnderWay(i) /\ Upsert(jobs[i], shown) /\ UNCHANGED <<shown, toggles, faults>>
    BY <1>1 DEF Ingest, UnderWay
  <2>2. Moves(i, "stored", jobs[i].tries, shown) /\ shown \in BOOLEAN
    BY <1>1, Steps DEF Inv, TypeOK
  <2> QED BY <2>1, <2>2, UpsertKeeps
<1>2. CASE Prepare(i)
  <2>1. /\ UnderWay(i) /\ Upsert(jobs[i], jobs[i].withPhoto)
        /\ UNCHANGED <<shown, toggles, faults>>
    BY <1>2 DEF Prepare, UnderWay
  <2>2. /\ Moves(i, "prepared", jobs[i].tries, jobs[i].withPhoto)
        /\ jobs[i].withPhoto \in BOOLEAN
    BY <1>2, Steps
  <2> QED BY <2>1, <2>2, UpsertKeeps
<1> QED BY <1>1, <1>2

\* A failure only changes the status of the job.
LEMMA FailKeeps ==
  ASSUME Inv, NEW i \in DOMAIN jobs, Fail(i)
  PROVE  Inv'
<1> DEFINE status == IF jobs[i].tries < MaxTries THEN "queued" ELSE "failed"
<1>1. /\ Moves(i, status, jobs[i].tries, jobs[i].withPhoto)
      /\ jobs[i].tries \in 0..MaxTries /\ jobs[i].withPhoto \in BOOLEAN
  BY Steps
<1>2. /\ status \in Statuses \ ({"superseded"} \cup Begun)
      /\ status = "queued" => jobs[i].tries < MaxTries
  BY DEF Statuses, Begun
<1>3. jobs[i].status # "superseded" /\ UNCHANGED <<rows, shown, toggles>>
  BY DEF Fail, UnderWay
<1>4. faults' \in 0..MaxFaults
  BY Bounds DEF Fail, Inv, TypeOK
<1> HIDE DEF status
<1>5. /\ jobs' \in Seq(Jobs)
      /\ KeysAreRows' /\ SuccessorsHaveTheKey' /\ TakeTurns' /\ QueuedHaveTries'
  BY <1>1, <1>2, <1>3, OneJobKeeps
<1> QED BY <1>3, <1>4, <1>5 DEF Inv, TypeOK, RowsAreListings

\* The end of a job only changes its status.
LEMMA CompleteKeeps ==
  ASSUME Inv, NEW i \in DOMAIN jobs, Complete(i)
  PROVE  Inv'
<1>1. /\ Moves(i, "completed", jobs[i].tries, jobs[i].withPhoto)
      /\ jobs[i].tries \in 0..MaxTries /\ jobs[i].withPhoto \in BOOLEAN
  BY Steps
<1>2. jobs[i].status # "superseded" /\ UNCHANGED <<rows, shown, toggles, faults>>
  BY DEF Complete
<1>3. /\ jobs' \in Seq(Jobs)
      /\ KeysAreRows' /\ SuccessorsHaveTheKey' /\ TakeTurns' /\ QueuedHaveTries'
  BY <1>1, <1>2, OneJobKeeps DEF Statuses, Begun
<1> QED BY <1>2, <1>3 DEF Inv, TypeOK, RowsAreListings

\* Nothing of the invariant but its types names the switch.
LEMMA ToggleKeeps ==
  ASSUME Inv, Toggle \/ UNCHANGED vars
  PROVE  Inv'
<1>1. UNCHANGED <<jobs, rows, faults>>
  BY DEF Toggle, vars
<1>2. shown \in BOOLEAN /\ toggles \in 0..MaxToggles
  BY DEF Inv, TypeOK
<1>3. shown' \in BOOLEAN
  BY <1>2 DEF Toggle, vars
<1>4. toggles' \in 0..MaxToggles
  BY <1>2, Bounds DEF Toggle, vars
<1> QED
  BY <1>1, <1>3, <1>4
  DEF Inv, TypeOK, KeysAreRows, SuccessorsHaveTheKey, TakeTurns, UnderWay,
      QueuedHaveTries, RowsAreListings

\* The invariant is inductive.
LEMMA NextKeeps == Inv /\ [Next]_vars => Inv'
<1> SUFFICES ASSUME Inv, [Next]_vars PROVE Inv'
  OBVIOUS
<1>1. CASE \E delivery \in Deliveries : Deliver(delivery)
  BY <1>1, DeliverKeeps
<1>2. CASE \E t \in DOMAIN rows : Ask(t[1], t[2])
  BY <1>2, AskKeeps
<1>3. CASE \E i \in DOMAIN jobs :
             Claim(i) \/ Ingest(i) \/ Prepare(i) \/ Fail(i) \/ Complete(i)
  BY <1>3, ClaimKeeps, StoreKeeps, FailKeeps, CompleteKeeps
<1>4. CASE Toggle \/ UNCHANGED vars
  BY <1>4, ToggleKeeps
<1> QED BY <1>1, <1>2, <1>3, <1>4 DEF Next

\* The invariant holds in every behaviour.
THEOREM InvHolds == Spec => []Inv
BY InitInv, NextKeeps, PTL DEF Spec

-----------------------------------------------------------------------------
(* What follows. *)

\* With keys that are rows, equal rows are equal keys.
LEMMA KeyTellsRowFollows == Inv => KeyTellsRow
<1> SUFFICES ASSUME Inv PROVE KeyTellsRow
  OBVIOUS
<1>1. ASSUME NEW i \in DOMAIN jobs, jobs[i].key # None
      PROVE  Target(jobs[i]) = <<jobs[i].site, jobs[i].key>>
  BY <1>1 DEF Inv, KeysAreRows, Target
<1>2. ASSUME NEW i \in DOMAIN jobs
      PROVE  /\ jobs[i].kind = "edit" => Target(jobs[i]) = <<jobs[i].site, jobs[i].key>>
             /\ jobs[i].status = "superseded" =>
                  /\ jobs[i].by \in DOMAIN jobs
                  /\ Target(jobs[jobs[i].by]) = Target(jobs[i])
  BY <1>1, <1>2 DEF Inv, KeysAreRows, SuccessorsHaveTheKey
<1>3. ASSUME NEW i \in DOMAIN jobs, NEW k \in DOMAIN jobs,
             i # k, UnderWay(i), UnderWay(k), Target(jobs[i]) = Target(jobs[k]),
             None \notin {jobs[i].key, jobs[k].key}
      PROVE  FALSE
  <2>1. jobs[i].site = jobs[k].site /\ jobs[i].key = jobs[k].key
    BY <1>1, <1>3
  <2> QED BY <1>3, <2>1 DEF Inv, TakeTurns
<1> QED BY <1>2, <1>3 DEF KeyTellsRow, Inv

\* The queue's key of a job, where it has one, is the row the job stores: an
\* edit's job stores the row that was edited, a listing is discarded only for
\* another of its row, and rows are written in turn.
THEOREM KeysTellRows == Spec => []KeyTellsRow
BY InvHolds, KeyTellsRowFollows, PTL

\* A job gets to "stored" by Ingest and to "prepared" by Prepare.
LEMMA StoredByIngest ==
  ASSUME Inv, [Next]_vars, NEW i \in DOMAIN jobs,
         jobs'[i].status \in {"stored", "prepared"} \ {jobs[i].status}
  PROVE  Ingest(i) \/ Prepare(i)
<1>1. \A entry \in Jobs : ~Enqueue(entry)
  <2> SUFFICES ASSUME NEW entry \in Jobs, Enqueue(entry) PROVE FALSE
    OBVIOUS
  <2>1. jobs[i] \in Jobs
    BY Steps
  <2>2. \/ jobs'[i] = jobs[i]
        \/ jobs'[i] = [jobs[i] EXCEPT !.status = "superseded", !.by = Len(jobs) + 1]
    BY Enqueued DEF Inv
  <2>3. jobs'[i].status \in {jobs[i].status, "superseded"}
    BY <2>1, <2>2 DEF Jobs
  <2> QED BY <2>3
<1>2. ASSUME NEW delivery \in Deliveries, Deliver(delivery)  PROVE FALSE
  <2> DEFINE p == Parsed(delivery)
  <2>1. p \in Payloads /\ KeyOf(p) \in Nat \cup {None} /\ SiteOf(delivery) \in Sites
    BY <1>2, CatalogAssumption DEF Deliver, Payloads
  <2>2. Job("webhook", SiteOf(delivery), KeyOf(p), p) \in Jobs
    BY <2>1, Bounds DEF Job, Jobs, Statuses
  <2> QED BY <1>1, <1>2, <2>2 DEF Deliver
<1>3. ASSUME NEW t \in DOMAIN rows, Ask(t[1], t[2])  PROVE FALSE
  <2>1. t = <<t[1], t[2]>> /\ t[1] \in Sites /\ t[2] \in Nat /\ rows[t].raw \in Payloads
    BY DEF Inv, TypeOK
  <2>2. Job("edit", t[1], t[2], rows[t].raw) \in Jobs
    BY <2>1, Bounds DEF Job, Jobs, Statuses
  <2> QED BY <1>1, <1>3, <2>1, <2>2 DEF Ask
<1>4. ASSUME NEW k \in DOMAIN jobs,
             Claim(k) \/ Ingest(k) \/ Prepare(k) \/ Fail(k) \/ Complete(k)
      PROVE  Ingest(i) \/ Prepare(i)
  <2>1. CASE Ingest(k) \/ Prepare(k)
    <3>1. PICK status, withPhoto : Moves(k, status, jobs[k].tries, withPhoto)
      BY <2>1, Steps
    <3>2. k = i
      BY <3>1 DEF Moves
    <3> QED BY <2>1, <3>2
  <2>2. CASE Claim(k) \/ Fail(k) \/ Complete(k)
    <3>1. PICK status, tries, withPhoto :
            status \notin {"stored", "prepared"} /\ Moves(k, status, tries, withPhoto)
      BY <2>2, Steps DEF Statuses
    <3>2. jobs[k] \in Jobs
      BY Steps
    <3>3. jobs'[i] = IF k = i
                       THEN [jobs[k] EXCEPT !.status = status, !.tries = tries,
                                            !.withPhoto = withPhoto]
                       ELSE jobs[i]
      BY <3>1 DEF Moves
    <3> QED BY <3>1, <3>2, <3>3 DEF Jobs
  <2> QED BY <1>4, <2>1, <2>2
<1>5. ~Toggle /\ ~UNCHANGED vars
  BY DEF Toggle, vars
<1> QED BY <1>2, <1>3, <1>4, <1>5 DEF Next

\* The payload of a row gives the columns of the row again.
LEMMA EditKeeps ==
  ASSUME Inv, NEW i \in DOMAIN jobs, Ingest(i) \/ Prepare(i),
         jobs[i].kind = "edit",
         rows[<<jobs[i].site, jobs[i].key>>].raw = jobs[i].payload
  PROVE  \E photo \in {None, jobs[i].payload.photo} :
           rows' = [rows EXCEPT ![<<jobs[i].site, jobs[i].key>>].photo = photo]
<1> DEFINE p == jobs[i].payload
           t == <<jobs[i].site, jobs[i].key>>
<1>1. t \in DOMAIN rows /\ Target(jobs[i]) = t
  BY DEF Inv, KeysAreRows, Target
<1>2. PICK withPhoto : Upsert(jobs[i], withPhoto)
  BY DEF Ingest, Prepare
<1>3. PICK photo \in {None, p.photo} : Columns(p, withPhoto) = RowOf(p, photo)
  BY ColumnsOf
<1>4. PICK before \in {None, p.photo} : rows[t] = RowOf(p, before)
  BY <1>1 DEF Inv, RowsAreListings
<1>5. [rows[t] EXCEPT !.photo = photo] = Columns(p, withPhoto)
  BY <1>3, <1>4 DEF RowOf
<1>6. rows' = [u \in DOMAIN rows |-> IF u = t THEN Columns(p, withPhoto) ELSE rows[u]]
  <2>1. DOMAIN rows \cup {t} = DOMAIN rows
    BY <1>1
  <2> QED BY <1>1, <1>2, <2>1 DEF Upsert
<1>7. rows' = [rows EXCEPT ![t] = [rows[t] EXCEPT !.photo = photo]]
  <2> HIDE DEF t
  <2>1. [rows EXCEPT ![t] = Columns(p, withPhoto)] =
        [u \in DOMAIN rows |-> IF u = t THEN Columns(p, withPhoto) ELSE rows[u]]
    OBVIOUS
  <2> QED BY <1>5, <1>6, <2>1
<1> QED BY <1>3, <1>7

\* The same for the step that stores an edit's job.
LEMMA StepKeepsListings ==
  ASSUME Inv, [Next]_vars, NEW i \in DOMAIN jobs,
         jobs[i].kind = "edit",
         jobs'[i].status \in {"stored", "prepared"} \ {jobs[i].status},
         rows[<<jobs[i].site, jobs[i].key>>].raw = jobs[i].payload
  PROVE  \E photo \in {None, jobs[i].payload.photo} :
           rows' = [rows EXCEPT ![<<jobs[i].site, jobs[i].key>>].photo = photo]
<1>1. Ingest(i) \/ Prepare(i)
  BY StoredByIngest
<1> QED BY <1>1, EditKeeps

\* An edit stores the listing again as it is, but for the agent's photo.
THEOREM EditsChangeNoListing == Spec => EditsKeepTheListing
<1>1. Inv /\ [Next]_vars =>
        [\A i \in DOMAIN jobs :
           LET t == <<jobs[i].site, jobs[i].key>>
           IN  /\ jobs[i].kind = "edit"
               /\ jobs'[i].status \in {"stored", "prepared"} \ {jobs[i].status}
               /\ rows[t].raw = jobs[i].payload
               => \E photo \in {None, jobs[i].payload.photo} :
                    rows' = [rows EXCEPT ![t].photo = photo]]_vars
  BY StepKeepsListings
<1> QED BY <1>1, InvHolds, PTL DEF Spec, EditsKeepTheListing

-----------------------------------------------------------------------------
(* PhotoSelection: recursive functions, and the operators it is built from. *)

\* A set of numbers that holds 0 and with each number the next holds them all.
LEMMA UpTo ==
  ASSUME NEW n \in Nat, NEW T, 0 \in T,
         \A m \in 0 .. n : m # n /\ m \in T => m + 1 \in T
  PROVE  \A m \in 0 .. n : m \in T
<1> DEFINE W == {m \in 0 .. n : m \notin T}
<1> SUFFICES ASSUME W # {} PROVE FALSE
  OBVIOUS
<1>1. W \subseteq Nat
  OBVIOUS
<1> HIDE DEF W
<1>2. PICK m \in W : \A k \in W : <<k, m>> \notin OpToRel(<, Nat)
  BY <1>1, WFMin, NatLessThanWellFounded
<1>3. m \in 0 .. n /\ m \notin T /\ m # 0
  BY DEF W
<1>4. m - 1 \in 0 .. n /\ m - 1 # n /\ (m - 1) + 1 = m
  BY <1>3
<1>5. m - 1 \in W
  BY <1>3, <1>4 DEF W
<1>6. <<m - 1, m>> \in OpToRel(<, Nat)
  BY <1>3 DEF OpToRel
<1> QED BY <1>2, <1>5, <1>6

\* What a recursive function computes in n steps, each a value of A.
Computes(f, n, A, base, step) ==
  /\ f \in [0 .. n -> A]
  /\ f = [k \in 0 .. n |-> IF k = 0 THEN base ELSE step[<<k, f[k - 1]>>]]

\* A recursive function exists: its first n values determine the next.
LEMMA Recursion ==
  ASSUME NEW n \in Nat, NEW A, NEW base \in A, NEW step \in [(1 .. n) \X A -> A]
  PROVE  \E f : Computes(f, n, A, base, step)
<1> DEFINE Some(m) == \E f : Computes(f, m, A, base, step)
           T == {m \in 0 .. n : Some(m)}
<1>1. Some(0)
  <2> DEFINE f == [k \in 0 .. 0 |-> base]
  <2>1. f \in [0 .. 0 -> A] /\ \A k \in 0 .. 0 : k = 0 /\ f[k] = base
    OBVIOUS
  <2>2. f = [k \in 0 .. 0 |-> IF k = 0 THEN base ELSE step[<<k, f[k - 1]>>]]
    BY <2>1
  <2> HIDE DEF f
  <2>3. Computes(f, 0, A, base, step)
    BY <2>1, <2>2, Zenon DEF Computes
  <2> QED BY <2>3
<1>2. ASSUME NEW m \in 0 .. n, m # n, Some(m)  PROVE m + 1 \in 0 .. n /\ Some(m + 1)
  <2>1. PICK f : Computes(f, m, A, base, step)
    BY <1>2
  <2> DEFINE h == [k \in 0 .. m + 1 |-> IF k = m + 1 THEN step[<<m + 1, f[m]>>] ELSE f[k]]
  <2>9. f \in [0 .. m -> A]
    BY <2>1 DEF Computes
  <2>10. m \in 0 .. m /\ m + 1 \in 1 .. n /\ m + 1 \in 0 .. n
    BY <1>2
  <2>2. f \in [0 .. m -> A] /\ f[m] \in A /\ m + 1 \in 1 .. n
    BY <2>9, <2>10
  <2>3. step[<<m + 1, f[m]>>] \in A
    BY <2>2
  <2>4. h \in [0 .. m + 1 -> A]
    BY <2>2, <2>3
  <2>5. ASSUME NEW k \in 0 .. m + 1
        PROVE  h[k] = IF k = 0 THEN base ELSE step[<<k, h[k - 1]>>]
    <3>1. CASE k = m + 1
      <4>1. k # 0 /\ k - 1 = m /\ h[m] = f[m]
        BY <3>1
      <4> QED BY <3>1, <4>1
    <3>2. CASE k \in 0 .. m
      <4>1. h[k] = f[k] /\ f[k] = IF k = 0 THEN base ELSE step[<<k, f[k - 1]>>]
        BY <2>1, <3>2 DEF Computes
      <4>2. k # 0 => k - 1 \in 0 .. m /\ h[k - 1] = f[k - 1]
        BY <3>2
      <4> HIDE DEF h
      <4> QED BY <4>1, <4>2
    <3> QED BY <3>1, <3>2
  <2>6. h = [k \in 0 .. m + 1 |-> h[k]]
    OBVIOUS
  <2> HIDE DEF h
  <2>7. h = [k \in 0 .. m + 1 |-> IF k = 0 THEN base ELSE step[<<k, h[k - 1]>>]]
    BY <2>5, <2>6
  <2>8. Computes(h, m + 1, A, base, step)
    BY <2>4, <2>7, Zenon DEF Computes
  <2> QED BY <2>10, <2>8
<1> HIDE DEF Some
<1>3. 0 \in T /\ \A m \in 0 .. n : m # n /\ m \in T => m + 1 \in T
  BY <1>1, <1>2
<1> HIDE DEF T
<1>4. n \in T
  BY <1>3, UpTo
<1> QED BY <1>4 DEF T, Some

\* The elements that are kept are those of the set, no more of them than there
\* were, and once each where each was there once.
LEMMA OnlyKeeps ==
  ASSUME NEW R, NEW s \in Seq(R), NEW S
  PROVE  /\ Only(s, S) \in Seq(R)
         /\ Range(Only(s, S)) = Range(s) \cap S
         /\ Len(Only(s, S)) <= Len(s)
         /\ IsInjective(s) => IsInjective(Only(s, S))
<1> DEFINE n == Len(s)
           A == Seq(R)
           step == [x \in (1 .. n) \X A |->
                      IF s[x[1]] \in S THEN Append(x[2], s[x[1]]) ELSE x[2]]
           Good(t, k) == /\ t \in Seq(R)
                         /\ Len(t) <= k
                         /\ \A i \in 1 .. k : s[i] \in S
                              => \E j \in 1 .. Len(t) : t[j] = s[i]
                         /\ \A j \in 1 .. Len(t) : \E i \in 1 .. k : t[j] = s[i] /\ s[i] \in S
                         /\ IsInjective(s) => IsInjective(t)
<1>1. n \in Nat /\ DOMAIN s = 1 .. n /\ \A i \in 1 .. n : s[i] \in R
  OBVIOUS
<1>2. step \in [(1 .. n) \X A -> A] /\ <<>> \in A
  BY <1>1
<1>3. ASSUME NEW k \in 1 .. n, NEW t \in A
      PROVE  step[<<k, t>>] = IF s[k] \in S THEN Append(t, s[k]) ELSE t
  OBVIOUS
<1> DEFINE kept == CHOOSE f : f = [k \in 0 .. n |->
                     IF k = 0 THEN <<>>
                     ELSE IF s[k] \in S THEN Append(f[k - 1], s[k]) ELSE f[k - 1]]
<1>4. Only(s, S) = kept[n]
  BY DEF Only
<1> HIDE DEF n, step
<1>5. PICK f : Computes(f, n, A, <<>>, step)
  BY <1>1, <1>2, Recursion
<1>6. ASSUME NEW k \in 0 .. n
      PROVE  f[k] = IF k = 0 THEN <<>>
                    ELSE IF s[k] \in S THEN Append(f[k - 1], s[k]) ELSE f[k - 1]
  <2>1. f[k] = IF k = 0 THEN <<>> ELSE step[<<k, f[k - 1]>>]
    BY <1>5, Zenon DEF Computes
  <2>2. k # 0 => k \in 1 .. n /\ f[k - 1] \in A
    BY <1>1, <1>5 DEF Computes
  <2> QED BY <1>3, <2>1, <2>2
<1>7. f = [k \in 0 .. n |-> IF k = 0 THEN <<>>
             ELSE IF s[k] \in S THEN Append(f[k - 1], s[k]) ELSE f[k - 1]]
  <2>1. f = [k \in 0 .. n |-> f[k]]
    BY <1>5 DEF Computes
  <2> QED BY <1>6, <2>1
<1>8. kept = [k \in 0 .. n |-> IF k = 0 THEN <<>>
                ELSE IF s[k] \in S THEN Append(kept[k - 1], s[k]) ELSE kept[k - 1]]
  BY <1>7, Zenon
<1> HIDE DEF kept
<1>9. ASSUME NEW k \in 0 .. n
      PROVE  kept[k] = IF k = 0 THEN <<>>
                       ELSE IF s[k] \in S THEN Append(kept[k - 1], s[k]) ELSE kept[k - 1]
  BY <1>8
<1>10. Good(kept[0], 0)
  <2>1. kept[0] = <<>>
    BY <1>1, <1>9
  <2>2. Len(<<>>) = 0 /\ <<>> \in Seq(R) /\ DOMAIN <<>> = {}
    OBVIOUS
  <2>3. IsInjective(<<>>)
    BY <2>2 DEF IsInjective
  <2> QED BY <2>1, <2>2, <2>3
<1>11. ASSUME NEW k \in 0 .. n, k # n, NEW t, Good(t, k)
       PROVE  Good(IF s[k + 1] \in S THEN Append(t, s[k + 1]) ELSE t, k + 1)
  <2> DEFINE e == s[k + 1]
  <2>1. k + 1 \in 1 .. n /\ e \in R /\ \A i \in 1 .. k + 1 : i \in 1 .. k \/ i = k + 1
    BY <1>1, <1>11
  <2>2. CASE e \notin S
    BY <1>11, <2>1, <2>2
  <2>3. CASE e \in S
    <3> DEFINE u == Append(t, e)
    <3>1. /\ u \in Seq(R) /\ Len(u) = Len(t) + 1 /\ Len(t) \in Nat
          /\ u[Len(t) + 1] = e /\ DOMAIN u = 1 .. Len(t) + 1
          /\ DOMAIN t = 1 .. Len(t)
          /\ \A j \in 1 .. Len(t) : u[j] = t[j]
      BY <1>11, <2>1
    <3> HIDE DEF u
    <3>2. ASSUME NEW i \in 1 .. k + 1, s[i] \in S
          PROVE  \E j \in 1 .. Len(u) : u[j] = s[i]
      <4>1. CASE i = k + 1
        BY <3>1, <4>1
      <4>2. CASE i \in 1 .. k
        BY <1>11, <3>1, <3>2, <4>2
      <4> QED BY <2>1, <4>1, <4>2
    <3>3. ASSUME NEW j \in 1 .. Len(u)
          PROVE  \E i \in 1 .. k + 1 : u[j] = s[i] /\ s[i] \in S
      <4>1. CASE j = Len(t) + 1
        BY <2>3, <3>1, <4>1
      <4>2. CASE j \in 1 .. Len(t)
        <5>1. PICK i \in 1 .. k : t[j] = s[i] /\ s[i] \in S
          BY <1>11, <4>2
        <5> QED BY <3>1, <4>2, <5>1
      <4> QED BY <3>1, <4>1, <4>2
    <3>4. ASSUME IsInjective(s)  PROVE IsInjective(u)
      <4>1. \A j \in 1 .. Len(t) : t[j] # e
        <5> SUFFICES ASSUME NEW j \in 1 .. Len(t), t[j] = e  PROVE FALSE
          OBVIOUS
        <5>1. PICK i \in 1 .. k : t[j] = s[i]
          BY <1>11
        <5>2. i = k + 1
          <6>1. i \in DOMAIN s /\ k + 1 \in DOMAIN s /\ s[i] = s[k + 1]
            BY <1>1, <1>11, <2>1, <5>1
          <6> QED BY <3>4, <6>1, Zenon DEF IsInjective
        <5> QED BY <5>2
      <4>2. \A i, j \in 1 .. Len(t) : t[i] = t[j] => i = j
        BY <1>11, <3>1, <3>4 DEF IsInjective
      <4>3. ASSUME NEW a \in DOMAIN u, NEW b \in DOMAIN u, u[a] = u[b]  PROVE a = b
        BY <3>1, <4>1, <4>2, <4>3
      <4> QED BY <4>3 DEF IsInjective
    <3>5. Len(u) <= k + 1
      BY <1>11, <3>1
    <3> HIDE DEF e
    <3>6. Good(u, k + 1)
      BY <3>1, <3>2, <3>3, <3>4, <3>5
    <3> HIDE DEF Good
    <3> QED BY <2>3, <3>6 DEF u, e
  <2> QED BY <2>2, <2>3
<1> DEFINE T == {k \in 0 .. n : Good(kept[k], k)}
<1> HIDE DEF Good
<1>12. 0 \in T /\ \A k \in 0 .. n : k # n /\ k \in T => k + 1 \in T
  <2>1. ASSUME NEW k \in 0 .. n, k # n, Good(kept[k], k)
        PROVE  k + 1 \in 0 .. n /\ Good(kept[k + 1], k + 1)
    <3>1. k + 1 \in 0 .. n /\ (k + 1) - 1 = k /\ k + 1 # 0
      BY <1>1, <2>1
    <3>2. kept[k + 1] = IF s[k + 1] \in S THEN Append(kept[k], s[k + 1]) ELSE kept[k]
      BY <1>9, <3>1
    <3> QED BY <1>11, <2>1, <3>1, <3>2
  <2> QED BY <1>1, <1>10, <2>1
<1> HIDE DEF T
<1>13. n \in T
  BY <1>1, <1>12, UpTo
<1>14. Good(kept[n], n)
  BY <1>13 DEF T
<1>15. PICK t : t = Only(s, S)
  OBVIOUS
<1>16. /\ t \in Seq(R) /\ Len(t) <= n
       /\ \A i \in 1 .. n : s[i] \in S => \E j \in 1 .. Len(t) : t[j] = s[i]
       /\ \A j \in 1 .. Len(t) : \E i \in 1 .. n : t[j] = s[i] /\ s[i] \in S
       /\ IsInjective(s) => IsInjective(t)
  BY <1>4, <1>14, <1>15 DEF Good
<1>17. DOMAIN t = 1 .. Len(t)
  BY <1>16
<1>18. Range(t) = Range(s) \cap S
  <2>1. ASSUME NEW e  PROVE e \in Range(t) <=> \E j \in 1 .. Len(t) : t[j] = e
    BY <1>17 DEF Range
  <2>2. ASSUME NEW e  PROVE e \in Range(s) <=> \E i \in 1 .. n : s[i] = e
    BY <1>1 DEF Range
  <2>3. ASSUME NEW e  PROVE e \in Range(t) <=> e \in Range(s) /\ e \in S
    <3>1. ASSUME NEW j \in 1 .. Len(t), t[j] = e  PROVE e \in Range(s) /\ e \in S
      <4>1. PICK i \in 1 .. n : t[j] = s[i] /\ s[i] \in S
        BY <1>16
      <4> QED BY <2>2, <3>1, <4>1
    <3>2. ASSUME NEW i \in 1 .. n, s[i] = e, e \in S  PROVE e \in Range(t)
      BY <1>16, <2>1, <3>2
    <3> QED BY <2>1, <2>2, <3>1, <3>2
  <2> QED BY <2>3
<1> QED BY <1>15, <1>16, <1>18 DEF n

\* Rows the classifier's answers give: their places are compared by numbers.
Rankable(given) ==
  \A i \in DOMAIN given :
    given[i].area \in Areas /\ given[i].score \in Int /\ given[i].confidence \in Int

\* One row comes before another: by the first number in which they differ.
LEMMA BeforeIs ==
  ASSUME NEW given, NEW priority, NEW i, NEW j
  PROVE  Before(given, priority, i, j) <=>
           LET a == priority[given[i].area]
               b == priority[given[j].area]
           IN  \/ a > b
               \/ a = b /\ given[i].score > given[j].score
               \/ /\ a = b /\ given[i].score = given[j].score
                  /\ given[i].confidence > given[j].confidence
               \/ /\ a = b /\ given[i].score = given[j].score
                  /\ given[i].confidence = given[j].confidence /\ i < j
<1> DEFINE Key(k) == <<priority[given[k].area], given[k].score, given[k].confidence>>
<1>1. 1 .. 3 = {1, 2, 3} /\ 1 .. (1 - 1) = {} /\ 1 .. (2 - 1) = {1} /\ 1 .. (3 - 1) = {1, 2}
  OBVIOUS
<1> QED BY <1>1 DEF Before

\* Of two rows one comes before the other, and what comes before the first
\* comes before the second.
LEMMA BeforeIsAnOrder ==
  ASSUME NEW R, NEW given \in Seq(R), Rankable(given), NEW priority \in [Areas -> Int],
         NEW i \in DOMAIN given, NEW j \in DOMAIN given
  PROVE  /\ ~Before(given, priority, i, i)
         /\ i # j => Before(given, priority, i, j) \/ Before(given, priority, j, i)
         /\ \A k \in DOMAIN given :
              Before(given, priority, k, i) /\ Before(given, priority, i, j)
                => Before(given, priority, k, j)
<1> DEFINE a(k) == priority[given[k].area]
           b(k) == given[k].score
           c(k) == given[k].confidence
<1>1. \A k \in DOMAIN given : k \in Int /\ a(k) \in Int /\ b(k) \in Int /\ c(k) \in Int
  BY DEF Rankable
<1>2. ASSUME NEW x, NEW y
      PROVE  Before(given, priority, x, y) <=>
               \/ a(x) > a(y)
               \/ a(x) = a(y) /\ b(x) > b(y)
               \/ a(x) = a(y) /\ b(x) = b(y) /\ c(x) > c(y)
               \/ a(x) = a(y) /\ b(x) = b(y) /\ c(x) = c(y) /\ x < y
  BY BeforeIs
<1> HIDE DEF a, b, c
<1>3. ~Before(given, priority, i, i)
  BY <1>1, <1>2
<1>4. i # j => Before(given, priority, i, j) \/ Before(given, priority, j, i)
  <2>1. Before(given, priority, i, j) <=>
               \/ a(i) > a(j)
               \/ a(i) = a(j) /\ b(i) > b(j)
               \/ a(i) = a(j) /\ b(i) = b(j) /\ c(i) > c(j)
               \/ a(i) = a(j) /\ b(i) = b(j) /\ c(i) = c(j) /\ i < j
    BY <1>2
  <2>2. Before(given, priority, j, i) <=>
               \/ a(j) > a(i)
               \/ a(j) = a(i) /\ b(j) > b(i)
               \/ a(j) = a(i) /\ b(j) = b(i) /\ c(j) > c(i)
               \/ a(j) = a(i) /\ b(j) = b(i) /\ c(j) = c(i) /\ j < i
    BY <1>2
  <2> QED BY <1>1, <2>1, <2>2
<1>5. ASSUME NEW k \in DOMAIN given,
             Before(given, priority, k, i), Before(given, priority, i, j)
      PROVE  Before(given, priority, k, j)
  <2>1. \/ a(k) > a(i)
        \/ a(k) = a(i) /\ b(k) > b(i)
        \/ a(k) = a(i) /\ b(k) = b(i) /\ c(k) > c(i)
        \/ a(k) = a(i) /\ b(k) = b(i) /\ c(k) = c(i) /\ k < i
    BY <1>2, <1>5
  <2>2. \/ a(i) > a(j)
        \/ a(i) = a(j) /\ b(i) > b(j)
        \/ a(i) = a(j) /\ b(i) = b(j) /\ c(i) > c(j)
        \/ a(i) = a(j) /\ b(i) = b(j) /\ c(i) = c(j) /\ i < j
    BY <1>2, <1>5
  <2>3. \/ a(k) > a(j)
        \/ a(k) = a(j) /\ b(k) > b(j)
        \/ a(k) = a(j) /\ b(k) = b(j) /\ c(k) > c(j)
        \/ a(k) = a(j) /\ b(k) = b(j) /\ c(k) = c(j) /\ k < j
    BY <1>1, <2>1, <2>2, SMTT(30)
  <2> QED BY <1>2, <2>3
<1> QED BY <1>3, <1>4, <1>5

\* Every place is taken by one row: ranking loses none and doubles none.
LEMMA RankIsAPermutation ==
  ASSUME NEW R, NEW given \in Seq(R), Rankable(given), NEW priority \in [Areas -> Int]
  PROVE  /\ Rank(given, priority) \in Seq(R)
         /\ Len(Rank(given, priority)) = Len(given)
         /\ Range(Rank(given, priority)) = Range(given)
<1> DEFINE n == Len(given)
           D == 1 .. n
           Ahead(i) == {j \in D : Before(given, priority, j, i)}
           place == [i \in D |-> 1 + Cardinality(Ahead(i))]
           r == Rank(given, priority)
<1>1. n \in Nat /\ DOMAIN given = D /\ IsFiniteSet(D) /\ Cardinality(D) = n
  <2>1. n \in Nat /\ DOMAIN given = D
    OBVIOUS
  <2> HIDE DEF n
  <2>2. IsFiniteSet(D) /\ Cardinality(D) = IF 1 > n THEN 0 ELSE n - 1 + 1
    BY <2>1, FS_Interval
  <2> QED BY <2>1, <2>2
<1> HIDE DEF n
<1>2. ASSUME NEW i \in D  PROVE IsFiniteSet(Ahead(i)) /\ Cardinality(Ahead(i)) \in 0 .. n - 1
  <2>1. Ahead(i) \in SUBSET (D \ {i})
    BY <1>1, BeforeIsAnOrder
  <2>2. IsFiniteSet(D \ {i}) /\ Cardinality(D \ {i}) = n - 1
    BY <1>1, FS_RemoveElement, ZenonT(60)
  <2> HIDE DEF Ahead, D
  <2>3. IsFiniteSet(Ahead(i)) /\ Cardinality(Ahead(i)) <= n - 1
    BY <2>1, <2>2, FS_Subset
  <2>4. Cardinality(Ahead(i)) \in Nat
    BY <2>3, FS_CardinalityType
  <2> QED BY <1>1, <2>3, <2>4
<1>3. ASSUME NEW i \in D, NEW j \in D, Before(given, priority, i, j)
      PROVE  Cardinality(Ahead(i)) # Cardinality(Ahead(j))
  <2>1. Ahead(i) \in SUBSET Ahead(j)
    BY <1>1, <1>3, BeforeIsAnOrder
  <2>2. i \in Ahead(j) /\ i \notin Ahead(i)
    BY <1>1, <1>3, BeforeIsAnOrder
  <2>3. IsFiniteSet(Ahead(j))
    BY <1>2
  <2> HIDE DEF Ahead
  <2> QED BY <2>1, <2>2, <2>3, FS_Subset
<1>4. place \in Injection(D, D)
  <2>1. place \in [D -> D]
    <3>1. ASSUME NEW i \in D  PROVE 1 + Cardinality(Ahead(i)) \in D
      <4>1. Cardinality(Ahead(i)) \in 0 .. n - 1
        BY <1>2
      <4> HIDE DEF Ahead
      <4> QED BY <1>1, <4>1
    <3> HIDE DEF D, Ahead
    <3> QED BY <3>1
  <2>2. ASSUME NEW i \in D, NEW j \in D, place[i] = place[j]  PROVE i = j
    <3>1. Cardinality(Ahead(i)) \in Int /\ Cardinality(Ahead(j)) \in Int
      <4>1. Cardinality(Ahead(i)) \in 0 .. n - 1 /\ Cardinality(Ahead(j)) \in 0 .. n - 1
        BY <1>2
      <4> HIDE DEF Ahead
      <4> QED BY <4>1
    <3> HIDE DEF Ahead, D
    <3>2. Cardinality(Ahead(i)) = Cardinality(Ahead(j))
      BY <2>2, <3>1
    <3>3. ~Before(given, priority, i, j) /\ ~Before(given, priority, j, i)
      BY <1>3, <3>2
    <3> QED BY <1>1, <3>3, BeforeIsAnOrder
  <2> HIDE DEF place, D
  <2> QED BY <2>1, <2>2 DEF Injection, IsInjective
<1>5. place \in Surjection(D, D)
  <2> HIDE DEF place, D
  <2> QED BY <1>1, <1>4, FS_Injection
<1>6. \A p \in D : \E i \in D : place[i] = p
  <2> HIDE DEF place, D
  <2> QED BY <1>5 DEF Surjection
<1>7. ASSUME NEW i \in D  PROVE Place(given, priority, i) = place[i]
  BY <1>1 DEF Place
<1> HIDE DEF place
<1> DEFINE At(p) == CHOOSE i \in D : Place(given, priority, i) = p
<1>8. ASSUME NEW p \in D  PROVE At(p) \in D /\ place[At(p)] = p
  <2>1. \E i \in D : Place(given, priority, i) = p
    BY <1>6, <1>7
  <2>2. At(p) \in D /\ Place(given, priority, At(p)) = p
    BY <2>1
  <2> QED BY <1>7, <2>2
<1>9. r = [p \in D |-> given[At(p)]]
  BY <1>1 DEF Rank
<1> HIDE DEF At, r
<1>10. ASSUME NEW p \in D  PROVE r[p] = given[At(p)] /\ r[p] \in R /\ At(p) \in D
  BY <1>1, <1>8, <1>9
<1>11. r \in Seq(R) /\ Len(r) = n /\ DOMAIN r = D
  BY <1>1, <1>9, <1>10
<1>12. ASSUME NEW i \in D  PROVE \E p \in D : r[p] = given[i]
  <2>1. place[i] \in D /\ At(place[i]) \in D /\ place[At(place[i])] = place[i]
    BY <1>4, <1>8 DEF Injection
  <2>2. At(place[i]) = i
    BY <1>4, <2>1 DEF Injection, IsInjective
  <2> QED BY <1>10, <2>1, <2>2
<1>13. Range(r) = Range(given)
  <2> HIDE DEF D
  <2>1. ASSUME NEW e  PROVE e \in Range(r) <=> \E p \in D : r[p] = e
    BY <1>11 DEF Range
  <2>2. ASSUME NEW e  PROVE e \in Range(given) <=> \E i \in D : given[i] = e
    BY <1>1 DEF Range
  <2>3. ASSUME NEW e  PROVE e \in Range(r) <=> e \in Range(given)
    BY <1>10, <1>12, <2>1, <2>2
  <2> QED BY <2>3
<1> QED BY <1>11, <1>13 DEF r, n

\* A set of numbers that is not empty has a least one.
LEMMA MinIsIn ==
  ASSUME NEW S \in SUBSET Nat, S # {}
  PROVE  Min(S) \in S /\ \A y \in S : Min(S) <= y
<1>1. PICK m \in S : \A k \in S : <<k, m>> \notin OpToRel(<, Nat)
  BY WFMin, NatLessThanWellFounded
<1>2. ASSUME NEW y \in S  PROVE m <= y
  <2>1. m \in Nat /\ y \in Nat /\ <<y, m>> \notin OpToRel(<, Nat)
    BY <1>1
  <2>2. ASSUME y < m  PROVE <<y, m>> \in OpToRel(<, Nat)
    BY <2>1, <2>2 DEF OpToRel
  <2>3. m \in Nat /\ y \in Nat /\ ~(y < m)
    BY <2>1, <2>2
  <2> QED BY <2>3
<1>3. \E x \in S : \A y \in S : x <= y
  BY <1>2
<1> QED BY <1>3 DEF Min

\* A set of numbers that is bounded and not empty has a greatest one.
LEMMA MaxIsIn ==
  ASSUME NEW n \in Nat, NEW S \in SUBSET (0 .. n), S # {}
  PROVE  Max(S) \in S /\ \A y \in S : Max(S) >= y
<1> DEFINE T == {n - x : x \in S}
<1>1. T \in SUBSET Nat /\ T # {}
  <2>1. \A x \in S : n - x \in Nat
    OBVIOUS
  <2>2. PICK x : x \in S
    OBVIOUS
  <2>3. n - x \in T
    BY <2>2
  <2> QED BY <2>1, <2>3
<1> HIDE DEF T
<1>2. PICK m \in T : \A k \in T : m <= k
  BY <1>1, MinIsIn
<1>3. PICK x \in S : m = n - x
  BY DEF T
<1>4. \A y \in S : n - y \in T
  BY DEF T
<1>5. ASSUME NEW y \in S  PROVE x >= y
  <2>1. n - y \in T /\ n - x <= n - y
    BY <1>2, <1>3, <1>4
  <2> QED BY <2>1
<1>6. \E a \in S : \A y \in S : a >= y
  BY <1>5
<1> QED BY <1>6 DEF Max

\* Where chosen is kept, at its front.
Extends(more, chosen) ==
  /\ Len(chosen) <= Len(more)
  /\ \A i \in DOMAIN chosen : more[i] = chosen[i]

\* What a selection never has: a file or a space twice, more of an area than
\* its limit, a second service area.
WithinLimits(chosen) ==
  /\ \A i, j \in DOMAIN chosen :
       i # j => chosen[i].file # chosen[j].file /\ chosen[i].space # chosen[j].space
  /\ \A i \in DOMAIN chosen : chosen[i].area \in Areas
  /\ \A area \in Areas :
       Cardinality({i \in DOMAIN chosen : chosen[i].area = area}) <= AreaLimit(area)
  /\ \A i, j \in DOMAIN chosen :
       chosen[i].area \in Services /\ chosen[j].area \in Services => i = j

\* A sequence with one element more.
LEMMA Appended ==
  ASSUME NEW R, NEW s \in Seq(R), NEW e \in R
  PROVE  /\ Append(s, e) \in Seq(R)
         /\ Len(Append(s, e)) = Len(s) + 1
         /\ Len(s) \in Nat
         /\ DOMAIN s = 1 .. Len(s)
         /\ DOMAIN Append(s, e) = 1 .. Len(s) + 1
         /\ Append(s, e)[Len(s) + 1] = e
         /\ \A i \in 1 .. Len(s) : Append(s, e)[i] = s[i]
<1>1. Append(s, e) \in Seq(R) /\ Len(Append(s, e)) = Len(s) + 1
  OBVIOUS
<1>2. Len(s) \in Nat /\ DOMAIN s = 1 .. Len(s) /\ DOMAIN Append(s, e) = 1 .. Len(s) + 1
  BY <1>1
<1>3. Append(s, e)[Len(s) + 1] = e
  OBVIOUS
<1>4. \A i \in 1 .. Len(s) : Append(s, e)[i] = s[i]
  OBVIOUS
<1> QED BY <1>1, <1>2, <1>3, <1>4

\* An area's limit is a number, and at least one.
LEMMA LimitIsPositive ==
  ASSUME NEW area  PROVE AreaLimit(area) \in Nat \ {0}
BY DEF AreaLimit

\* A row that may be added leaves the selection within its limits.
LEMMA AddingKeepsLimits ==
  ASSUME NEW R, NEW chosen \in Seq(R), WithinLimits(chosen),
         NEW row \in R, CanAdd(row, chosen)
  PROVE  WithinLimits(Append(chosen, row))
<1> DEFINE u == Append(chosen, row)
           n == Len(chosen)
           Alike(s, area) == {i \in DOMAIN s : s[i].area = area}
<1>1. /\ n \in Nat /\ DOMAIN chosen = 1 .. n /\ DOMAIN u = 1 .. n + 1 /\ u[n + 1] = row
      /\ \A i \in 1 .. n : u[i] = chosen[i]
  BY Appended
<1> HIDE DEF u, n
<1>2. ASSUME NEW i \in DOMAIN u, NEW j \in DOMAIN u, i # j
      PROVE  u[i].file # u[j].file /\ u[i].space # u[j].space
  BY <1>1, <1>2 DEF WithinLimits, CanAdd
<1>3. ASSUME NEW i \in DOMAIN u  PROVE u[i].area \in Areas
  BY <1>1 DEF WithinLimits, CanAdd
<1>4. ASSUME NEW area \in Areas  PROVE Cardinality(Alike(u, area)) <= AreaLimit(area)
  <2>1. IsFiniteSet(1 .. n) /\ Alike(chosen, area) \in SUBSET (1 .. n)
    BY <1>1, FS_Interval
  <2>2. IsFiniteSet(Alike(chosen, area)) /\ Cardinality(Alike(chosen, area)) \in Nat
    BY <2>1, FS_Subset, FS_CardinalityType
  <2>3. Cardinality(Alike(chosen, area)) <= AreaLimit(area)
    BY DEF WithinLimits
  <2>4. CASE row.area # area
    <3>1. Alike(u, area) = Alike(chosen, area)
      BY <1>1, <2>4
    <3> QED BY <2>3, <3>1
  <2>5. CASE row.area = area
    <3>1. Alike(u, area) = Alike(chosen, area) \cup {n + 1}
      BY <1>1, <2>5
    <3>2. n + 1 \notin Alike(chosen, area)
      BY <1>1
    <3>3. Cardinality(Alike(chosen, area)) < AreaLimit(area)
      BY <2>5 DEF CanAdd
    <3> HIDE DEF Alike
    <3>4. Cardinality(Alike(u, area)) = Cardinality(Alike(chosen, area)) + 1
      BY <2>2, <3>1, <3>2, FS_AddElement
    <3> QED BY <2>2, <3>3, <3>4, LimitIsPositive
  <2> QED BY <2>4, <2>5
<1>5. ASSUME NEW i \in DOMAIN u, NEW j \in DOMAIN u,
             u[i].area \in Services, u[j].area \in Services
      PROVE  i = j
  BY <1>1, <1>5 DEF WithinLimits, CanAdd
<1> QED BY <1>2, <1>3, <1>4, <1>5 DEF WithinLimits, u

\* One row alone is within every limit.
LEMMA OneKeepsLimits ==
  ASSUME NEW row, row.area \in Areas
  PROVE  WithinLimits(<<row>>)
<1>1. DOMAIN <<row>> = {1} /\ <<row>>[1] = row
  OBVIOUS
<1>2. ASSUME NEW area \in Areas
      PROVE  Cardinality({i \in {1} : <<row>>[i].area = area}) <= AreaLimit(area)
  <2>1. Cardinality({1}) = 1 /\ Cardinality({}) = 0
    BY FS_Singleton, FS_EmptySet
  <2>2. {i \in {1} : <<row>>[i].area = area} \in {{}, {1}}
    OBVIOUS
  <2> QED BY <2>1, <2>2, LimitIsPositive
<1> QED BY <1>1, <1>2 DEF WithinLimits

\* The beginning of a selection is within the limits too.
LEMMA BeginningKeepsLimits ==
  ASSUME NEW R, NEW chosen \in Seq(R), WithinLimits(chosen), NEW m \in 0 .. Len(chosen)
  PROVE  WithinLimits(SubSeq(chosen, 1, m))
<1> DEFINE u == SubSeq(chosen, 1, m)
           n == Len(chosen)
           Alike(s, area) == {i \in DOMAIN s : s[i].area = area}
<1>1. /\ n \in Nat /\ DOMAIN chosen = 1 .. n /\ DOMAIN u = 1 .. m
      /\ \A i \in 1 .. m : u[i] = chosen[i] /\ i \in 1 .. n
  OBVIOUS
<1> HIDE DEF u, n
<1>2. ASSUME NEW area \in Areas  PROVE Cardinality(Alike(u, area)) <= AreaLimit(area)
  <2>1. IsFiniteSet(1 .. n) /\ Alike(chosen, area) \in SUBSET (1 .. n)
    BY <1>1, FS_Interval
  <2>2. IsFiniteSet(Alike(chosen, area)) /\ Cardinality(Alike(chosen, area)) \in Nat
    BY <2>1, FS_Subset, FS_CardinalityType
  <2>3. Cardinality(Alike(chosen, area)) <= AreaLimit(area)
    BY DEF WithinLimits
  <2>4. Alike(u, area) \in SUBSET Alike(chosen, area)
    BY <1>1
  <2> HIDE DEF Alike
  <2>5. Cardinality(Alike(u, area)) <= Cardinality(Alike(chosen, area))
        /\ Cardinality(Alike(u, area)) \in Nat
    BY <2>2, <2>4, FS_Subset, FS_CardinalityType
  <2> QED BY <2>2, <2>3, <2>5, LimitIsPositive
<1> QED BY <1>1, <1>2 DEF WithinLimits, u

\* The first row that fits is added, if there is any.
LEMMA AddFirstAdds ==
  ASSUME NEW R, NEW ranked \in Seq(R), NEW chosen, NEW areas
  PROVE  \/ AddFirst(ranked, chosen, areas) = chosen
         \/ \E row \in R : CanAdd(row, chosen)
                           /\ AddFirst(ranked, chosen, areas) = Append(chosen, row)
<1> DEFINE I == {i \in 1 .. Len(ranked) : ranked[i].area \in areas /\ CanAdd(ranked[i], chosen)}
<1>1. I \in SUBSET Nat
  OBVIOUS
<1>2. CASE I = {}
  BY <1>2 DEF AddFirst, SelectInSeq
<1>3. CASE I # {}
  <2>1. PICK i \in I : i = Min(I)
    BY <1>1, <1>3, MinIsIn
  <2>2. i \in 1 .. Len(ranked) /\ i # 0 /\ ranked[i] \in R /\ CanAdd(ranked[i], chosen)
    OBVIOUS
  <2>3. AddFirst(ranked, chosen, areas) = Append(chosen, ranked[i])
    BY <1>3, <2>1, <2>2 DEF AddFirst, SelectInSeq
  <2> QED BY <2>2, <2>3
<1> QED BY <1>2, <1>3

\* A selection that grew from another one, of rows of R.
Grown(R, chosen, more) ==
  more \in Seq(R) /\ WithinLimits(more) /\ Extends(more, chosen)

\* What grew from a selection that grew, grew.
LEMMA GrowingGoesOn ==
  ASSUME NEW R, NEW a \in Seq(R), NEW b, NEW c, Grown(R, a, b), Grown(R, b, c)
  PROVE  Grown(R, a, c)
<1>1. /\ DOMAIN a = 1 .. Len(a) /\ DOMAIN b = 1 .. Len(b)
      /\ Len(a) \in Nat /\ Len(b) \in Nat /\ Len(c) \in Nat
  BY DEF Grown
<1> QED BY <1>1 DEF Grown, Extends

\* A selection grows by nothing or by a row that may be added.
LEMMA AddingGrows ==
  ASSUME NEW R, NEW chosen \in Seq(R), WithinLimits(chosen)
  PROVE  /\ Grown(R, chosen, chosen)
         /\ \A row \in R : CanAdd(row, chosen) => Grown(R, chosen, Append(chosen, row))
<1>1. Grown(R, chosen, chosen)
  BY DEF Grown, Extends
<1>2. ASSUME NEW row \in R, CanAdd(row, chosen)  PROVE Grown(R, chosen, Append(chosen, row))
  <2>1. WithinLimits(Append(chosen, row))
    BY <1>2, AddingKeepsLimits
  <2> DEFINE u == Append(chosen, row)
  <2>2. u \in Seq(R) /\ Len(u) = Len(chosen) + 1 /\ Len(chosen) \in Nat
        /\ DOMAIN chosen = 1 .. Len(chosen) /\ \A i \in 1 .. Len(chosen) : u[i] = chosen[i]
    BY Appended
  <2> HIDE DEF u
  <2>3. WithinLimits(u)
    BY <2>1 DEF u
  <2>4. Grown(R, chosen, u)
    BY <2>2, <2>3 DEF Grown, Extends
  <2> QED BY <2>4 DEF u
<1> QED BY <1>1, <1>2

\* So it does by the first row that fits, of an area or else of any.
LEMMA FirstOfAreasGrows ==
  ASSUME NEW R, NEW ranked \in Seq(R), NEW otherwise \in Seq(R), NEW areas,
         NEW chosen \in Seq(R), WithinLimits(chosen), NEW max
  PROVE  /\ Grown(R, chosen, AddFirst(ranked, chosen, areas))
         /\ Grown(R, chosen, AddFirstOr(ranked, areas, otherwise, chosen))
         /\ Grown(R, chosen, Room(ranked, max, chosen, areas))
<1>1. Grown(R, chosen, chosen)
  BY AddingGrows
<1>2. ASSUME NEW s \in Seq(R), NEW set  PROVE Grown(R, chosen, AddFirst(s, chosen, set))
  <2>1. CASE AddFirst(s, chosen, set) = chosen
    BY <1>1, <2>1
  <2>2. CASE AddFirst(s, chosen, set) # chosen
    <3>1. PICK row \in R : CanAdd(row, chosen)
                            /\ AddFirst(s, chosen, set) = Append(chosen, row)
      BY <2>2, AddFirstAdds
    <3> QED BY <3>1, AddingGrows
  <2> QED BY <2>1, <2>2
<1>3. Grown(R, chosen, AddFirstOr(ranked, areas, otherwise, chosen))
  BY <1>2 DEF AddFirstOr
<1>4. Grown(R, chosen, Room(ranked, max, chosen, areas))
  BY <1>1, <1>2 DEF Room
<1> QED BY <1>2, <1>3, <1>4

\* And by every row that may still be added.
LEMMA FillingGrows ==
  ASSUME NEW R, NEW general \in Seq(R), NEW max,
         NEW chosen \in Seq(R), WithinLimits(chosen)
  PROVE  Grown(R, chosen, Filled(general, max, chosen))
<1> DEFINE n == Len(general)
           A == Seq(R)
           Next1(k, s) == IF Len(s) < max /\ CanAdd(general[k], s)
                            THEN Append(s, general[k]) ELSE s
           step == [x \in (1 .. n) \X A |-> Next1(x[1], x[2])]
           after == CHOOSE f : f = [k \in 0 .. n |->
                      IF k = 0 THEN chosen ELSE Next1(k, f[k - 1])]
<1>1. n \in Nat /\ \A k \in 1 .. n : general[k] \in R
  OBVIOUS
<1>2. Filled(general, max, chosen) = after[n]
  BY DEF Filled
<1> HIDE DEF n
<1>3. ASSUME NEW k \in 1 .. n, NEW s \in A
      PROVE  Next1(k, s) \in A /\ step[<<k, s>>] = Next1(k, s)
  BY <1>1
<1>4. step \in [(1 .. n) \X A -> A] /\ chosen \in A
  <2> HIDE DEF Next1, A
  <2>1. \A x \in (1 .. n) \X A : Next1(x[1], x[2]) \in A
    BY <1>3
  <2> QED BY <2>1 DEF A
<1> HIDE DEF step
<1>5. PICK f : Computes(f, n, A, chosen, step)
  BY <1>1, <1>4, Recursion
<1> HIDE DEF Next1, A
<1>6. ASSUME NEW k \in 0 .. n
      PROVE  f[k] = IF k = 0 THEN chosen ELSE Next1(k, f[k - 1])
  <2>1. f[k] = IF k = 0 THEN chosen ELSE step[<<k, f[k - 1]>>]
    BY <1>5, Zenon DEF Computes
  <2>2. k # 0 => k \in 1 .. n /\ k - 1 \in 0 .. n
    BY <1>1
  <2>3. f \in [0 .. n -> A]
    BY <1>5, Zenon DEF Computes
  <2> QED BY <1>3, <2>1, <2>2, <2>3
<1>7. f = [k \in 0 .. n |-> IF k = 0 THEN chosen ELSE Next1(k, f[k - 1])]
  <2>1. f = [k \in 0 .. n |-> f[k]]
    BY <1>5 DEF Computes
  <2> QED BY <1>6, <2>1
<1>8. after = [k \in 0 .. n |-> IF k = 0 THEN chosen ELSE Next1(k, after[k - 1])]
  BY <1>7, Zenon
<1> HIDE DEF after
<1>9. ASSUME NEW k \in 0 .. n
      PROVE  after[k] = IF k = 0 THEN chosen ELSE Next1(k, after[k - 1])
  BY <1>8
<1> DEFINE T == {k \in 0 .. n : Grown(R, chosen, after[k])}
<1>10. 0 \in T /\ \A k \in 0 .. n : k # n /\ k \in T => k + 1 \in T
  <2>1. 0 \in T
    BY <1>1, <1>9, AddingGrows
  <2>2. ASSUME NEW k \in 0 .. n, k # n, Grown(R, chosen, after[k])
        PROVE  k + 1 \in 0 .. n /\ Grown(R, chosen, after[k + 1])
    <3>1. k + 1 \in 0 .. n /\ (k + 1) - 1 = k /\ k + 1 # 0 /\ k + 1 \in 1 .. n
      BY <1>1, <2>2
    <3>2. after[k + 1] = Next1(k + 1, after[k])
      BY <1>9, <3>1
    <3>3. after[k] \in Seq(R) /\ WithinLimits(after[k])
      BY <2>2 DEF Grown
    <3>4. Grown(R, after[k], Next1(k + 1, after[k]))
      BY <1>1, <3>1, <3>3, AddingGrows DEF Next1
    <3> QED BY <2>2, <3>1, <3>2, <3>4, GrowingGoesOn
  <2> QED BY <2>1, <2>2
<1> HIDE DEF T
<1>11. \A k \in 0 .. n : k \in T
  BY <1>1, <1>10, UpTo
<1>12. n \in T
  BY <1>1, <1>11
<1> QED BY <1>2, <1>12 DEF T

\* The candidates of some rows, ranked.
Candidates(given) == Only(given, {row \in Range(given) : Candidate(row)})

\* Rows whose candidates have numbers to be compared by.
Answered(given) ==
  \A i \in DOMAIN given :
    Candidate(given[i]) => given[i].score \in Int /\ given[i].confidence \in Int

\* Ranking keeps the candidates of the rows and nothing else.
LEMMA RankedCandidates ==
  ASSUME NEW R, NEW given \in Seq(R), Answered(given), NEW priority \in [Areas -> Int]
  PROVE  /\ Rank(Candidates(given), priority) \in Seq({row \in R : Candidate(row)})
         /\ Range(Rank(Candidates(given), priority)) = {row \in Range(given) : Candidate(row)}
<1> DEFINE C == {row \in R : Candidate(row)}
           S == {row \in Range(given) : Candidate(row)}
           s == Candidates(given)
<1>1. s \in Seq(R) /\ Range(s) = Range(given) \cap S
  BY OnlyKeeps DEF Candidates
<1>2. Range(s) = S
  BY <1>1
<1>3. Range(given) \in SUBSET R
  BY DEF Range
<1>4. s \in Seq(C)
  <2>1. \A i \in 1 .. Len(s) : s[i] \in C
    BY <1>1, <1>2, <1>3 DEF Range
  <2> QED BY <1>1, <2>1
<1>5. Rankable(s)
  <2>1. ASSUME NEW i \in DOMAIN s  PROVE \E k \in DOMAIN given : given[k] = s[i] /\ Candidate(s[i])
    BY <1>2 DEF Range
  <2>2. ASSUME NEW i \in DOMAIN s
        PROVE  s[i].area \in Areas /\ s[i].score \in Int /\ s[i].confidence \in Int
    <3>1. PICK k \in DOMAIN given : given[k] = s[i] /\ Candidate(s[i])
      BY <2>1
    <3> QED BY <3>1 DEF Answered, Candidate
  <2> QED BY <2>2 DEF Rankable
<1> HIDE DEF s, C, S
<1>6. Rank(s, priority) \in Seq(C) /\ Range(Rank(s, priority)) = Range(s)
  BY <1>4, <1>5, RankIsAPermutation
<1> QED BY <1>2, <1>6 DEF s, C, S

\* The priorities are numbers.
LEMMA Priorities ==
  /\ NoPriority \in [Areas -> Int]
  /\ HeroPriority \in [Areas -> Int]
  /\ ExteriorPriority \in [Areas -> Int]
BY DEF NoPriority, HeroPriority, ExteriorPriority

\* The selection opens with the reserved photo if it is a candidate.
LEMMA OpeningIsReserved ==
  ASSUME NEW R, NEW given \in Seq(R), Answered(given), NEW reserved
  PROVE  LET opened == Opening(Candidates(given), reserved)
         IN  /\ opened \in Seq({row \in R : Candidate(row)})
             /\ WithinLimits(opened)
             /\ \A row \in Range(given) : Candidate(row) /\ row.file = reserved
                  => Len(opened) = 1 /\ opened[1].file = reserved
<1> DEFINE C == {row \in R : Candidate(row)}
           candidates == Candidates(given)
           general == Rank(candidates, NoPriority)
           hero == Rank(candidates, HeroPriority)
           I == {i \in 1 .. Len(general) : general[i].file = reserved}
<1>1. /\ general \in Seq(C) /\ hero \in Seq(C)
      /\ Range(general) = {row \in Range(given) : Candidate(row)}
  BY RankedCandidates, Priorities
<1>2. <<>> \in Seq(C) /\ WithinLimits(<<>>)
  <2>1. DOMAIN <<>> = {}
    OBVIOUS
  <2>2. ASSUME NEW area  PROVE Cardinality({i \in DOMAIN <<>> : <<>>[i].area = area}) <= AreaLimit(area)
    <3>1. {i \in DOMAIN <<>> : <<>>[i].area = area} = {}
      BY <2>1
    <3>2. Cardinality({}) = 0
      BY FS_EmptySet
    <3> QED BY <3>1, <3>2, LimitIsPositive
  <2> QED BY <2>1, <2>2 DEF WithinLimits
<1> HIDE DEF general, hero, candidates
<1>3. CASE I = {}
  <2>1. Opening(candidates, reserved) = AddFirstOr(hero, HeroAreas, general, <<>>)
    BY <1>3 DEF Opening, SelectInSeq, general, hero
  <2>2. Grown(C, <<>>, AddFirstOr(hero, HeroAreas, general, <<>>))
    BY <1>1, <1>2, FirstOfAreasGrows
  <2>3. ~ \E row \in Range(given) : Candidate(row) /\ row.file = reserved
    <3>1. ASSUME NEW row \in Range(general)  PROVE row.file # reserved
      BY <1>1, <1>3 DEF Range
    <3> QED BY <1>1, <3>1
  <2> QED BY <2>1, <2>2, <2>3 DEF Grown, candidates
<1>4. CASE I # {}
  <2>1. I \in SUBSET Nat
    OBVIOUS
  <2>2. PICK i \in I : i = Min(I)
    BY <1>4, <2>1, MinIsIn
  <2>3. i \in 1 .. Len(general) /\ i # 0 /\ general[i] \in C /\ general[i].file = reserved
    BY <1>1
  <2>4. Opening(candidates, reserved) = <<general[i]>>
    BY <1>4, <2>2, <2>3 DEF Opening, SelectInSeq, general
  <2>5. WithinLimits(<<general[i]>>)
    BY <2>3, OneKeepsLimits DEF Candidate
  <2>6. <<general[i]>> \in Seq(C) /\ Len(<<general[i]>>) = 1 /\ <<general[i]>>[1] = general[i]
    BY <2>3
  <2> QED BY <2>3, <2>4, <2>5, <2>6 DEF candidates
<1> QED BY <1>3, <1>4

\* Whatever the classifier answers, the photos that are selected are candidates,
\* no more than asked for, no file and no space twice, no area above its limit
\* and one service area at most; the reserved photo opens them if it is one.
THEOREM SelectionKeepsLimits ==
  ASSUME NEW R, NEW given \in Seq(R), Answered(given), NEW max \in Nat \ {0}, NEW reserved
  PROVE  LET selected == ChooseSelected(given, max, reserved)
         IN  /\ selected \in Seq(R)
             /\ Range(selected) \subseteq {row \in Range(given) : Candidate(row)}
             /\ Len(selected) <= max
             /\ WithinLimits(selected)
             /\ (\E row \in Range(given) : Candidate(row) /\ row.file = reserved)
                  => Len(selected) > 0 /\ selected[1].file = reserved
<1> DEFINE C == {row \in Range(given) : Candidate(row)}
           general == Rank(Candidates(given), NoPriority)
           byArea == Rank(Candidates(given), ExteriorPriority)
           opened == Opening(Candidates(given), reserved)
           exterior == IF Len(opened) >= max THEN opened
                       ELSE AddFirstOr(byArea, Exteriors, general, opened)
           living == Room(general, max, exterior, {"living_room"})
           kitchen == Room(general, max, living, {"kitchen", "dining_room"})
           bedroom == Room(general, max, kitchen, {"bedroom"})
           bathroom == Room(general, max, bedroom, {"bathroom"})
           filled == Filled(general, max, bathroom)
           m == IF max < Len(filled) THEN max ELSE Len(filled)
           selected == SubSeq(filled, 1, m)
<1>1. ChooseSelected(given, max, reserved) = selected
  BY DEF ChooseSelected, Candidates
<1>2. given \in Seq(Range(given)) /\ Range(given) \in SUBSET R
  BY DEF Range
<1>3. general \in Seq(C) /\ byArea \in Seq(C)
  BY <1>2, RankedCandidates, Priorities
<1>4. /\ opened \in Seq(C) /\ WithinLimits(opened)
      /\ (\E row \in Range(given) : Candidate(row) /\ row.file = reserved)
           => Len(opened) = 1 /\ opened[1].file = reserved
  <2>1. PICK Q : Q = Range(given)
    OBVIOUS
  <2>2. given \in Seq(Q)
    BY <1>2, <2>1
  <2> HIDE DEF opened
  <2>3. /\ opened \in Seq({row \in Q : Candidate(row)}) /\ WithinLimits(opened)
        /\ \A row \in Range(given) : Candidate(row) /\ row.file = reserved
             => Len(opened) = 1 /\ opened[1].file = reserved
    BY <2>2, OpeningIsReserved DEF opened
  <2> QED BY <2>1, <2>3
<1> HIDE DEF general, byArea, opened, C
<1>5. Grown(C, opened, exterior)
  <2>1. Grown(C, opened, opened)
    BY <1>4, AddingGrows
  <2>2. Grown(C, opened, AddFirstOr(byArea, Exteriors, general, opened))
    BY <1>3, <1>4, FirstOfAreasGrows
  <2> QED BY <2>1, <2>2
<1> HIDE DEF exterior
<1>6. Grown(C, opened, living)
  <2>1. exterior \in Seq(C) /\ WithinLimits(exterior)
    BY <1>5 DEF Grown
  <2>2. Grown(C, exterior, living)
    BY <1>3, <2>1, FirstOfAreasGrows
  <2> HIDE DEF living
  <2> QED BY <1>4, <1>5, <2>2, GrowingGoesOn
<1> HIDE DEF living
<1>7. Grown(C, opened, kitchen)
  <2>1. living \in Seq(C) /\ WithinLimits(living)
    BY <1>6 DEF Grown
  <2>2. Grown(C, living, kitchen)
    BY <1>3, <2>1, FirstOfAreasGrows
  <2> HIDE DEF kitchen
  <2> QED BY <1>4, <1>6, <2>2, GrowingGoesOn
<1> HIDE DEF kitchen
<1>8. Grown(C, opened, bedroom)
  <2>1. kitchen \in Seq(C) /\ WithinLimits(kitchen)
    BY <1>7 DEF Grown
  <2>2. Grown(C, kitchen, bedroom)
    BY <1>3, <2>1, FirstOfAreasGrows
  <2> HIDE DEF bedroom
  <2> QED BY <1>4, <1>7, <2>2, GrowingGoesOn
<1> HIDE DEF bedroom
<1>9. Grown(C, opened, bathroom)
  <2>1. bedroom \in Seq(C) /\ WithinLimits(bedroom)
    BY <1>8 DEF Grown
  <2>2. Grown(C, bedroom, bathroom)
    BY <1>3, <2>1, FirstOfAreasGrows
  <2> HIDE DEF bathroom
  <2> QED BY <1>4, <1>8, <2>2, GrowingGoesOn
<1> HIDE DEF bathroom
<1>10. Grown(C, opened, filled)
  <2>1. bathroom \in Seq(C) /\ WithinLimits(bathroom)
    BY <1>9 DEF Grown
  <2>2. Grown(C, bathroom, filled)
    BY <1>3, <2>1, FillingGrows
  <2> HIDE DEF filled
  <2> QED BY <1>4, <1>9, <2>2, GrowingGoesOn
<1> HIDE DEF filled
<1>11. filled \in Seq(C) /\ WithinLimits(filled) /\ Extends(filled, opened)
  BY <1>10 DEF Grown
<1>12. m \in 0 .. Len(filled) /\ m <= max
  BY <1>11
<1>13. WithinLimits(selected)
  BY <1>11, <1>12, BeginningKeepsLimits
<1>14. selected \in Seq(C) /\ Len(selected) = m /\ \A i \in 1 .. m : selected[i] = filled[i]
  BY <1>11, <1>12
<1>15. ASSUME Len(opened) = 1, opened[1].file = reserved
       PROVE  Len(selected) > 0 /\ selected[1].file = reserved
  <2>1. DOMAIN opened = {1} /\ Len(filled) >= 1 /\ filled[1] = opened[1]
    BY <1>4, <1>11, <1>15 DEF Extends
  <2>2. m >= 1 /\ 1 \in 1 .. m
    BY <1>11, <2>1
  <2> QED BY <1>14, <1>15, <2>1, <2>2
<1> HIDE DEF m, selected
<1>16. Range(selected) \subseteq C /\ selected \in Seq(R)
  <2>1. Range(selected) \subseteq C
    BY <1>14 DEF Range
  <2>2. C \subseteq R
    BY <1>2 DEF C
  <2> QED BY <1>14, <2>1, <2>2
<1> QED BY <1>1, <1>4, <1>12, <1>13, <1>14, <1>15, <1>16 DEF C

-----------------------------------------------------------------------------
(* ReelPhotos: the inductive invariant. *)

Stops == {"idle", "clear", "download", "feature", "classify", "move", "primary",
          "persist", "render"}
Choice == [position : Nat, selected : BOOLEAN]
Makings == [step : Stops, listing : Listings \cup {Nothing},
         order : Seq(Choice) \cup {Nothing}, slides : Seq(Nat) \cup {Nothing},
         got : SUBSET Nat, reserved : Photos \cup {Nothing},
         todo : Seq(Photos), chosen : PhotoSeqs, prepared : Prepared,
         from : {"selected", "property"}, reused : BOOLEAN]

\* The job in progress, and what it read of the overrides.
JobTyped ==
  /\ job \in Makings
  /\ job.step # "idle" => job.listing \in Listings
  /\ job.step # "idle" => job.got \subseteq DOMAIN job.listing.photos
  /\ order \in Seq(Choice) \cup {Nothing}
  /\ slides \in Seq(Nat) \cup {Nothing}

\* The photos the job downloaded, but for the one it set aside.
Own == {job.listing.photos[i] : i \in job.got} \ {job.reserved}

\* The featured image is set aside, or not among the downloads.
FeaturedIsAside ==
  \/ job.reserved = job.listing.featured
  \/ job.reserved = Nothing
     /\ \A i \in job.got : job.listing.photos[i] # job.listing.featured

\* Until the classifier has answered there is nothing but downloads.
NothingChosen == job.chosen = <<>> /\ job.todo = <<>>
NothingDone == NothingChosen /\ job.got = {} /\ job.reserved = Nothing

\* The folder after the job's selection, or after its one image.
FolderIsChosen ==
  /\ job.listing.kind = "curated" =>
       /\ dir = [slots |-> job.chosen, primary |-> job.reserved]
       /\ audit.reserved = job.reserved
       /\ Range(job.chosen) \subseteq Own
       /\ FeaturedIsAside
  /\ job.listing.kind = "status" =>
       /\ job.got = {} /\ dir.slots = <<>>
       /\ dir.primary \in InListing(job.listing) \ {Nothing}
       /\ job.listing.featured # Nothing => dir.primary = job.listing.featured

Stages ==
  /\ job.step \in {"clear", "download", "primary"} => NothingDone
  /\ job.step = "feature" => NothingChosen /\ job.reserved = Nothing
  /\ job.step = "classify" => NothingChosen /\ FeaturedIsAside
  /\ job.step \in {"clear", "download", "feature", "classify", "move", "primary"} =>
       job.from = "selected" /\ ~job.reused
  /\ job.step \in {"download", "feature", "classify", "move"} =>
       job.listing.kind = "curated"
  /\ job.step = "primary" => job.listing.kind = "status"
  /\ job.step \in {"download", "feature", "classify", "primary"} => dir = NoDir
  /\ job.step \in {"download", "feature", "classify", "move", "primary", "persist"} =>
       cleared
  /\ job.step = "move" =>
       /\ dir.slots \o job.todo = job.chosen /\ dir.primary = Nothing
       /\ audit.reserved = job.reserved
       /\ Range(job.chosen) \subseteq Own
       /\ FeaturedIsAside
  /\ job.step \in {"persist", "render"} /\ job.from = "selected" /\ ~job.reused => FolderIsChosen
  /\ job.step = "persist" /\ job.from = "property" => job.got = {}
  /\ job.step = "persist" => ~job.reused
  /\ job.step = "render" /\ job.from = "selected" => job.prepared = InSelected
  /\ job.step = "render" /\ job.from = "property" =>
       ~job.reused /\ \A i \in DOMAIN job.prepared : ~job.prepared[i].primary
  /\ job.step # "idle" /\ job.reused => job.listing.kind = "status"

CatalogHolds ==
  ~cleared => \A i \in DOMAIN catalog :
                catalog[i].path # Nothing => Served(i) = catalog[i].photo

PhotosInv ==
  /\ PhotosTypeOK
  /\ JobTyped
  /\ Stages
  /\ CatalogHolds
  /\ ShowsItsListing
  /\ FeaturedAndSelected

-----------------------------------------------------------------------------
(* ReelPhotos: what its operators give. *)

\* Photos are finitely many.
LEMMA HowMany == Cardinality(Photos) \in Nat
BY ListingsAssumption, FS_CardinalityType

\* The sets of sequences the type invariant speaks of.
LEMMA BoundedSequences ==
  ASSUME NEW s
  PROVE  /\ s \in PhotoSeqs <=> s \in Seq(Photos) /\ Len(s) <= Cardinality(Photos)
         /\ s \in Prepared <=> s \in Seq(File) /\ Len(s) <= Cardinality(Photos) + 1
<1> DEFINE c == Cardinality(Photos)
<1>1. c \in Nat
  BY HowMany
<1> HIDE DEF c
<1>2. ASSUME NEW S, NEW m \in Nat
      PROVE  s \in UNION {[1 .. n -> S] : n \in 0 .. m} <=> s \in Seq(S) /\ Len(s) <= m
  <2>1. ASSUME NEW n \in 0 .. m, s \in [1 .. n -> S]  PROVE s \in Seq(S) /\ Len(s) <= m
    BY <2>1
  <2>2. ASSUME s \in Seq(S), Len(s) <= m
        PROVE  Len(s) \in 0 .. m /\ s \in [1 .. Len(s) -> S]
    BY <2>2
  <2> QED BY <2>1, <2>2
<1>3. s \in PhotoSeqs <=> s \in Seq(Photos) /\ Len(s) <= c
  BY <1>1, <1>2 DEF PhotoSeqs, c
<1>4. s \in Prepared <=> s \in Seq(File) /\ Len(s) <= c + 1
  <2>1. c + 1 \in Nat
    BY <1>1
  <2> QED BY <1>2, <2>1 DEF Prepared, c
<1> QED BY <1>3, <1>4 DEF c

\* Photos that are listed once each are no more than there are.
LEMMA ListedOnce ==
  ASSUME NEW s \in Seq(Photos), IsInjective(s)
  PROVE  s \in PhotoSeqs
<1>1. s \in Injection(1 .. Len(s), Photos) /\ Len(s) \in Nat
  <2>1. s \in [1 .. Len(s) -> Photos] /\ Len(s) \in Nat
    OBVIOUS
  <2> QED BY <2>1 DEF Injection
<1>2. Cardinality(1 .. Len(s)) <= Cardinality(Photos)
  BY <1>1, ListingsAssumption, FS_Injection
<1>3. Cardinality(1 .. Len(s)) = Len(s)
  <2> DEFINE n == Len(s)
  <2> HIDE DEF n
  <2>1. n \in Nat
    BY <1>1 DEF n
  <2>2. Cardinality(1 .. n) = IF 1 > n THEN 0 ELSE n - 1 + 1
    BY <2>1, FS_Interval
  <2>3. Cardinality(1 .. n) = n
    BY <2>1, <2>2
  <2> QED BY <2>3 DEF n
<1> QED BY <1>2, <1>3, BoundedSequences

\* What the classifier is asked about: the reserved photo and the downloads.
LEMMA RecordsArePhotos ==
  ASSUME JobTyped, job.step # "idle"
  PROVE  /\ Records \in Seq(Photos)
         /\ Range(Records) \subseteq Own \cup {job.reserved}
<1> DEFINE photos == job.listing.photos
           I == {i \in job.got : photos[i] # job.reserved}
           indexes == [i \in DOMAIN photos |-> i]
           others == Only(indexes, I)
           first == IF job.reserved = Nothing THEN <<>> ELSE <<job.reserved>>
           rest == [n \in DOMAIN others |-> photos[others[n]]]
<1>1. /\ photos \in Seq(Photos) /\ job.got \subseteq DOMAIN photos
      /\ job.reserved \in Photos \cup {Nothing}
  BY ListingsAssumption DEF JobTyped, Makings
<1>2. indexes \in Seq(1 .. Len(photos)) /\ Range(indexes) = DOMAIN photos
  BY <1>1 DEF Range
<1>3. others \in Seq(1 .. Len(photos)) /\ Range(others) = Range(indexes) \cap I
  BY <1>2, OnlyKeeps
<1>4. Records = first \o rest
  BY DEF Records
<1> HIDE DEF photos, indexes, others
<1>5. ASSUME NEW n \in DOMAIN others
      PROVE  photos[others[n]] \in Photos /\ photos[others[n]] \in Own
  <2>1. others[n] \in I
    BY <1>3 DEF Range
  <2>2. others[n] \in job.got /\ photos[others[n]] # job.reserved /\ others[n] \in DOMAIN photos
    BY <1>1, <2>1
  <2> QED BY <1>1, <2>2 DEF Own, photos
<1>6. DOMAIN others = 1 .. Len(others) /\ Len(others) \in Nat
  BY <1>3
<1>7. rest \in Seq(Photos) /\ \A n \in 1 .. Len(rest) : rest[n] \in Own
  BY <1>5, <1>6
<1>8. first \in Seq(Photos) /\ \A n \in 1 .. Len(first) : first[n] = job.reserved
  BY <1>1
<1> HIDE DEF first, rest
<1>9. \A i \in DOMAIN (first \o rest) : (first \o rest)[i] \in Own \cup {job.reserved}
  BY <1>7, <1>8
<1> QED BY <1>4, <1>7, <1>8, <1>9 DEF Range

\* The photos of a selection: each once, and each of one of the rows.
LEMMA SelectedArePhotos ==
  ASSUME NEW R, NEW given \in Seq(R), Answered(given), \A row \in R : row.file \in Photos
  PROVE  /\ Selected(given) \in PhotoSeqs
         /\ \A i \in DOMAIN Selected(given) :
              \E k \in DOMAIN given : Selected(given)[i] = given[k].file
<1> DEFINE chosen == ChooseSelected(given, PhotosToSelect, job.reserved)
           s == [i \in DOMAIN chosen |-> chosen[i].file]
<1>1. /\ chosen \in Seq(R) /\ WithinLimits(chosen)
      /\ Range(chosen) \subseteq Range(given)
  BY SelectionKeepsLimits, BoundsAssumption
<1>2. Selected(given) = s
  BY DEF Selected
<1> HIDE DEF chosen
<1>3. DOMAIN chosen = 1 .. Len(chosen) /\ Len(chosen) \in Nat
  BY <1>1
<1>4. s \in Seq(Photos) /\ DOMAIN s = DOMAIN chosen
  BY <1>1, <1>3
<1>5. IsInjective(s)
  BY <1>1 DEF IsInjective, WithinLimits
<1>6. ASSUME NEW i \in DOMAIN s  PROVE \E k \in DOMAIN given : s[i] = given[k].file
  <2>1. PICK k \in DOMAIN given : chosen[i] = given[k]
    BY <1>1 DEF Range
  <2> QED BY <2>1
<1> HIDE DEF s
<1> QED BY <1>2, <1>4, <1>5, <1>6, ListedOnce

\* Rows of photos, with an answer or without.
RowsOf(answer) == {ResultRow(p, answer[p]) : p \in Photos}
                  \cup {ErrorRow(p, "error") : p \in Photos}

\* An area the classifier may not name.
LEMMA ErrorIsNoArea == "error" \notin Areas
BY DEF Areas, Exteriors, Services

\* Every row is of a photo, and can be ranked if it is a candidate.
LEMMA RowsAreOfPhotos ==
  ASSUME NEW answer \in Answers, NEW row \in RowsOf(answer)
  PROVE  /\ row.file \in Photos
         /\ Candidate(row) => row.score \in Int /\ row.confidence \in Int
<1>1. CASE \E p \in Photos : row = ResultRow(p, answer[p])
  <2>1. PICK p \in Photos : row = ResultRow(p, answer[p])
    BY <1>1
  <2>2. answer[p].score \in Int /\ answer[p].confidence \in Int
    BY AnswersAssumption
  <2> QED BY <2>1, <2>2 DEF ResultRow
<1>2. CASE \E p \in Photos : row = ErrorRow(p, "error")
  BY <1>2, ErrorIsNoArea DEF ErrorRow, Candidate
<1> QED BY <1>1, <1>2 DEF RowsOf

\* The rows of the first n answers are those of the first n photos.
LEMMA RowsAre ==
  ASSUME JobTyped, job.step # "idle", NEW answer \in Answers, NEW n \in 0 .. Len(Records)
  PROVE  /\ Rows(answer, n) \in Seq(RowsOf(answer))
         /\ Len(Rows(answer, n)) = n
         /\ \A i \in 1 .. n : Rows(answer, n)[i].file = Records[i]
<1>1. Records \in Seq(Photos)
  BY RecordsArePhotos
<1>2. n \in Nat /\ \A i \in 1 .. n : Records[i] \in Photos
  BY <1>1
<1>3. \A i \in 1 .. n : ResultRow(Records[i], answer[Records[i]]) \in RowsOf(answer)
  BY <1>2 DEF RowsOf
<1>4. \A i \in 1 .. n : ResultRow(Records[i], answer[Records[i]]).file = Records[i]
  BY DEF ResultRow
<1> DEFINE row(i) == ResultRow(Records[i], answer[Records[i]])
<1>5. Rows(answer, n) = [i \in 1 .. n |-> row(i)]
  BY DEF Rows
<1>6. \A i \in 1 .. n : row(i) \in RowsOf(answer) /\ row(i).file = Records[i]
  BY <1>3, <1>4
<1> HIDE DEF row
<1> QED BY <1>2, <1>5, <1>6

\* What is selected of some rows of the photos on record.
LEMMA SelectedAreRecords ==
  ASSUME JobTyped, job.step # "idle", NEW answer \in Answers,
         NEW given \in Seq(RowsOf(answer)), Len(given) <= Len(Records),
         \A i \in DOMAIN given : given[i].file = Records[i]
  PROVE  /\ Selected(given) \in PhotoSeqs
         /\ Range(Selected(given)) \subseteq Own \cup {job.reserved}
<1>1. Answered(given)
  BY RowsAreOfPhotos DEF Answered
<1>2. \A row \in RowsOf(answer) : row.file \in Photos
  BY RowsAreOfPhotos
<1>3. /\ Selected(given) \in PhotoSeqs
      /\ \A i \in DOMAIN Selected(given) :
           \E k \in DOMAIN given : Selected(given)[i] = given[k].file
  BY <1>1, <1>2, SelectedArePhotos
<1>4. Records \in Seq(Photos) /\ Range(Records) \subseteq Own \cup {job.reserved}
  BY RecordsArePhotos
<1>5. ASSUME NEW k \in DOMAIN given  PROVE given[k].file \in Range(Records)
  <2>1. k \in DOMAIN Records
    BY <1>4
  <2> QED BY <2>1 DEF Range
<1> QED BY <1>3, <1>4, <1>5 DEF Range

\* The files of the folder of selected photos, and of the property's folder.
LEMMA FoldersAre ==
  ASSUME PhotosTypeOK
  PROVE  /\ InSelected \in Prepared
         /\ \A i \in DOMAIN InSelected :
              \/ ~InSelected[i].primary /\ InSelected[i].photo \in Range(dir.slots)
              \/ InSelected[i].primary /\ InSelected[i].photo = dir.primary
         /\ InSelected = <<>> => dir.slots = <<>> /\ dir.primary = Nothing
         /\ InProperty \in Prepared
         /\ \A i \in DOMAIN InProperty : ~InProperty[i].primary
<1> DEFINE c == Cardinality(Photos)
           slots == dir.slots
           a == [i \in DOMAIN slots |-> [photo |-> slots[i], primary |-> FALSE]]
           b == IF dir.primary = Nothing THEN <<>>
                ELSE <<[photo |-> dir.primary, primary |-> TRUE]>>
<1>1. c \in Nat /\ slots \in Seq(Photos) /\ Len(slots) <= c
  BY HowMany, BoundedSequences DEF PhotosTypeOK
<1>2. dir.primary \in Photos \cup {Nothing} /\ tmp \in Photos \cup {Nothing}
  BY DEF PhotosTypeOK
<1>3. InSelected = a \o b
  BY DEF InSelected
<1> HIDE DEF slots
<1>4. DOMAIN slots = 1 .. Len(slots) /\ Len(slots) \in Nat
  BY <1>1
<1>5. /\ a \in Seq(File) /\ Len(a) = Len(slots)
      /\ \A i \in 1 .. Len(a) : ~a[i].primary /\ a[i].photo \in Range(slots)
  BY <1>1, <1>4 DEF File, Range
<1>6. b \in Seq(File) /\ Len(b) <= 1 /\ Len(b) \in Nat
      /\ (b = <<>> => dir.primary = Nothing)
      /\ \A i \in 1 .. Len(b) : b[i].primary /\ b[i].photo = dir.primary
  <2>1. CASE dir.primary = Nothing
    BY <2>1
  <2>2. CASE dir.primary # Nothing
    BY <1>2, <2>2 DEF File
  <2> QED BY <2>1, <2>2
<1> HIDE DEF a, b
<1>7. a \o b \in Seq(File) /\ Len(a \o b) = Len(a) + Len(b)
  BY <1>5, <1>6
<1>8. \A i \in DOMAIN (a \o b) :
        \/ ~(a \o b)[i].primary /\ (a \o b)[i].photo \in Range(slots)
        \/ (a \o b)[i].primary /\ (a \o b)[i].photo = dir.primary
  BY <1>5, <1>6
<1>9. a \o b = <<>> => slots = <<>> /\ dir.primary = Nothing
  BY <1>1, <1>5, <1>6, <1>7
<1>10. InProperty \in Seq(File) /\ Len(InProperty) <= 1
       /\ \A i \in DOMAIN InProperty : ~InProperty[i].primary
  <2>1. CASE tmp = Nothing
    BY <2>1 DEF InProperty
  <2>2. CASE tmp # Nothing
    BY <1>2, <2>2 DEF InProperty, File
  <2> QED BY <2>1, <2>2
<1>11. Len(a \o b) <= c + 1 /\ Len(InProperty) <= c + 1
  BY <1>1, <1>5, <1>6, <1>7, <1>10
<1> QED BY <1>3, <1>7, <1>8, <1>9, <1>10, <1>11, BoundedSequences DEF slots

\* An override reorders the prepared files, and never leaves none.
LEMMA ReorderedFiles ==
  ASSUME NEW prepared \in Seq(File), prepared # <<>>, NEW wanted \in Seq(Nat)
  PROVE  /\ Reordered(prepared, wanted) \in Seq(File)
         /\ Reordered(prepared, wanted) # <<>>
         /\ Range(Reordered(prepared, wanted)) \subseteq Range(prepared)
         /\ Range(wanted) \cap Positions(prepared) # {} =>
              \A file \in Range(Reordered(prepared, wanted)) :
                \E p \in Range(wanted) \cap Positions(prepared) : file = prepared[p + 1]
<1> DEFINE kept == Only(wanted, Positions(prepared))
           r == [n \in DOMAIN kept |-> prepared[kept[n] + 1]]
           W == Range(wanted) \cap Positions(prepared)
<1>1. kept \in Seq(Nat) /\ Range(kept) = W
  BY OnlyKeeps
<1>2. Reordered(prepared, wanted) = IF kept = <<>> THEN prepared ELSE r
  BY DEF Reordered
<1> HIDE DEF kept, W
<1>3. DOMAIN kept = 1 .. Len(kept) /\ Len(kept) \in Nat
  BY <1>1
<1>4. ASSUME NEW n \in DOMAIN kept
      PROVE  kept[n] \in W /\ kept[n] + 1 \in DOMAIN prepared
  <2>1. kept[n] \in W
    BY <1>1 DEF Range
  <2>2. kept[n] \in 0 .. (Len(prepared) - 1)
    BY <2>1 DEF W, Positions
  <2> QED BY <2>1, <2>2
<1>5. CASE kept = <<>>
  <2>1. W = {}
    BY <1>1, <1>5 DEF Range
  <2> QED BY <1>2, <1>5, <2>1 DEF W
<1>6. CASE kept # <<>>
  <2>1. /\ r \in Seq(File) /\ DOMAIN r = DOMAIN kept /\ Len(r) = Len(kept)
        /\ \A n \in DOMAIN r : r[n] = prepared[kept[n] + 1]
    BY <1>3, <1>4
  <2> HIDE DEF r
  <2>2. r # <<>>
    BY <1>1, <1>6, <2>1
  <2>3. Range(r) \subseteq Range(prepared)
    BY <1>4, <2>1 DEF Range
  <2>4. \A file \in Range(r) : \E p \in W : file = prepared[p + 1]
    BY <1>4, <2>1 DEF Range
  <2> QED BY <1>2, <1>6, <2>1, <2>2, <2>3, <2>4 DEF W
<1> QED BY <1>5, <1>6

\* The positions the editor selected, as the job read them.
LEMMA WantedPositions ==
  ASSUME JobTyped
  PROVE  /\ WantedPhotos \in Seq(Nat) /\ WantedSlides \in Seq(Nat)
         /\ job.order # Nothing =>
              Range(WantedPhotos) =
                {e.position : e \in {x \in Range(job.order) : x.selected}}
<1>1. WantedSlides \in Seq(Nat)
  BY DEF JobTyped, Makings, WantedSlides
<1>2. CASE job.order = Nothing
  BY <1>1, <1>2 DEF WantedPhotos
<1>3. CASE job.order # Nothing
  <2> DEFINE S == {e \in Range(job.order) : e.selected}
             entries == Only(job.order, S)
             w == [n \in DOMAIN entries |-> entries[n].position]
  <2>1. job.order \in Seq(Choice)
    BY <1>3 DEF JobTyped, Makings
  <2>2. entries \in Seq(Choice) /\ Range(entries) = Range(job.order) \cap S
    BY <2>1, OnlyKeeps
  <2>3. Range(entries) = S
    BY <2>2
  <2>4. WantedPhotos = w
    BY <1>3 DEF WantedPhotos
  <2> HIDE DEF S, entries
  <2>5. DOMAIN entries = 1 .. Len(entries) /\ Len(entries) \in Nat
    BY <2>2
  <2>6. \A n \in DOMAIN entries : entries[n].position \in Nat
    <3>1. \A n \in DOMAIN entries : entries[n] \in Choice
      BY <2>2, <2>5
    <3> QED BY <3>1 DEF Choice
  <2>7. w \in Seq(Nat) /\ DOMAIN w = DOMAIN entries
    BY <2>5, <2>6
  <2>8. Range(w) = {e.position : e \in S}
    <3>1. ASSUME NEW p  PROVE p \in Range(w) <=> \E n \in DOMAIN entries : entries[n].position = p
      BY <2>7 DEF Range
    <3>2. ASSUME NEW e  PROVE e \in S <=> \E n \in DOMAIN entries : entries[n] = e
      BY <2>3 DEF Range
    <3> QED BY <3>1, <3>2
  <2> QED BY <1>1, <2>4, <2>7, <2>8 DEF S
<1> QED BY <1>2, <1>3

\* The slide of a file, and the file of the featured image downloaded anew.
SlideOf(file) == [photo |-> file.photo, caption |-> Caption(file)]
FeaturedFile == [photo |-> job.listing.featured, primary |-> TRUE]

\* A reel opens with its primary file or the featured image, if there is any,
\* and goes on with the other files.
LEMMA SlidesOfFiles ==
  ASSUME NEW files \in Seq(File), files # <<>>
  PROVE  LET s == SlidesOf(files)
             primary == {file \in Range(files) : file.primary}
             opening == IF primary # {} THEN primary
                        ELSE IF job.listing.featured # Nothing THEN {FeaturedFile} ELSE {}
         IN  /\ DOMAIN s = 1 .. Len(s) /\ Len(s) >= 1 /\ Len(s) \in Nat
             /\ opening # {} => \E file \in opening : s[1] = SlideOf(file)
             /\ \A i \in DOMAIN s : i # 1 \/ opening = {} =>
                  \E file \in Range(files) : ~file.primary /\ s[i] = SlideOf(file)
<1> DEFINE isPrimary(file) == file.primary
           I == {i \in 1 .. Len(files) : files[i].primary}
           p == SelectInSeq(files, isPrimary)
           N == {file \in Range(files) : ~file.primary}
           others == Only(files, N)
           first == IF p # 0 THEN <<SlideOf(files[p])>>
                    ELSE IF job.listing.featured = Nothing THEN <<>>
                    ELSE <<SlideOf(FeaturedFile)>>
           rest == [n \in DOMAIN others |-> SlideOf(others[n])]
           all == first \o rest
           limit == IF job.listing.kind = "status" THEN 1 ELSE MaxSlides
           m == IF limit < Len(all) THEN limit ELSE Len(all)
           s == SubSeq(all, 1, m)
           primary == {file \in Range(files) : file.primary}
           opening == IF primary # {} THEN primary
                      ELSE IF job.listing.featured # Nothing THEN {FeaturedFile} ELSE {}
<1>1. SlidesOf(files) = s
  BY Zenon DEF SlidesOf, SlideOf, FeaturedFile
<1>2. /\ (I = {} => p = 0) /\ (I # {} => p \in I)
      /\ DOMAIN files = 1 .. Len(files) /\ Len(files) \in Nat \ {0}
  <2>1. DOMAIN files = 1 .. Len(files) /\ Len(files) \in Nat \ {0}
    OBVIOUS
  <2>2. I \in SUBSET Nat
    OBVIOUS
  <2>3. I = {} => p = 0
    BY DEF SelectInSeq
  <2>4. I # {} => p = Min(I)
    BY DEF SelectInSeq
  <2> QED BY <2>1, <2>2, <2>3, <2>4, MinIsIn
<1>3. (I = {} <=> primary = {}) /\ (I # {} => files[p] \in primary /\ p # 0)
  <2>1. p \in I => p \in 1 .. Len(files) /\ files[p].primary
    OBVIOUS
  <2> HIDE DEF p
  <2>2. \A i \in I : files[i] \in primary
    BY <1>2 DEF Range
  <2>3. \A file \in primary : \E i \in I : files[i] = file
    BY <1>2 DEF Range
  <2> HIDE DEF I, primary
  <2>4. p \in I => p # 0
    BY <2>1
  <2> QED BY <1>2, <2>2, <2>3, <2>4
<1>4. others \in Seq(File) /\ Range(others) = N
  <2>1. others \in Seq(File) /\ Range(others) = Range(files) \cap N
    BY OnlyKeeps
  <2> QED BY <2>1
<1>5. DOMAIN others = 1 .. Len(others) /\ Len(others) \in Nat
  BY <1>4
<1> DEFINE Slides == {SlideOf(file) : file \in N \cup opening}
<1>6. /\ rest \in Seq(Slides) /\ Len(rest) = Len(others)
      /\ \A n \in 1 .. Len(rest) : \E file \in N : rest[n] = SlideOf(file)
  <2>1. \A n \in DOMAIN others : others[n] \in N
    BY <1>4 DEF Range
  <2> HIDE DEF others, N, opening
  <2>2. \A n \in DOMAIN others : SlideOf(others[n]) \in Slides
    BY <2>1
  <2> HIDE DEF Slides
  <2>3. rest \in Seq(Slides) /\ DOMAIN rest = DOMAIN others /\ Len(rest) = Len(others)
    BY <1>5, <2>2
  <2> QED BY <1>5, <2>1, <2>3
<1>7. /\ first \in Seq(Slides) /\ Len(first) = IF opening = {} THEN 0 ELSE 1
      /\ opening # {} => \E file \in opening : first[1] = SlideOf(file)
  <2>1. CASE I # {}
    <3>1. first = <<SlideOf(files[p])>> /\ opening = primary /\ files[p] \in opening
      BY <1>3, <2>1
    <3> HIDE DEF first, p, opening
    <3> QED BY <3>1
  <2>2. CASE I = {} /\ job.listing.featured # Nothing
    <3>1. first = <<SlideOf(FeaturedFile)>> /\ opening = {FeaturedFile}
      BY <1>2, <1>3, <2>2
    <3> HIDE DEF first, p, opening
    <3> QED BY <3>1
  <2>3. CASE I = {} /\ job.listing.featured = Nothing
    <3>1. first = <<>> /\ opening = {}
      BY <1>2, <1>3, <2>3
    <3> HIDE DEF first, p, opening
    <3> QED BY <3>1
  <2> QED BY <2>1, <2>2, <2>3
<1>8. opening = {} => Len(rest) >= 1
  <2>1. ASSUME opening = {}  PROVE files[1] \in N
    BY <1>2, <2>1 DEF Range
  <2>2. ASSUME opening = {}  PROVE Len(others) # 0
    BY <1>4, <1>5, <2>1, <2>2 DEF Range
  <2> QED BY <1>5, <1>6, <2>2
<1> HIDE DEF first, rest, opening, N, others, p, I, Slides
<1>9. /\ all \in Seq(Slides) /\ Len(all) = Len(first) + Len(rest)
      /\ \A i \in 1 .. Len(first) : all[i] = first[i]
      /\ \A i \in 1 .. Len(all) : i > Len(first) => i - Len(first) \in 1 .. Len(rest)
                                                     /\ all[i] = rest[i - Len(first)]
  <2>1. first \in Seq(Slides) /\ rest \in Seq(Slides)
    BY <1>6, <1>7
  <2>2. Len(first) \in Nat /\ Len(rest) \in Nat
    BY <2>1
  <2>3. /\ all \in Seq(Slides) /\ Len(all) = Len(first) + Len(rest)
        /\ \A i \in 1 .. Len(first) + Len(rest) :
             all[i] = IF i <= Len(first) THEN first[i] ELSE rest[i - Len(first)]
    BY <2>1, ConcatProperties
  <2> HIDE DEF all
  <2> QED BY <2>2, <2>3
<1>10. limit \in Nat \ {0}
  BY BoundsAssumption
<1>11. Len(all) >= 1 /\ Len(all) \in Nat
  BY <1>6, <1>7, <1>8, <1>9
<1> HIDE DEF all, limit
<1>12. m \in 1 .. Len(all)
  BY <1>10, <1>11
<1>13. /\ DOMAIN s = 1 .. Len(s) /\ Len(s) = m
       /\ \A i \in 1 .. m : s[i] = all[i] /\ i \in 1 .. Len(all)
  BY <1>9, <1>11, <1>12
<1> HIDE DEF m, s
<1>14. ASSUME opening # {}  PROVE \E file \in opening : s[1] = SlideOf(file)
  <2>1. s[1] = first[1]
    BY <1>7, <1>9, <1>12, <1>13, <1>14
  <2> QED BY <1>7, <1>14, <2>1
<1>15. ASSUME NEW i \in DOMAIN s, i # 1 \/ opening = {}
       PROVE  \E file \in N : s[i] = SlideOf(file)
  <2>1. i > Len(first) /\ i \in 1 .. Len(all)
    BY <1>7, <1>12, <1>13, <1>15
  <2>2. i - Len(first) \in 1 .. Len(rest) /\ s[i] = rest[i - Len(first)]
    BY <1>9, <1>12, <1>13, <2>1
  <2> QED BY <1>6, <2>2
<1>16. Len(s) >= 1 /\ Len(s) \in Nat
  BY <1>12, <1>13
<1> QED BY <1>1, <1>13, <1>14, <1>15, <1>16 DEF opening, N

-----------------------------------------------------------------------------
(* ReelPhotos: every step keeps the invariant. *)

Rest == ShowsItsListing /\ FeaturedAndSelected

\* A reel on record stays as it is shown, or is withdrawn.
LEMMA VideoKept ==
  ASSUME Rest, video' = video \/ video' = Nothing
  PROVE  Rest'
<1>1. CASE video' = Nothing
  BY <1>1 DEF Rest, ShowsItsListing, PhotosAreItsOwn, CaptionsMatch, FeaturedAndSelected,
              FeaturedFirst, OnlySelectedShown
<1>2. CASE video' = video
  BY <1>2 DEF Rest, ShowsItsListing, PhotosAreItsOwn, CaptionsMatch, FeaturedAndSelected,
              FeaturedFirst, OnlySelectedShown, Shown, InListing
<1> QED BY <1>1, <1>2

\* The paths of the catalog hold while neither it nor the folder changes.
LEMMA CatalogKept ==
  ASSUME CatalogHolds, cleared' \/ UNCHANGED <<dir, catalog, cleared>>
  PROVE  CatalogHolds'
BY DEF CatalogHolds, Served

\* There may be no photos at all.
LEMMA NoneAtAll == <<>> \in PhotoSeqs /\ <<>> \in Prepared
<1> DEFINE s == <<>>
<1>1. s \in Seq(Photos) /\ s \in Seq(File) /\ Len(s) = 0
  OBVIOUS
<1> HIDE DEF s
<1>2. 0 <= Cardinality(Photos) /\ 0 <= Cardinality(Photos) + 1
  BY HowMany
<1>3. s \in PhotoSeqs /\ s \in Prepared
  BY <1>1, <1>2, BoundedSequences
<1> QED BY <1>3 DEF s

\* There is a job that is none.
LEMMA NoJobTyped == NoJob \in Makings
<1>1. <<>> \in PhotoSeqs /\ <<>> \in Prepared
  BY NoneAtAll
<1>2. <<>> \in Seq(Photos)
  OBVIOUS
<1> QED BY <1>1, <1>2 DEF Makings, NoJob, Stops

\* The initial state.
LEMMA PhotosInitInv == PhotosInit => PhotosInv
<1> SUFFICES ASSUME PhotosInit  PROVE PhotosInv
  OBVIOUS
<1> USE DEF PhotosInit
<1>1. <<>> \in PhotoSeqs /\ <<>> \in Prepared
  BY NoneAtAll
<1>2. PhotosTypeOK
  <2>1. dir \in [slots : PhotoSeqs, primary : Photos \cup {Nothing}]
    BY <1>1 DEF NoDir
  <2>2. audit \in [chosen : PhotoSeqs, reserved : Photos \cup {Nothing}]
    BY <1>1
  <2>3. catalog \in Seq([photo : Photos, path : Nat \cup {Nothing}])
    OBVIOUS
  <2>4. job.step = "idle" /\ job.prepared = <<>>
    BY DEF NoJob
  <2>5. begun \in 0 .. MaxBegun /\ edits \in 0 .. MaxEdits
    BY BoundsAssumption
  <2> QED BY <1>1, <2>1, <2>2, <2>3, <2>4, <2>5 DEF PhotosTypeOK
<1>3. JobTyped
  <2>1. job \in Makings
    BY NoJobTyped
  <2>2. job.step = "idle"
    BY DEF NoJob
  <2> QED BY <2>1, <2>2 DEF JobTyped
<1>4. Stages
  BY DEF Stages, NoJob
<1>5. CatalogHolds
  BY DEF CatalogHolds
<1>6. ShowsItsListing /\ FeaturedAndSelected
  BY DEF ShowsItsListing, PhotosAreItsOwn, CaptionsMatch, FeaturedAndSelected,
         FeaturedFirst, OnlySelectedShown
<1> QED BY <1>2, <1>3, <1>4, <1>5, <1>6 DEF PhotosInv

\* The job ends: what it left is as it was.
LEMMA JobEnds ==
  ASSUME PhotosInv, job' = NoJob,
         audit' \in [chosen : PhotoSeqs, reserved : Photos \cup {Nothing}],
         UNCHANGED <<dir, tmp, overrides, begun, catalog, cleared>>
  PROVE  PhotosTypeOK' /\ JobTyped' /\ Stages' /\ CatalogHolds'
<1>1. PhotosTypeOK'
  <2>1. job'.step = "idle" /\ job'.prepared = <<>>
    BY DEF NoJob
  <2> QED BY <2>1, NoneAtAll DEF PhotosInv, PhotosTypeOK, overrides
<1>2. JobTyped'
  <2>1. job' \in Makings
    BY NoJobTyped
  <2>2. job'.step = "idle"
    BY DEF NoJob
  <2> QED BY <2>1, <2>2 DEF PhotosInv, JobTyped, overrides
<1>3. Stages'
  BY DEF Stages, NoJob
<1>4. CatalogHolds'
  BY CatalogKept DEF PhotosInv
<1> QED BY <1>1, <1>2, <1>3, <1>4

\* A job is begun.
LEMMA IngestStep ==
  ASSUME PhotosInv, NEW l \in Listings, IngestPhotos(l)
  PROVE  PhotosInv'
<1> DEFINE needed == l.kind = "curated" \/ InSelected = <<>>
<1>1. <<>> \in PhotoSeqs /\ <<>> \in Prepared /\ InSelected \in Prepared
  BY NoneAtAll, FoldersAre DEF PhotosInv
<1>2. /\ job.step = "idle" /\ begun < MaxBegun /\ begun' = begun + 1 /\ video' = Nothing
      /\ UNCHANGED <<dir, tmp, audit, catalog, order, slides, edits, cleared>>
      /\ job' = [step |-> IF needed THEN "clear" ELSE "render", listing |-> l,
                 order |-> order, slides |-> slides, got |-> {}, reserved |-> Nothing,
                 todo |-> <<>>, chosen |-> <<>>,
                 prepared |-> IF needed THEN <<>> ELSE InSelected,
                 from |-> "selected", reused |-> ~needed]
  BY DEF IngestPhotos, NoJob, folders, overrides
<1> HIDE DEF needed
<1>3. needed \in BOOLEAN /\ l.kind \in ListingKinds /\ l.photos \in Seq(Photos)
  BY ListingsAssumption DEF needed
<1>4. PhotosTypeOK'
  <2>1. begun + 1 \in 0 .. MaxBegun
    BY <1>2, BoundsAssumption DEF PhotosInv, PhotosTypeOK
  <2>2. ~needed => InSelected # <<>>
    BY DEF needed
  <2> QED BY <1>1, <1>2, <2>1, <2>2 DEF PhotosInv, PhotosTypeOK
<1>5. JobTyped'
  <2>1. order \in Seq(Choice) \cup {Nothing} /\ slides \in Seq(Nat) \cup {Nothing}
    BY DEF PhotosInv, JobTyped
  <2>2. job' \in Makings
    BY <1>1, <1>2, <1>3, <2>1 DEF Makings, Stops
  <2> QED BY <1>2, <2>1, <2>2 DEF JobTyped
<1>6. Stages'
  <2>1. InSelected' = InSelected
    BY <1>2 DEF InSelected
  <2>2. ~needed => l.kind = "status"
    BY <1>3 DEF needed, ListingKinds
  <2>3. CASE needed
    BY <1>2, <2>3 DEF Stages, NothingDone, NothingChosen
  <2>4. CASE ~needed
    BY <1>2, <2>1, <2>2, <2>4 DEF Stages
  <2> QED BY <2>3, <2>4
<1>7. CatalogHolds'
  BY <1>2, CatalogKept DEF PhotosInv
<1>8. Rest'
  BY <1>2, VideoKept DEF PhotosInv, Rest
<1> QED BY <1>4, <1>5, <1>6, <1>7, <1>8 DEF PhotosInv, Rest

\* What a step of a job has to show, when it goes on to another step and the
\* reel on record stays.
LEMMA JobGoesOn ==
  ASSUME PhotosInv, PhotosTypeOK', job' \in Makings, job.step # "idle", job'.step # "idle",
         job'.listing = job.listing, job'.got \subseteq DOMAIN job.listing.photos,
         Stages', CatalogHolds', UNCHANGED <<overrides, video>>
  PROVE  PhotosInv'
<1>1. JobTyped'
  BY DEF PhotosInv, JobTyped, overrides
<1>2. Rest'
  BY VideoKept DEF PhotosInv, Rest
<1> QED BY <1>1, <1>2 DEF PhotosInv, Rest

\* The folder is cleared.
LEMMA ClearStep ==
  ASSUME PhotosInv, Clear
  PROVE  PhotosInv'
<1> DEFINE next == IF job.listing.kind = "curated" THEN "download" ELSE "primary"
<1>1. /\ job \in Makings /\ job.listing \in Listings /\ job.got \subseteq DOMAIN job.listing.photos
      /\ job.step = "clear"
  BY DEF PhotosInv, JobTyped, Clear
<1>2. job.listing.kind \in ListingKinds
  BY <1>1, ListingsAssumption
<1>3. /\ job' = [job EXCEPT !.step = next] /\ dir' = NoDir /\ cleared'
      /\ UNCHANGED <<tmp, audit, catalog, overrides, video, begun>>
  BY DEF Clear
<1>4. next \in {"download", "primary"}
      /\ (next = "download" <=> job.listing.kind = "curated")
      /\ (next = "primary" <=> job.listing.kind = "status")
  BY <1>2 DEF ListingKinds
<1> HIDE DEF next
<1>5. job' \in Makings
  BY <1>1, <1>3, <1>4 DEF Makings, Stops
<1>6. PhotosTypeOK'
  <2>1. NoDir \in [slots : PhotoSeqs, primary : Photos \cup {Nothing}]
    BY NoneAtAll DEF NoDir
  <2>2. job'.step = next /\ job'.prepared = job.prepared
    BY <1>1, <1>3 DEF Makings
  <2> QED BY <1>3, <1>4, <2>1, <2>2 DEF PhotosInv, PhotosTypeOK, overrides, Clear
<1>7. Stages'
  <2>1. NothingDone /\ job.from = "selected" /\ ~job.reused
    BY <1>1 DEF PhotosInv, Stages
  <2> QED BY <1>1, <1>3, <1>4, <2>1 DEF Stages, NothingDone, NothingChosen, Makings
<1>8. CatalogHolds'
  BY <1>3, CatalogKept DEF PhotosInv
<1> QED BY <1>1, <1>3, <1>4, <1>5, <1>6, <1>7, <1>8, JobGoesOn DEF Makings

\* The images are downloaded, as many as can be.
LEMMA DownloadStep ==
  ASSUME PhotosInv, NEW got, Download(got)
  PROVE  PhotosInv'
<1>1. /\ job \in Makings /\ job.listing \in Listings /\ job.got \subseteq DOMAIN job.listing.photos
      /\ job.step = "download"
  BY DEF PhotosInv, JobTyped, Download
<1>2. job.listing.photos \in Seq(Photos)
  BY <1>1, ListingsAssumption
<1>3. /\ got \subseteq DOMAIN job.listing.photos
      /\ got = {} => job' = [job EXCEPT !.step = "persist", !.from = "property"]
      /\ got # {} => job' = [job EXCEPT !.step = "feature", !.got = got]
      /\ UNCHANGED <<folders, catalog, overrides, video, begun, cleared>>
  BY DEF Download
<1>4. got \in SUBSET Nat
  BY <1>2, <1>3
<1>5. job' \in Makings
  <2>1. CASE got = {}
    BY <1>1, <1>3, <2>1, ZenonT(60) DEF Makings, Stops
  <2>2. CASE got # {}
    BY <1>1, <1>3, <1>4, <2>2, ZenonT(60) DEF Makings, Stops
  <2> QED BY <2>1, <2>2
<1>6. PhotosTypeOK'
  <2>1. job'.step \in {"persist", "feature"} /\ job'.prepared = job.prepared
    BY <1>1, <1>3 DEF Makings
  <2> QED BY <1>3, <2>1 DEF PhotosInv, PhotosTypeOK, overrides, folders
<1>7. Stages'
  <2>1. NothingDone /\ job.from = "selected" /\ ~job.reused /\ job.listing.kind = "curated"
        /\ dir = NoDir /\ cleared
    BY <1>1 DEF PhotosInv, Stages
  <2>2. CASE got = {}
    <3>1. /\ job'.step = "persist" /\ job'.from = "property" /\ job'.got = {} /\ ~job'.reused
      BY <1>1, <1>3, <2>1, <2>2 DEF Makings, NothingDone
    <3> QED BY <1>3, <2>1, <3>1 DEF Stages
  <2>3. CASE got # {}
    <3>1. /\ job'.step = "feature" /\ job'.from = "selected" /\ ~job'.reused
          /\ job'.listing = job.listing /\ job'.reserved = Nothing
          /\ job'.chosen = <<>> /\ job'.todo = <<>>
      BY <1>1, <1>3, <2>1, <2>3 DEF Makings, NothingDone, NothingChosen
    <3> QED BY <1>3, <2>1, <3>1 DEF Stages, NothingChosen, folders
  <2> QED BY <2>2, <2>3
<1>8. CatalogHolds'
  BY <1>3, CatalogKept DEF PhotosInv, folders
<1>9. job'.step # "idle" /\ job'.listing = job.listing
      /\ job'.got \subseteq DOMAIN job.listing.photos
  BY <1>1, <1>3 DEF Makings
<1> QED BY <1>1, <1>3, <1>5, <1>6, <1>7, <1>8, <1>9, JobGoesOn

\* The featured image is set aside.
LEMMA FeatureStep ==
  ASSUME PhotosInv, NEW ok \in BOOLEAN, Feature(ok)
  PROVE  PhotosInv'
<1> DEFINE f == job.listing.featured
           here == \E i \in job.got : job.listing.photos[i] = f
           reserved == IF ok THEN f ELSE Nothing
<1>1. /\ job \in Makings /\ job.listing \in Listings /\ job.got \subseteq DOMAIN job.listing.photos
      /\ job.step = "feature"
  BY DEF PhotosInv, JobTyped, Feature
<1>2. f \in Photos \cup {Nothing} /\ reserved \in Photos \cup {Nothing}
  BY <1>1, ListingsAssumption
<1>3. /\ f = Nothing \/ here => ok
      /\ tmp' = IF f = Nothing THEN tmp ELSE IF ok THEN f ELSE Nothing
      /\ job' = [job EXCEPT !.step = "classify", !.reserved = reserved]
      /\ UNCHANGED <<dir, audit, catalog, overrides, video, begun, cleared>>
  <2> DEFINE aside == /\ f = Nothing \/ here => ok
                      /\ tmp' = IF f = Nothing THEN tmp ELSE IF ok THEN f ELSE Nothing
                      /\ job' = [job EXCEPT !.step = "classify", !.reserved = reserved]
  <2>1. aside
    BY Zenon DEF Feature
  <2>2. UNCHANGED <<dir, audit, catalog, overrides, video, begun, cleared>>
    BY DEF Feature
  <2> QED BY <2>1, <2>2
<1>4. \/ reserved = f
      \/ /\ reserved = Nothing
         /\ ~here
  BY <1>3
<1> HIDE DEF f, here, reserved
<1>5. job' \in Makings /\ job'.step = "classify" /\ job'.listing = job.listing
      /\ job'.got = job.got /\ job'.prepared = job.prepared /\ job'.reserved = reserved
      /\ job'.from = job.from /\ job'.reused = job.reused
      /\ job'.chosen = job.chosen /\ job'.todo = job.todo
  BY <1>1, <1>2, <1>3 DEF Makings, Stops
<1>6. PhotosTypeOK'
  <2>1. tmp' \in Photos \cup {Nothing}
    BY <1>2, <1>3 DEF PhotosInv, PhotosTypeOK
  <2> QED BY <1>3, <1>5, <2>1 DEF PhotosInv, PhotosTypeOK, overrides
<1>7. Stages'
  <2>1. NothingChosen /\ job.from = "selected" /\ ~job.reused /\ job.listing.kind = "curated"
        /\ dir = NoDir /\ cleared
    BY <1>1 DEF PhotosInv, Stages
  <2>2. FeaturedIsAside'
    BY <1>4, <1>5 DEF FeaturedIsAside, f, here
  <2> QED BY <1>3, <1>5, <2>1, <2>2 DEF Stages, NothingChosen
<1>8. CatalogHolds'
  BY <1>3, CatalogKept DEF PhotosInv
<1> QED BY <1>1, <1>3, <1>5, <1>6, <1>7, <1>8, JobGoesOn

\* The classifier has answered for every photo.
LEMMA ClassifyStep ==
  ASSUME PhotosInv, NEW answer \in Answers, Classify(answer)
  PROVE  PhotosInv'
<1> DEFINE given == Rows(answer, Len(Records))
           chosen == Selected(given)
           rest == Photos \ {job.reserved}
           paths == Only(chosen, rest)
<1>1. /\ JobTyped /\ job \in Makings /\ job.listing \in Listings
      /\ job.got \subseteq DOMAIN job.listing.photos
      /\ job.step = "classify"
  BY DEF PhotosInv, JobTyped, Classify
<1>2. /\ audit' = [chosen |-> chosen, reserved |-> job.reserved]
      /\ job' = [job EXCEPT !.step = "move", !.todo = Only(audit'.chosen, rest),
                            !.chosen = Only(audit'.chosen, rest)]
      /\ UNCHANGED <<dir, tmp, catalog, overrides, video, begun, cleared>>
  BY DEF Classify
<1>3. chosen \in PhotoSeqs /\ Range(chosen) \subseteq Own \cup {job.reserved}
  <2>1. Len(Records) \in 0 .. Len(Records)
    BY <1>1, RecordsArePhotos
  <2>2. /\ given \in Seq(RowsOf(answer)) /\ Len(given) = Len(Records)
        /\ \A i \in 1 .. Len(Records) : given[i].file = Records[i]
    BY <1>1, <2>1, RowsAre
  <2> HIDE DEF given
  <2> QED BY <1>1, <2>1, <2>2, SelectedAreRecords
<1> HIDE DEF given, chosen
<1>4. /\ paths \in PhotoSeqs /\ paths \in Seq(Photos) /\ Range(paths) \subseteq Own
  <2>1. chosen \in Seq(Photos) /\ Len(chosen) <= Cardinality(Photos) /\ Len(chosen) \in Nat
    BY <1>3, BoundedSequences
  <2>2. paths \in Seq(Photos) /\ Range(paths) = Range(chosen) \cap rest /\ Len(paths) <= Len(chosen)
    BY <2>1, OnlyKeeps
  <2> HIDE DEF paths
  <2>3. Len(paths) <= Cardinality(Photos)
    BY <2>1, <2>2, HowMany
  <2> QED BY <1>3, <2>2, <2>3, BoundedSequences
<1>5. audit'.chosen = chosen /\ audit'.reserved = job.reserved
      /\ audit' \in [chosen : PhotoSeqs, reserved : Photos \cup {Nothing}]
  BY <1>1, <1>2, <1>3 DEF Makings
<1>6. job' = [job EXCEPT !.step = "move", !.todo = paths, !.chosen = paths]
  BY <1>2, <1>5
<1> HIDE DEF paths
<1>7. job' \in Makings /\ job'.step = "move" /\ job'.listing = job.listing
      /\ job'.got = job.got /\ job'.prepared = job.prepared /\ job'.reserved = job.reserved
      /\ job'.from = job.from /\ job'.reused = job.reused
      /\ job'.chosen = paths /\ job'.todo = paths
  BY <1>1, <1>4, <1>6 DEF Makings, Stops
<1>8. PhotosTypeOK'
  BY <1>2, <1>5, <1>7 DEF PhotosInv, PhotosTypeOK, overrides
<1>9. Stages'
  <2>1. job.from = "selected" /\ ~job.reused /\ job.listing.kind = "curated"
        /\ dir = NoDir /\ cleared /\ FeaturedIsAside
    BY <1>1 DEF PhotosInv, Stages
  <2>2. FeaturedIsAside' /\ Own' = Own
    BY <1>7, <2>1 DEF FeaturedIsAside, Own
  <2>3. dir'.slots \o job'.todo = job'.chosen /\ dir'.primary = Nothing
    BY <1>2, <1>4, <1>7, <2>1 DEF NoDir
  <2> QED BY <1>2, <1>4, <1>5, <1>7, <2>1, <2>2, <2>3 DEF Stages
<1>10. CatalogHolds'
  BY <1>2, CatalogKept DEF PhotosInv
<1> QED BY <1>1, <1>2, <1>7, <1>8, <1>9, <1>10, JobGoesOn

\* A photo had no answer.
LEMMA ClassifyFailsStep ==
  ASSUME PhotosInv, NEW answer \in Answers, NEW n \in Nat, ClassifyFails(answer, n)
  PROVE  PhotosInv'
<1> DEFINE before == Rows(answer, n)
           last == ErrorRow(Records[n + 1], "error")
           given == Append(before, last)
<1>1. JobTyped /\ job \in Makings /\ job.step = "classify" /\ n < Len(Records)
  BY DEF PhotosInv, JobTyped, ClassifyFails
<1>2. audit' = [chosen |-> Selected(given), reserved |-> job.reserved] /\ job' = NoJob
      /\ UNCHANGED <<dir, tmp, catalog, overrides, video, begun, cleared>>
  BY DEF ClassifyFails
<1>3. Records \in Seq(Photos)
  BY <1>1, RecordsArePhotos
<1>4. n + 1 \in DOMAIN Records /\ Len(Records) \in Nat /\ n \in 0 .. Len(Records)
      /\ Records[n + 1] \in Photos
  BY <1>1, <1>3
<1>5. /\ before \in Seq(RowsOf(answer)) /\ Len(before) = n
      /\ \A i \in 1 .. n : before[i].file = Records[i]
  BY <1>1, <1>4, RowsAre
<1>6. last \in RowsOf(answer) /\ last.file = Records[n + 1]
  BY <1>4 DEF RowsOf, ErrorRow
<1> HIDE DEF before, last
<1>7. /\ given \in Seq(RowsOf(answer)) /\ Len(given) <= Len(Records)
      /\ \A i \in DOMAIN given : given[i].file = Records[i]
  BY <1>1, <1>4, <1>5, <1>6
<1> HIDE DEF given
<1>8. Selected(given) \in PhotoSeqs
  BY <1>1, <1>7, SelectedAreRecords
<1>9. audit' \in [chosen : PhotoSeqs, reserved : Photos \cup {Nothing}]
  BY <1>1, <1>2, <1>8 DEF Makings
<1> QED BY <1>2, <1>9, JobEnds, VideoKept DEF PhotosInv, Rest

\* The next copy is moved into the folder.
LEMMA MoveStep ==
  ASSUME PhotosInv, Move
  PROVE  PhotosInv'
<1> DEFINE slots == dir.slots
           todo == job.todo
<1>1. /\ job \in Makings /\ job.listing \in Listings /\ job.got \subseteq DOMAIN job.listing.photos
      /\ job.step = "move" /\ todo # <<>>
  BY DEF PhotosInv, JobTyped, Move
<1>2. /\ dir' = [dir EXCEPT !.slots = Append(slots, Head(todo))]
      /\ job' = [job EXCEPT !.todo = Tail(todo)]
      /\ UNCHANGED <<tmp, audit, catalog, overrides, video, begun, cleared>>
  BY DEF Move
<1>3. /\ slots \in Seq(Photos) /\ todo \in Seq(Photos)
      /\ dir \in [slots : PhotoSeqs, primary : Photos \cup {Nothing}]
      /\ job.chosen \in Seq(Photos) /\ Len(job.chosen) <= Cardinality(Photos)
  BY <1>1, BoundedSequences DEF PhotosInv, PhotosTypeOK, Makings
<1>4. slots \o todo = job.chosen
  BY <1>1 DEF PhotosInv, Stages
<1> DEFINE more == Append(slots, Head(todo))
           less == Tail(todo)
<1> HIDE DEF slots, todo
<1>5. more \in Seq(Photos) /\ less \in Seq(Photos) /\ more \o less = slots \o todo
      /\ Len(more) = Len(slots) + 1 /\ Len(slots \o todo) = Len(slots) + Len(todo)
      /\ Len(todo) >= 1
  BY <1>1, <1>3
<1>6. more \in PhotoSeqs
  <2>1. Len(more) <= Cardinality(Photos)
    <3>1. Len(slots) \in Nat /\ Len(todo) \in Nat
      BY <1>3
    <3> HIDE DEF more
    <3> QED BY <1>3, <1>4, <1>5, <3>1, HowMany
  <2> QED BY <1>5, <2>1, BoundedSequences
<1> HIDE DEF more, less
<1>7. /\ job' \in Makings /\ job'.step = "move" /\ job'.listing = job.listing
      /\ job'.got = job.got /\ job'.prepared = job.prepared /\ job'.reserved = job.reserved
      /\ job'.from = job.from /\ job'.reused = job.reused
      /\ job'.chosen = job.chosen /\ job'.todo = less
  BY <1>1, <1>2, <1>5 DEF Makings, Stops, less
<1>8. /\ dir' \in [slots : PhotoSeqs, primary : Photos \cup {Nothing}]
      /\ dir'.slots = more /\ dir'.primary = dir.primary
  BY <1>2, <1>3, <1>6 DEF more
<1>9. PhotosTypeOK'
  BY <1>2, <1>7, <1>8 DEF PhotosInv, PhotosTypeOK, overrides
<1>10. Stages'
  <2>1. /\ job.from = "selected" /\ ~job.reused /\ job.listing.kind = "curated"
        /\ cleared /\ FeaturedIsAside /\ dir.primary = Nothing
        /\ audit.reserved = job.reserved /\ Range(job.chosen) \subseteq Own
    BY <1>1 DEF PhotosInv, Stages
  <2>2. FeaturedIsAside' /\ Own' = Own
    BY <1>7, <2>1 DEF FeaturedIsAside, Own
  <2> QED BY <1>2, <1>4, <1>5, <1>7, <1>8, <2>1, <2>2 DEF Stages
<1>11. CatalogHolds'
  <2>1. cleared'
    BY <1>1, <1>2 DEF PhotosInv, Stages
  <2> QED BY <2>1, CatalogKept DEF PhotosInv
<1> QED BY <1>1, <1>2, <1>7, <1>9, <1>10, <1>11, JobGoesOn

\* The featured image follows the copies.
LEMMA StorePrimaryStep ==
  ASSUME PhotosInv, StorePrimary
  PROVE  PhotosInv'
<1>1. /\ job \in Makings /\ job.listing \in Listings /\ job.got \subseteq DOMAIN job.listing.photos
      /\ job.step = "move" /\ job.todo = <<>>
  BY DEF PhotosInv, JobTyped, StorePrimary
<1>2. /\ dir' = [dir EXCEPT !.primary = IF job.reserved = Nothing THEN dir.primary ELSE job.reserved]
      /\ tmp' = IF job.reserved = Nothing THEN tmp ELSE Nothing
      /\ job' = [job EXCEPT !.step = "persist"]
      /\ UNCHANGED <<audit, catalog, overrides, video, begun, cleared>>
  BY DEF StorePrimary
<1>3. /\ job.from = "selected" /\ ~job.reused /\ job.listing.kind = "curated"
      /\ cleared /\ FeaturedIsAside /\ dir.primary = Nothing
      /\ audit.reserved = job.reserved /\ Range(job.chosen) \subseteq Own
      /\ dir.slots \o job.todo = job.chosen
  BY <1>1 DEF PhotosInv, Stages
<1>4. /\ dir \in [slots : PhotoSeqs, primary : Photos \cup {Nothing}]
      /\ dir.slots \in Seq(Photos)
      /\ job.reserved \in Photos \cup {Nothing}
  BY <1>1, BoundedSequences DEF PhotosInv, PhotosTypeOK, Makings
<1>5. dir.slots = job.chosen
  BY <1>1, <1>3, <1>4
<1>6. /\ job' \in Makings /\ job'.step = "persist" /\ job'.listing = job.listing
      /\ job'.got = job.got /\ job'.prepared = job.prepared /\ job'.reserved = job.reserved
      /\ job'.from = job.from /\ job'.reused = job.reused /\ job'.chosen = job.chosen
  BY <1>1, <1>2 DEF Makings, Stops
<1>7. /\ dir' \in [slots : PhotoSeqs, primary : Photos \cup {Nothing}]
      /\ dir' = [slots |-> job.chosen, primary |-> job.reserved]
  BY <1>2, <1>3, <1>4, <1>5
<1>8. PhotosTypeOK'
  <2>1. tmp' \in Photos \cup {Nothing}
    BY <1>2 DEF PhotosInv, PhotosTypeOK
  <2> QED BY <1>2, <1>6, <1>7, <2>1 DEF PhotosInv, PhotosTypeOK, overrides
<1>9. Stages'
  <2>1. FeaturedIsAside' /\ Own' = Own
    BY <1>3, <1>6 DEF FeaturedIsAside, Own
  <2>2. FolderIsChosen'
    BY <1>2, <1>3, <1>6, <1>7, <2>1 DEF FolderIsChosen
  <2> QED BY <1>2, <1>3, <1>6, <2>2 DEF Stages
<1>10. CatalogHolds'
  BY <1>2, <1>3, CatalogKept DEF PhotosInv
<1> QED BY <1>1, <1>2, <1>6, <1>8, <1>9, <1>10, JobGoesOn

\* The one image of a listing that was sold or let.
LEMMA PrimaryOnlyStep ==
  ASSUME PhotosInv, PrimaryOnly
  PROVE  PhotosInv'
<1> DEFINE image == IF job.listing.featured # Nothing THEN job.listing.featured
                    ELSE job.listing.photos[1]
<1>1. /\ job \in Makings /\ job.listing \in Listings /\ job.got \subseteq DOMAIN job.listing.photos
      /\ job.step = "primary" /\ job.listing.photos # <<>>
  BY DEF PhotosInv, JobTyped, PrimaryOnly
<1>2. /\ dir' = [dir EXCEPT !.primary = image]
      /\ job' = [job EXCEPT !.step = "persist"]
      /\ UNCHANGED <<tmp, audit, catalog, overrides, video, begun, cleared>>
  BY DEF PrimaryOnly
<1>3. /\ job.from = "selected" /\ ~job.reused /\ job.listing.kind = "status"
      /\ cleared /\ NothingDone /\ dir = NoDir
  BY <1>1 DEF PhotosInv, Stages
<1>4. /\ image \in InListing(job.listing) \ {Nothing} /\ image \in Photos
      /\ job.listing.featured # Nothing => image = job.listing.featured
  <2>1. /\ job.listing.photos \in Seq(Photos) /\ Nothing \notin Photos
        /\ job.listing.featured \in Photos \cup {Nothing}
    BY <1>1, ListingsAssumption
  <2>2. 1 \in DOMAIN job.listing.photos /\ job.listing.photos[1] \in Photos
    BY <1>1, <2>1
  <2>3. job.listing.photos[1] \in Range(job.listing.photos)
    BY <2>2 DEF Range
  <2> QED BY <2>1, <2>2, <2>3 DEF InListing
<1> HIDE DEF image
<1>5. /\ job' \in Makings /\ job'.step = "persist" /\ job'.listing = job.listing
      /\ job'.got = job.got /\ job'.prepared = job.prepared /\ job'.reserved = job.reserved
      /\ job'.from = job.from /\ job'.reused = job.reused /\ job'.chosen = job.chosen
  BY <1>1, <1>2 DEF Makings, Stops
<1>6. dir' = [slots |-> <<>>, primary |-> image]
  BY <1>2, <1>3 DEF NoDir
<1>7. PhotosTypeOK'
  <2>1. dir' \in [slots : PhotoSeqs, primary : Photos \cup {Nothing}]
    BY <1>4, <1>6, NoneAtAll
  <2> QED BY <1>2, <1>5, <2>1 DEF PhotosInv, PhotosTypeOK, overrides
<1>8. Stages'
  <2>1. job'.got = {} /\ InListing(job.listing)' = InListing(job.listing)
    BY <1>3, <1>5 DEF NothingDone, InListing
  <2>2. FolderIsChosen'
    BY <1>3, <1>4, <1>5, <1>6, <2>1 DEF FolderIsChosen, InListing
  <2> QED BY <1>2, <1>3, <1>5, <2>2 DEF Stages
<1>9. CatalogHolds'
  BY <1>2, <1>3, CatalogKept DEF PhotosInv
<1> QED BY <1>1, <1>2, <1>5, <1>7, <1>8, <1>9, JobGoesOn

\* The job is given up.
LEMMA AbandonStep ==
  ASSUME PhotosInv, Abandon
  PROVE  PhotosInv'
<1>1. job' = NoJob /\ UNCHANGED <<folders, catalog, overrides, video, begun, cleared>>
  BY DEF Abandon
<1>2. audit' \in [chosen : PhotoSeqs, reserved : Photos \cup {Nothing}]
  BY <1>1 DEF PhotosInv, PhotosTypeOK, folders
<1> QED BY <1>1, <1>2, JobEnds, VideoKept DEF folders, PhotosInv, Rest

\* What a job has reached is in the folder and in the job.
LEMMA StagesKept ==
  ASSUME Stages, UNCHANGED <<dir, audit, job, cleared>>
  PROVE  Stages'
BY ZenonT(60) DEF Stages, FolderIsChosen, Own, FeaturedIsAside, NothingChosen, NothingDone, InSelected,
       InListing, NoDir

\* An edit changes nothing but the overrides.
LEMMA EditsKeep ==
  ASSUME PhotosInv, Edit,
         order' \in Seq(Choice) \cup {Nothing}, slides' \in Seq(Nat) \cup {Nothing},
         UNCHANGED <<folders, catalog, job, video, begun, cleared>>
  PROVE  PhotosInv'
<1>1. PhotosTypeOK'
  <2>1. edits' \in 0 .. MaxEdits
    BY BoundsAssumption DEF PhotosInv, PhotosTypeOK, Edit
  <2> QED BY <2>1 DEF PhotosInv, PhotosTypeOK, folders
<1>2. JobTyped'
  BY DEF PhotosInv, JobTyped
<1>3. Stages'
  BY StagesKept DEF PhotosInv, folders
<1>4. CatalogHolds'
  BY CatalogKept DEF PhotosInv, folders
<1>5. Rest'
  BY VideoKept DEF PhotosInv, Rest
<1> QED BY <1>1, <1>2, <1>3, <1>4, <1>5 DEF PhotosInv, Rest

\* The editor orders the photos.
LEMMA EditPhotosStep ==
  ASSUME PhotosInv, NEW o \in Orders, EditPhotos(o)
  PROVE  PhotosInv'
<1>1. o \in Seq(Choice) \cup {Nothing}
  <2>1. CASE o # Nothing
    <3>1. Len(catalog) \in Nat
      BY DEF PhotosInv, PhotosTypeOK
    <3> DEFINE n == Len(catalog)
    <3>2. o \in [1 .. n -> [position : 0 .. (n - 1), selected : BOOLEAN]]
      BY <2>1 DEF Orders
    <3> HIDE DEF n
    <3>3. n \in Nat
      BY <3>1 DEF n
    <3>4. [position : 0 .. (n - 1), selected : BOOLEAN] \subseteq Choice
      BY <3>3 DEF Choice
    <3>5. o \in Seq(Choice)
      BY <3>2, <3>3, <3>4
    <3> QED BY <3>5
  <2> QED BY <2>1
<1> QED BY <1>1, EditsKeep DEF EditPhotos

\* The editor orders the slides.
LEMMA EditSlidesStep ==
  ASSUME PhotosInv, NEW m \in Manifests, EditSlides(m)
  PROVE  PhotosInv'
<1>1. m \in Seq(Nat) \cup {Nothing}
  <2>1. CASE m # Nothing
    <3> DEFINE c == Cardinality(Photos)
    <3>1. c \in Nat
      BY HowMany
    <3> HIDE DEF c
    <3>2. PICK n \in 0 .. MaxManifest : m \in [1 .. n -> 0 .. (c - 1)]
      BY <2>1 DEF Manifests, BoundedSeq, SeqOf, c
    <3>3. n \in Nat /\ 0 .. (c - 1) \subseteq Nat
      BY <3>1, BoundsAssumption
    <3>4. m \in Seq(Nat)
      BY <3>2, <3>3
    <3> QED BY <3>4
  <2> QED BY <2>1
<1>2. UNCHANGED <<folders, catalog, order, job, video, begun, cleared>> /\ Edit /\ slides' = m
  BY DEF EditSlides
<1>3. order' \in Seq(Choice) \cup {Nothing}
  BY <1>2 DEF PhotosInv, JobTyped
<1> QED BY <1>1, <1>2, <1>3, EditsKeep

\* Nothing happens.
LEMMA PhotosStutter ==
  ASSUME PhotosInv, UNCHANGED photosVars
  PROVE  PhotosInv'
<1>1. PhotosTypeOK' /\ JobTyped'
  BY DEF PhotosInv, photosVars, PhotosTypeOK, JobTyped
<1>2. Stages'
  BY StagesKept DEF PhotosInv, photosVars
<1>3. CatalogHolds'
  BY CatalogKept DEF PhotosInv, photosVars
<1>4. Rest'
  BY VideoKept DEF PhotosInv, Rest, photosVars
<1> QED BY <1>1, <1>2, <1>3, <1>4 DEF PhotosInv, Rest

\* The path stored for an image is that of its own file in the folder.
LEMMA PathsHold ==
  ASSUME job \in Makings, job.got \subseteq DOMAIN job.listing.photos, NEW i
  PROVE  /\ PathOf(i) \in Nat \cup {Nothing}
         /\ PathOf(i) # Nothing =>
              /\ i \in job.got
              /\ \/ PathOf(i) = Primary /\ job.listing.photos[i] = job.reserved
                 \/ /\ PathOf(i) \in DOMAIN job.chosen /\ PathOf(i) # Primary
                    /\ job.chosen[PathOf(i)] = job.listing.photos[i]
<1> DEFINE p == job.listing.photos[i]
           IsIt(q) == q = p
           I == {k \in 1 .. Len(job.chosen) : IsIt(job.chosen[k])}
           n == SelectInSeq(job.chosen, IsIt)
<1>1. job.chosen \in Seq(Photos)
  BY BoundedSequences DEF Makings
<1>2. DOMAIN job.chosen = 1 .. Len(job.chosen) /\ Len(job.chosen) \in Nat
  BY <1>1
<1>3. n = IF I # {} THEN Min(I) ELSE 0
  BY Zenon DEF SelectInSeq
<1>4. \/ n = 0
      \/ n \in DOMAIN job.chosen /\ n # 0 /\ job.chosen[n] = p
  <2>1. CASE I = {}
    BY <1>3, <2>1
  <2>2. CASE I # {}
    <3>1. I \in SUBSET Nat
      OBVIOUS
    <3>2. n \in I
      BY <1>3, <2>2, <3>1, MinIsIn
    <3>3. n \in 1 .. Len(job.chosen) /\ job.chosen[n] = p
      BY <3>2
    <3> HIDE DEF n
    <3> QED BY <1>2, <3>3
  <2> QED BY <2>1, <2>2
<1>5. PathOf(i) = CASE i \notin job.got -> Nothing
                    [] i \in job.got /\ p = job.reserved -> Primary
                    [] i \in job.got /\ p # job.reserved -> IF n = 0 THEN Nothing ELSE n
  BY Zenon DEF PathOf
<1> HIDE DEF n, p
<1>6. CASE i \notin job.got
  BY <1>5, <1>6
<1>7. CASE i \in job.got /\ p = job.reserved
  <2>1. PathOf(i) = Primary
    BY <1>5, <1>7
  <2> QED BY <1>7, <2>1 DEF Primary, p
<1>8. CASE i \in job.got /\ p # job.reserved
  <2>1. PathOf(i) = IF n = 0 THEN Nothing ELSE n
    BY <1>5, <1>8
  <2> QED BY <1>2, <1>4, <1>8, <2>1 DEF Primary, p
<1> QED BY <1>6, <1>7, <1>8

\* The images are recorded with the paths of their files.
LEMMA PersistStep ==
  ASSUME PhotosInv, Persist
  PROVE  PhotosInv'
<1> DEFINE photos == job.listing.photos
           found == IF job.from = "property" THEN InProperty ELSE InSelected
<1>1. /\ job \in Makings /\ job.listing \in Listings /\ job.got \subseteq DOMAIN photos
      /\ job.step = "persist"
  BY DEF PhotosInv, JobTyped, Persist
<1> DEFINE entries == [i \in DOMAIN photos |-> [photo |-> photos[i], path |-> PathOf(i)]]
<1>2. /\ UNCHANGED <<folders, overrides, video, begun>>
      /\ found = <<>> => job' = NoJob /\ UNCHANGED <<catalog, cleared>>
      /\ found # <<>> => /\ catalog' = entries
                         /\ ~cleared' /\ cleared' \in BOOLEAN
                         /\ job' = [job EXCEPT !.step = "render", !.prepared = found]
  <2> DEFINE recorded == IF found = <<>> THEN job' = NoJob /\ UNCHANGED <<catalog, cleared>>
                         ELSE /\ catalog' = entries
                              /\ cleared' = FALSE
                              /\ job' = [job EXCEPT !.step = "render", !.prepared = found]
  <2>1. recorded
    BY Zenon DEF Persist
  <2>2. UNCHANGED <<folders, overrides, video, begun>>
    BY DEF Persist
  <2> HIDE DEF found, entries
  <2> QED BY <2>1, <2>2
<1>3. /\ photos \in Seq(Photos) /\ DOMAIN photos = 1 .. Len(photos) /\ Len(photos) \in Nat
  BY <1>1, ListingsAssumption
<1>4. /\ InSelected \in Prepared /\ InProperty \in Prepared
      /\ \A i \in DOMAIN InProperty : ~InProperty[i].primary
  BY FoldersAre DEF PhotosInv
<1>5. ~job.reused /\ (job.from = "property" => job.got = {})
      /\ (job.from = "selected" => FolderIsChosen)
  BY <1>1 DEF PhotosInv, Stages
<1>6. job.from \in {"selected", "property"}
  BY <1>1 DEF Makings
<1> HIDE DEF photos
<1>7. found # <<>> => catalog' \in Seq([photo : Photos, path : Nat \cup {Nothing}])
  <2>1. \A i \in DOMAIN photos : PathOf(i) \in Nat \cup {Nothing}
    BY <1>1, PathsHold DEF photos
  <2>2. entries \in Seq([photo : Photos, path : Nat \cup {Nothing}])
    BY <1>3, <2>1
  <2> HIDE DEF entries, found
  <2> QED BY <1>2, <2>2
<1>8. ASSUME found # <<>>  PROVE CatalogHolds'
  <2> SUFFICES ASSUME NEW i \in DOMAIN catalog', catalog'[i].path # Nothing
               PROVE  Served(i)' = catalog'[i].photo
    BY DEF CatalogHolds
  <2>1. i \in DOMAIN photos /\ catalog'[i].path = PathOf(i) /\ catalog'[i].photo = photos[i]
    BY <1>2, <1>8
  <2>2. dir' = dir
    BY <1>2 DEF folders
  <2>3. /\ i \in job.got
        /\ \/ PathOf(i) = Primary /\ photos[i] = job.reserved
           \/ /\ PathOf(i) \in DOMAIN job.chosen /\ PathOf(i) # Primary
              /\ job.chosen[PathOf(i)] = photos[i]
    BY <1>1, <2>1, PathsHold DEF photos
  <2>4. job.listing.kind \in ListingKinds
    BY <1>1, ListingsAssumption
  <2>5. dir = [slots |-> job.chosen, primary |-> job.reserved]
    BY <1>5, <1>6, <2>3, <2>4 DEF FolderIsChosen, ListingKinds
  <2>6. Served(i)' = CASE PathOf(i) = Nothing -> Nothing
                       [] PathOf(i) = Primary -> dir'.primary
                       [] OTHER -> IF /\ PathOf(i) \in DOMAIN dir'.slots
                                      /\ Basename[dir'.slots[PathOf(i)]] = Basename[photos[i]]
                                     THEN dir'.slots[PathOf(i)] ELSE Nothing
    BY <2>1 DEF Served
  <2>7. dir'.slots = job.chosen /\ dir'.primary = job.reserved
    BY <2>2, <2>5
  <2>8. CASE PathOf(i) = Primary /\ photos[i] = job.reserved
    BY <2>1, <2>6, <2>7, <2>8
  <2>9. CASE /\ PathOf(i) \in DOMAIN job.chosen /\ PathOf(i) # Primary
             /\ job.chosen[PathOf(i)] = photos[i]
    BY <2>1, <2>6, <2>7, <2>9
  <2> QED BY <2>3, <2>8, <2>9
<1>9. CASE found = <<>>
  <2>1. audit' \in [chosen : PhotoSeqs, reserved : Photos \cup {Nothing}]
    BY <1>2 DEF PhotosInv, PhotosTypeOK, folders
  <2> QED BY <1>2, <1>9, <2>1, JobEnds, VideoKept DEF folders, PhotosInv, Rest
<1>10. CASE found # <<>>
  <2>1. found \in Prepared
    BY <1>4
  <2>2. job' = [job EXCEPT !.step = "render", !.prepared = found]
    BY <1>2, <1>10
  <2>3. /\ job.from = "property" => \A i \in DOMAIN found : ~found[i].primary
        /\ job.from = "selected" => found = InSelected
    BY <1>4
  <2> HIDE DEF found
  <2>4. /\ job' \in Makings /\ job'.step = "render" /\ job'.listing = job.listing
        /\ job'.got = job.got /\ job'.prepared = found /\ job'.reserved = job.reserved
        /\ job'.from = job.from /\ job'.reused = job.reused /\ job'.chosen = job.chosen
    BY <1>1, <2>1, <2>2 DEF Makings, Stops
  <2>5. PhotosTypeOK'
    BY <1>2, <1>7, <1>10, <2>1, <2>4 DEF PhotosInv, PhotosTypeOK, overrides, folders
  <2>6. dir' = dir /\ audit' = audit
    BY <1>2 DEF folders
  <2>7. Stages'
    <3>1. InSelected' = InSelected /\ Own' = Own
      BY <2>4, <2>6 DEF InSelected, Own
    <3>2. job.from = "selected" => FolderIsChosen'
      BY <1>5, <2>4, <2>6, <3>1 DEF FolderIsChosen, FeaturedIsAside, InListing
    <3> QED BY <1>5, <2>3, <2>4, <3>1, <3>2 DEF Stages
  <2> QED BY <1>1, <1>2, <1>8, <1>10, <2>4, <2>5, <2>7, JobGoesOn DEF photos
<1> QED BY <1>9, <1>10

\* A caption is of the photo the job set aside, or of one with the name of the
\* file; the property's own folder has none.
LEMMA CaptionIs ==
  ASSUME PhotosTypeOK, NEW file, file.primary \in BOOLEAN, Caption(file) # Nothing
  PROVE  /\ job.from # "property"
         /\ file.primary => Caption(file) = audit.reserved
         /\ ~file.primary => Basename[Caption(file)] = Basename[file.photo]
<1> DEFINE given == audit.chosen
           same(p) == Basename[p] = Basename[file.photo] /\ p # audit.reserved
           I == {k \in 1 .. Len(given) : same(given[k])}
           n == SelectLastInSeq(given, same)
<1>1. given \in Seq(Photos)
  BY BoundedSequences DEF PhotosTypeOK
<1>2. n = IF I # {} THEN Max(I) ELSE 0
  BY Zenon DEF SelectLastInSeq
<1>3. Caption(file) =
        CASE job.from = "property" -> Nothing
          [] job.from # "property" /\ file.primary ->
               IF Contains(given, audit.reserved) THEN audit.reserved ELSE Nothing
          [] job.from # "property" /\ ~file.primary ->
               IF n = 0 THEN Nothing ELSE given[n]
  BY Zenon DEF Caption
<1>4. n # 0 => same(given[n])
  <2> SUFFICES ASSUME n # 0  PROVE same(given[n])
    OBVIOUS
  <2>1. I # {} /\ n = Max(I)
    BY <1>2
  <2>2. Len(given) \in Nat /\ I \in SUBSET (0 .. Len(given))
    BY <1>1
  <2>3. n \in I
    BY <2>1, <2>2, MaxIsIn
  <2> HIDE DEF n
  <2> QED BY <2>3
<1> HIDE DEF given, n
<1>5. CASE job.from = "property"
  BY <1>3, <1>5
<1>6. CASE job.from # "property" /\ file.primary
  BY <1>3, <1>6
<1>7. CASE job.from # "property" /\ ~file.primary
  BY <1>3, <1>4, <1>7
<1> QED BY <1>5, <1>6, <1>7

\* What a job that selected photos for itself finds in the folder.
LEMMA FilesAreItsOwn ==
  ASSUME PhotosInv, job.step = "render", job.from = "selected", ~job.reused,
         NEW file \in Range(job.prepared)
  PROVE  /\ file.photo \in InListing(job.listing)
         /\ job.listing.featured # Nothing =>
              (file.primary <=> file.photo = job.listing.featured)
         /\ job.listing.kind = "curated" /\ file.primary => file.photo = job.reserved
<1> DEFINE l == job.listing
<1>1. /\ job \in Makings /\ l \in Listings /\ job.got \subseteq DOMAIN l.photos
  BY DEF PhotosInv, JobTyped
<1>2. FolderIsChosen /\ job.prepared = InSelected
  BY DEF PhotosInv, Stages
<1>3. \/ ~file.primary /\ file.photo \in Range(dir.slots)
      \/ file.primary /\ file.photo = dir.primary
  <2>1. PICK i \in DOMAIN InSelected : file = InSelected[i]
    BY <1>2 DEF Range
  <2> QED BY <2>1, FoldersAre DEF PhotosInv
<1>4. file.photo \in Photos /\ file.primary \in BOOLEAN
  <2>1. PICK i \in DOMAIN job.prepared : file = job.prepared[i]
    BY DEF Range
  <2>2. job.prepared \in Seq(File)
    BY <1>1, BoundedSequences DEF Makings
  <2>3. file \in File
    BY <2>1, <2>2
  <2> QED BY <2>3 DEF File
<1>5. l.kind \in ListingKinds /\ l.featured \in Photos \cup {Nothing} /\ Nothing \notin Photos
  BY <1>1, ListingsAssumption
<1>6. CASE l.kind = "curated"
  <2>1. /\ dir.slots = job.chosen /\ dir.primary = job.reserved
        /\ Range(job.chosen) \subseteq Own /\ FeaturedIsAside
    BY <1>2, <1>6 DEF FolderIsChosen
  <2>2. CASE file.primary /\ file.photo = dir.primary
    <3>1. file.photo = job.reserved /\ job.reserved # Nothing
      BY <1>4, <1>5, <2>1, <2>2
    <3>2. job.reserved = l.featured
      BY <2>1, <3>1 DEF FeaturedIsAside
    <3> QED BY <2>2, <3>1, <3>2 DEF InListing
  <2>3. CASE ~file.primary /\ file.photo \in Range(dir.slots)
    <3>1. file.photo \in Own
      BY <2>1, <2>3
    <3>2. PICK i \in job.got : file.photo = l.photos[i]
      BY <3>1 DEF Own
    <3>3. file.photo # job.reserved
      BY <3>1 DEF Own
    <3>4. l.featured # Nothing => file.photo # l.featured
      BY <2>1, <3>2, <3>3 DEF FeaturedIsAside
    <3>5. file.photo \in Range(l.photos)
      BY <1>1, <3>2 DEF Range
    <3> QED BY <2>3, <3>4, <3>5 DEF InListing
  <2> QED BY <1>3, <2>2, <2>3
<1>7. CASE l.kind = "status"
  <2>1. /\ dir.slots = <<>> /\ dir.primary \in InListing(l) \ {Nothing}
        /\ l.featured # Nothing => dir.primary = l.featured
    BY <1>2, <1>7 DEF FolderIsChosen
  <2>2. Range(dir.slots) = {}
    BY <2>1 DEF Range
  <2>3. file.primary /\ file.photo = dir.primary
    BY <1>3, <2>2
  <2> QED BY <1>7, <2>1, <2>3
<1> QED BY <1>5, <1>6, <1>7 DEF ListingKinds

\* The files a job renders, and whose the slides are.
LEMMA FilesOfRender ==
  ASSUME PhotosInv, job.step = "render"
  PROVE  LET files == Reordered(Reordered(job.prepared, WantedPhotos), WantedSlides)
         IN  /\ files \in Seq(File) /\ files # <<>>
             /\ Range(files) \subseteq Range(job.prepared)
             /\ Range(WantedPhotos) \cap Positions(job.prepared) # {} =>
                  \A file \in Range(files) :
                    \E p \in Range(WantedPhotos) \cap Positions(job.prepared) :
                      file = job.prepared[p + 1]
<1> DEFINE once == Reordered(job.prepared, WantedPhotos)
           files == Reordered(once, WantedSlides)
<1>1. job.prepared \in Seq(File) /\ job.prepared # <<>>
  BY BoundedSequences DEF PhotosInv, PhotosTypeOK
<1>2. WantedPhotos \in Seq(Nat) /\ WantedSlides \in Seq(Nat)
  BY WantedPositions DEF PhotosInv
<1>3. /\ once \in Seq(File) /\ once # <<>> /\ Range(once) \subseteq Range(job.prepared)
      /\ Range(WantedPhotos) \cap Positions(job.prepared) # {} =>
           \A file \in Range(once) :
             \E p \in Range(WantedPhotos) \cap Positions(job.prepared) :
               file = job.prepared[p + 1]
  BY <1>1, <1>2, ReorderedFiles
<1> HIDE DEF once
<1>4. files \in Seq(File) /\ files # <<>> /\ Range(files) \subseteq Range(once)
  BY <1>2, <1>3, ReorderedFiles
<1> HIDE DEF files
<1>5. /\ files \in Seq(File) /\ files # <<>> /\ Range(files) \subseteq Range(job.prepared)
      /\ Range(WantedPhotos) \cap Positions(job.prepared) # {} =>
           \A file \in Range(files) :
             \E p \in Range(WantedPhotos) \cap Positions(job.prepared) :
               file = job.prepared[p + 1]
  BY <1>3, <1>4
<1> QED BY <1>5 DEF files, once

\* A slide shows a file the job prepared or the featured image, and the first
\* is the featured image whenever the job looked for photos and there is one.
LEMMA SlidesAre ==
  ASSUME PhotosInv, job.step = "render",
         NEW files, files = Reordered(Reordered(job.prepared, WantedPhotos), WantedSlides),
         NEW i \in DOMAIN SlidesOf(files)
  PROVE  \E file \in Range(files) \cup {FeaturedFile} :
           /\ SlidesOf(files)[i] = SlideOf(file)
           /\ file.primary \in BOOLEAN
           /\ file = FeaturedFile =>
                job.listing.featured # Nothing
           /\ i # 1 => file \in Range(files) /\ ~file.primary
           /\ job.listing.featured # Nothing /\ ~job.reused /\ i = 1 =>
                file.photo = job.listing.featured
<1> DEFINE s == SlidesOf(files)
           primary == {file \in Range(files) : file.primary}
           opening == IF primary # {} THEN primary
                      ELSE IF job.listing.featured # Nothing THEN {FeaturedFile} ELSE {}
<1>1. /\ files \in Seq(File) /\ files # <<>> /\ Range(files) \subseteq Range(job.prepared)
  BY FilesOfRender
<1>2. /\ opening # {} => \E file \in opening : s[1] = SlideOf(file)
      /\ \A j \in DOMAIN s : j # 1 \/ opening = {} =>
           \E file \in Range(files) : ~file.primary /\ s[j] = SlideOf(file)
  BY <1>1, SlidesOfFiles
<1>3. \A file \in Range(files) : file.primary \in BOOLEAN /\ file.photo \in Photos
  <2>1. \A file \in Range(files) : file \in File
    BY <1>1 DEF Range
  <2> QED BY <2>1 DEF File
<1>4. FeaturedFile.primary = TRUE /\ FeaturedFile.photo = job.listing.featured
  BY DEF FeaturedFile
<1>5. job.from \in {"selected", "property"}
  BY DEF PhotosInv, JobTyped, Makings
<1>6. job.from = "property" => primary = {}
  <2>1. job.from = "property" => \A k \in DOMAIN job.prepared : ~job.prepared[k].primary
    BY DEF PhotosInv, Stages
  <2> QED BY <1>1, <2>1 DEF Range
<1>7. ASSUME job.from = "selected", ~job.reused, job.listing.featured # Nothing,
             NEW file \in primary
      PROVE  file.photo = job.listing.featured
  BY <1>1, <1>7, FilesAreItsOwn
<1> HIDE DEF s
<1>8. CASE i # 1 \/ opening = {}
  <2>1. PICK file \in Range(files) : ~file.primary /\ s[i] = SlideOf(file)
    BY <1>2, <1>8 DEF s
  <2>2. i = 1 => job.listing.featured = Nothing
    BY <1>8
  <2>3. file # FeaturedFile
    BY <1>4, <2>1
  <2> QED BY <1>3, <2>1, <2>2, <2>3 DEF s
<1>9. CASE i = 1 /\ opening # {}
  <2>1. PICK file \in opening : s[1] = SlideOf(file)
    BY <1>2, <1>9
  <2>2. CASE primary # {}
    <3>1. file \in primary /\ file \in Range(files) /\ file.primary
      BY <2>2
    <3>2. job.from = "selected"
      BY <1>5, <1>6, <2>2
    <3>3. job.listing.featured # Nothing /\ ~job.reused => file.photo = job.listing.featured
      BY <1>7, <3>1, <3>2
    <3>4. file = FeaturedFile => job.listing.featured # Nothing
      <4>1. job.listing.featured \in Photos \cup {Nothing}
        BY ListingsAssumption DEF PhotosInv, JobTyped
      <4>2. file.photo \in Photos
        BY <1>3, <3>1
      <4> QED BY <1>4, <4>2, ListingsAssumption
    <3> QED BY <1>3, <1>9, <2>1, <3>1, <3>3, <3>4 DEF s
  <2>3. CASE primary = {}
    <3>1. job.listing.featured # Nothing /\ file = FeaturedFile
      BY <1>9, <2>3
    <3> QED BY <1>4, <1>9, <2>1, <3>1 DEF s
  <2> QED BY <2>2, <2>3
<1> QED BY <1>8, <1>9

\* The reel is made of what the folder holds.
LEMMA RenderStep ==
  ASSUME PhotosInv, Render
  PROVE  PhotosInv'
<1> DEFINE files == Reordered(Reordered(job.prepared, WantedPhotos), WantedSlides)
           l == job.listing
           s == SlidesOf(files)
<1>1. /\ JobTyped /\ job \in Makings /\ l \in Listings /\ job.step = "render"
  BY DEF PhotosInv, JobTyped, Render
<1>2. /\ video' = [listing |-> l, slides |-> s, job |-> [job EXCEPT !.step = "idle"]]
      /\ job' = NoJob
      /\ UNCHANGED <<folders, catalog, overrides, begun, cleared>>
  <2>1. video' = [listing |-> l, slides |-> s, job |-> [job EXCEPT !.step = "idle"]]
    BY Zenon DEF Render
  <2> QED BY <2>1 DEF Render
<1>3. PhotosTypeOK' /\ JobTyped' /\ Stages' /\ CatalogHolds'
  <2>1. audit' \in [chosen : PhotoSeqs, reserved : Photos \cup {Nothing}]
    BY <1>2 DEF PhotosInv, PhotosTypeOK, folders
  <2> QED BY <1>2, <2>1, JobEnds DEF folders
<1>4. /\ files \in Seq(File) /\ files # <<>> /\ Range(files) \subseteq Range(job.prepared)
      /\ Range(WantedPhotos) \cap Positions(job.prepared) # {} =>
           \A file \in Range(files) :
             \E p \in Range(WantedPhotos) \cap Positions(job.prepared) :
               file = job.prepared[p + 1]
  BY <1>1, FilesOfRender
<1>5. /\ DOMAIN s = 1 .. Len(s) /\ Len(s) >= 1 /\ Len(s) \in Nat
  BY <1>4, SlidesOfFiles
<1> DEFINE Fits(i, file) ==
             /\ s[i] = SlideOf(file)
             /\ file.primary \in BOOLEAN
             /\ file = FeaturedFile => l.featured # Nothing
             /\ i # 1 => file \in Range(files) /\ ~file.primary
             /\ l.featured # Nothing /\ ~job.reused /\ i = 1 => file.photo = l.featured
<1>6. \A i \in DOMAIN s : \E file \in Range(files) \cup {FeaturedFile} : Fits(i, file)
  BY <1>1, SlidesAre
<1> HIDE DEF s, files
<1>7. /\ video'.listing = l /\ video'.slides = s
      /\ video'.job.reused = job.reused /\ video'.job.from = job.from
      /\ video'.job.order = job.order /\ video'.job.prepared = job.prepared
  BY <1>1, <1>2 DEF Makings
<1>8. /\ job.from \in {"selected", "property"} /\ job.reused \in BOOLEAN
      /\ l.featured \in Photos \cup {Nothing} /\ l.kind \in ListingKinds
      /\ Nothing \notin Photos
      /\ (job.reused => l.kind = "status")
  BY <1>1, ListingsAssumption DEF Makings, PhotosInv, Stages
<1>9. FeaturedFile.photo = l.featured /\ FeaturedFile.primary
  BY DEF FeaturedFile
<1>10. PhotosAreItsOwn'
  <2>1. ASSUME NEW i \in DOMAIN s, job.from = "selected", ~job.reused
        PROVE  s[i].photo \in InListing(l)
    <3>1. PICK file \in Range(files) \cup {FeaturedFile} : Fits(i, file)
      BY <1>6
    <3>2. s[i].photo = file.photo
      BY <3>1 DEF SlideOf
    <3>3. CASE file = FeaturedFile
      BY <1>9, <3>2, <3>3 DEF InListing
    <3>4. CASE file \in Range(files)
      BY <1>1, <1>4, <2>1, <3>2, <3>4, FilesAreItsOwn
    <3> QED BY <3>1, <3>3, <3>4
  <2> QED BY <1>7, <1>8, <2>1 DEF PhotosAreItsOwn, Shown
<1>11. CaptionsMatch'
  <2>1. ASSUME l.kind = "curated", NEW i \in DOMAIN s, s[i].caption # Nothing
        PROVE  Basename[s[i].caption] = Basename[s[i].photo]
    <3>1. PICK file \in Range(files) \cup {FeaturedFile} : Fits(i, file)
      BY <1>6
    <3>2. s[i].photo = file.photo /\ s[i].caption = Caption(file)
      BY <3>1 DEF SlideOf
    <3>3. /\ job.from # "property"
          /\ file.primary => Caption(file) = audit.reserved
          /\ ~file.primary => Basename[Caption(file)] = Basename[file.photo]
      BY <2>1, <3>1, <3>2, CaptionIs DEF PhotosInv
    <3>4. job.from = "selected" /\ ~job.reused
      BY <1>8, <2>1, <3>3
    <3>5. audit.reserved = job.reserved /\ FeaturedIsAside
      BY <1>1, <2>1, <3>4 DEF PhotosInv, Stages, FolderIsChosen
    <3>6. CASE ~file.primary
      BY <3>2, <3>3, <3>6
    <3>7. CASE file.primary
      <4>1. s[i].caption = job.reserved /\ job.reserved # Nothing
        BY <2>1, <3>2, <3>3, <3>5, <3>7
      <4>2. job.reserved = l.featured
        BY <3>5, <4>1 DEF FeaturedIsAside
      <4>3. CASE file = FeaturedFile
        BY <1>9, <3>2, <4>1, <4>2, <4>3
      <4>4. CASE file \in Range(files)
        BY <1>1, <1>4, <2>1, <3>2, <3>4, <3>7, <4>1, <4>4, FilesAreItsOwn
      <4> QED BY <3>1, <4>3, <4>4
    <3> QED BY <3>1, <3>6, <3>7
  <2> QED BY <1>7, <2>1 DEF CaptionsMatch, Shown
<1>12. FeaturedFirst'
  <2>1. ASSUME ~job.reused, l.featured # Nothing  PROVE s[1].photo = l.featured
    <3>1. 1 \in DOMAIN s
      BY <1>5
    <3>2. PICK file \in Range(files) \cup {FeaturedFile} : Fits(1, file)
      BY <1>6, <3>1
    <3> QED BY <2>1, <3>2 DEF SlideOf
  <2>2. ASSUME ~job.reused, l.featured # Nothing, job.from = "selected",
               NEW i \in DOMAIN s, s[i].photo = l.featured
        PROVE  i = 1
    <3>1. PICK file \in Range(files) \cup {FeaturedFile} : Fits(i, file)
      BY <1>6
    <3> SUFFICES ASSUME i # 1  PROVE FALSE
      OBVIOUS
    <3>2. file \in Range(files) /\ ~file.primary /\ file.photo = l.featured
      BY <2>2, <3>1 DEF SlideOf
    <3> QED BY <1>1, <1>4, <2>2, <3>2, FilesAreItsOwn
  <2> QED BY <1>7, <2>1, <2>2 DEF FeaturedFirst
<1>13. OnlySelectedShown'
  <2> DEFINE selected == {e \in Range(job.order) : e.selected}
             taken == {e \in selected : e.position < Len(job.prepared)}
             inPlace == \A e \in taken :
                          /\ e.position + 1 \in DOMAIN l.photos
                          /\ job.prepared[e.position + 1].photo = l.photos[e.position + 1]
  <2>1. ASSUME job.order # Nothing, taken # {}, inPlace, NEW i \in DOMAIN s
        PROVE  \/ s[i].photo = l.featured
               \/ \E e \in selected : /\ e.position + 1 \in DOMAIN l.photos
                                     /\ s[i].photo = l.photos[e.position + 1]
    <3>1. Range(WantedPhotos) = {e.position : e \in selected}
      BY <1>1, <2>1, WantedPositions
    <3>2. \A e \in Range(job.order) : e.position \in Nat
      <4>1. job.order \in Seq(Choice)
        BY <1>1, <2>1 DEF Makings
      <4>2. \A e \in Range(job.order) : e \in Choice
        BY <4>1 DEF Range
      <4> QED BY <4>2 DEF Choice
    <3>3. Len(job.prepared) \in Nat
      BY <1>1, BoundedSequences DEF Makings
    <3>4. Range(WantedPhotos) \cap Positions(job.prepared) # {}
      <4>1. PICK e \in taken : TRUE
        BY <2>1
      <4>2. e.position \in Positions(job.prepared)
        BY <3>2, <3>3, <4>1 DEF Positions
      <4> QED BY <3>1, <4>1, <4>2
    <3>5. PICK file \in Range(files) \cup {FeaturedFile} : Fits(i, file)
      BY <1>6
    <3>6. s[i].photo = file.photo
      BY <3>5 DEF SlideOf
    <3>7. CASE file = FeaturedFile
      BY <1>9, <3>6, <3>7
    <3>8. CASE file \in Range(files)
      <4>1. PICK p \in Range(WantedPhotos) \cap Positions(job.prepared) :
              file = job.prepared[p + 1]
        BY <1>4, <3>4, <3>8
      <4>2. PICK e \in selected : e.position = p
        BY <3>1, <4>1
      <4>3. e \in taken
        BY <3>3, <4>1, <4>2 DEF Positions
      <4>4. /\ e.position + 1 \in DOMAIN l.photos
            /\ job.prepared[e.position + 1].photo = l.photos[e.position + 1]
        BY <2>1, <4>3
      <4> QED BY <3>6, <4>1, <4>2, <4>4
    <3> QED BY <3>5, <3>7, <3>8
  <2> HIDE DEF taken, inPlace
  <2>2. ASSUME NEW slide \in Shown', ~job.reused, job.order # Nothing, taken # {}, inPlace
        PROVE  \/ slide.photo = l.featured
               \/ \E e \in selected : /\ e.position + 1 \in DOMAIN l.photos
                                     /\ slide.photo = l.photos[e.position + 1]
    <3>1. PICK i \in DOMAIN s : slide = s[i]
      BY <1>7 DEF Shown
    <3> QED BY <2>1, <2>2, <3>1
  <2> QED BY <1>7, <2>2 DEF OnlySelectedShown, taken, inPlace
<1> QED BY <1>3, <1>10, <1>11, <1>12, <1>13 DEF PhotosInv, ShowsItsListing, FeaturedAndSelected

\* Every step keeps the invariant.
LEMMA PhotosNextInv ==
  ASSUME PhotosInv, [PhotosNext]_photosVars
  PROVE  PhotosInv'
<1>1. CASE \E l \in Listings : IngestPhotos(l)
  BY <1>1, IngestStep
<1>2. CASE Clear
  BY <1>2, ClearStep
<1>3. CASE \E got \in SUBSET (1..Cardinality(Photos)) : Download(got)
  BY <1>3, DownloadStep
<1>4. CASE \E ok \in BOOLEAN : Feature(ok)
  BY <1>4, FeatureStep
<1>5. CASE \E answer \in Answers : Classify(answer)
  BY <1>5, ClassifyStep
<1>6. CASE \E answer \in Answers, n \in 0..(Cardinality(Photos) - 1) : ClassifyFails(answer, n)
  <2>1. PICK answer \in Answers, n \in 0..(Cardinality(Photos) - 1) : ClassifyFails(answer, n)
    BY <1>6
  <2>2. n \in Nat
    BY HowMany
  <2> QED BY <2>1, <2>2, ClassifyFailsStep
<1>7. CASE Move
  BY <1>7, MoveStep
<1>8. CASE StorePrimary
  BY <1>8, StorePrimaryStep
<1>9. CASE PrimaryOnly
  BY <1>9, PrimaryOnlyStep
<1>10. CASE Persist
  BY <1>10, PersistStep
<1>11. CASE Render
  BY <1>11, RenderStep
<1>12. CASE Abandon
  BY <1>12, AbandonStep
<1>13. CASE \E o \in Orders : EditPhotos(o)
  BY <1>13, EditPhotosStep
<1>14. CASE \E m \in Manifests : EditSlides(m)
  BY <1>14, EditSlidesStep
<1>15. CASE UNCHANGED photosVars
  BY <1>15, PhotosStutter
<1> QED BY <1>1, <1>2, <1>3, <1>4, <1>5, <1>6, <1>7, <1>8, <1>9, <1>10, <1>11, <1>12,
           <1>13, <1>14, <1>15 DEF PhotosNext

\* The invariant of the photos of a reel.
THEOREM PhotosAlways == PhotosSpec => []PhotosInv
<1>1. PhotosInv /\ [PhotosNext]_photosVars => PhotosInv'
  BY PhotosNextInv
<1> QED BY <1>1, PhotosInitInv, PTL DEF PhotosSpec

\* The catalog names the right files.
THEOREM PhotosCatalogPathsHold == PhotosSpec => []CatalogPathsHold
<1>1. PhotosInv => CatalogPathsHold
  BY DEF PhotosInv, CatalogPathsHold, CatalogHolds
<1> QED BY <1>1, PhotosAlways, PTL

\* A reel shows its own listing.
THEOREM PhotosShowsItsListing == PhotosSpec => []ShowsItsListing
<1>1. PhotosInv => ShowsItsListing
  BY DEF PhotosInv
<1> QED BY <1>1, PhotosAlways, PTL

\* The featured image opens a reel, and the photos the editor selected are what
\* it shows, where the positions of the catalog and the prepared photos agree.
THEOREM PhotosFeaturedAndSelected == PhotosSpec => []FeaturedAndSelected
<1>1. PhotosInv => FeaturedAndSelected
  BY DEF PhotosInv
<1> QED BY <1>1, PhotosAlways, PTL
=============================================================================
