----------------------------- MODULE CatalogRows -----------------------------
(***************************************************************************)
(* Which row of the catalog a delivered listing becomes.  Three readers of *)
(* one payload were written apart: the webhook reads a property id for the *)
(* queue, the pipeline reads the id and the columns of the row, and an     *)
(* edit queues the payload on record under the id of the row.              *)
(*                                                                         *)
(* The statements inside an enqueueing or a claim are in JobQueue, the     *)
(* signature is in AgencyAdmin, the images are in ReelPhotos.              *)
(***************************************************************************)
EXTENDS Integers, Sequences

CONSTANTS
  None,
  Deliveries,  \* requests of websites: header, body (a JSON value: a sequence
               \* of objects stands for an array), and whether it is an array
  Sites,       \* hosts that are registered
  Addresses,   \* texts with an @
  Numbers,     \* texts without an @ and with six digits or more
  Colours,     \* texts that are hexadecimal colours
  Plain(_),    \* the slug a text is normalised to, None when nothing is left
  Crc(_),      \* zlib.crc32 of a value as text
  Int4Max,     \* the largest number an integer column holds
  MaxJobs,     \* bound: jobs
  MaxToggles,  \* bound: changes of showAgentPhoto
  MaxFaults,   \* bound: failures that the listing is not the cause of
  MaxTries     \* job_max_attempts

VARIABLES
  jobs,     \* in the order they were queued
  rows,     \* properties: from a site and a source_property_id to the columns
  shown,    \* the agency's showAgentPhoto
  toggles, faults   \* how many there were

vars == <<jobs, rows, shown, toggles, faults>>

-----------------------------------------------------------------------------
(* JSON values.  A value is None or [kind, n]: a whole number, the same in   *)
(* digits, written otherwise ("1,200", 12.0), words, or "inf".               *)

Kinds == {"whole", "digits", "loose", "words", "infinite"}
Of(value, kinds) == value # None /\ value.kind \in kinds

\* Mutant of KeyOf: the webhook falls back on importer_id as well.
KeyWithImporter(p) ==
  IF Of(p.id, {"whole", "digits"}) THEN p.id.n
  ELSE IF Of(p.importer, {"whole", "digits"}) THEN p.importer.n ELSE None

\* _extract_property_id: what the queue knows the property by.
KeyOf(p) == IF Of(p.id, {"whole", "digits"}) THEN p.id.n ELSE None

\* to_int also reads what is written otherwise, and cannot convert infinity.
ToInt(value) ==
  IF Of(value, {"whole", "digits", "loose"}) THEN value.n ELSE None
Overflows(value) == Of(value, {"infinite"})

Unknown == [kind |-> "words", n |-> 0]

\* The first value there is, as the seed of a number.
Seed(p) == IF p.id # None THEN p.id
           ELSE IF p.importer # None THEN p.importer
           ELSE IF p.slug # None THEN p.slug ELSE Unknown

\* What the catalog knows the property by.
RowKey(p) ==
  IF ToInt(p.id) # None THEN ToInt(p.id)
  ELSE IF ToInt(p.importer) # None THEN ToInt(p.importer) ELSE Crc(Seed(p))

\* normalise_slug, with the id for a listing without one.
Slug(p) ==
  LET id == [kind |-> "whole", n |-> RowKey(p)]
  IN  IF p.slug = None THEN <<"property", RowKey(p)>>
      ELSE IF Plain(p.slug) # None THEN <<Plain(p.slug)>>
      ELSE <<"property", Crc(id)>>

\* _resolve_agent_contact: agent_mobile, agent_phone, or a number that was
\* written in agent_email.
Mobile(p) ==
  IF p.mobile # None THEN p.mobile
  ELSE IF p.phone # None THEN p.phone
  ELSE IF p.email \in Numbers THEN p.email ELSE None
Email(p) == IF p.email \in Addresses THEN p.email ELSE None

Accent(p) == IF p.accent \in Colours THEN p.accent ELSE None

\* The conversion of one of these fields raises, or its column refuses it.
Unfit(p) ==
  \/ Overflows(p.id)
  \/ ToInt(p.id) = None /\ Overflows(p.importer)
  \/ Overflows(p.beds)
  \/ ToInt(p.beds) # None /\ ToInt(p.beds) > Int4Max

\* Mutant of Columns: the switch decides on more than the photo.
SwitchedColumns(p, withPhoto) ==
  [slug |-> Slug(p), beds |-> ToInt(p.beds), mobile |-> Mobile(p),
   email |-> Email(p), accent |-> IF withPhoto THEN Accent(p) ELSE None,
   photo |-> IF withPhoto THEN p.photo ELSE None, raw |-> p]

\* The record that is stored of a listing, with the listing itself.  (beds
\* stands for the columns of numbers, accent for the two colours.)
Columns(p, withPhoto) ==
  [slug |-> Slug(p), beds |-> ToInt(p.beds), mobile |-> Mobile(p),
   email |-> Email(p), accent |-> Accent(p),
   photo |-> IF withPhoto THEN p.photo ELSE None, raw |-> p]

-----------------------------------------------------------------------------
(* Whose listing it is.  A host is [name, port]; a link is a host or, when   *)
(* it has no host in it, [name |-> None].                                    *)

Bare(host) == [host EXCEPT !.port = None]
Linked(link) == link # None /\ link.name # None

\* _resolve_site_id: fields of their own lose the port, links keep it.
SiteId(p) ==
  IF p.domain # None THEN Bare(p.domain)
  ELSE IF p.site # None THEN Bare(p.site)
  ELSE IF Linked(p.link) THEN p.link
  ELSE IF Linked(p.guid) THEN p.guid ELSE None

\* _parse_webhook_payload: an object, or an array of one.
Parsed(delivery) ==
  IF delivery.array /\ Len(delivery.body) # 1 THEN None ELSE delivery.body[1]

\* The header names the site, the payload does when there is none.
SiteOf(delivery) ==
  IF delivery.header # None THEN delivery.header ELSE SiteId(Parsed(delivery))

\* The listings websites send.
Payloads == {Parsed(delivery) : delivery \in Deliveries} \ {None}

ASSUME CatalogAssumption ==
  /\ MaxJobs \in Nat /\ MaxToggles \in Nat /\ MaxFaults \in Nat /\ MaxTries \in Nat \ {0}
  /\ None \notin Nat
  /\ \A p \in Payloads :
       /\ RowKey(p) \in Nat
       /\ KeyOf(p) \in Nat \cup {None}

-----------------------------------------------------------------------------
(* The queue. *)

Job(kind, site, key, p) ==
  [kind |-> kind, site |-> site, key |-> key, payload |-> p,
   status |-> "queued", tries |-> 0, by |-> None, withPhoto |-> TRUE]

Twins(i, site, key) == key # None /\ jobs[i].site = site /\ jobs[i].key = key

\* supersede_queued_jobs and enqueue_job: a job without a key supersedes none.
Enqueue(job) ==
  /\ Len(jobs) < MaxJobs
  /\ jobs' = Append([i \in DOMAIN jobs |->
                       IF jobs[i].status = "queued" /\ Twins(i, job.site, job.key)
                         THEN [jobs[i] EXCEPT !.status = "superseded",
                                              !.by = Len(jobs) + 1]
                         ELSE jobs[i]], job)

Deliver(delivery) ==
  LET p == Parsed(delivery)
  IN  /\ p # None
      /\ SiteOf(delivery) \in Sites
      /\ Enqueue(Job("webhook", SiteOf(delivery), KeyOf(p), p))
      /\ UNCHANGED <<rows, shown, toggles, faults>>

\* An edit queues the payload on record, under the id of the row.
Ask(site, key) ==
  /\ Enqueue(Job("edit", site, key, rows[<<site, key>>].raw))
  /\ UNCHANGED <<rows, shown, toggles, faults>>

UnderWay(i) == jobs[i].status \in {"processing", "stored", "prepared"}
Blocked(i) ==
  \E k \in DOMAIN jobs : UnderWay(k) /\ Twins(k, jobs[i].site, jobs[i].key)

\* The oldest job first, but for those that wait for a retry.  Jobs of one key
\* take turns; one without a key waits for none.
Claim(i) ==
  /\ jobs[i].status = "queued" /\ ~Blocked(i)
  /\ \A k \in 1..(i - 1) :
       jobs[k].status = "queued" /\ jobs[k].tries = 0 => Blocked(k)
  /\ jobs' = [jobs EXCEPT ![i].status = "processing", ![i].tries = @ + 1]
  /\ UNCHANGED <<rows, shown, toggles, faults>>

Target(job) == <<job.site, RowKey(job.payload)>>

\* upsert_property: every column is replaced.
Upsert(job, withPhoto) ==
  rows' = [t \in DOMAIN rows \cup {Target(job)} |->
             IF t = Target(job) THEN Columns(job.payload, withPhoto) ELSE rows[t]]

\* The ingestion reads the payload and the switch, and stores the listing ...
Ingest(i) ==
  /\ jobs[i].status = "processing"
  /\ ~Unfit(jobs[i].payload)
  /\ Upsert(jobs[i], shown)
  /\ jobs' = [jobs EXCEPT ![i].status = "stored", ![i].withPhoto = shown]
  /\ UNCHANGED <<shown, toggles, faults>>

\* ... and the preparation stores what the ingestion read once more.
Prepare(i) ==
  /\ jobs[i].status = "stored"
  /\ Upsert(jobs[i], jobs[i].withPhoto)
  /\ jobs' = [jobs EXCEPT ![i].status = "prepared"]
  /\ UNCHANGED <<shown, toggles, faults>>

\* A conversion or the database raised; or something else did, in any stage.
Fail(i) ==
  /\ UnderWay(i)
  /\ \/ jobs[i].status = "processing" /\ Unfit(jobs[i].payload) /\ UNCHANGED faults
     \/ faults < MaxFaults /\ faults' = faults + 1
  /\ jobs' = [jobs EXCEPT ![i].status =
                IF jobs[i].tries < MaxTries THEN "queued" ELSE "failed"]
  /\ UNCHANGED <<rows, shown, toggles>>

\* A run that finds nothing to render or post ends after the ingestion.
Complete(i) ==
  /\ jobs[i].status \in {"stored", "prepared"}
  /\ jobs' = [jobs EXCEPT ![i].status = "completed"]
  /\ UNCHANGED <<rows, shown, toggles, faults>>

Toggle ==
  /\ toggles < MaxToggles
  /\ toggles' = toggles + 1
  /\ shown' = ~shown
  /\ UNCHANGED <<jobs, rows, faults>>

Init == jobs = <<>> /\ rows = << >> /\ shown \in BOOLEAN /\ toggles = 0 /\ faults = 0

Next ==
  \/ \E delivery \in Deliveries : Deliver(delivery)
  \/ \E t \in DOMAIN rows : Ask(t[1], t[2])
  \/ \E i \in DOMAIN jobs :
       Claim(i) \/ Ingest(i) \/ Prepare(i) \/ Fail(i) \/ Complete(i)
  \/ Toggle

Spec == Init /\ [][Next]_vars

-----------------------------------------------------------------------------
Statuses == {"queued", "processing", "stored", "prepared", "completed",
             "failed", "superseded"}

Jobs == [kind : {"webhook", "edit"}, site : Sites, key : Nat \cup {None},
         payload : Payloads, status : Statuses, tries : 0..MaxTries,
         by : Nat \cup {None}, withPhoto : BOOLEAN]

TypeOK ==
  /\ jobs \in Seq(Jobs)
  /\ DOMAIN rows \subseteq Sites \X Nat
  /\ \A t \in DOMAIN rows : rows[t].raw \in Payloads
  /\ shown \in BOOLEAN /\ toggles \in 0..MaxToggles /\ faults \in 0..MaxFaults

\* The queue reads the id of a listing more strictly than the catalog does:
\* where it reads one at all, it is that of the row.  So an edit's job writes
\* the row that was edited, a listing is discarded only for another of the same
\* row, and two jobs write one row at a time only if one came without a key.
KeyTellsRow ==
  /\ TypeOK
  /\ \A i \in DOMAIN jobs :
       /\ jobs[i].kind = "edit" => Target(jobs[i]) = <<jobs[i].site, jobs[i].key>>
       /\ jobs[i].status = "superseded" =>
            /\ jobs[i].by \in DOMAIN jobs
            /\ Target(jobs[jobs[i].by]) = Target(jobs[i])
  /\ \A i, k \in DOMAIN jobs :
       /\ i # k /\ UnderWay(i) /\ UnderWay(k)
       /\ Target(jobs[i]) = Target(jobs[k])
       => None \in {jobs[i].key, jobs[k].key}

\* An edit renders the payload on record and stores what it reads from it: if
\* no listing came in between, that changes no column and makes no other row,
\* but for the photo of the agent, which the agency may have hidden meanwhile.
EditsKeepTheListing ==
  [][\A i \in DOMAIN jobs :
       LET t == <<jobs[i].site, jobs[i].key>>
       IN  /\ jobs[i].kind = "edit"
           /\ jobs'[i].status \in {"stored", "prepared"} \ {jobs[i].status}
           /\ rows[t].raw = jobs[i].payload
           => \E photo \in {None, jobs[i].payload.photo} :
                rows' = [rows EXCEPT ![t].photo = photo]]_vars
=============================================================================
