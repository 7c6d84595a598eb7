---------------------------- MODULE AgencyProofs ----------------------------
(***************************************************************************)
(* Proofs about the agencies.                                              *)
(*                                                                         *)
(* AgencyAdmin, for any number of agencies, sites, API processes, requests *)
(* and deliveries: jobs stay with the site and the agency they were        *)
(* accepted for, nothing unsigned is queued, and a session token changes   *)
(* nothing of another agency.                                              *)
(*                                                                         *)
(* AgencySettings, the settings of an agency and the slots of its posts,   *)
(* for any catalog, request bodies, rules and length of the day.  First    *)
(* lemmas about compute_next_publish_slot alone: a slot is reached from    *)
(* the end of the hold without passing over an opening it might have used  *)
(* (Reached), each of the three shifts keeps that, and the last one lands  *)
(* inside the window.  Then the inductive invariant: the rows are what     *)
(* valid bodies make of them, and the job's notes are in the order of the  *)
(* clock.  Then what the three properties add to it.                       *)
(***************************************************************************)
EXTENDS AgencyAdmin, AgencySettings, TLAPS

-----------------------------------------------------------------------------
(* AgencyAdmin *)

(* The inductive invariant. *)

\* Ids are given once: whatever has a row was born.
Fresh == DOMAIN agencies \cup DOMAIN sources \subseteq born

\* Connections and sources belong to agencies that are there.
Housed ==
  /\ DOMAIN connections \subseteq DOMAIN agencies
  /\ \A i \in DOMAIN sources : sources[i].agency \in DOMAIN agencies

\* What JobsBelongToTheirSite says of the jobs.
JobsHoused ==
  \A j \in jobs :
    /\ j.agency \in DOMAIN agencies
    /\ j.source \in DOMAIN sources
    /\ sources[j.source].agency = j.agency
    /\ sources[j.source].site = j.site

\* A delivery that waits knows the secret in force, or is marked.
WaitingSigned ==
  \A p \in Processes : delivery[p] # Idle =>
    delivery[p].key = InForce[delivery[p].site] \/ delivery[p].overtaken

Inv == /\ AdminTypeOK
       /\ Fresh
       /\ Housed
       /\ JobsHoused

-----------------------------------------------------------------------------
(* What the actions have in common. *)

Key == Keys \cup {None}

\* The secret in force is a secret or none.
LEMMA ExpectedType ==
  ASSUME AdminTypeOK, NEW site \in Sites
  PROVE  Expected(site) \in Key
<1>1. EnvKey[site] \in Key
  BY EnvKeyAssumption DEF Key
<1> DEFINE rows == {i \in DOMAIN sources : sources[i].site = site}
<1>2. CASE \E i \in rows : sources[i].key # None
  <2>1. (CHOOSE i \in rows : TRUE) \in rows
    BY <1>2
  <2>2. sources[CHOOSE i \in rows : TRUE].key \in Key
    BY <2>1 DEF AdminTypeOK, Source, Key
  <2> QED
    BY <1>2, <2>2 DEF Expected
<1>3. CASE ~\E i \in rows : sources[i].key # None
  BY <1>1, <1>3 DEF Expected
<1> QED
  BY <1>2, <1>3

\* Whatever changes the sources leaves the deliveries what they are.
LEMMA OvertakenType ==
  ASSUME AdminTypeOK, Overtaken
  PROVE  delivery' \in [Processes -> Verified \cup {Idle}]
<1>1. ASSUME NEW p \in Processes, delivery[p] # Idle
      PROVE  [delivery[p] EXCEPT !.overtaken = TRUE] \in Verified
  <2>1. delivery[p] \in Verified
    BY <1>1 DEF AdminTypeOK
  <2> QED
    BY <2>1 DEF Verified
<1> QED
  BY <1>1 DEF Overtaken, AdminTypeOK

\* A request is counted and its caller is known.
LEMMA BeginType ==
  ASSUME AdminTypeOK, NEW who \in {"admin"} \cup tokens, Begin(who)
  PROVE  /\ requests' \in 0..MaxRequests
         /\ caller' \in {"admin"} \cup AgencyIds
         /\ deliveries' \in 0..MaxDeliveries
BY BoundsAssumption DEF AdminTypeOK, Begin

\* A slug is made of a slug or of a name.
LEMMA SlugType ==
  ASSUME NEW s \in Slugs \cup {None}, NEW n \in Names
  PROVE  SlugOf[First(s, n)] \in Slugs
BY SlugAssumption DEF First

\* A row of an agency that is put, or changed, leaves the others alone.
LEMMA InsertAgencyFacts ==
  ASSUME AdminTypeOK, NEW a \in AgencyIds, NEW n \in Names, NEW s \in Slugs,
         InsertAgency(a, n, s)
  PROVE  /\ DOMAIN agencies' = DOMAIN agencies \cup {a}
         /\ DOMAIN agencies' \subseteq AgencyIds
         /\ \A b \in DOMAIN agencies' : agencies'[b] \in Agency
<1> DEFINE new == [name |-> n, slug |-> s]
<1>1. new \in Agency
  BY DEF Agency
<1>2. agencies' = Put(agencies, a, new)
  BY DEF InsertAgency
<1> QED
  BY <1>1, <1>2 DEF AdminTypeOK, Put

LEMMA UpdateAgencyFacts ==
  ASSUME AdminTypeOK, NEW a, NEW n \in Names, NEW s \in Slugs, UpdateAgency(a, n, s)
  PROVE  /\ DOMAIN agencies' = DOMAIN agencies
         /\ \A b \in DOMAIN agencies' : agencies'[b] \in Agency
         /\ \A b \in DOMAIN agencies' \ {a} : agencies'[b] = agencies[b]
BY DEF AdminTypeOK, UpdateAgency, Agency

LEMMA InsertSourceFacts ==
  ASSUME AdminTypeOK, NEW i \in SourceIds \ DOMAIN sources, NEW a \in AgencyIds,
         NEW site \in Sites, NEW key \in Key, NEW active \in BOOLEAN,
         InsertSource(i, a, site, key, active)
  PROVE  /\ DOMAIN sources' = DOMAIN sources \cup {i}
         /\ DOMAIN sources' \subseteq SourceIds
         /\ \A k \in DOMAIN sources' : sources'[k] \in Source
         /\ \A k \in DOMAIN sources : sources'[k] = sources[k]
         /\ sources'[i].agency = a
<1> DEFINE new == [agency |-> a, site |-> site, key |-> key, active |-> active]
<1>1. new \in Source
  BY DEF Source, Key
<1>2. sources' = Put(sources, i, new)
  BY DEF InsertSource
<1> QED
  BY <1>1, <1>2 DEF AdminTypeOK, Put

LEMMA UpdateSourceFacts ==
  ASSUME AdminTypeOK, NEW i \in DOMAIN sources, NEW key \in Key \cup {Omitted},
         NEW active \in BOOLEAN, UpdateSource(i, key, active)
  PROVE  /\ DOMAIN sources' = DOMAIN sources
         /\ \A k \in DOMAIN sources' : sources'[k] \in Source
         /\ \A k \in DOMAIN sources \ {i} : sources'[k] = sources[k]
         /\ \A k \in DOMAIN sources : /\ sources'[k].agency = sources[k].agency
                                      /\ sources'[k].site = sources[k].site
<1>1. sources[i] \in Source
  BY DEF AdminTypeOK
<1>2. NextKey(i, key) \in Key
  BY <1>1 DEF NextKey, Source, Key
<1> QED
  BY <1>1, <1>2 DEF AdminTypeOK, UpdateSource, Source, Key

-----------------------------------------------------------------------------
(* Each action keeps the invariant. *)

LEMMA RegisterKeeps ==
  ASSUME Inv, NEW who \in {"admin"} \cup tokens, NEW n \in Names,
         NEW s \in Slugs \cup {None}, Register(who, n, s)
  PROVE  Inv'
<1> USE DEF Inv
<1>1. PICK a \in AgencyIds \ born : /\ InsertAgency(a, n, SlugOf[First(s, n)])
                                    /\ born' = born \cup {a}
  BY DEF Register
<1>2. SlugOf[First(s, n)] \in Slugs
  BY SlugType
<1>3. /\ DOMAIN agencies' = DOMAIN agencies \cup {a}
      /\ DOMAIN agencies' \subseteq AgencyIds
      /\ \A b \in DOMAIN agencies' : agencies'[b] \in Agency
  BY <1>1, <1>2, InsertAgencyFacts
<1>4. AdminTypeOK'
  BY <1>1, <1>3, BeginType DEF AdminTypeOK, Register
<1>5. Fresh'
  BY <1>1, <1>3 DEF Fresh, Register
<1>6. Housed'
  BY <1>3 DEF Housed, Register
<1>7. JobsHoused'
  BY <1>3 DEF JobsHoused, Register
<1> QED
  BY <1>4, <1>5, <1>6, <1>7

LEMMA ReconfigureKeeps ==
  ASSUME Inv, NEW who \in {"admin"} \cup tokens, NEW a \in AgencyIds,
         NEW n \in Names \cup {None}, NEW s \in Slugs \cup {None},
         Reconfigure(who, a, n, s)
  PROVE  Inv'
<1> USE DEF Inv
<1>1. agencies[a] \in Agency
  BY DEF Reconfigure, AdminTypeOK
<1>2. First(n, agencies[a].name) \in Names
  BY <1>1 DEF First, Agency
<1>3. NextSlug(a, n, s) \in Slugs
  <2>1. CASE n = None /\ s = None
    BY <1>1, <2>1 DEF NextSlug, Agency
  <2>2. CASE ~(n = None /\ s = None)
    BY <2>2, SlugAssumption DEF NextSlug, First
  <2> QED
    BY <2>1, <2>2
<1>4. /\ DOMAIN agencies' = DOMAIN agencies
      /\ \A b \in DOMAIN agencies' : agencies'[b] \in Agency
  BY <1>2, <1>3, UpdateAgencyFacts DEF Reconfigure
<1>5. AdminTypeOK'
  BY <1>4, BeginType DEF AdminTypeOK, Reconfigure
<1>6. Fresh' /\ Housed' /\ JobsHoused'
  BY <1>4 DEF Fresh, Housed, JobsHoused, Reconfigure
<1> QED
  BY <1>5, <1>6

LEMMA DecommissionAgencyKeeps ==
  ASSUME Inv, NEW who \in {"admin"} \cup tokens, NEW a \in AgencyIds,
         DecommissionAgency(who, a)
  PROVE  Inv'
<1> USE DEF Inv
<1>1. /\ DOMAIN agencies' = DOMAIN agencies \ {a}
      /\ \A b \in DOMAIN agencies' : agencies'[b] = agencies[b]
  BY DEF DecommissionAgency, Without
<1>2. /\ DOMAIN sources' = DOMAIN sources \ SourcesOf(a)
      /\ \A i \in DOMAIN sources' : sources'[i] = sources[i]
  BY DEF DecommissionAgency, Without
<1>3. /\ DOMAIN connections' = DOMAIN connections \ {a}
      /\ \A b \in DOMAIN connections' : connections'[b] = connections[b]
  BY DEF DecommissionAgency, Without
<1>4. AdminTypeOK'
  <2>1. delivery' \in [Processes -> Verified \cup {Idle}]
    BY OvertakenType DEF DecommissionAgency
  <2> QED
    BY <1>1, <1>2, <1>3, <2>1, BeginType DEF AdminTypeOK, DecommissionAgency
<1>5. Fresh'
  BY <1>1, <1>2 DEF Fresh, DecommissionAgency
<1>6. Housed'
  BY <1>1, <1>2, <1>3 DEF Housed, SourcesOf
<1>7. JobsHoused'
  <2>1. \A j \in jobs : j.agency # a /\ j.source \notin SourcesOf(a)
    BY DEF DecommissionAgency, Unreferenced
  <2> QED
    BY <1>1, <1>2, <2>1 DEF JobsHoused, DecommissionAgency
<1> QED
  BY <1>4, <1>5, <1>6, <1>7

LEMMA RegisterSourceKeeps ==
  ASSUME Inv, NEW who \in {"admin"} \cup tokens, NEW a \in AgencyIds,
         NEW site \in Sites, NEW key \in Key, NEW active \in BOOLEAN,
         RegisterSource(who, a, site, key, active)
  PROVE  Inv'
<1> USE DEF Inv
<1>1. PICK i \in SourceIds \ born : /\ InsertSource(i, a, site, key, active)
                                    /\ born' = born \cup {i}
  BY DEF RegisterSource
<1>2. i \in SourceIds \ DOMAIN sources
  BY <1>1 DEF Fresh
<1>3. /\ DOMAIN sources' = DOMAIN sources \cup {i}
      /\ DOMAIN sources' \subseteq SourceIds
      /\ \A k \in DOMAIN sources' : sources'[k] \in Source
      /\ \A k \in DOMAIN sources : sources'[k] = sources[k]
      /\ sources'[i].agency = a
  BY <1>1, <1>2, InsertSourceFacts
<1>4. AdminTypeOK'
  <2>1. delivery' \in [Processes -> Verified \cup {Idle}]
    BY OvertakenType DEF RegisterSource
  <2> QED
    BY <1>1, <1>3, <2>1, BeginType DEF AdminTypeOK, RegisterSource
<1>5. Fresh'
  BY <1>1, <1>3 DEF Fresh, RegisterSource
<1>6. Housed'
  BY <1>3 DEF Housed, RegisterSource
<1>7. JobsHoused'
  BY <1>3 DEF JobsHoused, RegisterSource
<1> QED
  BY <1>4, <1>5, <1>6, <1>7

LEMMA ReconfigureSourceKeeps ==
  ASSUME Inv, NEW who \in {"admin"} \cup tokens, NEW a \in AgencyIds,
         NEW i \in DOMAIN sources, NEW key \in Key \cup {Omitted},
         NEW active \in BOOLEAN, ReconfigureSource(who, a, i, key, active)
  PROVE  Inv'
<1> USE DEF Inv
<1>1. /\ DOMAIN sources' = DOMAIN sources
      /\ \A k \in DOMAIN sources' : sources'[k] \in Source
      /\ \A k \in DOMAIN sources : /\ sources'[k].agency = sources[k].agency
                                   /\ sources'[k].site = sources[k].site
  BY UpdateSourceFacts DEF ReconfigureSource
<1>2. AdminTypeOK'
  <2>1. delivery' \in [Processes -> Verified \cup {Idle}]
    BY OvertakenType DEF ReconfigureSource
  <2> QED
    BY <1>1, <2>1, BeginType DEF AdminTypeOK, ReconfigureSource
<1>3. Fresh' /\ Housed' /\ JobsHoused'
  BY <1>1 DEF Fresh, Housed, JobsHoused, ReconfigureSource
<1> QED
  BY <1>2, <1>3

LEMMA DecommissionSourceKeeps ==
  ASSUME Inv, NEW who \in {"admin"} \cup tokens, NEW a \in AgencyIds,
         NEW i \in DOMAIN sources, DecommissionSource(who, a, i)
  PROVE  Inv'
<1> USE DEF Inv
<1>1. /\ DOMAIN sources' = DOMAIN sources \ {i}
      /\ \A k \in DOMAIN sources' : sources'[k] = sources[k]
  BY DEF DecommissionSource, Without
<1>2. AdminTypeOK'
  <2>1. delivery' \in [Processes -> Verified \cup {Idle}]
    BY OvertakenType DEF DecommissionSource
  <2> QED
    BY <1>1, <2>1, BeginType DEF AdminTypeOK, DecommissionSource
<1>3. Fresh' /\ Housed'
  BY <1>1 DEF Fresh, Housed, DecommissionSource
<1>4. JobsHoused'
  <2>1. \A j \in jobs : j.source # i
    BY DEF DecommissionSource, Unreferenced
  <2> QED
    BY <1>1, <2>1 DEF JobsHoused, DecommissionSource
<1> QED
  BY <1>2, <1>3, <1>4

LEMMA ProvisionNewKeeps ==
  ASSUME Inv, NEW who \in {"admin"} \cup tokens, NEW site \in Sites,
         NEW a \in AgencyIds \cup {None}, NEW n \in Names \cup {None},
         NEW s \in Slugs \cup {None}, NEW key \in Key, NEW active \in BOOLEAN,
         ProvisionNew(who, site, a, n, s, key, active)
  PROVE  Inv'
<1> USE DEF Inv
<1> DEFINE Name(owner) == IF n # None THEN n ELSE agencies[owner].name
<1>1. PICK owner \in IF a # None THEN {a} ELSE AgencyIds \ born, i \in SourceIds \ born :
        /\ InsertAgency(owner, Name(owner), SlugOf[First(s, Name(owner))])
        /\ InsertSource(i, owner, site, key, active)
        /\ born' = born \cup {owner, i}
  BY DEF ProvisionNew
<1>2. owner \in AgencyIds
  BY <1>1
<1>3. Name(owner) \in Names
  <2>1. CASE n # None
    BY <2>1
  <2>2. CASE n = None
    <3>1. owner \in DOMAIN agencies
      BY <1>1, <2>2 DEF ProvisionNew
    <3> QED
      BY <2>2, <3>1 DEF AdminTypeOK, Agency
  <2> QED
    BY <2>1, <2>2
<1> HIDE DEF Name
<1>4. SlugOf[First(s, Name(owner))] \in Slugs
  BY <1>3, SlugType
<1>5. /\ DOMAIN agencies' = DOMAIN agencies \cup {owner}
      /\ DOMAIN agencies' \subseteq AgencyIds
      /\ \A b \in DOMAIN agencies' : agencies'[b] \in Agency
  BY <1>1, <1>2, <1>3, <1>4, InsertAgencyFacts
<1>6. /\ DOMAIN sources' = DOMAIN sources \cup {i}
      /\ DOMAIN sources' \subseteq SourceIds
      /\ \A k \in DOMAIN sources' : sources'[k] \in Source
      /\ \A k \in DOMAIN sources : sources'[k] = sources[k]
      /\ sources'[i].agency = owner
  BY <1>1, <1>2, InsertSourceFacts DEF Fresh
<1>7. AdminTypeOK'
  <2>1. delivery' \in [Processes -> Verified \cup {Idle}]
    BY OvertakenType DEF ProvisionNew
  <2> QED
    BY <1>1, <1>2, <1>5, <1>6, <2>1, BeginType DEF AdminTypeOK, ProvisionNew
<1>8. Fresh'
  BY <1>1, <1>5, <1>6 DEF Fresh
<1>9. Housed'
  BY <1>5, <1>6 DEF Housed, ProvisionNew
<1>10. JobsHoused'
  BY <1>5, <1>6 DEF JobsHoused, ProvisionNew
<1> QED
  BY <1>7, <1>8, <1>9, <1>10

LEMMA ProvisionAgainKeeps ==
  ASSUME Inv, NEW who \in {"admin"} \cup tokens, NEW site \in Sites,
         NEW a \in AgencyIds \cup {None}, NEW n \in Names \cup {None},
         NEW s \in Slugs \cup {None}, NEW key \in Key \cup {Omitted},
         NEW active \in BOOLEAN, ProvisionAgain(who, site, a, n, s, key, active)
  PROVE  Inv'
<1> USE DEF Inv
<1> DEFINE i == SourceOf(site)
           owner == sources[i].agency
           name == First(n, agencies[owner].name)
           slug == SlugOf[First(s, name)]
<1>1. i \in DOMAIN sources
  BY DEF ProvisionAgain, SiteFree, SourceOf
<1>2. owner \in DOMAIN agencies
  BY <1>1 DEF Housed
<1>3. name \in Names
  BY <1>2 DEF AdminTypeOK, Agency, First
<1>4. UpdateAgency(owner, name, slug) /\ UpdateSource(i, key, active)
  BY DEF ProvisionAgain
<1> HIDE DEF i, name, owner
<1>5. slug \in Slugs
  BY <1>3, SlugType
<1> HIDE DEF slug
<1>6. /\ DOMAIN agencies' = DOMAIN agencies
      /\ \A b \in DOMAIN agencies' : agencies'[b] \in Agency
  BY <1>3, <1>4, <1>5, UpdateAgencyFacts
<1>7. /\ DOMAIN sources' = DOMAIN sources
      /\ \A k \in DOMAIN sources' : sources'[k] \in Source
      /\ \A k \in DOMAIN sources : /\ sources'[k].agency = sources[k].agency
                                   /\ sources'[k].site = sources[k].site
  BY <1>1, <1>4, UpdateSourceFacts
<1>8. AdminTypeOK'
  <2>1. delivery' \in [Processes -> Verified \cup {Idle}]
    BY OvertakenType DEF ProvisionAgain
  <2> QED
    BY <1>6, <1>7, <2>1, BeginType DEF AdminTypeOK, ProvisionAgain
<1>9. Fresh' /\ Housed' /\ JobsHoused'
  BY <1>6, <1>7 DEF Fresh, Housed, JobsHoused, ProvisionAgain
<1> QED
  BY <1>8, <1>9

LEMMA ConnectKeeps ==
  ASSUME Inv, NEW who \in {"admin"} \cup tokens, NEW a \in AgencyIds,
         NEW l \in Locations, NEW rotate \in BOOLEAN, Connect(who, a, l, rotate)
  PROVE  Inv'
<1> USE DEF Inv
<1>1. /\ DOMAIN connections' = DOMAIN connections \cup {a}
      /\ \A b \in DOMAIN connections' : connections'[b] \in Locations
  BY DEF Connect, UpsertConnection, Put, AdminTypeOK
<1>2. AdminTypeOK'
  BY <1>1, BeginType DEF AdminTypeOK, Connect
<1>3. Fresh' /\ Housed' /\ JobsHoused'
  BY <1>1 DEF Fresh, Housed, JobsHoused, Connect
<1> QED
  BY <1>2, <1>3

LEMMA DetachKeeps ==
  ASSUME Inv, NEW who \in {"admin"} \cup tokens, NEW a \in AgencyIds, Detach(who, a)
  PROVE  Inv'
<1> USE DEF Inv
<1>1. /\ DOMAIN connections' = DOMAIN connections \ {a}
      /\ \A b \in DOMAIN connections' : connections'[b] = connections[b]
  BY DEF Detach, Without
<1>2. AdminTypeOK'
  BY <1>1, BeginType DEF AdminTypeOK, Detach
<1>3. Fresh' /\ Housed' /\ JobsHoused'
  BY <1>1 DEF Fresh, Housed, JobsHoused, Detach
<1> QED
  BY <1>2, <1>3

LEMMA OpenSessionKeeps ==
  ASSUME Inv, NEW l \in Locations, OpenSession(l)
  PROVE  Inv'
<1> USE DEF Inv
<1>1. AdminTypeOK'
  BY DEF AdminTypeOK, OpenSession, At
<1>2. Fresh' /\ Housed' /\ JobsHoused'
  BY DEF Fresh, Housed, JobsHoused, OpenSession
<1> QED
  BY <1>1, <1>2

LEMMA TokenExpiresKeeps ==
  ASSUME Inv, NEW a \in AgencyIds, TokenExpires(a)
  PROVE  Inv'
<1> USE DEF Inv
<1>1. AdminTypeOK'
  BY DEF AdminTypeOK, TokenExpires
<1>2. Fresh' /\ Housed' /\ JobsHoused'
  BY DEF Fresh, Housed, JobsHoused, TokenExpires
<1> QED
  BY <1>1, <1>2

LEMMA VerifyKeeps ==
  ASSUME Inv, NEW p \in Processes, NEW site \in Sites, NEW key \in Keys,
         Verify(p, site, key)
  PROVE  Inv'
<1> USE DEF Inv
<1>1. AdminTypeOK'
  BY BoundsAssumption DEF AdminTypeOK, Verify, Verified
<1>2. Fresh' /\ Housed' /\ JobsHoused'
  BY DEF Fresh, Housed, JobsHoused, Verify
<1> QED
  BY <1>1, <1>2

\* What a delivery leaves in the queue is of the site's source and its agency.
LEMMA AcceptKeeps ==
  ASSUME Inv, NEW p \in Processes, Accept(p)
  PROVE  Inv'
<1> USE DEF Inv
<1> DEFINE d == delivery[p]
           Made(i) == [agency |-> sources[i].agency, source |-> i,
                       site |-> sources[i].site,
                       location |-> connections[sources[i].agency], key |-> d.key,
                       inForce |-> Expected(d.site), overtaken |-> d.overtaken]
<1>1. PICK i \in Acceptable(d.site) : jobs' = jobs \cup {Made(i)}
  BY DEF Accept
<1>2. d \in Verified
  BY DEF Accept, AdminTypeOK
<1>3. /\ i \in DOMAIN sources
      /\ sources[i].agency \in DOMAIN connections
      /\ sources[i].agency \in DOMAIN agencies
  BY <1>1 DEF Acceptable, Housed
<1>4. Made(i) \in Accepted
  <2>1. Expected(d.site) \in Key
    BY <1>2, ExpectedType DEF Verified
  <2> QED
    BY <1>2, <1>3, <2>1 DEF AdminTypeOK, Accepted, Source, Verified, Key
<1>5. AdminTypeOK'
  BY <1>1, <1>4 DEF AdminTypeOK, Accept
<1>6. Fresh' /\ Housed'
  BY DEF Fresh, Housed, Accept
<1>7. JobsHoused'
  BY <1>1, <1>3 DEF JobsHoused, Accept
<1> QED
  BY <1>5, <1>6, <1>7

LEMMA RefuseKeeps ==
  ASSUME Inv, NEW p \in Processes, Refuse(p)
  PROVE  Inv'
<1> USE DEF Inv
<1>1. AdminTypeOK'
  BY DEF AdminTypeOK, Refuse
<1>2. Fresh' /\ Housed' /\ JobsHoused'
  BY DEF Fresh, Housed, JobsHoused, Refuse
<1> QED
  BY <1>1, <1>2

-----------------------------------------------------------------------------
(* The invariant, and the jobs. *)

\* What the founders were registered with is all there is at first.
LEMMA InitHolds == AdminInit => Inv
<1> SUFFICES ASSUME AdminInit PROVE Inv
  OBVIOUS
<1>1. /\ DOMAIN agencies = DOMAIN Founders
      /\ \A a \in DOMAIN agencies : agencies[a] \in Agency
  BY FoundersAssumption, SlugAssumption DEF AdminInit, Agency
<1>2. DOMAIN sources = {} /\ DOMAIN connections = {}
  BY DEF AdminInit
<1>3. AdminTypeOK
  BY <1>1, <1>2, FoundersAssumption, BoundsAssumption DEF AdminInit, AdminTypeOK
<1>4. Fresh /\ Housed /\ JobsHoused
  BY <1>1, <1>2 DEF AdminInit, Fresh, Housed, JobsHoused
<1> QED
  BY <1>3, <1>4 DEF Inv

\* Every request, every look-up and every delivery keeps the invariant.
LEMMA NextKeeps == Inv /\ [AdminNext]_adminVars => Inv'
<1> SUFFICES ASSUME Inv, [AdminNext]_adminVars PROVE Inv'
  OBVIOUS
<1>1. ASSUME NEW who \in {"admin"} \cup tokens, AgencyRoutes(who)
      PROVE  Inv'
  BY <1>1, RegisterKeeps, ReconfigureKeeps, DecommissionAgencyKeeps DEF AgencyRoutes
<1>2. ASSUME NEW who \in {"admin"} \cup tokens, SourceRoutes(who)
      PROVE  Inv'
  <2>1. PICK a \in AgencyIds :
          \/ \E site \in Sites, key \in Key, active \in BOOLEAN :
               RegisterSource(who, a, site, key, active)
          \/ \E i \in DOMAIN sources, active \in BOOLEAN, key \in Key \cup {Omitted} :
               ReconfigureSource(who, a, i, key, active)
          \/ \E i \in DOMAIN sources : DecommissionSource(who, a, i)
    BY <1>2 DEF SourceRoutes, Key
  <2> QED
    BY <2>1, RegisterSourceKeeps, ReconfigureSourceKeeps, DecommissionSourceKeeps
<1>3. ASSUME NEW who \in {"admin"} \cup tokens, ProvisionRoute(who)
      PROVE  Inv'
  <2>1. PICK site \in Sites, a \in AgencyIds \cup {None}, n \in Names \cup {None},
             s \in Slugs \cup {None}, key \in Key \cup {Omitted}, active \in BOOLEAN :
          \/ key # Omitted /\ ProvisionNew(who, site, a, n, s, key, active)
          \/ ProvisionAgain(who, site, a, n, s, key, active)
    BY <1>3 DEF ProvisionRoute, Key
  <2> QED
    BY <2>1, ProvisionNewKeeps, ProvisionAgainKeeps
<1>4. ASSUME NEW who \in {"admin"} \cup tokens, ConnectionRoutes(who)
      PROVE  Inv'
  BY <1>4, ConnectKeeps, DetachKeeps DEF ConnectionRoutes
<1>5. CASE SessionRoutes
  BY <1>5, OpenSessionKeeps, TokenExpiresKeeps DEF SessionRoutes
<1>6. CASE WebhookRoute
  BY <1>6, VerifyKeeps, AcceptKeeps, RefuseKeeps DEF WebhookRoute
<1>7. CASE UNCHANGED adminVars
  BY <1>7 DEF adminVars, Inv, AdminTypeOK, Fresh, Housed, JobsHoused, Agency, Source,
              Accepted, Verified, Idle
<1> QED
  BY <1>1, <1>2, <1>3, <1>4, <1>5, <1>6, <1>7 DEF AdminNext

\* Ids are given once, and connections, sources and jobs belong to agencies
\* that are there.
THEOREM InvHolds == AdminSpec => []Inv
<1> QED
  BY InitHolds, NextKeeps, PTL DEF AdminSpec

\* Whatever is deleted or registered after a delivery was accepted, the job
\* finds its site and its agency as they were.
THEOREM JobsRooted == AdminSpec => []JobsBelongToTheirSite
<1>1. Inv => JobsBelongToTheirSite
  BY DEF Inv, JobsHoused, JobsBelongToTheirSite
<1> QED
  BY <1>1, InvHolds, PTL

-----------------------------------------------------------------------------
(* Signatures. *)

\* Where the secret in force changes, the deliveries it overtakes are marked.
LEMMA OvertakenSigned ==
  ASSUME AdminTypeOK, WaitingSigned, Overtaken
  PROVE  WaitingSigned'
<1> SUFFICES ASSUME NEW p \in Processes, delivery'[p] # Idle
             PROVE  delivery'[p].key = InForce'[delivery'[p].site] \/ delivery'[p].overtaken
  BY DEF WaitingSigned
<1> DEFINE d == delivery[p]
           changed == InForce'[d.site] # InForce[d.site]
<1>1. delivery'[p] = IF d # Idle /\ changed THEN [d EXCEPT !.overtaken = TRUE] ELSE d
  BY DEF Overtaken
<1>2. d # Idle
  BY <1>1
<1>3. d \in Verified
  BY <1>2 DEF AdminTypeOK
<1>4. CASE changed
  BY <1>1, <1>2, <1>3, <1>4 DEF Verified
<1>5. CASE ~changed
  BY <1>1, <1>2, <1>5 DEF WaitingSigned
<1> QED
  BY <1>4, <1>5

\* What leaves the sources and the deliveries alone leaves what is waiting.
LEMMA UnchangedSigned ==
  ASSUME WaitingSigned, UNCHANGED <<sources, delivery>>
  PROVE  WaitingSigned'
BY DEF WaitingSigned, InForce, Expected

\* A delivery that begins has just been compared with the secret in force.
LEMMA VerifySigned ==
  ASSUME AdminTypeOK, WaitingSigned, NEW q \in Processes, NEW site \in Sites,
         NEW key \in Keys, Verify(q, site, key)
  PROVE  WaitingSigned'
<1> DEFINE new == [step |-> "verified", site |-> site, key |-> key, overtaken |-> FALSE]
<1>1. delivery' = [delivery EXCEPT ![q] = new] /\ key = InForce[site]
  BY DEF Verify, Signed, InForce
<1>2. InForce' = InForce
  BY DEF Verify, InForce, Expected
<1> SUFFICES ASSUME NEW p \in Processes, delivery'[p] # Idle
             PROVE  delivery'[p].key = InForce'[delivery'[p].site] \/ delivery'[p].overtaken
  BY DEF WaitingSigned
<1>3. CASE p = q
  <2>1. delivery'[p] = new
    BY <1>1, <1>3 DEF AdminTypeOK
  <2> QED
    BY <1>1, <1>2, <2>1
<1>4. CASE p # q
  <2>1. delivery'[p] = delivery[p]
    BY <1>1, <1>4 DEF AdminTypeOK
  <2> QED
    BY <1>2, <2>1 DEF WaitingSigned
<1> QED
  BY <1>3, <1>4

\* A delivery that ends leaves the others as they are.
LEMMA EndSigned ==
  ASSUME AdminTypeOK, WaitingSigned, NEW q \in Processes,
         delivery' = [delivery EXCEPT ![q] = Idle], UNCHANGED sources
  PROVE  WaitingSigned'
<1>1. InForce' = InForce
  BY DEF InForce, Expected
<1>2. \A p \in Processes : delivery'[p] # Idle => delivery'[p] = delivery[p]
  BY DEF AdminTypeOK
<1> QED
  BY <1>1, <1>2 DEF WaitingSigned

SignedInv == WaitingSigned /\ AcceptedWasSigned

\* What is queued is what was waiting.
LEMMA AcceptSigned ==
  ASSUME AdminTypeOK, SignedInv, NEW p \in Processes, Accept(p)
  PROVE  SignedInv'
<1> USE DEF SignedInv
<1> DEFINE d == delivery[p]
           Made(i) == [agency |-> sources[i].agency, source |-> i,
                       site |-> sources[i].site,
                       location |-> connections[sources[i].agency], key |-> d.key,
                       inForce |-> Expected(d.site), overtaken |-> d.overtaken]
<1>1. PICK i \in Acceptable(d.site) : jobs' = jobs \cup {Made(i)}
  BY DEF Accept
<1>2. d.key = Expected(d.site) \/ d.overtaken
  <2>1. d # Idle
    BY DEF Accept
  <2>2. d.site \in Sites
    BY <2>1 DEF AdminTypeOK, Verified
  <2> QED
    BY <2>1, <2>2 DEF WaitingSigned, InForce
<1>3. AcceptedWasSigned'
  BY <1>1, <1>2 DEF AcceptedWasSigned
<1>4. WaitingSigned'
  BY EndSigned DEF Accept
<1> QED
  BY <1>3, <1>4

LEMMA NextSigned == Inv /\ SignedInv /\ [AdminNext]_adminVars => SignedInv'
<1> SUFFICES ASSUME Inv, SignedInv, [AdminNext]_adminVars PROVE SignedInv'
  OBVIOUS
<1> USE DEF SignedInv
<1>0. AdminTypeOK
  BY DEF Inv
<1>1. ASSUME UNCHANGED jobs, Overtaken
      PROVE  SignedInv'
  BY <1>0, <1>1, OvertakenSigned DEF AcceptedWasSigned
<1>2. ASSUME UNCHANGED <<jobs, sources, delivery>>
      PROVE  SignedInv'
  BY <1>2, UnchangedSigned DEF AcceptedWasSigned
<1>3. ASSUME NEW who, AgencyRoutes(who)
      PROVE  SignedInv'
  BY <1>1, <1>2, <1>3 DEF AgencyRoutes, Register, Reconfigure, DecommissionAgency
<1>4. ASSUME NEW who, SourceRoutes(who)
      PROVE  SignedInv'
  BY <1>1, <1>4 DEF SourceRoutes, RegisterSource, ReconfigureSource, DecommissionSource
<1>5. ASSUME NEW who, ProvisionRoute(who)
      PROVE  SignedInv'
  <2>1. UNCHANGED jobs /\ Overtaken
    BY <1>5 DEF ProvisionRoute, ProvisionNew, ProvisionAgain
  <2> QED
    BY <1>1, <2>1
<1>6. ASSUME NEW who, ConnectionRoutes(who)
      PROVE  SignedInv'
  BY <1>2, <1>6 DEF ConnectionRoutes, Connect, Detach
<1>7. CASE SessionRoutes
  BY <1>2, <1>7 DEF SessionRoutes, OpenSession, TokenExpires
<1>8. CASE WebhookRoute
  <2>1. ASSUME NEW p \in Processes, NEW site \in Sites, NEW key \in Keys,
               Verify(p, site, key)
        PROVE  SignedInv'
    BY <1>0, <2>1, VerifySigned DEF AcceptedWasSigned, Verify
  <2>2. ASSUME NEW p \in Processes, Accept(p)
        PROVE  SignedInv'
    BY <1>0, <2>2, AcceptSigned
  <2>3. ASSUME NEW p \in Processes, Refuse(p)
        PROVE  SignedInv'
    BY <1>0, <2>3, EndSigned DEF AcceptedWasSigned, Refuse
  <2> QED
    BY <1>8, <2>1, <2>2, <2>3 DEF WebhookRoute
<1>9. CASE UNCHANGED adminVars
  BY <1>2, <1>9 DEF adminVars
<1> QED
  BY <1>3, <1>4, <1>5, <1>6, <1>7, <1>8, <1>9 DEF AdminNext

\* Nothing is queued that was not signed with the secret of its site, except
\* for a secret that changed between the two transactions of its delivery.
THEOREM SignedJobs == AdminSpec => []AcceptedWasSigned
<1>1. AdminInit => SignedInv
  BY DEF AdminInit, SignedInv, WaitingSigned, AcceptedWasSigned
<1>2. SignedInv => AcceptedWasSigned
  BY DEF SignedInv
<1> QED
  BY <1>1, <1>2, InvHolds, NextSigned, PTL DEF AdminSpec

-----------------------------------------------------------------------------
(* Tenants. *)

\* An agency whose rows are there as before has the rows it had.
LEMMA RowsKept ==
  ASSUME NEW a,
         \A i : i \in SourcesOf(a)' <=> i \in SourcesOf(a),
         \A i \in SourcesOf(a) : sources'[i] = sources[i],
         a \in DOMAIN agencies' <=> a \in DOMAIN agencies,
         a \in DOMAIN agencies => agencies'[a] = agencies[a],
         a \in DOMAIN connections' <=> a \in DOMAIN connections,
         a \in DOMAIN connections => connections'[a] = connections[a]
  PROVE  RowsOf(a)' = RowsOf(a)
<1>1. SourcesOf(a)' = SourcesOf(a)
  OBVIOUS
<1>2. [i \in SourcesOf(a)' |-> sources'[i]] = [i \in SourcesOf(a) |-> sources[i]]
  BY <1>1
<1>3. [x \in {a} \cap DOMAIN agencies' |-> agencies'[x]]
        = [x \in {a} \cap DOMAIN agencies |-> agencies[x]]
  <2>1. {a} \cap DOMAIN agencies' = {a} \cap DOMAIN agencies
    OBVIOUS
  <2> QED
    BY <2>1
<1>4. [x \in {a} \cap DOMAIN connections' |-> connections'[x]]
        = [x \in {a} \cap DOMAIN connections |-> connections[x]]
  <2>1. {a} \cap DOMAIN connections' = {a} \cap DOMAIN connections
    OBVIOUS
  <2> QED
    BY <2>1
<1> QED
  BY <1>2, <1>3, <1>4 DEF RowsOf

\* A session token changes no row of another agency, whatever the path, the
\* source id and the body it comes with.
LEMMA RequestIsolated ==
  ASSUME Inv, NEW a \in AgencyIds, NEW who \in tokens \ {a},
         AgencyRoutes(who) \/ SourceRoutes(who) \/ ProvisionRoute(who)
           \/ ConnectionRoutes(who)
  PROVE  RowsOf(a)' = RowsOf(a)
<1>1. who # "admin"
  BY CallersAssumption DEF Inv, AdminTypeOK
<1>2. \A b : OpensAgency(who, b) => b = who
  BY <1>1 DEF OpensAgency
<1>3. ~OpensGlobal(who)
  BY <1>1 DEF OpensGlobal
<1>4. ASSUME NEW n, NEW s, Reconfigure(who, who, n, s)
      PROVE  RowsOf(a)' = RowsOf(a)
  <2>1. /\ DOMAIN agencies' = DOMAIN agencies
        /\ a \in DOMAIN agencies => agencies'[a] = agencies[a]
    BY <1>4 DEF Reconfigure, UpdateAgency
  <2>2. UNCHANGED <<sources, connections>>
    BY <1>4 DEF Reconfigure
  <2> QED
    BY <2>1, <2>2, RowsKept DEF SourcesOf
<1>5. ASSUME DecommissionAgency(who, who)
      PROVE  RowsOf(a)' = RowsOf(a)
  <2>1. /\ DOMAIN agencies' = DOMAIN agencies \ {who}
        /\ \A b \in DOMAIN agencies' : agencies'[b] = agencies[b]
        /\ DOMAIN sources' = DOMAIN sources \ SourcesOf(who)
        /\ \A i \in DOMAIN sources' : sources'[i] = sources[i]
        /\ DOMAIN connections' = DOMAIN connections \ {who}
        /\ \A b \in DOMAIN connections' : connections'[b] = connections[b]
    BY <1>5 DEF DecommissionAgency, Without
  <2>2. \A i \in SourcesOf(a) : i \in DOMAIN sources' /\ sources'[i] = sources[i]
    BY <2>1 DEF SourcesOf
  <2>3. \A i : i \in SourcesOf(a)' <=> i \in SourcesOf(a)
    BY <2>1, <2>2 DEF SourcesOf
  <2> QED
    BY <2>1, <2>2, <2>3, RowsKept
<1>6. ASSUME NEW site \in Sites, NEW key \in Key, NEW active \in BOOLEAN,
             RegisterSource(who, who, site, key, active)
      PROVE  RowsOf(a)' = RowsOf(a)
  <2>1. PICK i \in SourceIds \ born : InsertSource(i, who, site, key, active)
    BY <1>6 DEF RegisterSource
  <2>2. /\ DOMAIN sources' = DOMAIN sources \cup {i}
        /\ \A k \in DOMAIN sources : sources'[k] = sources[k]
        /\ sources'[i].agency = who
    <3>1. i \in SourceIds \ DOMAIN sources
      BY <2>1 DEF Inv, Fresh
    <3>2. who \in AgencyIds /\ AdminTypeOK
      BY DEF Inv, AdminTypeOK
    <3>3. key \in Key /\ site \in Sites /\ active \in BOOLEAN
      BY <1>6
    <3> QED
      BY <2>1, <3>1, <3>2, <3>3, InsertSourceFacts
  <2>3. UNCHANGED <<agencies, connections>>
    BY <1>6 DEF RegisterSource
  <2> QED
    BY <2>2, <2>3, RowsKept DEF SourcesOf
<1>7. ASSUME NEW i \in DOMAIN sources, NEW key \in Key \cup {Omitted},
             NEW active \in BOOLEAN, ReconfigureSource(who, who, i, key, active)
      PROVE  RowsOf(a)' = RowsOf(a)
  <2>1. /\ DOMAIN sources' = DOMAIN sources
        /\ \A k \in DOMAIN sources \ {i} : sources'[k] = sources[k]
        /\ \A k \in DOMAIN sources : sources'[k].agency = sources[k].agency
    BY <1>7, UpdateSourceFacts DEF ReconfigureSource, Inv
  <2>2. i \notin SourcesOf(a)
    BY <1>7 DEF ReconfigureSource, OwnSource, SourcesOf
  <2>3. UNCHANGED <<agencies, connections>>
    BY <1>7 DEF ReconfigureSource
  <2> QED
    BY <2>1, <2>2, <2>3, RowsKept DEF SourcesOf
<1>8. ASSUME NEW i \in DOMAIN sources, DecommissionSource(who, who, i)
      PROVE  RowsOf(a)' = RowsOf(a)
  <2>1. /\ DOMAIN sources' = DOMAIN sources \ {i}
        /\ \A k \in DOMAIN sources' : sources'[k] = sources[k]
    BY <1>8 DEF DecommissionSource, Without
  <2>2. i \notin SourcesOf(a)
    BY <1>8 DEF DecommissionSource, OwnSource, SourcesOf
  <2>3. UNCHANGED <<agencies, connections>>
    BY <1>8 DEF DecommissionSource
  <2> QED
    BY <2>1, <2>2, <2>3, RowsKept DEF SourcesOf
<1>9. ASSUME NEW l, NEW rotate, Connect(who, who, l, rotate)
      PROVE  RowsOf(a)' = RowsOf(a)
  <2>1. /\ DOMAIN connections' = DOMAIN connections \cup {who}
        /\ a \in DOMAIN connections => connections'[a] = connections[a]
    BY <1>9 DEF Connect, UpsertConnection, Put
  <2>2. UNCHANGED <<agencies, sources>>
    BY <1>9 DEF Connect
  <2> QED
    BY <2>1, <2>2, RowsKept DEF SourcesOf
<1>10. ASSUME Detach(who, who)
       PROVE  RowsOf(a)' = RowsOf(a)
  <2>1. /\ DOMAIN connections' = DOMAIN connections \ {who}
        /\ \A b \in DOMAIN connections' : connections'[b] = connections[b]
    BY <1>10 DEF Detach, Without
  <2>2. UNCHANGED <<agencies, sources>>
    BY <1>10 DEF Detach
  <2> QED
    BY <2>1, <2>2, RowsKept DEF SourcesOf
<1>11. CASE AgencyRoutes(who)
  BY <1>2, <1>3, <1>4, <1>5, <1>11 DEF AgencyRoutes, Register, Reconfigure,
     DecommissionAgency
<1>12. CASE SourceRoutes(who)
  <2>1. PICK b \in AgencyIds :
          \/ \E site \in Sites, key \in Key, active \in BOOLEAN :
               RegisterSource(who, b, site, key, active)
          \/ \E i \in DOMAIN sources, active \in BOOLEAN, key \in Key \cup {Omitted} :
               ReconfigureSource(who, b, i, key, active)
          \/ \E i \in DOMAIN sources : DecommissionSource(who, b, i)
    BY <1>12 DEF SourceRoutes, Key
  <2>2. b = who
    BY <1>2, <2>1 DEF RegisterSource, ReconfigureSource, DecommissionSource
  <2> DEFINE registers == \E site \in Sites, key \in Key, active \in BOOLEAN :
                            RegisterSource(who, b, site, key, active)
             changes == \E i \in DOMAIN sources, active \in BOOLEAN,
                          key \in Key \cup {Omitted} :
                          ReconfigureSource(who, b, i, key, active)
             removes == \E i \in DOMAIN sources : DecommissionSource(who, b, i)
  <2>3. registers \/ changes \/ removes
    BY <2>1
  <2>4. CASE registers
    BY <1>6, <2>2, <2>4
  <2>5. CASE changes
    BY <1>7, <2>2, <2>5
  <2>6. CASE removes
    BY <1>8, <2>2, <2>6
  <2> HIDE DEF registers, changes, removes
  <2> QED
    BY <2>3, <2>4, <2>5, <2>6
<1>13. ~ProvisionRoute(who)
  <2>1. ASSUME NEW site, NEW owner, NEW n, NEW s, NEW key, NEW active
        PROVE  /\ ~ProvisionNew(who, site, owner, n, s, key, active)
               /\ ~ProvisionAgain(who, site, owner, n, s, key, active)
    BY <1>3 DEF ProvisionNew, ProvisionAgain
  <2> QED
    BY <2>1 DEF ProvisionRoute
<1>14. CASE ConnectionRoutes(who)
  BY <1>2, <1>9, <1>10, <1>14 DEF ConnectionRoutes, Connect, Detach
<1> QED
  BY <1>11, <1>12, <1>13, <1>14

Isolated ==
  \A a \in AgencyIds :
    requests' # requests /\ caller' \in AgencyIds \ {a} => RowsOf(a)' = RowsOf(a)

\* A step that is a request is made by its caller.
LEMMA NextIsolated == Inv /\ [AdminNext]_adminVars => Isolated
<1> SUFFICES ASSUME Inv, [AdminNext]_adminVars, NEW a \in AgencyIds, requests' # requests,
                    caller' \in AgencyIds \ {a}
             PROVE  RowsOf(a)' = RowsOf(a)
  BY DEF Isolated
<1>1. ~SessionRoutes /\ ~WebhookRoute /\ ~UNCHANGED adminVars
  BY DEF SessionRoutes, OpenSession, TokenExpires, WebhookRoute, Verify, Accept,
         Refuse, adminVars
<1>2. PICK who \in {"admin"} \cup tokens :
        AgencyRoutes(who) \/ SourceRoutes(who) \/ ProvisionRoute(who)
          \/ ConnectionRoutes(who)
  BY <1>1 DEF AdminNext
<1>3. caller' = who
  <2>1. CASE AgencyRoutes(who)
    BY <2>1 DEF AgencyRoutes, Register, Reconfigure, DecommissionAgency, Begin
  <2>2. CASE SourceRoutes(who)
    BY <2>2 DEF SourceRoutes, RegisterSource, ReconfigureSource, DecommissionSource,
                Begin
  <2>3. CASE ProvisionRoute(who)
    BY <2>3 DEF ProvisionRoute, ProvisionNew, ProvisionAgain, Begin
  <2>4. CASE ConnectionRoutes(who)
    BY <2>4 DEF ConnectionRoutes, Connect, Detach, Begin
  <2> QED
    BY <1>2, <2>1, <2>2, <2>3, <2>4
<1>4. who \in tokens \ {a}
  BY <1>2, <1>3, CallersAssumption
<1> QED
  BY <1>2, <1>4, RequestIsolated

\* An agency's session token reaches no row of another agency, for any number
\* of agencies, sources and tokens.
THEOREM Isolation == AdminSpec => TenantIsolation
<1>1. Inv /\ [AdminNext]_adminVars => [Isolated]_adminVars
  BY NextIsolated
<1>2. AdminSpec => [][Isolated]_adminVars
  BY <1>1, InvHolds, PTL DEF AdminSpec
<1> QED
  BY <1>2 DEF TenantIsolation, Isolated

-----------------------------------------------------------------------------
(* AgencySettings *)

\* The rules an automation row stands for.
IsRules(r) ==
  /\ r.approval_required \in BOOLEAN
  /\ r.publish_window_start \in Times \cup {NoTime}
  /\ r.publish_window_end \in Times \cup {NoTime}
  /\ r.publish_days \subseteq Weekdays
  /\ r.hold_window_seconds \in 0 .. DayLength
  /\ r.quiet_hours_enabled \in BOOLEAN
  /\ r.skip_weekends \in BOOLEAN

NotBefore(t, s) == ~Before(t, s)

-----------------------------------------------------------------------------
(* The clock *)

\* compute_next_publish_slot's target is an instant, no earlier than the
\* present.
LEMMA LaterIsLater ==
  ASSUME NEW t \in Instants, NEW h \in 0 .. DayLength
  PROVE  /\ Later(t, h) \in Instants
         /\ NotBefore(Later(t, h), t)
         /\ h = 0 => Later(t, h) = t
BY DayLengthAssumption DEF Later, NotBefore, Before, Instants, Times

\* A clock read later gives a target no earlier.
LEMMA LaterMonotone ==
  ASSUME NEW s \in Instants, NEW t \in Instants, NEW h \in 0 .. DayLength,
         NotBefore(t, s)
  PROVE  NotBefore(Later(t, h), Later(s, h))
BY DayLengthAssumption DEF Later, NotBefore, Before, Instants, Times

\* Instants are ordered.
LEMMA NotBeforeTransitive ==
  ASSUME NEW s \in Instants, NEW t \in Instants, NEW u \in Instants,
         NotBefore(u, t), NotBefore(t, s)
  PROVE  NotBefore(u, s)
BY DEF NotBefore, Before, Instants, Times

\* The hold that is stored needs no clamping.
LEMMA HoldIsStored ==
  ASSUME NEW r, IsRules(r)
  PROVE  Hold(r) = r.hold_window_seconds
BY DayLengthAssumption DEF Hold, IsRules

-----------------------------------------------------------------------------
(* The next day *)

\* _next_allowed_day_at_start always finds a day when there is one to find,
\* and passes over none.
LEMMA NextAllowedDayIsNext ==
  ASSUME NEW r, IsRules(r), r.publish_days # {}, NEW day \in Nat
  PROVE  LET d == NextAllowedDay(day, r)
         IN /\ d \in Nat /\ d > day
            /\ d % 7 \in r.publish_days
            /\ \A e \in day + 1 .. d - 1 : e % 7 \notin r.publish_days
<1> DEFINE Open(i) == (day + i) % 7 \in r.publish_days
           Soonest(d) == /\ d % 7 \in r.publish_days
                         /\ \A e \in day + 1 .. d - 1 : e % 7 \notin r.publish_days
<1>1. PICK w \in r.publish_days : w \in 0 .. 6
  BY DEF IsRules, Weekdays
<1>2. \E i \in 1 .. 7 : (day + i) % 7 = w
  BY <1>1
<1>3. PICK i \in 1 .. 7 : Open(i)
  BY <1>1, <1>2
<1>4. PICK j \in 1 .. 7 : Open(j) /\ \A k \in 1 .. 7 : k < j => ~Open(k)
  <2> HIDE DEF Open
  <2>1. \/ Open(1)
        \/ ~Open(1) /\ Open(2)
        \/ ~Open(1) /\ ~Open(2) /\ Open(3)
        \/ ~Open(1) /\ ~Open(2) /\ ~Open(3) /\ Open(4)
        \/ ~Open(1) /\ ~Open(2) /\ ~Open(3) /\ ~Open(4) /\ Open(5)
        \/ ~Open(1) /\ ~Open(2) /\ ~Open(3) /\ ~Open(4) /\ ~Open(5) /\ Open(6)
        \/ ~Open(1) /\ ~Open(2) /\ ~Open(3) /\ ~Open(4) /\ ~Open(5) /\ ~Open(6) /\ Open(7)
    <3>1. i = 1 \/ i = 2 \/ i = 3 \/ i = 4 \/ i = 5 \/ i = 6 \/ i = 7
      OBVIOUS
    <3> QED BY <1>3, <3>1
  <2> QED BY <2>1
<1>5. Soonest(day + j)
  <2> SUFFICES ASSUME NEW e \in day + 1 .. day + j - 1
               PROVE  e % 7 \notin r.publish_days
    BY <1>4
  <2>1. e - day \in 1 .. 7 /\ e - day < j /\ day + (e - day) = e
    OBVIOUS
  <2> QED BY <1>4, <2>1
<1>6. day + j \in day + 1 .. day + 7
  OBVIOUS
<1>7. LET d == CHOOSE x \in day + 1 .. day + 7 : Soonest(x)
      IN d \in day + 1 .. day + 7 /\ Soonest(d)
  <2> HIDE DEF Soonest
  <2> QED BY <1>5, <1>6
<1> QED BY <1>7 DEF NextAllowedDay

\* The next publish day at the start of the window is an instant of that day,
\* later than everything of the present one.
LEMMA NextAllowedStartIsNext ==
  ASSUME NEW r, IsRules(r), HasStart(r), NEW t \in Instants
  PROVE  LET n == NextAllowedStart(t, r)
         IN /\ n \in Instants
            /\ n.day > t.day /\ n.time = r.publish_window_start
            /\ Weekday(n) \in r.publish_days
            /\ \A d \in t.day + 1 .. n.day - 1 : d % 7 \notin r.publish_days
<1> DEFINE d == NextAllowedDay(t.day, r)
<1>1. /\ t.day \in Nat /\ r.publish_days # {}
      /\ r.publish_window_start \in Times
  BY DEF IsRules, HasStart, Instants
<1>2. /\ d \in Nat /\ d > t.day
      /\ d % 7 \in r.publish_days
      /\ \A e \in t.day + 1 .. d - 1 : e % 7 \notin r.publish_days
  BY <1>1, NextAllowedDayIsNext
<1> HIDE DEF d
<1>3. NextAllowedStart(t, r) = [day |-> d, time |-> r.publish_window_start]
  BY DEF NextAllowedStart, d
<1> QED BY <1>1, <1>2, <1>3 DEF Instants, Weekday

-----------------------------------------------------------------------------
(* The slot *)

\* An opening of the window that a post held until target may use.
Opening(d, r) == [day |-> d, time |-> r.publish_window_start]
Usable(d, target, r) ==
  /\ d % 7 \in r.publish_days
  /\ NotBefore(Opening(d, r), target)
  /\ r.skip_weekends => d % 7 \notin Weekend

\* The instant t is no earlier than target, and no usable opening lies between.
Reached(t, target, r) ==
  /\ t \in Instants /\ NotBefore(t, target)
  /\ \A d \in target.day .. t.day : Usable(d, target, r) => NotBefore(Opening(d, r), t)

\* Moving on from t to the next start passes over no usable opening, if none
\* is left of the day of t.
LEMMA NextStartReached ==
  ASSUME NEW r, IsRules(r), HasStart(r), NEW target \in Instants, NEW t,
         Reached(t, target, r),
         Usable(t.day, target, r) => Before(Opening(t.day, r), t)
  PROVE  Reached(NextAllowedStart(t, r), target, r)
<1> DEFINE n == NextAllowedStart(t, r)
<1>1. t \in Instants /\ NotBefore(t, target)
  BY DEF Reached
<1>2. /\ n \in Instants /\ n.day > t.day /\ n.time = r.publish_window_start
      /\ \A d \in t.day + 1 .. n.day - 1 : d % 7 \notin r.publish_days
  BY <1>1, NextAllowedStartIsNext
<1>3. NotBefore(n, target)
  BY <1>1, <1>2 DEF NotBefore, Before, Instants, Times
<1>4. ASSUME NEW d \in target.day .. n.day, Usable(d, target, r)
      PROVE  NotBefore(Opening(d, r), n)
  <2>1. d \in Nat /\ target.day \in Nat
    BY <1>2 DEF Instants
  <2>2. CASE d < t.day
    <3>1. NotBefore(Opening(d, r), t)
      BY <1>1, <1>4, <2>1, <2>2 DEF Reached, Instants
    <3> QED BY <1>1, <2>1, <2>2, <3>1 DEF NotBefore, Before, Opening, Instants
  <2>3. CASE d = t.day
    <3>1. NotBefore(Opening(d, r), t)
      BY <1>1, <1>4, <2>1, <2>3 DEF Reached, Instants
    <3> QED BY <1>4, <2>3, <3>1 DEF NotBefore
  <2>4. CASE d > t.day /\ d < n.day
    BY <1>1, <1>2, <1>4, <2>1, <2>4 DEF Usable, Instants
  <2>5. CASE d = n.day
    BY <1>2, <2>5 DEF NotBefore, Before, Opening, Instants, Times
  <2> QED BY <1>1, <1>2, <2>1, <2>2, <2>3, <2>4, <2>5 DEF Instants
<1> QED BY <1>2, <1>3, <1>4 DEF Reached

\* skip_weekends: a post is moved out of a weekend to the next start.
LEMMA AfterWeekendReached ==
  ASSUME NEW r, IsRules(r), HasStart(r), NEW target \in Instants
  PROVE  Reached(AfterWeekend(target, r), target, r)
<1>1. Reached(target, target, r)
  BY DEF Reached, Usable, NotBefore, Before, Opening, Instants, Times
<1>2. ASSUME r.skip_weekends, Weekday(target) \in Weekend
      PROVE  ~Usable(target.day, target, r)
  BY <1>2 DEF Usable, Weekday
<1> QED BY <1>1, <1>2, NextStartReached DEF AfterWeekend, IsRules

\* quiet_hours_enabled: a post goes out on a publish day.
LEMMA OnPublishDayReached ==
  ASSUME NEW r, IsRules(r), HasStart(r), NEW target \in Instants, NEW t,
         Reached(t, target, r), r.quiet_hours_enabled
  PROVE  /\ Reached(OnPublishDay(t, r), target, r)
         /\ Weekday(OnPublishDay(t, r)) \in r.publish_days
<1>1. t \in Instants
  BY DEF Reached
<1>2. ASSUME Weekday(t) \notin r.publish_days
      PROVE  ~Usable(t.day, target, r)
  BY <1>2 DEF Usable, Weekday
<1> QED BY <1>1, <1>2, NextStartReached, NextAllowedStartIsNext DEF OnPublishDay

\* The window counted from its start, around midnight or not.
LEMMA WindowFromItsStart ==
  ASSUME NEW r, IsRules(r), HasWindow(r), NEW t \in Instants
  PROVE  InsideWindow(t.time, r) <=>
           (t.time - r.publish_window_start) % DayLength
             =< (r.publish_window_end - r.publish_window_start) % DayLength
<1> DEFINE Since(x, y) == (x - y) % DayLength
<1>1. ASSUME NEW x \in Times, NEW y \in Times
      PROVE  Since(x, y) = IF x >= y THEN x - y ELSE x - y + DayLength
  BY DayLengthAssumption DEF Times
<1>2. t.time \in Times /\ r.publish_window_start \in Times /\ r.publish_window_end \in Times
  BY DEF Instants, IsRules, HasWindow, HasStart
<1>3. /\ Since(t.time, r.publish_window_start)
           = IF t.time >= r.publish_window_start THEN t.time - r.publish_window_start
             ELSE t.time - r.publish_window_start + DayLength
      /\ Since(r.publish_window_end, r.publish_window_start)
           = IF r.publish_window_end >= r.publish_window_start
             THEN r.publish_window_end - r.publish_window_start
             ELSE r.publish_window_end - r.publish_window_start + DayLength
  BY <1>1, <1>2
<1> HIDE DEF Since
<1>4. InsideWindow(t.time, r) <=>
        Since(t.time, r.publish_window_start)
          =< Since(r.publish_window_end, r.publish_window_start)
  BY <1>2, <1>3, DayLengthAssumption DEF InsideWindow, Times
<1> QED BY <1>4 DEF Since

\* quiet_hours_enabled: a post of a publish day goes out inside the window.
LEMMA InsideQuietHoursReached ==
  ASSUME NEW r, IsRules(r), HasWindow(r), NEW target \in Instants, NEW t,
         Reached(t, target, r), r.quiet_hours_enabled, Weekday(t) \in r.publish_days
  PROVE  LET s == InsideQuietHours(t, r)
         IN Reached(s, target, r) /\ OpenAt(s, r)
<1> DEFINE s == InsideQuietHours(t, r)
<1>1. t \in Instants /\ HasStart(r) /\ t.time \in Times /\ t.day \in Nat
  BY DEF Reached, HasWindow, Instants
<1>2. r.publish_window_start \in Times /\ r.publish_window_end \in Times
  BY DEF IsRules, HasWindow, HasStart
<1>3. ASSUME NEW u \in Instants, u.time = r.publish_window_start
      PROVE  InsideWindow(u.time, r)
  BY <1>2, <1>3 DEF InsideWindow, Times
<1>4. CASE InsideWindow(t.time, r)
  <2>1. s = t
    BY <1>4 DEF InsideQuietHours
  <2> QED BY <1>1, <1>4, <2>1, WindowFromItsStart DEF OpenAt
<1>5. CASE ~InsideWindow(t.time, r) /\ r.publish_window_start > t.time
  <2>1. s = Opening(t.day, r)
    BY <1>1, <1>5 DEF InsideQuietHours, Opening, Instants
  <2>2. s \in Instants /\ s.day = t.day /\ s.time = r.publish_window_start
    BY <1>1, <1>2, <2>1 DEF Opening, Instants
  <2>3. Reached(s, target, r)
    BY <1>1, <1>2, <1>5, <2>1, <2>2 DEF Reached, NotBefore, Before, Opening, Instants, Times
  <2> QED BY <1>3, <2>2, <2>3, WindowFromItsStart DEF OpenAt, Weekday
<1>6. CASE ~InsideWindow(t.time, r) /\ ~(r.publish_window_start > t.time)
  <2>1. s = NextAllowedStart(t, r)
    BY <1>6 DEF InsideQuietHours
  <2>2. Before(Opening(t.day, r), t)
    BY <1>1, <1>2, <1>6 DEF InsideWindow, Before, Opening, Times
  <2>3. Reached(s, target, r)
    BY <1>1, <2>1, <2>2, NextStartReached
  <2>4. /\ s \in Instants /\ s.time = r.publish_window_start
        /\ Weekday(s) \in r.publish_days
    BY <1>1, <2>1, NextAllowedStartIsNext
  <2> QED BY <1>3, <2>3, <2>4, WindowFromItsStart DEF OpenAt
<1> QED BY <1>4, <1>5, <1>6

\* Under quiet hours with a window, the slot (or the present, when there is
\* none) is open, keeps the hold and passes over no usable opening.
LEMMA SlotIsOpen ==
  ASSUME NEW r, IsRules(r), NEW at \in Instants, r.quiet_hours_enabled, HasWindow(r)
  PROVE  LET slot == NextSlot(at, r)
             s == IF slot = Immediately THEN at ELSE slot
         IN Reached(s, Later(at, r.hold_window_seconds), r) /\ OpenAt(s, r)
<1> DEFINE target == Later(at, r.hold_window_seconds)
           onDay == OnPublishDay(AfterWeekend(target, r), r)
           slot == InsideQuietHours(onDay, r)
<1>1. HasStart(r) /\ Hold(r) = r.hold_window_seconds
  BY HoldIsStored DEF HasWindow
<1>2. target \in Instants
  BY LaterIsLater DEF IsRules
<1>3. Reached(AfterWeekend(target, r), target, r)
  BY <1>1, <1>2, AfterWeekendReached
<1>4. Reached(onDay, target, r) /\ Weekday(onDay) \in r.publish_days
  BY <1>1, <1>2, <1>3, OnPublishDayReached
<1>5. Reached(slot, target, r) /\ OpenAt(slot, r)
  BY <1>2, <1>4, InsideQuietHoursReached
<1>6. ~NoToggle(r) /\ ~Unanchored(target, r)
  BY <1>1 DEF NoToggle, Unanchored
<1>7. NextSlot(at, r) = IF slot = at THEN Immediately ELSE slot
  BY <1>1, <1>6 DEF NextSlot
<1>8. slot # Immediately
  BY <1>5 DEF Reached, Immediately, Instants
<1> QED BY <1>5, <1>7, <1>8

\* A slot never lies before the hold is over; and where there is none, though
\* the rules have the window and days they need, the hold is over already.
LEMMA SlotKeepsHold ==
  ASSUME NEW r, IsRules(r), NEW at \in Instants
  PROVE  LET target == Later(at, r.hold_window_seconds)
             slot == NextSlot(at, r)
         IN /\ slot # Immediately => slot \in Instants /\ NotBefore(slot, target)
            /\ slot = Immediately /\ ~Unanchored(target, r) => NotBefore(at, target)
<1> DEFINE target == Later(at, r.hold_window_seconds)
           shifted == AfterWeekend(target, r)
           slot == InsideQuietHours(OnPublishDay(shifted, r), r)
<1>1. Hold(r) = r.hold_window_seconds
  BY HoldIsStored
<1>2. target \in Instants /\ (r.hold_window_seconds = 0 => target = at)
  BY LaterIsLater DEF IsRules
<1>3. NextSlot(at, r) = IF NoToggle(r) \/ Unanchored(target, r) \/ slot = at
                        THEN Immediately ELSE slot
  BY <1>1 DEF NextSlot
<1>4. ASSUME ~Unanchored(target, r)
      PROVE  slot \in Instants /\ NotBefore(slot, target)
  <2>1. shifted \in Instants /\ NotBefore(shifted, target)
    <3>1. CASE r.skip_weekends /\ Weekday(target) \in Weekend
      <4>1. HasStart(r)
        BY <1>4, <3>1 DEF Unanchored
      <4> QED BY <1>2, <4>1, AfterWeekendReached DEF Reached
    <3>2. CASE ~(r.skip_weekends /\ Weekday(target) \in Weekend)
      BY <1>2, <3>2 DEF AfterWeekend, NotBefore, Before, Instants, Times
    <3> QED BY <3>1, <3>2
  <2>2. CASE r.quiet_hours_enabled
    <3>1. HasWindow(r) /\ HasStart(r)
      BY <1>4, <2>2 DEF Unanchored, HasWindow
    <3>2. Reached(shifted, target, r)
      BY <1>2, <3>1, AfterWeekendReached
    <3>3. /\ Reached(OnPublishDay(shifted, r), target, r)
          /\ Weekday(OnPublishDay(shifted, r)) \in r.publish_days
      BY <1>2, <2>2, <3>1, <3>2, OnPublishDayReached
    <3>4. Reached(slot, target, r)
      BY <1>2, <2>2, <3>1, <3>3, InsideQuietHoursReached
    <3> QED BY <3>4 DEF Reached
  <2>3. CASE ~r.quiet_hours_enabled
    BY <2>1, <2>3 DEF OnPublishDay, InsideQuietHours
  <2> QED BY <2>2, <2>3
<1>5. ASSUME NoToggle(r) PROVE target = at
  BY <1>1, <1>2, <1>5 DEF NoToggle
<1>6. NotBefore(at, at)
  BY DEF NotBefore, Before, Instants, Times
<1>7. slot \in Instants => slot # Immediately
  BY DEF Immediately, Instants
<1> HIDE DEF slot, target
<1>8. /\ NextSlot(at, r) # Immediately => NextSlot(at, r) \in Instants /\ NotBefore(NextSlot(at, r), target)
      /\ NextSlot(at, r) = Immediately /\ ~Unanchored(target, r) => NotBefore(at, target)
  BY <1>3, <1>4, <1>5, <1>6, <1>7
<1> QED BY <1>8 DEF target

\* skip_weekends, where no day of a weekend is a publish day: neither the target
\* nor the day it is shifted to is one of a weekend.
LEMMA SlotSkipsWeekend ==
  ASSUME NEW r, IsRules(r), WeekendsAgree(r), r.skip_weekends, NEW at \in Instants,
         ~Unanchored(Later(at, r.hold_window_seconds), r)
  PROVE  LET slot == NextSlot(at, r)
             s == IF slot = Immediately THEN at ELSE slot
         IN Weekday(s) \notin Weekend
<1> DEFINE target == Later(at, r.hold_window_seconds)
           slot == NextSlot(at, r)
           s == IF slot = Immediately THEN at ELSE slot
<1>1. CASE r.quiet_hours_enabled
  <2>1. HasWindow(r)
    BY <1>1 DEF Unanchored
  <2>2. OpenAt(s, r)
    BY <1>1, <2>1, SlotIsOpen
  <2> HIDE DEF s
  <2>3. Weekday(s) \notin Weekend
    BY <2>2 DEF OpenAt, WeekendsAgree
  <2> QED BY <2>3 DEF s
<1>2. CASE ~r.quiet_hours_enabled
  <2> DEFINE shifted == AfterWeekend(target, r)
  <2>1. Hold(r) = r.hold_window_seconds
    BY HoldIsStored
  <2>2. slot = IF shifted = at THEN Immediately ELSE shifted
    BY <1>2, <2>1 DEF NextSlot, NoToggle, OnPublishDay, InsideQuietHours
  <2>3. target \in Instants
    BY LaterIsLater DEF IsRules
  <2> HIDE DEF slot, target
  <2>4. shifted \in Instants /\ Weekday(shifted) \notin Weekend
    <3>1. CASE Weekday(target) \in Weekend
      <4>1. HasStart(r)
        BY <3>1 DEF Unanchored, target
      <4>2. /\ NextAllowedStart(target, r) \in Instants
            /\ Weekday(NextAllowedStart(target, r)) \in r.publish_days
        BY <2>3, <4>1, NextAllowedStartIsNext
      <4> QED BY <3>1, <4>2 DEF AfterWeekend, WeekendsAgree
    <3>2. CASE Weekday(target) \notin Weekend
      BY <2>3, <3>2 DEF AfterWeekend
    <3> QED BY <3>1, <3>2
  <2> HIDE DEF shifted
  <2>5. shifted # Immediately
    BY <2>4 DEF Immediately, Instants
  <2>6. s = shifted
    BY <2>2, <2>5
  <2> HIDE DEF s
  <2>7. Weekday(s) \notin Weekend
    BY <2>4, <2>6
  <2> QED BY <2>7 DEF s, slot
<1> QED BY <1>1, <1>2 DEF IsRules

-----------------------------------------------------------------------------
(* The rows: the inductive invariant, section by section *)

IsAutomation(row) == DOMAIN row = DOMAIN NewAutomation /\ AutomationFieldsOK(row)

\* No row holds a null or the model's mark of a missing value.
IsBrand(row) ==
  /\ DOMAIN row = DOMAIN NewBrand
  /\ \A f \in DOMAIN NewBrand : row[f] \notin {NoValue, Null}
  /\ row.font_family \in Fonts \cup {Empty}

IsDefaults(row) ==
  /\ DOMAIN row = DOMAIN NewDefaults
  /\ row.platforms \subseteq AllPlatforms
  /\ Selectable(row.render_template_id)

\* What a body of the raw profile holds, the one somebody read included.
IsProfile(body) ==
  /\ AutomationFieldsOK(body)
  /\ \A f \in DOMAIN body \cap DOMAIN NewBrand : body[f] # NoValue
  /\ "platforms" \in DOMAIN body => body.platforms \subseteq AllPlatforms

RowsOK ==
  /\ automation # NoRow => IsAutomation(automation)
  /\ brand # NoRow => IsBrand(brand)
  /\ defaults # NoRow => IsDefaults(defaults)
  /\ client # NoRow => IsProfile(client)
  /\ DOMAIN templates \subseteq Platforms /\ ValidTemplates(templates)
  /\ logos \subseteq {LogoKey(f) : f \in {g \in LogoForms : AcceptsLogo(g)}}
  /\ tracks \subseteq Tracks
  /\ saves \in 0 .. MaxSaves

\* The row that a first save completes is in order.
LEMMA NewAutomationOK == IsAutomation(NewAutomation)
BY DayLengthAssumption DEF IsAutomation, NewAutomation, AutomationFieldsOK, Times, Weekdays

\* A row holds rules for the slot.
LEMMA AutomationIsRules ==
  ASSUME NEW row, IsAutomation(row) PROVE IsRules(row)
BY DEF IsAutomation, IsRules, AutomationFieldsOK, NewAutomation

\* AutomationRulesRepository.upsert makes a row of a valid body.
LEMMA AutomationRowOK ==
  ASSUME RowsOK, NEW given, AutomationFieldsOK(given)
  PROVE  IsAutomation(AutomationRow(given))
<1> DEFINE old == Stored(automation, NewAutomation)
           row == AutomationRow(given)
<1>1. IsAutomation(old)
  BY NewAutomationOK DEF Stored, RowsOK
<1>2. DOMAIN row = DOMAIN NewAutomation
  BY DEF AutomationRow, Merged
<1>3. \A f \in DOMAIN NewAutomation : row[f] = IF f \in DOMAIN given THEN given[f] ELSE old[f]
  BY DEF AutomationRow, Merged
<1>4. DOMAIN NewAutomation = {"approval_required", "publish_window_start", "publish_window_end",
        "publish_days", "hold_window_seconds", "quiet_hours_enabled", "skip_weekends"}
  BY DEF NewAutomation
<1> HIDE DEF old, row
<1>5. AutomationFieldsOK(row)
  BY <1>1, <1>2, <1>3, <1>4 DEF IsAutomation, AutomationFieldsOK
<1> QED BY <1>2, <1>5 DEF IsAutomation, row

\* BrandSettingsRepository.upsert makes a row of a valid body.
LEMMA BrandRowOK ==
  ASSUME RowsOK, NEW given, GivesKnownFont(given),
         \A f \in DOMAIN given \cap DOMAIN NewBrand : given[f] # NoValue
  PROVE  IsBrand(BrandRow(given))
<1> DEFINE old == Stored(brand, NewBrand)
           row == BrandRow(given)
<1>1. IsBrand(NewBrand)
  <2>1. /\ DOMAIN NewBrand = {"primary_color", "secondary_color", "logo_object_key", "font_family"}
        /\ NewBrand.primary_color = "#0F172A" /\ NewBrand.secondary_color = "#FFFFFF"
        /\ NewBrand.logo_object_key = Empty /\ NewBrand.font_family = Empty
    BY DEF NewBrand
  <2>2. \A f \in DOMAIN NewBrand : NewBrand[f] \notin {NoValue, Null}
    BY <2>1 DEF NoValue, Null, Empty
  <2> QED BY <2>1, <2>2 DEF IsBrand
<1>2. IsBrand(old)
  BY <1>1 DEF Stored, RowsOK
<1>3. /\ DOMAIN row = DOMAIN NewBrand
      /\ \A f \in DOMAIN NewBrand :
           row[f] = IF f \in DOMAIN given
                    THEN IF given[f] = Null THEN Empty ELSE given[f] ELSE old[f]
  BY DEF BrandRow, Merged
<1>4. "font_family" \in DOMAIN NewBrand
  BY DEF NewBrand
<1> HIDE DEF old, row
<1>5. \A f \in DOMAIN NewBrand : row[f] \notin {NoValue, Null}
  BY <1>2, <1>3 DEF IsBrand, NoValue, Null, Empty
<1>6. row.font_family \in Fonts \cup {Empty}
  BY <1>2, <1>3, <1>4 DEF IsBrand, GivesKnownFont
<1> QED BY <1>3, <1>5, <1>6 DEF IsBrand, row

\* ReelDefaultsRepository.upsert makes a row of a valid body.
LEMMA DefaultsRowOK ==
  ASSUME RowsOK, NEW given,
         "platforms" \in DOMAIN given => given.platforms \subseteq AllPlatforms,
         "render_template_id" \in DOMAIN given => Selectable(given.render_template_id)
  PROVE  IsDefaults(DefaultsRow(given))
<1> DEFINE old == Stored(defaults, NewDefaults)
           row == DefaultsRow(given)
<1>1. IsDefaults(NewDefaults)
  BY ClassicIsSelectable DEF IsDefaults, NewDefaults, Selectable
<1>2. IsDefaults(old)
  BY <1>1 DEF Stored, RowsOK
<1>3. /\ DOMAIN row = DOMAIN NewDefaults
      /\ \A f \in DOMAIN NewDefaults :
           row[f] = IF f \in DOMAIN given THEN given[f] ELSE old[f]
  BY DEF DefaultsRow, Merged
<1>4. "platforms" \in DOMAIN NewDefaults /\ "render_template_id" \in DOMAIN NewDefaults
  BY DEF NewDefaults
<1> HIDE DEF old, row
<1>5. IsDefaults(row)
  BY <1>2, <1>3, <1>4 DEF IsDefaults
<1> QED BY <1>5 DEF row

\* What a body keeps of some fields.
LEMMA GivenFields ==
  ASSUME NEW body, NEW fields
  PROVE  /\ DOMAIN Given(body, fields) = DOMAIN body \cap fields
         /\ \A f \in DOMAIN body \cap fields : Given(body, fields)[f] = body[f]
BY DEF Given, Restrict

\* What UpdateAggregatedReelProfileUseCase hands to the three repositories.
LEMMA ProfileRows ==
  ASSUME RowsOK, NEW body, IsProfile(body), PutProfile(body)
  PROVE  /\ automation' # NoRow => IsAutomation(automation')
         /\ brand' # NoRow => IsBrand(brand')
         /\ defaults' # NoRow => IsDefaults(defaults')
<1> DEFINE colors == {"primary_color", "secondary_color"}
           d == Given(body, {"platforms", "render_template_id"})
           a == Given(body, {"approval_required"})
           e == IF "extra_settings" \in DOMAIN body
                THEN [settings |-> body.extra_settings] ELSE <<>>
           given == Over(d, e)
<1>1. automation' = IF a = <<>> THEN automation ELSE AutomationRow(a)
  BY DEF PutProfile
<1>2. AutomationFieldsOK(a)
  <2>1. DOMAIN a = DOMAIN body \cap {"approval_required"}
    BY GivenFields
  <2>2. "approval_required" \in DOMAIN a => a.approval_required = body.approval_required
    BY <2>1, GivenFields
  <2> HIDE DEF a
  <2> QED BY <2>1, <2>2 DEF AutomationFieldsOK, IsProfile
<1>3. automation' # NoRow => IsAutomation(automation')
  BY <1>1, <1>2, AutomationRowOK DEF RowsOK
<1>4. brand' = IF Given(body, colors) = <<>> THEN brand ELSE BrandRow(ProfileBrand(body))
  BY DEF PutProfile
<1>5. /\ GivesKnownFont(ProfileBrand(body))
      /\ \A f \in DOMAIN ProfileBrand(body) \cap DOMAIN NewBrand : ProfileBrand(body)[f] # NoValue
  <2>1. /\ DOMAIN ProfileBrand(body) = DOMAIN body \cap colors
        /\ \A f \in DOMAIN body \cap colors : ProfileBrand(body)[f] = body[f]
    BY DEF ProfileBrand, Given, Restrict
  <2>2. "font_family" \notin DOMAIN ProfileBrand(body)
    BY <2>1
  <2>3. \A f \in DOMAIN ProfileBrand(body) \cap DOMAIN NewBrand : ProfileBrand(body)[f] # NoValue
    <3> HIDE DEF colors
    <3> QED BY <2>1 DEF IsProfile
  <2> QED BY <2>2, <2>3 DEF GivesKnownFont
<1>6. brand' # NoRow => IsBrand(brand')
  BY <1>4, <1>5, BrandRowOK DEF RowsOK
<1>7. defaults' = IF given = <<>> THEN defaults ELSE DefaultsRow(given)
  BY DEF PutProfile
<1>8. /\ "platforms" \in DOMAIN given => given.platforms \subseteq AllPlatforms
      /\ "render_template_id" \in DOMAIN given => Selectable(given.render_template_id)
  <2>1. /\ DOMAIN d = DOMAIN body \cap {"platforms", "render_template_id"}
        /\ "platforms" \in DOMAIN d => d.platforms = body.platforms
        /\ "render_template_id" \in DOMAIN d => d.render_template_id = body.render_template_id
    BY GivenFields
  <2>2. DOMAIN e \subseteq {"settings"}
    OBVIOUS
  <2>3. GivesSelectable(body)
    BY DEF PutProfile
  <2> HIDE DEF d, e
  <2>4. DOMAIN given = DOMAIN d \cup DOMAIN e /\ \A f \in DOMAIN d : given[f] = d[f]
    BY DEF Over
  <2> HIDE DEF given
  <2>5. "platforms" \in DOMAIN given => "platforms" \in DOMAIN d /\ given.platforms = d.platforms
    BY <2>2, <2>4
  <2>6. "render_template_id" \in DOMAIN given =>
          "render_template_id" \in DOMAIN d /\ given.render_template_id = d.render_template_id
    BY <2>2, <2>4
  <2> QED BY <2>1, <2>3, <2>5, <2>6 DEF GivesSelectable, IsProfile
<1>9. defaults' # NoRow => IsDefaults(defaults')
  BY <1>7, <1>8, DefaultsRowOK DEF RowsOK
<1> QED BY <1>3, <1>6, <1>9

\* Every request leaves rows that are in order.
LEMMA RowsStep ==
  ASSUME RowsOK, [Next]_vars
  PROVE  RowsOK'
<1> USE DEF RowsOK
<1>1. ASSUME NEW b \in BrandBodies, PutBrand(b) PROVE RowsOK'
  <2>1. GivesKnownFont(b) /\ \A f \in DOMAIN b \cap DOMAIN NewBrand : b[f] # NoValue
    BY <1>1, BodiesAssumption DEF PutBrand
  <2>2. IsBrand(brand')
    BY <1>1, <2>1, BrandRowOK DEF PutBrand
  <2> QED BY <1>1, <2>2, ClockAssumption DEF PutBrand, Save
<1>2. ASSUME NEW b \in DefaultsBodies, PutDefaults(b) PROVE RowsOK'
  <2> DEFINE given == IF "settings" \in DOMAIN b
                      THEN [b EXCEPT !.settings = SettingsRow(@)] ELSE b
  <2>1. /\ "platforms" \in DOMAIN b => b.platforms \subseteq AllPlatforms
        /\ "render_template_id" \in DOMAIN b => Selectable(b.render_template_id)
    BY <1>2, BodiesAssumption DEF PutDefaults, GivesSelectable
  <2>2. /\ DOMAIN given = DOMAIN b
        /\ "platforms" \in DOMAIN b => given.platforms = b.platforms
        /\ "render_template_id" \in DOMAIN b => given.render_template_id = b.render_template_id
    OBVIOUS
  <2>3. defaults' = DefaultsRow(given)
    BY <1>2 DEF PutDefaults
  <2> HIDE DEF given
  <2>4. IsDefaults(defaults')
    BY <2>1, <2>2, <2>3, DefaultsRowOK
  <2> QED BY <1>2, <2>4, ClockAssumption DEF PutDefaults, Save
<1>3. ASSUME NEW b \in AutomationBodies, PutAutomation(b) PROVE RowsOK'
  <2>1. IsAutomation(automation')
    BY <1>3, BodiesAssumption, AutomationRowOK DEF PutAutomation
  <2> QED BY <1>3, <2>1, ClockAssumption DEF PutAutomation, Save
<1>4. ASSUME NEW b \in TemplateBodies, PutTemplates(b) PROVE RowsOK'
  <2>1. DOMAIN templates' \subseteq Platforms /\ ValidTemplates(templates)'
    BY <1>4, BodiesAssumption DEF PutTemplates, ValidTemplates
  <2> QED BY <1>4, <2>1, ClockAssumption DEF PutTemplates, Save
<1>5. ASSUME NEW b, IsProfile(b), PutProfile(b) PROVE RowsOK'
  <2>1. UNCHANGED <<templates, logos, tracks, client>> /\ Save
    BY <1>5 DEF PutProfile
  <2>2. /\ automation' # NoRow => IsAutomation(automation')
        /\ brand' # NoRow => IsBrand(brand')
        /\ defaults' # NoRow => IsDefaults(defaults')
    BY <1>5, ProfileRows
  <2>3. saves' \in 0 .. MaxSaves
    BY <2>1, ClockAssumption DEF Save
  <2> QED BY <2>1, <2>2, <2>3 DEF ValidTemplates
<1>6. ASSUME NEW b \in ProfileBodies, PutProfile(b) PROVE RowsOK'
  <2>1. IsProfile(b)
    BY <1>6, BodiesAssumption DEF IsProfile
  <2> QED BY <1>5, <1>6, <2>1
<1>7. ASSUME NEW id \in DOMAIN Catalog, SelectRenderTemplate(id) PROVE RowsOK'
  <2> DEFINE given == [render_template_id |-> id]
  <2>1. defaults' = DefaultsRow(given) /\ Selectable(id)
    BY <1>7 DEF SelectRenderTemplate
  <2>2. DOMAIN given = {"render_template_id"} /\ given.render_template_id = id
    OBVIOUS
  <2> HIDE DEF given
  <2>3. IsDefaults(defaults')
    BY <2>1, <2>2, DefaultsRowOK
  <2> QED BY <1>7, <2>3, ClockAssumption DEF SelectRenderTemplate, Save
<1>8. ASSUME NEW f \in LogoForms, UploadLogo(f) PROVE RowsOK'
  <2> DEFINE keys == {LogoKey(g) : g \in {h \in LogoForms : AcceptsLogo(h)}}
  <2>1. LogoKey(f) \in keys
    BY <1>8 DEF UploadLogo
  <2>2. logos' \subseteq keys /\ UNCHANGED <<brand, defaults, automation, templates, tracks, client>>
    <3> HIDE DEF keys
    <3>1. logos \subseteq keys
      BY DEF keys
    <3> QED BY <1>8, <2>1, <3>1 DEF UploadLogo
  <2>3. saves' \in 0 .. MaxSaves
    BY <1>8, ClockAssumption DEF UploadLogo, Save
  <2> QED BY <2>2, <2>3 DEF ValidTemplates
<1>9. ASSUME GetProfile PROVE RowsOK'
  <2>1. IsProfile(ReadProfile)
    <3> DEFINE b == Stored(brand, NewBrand)
               d == Stored(defaults, NewDefaults)
               p == ReadProfile
    <3>1. b.primary_color # NoValue /\ b.secondary_color # NoValue
      BY DEF Stored, IsBrand, NewBrand, NoValue
    <3>2. d.platforms \subseteq AllPlatforms
      BY DEF Stored, IsDefaults, NewDefaults
    <3>3. (automation # NoRow /\ automation.approval_required) \in BOOLEAN
      OBVIOUS
    <3>4. /\ DOMAIN p = {"primary_color", "secondary_color", "platforms", "render_template_id",
                         "approval_required", "extra_settings"}
          /\ p.primary_color = b.primary_color /\ p.secondary_color = b.secondary_color
          /\ p.platforms = d.platforms
          /\ p.approval_required = (automation # NoRow /\ automation.approval_required)
      BY DEF ReadProfile
    <3>5. DOMAIN NewBrand = {"primary_color", "secondary_color", "logo_object_key", "font_family"}
      BY DEF NewBrand
    <3> HIDE DEF b, d, p
    <3>6. IsProfile(p)
      BY <3>1, <3>2, <3>3, <3>4, <3>5 DEF IsProfile, AutomationFieldsOK
    <3> QED BY <3>6 DEF p
  <2> QED BY <1>9, <2>1 DEF GetProfile, ValidTemplates
<1>10. CASE PutProfileBack
  BY <1>5, <1>10 DEF PutProfileBack
<1>11. ASSUME NEW t \in Starts, Webhook(t) PROVE RowsOK'
  BY <1>11 DEF Webhook, ValidTemplates
<1>12. CASE Approve \/ Prepare \/ Post
  BY <1>12 DEF Approve, Prepare, Post, ValidTemplates
<1>13. ASSUME NEW h \in Delays, Tick(h) PROVE RowsOK'
  BY <1>13 DEF Tick, ValidTemplates
<1>14. ASSUME NEW t \in Tracks, RegisterTrack(t) \/ DecommissionTrack(t) PROVE RowsOK'
  <2>1. UNCHANGED <<brand, defaults, automation, templates, logos, client>> /\ Save
    BY <1>14 DEF RegisterTrack, DecommissionTrack
  <2>2. tracks' \subseteq Tracks
    BY <1>14 DEF RegisterTrack, DecommissionTrack
  <2>3. saves' \in 0 .. MaxSaves
    BY <2>1, ClockAssumption DEF Save
  <2> QED BY <2>1, <2>2, <2>3 DEF ValidTemplates
<1>15. CASE UNCHANGED vars
  BY <1>15 DEF vars, ValidTemplates
<1> QED
  BY <1>1, <1>2, <1>3, <1>4, <1>6, <1>7, <1>8, <1>9, <1>10, <1>11, <1>12, <1>13, <1>14,
     <1>15 DEF Next

-----------------------------------------------------------------------------
(* The job: the inductive invariant *)

ClockOK == now \in Instants /\ now.day =< Horizon

\* The slot of a note is the one its rules give at its instant.
IsNote(n) ==
  /\ n.at \in Instants
  /\ n.rules = NoRow => n.slot = Immediately
  /\ n.rules # NoRow => IsRules(n.rules) /\ n.slot = NextSlot(n.at, n.rules)

\* A queued job has the slot it was asked for with, if any; from its preparation
\* on its slot is the last one computed, or else that one, and the notes are in
\* the order of the clock.
IsJob(j) ==
  /\ DOMAIN j = {"phase", "approval_required", "platforms", "templates", "scheduled_at",
                 "render_template_id", "asked", "slotted", "posted_at"}
  /\ j.phase = "queued" /\ j.asked = NoRow =>
       j.slotted = NoRow /\ j.scheduled_at = Immediately
  /\ j.phase # "queued" => j.asked # NoRow /\ j.slotted # NoRow
  /\ j.asked # NoRow =>
       /\ IsNote(j.asked) /\ IsNote(j.slotted) /\ j.slotted # NoRow
       /\ NotBefore(j.slotted.at, j.asked.at) /\ NotBefore(now, j.slotted.at)
       /\ j.scheduled_at = Rescheduled(j.asked.slot, j.slotted.slot)
       /\ j.phase = "queued" => j.slotted = j.asked
       /\ j.phase = "posted" => j.posted_at \in Instants /\ NotBefore(j.posted_at, j.slotted.at)

JobOK == job # NoRow => IsJob(job)

IInv == RowsOK /\ ClockOK /\ JobOK

\* An instant is not before itself.
LEMMA NotBeforeItself ==
  ASSUME NEW t \in Instants PROVE NotBefore(t, t)
BY DEF NotBefore, Before, Instants, Times

\* What is noted when a slot is computed.
LEMMA NotedIsNote ==
  ASSUME RowsOK, ClockOK
  PROVE  LET n == Noted(automation, Slot)
         IN IsNote(n) /\ n # NoRow /\ n.at = now /\ n.slot = Slot
<1> DEFINE n == Noted(automation, Slot)
<1>1. n.at = now /\ n.rules = automation /\ n.slot = Slot /\ n # NoRow
  BY DEF Noted, NoRow
<1>2. automation # NoRow => IsRules(automation)
  BY AutomationIsRules DEF RowsOK
<1>3. now \in Instants
  BY DEF ClockOK
<1> HIDE DEF n
<1>4. IsNote(n)
  BY <1>1, <1>2, <1>3 DEF IsNote, Slot
<1> QED BY <1>1, <1>4 DEF n

\* Every step keeps the notes of the job in order.
LEMMA JobStep ==
  ASSUME IInv, [Next]_vars
  PROVE  ClockOK' /\ JobOK'
<1> USE DEF IInv
<1>1. ASSUME UNCHANGED <<now, job>> PROVE ClockOK' /\ JobOK'
  BY <1>1 DEF ClockOK, JobOK, IsJob, NotBefore, Before
<1>2. ASSUME NEW t \in Starts, Webhook(t) PROVE ClockOK' /\ JobOK'
  <2>1. ClockOK'
    BY <1>2, ClockAssumption DEF Webhook, ClockOK
  <2>2. JobOK'
    <3>1. job' = Context(automation # NoRow /\ automation.approval_required, templates,
                         Immediately, NoRow)
      BY <1>2 DEF Webhook
    <3> QED BY <3>1 DEF JobOK, IsJob, Context
  <2> QED BY <2>1, <2>2
<1>3. CASE Approve
  <2> DEFINE n == Noted(automation, Slot)
  <2>1. /\ job'.phase = "queued" /\ job'.asked = n /\ job'.slotted = n /\ job'.scheduled_at = Slot
        /\ DOMAIN job' = {"phase", "approval_required", "platforms", "templates", "scheduled_at",
                          "render_template_id", "asked", "slotted", "posted_at"}
    BY <1>3 DEF Approve, Context
  <2>2. now' = now
    BY <1>3 DEF Approve
  <2>3. IsNote(n) /\ n # NoRow /\ n.at = now /\ n.slot = Slot
    BY NotedIsNote
  <2>4. NotBefore(now, now)
    BY NotBeforeItself DEF ClockOK
  <2> HIDE DEF n
  <2>5. /\ NotBefore(n.at, n.at) /\ NotBefore(now', n.at)
        /\ Slot = Rescheduled(n.slot, n.slot)
    BY <2>2, <2>3, <2>4 DEF Rescheduled
  <2> QED BY <2>1, <2>2, <2>3, <2>5 DEF JobOK, IsJob, ClockOK
<1>4. CASE Prepare
  <2> DEFINE n == Noted(automation, Slot)
  <2>1. /\ job'.phase \in {"review", "prepared"}
        /\ job'.asked = (IF job.asked = NoRow THEN n ELSE job.asked)
        /\ job'.slotted = n
        /\ job'.scheduled_at = Rescheduled(job.scheduled_at, Slot)
        /\ DOMAIN job' = DOMAIN job
        /\ job.phase = "queued" /\ job # NoRow
    BY <1>4 DEF Prepare, JobOK, IsJob
  <2>2. now' = now
    BY <1>4 DEF Prepare
  <2>3. IsNote(n) /\ n # NoRow /\ n.at = now /\ n.slot = Slot
    BY NotedIsNote
  <2>4. IsJob(job)
    BY <2>1 DEF JobOK
  <2>5. NotBefore(now, now)
    BY NotBeforeItself DEF ClockOK
  <2> HIDE DEF n
  <2>6. CASE job.asked = NoRow
    <3>1. Rescheduled(Immediately, Slot) = Rescheduled(Slot, Slot)
      BY DEF Rescheduled
    <3> QED BY <2>1, <2>2, <2>3, <2>4, <2>5, <2>6, <3>1 DEF JobOK, IsJob, ClockOK
  <2>7. CASE job.asked # NoRow
    <3>1. job.scheduled_at = job.asked.slot
      BY <2>1, <2>4, <2>7 DEF IsJob, Rescheduled
    <3>2. NotBefore(now, job.asked.at) /\ IsNote(job.asked)
      BY <2>1, <2>4, <2>7 DEF IsJob
    <3> QED BY <2>1, <2>2, <2>3, <2>4, <2>5, <2>7, <3>1, <3>2 DEF JobOK, IsJob, ClockOK
  <2> QED BY <2>6, <2>7
<1>5. CASE Post
  <2>1. /\ job'.phase = "posted" /\ job'.posted_at = now
        /\ job'.asked = job.asked /\ job'.slotted = job.slotted
        /\ job'.scheduled_at = job.scheduled_at
        /\ DOMAIN job' = DOMAIN job
        /\ job.phase = "prepared" /\ job # NoRow
    BY <1>5 DEF Post, JobOK, IsJob
  <2>2. now' = now
    BY <1>5 DEF Post
  <2>3. IsJob(job)
    BY <2>1 DEF JobOK
  <2> QED BY <2>1, <2>2, <2>3 DEF JobOK, IsJob, ClockOK
<1>6. ASSUME NEW h \in Delays, Tick(h) PROVE ClockOK' /\ JobOK'
  <2>1. job' = job /\ now' = Later(now, h) /\ now'.day =< Horizon /\ job # NoRow
    BY <1>6 DEF Tick
  <2>2. now' \in Instants /\ NotBefore(now', now)
    BY <2>1, ClockAssumption, LaterIsLater DEF ClockOK
  <2>3. job.asked # NoRow => NotBefore(now', job.slotted.at)
    BY <2>1, <2>2, NotBeforeTransitive DEF JobOK, IsJob, IsNote, ClockOK
  <2> QED BY <2>1, <2>2, <2>3 DEF JobOK, IsJob, ClockOK
<1>7. ASSUME NEW b, PutBrand(b) \/ PutDefaults(b) \/ PutAutomation(b) \/ PutTemplates(b)
                    \/ PutProfile(b) \/ SelectRenderTemplate(b) \/ UploadLogo(b)
                    \/ RegisterTrack(b) \/ DecommissionTrack(b)
      PROVE  UNCHANGED <<now, job>>
  BY <1>7 DEF PutBrand, PutDefaults, PutAutomation, PutTemplates, PutProfile,
              SelectRenderTemplate, UploadLogo, RegisterTrack, DecommissionTrack
<1>8. ASSUME GetProfile \/ PutProfileBack \/ UNCHANGED vars PROVE UNCHANGED <<now, job>>
  BY <1>7, <1>8 DEF GetProfile, PutProfileBack, vars
<1> QED BY <1>1, <1>2, <1>3, <1>4, <1>5, <1>6, <1>7, <1>8 DEF Next

\* An agency starts without rows and without a job.
LEMMA InitOK == ASSUME Init PROVE IInv
<1>1. DOMAIN <<>> = {}
  OBVIOUS
<1> QED BY <1>1, ClockAssumption, DayLengthAssumption
       DEF Init, IInv, RowsOK, ClockOK, JobOK, Instants, Times, ValidTemplates

\* Rows, clock and job are in order in every reachable state.
LEMMA InvariantHolds == Spec => []IInv
<1>1. Init => IInv
  BY InitOK
<1>2. IInv /\ [Next]_vars => IInv'
  BY RowsStep, JobStep DEF IInv
<1> QED BY <1>1, <1>2, PTL DEF Spec

-----------------------------------------------------------------------------
(* Posts *)

\* The rules, seen in a slot that was computed: it is not one of a weekend that is
\* skipped, and under quiet hours the window is open, the hold is over and no
\* opening was passed over.
LEMMA SlotsHonour == IInv => SlotsHonourTheirRules
<1> SUFFICES ASSUME IInv, job # NoRow, NEW n \in {job.asked, job.slotted} \ {NoRow},
                    n.rules # NoRow, WeekendsAgree(n.rules)
             PROVE  LET r == n.rules
                        s == IF n.slot = Immediately THEN n.at ELSE n.slot
                        held == Later(n.at, r.hold_window_seconds)
                    IN /\ r.skip_weekends /\ ~Unanchored(held, r) => Weekday(s) \notin Weekend
                       /\ r.quiet_hours_enabled /\ HasWindow(r) =>
                            /\ OpenAt(s, r)
                            /\ ~Before(s, held)
                            /\ \A d \in held.day .. s.day :
                                 LET opening == [day |-> d, time |-> r.publish_window_start]
                                 IN Weekday(opening) \in r.publish_days
                                      /\ ~Before(opening, held)
                                    => ~Before(opening, s)
  BY DEF SlotsHonourTheirRules
<1>1. IsNote(n)
  BY DEF IInv, JobOK, IsJob
<1>2. IsRules(n.rules) /\ n.at \in Instants /\ n.slot = NextSlot(n.at, n.rules)
  BY <1>1 DEF IsNote
<1> DEFINE r == n.rules
           s == IF n.slot = Immediately THEN n.at ELSE n.slot
           held == Later(n.at, r.hold_window_seconds)
<1>3. r.skip_weekends /\ ~Unanchored(held, r) => Weekday(s) \notin Weekend
  BY <1>2, SlotSkipsWeekend
<1>4. ASSUME r.quiet_hours_enabled, HasWindow(r)
      PROVE  /\ OpenAt(s, r)
             /\ ~Before(s, held)
             /\ \A d \in held.day .. s.day :
                  LET opening == [day |-> d, time |-> r.publish_window_start]
                  IN Weekday(opening) \in r.publish_days /\ ~Before(opening, held)
                     => ~Before(opening, s)
  <2>1. Reached(s, held, r) /\ OpenAt(s, r)
    BY <1>2, <1>4, SlotIsOpen
  <2> HIDE DEF s, held
  <2>2. ASSUME NEW d \in held.day .. s.day, d % 7 \in r.publish_days,
               NotBefore(Opening(d, r), held)
        PROVE  NotBefore(Opening(d, r), s)
    <3>1. Usable(d, held, r)
      BY <2>2 DEF Usable, WeekendsAgree
    <3> QED BY <2>1, <2>2, <3>1 DEF Reached
  <2>3. ~Before(s, held)
    BY <2>1 DEF Reached, NotBefore
  <2>4. \A d \in held.day .. s.day :
          LET opening == [day |-> d, time |-> r.publish_window_start]
          IN Weekday(opening) \in r.publish_days /\ ~Before(opening, held)
             => ~Before(opening, s)
    BY <2>2 DEF Opening, Weekday, NotBefore
  <2> QED BY <2>1, <2>3, <2>4
<1> QED BY <1>3, <1>4

\* The hold that ran when a post was asked for is over when the post becomes
\* visible, whichever of the two slots was used.
LEMMA HoldHonoured == IInv => HoldIsHonoured
<1> SUFFICES ASSUME IInv, job # NoRow, job.phase = "posted", job.asked.rules # NoRow,
                    job.slotted.rules = job.asked.rules,
                    ~Unanchored(Later(job.asked.at, job.asked.rules.hold_window_seconds),
                                job.asked.rules)
             PROVE  NotBefore(VisibleAt,
                              Later(job.asked.at, job.asked.rules.hold_window_seconds))
  BY DEF HoldIsHonoured, NotBefore
<1> DEFINE r == job.asked.rules
           over == Later(job.asked.at, r.hold_window_seconds)
           again == Later(job.slotted.at, r.hold_window_seconds)
<1>1. /\ IsNote(job.asked) /\ IsNote(job.slotted)
      /\ NotBefore(job.slotted.at, job.asked.at)
      /\ job.posted_at \in Instants /\ NotBefore(job.posted_at, job.slotted.at)
      /\ job.scheduled_at = Rescheduled(job.asked.slot, job.slotted.slot)
  BY DEF IInv, JobOK, IsJob
<1>2. /\ IsRules(r) /\ job.asked.at \in Instants /\ job.slotted.at \in Instants
      /\ job.asked.slot = NextSlot(job.asked.at, r)
      /\ job.slotted.slot = NextSlot(job.slotted.at, r)
  BY <1>1 DEF IsNote
<1>3. /\ over \in Instants /\ again \in Instants /\ NotBefore(again, over)
      /\ r.hold_window_seconds \in 0 .. DayLength
  BY <1>1, <1>2, LaterIsLater, LaterMonotone DEF IsRules
<1>4. NotBefore(job.posted_at, job.asked.at)
  BY <1>1, <1>2, NotBeforeTransitive
<1>5. /\ job.asked.slot # Immediately =>
           job.asked.slot \in Instants /\ NotBefore(job.asked.slot, over)
      /\ job.asked.slot = Immediately => NotBefore(job.asked.at, over)
      /\ job.slotted.slot # Immediately =>
           job.slotted.slot \in Instants /\ NotBefore(job.slotted.slot, again)
  BY <1>2, SlotKeepsHold
<1> HIDE DEF over, again, r
<1>6. CASE job.scheduled_at = Immediately
  <2>1. job.asked.slot = Immediately
    BY <1>1, <1>6 DEF Rescheduled
  <2>2. NotBefore(job.posted_at, over)
    BY <1>1, <1>2, <1>3, <1>4, <1>5, <2>1, NotBeforeTransitive
  <2> QED BY <1>6, <2>2 DEF VisibleAt, over, r
<1>7. CASE job.scheduled_at # Immediately
  <2>1. job.scheduled_at \in Instants /\ NotBefore(job.scheduled_at, over)
    BY <1>1, <1>3, <1>5, <1>7, NotBeforeTransitive DEF Rescheduled
  <2>2. VisibleAt \in Instants /\ NotBefore(VisibleAt, job.scheduled_at)
    BY <1>1, <1>7, <2>1, NotBeforeItself DEF VisibleAt, NotBefore, Before, Instants, Times
  <2> QED BY <1>3, <2>1, <2>2, NotBeforeTransitive DEF over, r
<1> QED BY <1>6, <1>7

\* For any rules, windows and length of the day, and however often and late the
\* slot is computed again: a slot obeys the rules it was computed under
\* (those on whose weekends the code and its documents agree), and under rules that
\* stay no post is visible before its hold is over.
THEOREM PostsAllowed == Spec => []PostsWhenAllowed
<1>1. IInv => PostsWhenAllowed
  BY SlotsHonour, HoldHonoured DEF PostsWhenAllowed
<1> QED BY <1>1, InvariantHolds, PTL

-----------------------------------------------------------------------------
(* Types, and what is shown *)

\* A row without its approval switch is a set of Rules.
LEMMA RulesOfRow ==
  ASSUME NEW row, IsAutomation(row)
  PROVE  Restrict(row, DOMAIN row \ {"approval_required"}) \in Rules
<1> DEFINE rules == Restrict(row, DOMAIN row \ {"approval_required"})
<1>1. DOMAIN row = {"approval_required", "publish_window_start", "publish_window_end",
        "publish_days", "hold_window_seconds", "quiet_hours_enabled", "skip_weekends"}
  BY DEF IsAutomation, NewAutomation
<1>2. rules = [hold_window_seconds |-> row.hold_window_seconds,
               quiet_hours_enabled |-> row.quiet_hours_enabled,
               skip_weekends |-> row.skip_weekends,
               publish_window_start |-> row.publish_window_start,
               publish_window_end |-> row.publish_window_end,
               publish_days |-> row.publish_days]
  BY <1>1 DEF Restrict
<1>3. IsRules(row)
  BY AutomationIsRules
<1> QED BY <1>2, <1>3, DayLengthAssumption DEF Rules, IsRules

\* The invariant gives every variable its type.
LEMMA TypesOK == ASSUME IInv PROVE TypeOK
<1>1. automation # NoRow =>
        /\ automation.approval_required \in BOOLEAN
        /\ Restrict(automation, DOMAIN automation \ {"approval_required"}) \in Rules
  BY RulesOfRow, AutomationIsRules DEF IInv, RowsOK, IsRules
<1>2. defaults # NoRow =>
        /\ DOMAIN defaults = DOMAIN NewDefaults
        /\ defaults.platforms \subseteq AllPlatforms
        /\ defaults.render_template_id \in DOMAIN Catalog
        /\ Catalog[defaults.render_template_id] = "active"
  BY DEF IInv, RowsOK, IsDefaults, Selectable
<1>3. brand # NoRow => DOMAIN brand = DOMAIN NewBrand
  BY DEF IInv, RowsOK, IsBrand
<1>4. now.day \in 0 .. Horizon /\ now.time \in Times
  BY ClockAssumption DEF IInv, ClockOK, Instants
<1> QED BY <1>1, <1>2, <1>3, <1>4 DEF TypeOK, IInv, RowsOK

\* The entries that a reader adds to the settings.
LEMMA OverEntries ==
  ASSUME NEW f, NEW g
  PROVE  /\ DOMAIN Over(f, g) = DOMAIN f \cup DOMAIN g
         /\ \A k \in DOMAIN f : Over(f, g)[k] = f[k]
         /\ \A k \in DOMAIN g \ DOMAIN f : Over(f, g)[k] = g[k]
BY DEF Over

\* apply_music_settings_defaults adds or normalises the music rules only.
LEMMA SurfacedEntries ==
  ASSUME NEW settings
  PROVE  /\ DOMAIN Surfaced(settings) = {"music"} \cup DOMAIN settings
         /\ Surfaced(settings)["music"] = MusicRules(settings)
         /\ \A k \in DOMAIN settings \ {"music"} : Surfaced(settings)[k] = settings[k]
BY DEF Surfaced, Over

\* Only the templates and the music tracks are added.
LEMMA ListedKeys == DOMAIN Listed \subseteq {"social_templates", "music_tracks"}
<1> DEFINE m == IF tracks = {} THEN <<>> ELSE [music_tracks |-> tracks]
           p == IF templates = <<>> THEN <<>> ELSE [social_templates |-> ReadTemplates]
<1>1. DOMAIN <<>> = {}
  OBVIOUS
<1>2. DOMAIN m \subseteq {"music_tracks"} /\ DOMAIN p \subseteq {"social_templates"}
  BY <1>1
<1> HIDE DEF m, p
<1>3. DOMAIN Over(m, p) = DOMAIN m \cup DOMAIN p
  BY OverEntries
<1>4. Listed = Over(m, p)
  BY DEF Listed, m, p
<1> QED BY <1>2, <1>3, <1>4

\* Of the free-form settings the raw profile shows all that are stored; only
\* the music rules, the templates and the music tracks are added.
LEMMA ExtrasShown ==
  LET shown == ReadProfile.extra_settings
  IN \A k : k \notin {"music", "social_templates", "music_tracks"} =>
       /\ k \in DOMAIN shown <=> k \in DOMAIN SettingsNow
       /\ k \in DOMAIN shown => shown[k] = SettingsNow[k]
<1> DEFINE extras == Surfaced(SettingsNow)
           shown == ReadProfile.extra_settings
<1>1. shown = Over(Listed, extras)
  BY DEF ReadProfile, SettingsNow
<1> HIDE DEF extras, shown
<1>2. /\ DOMAIN extras = {"music"} \cup DOMAIN SettingsNow
      /\ \A k \in DOMAIN SettingsNow \ {"music"} : extras[k] = SettingsNow[k]
  BY SurfacedEntries DEF extras
<1>3. /\ DOMAIN Over(Listed, extras) = DOMAIN Listed \cup DOMAIN extras
      /\ \A k \in DOMAIN extras \ DOMAIN Listed : Over(Listed, extras)[k] = extras[k]
  BY OverEntries
<1>4. ASSUME NEW k, k \notin {"music", "social_templates", "music_tracks"}
      PROVE  /\ k \in DOMAIN shown <=> k \in DOMAIN SettingsNow
             /\ k \in DOMAIN shown => shown[k] = SettingsNow[k]
  BY <1>1, <1>2, <1>3, <1>4, ListedKeys
<1> QED BY <1>4 DEF shown

\* The invariant makes what the endpoints answer and what is rendered agree.
LEMMA ShownAsItLooks == ASSUME IInv PROVE LooksAsShown
<1> USE DEF IInv, RowsOK
<1>1. brand # NoRow => IsBrand(brand)
  OBVIOUS
<1>2. "primary_color" \in DOMAIN NewBrand /\ "secondary_color" \in DOMAIN NewBrand
  BY DEF NewBrand
<1>3. ASSUME brand # NoRow
      PROVE  /\ ReadBrand("primary_color") \in {Empty, PanelColor}
             /\ ReadBrand("secondary_color") \in {Empty, RibbonColor}
  BY <1>1, <1>2, <1>3 DEF ReadBrand, PanelColor, RibbonColor, Either, BrandValue, IsBrand,
     NoValue, Empty
<1>4. ASSUME brand # NoRow
      PROVE  /\ ReadProfile["primary_color"] = ReadBrand("primary_color")
             /\ ReadProfile["secondary_color"] = ReadBrand("secondary_color")
  BY <1>4 DEF ReadProfile, ReadBrand, Stored
<1>5. ReadBrand("font_family") \in {Empty, Font}
  <2>1. brand # NoRow => brand["font_family"] \in Fonts \cup {Empty}
    BY <1>1 DEF IsBrand
  <2>2. ReadBrand("font_family") = IF brand = NoRow THEN Empty ELSE brand["font_family"]
    BY DEF ReadBrand
  <2> QED BY <2>1, <2>2 DEF Font, BrandValue
<1>6. ReadBrand("logo_object_key") \in logos => Logo = ReadBrand("logo_object_key")
  <2>1. \A key \in logos : key \notin {Empty, NoValue}
    BY LogosAssumption
  <2>2. ReadBrand("logo_object_key") =
          IF brand = NoRow THEN Empty ELSE brand["logo_object_key"]
    BY DEF ReadBrand
  <2> QED BY <2>1, <2>2 DEF Logo, LogoFile, Either, BrandValue
<1>7. LET shown == ReadProfile.extra_settings
          hidden(key) == key \in DOMAIN shown /\ shown[key] = "false"
      IN  /\ AgentPicture = IF hidden("showAgentPhoto") THEN Logo ELSE "the listing's agent"
          /\ CaptionsDrawn = ~hidden("automation.autoCaptions")
          /\ \A k \in SubtitleKeys :
               (k \in DOMAIN shown) = (k \in DOMAIN SubtitleStyle)
                 /\ (k \in DOMAIN shown => shown[k] = SubtitleStyle[k])
  <2> DEFINE shown == ReadProfile.extra_settings
             hidden(key) == key \in DOMAIN shown /\ shown[key] = "false"
  <2>1. \A k : k \notin {"music", "social_templates", "music_tracks"} =>
          /\ k \in DOMAIN shown <=> k \in DOMAIN SettingsNow
          /\ k \in DOMAIN shown => shown[k] = SettingsNow[k]
    BY ExtrasShown
  <2> HIDE DEF shown
  <2>2. AgentPicture = IF hidden("showAgentPhoto") THEN Logo ELSE "the listing's agent"
    BY <2>1 DEF AgentPicture, AgentPhotoShown, OnUnlessFalse
  <2>3. CaptionsDrawn = ~hidden("automation.autoCaptions")
    BY <2>1 DEF CaptionsDrawn, OnUnlessFalse
  <2>4. ASSUME NEW k \in SubtitleKeys
        PROVE  /\ (k \in DOMAIN shown) = (k \in DOMAIN SubtitleStyle)
               /\ k \in DOMAIN shown => shown[k] = SubtitleStyle[k]
    <3>1. k \notin {"music", "social_templates", "music_tracks"}
      BY DEF SubtitleKeys
    <3> QED BY <2>1, <3>1 DEF SubtitleStyle, Restrict
  <2> QED BY <2>2, <2>3, <2>4 DEF shown
<1>8. brand # NoRow =>
        /\ \A pair \in {<<PanelColor, "primary_color">>, <<RibbonColor, "secondary_color">>,
                        <<Font, "font_family">>} : ReadBrand(pair[2]) \in {Empty, pair[1]}
        /\ \A f \in {"primary_color", "secondary_color"} : ReadProfile[f] = ReadBrand(f)
  BY <1>3, <1>4, <1>5
<1> QED BY <1>6, <1>7, <1>8, TypesOK DEF LooksAsShown

\* The rows, the clock and the job keep their types, whatever is saved.
THEOREM TypeCorrect == Spec => []TypeOK
BY TypesOK, InvariantHolds, PTL

\* For any rows that saves can leave: a reel under a saved brand looks as the
\* administrator is told, in the colours and the font the endpoints answer; under
\* any brand the logo, the agent and the captions are as they say.
THEOREM ShownCorrect == Spec => []LooksAsShown
BY ShownAsItLooks, InvariantHolds, PTL

-----------------------------------------------------------------------------
(* Saves *)

\* The rows that saves make are told from no row, and read as they are.
LEMMA AutomationReads ==
  ASSUME NEW given, automation' = AutomationRow(given), NEW f \in DOMAIN NewAutomation
  PROVE  ReadAutomation(f)' = IF f \in DOMAIN given THEN given[f] ELSE ReadAutomation(f)
<1> DEFINE row == AutomationRow(given)
<1>1. /\ DOMAIN row = DOMAIN NewAutomation
      /\ row[f] = IF f \in DOMAIN given THEN given[f] ELSE Stored(automation, NewAutomation)[f]
  BY DEF AutomationRow, Merged
<1>2. row # NoRow
  BY <1>1 DEF NewAutomation, NoRow
<1>3. ReadAutomation(f) = Stored(automation, NewAutomation)[f]
  BY DEF ReadAutomation, Stored, NewAutomation
<1> HIDE DEF row
<1>4. automation' = row
  BY DEF row
<1>5. ReadAutomation(f)' = row[f]
  BY <1>2, <1>4 DEF ReadAutomation
<1> QED BY <1>1, <1>3, <1>5

\* A brand field that is given reads as it was given, cleared if null.
LEMMA BrandReads ==
  ASSUME brand # NoRow, NEW given, brand' = BrandRow(given), NEW f \in DOMAIN NewBrand
  PROVE  ReadBrand(f)' = IF f \in DOMAIN given
                         THEN IF given[f] = Null THEN Empty ELSE given[f] ELSE ReadBrand(f)
<1> DEFINE row == BrandRow(given)
<1>1. /\ DOMAIN row = DOMAIN NewBrand
      /\ row[f] = IF f \in DOMAIN given
                  THEN IF given[f] = Null THEN Empty ELSE given[f] ELSE brand[f]
  BY DEF BrandRow, Merged, Stored
<1>2. row # NoRow
  BY <1>1 DEF NewBrand, NoRow
<1>3. ReadBrand(f) = brand[f]
  BY DEF ReadBrand
<1> HIDE DEF row
<1>4. brand' = row
  BY DEF row
<1>5. ReadBrand(f)' = row[f]
  BY <1>2, <1>4 DEF ReadBrand
<1> QED BY <1>1, <1>3, <1>5

\* A field of the defaults that is given reads as it was given.
LEMMA DefaultsReads ==
  ASSUME NEW given, defaults' = DefaultsRow(given)
  PROVE  /\ \A f \in DOMAIN NewDefaults \ {"settings"} :
              ReadDefaults(f)' = IF f \in DOMAIN given THEN given[f] ELSE ReadDefaults(f)
         /\ ReadDefaults("settings")' =
              Surfaced(IF "settings" \in DOMAIN given THEN given.settings ELSE SettingsNow)
<1> DEFINE row == DefaultsRow(given)
           old == Stored(defaults, NewDefaults)
<1>1. /\ DOMAIN row = DOMAIN NewDefaults
      /\ \A f \in DOMAIN NewDefaults : row[f] = IF f \in DOMAIN given THEN given[f] ELSE old[f]
  BY DEF DefaultsRow, Merged
<1>2. row # NoRow /\ "settings" \in DOMAIN NewDefaults
  BY <1>1 DEF NewDefaults, NoRow
<1>3. \A f \in DOMAIN NewDefaults \ {"settings"} : ReadDefaults(f) = old[f]
  BY DEF ReadDefaults
<1>4. SettingsNow = old["settings"]
  BY DEF SettingsNow
<1> HIDE DEF row, old
<1>5. defaults' = row
  BY DEF row
<1>6. /\ \A f \in DOMAIN NewDefaults \ {"settings"} : ReadDefaults(f)' = row[f]
      /\ ReadDefaults("settings")' = Surfaced(row["settings"])
  BY <1>2, <1>5 DEF ReadDefaults, Stored
<1> QED BY <1>1, <1>2, <1>3, <1>4, <1>6

\* Only the brand's endpoint and the raw profile change the brand, and only in
\* the fields they give.
LEMMA BrandStep == ASSUME Next PROVE BrandKept
<1> SUFFICES ASSUME brand' # brand, brand # NoRow, NEW f \in DOMAIN NewBrand,
                    \A b \in BrandBodies : f \in DOMAIN b => ~PutBrand(b),
                    \A b \in ProfileBodies : f \in DOMAIN b => ~PutProfile(b),
                    ~PutProfileBack
             PROVE  ReadBrand(f)' = ReadBrand(f)
  BY DEF BrandKept
<1>1. ASSUME NEW b \in BrandBodies, PutBrand(b) PROVE ReadBrand(f)' = ReadBrand(f)
  <2>1. brand' = BrandRow(b) /\ f \notin DOMAIN b
    BY <1>1 DEF PutBrand
  <2> QED BY <2>1, BrandReads
<1>2. ASSUME NEW b \in ProfileBodies, PutProfile(b) PROVE ReadBrand(f)' = ReadBrand(f)
  <2>1. brand' = BrandRow(ProfileBrand(b)) /\ f \notin DOMAIN b
    BY <1>2 DEF PutProfile
  <2>2. f \notin DOMAIN ProfileBrand(b)
    BY <2>1, GivenFields, ZenonT(60) DEF ProfileBrand
  <2> QED BY <2>1, <2>2, BrandReads
<1> QED
  BY <1>1, <1>2 DEF Next, PutDefaults, PutAutomation, PutTemplates, SelectRenderTemplate,
     UploadLogo, RegisterTrack, DecommissionTrack, GetProfile, Webhook, Approve, Prepare, Post,
     Tick

\* Only the automation endpoint and the raw profile change the rules, and only
\* in the fields they give.
LEMMA AutomationStep == ASSUME Next PROVE AutomationKept
<1> SUFFICES ASSUME automation' # automation, NEW f \in DOMAIN NewAutomation,
                    \A b \in AutomationBodies : f \in DOMAIN b => ~PutAutomation(b),
                    \A b \in ProfileBodies : f \in DOMAIN b => ~PutProfile(b),
                    ~PutProfileBack
             PROVE  ReadAutomation(f)' = ReadAutomation(f)
  BY DEF AutomationKept
<1>1. ASSUME NEW b \in AutomationBodies, PutAutomation(b)
      PROVE  ReadAutomation(f)' = ReadAutomation(f)
  <2>1. automation' = AutomationRow(b) /\ f \notin DOMAIN b
    BY <1>1 DEF PutAutomation
  <2> QED BY <2>1, AutomationReads
<1>2. ASSUME NEW b \in ProfileBodies, PutProfile(b)
      PROVE  ReadAutomation(f)' = ReadAutomation(f)
  <2> DEFINE given == Given(b, {"approval_required"})
  <2>1. automation' = AutomationRow(given) /\ f \notin DOMAIN b
    BY <1>2 DEF PutProfile
  <2>2. f \notin DOMAIN given
    BY <2>1, GivenFields, ZenonT(60)
  <2> QED BY <2>1, <2>2, AutomationReads
<1> QED
  BY <1>1, <1>2 DEF Next, PutBrand, PutDefaults, PutTemplates, SelectRenderTemplate,
     UploadLogo, RegisterTrack, DecommissionTrack, GetProfile, Webhook, Approve, Prepare, Post,
     Tick

\* The body of a save of the defaults once its settings are merged, and the
\* part of a raw profile that goes to the defaults.
MergedBody(b) == IF "settings" \in DOMAIN b THEN [b EXCEPT !.settings = SettingsRow(@)] ELSE b

ProfileDefaults(b) ==
  Over(Given(b, {"platforms", "render_template_id"}),
       IF "extra_settings" \in DOMAIN b THEN [settings |-> b.extra_settings] ELSE <<>>)

\* A raw profile gives the defaults no more than it holds.
LEMMA ProfileDefaultsFields ==
  ASSUME NEW b
  PROVE  LET given == ProfileDefaults(b)
         IN /\ \A f \in DOMAIN NewDefaults \ {"settings"} :
                 /\ f \in DOMAIN given => f \in DOMAIN b
                 /\ f \in DOMAIN given => given[f] = b[f]
            /\ "settings" \in DOMAIN given <=> "extra_settings" \in DOMAIN b
            /\ "settings" \in DOMAIN given => given.settings = b.extra_settings
<1> DEFINE d == Given(b, {"platforms", "render_template_id"})
           e == IF "extra_settings" \in DOMAIN b THEN [settings |-> b.extra_settings] ELSE <<>>
           given == Over(d, e)
<1>1. /\ DOMAIN d = DOMAIN b \cap {"platforms", "render_template_id"}
      /\ \A f \in DOMAIN d : d[f] = b[f]
  BY DEF Given, Restrict
<1>2. /\ DOMAIN e = IF "extra_settings" \in DOMAIN b THEN {"settings"} ELSE {}
      /\ "extra_settings" \in DOMAIN b => e.settings = b.extra_settings
  OBVIOUS
<1> HIDE DEF d, e
<1>3. /\ DOMAIN given = DOMAIN d \cup DOMAIN e
      /\ \A k \in DOMAIN d : given[k] = d[k]
      /\ \A k \in DOMAIN e \ DOMAIN d : given[k] = e[k]
  BY DEF Over
<1> HIDE DEF given
<1>4. \A f \in DOMAIN NewDefaults \ {"settings"} :
        f \in DOMAIN given => f \in DOMAIN b /\ given[f] = b[f]
  BY <1>1, <1>2, <1>3
<1>5. "settings" \in DOMAIN given <=> "extra_settings" \in DOMAIN b
  BY <1>1, <1>2, <1>3
<1>6. "settings" \in DOMAIN given => given.settings = b.extra_settings
  BY <1>1, <1>2, <1>3
<1> QED BY <1>4, <1>5, <1>6 DEF given, d, e, ProfileDefaults

\* Only the endpoints of the defaults and of the templates and the raw profile
\* change the defaults, and only in the fields they give.
LEMMA DefaultsStep == ASSUME Next PROVE DefaultsKept
<1> SUFFICES ASSUME defaults' # defaults, NEW f \in DOMAIN NewDefaults,
                    \A b \in DefaultsBodies : f \in DOMAIN b => ~PutDefaults(b),
                    f = "render_template_id" =>
                      \A id \in DOMAIN Catalog : ~SelectRenderTemplate(id),
                    \A b \in ProfileBodies :
                      (f \in DOMAIN b \/ (f = "settings" /\ "extra_settings" \in DOMAIN b))
                        => ~PutProfile(b),
                    ~PutProfileBack
             PROVE  ReadDefaults(f)' = ReadDefaults(f)
  BY DEF DefaultsKept
<1>1. ReadDefaults("settings") = Surfaced(SettingsNow)
  BY DEF ReadDefaults, SettingsNow
<1>2. ASSUME NEW given, defaults' = DefaultsRow(given), f \notin DOMAIN given
      PROVE  ReadDefaults(f)' = ReadDefaults(f)
  <2>1. CASE f = "settings"
    BY <1>1, <1>2, <2>1, DefaultsReads
  <2>2. CASE f # "settings"
    BY <1>2, <2>2, DefaultsReads
  <2> QED BY <2>1, <2>2
<1>3. ASSUME NEW b \in DefaultsBodies, PutDefaults(b)
      PROVE  ReadDefaults(f)' = ReadDefaults(f)
  <2>1. defaults' = DefaultsRow(MergedBody(b)) /\ f \notin DOMAIN b
    BY <1>3 DEF PutDefaults, MergedBody
  <2>2. f \notin DOMAIN MergedBody(b)
    BY <2>1 DEF MergedBody
  <2> QED BY <1>2, <2>1, <2>2
<1>4. ASSUME NEW b \in ProfileBodies, PutProfile(b)
      PROVE  ReadDefaults(f)' = ReadDefaults(f)
  <2>1. /\ defaults' = DefaultsRow(ProfileDefaults(b))
        /\ f \notin DOMAIN b /\ ~(f = "settings" /\ "extra_settings" \in DOMAIN b)
    BY <1>4 DEF PutProfile, ProfileDefaults
  <2>2. f \notin DOMAIN ProfileDefaults(b)
    BY <2>1, ProfileDefaultsFields
  <2> QED BY <1>2, <2>1, <2>2
<1>5. ASSUME NEW id \in DOMAIN Catalog, SelectRenderTemplate(id)
      PROVE  ReadDefaults(f)' = ReadDefaults(f)
  <2> DEFINE given == [render_template_id |-> id]
  <2>1. defaults' = DefaultsRow(given) /\ f \notin DOMAIN given
    BY <1>5 DEF SelectRenderTemplate
  <2> HIDE DEF given
  <2> QED BY <1>2, <2>1
<1> QED
  BY <1>3, <1>4, <1>5 DEF Next, PutBrand, PutAutomation, PutTemplates,
     UploadLogo, RegisterTrack, DecommissionTrack, GetProfile, Webhook, Approve, Prepare, Post,
     Tick

\* What is merged into the settings leaves the other entries as they read.
LEMMA MergedSettingsRead ==
  ASSUME NEW added, NEW settings, NEW k \in DOMAIN Surfaced(settings) \ DOMAIN added
  PROVE  Surfaced(Over(added, settings))[k] = Surfaced(settings)[k]
<1> DEFINE new == Over(added, settings)
<1>1. /\ DOMAIN new = DOMAIN added \cup DOMAIN settings
      /\ \A l \in DOMAIN settings \ DOMAIN added : new[l] = settings[l]
  BY OverEntries
<1> HIDE DEF new
<1>2. CASE k = "music"
  <2>1. MusicRules(new) = MusicRules(settings)
    BY <1>1, <1>2 DEF MusicRules
  <2> QED BY <1>2, <2>1, SurfacedEntries DEF new
<1>3. CASE k # "music"
  <2>1. k \in DOMAIN settings
    BY <1>3, SurfacedEntries
  <2>2. Surfaced(new)[k] = new[k] /\ Surfaced(settings)[k] = settings[k]
    BY <1>1, <1>3, <2>1, SurfacedEntries
  <2> QED BY <1>1, <2>1, <2>2 DEF new
<1> QED BY <1>2, <1>3

\* One tab's settings survive another tab's save.
LEMMA SettingsStep == SettingsKept
<1> SUFFICES ASSUME NEW b \in DefaultsBodies, "settings" \in DOMAIN b, PutDefaults(b),
                    NEW k \in DOMAIN ReadDefaults("settings") \ DOMAIN b.settings
             PROVE  ReadDefaults("settings")'[k] = ReadDefaults("settings")[k]
  BY DEF SettingsKept
<1>1. defaults' = DefaultsRow(MergedBody(b))
  BY DEF PutDefaults, MergedBody
<1>2. /\ "settings" \in DOMAIN MergedBody(b)
      /\ MergedBody(b).settings = Over(b.settings, SettingsNow)
  BY DEF MergedBody, SettingsRow, SettingsNow
<1>3. ReadDefaults("settings")' = Surfaced(Over(b.settings, SettingsNow))
  BY <1>1, <1>2, DefaultsReads
<1>4. ReadDefaults("settings") = Surfaced(SettingsNow)
  BY DEF ReadDefaults, SettingsNow
<1> QED BY <1>3, <1>4, MergedSettingsRead

\* The raw profile writes back what it read.
LEMMA RawSaveStep == ASSUME IInv PROVE RawSaveKept
<1> SUFFICES ASSUME PutProfile(client), client = ReadProfile
             PROVE  /\ brand # NoRow => \A f \in DOMAIN NewBrand : ReadBrand(f)' = ReadBrand(f)
                    /\ \A f \in DOMAIN NewDefaults \ {"settings"} :
                         ReadDefaults(f)' = ReadDefaults(f)
                    /\ \A k \in DOMAIN ReadDefaults("settings")
                              \ {"social_templates", "music_tracks"} :
                         ReadDefaults("settings")'[k] = ReadDefaults("settings")[k]
                    /\ \A f \in DOMAIN NewAutomation : ReadAutomation(f)' = ReadAutomation(f)
  BY DEF RawSaveKept, PutProfileBack
<1> DEFINE p == client
           extras == Surfaced(SettingsNow)
<1>1. /\ DOMAIN p = {"primary_color", "secondary_color", "platforms", "render_template_id",
                     "approval_required", "extra_settings"}
      /\ p.primary_color = Stored(brand, NewBrand).primary_color
      /\ p.secondary_color = Stored(brand, NewBrand).secondary_color
      /\ p.platforms = Stored(defaults, NewDefaults).platforms
      /\ p.render_template_id = Stored(defaults, NewDefaults).render_template_id
      /\ p.approval_required = (automation # NoRow /\ automation.approval_required)
      /\ p.extra_settings = Over(Listed, extras)
  BY DEF ReadProfile, SettingsNow
<1>2. ASSUME brand # NoRow, NEW f \in DOMAIN NewBrand PROVE ReadBrand(f)' = ReadBrand(f)
  <2>1. CASE brand' = brand
    BY <2>1 DEF ReadBrand
  <2>2. CASE brand' = BrandRow(ProfileBrand(p))
    <3> DEFINE given == ProfileBrand(p)
    <3>1. /\ DOMAIN given = {"primary_color", "secondary_color"}
          /\ given.primary_color = p.primary_color /\ given.secondary_color = p.secondary_color
      BY <1>1 DEF ProfileBrand, Given, Restrict
    <3>2. p.primary_color = brand.primary_color /\ p.secondary_color = brand.secondary_color
      BY <1>1, <1>2 DEF Stored
    <3>3. ReadBrand(f) = brand[f] /\ brand[f] # Null
      BY <1>2 DEF ReadBrand, IInv, RowsOK, IsBrand
    <3> HIDE DEF given
    <3>4. ReadBrand(f)' = IF f \in DOMAIN given
                          THEN IF given[f] = Null THEN Empty ELSE given[f] ELSE ReadBrand(f)
      BY <1>2, <2>2, BrandReads DEF given
    <3> QED BY <3>1, <3>2, <3>3, <3>4
  <2> QED BY <2>1, <2>2 DEF PutProfile
<1>3. PICK given : given = ProfileDefaults(p)
  OBVIOUS
<1>4. /\ \A f \in DOMAIN NewDefaults \ {"settings"} : f \in DOMAIN given => given[f] = p[f]
      /\ \A f \in DOMAIN NewDefaults \ {"settings"} : f \in DOMAIN given => f \in DOMAIN p
      /\ "settings" \in DOMAIN given /\ given.settings = p.extra_settings
  BY <1>1, <1>3, ProfileDefaultsFields
<1>5. defaults' = DefaultsRow(given)
  <2>1. defaults' = IF given = <<>> THEN defaults ELSE DefaultsRow(given)
    BY <1>3 DEF PutProfile, ProfileDefaults
  <2>2. given # <<>>
    BY <1>4
  <2> QED BY <2>1, <2>2
<1>6. ASSUME NEW f \in DOMAIN NewDefaults \ {"settings"}
      PROVE  ReadDefaults(f)' = ReadDefaults(f)
  <2>1. ReadDefaults(f) = Stored(defaults, NewDefaults)[f]
    BY DEF ReadDefaults
  <2>2. DOMAIN NewDefaults = {"platforms", "render_template_id", "outro_enabled", "settings"}
    BY DEF NewDefaults
  <2>3. f \in DOMAIN given => given[f] = Stored(defaults, NewDefaults)[f]
    BY <1>1, <1>4, <2>2
  <2>4. ReadDefaults(f)' = IF f \in DOMAIN given THEN given[f] ELSE ReadDefaults(f)
    BY <1>5, DefaultsReads
  <2> QED BY <2>1, <2>3, <2>4
<1>7. ASSUME NEW k \in DOMAIN ReadDefaults("settings") \ {"social_templates", "music_tracks"}
      PROVE  ReadDefaults("settings")'[k] = ReadDefaults("settings")[k]
  <2> DEFINE shown == p.extra_settings
  <2>1. ReadDefaults("settings") = extras
    BY DEF ReadDefaults, SettingsNow
  <2>2. ReadDefaults("settings")' = Surfaced(shown)
    BY <1>4, <1>5, DefaultsReads
  <2>3. shown = Over(Listed, extras)
    BY <1>1
  <2>4. /\ DOMAIN extras = {"music"} \cup DOMAIN SettingsNow
        /\ extras["music"] = MusicRules(SettingsNow)
    BY SurfacedEntries
  <2> HIDE DEF shown, extras
  <2>5. /\ DOMAIN Over(Listed, extras) = DOMAIN Listed \cup DOMAIN extras
        /\ \A l \in DOMAIN extras \ DOMAIN Listed : Over(Listed, extras)[l] = extras[l]
    BY OverEntries
  <2>6. \A l \in DOMAIN extras \ {"social_templates", "music_tracks"} :
          l \in DOMAIN shown /\ shown[l] = extras[l]
    BY <2>3, <2>5, ListedKeys
  <2>7. /\ k \in DOMAIN shown /\ shown[k] = extras[k]
        /\ "music" \in DOMAIN shown /\ shown["music"] = MusicRules(SettingsNow)
    BY <2>1, <2>4, <2>6
  <2>8. CASE k = "music"
    <3>1. MusicRules(shown) = MusicRules(SettingsNow)
      BY <2>7 DEF MusicRules
    <3> QED BY <2>1, <2>2, <2>4, <2>8, <3>1, SurfacedEntries
  <2>9. CASE k # "music"
    BY <2>1, <2>2, <2>7, <2>9, SurfacedEntries
  <2> QED BY <2>8, <2>9
<1>8. ASSUME NEW f \in DOMAIN NewAutomation PROVE ReadAutomation(f)' = ReadAutomation(f)
  <2>1. CASE automation' = automation
    BY <2>1 DEF ReadAutomation
  <2>2. CASE automation' = AutomationRow(Given(p, {"approval_required"}))
    <3>1. /\ DOMAIN Given(p, {"approval_required"}) = {"approval_required"}
          /\ Given(p, {"approval_required"}).approval_required
               = (automation # NoRow /\ automation.approval_required)
      BY <1>1 DEF Given, Restrict
    <3>2. ReadAutomation("approval_required")
            = (automation # NoRow /\ automation.approval_required)
      <4>1. automation # NoRow => automation.approval_required \in BOOLEAN
        BY AutomationIsRules DEF IInv, RowsOK, IsRules
      <4>2. CASE automation = NoRow
        BY <4>2 DEF ReadAutomation
      <4>3. CASE automation # NoRow
        BY <4>1, <4>3 DEF ReadAutomation
      <4> QED BY <4>2, <4>3
    <3>3. ReadAutomation(f)' = IF f \in DOMAIN Given(p, {"approval_required"})
                               THEN Given(p, {"approval_required"})[f] ELSE ReadAutomation(f)
      BY <2>2, AutomationReads
    <3> QED BY <3>1, <3>2, <3>3
  <2> QED BY <2>1, <2>2 DEF PutProfile
<1> QED BY <1>2, <1>6, <1>7, <1>8

\* For any bodies, catalogs and rows: a save changes what it names and nothing
\* else, through whichever view, and the raw profile saved as it was read
\* changes nothing, except that the templates and the tracks it shows are stored
\* with the settings.
THEOREM SavesCorrect == Spec => SavesChangeWhatTheyName
<1>1. IInv /\ [Next]_vars
        => [BrandKept /\ DefaultsKept /\ SettingsKept /\ AutomationKept]_vars
  BY BrandStep, DefaultsStep, SettingsStep, AutomationStep
<1>2. IInv /\ [Next]_vars => [RawSaveKept]_vars
  BY RawSaveStep
<1> QED BY <1>1, <1>2, InvariantHolds, PTL
       DEF Spec, SavesChangeWhatTheyName, OmittedReadTheSame, RawSaveChangesNothing
=============================================================================
