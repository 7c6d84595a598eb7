---------------------------- MODULE AgencyAdmin ----------------------------
(***************************************************************************)
(* Who the system works for: agencies, the WordPress sites that feed them, *)
(* and their GoHighLevel connections.  Administrators change them, agencies *)
(* change their own with a session token, and sites deliver webhooks.      *)
(*                                                                         *)
(* A request of the admin API is one transaction; one that is refused, or  *)
(* that a constraint of the database stops, changes nothing.  A delivery   *)
(* is two transactions: its signature is checked in the first and the job  *)
(* is queued in the second, and another API process may change the site in *)
(* between.  Signatures are checked: WEBHOOK_DISABLE_SECURITY, which turns  *)
(* the check off for local development, is off.                            *)
(***************************************************************************)
EXTENDS Naturals, FiniteSets

CONSTANTS
  AgencyIds,    \* ids of agencies, never given twice (uuid4)
  Founders,     \* agencies that were registered before
  Names,        \* names of agencies
  Slugs,        \* slugs
  SlugOf,       \* slugify_agency, on names and slugs
  SourceIds,    \* ids of ingestion sources, never given twice
  Sites,        \* host names of WordPress sites (external_id)
  Keys,         \* webhook secrets
  EnvKey,       \* WEBHOOK_SITE_SECRETS: the legacy secret of a site, or None
  Locations,    \* GoHighLevel locations
  Processes,    \* API processes
  None,         \* no value
  Omitted,      \* a secret the request leaves out
  MaxRequests,  \* bound: requests of administrators and agencies
  MaxDeliveries \* bound: webhook deliveries

ASSUME SlugAssumption ==
  /\ SlugOf \in [Names \cup Slugs -> Slugs]
  /\ \A s \in Slugs : SlugOf[s] = s
ASSUME FoundersAssumption ==
  /\ DOMAIN Founders \subseteq AgencyIds
  /\ \A a \in DOMAIN Founders : Founders[a] \in Names
  /\ \A a, b \in DOMAIN Founders :
       SlugOf[Founders[a]] = SlugOf[Founders[b]] => a = b
ASSUME EnvKeyAssumption == EnvKey \in [Sites -> Keys \cup {None}]
ASSUME NoneAssumption ==
  {None, Omitted} \cap (AgencyIds \cup Names \cup Slugs \cup SourceIds \cup Keys \cup Locations) = {}
ASSUME CallersAssumption == "admin" \notin AgencyIds
ASSUME BoundsAssumption == MaxRequests \in Nat /\ MaxDeliveries \in Nat

VARIABLES
  agencies,     \* agencies: function from id to name and slug
  sources,      \* ingestion_sources: function from id to its row
  connections,  \* provider_connections: function from agency to its location
  jobs,         \* what the queue was given, for every delivery that was accepted
  tokens,       \* agencies that session tokens speak for and that did not expire
  delivery,     \* per API process, the delivery between its two transactions
  born,         \* history: ids that were given
  caller,       \* history: who made the last request of the admin API
  requests,     \* how many requests there were
  deliveries    \* how many deliveries there were

adminVars == <<agencies, sources, connections, jobs, tokens, delivery, born, caller,
          requests, deliveries>>

Agency == [name : Names, slug : Slugs]
Source == [agency : AgencyIds, site : Sites, key : Keys \cup {None}, active : BOOLEAN]
Idle == [step |-> "idle"]
Verified == [step : {"verified"}, site : Sites, key : Keys, overtaken : BOOLEAN]
Accepted == [agency : AgencyIds, source : SourceIds, site : Sites,
             location : Locations, key : Keys, inForce : Keys \cup {None},
             overtaken : BOOLEAN]

AdminTypeOK ==
  /\ DOMAIN agencies \subseteq AgencyIds /\ \A a \in DOMAIN agencies : agencies[a] \in Agency
  /\ DOMAIN sources \subseteq SourceIds /\ \A i \in DOMAIN sources : sources[i] \in Source
  /\ DOMAIN connections \subseteq AgencyIds
  /\ \A a \in DOMAIN connections : connections[a] \in Locations
  /\ jobs \subseteq Accepted
  /\ tokens \subseteq AgencyIds
  /\ delivery \in [Processes -> Verified \cup {Idle}]
  /\ born \subseteq AgencyIds \cup SourceIds
  /\ caller \in {"admin"} \cup AgencyIds
  /\ requests \in 0..MaxRequests
  /\ deliveries \in 0..MaxDeliveries

AdminInit ==
  /\ agencies = [a \in DOMAIN Founders |->
                   [name |-> Founders[a], slug |-> SlugOf[Founders[a]]]]
  /\ sources = <<>>
  /\ connections = <<>>
  /\ jobs = {}
  /\ tokens = {}
  /\ delivery = [p \in Processes |-> Idle]
  /\ born = DOMAIN Founders
  /\ caller = "admin"
  /\ requests = 0
  /\ deliveries = 0

Put(f, x, v) == [y \in DOMAIN f \cup {x} |-> IF y = x THEN v ELSE f[y]]
Without(f, S) == [y \in DOMAIN f \ S |-> f[y]]

-----------------------------------------------------------------------------
(* Authorization. *)

\* authorize_admin_request: a session token opens the paths of its own agency,
\* also when its connection or the agency itself is gone by now.
OpensAgency(who, a) == who = "admin" \/ (who \in tokens /\ who = a)

\* ... and no other path.
OpensGlobal(who) == who = "admin"

\* The process that serves the request has no delivery between transactions.
Begin(who) ==
  /\ \E p \in Processes : delivery[p] = Idle
  /\ requests < MaxRequests
  /\ requests' = requests + 1
  /\ caller' = who
  /\ UNCHANGED deliveries

-----------------------------------------------------------------------------
(* Agencies. *)

\* The unique constraint on agencies.slug.
SlugFree(s, a) == \A b \in DOMAIN agencies \ {a} : agencies[b].slug # s

InsertAgency(a, n, s) == agencies' = Put(agencies, a, [name |-> n, slug |-> s])
UpdateAgency(a, n, s) ==
  agencies' = [agencies EXCEPT ![a].name = n, ![a].slug = s]

First(given, otherwise) == IF given = None THEN otherwise ELSE given

\* POST /agencies: the slug is what the request gives, or made of the name.
Register(who, n, s) ==
  /\ OpensGlobal(who)
  /\ Begin(who)
  /\ SlugFree(SlugOf[First(s, n)], None)
  /\ \E a \in AgencyIds \ born :
       /\ InsertAgency(a, n, SlugOf[First(s, n)])
       /\ born' = born \cup {a}
  /\ UNCHANGED <<sources, connections, jobs, tokens, delivery>>

\* The slug after a partial update: a new name makes a new slug.
NextSlug(a, n, s) ==
  IF n = None /\ s = None THEN agencies[a].slug ELSE SlugOf[First(s, n)]

\* PATCH /agencies/{a}.
Reconfigure(who, a, n, s) ==
  /\ OpensAgency(who, a)
  /\ a \in DOMAIN agencies
  /\ Begin(who)
  /\ SlugFree(NextSlug(a, n, s), a)
  /\ UpdateAgency(a, First(n, agencies[a].name), NextSlug(a, n, s))
  /\ UNCHANGED <<sources, connections, jobs, tokens, delivery, born>>

SourcesOf(a) == {i \in DOMAIN sources : sources[i].agency = a}

\* Mutant of Unreferenced: jobs has no foreign keys.
UnreferencedOrNot(a, S) == TRUE

\* The rows of jobs, webhook_events, reels, media_revisions and outbox_events
\* refer to the agency and to the source, without ON DELETE: the database
\* refuses to delete either once a delivery was accepted.
Unreferenced(a, S) == \A j \in jobs : j.agency # a /\ j.source \notin S

\* _resolve_expected_secret: the secret stored for the site, or the legacy one.
Expected(site) ==
  LET rows == {i \in DOMAIN sources : sources[i].site = site}
  IN  IF \E i \in rows : sources[i].key # None
        THEN sources[CHOOSE i \in rows : TRUE].key ELSE EnvKey[site]

InForce == [site \in Sites |-> Expected(site)]

\* History: the secret of a site changes while a delivery that was signed with
\* it waits for its second transaction.
Overtaken ==
  delivery' = [p \in Processes |->
    IF delivery[p] # Idle /\ InForce'[delivery[p].site] # InForce[delivery[p].site]
      THEN [delivery[p] EXCEPT !.overtaken = TRUE] ELSE delivery[p]]

\* DELETE /agencies/{a}: its sources, its connection and its settings go too.
DecommissionAgency(who, a) ==
  /\ OpensAgency(who, a)
  /\ a \in DOMAIN agencies
  /\ Begin(who)
  /\ Unreferenced(a, SourcesOf(a))
  /\ agencies' = Without(agencies, {a})
  /\ sources' = Without(sources, SourcesOf(a))
  /\ connections' = Without(connections, {a})
  /\ Overtaken
  /\ UNCHANGED <<jobs, tokens, born>>

-----------------------------------------------------------------------------
(* Sources.  Every source here is of kind "wordpress"; kinds share nothing   *)
(* but the table.                                                           *)

\* No source has the site: checked, and a unique constraint.
SiteFree(site) == \A i \in DOMAIN sources : sources[i].site # site

InsertSource(i, a, site, key, active) ==
  sources' = Put(sources, i, [agency |-> a, site |-> site, key |-> key,
                              active |-> active])

\* POST /agencies/{a}/sources.
RegisterSource(who, a, site, key, active) ==
  /\ OpensAgency(who, a)
  /\ a \in DOMAIN agencies
  /\ SiteFree(site)
  /\ Begin(who)
  /\ \E i \in SourceIds \ born :
       /\ InsertSource(i, a, site, key, active)
       /\ born' = born \cup {i}
  /\ Overtaken
  /\ UNCHANGED <<agencies, connections, jobs, tokens>>

\* Mutant of OwnSource: the source is not compared with the path's agency.
AnySource(a, i) == i \in DOMAIN sources

\* The source of the path belongs to the agency of the path.
OwnSource(a, i) == i \in DOMAIN sources /\ sources[i].agency = a

\* The secret of the body; a body without one keeps the stored secret, and an
\* empty one clears it.
NextKey(i, key) == IF key = Omitted THEN sources[i].key ELSE key

UpdateSource(i, key, active) ==
  sources' = [sources EXCEPT ![i].key = NextKey(i, key), ![i].active = active]

\* PATCH /agencies/{a}/sources/{i}.
ReconfigureSource(who, a, i, key, active) ==
  /\ OpensAgency(who, a)
  /\ a \in DOMAIN agencies
  /\ OwnSource(a, i)
  /\ Begin(who)
  /\ UpdateSource(i, key, active)
  /\ Overtaken
  /\ UNCHANGED <<agencies, connections, jobs, tokens, born>>

\* DELETE /agencies/{a}/sources/{i}.
DecommissionSource(who, a, i) ==
  /\ OpensAgency(who, a)
  /\ OwnSource(a, i)
  /\ Unreferenced(None, {i})
  /\ Begin(who)
  /\ sources' = Without(sources, {i})
  /\ Overtaken
  /\ UNCHANGED <<agencies, connections, jobs, tokens, born>>

SourceOf(site) == CHOOSE i \in DOMAIN sources : sources[i].site = site

\* PUT /wordpress-sources/{site} of a site nobody has: the agency it names, or
\* a new one.
ProvisionNew(who, site, a, n, s, key, active) ==
  /\ OpensGlobal(who)
  /\ SiteFree(site)
  /\ Begin(who)
  /\ IF a # None THEN a \in DOMAIN agencies ELSE n # None
  /\ \E owner \in IF a # None THEN {a} ELSE AgencyIds \ born, i \in SourceIds \ born :
       LET name == IF n # None THEN n ELSE agencies[owner].name
           slug == SlugOf[First(s, name)]
       IN  /\ SlugFree(slug, owner)
           /\ InsertAgency(owner, name, slug)
           /\ InsertSource(i, owner, site, key, active)
           /\ born' = born \cup {owner, i}
  /\ Overtaken
  /\ UNCHANGED <<connections, jobs, tokens>>

\* The same of a known site: it stays with its agency, whose slug is made of
\* its name again when the request gives none.
ProvisionAgain(who, site, a, n, s, key, active) ==
  /\ OpensGlobal(who)
  /\ ~SiteFree(site)
  /\ Begin(who)
  /\ LET i == SourceOf(site)
         owner == sources[i].agency
         name == First(n, agencies[owner].name)
         slug == SlugOf[First(s, name)]
     IN  /\ a \in {None, owner}
         /\ SlugFree(slug, owner)
         /\ UpdateAgency(owner, name, slug)
         /\ UpdateSource(i, key, active)
  /\ Overtaken
  /\ UNCHANGED <<connections, jobs, tokens, born>>

-----------------------------------------------------------------------------
(* Connections and sessions. *)

UpsertConnection(a, l) == connections' = Put(connections, a, l)

\* POST and PUT /agencies/{a}/ghl-connection: one row per agency, replaced as
\* a whole; PUT wants one to be there.  Agencies may share a location.
Connect(who, a, l, rotate) ==
  /\ OpensAgency(who, a)
  /\ a \in DOMAIN agencies
  /\ rotate => a \in DOMAIN connections
  /\ Begin(who)
  /\ UpsertConnection(a, l)
  /\ UNCHANGED <<agencies, sources, jobs, tokens, delivery, born>>

\* DELETE /agencies/{a}/ghl-connection.
Detach(who, a) ==
  /\ OpensAgency(who, a)
  /\ a \in DOMAIN connections
  /\ Begin(who)
  /\ connections' = Without(connections, {a})
  /\ UNCHANGED <<agencies, sources, jobs, tokens, delivery, born>>

\* The agencies whose row a look-up by location may return.
At(l) == {a \in DOMAIN connections : connections[a] = l}

\* POST /session: the token is for the agency the look-up returns.
OpenSession(l) ==
  /\ \E p \in Processes : delivery[p] = Idle
  /\ \E a \in At(l) \ tokens : tokens' = tokens \cup {a}
  /\ UNCHANGED <<agencies, sources, connections, jobs, delivery, born, caller,
                 requests, deliveries>>

TokenExpires(a) ==
  /\ a \in tokens
  /\ tokens' = tokens \ {a}
  /\ UNCHANGED <<agencies, sources, connections, jobs, delivery, born, caller,
                 requests, deliveries>>

-----------------------------------------------------------------------------
(* Deliveries. *)

\* Mutant of Signed: the legacy secret stays good beside a stored one.
SignedWithEither(site, key) == key \in {Expected(site), EnvKey[site]} \ {None}

\* The signature was made with the secret of the site: the stored one, or the
\* legacy one where none is stored.
Signed(site, key) == Expected(site) # None /\ key = Expected(site)

Verify(p, site, key) ==
  /\ delivery[p] = Idle
  /\ deliveries < MaxDeliveries
  /\ Signed(site, key)
  /\ deliveries' = deliveries + 1
  /\ delivery' = [delivery EXCEPT ![p] = [step |-> "verified", site |-> site,
                                          key |-> key, overtaken |-> FALSE]]
  /\ UNCHANGED <<agencies, sources, connections, jobs, tokens, born, caller, requests>>

\* The active source of the site and the connection of its agency, which the
\* job carries from now on.
Acceptable(site) ==
  {i \in DOMAIN sources : sources[i].site = site /\ sources[i].active
                          /\ sources[i].agency \in DOMAIN connections}

Accept(p) ==
  /\ delivery[p] # Idle
  /\ \E i \in Acceptable(delivery[p].site) :
       jobs' = jobs \cup {[agency |-> sources[i].agency, source |-> i,
                           site |-> sources[i].site,
                           location |-> connections[sources[i].agency],
                           key |-> delivery[p].key,
                           inForce |-> Expected(delivery[p].site),
                           overtaken |-> delivery[p].overtaken]}
  /\ delivery' = [delivery EXCEPT ![p] = Idle]
  /\ UNCHANGED <<agencies, sources, connections, tokens, born, caller, requests,
                 deliveries>>

\* UNKNOWN_WORDPRESS_SITE and GHL_CONNECTION_NOT_FOUND.
Refuse(p) ==
  /\ delivery[p] # Idle
  /\ Acceptable(delivery[p].site) = {}
  /\ delivery' = [delivery EXCEPT ![p] = Idle]
  /\ UNCHANGED <<agencies, sources, connections, jobs, tokens, born, caller,
                 requests, deliveries>>

-----------------------------------------------------------------------------
(* The routers.  Requests that only read are not listed. *)

AgencyRoutes(who) ==
  \E n \in Names \cup {None}, s \in Slugs \cup {None} :
    \/ n # None /\ Register(who, n, s)
    \/ \E a \in AgencyIds : Reconfigure(who, a, n, s)
    \/ n = None /\ s = None /\ \E a \in AgencyIds : DecommissionAgency(who, a)

SourceRoutes(who) ==
  \E a \in AgencyIds :
    \/ \E site \in Sites, key \in Keys \cup {None}, active \in BOOLEAN :
         RegisterSource(who, a, site, key, active)
    \/ \E i \in DOMAIN sources, active \in BOOLEAN, key \in Keys \cup {None, Omitted} :
         ReconfigureSource(who, a, i, key, active)
    \/ \E i \in DOMAIN sources : DecommissionSource(who, a, i)

ProvisionRoute(who) ==
  \E site \in Sites, a \in AgencyIds \cup {None}, n \in Names \cup {None},
     s \in Slugs \cup {None}, key \in Keys \cup {None, Omitted}, active \in BOOLEAN :
    \/ key # Omitted /\ ProvisionNew(who, site, a, n, s, key, active)
    \/ ProvisionAgain(who, site, a, n, s, key, active)

ConnectionRoutes(who) ==
  \E a \in AgencyIds :
    \/ \E l \in Locations, rotate \in BOOLEAN : Connect(who, a, l, rotate)
    \/ Detach(who, a)

SessionRoutes ==
  \/ \E l \in Locations : OpenSession(l)
  \/ \E a \in AgencyIds : TokenExpires(a)

WebhookRoute ==
  \E p \in Processes :
    \/ \E site \in Sites, key \in Keys : Verify(p, site, key)
    \/ Accept(p)
    \/ Refuse(p)

AdminNext ==
  \/ \E who \in {"admin"} \cup tokens :
       \/ AgencyRoutes(who)
       \/ SourceRoutes(who)
       \/ ProvisionRoute(who)
       \/ ConnectionRoutes(who)
  \/ SessionRoutes
  \/ WebhookRoute

AdminSpec == AdminInit /\ [][AdminNext]_adminVars

-----------------------------------------------------------------------------
(* Properties. *)

\* A queued job names a source that still feeds the agency the job is for: the
\* handlers look both up again, and stop if they are gone.  (The type invariant
\* is checked with it.)
JobsBelongToTheirSite ==
  /\ AdminTypeOK
  /\ \A j \in jobs :
       /\ j.agency \in DOMAIN agencies
       /\ j.source \in DOMAIN sources
       /\ sources[j.source].agency = j.agency
       /\ sources[j.source].site = j.site

\* A job was asked for by whoever knew the secret of its site: the one in force
\* when it was queued, unless that changed after the signature was checked.
AcceptedWasSigned == \A j \in jobs : j.key = j.inForce \/ j.overtaken

\* The rows an agency calls its own.
RowsOf(a) ==
  <<[i \in SourcesOf(a) |-> sources[i]],
    [x \in {a} \cap DOMAIN agencies |-> agencies[x]],
    [x \in {a} \cap DOMAIN connections |-> connections[x]]>>

\* A request with a session token changes nothing of another agency, whatever
\* ids its path and body name.
TenantIsolation ==
  [][\A a \in AgencyIds :
       requests' # requests /\ caller' \in AgencyIds \ {a}
         => RowsOf(a)' = RowsOf(a)]_adminVars
=============================================================================
