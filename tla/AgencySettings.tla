--------------------------- MODULE AgencySettings ---------------------------
(***************************************************************************)
(* The settings of one agency and the one reel that is posted under them.  *)
(*                                                                         *)
(* Each section (brand, defaults, automation, social templates) has a      *)
(* table, an endpoint that reads it and an endpoint that saves it; the raw *)
(* reel profile is a second view of them all.  A save may leave fields     *)
(* out.  A job carries a copy of the settings in its publish context; the  *)
(* slot it computes is computed again when a worker prepares the reel.     *)
(*                                                                         *)
(* Requests are atomic: the API's handlers are coroutines of one process   *)
(* that never suspend inside a transaction.                                *)
(***************************************************************************)
EXTENDS PublishSlot, MediaUploads, Functions

CONSTANTS
  Platforms,        \* the platforms a template can be saved for
  AllPlatforms,     \* the list of a new agency
  Catalog,          \* the render templates: a function from ids to statuses
  LogoForms,        \* the forms a logo is uploaded with
  Tracks,           \* ids of music tracks; AgencyMedia has their files and settings
  BrandBodies, DefaultsBodies, AutomationBodies, TemplateBodies, ProfileBodies,
                    \* the request bodies tried: functions from some fields to values
  Starts,           \* the instants at which a webhook may arrive
  Delays,           \* how far the clock may advance at once
  MaxSaves,         \* bound on the requests that save something
  Horizon           \* the last day on which anything happens

ASSUME ClassicIsSelectable ==
  "classic" \in DOMAIN Catalog /\ Catalog["classic"] = "active"

VARIABLES
  brand, defaults, automation,  \* the rows, or NoRow
  templates,                    \* rows by platform
  logos,                        \* the files of the branding folder
  tracks,                       \* the music tracks registered
  client,                       \* the raw profile somebody read, or NoRow
  job,                          \* the reel's publish context and how far it came
  now, saves

vars == <<brand, defaults, automation, templates, logos, tracks, client, job, now, saves>>

NoRow == [none |-> TRUE]
Null  == "null"                 \* a field sent as null
Empty == ""
NoValue == "none"               \* no row to take it from

-----------------------------------------------------------------------------
(* Rows *)

\* What a row gets for a field nobody ever gave.
NewBrand ==
  [primary_color |-> "#0F172A", secondary_color |-> "#FFFFFF",
   logo_object_key |-> Empty, font_family |-> Empty]

NewDefaults ==
  [platforms |-> AllPlatforms, render_template_id |-> "classic",
   outro_enabled |-> FALSE, settings |-> <<>>]

NewAutomation ==
  [approval_required |-> FALSE, publish_window_start |-> 0,
   publish_window_end |-> DayLength - 1, publish_days |-> 0 .. 4,
   hold_window_seconds |-> 0, quiet_hours_enabled |-> FALSE,
   skip_weekends |-> FALSE]

Stored(row, new) == IF row = NoRow THEN new ELSE row

\* The repositories' merge: what is given wins, then what is stored.
Merged(row, new, given) == [f \in DOMAIN new |->
  IF f \in DOMAIN given THEN given[f] ELSE Stored(row, new)[f]]

\* A brand field sent as null is cleared.
BrandRow(given) ==
  Merged(brand, NewBrand, [f \in DOMAIN given |-> IF given[f] = Null THEN Empty ELSE given[f]])

DefaultsRow(given) == Merged(defaults, NewDefaults, given)

AutomationRow(given) == Merged(automation, NewAutomation, given)

\* What the payloads of a request and the columns let through: a hold is
\* validated to lie between nothing and a day, a time may be malformed.
AutomationFieldsOK(given) ==
  /\ "approval_required" \in DOMAIN given => given.approval_required \in BOOLEAN
  /\ "publish_window_start" \in DOMAIN given =>
       given.publish_window_start \in Times \cup {NoTime}
  /\ "publish_window_end" \in DOMAIN given =>
       given.publish_window_end \in Times \cup {NoTime}
  /\ "publish_days" \in DOMAIN given => given.publish_days \subseteq Weekdays
  /\ "hold_window_seconds" \in DOMAIN given => given.hold_window_seconds \in 0 .. DayLength
  /\ "quiet_hours_enabled" \in DOMAIN given => given.quiet_hours_enabled \in BOOLEAN
  /\ "skip_weekends" \in DOMAIN given => given.skip_weekends \in BOOLEAN

ASSUME BodiesAssumption ==
  /\ \A b \in AutomationBodies \cup ProfileBodies : AutomationFieldsOK(b)
  /\ \A b \in BrandBodies \cup ProfileBodies :
       \A f \in DOMAIN b \cap DOMAIN NewBrand : b[f] # NoValue
  /\ \A b \in DefaultsBodies \cup ProfileBodies :
       "platforms" \in DOMAIN b => b.platforms \subseteq AllPlatforms
  /\ \A b \in TemplateBodies : DOMAIN b \subseteq Platforms

\* The keys of logos end in a suffix.
ASSUME LogosAssumption ==
  \A form \in LogoForms : AcceptsLogo(form) => LogoKey(form) \notin {Empty, NoValue}

ASSUME ClockAssumption ==
  /\ Starts \subseteq Instants /\ \A t \in Starts : t.day =< Horizon
  /\ Delays \subseteq 0 .. DayLength
  /\ MaxSaves \in Nat /\ Horizon \in Nat

-----------------------------------------------------------------------------
(* What the endpoints answer *)

\* A brand nobody saved reads as neutral greys.
ReadBrand(f) ==
  IF brand = NoRow
  THEN CASE f = "primary_color" -> "#374151" [] f = "secondary_color" -> "#9CA3AF" [] OTHER -> Empty
  ELSE brand[f]

\* The entries of f, and those of g that f leaves out.
Over(f, g) == [k \in DOMAIN f \cup DOMAIN g |-> IF k \in DOMAIN f THEN f[k] ELSE g[k]]

\* The music rules in force, with their default.
MusicRules(settings) ==
  IF "music" \in DOMAIN settings /\ settings["music"] = "own tracks only"
  THEN "own tracks only" ELSE "full library"

\* The free-form settings as a reader sees them: with the music default.
Surfaced(settings) == Over([music |-> MusicRules(settings)], settings)

ReadDefaults(f) ==
  LET row == Stored(defaults, NewDefaults)
  IN IF f = "settings" THEN Surfaced(row.settings) ELSE row[f]

ReadAutomation(f) ==
  IF automation = NoRow
  THEN [approval_required |-> FALSE, publish_window_start |-> 0,
        publish_window_end |-> DayLength - 1, publish_days |-> 0 .. 4,
        hold_window_seconds |-> 0, quiet_hours_enabled |-> FALSE,
        skip_weekends |-> FALSE][f]
  ELSE automation[f]

\* The legacy flat map of captions.
ReadTemplates == [p \in DOMAIN templates |-> templates[p].caption]

\* The template the list of templates marks as selected.
SelectedTemplate ==
  LET id == Stored(defaults, NewDefaults).render_template_id
  IN IF id \in DOMAIN Catalog THEN id ELSE "classic"

\* What the aggregated view adds to the free-form settings it shows: the
\* templates and the music tracks, where there are any.
Listed ==
  Over(IF tracks = {} THEN <<>> ELSE [music_tracks |-> tracks],
       IF templates = <<>> THEN <<>> ELSE [social_templates |-> ReadTemplates])

\* The aggregated view has defaults of its own.
ReadProfile ==
  LET b == Stored(brand, NewBrand)
      d == Stored(defaults, NewDefaults)
  IN [primary_color |-> b.primary_color, secondary_color |-> b.secondary_color,
      platforms |-> d.platforms, render_template_id |-> d.render_template_id,
      approval_required |-> automation # NoRow /\ automation.approval_required,
      extra_settings |-> Over(Listed, Surfaced(d.settings))]

NothingStored ==
  /\ brand = NoRow /\ defaults = NoRow /\ automation = NoRow
  /\ templates = <<>> /\ tracks = {}

-----------------------------------------------------------------------------
(* The requests that save something *)

Selectable(id) == id \in DOMAIN Catalog /\ Catalog[id] = "active"

GivesSelectable(body) ==
  "render_template_id" \in DOMAIN body => Selectable(body.render_template_id)

Save == saves < MaxSaves /\ saves' = saves + 1

\* Mutant of GivesKnownFont: any family is stored.
GivesAnyFont(body) == TRUE

\* The catalogue of fonts, the first of which is the default.
Fonts == {"Inter", "Manrope", "Plus Jakarta Sans", "Montserrat", "Poppins", "Roboto",
          "Barlow Semi Condensed"}

GivesKnownFont(body) ==
  "font_family" \in DOMAIN body => body.font_family \in Fonts \cup {Empty, Null}

PutBrand(body) ==
  /\ Save
  /\ GivesKnownFont(body)
  /\ brand' = BrandRow(body)
  /\ UNCHANGED <<defaults, automation, templates, logos, tracks, client, job, now>>

\* The settings given are merged, one level deep, into the stored ones.
SettingsRow(given) == Over(given, Stored(defaults, NewDefaults).settings)

PutDefaults(body) ==
  /\ Save
  /\ GivesSelectable(body)
  /\ defaults' = DefaultsRow(IF "settings" \in DOMAIN body
                             THEN [body EXCEPT !.settings = SettingsRow(@)] ELSE body)
  /\ UNCHANGED <<brand, automation, templates, logos, tracks, client, job, now>>

SelectRenderTemplate(id) ==
  /\ Save
  /\ Selectable(id)
  /\ defaults' = DefaultsRow([render_template_id |-> id])
  /\ UNCHANGED <<brand, automation, templates, logos, tracks, client, job, now>>

PutAutomation(body) ==
  /\ Save
  /\ automation' = AutomationRow(body)
  /\ UNCHANGED <<brand, defaults, templates, logos, tracks, client, job, now>>

KnownVariables(text) == text # "{{unknown}}"

ValidTemplates(body) == \A p \in DOMAIN body :
  /\ KnownVariables(body[p].caption)
  /\ KnownVariables(body[p].title)
  /\ body[p].hashtags # "not hashtags"

\* Every row is dropped and the given ones are inserted.
PutTemplates(body) ==
  /\ Save
  /\ ValidTemplates(body)
  /\ templates' = body
  /\ UNCHANGED <<brand, defaults, automation, logos, tracks, client, job, now>>

\* The brand names the file only once a PutBrand says so.
UploadLogo(form) ==
  /\ Save
  /\ AcceptsLogo(form)
  /\ logos' = logos \cup {LogoKey(form)}
  /\ UNCHANGED <<brand, defaults, automation, templates, tracks, client, job, now>>

RegisterTrack(t) ==
  /\ Save
  /\ t \notin tracks
  /\ tracks' = tracks \cup {t}
  /\ UNCHANGED <<brand, defaults, automation, templates, logos, client, job, now>>

DecommissionTrack(t) ==
  /\ Save
  /\ t \in tracks
  /\ tracks' = tracks \ {t}
  /\ UNCHANGED <<brand, defaults, automation, templates, logos, client, job, now>>

GetProfile ==
  /\ ~NothingStored
  /\ client # ReadProfile
  /\ client' = ReadProfile
  /\ UNCHANGED <<brand, defaults, automation, templates, logos, tracks, job, now, saves>>

Given(body, fields) == Restrict(body, DOMAIN body \cap fields)

\* Mutant of ProfileBrand: an omitted field is cleared.
ProfileBrandCleared(body) ==
  Over(Given(body, {"primary_color", "secondary_color"}),
       [f \in {"primary_color", "secondary_color"} |-> Null])

\* The brand fields a profile gives: an omitted one is kept.
ProfileBrand(body) == Given(body, {"primary_color", "secondary_color"})

\* A section none of whose fields is given is not touched.  The extra settings
\* replace the stored ones.
PutProfile(body) ==
  LET d == Given(body, {"platforms", "render_template_id"})
      a == Given(body, {"approval_required"})
      e == IF "extra_settings" \in DOMAIN body
           THEN [settings |-> body.extra_settings] ELSE <<>>
  IN /\ Save
     /\ GivesSelectable(body)
     /\ brand' = IF Given(body, {"primary_color", "secondary_color"}) = <<>> THEN brand
                 ELSE BrandRow(ProfileBrand(body))
     /\ defaults' = IF Over(d, e) = <<>> THEN defaults ELSE DefaultsRow(Over(d, e))
     /\ automation' = IF a = <<>> THEN automation ELSE AutomationRow(a)
     /\ UNCHANGED <<templates, logos, tracks, client, job, now>>

\* The raw editor sends the whole of what it read.
PutProfileBack == client # NoRow /\ PutProfile(client)

-----------------------------------------------------------------------------
(* What a reel takes from the settings when a worker prepares it *)

SettingsNow == Stored(defaults, NewDefaults).settings

Either(value, fallback) == IF value \in {NoValue, Empty} THEN fallback ELSE value

BrandValue(f) == IF brand = NoRow THEN NoValue ELSE brand[f]

\* A brand that was never saved, or a colour that was cleared: the renderer has
\* greys of its own.
PanelColor == Either(BrandValue("primary_color"), "#374151")
RibbonColor == Either(BrandValue("secondary_color"), "#9CA3AF")

\* A family the catalogue does not have counts as none chosen.
Font == IF BrandValue("font_family") \in Fonts THEN BrandValue("font_family") ELSE "Inter"

LogoFile == IF BrandValue("logo_object_key") \in logos
            THEN BrandValue("logo_object_key") ELSE NoValue

\* The agency's own logo if its file is there, otherwise the listing's.
Logo == Either(LogoFile, "the listing's logo")

\* A switch of the free-form settings that is on until it is set to the JSON
\* value false (values are strings here).
OnUnlessFalse(key) ==
  key \notin DOMAIN SettingsNow \/ SettingsNow[key] # "false"

AgentPhotoShown == OnUnlessFalse("showAgentPhoto")

\* Where the agent is hidden the logo takes the place.
AgentPicture == IF AgentPhotoShown THEN "the listing's agent" ELSE Logo

SubtitleKeys == {"subFont", "subWeight", "subColor", "subBgStyle", "subBgColor",
                 "subBgOpacity", "subPosition", "subAlign", "subUppercase", "subMaxChars"}

\* Only the keys that are stored reach the renderer.
SubtitleStyle == Restrict(SettingsNow, SubtitleKeys \cap DOMAIN SettingsNow)

CaptionsDrawn == OnUnlessFalse("automation.autoCaptions")

-----------------------------------------------------------------------------
(* The reel that is posted under these settings *)

Slot == IF automation = NoRow THEN Immediately ELSE NextSlot(now, automation)

\* An empty list of platforms counts as none chosen.
ContextPlatforms ==
  LET chosen == Stored(defaults, NewDefaults).platforms
  IN IF chosen = {} THEN AllPlatforms ELSE chosen

\* What the model remembers of a job besides its context: the instant and the
\* rules it was asked for under, those its slot was last computed under, and
\* the slot.
Noted(rules, slot) == [at |-> now, rules |-> rules, slot |-> slot]

Context(approval, contents, slot, note) ==
  [phase |-> "queued", approval_required |-> approval, platforms |-> ContextPlatforms,
   templates |-> contents, scheduled_at |-> slot,
   render_template_id |-> Stored(defaults, NewDefaults).render_template_id,
   asked |-> note, slotted |-> note, posted_at |-> NoRow]

\* A webhook arrives at an instant t of the first week: the clock is kept only
\* from here on.  Its job has no slot yet.
Webhook(t) ==
  /\ job = NoRow
  /\ now' = t
  /\ job' = Context(automation # NoRow /\ automation.approval_required, templates,
                    Immediately, NoRow)
  /\ UNCHANGED <<brand, defaults, automation, templates, logos, tracks, client, saves>>

\* The editor approves a reel in review: a new job, which carries the captions
\* but neither the titles nor the hashtags.
Approve ==
  /\ job # NoRow /\ job.phase = "review"
  /\ job' = Context(FALSE,
                    [p \in DOMAIN templates |->
                       [templates[p] EXCEPT !.title = Empty, !.hashtags = Empty]],
                    Slot, Noted(automation, Slot))
  /\ UNCHANGED <<brand, defaults, automation, templates, logos, tracks, client, now, saves>>

\* A slot computed anew replaces the job's; when there is none the job keeps
\* the one it has.
Rescheduled(old, slot) == IF slot # Immediately THEN slot ELSE old

\* A worker takes the job and prepares the reel.
Prepare ==
  /\ job # NoRow /\ job.phase = "queued"
  /\ job' = [job EXCEPT !.phase = IF job.approval_required THEN "review" ELSE "prepared",
                        !.scheduled_at = Rescheduled(@, Slot),
                        !.asked = IF @ = NoRow THEN Noted(automation, Slot) ELSE @,
                        !.slotted = Noted(automation, Slot)]
  /\ UNCHANGED <<brand, defaults, automation, templates, logos, tracks, client, now, saves>>

\* After the render the posts are made: scheduled if the job has a slot.
Post ==
  /\ job # NoRow /\ job.phase = "prepared"
  /\ job' = [job EXCEPT !.phase = "posted", !.posted_at = now]
  /\ UNCHANGED <<brand, defaults, automation, templates, logos, tracks, client, now, saves>>

Tick(h) ==
  /\ job # NoRow /\ job.phase # "posted"
  /\ now' = Later(now, h)
  /\ now'.day =< Horizon
  /\ UNCHANGED <<brand, defaults, automation, templates, logos, tracks, client, job, saves>>

-----------------------------------------------------------------------------

\* An agency that was provisioned together with its site; one that is registered
\* by itself is given templates and tracks.
Init ==
  /\ brand = NoRow /\ defaults = NoRow /\ automation = NoRow
  /\ templates = <<>> /\ logos = {} /\ client = NoRow /\ job = NoRow
  /\ tracks = {}
  /\ now = [day |-> 0, time |-> 0] /\ saves = 0

Next ==
  \/ \E b \in BrandBodies : PutBrand(b)
  \/ \E b \in DefaultsBodies : PutDefaults(b)
  \/ \E b \in AutomationBodies : PutAutomation(b)
  \/ \E b \in TemplateBodies : PutTemplates(b)
  \/ \E b \in ProfileBodies : PutProfile(b)
  \/ \E id \in DOMAIN Catalog : SelectRenderTemplate(id)
  \/ \E f \in LogoForms : UploadLogo(f)
  \/ \E t \in Tracks : RegisterTrack(t) \/ DecommissionTrack(t)
  \/ GetProfile \/ PutProfileBack
  \/ \E t \in Starts : Webhook(t)
  \/ Approve \/ Prepare \/ Post
  \/ \E h \in Delays : Tick(h)

Spec == Init /\ [][Next]_vars

-----------------------------------------------------------------------------
(* Properties *)

\* Every row has its fields; a template that is selected was selectable; a
\* stored caption uses known variables only.
TypeOK ==
  /\ brand # NoRow => DOMAIN brand = DOMAIN NewBrand
  /\ defaults # NoRow =>
       /\ DOMAIN defaults = DOMAIN NewDefaults
       /\ defaults.platforms \subseteq AllPlatforms
       /\ defaults.render_template_id \in DOMAIN Catalog
       /\ Catalog[defaults.render_template_id] = "active"
  /\ automation # NoRow =>
       /\ automation.approval_required \in BOOLEAN
       /\ Restrict(automation, DOMAIN automation \ {"approval_required"}) \in Rules
  /\ DOMAIN templates \subseteq Platforms /\ ValidTemplates(templates)
  /\ logos \subseteq {LogoKey(f) : f \in {g \in LogoForms : AcceptsLogo(g)}}
  /\ tracks \subseteq Tracks
  /\ now.day \in 0 .. Horizon /\ now.time \in Times
  /\ saves \in 0 .. MaxSaves

\* What each section answers for a field that a save leaves out stays.
BrandKept ==
  brand' # brand /\ brand # NoRow =>
    \A f \in DOMAIN NewBrand :
      \/ ReadBrand(f)' = ReadBrand(f)
      \/ \E b \in BrandBodies : f \in DOMAIN b /\ PutBrand(b)
      \/ \E b \in ProfileBodies : f \in DOMAIN b /\ PutProfile(b)
      \/ PutProfileBack

DefaultsKept ==
  defaults' # defaults =>
    \A f \in DOMAIN NewDefaults :
      \/ ReadDefaults(f)' = ReadDefaults(f)
      \/ \E b \in DefaultsBodies : f \in DOMAIN b /\ PutDefaults(b)
      \/ (f = "render_template_id") /\ \E id \in DOMAIN Catalog : SelectRenderTemplate(id)
      \/ \E b \in ProfileBodies :
           (f \in DOMAIN b \/ (f = "settings" /\ "extra_settings" \in DOMAIN b)) /\ PutProfile(b)
      \/ PutProfileBack

SettingsKept ==
  \A b \in DefaultsBodies : "settings" \in DOMAIN b /\ PutDefaults(b) =>
    \A k \in DOMAIN ReadDefaults("settings") \ DOMAIN b.settings :
      ReadDefaults("settings")'[k] = ReadDefaults("settings")[k]

AutomationKept ==
  automation' # automation =>
    \A f \in DOMAIN NewAutomation :
      \/ ReadAutomation(f)' = ReadAutomation(f)
      \/ \E b \in AutomationBodies : f \in DOMAIN b /\ PutAutomation(b)
      \/ \E b \in ProfileBodies : f \in DOMAIN b /\ PutProfile(b)
      \/ PutProfileBack

\* A save changes what the endpoints answer for no field that its body leaves
\* out: the defaults a first save writes are those the readers showed before,
\* a section saved through one view is not disturbed through another, and one
\* tab's settings survive another's.  (A brand that was never saved is left out:
\* its first save turns the greys it read as into the navy of the row.)
OmittedReadTheSame ==
  [][BrandKept /\ DefaultsKept /\ SettingsKept /\ AutomationKept]_vars

RawSaveKept ==
  PutProfileBack /\ client = ReadProfile =>
    /\ brand # NoRow => \A f \in DOMAIN NewBrand : ReadBrand(f)' = ReadBrand(f)
    /\ \A f \in DOMAIN NewDefaults \ {"settings"} : ReadDefaults(f)' = ReadDefaults(f)
    /\ \A k \in DOMAIN ReadDefaults("settings") \ {"social_templates", "music_tracks"} :
         ReadDefaults("settings")'[k] = ReadDefaults("settings")[k]
    /\ \A f \in DOMAIN NewAutomation : ReadAutomation(f)' = ReadAutomation(f)

\* Somebody who opens the raw profile and saves it as it is changes nothing the
\* sections' own endpoints answer, except that the templates and the music
\* tracks shown in the free-form settings are stored there too.
RawSaveChangesNothing == [][RawSaveKept]_vars

\* A save changes what it names and nothing else, through whichever view.
SavesChangeWhatTheyName == OmittedReadTheSame /\ RawSaveChangesNothing

\* A reel that is prepared now looks as the administrator is told: in the colours
\* and the font the brand endpoint answers (a field it answers with nothing is
\* the renderer's choice), with the logo it names if that was uploaded, and with
\* the agent, the captions and their style as the raw profile shows them, which
\* answers the same colours.  The endpoints and the renderer have defaults of
\* their own, which have to agree.  Of the colours of a brand that was never
\* saved nothing is said: the brand endpoint and the renderer have greys, the raw
\* profile navy and white, and the comments of the renderer a third look.
\* (The type invariant is checked with it.)
LooksAsShown ==
  /\ TypeOK
  /\ brand # NoRow =>
       /\ \A pair \in {<<PanelColor, "primary_color">>, <<RibbonColor, "secondary_color">>,
                       <<Font, "font_family">>} :
            ReadBrand(pair[2]) \in {Empty, pair[1]}
       /\ \A f \in {"primary_color", "secondary_color"} : ReadProfile[f] = ReadBrand(f)
  /\ ReadBrand("logo_object_key") \in logos => Logo = ReadBrand("logo_object_key")
  /\ LET shown == ReadProfile.extra_settings
         hidden(key) == key \in DOMAIN shown /\ shown[key] = "false"
     IN  /\ AgentPicture = IF hidden("showAgentPhoto") THEN Logo ELSE "the listing's agent"
         /\ CaptionsDrawn = ~hidden("automation.autoCaptions")
         /\ \A k \in SubtitleKeys :
              (k \in DOMAIN shown) = (k \in DOMAIN SubtitleStyle)
                /\ (k \in DOMAIN shown => shown[k] = SubtitleStyle[k])

\* The window is open at t: counted from its start, t comes before its end.
OpenAt(t, r) ==
  /\ Weekday(t) \in r.publish_days
  /\ (t.time - r.publish_window_start) % DayLength
       =< (r.publish_window_end - r.publish_window_start) % DayLength

\* Weekends are skipped, and no day of a weekend is a publish day.  Where one is,
\* the code takes a post of a Saturday to the Sunday, and its documents take it to
\* the Monday: nothing is said of such rules here.
WeekendsAgree(r) == r.skip_weekends => r.publish_days \cap Weekend = {}

\* A slot, or the present when there is none: where weekends are skipped it does
\* not lie in one, unless the rules name no day to shift to.  Under quiet hours
\* with a window it lies in the window of a publish day, not before the hold is
\* over, and no opening in between was passed over.
SlotsHonourTheirRules ==
  job # NoRow => \A n \in {job.asked, job.slotted} \ {NoRow} :
    n.rules # NoRow /\ WeekendsAgree(n.rules) =>
      LET r == n.rules
          s == IF n.slot = Immediately THEN n.at ELSE n.slot
          held == Later(n.at, r.hold_window_seconds)
      IN /\ r.skip_weekends /\ ~Unanchored(held, r) => Weekday(s) \notin Weekend
         /\ r.quiet_hours_enabled /\ HasWindow(r) =>
              /\ OpenAt(s, r)
              /\ ~Before(s, held)
              /\ \A d \in held.day .. s.day :
                   LET opening == [day |-> d, time |-> r.publish_window_start]
                   IN Weekday(opening) \in r.publish_days /\ ~Before(opening, held)
                      => ~Before(opening, s)

\* When a post becomes visible: a slot that has passed counts as the present.
VisibleAt ==
  IF job.scheduled_at = Immediately \/ Before(job.scheduled_at, job.posted_at)
  THEN job.posted_at ELSE job.scheduled_at

\* Under rules that do not change meanwhile, nothing is visible before the hold
\* that was running when the post was asked for is over, however late the
\* worker prepares it and whatever slot it computes then.  (Rules that lack the
\* window they need publish at once and lose the hold as well.)
HoldIsHonoured ==
  (job # NoRow /\ job.phase = "posted" /\ job.asked.rules # NoRow
     /\ job.slotted.rules = job.asked.rules) =>
    LET r == job.asked.rules
        over == Later(job.asked.at, r.hold_window_seconds)
    IN ~Unanchored(over, r) => ~Before(VisibleAt, over)

\* A slot obeys its rules, and the slots computed one after the other for a post
\* keep the hold: one clock, read twice, has to serve both.
PostsWhenAllowed == SlotsHonourTheirRules /\ HoldIsHonoured
=============================================================================
