---------------------------- MODULE ReelCaptions ----------------------------
(***************************************************************************)
(* The words of the posts: what is made of a listing for each platform,    *)
(* with the agency's templates, titles and hashtags where they apply, the  *)
(* plan of what to post where, and what is posted from that plan.          *)
(*                                                                         *)
(* A text is a sequence of words; layout, and the tracking parameters of   *)
(* the link, are left out.  A template is a sequence of words of which     *)
(* those that name a variable are replaced.                                *)
(***************************************************************************)
EXTENDS Integers, SequencesExt, FiniteSetsExt, TLC

\* Platforms: kinds of artifact and of post, the default first; the text and
\* whether the listing's title is a title there and the name of the upload.
Config(artifacts, posts, text, titled, named) ==
  [artifacts |-> artifacts, posts |-> posts, text |-> text, titled |-> titled,
   named |-> named]

Tiktok == Config(<<"reel_video">>, <<"reel">>, "common", FALSE, FALSE)
Instagram == Config(<<"reel_video">>, <<"reel">>, "common", FALSE, FALSE)
Linkedin == Config(<<"reel_video">>, <<"reel">>, "link", FALSE, FALSE)
Youtube == Config(<<"reel_video">>, <<"post">>, "common", TRUE, TRUE)
Facebook == Config(<<"reel_video">>, <<"reel">>, "link", TRUE, FALSE)
Google == Config(<<"poster_image">>, <<"post">>, "google", TRUE, FALSE)
Pinterest == Config(<<"reel_video", "poster_image">>, <<"post">>, "link", TRUE, FALSE)

PlatformConfigs ==
  [tiktok |-> Tiktok, instagram |-> Instagram, linkedin |-> Linkedin,
   youtube |-> Youtube, facebook |-> Facebook,
   google_business_profile |-> Google, pinterest |-> Pinterest]

Aliases ==
  [p \in {"gmb", "gbp", "google", "google-business-profile",
          "googlebusinessprofile", "google-my-business", "google_my_business",
          "googlemybusiness"} |-> "google_business_profile"]
  @@ [p \in {"pin", "pins"} |-> "pinterest"]
  @@ [p \in {"linked-in", "linked_in"} |-> "linkedin"]
  @@ [p \in {"you-tube", "you_tube"} |-> "youtube"]

PlatformName(p) == IF p \in DOMAIN Aliases THEN Aliases[p] ELSE p

\* A context knows fewer aliases than the platforms do.
ContextAliases == {"google business profile", "google-business-profile", "gbp"}
ContextName(p) == IF p \in ContextAliases THEN "google_business_profile" ELSE p

\* The platforms of a context: names instead of aliases, each once.
PlatformNames(ps) ==
  FoldLeft(LAMBDA done, p : IF Contains(done, ContextName(p)) THEN done
                            ELSE Append(done, ContextName(p)), <<>>, ps)

Allowed(kinds, requested) == IF Contains(kinds, requested) THEN requested ELSE kinds[1]
ArtifactKind(p, requested) == Allowed(PlatformConfigs[p].artifacts, requested)
PostType(p, requested) == Allowed(PlatformConfigs[p].posts, requested)

-----------------------------------------------------------------------------
(* Listings: [slug, title, price, area, agent, mobile, number, email, psra, *)
(* link, status]; all but slug, link and status are texts.                  *)

WordsOfListing(l) ==
  /\ {l.slug, l.link} \subseteq STRING
  /\ {l.title, l.price, l.area, l.agent, l.mobile, l.number, l.email, l.psra}
       \subseteq Seq(STRING)

Taken == {"sale agreed", "let agreed", "sold", "let"}

\* What becomes of a listing: one that is taken gets a reel of one slide.
DeliveryPlan(l) ==
  [artifact |-> "reel_video", post |-> "reel", status |-> l.status \in Taken]

\* The page of the property: its own link, or the site's by its slug.
PublicUrl(l) == IF l.link # "" THEN <<l.link>> ELSE <<"site", l.slug>>
SiteOf(url) == <<url[1]>>

\* A line with a label, none when there is nothing to label.
Labelled(label, text) == IF text = <<>> THEN <<>> ELSE label \o text
AgentPhone(l) == IF l.mobile # <<>> THEN l.mobile ELSE l.number

Field(name, l, url) ==
  CASE name = "property_url" -> Labelled(<<"More", "properties", "on">>, SiteOf(url))
    [] name = "property_link" -> Labelled(<<"Property:">>, url)
    [] name = "similar_required" -> Labelled(<<"Similar", "required?">>, SiteOf(url))
    [] name = "agent_name" -> l.agent
    [] name = "agent_phone" -> AgentPhone(l)
    [] name = "agent_email" -> l.email
    [] name = "agency_psra" -> Labelled(<<"Agency", "PSRA:">>, l.psra)

\* A caption is its fields, section after section.
Caption(layout, l, url) ==
  FlattenSeq([i \in DOMAIN layout |-> Field(layout[i], l, url)])

Contacts == <<"agent_name", "agent_phone", "agent_email", "agency_psra">>
DefaultLayout == <<"property_url">> \o Contacts
LinkLayout == <<"property_link">> \o Contacts
SimilarLayout == <<"similar_required">> \o Contacts

\* The layout of a listing that is taken replaces every other one.
LayoutOf(l, default) == IF l.status \in Taken THEN SimilarLayout ELSE default

CommonText(l, url) == Caption(LayoutOf(l, DefaultLayout), l, url)
LinkText(l, url) == Caption(LayoutOf(l, LinkLayout), l, url)
GoogleText(l, url) ==
  l.title \o l.price \o Labelled(<<"More", "properties", "on">>, SiteOf(url)) \o l.agent

\* A platform that is not known has the common text and no title.
DefaultText(l, p, url) ==
  IF p \notin DOMAIN PlatformConfigs THEN CommonText(l, url)
  ELSE CASE PlatformConfigs[p].text = "common" -> CommonText(l, url)
         [] PlatformConfigs[p].text = "link" -> LinkText(l, url)
         [] PlatformConfigs[p].text = "google" -> GoogleText(l, url)
DefaultTitle(l, p) ==
  IF p \in DOMAIN PlatformConfigs /\ PlatformConfigs[p].titled THEN l.title ELSE <<>>
UploadName(p, title) == IF PlatformConfigs[p].named THEN title ELSE <<>>

-----------------------------------------------------------------------------
(* Templates. *)

Variables(l, url) ==
  [property_title |-> l.title, price |-> l.price, neighborhood |-> l.area,
   agent_name |-> l.agent, agent_phone |-> AgentPhone(l), agent_email |-> l.email,
   booking_link |-> url, property_url |-> url]

\* A variable that does not exist stays as it is written.
Rendered(template, l, url) ==
  LET vars == Variables(l, url)
  IN FlattenSeq([i \in DOMAIN template |->
                   IF template[i] \in DOMAIN vars THEN vars[template[i]]
                   ELSE <<template[i]>>])

WithHashtags(text, tags) == text \o tags

OrElse(text, other) == IF text # <<>> THEN text ELSE other

\* A template that renders to nothing is no template.
Generated(templates, tags, p, l, url) ==
  WithHashtags(OrElse(Rendered(templates[p], l, url), DefaultText(l, p, url)), tags[p])
GeneratedTitle(titles, p, l, url) ==
  OrElse(Rendered(titles[p], l, url), DefaultTitle(l, p))

\* The plan for each platform that is known: what, as what, and which words.
\* A platform the context knows by an alias has the default ones.
Targets(context, l) ==
  LET plan == DeliveryPlan(l)
      url == PublicUrl(l)
      named == {PlatformName(p) : p \in Range(context.platforms)}
      text(p) == IF Contains(context.platforms, p)
                   THEN Generated(context.templates, context.tags, p, l, url)
                   ELSE DefaultText(l, p, url)
      title(p) == IF Contains(context.platforms, p)
                    THEN GeneratedTitle(context.titles, p, l, url)
                    ELSE DefaultTitle(l, p)
  IN [p \in named \cap DOMAIN PlatformConfigs |->
        [artifact |-> ArtifactKind(p, plan.artifact),
         post |-> PostType(p, plan.post),
         text |-> OrElse(text(p), DefaultText(l, p, url)),
         title |-> OrElse(title(p), DefaultTitle(l, p)),
         url |-> url]]

\* The captions beside the plan, those the editor wrote in place of theirs.
Captions(targets, edited) ==
  [p \in DOMAIN targets |-> IF p \in DOMAIN edited THEN edited[p] ELSE targets[p].text]

\* Mutant of PostedText: the words of the agency's templates are not used.
PostedDefault(target, captions, p, l) == DefaultText(l, p, target.url)

\* What a platform is given: the plan's words first.
PostedText(target, captions, p, l) ==
  OrElse(target.text, OrElse(captions[p], DefaultText(l, p, target.url)))

\* A poster where the platform takes no video.
PostedMedia(target, video, poster) ==
  IF target.artifact = "reel_video" THEN video ELSE poster

Posts(targets, captions, l, video, poster) ==
  [p \in DOMAIN targets |->
     [media |-> PostedMedia(targets[p], video, poster),
      post |-> targets[p].post,
      text |-> PostedText(targets[p], captions, p, l),
      title |-> OrElse(targets[p].title, DefaultTitle(l, p)),
      name |-> UploadName(p, OrElse(targets[p].title, DefaultTitle(l, p)))]]

=============================================================================
