--------------------------- MODULE MCAgencySettings ---------------------------
(* One agency, two platforms, and request bodies of one to four fields. *)
EXTENDS AgencySettings, TLC

MCPlatforms == {"instagram"}
MCAllPlatforms == {"instagram", "youtube"}
MCCatalog == "classic" :> "active" @@ "old" :> "archived"

LogoForm(type, suffix, size) ==
  [multipart |-> TRUE, boundary |-> TRUE, size |-> size,
   parts |-> <<[name |-> "file", filename |-> [stem |-> "logo", suffix |-> suffix],
                type |-> type, bytes |-> [id |-> "c0ffee", size |-> size]]>>]

MCLogoForms ==
  {LogoForm("image/png", ".png", 5), LogoForm("image/png", ".png", 6),
   LogoForm("image/png", ".jpg", 1), LogoForm("image/gif", ".gif", 1)}

MCBrandBodies ==
  {"primary_color" :> "red", "primary_color" :> Null, "font_family" :> "Poppins",
   "font_family" :> "Comic Sans", "logo_object_key" :> "c0ffee.png"}

MCDefaultsBodies ==
  {"platforms" :> {}, "outro_enabled" :> TRUE,
   "settings" :> ("music" :> "own tracks only"), 
   "settings" :> ("showAgentPhoto" :> "false" @@ "subFont" :> "Inter")}

MCTemplateBodies ==
  {<<>>,
   "instagram" :> [caption |-> "text", title |-> "", hashtags |-> ""],
   "instagram" :> [caption |-> "text", title |-> "text", hashtags |-> "text"],
   "instagram" :> [caption |-> "{{unknown}}", title |-> "", hashtags |-> ""]}

MCProfileBodies ==
  {"primary_color" :> "blue", "secondary_color" :> "blue", "approval_required" :> TRUE,
   [platforms |-> {"youtube"}, extra_settings |-> <<>>]}

\* Publish days: a working week, the end of a week, none.  Windows: inside a
\* day, around midnight, malformed.
MCAutomationBodies ==
  {"approval_required" :> TRUE}
  \cup [hold_window_seconds : {0, 2}, quiet_hours_enabled : BOOLEAN,
        skip_weekends : BOOLEAN, publish_days : {0 .. 4, {4, 5, 6}}]
  \cup {[quiet_hours_enabled |-> TRUE, publish_days |-> {}]}
  \cup [publish_window_start : {1}, publish_window_end : {1, NoTime}]
  \cup {[publish_window_start |-> 2, publish_window_end |-> 0]}

MCStarts == {[day |-> 3, time |-> 2], [day |-> 4, time |-> 1], [day |-> 5, time |-> 0]}
=============================================================================
