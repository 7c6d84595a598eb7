---------------------------- MODULE MCReelContent ----------------------------
(* ReelContent for TLC: two platforms and one that does not exist, two       *)
(* listings of one property, the agency's settings at two times.           *)
EXTENDS ReelContent

Known == {"instagram", "google_business_profile"}
On(p, text) == [q \in Known |-> IF q = p THEN text ELSE <<>>]

Base == [slug |-> "house", title |-> <<"House">>, price |-> <<"1">>,
         area |-> <<>>, agent |-> <<"Ann">>, mobile |-> <<>>, number |-> <<"555">>,
         email |-> <<>>, psra |-> <<"7">>, link |-> "https", status |-> "for sale",
         captions |-> <<<<"hall">>, <<>>, <<"front">>>>, featured |-> 3]

MCListings ==
  <<Base, [Base EXCEPT !.status = "sold", !.link = "", !.featured = None,
                       !.captions = <<<<"hall">>, <<"garden">>>>]>>

Template == [per |-> 2, max |-> 3, total |-> 6]
Held == [connected |-> TRUE, gated |-> TRUE,
         platforms |-> <<"instagram", "gbp", "gmb", "myspace">>,
         templates |-> On("instagram", <<"For", "price", "unknown">>),
         titles |-> On("google_business_profile", <<"property_title">>),
         tags |-> On("instagram", <<"#home">>), tracks |-> {"t1"},
         duration |-> None, drawn |-> TRUE, intro |-> 3, template |-> Template]
Cut == [Held EXCEPT !.connected = FALSE, !.drawn = FALSE, !.duration = 4,
                    !.intro = 0, !.tracks = {}]
MCAgencies == {Held, Cut}

Cue(index, text, in, out) == [text |-> text, index |-> index, in |-> in, out |-> out]
MCCueInputs ==
  {<<Cue(0, <<"look">>, 0, 1), Cue(2, <<"here">>, 1, 5)>>,
   <<Cue(0, <<"look">>, 0, 2), Cue(1, <<"here">>, 1, 3)>>,
   <<Cue(1, <<"look">>, 0, 1), Cue(1, <<"here">>, 1, 3)>>}

Pick(position, selected) == [position |-> position, selected |-> selected]
MCPhotosInputs ==
  {<<Pick(2, TRUE), Pick(1, TRUE), Pick(0, TRUE)>>,
   <<Pick(1, TRUE), Pick(0, FALSE)>>,
   <<Pick(1, TRUE), Pick(1, TRUE)>>}

Slide(id, position, kind, photo) ==
  [text |-> None, duration |-> 1, position |-> position, id |-> id,
   kind |-> kind, photo |-> photo, url |-> None]
Photo(id, position, photo) == Slide(id, position, "photo", photo)
MCSlideInputs ==
  {<<Photo("a", 1, 0), Photo("b", 0, 1), Photo("c", 4, 1),
     [Slide("d", 2, "text", None) EXCEPT !.text = <<"hi">>],
     [Slide("e", 3, "voiceover", None) EXCEPT !.url = "mp3", !.duration = 3]>>,
   <<Photo("a", 0, 0), Photo("b", 2, 1)>>}

MCCaptionInputs ==
  {[p \in {"instagram"} |-> <<"mine">>], [p \in {"tiktok"} |-> <<"mine">>]}

\* Another reel, in the state a reel under review gets into.
MCOthers ==
  <<[NewRow EXCEPT !.listing = 1, !.ws = "awaiting_review", !.ps = "pending_review"]>>

MCMusicInputs == {"t1", "t9"}

=============================================================================
