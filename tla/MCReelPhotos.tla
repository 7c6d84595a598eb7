--------------------------- MODULE MCReelPhotos ---------------------------
(* Three photos, two of which end in the same file name, and a house that is *)
(* for sale and then sold.                                                   *)
EXTENDS ReelPhotos

MCBasename == [p \in Photos |-> IF p = "p3" THEN "b" ELSE "a"]

MCListings ==
  {[kind |-> "curated", photos |-> <<"p1", "p2", "p3">>, featured |-> "p2"],
   [kind |-> "curated", photos |-> <<"p1", "p2">>, featured |-> Nothing],
   [kind |-> "curated", photos |-> <<"p1">>, featured |-> "p3"],
   [kind |-> "status", photos |-> <<"p3", "p1">>, featured |-> "p3"]}

A(area, score, rejected) == [area |-> area, space |-> area, score |-> score,
                             confidence |-> 90, rejected |-> rejected]
MCAnswers ==
  {[p \in Photos |-> CASE p = "p1" -> A("kitchen", 70, FALSE)
                       [] p = "p2" -> A("living_room", 60, FALSE)
                       [] p = "p3" -> A("garden_patio", 90, FALSE)],
   [p \in Photos |-> CASE p = "p1" -> A("living_room", 60, FALSE)
                       [] p = "p2" -> A("other", 60, TRUE)
                       [] p = "p3" -> A("living_room", 80, FALSE)]}
=============================================================================
