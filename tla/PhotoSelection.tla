--------------------------- MODULE PhotoSelection ---------------------------
(***************************************************************************)
(* Which photos of a listing become the slides of its reel: the rows the   *)
(* classifier gives for the downloaded images are ranked, and a selection  *)
(* is built greedily, a hero and an exterior first, then one of each main  *)
(* room, then whatever still fits the limits of its area.                  *)
(*                                                                         *)
(* A row is a record [file, area, space, score, confidence, rejected];     *)
(* scores and confidence are the clamped integers of the classifier.       *)
(***************************************************************************)
EXTENDS Naturals, Integers, Sequences, FiniteSets, SequencesExt, Loops

Exteriors == {"exterior_front", "garden_patio", "terrace_balcony", "pool"}
Services == {"entry_hall", "hallway", "stairs", "laundry_room", "garage",
             "storage_room", "other"}
Areas == Exteriors \cup Services
         \cup {"living_room", "dining_room", "kitchen", "bedroom", "bathroom",
               "office"}

\* The row of an answer: an unknown area is "other", and what is no photograph
\* is kept with no score and no space of its own.
ResultRow(file, answer) ==
  IF answer.rejected
    THEN [file |-> file, area |-> "other", space |-> "discarded", score |-> 0,
          confidence |-> answer.confidence, rejected |-> TRUE]
    ELSE [file |-> file,
          area |-> IF answer.area \in Areas THEN answer.area ELSE "other",
          space |-> answer.space, score |-> answer.score,
          confidence |-> answer.confidence, rejected |-> FALSE]

\* The row of a photo without an answer: its label is no area.
ErrorRow(file, label) ==
  [file |-> file, area |-> label, space |-> label, score |-> 0, confidence |-> 0,
   rejected |-> FALSE]

Candidate(row) == row.area \in Areas /\ ~row.rejected

AreaLimit(area) == CASE area = "bedroom" -> 3
                     [] area = "bathroom" -> 2
                     [] OTHER -> 1

\* A file once, a space once, an area up to its limit, one service area.
CanAdd(row, chosen) ==
  /\ row.area \in Areas
  /\ \A i \in DOMAIN chosen : chosen[i].file # row.file /\ chosen[i].space # row.space
  /\ Cardinality({i \in DOMAIN chosen : chosen[i].area = row.area}) < AreaLimit(row.area)
  /\ row.area \in Services => \A i \in DOMAIN chosen : chosen[i].area \notin Services

\* Row i comes before row j: by the priority of the area, then the score, then
\* the confidence, highest first; rows that agree on all three keep their order.
Before(rows, priority, i, j) ==
  LET Key(k) == <<priority[rows[k].area], rows[k].score, rows[k].confidence>>
  IN \/ \E n \in 1..3 : /\ Key(i)[n] > Key(j)[n]
                        /\ \A m \in 1..(n - 1) : Key(i)[m] = Key(j)[m]
     \/ Key(i) = Key(j) /\ i < j

Place(rows, priority, i) ==
  1 + Cardinality({j \in DOMAIN rows : Before(rows, priority, j, i)})

Rank(rows, priority) ==
  [p \in DOMAIN rows |->
     rows[CHOOSE i \in DOMAIN rows : Place(rows, priority, i) = p]]

NoPriority == [area \in Areas |-> 0]

\* An area without a priority comes after every one that has any.
HeroPriority == [area \in Areas |->
  CASE area = "exterior_front" -> 10
    [] area = "living_room" -> 9
    [] area \in {"kitchen", "dining_room"} -> 8
    [] area \in {"garden_patio", "terrace_balcony"} -> 7
    [] area = "bedroom" -> 6
    [] area = "bathroom" -> 5
    [] OTHER -> 0]

ExteriorPriority == [area \in Areas |->
  CASE area = "garden_patio" -> 10
    [] area = "terrace_balcony" -> 9
    [] area = "exterior_front" -> 8
    [] area = "pool" -> 7
    [] OTHER -> 0]

HeroAreas == {"exterior_front", "living_room", "kitchen", "dining_room",
              "garden_patio", "terrace_balcony", "bedroom", "bathroom"}

\* chosen with the first row of ranked that may be added and whose area is
\* one of areas; chosen itself when there is none.
AddFirst(ranked, chosen, areas) ==
  LET Fits(row) == row.area \in areas /\ CanAdd(row, chosen)
      i == SelectInSeq(ranked, Fits)
  IN IF i = 0 THEN chosen ELSE Append(chosen, ranked[i])

AddFirstOr(ranked, areas, otherwise, chosen) ==
  LET more == AddFirst(ranked, chosen, areas)
  IN IF more = chosen THEN AddFirst(otherwise, chosen, Areas) ELSE more

\* The featured image comes first whatever its rank, unless it was rejected;
\* without one the hero does.
Opening(candidates, reserved) ==
  LET general == Rank(candidates, NoPriority)
      IsReserved(row) == row.file = reserved
      r == SelectInSeq(general, IsReserved)
  IN IF r # 0 THEN <<general[r]>>
     ELSE AddFirstOr(Rank(candidates, HeroPriority), HeroAreas, general, <<>>)

\* One row more of areas, while there is room.
Room(general, max, chosen, areas) ==
  IF Len(chosen) >= max THEN chosen ELSE AddFirst(general, chosen, areas)

\* Whatever may still be added, in the order of general.
Filled(general, max, chosen) ==
  LET after[n \in 0..Len(general)] ==
        IF n = 0 THEN chosen
        ELSE IF Len(after[n - 1]) < max /\ CanAdd(general[n], after[n - 1])
          THEN Append(after[n - 1], general[n]) ELSE after[n - 1]
  IN after[Len(general)]

ChooseSelected(rows, max, reserved) ==
  LET candidates == Only(rows, {row \in Range(rows) : Candidate(row)})
      general == Rank(candidates, NoPriority)
      opened == Opening(candidates, reserved)
      exterior == IF Len(opened) >= max THEN opened
                  ELSE AddFirstOr(Rank(candidates, ExteriorPriority),
                                  Exteriors, general, opened)
      living == Room(general, max, exterior, {"living_room"})
      kitchen == Room(general, max, living, {"kitchen", "dining_room"})
      bedroom == Room(general, max, kitchen, {"bedroom"})
      bathroom == Room(general, max, bedroom, {"bathroom"})
      filled == Filled(general, max, bathroom)
  IN SubSeq(filled, 1, IF max < Len(filled) THEN max ELSE Len(filled))
=============================================================================
