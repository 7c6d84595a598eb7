--------------------------- MODULE MCAgencyAdmin ---------------------------
(* Two agencies that were registered before, and a third that may come.     *)
EXTENDS AgencyAdmin, TLC

MCFounders == [a \in {"a1", "a2"} |-> IF a = "a1" THEN "Acme" ELSE "Bond"]
MCSlugOf == [n \in {"Acme", "Bond", "acme", "bond", "other"} |->
               CASE n \in {"Acme", "acme"} -> "acme"
                 [] n \in {"Bond", "bond"} -> "bond"
                 [] OTHER -> "other"]
MCEnvKey == [s \in {"site"} |-> "k1"]
MCSymmetry == Permutations(SourceIds)
=============================================================================
