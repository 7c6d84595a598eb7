-------------------------- MODULE MCReelPublishing --------------------------
(* An instance of ReelPublishing: a name of which there are two spellings,  *)
(* one platform that shows the poster, one that is verified, and one that   *)
(* has no configuration.                                                    *)
EXTENDS ReelPublishing

MCNames == {"instagram", "youtube", "gbp", "gmb", "myspace"}
MCPlatforms == {"instagram", "youtube", "google", "myspace"}
MCCanonical == [n \in MCNames |-> IF n \in {"gbp", "gmb"} THEN "google" ELSE n]
MCConfigured == {"instagram", "youtube", "google"}
MCRequests == {<<"gbp", "youtube", "gmb">>, <<"instagram", "myspace">>,
               <<"myspace">>, <<>>}
=============================================================================
