---------------------------- MODULE PropertyQueue ----------------------------
(***************************************************************************)
(* What the work queue promises its callers. A job waits, runs, perhaps    *)
(* several times, and ends; while it waits a newer request for the same    *)
(* property may replace it; and no two jobs of one property run together.  *)
(***************************************************************************)
EXTENDS Naturals

CONSTANTS Jobs, Properties, NoProperty

VARIABLES
  phase,     \* where each job is in its life
  property   \* what it is about, once it is submitted

vars == <<phase, property>>

Phases == {"absent", "waiting", "running", "ended", "replaced"}

TypeOK == /\ phase \in [Jobs -> Phases]
          /\ property \in [Jobs -> Properties \cup {NoProperty}]

Init == /\ phase = [j \in Jobs |-> "absent"]
        /\ property = [j \in Jobs |-> NoProperty]

About(p) == {j \in Jobs : property[j] = p /\ p # NoProperty}

\* A request adds one job and may replace waiting ones of its property.
Submit(j, p) ==
  /\ phase[j] = "absent"
  /\ property' = [property EXCEPT ![j] = p]
  /\ \E replaced \in SUBSET {k \in About(p) : phase[k] = "waiting"} :
       phase' = [k \in Jobs |-> IF k = j THEN "waiting"
                               ELSE IF k \in replaced THEN "replaced"
                                    ELSE phase[k]]

Run(j) ==
  /\ phase[j] = "waiting"
  /\ \A k \in About(property[j]) : phase[k] # "running"
  /\ phase' = [phase EXCEPT ![j] = "running"]
  /\ UNCHANGED property

\* Retries, and recoveries of jobs whose worker is gone.
Requeue ==
  /\ UNCHANGED property
  /\ \E js \in SUBSET {j \in Jobs : phase[j] = "running"} :
       phase' = [j \in Jobs |-> IF j \in js THEN "waiting" ELSE phase[j]]

End(j) ==
  /\ phase[j] = "running"
  /\ phase' = [phase EXCEPT ![j] = "ended"]
  /\ UNCHANGED property

Next ==
  \/ \E j \in Jobs : Run(j) \/ End(j)
  \/ \E j \in Jobs, p \in Properties \cup {NoProperty} : Submit(j, p)
  \/ Requeue

Spec == Init /\ [][Next]_vars
=============================================================================
