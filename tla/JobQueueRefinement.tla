-------------------------- MODULE JobQueueRefinement --------------------------
(***************************************************************************)
(* One worker thread drains the jobs table as PropertyQueue promises.      *)
(***************************************************************************)
EXTENDS JobQueue

Phase(row) == CASE row.status = "absent"     -> "absent"
                [] row.status = "queued"     -> "waiting"
                [] row.status = "processing" -> "running"
                [] row.status = "superseded" -> "replaced"
                [] OTHER                     -> "ended"

\* A row that is not committed yet is about nothing.
About(row) == IF row.status = "absent" THEN NoProperty ELSE row.property

PhaseOfJob    == [j \in Jobs |-> Phase(job[j])]
PropertyOfJob == [j \in Jobs |-> About(job[j])]

Queue == INSTANCE PropertyQueue WITH phase <- PhaseOfJob,
                                     property <- PropertyOfJob

\* Every step of the tables, the API transactions and the worker is a step of
\* the promised queue or none: jobs of a property run one at a time, only a
\* waiting job is replaced, and a job that ended stays so.
ImplementsPropertyQueue == Queue!Spec
===============================================================================
