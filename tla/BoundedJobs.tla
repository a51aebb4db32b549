------------------------------ MODULE BoundedJobs ------------------------------
(***************************************************************************)
(* What gather_limited promises: every job is run once, and at most `bound`*)
(* of them are under way at a time.                                        *)
(***************************************************************************)
EXTENDS Naturals, FiniteSets

CONSTANT Jobs  \* the jobs there may be

VARIABLES
  jobs,       \* the jobs to run
  bound,      \* how many may be under way
  active,     \* the jobs under way
  ended       \* the jobs that have come to an end

vars == <<jobs, bound, active, ended>>

Pending == jobs \ (active \cup ended)

Init == active = {} /\ ended = {}

\* Some pending jobs start; of these, those in `short` end at once.
Begin(started, short) ==
  /\ started \cup short # {}
  /\ started \cup short \subseteq Pending
  /\ started \cap short = {}
  /\ active' = active \cup started
  /\ Cardinality(active') <= bound
  /\ ended' = ended \cup short
  /\ UNCHANGED <<jobs, bound>>

End(j) ==
  /\ j \in active
  /\ active' = active \ {j}
  /\ ended' = ended \cup {j}
  /\ UNCHANGED <<jobs, bound>>

Next ==
  \/ \E started, short \in SUBSET Jobs : Begin(started, short)
  \/ \E j \in Jobs : End(j)

Spec ==
  /\ Init
  /\ [][Next]_vars
  /\ WF_vars(\E started, short \in SUBSET Jobs : Begin(started, short))
  /\ \A j \in Jobs : WF_vars(End(j))
================================================================================
