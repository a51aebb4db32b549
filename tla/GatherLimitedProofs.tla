-------------------------- MODULE GatherLimitedProofs --------------------------
(***************************************************************************)
(* Theorems about GatherLimited, for every number of items and every limit.*)
(***************************************************************************)
EXTENDS GatherLimited, FiniteSetTheorems, LeastElement

Holders == In({"served", "running"})
Waiters == In({"waiting"})

\* A type invariant that leaves the range of the counter to SlotsAccounted.
GatherIsTyped ==
  /\ \E n \in 1..MaxItems : items = 1..n
  /\ limit \in Nat
  /\ slots \in Int
  /\ task \in [items -> TaskStates]

LEMMA ItemsFinite ==
  ASSUME GatherIsTyped
  PROVE  /\ items \subseteq Nat
         /\ Bound \in Nat /\ Bound >= 1
         /\ \A S \in SUBSET items : IsFiniteSet(S) /\ Cardinality(S) \in Nat
<1>1. PICK n \in 1..MaxItems : items = 1..n
  BY DEF GatherIsTyped
<1>2. n \in Nat /\ items \subseteq Nat /\ IsFiniteSet(items)
  BY <1>1, FS_Interval, GatherAssumption
<1>3. Bound \in Nat /\ Bound >= 1
  BY DEF GatherIsTyped, Bound
<1>4. QED
  BY <1>2, <1>3, FS_Subset, FS_CardinalityType

LEMMA FirstItem ==
  ASSUME GatherIsTyped, NEW S \in SUBSET items, S # {}
  PROVE  \E i \in S : \A j \in S : i <= j
BY ItemsFinite, LeastNatural

LEMMA LastItem ==
  ASSUME GatherIsTyped, NEW S \in SUBSET items, S # {}
  PROVE  \E i \in S : \A j \in S : j <= i
<1>1. PICK n \in 1..MaxItems : items = 1..n
  BY DEF GatherIsTyped
<1>2. n \in Nat /\ S \in SUBSET (0..n)
  BY <1>1, GatherAssumption
<1>3. QED
  BY <1>2, GreatestNatural

LEMMA GatherInitTyped == GatherInit => GatherIsTyped
BY GatherAssumption DEF GatherInit, GatherIsTyped, Bound, TaskStates

(***************************************************************************)
(* The first step.  The operations admitted are those before the one that  *)
(* would exceed the limit, and if one has to wait the limit is reached.    *)
(***************************************************************************)
LEMMA StartEffect ==
  ASSUME GatherIsTyped, NEW opening \in Openings, StartAll(opening)
  PROVE  /\ Holders' = {i \in Admitted(opening) : opening[i] = "running"}
         /\ Waiters' = items \ Admitted(opening)
         /\ items' = items /\ limit' = limit
         /\ task' \in [items -> TaskStates]
         /\ slots' = slots - Cardinality(Holders')
<1>1. /\ task' = [i \in items |-> IF i \in Admitted(opening) THEN opening[i]
                                  ELSE "waiting"]
      /\ items' = items /\ limit' = limit
      /\ slots' = slots - Cardinality({i \in items : task'[i] = "running"})
  BY DEF StartAll
<1>2. Admitted(opening) \subseteq items
  BY DEF Admitted
<1>3. \A i \in items : opening[i] \in {"running", "returned", "raised"}
  BY DEF Openings, Settled
<1>4. Holders' = {i \in Admitted(opening) : opening[i] = "running"}
  BY <1>1, <1>2, <1>3 DEF Holders, In
<1>5. Waiters' = items \ Admitted(opening)
  BY <1>1, <1>2, <1>3 DEF Waiters, In
<1>6. task' \in [items -> TaskStates]
  BY <1>1, <1>3 DEF TaskStates, Settled
<1>7. {i \in items : task'[i] = "running"} = Holders'
  BY <1>1, <1>2, <1>3, <1>4
<1>8. QED
  BY <1>1, <1>4, <1>5, <1>6, <1>7

LEMMA StartWithinBound ==
  ASSUME GatherIsTyped, NEW opening \in Openings
  PROVE  Cardinality({i \in Admitted(opening) : opening[i] = "running"}) <= Bound
<1> DEFINE S == {i \in Admitted(opening) : opening[i] = "running"}
<1>1. S \subseteq items
  BY DEF Admitted
<1>2. CASE S = {}
  BY <1>2, FS_EmptySet, ItemsFinite
<1>3. CASE S # {}
  <2>1. PICK m \in S : \A j \in S : j <= m
    BY <1>1, <1>3, LastItem
  <2> DEFINE before == RunningBefore(opening, m)
  <2>2. before \subseteq items /\ m \in items /\ Cardinality(before) < Bound
    BY <2>1, <1>1 DEF RunningBefore, Admitted
  <2>3. S \subseteq before \cup {m}
    BY <1>1, <2>1, ItemsFinite DEF RunningBefore
  <2>4. /\ IsFiniteSet(before \cup {m})
        /\ Cardinality(before \cup {m}) <= Cardinality(before) + 1
    BY <2>2, ItemsFinite, FS_AddElement
  <2>5. Cardinality(S) <= Cardinality(before \cup {m})
    BY <2>3, <2>4, FS_Subset
  <2>6. /\ Cardinality(S) \in Nat /\ Cardinality(before) \in Nat /\ Bound \in Nat
        /\ Cardinality(before \cup {m}) \in Nat
    BY <1>1, <2>2, <2>4, ItemsFinite, FS_CardinalityType
  <2>7. QED
    BY <2>2, <2>4, <2>5, <2>6
<1>4. QED
  BY <1>2, <1>3

LEMMA StartWaitsOnlyAtBound ==
  ASSUME GatherIsTyped, NEW opening \in Openings, items \ Admitted(opening) # {}
  PROVE  Cardinality({i \in Admitted(opening) : opening[i] = "running"}) = Bound
<1> DEFINE S == {i \in Admitted(opening) : opening[i] = "running"}
<1>1. PICK w \in items \ Admitted(opening) :
        \A j \in items \ Admitted(opening) : w <= j
  BY FirstItem
<1> DEFINE before == RunningBefore(opening, w)
<1>2. Admitted(opening) \subseteq items /\ before \subseteq items
  BY DEF Admitted, RunningBefore
<1>3. before \subseteq S
  <2>1. ASSUME NEW j \in before PROVE j \in Admitted(opening)
    BY <1>1, <2>1, ItemsFinite DEF RunningBefore
  <2>2. QED
    BY <2>1 DEF RunningBefore
<1>4. Cardinality(before) <= Cardinality(S)
  BY <1>2, <1>3, ItemsFinite, FS_Subset
<1>5. ~(Cardinality(before) < Bound)
  BY <1>1 DEF Admitted
<1>6. Cardinality(S) <= Bound
  BY StartWithinBound
<1>7. Cardinality(S) \in Nat /\ Cardinality(before) \in Nat /\ Bound \in Nat
  BY <1>2, ItemsFinite
<1>8. QED
  BY <1>4, <1>5, <1>6, <1>7

LEMMA AdmittedIsInitial ==
  ASSUME GatherIsTyped, NEW opening \in Openings,
         NEW i \in items, NEW j \in items, i < j, j \in Admitted(opening)
  PROVE  i \in Admitted(opening)
<1>1. RunningBefore(opening, i) \subseteq RunningBefore(opening, j)
  BY ItemsFinite DEF RunningBefore
<1>2. RunningBefore(opening, j) \subseteq items
  BY DEF RunningBefore
<1>3. Cardinality(RunningBefore(opening, i)) <= Cardinality(RunningBefore(opening, j))
  BY <1>1, <1>2, ItemsFinite, FS_Subset
<1>4. /\ Cardinality(RunningBefore(opening, i)) \in Nat
      /\ Cardinality(RunningBefore(opening, j)) \in Nat
  BY <1>1, <1>2, ItemsFinite
<1>5. QED
  BY <1>3, <1>4, ItemsFinite DEF Admitted

(***************************************************************************)
(* The end of an operation: its slot is free, or the first waiter's.       *)
(***************************************************************************)
LEMMA ReleaseEffect ==
  ASSUME GatherIsTyped, NEW i \in items, task[i] \in {"served", "running"},
         NEW outcome \in Settled, Release([task EXCEPT ![i] = outcome]),
         items' = items
  PROVE  /\ task' \in [items -> TaskStates]
         /\ \/ /\ Waiters = {} /\ Waiters' = {}
               /\ slots' = slots + 1
               /\ Holders' = Holders \ {i}
               /\ task' = [task EXCEPT ![i] = outcome]
            \/ \E next \in Waiters :
                 /\ \A j \in Waiters : next <= j
                 /\ Waiters' = Waiters \ {next}
                 /\ slots' = slots
                 /\ Holders' = (Holders \ {i}) \cup {next}
                 /\ task' = [[task EXCEPT ![i] = outcome] EXCEPT ![next] = "served"]
<1>1. task \in [items -> TaskStates]
  BY DEF GatherIsTyped
<1>2. CASE Waiters = {}
  <2>1. task' = [task EXCEPT ![i] = outcome] /\ slots' = slots + 1
    BY <1>2 DEF Release, Waiters
  <2>2. Waiters' = {} /\ Holders' = Holders \ {i}
    BY <1>1, <1>2, <2>1 DEF Waiters, Holders, In, Settled
  <2>3. QED
    BY <1>1, <1>2, <2>1, <2>2 DEF TaskStates
<1>3. CASE Waiters # {}
  <2> DEFINE next == CHOOSE k \in Waiters : \A j \in Waiters : k <= j
  <2>1. Waiters \subseteq items
    BY DEF Waiters, In
  <2>2. next \in Waiters /\ \A j \in Waiters : next <= j
    BY <1>3, <2>1, FirstItem
  <2>3. /\ task' = [[task EXCEPT ![i] = outcome] EXCEPT ![next] = "served"]
        /\ slots' = slots
    BY <1>3 DEF Release, Waiters
  <2>4. next \in items /\ next # i /\ task[next] = "waiting"
    BY <2>2 DEF Waiters, In
  <2> HIDE DEF next
  <2>5. \A k \in items : task'[k] = IF k = next THEN "served"
                                    ELSE IF k = i THEN outcome ELSE task[k]
    BY <1>1, <2>3, <2>4
  <2>6. Waiters' = Waiters \ {next} /\ Holders' = (Holders \ {i}) \cup {next}
    BY <1>1, <2>4, <2>5 DEF Waiters, Holders, In, Settled
  <2>7. task' \in [items -> TaskStates]
    BY <1>1, <2>3 DEF TaskStates
  <2>8. QED
    BY <2>2, <2>3, <2>6, <2>7
<1>4. QED
  BY <1>2, <1>3

\* What the release of a slot does to each coroutine.
LEMMA ReleaseMoves ==
  ASSUME GatherIsTyped, NEW i \in items, task[i] \in {"served", "running"},
         NEW outcome \in Settled, Release([task EXCEPT ![i] = outcome]),
         items' = items
  PROVE  /\ task'[i] = outcome
         /\ \A j \in items \ {i} :
              task'[j] = task[j] \/ (task[j] = "waiting" /\ task'[j] = "served")
<1>1. task \in [items -> TaskStates]
  BY DEF GatherIsTyped
<1>2. \/ task' = [task EXCEPT ![i] = outcome]
      \/ \E next \in Waiters :
           task' = [[task EXCEPT ![i] = outcome] EXCEPT ![next] = "served"]
  BY ReleaseEffect
<1>3. Waiters \subseteq items /\ i \notin Waiters /\ \A j \in Waiters : task[j] = "waiting"
  BY DEF Waiters, In
<1>4. QED
  BY <1>1, <1>2, <1>3

(***************************************************************************)
(* The inductive invariant.  That the counter stays non-negative, that a   *)
(* waiter means no free slot and that items are served in order are proved *)
(* together from the accounts.                                             *)
(***************************************************************************)
GatherInvariant ==
  /\ GatherIsTyped
  /\ SlotsAccounted
  /\ slots >= 0
  /\ NoIdleSlot
  /\ ServedInOrder

LEMMA GatherInitInvariant == GatherInit => GatherInvariant
<1> SUFFICES ASSUME GatherInit PROVE GatherInvariant
  OBVIOUS
<1>1. GatherIsTyped
  BY GatherInitTyped
<1>2. In({"served", "running"}) = {} /\ In({"waiting"}) = {}
  BY DEF GatherInit, In
<1>3. SlotsAccounted
  BY <1>1, <1>2, FS_EmptySet, ItemsFinite DEF GatherInit, SlotsAccounted
<1>4. slots >= 0
  BY <1>1, ItemsFinite DEF GatherInit
<1>5. NoIdleSlot /\ ServedInOrder
  BY <1>2 DEF GatherInit, NoIdleSlot, ServedInOrder
<1>6. QED
  BY <1>1, <1>3, <1>4, <1>5 DEF GatherInvariant

LEMMA StartInvariant ==
  ASSUME GatherInvariant, NEW opening \in Openings, StartAll(opening)
  PROVE  GatherInvariant'
<1>1. GatherIsTyped
  BY DEF GatherInvariant
<1> DEFINE S == {i \in Admitted(opening) : opening[i] = "running"}
<1>2. /\ Holders' = S /\ Waiters' = items \ Admitted(opening)
      /\ items' = items /\ limit' = limit
      /\ task' \in [items -> TaskStates]
      /\ slots' = slots - Cardinality(S)
  BY <1>1, StartEffect
<1>3. slots = Bound
  <2>1. In({"served", "running"}) = {}
    BY DEF StartAll, In
  <2>2. QED
    BY <1>1, <2>1, ItemsFinite, FS_EmptySet DEF GatherInvariant, SlotsAccounted, GatherIsTyped
<1>4. Cardinality(S) <= Bound /\ Cardinality(S) \in Nat /\ Bound \in Nat
  <2>1. S \subseteq items
    BY DEF Admitted
  <2>2. QED
    BY <1>1, <2>1, StartWithinBound, ItemsFinite
<1>5. GatherIsTyped' /\ Bound' = Bound
  BY <1>1, <1>2, <1>4 DEF GatherIsTyped, Bound
<1>6. SlotsAccounted' /\ slots' >= 0
  <2>1. slots' + Cardinality(Holders') = Bound' /\ slots' >= 0
    <3>1. Cardinality(Holders') = Cardinality(S)
      BY <1>2
    <3> HIDE DEF S
    <3>2. QED
      BY <1>2, <1>3, <1>4, <1>5, <3>1
  <2>2. QED
    BY <2>1 DEF SlotsAccounted, Holders
<1>7. NoIdleSlot'
  BY <1>1, <1>2, <1>3, <1>4, StartWaitsOnlyAtBound DEF NoIdleSlot, Waiters
<1>8. ServedInOrder'
  <2> SUFFICES ASSUME NEW i \in items, NEW j \in items, i < j, task'[i] = "waiting"
               PROVE  task'[j] = "waiting"
    BY <1>2 DEF ServedInOrder
  <2>1. i \notin Admitted(opening)
    BY <1>2 DEF Waiters, In
  <2>2. j \notin Admitted(opening)
    BY <1>1, <2>1, AdmittedIsInitial
  <2>3. QED
    BY <1>2, <2>2 DEF Waiters, In
<1>9. QED
  BY <1>5, <1>6, <1>7, <1>8 DEF GatherInvariant

LEMMA ReleaseInvariant ==
  ASSUME GatherInvariant, NEW i \in items, task[i] \in {"served", "running"},
         NEW outcome \in Settled, Release([task EXCEPT ![i] = outcome]),
         items' = items, limit' = limit
  PROVE  GatherInvariant'
<1>1. GatherIsTyped /\ task \in [items -> TaskStates] /\ slots \in Int /\ slots >= 0
  BY DEF GatherInvariant, GatherIsTyped
<1>2. i \in Holders /\ Holders \subseteq items /\ Waiters \subseteq items
  BY DEF Holders, Waiters, In
<1>3. /\ IsFiniteSet(Holders \ {i})
      /\ Cardinality(Holders \ {i}) = Cardinality(Holders) - 1
      /\ Cardinality(Holders) \in Nat /\ Bound \in Nat
  BY <1>1, <1>2, ItemsFinite, FS_RemoveElement
<1>4. slots + Cardinality(Holders) = Bound
  BY DEF GatherInvariant, SlotsAccounted, Holders
<1>5. Bound' = Bound
  BY DEF Bound
<1>6. task' \in [items -> TaskStates]
  BY <1>1, ReleaseEffect
<1>7. CASE /\ Waiters = {} /\ Waiters' = {}
           /\ slots' = slots + 1
           /\ Holders' = Holders \ {i}
           /\ task' = [task EXCEPT ![i] = outcome]
  <2>1. GatherIsTyped'
    BY <1>1, <1>6, <1>7 DEF GatherIsTyped
  <2>2. SlotsAccounted' /\ slots' >= 0
    <3>1. Cardinality(Holders') = Cardinality(Holders) - 1
      BY <1>3, <1>7
    <3>2. slots' + Cardinality(Holders') = Bound' /\ slots' >= 0
      BY <1>1, <1>3, <1>4, <1>5, <1>7, <3>1
    <3>3. QED
      BY <3>2 DEF SlotsAccounted, Holders
  <2>3. NoIdleSlot'
    BY <1>7 DEF NoIdleSlot, Waiters
  <2>4. \A j \in items' : task'[j] # "waiting"
    BY <1>7 DEF Waiters, In
  <2>5. ServedInOrder'
    BY <2>4 DEF ServedInOrder
  <2>6. QED
    BY <2>1, <2>2, <2>3, <2>5 DEF GatherInvariant
<1>8. ASSUME NEW next \in Waiters,
             \A j \in Waiters : next <= j,
             Waiters' = Waiters \ {next},
             slots' = slots,
             Holders' = (Holders \ {i}) \cup {next},
             task' = [[task EXCEPT ![i] = outcome] EXCEPT ![next] = "served"]
      PROVE  GatherInvariant'
  <2>1. GatherIsTyped'
    BY <1>1, <1>6, <1>8 DEF GatherIsTyped
  <2>2. next \notin Holders
    BY DEF Waiters, Holders, In
  <2>3. Cardinality(Holders') = Cardinality(Holders)
    <3> DEFINE rest == Holders \ {i}
    <3>1. next \notin rest /\ Holders' = rest \cup {next}
      BY <1>8, <2>2
    <3>2. IsFiniteSet(rest) /\ Cardinality(rest) = Cardinality(Holders) - 1
      BY <1>3
    <3> HIDE DEF rest
    <3>3. Cardinality(rest \cup {next}) = Cardinality(rest) + 1
      BY <3>1, <3>2, FS_AddElement
    <3>4. QED
      BY <1>3, <3>1, <3>2, <3>3
  <2>4. SlotsAccounted' /\ slots' >= 0
    BY <1>1, <1>4, <1>5, <1>8, <2>3 DEF SlotsAccounted, Holders
  <2>5. NoIdleSlot'
    BY <1>8 DEF GatherInvariant, NoIdleSlot, Waiters
  <2>6. ServedInOrder'
    <3> SUFFICES ASSUME NEW j \in items, NEW k \in items, j < k,
                        task'[j] = "waiting"
                 PROVE  task'[k] = "waiting"
      BY DEF ServedInOrder
    <3>1. j \in Waiters
      BY <1>8 DEF Waiters, In
    <3>2. k \in Waiters
      BY <3>1 DEF GatherInvariant, ServedInOrder, Waiters, In
    <3>3. k # next
      BY <1>1, <1>8, <3>1, ItemsFinite
    <3>4. QED
      BY <1>8, <3>2, <3>3 DEF Waiters, In
  <2>7. QED
    BY <2>1, <2>4, <2>5, <2>6 DEF GatherInvariant
<1>9. QED
  BY <1>1, <1>7, <1>8, ReleaseEffect

LEMMA GatherStepInvariant == GatherInvariant /\ [GatherNext]_gatherVars => GatherInvariant'
<1> SUFFICES ASSUME GatherInvariant, [GatherNext]_gatherVars PROVE GatherInvariant'
  OBVIOUS
<1>1. ASSUME NEW opening \in Openings, StartAll(opening) PROVE GatherInvariant'
  BY <1>1, StartInvariant
<1>2. ASSUME NEW i \in items, NEW opening \in {"running"} \cup Settled,
             Resume(i, opening)
      PROVE  GatherInvariant'
  <2>1. i \in items /\ task[i] = "served" /\ items' = items /\ limit' = limit
    BY <1>2 DEF Resume, In
  <2>2. CASE opening = "running"
    <3>1. task' = [task EXCEPT ![i] = "running"] /\ slots' = slots
      BY <1>2, <2>2 DEF Resume
    <3>2. task \in [items -> TaskStates] /\ GatherIsTyped
      BY DEF GatherInvariant, GatherIsTyped
    <3>3. GatherIsTyped'
      BY <2>1, <3>1, <3>2 DEF GatherIsTyped, TaskStates
    <3>4. /\ In({"served", "running"})' = In({"served", "running"})
          /\ In({"waiting"})' = In({"waiting"})
      BY <2>1, <3>1, <3>2 DEF In
    <3>5. SlotsAccounted' /\ slots' >= 0 /\ NoIdleSlot'
      BY <2>1, <3>1, <3>4 DEF GatherInvariant, SlotsAccounted, NoIdleSlot, Bound
    <3>6. ServedInOrder'
      BY <2>1, <3>1, <3>2 DEF GatherInvariant, ServedInOrder
    <3>7. QED
      BY <3>3, <3>5, <3>6 DEF GatherInvariant
  <2>3. CASE opening # "running"
    <3>1. opening \in Settled /\ Release([task EXCEPT ![i] = opening])
      BY <1>2, <2>3 DEF Resume
    <3>2. QED
      BY <2>1, <3>1, ReleaseInvariant
  <2>4. QED
    BY <2>2, <2>3
<1>3. ASSUME NEW i \in items, NEW outcome \in Settled, Finish(i, outcome)
      PROVE  GatherInvariant'
  <2>1. /\ task[i] = "running" /\ items' = items /\ limit' = limit
        /\ Release([task EXCEPT ![i] = outcome])
    BY <1>3 DEF Finish, In
  <2>2. QED
    BY <2>1, ReleaseInvariant
<1>4. CASE UNCHANGED gatherVars
  BY <1>4 DEF gatherVars, GatherInvariant, GatherIsTyped, SlotsAccounted, NoIdleSlot, ServedInOrder,
              Bound, In
<1>5. QED
  BY <1>1, <1>2, <1>3, <1>4 DEF GatherNext

THEOREM GatherInvariantHolds == GatherSpec => []GatherInvariant
<1>1. QED
  BY GatherInitInvariant, GatherStepInvariant, PTL DEF GatherSpec

\* The counter and the slots held always add up to the limit.
THEOREM SlotsAreAccounted == GatherSpec => []SlotsAccounted
<1>1. GatherInvariant => SlotsAccounted
  BY DEF GatherInvariant
<1>2. QED
  BY <1>1, GatherInvariantHolds, PTL

\* No item waits while a slot is free.
THEOREM NoSlotIsIdle == GatherSpec => []NoIdleSlot
<1>1. GatherInvariant => NoIdleSlot
  BY DEF GatherInvariant
<1>2. QED
  BY <1>1, GatherInvariantHolds, PTL

\* Items are served in the order they were given in.
THEOREM ServedInTheirOrder == GatherSpec => []ServedInOrder
<1>1. GatherInvariant => ServedInOrder
  BY DEF GatherInvariant
<1>2. QED
  BY <1>1, GatherInvariantHolds, PTL

LEMMA OutcomesTyped ==
  [GatherNext]_gatherVars /\ limit \in Limits /\ gathered \in {"pending", "results", "exception"}
    => limit' \in Limits /\ gathered' \in {"pending", "results", "exception"}
BY DEF GatherNext, StartAll, Resume, Finish, Gather, gatherVars

LEMMA GatherTypeFollows == GatherInvariant /\ limit \in Limits
                           /\ gathered \in {"pending", "results", "exception"}
                             => GatherTypeOK
<1> SUFFICES ASSUME GatherInvariant, limit \in Limits,
                    gathered \in {"pending", "results", "exception"}
             PROVE  GatherTypeOK
  OBVIOUS
<1>1. /\ GatherIsTyped /\ slots \in Int /\ slots >= 0
      /\ slots + Cardinality(In({"served", "running"})) = Bound
  BY DEF GatherInvariant, GatherIsTyped, SlotsAccounted
<1>2. Cardinality(In({"served", "running"})) \in Nat /\ Bound \in Nat
  BY <1>1, ItemsFinite DEF In
<1>3. slots \in 0..Bound
  BY <1>1, <1>2
<1>4. QED
  BY <1>1, <1>3 DEF GatherIsTyped, GatherTypeOK

\* Every variable keeps its type; the counter never exceeds the limit.
THEOREM GatherTyped == GatherSpec => []GatherTypeOK
<1> DEFINE Rest == limit \in Limits /\ gathered \in {"pending", "results", "exception"}
<1>1. GatherInit => Rest
  BY DEF GatherInit
<1>2. Rest /\ [GatherNext]_gatherVars => Rest'
  BY OutcomesTyped
<1>3. GatherInvariant /\ Rest => GatherTypeOK
  BY GatherTypeFollows
<1> HIDE DEF Rest
<1>4. QED
  BY <1>1, <1>2, <1>3, GatherInvariantHolds, PTL DEF GatherSpec

(***************************************************************************)
(* Progress, as far as it is a matter of single steps.  A coroutine goes   *)
(* through its states in one direction, so there are at most four steps    *)
(* for each, and until all are over there is one that can take its next.   *)
(***************************************************************************)
Forward(s, t) ==
  \/ t = s
  \/ s = "created" /\ t # "created"
  \/ s = "waiting" /\ t = "served"
  \/ s = "served" /\ t \in {"running"} \cup Settled
  \/ s = "running" /\ t \in Settled

Advances ==
  /\ \A i \in items : Forward(task[i], task'[i])
  /\ \E i \in items : task'[i] # task[i]

StartedTogether ==
  (\A i \in items : task[i] = "created") \/ (\A i \in items : task[i] # "created")

LEMMA GatherAdvances ==
  ASSUME GatherIsTyped, GatherNext, items # {}, StartedTogether
  PROVE  Advances /\ StartedTogether'
<1>1. task \in [items -> TaskStates]
  BY DEF GatherIsTyped
<1>2. ASSUME NEW opening \in Openings, StartAll(opening)
      PROVE  Advances /\ StartedTogether'
  <2>1. /\ \A i \in items : task[i] = "created"
        /\ items' = items
        /\ task' = [i \in items |-> IF i \in Admitted(opening) THEN opening[i]
                                    ELSE "waiting"]
    BY <1>2 DEF StartAll
  <2>2. \A i \in items : task'[i] # "created"
    BY <2>1 DEF Openings, Settled
  <2>3. QED
    BY <2>1, <2>2 DEF Advances, Forward, StartedTogether
<1>3. ASSUME NEW i \in items, task[i] \in {"served", "running"}, items' = items,
             NEW t \in {"running"} \cup Settled, t # task[i], task'[i] = t,
             \A j \in items \ {i} :
               task'[j] = task[j] \/ (task[j] = "waiting" /\ task'[j] = "served")
      PROVE  Advances /\ StartedTogether'
  <2>1. \A j \in items : task[j] # "created"
    BY <1>3 DEF StartedTogether
  <2>2. \A j \in items : Forward(task[j], task'[j]) /\ task'[j] # "created"
    BY <1>3, <2>1 DEF Forward, Settled
  <2>3. QED
    BY <1>3, <2>2 DEF Advances, StartedTogether
<1>4. ASSUME NEW i \in items, NEW opening \in {"running"} \cup Settled,
             Resume(i, opening)
      PROVE  Advances /\ StartedTogether'
  <2>1. task[i] = "served" /\ items' = items /\ opening # task[i]
    BY <1>4 DEF Resume, In, Settled
  <2>2. /\ task'[i] = opening
        /\ \A j \in items \ {i} :
             task'[j] = task[j] \/ (task[j] = "waiting" /\ task'[j] = "served")
    <3>1. CASE opening = "running"
      BY <1>1, <1>4, <3>1 DEF Resume
    <3>2. CASE opening # "running"
      BY <1>4, <2>1, <3>2, ReleaseMoves DEF Resume
    <3>3. QED
      BY <3>1, <3>2
  <2>3. QED
    BY <1>3, <2>1, <2>2
<1>5. ASSUME NEW i \in items, NEW outcome \in Settled, Finish(i, outcome)
      PROVE  Advances /\ StartedTogether'
  <2>1. /\ task[i] = "running" /\ items' = items /\ outcome # task[i]
        /\ Release([task EXCEPT ![i] = outcome])
    BY <1>5 DEF Finish, In, Settled
  <2>2. QED
    BY <1>3, <2>1, ReleaseMoves
<1>6. QED
  BY <1>2, <1>4, <1>5 DEF GatherNext

LEMMA SomeItems == GatherIsTyped => items # {}
BY GatherAssumption DEF GatherIsTyped

LEMMA StartTogether == GatherSpec => []StartedTogether
<1>1. GatherInit => StartedTogether
  BY DEF GatherInit, StartedTogether
<1>2. GatherInvariant /\ StartedTogether /\ [GatherNext]_gatherVars => StartedTogether'
  <2>1. UNCHANGED gatherVars /\ StartedTogether => StartedTogether'
    BY DEF gatherVars, StartedTogether
  <2>2. QED
    BY <2>1, GatherAdvances, SomeItems DEF GatherInvariant
<1>3. QED
  BY <1>1, <1>2, GatherInvariantHolds, PTL DEF GatherSpec

\* Every step takes some coroutine forward and none back.
THEOREM OnlyForward == GatherSpec => [][Advances]_gatherVars
<1>1. GatherInvariant /\ StartedTogether /\ [GatherNext]_gatherVars => [Advances]_gatherVars
  BY GatherAdvances, SomeItems DEF GatherInvariant
<1>2. QED
  BY <1>1, StartTogether, GatherInvariantHolds, PTL DEF GatherSpec

\* Until every operation is over, either none has been started or one holds a
\* slot: a queue never waits for nobody.
THEOREM NobodyStalls ==
  GatherSpec => [](\/ \A i \in items : task[i] = "created"
                   \/ In({"served", "running"}) # {}
                   \/ \A i \in items : task[i] \in Settled)
<1> DEFINE Going == \/ \A i \in items : task[i] = "created"
                    \/ In({"served", "running"}) # {}
                    \/ \A i \in items : task[i] \in Settled
<1>1. GatherInvariant /\ StartedTogether => Going
  <2> SUFFICES ASSUME GatherInvariant, \A i \in items : task[i] # "created",
                      In({"served", "running"}) = {}
               PROVE  \A i \in items : task[i] \in Settled
    BY DEF StartedTogether
  <2>1. In({"waiting"}) = {}
    <3>1. slots + Cardinality(In({"served", "running"})) = Bound /\ slots \in Int
      BY DEF GatherInvariant, SlotsAccounted, GatherIsTyped
    <3>2. Cardinality(In({"served", "running"})) = 0
      BY FS_EmptySet
    <3>3. Bound \in Nat /\ Bound >= 1
      BY ItemsFinite DEF GatherInvariant
    <3>4. slots # 0
      BY <3>1, <3>2, <3>3
    <3>5. QED
      BY <3>4 DEF GatherInvariant, NoIdleSlot
  <2>2. task \in [items -> TaskStates]
    BY DEF GatherInvariant, GatherIsTyped
  <2>3. \A i \in items : task[i] \notin {"created", "waiting", "served", "running"}
    BY <2>1 DEF In
  <2>4. QED
    BY <2>2, <2>3 DEF TaskStates
<1> HIDE DEF Going
<1>2. GatherSpec => []Going
  BY <1>1, StartTogether, GatherInvariantHolds, PTL
<1>3. QED
  BY <1>2 DEF Going

(***************************************************************************)
(* What gather answers with.                                               *)
(***************************************************************************)
AnswerFits ==
  gathered = IF \E i \in items : task[i] = "raised" THEN "exception"
             ELSE IF \A i \in items : task[i] = "returned" THEN "results"
             ELSE "pending"

\* The answer is at every moment what the coroutines have come to: an exception
\* as soon as one has raised, the results as soon as all have returned, and
\* neither is ever replaced by what the coroutines left behind do later.
THEOREM AnswersFit == GatherSpec => []AnswerFits
<1>1. GatherInit /\ GatherIsTyped => AnswerFits
  BY SomeItems DEF GatherInit, AnswerFits
<1>2. GatherIsTyped /\ items # {} /\ AnswerFits /\ StartedTogether /\ GatherNext => AnswerFits'
  <2> SUFFICES ASSUME GatherIsTyped, items # {}, AnswerFits, StartedTogether, GatherNext
               PROVE  AnswerFits'
    OBVIOUS
  <2>1. Gather /\ items' = items
    BY DEF GatherNext, StartAll, Resume, Finish
  <2>2. \A i \in items : task[i] \in Settled => task'[i] = task[i]
    BY GatherAdvances DEF Advances, Forward, Settled
  <2>3. QED
    BY <2>1, <2>2 DEF Gather, AnswerFits, Settled
<1>3. AnswerFits /\ UNCHANGED gatherVars => AnswerFits'
  BY DEF AnswerFits, gatherVars
<1>4. GatherInvariant => GatherIsTyped /\ items # {}
  BY SomeItems DEF GatherInvariant
<1>5. QED
  BY <1>1, <1>2, <1>3, <1>4, StartTogether, GatherInitInvariant, GatherInvariantHolds, PTL
     DEF GatherSpec

(***************************************************************************)
(* Refinement.  Each step begins some jobs, ends one, or neither.          *)
(***************************************************************************)
LEMMA RunningWithinBound == GatherInvariant => Cardinality(In({"running"})) <= Bound
<1> SUFFICES ASSUME GatherInvariant PROVE Cardinality(In({"running"})) <= Bound
  OBVIOUS
<1>1. GatherIsTyped /\ slots \in Int /\ slots >= 0 /\ slots + Cardinality(Holders) = Bound
  BY DEF GatherInvariant, GatherIsTyped, SlotsAccounted, Holders
<1>2. In({"running"}) \subseteq Holders /\ Holders \subseteq items
  BY DEF Holders, In
<1>3. /\ Cardinality(In({"running"})) <= Cardinality(Holders)
      /\ Cardinality(Holders) \in Nat /\ Cardinality(In({"running"})) \in Nat
      /\ Bound \in Nat
  BY <1>1, <1>2, ItemsFinite, FS_Subset
<1>4. QED
  BY <1>1, <1>3

LEMMA NextRunningWithinBound ==
  ASSUME GatherInvariant', limit' = limit
  PROVE  Cardinality(In({"running"})') <= Bound /\ Bound' = Bound
<1>1. GatherInvariant' => (Cardinality(In({"running"})) <= Bound)'
  BY RunningWithinBound, PTL
<1>2. Bound' = Bound
  BY DEF Bound
<1>3. QED
  BY <1>1, <1>2

LEMMA ItemsAreJobs == GatherInvariant => items \subseteq 1..MaxItems /\ items # {}
BY GatherAssumption DEF GatherInvariant, GatherIsTyped

\* The abstract specification counts as this one does.
LEMMA SameCardinality == \A S : Bounded!Cardinality(S) = Cardinality(S)
BY DEF Bounded!Cardinality, Cardinality

LEMMA StartBegins ==
  ASSUME GatherInvariant, NEW opening \in Openings, StartAll(opening), GatherInvariant'
  PROVE  Bounded!Next
<1> DEFINE started == {i \in Admitted(opening) : opening[i] = "running"}
           short == {i \in Admitted(opening) : opening[i] # "running"}
<1>1. GatherIsTyped /\ items \subseteq 1..MaxItems /\ items # {}
  BY ItemsAreJobs DEF GatherInvariant
<1>2. Admitted(opening) \subseteq items
  BY DEF Admitted
<1>3. started \cup short # {}
  <2>1. PICK i \in items : \A j \in items : i <= j
    BY <1>1, FirstItem
  <2>2. RunningBefore(opening, i) = {}
    <3>1. items \subseteq Nat
      BY <1>1, ItemsFinite
    <3>2. \A j \in items : ~(j < i)
      BY <2>1, <3>1
    <3>3. QED
      BY <3>2 DEF RunningBefore
  <2>3. i \in Admitted(opening)
    BY <1>1, <2>1, <2>2, FS_EmptySet, ItemsFinite DEF Admitted
  <2>4. QED
    BY <2>3
<1>4. In({"running"}) = {} /\ In(Settled) = {}
  BY DEF StartAll, In, Settled
<1>5. /\ task' = [i \in items |-> IF i \in Admitted(opening) THEN opening[i]
                                  ELSE "waiting"]
      /\ items' = items /\ limit' = limit
  BY DEF StartAll
<1>6. \A i \in items : opening[i] \in {"running"} \cup Settled
  BY DEF Openings
<1>7. In({"running"})' = started /\ In(Settled)' = short
  BY <1>2, <1>5, <1>6 DEF In, Settled
<1>8. Cardinality(In({"running"})') <= Bound /\ Bound' = Bound
  BY <1>5, NextRunningWithinBound
<1>9. Bounded!Begin(started, short)
  BY <1>2, <1>3, <1>4, <1>5, <1>7, <1>8, SameCardinality DEF Bounded!Begin, Bounded!Pending
<1>10. started \in SUBSET (1..MaxItems) /\ short \in SUBSET (1..MaxItems)
  BY <1>1, <1>2
<1> HIDE DEF started, short
<1>11. QED
  BY <1>9, <1>10 DEF Bounded!Next

LEMMA ResumeBegins ==
  ASSUME GatherInvariant, GatherInvariant', NEW i \in items,
         NEW opening \in {"running"} \cup Settled, Resume(i, opening)
  PROVE  Bounded!Next
<1>1. /\ GatherIsTyped /\ task \in [items -> TaskStates] /\ task[i] = "served"
      /\ items' = items /\ limit' = limit /\ i \in 1..MaxItems
  BY ItemsAreJobs DEF GatherInvariant, GatherIsTyped, Resume, In
<1>2. Cardinality(In({"running"})') <= Bound /\ Bound' = Bound
  BY <1>1, NextRunningWithinBound
<1>3. i \notin In({"running"}) \cup In(Settled)
  BY <1>1 DEF In, Settled
<1>4. CASE opening = "running"
  <2>1. task' = [task EXCEPT ![i] = "running"]
    BY <1>4 DEF Resume
  <2>2. In({"running"})' = In({"running"}) \cup {i} /\ In(Settled)' = In(Settled)
    BY <1>1, <2>1 DEF In, Settled
  <2>3. Bounded!Begin({i}, {})
    BY <1>1, <1>2, <1>3, <2>2, SameCardinality DEF Bounded!Begin, Bounded!Pending
  <2>4. QED
    BY <1>1, <2>3 DEF Bounded!Next
<1>5. CASE opening \in Settled
  <2>1. Release([task EXCEPT ![i] = opening])
    BY <1>5 DEF Resume, Settled
  <2>2. \/ task' = [task EXCEPT ![i] = opening]
        \/ \E next \in Waiters :
             task' = [[task EXCEPT ![i] = opening] EXCEPT ![next] = "served"]
    BY <1>1, <1>5, <2>1, ReleaseEffect
  <2>3. In({"running"})' = In({"running"}) /\ In(Settled)' = In(Settled) \cup {i}
    BY <1>1, <1>5, <2>2 DEF Waiters, In, Settled
  <2>4. Bounded!Begin({}, {i})
    BY <1>1, <1>2, <1>3, <2>3, SameCardinality DEF Bounded!Begin, Bounded!Pending
  <2>5. QED
    BY <1>1, <2>4 DEF Bounded!Next
<1>6. QED
  BY <1>4, <1>5

LEMMA FinishEnds ==
  ASSUME GatherInvariant, NEW i \in items, NEW outcome \in Settled, Finish(i, outcome)
  PROVE  Bounded!Next
<1>1. /\ GatherIsTyped /\ task \in [items -> TaskStates] /\ task[i] = "running"
      /\ items' = items /\ limit' = limit /\ i \in 1..MaxItems
      /\ Release([task EXCEPT ![i] = outcome])
  BY ItemsAreJobs DEF GatherInvariant, GatherIsTyped, Finish, In
<1>2. \/ task' = [task EXCEPT ![i] = outcome]
      \/ \E next \in Waiters :
           task' = [[task EXCEPT ![i] = outcome] EXCEPT ![next] = "served"]
  BY <1>1, ReleaseEffect
<1>3. /\ In({"running"})' = In({"running"}) \ {i}
      /\ In(Settled)' = In(Settled) \cup {i}
      /\ i \in In({"running"})
  BY <1>1, <1>2 DEF Waiters, In, Settled
<1>4. Bounded!End(i)
  BY <1>1, <1>3 DEF Bounded!End, Bound
<1>5. QED
  BY <1>1, <1>4 DEF Bounded!Next

\* Every execution of gather_limited is one of BoundedJobs, but for its
\* liveness: all operations begin once, and never more than the limit at a time.
THEOREM ImplementsBoundedJobs == GatherSpec => Bounded!Init /\ [][Bounded!Next]_(Bounded!vars)
<1>1. GatherInit => Bounded!Init
  BY DEF GatherInit, Bounded!Init, In, Settled
<1>2. GatherInvariant /\ GatherInvariant' /\ [GatherNext]_gatherVars
        => [Bounded!Next]_(Bounded!vars)
  <2> SUFFICES ASSUME GatherInvariant, GatherInvariant', [GatherNext]_gatherVars
               PROVE  [Bounded!Next]_(Bounded!vars)
    OBVIOUS
  <2>1. CASE UNCHANGED gatherVars
    BY <2>1 DEF gatherVars, Bounded!vars, In, Bound
  <2>2. CASE GatherNext
    BY <2>2, StartBegins, ResumeBegins, FinishEnds DEF GatherNext
  <2>3. QED
    BY <2>1, <2>2
<1>3. QED
  BY <1>1, <1>2, GatherInvariantHolds, PTL DEF GatherSpec
================================================================================
