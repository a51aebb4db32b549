--------------------------- MODULE BatchCommandProofs ---------------------------
(***************************************************************************)
(* Theorems about TargetSelection and BatchCommand, for every set of       *)
(* machines, selectors, limits and concurrent commands.                    *)
(***************************************************************************)
EXTENDS BatchCommand, MachineRegistryProofs, GatherLimitedProofs

(***************************************************************************)
(* The k-th of a set of positions.                                         *)
(***************************************************************************)
UpTo(S, i) == {j \in S : j <= i}

LEMMA UpToFinite ==
  ASSUME NEW S \in SUBSET Nat, IsFiniteSet(S), NEW i \in S
  PROVE  IsFiniteSet(UpTo(S, i)) /\ Cardinality(UpTo(S, i)) \in 1..Cardinality(S)
<1>1. UpTo(S, i) \in SUBSET S /\ i \in UpTo(S, i)
  BY DEF UpTo
<1>2. /\ IsFiniteSet(UpTo(S, i)) /\ Cardinality(UpTo(S, i)) <= Cardinality(S)
      /\ Cardinality(UpTo(S, i)) # 0
  BY <1>1, FS_Subset, FS_EmptySet
<1>3. Cardinality(UpTo(S, i)) \in Nat /\ Cardinality(S) \in Nat
  BY <1>2, FS_CardinalityType
<1>4. QED
  BY <1>2, <1>3

LEMMA UpToGrows ==
  ASSUME NEW S \in SUBSET Nat, IsFiniteSet(S), NEW i \in S, NEW j \in S, i < j
  PROVE  Cardinality(UpTo(S, i)) < Cardinality(UpTo(S, j))
<1>1. UpTo(S, i) \in SUBSET UpTo(S, j) /\ j \in UpTo(S, j) /\ j \notin UpTo(S, i)
  <2>1. S \subseteq Nat /\ i \in Nat /\ j \in Nat
    OBVIOUS
  <2>2. \A k \in S : k <= i => k <= j
    BY <2>1
  <2>3. j <= j /\ ~(j <= i)
    BY <2>1
  <2>4. QED
    BY <2>2, <2>3 DEF UpTo
<1>2. /\ Cardinality(UpTo(S, i)) <= Cardinality(UpTo(S, j))
      /\ Cardinality(UpTo(S, i)) # Cardinality(UpTo(S, j))
  BY <1>1, UpToFinite, FS_Subset
<1>3. Cardinality(UpTo(S, i)) \in Nat /\ Cardinality(UpTo(S, j)) \in Nat
  BY UpToFinite, FS_CardinalityType
<1>4. QED
  BY <1>2, <1>3

LEMMA NthExists ==
  ASSUME NEW S \in SUBSET Nat, IsFiniteSet(S), NEW k \in 1..Cardinality(S)
  PROVE  Nth(S, k) \in S /\ Cardinality(UpTo(S, Nth(S, k))) = k
<1> DEFINE rank == [i \in S |-> Cardinality(UpTo(S, i))]
           ranks == 1..Cardinality(S)
<1>1. Cardinality(S) \in Nat
  BY FS_CardinalityType
<1>2. rank \in [S -> ranks]
  BY UpToFinite
<1>3. ASSUME NEW i \in S, NEW j \in S, rank[i] = rank[j]
      PROVE  i = j
  <2>1. Cardinality(UpTo(S, i)) \in Nat /\ Cardinality(UpTo(S, j)) \in Nat
    BY UpToFinite, FS_CardinalityType
  <2>2. ~(i < j) /\ ~(j < i)
    BY <1>3, <2>1, UpToGrows
  <2>3. QED
    BY <2>2
<1>4. IsFiniteSet(ranks) /\ Cardinality(ranks) = Cardinality(S)
  BY <1>1, FS_Interval
<1> HIDE DEF rank, ranks
<1>5. rank \in Injection(S, ranks)
  BY <1>2, <1>3 DEF Injection, IsInjective
<1>6. rank \in Surjection(S, ranks)
  BY <1>4, <1>5, FS_Injection
<1>7. \E i \in S : Cardinality(UpTo(S, i)) = k
  BY <1>6 DEF Surjection, rank, ranks
<1>8. QED
  BY <1>7 DEF Nth, UpTo

LEMMA NthIsIncreasing ==
  ASSUME NEW S \in SUBSET Nat, IsFiniteSet(S),
         NEW j \in 1..Cardinality(S), NEW k \in 1..Cardinality(S), j < k
  PROVE  Nth(S, j) < Nth(S, k)
<1>1. /\ Nth(S, j) \in S /\ Cardinality(UpTo(S, Nth(S, j))) = j
      /\ Nth(S, k) \in S /\ Cardinality(UpTo(S, Nth(S, k))) = k
  BY NthExists
<1>2. ~(Nth(S, k) < Nth(S, j)) /\ Nth(S, k) # Nth(S, j)
  <2>1. Nth(S, k) # Nth(S, j)
    BY <1>1
  <2>2. ASSUME Nth(S, k) < Nth(S, j) PROVE k < j
    BY <1>1, <2>2, UpToGrows
  <2>3. QED
    BY <2>1, <2>2
<1>3. Nth(S, j) \in Nat /\ Nth(S, k) \in Nat
  BY <1>1
<1>4. QED
  BY <1>2, <1>3

LEMMA NthReachesAll ==
  ASSUME NEW S \in SUBSET Nat, IsFiniteSet(S), NEW i \in S
  PROVE  \E k \in 1..Cardinality(S) : Nth(S, k) = i
<1> DEFINE k == Cardinality(UpTo(S, i))
<1>1. k \in 1..Cardinality(S)
  BY UpToFinite
<1>2. Nth(S, k) \in S /\ Cardinality(UpTo(S, Nth(S, k))) = k
  BY <1>1, NthExists
<1>3. k \in Nat
  BY UpToFinite, FS_CardinalityType
<1>4. ~(Nth(S, k) < i) /\ ~(i < Nth(S, k))
  <2> HIDE DEF k
  <2>1. ~(k < k)
    BY <1>3
  <2>2. Cardinality(UpTo(S, i)) = k
    BY DEF k
  <2>3. ASSUME Nth(S, k) < i PROVE k < k
    BY <1>2, <2>2, <2>3, UpToGrows
  <2>4. ASSUME i < Nth(S, k) PROVE k < k
    BY <1>2, <2>2, <2>4, UpToGrows
  <2>5. QED
    BY <2>1, <2>3, <2>4
<1>5. Nth(S, k) \in Nat /\ i \in Nat
  BY <1>2
<1>6. Nth(S, k) = i
  <2> HIDE DEF k
  <2>1. QED
    BY <1>4, <1>5
<1>7. QED
  BY <1>1, <1>6

(***************************************************************************)
(* dict.fromkeys.                                                          *)
(***************************************************************************)
LEMMA FirstSeenFinite ==
  ASSUME NEW W, NEW words \in Seq(W)
  PROVE  /\ FirstSeen(words) \in SUBSET (1..Len(words))
         /\ FirstSeen(words) \in SUBSET Nat
         /\ IsFiniteSet(FirstSeen(words))
         /\ Cardinality(FirstSeen(words)) \in Nat
<1>1. FirstSeen(words) \in SUBSET (1..Len(words)) /\ Len(words) \in Nat
  BY DEF FirstSeen
<1>2. IsFiniteSet(1..Len(words))
  BY <1>1, FS_Interval
<1>3. QED
  BY <1>1, <1>2, FS_Subset, FS_CardinalityType

\* Every word is first seen somewhere.
LEMMA SeenFirst ==
  ASSUME NEW W, NEW words \in Seq(W), NEW w \in ToSet(words)
  PROVE  \E i \in FirstSeen(words) : words[i] = w
<1> DEFINE S == {i \in 1..Len(words) : words[i] = w}
<1>1. S \in SUBSET Nat /\ S # {} /\ DOMAIN words = 1..Len(words)
  BY DEF ToSet
<1>2. PICK i \in S : \A j \in S : i <= j
  BY <1>1, LeastNatural
<1>3. \A j \in 1..(i - 1) : j \in 1..Len(words) /\ ~(i <= j)
  BY <1>1, <1>2
<1>4. QED
  BY <1>1, <1>2, <1>3 DEF FirstSeen

\* Distinct(words) holds the words of the sequence, each once, in the order in
\* which they are first seen there.
THEOREM DistinctKeepsEachOnce ==
  ASSUME NEW W, NEW words \in Seq(W)
  PROVE  /\ Distinct(words) \in Seq(W)
         /\ ToSet(Distinct(words)) = ToSet(words)
         /\ \A j, k \in 1..Len(Distinct(words)) : j # k =>
              Distinct(words)[j] # Distinct(words)[k]
         /\ \A j, k \in 1..Len(Distinct(words)) : j < k =>
              \E i \in 1..Len(words) :
                /\ words[i] = Distinct(words)[j]
                /\ \A h \in 1..i : words[h] # Distinct(words)[k]
<1> DEFINE S == FirstSeen(words)
           n == Cardinality(S)
           d == Distinct(words)
<1>1. S \in SUBSET (1..Len(words)) /\ S \in SUBSET Nat /\ IsFiniteSet(S) /\ n \in Nat
  BY FirstSeenFinite
<1>2. \A i \in S : words[i] \in W /\ \A j \in 1..(i - 1) : words[j] # words[i]
  BY <1>1 DEF FirstSeen
<1>3. d = [k \in 1..n |-> words[Nth(S, k)]]
  BY DEF Distinct
<1> HIDE DEF S, d
<1>4. \A k \in 1..n : Nth(S, k) \in S
  BY <1>1, NthExists
<1>5. \A j, k \in 1..n : j < k => Nth(S, j) < Nth(S, k)
  BY <1>1, NthIsIncreasing
<1>6. d \in [1..n -> W]
  BY <1>2, <1>3, <1>4
<1>7. d \in Seq(W) /\ Len(d) = n
  BY <1>1, <1>6
<1>8. ToSet(d) = ToSet(words)
  <2>1. DOMAIN d = 1..n /\ DOMAIN words = 1..Len(words)
    BY <1>6
  <2>2. ASSUME NEW w \in ToSet(d) PROVE w \in ToSet(words)
    BY <1>1, <1>3, <1>4, <2>1 DEF ToSet
  <2>3. ASSUME NEW w \in ToSet(words) PROVE w \in ToSet(d)
    <3>1. PICK i \in S : words[i] = w
      BY SeenFirst DEF S
    <3>2. PICK k \in 1..n : Nth(S, k) = i
      BY <1>1, NthReachesAll
    <3>3. QED
      BY <1>3, <2>1, <3>1, <3>2 DEF ToSet
  <2>4. QED
    BY <2>2, <2>3
<1>9. ASSUME NEW j \in 1..n, NEW k \in 1..n, j < k
      PROVE  /\ d[j] # d[k]
             /\ \E i \in 1..Len(words) :
                  words[i] = d[j] /\ \A h \in 1..i : words[h] # d[k]
  <2>1. /\ Nth(S, j) \in S /\ Nth(S, k) \in S /\ Nth(S, j) < Nth(S, k)
        /\ Nth(S, j) \in Nat /\ Nth(S, k) \in Nat
        /\ Nth(S, j) \in 1..Len(words)
        /\ d[j] = words[Nth(S, j)] /\ d[k] = words[Nth(S, k)]
    BY <1>1, <1>3, <1>4, <1>5, <1>9
  <2>2. \A h \in 1..Nth(S, j) : h \in 1..(Nth(S, k) - 1)
    BY <2>1
  <2>3. \A h \in 1..Nth(S, j) : words[h] # d[k]
    BY <1>2, <2>1, <2>2
  <2>4. QED
    BY <2>1, <2>3
<1>10. \A j, k \in 1..n : j # k => d[j] # d[k]
  <2> SUFFICES ASSUME NEW j \in 1..n, NEW k \in 1..n, j # k PROVE d[j] # d[k]
    OBVIOUS
  <2>1. j < k \/ k < j
    BY <1>1
  <2>2. QED
    BY <1>9, <2>1
<1>11. QED
  BY <1>7, <1>8, <1>9, <1>10 DEF d

(***************************************************************************)
(* resolve_targets.                                                        *)
(***************************************************************************)
\* The sequence t holds the members of S, each once.
Lists(t, S) ==
  /\ t \in Seq(S) /\ ToSet(t) = S
  /\ \A j, k \in 1..Len(t) : j # k => t[j] # t[k]

LEMMA ListLength ==
  ASSUME NEW S, NEW t, Lists(t, S)
  PROVE  /\ IsFiniteSet(S) /\ Cardinality(S) = Len(t) /\ Len(t) \in Nat
         /\ t \in [1..Len(t) -> S]
<1>1. /\ Len(t) \in Nat /\ t \in [1..Len(t) -> S] /\ DOMAIN t = 1..Len(t)
      /\ ToSet(t) = S /\ \A j, k \in 1..Len(t) : t[j] = t[k] => j = k
  BY DEF Lists
<1>2. IsFiniteSet(1..Len(t)) /\ Cardinality(1..Len(t)) = Len(t)
  BY <1>1, FS_Interval
<1>3. t \in Injection(1..Len(t), S)
  BY <1>1 DEF Injection, IsInjective
<1>4. t \in Surjection(1..Len(t), S)
  BY <1>1 DEF Surjection, ToSet
<1>5. QED
  BY <1>1, <1>2, <1>3, <1>4, FS_Surjection

LEMMA OrdersOfSet ==
  ASSUME NEW S, IsFiniteSet(S)
  PROVE  SetToSeqs(S) # {} /\ \A t \in SetToSeqs(S) : Lists(t, S)
<1> DEFINE n == Cardinality(S)
<1>1. n \in Nat /\ ExistsBijection(1..n, S)
  BY FS_CardinalityType
<1>2. IsFiniteSet(1..n) /\ Cardinality(1..n) = n
  BY <1>1, FS_Interval
<1>3. PICK f : f \in Bijection(1..n, S)
  BY <1>1 DEF ExistsBijection
<1>4. f \in SetToSeqs(S)
  BY <1>3 DEF SetToSeqs, Bijection, Injection, IsInjective
<1>5. ASSUME NEW t \in SetToSeqs(S) PROVE Lists(t, S)
  <2>1. t \in [1..n -> S] /\ \A j, k \in 1..n : j # k => t[j] # t[k]
    BY <1>5 DEF SetToSeqs
  <2>2. t \in Injection(1..n, S)
    BY <2>1 DEF Injection, IsInjective
  <2>3. t \in Surjection(1..n, S)
    BY <1>2, <2>2, FS_Injection
  <2> HIDE DEF n
  <2>4. t \in Seq(S) /\ Len(t) = n /\ DOMAIN t = 1..n
    BY <1>1, <2>1
  <2>5. ToSet(t) = S
    BY <2>1, <2>3, <2>4 DEF Surjection, ToSet
  <2>6. QED
    BY <2>1, <2>4, <2>5 DEF Lists
<1>6. QED
  BY <1>4, <1>5

AsksForAll(words) == ToSet(words) \cap AllWords # {}

\* What a selector has to be to be carried out.
Sound(words, registered) ==
  IF AsksForAll(words)
  THEN Cardinality(ToSet(words)) = 1 /\ registered # {}
  ELSE words # <<>> /\ ToSet(words) \subseteq registered

LEMMA RequestedLists ==
  ASSUME NEW W, NEW words \in Seq(W)
  PROVE  /\ Lists(Distinct(words), ToSet(words))
         /\ Distinct(words) = <<>> <=> words = <<>>
<1>1. Distinct(words) \in Seq(W) /\ ToSet(Distinct(words)) = ToSet(words)
  BY DistinctKeepsEachOnce
<1>2. Distinct(words) \in Seq(ToSet(words))
  <2> DEFINE d == Distinct(words)
  <2> HIDE DEF d
  <2>1. d \in Seq(W) /\ ToSet(d) = ToSet(words)
    BY <1>1 DEF d
  <2>2. d \in [1..Len(d) -> ToSet(words)] /\ Len(d) \in Nat
    <3>1. Len(d) \in Nat /\ DOMAIN d = 1..Len(d) /\ d \in [1..Len(d) -> W]
      BY <2>1
    <3>2. \A i \in 1..Len(d) : d[i] \in ToSet(d)
      BY <3>1 DEF ToSet
    <3>3. QED
      BY <2>1, <3>1, <3>2
  <2>3. d \in Seq(ToSet(words))
    BY <2>2
  <2>4. QED
    BY <2>3 DEF d
<1>3. \A s \in Seq(W) : s = <<>> <=> ToSet(s) = {}
  <2> SUFFICES ASSUME NEW s \in Seq(W) PROVE s = <<>> <=> ToSet(s) = {}
    OBVIOUS
  <2>1. s = <<>> => ToSet(s) = {}
    BY DEF ToSet
  <2>2. s # <<>> => s[1] \in ToSet(s)
    BY DEF ToSet
  <2>3. QED
    BY <2>1, <2>2
<1>4. QED
  BY <1>1, <1>2, <1>3, DistinctKeepsEachOnce DEF Lists

\* A selection is carried out whole or rejected whole: a selector is rejected
\* exactly when it is not sound, and otherwise the targets are all registered
\* machines ("all") or all requested ones, each once and at least one.
THEOREM SelectionIsWhole ==
  ASSUME NEW W, NEW words \in Seq(W), NEW registered, IsFiniteSet(registered)
  PROVE  LET selection == ResolveTargets(words, registered)
             meant == IF AsksForAll(words) THEN registered ELSE ToSet(words)
         IN  /\ selection.error <=> ~Sound(words, registered)
             /\ selection.error <=> selection.targets = {}
             /\ \A t \in selection.targets :
                  Lists(t, meant) /\ t # <<>> /\ ToSet(t) \subseteq registered
<1> DEFINE requested == Distinct(words)
           selection == ResolveTargets(words, registered)
           meant == IF AsksForAll(words) THEN registered ELSE ToSet(words)
           Goal == /\ selection.error <=> ~Sound(words, registered)
                   /\ selection.error <=> selection.targets = {}
                   /\ \A t \in selection.targets :
                        Lists(t, meant) /\ t # <<>> /\ ToSet(t) \subseteq registered
<1> SUFFICES Goal
  OBVIOUS
<1>1. /\ Lists(requested, ToSet(words)) /\ ToSet(requested) = ToSet(words)
      /\ Cardinality(ToSet(words)) = Len(requested)
      /\ requested = <<>> <=> words = <<>>
  BY RequestedLists, ListLength DEF Lists
<1>2. /\ selection =
           IF requested = <<>> THEN Rejected
           ELSE IF ToSet(requested) \cap AllWords # {}
           THEN IF Len(requested) # 1 \/ registered = {}
                THEN Rejected
                ELSE Selected(SetToSeqs(registered))
           ELSE IF ToSet(requested) \subseteq registered
           THEN Selected({requested})
           ELSE Rejected
  BY DEF ResolveTargets
<1> HIDE DEF requested, selection
<1>3. CASE requested = <<>>
  <2>1. selection.targets = {} /\ selection.error = TRUE
    BY <1>2, <1>3 DEF Rejected
  <2>2. ~AsksForAll(words)
    BY <1>1, <1>3 DEF AsksForAll, ToSet
  <2>3. ~Sound(words, registered)
    BY <1>1, <1>3, <2>2 DEF Sound
  <2>4. QED
    BY <2>1, <2>3
<1>4. CASE requested # <<>> /\ AsksForAll(words)
  <2>1. ToSet(requested) \cap AllWords # {}
    BY <1>1, <1>4 DEF AsksForAll
  <2>2. CASE Len(requested) # 1 \/ registered = {}
    <3>1. selection.targets = {} /\ selection.error = TRUE
      BY <1>2, <1>4, <2>1, <2>2 DEF Rejected
    <3>2. ~Sound(words, registered)
      BY <1>1, <1>4, <2>2 DEF Sound
    <3>3. QED
      BY <3>1, <3>2
  <2>3. CASE ~(Len(requested) # 1 \/ registered = {})
    <3>1. selection = Selected(SetToSeqs(registered))
      BY <1>2, <1>4, <2>1, <2>3
    <3>2. Sound(words, registered)
      BY <1>1, <1>4, <2>3 DEF Sound
    <3>3. SetToSeqs(registered) # {} /\ \A t \in SetToSeqs(registered) : Lists(t, registered)
      BY OrdersOfSet
    <3>4. \A t : Lists(t, registered) => t # <<>> /\ ToSet(t) = registered
      BY <2>3 DEF Lists, ToSet
    <3>5. selection.targets = SetToSeqs(registered) /\ selection.error = FALSE
      BY <3>1 DEF Selected
    <3>6. QED
      BY <1>4, <3>2, <3>3, <3>4, <3>5
  <2>4. QED
    BY <2>2, <2>3
<1>5. CASE requested # <<>> /\ ~AsksForAll(words)
  <2>1. ToSet(requested) \cap AllWords = {}
    BY <1>1, <1>5 DEF AsksForAll
  <2>2. CASE ToSet(requested) \subseteq registered
    <3>1. selection = Selected({requested})
      BY <1>2, <1>5, <2>1, <2>2
    <3>2. Sound(words, registered)
      BY <1>1, <1>5, <2>2 DEF Sound
    <3>3. selection.targets = {requested} /\ selection.error = FALSE
      BY <3>1 DEF Selected
    <3>4. QED
      BY <1>1, <1>5, <2>2, <3>2, <3>3
  <2>3. CASE ~(ToSet(requested) \subseteq registered)
    <3>1. selection.targets = {} /\ selection.error = TRUE
      BY <1>2, <1>5, <2>1, <2>3 DEF Rejected
    <3>2. ~Sound(words, registered)
      BY <1>1, <1>5, <2>3 DEF Sound
    <3>3. QED
      BY <3>1, <3>2
  <2>4. QED
    BY <2>2, <2>3
<1>6. QED
  BY <1>3, <1>4, <1>5

(***************************************************************************)
(* Commands under way: what one step does to one coroutine.                *)
(***************************************************************************)
Same(i) == task'[i] = task[i] /\ round'[i] = round[i] /\ used'[i] = used[i]

\* It waits for the semaphore, or is served by it.
Queued(i) ==
  /\ task[i] \in {"created", "waiting"} /\ task'[i] \in {"waiting", "served"}
  /\ round'[i] = round[i] /\ used'[i] = used[i]

\* It finds its machine and goes to work on it.
Begun(i) ==
  /\ task[i] \in {"created", "served"} /\ task'[i] = "running"
  /\ machines[targets[i]] # NoMachine
  /\ round'[i] = round[i] + 1 /\ used'[i] = used[i] \cup {machines[targets[i]]}

\* Its machine is gone.
Missed(i) ==
  /\ task[i] \in {"created", "served"} /\ task'[i] = Opening(i)
  /\ machines[targets[i]] = NoMachine
  /\ round'[i] = round[i] /\ used'[i] = used[i]

Done(i) ==
  /\ task[i] = "running" /\ task'[i] = "returned"
  /\ round'[i] = round[i] /\ used'[i] = used[i]

Moves == \A i \in items : Same(i) \/ Queued(i) \/ Begun(i) \/ Missed(i) \/ Done(i)

\* A coroutine comes as far as its lookup lets it.
LEMMA OpeningType ==
  ASSUME NEW i
  PROVE  /\ Opening(i) \in {"running"} \cup Settled
         /\ Opening(i) = "running" <=> machines[targets[i]] # NoMachine
BY DEF Opening, Settled

LEMMA StartMoves ==
  ASSUME GatherIsTyped, BatchStart
  PROVE  Moves /\ GatherNext /\ \E opening \in Openings : StartAll(opening)
<1> DEFINE opening == [i \in items |-> Opening(i)]
<1>1. opening \in Openings /\ StartAll(opening)
  BY OpeningType DEF BatchStart, Openings
<1>2. /\ \A i \in items : task[i] = "created"
      /\ task' = [i \in items |-> IF i \in Admitted(opening) THEN opening[i]
                                  ELSE "waiting"]
  BY <1>1 DEF StartAll
<1>3. ASSUME NEW i \in items PROVE Queued(i) \/ Begun(i) \/ Missed(i)
  <2>1. /\ task[i] = "created"
        /\ task'[i] = IF i \in Admitted(opening) THEN Opening(i) ELSE "waiting"
    BY <1>2
  <2>2. /\ round'[i] = IF i \in NewlyRunning THEN round[i] + 1 ELSE round[i]
        /\ used'[i] = IF i \in NewlyRunning THEN used[i] \cup {machines[targets[i]]}
                      ELSE used[i]
    BY DEF BatchStart, Using
  <2>3. i \in NewlyRunning <=> task'[i] = "running"
    BY <2>1 DEF NewlyRunning
  <2> HIDE DEF opening
  <2>4. QED
    BY <2>1, <2>2, <2>3, OpeningType DEF Queued, Begun, Missed
<1> HIDE DEF opening
<1>4. QED
  BY <1>1, <1>3 DEF Moves, GatherNext

LEMMA ResumeMoves ==
  ASSUME GatherIsTyped, NEW i \in items, BatchResume(i)
  PROVE  Moves /\ GatherNext
<1>1. Resume(i, Opening(i)) /\ Opening(i) \in {"running"} \cup Settled
  BY OpeningType DEF BatchResume
<1>2. task[i] = "served" /\ items' = items /\ task \in [items -> TaskStates]
  BY <1>1 DEF Resume, In, GatherIsTyped
<1>3. /\ task'[i] = Opening(i)
      /\ \A j \in items \ {i} :
           task'[j] = task[j] \/ (task[j] = "waiting" /\ task'[j] = "served")
  <2>1. CASE Opening(i) = "running"
    BY <1>1, <1>2, <2>1 DEF Resume
  <2>2. CASE Opening(i) # "running"
    <3>1. Opening(i) \in Settled /\ Release([task EXCEPT ![i] = Opening(i)])
      BY <1>1, <2>2 DEF Resume
    <3>2. QED
      BY <1>2, <3>1, ReleaseMoves
  <2>3. QED
    BY <2>1, <2>2
<1>4. ASSUME NEW j \in items
      PROVE  Same(j) \/ Queued(j) \/ Begun(j) \/ Missed(j)
  <2>1. /\ round'[j] = IF j \in NewlyRunning THEN round[j] + 1 ELSE round[j]
        /\ used'[j] = IF j \in NewlyRunning THEN used[j] \cup {machines[targets[j]]}
                      ELSE used[j]
    BY DEF BatchResume, Using
  <2>2. j \in NewlyRunning <=> task[j] # "running" /\ task'[j] = "running"
    BY DEF NewlyRunning
  <2>3. CASE j = i
    BY <1>2, <1>3, <2>1, <2>2, <2>3, OpeningType DEF Begun, Missed
  <2>4. CASE j # i
    BY <1>3, <2>1, <2>2, <2>4 DEF Same, Queued
  <2>5. QED
    BY <2>3, <2>4
<1>5. QED
  BY <1>1, <1>4 DEF Moves, GatherNext

LEMMA FinishMoves ==
  ASSUME GatherIsTyped, NEW i \in items, BatchFinish(i)
  PROVE  Moves /\ GatherNext
<1>1. Finish(i, "returned") /\ "returned" \in Settled /\ round' = round /\ used' = used
  BY DEF BatchFinish, Settled
<1>2. /\ task[i] = "running" /\ items' = items
      /\ Release([task EXCEPT ![i] = "returned"])
  BY <1>1 DEF Finish, In
<1>3. /\ task'[i] = "returned"
      /\ \A j \in items \ {i} :
           task'[j] = task[j] \/ (task[j] = "waiting" /\ task'[j] = "served")
  BY <1>1, <1>2, ReleaseMoves
<1>4. \A j \in items : Same(j) \/ Queued(j) \/ Done(j)
  BY <1>1, <1>2, <1>3 DEF Same, Queued, Done
<1>5. QED
  BY <1>1, <1>4 DEF Moves, GatherNext

(***************************************************************************)
(* The inductive invariant.  Registered machines stand under their own     *)
(* names; the targets are distinct; a coroutine has started no operation   *)
(* before it runs, one or two then, and a power command's only one; and a  *)
(* target that is not registered was unregistered after the selection.     *)
(***************************************************************************)
NamedAsRegistered == \A n \in Names : machines[n] # NoMachine => machines[n].name = n

CommandTyped ==
  /\ phase \in {"idle", "rejected", "batch", "killed"}
  /\ kind \in Kinds
  /\ vanished \subseteq Names
  /\ targets \in [items -> Names]
  /\ round \in [items -> 0..2]
  /\ used \in [items -> SUBSET MachinesBuiltBy(Adds \cup {Startup})]
  /\ gathered \in {"pending", "results", "exception"}
  /\ phase \in {"idle", "rejected"} => items = {} /\ gathered = "pending"
  /\ phase = "batch" => limit \in Limits

TargetsOnce ==
  /\ \A i, j \in items : targets[i] = targets[j] => i = j
  /\ \A i \in items : \A m \in used[i] : m.name = targets[i]

Follows(i) ==
  /\ task[i] \in {"created", "waiting", "served"} => round[i] = 0
  /\ task[i] = "running" => round[i] >= 1
  /\ kind = "power" => round[i] <= 1
  /\ kind = "power" /\ task[i] = "returned" => round[i] = 1
  /\ kind = "lines" => task[i] # "raised"
  /\ task[i] = "raised" => round[i] = 0 /\ targets[i] \in vanished
  /\ round[i] = 0 => used[i] = {}

RoundsFollow ==
  /\ \A i \in items : Follows(i)
  /\ gathered = "results" => \A i \in items : task[i] = "returned"
  /\ gathered = "exception" => \E i \in items : task[i] = "raised"

KnownOrVanished ==
  phase = "batch" =>
    \A i \in items : machines[targets[i]] # NoMachine \/ targets[i] \in vanished

BatchInvariant ==
  /\ TypeOK
  /\ NamedAsRegistered
  /\ CommandTyped
  /\ TargetsOnce
  /\ RoundsFollow
  /\ KnownOrVanished
  /\ phase = "batch" => GatherInvariant

(***************************************************************************)
(* The registry under batches: every step of a batch is a step of the      *)
(* registry or leaves it alone.                                            *)
(***************************************************************************)
LEMMA StepOfRegistry == [BatchNext]_allVars => [Next]_vars
<1> SUFFICES ASSUME [BatchNext]_allVars PROVE [Next]_vars
  OBVIOUS
<1>1. CASE RegistryStep
  BY <1>1 DEF RegistryStep, Next
<1>2. CASE BatchKilled
  BY <1>2 DEF BatchKilled, Next
<1>3. ASSUME NEW words, SelectRejected(words) \/ \E l \in Limits, k \in Kinds : Select(words, l, k)
      PROVE  UNCHANGED vars
  BY <1>3 DEF SelectRejected, Select
<1>4. CASE BatchStart
  BY <1>4 DEF BatchStart
<1>5. ASSUME NEW i, BatchResume(i) \/ BatchFinish(i) \/ SummaryGoesOn(i)
      PROVE  UNCHANGED vars
  BY <1>5 DEF BatchResume, BatchFinish, SummaryGoesOn
<1>6. CASE UNCHANGED allVars
  BY <1>6 DEF allVars
<1>7. QED
  BY <1>1, <1>2, <1>3, <1>4, <1>5, <1>6 DEF BatchNext

LEMMA LoadedUnderItsName ==
  ASSUME NEW entries \in SUBSET Entry, NEW n \in Names, Load(entries)[n] # NoMachine
  PROVE  Load(entries)[n].name = n
<1>1. Claims(entries, n) # {}
  BY DEF Load
<1>2. FirstClaim(entries, n) \in Claims(entries, n)
  BY <1>1, FirstClaimIsLeast, EntriesAreStamped
<1>3. Load(entries)[n] = MachineOf(FirstClaim(entries, n).row, Startup)
  BY <1>1 DEF Load
<1>4. QED
  BY <1>2, <1>3 DEF Claims, MachineOf

LEMMA InitNamed == Init => NamedAsRegistered
<1> SUFFICES ASSUME Init, NEW n \in Names, machines[n] # NoMachine
             PROVE  machines[n].name = n
  BY DEF NamedAsRegistered
<1>1. config \in SUBSET Entry /\ machines = Load(config)
  BY RegistryAssumption DEF Init
<1>2. QED
  BY <1>1, LoadedUnderItsName

LEMMA NextNamed == TypeOK /\ NamedAsRegistered /\ [Next]_vars => NamedAsRegistered'
<1> SUFFICES ASSUME TypeOK, NamedAsRegistered, [Next]_vars,
                    NEW m \in Names, machines'[m] # NoMachine
             PROVE  machines'[m].name = m
  BY DEF NamedAsRegistered
<1>1. machines \in [Names -> MachinesBuiltBy(Adds \cup {Startup}) \cup {NoMachine}]
  BY DEF TypeOK
<1>2. machines'[m] = machines[m] => machines'[m].name = m
  BY DEF NamedAsRegistered
<1>3. ASSUME NEW a \in Adds, NEW n \in Names, NEW address \in Addresses,
             AddBegin(a, n, address)
      PROVE  machines'[m].name = m
  <2>1. machines' = [machines EXCEPT ![n] = MachineOf(AddRow(n, address), a)]
    BY <1>3 DEF AddBegin
  <2>2. MachineOf(AddRow(n, address), a).name = n
    BY DEF MachineOf, AddRow
  <2>3. QED
    BY <1>1, <1>2, <2>1, <2>2
<1>4. ASSUME NEW a \in Adds, NEW n \in Names, NEW address \in Addresses,
             AddRefused(a, n, address)
      PROVE  machines'[m].name = m
  BY <1>2, <1>4 DEF AddRefused
<1>5. ASSUME NEW a \in Adds, ProbeFails(a)
      PROVE  machines'[m] = machines[m]
  BY <1>1, <1>5 DEF ProbeFails
<1>6. ASSUME NEW a \in Adds, ProbeSucceeds(a)
      PROVE  machines'[m] = machines[m]
  BY <1>6 DEF ProbeSucceeds
<1>7. ASSUME NEW n \in Names, Delete(n)
      PROVE  machines'[m] = machines[m]
  BY <1>1, <1>7 DEF Delete
<1>8. ASSUME Restart
      PROVE  machines'[m].name = m
  BY <1>8, LoadedUnderItsName DEF Restart, TypeOK
<1>9. CASE UNCHANGED vars
  BY <1>2, <1>9 DEF vars
<1>10. QED
  BY <1>2, <1>3, <1>4, <1>5, <1>6, <1>7, <1>8, <1>9 DEF Next

(***************************************************************************)
(* The steps of a command.                                                 *)
(***************************************************************************)
LEMMA RegisteredFinite == Registered \subseteq Names /\ IsFiniteSet(Registered)
BY BatchAssumption, FS_Subset DEF Registered

\* What every selection that is carried out looks like.
LEMMA SelectionType ==
  ASSUME NEW words \in Selectors, NEW t \in ResolveTargets(words, Registered).targets
  PROVE  /\ Len(t) \in 1..MaxItems
         /\ t \in [1..Len(t) -> Registered]
         /\ \A i, j \in 1..Len(t) : t[i] = t[j] => i = j
<1> DEFINE S == ToSet(t)
<1>1. words \in Seq(Names \cup AllWords) /\ IsFiniteSet(Registered)
  BY BatchAssumption, RegisteredFinite
<1>2. (\E T : Lists(t, T)) /\ t # <<>> /\ S \subseteq Registered
  BY <1>1, SelectionIsWhole
<1>3. Lists(t, S)
  BY <1>2 DEF Lists
<1>4. /\ Cardinality(S) = Len(t) /\ Len(t) \in Nat /\ t \in [1..Len(t) -> S]
  BY <1>3, ListLength
<1>5. Cardinality(S) <= Cardinality(Names) /\ Cardinality(Names) \in Nat
  <2>1. S \in SUBSET Names
    BY <1>2, RegisteredFinite
  <2>2. QED
    BY <2>1, BatchAssumption, FS_Subset, FS_CardinalityType
<1>6. Len(t) # 0
  <2>1. t \in Seq(S)
    BY <1>3 DEF Lists
  <2> HIDE DEF S
  <2>2. QED
    BY <1>2, <2>1
<1> HIDE DEF S
<1>7. Len(t) \in 1..MaxItems
  <2>1. Cardinality(Names) <= MaxItems /\ MaxItems \in Nat
    BY BatchAssumption, GatherAssumption
  <2>2. QED
    BY <1>4, <1>5, <1>6, <2>1
<1>8. QED
  BY <1>2, <1>3, <1>4, <1>7 DEF Lists, S

\* A selection starts gather_limited on as many coroutines as it has targets.
LEMMA SelectStarts ==
  ASSUME NEW words \in Selectors, NEW l \in Limits, NEW k \in Kinds,
         Select(words, l, k)
  PROVE  GatherInit'
<1>1. targets' \in ResolveTargets(words, Registered).targets
  BY DEF Select
<1>2. Len(targets') \in 1..MaxItems /\ DOMAIN targets' = 1..Len(targets')
  BY <1>1, SelectionType
<1>3. \E n \in 1..MaxItems : items' = 1..n
  BY <1>2 DEF Select
<1>4. QED
  BY <1>3 DEF Select, GatherInit

LEMMA SelectInvariant ==
  ASSUME BatchInvariant, TypeOK', NamedAsRegistered',
         NEW words \in Selectors, NEW l \in Limits, NEW k \in Kinds,
         Select(words, l, k)
  PROVE  BatchInvariant'
<1>1. GatherInit'
  BY SelectStarts
<1>2. GatherInvariant'
  <2>1. GatherInit' => GatherInvariant'
    BY GatherInitInvariant, PTL
  <2>2. QED
    BY <1>1, <2>1
<1>3. targets' \in ResolveTargets(words, Registered).targets
  BY DEF Select
<1>4. /\ DOMAIN targets' = 1..Len(targets')
      /\ targets' \in [1..Len(targets') -> Registered]
      /\ \A i, j \in 1..Len(targets') : targets'[i] = targets'[j] => i = j
  BY <1>3, SelectionType
<1>5. /\ items' = 1..Len(targets') /\ phase' = "batch" /\ kind' = k /\ limit' = l
      /\ task' = [i \in items' |-> "created"]
      /\ round' = [i \in items' |-> 0]
      /\ used' = [i \in items' |-> {}]
      /\ gathered' = "pending" /\ vanished' = vanished /\ machines' = machines
  BY <1>4 DEF Select, vars
<1>6. \A i \in items' : targets'[i] \in Names /\ machines[targets'[i]] # NoMachine
  BY <1>4, <1>5 DEF Registered
<1>7. CommandTyped'
  <2>1. targets' \in [items' -> Names] /\ vanished' \subseteq Names
    BY <1>4, <1>5, <1>6 DEF BatchInvariant, CommandTyped
  <2>2. QED
    BY <1>5, <2>1 DEF CommandTyped
<1>8. TargetsOnce'
  BY <1>4, <1>5 DEF TargetsOnce
<1>9. RoundsFollow'
  BY <1>5 DEF RoundsFollow, Follows
<1>10. KnownOrVanished'
  BY <1>5, <1>6 DEF KnownOrVanished
<1>11. QED
  BY <1>2, <1>7, <1>8, <1>9, <1>10 DEF BatchInvariant

\* A step of gather_limited reports results only when all are there, and an
\* exception only when one has been raised.
LEMMA GatherReports ==
  ASSUME GatherNext, gathered \in {"pending", "results", "exception"}
  PROVE  /\ items' = items /\ limit' = limit
         /\ gathered' \in {"pending", "results", "exception"}
         /\ gathered' = "results" =>
              gathered = "results" \/ \A i \in items : task'[i] = "returned"
         /\ gathered' = "exception" =>
              gathered = "exception" \/ \E i \in items : task'[i] = "raised"
BY DEF GatherNext, StartAll, Resume, Finish, Gather

\* f is a function on the items.
PerItem(f) == f = [i \in items |-> f[i]]

LEMMA UsingType ==
  ASSUME NEW started, Using(started)
  PROVE  PerItem(round') /\ PerItem(used')
BY DEF Using, PerItem

LEMMA MovesInvariant ==
  ASSUME BatchInvariant, TypeOK', NamedAsRegistered', phase = "batch",
         Moves, GatherNext, UNCHANGED <<vars, command, vanished>>,
         PerItem(round'), PerItem(used')
  PROVE  BatchInvariant'
<1>1. /\ items' = items /\ limit' = limit /\ phase' = phase /\ kind' = kind
      /\ targets' = targets /\ vanished' = vanished /\ machines' = machines
      /\ gathered' \in {"pending", "results", "exception"}
  BY GatherReports DEF command, vars, BatchInvariant, CommandTyped
<1>2. GatherInvariant /\ GatherInvariant'
  BY GatherStepInvariant DEF BatchInvariant
<1>3. task \in [items -> TaskStates]
  BY <1>2 DEF GatherInvariant, GatherIsTyped
<1>4. ASSUME NEW i \in items
      PROVE  /\ round'[i] \in 0..2
             /\ used'[i] \in SUBSET MachinesBuiltBy(Adds \cup {Startup})
             /\ \A m \in used'[i] : m.name = targets[i]
             /\ Follows(i)'
             /\ task[i] \in Settled => task'[i] = task[i]
  <2>1. /\ round[i] \in 0..2 /\ targets[i] \in Names
        /\ used[i] \in SUBSET MachinesBuiltBy(Adds \cup {Startup})
        /\ \A m \in used[i] : m.name = targets[i]
        /\ Follows(i)
    BY DEF BatchInvariant, CommandTyped, TargetsOnce, RoundsFollow
  <2>2. machines[targets[i]] # NoMachine \/ targets[i] \in vanished
    BY DEF BatchInvariant, KnownOrVanished
  <2>3. machines[targets[i]] # NoMachine =>
          /\ machines[targets[i]] \in MachinesBuiltBy(Adds \cup {Startup})
          /\ machines[targets[i]].name = targets[i]
    BY <2>1 DEF BatchInvariant, TypeOK, NamedAsRegistered
  <2>4. CASE Same(i)
    BY <1>1, <2>1, <2>4 DEF Same, Follows, Settled
  <2>5. CASE Queued(i)
    BY <1>1, <2>1, <2>5 DEF Queued, Follows, Settled
  <2>6. CASE Begun(i)
    <3>1. /\ task'[i] = "running" /\ task[i] \notin Settled
          /\ round'[i] = 1
          /\ used'[i] = used[i] \cup {machines[targets[i]]}
          /\ machines[targets[i]] # NoMachine
      BY <2>1, <2>6 DEF Begun, Follows, Settled
    <3>2. Follows(i)'
      BY <3>1 DEF Follows
    <3>3. used'[i] \in SUBSET MachinesBuiltBy(Adds \cup {Startup})
      BY <2>1, <2>3, <3>1
    <3>4. \A m \in used'[i] : m.name = targets[i]
      BY <2>1, <2>3, <3>1
    <3>5. round'[i] \in 0..2
      BY <3>1
    <3>6. QED
      BY <3>1, <3>2, <3>3, <3>4, <3>5
  <2>7. CASE Missed(i)
    <3>1. task'[i] = IF kind # "lines" THEN "raised" ELSE "returned"
      BY <2>7 DEF Missed, Opening
    <3>2. round'[i] = 0 /\ used'[i] = used[i] /\ targets[i] \in vanished
      BY <2>1, <2>2, <2>7 DEF Missed, Follows
    <3>3. task[i] \notin Settled
      BY <2>7 DEF Missed, Settled
    <3>4. used[i] = {} /\ kind \in Kinds
      BY <2>1, <2>7 DEF Missed, Follows, BatchInvariant, CommandTyped
    <3>5. Follows(i)'
      BY <1>1, <3>1, <3>2, <3>4 DEF Follows
    <3>6. QED
      BY <3>2, <3>3, <3>4, <3>5
  <2>8. CASE Done(i)
    BY <1>1, <2>1, <2>8 DEF Done, Follows, Settled
  <2>9. QED
    BY <2>4, <2>5, <2>6, <2>7, <2>8 DEF Moves
<1>5. /\ round' \in [items -> 0..2]
      /\ used' \in [items -> SUBSET MachinesBuiltBy(Adds \cup {Startup})]
  BY <1>4 DEF PerItem
<1>6. CommandTyped'
  BY <1>1, <1>5 DEF BatchInvariant, CommandTyped
<1>7. TargetsOnce'
  BY <1>1, <1>4 DEF BatchInvariant, TargetsOnce
<1>8. RoundsFollow'
  <2>1. gathered' = "results" => \A i \in items : task'[i] = "returned"
    <3>1. gathered = "results" => \A i \in items : task[i] = "returned"
      BY DEF BatchInvariant, RoundsFollow
    <3>2. gathered' = "results" =>
            gathered = "results" \/ \A i \in items : task'[i] = "returned"
      BY GatherReports DEF BatchInvariant, CommandTyped
    <3>3. QED
      BY <1>4, <3>1, <3>2 DEF Settled
  <2>2. gathered' = "exception" => \E i \in items : task'[i] = "raised"
    <3>1. gathered = "exception" => \E i \in items : task[i] = "raised"
      BY DEF BatchInvariant, RoundsFollow
    <3>2. gathered' = "exception" =>
            gathered = "exception" \/ \E i \in items : task'[i] = "raised"
      BY GatherReports DEF BatchInvariant, CommandTyped
    <3>3. QED
      BY <1>4, <3>1, <3>2 DEF Settled
  <2>3. QED
    BY <1>1, <1>4, <2>1, <2>2 DEF RoundsFollow
<1>9. KnownOrVanished'
  BY <1>1 DEF BatchInvariant, KnownOrVanished
<1>10. QED
  BY <1>2, <1>6, <1>7, <1>8, <1>9 DEF BatchInvariant

LEMMA StartKeeps ==
  ASSUME BatchInvariant, TypeOK', NamedAsRegistered', BatchStart
  PROVE  BatchInvariant'
<1>1. GatherIsTyped /\ phase = "batch"
  BY DEF BatchInvariant, GatherInvariant, BatchStart
<1>2. Moves /\ GatherNext
  BY <1>1, StartMoves
<1>3. Using(NewlyRunning) /\ UNCHANGED <<vars, command, vanished>>
  BY DEF BatchStart
<1>4. QED
  BY <1>1, <1>2, <1>3, MovesInvariant, UsingType

LEMMA ResumeKeeps ==
  ASSUME BatchInvariant, TypeOK', NamedAsRegistered', NEW i \in items, BatchResume(i)
  PROVE  BatchInvariant'
<1>1. GatherIsTyped /\ phase = "batch"
  BY DEF BatchInvariant, GatherInvariant, BatchResume
<1>2. Moves /\ GatherNext
  BY <1>1, ResumeMoves
<1>3. Using(NewlyRunning) /\ UNCHANGED <<vars, command, vanished>>
  BY DEF BatchResume
<1>4. QED
  BY <1>1, <1>2, <1>3, MovesInvariant, UsingType

LEMMA FinishKeeps ==
  ASSUME BatchInvariant, TypeOK', NamedAsRegistered', NEW i \in items, BatchFinish(i)
  PROVE  BatchInvariant'
<1>1. GatherIsTyped /\ phase = "batch"
  BY DEF BatchInvariant, GatherInvariant, BatchFinish
<1>2. Moves /\ GatherNext
  BY <1>1, FinishMoves
<1>3. UNCHANGED <<vars, command, vanished, round, used>>
  BY DEF BatchFinish
<1>4. QED
  BY <1>1, <1>2, <1>3, MovesInvariant DEF BatchInvariant, CommandTyped, PerItem

\* The second query of a summary.
LEMMA SummaryKeeps ==
  ASSUME BatchInvariant, TypeOK', NamedAsRegistered', NEW i \in items, SummaryGoesOn(i)
  PROVE  BatchInvariant'
<1>1. /\ UNCHANGED <<vars, gatherVars, command, vanished>>
      /\ kind = "summary" /\ phase = "batch" /\ task[i] = "running" /\ round[i] = 1
      /\ machines[targets[i]] # NoMachine
  BY DEF SummaryGoesOn
<1>2. /\ items' = items /\ limit' = limit /\ task' = task /\ gathered' = gathered
      /\ phase' = phase /\ kind' = kind /\ targets' = targets
      /\ vanished' = vanished /\ machines' = machines
  BY <1>1 DEF gatherVars, command, vars
<1>3. /\ round' = [j \in items |-> IF j = i THEN round[j] + 1 ELSE round[j]]
      /\ used' = [j \in items |-> IF j = i THEN used[j] \cup {machines[targets[j]]}
                                  ELSE used[j]]
  BY DEF SummaryGoesOn, Using
<1>4. /\ round \in [items -> 0..2] /\ targets \in [items -> Names]
      /\ used \in [items -> SUBSET MachinesBuiltBy(Adds \cup {Startup})]
  BY DEF BatchInvariant, CommandTyped
<1>5. /\ machines[targets[i]] \in MachinesBuiltBy(Adds \cup {Startup})
      /\ machines[targets[i]].name = targets[i]
  BY <1>1, <1>4 DEF BatchInvariant, TypeOK, NamedAsRegistered
<1>6. /\ round' \in [items -> 0..2]
      /\ used' \in [items -> SUBSET MachinesBuiltBy(Adds \cup {Startup})]
  BY <1>1, <1>3, <1>4, <1>5
<1>7. CommandTyped'
  BY <1>2, <1>6 DEF BatchInvariant, CommandTyped
<1>8. TargetsOnce'
  BY <1>2, <1>3, <1>5 DEF BatchInvariant, TargetsOnce
<1>9. RoundsFollow'
  <2>1. ASSUME NEW j \in items PROVE Follows(j)'
    <3>1. Follows(j)
      BY DEF BatchInvariant, RoundsFollow
    <3>2. CASE j = i
      BY <1>1, <1>2, <1>3, <3>2 DEF Follows, Kinds
    <3>3. CASE j # i
      BY <1>2, <1>3, <3>1, <3>3 DEF Follows
    <3>4. QED
      BY <3>2, <3>3
  <2>2. QED
    BY <1>2, <2>1 DEF BatchInvariant, RoundsFollow
<1>10. KnownOrVanished'
  BY <1>2 DEF BatchInvariant, KnownOrVanished
<1>11. GatherInvariant'
  BY <1>1, GatherStepInvariant DEF BatchInvariant
<1>12. QED
  BY <1>7, <1>8, <1>9, <1>10, <1>11 DEF BatchInvariant

\* A step that leaves the command alone, but for the names that vanish under
\* it and for its being killed.
LEMMA OthersKeep ==
  ASSUME BatchInvariant, TypeOK', NamedAsRegistered',
         UNCHANGED <<gatherVars, kind, targets, round, used>>,
         phase' = phase \/ phase' = "killed",
         vanished \subseteq vanished', vanished' \subseteq Names, KnownOrVanished'
  PROVE  BatchInvariant'
<1>1. /\ items' = items /\ limit' = limit /\ task' = task /\ gathered' = gathered
      /\ kind' = kind /\ targets' = targets /\ round' = round /\ used' = used
  BY DEF gatherVars
<1>2. CommandTyped' /\ TargetsOnce'
  BY <1>1 DEF BatchInvariant, CommandTyped, TargetsOnce
<1>3. RoundsFollow'
  <2>1. \A i \in items : Follows(i) => Follows(i)'
    BY <1>1 DEF Follows
  <2>2. QED
    BY <1>1, <2>1 DEF BatchInvariant, RoundsFollow
<1>4. phase' = "batch" => GatherInvariant'
  BY GatherStepInvariant DEF BatchInvariant
<1>5. QED
  BY <1>2, <1>3, <1>4 DEF BatchInvariant

(***************************************************************************)
(* The invariant holds.                                                    *)
(***************************************************************************)
LEMMA InitBatchInvariant == BatchInit => BatchInvariant
<1> SUFFICES ASSUME BatchInit PROVE BatchInvariant
  OBVIOUS
<1>1. TypeOK /\ NamedAsRegistered
  BY InitTypeOK, InitNamed DEF BatchInit
<1>2. /\ items = {} /\ targets = <<>> /\ round = <<>> /\ used = <<>>
      /\ gathered = "pending" /\ phase = "idle" /\ kind = "power" /\ vanished = {}
  BY DEF BatchInit
<1>3. \A T : <<>> \in [{} -> T]
  OBVIOUS
<1>4. CommandTyped
  BY <1>2, <1>3 DEF CommandTyped, Kinds
<1>5. TargetsOnce /\ RoundsFollow /\ KnownOrVanished
  BY <1>2 DEF TargetsOnce, RoundsFollow, KnownOrVanished
<1>6. QED
  BY <1>1, <1>2, <1>4, <1>5 DEF BatchInvariant

LEMMA NextBatchInvariant == BatchInvariant /\ [BatchNext]_allVars => BatchInvariant'
<1> SUFFICES ASSUME BatchInvariant, [BatchNext]_allVars PROVE BatchInvariant'
  OBVIOUS
<1>1. TypeOK' /\ NamedAsRegistered'
  BY StepOfRegistry, NextTypeOK, NextNamed DEF BatchInvariant
<1>2. vanished \subseteq Names /\ KnownOrVanished
  BY DEF BatchInvariant, CommandTyped
<1>3. ASSUME NEW words \in Selectors, SelectRejected(words) PROVE BatchInvariant'
  <2>1. /\ items' = {} /\ phase' = "rejected" /\ gathered' = "pending"
        /\ UNCHANGED <<vars, gatherVars, kind, targets, round, used, vanished>>
    BY <1>3 DEF SelectRejected, BatchInvariant, CommandTyped, gatherVars
  <2>2. /\ items = {} /\ kind' = kind /\ targets' = targets /\ round' = round
        /\ used' = used /\ vanished' = vanished
    BY <1>3 DEF SelectRejected, BatchInvariant, CommandTyped
  <2>3. CommandTyped'
    BY <2>1, <2>2 DEF BatchInvariant, CommandTyped
  <2>4. TargetsOnce' /\ RoundsFollow' /\ KnownOrVanished'
    BY <2>1 DEF TargetsOnce, RoundsFollow, KnownOrVanished
  <2>5. QED
    BY <1>1, <2>1, <2>3, <2>4 DEF BatchInvariant
<1>4. ASSUME NEW words \in Selectors, NEW l \in Limits, NEW k \in Kinds,
             Select(words, l, k)
      PROVE  BatchInvariant'
  BY <1>1, <1>4, SelectInvariant
<1>5. CASE BatchStart
  BY <1>1, <1>5, StartKeeps
<1>6. ASSUME NEW i \in items, BatchResume(i) \/ BatchFinish(i) \/ SummaryGoesOn(i)
      PROVE  BatchInvariant'
  BY <1>1, <1>6, ResumeKeeps, FinishKeeps, SummaryKeeps
<1>7. CASE RegistryStep
  <2>1. /\ UNCHANGED <<gatherVars, command, round, used>>
        /\ phase' = phase /\ items' = items /\ targets' = targets
        /\ vanished' = IF phase # "batch" THEN vanished
                       ELSE vanished \cup {n \in Registered : machines'[n] = NoMachine}
    BY <1>7 DEF RegistryStep, batch, gatherVars, command
  <2>2. vanished \subseteq vanished' /\ vanished' \subseteq Names
    BY <1>2, <2>1, RegisteredFinite
  <2>3. KnownOrVanished'
    <3> SUFFICES ASSUME phase = "batch", NEW i \in items,
                        machines'[targets[i]] = NoMachine
                 PROVE  targets[i] \in vanished'
      BY <2>1 DEF KnownOrVanished
    <3>1. targets[i] \in Names
      BY DEF BatchInvariant, CommandTyped
    <3>2. targets[i] \in Registered \/ targets[i] \in vanished
      BY <1>2, <3>1 DEF KnownOrVanished, Registered
    <3>3. QED
      BY <2>1, <3>2
  <2>4. QED
    BY <1>1, <2>1, <2>2, <2>3, OthersKeep DEF command
<1>8. CASE BatchKilled
  <2>1. /\ UNCHANGED <<gatherVars, kind, targets, round, used, vanished>>
        /\ phase' # "batch" /\ (phase' = phase \/ phase' = "killed")
    BY <1>8 DEF BatchKilled
  <2>2. KnownOrVanished'
    BY <2>1 DEF KnownOrVanished
  <2>3. QED
    BY <1>1, <1>2, <2>1, <2>2, OthersKeep
<1>9. CASE UNCHANGED allVars
  <2>1. /\ UNCHANGED <<vars, gatherVars, kind, targets, round, used, vanished>>
        /\ phase' = phase /\ items' = items /\ targets' = targets /\ machines' = machines
        /\ vanished' = vanished
    BY <1>9 DEF allVars, batch, command, vars, gatherVars
  <2>2. KnownOrVanished'
    BY <1>2, <2>1 DEF KnownOrVanished
  <2>3. QED
    BY <1>1, <1>2, <2>1, <2>2, OthersKeep
<1>10. QED
  BY <1>3, <1>4, <1>5, <1>6, <1>7, <1>8, <1>9 DEF BatchNext

THEOREM BatchInvariantHolds == BatchSpec => []BatchInvariant
<1>1. QED
  BY InitBatchInvariant, NextBatchInvariant, PTL DEF BatchSpec

(***************************************************************************)
(* What follows from it.                                                   *)
(***************************************************************************)
\* Every variable of a batch keeps its type, whatever other commands do.
THEOREM BatchTyped == BatchSpec => []BatchTypeOK
<1>1. BatchInvariant => BatchTypeOK
  BY GatherTypeFollows DEF BatchInvariant, CommandTyped, BatchTypeOK
<1>2. QED
  BY <1>1, BatchInvariantHolds, PTL

\* At no time does a command work on more machines than its limit allows.
THEOREM BatchWithinLimit == BatchSpec => []WithinLimit
<1>1. BatchInvariant => WithinLimit
  <2> SUFFICES ASSUME BatchInvariant, phase = "batch"
               PROVE  Cardinality({i \in items : task[i] = "running"}) <= Bound
    BY DEF WithinLimit
  <2>1. Cardinality(In({"running"})) <= Bound
    BY RunningWithinBound DEF BatchInvariant
  <2>2. In({"running"}) = {i \in items : task[i] = "running"}
    BY DEF In
  <2>3. QED
    BY <2>1, <2>2
<1>2. QED
  BY <1>1, BatchInvariantHolds, PTL

\* No two coroutines of a command work on machines of one name, whatever the
\* selector repeats and whatever is deleted and added meanwhile.
THEOREM BatchOncePerMachine == BatchSpec => []OncePerMachine
<1>1. BatchInvariant => OncePerMachine
  BY DEF BatchInvariant, TargetsOnce, OncePerMachine
<1>2. QED
  BY <1>1, BatchInvariantHolds, PTL

\* A power command that answers with results has operated every target once.
THEOREM BatchResultsReal == BatchSpec => []ResultsAreReal
<1>1. BatchInvariant => ResultsAreReal
  BY DEF BatchInvariant, RoundsFollow, Follows, ResultsAreReal
<1>2. QED
  BY <1>1, BatchInvariantHolds, PTL

\* A power command whose coroutines are over has operated every target but
\* those unregistered after the selection.
THEOREM BatchWhole == BatchSpec => []WholeUnlessDeleted
<1>1. BatchInvariant => WholeUnlessDeleted
  BY DEF BatchInvariant, RoundsFollow, Follows, WholeUnlessDeleted, Settled
<1>2. QED
  BY <1>1, BatchInvariantHolds, PTL

\* The selection is whole, as manager.py promises of mutating commands, unless
\* one of the selected machines was unregistered while the command ran.
THEOREM SubsetOnlyOfVanished ==
  BatchSpec => [](NoSurprisingSubset \/ \E i \in items : targets[i] \in vanished)
<1>1. BatchInvariant =>
        NoSurprisingSubset \/ \E i \in items : targets[i] \in vanished
  BY DEF BatchInvariant, RoundsFollow, Follows, NoSurprisingSubset, Settled
<1>2. QED
  BY <1>1, BatchInvariantHolds, PTL

\* A command that ends with an exception has met a machine that was unregistered
\* after the selection and that it has not touched; the commands that go through
\* _safe_lines never end so.
THEOREM ExceptionsExplained ==
  BatchSpec => [](gathered = "exception" =>
                    /\ kind # "lines"
                    /\ \E i \in items : /\ task[i] = "raised" /\ used[i] = {}
                                       /\ targets[i] \in vanished)
<1>1. BatchInvariant => (gathered = "exception" =>
                    /\ kind # "lines"
                    /\ \E i \in items : /\ task[i] = "raised" /\ used[i] = {}
                                       /\ targets[i] \in vanished)
  BY DEF BatchInvariant, RoundsFollow, Follows
<1>2. QED
  BY <1>1, BatchInvariantHolds, PTL

(***************************************************************************)
(* The parts of the composition.                                           *)
(***************************************************************************)
\* A batch command takes only steps of the registry's specification, so what is
\* proved of the registry's steps holds while batches run.
THEOREM BatchesKeepRegistry == BatchSpec => Init /\ [][Next]_vars
<1>1. BatchInit => Init
  BY DEF BatchInit
<1>2. QED
  BY <1>1, StepOfRegistry, PTL DEF BatchSpec

\* Among batch commands too no registered machine has failed its probe, only
\* probed rows are written, and an acknowledged add is in the file.
THEOREM RegistryHoldsUnderBatches ==
  BatchSpec => [](NoRejectedMachine /\ OnlyProbedRowsPersist /\ AcknowledgedAddsDurable)
<1>1. BatchSpec => []TypeOK
  BY BatchesKeepRegistry, InitTypeOK, NextTypeOK, PTL
<1>2. Init => ByItsBuilder /\ OnlyProbedRowsPersist /\ HeldTwice
  BY InitByItsBuilder, RegistryAssumption DEF Init, OnlyProbedRowsPersist, HeldTwice
<1>3. ByItsBuilder => NoRejectedMachine
  BY DEF ByItsBuilder, NoRejectedMachine
<1>4. HeldTwice => AcknowledgedAddsDurable
  BY DEF HeldTwice, AcknowledgedAddsDurable
<1>5. QED
  BY <1>1, <1>2, <1>3, <1>4, BatchesKeepRegistry, NextByItsBuilder,
     NextOnlyProbedRows, NextHeldTwice, PTL

\* A selection starts gather_limited, and until the bot stops each step is one
\* of gather_limited or leaves it alone, so that what is proved of
\* gather_limited holds of every batch command.
THEOREM BatchesRunGather ==
  BatchSpec => [][/\ phase # "batch" /\ phase' = "batch" => GatherInit'
                  /\ phase = "batch" => [GatherNext]_gatherVars]_allVars
<1> DEFINE Runs == /\ phase # "batch" /\ phase' = "batch" => GatherInit'
                   /\ phase = "batch" => [GatherNext]_gatherVars
<1>1. BatchInvariant /\ [BatchNext]_allVars => [Runs]_allVars
  <2> SUFFICES ASSUME BatchInvariant, BatchNext PROVE Runs
    OBVIOUS
  <2>1. ASSUME NEW words \in Selectors, NEW l \in Limits, NEW k \in Kinds,
               Select(words, l, k)
        PROVE  Runs
    <3>1. phase # "batch"
      BY <2>1 DEF Select
    <3>2. QED
      BY <2>1, <3>1, SelectStarts
  <2>2. ASSUME phase = "batch" => GatherIsTyped,
               BatchStart \/ \E i \in items : BatchResume(i) \/ BatchFinish(i)
        PROVE  Runs
    <3>1. phase = "batch"
      BY <2>2 DEF BatchStart, BatchResume, BatchFinish
    <3>2. GatherNext
      BY <2>2, <3>1, StartMoves, ResumeMoves, FinishMoves
    <3>3. QED
      BY <3>1, <3>2
  <2>3. phase = "batch" => GatherIsTyped
    BY DEF BatchInvariant, GatherInvariant
  <2>4. ASSUME UNCHANGED gatherVars, phase' = "batch" => phase = "batch"
        PROVE  Runs
    BY <2>4
  <2>5. ASSUME NEW words \in Selectors, SelectRejected(words) PROVE Runs
    BY <2>4, <2>5 DEF SelectRejected
  <2>6. ASSUME NEW i \in items, SummaryGoesOn(i) PROVE Runs
    BY <2>4, <2>6 DEF SummaryGoesOn, command
  <2>7. CASE RegistryStep
    BY <2>4, <2>7 DEF RegistryStep, batch, command
  <2>8. CASE BatchKilled
    BY <2>4, <2>8 DEF BatchKilled
  <2> HIDE DEF Runs
  <2>9. QED
    BY <2>1, <2>2, <2>3, <2>5, <2>6, <2>7, <2>8 DEF BatchNext
<1> HIDE DEF Runs
<1>2. BatchSpec => [][Runs]_allVars
  BY <1>1, BatchInvariantHolds, PTL DEF BatchSpec
<1>3. QED
  BY <1>2 DEF Runs

\* While a command runs, the slots of its semaphore are accounted for, none is
\* idle before a waiter, and its machines are served in the order selected.
THEOREM GatherHoldsInBatches ==
  BatchSpec => [](phase = "batch" => SlotsAccounted /\ NoIdleSlot /\ ServedInOrder)
<1>1. BatchInvariant => (phase = "batch" => SlotsAccounted /\ NoIdleSlot /\ ServedInOrder)
  BY DEF BatchInvariant, GatherInvariant
<1>2. QED
  BY <1>1, BatchInvariantHolds, PTL
================================================================================
