---------------------------- MODULE TargetSelection ----------------------------
(***************************************************************************)
(* MachineManager.resolve_targets: from the words of a selector to the     *)
(* list of machines a batch command works on.                              *)
(***************************************************************************)
EXTENDS SequencesExt

CONSTANT AllWords   \* the words that read "all" in some mixture of case

Rejected == [targets |-> {}, error |-> TRUE]
Selected(lists) == [targets |-> lists, error |-> FALSE]

\* The positions of the words that have not been seen before.
FirstSeen(words) == {i \in DOMAIN words : \A j \in 1..(i - 1) : words[j] # words[i]}

\* The k-th of a set of positions.
Nth(positions, k) ==
  CHOOSE i \in positions : Cardinality({j \in positions : j <= i}) = k

\* dict.fromkeys: the words without repetitions, in the order first seen.
Distinct(words) ==
  [k \in 1..Cardinality(FirstSeen(words)) |-> words[Nth(FirstSeen(words), k)]]

\* Fault: the words are checked without their repetitions, but kept with them.
ResolveTargetsRepeating(words, registered) ==
  LET requested == Distinct(words) IN
  IF requested # <<>> /\ ToSet(requested) \subseteq registered
  THEN Selected({words})
  ELSE Rejected

\* Fault: one known name is enough.
ResolveTargetsLoosely(words, registered) ==
  LET requested == Distinct(words) IN
  IF requested = <<>> THEN Rejected
  ELSE IF ToSet(requested) \cap AllWords # {}
  THEN Selected(SetToSeqs(registered))
  ELSE IF ToSet(requested) \cap registered # {}
  THEN Selected({requested})
  ELSE Rejected

(***************************************************************************)
(* "all" stands alone and means every registered machine, in the order of  *)
(* the registry, which is not modelled: any order may be the one.  One     *)
(* unknown name rejects the whole selection.                               *)
(***************************************************************************)
ResolveTargets(words, registered) ==
  LET requested == Distinct(words) IN
  IF requested = <<>> THEN Rejected
  ELSE IF ToSet(requested) \cap AllWords # {}
  THEN IF Len(requested) # 1 \/ registered = {}
       THEN Rejected
       ELSE Selected(SetToSeqs(registered))
  ELSE IF ToSet(requested) \subseteq registered
  THEN Selected({requested})
  ELSE Rejected
================================================================================
