------------------------- MODULE MachineRegistryProofs -------------------------
(***************************************************************************)
(* Theorems about MachineRegistry, for every set of commands, names,       *)
(* addresses and initial configurations.                                   *)
(***************************************************************************)
EXTENDS MachineRegistry, MachineRowsTheorems, FiniteSetTheorems

\* A list of configuration entries is a list of stamped rows.
LEMMA EntriesAreStamped ==
  ASSUME NEW entries \in SUBSET Entry
  PROVE  StampedRows(entries)
BY DEF Entry, StampedRows

\* The row of a machine_add command is a row, and an acceptable one is well-formed.
LEMMA AddRowType ==
  ASSUME NEW n \in Names, NEW address \in Addresses
  PROVE  AddRow(n, address) \in Row
BY DEF AddRow, Row, SupportedProtocols

\* A registry of machines read at startup is a registry.
LEMMA LoadedRegistryType ==
  ASSUME NEW entries \in SUBSET Entry
  PROVE  Load(entries)
           \in [Names -> MachinesBuiltBy(Adds \cup {Startup}) \cup {NoMachine}]
BY LoadType, EntriesAreStamped DEF MachinesBuiltBy

(***************************************************************************)
(* Type correctness.                                                       *)
(***************************************************************************)
LEMMA InitTypeOK == Init => TypeOK
<1> SUFFICES ASSUME Init PROVE TypeOK
  OBVIOUS
<1>1. config \in SUBSET Entry /\ IsFiniteSet(config)
  BY RegistryAssumption DEF Init
<1>2. Cardinality(config) \in Nat
  BY <1>1, FS_CardinalityType
<1>3. QED
  BY <1>1, <1>2, LoadedRegistryType DEF Init, TypeOK, Phases

LEMMA NextTypeOK == TypeOK /\ [Next]_vars => TypeOK'
<1> SUFFICES ASSUME TypeOK, [Next]_vars PROVE TypeOK'
  OBVIOUS
<1>1. ASSUME NEW a \in Adds, NEW n \in Names, NEW address \in Addresses,
             AddBegin(a, n, address)
      PROVE  TypeOK'
  <2>1. AddRow(n, address) \in Row /\ AddRow(n, address).name = n
    BY AddRowType DEF AddRow
  <2>2. MachineOf(AddRow(n, address), a) \in MachinesBuiltBy(Adds \cup {Startup})
    BY <1>1, <2>1, MachineOfType DEF AddBegin, Acceptable
  <2>3. QED
    BY <1>1, <2>1, <2>2 DEF AddBegin, TypeOK, Phases
<1>2. ASSUME NEW a \in Adds, NEW n \in Names, NEW address \in Addresses,
             AddRefused(a, n, address)
      PROVE  TypeOK'
  <2>1. AddRow(n, address) \in Row /\ AddRow(n, address).name = n
    BY AddRowType DEF AddRow
  <2>2. QED
    BY <1>2, <2>1 DEF AddRefused, TypeOK, Phases
<1>3. ASSUME NEW a \in Adds, ProbeFails(a)
      PROVE  TypeOK'
  BY <1>3 DEF ProbeFails, TypeOK, Phases
<1>4. ASSUME NEW a \in Adds, ProbeSucceeds(a)
      PROVE  TypeOK'
  <2>1. [at |-> length, by |-> a, row |-> row[a]] \in Entry
    BY <1>4 DEF ProbeSucceeds, TypeOK, Entry
  <2>2. config' \in SUBSET Entry
    BY <1>4, <2>1 DEF ProbeSucceeds, TypeOK
  <2>3. disk' \in SUBSET Entry
    BY <1>4, <2>2 DEF ProbeSucceeds, TypeOK, Saved, SaveRaises
  <2>4. pc' \in [Adds -> Phases] /\ \A b \in Adds : pc'[b] # "ready" => pc[b] # "ready"
    BY <1>4 DEF ProbeSucceeds, TypeOK, Phases
  <2>5. /\ row' = row /\ machines' = machines
        /\ length' \in Nat /\ deleted' \in SUBSET Names
    BY <1>4 DEF ProbeSucceeds, TypeOK
  <2>6. QED
    BY <2>2, <2>3, <2>4, <2>5 DEF TypeOK
<1>5. ASSUME NEW n \in Names, Delete(n)
      PROVE  TypeOK'
  <2>1. config' \in SUBSET Entry
    BY <1>5 DEF Delete, TypeOK
  <2>2. disk' \in SUBSET Entry /\ deleted' \in SUBSET Names
    BY <1>5, <2>1 DEF Delete, TypeOK, Saved, SaveRaises
  <2>3. pc' \in [Adds -> Phases] /\ \A b \in Adds : pc'[b] # "ready" => pc[b] # "ready"
    BY <1>5 DEF Delete, TypeOK, Phases
  <2>4. /\ row' = row /\ length' = length
        /\ machines' \in [Names -> MachinesBuiltBy(Adds \cup {Startup}) \cup {NoMachine}]
    BY <1>5 DEF Delete, TypeOK
  <2>5. QED
    BY <2>1, <2>2, <2>3, <2>4 DEF TypeOK
<1>6. ASSUME Restart
      PROVE  TypeOK'
  <2>1. machines' \in [Names -> MachinesBuiltBy(Adds \cup {Startup}) \cup {NoMachine}]
    BY <1>6, LoadedRegistryType DEF Restart, TypeOK
  <2>2. pc' \in [Adds -> Phases] /\ \A b \in Adds : pc'[b] # "ready" => pc[b] # "ready"
    BY <1>6 DEF Restart, TypeOK, Phases
  <2>3. QED
    BY <1>6, <2>1, <2>2 DEF Restart, TypeOK
<1>7. CASE UNCHANGED vars
  BY <1>7 DEF vars, TypeOK
<1>8. QED
  BY <1>1, <1>2, <1>3, <1>4, <1>5, <1>6, <1>7 DEF Next

\* The registry, the list, the file and the commands keep their types,
\* whatever commands run and however often the bot restarts.
THEOREM TypeCorrect == Spec => []TypeOK
<1>1. QED
  BY InitTypeOK, NextTypeOK, PTL DEF Spec

(***************************************************************************)
(* No machine survives its rejected probe.  NoRejectedMachine alone does   *)
(* not say that the machine a failing command leaves behind would stand    *)
(* under the name the rollback removes; ByItsBuilder adds that.            *)
(***************************************************************************)
ByItsBuilder ==
  \A n \in Names : machines[n] # NoMachine /\ machines[n].by # Startup =>
    /\ pc[machines[n].by] \in {"probing", "added", "unsaved"}
    /\ row[machines[n].by].name = n

LEMMA NextByItsBuilder ==
  TypeOK /\ ByItsBuilder /\ [Next]_vars => ByItsBuilder'
<1> SUFFICES ASSUME TypeOK, ByItsBuilder, [Next]_vars,
                    NEW m \in Names, machines'[m] # NoMachine,
                    machines'[m].by # Startup
             PROVE  /\ pc'[machines'[m].by] \in {"probing", "added", "unsaved"}
                    /\ row'[machines'[m].by].name = m
  BY DEF ByItsBuilder
<1> DEFINE b == machines[m].by
<1>1. machines[m] # NoMachine => b \in Adds \cup {Startup}
  BY DEF TypeOK, MachinesBuiltBy
<1>2. ASSUME NEW a \in Adds, NEW n \in Names, NEW address \in Addresses,
             AddBegin(a, n, address)
      PROVE  /\ pc'[machines'[m].by] \in {"probing", "added", "unsaved"}
             /\ row'[machines'[m].by].name = m
  <2>1. CASE m = n
    <3>1. machines'[m].by = a
      BY <1>2, <2>1 DEF AddBegin, TypeOK, MachineOf
    <3>2. pc'[a] = "probing" /\ row'[a].name = n
      BY <1>2 DEF AddBegin, TypeOK, AddRow
    <3>3. QED
      BY <3>1, <3>2, <2>1
  <2>2. CASE m # n
    <3>1. machines'[m] = machines[m]
      BY <1>2, <2>2 DEF AddBegin, TypeOK
    <3>2. b \in Adds /\ pc[b] \in {"probing", "added", "unsaved"} /\ row[b].name = m
      BY <3>1, <1>1 DEF ByItsBuilder
    <3>3. b # a
      BY <3>2, <1>2 DEF AddBegin
    <3>4. pc'[b] = pc[b] /\ row'[b] = row[b]
      BY <1>2, <3>2, <3>3 DEF AddBegin, TypeOK
    <3>5. QED
      BY <3>1, <3>2, <3>4
  <2>3. QED
    BY <2>1, <2>2
<1>3. ASSUME NEW a \in Adds, NEW n \in Names, NEW address \in Addresses,
             AddRefused(a, n, address)
      PROVE  /\ pc'[machines'[m].by] \in {"probing", "added", "unsaved"}
             /\ row'[machines'[m].by].name = m
  <2>1. machines'[m] = machines[m]
    BY <1>3 DEF AddRefused
  <2>2. b \in Adds /\ pc[b] \in {"probing", "added", "unsaved"} /\ row[b].name = m
    BY <2>1, <1>1 DEF ByItsBuilder
  <2>3. b # a
    BY <2>2, <1>3 DEF AddRefused
  <2>4. pc'[b] = pc[b] /\ row'[b] = row[b]
    BY <1>3, <2>2, <2>3 DEF AddRefused, TypeOK
  <2>5. QED
    BY <2>1, <2>2, <2>4
<1>4. ASSUME NEW a \in Adds, ProbeFails(a)
      PROVE  /\ pc'[machines'[m].by] \in {"probing", "added", "unsaved"}
             /\ row'[machines'[m].by].name = m
  <2>1. m # row[a].name /\ machines'[m] = machines[m]
    BY <1>4 DEF ProbeFails, TypeOK
  <2>2. b \in Adds /\ pc[b] \in {"probing", "added", "unsaved"} /\ row[b].name = m
    BY <2>1, <1>1 DEF ByItsBuilder
  <2>3. pc'[b] = pc[b] /\ row'[b] = row[b]
    BY <1>4, <2>1, <2>2 DEF ProbeFails, TypeOK
  <2>4. QED
    BY <2>1, <2>2, <2>3
<1>5. ASSUME NEW a \in Adds, ProbeSucceeds(a)
      PROVE  /\ pc'[machines'[m].by] \in {"probing", "added", "unsaved"}
             /\ row'[machines'[m].by].name = m
  <2>1. machines'[m] = machines[m] /\ row' = row
    BY <1>5 DEF ProbeSucceeds
  <2>2. b \in Adds /\ pc[b] \in {"probing", "added", "unsaved"} /\ row[b].name = m
    BY <2>1, <1>1 DEF ByItsBuilder
  <2>3. pc'[b] \in {"probing", "added", "unsaved"}
    BY <1>5, <2>2 DEF ProbeSucceeds, TypeOK
  <2>4. QED
    BY <2>1, <2>2, <2>3
<1>6. ASSUME NEW n \in Names, Delete(n)
      PROVE  /\ pc'[machines'[m].by] \in {"probing", "added", "unsaved"}
             /\ row'[machines'[m].by].name = m
  <2>1. m # n /\ machines'[m] = machines[m] /\ row' = row
    BY <1>6 DEF Delete, TypeOK
  <2>2. b \in Adds /\ pc[b] \in {"probing", "added", "unsaved"} /\ row[b].name = m
    BY <2>1, <1>1 DEF ByItsBuilder
  <2>3. pc'[b] = pc[b]
    BY <1>6, <2>1, <2>2 DEF Delete
  <2>4. QED
    BY <2>1, <2>2, <2>3
<1>7. ASSUME Restart
      PROVE  FALSE
  <2>1. Load(disk) \in [Names -> MachinesBuiltBy({Startup}) \cup {NoMachine}]
    BY LoadType, EntriesAreStamped DEF TypeOK
  <2>2. QED
    BY <1>7, <2>1 DEF Restart, MachinesBuiltBy
<1>8. CASE UNCHANGED vars
  BY <1>8, <1>1 DEF vars, ByItsBuilder
<1>9. QED
  BY <1>2, <1>3, <1>4, <1>5, <1>6, <1>7, <1>8 DEF Next

LEMMA InitByItsBuilder == Init => ByItsBuilder
<1> SUFFICES ASSUME Init, NEW n \in Names, machines[n] # NoMachine
             PROVE  machines[n].by = Startup
  BY DEF ByItsBuilder
<1>1. Load(config) \in [Names -> MachinesBuiltBy({Startup}) \cup {NoMachine}]
  BY LoadType, EntriesAreStamped, RegistryAssumption DEF Init
<1>2. QED
  BY <1>1 DEF Init, MachinesBuiltBy

\* A machine registered by a machine_add command is still being probed or has
\* passed its probe, whatever deletions, adds and restarts come in between.
THEOREM NoRejected == Spec => []NoRejectedMachine
<1>1. ByItsBuilder => NoRejectedMachine
  BY DEF ByItsBuilder, NoRejectedMachine
<1>2. QED
  BY <1>1, TypeCorrect, InitByItsBuilder, NextByItsBuilder, PTL DEF Spec

(***************************************************************************)
(* What the list and the file hold.                                        *)
(***************************************************************************)
LEMMA NextOnlyProbedRows ==
  TypeOK /\ OnlyProbedRowsPersist /\ [Next]_vars => OnlyProbedRowsPersist'
<1> DEFINE Probed(e) ==
      \/ e.by = Startup
      \/ pc[e.by] \in {"added", "unsaved", "undone"} /\ e.row = row[e.by]
<1> SUFFICES ASSUME TypeOK, OnlyProbedRowsPersist, [Next]_vars,
                    NEW e \in config' \cup disk'
             PROVE  Probed(e)'
  BY DEF OnlyProbedRowsPersist
<1>1. ASSUME NEW a \in Adds, pc[a] \notin {"added", "unsaved", "undone"},
             \A c \in Adds \ {a} : pc'[c] = pc[c] /\ row'[c] = row[c],
             e \in config \cup disk
      PROVE  Probed(e)'
  <2>1. e.by \in Adds \cup {Startup} /\ Probed(e)
    BY <1>1 DEF OnlyProbedRowsPersist, TypeOK, Entry
  <2>2. QED
    BY <1>1, <2>1
<1>2. ASSUME NEW a \in Adds, NEW n \in Names, NEW address \in Addresses,
             AddBegin(a, n, address) \/ AddRefused(a, n, address)
      PROVE  Probed(e)'
  <2>1. e \in config \cup disk /\ pc[a] \notin {"added", "unsaved", "undone"}
    BY <1>2 DEF AddBegin, AddRefused
  <2>2. \A c \in Adds \ {a} : pc'[c] = pc[c] /\ row'[c] = row[c]
    BY <1>2 DEF AddBegin, AddRefused, TypeOK
  <2>3. QED
    BY <1>1, <2>1, <2>2
<1>3. ASSUME NEW a \in Adds, ProbeFails(a)
      PROVE  Probed(e)'
  <2>1. e \in config \cup disk /\ pc[a] \notin {"added", "unsaved", "undone"}
    BY <1>3 DEF ProbeFails
  <2>2. \A c \in Adds \ {a} : pc'[c] = pc[c] /\ row'[c] = row[c]
    BY <1>3 DEF ProbeFails, TypeOK
  <2>3. QED
    BY <1>1, <2>1, <2>2
<1>4. ASSUME NEW a \in Adds, ProbeSucceeds(a)
      PROVE  Probed(e)'
  <2>1. \A c \in Adds \ {a} : pc'[c] = pc[c] /\ row'[c] = row[c]
    BY <1>4 DEF ProbeSucceeds, TypeOK
  <2>2. CASE e \in config \cup disk
    BY <2>1, <2>2, <1>1, <1>4 DEF ProbeSucceeds
  <2>3. CASE e \notin config \cup disk
    <3>1. e = [at |-> length, by |-> a, row |-> row[a]]
      BY <1>4, <2>3 DEF ProbeSucceeds, Saved, SaveRaises
    <3>2. pc'[a] \in {"added", "unsaved"} /\ row' = row
      BY <1>4 DEF ProbeSucceeds, TypeOK
    <3>3. QED
      BY <3>1, <3>2
  <2>4. QED
    BY <2>2, <2>3
<1>5. ASSUME NEW n \in Names, Delete(n)
      PROVE  Probed(e)'
  <2>1. e \in config \cup disk
    BY <1>5 DEF Delete, Saved, SaveRaises
  <2>2. e.by \in Adds \cup {Startup} /\ Probed(e)
    BY <2>1 DEF OnlyProbedRowsPersist, TypeOK, Entry
  <2>3. row' = row
        /\ \A c \in Adds : pc'[c] = pc[c] \/ (pc[c] = "added" /\ pc'[c] = "undone")
    BY <1>5 DEF Delete
  <2>4. QED
    BY <2>2, <2>3
<1>6. ASSUME Restart
      PROVE  Probed(e)'
  <2>1. e \in config \cup disk
    BY <1>6 DEF Restart
  <2>2. e.by \in Adds \cup {Startup} /\ Probed(e)
    BY <2>1 DEF OnlyProbedRowsPersist, TypeOK, Entry
  <2>3. row' = row
        /\ \A c \in Adds : pc'[c] = pc[c] \/ (pc[c] = "probing" /\ pc'[c] = "lost")
    BY <1>6 DEF Restart
  <2>4. QED
    BY <2>2, <2>3
<1>7. CASE UNCHANGED vars
  BY <1>7 DEF vars, OnlyProbedRowsPersist
<1>8. QED
  BY <1>2, <1>3, <1>4, <1>5, <1>6, <1>7 DEF Next

\* No row reaches the list or the file before its probe has succeeded.
THEOREM OnlyProbedRows == Spec => []OnlyProbedRowsPersist
<1>1. Init => OnlyProbedRowsPersist
  BY RegistryAssumption DEF Init, OnlyProbedRowsPersist
<1>2. QED
  BY <1>1, TypeCorrect, NextOnlyProbedRows, PTL DEF Spec

(***************************************************************************)
(* Durability.  The row of an acknowledged add has to be in the file and   *)
(* in the list, because the next command overwrites the one with the other.*)
(***************************************************************************)
HeldTwice ==
  \A a \in Adds : pc[a] = "added" =>
    \E e \in config \cap disk : e.by = a /\ e.row = row[a]

LEMMA NextHeldTwice == TypeOK /\ HeldTwice /\ [Next]_vars => HeldTwice'
<1> SUFFICES ASSUME TypeOK, HeldTwice, [Next]_vars,
                    NEW b \in Adds, pc'[b] = "added"
             PROVE  \E e \in config' \cap disk' : e.by = b /\ e.row = row'[b]
  BY DEF HeldTwice
<1>1. ASSUME config' = config, disk' = disk, pc[b] = "added", row'[b] = row[b]
      PROVE  \E e \in config' \cap disk' : e.by = b /\ e.row = row'[b]
  BY <1>1 DEF HeldTwice
<1>2. ASSUME NEW a \in Adds, NEW n \in Names, NEW address \in Addresses,
             AddBegin(a, n, address) \/ AddRefused(a, n, address)
      PROVE  pc[b] = "added" /\ row'[b] = row[b] /\ config' = config /\ disk' = disk
  BY <1>2 DEF AddBegin, AddRefused, TypeOK
<1>3. ASSUME NEW a \in Adds, ProbeFails(a)
      PROVE  pc[b] = "added" /\ row'[b] = row[b] /\ config' = config /\ disk' = disk
  BY <1>3 DEF ProbeFails, TypeOK
<1>4. ASSUME NEW a \in Adds, ProbeSucceeds(a)
      PROVE  \E e \in config' \cap disk' : e.by = b /\ e.row = row'[b]
  <2>1. row' = row /\ config \subseteq config' /\ (disk' = config' \/ disk' = disk)
    BY <1>4 DEF ProbeSucceeds, Saved, SaveRaises
  <2>2. CASE b = a
    <3>1. disk' = config'
      BY <1>4, <2>2 DEF ProbeSucceeds, TypeOK, Saved
    <3>2. [at |-> length, by |-> a, row |-> row[a]] \in config'
      BY <1>4 DEF ProbeSucceeds
    <3>3. QED
      BY <2>1, <2>2, <3>1, <3>2
  <2>3. CASE b # a
    <3>1. pc[b] = "added"
      BY <1>4, <2>3 DEF ProbeSucceeds, TypeOK
    <3>2. PICK e \in config \cap disk : e.by = b /\ e.row = row[b]
      BY <3>1 DEF HeldTwice
    <3>3. QED
      BY <2>1, <3>2
  <2>4. QED
    BY <2>2, <2>3
<1>5. ASSUME NEW n \in Names, Delete(n)
      PROVE  \E e \in config' \cap disk' : e.by = b /\ e.row = row'[b]
  <2>1. pc[b] = "added" /\ row[b].name # n /\ row' = row
    BY <1>5 DEF Delete
  <2>2. PICK e \in config \cap disk : e.by = b /\ e.row = row[b]
    BY <2>1 DEF HeldTwice
  <2>3. e \in config'
    BY <1>5, <2>1, <2>2 DEF Delete, NameMatches
  <2>4. disk' = config' \/ disk' = disk
    BY <1>5 DEF Delete, Saved, SaveRaises
  <2>5. QED
    BY <2>1, <2>2, <2>3, <2>4
<1>6. ASSUME Restart
      PROVE  \E e \in config' \cap disk' : e.by = b /\ e.row = row'[b]
  <2>1. pc[b] = "added" /\ row' = row /\ config' = disk /\ disk' = disk
    BY <1>6 DEF Restart
  <2>2. QED
    BY <2>1 DEF HeldTwice
<1>7. CASE UNCHANGED vars
  BY <1>1, <1>7 DEF vars
<1>8. QED
  BY <1>1, <1>2, <1>3, <1>4, <1>5, <1>6, <1>7 DEF Next

\* An acknowledged add stays in the file until its machine is deleted.
THEOREM AddsDurable == Spec => []AcknowledgedAddsDurable
<1>1. Init => HeldTwice
  BY DEF Init, HeldTwice
<1>2. HeldTwice => AcknowledgedAddsDurable
  BY DEF HeldTwice, AcknowledgedAddsDurable
<1>3. QED
  BY <1>1, <1>2, TypeCorrect, NextHeldTwice, PTL DEF Spec

--------------------------------------------------------------------------------
(***************************************************************************)
(* Theorems that need assumptions on the use of the registry: lists        *)
(* without padded names, and, for the later ones, a name that nobody       *)
(* deletes while its machine_add is being probed.                          *)
(***************************************************************************)

\* No row of an initial list carries its name with surrounding blanks.
TidyLists == \A c \in InitialConfigs : \A e \in c : ~e.row.padded

Tidy ==
  /\ \A e \in config \cup disk : ~e.row.padded
  /\ \A a \in Adds : pc[a] # "ready" => ~row[a].padded

LEMMA InitTidy == TidyLists /\ Init => Tidy
BY DEF TidyLists, Init, Tidy

LEMMA NextTidy == TypeOK /\ Tidy /\ [Next]_vars => Tidy'
<1> SUFFICES ASSUME TypeOK, Tidy, [Next]_vars PROVE Tidy'
  OBVIOUS
<1>1. ASSUME NEW a \in Adds, NEW n \in Names, NEW address \in Addresses,
             AddBegin(a, n, address) \/ AddRefused(a, n, address)
      PROVE  Tidy'
  <2>1. /\ config' = config /\ disk' = disk
        /\ ~row'[a].padded
        /\ \A b \in Adds \ {a} : pc'[b] = pc[b] /\ row'[b] = row[b]
    BY <1>1 DEF AddBegin, AddRefused, AddRow, TypeOK
  <2>2. QED
    BY <2>1 DEF Tidy
<1>2. ASSUME NEW a \in Adds, ProbeFails(a)
      PROVE  Tidy'
  BY <1>2 DEF ProbeFails, Tidy, TypeOK
<1>3. ASSUME NEW a \in Adds, ProbeSucceeds(a)
      PROVE  Tidy'
  <2>1. ~row[a].padded
    BY <1>3 DEF ProbeSucceeds, Tidy
  <2>2. \A e \in config' \cup disk' : ~e.row.padded
    BY <1>3, <2>1 DEF ProbeSucceeds, Tidy, Saved, SaveRaises
  <2>3. \A b \in Adds : row'[b] = row[b] /\ (pc'[b] # "ready" => pc[b] # "ready")
    BY <1>3 DEF ProbeSucceeds, TypeOK
  <2>4. QED
    BY <2>2, <2>3 DEF Tidy
<1>4. ASSUME NEW n \in Names, Delete(n)
      PROVE  Tidy'
  <2>1. \A e \in config' \cup disk' : ~e.row.padded
    BY <1>4 DEF Delete, Tidy, Saved, SaveRaises
  <2>2. \A b \in Adds : row'[b] = row[b] /\ (pc'[b] # "ready" => pc[b] # "ready")
    BY <1>4 DEF Delete
  <2>3. QED
    BY <2>1, <2>2 DEF Tidy
<1>5. ASSUME Restart
      PROVE  Tidy'
  BY <1>5 DEF Restart, Tidy
<1>6. CASE UNCHANGED vars
  BY <1>6 DEF vars, Tidy
<1>7. QED
  BY <1>1, <1>2, <1>3, <1>4, <1>5, <1>6 DEF Next

(***************************************************************************)
(* Claims: which rows an append and a deletion add and remove.             *)
(***************************************************************************)
LEMMA ClaimsAfterAppend ==
  ASSUME NEW a \in Adds, TypeOK, ProbeSucceeds(a), NEW n \in Names, n # row[a].name
  PROVE  Claims(config', n) = Claims(config, n)
BY DEF ProbeSucceeds, Claims

LEMMA ClaimsAfterDelete ==
  ASSUME NEW d \in Names, Tidy, Delete(d), NEW n \in Names
  PROVE  Claims(config', n) = IF n = d THEN {} ELSE Claims(config, n)
<1>1. config' = {e \in config : e.row.name # d}
  BY DEF Delete, NameMatches, Tidy
<1>2. QED
  BY <1>1 DEF Claims

\* A list registers nothing under a name exactly when no row claims it.
LEMMA UnclaimedIsUnregistered ==
  ASSUME NEW entries \in SUBSET Entry, NEW n \in Names
  PROVE  Load(entries)[n] = NoMachine <=> Claims(entries, n) = {}
<1>1. ASSUME Claims(entries, n) # {}
      PROVE  Load(entries)[n] # NoMachine
  <2>1. FirstClaim(entries, n) \in Claims(entries, n)
    BY <1>1, FirstClaimIsLeast, EntriesAreStamped
  <2>2. /\ FirstClaim(entries, n).row \in Row
        /\ WellFormed(FirstClaim(entries, n).row)
    BY <2>1 DEF Claims, Entry
  <2>3. MachineOf(FirstClaim(entries, n).row, Startup)
          \in MachinesBuiltBy(Adds \cup {Startup})
    BY <2>2, MachineOfType
  <2>4. QED
    BY <1>1, <2>3, RegistryAssumption DEF Load
<1>2. QED
  BY <1>1 DEF Load

(***************************************************************************)
(* A deleted machine does not come back.  Without a claim in the list as   *)
(* well, the next save would bring the machine back into the file.         *)
(***************************************************************************)
NoClaimOnDeleted ==
  \A n \in deleted : Claims(config, n) = {} /\ Claims(disk, n) = {}

LEMMA NextNoClaimOnDeleted ==
  TypeOK /\ Tidy /\ NoClaimOnDeleted /\ [Next]_vars => NoClaimOnDeleted'
<1> SUFFICES ASSUME TypeOK, Tidy, NoClaimOnDeleted, [Next]_vars,
                    NEW n \in deleted'
             PROVE  Claims(config', n) = {} /\ Claims(disk', n) = {}
  BY DEF NoClaimOnDeleted
<1>1. ASSUME config' = config, disk' = disk, deleted' = deleted
      PROVE  Claims(config', n) = {} /\ Claims(disk', n) = {}
  BY <1>1 DEF NoClaimOnDeleted
<1>2. ASSUME NEW a \in Adds, ProbeSucceeds(a)
      PROVE  Claims(config', n) = {} /\ Claims(disk', n) = {}
  <2>1. n \in deleted /\ n # row[a].name /\ n \in Names
    BY <1>2 DEF ProbeSucceeds, TypeOK
  <2>2. Claims(config', n) = {}
    BY <1>2, <2>1, ClaimsAfterAppend DEF NoClaimOnDeleted
  <2>3. disk' = config' \/ disk' = disk
    BY <1>2 DEF ProbeSucceeds, Saved, SaveRaises
  <2>4. QED
    BY <2>1, <2>2, <2>3 DEF NoClaimOnDeleted
<1>3. ASSUME NEW d \in Names, Delete(d)
      PROVE  Claims(config', n) = {} /\ Claims(disk', n) = {}
  <2>1. \/ disk' = config' /\ n \in deleted \cup {d}
        \/ disk' = disk /\ n \in deleted
    BY <1>3 DEF Delete, Saved, SaveRaises
  <2>2. n \in Names
    BY <1>3, <2>1 DEF TypeOK
  <2>3. Claims(config', n) = {}
    BY <1>3, <2>1, <2>2, ClaimsAfterDelete DEF NoClaimOnDeleted
  <2>4. QED
    BY <2>1, <2>3 DEF NoClaimOnDeleted
<1>4. CASE Restart
  BY <1>4 DEF Restart, NoClaimOnDeleted
<1>5. CASE UNCHANGED vars
  BY <1>1, <1>5 DEF vars
<1>6. QED
  BY <1>1, <1>2, <1>3, <1>4, <1>5 DEF Next, AddBegin, AddRefused, ProbeFails

\* A machine whose deletion was acknowledged is not registered by the file
\* again, unless a later machine_add of its name succeeds.
THEOREM DeletionsDurable == ASSUME TidyLists PROVE Spec => []DeletedStaysDeleted
<1>1. Init => NoClaimOnDeleted
  BY DEF Init, NoClaimOnDeleted
<1>2. TypeOK /\ NoClaimOnDeleted => DeletedStaysDeleted
  BY DEF TypeOK, NoClaimOnDeleted, DeletedStaysDeleted, Load
<1>3. Init => Tidy
  BY InitTidy
<1>4. QED
  BY <1>1, <1>2, <1>3, TypeCorrect, NextTidy, NextNoClaimOnDeleted, PTL DEF Spec

(***************************************************************************)
(* Taking turns.  While its machine_add is being probed, a name is in the  *)
(* registry, built by that command and nobody else, and not in the list;   *)
(* a settled name is the same in both.                                     *)
(***************************************************************************)
OwnsItsName ==
  \A a \in Adds : pc[a] = "probing" =>
    /\ WellFormed(row[a])
    /\ machines[row[a].name] = MachineOf(row[a], a)

Agreement ==
  \A n \in Names :
    IF BeingAdded(n)
    THEN Claims(config, n) = {}
    ELSE Load(config)[n] = Anonymous(machines[n])

\* A machine in the registry is not "no machine", whoever built it.
LEMMA BuiltIsSomething ==
  ASSUME TypeOK, NEW a \in Adds, pc[a] = "probing", WellFormed(row[a])
  PROVE  /\ MachineOf(row[a], a) # NoMachine
         /\ MachineOf(row[a], a).by = a
         /\ row[a].name \in Names /\ row[a] \in Row
<1>1. row[a] \in Row /\ row[a].name \in Names
  BY DEF TypeOK
<1>2. MachineOf(row[a], a) \in MachinesBuiltBy(Adds \cup {Startup})
  BY <1>1, MachineOfType
<1>3. QED
  BY <1>1, <1>2, RegistryAssumption DEF MachineOf

\* Two commands never probe one name at a time.
LEMMA OneProbePerName ==
  ASSUME TypeOK, OwnsItsName,
         NEW a \in Adds, NEW b \in Adds, pc[a] = "probing", pc[b] = "probing",
         row[a].name = row[b].name
  PROVE  a = b
BY BuiltIsSomething DEF OwnsItsName

LEMMA NextOwnsItsName ==
  ASSUME ~DeleteDuringAdd
  PROVE  TypeOK /\ OwnsItsName /\ [Next]_vars => OwnsItsName'
<1> SUFFICES ASSUME TypeOK, OwnsItsName, [Next]_vars,
                    NEW b \in Adds, pc'[b] = "probing"
             PROVE  /\ WellFormed(row'[b])
                    /\ machines'[row'[b].name] = MachineOf(row'[b], b)
  BY DEF OwnsItsName
<1> DEFINE Owns == /\ WellFormed(row'[b])
                   /\ machines'[row'[b].name] = MachineOf(row'[b], b)
<1>1. ASSUME pc[b] = "probing", row'[b] = row[b],
             machines'[row[b].name] = machines[row[b].name]
      PROVE  Owns
  BY <1>1 DEF OwnsItsName
<1>2. pc[b] = "probing" => row[b].name \in Names /\ machines[row[b].name] # NoMachine
  BY BuiltIsSomething DEF OwnsItsName
<1>3. ASSUME NEW a \in Adds, NEW n \in Names, NEW address \in Addresses,
             AddBegin(a, n, address)
      PROVE  Owns
  <2>1. CASE b = a
    <3>1. row'[b] = AddRow(n, address) /\ AddRow(n, address).name = n
      BY <1>3, <2>1 DEF AddBegin, TypeOK, AddRow
    <3>2. machines'[n] = MachineOf(AddRow(n, address), a)
      BY <1>3 DEF AddBegin, TypeOK
    <3>3. WellFormed(AddRow(n, address))
      BY <1>3 DEF AddBegin, Acceptable
    <3>4. QED
      BY <2>1, <3>1, <3>2, <3>3
  <2>2. CASE b # a
    <3>1. pc[b] = "probing" /\ row'[b] = row[b]
      BY <1>3, <2>2 DEF AddBegin, TypeOK
    <3>2. machines[n] = NoMachine
      BY <1>3 DEF AddBegin, Acceptable, AddRow
    <3>3. machines'[row[b].name] = machines[row[b].name]
      BY <1>2, <1>3, <3>1, <3>2 DEF AddBegin, TypeOK
    <3>4. QED
      BY <1>1, <3>1, <3>3
  <2>3. QED
    BY <2>1, <2>2
<1>4. ASSUME NEW a \in Adds, NEW n \in Names, NEW address \in Addresses,
             AddRefused(a, n, address)
      PROVE  Owns
  <2>1. pc[b] = "probing" /\ row'[b] = row[b] /\ machines' = machines
    BY <1>4 DEF AddRefused, TypeOK
  <2>2. QED
    BY <1>1, <2>1
<1>5. ASSUME NEW a \in Adds, ProbeFails(a)
      PROVE  Owns
  <2>1. b # a /\ pc[b] = "probing" /\ row'[b] = row[b] /\ pc[a] = "probing"
    BY <1>5 DEF ProbeFails, TypeOK
  <2>2. row[b].name # row[a].name
    BY <2>1, OneProbePerName
  <2>3. machines'[row[b].name] = machines[row[b].name]
    BY <1>2, <1>5, <2>1, <2>2 DEF ProbeFails, TypeOK
  <2>4. QED
    BY <1>1, <2>1, <2>3
<1>6. ASSUME NEW a \in Adds, ProbeSucceeds(a)
      PROVE  Owns
  <2>1. pc[b] = "probing" /\ row' = row /\ machines' = machines
    BY <1>6 DEF ProbeSucceeds, TypeOK
  <2>2. QED
    BY <1>1, <2>1
<1>7. ASSUME NEW n \in Names, Delete(n)
      PROVE  Owns
  <2>1. pc[b] = "probing" /\ row' = row /\ ~BeingAdded(n)
    BY <1>7 DEF Delete
  <2>2. row[b].name # n
    BY <2>1 DEF BeingAdded
  <2>3. machines'[row[b].name] = machines[row[b].name]
    BY <1>2, <1>7, <2>1, <2>2 DEF Delete, TypeOK
  <2>4. QED
    BY <1>1, <2>1, <2>3
<1>8. ASSUME Restart PROVE FALSE
  BY <1>8 DEF Restart
<1>9. CASE UNCHANGED vars
  BY <1>1, <1>9 DEF vars
<1>10. QED
  BY <1>3, <1>4, <1>5, <1>6, <1>7, <1>8, <1>9 DEF Next

\* A registry read from a list is the same without the builders.
LEMMA LoadedIsAnonymous ==
  ASSUME NEW entries \in SUBSET Entry, NEW n \in Names
  PROVE  Anonymous(Load(entries)[n]) = Load(entries)[n]
<1>1. Load(entries)[n] \in MachinesBuiltBy({Startup}) \cup {NoMachine}
  BY LoadType, EntriesAreStamped
<1>2. QED
  BY <1>1 DEF Anonymous, MachinesBuiltBy

\* Only the name of the row appended, or deleted, is loaded differently.
LEMMA LoadFollowsClaims ==
  ASSUME NEW c, NEW d, NEW n \in Names, Claims(c, n) = Claims(d, n)
  PROVE  Load(c)[n] = Load(d)[n]
BY DEF Load, FirstClaim

\* The list after the append of a name no row claims.
LEMMA LoadAfterAppend ==
  ASSUME NEW a \in Adds, TypeOK, ProbeSucceeds(a), WellFormed(row[a]),
         Claims(config, row[a].name) = {}
  PROVE  Load(config')[row[a].name] = MachineOf(row[a], Startup)
<1> DEFINE n == row[a].name
           new == [at |-> length, by |-> a, row |-> row[a]]
<1>1. n \in Names
  BY DEF ProbeSucceeds, TypeOK
<1>2. Claims(config', n) = {new}
  BY DEF ProbeSucceeds, Claims
<1>3. new.at <= new.at
  BY DEF TypeOK
<1>4. FirstClaim(config', n) = new
  BY <1>2, <1>3 DEF FirstClaim
<1>5. QED
  BY <1>1, <1>2, <1>4 DEF Load

LEMMA NextAgreement ==
  ASSUME ~DeleteDuringAdd
  PROVE  TypeOK /\ Tidy /\ OwnsItsName /\ Agreement /\ [Next]_vars => Agreement'
<1> DEFINE Agrees(n) == IF BeingAdded(n)
                        THEN Claims(config, n) = {}
                        ELSE Load(config)[n] = Anonymous(machines[n])
<1> SUFFICES ASSUME TypeOK, Tidy, OwnsItsName, Agreement, [Next]_vars,
                    NEW m \in Names
             PROVE  Agrees(m)'
  BY DEF Agreement
<1>1. Agrees(m)
  BY DEF Agreement
<1>2. ASSUME Claims(config', m) = Claims(config, m), machines'[m] = machines[m],
             BeingAdded(m)' <=> BeingAdded(m)
      PROVE  Agrees(m)'
  BY <1>1, <1>2, LoadFollowsClaims
<1>3. ASSUME NEW a \in Adds, NEW n \in Names, NEW address \in Addresses,
             AddBegin(a, n, address)
      PROVE  Agrees(m)'
  <2>1. /\ pc'[a] = "probing" /\ row'[a].name = n
        /\ pc[a] # "probing"
        /\ \A b \in Adds \ {a} : pc'[b] = pc[b] /\ row'[b] = row[b]
    BY <1>3 DEF AddBegin, TypeOK, AddRow
  <2>2. CASE m = n
    <3>1. machines[n] = NoMachine
      BY <1>3 DEF AddBegin, Acceptable, AddRow
    <3>2. ~BeingAdded(n)
      BY <3>1, BuiltIsSomething DEF OwnsItsName, BeingAdded
    <3>3. Load(config)[n] = NoMachine
      BY <1>1, <2>2, <3>1, <3>2 DEF Anonymous
    <3>4. Claims(config, n) = {}
      BY <3>3, UnclaimedIsUnregistered DEF TypeOK
    <3>5. config' = config
      BY <1>3 DEF AddBegin
    <3>6. BeingAdded(m)'
      BY <2>1, <2>2 DEF BeingAdded
    <3>7. QED
      BY <2>2, <3>4, <3>5, <3>6
  <2>3. CASE m # n
    <3>1. machines'[m] = machines[m] /\ config' = config
      BY <1>3, <2>3 DEF AddBegin, TypeOK
    <3>2. BeingAdded(m)' <=> BeingAdded(m)
      BY <2>1, <2>3 DEF BeingAdded
    <3>3. QED
      BY <1>2, <3>1, <3>2
  <2>4. QED
    BY <2>2, <2>3
<1>4. ASSUME NEW a \in Adds, NEW n \in Names, NEW address \in Addresses,
             AddRefused(a, n, address)
      PROVE  Agrees(m)'
  <2>1. /\ machines' = machines /\ config' = config
        /\ pc[a] # "probing" /\ pc'[a] # "probing"
        /\ \A b \in Adds \ {a} : pc'[b] = pc[b] /\ row'[b] = row[b]
    BY <1>4 DEF AddRefused, TypeOK
  <2>2. BeingAdded(m)' <=> BeingAdded(m)
    BY <2>1 DEF BeingAdded
  <2>3. QED
    BY <1>2, <2>1, <2>2
<1>5. ASSUME NEW a \in Adds, ProbeFails(a)
      PROVE  Agrees(m)'
  <2>1. /\ pc[a] = "probing" /\ pc'[a] # "probing" /\ row' = row /\ config' = config
        /\ \A b \in Adds \ {a} : pc'[b] = pc[b]
    BY <1>5 DEF ProbeFails, TypeOK
  <2>2. CASE m = row[a].name
    <3>1. Claims(config, m) = {}
      BY <1>1, <2>1, <2>2 DEF BeingAdded
    <3>2. Load(config')[m] = NoMachine
      BY <2>1, <3>1 DEF Load
    <3>3. machines'[m] = NoMachine
      BY <1>5, <2>2 DEF ProbeFails, TypeOK
    <3>4. ~BeingAdded(m)'
      BY <2>1, <2>2, OneProbePerName DEF BeingAdded
    <3>5. QED
      BY <3>2, <3>3, <3>4 DEF Anonymous
  <2>3. CASE m # row[a].name
    <3>1. machines'[m] = machines[m]
      BY <1>5, <2>3 DEF ProbeFails, TypeOK
    <3>2. BeingAdded(m)' <=> BeingAdded(m)
      BY <2>1, <2>3 DEF BeingAdded
    <3>3. QED
      BY <1>2, <2>1, <3>1, <3>2
  <2>4. QED
    BY <2>2, <2>3
<1>6. ASSUME NEW a \in Adds, ProbeSucceeds(a)
      PROVE  Agrees(m)'
  <2>1. /\ pc[a] = "probing" /\ pc'[a] # "probing"
        /\ row' = row /\ machines' = machines
        /\ \A b \in Adds \ {a} : pc'[b] = pc[b]
    BY <1>6 DEF ProbeSucceeds, TypeOK
  <2>2. CASE m = row[a].name
    <3>1. Claims(config, m) = {}
      BY <1>1, <2>1, <2>2 DEF BeingAdded
    <3>2. WellFormed(row[a]) /\ machines[m] = MachineOf(row[a], a)
      BY <2>1, <2>2 DEF OwnsItsName
    <3>3. Load(config')[m] = MachineOf(row[a], Startup)
      BY <1>6, <2>2, <3>1, <3>2, LoadAfterAppend
    <3>4. Anonymous(MachineOf(row[a], a)) = MachineOf(row[a], Startup)
      BY <2>1, <3>2, BuiltIsSomething DEF Anonymous, MachineOf
    <3>5. ~BeingAdded(m)'
      BY <2>1, <2>2, OneProbePerName DEF BeingAdded
    <3>6. QED
      BY <2>1, <3>2, <3>3, <3>4, <3>5
  <2>3. CASE m # row[a].name
    <3>1. Claims(config', m) = Claims(config, m)
      BY <1>6, <2>3, ClaimsAfterAppend
    <3>2. BeingAdded(m)' <=> BeingAdded(m)
      BY <2>1, <2>3 DEF BeingAdded
    <3>3. QED
      BY <1>2, <2>1, <3>1, <3>2
  <2>4. QED
    BY <2>2, <2>3
<1>7. ASSUME NEW n \in Names, Delete(n)
      PROVE  Agrees(m)'
  <2>1. /\ ~BeingAdded(n) /\ row' = row
        /\ \A b \in Adds : pc'[b] = "probing" <=> pc[b] = "probing"
    BY <1>7 DEF Delete
  <2>2. BeingAdded(m)' <=> BeingAdded(m)
    BY <2>1 DEF BeingAdded
  <2>3. CASE m = n
    <3>1. Claims(config', m) = {}
      BY <1>7, <2>3, ClaimsAfterDelete
    <3>2. Load(config')[m] = NoMachine
      BY <3>1 DEF Load
    <3>3. machines'[m] = NoMachine
      BY <1>7, <2>3 DEF Delete, TypeOK
    <3>4. QED
      BY <2>1, <2>2, <2>3, <3>2, <3>3 DEF Anonymous
  <2>4. CASE m # n
    <3>1. Claims(config', m) = Claims(config, m)
      BY <1>7, <2>4, ClaimsAfterDelete
    <3>2. machines'[m] = machines[m]
      BY <1>7, <2>4 DEF Delete, TypeOK
    <3>3. QED
      BY <1>2, <2>2, <3>1, <3>2
  <2>5. QED
    BY <2>3, <2>4
<1>8. ASSUME Restart
      PROVE  Agrees(m)'
  <2>1. ~BeingAdded(m)'
    BY <1>8 DEF Restart, BeingAdded
  <2>2. Load(config')[m] = Anonymous(machines'[m])
    BY <1>8, LoadedIsAnonymous DEF Restart, TypeOK
  <2>3. QED
    BY <2>1, <2>2
<1>9. CASE UNCHANGED vars
  <2>1. BeingAdded(m)' <=> BeingAdded(m)
    BY <1>9 DEF vars, BeingAdded
  <2>2. QED
    BY <1>2, <1>9, <2>1 DEF vars
<1>10. QED
  BY <1>3, <1>4, <1>5, <1>6, <1>7, <1>8, <1>9 DEF Next

\* Memory and configuration agree at every step, failed saves, rejected probes
\* and restarts included, when no name is deleted while it is being probed and
\* no configured name is padded.
THEOREM RegistriesAgree ==
  ASSUME TidyLists, ~DeleteDuringAdd PROVE Spec => []MemoryMatchesConfig
<1>1. Init => Tidy
  BY InitTidy
<1>2. Init => OwnsItsName
  BY DEF Init, OwnsItsName
<1>3. Init => Agreement
  <2> SUFFICES ASSUME Init, NEW n \in Names
               PROVE  ~BeingAdded(n) /\ Load(config)[n] = Anonymous(machines[n])
    BY DEF Agreement
  <2>1. ~BeingAdded(n)
    BY DEF Init, BeingAdded
  <2>2. config \in SUBSET Entry /\ machines = Load(config)
    BY RegistryAssumption DEF Init
  <2>3. QED
    BY <2>1, <2>2, LoadedIsAnonymous
<1>4. Agreement => MemoryMatchesConfig
  BY DEF Agreement, MemoryMatchesConfig, Load
<1>5. QED
  BY <1>1, <1>2, <1>3, <1>4, TypeCorrect, NextTidy, NextOwnsItsName,
     NextAgreement, PTL DEF Spec

\* Under the same condition the rollback of a rejected probe finds its machine,
\* so no machine_add ends with an exception nobody catches.
THEOREM NoAddCrashes == ASSUME ~DeleteDuringAdd PROVE Spec => []NoCrashedAdd
<1>1. Init => OwnsItsName /\ NoCrashedAdd
  BY DEF Init, OwnsItsName, NoCrashedAdd
<1>2. TypeOK /\ OwnsItsName /\ NoCrashedAdd /\ [Next]_vars => NoCrashedAdd'
  <2> SUFFICES ASSUME TypeOK, OwnsItsName, NoCrashedAdd, [Next]_vars, NEW b \in Adds
               PROVE  pc'[b] # "crashed"
    BY DEF NoCrashedAdd
  <2>1. ASSUME NEW a \in Adds, ProbeFails(a)
        PROVE  pc'[b] # "crashed"
    <3>1. machines[row[a].name] # NoMachine
      BY <2>1, BuiltIsSomething DEF ProbeFails, OwnsItsName
    <3>2. QED
      BY <2>1, <3>1 DEF ProbeFails, TypeOK, NoCrashedAdd
  <2>2. ASSUME NEW a \in Adds, ProbeSucceeds(a)
        PROVE  pc'[b] # "crashed"
    BY <2>2 DEF ProbeSucceeds, TypeOK, NoCrashedAdd
  <2>3. ASSUME NEW a \in Adds, NEW n \in Names, NEW address \in Addresses,
               AddBegin(a, n, address) \/ AddRefused(a, n, address)
        PROVE  pc'[b] # "crashed"
    BY <2>3 DEF AddBegin, AddRefused, TypeOK, NoCrashedAdd
  <2>4. ASSUME NEW n \in Names, Delete(n)
        PROVE  pc'[b] # "crashed"
    BY <2>4 DEF Delete, NoCrashedAdd
  <2>5. CASE Restart
    BY <2>5 DEF Restart, NoCrashedAdd
  <2>6. CASE UNCHANGED vars
    BY <2>6 DEF vars, NoCrashedAdd
  <2>7. QED
    BY <2>1, <2>2, <2>3, <2>4, <2>5, <2>6 DEF Next
<1>3. QED
  BY <1>1, <1>2, TypeCorrect, NextOwnsItsName, PTL DEF Spec

\* Under the same condition a rejected probe takes away no machine but its own.
THEOREM RollbackIsOwn ==
  ASSUME ~DeleteDuringAdd PROVE Spec => RollbackTakesOnlyItsOwn
<1> DEFINE Ends(a) == pc[a] = "probing" /\ pc'[a] # "probing" /\ pc'[a] # "lost"
           Kept == \A a \in Adds, n \in Names :
                     Ends(a) /\ machines[n] # NoMachine /\ machines[n].by # a
                       => machines'[n] = machines[n]
<1>1. Init => OwnsItsName
  BY DEF Init, OwnsItsName
<1>2. TypeOK /\ OwnsItsName /\ [Next]_vars => [Kept]_vars
  <2> SUFFICES ASSUME TypeOK, OwnsItsName, Next,
                      NEW b \in Adds, NEW m \in Names, Ends(b),
                      machines[m] # NoMachine, machines[m].by # b
               PROVE  machines'[m] = machines[m]
    OBVIOUS
  <2>1. ASSUME NEW a \in Adds, ProbeFails(a)
        PROVE  machines'[m] = machines[m]
    <3>1. a = b
      BY <2>1 DEF ProbeFails, TypeOK
    <3>2. machines[row[b].name].by = b
      BY BuiltIsSomething DEF OwnsItsName
    <3>3. m # row[b].name
      BY <3>2
    <3>4. QED
      BY <2>1, <3>1, <3>3 DEF ProbeFails, TypeOK
  <2>2. ASSUME NEW a \in Adds, ProbeSucceeds(a)
        PROVE  machines'[m] = machines[m]
    BY <2>2 DEF ProbeSucceeds
  <2>3. ASSUME NEW a \in Adds, NEW n \in Names, NEW address \in Addresses,
               AddBegin(a, n, address) \/ AddRefused(a, n, address)
        PROVE  FALSE
    BY <2>3 DEF AddBegin, AddRefused, TypeOK
  <2>4. ASSUME NEW n \in Names, Delete(n)
        PROVE  FALSE
    BY <2>4 DEF Delete
  <2>5. ASSUME Restart PROVE FALSE
    BY <2>5 DEF Restart
  <2>6. QED
    BY <2>1, <2>2, <2>3, <2>4, <2>5 DEF Next
<1>3. [][Kept]_vars => RollbackTakesOnlyItsOwn
  BY PTL DEF RollbackTakesOnlyItsOwn
<1>4. QED
  BY <1>1, <1>2, <1>3, TypeCorrect, NextOwnsItsName, PTL DEF Spec
================================================================================
