---------------------------- MODULE ConfigLoadProofs ----------------------------
(***************************************************************************)
(* Theorems about ConfigLoad and PluginStart, for every list of rows and    *)
(* all that the file may hold under the settings.                          *)
(***************************************************************************)
EXTENDS PluginStart, MachineRowsTheorems, FiniteSetTheorems

LEMMA LoadTypeInvariant == Spec => []TypeOK
<1>1. Init => TypeOK
  <2> SUFFICES ASSUME Init PROVE TypeOK
    OBVIOUS
  <2>1. PICK k \in 0..MaxRows : rows \in [1..k -> RowPool]
    BY DEF Init
  <2>2. index \in 0..k /\ errors \subseteq 1..index
    BY LoadAssumption DEF Init
  <2>3. machines \in [Names -> MachinesBuiltBy({Startup}) \cup {NoMachine}]
    BY DEF Init
  <2>4. QED
    BY <2>1, <2>2, <2>3 DEF TypeOK
<1>2. TypeOK /\ [Next]_vars => TypeOK'
  <2> SUFFICES ASSUME TypeOK, [Next]_vars PROVE TypeOK'
    OBVIOUS
  <2>1. PICK k \in 0..MaxRows : rows \in [1..k -> RowPool] /\ index \in 0..k
    BY DEF TypeOK
  <2>2. ASSUME AcceptRow PROVE TypeOK'
    <3>1. index + 1 \in 0..k /\ rows[index + 1] \in Row
      BY <2>1, <2>2, LoadAssumption DEF AcceptRow
    <3>2. rows' \in [1..k -> RowPool] /\ index' \in 0..k
      BY <2>1, <2>2, <3>1 DEF AcceptRow
    <3>3. MachineOf(rows[index + 1], Startup) \in MachinesBuiltBy({Startup})
      BY <2>2, <3>1, MachineOfType DEF AcceptRow, Acceptable
    <3>4. machines' \in [Names -> MachinesBuiltBy({Startup}) \cup {NoMachine}]
      BY <2>2, <3>3 DEF AcceptRow, TypeOK
    <3>5. errors' \subseteq 1..index'
      <4>1. errors' \subseteq 1..index /\ index' = index + 1
        BY <2>2 DEF AcceptRow, TypeOK
      <4>2. QED
        BY <2>1, <4>1
    <3>6. QED
      BY <3>2, <3>4, <3>5 DEF TypeOK
  <2>3. ASSUME RejectRow PROVE TypeOK'
    <3>1. rows' \in [1..k -> RowPool] /\ index' \in 0..k
      BY <2>1, <2>3 DEF RejectRow
    <3>2. errors' \subseteq 1..index'
      <4>1. /\ errors' = errors \cup {index + 1} /\ index' = index + 1
            /\ errors \subseteq 1..index
        BY <2>3 DEF RejectRow, TypeOK
      <4>2. QED
        BY <2>1, <4>1
    <3>3. QED
      BY <2>3, <3>1, <3>2 DEF RejectRow, TypeOK
  <2>4. CASE UNCHANGED vars
    BY <2>4 DEF vars, TypeOK
  <2>5. QED
    BY <2>2, <2>3, <2>4 DEF Next
<1>3. QED
  BY <1>1, <1>2, PTL DEF Spec

\* The rows read are stamped with their numbers, and reading one adds it.
LEMMA RowsReadStamped ==
  ASSUME TypeOK
  PROVE  /\ StampedRows(RowsRead)
         /\ index \in Nat
         /\ \A e \in RowsRead : e.at <= index /\ e.row = rows[e.at]
<1>1. PICK k \in 0..MaxRows : rows \in [1..k -> RowPool] /\ index \in 0..k
  BY DEF TypeOK
<1>2. \A i \in 1..index : i \in Nat /\ i <= index /\ rows[i] \in Row
  BY <1>1, LoadAssumption
<1>3. QED
  BY <1>1, <1>2 DEF RowsRead, StampedRows

LEMMA NextRowsRead ==
  ASSUME TypeOK, index + 1 \in DOMAIN rows, rows' = rows, index' = index + 1
  PROVE  /\ RowsRead' = RowsRead \cup {[at |-> index + 1, row |-> rows[index + 1]]}
         /\ rows[index + 1] \in Row
<1>1. PICK k \in 0..MaxRows : rows \in [1..k -> RowPool] /\ index \in 0..k
  BY DEF TypeOK
<1>2. 1..index' = 1..index \cup {index + 1}
  BY <1>1
<1>3. QED
  BY <1>1, <1>2, LoadAssumption DEF RowsRead

\* At every turn of the loop the registry is Load of the rows read so far.
THEOREM LoopIsLoad == Spec => []LoopComputesLoad
<1>1. Init => LoopComputesLoad
  <2> SUFFICES ASSUME Init PROVE LoopComputesLoad
    OBVIOUS
  <2>1. RowsRead = {}
    BY DEF Init, RowsRead
  <2>2. QED
    BY <2>1 DEF Init, LoopComputesLoad, Load, Claims
<1>2. TypeOK /\ TypeOK' /\ LoopComputesLoad /\ [Next]_vars => LoopComputesLoad'
  <2> SUFFICES ASSUME TypeOK, TypeOK', LoopComputesLoad, [Next]_vars
               PROVE  LoopComputesLoad'
    OBVIOUS
  <2> DEFINE new == [at |-> index + 1, row |-> rows[index + 1]]
  <2>1. ASSUME NEW n \in Names, Claims(RowsRead', n) = Claims(RowsRead, n)
        PROVE  Load(RowsRead')[n] = machines[n]
    BY <2>1 DEF LoopComputesLoad, Load, FirstClaim
  <2>2. machines' = [n \in Names |-> machines'[n]]
    BY DEF TypeOK
  <2>3. Load(RowsRead') = [n \in Names |-> Load(RowsRead')[n]]
    BY DEF Load
  <2>4. ASSUME AcceptRow PROVE LoopComputesLoad'
    <3> DEFINE name == new.row.name
    <3>1. /\ RowsRead' = RowsRead \cup {new} /\ new.row \in Row
          /\ WellFormed(new.row) /\ machines[name] = NoMachine
      BY <2>4, NextRowsRead DEF AcceptRow, Acceptable
    <3>2. name \in Names
      BY <3>1 DEF Row, WellFormed
    <3>3. Claims(RowsRead, name) = {}
      <4>1. ASSUME Claims(RowsRead, name) # {} PROVE FALSE
        <5>1. FirstClaim(RowsRead, name) \in Claims(RowsRead, name)
          BY <4>1, RowsReadStamped, FirstClaimIsLeast
        <5>2. MachineOf(FirstClaim(RowsRead, name).row, Startup)
                \in MachinesBuiltBy({Startup})
          BY <5>1, RowsReadStamped, MachineOfType DEF Claims, StampedRows
        <5>3. machines[name] # NoMachine
          BY <3>2, <4>1, <5>2, LoadAssumption DEF LoopComputesLoad, Load
        <5>4. QED
          BY <3>1, <5>3
      <4>2. QED
        BY <4>1
    <3>4. Claims(RowsRead', name) = {new} /\ new.at <= new.at
      BY <3>1, <3>3, RowsReadStamped DEF Claims
    <3>5. FirstClaim(RowsRead', name) = new
      BY <3>4 DEF FirstClaim
    <3>6. Load(RowsRead')[name] = machines'[name]
      BY <2>4, <3>2, <3>4, <3>5 DEF AcceptRow, Load, TypeOK
    <3>7. ASSUME NEW n \in Names, n # name
          PROVE  Load(RowsRead')[n] = machines'[n]
      <4>1. Claims(RowsRead', n) = Claims(RowsRead, n)
        BY <3>1, <3>7 DEF Claims
      <4>2. machines'[n] = machines[n]
        BY <2>4, <3>7 DEF AcceptRow, TypeOK
      <4>3. QED
        BY <2>1, <4>1, <4>2
    <3>8. QED
      BY <2>2, <2>3, <3>6, <3>7 DEF LoopComputesLoad
  <2>5. ASSUME RejectRow PROVE LoopComputesLoad'
    <3>1. RowsRead' = RowsRead \cup {new} /\ new.row \in Row /\ machines' = machines
      BY <2>5, NextRowsRead DEF RejectRow
    <3>2. ASSUME NEW n \in Names
          PROVE  Load(RowsRead')[n] = machines[n]
      <4>1. CASE ~(WellFormed(new.row) /\ new.row.name = n)
        <5>1. Claims(RowsRead', n) = Claims(RowsRead, n)
          BY <3>1, <4>1 DEF Claims
        <5>2. QED
          BY <2>1, <5>1
      <4>2. CASE WellFormed(new.row) /\ new.row.name = n
        <5> DEFINE old == FirstClaim(RowsRead, n)
                   first == FirstClaim(RowsRead', n)
        <5>1. machines[n] # NoMachine
          BY <2>5, <4>2 DEF RejectRow, Acceptable
        <5>2. Claims(RowsRead, n) # {}
          BY <5>1 DEF LoopComputesLoad, Load
        <5>3. /\ old \in Claims(RowsRead, n)
              /\ \A f \in Claims(RowsRead, n) : old.at <= f.at
          BY <5>2, RowsReadStamped, FirstClaimIsLeast
        <5>4. Claims(RowsRead', n) = Claims(RowsRead, n) \cup {new}
          BY <3>1, <4>2 DEF Claims
        <5>5. /\ first \in Claims(RowsRead', n)
              /\ \A f \in Claims(RowsRead', n) : first.at <= f.at
          <6>1. StampedRows(RowsRead')
            BY <3>1, RowsReadStamped DEF StampedRows
          <6>2. QED
            BY <5>2, <5>4, <6>1, FirstClaimIsLeast
        <5>6. old.at \in Nat /\ old.at <= index /\ first.at <= old.at
          BY <5>3, <5>4, <5>5, RowsReadStamped DEF Claims, StampedRows
        <5>7. first \in Claims(RowsRead, n)
          BY <5>4, <5>5, <5>6, RowsReadStamped
        <5>8. first.at = old.at
          BY <5>3, <5>6, <5>7, RowsReadStamped DEF Claims, StampedRows
        <5>9. first.row = old.row
          BY <5>3, <5>7, <5>8, RowsReadStamped DEF Claims
        <5>10. QED
          BY <5>2, <5>4, <5>9 DEF LoopComputesLoad, Load
      <4>3. QED
        BY <4>1, <4>2
    <3>3. QED
      BY <2>2, <2>3, <3>1, <3>2 DEF LoopComputesLoad
  <2>6. CASE UNCHANGED vars
    BY <2>6 DEF vars, LoopComputesLoad, RowsRead
  <2>7. QED
    BY <2>4, <2>5, <2>6 DEF Next
<1>3. QED
  BY <1>1, <1>2, LoadTypeInvariant, PTL DEF Spec

\* Every row read has either registered a machine or left an error.
THEOREM RowsAreAccounted == Spec => []EveryRowAccounted
<1> DEFINE Registered == {n \in Names : machines[n] # NoMachine}
           Counted == IsFiniteSet(errors) /\ IsFiniteSet(Registered) /\ EveryRowAccounted
<1>1. Init => Counted
  <2> SUFFICES ASSUME Init PROVE Counted
    OBVIOUS
  <2>1. errors = {} /\ Registered = {} /\ index = 0
    BY DEF Init
  <2>2. QED
    BY <2>1, FS_EmptySet DEF EveryRowAccounted
<1>2. TypeOK /\ Counted /\ [Next]_vars => Counted'
  <2> SUFFICES ASSUME TypeOK, Counted, [Next]_vars PROVE Counted'
    OBVIOUS
  <2>1. /\ index \in Nat /\ Cardinality(errors) \in Nat /\ Cardinality(Registered) \in Nat
        /\ index = Cardinality(errors) + Cardinality(Registered)
        /\ index + 1 \notin errors /\ errors \subseteq 1..index
    BY RowsReadStamped, FS_CardinalityType DEF TypeOK, EveryRowAccounted
  <2>2. CASE AcceptRow
    <3> DEFINE row == rows[index + 1]
    <3>1. /\ row \in Row /\ WellFormed(row) /\ machines[row.name] = NoMachine
          /\ machines' = [machines EXCEPT ![row.name] = MachineOf(row, Startup)]
          /\ errors' = errors /\ index' = index + 1
      BY <2>2, NextRowsRead DEF AcceptRow, Acceptable
    <3>2. row.name \in Names /\ MachineOf(row, Startup) # NoMachine
      BY <3>1, MachineOfType, LoadAssumption DEF Row, WellFormed
    <3>3. Registered' = Registered \cup {row.name} /\ row.name \notin Registered
      BY <3>1, <3>2 DEF TypeOK
    <3>4. IsFiniteSet(Registered') /\ Cardinality(Registered') = Cardinality(Registered) + 1
      BY <3>3, FS_AddElement
    <3>5. QED
      BY <2>1, <3>1, <3>4 DEF EveryRowAccounted
  <2>3. CASE RejectRow
    <3>1. errors' = errors \cup {index + 1} /\ index' = index + 1 /\ machines' = machines
      BY <2>3 DEF RejectRow
    <3>2. IsFiniteSet(errors') /\ Cardinality(errors') = Cardinality(errors) + 1
      BY <2>1, <3>1, FS_AddElement
    <3>3. QED
      BY <2>1, <3>1, <3>2 DEF EveryRowAccounted
  <2>4. CASE UNCHANGED vars
    BY <2>4 DEF vars, EveryRowAccounted
  <2>5. QED
    BY <2>2, <2>3, <2>4 DEF Next
<1>3. Counted => EveryRowAccounted
  OBVIOUS
<1> HIDE DEF Counted
<1>4. QED
  BY <1>1, <1>2, <1>3, LoadTypeInvariant, PTL DEF Spec

--------------------------------------------------------------------------------
\* A clamped number is admissible, and no admissible number is nearer.
LEMMA ConfigIntNearest ==
  ASSUME NEW low \in Int, NEW high \in Int, low <= high, NEW default \in low..high,
         NEW raw \in Raw, raw.kind # "infinite",
         NEW s, s.minimum = low, s.maximum = high, s.default = default
  PROVE  /\ ConfigInt(raw, s) \in low..high
         /\ raw.kind = "number" => \A n \in low..high :
              Distance(ConfigInt(raw, s), raw.value) <= Distance(n, raw.value)
         /\ raw.kind # "number" => ConfigInt(raw, s) = default
<1>1. CASE raw.kind = "number"
  <2>1. raw.value \in Int
    BY <1>1 DEF Raw
  <2>2. ConfigInt(raw, s) = IF raw.value <= low THEN low
                           ELSE IF raw.value <= high THEN raw.value ELSE high
    BY <1>1, <2>1 DEF ConfigInt, Lesser, Greater
  <2>3. QED
    BY <1>1, <2>1, <2>2 DEF Distance, Lesser, Greater
<1>2. CASE raw.kind # "number"
  BY <1>2 DEF ConfigInt
<1>3. QED
  BY <1>1, <1>2

\* The defaults lie within the bounds.
LEMMA DefaultsAdmissible ==
  ASSUME NEW k \in Keys
  PROVE  /\ Setting[k].minimum \in Int /\ Setting[k].maximum \in Int
         /\ Setting[k].minimum <= Setting[k].maximum
         /\ Setting[k].default \in Setting[k].minimum..Setting[k].maximum
BY DEF Keys, Setting

\* Numeric settings are the admissible numbers next to those in the file, or the
\* defaults, and no machine is registered before they are.
THEOREM SettingsAreAsMeant == StartSpec => []SettingsAsMeant
<1> DEFINE Settled == config \in Configs /\ SettingsAsMeant
<1>1. StartInit => Settled
  BY DEF StartInit, Init, SettingsAsMeant
<1>2. Settled /\ [StartNext]_startVars => Settled'
  <2> SUFFICES ASSUME Settled, [StartNext]_startVars PROVE Settled'
    OBVIOUS
  <2>1. CASE ReadSettings
    <3>1. ASSUME NEW k \in Keys
          PROVE  LET admissible == Setting[k].minimum..Setting[k].maximum IN
                   /\ settings'[k] \in admissible
                   /\ IF config'[k].kind = "number"
                      THEN \A n \in admissible : Distance(settings'[k], config'[k].value)
                                                 <= Distance(n, config'[k].value)
                      ELSE settings'[k] = Setting[k].default
      <4>1. /\ config[k] \in Raw /\ config[k].kind # "infinite"
            /\ settings'[k] = ConfigInt(config[k], Setting[k]) /\ config' = config
        BY <2>1, StartAssumption DEF ReadSettings
      <4>2. QED
        BY <4>1, DefaultsAdmissible, ConfigIntNearest
    <3>2. start' = "machines" /\ config' = config
      BY <2>1 DEF ReadSettings
    <3>3. QED
      BY <3>1, <3>2 DEF SettingsAsMeant, Distance, Lesser, Greater
  <2>2. CASE ReadSettingsRaises
    BY <2>2 DEF ReadSettingsRaises, SettingsAsMeant, vars
  <2>3. CASE ReadRow
    BY <2>3 DEF ReadRow, SettingsAsMeant, Distance, Lesser, Greater
  <2>4. CASE UNCHANGED startVars
    BY <2>4 DEF startVars, vars, SettingsAsMeant, Distance, Lesser, Greater
  <2>5. QED
    BY <2>1, <2>2, <2>3, <2>4 DEF StartNext
<1>3. Settled => SettingsAsMeant
  OBVIOUS
<1> HIDE DEF Settled
<1>4. QED
  BY <1>1, <1>2, <1>3, PTL DEF StartSpec

\* initialize reads the rows as ConfigLoad does, so its theorems hold of it.
THEOREM StartReadsRows == StartSpec => Spec
<1>1. StartInit => Init
  BY DEF StartInit
<1>2. [StartNext]_startVars => [Next]_vars
  BY DEF StartNext, ReadSettings, ReadSettingsRaises, ReadRow, startVars
<1>3. QED
  BY <1>1, <1>2, PTL DEF StartSpec, Spec
================================================================================
