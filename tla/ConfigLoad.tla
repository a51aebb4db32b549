------------------------------- MODULE ConfigLoad -------------------------------
(***************************************************************************)
(* Reading the `machines` setting at plugin load: MachineManager.__init__  *)
(* walks the list and registers each row or records an error for it.       *)
(***************************************************************************)
EXTENDS MachineRows, FiniteSets

CONSTANTS
  RowPool,    \* the rows the list is made of
  MaxRows     \* bound on the length of the list

ASSUME LoadAssumption ==
  /\ RowPool \subseteq Row
  /\ MaxRows \in Nat
  /\ NoMachine \notin MachinesBuiltBy({Startup})

VARIABLES
  rows,       \* the configured list
  index,      \* how many rows have been read
  machines,   \* MachineManager._machines
  errors      \* the row numbers of MachineManager._errors

vars == <<rows, index, machines, errors>>

TypeOK ==
  /\ \E k \in 0..MaxRows : rows \in [1..k -> RowPool] /\ index \in 0..k
  /\ machines \in [Names -> MachinesBuiltBy({Startup}) \cup {NoMachine}]
  /\ errors \subseteq 1..index

Init ==
  /\ \E k \in 0..MaxRows : rows \in [1..k -> RowPool]
  /\ index = 0
  /\ machines = [n \in Names |-> NoMachine]
  /\ errors = {}

\* _add_machine on the next row, registered.
AcceptRow ==
  /\ index + 1 \in DOMAIN rows
  /\ LET row == rows[index + 1] IN
       /\ Acceptable(row, machines)
       /\ machines' = [machines EXCEPT ![row.name] = MachineOf(row, Startup)]
  /\ index' = index + 1
  /\ UNCHANGED <<rows, errors>>

\* Fault: the message is numbered one row too far.
RejectRowMisnumbered ==
  /\ index + 1 \in DOMAIN rows
  /\ ~Acceptable(rows[index + 1], machines)
  /\ errors' = errors \cup {index + 2}
  /\ index' = index + 1
  /\ UNCHANGED <<rows, machines>>

\* Fault: a bad row is skipped without an error.
RejectRowSilently ==
  /\ index + 1 \in DOMAIN rows
  /\ ~Acceptable(rows[index + 1], machines)
  /\ index' = index + 1
  /\ UNCHANGED <<rows, machines, errors>>

\* _add_machine on the next row, a MachineError recorded under its number.
RejectRow ==
  /\ index + 1 \in DOMAIN rows
  /\ ~Acceptable(rows[index + 1], machines)
  /\ errors' = errors \cup {index + 1}
  /\ index' = index + 1
  /\ UNCHANGED <<rows, machines>>

Next == AcceptRow \/ RejectRow

Spec == Init /\ [][Next]_vars

--------------------------------------------------------------------------------
\* The rows read so far, as the stamped entries Load works on.
RowsRead == {[at |-> i, row |-> rows[i]] : i \in 1..index}

(***************************************************************************)
(* At every turn of the loop the registry is Load of the rows read: the    *)
(* first acceptable row of a name wins, whatever bad or duplicate rows     *)
(* stand around it.                                                        *)
(***************************************************************************)
LoopComputesLoad == machines = Load(RowsRead)

(***************************************************************************)
(* "A single bad entry does not disable the whole plugin": every row read  *)
(* is either the source of exactly one registered machine or the source of *)
(* exactly one error, so nothing is dropped silently.                      *)
(***************************************************************************)
EveryRowAccounted ==
  index = Cardinality(errors)
          + Cardinality({n \in Names : machines[n] # NoMachine})

================================================================================
