---------------------------- MODULE MachineRegistry ----------------------------
(***************************************************************************)
(* The registry of machines at run time: MachineManager._machines, the     *)
(* plugin's configuration list, the file behind it, and the chat commands  *)
(* that change them.  Handlers run on one event loop, so a handler is      *)
(* atomic between two awaits: machine_delete is one step, machine_add is   *)
(* two, with the authentication probe awaited in between.                  *)
(***************************************************************************)
EXTENDS MachineRows, FiniteSets

CONSTANTS
  Adds,              \* machine_add commands; each is issued at most once
  NoRow,             \* the row of a command not issued yet
  InitialConfigs,    \* configuration lists the plugin may be loaded with
  DeleteDuringAdd,   \* a name may be deleted while its add is being probed
  SaveMayFail        \* save_config may raise

Entry == [at : Nat, by : Adds \cup {Startup}, row : Row]

ASSUME RegistryAssumption ==
  /\ Startup \notin Adds
  /\ NoMachine \notin MachinesBuiltBy(Adds \cup {Startup})
  /\ NoRow \notin Row
  /\ DeleteDuringAdd \in BOOLEAN
  /\ SaveMayFail \in BOOLEAN
  /\ \A c \in InitialConfigs :
       /\ c \subseteq Entry
       /\ IsFiniteSet(c)
       /\ \A e \in c : e.by = Startup /\ e.at < Cardinality(c)
       /\ \A e, f \in c : e.at = f.at => e = f

VARIABLES
  machines,   \* MachineManager._machines
  config,     \* self._config["machines"]
  disk,       \* the list as save_config last wrote it
  length,     \* the stamp of the next row appended to the list
  pc,         \* how far each machine_add command has come
  row,        \* the row each machine_add command has built
  deleted     \* history: names whose deletion was acknowledged and that no
              \* command has appended to the list since

vars == <<machines, config, disk, length, pc, row, deleted>>

(***************************************************************************)
(* The life of a machine_add command.  refused, rejected and added are its *)
(* replies; crashed and unsaved are exceptions that leave the handler      *)
(* without one; lost is a restart; undone is a reply of success followed   *)
(* by the deletion of that machine's row.                                  *)
(***************************************************************************)
Phases == {"ready", "probing", "refused", "rejected", "added",
           "crashed", "unsaved", "lost", "undone"}

TypeOK ==
  /\ machines \in [Names -> MachinesBuiltBy(Adds \cup {Startup}) \cup {NoMachine}]
  /\ config \subseteq Entry
  /\ disk \subseteq Entry
  /\ length \in Nat
  /\ pc \in [Adds -> Phases]
  /\ row \in [Adds -> Row \cup {NoRow}]
  /\ \A a \in Adds : pc[a] # "ready" => row[a] \in Row /\ row[a].name \in Names
  /\ deleted \subseteq Names

Init ==
  /\ config \in InitialConfigs
  /\ disk = config
  /\ length = Cardinality(config)
  /\ machines = Load(config)
  /\ pc = [a \in Adds |-> "ready"]
  /\ row = [a \in Adds |-> NoRow]
  /\ deleted = {}

--------------------------------------------------------------------------------
\* The row machine_add builds from its two arguments.
AddRow(n, address) ==
  [name |-> n, padded |-> FALSE, protocol |-> "redfish", address |-> address,
   user |-> "blank", port |-> "number"]

\* machine_delete's test on a row: the raw, unstripped name equals n.
NameMatches(r, n) == r.name = n /\ ~r.padded

\* self._config.save_config(): the file holds the list, or an exception is raised.
Saved == disk' = config'
SaveRaises == SaveMayFail /\ UNCHANGED disk

BeingAdded(n) == \E a \in Adds : pc[a] = "probing" /\ row[a].name = n

\* Fault: the row is appended to the list before the probe.
AddBeginPersisting(a, n, address) ==
  /\ pc[a] = "ready"
  /\ LET r == AddRow(n, address) IN
       /\ Acceptable(r, machines)
       /\ row' = [row EXCEPT ![a] = r]
       /\ machines' = [machines EXCEPT ![n] = MachineOf(r, a)]
       /\ config' = config \cup {[at |-> length, by |-> a, row |-> r]}
  /\ length' = length + 1
  /\ pc' = [pc EXCEPT ![a] = "probing"]
  /\ UNCHANGED <<disk, deleted>>

\* machine_add, up to the await of the probe: validation and registration.
AddBegin(a, n, address) ==
  /\ pc[a] = "ready"
  /\ LET r == AddRow(n, address) IN
       /\ Acceptable(r, machines)
       /\ row' = [row EXCEPT ![a] = r]
       /\ machines' = [machines EXCEPT ![n] = MachineOf(r, a)]
  /\ pc' = [pc EXCEPT ![a] = "probing"]
  /\ UNCHANGED <<config, disk, length, deleted>>

\* machine_add with a row that add_machine refuses: an error reply, no change.
AddRefused(a, n, address) ==
  /\ pc[a] = "ready"
  /\ ~Acceptable(AddRow(n, address), machines)
  /\ row' = [row EXCEPT ![a] = AddRow(n, address)]
  /\ pc' = [pc EXCEPT ![a] = "refused"]
  /\ UNCHANGED <<machines, config, disk, length, deleted>>

\* Fault: a rejected machine is not unregistered.
ProbeFailsKeeping(a) ==
  /\ pc[a] = "probing"
  /\ pc' = [pc EXCEPT ![a] = "rejected"]
  /\ UNCHANGED <<machines, config, disk, length, row, deleted>>

\* The probe raised: unregister whatever now stands under the name and reply.
\* delete_machine raises if nothing does, and no handler is left to catch it.
ProbeFails(a) ==
  /\ pc[a] = "probing"
  /\ LET n == row[a].name IN
       /\ machines' = [machines EXCEPT ![n] = NoMachine]
       /\ pc' = [pc EXCEPT ![a] = IF machines[n] = NoMachine
                                  THEN "crashed" ELSE "rejected"]
  /\ UNCHANGED <<config, disk, length, row, deleted>>

\* Fault: the list is saved before the row is appended to it.
ProbeSucceedsSavingFirst(a) ==
  /\ pc[a] = "probing"
  /\ disk' = config
  /\ config' = config \cup {[at |-> length, by |-> a, row |-> row[a]]}
  /\ length' = length + 1
  /\ pc' = [pc EXCEPT ![a] = "added"]
  /\ deleted' = deleted \ {row[a].name}
  /\ UNCHANGED <<machines, row>>

\* The probe succeeded: append the row, save the list, reply.
ProbeSucceeds(a) ==
  /\ pc[a] = "probing"
  /\ config' = config \cup {[at |-> length, by |-> a, row |-> row[a]]}
  /\ length' = length + 1
  /\ \/ Saved /\ pc' = [pc EXCEPT ![a] = "added"]
     \/ SaveRaises /\ pc' = [pc EXCEPT ![a] = "unsaved"]
  /\ deleted' = deleted \ {row[a].name}
  /\ UNCHANGED <<machines, row>>

\* Fault: only the first row of the name is dropped.
DeleteFirstRow(n) ==
  /\ machines[n] # NoMachine
  /\ DeleteDuringAdd \/ ~BeingAdded(n)
  /\ machines' = [machines EXCEPT ![n] = NoMachine]
  /\ config' = {e \in config : e.row.name = n => \E f \in config :
                                 f.row.name = n /\ f.at < e.at}
  /\ Saved
  /\ deleted' = deleted \cup {n}
  /\ pc' = [a \in Adds |-> IF pc[a] = "added" /\ row[a].name = n
                           THEN "undone" ELSE pc[a]]
  /\ UNCHANGED <<length, row>>

\* machine_delete of a registered name: unregister it, drop its rows, save.
\* (Of any other name it only replies that there is no such machine.)
Delete(n) ==
  /\ machines[n] # NoMachine
  /\ DeleteDuringAdd \/ ~BeingAdded(n)
  /\ machines' = [machines EXCEPT ![n] = NoMachine]
  /\ config' = {e \in config : ~NameMatches(e.row, n)}
  /\ \/ Saved /\ deleted' = deleted \cup {n}
     \/ SaveRaises /\ UNCHANGED deleted
  /\ pc' = [a \in Adds |-> IF pc[a] = "added" /\ row[a].name = n
                           THEN "undone" ELSE pc[a]]
  /\ UNCHANGED <<length, row>>

\* The bot stops and starts again: initialize() reads the file, and no
\* handler survives.
Restart ==
  /\ config' = disk
  /\ machines' = Load(disk)
  /\ pc' = [a \in Adds |-> IF pc[a] = "probing" THEN "lost" ELSE pc[a]]
  /\ UNCHANGED <<disk, length, row, deleted>>

Next ==
  \/ \E a \in Adds, n \in Names, address \in Addresses :
       AddBegin(a, n, address) \/ AddRefused(a, n, address)
  \/ \E a \in Adds : ProbeFails(a) \/ ProbeSucceeds(a)
  \/ \E n \in Names : Delete(n)
  \/ Restart

(***************************************************************************)
(* The transport timeouts bound the life of a worker thread, so the probe  *)
(* of a handler that is not killed comes back.                             *)
(***************************************************************************)
Fairness == \A a \in Adds : WF_vars(ProbeFails(a) \/ ProbeSucceeds(a))

Spec == Init /\ [][Next]_vars /\ Fairness

--------------------------------------------------------------------------------
(***************************************************************************)
(* Invariants that hold however commands interleave.                       *)
(***************************************************************************)

\* "The machine is not left in a half-added state": a machine registered by a
\* machine_add command is still being probed or has passed its probe, even
\* when the name was deleted and added again meanwhile.
NoRejectedMachine ==
  \A n \in Names : machines[n] # NoMachine =>
    \/ machines[n].by = Startup
    \/ pc[machines[n].by] \in {"probing", "added", "unsaved"}

\* "The config file never holds an unreachable entry": every row of the list
\* and of the file came with the configuration or has passed its probe.
OnlyProbedRowsPersist ==
  \A e \in config \cup disk :
    \/ e.by = Startup
    \/ pc[e.by] \in {"added", "unsaved", "undone"} /\ e.row = row[e.by]

\* An acknowledged add is durable: until the machine is deleted its row is in
\* the file, across the saves, failed saves and rollbacks of other commands
\* and across restarts.
AcknowledgedAddsDurable ==
  \A a \in Adds : pc[a] = "added" => \E e \in disk : e.by = a /\ e.row = row[a]

\* An acknowledged deletion is durable: the file no longer registers the name.
\* (Lists whose rows of one name all carry it unpadded.)
DeletedStaysDeleted == \A n \in deleted : Load(disk)[n] = NoMachine

(***************************************************************************)
(* Properties of commands that take turns on a name: no name is deleted    *)
(* while its machine_add is being probed.                                  *)
(***************************************************************************)

\* The machines a list registers, compared without the identity of objects.
Anonymous(m) == IF m = NoMachine THEN m ELSE [m EXCEPT !.by = Startup]

\* Memory and configuration agree: reading the list again would register
\* exactly the machines in memory, those still being probed apart.
MemoryMatchesConfig ==
  \A n \in Names :
    IF BeingAdded(n)
    THEN Load(config)[n] = NoMachine
    ELSE Load(config)[n] = Anonymous(machines[n])

\* A failed connection is reported, it does not crash the command.
NoCrashedAdd == \A a \in Adds : pc[a] # "crashed"

\* A failed probe rolls back the registration its own command made: no step
\* but a deletion or a restart takes away a machine another call registered.
RollbackTakesOnlyItsOwn ==
  [][\A a \in Adds, n \in Names :
       pc[a] = "probing" /\ pc'[a] # "probing" /\ pc'[a] # "lost"
         /\ machines[n] # NoMachine /\ machines[n].by # a
         => machines'[n] = machines[n]]_vars

\* Every machine_add command whose bot keeps running is answered, unless its
\* save raises.
AddsAnswered ==
  \A a \in Adds :
    pc[a] = "probing" ~>
      pc[a] \in {"rejected", "added", "undone", "unsaved", "lost"}
================================================================================
