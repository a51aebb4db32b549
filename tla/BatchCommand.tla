------------------------------ MODULE BatchCommand ------------------------------
(***************************************************************************)
(* A command on many machines (power_on, info_system, ...) while commands  *)
(* of other users change the registry under it: the selector is resolved   *)
(* in one step, the coroutines start in a later one, and each looks its    *)
(* machine up again when its turn comes.                                   *)
(***************************************************************************)
EXTENDS MachineRegistry, TargetSelection, GatherLimited

CONSTANT Selectors   \* the selectors a command may be given

ASSUME BatchAssumption ==
  /\ IsFiniteSet(Names) /\ Cardinality(Names) <= MaxItems
  /\ Selectors \subseteq Seq(Names \cup AllWords)

VARIABLES
  phase,      \* the command: not issued, rejected, under way, or killed
  kind,       \* which of the Kinds it is
  targets,    \* the selected names, in order
  round,      \* how many operations each coroutine has started
  used,       \* history: the machines they were started on
  vanished    \* history: the names unregistered since the selection

command == <<phase, kind, targets>>
batch == <<gatherVars, command, round, used>>

(***************************************************************************)
(* power: power_list, the power actions and machine_probe, whose lookup    *)
(* stands outside the try statement; lines: info_system, boot_show,        *)
(* sensor_show and bmc_show, which go through _safe_lines; summary:        *)
(* info_summary, which does the one and then the other.                    *)
(***************************************************************************)
Kinds == {"power", "lines", "summary"}

BatchTypeOK ==
  /\ phase \in {"idle", "rejected", "batch", "killed"}
  /\ kind \in Kinds
  /\ targets \in [items -> Names]
  /\ round \in [items -> 0..2]
  /\ used \in [items -> SUBSET MachinesBuiltBy(Adds \cup {Startup})]
  /\ vanished \subseteq Names
  /\ phase = "batch" => GatherTypeOK

BatchInit ==
  /\ Init
  /\ items = {} /\ limit = 0 /\ slots = 0 /\ gathered = "pending"
  /\ task = <<>> /\ targets = <<>> /\ round = <<>> /\ used = <<>>
  /\ phase = "idle" /\ kind = "power" /\ vanished = {}

--------------------------------------------------------------------------------
Registered == {n \in Names : machines[n] # NoMachine}

\* The command's handler up to the await of gather: the selection is made and
\* the tasks are created.  A summary takes no selector and means every machine.
Select(words, l, k) ==
  /\ phase = "idle"
  /\ k = "summary" => words \in Seq(AllWords)
  /\ LET selection == ResolveTargets(words, Registered) IN
       /\ ~selection.error
       /\ targets' \in selection.targets
  /\ phase' = "batch"
  /\ kind' = k
  /\ limit' = l
  /\ items' = DOMAIN targets'
  /\ slots' = Bound'
  /\ task' = [i \in items' |-> "created"]
  /\ round' = [i \in items' |-> 0]
  /\ used' = [i \in items' |-> {}]
  /\ gathered' = "pending"
  /\ UNCHANGED <<vars, vanished>>

\* The same with a selector that resolve_targets rejects: an error reply.
SelectRejected(words) ==
  /\ phase = "idle"
  /\ ResolveTargets(words, Registered).error
  /\ phase' = "rejected"
  /\ UNCHANGED <<vars, gatherVars, kind, targets, round, used, vanished>>

\* Fault: the lookup of a power command reports an unknown name as text.
OpeningLenient(i) ==
  IF machines[targets[i]] # NoMachine THEN "running" ELSE "returned"

(***************************************************************************)
(* _run_power, _safe_power, _probe_machine and _safe_lines up to their     *)
(* first await: get_machine, then the thread.  An unknown name raises out  *)
(* of the first three and is a line of text in the fourth.                 *)
(***************************************************************************)
Opening(i) ==
  IF machines[targets[i]] # NoMachine THEN "running"
  ELSE IF kind # "lines" THEN "raised" ELSE "returned"

\* The operations of these items start, on what is registered now.
Using(started) ==
  /\ round' = [i \in items |-> IF i \in started THEN round[i] + 1 ELSE round[i]]
  /\ used' = [i \in items |-> IF i \in started
                              THEN used[i] \cup {machines[targets[i]]} ELSE used[i]]

NewlyRunning == {i \in items : task[i] # "running" /\ task'[i] = "running"}

BatchStart ==
  /\ phase = "batch"
  /\ StartAll([i \in items |-> Opening(i)])
  /\ Using(NewlyRunning)
  /\ UNCHANGED <<vars, command, vanished>>

BatchResume(i) ==
  /\ phase = "batch" /\ i \in items
  /\ Resume(i, Opening(i))
  /\ Using(NewlyRunning)
  /\ UNCHANGED <<vars, command, vanished>>

\* The thread is done and so is the coroutine: it returns a result or the text
\* of the exception, or, in the middle of a summary, that the machine is gone.
BatchFinish(i) ==
  /\ phase = "batch" /\ i \in items
  /\ kind = "summary" /\ round[i] = 1 => machines[targets[i]] = NoMachine
  /\ Finish(i, "returned")
  /\ UNCHANGED <<vars, command, round, used, vanished>>

\* _machine_summary after the power state: the machine is looked up again and
\* asked for its model.
SummaryGoesOn(i) ==
  /\ phase = "batch" /\ kind = "summary"
  /\ i \in items /\ round[i] = 1
  /\ task[i] = "running"
  /\ machines[targets[i]] # NoMachine
  /\ Using({i})
  /\ UNCHANGED <<vars, gatherVars, command, vanished>>

\* Handlers of other commands.
RegistryStep ==
  /\ \/ \E a \in Adds, n \in Names, address \in Addresses :
          AddBegin(a, n, address) \/ AddRefused(a, n, address)
     \/ \E a \in Adds : ProbeFails(a) \/ ProbeSucceeds(a)
     \/ \E n \in Names : Delete(n)
  /\ vanished' = IF phase # "batch" THEN vanished
                 ELSE vanished \cup {n \in Registered : machines'[n] = NoMachine}
  /\ UNCHANGED batch

BatchKilled ==
  /\ Restart
  /\ phase' = IF phase = "batch" THEN "killed" ELSE phase
  /\ UNCHANGED <<gatherVars, kind, targets, round, used, vanished>>

BatchNext ==
  \/ \E words \in Selectors :
       \/ SelectRejected(words)
       \/ \E l \in Limits, k \in Kinds : Select(words, l, k)
  \/ BatchStart
  \/ \E i \in items : BatchResume(i) \/ BatchFinish(i) \/ SummaryGoesOn(i)
  \/ RegistryStep
  \/ BatchKilled

allVars == <<vars, batch, vanished>>

BatchFairness ==
  /\ WF_allVars(BatchStart)
  /\ \A i \in 1..MaxItems :
       /\ WF_allVars(BatchResume(i))
       /\ WF_allVars(BatchFinish(i) \/ SummaryGoesOn(i))

BatchSpec == BatchInit /\ [][BatchNext]_allVars /\ BatchFairness

--------------------------------------------------------------------------------
\* A command has at most `limit` machines under way, one if that is less.
WithinLimit ==
  phase = "batch" => Cardinality({i \in items : task[i] = "running"}) <= Bound

\* No command works on a machine twice, even when its name is selected twice
\* and the machine is deleted and added again in between.
OncePerMachine ==
  \A i, j \in items : i # j =>
    \A m \in used[i], n \in used[j] : m.name # n.name

\* A power command that answers with results has operated every machine it
\* answers for, whatever was deleted meanwhile.
ResultsAreReal ==
  kind = "power" /\ gathered = "results" => \A i \in items : round[i] = 1

\* A selection is carried out whole: a command whose coroutines are over has
\* left out no machine but one that was unregistered after the selection.
WholeUnlessDeleted ==
  kind = "power" /\ phase = "batch" /\ (\A i \in items : task[i] \in Settled)
    => \A i \in items : round[i] = 1 \/ targets[i] \in vanished

\* "Mutating commands never run only a surprising subset of their requested
\* targets": a command whose coroutines are over has operated all or none.
NoSurprisingSubset ==
  kind = "power" /\ phase = "batch" /\ (\A i \in items : task[i] \in Settled)
    => (\A i \in items : round[i] = 1) \/ (\A i \in items : round[i] = 0)

\* Every command that got past its selection is answered, and all of its
\* operations come to an end, unless the bot stops.
BatchAnswered ==
  phase = "batch" ~>
    \/ phase = "killed"
    \/ gathered # "pending" /\ \A i \in items : task[i] \in Settled
================================================================================
