----------------------------- MODULE GatherLimited -----------------------------
(***************************************************************************)
(* manager.gather_limited: one coroutine per item, an asyncio.Semaphore    *)
(* around each, and asyncio.gather around them all.                        *)
(*                                                                         *)
(* asyncio creates the tasks in the order of the items and runs them in    *)
(* that order, with nothing in between, until each first awaits; waiters   *)
(* of the semaphore are served in the order they came, which is therefore  *)
(* the order of the items.  A waiter that is served holds its slot from    *)
(* then on, and runs when the event loop comes round to it.                *)
(***************************************************************************)
EXTENDS Naturals, FiniteSets

CONSTANTS
  MaxItems,   \* bound on the number of items
  Limits      \* the limits gather_limited is called with

ASSUME GatherAssumption == MaxItems \in Nat /\ Limits \subseteq Nat

VARIABLES
  items,      \* the indices of the items, 1..n
  limit,      \* the argument of that name
  slots,      \* the semaphore's counter
  task,       \* the state of each item's coroutine
  gathered    \* the state of the future gather returns

gatherVars == <<items, limit, slots, task, gathered>>

Bound == IF limit > 1 THEN limit ELSE 1

\* A coroutine whose operation is over.
Settled == {"returned", "raised"}
TaskStates == {"created", "waiting", "served", "running"} \cup Settled

In(states) == {i \in items : task[i] \in states}

GatherTypeOK ==
  /\ \E n \in 1..MaxItems : items = 1..n
  /\ limit \in Limits
  /\ slots \in 0..Bound
  /\ task \in [items -> TaskStates]
  /\ gathered \in {"pending", "results", "exception"}

GatherInit ==
  /\ \E n \in 1..MaxItems : items = 1..n
  /\ limit \in Limits
  /\ slots = Bound
  /\ task = [i \in items |-> "created"]
  /\ gathered = "pending"

--------------------------------------------------------------------------------
\* gather: the first exception is raised in the caller at once, and the other
\* coroutines go on; the results are returned when all are there.
Gather ==
  gathered' = IF gathered # "pending" THEN gathered
              ELSE IF \E i \in items : task'[i] = "raised" THEN "exception"
              ELSE IF \A i \in items : task'[i] = "returned" THEN "results"
              ELSE "pending"

\* How far each operation comes before its first await: it is then under way
\* in a thread, or over.
Openings == [items -> {"running"} \cup Settled]

\* The operations before i that do not end at once.
RunningBefore(opening, i) == {j \in items : j < i /\ opening[j] = "running"}

\* Fault: one coroutine too many is let in.
AdmittedOneMore(opening) ==
  {i \in items : Cardinality(RunningBefore(opening, i)) <= Bound}

\* The coroutines that find a slot free: those before them that still run
\* leave one.
Admitted(opening) ==
  {i \in items : Cardinality(RunningBefore(opening, i)) < Bound}

StartAll(opening) ==
  /\ \A i \in items : task[i] = "created"
  /\ task' = [i \in items |-> IF i \in Admitted(opening) THEN opening[i]
                              ELSE "waiting"]
  /\ slots' = slots - Cardinality({i \in items : task'[i] = "running"})
  /\ Gather
  /\ UNCHANGED <<items, limit>>

\* Fault: a slot given to a waiter is counted as free as well.
ReleaseTwice(settled) ==
  /\ slots' = slots + 1
  /\ IF In({"waiting"}) = {}
     THEN task' = settled
     ELSE LET next == CHOOSE i \in In({"waiting"}) :
                        \A j \in In({"waiting"}) : i <= j
          IN task' = [settled EXCEPT ![next] = "served"]

\* Fault: no waiter is served.
ReleaseForgetting(settled) ==
  /\ task' = settled
  /\ slots' = slots + 1

\* Fault: the last waiter is served.
ReleaseLast(settled) ==
  IF In({"waiting"}) = {}
  THEN /\ task' = settled
       /\ slots' = slots + 1
  ELSE LET next == CHOOSE i \in In({"waiting"}) :
                     \A j \in In({"waiting"}) : i >= j
       IN /\ task' = [settled EXCEPT ![next] = "served"]
          /\ UNCHANGED slots

\* Semaphore.release: serve the first waiter, or count the slot as free.
Release(settled) ==
  IF In({"waiting"}) = {}
  THEN /\ task' = settled
       /\ slots' = slots + 1
  ELSE LET next == CHOOSE i \in In({"waiting"}) :
                     \A j \in In({"waiting"}) : i <= j
       IN /\ task' = [settled EXCEPT ![next] = "served"]
          /\ UNCHANGED slots

\* Fault: an operation that ends at once keeps its slot.
ResumeLeaking(i, opening) ==
  /\ i \in In({"served"})
  /\ task' = [task EXCEPT ![i] = opening]
  /\ Gather
  /\ UNCHANGED <<items, limit, slots>>

\* A waiter that was served runs its operation up to the first await.
Resume(i, opening) ==
  /\ i \in In({"served"})
  /\ IF opening = "running"
     THEN task' = [task EXCEPT ![i] = "running"] /\ UNCHANGED slots
     ELSE Release([task EXCEPT ![i] = opening])
  /\ Gather
  /\ UNCHANGED <<items, limit>>

\* The thread of an operation is done, and so is the coroutine.
Finish(i, outcome) ==
  /\ i \in In({"running"})
  /\ Release([task EXCEPT ![i] = outcome])
  /\ Gather
  /\ UNCHANGED <<items, limit>>

GatherNext ==
  \/ \E opening \in Openings : StartAll(opening)
  \/ \E i \in items :
       \/ \E opening \in {"running"} \cup Settled : Resume(i, opening)
       \/ \E outcome \in Settled : Finish(i, outcome)

(***************************************************************************)
(* The event loop runs every callback that is ready, and the transport     *)
(* timeouts bound the life of a worker thread.                             *)
(***************************************************************************)
GatherFairness ==
  /\ WF_gatherVars(\E opening \in Openings : StartAll(opening))
  /\ \A i \in 1..MaxItems :
       /\ WF_gatherVars(\E opening \in {"running"} \cup Settled : Resume(i, opening))
       /\ WF_gatherVars(\E outcome \in Settled : Finish(i, outcome))

GatherSpec == GatherInit /\ [][GatherNext]_gatherVars /\ GatherFairness

--------------------------------------------------------------------------------
\* No slot is lost and none is made up, however operations end: the counter
\* and the slots held add up to the limit, so at most that many run at a time.
SlotsAccounted == slots + Cardinality(In({"served", "running"})) = Bound

\* No item waits while a slot is free, so no waiter is forgotten.
NoIdleSlot == In({"waiting"}) # {} => slots = 0

\* Items get their slots in the order they were given in: while one waits, so
\* do all after it.
ServedInOrder ==
  \A i, j \in items : i < j /\ task[i] = "waiting" => task[j] = "waiting"

\* Every item's operation comes to an end, even when another one raised and
\* the caller has gone away with its exception.
AllSettle == <>(\A i \in items : task[i] \in Settled)

\* gather_limited implements the bounded execution of its items.
Bounded ==
  INSTANCE BoundedJobs WITH
    Jobs <- 1..MaxItems, jobs <- items, bound <- Bound,
    active <- In({"running"}), ended <- In(Settled)

RunsBounded == Bounded!Spec
================================================================================
