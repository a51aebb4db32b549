----------------------------- MODULE CompareAndSet -----------------------------
(***************************************************************************)
(* What If-Match promises: clients of a resource fetch a tag of its state  *)
(* and store under it.  A store under a tag that has been overtaken by     *)
(* another change is impossible; one without a tag is not protected.       *)
(***************************************************************************)
CONSTANTS
  Clients,    \* who stores into the resource
  States,     \* its states
  Owner       \* whoever changes it without asking

VARIABLES
  state,      \* the state of the resource
  author,     \* who brought it about
  tag         \* what each client knows: no tag, the current one, an old one

vars == <<state, author, tag>>

Init ==
  /\ state \in States /\ author = Owner
  /\ tag = [c \in Clients |-> "none"]

\* The tags handed out before a change are old after it.
Overtaken == [c \in Clients |-> IF tag[c] = "none" THEN "none" ELSE "old"]

Fetch(c) ==
  /\ \E t \in {"none", "current"} : tag' = [tag EXCEPT ![c] = t]
  /\ UNCHANGED <<state, author>>

Change(by) ==
  /\ state' \in States
  /\ author' = by
  /\ tag' = Overtaken

Store(c) == tag[c] # "old" /\ Change(c)

Next == Change(Owner) \/ \E c \in Clients : Fetch(c) \/ Store(c)

Spec == Init /\ [][Next]_vars
================================================================================
