----------------------------- MODULE BackendSession -----------------------------
(***************************************************************************)
(* MachineManager.run on a Redfish machine: log in, run the requests of    *)
(* one operation, log out, over a network that loses requests and answers. *)
(*                                                                         *)
(* An operation is the sequence of its requests.  read: a GET whose answer *)
(* is used; peek: the GET for an ETag, whose status _patch ignores; write: *)
(* the POST or PATCH the operation is for.                                 *)
(***************************************************************************)
EXTENDS RedfishRequest, Sequences

CONSTANT Operations   \* the operations run may be given

ASSUME OperationAssumption ==
  /\ Operations \subseteq Seq({"read", "peek", "write"}) \ {<<>>}
  /\ \A op \in Operations : \A i \in 1..Len(op) :
       op[i] = "write" => i = Len(op)

VARIABLES
  pc,         \* where run stands
  operation,  \* the operation it was given
  done,       \* requests of the operation that are over
  result,     \* what the body of the with statement ended with
  reply,      \* what run ended with
  session,    \* the session whose token the client has, as the controller sees it
  orphans,    \* sessions on the controller whose token nobody holds
  effects,    \* how often the controller carried out the write
  mishaps     \* history: loss, of a request or its answer; outage, the loss of all
              \* attempts configured; objection, a request refused or an answer of
              \* no use to the operation; logout, one that raised

run == <<pc, operation, done, result, reply>>
controller == <<session, orphans, effects>>
vars == <<request, run, controller, mishaps>>

Outcomes == {"none", "result", "failed"}
Troubles == {"outage", "objection"}

TypeOK ==
  /\ RequestTypeOK
  /\ pc \in {"login", "operation", "logout", "over"}
  /\ operation \in Operations
  /\ done \in 0..Len(operation)
  /\ result \in Outcomes /\ reply \in Outcomes
  /\ session \in {"none", "open", "closed"}
  /\ mishaps \subseteq Troubles \cup {"loss", "logout"}
  /\ orphans \in 0..(MaxRetries + 1)
  /\ effects \in Nat

Init ==
  /\ NewRequest
  /\ pc = "login" /\ operation \in Operations /\ done = 0
  /\ result = "none" /\ reply = "none"
  /\ session = "none" /\ orphans = 0 /\ effects = 0
  /\ mishaps = {}

Current == IF pc = "operation" THEN operation[done + 1] ELSE pc

--------------------------------------------------------------------------------
\* The controller carries a request out.  It answers a logout from a session
\* that is gone, as a repeated one is, with an error.
Obey(heard) ==
  /\ Current = "logout" => session = "open"
  /\ session' = CASE Current = "login" /\ heard -> "open"
                  [] Current = "logout" -> "closed"
                  [] OTHER -> session
  /\ orphans' = IF Current = "login" /\ ~heard THEN orphans + 1 ELSE orphans
  /\ effects' = IF Current = "write" THEN effects + 1 ELSE effects

Lose ==
  mishaps' = mishaps \cup {"loss"}
             \cup (IF attempts = MaxRetries THEN {"outage"} ELSE {})

\* One attempt at the current request.
Accepted ==
  /\ Attempt("accepted")
  /\ Obey(TRUE)
  /\ UNCHANGED <<run, mishaps>>

Refused ==
  /\ Attempt("refused")
  /\ mishaps' = mishaps \cup {"objection"}
  /\ UNCHANGED <<run, controller>>

AnswerLost ==
  /\ Attempt("none")
  /\ Obey(FALSE)
  /\ Lose
  /\ UNCHANGED run

RequestLost ==
  /\ Attempt("none")
  /\ Lose
  /\ UNCHANGED <<run, controller>>

Transmit ==
  /\ pc # "over"
  /\ Accepted \/ Refused \/ AnswerLost \/ RequestLost

Failures == {"refused", "transport error", "exhausted"}

\* __enter__ after its login request.
LoggedIn ==
  /\ pc = "login"
  /\ Conclude({"accepted"})
  /\ pc' = "operation"
  /\ UNCHANGED <<operation, done, result, reply, controller, mishaps>>

\* login raises; the logout that follows has no session to close, so it sends
\* nothing, and the exception goes on.
LoginFails ==
  /\ pc = "login"
  /\ Conclude(Failures)
  /\ pc' = "over" /\ reply' = "failed"
  /\ UNCHANGED <<operation, done, result, controller, mishaps>>

\* Fault: the ETag is asked for until the controller gives one.
RequestDonePersisting ==
  /\ pc = "operation"
  /\ \/ /\ Conclude({"accepted"})
        /\ done' = done + 1
        /\ IF done' = Len(operation)
           THEN pc' = "logout" /\ result' = "result"
           ELSE UNCHANGED <<pc, result>>
     \/ Current = "peek" /\ Conclude({"refused"}) /\ UNCHANGED <<pc, done, result>>
  /\ UNCHANGED <<operation, reply, controller, mishaps>>

\* A request of the operation that raises nothing; the last one ends it.
RequestDone ==
  /\ pc = "operation"
  /\ \/ Conclude({"accepted"})
     \/ Current = "peek" /\ Conclude({"refused"})
  /\ done' = done + 1
  /\ IF done' = Len(operation)
     THEN pc' = "logout" /\ result' = "result"
     ELSE UNCHANGED <<pc, result>>
  /\ UNCHANGED <<operation, reply, controller, mishaps>>

\* Fault: an operation that raises leaves without __exit__.
RequestFailsUnclosed ==
  /\ pc = "operation"
  /\ Conclude(IF Current = "peek" THEN Failures \ {"refused"} ELSE Failures)
  /\ pc' = "over" /\ result' = "failed" /\ reply' = "failed"
  /\ UNCHANGED <<operation, done, controller, mishaps>>

\* A request that raises.
RequestFails ==
  /\ pc = "operation"
  /\ Conclude(IF Current = "peek" THEN Failures \ {"refused"} ELSE Failures)
  /\ pc' = "logout" /\ result' = "failed"
  /\ UNCHANGED <<operation, done, reply, controller, mishaps>>

\* The operation raises over what it has read: nothing listed, a reset type or
\* a boot device the controller does not allow.
AnswerUseless ==
  /\ pc = "operation" /\ Current = "read"
  /\ Conclude({"accepted"})
  /\ mishaps' = mishaps \cup {"objection"}
  /\ pc' = "logout" /\ result' = "failed"
  /\ UNCHANGED <<operation, done, reply, controller>>

\* Fault: the exception of a logout hides that the operation failed.
LoggedOutCheerfully ==
  /\ pc = "logout"
  /\ Conclude(Answers \cup Failures)
  /\ pc' = "over" /\ reply' = "result"
  /\ UNCHANGED <<operation, done, result, controller, mishaps>>

\* __exit__: run ends as the operation did, or as the logout if that raises.
LoggedOut ==
  /\ pc = "logout"
  /\ \/ Conclude({"accepted"}) /\ reply' = result /\ UNCHANGED mishaps
     \/ Conclude(Failures) /\ reply' = "failed"
        /\ mishaps' = mishaps \cup {"logout"}
  /\ pc' = "over"
  /\ UNCHANGED <<operation, done, result, controller>>

Next ==
  \/ Transmit
  \/ LoggedIn \/ LoginFails
  \/ RequestDone \/ RequestFails \/ AnswerUseless
  \/ LoggedOut

\* The worker thread of the run goes on; transport-level timeouts bound its waits.
Fairness == WF_vars(Next)

Spec == Init /\ [][Next]_vars /\ Fairness

--------------------------------------------------------------------------------
\* "Retries apply to writes too": a power operation is carried out at most once
\* per configured attempt, and more than once only when an answer was lost.
EffectsBounded ==
  /\ effects <= MaxRetries + 1
  /\ effects > 1 => "loss" \in mishaps

\* No request that was answered is reported as RetriesExhaustedError.
NeverExhausted == Verdict # "exhausted"

\* run returns a result only when the write was carried out.
ResultMeansDone ==
  reply = "result" /\ operation[Len(operation)] = "write" => effects > 0

\* run reports a failure only when the controller objected or all the attempts
\* configured for a request were lost.
FailureExplained == reply = "failed" => mishaps \cap Troubles # {}

\* However the operation ends, run leaves no session behind but one whose login
\* answer was lost or whose logout raised.
SessionClosed ==
  pc = "over" => /\ orphans > 0 => "loss" \in mishaps
                 /\ session = "open" => "logout" \in mishaps

\* Whatever is lost or refused at whichever request, run comes to its end with
\* a reply, and has logged out or tried to by then.
RunAnswered ==
  <>[](/\ pc = "over" /\ reply # "none"
       /\ session = "open" => "logout" \in mishaps)

\* "Sessions do not leak."
SessionsDoNotLeak == pc = "over" => session # "open" /\ orphans = 0
================================================================================
