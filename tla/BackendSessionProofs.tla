-------------------------- MODULE BackendSessionProofs --------------------------
(***************************************************************************)
(* The properties of BackendSession for every number of retries and every  *)
(* set of operations whose write, if there is one, is the last request.    *)
(***************************************************************************)
EXTENDS BackendSession, TLAPS

\* What the attempts at the current request have left.
RequestTrail ==
  /\ attempts > 0 /\ answer = "none" => "loss" \in mishaps
  /\ attempts > MaxRetries /\ answer = "none" => "outage" \in mishaps
  /\ answer = "refused" => "objection" \in mishaps
  /\ orphans > 0 => "loss" \in mishaps
  /\ pc = "login" => orphans <= attempts
  /\ pc = "login" /\ answer # "accepted" => session = "none"
  /\ pc = "logout" /\ answer = "accepted" => session = "closed"

\* How far the operation is.
Progress ==
  /\ pc = "login" => done = 0
  /\ pc = "operation" => done < Len(operation)
  /\ result = "result" => done = Len(operation)
  /\ result = "failed" => mishaps \cap Troubles # {}
  /\ pc = "over" \/ reply = "none"
  /\ pc = "logout" => result # "none"
  /\ pc = "login" \/ pc = "operation" => result = "none"
  /\ reply = "result" => result = "result"

Writing == pc = "operation" /\ done + 1 = Len(operation)
Writes == operation[Len(operation)] = "write"

\* How often the write was carried out.
EffectTrail ==
  /\ pc = "login" \/ (pc = "operation" /\ ~Writing) => effects = 0
  /\ ~Writes => effects = 0
  /\ Writing => effects <= attempts
  /\ Writing /\ Writes /\ answer = "accepted" => effects > 0
  /\ Writing /\ answer = "none" /\ effects > 0 => "loss" \in mishaps
  /\ effects <= MaxRetries + 1
  /\ effects > 1 => "loss" \in mishaps
  /\ result = "result" /\ Writes => effects > 0

Invariant ==
  /\ TypeOK
  /\ RequestTrail
  /\ Progress
  /\ EffectTrail
  /\ FailureExplained
  /\ SessionClosed

\* An operation has a last request, and only that one may be its write.
LEMMA OperationShape ==
  ASSUME NEW op \in Operations
  PROVE  /\ Len(op) \in Nat \ {0}
         /\ \A i \in 1..Len(op) : op[i] \in {"read", "peek", "write"}
         /\ \A i \in 1..Len(op) : op[i] = "write" => i = Len(op)
  BY OperationAssumption

LEMMA InitInvariant == Init => Invariant
  BY OperationShape, RetryAssumption
  DEF Init, Invariant, TypeOK, RequestTypeOK, NewRequest, RequestTrail, Progress,
      EffectTrail, Writing, Writes, FailureExplained, SessionClosed, Outcomes, Troubles

\* What a request that is over has come to.
LEMMA ConcludeEffect ==
  ASSUME TypeOK, NEW verdicts, Conclude(verdicts)
  PROVE  /\ attempts' = 0 /\ answer' = "none"
         /\ answer = "none" => attempts > MaxRetries
         /\ answer = "none" => "transport error" \in verdicts
         /\ answer # "none" => answer \in verdicts
PROOF
<1>1. /\ attempts \in Nat /\ attempts <= ClientLimit
      /\ answer \in {"none", "accepted", "refused"}
  BY RetryAssumption DEF TypeOK, RequestTypeOK, ClientLimit, Answers
<1>2. CASE answer = "none"
  <2>1. Verdict = "transport error"
    BY <1>1, <1>2, RetryAssumption DEF Verdict, ClientLimit
  <2>2. attempts > MaxRetries
    BY <1>1, <1>2, RetryAssumption DEF Conclude, Trying, RequestLimit
  <2> QED BY <2>1, <2>2, <1>2 DEF Conclude
<1>3. CASE answer # "none"
  <2>1. Verdict = answer
    BY <1>1, <1>3, RetryAssumption DEF Verdict, ClientLimit
  <2> QED BY <2>1, <1>3 DEF Conclude
<1> QED BY <1>2, <1>3

\* An attempt, whatever comes of it, keeps the invariant.
LEMMA TransmitInvariant == ASSUME Invariant, Transmit PROVE Invariant'
PROOF
<1> USE OperationShape, RetryAssumption
<1>1. /\ pc # "over" /\ attempts <= MaxRetries /\ answer = "none"
      /\ attempts' = attempts + 1
      /\ UNCHANGED run
  BY DEF Transmit, Accepted, Refused, AnswerLost, RequestLost, Attempt, Trying,
         RequestLimit
<1>2. /\ pc \in {"login", "operation", "logout"}
      /\ pc = "login" => Current = "login"
      /\ pc = "logout" => Current = "logout"
      /\ pc = "operation" => Current = operation[done + 1]
      /\ pc = "operation" /\ ~(Writing /\ Writes) => Current \in {"read", "peek"}
      /\ Writing /\ Writes => Current = "write"
  BY <1>1 DEF Invariant, TypeOK, Progress, Current, Writing, Writes
<1>3. /\ (Writing <=> Writing') /\ (Writes <=> Writes')
      /\ Progress /\ FailureExplained
  BY <1>1 DEF Invariant, Writing, Writes, run
<1>4. CASE Accepted
  BY <1>1, <1>2, <1>3, <1>4
  DEF Accepted, Attempt, Obey, Invariant, TypeOK, RequestTypeOK, RequestTrail,
      Progress, EffectTrail, FailureExplained, SessionClosed, run, Outcomes, Answers, Troubles
<1>5. CASE Refused
  BY <1>1, <1>2, <1>3, <1>5
  DEF Refused, Attempt, Invariant, TypeOK, RequestTypeOK, RequestTrail, controller,
      Progress, EffectTrail, FailureExplained, SessionClosed, run, Outcomes, Answers, Troubles
<1>6. CASE AnswerLost
  BY <1>1, <1>2, <1>3, <1>6
  DEF AnswerLost, Lose, Attempt, Obey, Invariant, TypeOK, RequestTypeOK, RequestTrail,
      Progress, EffectTrail, FailureExplained, SessionClosed, run, Outcomes, Answers, Troubles
<1>7. CASE RequestLost
  BY <1>1, <1>2, <1>3, <1>7
  DEF RequestLost, Lose, Attempt, Invariant, TypeOK, RequestTypeOK, RequestTrail, controller,
      Progress, EffectTrail, FailureExplained, SessionClosed, run, Outcomes, Answers, Troubles
<1> QED BY <1>4, <1>5, <1>6, <1>7 DEF Transmit

LEMMA NextInvariant == Invariant /\ [Next]_vars => Invariant'
PROOF
<1> SUFFICES ASSUME Invariant, [Next]_vars PROVE Invariant'
  OBVIOUS
<1> USE OperationShape, RetryAssumption
<1>1. CASE Transmit
  BY <1>1, TransmitInvariant
<1>2. CASE LoggedIn
  <2>1. /\ attempts' = 0 /\ answer' = "none"
        /\ answer = "none" => attempts > MaxRetries
        /\ answer = "accepted"
    BY <1>2, ConcludeEffect DEF LoggedIn, Invariant, Failures
  <2> QED
    BY <1>2, <2>1
    DEF LoggedIn, Invariant, TypeOK, RequestTypeOK, RequestTrail, controller,
        Progress, EffectTrail, Writing, Writes, FailureExplained, SessionClosed,
        Outcomes, Answers, Troubles
<1>3. CASE LoginFails
  <2>1. /\ attempts' = 0 /\ answer' = "none"
        /\ answer = "none" => attempts > MaxRetries
        /\ answer # "accepted"
    BY <1>3, ConcludeEffect DEF LoginFails, Invariant, Failures
  <2> QED
    BY <1>3, <2>1
    DEF LoginFails, Invariant, TypeOK, RequestTypeOK, RequestTrail, controller,
        Progress, EffectTrail, Writing, Writes, FailureExplained, SessionClosed,
        Outcomes, Answers, Troubles
<1>4. CASE RequestDone
  <2>1. /\ attempts' = 0 /\ answer' = "none"
        /\ answer = "none" => attempts > MaxRetries
        /\ answer = "accepted" \/ (answer = "refused" /\ Current = "peek")
    BY <1>4, ConcludeEffect DEF RequestDone, Invariant, Failures
  <2> QED
    BY <1>4, <2>1
    DEF RequestDone, Current, Invariant, TypeOK, RequestTypeOK, RequestTrail, controller,
        Progress, EffectTrail, Writing, Writes, FailureExplained, SessionClosed,
        Outcomes, Answers, Troubles
<1>5. CASE RequestFails
  <2>1. /\ attempts' = 0 /\ answer' = "none"
        /\ answer = "none" => attempts > MaxRetries
        /\ answer # "accepted"
    BY <1>5, ConcludeEffect DEF RequestFails, Invariant, Failures
  <2> QED
    BY <1>5, <2>1
    DEF RequestFails, Invariant, TypeOK, RequestTypeOK, RequestTrail, controller,
        Progress, EffectTrail, Writing, Writes, FailureExplained, SessionClosed,
        Outcomes, Answers, Troubles
<1>6. CASE AnswerUseless
  <2>1. /\ attempts' = 0 /\ answer' = "none"
        /\ answer = "none" => attempts > MaxRetries
        /\ answer = "accepted"
    BY <1>6, ConcludeEffect DEF AnswerUseless, Invariant, Failures
  <2> QED
    BY <1>6, <2>1
    DEF AnswerUseless, Invariant, TypeOK, RequestTypeOK, RequestTrail, controller,
        Progress, EffectTrail, Writing, Writes, FailureExplained, SessionClosed,
        Outcomes, Answers, Troubles
<1>7. CASE LoggedOut
  <2>1. result \in {"result", "failed"}
    BY <1>7 DEF LoggedOut, Invariant, TypeOK, Progress, Outcomes
  <2>2. CASE Conclude({"accepted"}) /\ reply' = result /\ mishaps' = mishaps
    <3>1. attempts' = 0 /\ answer' = "none" /\ answer = "accepted"
      BY <2>2, ConcludeEffect DEF Invariant
    <3>2. session = "closed"
      BY <1>7, <3>1 DEF LoggedOut, Invariant, RequestTrail
    <3> QED
      BY <1>7, <2>1, <2>2, <3>1, <3>2
      DEF LoggedOut, Invariant, TypeOK, RequestTypeOK, RequestTrail, controller,
          Progress, EffectTrail, Writing, Writes, FailureExplained, SessionClosed,
          Outcomes, Answers, Troubles
  <2>3. CASE /\ Conclude(Failures)
             /\ reply' = "failed" /\ mishaps' = mishaps \cup {"logout"}
    <3>1. /\ attempts' = 0 /\ answer' = "none"
          /\ answer = "none" => attempts > MaxRetries
          /\ answer # "accepted"
      BY <2>3, ConcludeEffect DEF Invariant, Failures
    <3>2. mishaps \cap Troubles # {}
      BY <3>1 DEF Invariant, TypeOK, RequestTypeOK, RequestTrail, Answers, Troubles
    <3> QED
      BY <1>7, <2>1, <2>3, <3>1, <3>2
      DEF LoggedOut, Invariant, TypeOK, RequestTypeOK, RequestTrail, controller,
          Progress, EffectTrail, Writing, Writes, FailureExplained, SessionClosed,
          Outcomes, Answers, Troubles
  <2> QED BY <1>7, <2>2, <2>3 DEF LoggedOut
<1>8. CASE UNCHANGED vars
  BY <1>8
  DEF vars, request, run, controller, Invariant, TypeOK, RequestTypeOK, RequestTrail,
      Progress, EffectTrail, Writing, Writes, FailureExplained, SessionClosed
<1> QED BY <1>1, <1>2, <1>3, <1>4, <1>5, <1>6, <1>7, <1>8 DEF Next

LEMMA SessionInvariant == Spec => []Invariant
  BY InitInvariant, NextInvariant, PTL DEF Spec

\* Every variable of a run keeps its type, whatever is lost or refused.
THEOREM SessionTyped == Spec => []TypeOK
  BY SessionInvariant, PTL DEF Invariant

\* A write is carried out at most once per configured attempt, and more than
\* once only when an answer was lost.
THEOREM WritesAreBounded == Spec => []EffectsBounded
<1>1. Invariant => EffectsBounded
  BY DEF Invariant, EffectTrail, EffectsBounded
<1> QED BY <1>1, SessionInvariant, PTL

\* No request that was answered is reported as exhausted.
THEOREM RequestsNeverExhaust == Spec => []NeverExhausted
<1>1. Invariant => NeverExhausted
  BY RetryAssumption
  DEF Invariant, TypeOK, RequestTypeOK, NeverExhausted, Verdict, ClientLimit, Answers
<1> QED BY <1>1, SessionInvariant, PTL

\* A result is only returned for a write that was carried out.
THEOREM ResultsAreDone == Spec => []ResultMeansDone
<1>1. Invariant => ResultMeansDone
  BY DEF Invariant, Progress, EffectTrail, Writes, ResultMeansDone
<1> QED BY <1>1, SessionInvariant, PTL

\* A failure is only reported when the controller objected or all the attempts
\* configured for a request were lost.
THEOREM FailuresAreExplained == Spec => []FailureExplained
  BY SessionInvariant, PTL DEF Invariant

\* A run leaves no session behind unless an answer was lost or the logout raised.
THEOREM SessionsAreClosed == Spec => []SessionClosed
  BY SessionInvariant, PTL DEF Invariant

(***************************************************************************)
(* Progress, as far as it is a matter of single steps: a run has a place,  *)
(* the number of requests that are over, and only goes forward.            *)
(***************************************************************************)
Place ==
  IF pc = "login" THEN 0
  ELSE IF pc = "operation" THEN 1 + done
  ELSE IF pc = "logout" THEN Len(operation) + 1
  ELSE Len(operation) + 2

Onward ==
  /\ operation' = operation
  /\ Place' \in 0..(Len(operation) + 2)
  /\ attempts' \in 0..(MaxRetries + 1)
  /\ Place' > Place \/ (Place' = Place /\ attempts' > attempts)

LEMMA StepOnward == ASSUME Invariant, Next PROVE Onward
<1> USE OperationShape, RetryAssumption
<1>1. /\ pc \in {"login", "operation", "logout", "over"}
      /\ operation \in Operations /\ Len(operation) \in Nat \ {0}
      /\ done \in 0..Len(operation)
      /\ attempts \in 0..(MaxRetries + 1) /\ MaxRetries \in Nat
      /\ pc = "operation" => done < Len(operation)
  BY DEF Invariant, TypeOK, RequestTypeOK, Progress
<1>2. Place \in 0..(Len(operation) + 2)
  BY <1>1 DEF Place
<1>3. CASE Transmit
  <2>1. /\ attempts <= MaxRetries /\ attempts' = attempts + 1
        /\ pc' = pc /\ done' = done /\ operation' = operation
    BY <1>3 DEF Transmit, Accepted, Refused, AnswerLost, RequestLost, Attempt, Trying,
                RequestLimit, run
  <2>2. Place' = Place
    BY <2>1 DEF Place
  <2>3. QED
    BY <1>1, <1>2, <2>1, <2>2 DEF Onward
<1>4. CASE LoggedIn \/ LoginFails
  <2>1. /\ pc = "login" /\ attempts' = 0 /\ operation' = operation /\ done' = done
        /\ pc' \in {"operation", "over"}
    BY <1>4 DEF LoggedIn, LoginFails, Conclude
  <2>2. done = 0
    BY <2>1 DEF Invariant, Progress
  <2>3. Place = 0 /\ Place' \in {1, Len(operation) + 2}
    BY <2>1, <2>2 DEF Place
  <2>4. QED
    BY <1>1, <2>1, <2>3 DEF Onward
<1>5. CASE RequestDone \/ RequestFails \/ AnswerUseless
  <2>1. /\ pc = "operation" /\ attempts' = 0 /\ operation' = operation
        /\ \/ pc' = "logout"
           \/ pc' = "operation" /\ done' = done + 1 /\ done' # Len(operation)
    BY <1>5 DEF RequestDone, RequestFails, AnswerUseless, Conclude
  <2>2. /\ Place = 1 + done
        /\ Place' = IF pc' = "logout" THEN Len(operation) + 1 ELSE 1 + done'
    BY <2>1 DEF Place
  <2>3. QED
    BY <1>1, <2>1, <2>2 DEF Onward
<1>6. CASE LoggedOut
  <2>1. pc = "logout" /\ pc' = "over" /\ attempts' = 0 /\ operation' = operation
    BY <1>6 DEF LoggedOut, Conclude
  <2>2. Place = Len(operation) + 1 /\ Place' = Len(operation) + 2
    BY <2>1 DEF Place
  <2>3. QED
    BY <1>1, <2>1, <2>2 DEF Onward
<1>7. QED
  BY <1>3, <1>4, <1>5, <1>6 DEF Next

\* Every step of a run makes one more of the attempts configured or goes on to
\* a later request, so that no run repeats itself for ever: it is over after at
\* most (Len(operation) + 2) * (MaxRetries + 2) steps.
THEOREM RunsGoOnward == Spec => [][Onward]_vars
<1>1. Invariant /\ [Next]_vars => [Onward]_vars
  BY StepOnward
<1>2. QED
  BY <1>1, SessionInvariant, PTL DEF Spec
================================================================================
