----------------------------- MODULE RedfishRequest -----------------------------
(***************************************************************************)
(* One request of a Redfish client: the attempt loop of                    *)
(* python-redfish-library 3.3.6, with its success check that compares the  *)
(* attempts of the request with the limit of the client, and the layer     *)
(* install_retry_compat puts around it.                                    *)
(***************************************************************************)
EXTENDS Naturals

CONSTANT MaxRetries   \* redfish_max_retries

ASSUME RetryAssumption == MaxRetries \in Nat

VARIABLES
  attempts,   \* attempts made so far
  answer      \* the controller's answer, if one came back

request == <<attempts, answer>>

\* accepted: a status below 400; refused: any other; none: only exceptions.
Answers == {"accepted", "refused"}

RequestTypeOK ==
  /\ attempts \in 0..(MaxRetries + 1)
  /\ answer \in Answers \cup {"none"}

NewRequest == attempts = 0 /\ answer = "none"

\* Fault: the client is constructed with the configured number.
ClientLimitPlain == MaxRetries

\* The limit the client is constructed with.
ClientLimit == MaxRetries + 1

\* Fault: the request is left with the limit of the client.
RequestLimitOfClient == ClientLimit

\* The limit fixed_rest_request gives each request.
RequestLimit == MaxRetries

Trying == answer = "none" /\ attempts <= RequestLimit

\* One turn of the loop: an answer comes back, or an exception is swallowed.
Attempt(a) ==
  /\ Trying
  /\ attempts' = attempts + 1
  /\ answer' = a

\* What the caller gets when the loop is over: RetriesExhaustedError, the
\* answer, or a RedfishTransportError where the library returns None.
Verdict ==
  IF attempts > ClientLimit THEN "exhausted"
  ELSE IF answer = "none" THEN "transport error"
  ELSE answer

\* The caller of a request that is over goes on to its next one.
Conclude(verdicts) ==
  /\ ~Trying
  /\ Verdict \in verdicts
  /\ attempts' = 0 /\ answer' = "none"
================================================================================
