------------------------- MODULE MachineCommandsProofs -------------------------
(***************************************************************************)
(* The properties of MachineCommands for any number of commands, retries,  *)
(* controllers and readings, and that the boot options are a register with *)
(* compare-and-set.                                                        *)
(***************************************************************************)
EXTENDS MachineCommands, TLAPS

Requests == {"look", "read", "eth", "etag", "write", "may", "list"}

\* What the script of a command looks like, whichever it is.
Shape(c) ==
  LET s == Script(c) IN
    /\ Len(s) \in 0..(controller.parts + 5)
    /\ \A i \in 1..Len(s) :
         /\ s[i] \in Requests
         /\ s[i] = "write" <=> Command(c) \in Writers /\ i = Len(s)
         /\ s[i] \in {"may", "list"} =>
              ~Redfish /\ Command(c) \in {"info_system", "sensor_show"}
         /\ s[i] = "eth" => Command(c) = "bmc_show"
         /\ s[i] = "read" => i = 2 \/ ~Redfish
    /\ Command(c) \in Writers => Len(s) > 0
    /\ Redfish /\ Command(c) \in Writers => Len(s) > 2 /\ s[2] = "read"

LEMMA RedfishShape ==
  ASSUME TypeOK, NEW c \in Commands, Redfish
  PROVE  Shape(c)
PROOF
<1>1. controller.parts \in Nat
  BY CommandAssumption DEF TypeOK, Controller
<1>2. Command(c) \in CommandNames
  BY CommandAssumption DEF TypeOK, Command
<1>3. Script(c) = RedfishScript(Command(c))
  BY DEF Script
<1> DEFINE each(r) == [i \in 1..controller.parts |-> r]
<1>4. \A r : r \in Requests => /\ each(r) \in Seq(Requests) /\ Len(each(r)) = controller.parts
                 /\ \A i \in 1..controller.parts : each(r)[i] = r
  BY <1>1
<1>5. CASE Command(c) \in PowerActions
  <2>1. Script(c) = <<"look", "read", "write">>
    BY <1>3, <1>5 DEF RedfishScript, PowerActions
  <2> QED BY <2>1, <1>1, <1>5 DEF Shape, Requests, Writers, PowerActions
<1>6. CASE Command(c) = "boot_set"
  <2>1. Script(c) = <<"look", "read", "look", "etag", "write">>
    BY <1>3, <1>6 DEF RedfishScript, PowerActions
  <2> QED BY <2>1, <1>1, <1>6 DEF Shape, Requests, Writers, PowerActions
<1>7. CASE Command(c) \in {"power_list", "info_system", "boot_show"}
  <2>1. Script(c) = <<"look", "read">>
    BY <1>3, <1>7 DEF RedfishScript, PowerActions
  <2> QED BY <2>1, <1>1, <1>7 DEF Shape, Requests, Writers, PowerActions
<1>8. CASE Command(c) = "sensor_show"
  <2>1. Script(c) = <<"look">> \o each("look")
    BY <1>3, <1>8 DEF RedfishScript, PowerActions, SensorGet
  <2>2. /\ Len(Script(c)) = 1 + controller.parts
        /\ \A i \in 1..Len(Script(c)) : Script(c)[i] = "look"
    BY <2>1, <1>1, <1>4 DEF Requests
  <2> QED BY <2>2, <1>1, <1>8 DEF Shape, Requests, Writers, PowerActions
<1>9. CASE Command(c) = "bmc_show"
  <2>1. Script(c) = <<"look", "eth", "look">> \o each("eth")
    BY <1>3, <1>9 DEF RedfishScript, PowerActions
  <2>2. /\ Len(Script(c)) = 3 + controller.parts
        /\ \A i \in 1..Len(Script(c)) : Script(c)[i] \in {"look", "eth"}
    BY <2>1, <1>1, <1>4 DEF Requests
  <2> QED BY <2>2, <1>1, <1>9 DEF Shape, Requests, Writers, PowerActions
<1>10. CASE Command(c) = "machine_probe"
  <2>1. Script(c) = <<>>
    BY <1>3, <1>10 DEF RedfishScript, PowerActions
  <2> QED BY <2>1, <1>1, <1>10 DEF Shape, Requests, Writers, PowerActions
<1> QED BY <1>2, <1>5, <1>6, <1>7, <1>8, <1>9, <1>10
        DEF CommandNames, Writers, Lined

LEMMA IpmiShape ==
  ASSUME TypeOK, NEW c \in Commands, ~Redfish
  PROVE  Shape(c)
PROOF
<1>1. controller.parts \in Nat
  BY CommandAssumption DEF TypeOK, Controller
<1>2. Command(c) \in CommandNames
  BY CommandAssumption DEF TypeOK, Command
<1>3. Script(c) = IpmiScript(Command(c))
  BY DEF Script
<1>4. CASE Command(c) \in Writers
  <2>1. Script(c) = <<"write">>
    BY <1>3, <1>4 DEF IpmiScript, Writers, PowerActions
  <2> QED BY <2>1, <1>1, <1>4 DEF Shape, Requests, Writers, PowerActions
<1>5. CASE Command(c) = "power_list"
  <2>1. Script(c) = <<"read">>
    BY <1>3, <1>5 DEF IpmiScript, Writers, PowerActions
  <2> QED BY <2>1, <1>1, <1>5 DEF Shape, Requests, Writers, PowerActions
<1>6. CASE Command(c) = "boot_show"
  <2>1. Script(c) = <<"read", "read">>
    BY <1>3, <1>6 DEF IpmiScript, Writers, PowerActions
  <2> QED BY <2>1, <1>1, <1>6 DEF Shape, Requests, Writers, PowerActions
<1>7. CASE Command(c) = "info_system"
  <2>1. Script(c) = <<"may", "may">>
    BY <1>3, <1>7 DEF IpmiScript, Writers, PowerActions
  <2> QED BY <2>1, <1>1, <1>7 DEF Shape, Requests, Writers, PowerActions
<1>8. CASE Command(c) = "sensor_show"
  <2>1. Script(c) = <<"list">> \o [i \in 1..controller.parts |-> "may"]
    BY <1>3, <1>8 DEF IpmiScript, Writers, PowerActions
  <2>2. /\ Len(Script(c)) = 1 + controller.parts
        /\ \A i \in 1..Len(Script(c)) : Script(c)[i] \in {"list", "may"}
    BY <2>1, <1>1
  <2> QED BY <2>2, <1>1, <1>8 DEF Shape, Requests, Writers, PowerActions
<1>9. CASE Command(c) = "bmc_show"
  <2>1. Script(c) = <<"look">>
    BY <1>3, <1>9 DEF IpmiScript, Writers, PowerActions
  <2> QED BY <2>1, <1>1, <1>9 DEF Shape, Requests, Writers, PowerActions
<1>10. CASE Command(c) = "machine_probe"
  <2>1. Script(c) = <<>>
    BY <1>3, <1>10 DEF IpmiScript, Writers, PowerActions
  <2> QED BY <2>1, <1>1, <1>10 DEF Shape, Requests, Writers, PowerActions
<1> QED BY <1>2, <1>4, <1>5, <1>6, <1>7, <1>8, <1>9, <1>10
        DEF CommandNames, Writers, Lined

LEMMA ScriptShape ==
  ASSUME TypeOK, NEW c \in Commands
  PROVE  Shape(c)
BY RedfishShape, IpmiShape

LEMMA ResetTyped ==
  ASSUME TypeOK, NEW c \in Commands, Command(c) \in PowerActions
  PROVE  After(ResetType(c)) \subseteq PowerStates
PROOF
<1>1. ResetType(c) \in ResetTypes
  BY DEF ResetType, ResetTypes, PowerActions
<1>2. power \in PowerStates
  BY DEF TypeOK
<1> QED BY <1>1, <1>2 DEF After, ResetTypes, PowerStates, PoweredOnStates

\* The value sent for a boot device is one of those the service lists, if it
\* lists any, whatever the user has typed.
LEMMA TargetListed ==
  ASSUME NEW token, NEW allowed, allowed # {}
  PROVE  RedfishTarget(token, allowed) \subseteq allowed
BY DEF RedfishTarget

LEMMA TargetTyped ==
  ASSUME TypeOK, NEW c \in Commands
  PROVE  /\ BootTargets(c) \subseteq Targets
         /\ Redfish /\ controller.targets # {} => BootTargets(c) \subseteq controller.targets
PROOF
<1>1. task[c].device \in DOMAIN Lower /\ controller.targets \subseteq DOMAIN Lower
  BY CommandAssumption DEF TypeOK, Controller
<1>2. RedfishTarget(task[c].device, controller.targets) \subseteq Targets
  BY <1>1 DEF RedfishTarget, Aliased, Targets
<1>3. IpmiTarget(task[c].device) \subseteq Targets
  BY DEF IpmiTarget, Aliased, Targets
<1>4. Redfish /\ controller.targets # {} => BootTargets(c) \subseteq controller.targets
  BY TargetListed DEF BootTargets
<1> QED BY <1>2, <1>3, <1>4 DEF BootTargets

--------------------------------------------------------------------------------
\* Where a command stands, and what its reply and its connection are there.
Course(c) ==
  /\ pc[c] \in {"idle", "opening"} =>
       /\ link[c] = "none" /\ reply[c] = "none" /\ tries[c] = 0
       /\ effects[c] = 0 /\ c \notin missed
  /\ pc[c] = "running" =>
       /\ step[c] <= Len(Script(c))
       /\ reply[c] = "none" /\ link[c] \in {"up", "down"}
  /\ pc[c] = "closing" => reply[c] \in {"result", "failed"} /\ link[c] \in {"up", "down"}
  /\ pc[c] = "over" =>
       /\ reply[c] # "none" /\ link[c] \in {"none", "closed", "abandoned"}
       /\ link[c] = "none" => reply[c] # "result" /\ effects[c] = 0
       /\ link[c] = "abandoned" => reply[c] = "failed"
  /\ Redfish \/ tries[c] = 0

\* How often its write was carried out, and what that leaves behind.
Carried(c) ==
  /\ pc[c] = "running" /\ effects[c] > 0 =>
       /\ Script(c)[step[c]] = "write"
       /\ effects[c] <= tries[c] /\ c \in lost
  /\ effects[c] > 1 => c \in lost /\ Redfish
  /\ tag[c] = "current" => effects[c] = 0
  /\ tag[c] # "none" => effects[c] <= 1
  /\ reply[c] = "result" /\ Command(c) \in Writers => effects[c] > 0
  /\ reply[c] # "result" /\ effects[c] > 0 => c \in lost

\* The values of a write were compared with those listed before it is sent.
Compared(c) ==
  Redfish /\ Command(c) \in Writers =>
    /\ pc[c] = "running" /\ step[c] > 2 => Permitted(c)
    /\ effects[c] > 0 => Permitted(c)

Gaps(c) == c \in missed => ~Redfish /\ Command(c) \in {"info_system", "sensor_show"}

Good(c) == Course(c) /\ Carried(c) /\ Compared(c) /\ Gaps(c)

BootListed ==
  Redfish /\ controller.targets # {} => boot.target \in controller.targets \cup {"None"}

Invariant == TypeOK /\ BootListed /\ \A c \in Commands : Good(c)

\* What d may notice of a step that is not its own.
Unmoved(d) ==
  /\ pc'[d] = pc[d] /\ step'[d] = step[d] /\ tries'[d] = tries[d] /\ reply'[d] = reply[d]
  /\ link'[d] = link[d] /\ effects'[d] = effects[d]
  /\ tag'[d] = tag[d] \/ (tag[d] # "none" /\ tag'[d] = "old")
  /\ (d \in lost' <=> d \in lost) /\ (d \in missed' <=> d \in missed)

LEMMA Fixed ==
  ASSUME UNCHANGED <<controller, task>>
  PROVE  /\ Redfish' <=> Redfish
         /\ \A c : /\ Script(c)' = Script(c) /\ Command(c)' = Command(c)
                   /\ Permitted(c)' <=> Permitted(c)
                   /\ BootTargets(c)' = BootTargets(c)
PROOF
<1>1. (Redfish' <=> Redfish) /\ \A c : Command(c)' = Command(c)
  BY DEF Redfish, Command
<1>2. \A c : Script(c)' = Script(c)
  BY <1>1 DEF Script, RedfishScript, IpmiScript, SensorGet, Redfish, Command
<1>3. \A c : BootTargets(c)' = BootTargets(c)
  BY <1>1 DEF BootTargets, Redfish
<1>4. \A c : Permitted(c)' <=> Permitted(c)
  BY <1>1, <1>3 DEF Permitted, ResetType, Command
<1> QED BY <1>1, <1>2, <1>3, <1>4

LEMMA UnmovedGood ==
  ASSUME TypeOK, NEW d \in Commands, Good(d), Unmoved(d), UNCHANGED <<controller, task>>
  PROVE  Good(d)'
BY Fixed DEF Good, Course, Carried, Compared, Gaps, Unmoved, TypeOK

--------------------------------------------------------------------------------
\* What every step of a command c comes to.
Kept(c) ==
  /\ TypeOK' /\ BootListed'
  /\ UNCHANGED <<controller, task>>
  /\ Good(c)'
  /\ \A d \in Commands \ {c} : Unmoved(d)

\* The same for a step that leaves the machine alone.
LEMMA QuietKept ==
  ASSUME Invariant, NEW c \in Commands, UNCHANGED <<controller, task, boot>>,
         TypeOK', Good(c)', \A d \in Commands \ {c} : Unmoved(d)
  PROVE  Kept(c)
BY DEF Kept, Invariant, BootListed, Redfish

LEMMA UnansweredKept ==
  ASSUME Invariant, NEW c \in Commands, BeginUnknown(c) \/ NotInstalled(c) \/ Rejected(c)
  PROVE  Kept(c)
PROOF
<1>1. /\ UNCHANGED <<traits, machine, link, knowledge, history>>
      /\ pc[c] = "idle"
      /\ \E with \in {"unknown", "raised", "failed", "unsupported"} : End(c, with)
  BY DEF BeginUnknown, NotInstalled, Rejected
<1>2. TypeOK /\ Good(c)
  BY DEF Invariant
<1>3. TypeOK'
  BY <1>1, <1>2 DEF TypeOK, End, traits, machine, knowledge, history
<1>4. Good(c)'
  BY <1>1, <1>2, Fixed DEF Good, Course, Carried, Compared, Gaps, TypeOK, End, traits, machine, knowledge, history
<1>5. \A d \in Commands \ {c} : Unmoved(d)
  BY <1>1, <1>2 DEF Unmoved, TypeOK, End, knowledge, history
<1> QED BY <1>1, <1>3, <1>4, <1>5, QuietKept DEF traits, machine

LEMMA BeginKept == ASSUME Invariant, NEW c \in Commands, Begin(c) PROVE Kept(c)
PROOF
<1>1. TypeOK /\ Good(c) /\ resource \in Resource
  BY DEF Invariant, TypeOK, resource, Resource
<1>2. TypeOK'
  <2>1. had' \in [Commands -> SUBSET Resource]
    BY <1>1 DEF TypeOK, Begin
  <2> QED BY <1>1, <2>1 DEF TypeOK, Begin, traits, machine, knowledge
<1>3. Good(c)'
  BY <1>1, Fixed DEF Good, Course, Carried, Compared, Gaps, TypeOK, Begin, traits, machine, knowledge
<1>4. \A d \in Commands \ {c} : Unmoved(d)
  BY <1>1 DEF Unmoved, TypeOK, Begin, knowledge
<1> QED BY <1>2, <1>3, <1>4, QuietKept DEF Begin, traits, machine

\* The types of what Move and Raise change.
ProgressTyped ==
  /\ pc' \in [Commands -> {"idle", "opening", "running", "closing", "over"}]
  /\ step' \in [Commands -> 1..(controller.parts + 6)]
  /\ tries' \in [Commands -> 0..MaxRetries]
  /\ reply' \in [Commands -> {"none", "result", "failed", "unsupported", "unknown", "raised"}]

LEMMA MoveTyped ==
  ASSUME TypeOK, NEW c \in Commands, NEW n \in 1..(Len(Script(c)) + 1), Move(c, n)
  PROVE  ProgressTyped
PROOF
<1>1. controller.parts \in Nat /\ MaxRetries \in Nat /\ Len(Script(c)) \in 0..(controller.parts + 5)
  BY CommandAssumption, ScriptShape DEF TypeOK, Controller, Shape
<1>2. n \in 1..(controller.parts + 6) /\ 0 \in 0..MaxRetries
  BY <1>1
<1>3. step' \in [Commands -> 1..(controller.parts + 6)] /\ tries' \in [Commands -> 0..MaxRetries]
  BY <1>2 DEF TypeOK, Move
<1>4. pc' \in [Commands -> {"idle", "opening", "running", "closing", "over"}]
  BY DEF TypeOK, Move
<1>5. reply' \in [Commands -> {"none", "result", "failed", "unsupported", "unknown", "raised"}]
  BY DEF TypeOK, Move
<1> QED BY <1>3, <1>4, <1>5 DEF ProgressTyped

LEMMA RaiseTyped ==
  ASSUME TypeOK, NEW c \in Commands, Raise(c)
  PROVE  ProgressTyped
PROOF
<1>1. 0 \in 0..MaxRetries
  BY CommandAssumption
<1> QED BY <1>1 DEF ProgressTyped, TypeOK, Raise

LEMMA OpenKept == ASSUME Invariant, NEW c \in Commands, Open(c) PROVE Kept(c)
PROOF
<1>1. TypeOK /\ Good(c) /\ Shape(c)
  BY ScriptShape DEF Invariant
<1>2. TypeOK'
  <2>1. ProgressTyped
    BY <1>1, MoveTyped DEF Open, Shape
  <2> QED BY <1>1, <2>1 DEF ProgressTyped, TypeOK, Open, traits, machine, knowledge, history
<1>3. Good(c)'
  BY <1>1, Fixed DEF Good, Course, Carried, Compared, Gaps, Shape, TypeOK, Open, Move, traits, machine, knowledge, history
<1>4. \A d \in Commands \ {c} : Unmoved(d)
  BY <1>1 DEF Unmoved, TypeOK, Open, Move, knowledge, history
<1> QED BY <1>2, <1>3, <1>4, QuietKept DEF Open, traits, machine

LEMMA OpenFailsKept == ASSUME Invariant, NEW c \in Commands, OpenFails(c) PROVE Kept(c)
PROOF
<1>1. TypeOK /\ Good(c)
  BY DEF Invariant
<1>2. TypeOK'
  BY <1>1 DEF TypeOK, OpenFails, End, traits, machine, knowledge, history
<1>3. Good(c)'
  BY <1>1, Fixed DEF Good, Course, Carried, Compared, Gaps, TypeOK, OpenFails, End, traits, machine, knowledge, history
<1>4. \A d \in Commands \ {c} : Unmoved(d)
  BY <1>1 DEF Unmoved, TypeOK, OpenFails, End, knowledge, history
<1> QED BY <1>2, <1>3, <1>4, QuietKept DEF OpenFails, traits, machine

\* Where a request that is sent stands in the script.
LEMMA SendingShape ==
  ASSUME TypeOK, NEW c \in Commands, Good(c), NEW r, Sending(c, r)
  PROVE  /\ step[c] \in 1..Len(Script(c)) /\ Len(Script(c)) \in Nat
         /\ step[c] + 1 \in 1..(Len(Script(c)) + 1)
         /\ Len(Script(c)) + 1 \in 1..(Len(Script(c)) + 1)
         /\ r \in Requests
         /\ r = "write" <=> Command(c) \in Writers /\ step[c] = Len(Script(c))
         /\ r \in {"may", "list"} =>
              ~Redfish /\ Command(c) \in {"info_system", "sensor_show"}
         /\ r = "eth" => Command(c) = "bmc_show"
         /\ r = "read" => step[c] = 2 \/ ~Redfish
         /\ Redfish /\ Command(c) \in Writers =>
              Len(Script(c)) > 2 /\ Script(c)[2] = "read"
PROOF
<1>1. Shape(c)
  BY ScriptShape
<1>2. Len(Script(c)) \in Nat /\ step[c] \in Nat \ {0} /\ step[c] <= Len(Script(c))
  BY <1>1, CommandAssumption DEF Shape, Good, Course, Sending, TypeOK, Controller
<1> QED BY <1>1, <1>2 DEF Shape, Sending

\* A reading that has been answered, or not: the operation goes on.
LEMMA MoveGood ==
  ASSUME TypeOK, NEW c \in Commands, Good(c), NEW r, Sending(c, r), r # "write",
         NEW n \in 1..(Len(Script(c)) + 1), Move(c, n),
         n = step[c] + 1 \/ Command(c) \notin Writers,
         r = "read" => Permitted(c),
         UNCHANGED <<controller, task, link, effects>>, lost' \in {lost, lost \cup {c}},
         missed' = missed \/ (missed' = missed \cup {c} /\ r \in {"may", "list"}),
         tag'[c] = "current" \/ tag'[c] = "none" \/ tag'[c] = tag[c]
  PROVE  Good(c)' /\ ProgressTyped
PROOF
<1>1. step[c] \in 1..Len(Script(c)) /\ Len(Script(c)) \in Nat /\ n \in Nat
  BY SendingShape
<1>2. effects[c] = 0
  BY DEF Good, Carried, Sending, TypeOK
<1>3. Command(c) \in Writers => n <= Len(Script(c))
  BY <1>1, SendingShape
<1>4. Redfish /\ Command(c) \in Writers /\ n > 2 => Permitted(c)
  BY <1>1, SendingShape DEF Good, Compared, Sending
<1>5. /\ pc' = [pc EXCEPT ![c] = IF n > Len(Script(c)) THEN "closing" ELSE "running"]
      /\ reply' = [reply EXCEPT ![c] = IF n > Len(Script(c)) THEN "result" ELSE @]
      /\ step'[c] = n /\ tries'[c] = 0
  BY DEF Move, TypeOK
<1>6. Course(c)'
  BY <1>1, <1>5, Fixed DEF Good, Course, TypeOK, Sending
<1>7. Carried(c)'
  BY <1>1, <1>2, <1>3, <1>5, Fixed DEF Good, Course, Carried, TypeOK, Sending
<1>8. Compared(c)'
  BY <1>2, <1>4, <1>5, Fixed DEF Good, Compared, TypeOK, Sending
<1>9. Gaps(c)'
  BY SendingShape, Fixed DEF Good, Gaps
<1> QED BY <1>6, <1>7, <1>8, <1>9, MoveTyped DEF Good

LEMMA RaiseGood ==
  ASSUME TypeOK, NEW c \in Commands, Good(c), pc[c] = "running", Raise(c),
         UNCHANGED <<controller, task, link, effects, tag, missed>>,
         lost' \in {lost, lost \cup {c}}
  PROVE  Good(c)' /\ ProgressTyped
PROOF
<1>1. Course(c)'
  BY Fixed DEF Good, Course, TypeOK, Raise
<1>2. Carried(c)'
  BY Fixed DEF Good, Course, Carried, TypeOK, Raise
<1>3. Compared(c)'
  BY Fixed DEF Good, Compared, TypeOK, Raise
<1>4. Gaps(c)'
  BY Fixed DEF Good, Gaps
<1> QED BY <1>1, <1>2, <1>3, <1>4, RaiseTyped DEF Good

\* The rest of the commands do not notice that c moves on or raises.
LEMMA ProgressUnmoved ==
  ASSUME TypeOK, NEW c \in Commands, Raise(c) \/ \E n : Move(c, n),
         NEW d \in Commands \ {c}
  PROVE  pc'[d] = pc[d] /\ step'[d] = step[d] /\ tries'[d] = tries[d] /\ reply'[d] = reply[d]
PROOF
<1>1. CASE Raise(c)
  BY <1>1 DEF Raise, TypeOK
<1>2. CASE \E n : Move(c, n)
  BY <1>2 DEF Move, TypeOK
<1> QED BY <1>1, <1>2

LEMMA LookKept == ASSUME Invariant, NEW c \in Commands, Look(c) PROVE Kept(c)
PROOF
<1>1. TypeOK /\ Good(c) /\ UNCHANGED <<traits, machine, link, knowledge, history>>
  BY DEF Invariant, Look
<1>2. PICK r \in {"look", "eth", "list", "may"}, n \in {step[c] + 1, Len(Script(c)) + 1} :
        Sending(c, r) /\ Move(c, n) /\ (n = step[c] + 1 \/ r = "eth")
  BY DEF Look, Answered
<1>3. n \in 1..(Len(Script(c)) + 1) /\ (n = step[c] + 1 \/ Command(c) \notin Writers)
  <2>1. r = "eth" => Command(c) \notin Writers
    BY <1>1, <1>2, SendingShape DEF Writers, PowerActions
  <2> QED BY <1>1, <1>2, <2>1, SendingShape
<1>4. Good(c)' /\ ProgressTyped
  BY <1>1, <1>2, <1>3, MoveGood DEF traits, knowledge, history
<1>5. TypeOK'
  BY <1>1, <1>4 DEF ProgressTyped, TypeOK, traits, machine, knowledge, history
<1>6. \A d \in Commands \ {c} : Unmoved(d)
  BY <1>1, <1>2, ProgressUnmoved DEF Unmoved, knowledge, history
<1> QED BY <1>1, <1>4, <1>5, <1>6, QuietKept DEF traits, machine

LEMMA ReadKept == ASSUME Invariant, NEW c \in Commands, Read(c) PROVE Kept(c)
PROOF
<1>1. /\ TypeOK /\ Good(c) /\ UNCHANGED <<traits, machine, link, tag, history>>
      /\ Sending(c, "read") /\ Permitted(c) /\ Move(c, step[c] + 1)
  BY DEF Invariant, Read, Answered
<1>2. step[c] + 1 \in 1..(Len(Script(c)) + 1)
  BY <1>1, SendingShape
<1>3. Good(c)' /\ ProgressTyped
  BY <1>1, <1>2, MoveGood DEF traits, history
<1>4. report' \in [Commands -> [on : BOOLEAN, device : Targets, persistent : BOOLEAN]]
  <2>1. Shown \in [on : BOOLEAN, device : Targets, persistent : BOOLEAN]
    BY <1>1 DEF TypeOK, Shown, BootOptions
  <2> QED BY <1>1, <2>1 DEF TypeOK, Read
<1>5. TypeOK'
  BY <1>1, <1>3, <1>4 DEF ProgressTyped, TypeOK, traits, machine, history
<1>6. \A d \in Commands \ {c} : Unmoved(d)
  BY <1>1, ProgressUnmoved DEF Unmoved, history
<1> QED BY <1>1, <1>3, <1>5, <1>6, QuietKept DEF traits, machine

LEMMA ObjectKept == ASSUME Invariant, NEW c \in Commands, Object(c) PROVE Kept(c)
PROOF
<1>1. /\ TypeOK /\ Good(c) /\ UNCHANGED <<traits, machine, link, knowledge, history>>
      /\ pc[c] = "running" /\ Raise(c)
  BY DEF Invariant, Object, Answered, Sending
<1>2. Good(c)' /\ ProgressTyped
  BY <1>1, RaiseGood DEF traits, knowledge, history
<1>3. TypeOK'
  BY <1>1, <1>2 DEF ProgressTyped, TypeOK, traits, machine, knowledge, history
<1>4. \A d \in Commands \ {c} : Unmoved(d)
  BY <1>1, ProgressUnmoved DEF Unmoved, knowledge, history
<1> QED BY <1>1, <1>2, <1>3, <1>4, QuietKept DEF traits, machine

LEMMA FetchTagKept == ASSUME Invariant, NEW c \in Commands, FetchTag(c) PROVE Kept(c)
PROOF
<1>1. /\ TypeOK /\ Good(c) /\ UNCHANGED <<traits, machine, link, report, history>>
      /\ Sending(c, "etag") /\ Move(c, step[c] + 1)
  BY DEF Invariant, FetchTag, Answered
<1>2. PICK t \in {"current", "none"} : tag' = [tag EXCEPT ![c] = t]
  BY DEF FetchTag
<1>3. step[c] + 1 \in 1..(Len(Script(c)) + 1)
  BY <1>1, SendingShape
<1>4. tag'[c] = t /\ tag' \in [Commands -> {"none", "current", "old"}]
  BY <1>1, <1>2 DEF TypeOK
<1>5. Good(c)' /\ ProgressTyped
  BY <1>1, <1>3, <1>4, MoveGood DEF traits, history
<1>6. TypeOK'
  BY <1>1, <1>4, <1>5 DEF ProgressTyped, TypeOK, traits, machine, history
<1>7. \A d \in Commands \ {c} : Unmoved(d)
  <2>1. \A d \in Commands \ {c} : tag'[d] = tag[d]
    BY <1>1, <1>2 DEF TypeOK
  <2> QED BY <1>1, <2>1, ProgressUnmoved DEF Unmoved, history
<1> QED BY <1>1, <1>5, <1>6, <1>7, QuietKept DEF traits, machine

LEMMA FailsGood ==
  ASSUME TypeOK, NEW c \in Commands, Good(c), Fails(c),
         UNCHANGED <<controller, task, link, effects, tag>>,
         lost' \in {lost, lost \cup {c}}
  PROVE  /\ Good(c)' /\ ProgressTyped /\ missed' \in {missed, missed \cup {c}}
         /\ Raise(c) \/ \E n : Move(c, n)
PROOF
<1>1. CASE /\ missed' = missed \cup {c}
           /\ \/ Sending(c, "may") /\ Move(c, step[c] + 1)
              \/ Sending(c, "list") /\ Move(c, Len(Script(c)) + 1)
  <2>1. PICK r \in {"may", "list"}, n \in {step[c] + 1, Len(Script(c)) + 1} :
          Sending(c, r) /\ Move(c, n)
    BY <1>1
  <2>2. n \in 1..(Len(Script(c)) + 1) /\ Command(c) \notin Writers
    BY <2>1, SendingShape DEF Writers, PowerActions
  <2>3. Good(c)' /\ ProgressTyped
    BY <1>1, <2>1, <2>2, MoveGood
  <2> QED BY <1>1, <2>1, <2>3
<1>2. CASE /\ missed' = missed
           /\ \E r \in {"look", "read", "eth", "etag", "write"} : Sending(c, r)
           /\ Raise(c)
  <2>1. pc[c] = "running"
    BY <1>2 DEF Sending
  <2> QED BY <1>2, <2>1, RaiseGood
<1> QED BY <1>1, <1>2 DEF Fails

LEMMA RefuseKept == ASSUME Invariant, NEW c \in Commands, Refuse(c) PROVE Kept(c)
PROOF
<1>1. TypeOK /\ Good(c) /\ UNCHANGED <<traits, machine, link, knowledge, effects, had, lost>>
  BY DEF Invariant, Refuse
<1>2. /\ Good(c)' /\ ProgressTyped /\ missed' \in {missed, missed \cup {c}}
      /\ Raise(c) \/ \E n : Move(c, n)
  <2>1. CASE Fails(c)
    BY <1>1, <2>1, FailsGood DEF traits, knowledge
  <2>2. CASE Sending(c, "etag") /\ Move(c, step[c] + 1) /\ UNCHANGED missed
    <3>1. step[c] + 1 \in 1..(Len(Script(c)) + 1)
      BY <1>1, <2>2, SendingShape
    <3>2. Good(c)' /\ ProgressTyped
      BY <1>1, <2>2, <3>1, MoveGood DEF traits, knowledge
    <3> QED BY <2>2, <3>2
  <2> QED BY <2>1, <2>2 DEF Refuse
<1>3. TypeOK'
  BY <1>1, <1>2 DEF ProgressTyped, TypeOK, traits, machine, knowledge
<1>4. \A d \in Commands \ {c} : Unmoved(d)
  BY <1>1, <1>2, ProgressUnmoved DEF Unmoved, knowledge
<1> QED BY <1>1, <1>2, <1>3, <1>4, QuietKept DEF traits, machine

LEMMA DropKept == ASSUME Invariant, NEW c \in Commands, Drop(c) PROVE Kept(c)
PROOF
<1>1. TypeOK /\ Good(c)
  BY DEF Invariant
<1>2. TypeOK'
  BY <1>1 DEF TypeOK, Drop, traits, machine, progress, knowledge
<1>3. Good(c)'
  BY <1>1, Fixed DEF Good, Course, Carried, Compared, Gaps, TypeOK, Drop, traits, machine, progress, knowledge
<1>4. \A d \in Commands \ {c} : Unmoved(d)
  BY <1>1 DEF Unmoved, TypeOK, Drop, progress, knowledge
<1> QED BY <1>2, <1>3, <1>4, QuietKept DEF Drop, traits, machine

LEMMA CloseKept ==
  ASSUME Invariant, NEW c \in Commands, Close(c) \/ CloseFails(c)
  PROVE  Kept(c)
PROOF
<1>1. /\ TypeOK /\ Good(c) /\ pc[c] = "closing"
      /\ UNCHANGED <<traits, machine, knowledge, effects, had, missed>>
  BY DEF Invariant, Close, CloseFails, history
<1>2. \/ link' = [link EXCEPT ![c] = "closed"] /\ End(c, reply[c]) /\ lost' = lost
      \/ link' = [link EXCEPT ![c] = "abandoned"] /\ End(c, "failed") /\ lost' = lost \cup {c}
  BY DEF Close, CloseFails, history
<1>3. TypeOK'
  BY <1>1, <1>2 DEF TypeOK, End, traits, machine, knowledge
<1>4. Good(c)'
  BY <1>1, <1>2, Fixed DEF Good, Course, Carried, Compared, Gaps, TypeOK, End, traits, knowledge
<1>5. \A d \in Commands \ {c} : Unmoved(d)
  BY <1>1, <1>2 DEF Unmoved, TypeOK, End, knowledge
<1> QED BY <1>1, <1>3, <1>4, <1>5, QuietKept DEF traits, machine

\* The types of what is changed with the machine.
MachineTyped ==
  /\ power' \in PowerStates /\ boot' \in BootOptions /\ author' \in Commands \cup {Host}
  /\ tag' \in [Commands -> {"none", "current", "old"}]
  /\ had' \in [Commands -> SUBSET Resource]

LEMMA ChangedTyped ==
  ASSUME TypeOK, NEW by \in Commands \cup {Host}, Changed(by),
         power' \in PowerStates, boot' \in BootOptions
  PROVE  /\ MachineTyped
         /\ \A d \in Commands : tag'[d] = IF tag[d] = "none" THEN "none" ELSE "old"
PROOF
<1>1. resource' \in Resource
  BY DEF resource, Resource
<1>2. had' \in [Commands -> SUBSET Resource]
  BY <1>1 DEF TypeOK, Changed
<1>3. /\ tag' \in [Commands -> {"none", "current", "old"}]
      /\ \A d \in Commands : tag'[d] = IF tag[d] = "none" THEN "none" ELSE "old"
  BY DEF Changed, Overtaken
<1> QED BY <1>2, <1>3 DEF MachineTyped, Changed

LEMMA CarryOutEffect ==
  ASSUME Invariant, NEW c \in Commands, Answered(c, "write"), CarryOut(c),
         UNCHANGED <<controller, task>>
  PROVE  /\ MachineTyped /\ BootListed'
         /\ effects' \in [Commands -> 0..(MaxRetries + 1)]
         /\ effects'[c] = effects[c] + 1 /\ effects[c] <= tries[c] /\ tag[c] # "old"
         /\ Command(c) \in Writers /\ (Redfish => Permitted(c))
         /\ \A d \in Commands : tag'[d] = IF tag[d] = "none" THEN "none" ELSE "old"
         /\ \A d \in Commands \ {c} : effects'[d] = effects[d]
PROOF
<1>1. TypeOK /\ Good(c) /\ BootListed /\ Sending(c, "write")
  BY DEF Invariant, Answered
<1>2. /\ Command(c) \in Writers /\ step[c] = Len(Script(c))
      /\ Redfish => Len(Script(c)) > 2
  BY <1>1, SendingShape
<1>3. power' \in PowerStates /\ boot' \in BootOptions /\ BootListed'
  <2>1. CASE Command(c) = "boot_set"
    <3>1. boot' \in [target : BootTargets(c), enabled : {task[c].mode}] /\ power' = power
      BY <2>1 DEF CarryOut
    <3>2. task[c].mode \in {"Once", "Continuous"}
      BY <1>1, CommandAssumption DEF TypeOK
    <3>3. boot'.target \in BootTargets(c) /\ boot' \in BootOptions
      BY <1>1, <3>1, <3>2, TargetTyped DEF BootOptions
    <3> QED BY <1>1, <3>1, <3>3, TargetTyped DEF TypeOK, BootListed, Redfish
  <2>2. CASE Command(c) \in PowerActions
    <3>1. power' \in After(ResetType(c)) /\ boot' = boot
      BY <2>2 DEF CarryOut, PowerActions
    <3> QED BY <1>1, <2>2, <3>1, ResetTyped DEF TypeOK, BootListed, Redfish
  <2> QED BY <1>2, <2>1, <2>2 DEF Writers
<1>4. effects[c] <= tries[c] /\ tries[c] \in 0..MaxRetries /\ effects[c] \in Nat
  BY <1>1, CommandAssumption DEF Good, Carried, Sending, TypeOK
<1>5. /\ effects' \in [Commands -> 0..(MaxRetries + 1)] /\ effects'[c] = effects[c] + 1
      /\ \A d \in Commands \ {c} : effects'[d] = effects[d]
  BY <1>1, <1>4, CommandAssumption DEF CarryOut, TypeOK
<1>6. MachineTyped /\ \A d \in Commands : tag'[d] = IF tag[d] = "none" THEN "none" ELSE "old"
  BY <1>1, <1>3, ChangedTyped DEF CarryOut
<1>7. Redfish => Permitted(c)
  BY <1>1, <1>2 DEF Good, Compared, Sending
<1> QED BY <1>2, <1>3, <1>4, <1>5, <1>6, <1>7 DEF CarryOut

LEMMA WriteKept == ASSUME Invariant, NEW c \in Commands, Write(c) PROVE Kept(c)
PROOF
<1>1. /\ TypeOK /\ Good(c) /\ UNCHANGED <<traits, link, report, lost, missed>>
      /\ Answered(c, "write") /\ Sending(c, "write") /\ CarryOut(c) /\ Move(c, step[c] + 1)
  BY DEF Invariant, Write, Answered
<1>2. UNCHANGED <<controller, task, registry>>
  BY <1>1 DEF traits
<1>3. /\ MachineTyped /\ BootListed'
      /\ effects' \in [Commands -> 0..(MaxRetries + 1)]
      /\ effects'[c] = effects[c] + 1 /\ effects[c] <= tries[c] /\ tag[c] # "old"
      /\ Command(c) \in Writers /\ (Redfish => Permitted(c))
      /\ \A d \in Commands : tag'[d] = IF tag[d] = "none" THEN "none" ELSE "old"
      /\ \A d \in Commands \ {c} : effects'[d] = effects[d]
  BY <1>1, <1>2, CarryOutEffect
<1>4. step[c] + 1 \in 1..(Len(Script(c)) + 1) /\ step[c] = Len(Script(c)) /\ Len(Script(c)) \in Nat
  BY <1>1, SendingShape
<1>5. ProgressTyped
  BY <1>1, <1>4, MoveTyped
<1>6. TypeOK'
  BY <1>1, <1>2, <1>3, <1>5 DEF ProgressTyped, MachineTyped, TypeOK
<1>7. pc'[c] = "closing" /\ reply'[c] = "result" /\ tries'[c] = 0
  BY <1>1, <1>4 DEF Move, TypeOK
<1>8. Good(c)'
  <2>1. effects[c] \in Nat /\ tries[c] \in Nat /\ (~Redfish => tries[c] = 0)
    BY <1>1, CommandAssumption DEF TypeOK, Good, Course
  <2>2. Course(c)'
    BY <1>1, <1>2, <1>7, Fixed DEF Good, Course, Sending
  <2>3. Carried(c)'
    BY <1>1, <1>2, <1>3, <1>7, <2>1, Fixed DEF Good, Carried, Sending, TypeOK
  <2>4. Compared(c)' /\ Gaps(c)'
    BY <1>1, <1>2, <1>3, <1>7, Fixed DEF Good, Compared, Gaps
  <2> QED BY <2>2, <2>3, <2>4 DEF Good
<1>9. \A d \in Commands \ {c} : Unmoved(d)
  BY <1>1, <1>3, ProgressUnmoved DEF Unmoved
<1> QED BY <1>2, <1>3, <1>6, <1>8, <1>9 DEF Kept

\* A loss that leaves the machine as it is.
LEMMA LoseQuietKept ==
  ASSUME Invariant, NEW c \in Commands, Lose(c), UNCHANGED <<machine, tag, effects, had>>
  PROVE  Kept(c)
PROOF
<1>1. /\ TypeOK /\ Good(c) /\ UNCHANGED <<traits, link, report>> /\ lost' = lost \cup {c}
      /\ pc[c] = "running"
  BY DEF Invariant, Lose, Sends
<1>2. CASE /\ TryAgain(c) /\ tries' = [tries EXCEPT ![c] = @ + 1]
           /\ UNCHANGED <<pc, step, reply, missed>>
  <2>1. tries[c] \in Nat /\ tries[c] < MaxRetries /\ Redfish /\ MaxRetries \in Nat
    BY <1>1, <1>2, CommandAssumption DEF TypeOK, TryAgain
  <2>2. tries' \in [Commands -> 0..MaxRetries] /\ tries'[c] = tries[c] + 1
    BY <1>1, <1>2, <2>1 DEF TypeOK
  <2>3. TypeOK'
    BY <1>1, <1>2, <2>2 DEF TypeOK, traits, machine
  <2>4. Good(c)'
    BY <1>1, <1>2, <2>1, <2>2, Fixed DEF Good, Course, Carried, Compared, Gaps, TypeOK, traits
  <2>5. \A d \in Commands \ {c} : Unmoved(d)
    BY <1>1, <1>2 DEF Unmoved, TypeOK
  <2> QED BY <1>1, <2>3, <2>4, <2>5, QuietKept DEF traits, machine
<1>3. CASE Fails(c)
  <2>1. /\ Good(c)' /\ ProgressTyped /\ missed' \in {missed, missed \cup {c}}
        /\ Raise(c) \/ \E n : Move(c, n)
    BY <1>1, <1>3, FailsGood DEF traits
  <2>2. TypeOK'
    BY <1>1, <2>1 DEF ProgressTyped, TypeOK, traits, machine
  <2>3. \A d \in Commands \ {c} : Unmoved(d)
    BY <1>1, <2>1, ProgressUnmoved DEF Unmoved
  <2> QED BY <1>1, <2>1, <2>2, <2>3, QuietKept DEF traits, machine
<1> QED BY <1>2, <1>3 DEF Lose

\* The answer to a write that was carried out is lost.
LEMMA LoseAnswerKept ==
  ASSUME Invariant, NEW c \in Commands, Lose(c), Answered(c, "write"), CarryOut(c)
  PROVE  Kept(c)
PROOF
<1>1. /\ TypeOK /\ Good(c) /\ UNCHANGED <<traits, link, report>> /\ lost' = lost \cup {c}
      /\ Sending(c, "write") /\ pc[c] = "running" /\ Script(c)[step[c]] = "write"
  BY DEF Invariant, Lose, Sends, Answered, Sending
<1>2. UNCHANGED <<controller, task, registry>>
  BY <1>1 DEF traits
<1>3. /\ MachineTyped /\ BootListed'
      /\ effects' \in [Commands -> 0..(MaxRetries + 1)]
      /\ effects'[c] = effects[c] + 1 /\ effects[c] <= tries[c] /\ tag[c] # "old"
      /\ Command(c) \in Writers /\ (Redfish => Permitted(c))
      /\ \A d \in Commands : tag'[d] = IF tag[d] = "none" THEN "none" ELSE "old"
      /\ \A d \in Commands \ {c} : effects'[d] = effects[d]
  BY <1>2, CarryOutEffect
<1>4. effects[c] \in Nat /\ tries[c] \in Nat /\ (~Redfish => tries[c] = 0)
  BY <1>1, CommandAssumption DEF TypeOK, Good, Course
<1>5. Compared(c)'
  BY <1>1, <1>2, <1>3, Fixed DEF Compared
<1>6. CASE /\ TryAgain(c) /\ tries' = [tries EXCEPT ![c] = @ + 1]
           /\ UNCHANGED <<pc, step, reply, missed>>
  <2>1. tries[c] < MaxRetries /\ Redfish /\ MaxRetries \in Nat
    BY <1>6, CommandAssumption DEF TryAgain
  <2>2. tries' \in [Commands -> 0..MaxRetries] /\ tries'[c] = tries[c] + 1
    BY <1>1, <1>4, <1>6, <2>1 DEF TypeOK
  <2>3. TypeOK'
    BY <1>1, <1>2, <1>3, <1>6, <2>2 DEF MachineTyped, TypeOK
  <2>4. Course(c)' /\ Gaps(c)'
    BY <1>1, <1>2, <1>6, <2>1, Fixed DEF Good, Course, Gaps
  <2>5. Carried(c)'
    BY <1>1, <1>2, <1>3, <1>4, <1>6, <2>1, <2>2, Fixed DEF Good, Course, Carried, TypeOK
  <2>6. \A d \in Commands \ {c} : Unmoved(d)
    BY <1>1, <1>3, <1>6 DEF Unmoved, TypeOK
  <2> QED BY <1>2, <1>3, <1>5, <2>3, <2>4, <2>5, <2>6 DEF Kept, Good
<1>7. CASE Fails(c)
  <2>1. Raise(c) /\ missed' = missed
    BY <1>1, <1>7 DEF Fails, Sending
  <2>2. ProgressTyped
    BY <1>1, <2>1, RaiseTyped
  <2>3. TypeOK'
    BY <1>1, <1>2, <1>3, <2>1, <2>2 DEF ProgressTyped, MachineTyped, TypeOK
  <2>4. pc'[c] = "closing" /\ reply'[c] = "failed" /\ tries'[c] = 0
    BY <1>1, <2>1 DEF Raise, TypeOK
  <2>5. Course(c)' /\ Gaps(c)'
    BY <1>1, <1>2, <2>1, <2>4, Fixed DEF Good, Course, Gaps
  <2>6. Carried(c)'
    BY <1>1, <1>2, <1>3, <1>4, <2>4, Fixed DEF Good, Carried, TypeOK
  <2>7. \A d \in Commands \ {c} : Unmoved(d)
    BY <1>1, <1>3, <2>1, ProgressUnmoved DEF Unmoved
  <2> QED BY <1>2, <1>3, <1>5, <2>3, <2>5, <2>6, <2>7 DEF Kept, Good
<1> QED BY <1>6, <1>7 DEF Lose

LEMMA CommandStepKept ==
  ASSUME Invariant, NEW c \in Commands, CommandStep(c)
  PROVE  Kept(c)
PROOF
<1>1. CASE Lose(c)
  BY <1>1, LoseQuietKept, LoseAnswerKept DEF Lose
<1> QED BY <1>1, UnansweredKept, BeginKept, OpenKept, OpenFailsKept, LookKept, ReadKept,
           ObjectKept, FetchTagKept, WriteKept, RefuseKept, DropKept, CloseKept
        DEF CommandStep

\* What the host does by itself, or machine_delete, every command may notice.
LEMMA OutsideKept ==
  ASSUME Invariant, HostBoots \/ HostStops \/ Unregister
  PROVE  /\ TypeOK' /\ BootListed'
         /\ UNCHANGED <<controller, task>>
         /\ \A d \in Commands : Unmoved(d)
PROOF
<1>1. TypeOK /\ BootListed
  BY DEF Invariant
<1>2. CASE HostBoots \/ HostStops
  <2>1. /\ Changed(Host) /\ UNCHANGED <<traits, progress, link, report, effects, lost, missed>>
    BY <1>2 DEF HostBoots, HostStops
  <2>2. power' \in PowerStates /\ boot' \in BootOptions /\ BootListed'
    <3>1. CASE HostStops
      BY <1>1, <3>1 DEF HostStops, TypeOK, PowerStates, BootListed, Redfish, traits
    <3>2. CASE HostBoots
      <4>1. boot' = boot \/ boot' = [target |-> "None", enabled |-> "Disabled"]
        BY <3>2 DEF HostBoots
      <4> QED BY <1>1, <3>2, <4>1
              DEF HostBoots, TypeOK, PowerStates, BootOptions, Targets, BootListed, Redfish, traits
    <3> QED BY <1>2, <3>1, <3>2
  <2>3. /\ MachineTyped
        /\ \A d \in Commands : tag'[d] = IF tag[d] = "none" THEN "none" ELSE "old"
    BY <1>1, <2>1, <2>2, ChangedTyped
  <2>4. TypeOK'
    BY <1>1, <2>1, <2>3 DEF MachineTyped, TypeOK, traits, progress
  <2>5. \A d \in Commands : Unmoved(d)
    BY <2>1, <2>3 DEF Unmoved, progress
  <2> QED BY <2>1, <2>2, <2>4, <2>5 DEF traits
<1>3. CASE Unregister
  <2>1. TypeOK' /\ BootListed'
    BY <1>1, <1>3 DEF Unregister, TypeOK, machine, progress, knowledge, history, BootListed, Redfish
  <2>2. \A d \in Commands : Unmoved(d)
    BY <1>3 DEF Unregister, Unmoved, progress, knowledge, history
  <2> QED BY <1>3, <2>1, <2>2 DEF Unregister
<1> QED BY <1>2, <1>3

LEMMA InitInvariant == Init => Invariant
PROOF
<1> SUFFICES ASSUME Init PROVE Invariant
  OBVIOUS
<1>1. controller \in Controllers /\ controller.parts \in Nat /\ MaxRetries \in Nat
  BY CommandAssumption DEF Init, Controller
<1>2. power \in PowerStates /\ boot \in BootOptions
  BY DEF Init, PowerStates, BootOptions, Targets
<1>3. Shown \in [on : BOOLEAN, device : Targets, persistent : BOOLEAN]
  BY <1>2 DEF Shown, BootOptions
<1>4. TypeOK
  BY <1>1, <1>2, <1>3 DEF Init, TypeOK, All
<1>5. BootListed
  BY DEF Init, BootListed
<1>6. \A c \in Commands : Good(c)
  BY DEF Init, All, Good, Course, Carried, Compared, Gaps
<1> QED BY <1>4, <1>5, <1>6 DEF Invariant

LEMMA StepInvariant == Invariant /\ [Next]_vars => Invariant'
PROOF
<1> SUFFICES ASSUME Invariant, [Next]_vars PROVE Invariant'
  OBVIOUS
<1>1. CASE \E c \in Commands : CommandStep(c)
  <2>1. PICK c \in Commands : CommandStep(c)
    BY <1>1
  <2>2. Kept(c)
    BY <2>1, CommandStepKept
  <2>3. \A d \in Commands \ {c} : Good(d)'
    BY <2>2, UnmovedGood DEF Kept, Invariant
  <2> QED BY <2>2, <2>3 DEF Kept, Invariant
<1>2. CASE HostBoots \/ HostStops \/ Unregister
  <2>1. \A d \in Commands : Good(d)'
    BY <1>2, OutsideKept, UnmovedGood DEF Invariant
  <2> QED BY <1>2, <2>1, OutsideKept DEF Invariant
<1>3. CASE UNCHANGED vars
  <2>1. TypeOK' /\ BootListed' /\ UNCHANGED <<controller, task>> /\ \A d \in Commands : Unmoved(d)
    BY <1>3 DEF Invariant, TypeOK, BootListed, Redfish, Unmoved, vars, traits, machine,
                progress, knowledge, history
  <2>2. \A d \in Commands : Good(d)'
    BY <2>1, UnmovedGood DEF Invariant
  <2> QED BY <2>1, <2>2 DEF Invariant
<1> QED BY <1>1, <1>2, <1>3 DEF Next

LEMMA InvariantHolds == Spec => []Invariant
BY InitInvariant, StepInvariant, PTL DEF Spec

--------------------------------------------------------------------------------
\* Every variable keeps its type, whatever the commands and the controllers.
THEOREM CommandsTyped == Spec => []TypeOK
PROOF
<1>1. Invariant => TypeOK
  BY DEF Invariant
<1> QED BY <1>1, InvariantHolds, PTL

\* A write is repeated only after a loss and only by the Redfish layer, and
\* under an ETag it takes effect at most once.
THEOREM RepeatsAreGuarded == Spec => []RepeatsGuarded
PROOF
<1>1. Invariant => RepeatsGuarded
  BY DEF Invariant, Good, Carried, RepeatsGuarded
<1> QED BY <1>1, InvariantHolds, PTL

\* The controller carries out only reset types and boot targets it lists, if it
\* lists any.
THEOREM ListedValuesOnly == Spec => []OnlyListedValues
PROOF
<1>1. Invariant => OnlyListedValues
  BY DEF Invariant, BootListed, Good, Compared, Permitted, OnlyListedValues, Writers
<1> QED BY <1>1, InvariantHolds, PTL

\* A power command or boot_set that reports success was carried out; if it
\* reports anything else it was not, unless a message was lost.
THEOREM RepliesAreTruthful == Spec => []RepliesTruthful
PROOF
<1>1. Invariant => RepliesTruthful
  BY DEF Invariant, Good, Carried, RepliesTruthful
<1> QED BY <1>1, InvariantHolds, PTL

\* A run whose close raised, or whose connection is gone for good, is reported as
\* failed.
THEOREM LostLinksAreReported == Spec => []LostLinksReported
PROOF
<1>1. Invariant => LostLinksReported
  BY DEF Invariant, Good, Course, LostLinksReported
<1> QED BY <1>1, InvariantHolds, PTL

\* Only sensors and system information over IPMI pass over a reading that fails.
THEOREM GapsAreIpmis == Spec => []GapsOnlyOverIpmi
PROOF
<1>1. Invariant => GapsOnlyOverIpmi
  BY DEF Invariant, TypeOK, Good, Course, Gaps, GapsOnlyOverIpmi
<1> QED BY <1>1, InvariantHolds, PTL

--------------------------------------------------------------------------------
\* The initial states are those of a register nobody has a tag of.
LEMMA InitImplementsRegister == Init => Register!Init
PROOF
<1> SUFFICES ASSUME Init PROVE Register!Init
  OBVIOUS
<1>1. resource \in Resource
  BY DEF Init, resource, Resource, PowerStates, BootOptions, Targets
<1>2. author = Host /\ tag = [c \in Commands |-> "none"]
  BY DEF Init, All
<1> QED BY <1>1, <1>2 DEF Register!Init

\* A change of the machine, by whomever, is a change of the register.
LEMMA ChangedImplementsRegister ==
  ASSUME TypeOK', NEW by, Changed(by)
  PROVE  Register!Change(by)
PROOF
<1>1. resource' \in Resource
  BY DEF TypeOK, resource, Resource
<1> QED BY <1>1 DEF Changed, Overtaken, Register!Change, Register!Overtaken

\* Every step stores under a tag that is not old, fetches one, is the host's, or
\* leaves the register alone.
LEMMA StepImplementsRegister ==
  Invariant /\ Invariant' /\ [Next]_vars => [Register!Next]_(Register!vars)
PROOF
<1> SUFFICES ASSUME Invariant, Invariant', [Next]_vars
             PROVE  [Register!Next]_(Register!vars)
  OBVIOUS
<1>1. TypeOK'
  BY DEF Invariant
<1>2. ASSUME UNCHANGED <<machine, tag>> PROVE UNCHANGED Register!vars
  BY <1>2 DEF machine, resource, Register!vars
<1>3. ASSUME NEW c \in Commands, CommandStep(c)
      PROVE  [Register!Next]_(Register!vars)
  <2>1. ASSUME CarryOut(c) PROVE Register!Store(c)
    BY <1>1, <2>1, ChangedImplementsRegister DEF CarryOut, Register!Store
  <2>2. CASE Write(c) \/ Lose(c)
    <3>1. CarryOut(c) \/ UNCHANGED <<machine, tag>>
      BY <2>2 DEF Write, Lose
    <3> QED BY <1>2, <2>1, <3>1 DEF Register!Next
  <2>3. CASE FetchTag(c)
    <3>1. Register!Fetch(c)
      <4>1. UNCHANGED <<resource, author>>
        BY <2>3 DEF FetchTag, machine, resource
      <4>2. \E t \in {"none", "current"} : tag' = [tag EXCEPT ![c] = t]
        BY <2>3 DEF FetchTag
      <4> QED BY <4>1, <4>2 DEF Register!Fetch
    <3> QED BY <3>1 DEF Register!Next
  <2>4. CASE ~(Write(c) \/ Lose(c) \/ FetchTag(c))
    <3>1. UNCHANGED <<machine, tag>>
      BY <1>3, <2>4
      DEF CommandStep, BeginUnknown, NotInstalled, Rejected, Begin, Open, OpenFails, Look,
          Read, Object, Refuse, Drop, Close, CloseFails, knowledge
    <3> QED BY <1>2, <3>1
  <2> QED BY <2>2, <2>3, <2>4
<1>4. CASE HostBoots \/ HostStops
  <2>1. Changed(Host)
    BY <1>4 DEF HostBoots, HostStops
  <2> QED BY <1>1, <2>1, ChangedImplementsRegister DEF Register!Next
<1>5. CASE Unregister \/ UNCHANGED vars
  BY <1>2, <1>5 DEF Unregister, knowledge, vars
<1> QED BY <1>3, <1>4, <1>5 DEF Next

\* However many users set boot devices and switch the machine, over whatever
\* network, the boot options behave as a register with compare-and-set.
THEOREM BootImplementsCompareAndSet == Spec => BootIsCompareAndSet
PROOF
<1>1. Init => Register!Init
  BY InitImplementsRegister
<1>2. Invariant /\ Invariant' /\ [Next]_vars => [Register!Next]_(Register!vars)
  BY StepImplementsRegister
<1> QED BY <1>1, <1>2, InvariantHolds, PTL DEF Spec, BootIsCompareAndSet, Register!Spec

--------------------------------------------------------------------------------
Readers == {"power_list", "boot_show"}

\* The report r is what the machine was like in state s.
Matches(s, r) ==
  /\ r.on => s.power # "Off"
  /\ ~r.on => s.power \in {"Off", "PoweringOff"}
  /\ r.device = s.boot.target
  /\ r.persistent <=> s.boot.enabled = "Continuous"

\* What a command that only reads has seen, and what it is going to report.
Readings(c) == had[c] # {} =>
  /\ Command(c) \in Readers /\ pc[c] # "idle"
  /\ pc[c] # "over" => resource \in had[c]
  /\ pc[c] = "running" /\ step[c] = 2 /\ ~Redfish =>
       \E s \in had[c] : Matches(s, report[c])
  /\ reply[c] = "result" =>
       \/ \E s \in had[c] : Matches(s, report[c])
       \/ /\ ~Redfish /\ Command(c) = "boot_show"
          /\ \E r, s \in had[c] : r.boot # s.boot

\* The scripts of the commands that only read end with the reading reported.
LEMMA ReaderShape ==
  ASSUME NEW c \in Commands, Command(c) \in Readers
  PROVE  /\ Len(Script(c)) \in {1, 2} /\ Script(c)[Len(Script(c))] = "read"
         /\ Redfish => Len(Script(c)) = 2 /\ Script(c)[1] = "look"
         /\ ~Redfish => Script(c)[1] = "read"
         /\ ~Redfish /\ Len(Script(c)) = 2 => Command(c) = "boot_show"
PROOF
<1>1. CASE Redfish
  <2>1. Script(c) = <<"look", "read">>
    BY <1>1 DEF Script, RedfishScript, Readers, PowerActions
  <2> QED BY <1>1, <2>1
<1>2. CASE ~Redfish /\ Command(c) = "power_list"
  <2>1. Script(c) = <<"read">>
    BY <1>2 DEF Script, IpmiScript, Writers, PowerActions
  <2> QED BY <1>2, <2>1
<1>3. CASE ~Redfish /\ Command(c) = "boot_show"
  <2>1. Script(c) = <<"read", "read">>
    BY <1>3 DEF Script, IpmiScript, Writers, PowerActions
  <2> QED BY <1>3, <2>1
<1> QED BY <1>1, <1>2, <1>3 DEF Readers

\* What is shown of the machine is what it is like now.
LEMMA ShownMatches == ASSUME TypeOK PROVE Matches(resource, Shown)
PROOF
<1>1. power \in PowerStates /\ resource.power = power /\ resource.boot = boot
  BY DEF TypeOK, resource
<1>2. (Shown.on <=> power \in PoweredOnStates \/ (~Redfish /\ power # "Off"))
      /\ Shown.device = boot.target
      /\ (Shown.persistent <=> boot.enabled = "Continuous")
  BY DEF Shown
<1> QED BY <1>1, <1>2 DEF Matches, PowerStates, PoweredOnStates

\* The machine stands still, or all who read see it change.
Seen(d) ==
  \/ UNCHANGED <<power, boot>> /\ had'[d] = had[d]
  \/ had'[d] = IF had[d] # {} /\ pc[d] # "over" THEN had[d] \cup {resource'} ELSE had[d]

LEMMA UnmovedReadings ==
  ASSUME NEW d \in Commands, Readings(d), Seen(d), UNCHANGED <<controller, task>>,
         pc'[d] = pc[d] /\ step'[d] = step[d] /\ reply'[d] = reply[d],
         report'[d] = report[d]
  PROVE  Readings(d)'
PROOF
<1> SUFFICES ASSUME had'[d] # {} PROVE Readings(d)'
  BY DEF Readings
<1>1. had[d] # {} /\ had[d] \subseteq had'[d]
  BY DEF Seen
<1>2. pc[d] # "over" => resource' \in had'[d]
  BY <1>1 DEF Readings, Seen, resource
<1>3. (Redfish' <=> Redfish) /\ Command(d)' = Command(d)
  BY DEF Redfish, Command
<1>4. \A s \in had[d] : Matches(s, report[d]) => Matches(s, report'[d])
  OBVIOUS
<1> QED BY <1>1, <1>2, <1>3, <1>4 DEF Readings, Matches

\* A step that gets nothing to report.
LEMMA BareReadings ==
  ASSUME NEW c \in Commands, Readings(c), UNCHANGED <<power, boot, had, controller, task>>,
         had[c] # {} => /\ pc'[c] # "idle" /\ reply'[c] # "result"
                        /\ pc[c] = "over" => pc'[c] = "over"
                        /\ pc'[c] = "running" => step'[c] # 2 \/ Redfish
  PROVE  Readings(c)'
BY DEF Readings, Redfish, Command, resource

LEMMA ReadReadings ==
  ASSUME Invariant, NEW c \in Commands, Readings(c), Read(c)
  PROVE  Readings(c)'
PROOF
<1> SUFFICES ASSUME had'[c] # {} PROVE Readings(c)'
  BY DEF Readings
<1>1. /\ TypeOK /\ Sending(c, "read") /\ Move(c, step[c] + 1)
      /\ UNCHANGED <<power, boot, had, controller, task>>
  BY DEF Invariant, Read, Answered, traits, machine, history
<1>2. Command(c) \in Readers /\ pc[c] = "running" /\ resource \in had[c]
  BY <1>1 DEF Readings, Sending
<1>3. step[c] \in 1..Len(Script(c))
  BY <1>1, SendingShape DEF Invariant
<1>4. /\ Redfish' <=> Redfish
      /\ Command(c)' = Command(c) /\ resource' = resource
      /\ pc'[c] = IF step[c] + 1 > Len(Script(c)) THEN "closing" ELSE "running"
      /\ reply'[c] = IF step[c] + 1 > Len(Script(c)) THEN "result" ELSE reply[c]
      /\ step'[c] = step[c] + 1
  BY <1>1 DEF Redfish, Command, resource, Move, TypeOK
<1>5. /\ step[c] = 2 /\ ~Redfish => report'[c] = [report[c] EXCEPT !.persistent = Shown.persistent]
      /\ ~(step[c] = 2 /\ ~Redfish) => report'[c] = Shown
  BY <1>1 DEF Read, TypeOK
<1>6. CASE step[c] = 2 /\ ~Redfish
  <2>1. Len(Script(c)) = 2 /\ Command(c) = "boot_show"
    BY <1>2, <1>3, <1>6, ReaderShape
  <2>2. PICK s \in had[c] : Matches(s, report[c])
    BY <1>1, <1>2, <1>6 DEF Readings
  <2>3. /\ report[c] \in [on : BOOLEAN, device : Targets, persistent : BOOLEAN]
        /\ resource.boot = boot
    BY <1>1 DEF TypeOK, resource
  <2>4. CASE s.boot = boot
    <3>1. Matches(s, report'[c])
      <4>1. /\ report'[c].on = report[c].on /\ report'[c].device = report[c].device
            /\ report'[c].persistent = Shown.persistent
        BY <1>5, <1>6, <2>3
      <4>2. Shown.persistent <=> s.boot.enabled = "Continuous"
        BY <2>4 DEF Shown
      <4> QED BY <4>1, <4>2, <2>2 DEF Matches
    <3> QED BY <1>1, <1>2, <1>4, <1>6, <2>1, <3>1 DEF Readings
  <2>5. CASE s.boot # boot
    <3>1. \E r, t \in had[c] : r.boot # t.boot
      BY <1>2, <2>3, <2>5
    <3> QED BY <1>1, <1>2, <1>4, <1>6, <2>1, <3>1 DEF Readings
  <2> QED BY <2>4, <2>5
<1>7. CASE ~(step[c] = 2 /\ ~Redfish)
  <2>1. Matches(resource, report'[c])
    BY <1>1, <1>5, <1>7, ShownMatches
  <2> QED BY <1>1, <1>2, <1>4, <2>1 DEF Readings
<1> QED BY <1>6, <1>7

\* A request of a reader whose answer is no use, or none at all, ends in failure.
LEMMA FailsReadings ==
  ASSUME Invariant, NEW c \in Commands, Readings(c), Fails(c),
         UNCHANGED <<power, boot, had, controller, task>>
  PROVE  Readings(c)'
PROOF
<1>1. TypeOK /\ Good(c)
  BY DEF Invariant
<1>2. CASE \E r \in {"may", "list"} : Sending(c, r)
  <2>1. Command(c) \notin Readers
    BY <1>1, <1>2, SendingShape DEF Readers
  <2> QED BY <2>1, BareReadings DEF Readings
<1>3. CASE Raise(c) /\ pc[c] = "running"
  <2>1. pc'[c] = "closing" /\ reply'[c] = "failed"
    BY <1>1, <1>3 DEF Raise, TypeOK
  <2> QED BY <1>3, <2>1, BareReadings
<1> QED BY <1>2, <1>3 DEF Fails, Sending

\* Nor does one that is not for it to make.
LEMMA MoverReadings ==
  ASSUME Invariant, NEW c \in Commands, Readings(c), CommandStep(c)
  PROVE  Readings(c)'
PROOF
<1>1. /\ TypeOK /\ Good(c) /\ Kept(c) /\ UNCHANGED <<controller, task>>
      /\ Redfish' <=> Redfish
  BY CommandStepKept, Fixed DEF Invariant, Kept
<1>2. CASE Write(c) \/ (Lose(c) /\ Answered(c, "write") /\ CarryOut(c))
  <2>1. Sending(c, "write") /\ Changed(c)
    BY <1>2 DEF Write, CarryOut, Answered
  <2>2. Command(c) \notin Readers
    BY <1>1, <2>1, SendingShape DEF Readers, Writers, PowerActions
  <2>3. had[c] = {}
    BY <2>2 DEF Readings
  <2>4. had'[c] = {}
    BY <2>1, <2>3 DEF Changed
  <2> QED BY <2>4 DEF Readings
<1>3. CASE Lose(c) /\ UNCHANGED <<machine, tag, effects, had>>
  <2>1. CASE TryAgain(c) /\ UNCHANGED <<pc, step, reply, missed>>
    BY <1>1, <1>3, <2>1, UnmovedReadings DEF Lose, machine, Seen
  <2>2. CASE Fails(c)
    BY <1>1, <1>3, <2>2, FailsReadings DEF machine
  <2> QED BY <1>3, <2>1, <2>2 DEF Lose
<1>4. CASE Read(c)
  BY <1>4, ReadReadings
<1>5. CASE Begin(c)
  <2>1. had[c] = {}
    BY <1>5 DEF Begin, Readings
  <2>2. /\ reply[c] = "none" /\ pc'[c] = "opening" /\ reply' = reply
        /\ had'[c] # {} => Command(c) \in Readers /\ had'[c] = {resource}
        /\ UNCHANGED <<power, boot>>
    <3>1. had'[c] # {} => Command(c) \in Readers /\ had'[c] = {resource}
      BY <1>1, <1>5, <2>1 DEF Begin, TypeOK, Readers
    <3>2. reply[c] = "none" /\ pc'[c] = "opening" /\ reply' = reply
      BY <1>1, <1>5 DEF Begin, Good, Course, TypeOK
    <3> QED BY <1>5, <3>1, <3>2 DEF Begin, machine
  <2>3. Command(c)' = Command(c) /\ resource' = resource
    BY <1>1, <2>2 DEF Command, resource
  <2> QED BY <2>1, <2>2, <2>3 DEF Readings
<1>6. CASE BeginUnknown(c) \/ NotInstalled(c) \/ Rejected(c)
  <2>1. had[c] = {} /\ UNCHANGED <<power, boot, had>>
    BY <1>6 DEF BeginUnknown, NotInstalled, Rejected, Readings, machine, history
  <2> QED BY <1>1, <2>1, BareReadings
<1>7. CASE Open(c)
  <2>1. /\ UNCHANGED <<power, boot, had>> /\ Move(c, 1)
    BY <1>7 DEF Open, machine, history
  <2>2. CASE Command(c) \in Readers
    <3>1. pc'[c] = "running" /\ reply'[c] = "none" /\ step'[c] = 1
      <4>1. ~(1 > Len(Script(c))) /\ reply[c] = "none"
        BY <1>1, <1>7, <2>2, ReaderShape DEF Open, Good, Course
      <4> QED BY <1>1, <2>1, <4>1 DEF Move, TypeOK
    <3> QED BY <1>1, <1>7, <2>1, <3>1, BareReadings DEF Open
  <2>3. CASE Command(c) \notin Readers
    BY <1>1, <2>1, <2>3, BareReadings DEF Readings
  <2> QED BY <2>2, <2>3
<1>8. CASE OpenFails(c) \/ CloseFails(c)
  <2>1. /\ UNCHANGED <<power, boot, had>> /\ pc'[c] = "over" /\ reply'[c] = "failed"
    BY <1>1, <1>8 DEF OpenFails, CloseFails, End, TypeOK, machine, history
  <2> QED BY <1>1, <2>1, BareReadings
<1>9. CASE Look(c)
  <2>1. UNCHANGED <<power, boot, had>>
    BY <1>9 DEF Look, machine, history
  <2>2. PICK r \in {"look", "eth", "list", "may"},
             n \in {step[c] + 1, Len(Script(c)) + 1} :
               Sending(c, r) /\ Move(c, n) /\ (r = "eth" \/ n = step[c] + 1)
    BY <1>9 DEF Look, Answered
  <2>3. CASE Command(c) \in Readers
    <3>1. step[c] = 1 /\ Redfish /\ n = 2 /\ Len(Script(c)) = 2
      <4>1. step[c] \in 1..Len(Script(c)) /\ r # "eth"
        BY <1>1, <2>2, <2>3, SendingShape DEF Readers
      <4> QED BY <2>2, <2>3, <4>1, ReaderShape DEF Sending
    <3>2. pc'[c] = "running" /\ reply'[c] = "none"
      BY <1>1, <2>2, <3>1 DEF Move, TypeOK, Good, Course, Sending
    <3> QED BY <1>1, <2>1, <2>2, <3>1, <3>2, BareReadings DEF Sending
  <2>4. CASE Command(c) \notin Readers
    BY <1>1, <2>1, <2>4, BareReadings DEF Readings
  <2> QED BY <2>3, <2>4
<1>10. CASE Object(c)
  <2>1. /\ UNCHANGED <<power, boot, had>> /\ pc[c] = "running"
        /\ pc'[c] = "closing" /\ reply'[c] = "failed"
    BY <1>1, <1>10 DEF Object, Answered, Sending, Raise, TypeOK, machine, history
  <2> QED BY <1>1, <2>1, BareReadings
<1>11. CASE Refuse(c)
  <2>1. UNCHANGED <<power, boot, had>>
    BY <1>11 DEF Refuse, machine
  <2>2. CASE Fails(c)
    BY <1>1, <2>1, <2>2, FailsReadings
  <2>3. CASE Sending(c, "etag")
    <3>1. Command(c) \notin Readers
      <4>1. step[c] \in 1..Len(Script(c)) /\ Script(c)[step[c]] = "etag"
        BY <1>1, <2>3, SendingShape DEF Sending
      <4> QED BY <4>1, ReaderShape
    <3> QED BY <1>1, <2>1, <3>1, BareReadings DEF Readings
  <2> QED BY <1>11, <2>2, <2>3 DEF Refuse
<1>12. CASE FetchTag(c)
  <2>1. UNCHANGED <<power, boot, had>> /\ Sending(c, "etag")
    BY <1>12 DEF FetchTag, Answered, machine, history
  <2>2. Command(c) \notin Readers
    <3>1. step[c] \in 1..Len(Script(c)) /\ Script(c)[step[c]] = "etag"
      BY <1>1, <2>1, SendingShape DEF Sending
    <3> QED BY <3>1, ReaderShape
  <2> QED BY <1>1, <2>1, <2>2, BareReadings DEF Readings
<1>13. CASE Drop(c)
  BY <1>1, <1>13, UnmovedReadings DEF Drop, Seen, machine, progress, knowledge
<1>14. CASE Close(c)
  <2>1. /\ UNCHANGED <<power, boot, had, report>> /\ step' = step
        /\ pc'[c] = "over" /\ reply'[c] = reply[c]
    BY <1>1, <1>14 DEF Close, End, TypeOK, machine, knowledge, history
  <2>2. Command(c)' = Command(c)
    BY <1>1 DEF Command
  <2> QED BY <1>1, <1>14, <2>1, <2>2 DEF Close, Readings, Matches
<1> QED BY <1>2, <1>3, <1>4, <1>5, <1>6, <1>7, <1>8, <1>9, <1>10, <1>11, <1>12, <1>13,
           <1>14 DEF CommandStep, Lose

LEMMA StepReadings ==
  Invariant /\ (\A c \in Commands : Readings(c)) /\ [Next]_vars
    => (\A c \in Commands : Readings(c))'
PROOF
<1> SUFFICES ASSUME Invariant, \A c \in Commands : Readings(c), [Next]_vars,
                    NEW d \in Commands
             PROVE  Readings(d)'
  OBVIOUS
<1>1. TypeOK
  BY DEF Invariant
<1>2. ASSUME UNCHANGED <<controller, task>>, Unmoved(d), Seen(d), report'[d] = report[d]
      PROVE  Readings(d)'
  BY <1>2, UnmovedReadings DEF Unmoved
<1>3. ASSUME NEW by, Changed(by) PROVE Seen(d)
  BY <1>3 DEF Changed, Seen
<1>4. ASSUME NEW c \in Commands, CommandStep(c)
      PROVE  Readings(d)'
  <2>1. CASE d = c
    BY <1>4, <2>1, MoverReadings
  <2>2. CASE d # c
    <3>1. Unmoved(d) /\ UNCHANGED <<controller, task>>
      BY <1>4, <2>2, CommandStepKept DEF Kept
    <3>2. report'[d] = report[d]
      <4>1. CASE Read(c)
        BY <1>1, <2>2, <4>1 DEF Read, TypeOK
      <4>2. CASE ~Read(c)
        BY <1>4, <4>2
        DEF CommandStep, BeginUnknown, NotInstalled, Rejected, Begin, Open, OpenFails, Look,
            Object, FetchTag, Write, Refuse, Lose, Drop, Close, CloseFails, knowledge
      <4> QED BY <4>1, <4>2
    <3>3. Seen(d)
      <4>1. CASE Write(c)
        BY <1>3, <4>1 DEF Write, CarryOut
      <4>2. CASE Lose(c)
        BY <1>3, <4>2 DEF Lose, CarryOut, Seen, machine
      <4>3. CASE Begin(c)
        BY <1>1, <2>2, <4>3 DEF Begin, Seen, TypeOK, machine
      <4>4. CASE ~Write(c) /\ ~Lose(c) /\ ~Begin(c)
        BY <1>4, <4>4
        DEF CommandStep, BeginUnknown, NotInstalled, Rejected, Open, OpenFails, Look, Read,
            Object, FetchTag, Refuse, Drop, Close, CloseFails, machine, history, Seen
      <4> QED BY <4>1, <4>2, <4>3, <4>4
    <3> QED BY <1>2, <3>1, <3>2, <3>3
  <2> QED BY <2>1, <2>2
<1>5. CASE HostBoots \/ HostStops \/ Unregister
  <2>1. UNCHANGED <<controller, task>> /\ Unmoved(d)
    BY <1>5, OutsideKept
  <2>2. Seen(d) /\ report' = report
    BY <1>3, <1>5 DEF HostBoots, HostStops, Unregister, Seen, machine, knowledge, history
  <2> QED BY <1>2, <2>1, <2>2
<1>6. CASE UNCHANGED vars
  BY <1>2, <1>6 DEF Unmoved, Seen, vars, traits, machine, progress, knowledge, history
<1> QED BY <1>4, <1>5, <1>6 DEF Next

\* What power_list and boot_show report was so while they ran, but for the two
\* halves boot_show reads over IPMI.
THEOREM ReportsAreOfTheirTime == Spec => []ReportsWereSo
PROOF
<1> DEFINE AllReadings == \A c \in Commands : Readings(c)
<1>1. Init => AllReadings
  BY DEF Init, All, Readings
<1>2. Invariant /\ AllReadings /\ [Next]_vars => AllReadings'
  BY StepReadings
<1>3. AllReadings => ReportsWereSo
  BY DEF Readings, Matches, ReportsWereSo
<1> HIDE DEF AllReadings
<1> QED BY <1>1, <1>2, <1>3, InvariantHolds, PTL DEF Spec
================================================================================
