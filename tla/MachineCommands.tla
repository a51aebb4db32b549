---------------------------- MODULE MachineCommands ----------------------------
(***************************************************************************)
(* Commands of several users on one machine, over Redfish or IPMI: the     *)
(* lookup, MachineManager.run with its capability gate and its connection, *)
(* the requests each command makes, and what they do to the power and the  *)
(* boot options of the machine meanwhile.                                  *)
(***************************************************************************)
EXTENDS BootNames, Naturals, Sequences

CONSTANTS
  Commands,      \* the commands under way
  Tasks,         \* what each of them may be: a command name with its arguments
  Controllers,   \* the controllers the machine may have
  Host,          \* author of the changes the host makes by itself
  Graceful,      \* graceful_shutdown
  MaxRetries     \* redfish_max_retries

PowerActions == {"power_on", "power_off", "power_forceoff", "power_reset", "power_cycle"}
Writers == PowerActions \cup {"boot_set"}
Lined == {"info_system", "boot_show", "sensor_show", "bmc_show"}
CommandNames == Writers \cup Lined \cup {"power_list", "machine_probe"}

ResetTypes == {"On", "GracefulShutdown", "ForceOff", "ForceRestart", "PowerCycle"}

\* resets, targets: the values the service lists, if it lists any; parts: how
\* many requests a reading of sensors or interfaces takes.
Controller ==
  [protocol  : {"redfish", "ipmi"},
   installed : BOOLEAN,
   resets    : SUBSET ResetTypes,
   targets   : SUBSET DOMAIN Lower,
   etags     : BOOLEAN,
   parts     : Nat]

ASSUME CommandAssumption ==
  /\ \A c \in Commands : Tasks[c] \subseteq
       [name : CommandNames, device : DOMAIN Lower, mode : {"Once", "Continuous"}]
  /\ Controllers \subseteq Controller
  /\ Host \notin Commands
  /\ Graceful \in BOOLEAN /\ MaxRetries \in Nat

VARIABLES
  controller,                 \* one of Controllers
  registry,                   \* whether the machine is still registered
  power, boot,                \* its power state and its boot override
  author,                     \* who changed these last
  task, pc, step, tries,      \* what a command is, where it stands
  reply,                      \* what it is going to end with
  link,                       \* its connection
  tag,                        \* what it knows of the resource's ETag
  report,                     \* the state it has read
  effects,                    \* history: how often its write was carried out,
  had,                        \*   the states of the machine while it was reading,
  lost,                       \*   who lost a request, an answer or a connection,
  missed                      \*   who passed over a reading that failed

traits == <<controller, registry, task>>
machine == <<power, boot, author>>
progress == <<pc, step, tries, reply>>
knowledge == <<tag, report>>
history == <<effects, had, lost, missed>>
vars == <<traits, machine, progress, link, knowledge, history>>

PowerStates == {"On", "Off", "PoweringOn", "PoweringOff"}
Targets == DOMAIN Lower \cup DOMAIN RedfishAlias \cup DOMAIN IpmiAlias \cup {"None"}
BootOptions == [target : Targets, enabled : {"Disabled", "Once", "Continuous"}]

Resource == [power : PowerStates, boot : BootOptions]
resource == [power |-> power, boot |-> boot]

Redfish == controller.protocol = "redfish"

\* Fault: a host that is starting counts as off.
PoweredOnStatesBut == {"On"}

PoweredOnStates == {"On", "PoweringOn"}

\* What power_list and boot_show make of the state.  A chassis status over IPMI
\* says on until the power is off.
Shown ==
  [on |-> power \in PoweredOnStates \/ (~Redfish /\ power # "Off"),
   device |-> boot.target, persistent |-> boot.enabled = "Continuous"]

TypeOK ==
  /\ controller \in Controllers /\ registry \in {"listed", "deleted"}
  /\ power \in PowerStates /\ boot \in BootOptions /\ author \in Commands \cup {Host}
  /\ \A c \in Commands : task[c] \in Tasks[c]
  /\ pc \in [Commands -> {"idle", "opening", "running", "closing", "over"}]
  /\ step \in [Commands -> 1..(controller.parts + 6)]
  /\ tries \in [Commands -> 0..MaxRetries]
  /\ reply \in [Commands -> {"none", "result", "failed", "unsupported", "unknown", "raised"}]
  /\ link \in [Commands -> {"none", "up", "down", "closed", "abandoned"}]
  /\ tag \in [Commands -> {"none", "current", "old"}]
  /\ report \in [Commands -> [on : BOOLEAN, device : Targets, persistent : BOOLEAN]]
  /\ effects \in [Commands -> 0..(MaxRetries + 1)]
  /\ had \in [Commands -> SUBSET Resource]
  /\ lost \subseteq Commands /\ missed \subseteq Commands

All(value) == [c \in Commands |-> value]

Init ==
  /\ controller \in Controllers /\ registry = "listed"
  /\ power \in {"On", "Off"} /\ boot = [target |-> "None", enabled |-> "Disabled"]
  /\ author = Host
  /\ task \in [Commands -> UNION {Tasks[c] : c \in Commands}]
  /\ \A c \in Commands : task[c] \in Tasks[c]
  /\ pc = All("idle") /\ step = All(1) /\ tries = All(0) /\ reply = All("none")
  /\ link = All("none") /\ tag = All("none") /\ report = All(Shown)
  /\ effects = All(0) /\ had = All({}) /\ lost = {} /\ missed = {}

--------------------------------------------------------------------------------
Command(c) == task[c].name

Capability ==
  [power_list |-> "power_status", power_on |-> "power_on",
   power_off |-> "power_off_graceful", power_forceoff |-> "power_off",
   power_reset |-> "power_reset", power_cycle |-> "power_cycle",
   info_system |-> "system_info", boot_show |-> "boot_device",
   boot_set |-> "boot_device", sensor_show |-> "sensors", bmc_show |-> "bmc_info",
   machine_probe |-> "power_status"]

Unsupported == IF Redfish THEN {} ELSE {"power_off_graceful", "identify"}

\* The reset type, or the chassis control of that effect, of a power action.
ResetType(c) ==
  CASE Command(c) = "power_on" -> "On"
    [] Command(c) = "power_off" -> IF Graceful THEN "GracefulShutdown" ELSE "ForceOff"
    [] Command(c) = "power_forceoff" -> "ForceOff"
    [] Command(c) = "power_reset" -> "ForceRestart"
    [] Command(c) = "power_cycle" -> "PowerCycle"

BootTargets(c) ==
  IF Redfish THEN RedfishTarget(task[c].device, controller.targets)
  ELSE IpmiTarget(task[c].device)

\* The operation does not object to the values it is to send.
Permitted(c) ==
  /\ Command(c) \in PowerActions => controller.resets = {} \/ ResetType(c) \in controller.resets
  /\ Command(c) = "boot_set" => BootTargets(c) # {}

\* Fault: a sensor that cannot be read is passed over.
SensorGetTolerant == "may"

SensorGet == "look"

(***************************************************************************)
(* The requests of a command.  look, read: a GET whose failure raises; of  *)
(* a read the answer counts.  eth: the same, possibly the last one needed. *)
(* etag: the GET of _patch, whose status is not looked at.  write: the     *)
(* request the command is for.  may: a reading whose failure is passed     *)
(* over; list: so is this one's, and nothing can follow it.                *)
(***************************************************************************)
RedfishScript(name) ==
  LET each(r) == [i \in 1..controller.parts |-> r] IN
    CASE name \in PowerActions -> <<"look", "read", "write">>
      [] name = "boot_set" -> <<"look", "read", "look", "etag", "write">>
      [] name \in {"power_list", "info_system", "boot_show"} -> <<"look", "read">>
      [] name = "sensor_show" -> <<"look">> \o each(SensorGet)
      [] name = "bmc_show" -> <<"look", "eth", "look">> \o each("eth")
      [] name = "machine_probe" -> <<>>

IpmiScript(name) ==
  CASE name \in Writers -> <<"write">>
    [] name = "power_list" -> <<"read">>
    [] name = "boot_show" -> <<"read", "read">>
    [] name = "info_system" -> <<"may", "may">>
    [] name = "sensor_show" -> <<"list">> \o [i \in 1..controller.parts |-> "may"]
    [] name = "bmc_show" -> <<"look">>
    [] name = "machine_probe" -> <<>>

Script(c) == IF Redfish THEN RedfishScript(Command(c)) ELSE IpmiScript(Command(c))

--------------------------------------------------------------------------------
End(c, with) ==
  /\ pc' = [pc EXCEPT ![c] = "over"]
  /\ reply' = [reply EXCEPT ![c] = with]
  /\ UNCHANGED <<step, tries>>

\* get_machine when the name is gone: _safe_lines tells, the others raise.
BeginUnknown(c) ==
  /\ pc[c] = "idle" /\ registry = "deleted"
  /\ End(c, IF Command(c) \in Lined THEN "unknown" ELSE "raised")
  /\ UNCHANGED <<traits, machine, link, knowledge, history>>

\* create_backend cannot import the library.
NotInstalled(c) ==
  /\ pc[c] = "idle" /\ registry = "listed" /\ ~controller.installed
  /\ End(c, "failed")
  /\ UNCHANGED <<traits, machine, link, knowledge, history>>

\* ensure_supported raises.
Rejected(c) ==
  /\ pc[c] = "idle" /\ registry = "listed" /\ controller.installed
  /\ Capability[Command(c)] \in Unsupported
  /\ End(c, "unsupported")
  /\ UNCHANGED <<traits, machine, link, knowledge, history>>

Begin(c) ==
  /\ pc[c] = "idle" /\ registry = "listed" /\ controller.installed
  /\ Capability[Command(c)] \notin Unsupported
  /\ pc' = [pc EXCEPT ![c] = "opening"]
  /\ had' = IF Command(c) \in {"power_list", "boot_show"}
            THEN [had EXCEPT ![c] = {resource}] ELSE had
  /\ UNCHANGED <<traits, machine, step, tries, reply, link, knowledge, effects, lost, missed>>

\* The next request is the n-th; after the last one the operation returns.
Move(c, n) ==
  /\ step' = [step EXCEPT ![c] = n]
  /\ tries' = [tries EXCEPT ![c] = 0]
  /\ IF n > Len(Script(c))
     THEN pc' = [pc EXCEPT ![c] = "closing"] /\ reply' = [reply EXCEPT ![c] = "result"]
     ELSE pc' = [pc EXCEPT ![c] = "running"] /\ UNCHANGED reply

Raise(c) ==
  /\ pc' = [pc EXCEPT ![c] = "closing"]
  /\ reply' = [reply EXCEPT ![c] = "failed"]
  /\ tries' = [tries EXCEPT ![c] = 0]
  /\ UNCHANGED step

\* __enter__
Open(c) ==
  /\ pc[c] = "opening"
  /\ link' = [link EXCEPT ![c] = "up"]
  /\ Move(c, 1)
  /\ UNCHANGED <<traits, machine, knowledge, history>>

\* __enter__ raises; the controller may have opened a session for it.
OpenFails(c) ==
  /\ pc[c] = "opening"
  /\ \E left \in {"none", "abandoned"} : link' = [link EXCEPT ![c] = left]
  /\ End(c, "failed")
  /\ UNCHANGED <<traits, machine, knowledge, history>>

Sending(c, request) ==
  /\ pc[c] = "running"
  /\ Script(c)[step[c]] = request

Answered(c, request) == Sending(c, request) /\ link[c] = "up"

Look(c) ==
  /\ \/ \E r \in {"look", "eth", "list", "may"} : Answered(c, r) /\ Move(c, step[c] + 1)
     \/ Answered(c, "eth") /\ Move(c, Len(Script(c)) + 1)
  /\ UNCHANGED <<traits, machine, link, knowledge, history>>

\* IPMI reads the boot device first and whether it is persistent next.
Read(c) ==
  /\ Answered(c, "read") /\ Permitted(c)
  /\ report' = [report EXCEPT ![c] =
       IF step[c] = 2 /\ ~Redfish THEN [@ EXCEPT !.persistent = Shown.persistent]
       ELSE Shown]
  /\ Move(c, step[c] + 1)
  /\ UNCHANGED <<traits, machine, link, tag, history>>

\* What it has read, or the name it was given, does not allow the write.
Object(c) ==
  /\ Answered(c, IF Redfish THEN "read" ELSE "write") /\ ~Permitted(c)
  /\ Raise(c)
  /\ UNCHANGED <<traits, machine, link, knowledge, history>>

FetchTag(c) ==
  /\ Answered(c, "etag")
  /\ tag' = [tag EXCEPT ![c] = IF controller.etags THEN "current" ELSE "none"]
  /\ Move(c, step[c] + 1)
  /\ UNCHANGED <<traits, machine, link, report, history>>

Overtaken == [c \in Commands |-> IF tag[c] = "none" THEN "none" ELSE "old"]

\* Power and boot options are changed, to power' and boot'.
Changed(by) ==
  /\ author' = by
  /\ tag' = Overtaken
  /\ had' = [c \in Commands |->
       IF had[c] # {} /\ pc[c] # "over" THEN had[c] \cup {resource'} ELSE had[c]]

\* What a reset may do to the power.
After(reset) ==
  CASE reset = "On" -> IF power \in PoweredOnStates THEN {power} ELSE {"PoweringOn"}
    [] reset = "ForceOff" -> {"Off"}
    [] reset = "GracefulShutdown" -> IF power = "Off" THEN {power} ELSE {power, "PoweringOff"}
    [] reset = "ForceRestart" -> IF power = "Off" THEN {power} ELSE {"PoweringOn"}
    [] reset = "PowerCycle" -> IF power = "Off" THEN {power, "PoweringOn"} ELSE {"PoweringOn"}

\* Fault: the PATCH goes out without If-Match.
CarryOutUnguarded(c) ==
  /\ IF Command(c) = "boot_set"
     THEN /\ boot' \in [target : BootTargets(c), enabled : {task[c].mode}]
          /\ UNCHANGED power
     ELSE power' \in After(ResetType(c)) /\ UNCHANGED boot
  /\ Changed(c)
  /\ effects' = [effects EXCEPT ![c] = @ + 1]

\* The controller carries out the write of c.  It does not if the write comes
\* with a tag that is old.
CarryOut(c) ==
  /\ tag[c] # "old"
  /\ IF Command(c) = "boot_set"
     THEN /\ boot' \in [target : BootTargets(c), enabled : {task[c].mode}]
          /\ UNCHANGED power
     ELSE power' \in After(ResetType(c)) /\ UNCHANGED boot
  /\ Changed(c)
  /\ effects' = [effects EXCEPT ![c] = @ + 1]

Write(c) ==
  /\ Answered(c, "write") /\ Permitted(c)
  /\ CarryOut(c)
  /\ Move(c, step[c] + 1)
  /\ UNCHANGED <<traits, link, report, lost, missed>>

\* A request has come to nothing.
Fails(c) ==
  \/ /\ \/ Sending(c, "may") /\ Move(c, step[c] + 1)
        \/ Sending(c, "list") /\ Move(c, Len(Script(c)) + 1)
     /\ missed' = missed \cup {c}
  \/ /\ \E r \in {"look", "read", "eth", "etag", "write"} : Sending(c, r)
     /\ Raise(c)
     /\ UNCHANGED missed

Sends(c) ==
  /\ pc[c] = "running"
  /\ Redfish \/ Permitted(c)

\* Fault: the status of a POST or PATCH is not looked at.
RefuseUnchecked(c) ==
  /\ Sends(c) /\ link[c] = "up"
  /\ \/ ~Sending(c, "write") /\ Fails(c)
     \/ Sending(c, "write") /\ Move(c, step[c] + 1) /\ UNCHANGED missed
  /\ UNCHANGED <<traits, machine, link, knowledge, effects, had, lost>>

\* An answer that says no, or is of no use.
Refuse(c) ==
  /\ Sends(c) /\ link[c] = "up"
  /\ \/ ~Sending(c, "etag") /\ Fails(c)
     \/ Sending(c, "etag") /\ Move(c, step[c] + 1) /\ UNCHANGED missed
  /\ UNCHANGED <<traits, machine, link, knowledge, effects, had, lost>>

\* Fault: as many retries as the client is constructed with.
TryAgainOnceMore(c) == Redfish /\ tries[c] < MaxRetries + 1

TryAgain(c) == Redfish /\ tries[c] < MaxRetries

\* A request or its answer is lost.  The layer around the Redfish library tries
\* again up to the limit.
Lose(c) ==
  /\ Sends(c)
  /\ \/ UNCHANGED <<machine, tag, effects, had>>
     \/ Answered(c, "write") /\ CarryOut(c)
  /\ IF TryAgain(c)
     THEN tries' = [tries EXCEPT ![c] = @ + 1] /\ UNCHANGED <<pc, step, reply, missed>>
     ELSE Fails(c)
  /\ lost' = lost \cup {c}
  /\ UNCHANGED <<traits, link, report>>

\* The controller goes out of reach for the rest of a command.
Drop(c) ==
  /\ pc[c] \in {"running", "closing"} /\ link[c] = "up"
  /\ link' = [link EXCEPT ![c] = "down"]
  /\ lost' = lost \cup {c}
  /\ UNCHANGED <<traits, machine, progress, knowledge, effects, had, missed>>

\* __exit__
Close(c) ==
  /\ pc[c] = "closing" /\ link[c] = "up"
  /\ link' = [link EXCEPT ![c] = "closed"]
  /\ End(c, reply[c])
  /\ UNCHANGED <<traits, machine, knowledge, history>>

\* Fault: __exit__ keeps the exception of a close that fails to itself.
CloseFailsQuietly(c) ==
  /\ pc[c] = "closing"
  /\ link' = [link EXCEPT ![c] = "abandoned"]
  /\ lost' = lost \cup {c}
  /\ End(c, reply[c])
  /\ UNCHANGED <<traits, machine, knowledge, effects, had, missed>>

\* __exit__ raises, whatever the operation has returned.
CloseFails(c) ==
  /\ pc[c] = "closing"
  /\ link' = [link EXCEPT ![c] = "abandoned"]
  /\ lost' = lost \cup {c}
  /\ End(c, "failed")
  /\ UNCHANGED <<traits, machine, knowledge, effects, had, missed>>

--------------------------------------------------------------------------------
\* The host: a start takes the boot device of the override, which is spent if
\* it was for one boot; a shutdown comes to its end.
HostBoots ==
  /\ power = "PoweringOn" /\ power' = "On"
  /\ boot' = IF boot.enabled = "Once" THEN [target |-> "None", enabled |-> "Disabled"]
             ELSE boot
  /\ Changed(Host)
  /\ UNCHANGED <<traits, progress, link, report, effects, lost, missed>>

HostStops ==
  /\ power = "PoweringOff" /\ power' = "Off"
  /\ UNCHANGED boot
  /\ Changed(Host)
  /\ UNCHANGED <<traits, progress, link, report, effects, lost, missed>>

\* machine_delete; commands that have looked the machine up go on.
Unregister ==
  /\ registry = "listed" /\ registry' = "deleted"
  /\ UNCHANGED <<controller, task, machine, progress, link, knowledge, history>>

CommandStep(c) ==
  \/ BeginUnknown(c) \/ NotInstalled(c) \/ Rejected(c) \/ Begin(c)
  \/ Open(c) \/ OpenFails(c)
  \/ Look(c) \/ Read(c) \/ Object(c) \/ FetchTag(c) \/ Write(c)
  \/ Refuse(c) \/ Lose(c) \/ Drop(c)
  \/ Close(c) \/ CloseFails(c)

Next ==
  \/ \E c \in Commands : CommandStep(c)
  \/ HostBoots \/ HostStops \/ Unregister

Spec == Init /\ [][Next]_vars

--------------------------------------------------------------------------------
\* The boot options are a register with compare-and-set: no boot_set that got a
\* tag overwrites a change made after it got it.
Register == INSTANCE CompareAndSet WITH
  Clients <- Commands,
  States <- Resource,
  Owner <- Host,
  state <- resource

BootIsCompareAndSet == Register!Spec

\* A write is repeated only after a loss, at most once per attempt configured;
\* with an ETag it takes effect at most once, however often it is sent.
RepeatsGuarded ==
  \A c \in Commands :
    /\ effects[c] > 1 => c \in lost /\ Redfish
    /\ tag[c] # "none" => effects[c] <= 1

\* The controller is never sent a value it lists others instead of.
OnlyListedValues ==
  \A c \in Commands : effects[c] > 0 /\ Redfish =>
    /\ Command(c) \in PowerActions /\ controller.resets # {}
         => ResetType(c) \in controller.resets
    /\ controller.targets # {} => boot.target \in controller.targets \cup {"None"}

\* A command that reports success was carried out; one that reports anything
\* else was not, unless a message was lost on its way.
RepliesTruthful ==
  \A c \in Commands : pc[c] = "over" /\ Command(c) \in Writers =>
    /\ reply[c] = "result" => effects[c] > 0
    /\ reply[c] # "result" /\ effects[c] > 0 => c \in lost

\* A connection that is left open or breaks for good is reported as a failure,
\* even where the failures of single readings are passed over.
LostLinksReported ==
  \A c \in Commands : pc[c] = "over" =>
    /\ link[c] \in {"none", "closed", "abandoned"}
    /\ link[c] = "abandoned" => reply[c] = "failed"

\* A reply that is not a failure leaves out a reading that failed only over
\* IPMI, of sensors or system information, and with the connection standing.
GapsOnlyOverIpmi ==
  \A c \in missed : reply[c] = "result" /\ pc[c] = "over" =>
    /\ ~Redfish /\ Command(c) \in {"info_system", "sensor_show"}
    /\ link[c] = "closed"

\* What power_list and boot_show report was so at some moment while they ran,
\* but for the two halves boot_show reads over IPMI when a change falls between.
\* A host that is shutting down may be reported either way.
ReportsWereSo ==
  \A c \in Commands : had[c] # {} /\ reply[c] = "result" =>
    \/ \E s \in had[c] :
         /\ report[c].on => s.power # "Off"
         /\ ~report[c].on => s.power \in {"Off", "PoweringOff"}
         /\ report[c].device = s.boot.target
         /\ report[c].persistent <=> s.boot.enabled = "Continuous"
    \/ /\ ~Redfish /\ Command(c) = "boot_show"
       /\ \E r, s \in had[c] : r.boot # s.boot

\* "Power status, on, force off, reset, cycle and graceful shutdown" are listed
\* for both protocols: no command is turned down as unsupported.
DocumentedForBoth == \A c \in Commands : reply[c] # "unsupported"
================================================================================
