------------------------------ MODULE PluginStart ------------------------------
(***************************************************************************)
(* Main.initialize: the numeric settings are read, and then the rows.      *)
(***************************************************************************)
EXTENDS ConfigLoad, Integers

CONSTANT Configs   \* what the file may hold under the numeric settings

Setting ==
  [max_concurrency     |-> [default |-> 8, minimum |-> 1, maximum |-> 32],
   redfish_timeout     |-> [default |-> 10, minimum |-> 1, maximum |-> 120],
   redfish_max_retries |-> [default |-> 0, minimum |-> 0, maximum |-> 3]]

Keys == DOMAIN Setting

(***************************************************************************)
(* What the file holds under a key, by what int() makes of it: a number;   *)
(* nothing, or something that is no number; a float without end, for which *)
(* int() raises an OverflowError.                                          *)
(***************************************************************************)
Raw == [kind : {"number"}, value : Int] \cup [kind : {"unusable", "infinite"}]

ASSUME StartAssumption == Configs \subseteq [Keys -> Raw]

VARIABLES
  config,     \* what the file holds
  settings,   \* what the plugin uses
  start       \* where initialize stands

startVars == <<vars, config, settings, start>>

StartInit ==
  /\ Init
  /\ config \in Configs
  /\ settings = [k \in Keys |-> Setting[k].default]
  /\ start = "settings"

Lesser(a, b) == IF a <= b THEN a ELSE b
Greater(a, b) == IF a >= b THEN a ELSE b

\* Fault: the bounds are applied the wrong way round.
ConfigIntSwapped(raw, s) ==
  IF raw.kind = "number" THEN Lesser(s.minimum, Greater(s.maximum, raw.value))
  ELSE s.default

\* _config_int
ConfigInt(raw, s) ==
  IF raw.kind = "number" THEN Lesser(s.maximum, Greater(s.minimum, raw.value))
  ELSE s.default

ReadSettings ==
  /\ start = "settings"
  /\ \A k \in Keys : config[k].kind # "infinite"
  /\ settings' = [k \in Keys |-> ConfigInt(config[k], Setting[k])]
  /\ start' = "machines"
  /\ UNCHANGED <<vars, config>>

\* An exception that _config_int does not catch ends initialize.
ReadSettingsRaises ==
  /\ start = "settings"
  /\ \E k \in Keys : config[k].kind = "infinite"
  /\ start' = "raised"
  /\ UNCHANGED <<vars, config, settings>>

ReadRow ==
  /\ start = "machines"
  /\ Next
  /\ UNCHANGED <<config, settings, start>>

StartNext == ReadSettings \/ ReadSettingsRaises \/ ReadRow

StartSpec == StartInit /\ [][StartNext]_startVars

--------------------------------------------------------------------------------
Distance(a, b) == Greater(a, b) - Lesser(a, b)

(***************************************************************************)
(* A number in the file is used as far as the bounds allow: the setting is *)
(* the admissible number next to it.  Anything else stands for the default,*)
(* which is admissible, and no machine is registered before that is        *)
(* settled.                                                                *)
(***************************************************************************)
SettingsAsMeant ==
  /\ start # "machines" => index = 0
  /\ start = "machines" => \A k \in Keys :
       LET admissible == Setting[k].minimum..Setting[k].maximum IN
         /\ settings[k] \in admissible
         /\ IF config[k].kind = "number"
            THEN \A n \in admissible :
                   Distance(settings[k], config[k].value) <= Distance(n, config[k].value)
            ELSE settings[k] = Setting[k].default
================================================================================
