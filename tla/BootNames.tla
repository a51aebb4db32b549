------------------------------- MODULE BootNames -------------------------------
(***************************************************************************)
(* Names of boot devices: what a user may type and what each protocol      *)
(* makes of it.                                                            *)
(***************************************************************************)
CONSTANT Lower   \* str.lower, on the names in use

\* The tables of aliases, by the value they stand for.
RedfishAlias ==
  [Pxe        |-> {"pxe", "network"},
   Hdd        |-> {"hdd", "hd", "disk"},
   Cd         |-> {"cd", "cdrom", "dvd"},
   Usb        |-> {"usb"},
   BiosSetup  |-> {"bios", "biossetup"},
   UefiTarget |-> {"uefi"}]

IpmiAlias ==
  [NO_OVERRIDE |-> {"none"},
   DEFAULT_HDD |-> {"disk", "hdd", "default"},
   PXE         |-> {"pxe"},
   CD          |-> {"cd", "cdrom", "dvd"},
   BIOS        |-> {"bios", "biossetup"},
   DIAGNOSTIC  |-> {"diagnostic", "diag"},
   PRIMARY_USB |-> {"usb"}]

Aliased(table, token) == {v \in DOMAIN table : Lower[token] \in table[v]}

\* Fault: a value the service does not list is sent all the same.
RedfishTargetUnchecked(token, allowed) ==
  IF Aliased(RedfishAlias, token) = {} THEN {token}
  ELSE Aliased(RedfishAlias, token)

(***************************************************************************)
(* _normalize_boot_device, as the set of the value it returns, empty if it *)
(* raises.  An unpublished list allows everything.  The order in which     *)
(* values that differ in their case are listed is left open.               *)
(***************************************************************************)
RedfishTarget(token, allowed) ==
  LET alias == Aliased(RedfishAlias, token)
      candidate == IF alias = {} THEN {token} ELSE alias
  IN IF allowed = {} \/ candidate \subseteq allowed
     THEN candidate
     ELSE {v \in allowed : Lower[v] = Lower[token]}

\* The lookup of IpmiBackend.set_boot_device.
IpmiTarget(token) == Aliased(IpmiAlias, token)
================================================================================
