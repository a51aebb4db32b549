------------------------------ MODULE MachineRows ------------------------------
(***************************************************************************)
(* The rows of the `machines` setting and what the manager makes of them:  *)
(* which rows it accepts, the Machine it builds from one, and the registry *)
(* it holds after reading a whole list.  A field keeps only what a check   *)
(* of the code can tell apart.                                             *)
(***************************************************************************)
EXTENDS Naturals

CONSTANTS
  Names,            \* machine names, after str.strip()
  Addresses,        \* addresses of management controllers
  Blank,            \* a field that is missing or empty
  NoMachine,        \* "no entry" in the registry
  Startup,          \* the builder of a Machine read from the configuration
  HasDefaultUser    \* default_username is configured

ASSUME RowAssumption ==
  /\ Blank \notin Names \cup Addresses
  /\ HasDefaultUser \in BOOLEAN

SupportedProtocols == {"redfish", "ipmi"}

(***************************************************************************)
(* padded: the raw name carries surrounding blanks, which the manager      *)
(* strips and machine_delete does not.                                     *)
(***************************************************************************)
Row == [name     : Names \cup {Blank},
        padded   : BOOLEAN,
        protocol : SupportedProtocols \cup {"unknown"},
        address  : Addresses \cup {Blank},
        user     : {"own", "blank"},
        port     : {"number", "junk", "none"}]

\* _build_machine's checks, the one against the registry apart.
WellFormed(row) ==
  /\ row.name # Blank
  /\ row.protocol \in SupportedProtocols
  /\ row.address # Blank
  /\ row.user = "own" \/ HasDefaultUser
  /\ row.protocol = "ipmi" => row.port # "junk"

\* Fault: the check against the registry is missing, a later row wins.
AcceptableOverwriting(row, registry) == WellFormed(row)

\* All of them: a second row of a registered name is refused as well.
Acceptable(row, registry) ==
  /\ WellFormed(row)
  /\ registry[row.name] = NoMachine

\* Fault: a blank username does not fall back to the default credentials.
MachineOfNoFallback(row, by) ==
  [name |-> row.name, protocol |-> row.protocol, address |-> row.address,
   user |-> row.user, by |-> by]

(***************************************************************************)
(* A Machine is an object: `by` is the call that built it, so that two     *)
(* machines of one name and one address can be told apart.  The code never *)
(* reads it.                                                               *)
(***************************************************************************)
MachineOf(row, by) ==
  [name     |-> row.name,
   protocol |-> row.protocol,
   address  |-> row.address,
   user     |-> IF row.user = "own" THEN "own" ELSE "default",
   by       |-> by]

MachinesBuiltBy(builders) ==
  [name     : Names,
   protocol : SupportedProtocols,
   address  : Addresses,
   user     : {"own", "default"},
   by       : builders]

(***************************************************************************)
(* A list of rows is a set of entries with distinct stamps `at`, read in   *)
(* the order of the stamps: appending takes a larger stamp, and removing a *)
(* row is set difference.                                                  *)
(*                                                                         *)
(* Load is the registry after reading such a list: under each name the     *)
(* first well-formed row of that name.  ConfigLoad shows that the loop of  *)
(* MachineManager.__init__ computes it.                                    *)
(***************************************************************************)
Claims(entries, n) ==
  {e \in entries : WellFormed(e.row) /\ e.row.name = n}

FirstClaim(entries, n) ==
  CHOOSE e \in Claims(entries, n) : \A f \in Claims(entries, n) : e.at <= f.at

Load(entries) ==
  [n \in Names |->
     IF Claims(entries, n) = {}
     THEN NoMachine
     ELSE MachineOf(FirstClaim(entries, n).row, Startup)]
================================================================================
