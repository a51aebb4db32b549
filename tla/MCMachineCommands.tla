--------------------------- MODULE MCMachineCommands ---------------------------
EXTENDS MachineCommands

CONSTANTS c1, c2

names == [pxe |-> "pxe", disk |-> "disk", uefi |-> "uefi", PXE |-> "pxe", Pxe |-> "pxe"]
MCLower == names

MCCommands == {c1, c2}

Task(name, device, mode) == [name |-> name, device |-> device, mode |-> mode]
Plain(set) == {Task(n, "pxe", "Once") : n \in set}

MCTasks ==
  [c \in MCCommands |->
     IF c = c1
     THEN Plain({"power_on", "power_off"})
          \cup {Task("boot_set", "pxe", "Once"), Task("boot_set", "uefi", "Continuous")}
     ELSE Plain(CommandNames \ {"boot_set"}) \cup {Task("boot_set", "disk", "Continuous")}]

redfish == [protocol |-> "redfish", installed |-> TRUE, resets |-> {}, targets |-> {},
            etags |-> FALSE, parts |-> 2]

MCControllers ==
  {redfish,
   [redfish EXCEPT !.etags = TRUE, !.targets = {"PXE"},
                   !.resets = {"On", "ForceOff", "GracefulShutdown"}],
   [redfish EXCEPT !.protocol = "ipmi"],
   [redfish EXCEPT !.installed = FALSE]}

MCIpmi == {[redfish EXCEPT !.protocol = "ipmi"]}
================================================================================
