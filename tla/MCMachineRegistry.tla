--------------------------- MODULE MCMachineRegistry ---------------------------
\* Two names, two addresses, a configuration that already holds a machine.
EXTENDS MachineRegistry, TLC

CONSTANTS n1, n2, x, y

MCNames == {n1, n2}
MCAddresses == {x, y}

Configured(at, n, a) == [at |-> at, by |-> Startup, row |-> AddRow(n, a)]
Padded(e) == [e EXCEPT !.row.padded = TRUE]

\* Lists whose rows of one name all carry it without surrounding blanks.
TidyConfigs ==
  {{}, {Configured(0, n1, x)}, {Configured(0, n1, x), Configured(1, n1, y)}}

\* Lists as they may be edited by hand.
UntidyConfigs ==
  TidyConfigs \cup {{Padded(Configured(0, n1, x))},
                    {Configured(0, n1, x), Padded(Configured(1, n1, y))}}

AddSymmetry == Permutations(Adds)
================================================================================
