----------------------------- MODULE MCConfigLoad -----------------------------
\* Lists of up to four rows drawn from good, duplicate, padded and bad rows.
EXTENDS PluginStart

CONSTANTS n1, n2, x, y

Good(n, a) == [name |-> n, padded |-> FALSE, protocol |-> "redfish",
               address |-> a, user |-> "own", port |-> "none"]

MCRowPool ==
  {Good(n1, x),
   [Good(n1, y) EXCEPT !.padded = TRUE],
   [Good(n2, y) EXCEPT !.protocol = "ipmi"],
   [Good(n2, x) EXCEPT !.protocol = "ipmi", !.port = "junk"],
   [Good(n2, x) EXCEPT !.protocol = "unknown"],
   [Good(n2, x) EXCEPT !.user = "blank"],
   Good(Blank, x),
   Good(n1, Blank)}

MCNames == {n1, n2}
MCAddresses == {x, y}

\* Numbers below, at, within and above the bounds of each setting.
MCConfigs ==
  {[k \in Keys |-> raw] :
     raw \in [kind : {"number"}, value : {-1, 0, 1, 3, 4, 32, 33, 120, 121}]
            \cup [kind : {"unusable"}]}
  \cup {[k \in Keys |-> IF k = "redfish_timeout" THEN [kind |-> "infinite"]
                       ELSE [kind |-> "number", value |-> 2]]}
================================================================================
