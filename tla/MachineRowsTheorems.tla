--------------------------- MODULE MachineRowsTheorems ---------------------------
(***************************************************************************)
(* What Load returns, for every list of rows.                              *)
(***************************************************************************)
EXTENDS MachineRows, LeastElement

\* Stamped rows: what Load is applied to.
StampedRows(entries) == \A e \in entries : e.at \in Nat /\ e.row \in Row

\* If any row claims a name, FirstClaim is one that does, with the least stamp.
LEMMA FirstClaimIsLeast ==
  ASSUME NEW entries, StampedRows(entries), NEW n, Claims(entries, n) # {}
  PROVE  /\ FirstClaim(entries, n) \in Claims(entries, n)
         /\ \A f \in Claims(entries, n) : FirstClaim(entries, n).at <= f.at
<1> DEFINE stamps == {e.at : e \in Claims(entries, n)}
<1>1. stamps \in SUBSET Nat /\ stamps # {}
  BY DEF StampedRows, Claims
<1>2. PICK k \in stamps : \A y \in stamps : k <= y
  BY <1>1, LeastNatural
<1>3. \E e \in Claims(entries, n) : \A f \in Claims(entries, n) : e.at <= f.at
  BY <1>2
<1>4. QED
  BY <1>3 DEF FirstClaim

\* The machine built from a well-formed row, by any caller.
LEMMA MachineOfType ==
  ASSUME NEW r \in Row, WellFormed(r), NEW builders, NEW b \in builders
  PROVE  MachineOf(r, b) \in MachinesBuiltBy(builders)
BY DEF Row, WellFormed, MachineOf, MachinesBuiltBy

\* Load returns a registry whose machines were all built at startup, and its
\* entry for a name is the machine of the first claim, or NoMachine.
LEMMA LoadType ==
  ASSUME NEW entries, StampedRows(entries)
  PROVE  Load(entries) \in [Names -> MachinesBuiltBy({Startup}) \cup {NoMachine}]
<1>1. ASSUME NEW n \in Names, Claims(entries, n) # {}
      PROVE  MachineOf(FirstClaim(entries, n).row, Startup)
               \in MachinesBuiltBy({Startup})
  <2>1. FirstClaim(entries, n).row \in Row /\ WellFormed(FirstClaim(entries, n).row)
    BY <1>1, FirstClaimIsLeast DEF Claims, StampedRows
  <2>2. QED
    BY <2>1, MachineOfType
<1>2. QED
  BY <1>1 DEF Load
================================================================================
