--------------------------- MODULE MCRecordService ---------------------------
(***************************************************************************)
(* Instances of RecordService for TLC.  Keys are named after the table     *)
(* they belong to; the key of a seeded row and the keys free for INSERTs.  *)
(***************************************************************************)
EXTENDS RecordService, TLC

CONSTANTS r1, r2, r3, d1, d2, c1, c2

MCRequests == {r1, r2, r3}
TwoRequests == {r1, r2}
Symmetry == Permutations(Requests)

MCData == {d1, d2}
OneDatum == {d1}
MCCodes == {c1, c2}

(* A seeded fault event; with a free key for one more. *)
FaultKeys == {"FE1", "FE2"}
FaultKindOf == [key \in FaultKeys |-> "FaultEvent"]
FaultSeed == [key \in {"FE1"} |-> c1]
LoneKeys == {"FE1"}
LoneKindOf == [key \in LoneKeys |-> "FaultEvent"]
LoneSeed == FaultSeed

(* A seeded mitigation action and a seeded site that bear the same code,   *)
(* and a free key for one more site. *)
PlantKeys == {"MA1", "SS1", "SS2"}
PlantKindOf == [MA1 |-> "MitigationAction", SS1 |-> "SolarSite", SS2 |-> "SolarSite"]
PlantSeed == [key \in {"MA1", "SS1"} |-> c1]

(* A seeded inverter and a free key. *)
InverterKeys == {"IU1", "IU2"}
InverterKindOf == [key \in InverterKeys |-> "InverterUnit"]
InverterSeed == [key \in {"IU1"} |-> c1]
==============================================================================
