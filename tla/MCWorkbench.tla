----------------------------- MODULE MCWorkbench -----------------------------
(***************************************************************************)
(* Instances of Workbench for TLC: a page of two inverters, one of which   *)
(* its list shows, or of one fault event.                                  *)
(***************************************************************************)
EXTENDS Workbench, TLC

CONSTANTS t1, t2, l1, l2, l3, c1, c2, d1, i1, i2, f1

MCKeys == {i1, i2, f1}
MCSeedKeys == {}
MCKindOf == [key \in MCKeys |-> IF key = f1 THEN "FaultEvent" ELSE "InverterUnit"]
MCSeedCode == [key \in MCSeedKeys |-> c1]

(* Other users create and remove inverters, and change fault events; a fault
   event's code matters to no one: there is one row for it. *)
MCLeave(key, row) ==
  IF key = f1 THEN row.version <= 2 /\ row.code = c1 ELSE row.version = 1

Symmetry == Permutations(Posts) \union Permutations(Loads) \union Permutations({i1, i2})
==============================================================================
