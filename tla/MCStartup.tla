------------------------------ MODULE MCStartup ------------------------------
(***************************************************************************)
(* An instance of Startup for TLC: two seeded sites and a key for one more *)
(* site, and a seeded mitigation action; the other tables have no keys.    *)
(***************************************************************************)
EXTENDS Startup

CONSTANTS c1, c2, c3

MCKeys == {"SS1", "SS2", "SS3", "MA1"}
MCKindOf == [SS1 |-> "SolarSite", SS2 |-> "SolarSite", SS3 |-> "SolarSite",
             MA1 |-> "MitigationAction"]
MCSeedKeys == {"SS1", "SS2", "MA1"}
MCSeedCode == [SS1 |-> c1, SS2 |-> c2, MA1 |-> c1]
==============================================================================
