--------------------------- MODULE MCAuditQueries ---------------------------
(***************************************************************************)
(* An instance of AuditQueries for TLC: two transitions of one actor and a *)
(* creation by another.                                                    *)
(***************************************************************************)
EXTENDS AuditQueries

MCTold ==
  [w1 |-> [action |-> "transition", entityType |-> "FaultEvent", actor |-> "operator"],
   w2 |-> [action |-> "transition", entityType |-> "InverterUnit", actor |-> "operator"],
   w3 |-> [action |-> "create", entityType |-> "FaultEvent", actor |-> "reviewer"]]

MCWriters == DOMAIN MCTold
==============================================================================
