---------------------------- MODULE MCListPages ----------------------------
(***************************************************************************)
(* An instance of ListPages for TLC.                                       *)
(***************************************************************************)
EXTENDS ListPages, TLC

CONSTANTS w1, w2

MCIds == 1..4
MCSeeded == 1..3

Symmetry == Permutations(Writers)
==============================================================================
