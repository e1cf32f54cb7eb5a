---------------------------- MODULE MCRateLimiter ----------------------------
(***************************************************************************)
(* Instances of RateLimiter for TLC.                                       *)
(***************************************************************************)
EXTENDS RateLimiter, TLC

CONSTANTS q1, q2, q3, a, b, p1, p2

ThreeRequests == {q1, q2, q3}
TwoClients == {a, b}
TwoProcesses == {p1, p2}

Symmetry == Permutations(Requests) \union Permutations(Clients)
              \union Permutations(Instances)
==============================================================================
