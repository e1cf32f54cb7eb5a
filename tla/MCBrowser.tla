------------------------------ MODULE MCBrowser ------------------------------
(***************************************************************************)
(* An instance of Browser for TLC.  A second is two ticks; the process is  *)
(* started with the defaults, with another secret and a lifetime of half   *)
(* a second, or in an environment that is not valid.                       *)
(***************************************************************************)
EXTENDS Browser, TLC

CONSTANTS t1, t2, Junk, app, secret, other, short

MCSecretLength == (secret :> 26) @@ (other :> 16) @@ (short :> 15)
MCTimeout == [STARTUP_TIMEOUT |-> 4, WRITE_TIMEOUT |-> 1]

Unset ==
  [APP_NAME |-> Blank, DATABASE_DRIVER |-> Blank, JWT_SECRET |-> Blank,
   TOKEN_TTL |-> Blank, REQUEST_LIMIT |-> Blank,
   STARTUP_TIMEOUT |-> Blank, WRITE_TIMEOUT |-> Blank]

MCEnvironments ==
  {Unset,
   [Unset EXCEPT !.TOKEN_TTL = 1, !.REQUEST_LIMIT = Junk, !.STARTUP_TIMEOUT = 0,
                 !.JWT_SECRET = other, !.APP_NAME = app],
   [Unset EXCEPT !.JWT_SECRET = short], [Unset EXCEPT !.REQUEST_LIMIT = 9]}

Symmetry == Permutations(Callers)
==============================================================================
