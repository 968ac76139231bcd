--------------------------------- MODULE MCAof ---------------------------------
(***************************************************************************)
(* Model-checking instance of Aof.                                         *)
(***************************************************************************)
EXTENDS Aof

CONSTANTS c1, c2, k1, k2

\* Each client writes a key of its own.
OwnKeys == (c1 :> {k1}) @@ (c2 :> {k2})
=============================================================================
