---------------------------- MODULE MCEndpoint ----------------------------
(***************************************************************************)
(* Model-checking instances of Endpoint.                                   *)
(***************************************************************************)
EXTENDS Endpoint, TLC

AnyEnvironment == SUBSET {"worker", "survives"}

Symmetry == Permutations(Calls)
=============================================================================
