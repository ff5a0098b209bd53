-------------------------- MODULE MCCallInsights --------------------------
(***************************************************************************)
(* Model-checking instances of CallInsights.  Web sockets are used once    *)
(* and are alike: safety runs identify states that differ by a renaming    *)
(* of them.                                                                *)
(***************************************************************************)
EXTENDS CallInsights, TLC

NoLiberty == {{}}
Faulty == {{"drop", "noUuid", "unstopped", "feedback"}, AllLiberties}

Symmetry == Permutations(Calls) \cup Permutations(Clients)
=============================================================================
