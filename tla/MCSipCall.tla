----------------------------- MODULE MCSipCall -----------------------------
(***************************************************************************)
(* Model-checking instances of SipCall.  Calls and dialogs are sets of     *)
(* model values that the specification treats alike, so safety runs may    *)
(* identify states that differ by a renaming of them.                      *)
(***************************************************************************)
EXTENDS SipCall, TLC

Symmetry == Permutations(Calls) \cup Permutations(Dialogs)
=============================================================================
