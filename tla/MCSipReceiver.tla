--------------------------- MODULE MCSipReceiver ---------------------------
(***************************************************************************)
(* Model-checking instances of SipReceiver (constants: see the cfg files).   *)
(***************************************************************************)
EXTENDS SipReceiver
=============================================================================
