---------------------------- MODULE MCRtpStats ----------------------------
(***************************************************************************)
(* Model-checking instances of RtpStats: one measure on either side of     *)
(* each threshold.  With a jitter of 200 ms the MOS is below 3.5.          *)
(***************************************************************************)
EXTENDS RtpStats

Packets == {<<1, 10>>}
=============================================================================
