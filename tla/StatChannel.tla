---------------------------- MODULE StatChannel ----------------------------
(***************************************************************************)
(* What CallInsights promises to the statistics server: the events and     *)
(* samples that were recorded arrive, each of them once, in the order in   *)
(* which they were recorded.  The buffer, the web sockets, the iterators   *)
(* and the threads of CallInsights are hidden.                             *)
(***************************************************************************)
EXTENDS Naturals, Sequences

CONSTANT Stats            \* what may be recorded

VARIABLES recorded,       \* every stat handed in, in order
          delivered       \* every stat the server was sent, in order

channelVars == <<recorded, delivered>>

ChannelInit == recorded = <<>> /\ delivered = <<>>

Record(stat) ==
    /\ recorded' = Append(recorded, stat)
    /\ UNCHANGED delivered

Deliver ==
    /\ Len(delivered) < Len(recorded)
    /\ delivered' = Append(delivered, recorded[Len(delivered) + 1])
    /\ UNCHANGED recorded

ChannelNext == Deliver \/ \E stat \in Stats : Record(stat)

ChannelSpec == ChannelInit /\ [][ChannelNext]_channelVars

FairChannelSpec == ChannelSpec /\ WF_channelVars(Deliver)
=============================================================================
