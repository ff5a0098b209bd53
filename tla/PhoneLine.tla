----------------------------- MODULE PhoneLine -----------------------------
(***************************************************************************)
(* What SipControllerCore promises as a telephone line with one call at a  *)
(* time: a call is placed and then its INVITE goes out, or one rings, is   *)
(* accepted and then answered; a call that has gone out or has rung gets   *)
(* over, and the line is idle again.  The line is what the user and the    *)
(* peers know of it, so it turns when a message is sent: the controller's  *)
(* flags may lag behind.  Every message has a dialog of its own.           *)
(***************************************************************************)
CONSTANT Dialogs

VARIABLES
    line,       \* "idle", "placing", "outgoing", "ringing", "accepted", "incoming"
    invites,    \* dialogs on which an INVITE was sent
    answers     \* dialogs on which an answer was sent

lineVars == <<line, invites, answers>>

LineInit == line = "idle" /\ invites = {} /\ answers = {}

Goes(from, to) == line = from /\ line' = to

Place  == Goes("idle", "placing") /\ UNCHANGED <<invites, answers>>
Ring   == Goes("idle", "ringing") /\ UNCHANGED <<invites, answers>>
Accept == Goes("ringing", "accepted") /\ UNCHANGED <<invites, answers>>

Invite ==
    /\ Goes("placing", "outgoing")
    /\ \E d \in Dialogs \ (invites \cup answers) : invites' = invites \cup {d}
    /\ UNCHANGED answers

Answer ==
    /\ Goes("accepted", "incoming")
    /\ \E d \in Dialogs \ (invites \cup answers) : answers' = answers \cup {d}
    /\ UNCHANGED invites

Over ==
    /\ line \in {"outgoing", "ringing", "accepted", "incoming"} /\ line' = "idle"
    /\ UNCHANGED <<invites, answers>>

LineNext == Place \/ Ring \/ Accept \/ Invite \/ Answer \/ Over

LineSpec == LineInit /\ [][LineNext]_lineVars

\* What was placed goes out, and what was accepted is answered.
FairLineSpec == LineSpec /\ WF_lineVars(Invite) /\ WF_lineVars(Answer)
=============================================================================
