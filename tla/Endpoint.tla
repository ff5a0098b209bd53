------------------------------ MODULE Endpoint ------------------------------
(***************************************************************************)
(* The application's side of the SDK: Endpoint (login, logout), the        *)
(* Incoming objects with the operations of IO (answer, mute, hold), and    *)
(* NetworkChangeReceiver, whose flag guards nearly every operation.  An    *)
(* application logs in through Endpoint or, as both classes are public,    *)
(* through SipController.                                                  *)
(*                                                                         *)
(* Endpoint.setRegistered is not modelled: nothing in the SDK calls it, so *)
(* isRegistered keeps its initial value.  reject, hangup and sendDigits    *)
(* only test guards, as their bodies are commented out, and                *)
(* createOutgoingCall needs isRegistered: they change no state.            *)
(***************************************************************************)
EXTENDS Naturals, FiniteSets

CONSTANTS
    Calls,        \* incoming calls, each with its Incoming object
    None,         \* Java's null
    Environments  \* sets of liberties

(***************************************************************************)
(* The liberties of an environment:                                        *)
(*                                                                         *)
(*  "worker"    operations run on a thread other than the main thread,     *)
(*              which is the one that receives network changes             *)
(*  "survives"  the application swallows the exceptions of native threads  *)
(***************************************************************************)
ASSUME EndpointAssumption ==
    Environments \subseteq SUBSET {"worker", "survives"} /\ None \notin Calls

VARIABLES
    isConnected,                          \* NetworkChangeReceiver
    isRegistered, isLogoutInProgress, isRegWithDeviceToken,
    peerConnectionFactory,                \* SipController: whether it is made
    pc,                                   \* SipController: call of its PeerConnection
    isActive, isOnMute, isOnHold,         \* of each Incoming
    unholding,                            \* calls in unhold(), before its mute()
    \* environment and histories
    server,       \* "out", "asked" or "in": the registration at the server
    line,         \* how far each call is
    asked,        \* the last mute() or unmute() of a call that returned true
    liberties     \* those of the environment at hand

endpointVars == <<isRegistered, isLogoutInProgress, isRegWithDeviceToken>>
callVars == <<isActive, isOnMute, isOnHold, unholding, asked>>
lineVars == <<peerConnectionFactory, pc, server, line>>
vars == <<isConnected, endpointVars, callVars, lineVars, liberties>>

May(liberty) == liberty \in liberties

Init ==
    /\ isConnected = TRUE
    /\ isRegistered = FALSE /\ isLogoutInProgress = FALSE /\ isRegWithDeviceToken = FALSE
    /\ peerConnectionFactory = FALSE /\ pc = None
    /\ isActive = [c \in Calls |-> FALSE] /\ isOnMute = [c \in Calls |-> FALSE]
    /\ isOnHold = [c \in Calls |-> FALSE] /\ unholding = {}
    /\ server = "out" /\ line = [c \in Calls |-> "new"]
    /\ asked = [c \in Calls |-> FALSE]
    /\ liberties \in Environments

\* The process is there: it ends with an exception on a native thread, which
\* the end of a call always brings (SipController, OnTerminateCall).
Alive == May("survives") \/ \A c \in Calls : line[c] \notin {"lost", "over"}

\* and the application is in no other operation
Ready == Alive /\ unholding = {}

-----------------------------------------------------------------------------
(***************************************************************************)
(* NetworkChangeReceiver, Endpoint, and the registration.                  *)
(***************************************************************************)
OnReceive ==
    /\ Alive /\ (unholding = {} \/ May("worker"))
    /\ isConnected' = ~isConnected
    /\ UNCHANGED <<endpointVars, callVars, lineVars, liberties>>

\* login with a device token, with "" or with null
Login(deviceToken) ==
    /\ Ready
    /\ IF isConnected /\ deviceToken # None /\ ~isRegistered
       THEN isRegWithDeviceToken' = (deviceToken # "") /\ server' = "asked"
       ELSE UNCHANGED <<isRegWithDeviceToken, server>>
    /\ UNCHANGED <<isConnected, isRegistered, isLogoutInProgress, callVars, peerConnectionFactory, pc, line, liberties>>

Logout_Unguarded ==
    /\ Ready
    /\ isLogoutInProgress' = (isLogoutInProgress \/ isConnected)
    /\ UNCHANGED <<isConnected, isRegistered, isRegWithDeviceToken, callVars, lineVars, liberties>>

Logout ==
    /\ Ready
    /\ isLogoutInProgress' = (isLogoutInProgress \/ (isConnected /\ isRegistered))
    /\ UNCHANGED <<isConnected, isRegistered, isRegWithDeviceToken, callVars, lineVars, liberties>>

\* SipController.login: registers, and then makes the factory.
ControllerLogin ==
    /\ Ready
    /\ server' = "asked" /\ peerConnectionFactory' = TRUE
    /\ UNCHANGED <<isConnected, endpointVars, callVars, pc, line, liberties>>

\* The server accepts the registration: REGISTERED.
Registered ==
    /\ Ready /\ server = "asked"
    /\ server' = "in"
    /\ UNCHANGED <<isConnected, endpointVars, callVars, peerConnectionFactory, pc, line, liberties>>

\* SipController.unregisterUser, which reports NOT_REGISTERED.
UnregisterUser ==
    /\ Ready /\ server = "in"
    /\ server' = "out"
    /\ UNCHANGED <<isConnected, endpointVars, callVars, peerConnectionFactory, pc, line, liberties>>

-----------------------------------------------------------------------------
(***************************************************************************)
(* Calls.  An offer gets a PeerConnection first (setRemoteSDP), unless     *)
(* there is one; without a factory this throws on the receiver thread, and *)
(* the upcall that brings the Incoming object comes only if the process    *)
(* survives that.                                                          *)
(***************************************************************************)
OnOffer(c) ==
    /\ Ready /\ server = "in" /\ line[c] = "new"
    /\ line' = [line EXCEPT ![c] =
           IF pc # None \/ peerConnectionFactory \/ May("survives") THEN "ringing" ELSE "lost"]
    /\ pc' = IF pc = None /\ peerConnectionFactory THEN c ELSE pc
    /\ UNCHANGED <<isConnected, endpointVars, callVars, peerConnectionFactory, server, liberties>>

\* The peer ends a call; no Incoming object learns of it.
OnTerminated(c) ==
    /\ Ready /\ line[c] \in {"ringing", "up"}
    /\ line' = [line EXCEPT ![c] = "over"]
    /\ UNCHANGED <<isConnected, endpointVars, callVars, peerConnectionFactory, pc, server, liberties>>

\* SipController.hangup: the PeerConnection is gone; the SIP session stays.
ControllerHangup ==
    /\ Ready /\ pc # None
    /\ pc' = None
    /\ UNCHANGED <<isConnected, endpointVars, callVars, peerConnectionFactory, server, line, liberties>>

Given(c) == Ready /\ line[c] # "new"

\* doAnswer throws without a PeerConnection; it answers the call of the
\* PeerConnection, which may be another one.
Answer(c) ==
    /\ Given(c)
    /\ LET ok == isConnected /\ ~isActive[c] /\ pc # None
       IN  /\ isActive' = [isActive EXCEPT ![c] = @ \/ ok]
           /\ line' = IF ok /\ line[pc] = "ringing" THEN [line EXCEPT ![pc] = "up"] ELSE line
    /\ UNCHANGED <<isConnected, endpointVars, isOnMute, isOnHold, unholding, asked, peerConnectionFactory, pc, server, liberties>>

Usable(c) == isConnected /\ isActive[c]

\* mute() with on = TRUE, unmute() with on = FALSE
SetMute(c, on) ==
    /\ Given(c)
    /\ IF Usable(c)
       THEN isOnMute' = [isOnMute EXCEPT ![c] = on] /\ asked' = [asked EXCEPT ![c] = on]
       ELSE UNCHANGED <<isOnMute, asked>>
    /\ UNCHANGED <<isConnected, endpointVars, isActive, isOnHold, unholding, lineVars, liberties>>

Hold(c) ==
    /\ Given(c)
    /\ isOnHold' = [isOnHold EXCEPT ![c] = @ \/ Usable(c)]
    /\ UNCHANGED <<isConnected, endpointVars, isActive, isOnMute, unholding, asked, lineVars, liberties>>

\* unhold() up to the call of mute() that puts a mute back
Unhold(c) ==
    /\ Given(c)
    /\ LET works == Usable(c) /\ isOnHold[c]
       IN  /\ isOnHold' = [isOnHold EXCEPT ![c] = @ /\ ~works]
           /\ isOnMute' = [isOnMute EXCEPT ![c] = @ /\ ~works]
           /\ unholding' = IF works /\ isOnMute[c] THEN {c} ELSE {}
    /\ UNCHANGED <<isConnected, endpointVars, isActive, asked, lineVars, liberties>>

UnholdMutes_Skips(c) ==
    /\ c \in unholding /\ unholding' = {}
    /\ UNCHANGED <<isConnected, endpointVars, isActive, isOnMute, isOnHold, asked, lineVars, liberties>>

\* that mute(), with its guards; unhold() ignores what it returns
UnholdMutes(c) ==
    /\ c \in unholding /\ unholding' = {}
    /\ isOnMute' = [isOnMute EXCEPT ![c] = @ \/ Usable(c)]
    /\ UNCHANGED <<isConnected, endpointVars, isActive, isOnHold, asked, lineVars, liberties>>

Next ==
    \/ OnReceive \/ Logout \/ ControllerLogin \/ Registered \/ UnregisterUser
    \/ ControllerHangup
    \/ \E deviceToken \in {None, "", "token"} : Login(deviceToken)
    \/ \E c \in Calls :
        \/ OnOffer(c) \/ OnTerminated(c) \/ Answer(c)
        \/ Hold(c) \/ Unhold(c) \/ UnholdMutes(c)
        \/ \E on \in BOOLEAN : SetMute(c, on)

Spec == Init /\ [][Next]_vars

-----------------------------------------------------------------------------
Flags == [Calls -> BOOLEAN]

\* isRegistered and isLogoutInProgress never leave their initial value.
TypeOK ==
    /\ isConnected \in BOOLEAN /\ peerConnectionFactory \in BOOLEAN
    /\ isRegistered = FALSE /\ isLogoutInProgress = FALSE /\ isRegWithDeviceToken \in BOOLEAN
    /\ pc \in Calls \cup {None}
    /\ isActive \in Flags /\ isOnMute \in Flags /\ isOnHold \in Flags /\ asked \in Flags
    /\ unholding \subseteq Calls
    /\ server \in {"out", "asked", "in"} /\ liberties \in Environments
    /\ line \in [Calls -> {"new", "ringing", "up", "over", "lost"}]

\* unhold() (IO.java:190, "apply mute if already on mute before hold was
\* applied"): whatever holds, releases, mutes and network changes there were, a
\* call is muted exactly if the last mute() or unmute() that succeeded asked so.
MutedAsAsked == May("worker") \/ \A c \in Calls \ unholding : isOnMute[c] = asked[c]
=============================================================================
