------------------------------ MODULE SipCall ------------------------------
(***************************************************************************)
(* The call state of rtcsip::SipControllerCore: the operations that        *)
(* SipController.java calls through JNI (makeCall, answer, endCall,        *)
(* iceCandidate, iceGatheringFinish, unregisterUser) and the callbacks     *)
(* through which resiprocate's DialogUsageManager (DUM) drives it.         *)
(*                                                                         *)
(* There is one record of flags for "the" call; dialogs come and go.  The  *)
(* questions are what is left in the flags from one call to the next, and  *)
(* which orders of application calls, ICE callbacks and DUM callbacks the  *)
(* code relies on.                                                         *)
(*                                                                         *)
(* Three threads are inside the class: WebRTC's signalling thread (makeCall*)
(* and answer are called when it has made the SDP, and candidates come     *)
(* from it), the application's (endCall, unregisterUser, reject) and the   *)
(* receiver's (the DUM's callbacks).  A step ends where its thread lets    *)
(* another one see or change what it goes on with: at the end of a section *)
(* under m_controllerMutex, between a test and the use it guards, around   *)
(* an upcall.  Assignments in a row are one step, as no other thread's     *)
(* step tells their order.                                                 *)
(*                                                                         *)
(* A local SDP, and a local ICE candidate, is represented by the call (the *)
(* PeerConnection) that produced it.  Fields that are only ever written    *)
(* (m_remoteSdp, m_remoteSdpSet) or only name the call in messages         *)
(* (m_current_callid, m_remoteUri, m_headers) are left out.                *)
(***************************************************************************)
EXTENDS Naturals

CONSTANTS
    Calls,        \* local call attempts: one PeerConnection each
    Dialogs,      \* INVITE dialogs of the DUM, sent or received
    None,         \* no SDP, no session, no call
    Unset,        \* a function-local static that was never initialised
    Liberties     \* what the environment may do (see AllLiberties)

(***************************************************************************)
(* The liberties: what application, WebRTC and peers may do although the   *)
(* flags are made for one call at a time.                                  *)
(*  "hasty"        a call ends, or is hung up, while an operation or a     *)
(*                 callback that still sets the call's flags is under way  *)
(*  "earlyHangup"  endCall before the peer has answered the INVITE at all  *)
(*  "lateAnswer"   answer() for a call that is over or being hung up       *)
(*  "lateIce"      ICE candidates of a call that is over                   *)
(*  "callWaiting"  a call is placed or arrives while another one is up, or *)
(*                 while an operation or a callback is under way           *)
(*  "logoutInCall" unregisterUser during a call                            *)
(*  "reject"       reject(), which no code of the repository calls         *)
(*  "staleReject"  the first response is a final error, and isUACRejected  *)
(*                 is set from an earlier call or was never initialised    *)
(*  "foreignAgent" the peer's User-Agent does not contain "plivo"          *)
(*  "bodiless"     the first response to an INVITE has no body             *)
(*  "noMessage"    onTerminated without a message (its default argument)   *)
(*  "fork"         onForkDestroyed, onRedirected, onStaleCallTimeout       *)
(*  "reinvite"     an offer inside an established dialog                   *)
(* That both sides hang up at the same time is not a liberty.              *)
(***************************************************************************)
AllLiberties == {"hasty", "earlyHangup", "lateAnswer", "lateIce", "callWaiting",
                 "logoutInCall", "reject", "staleReject", "foreignAgent", "bodiless",
                 "noMessage", "fork", "reinvite"}

May(liberty) == liberty \in Liberties

ASSUME CallLibertiesAssumption == Liberties \subseteq AllLiberties
ASSUME NoneAssumption == /\ None \notin Calls \cup Dialogs \cup {Unset}
                         /\ Unset \notin Calls

VARIABLES
    \* SipControllerCore's members
    mProgress, isUACRejected, m_inCall, m_isCaller, m_inInBoundAccepted,
    m_localSdp, m_localSdpSet, m_localCandidates, m_localCandidatesCollected,
    m_clientInviteSession, m_serverInviteSession,
    offerSdp,     \* static SdpContents of sendSdpOffer: the SDP it was built from
    answerSdp,    \* static SdpContents of sendSdpAnswer
    crashed,      \* a null or dead session or message was dereferenced, or the
                  \* DUM threw an exception, which nothing catches
    \* where the threads are
    atW,          \* WebRTC's: in createSession, acceptSession, onIceGatheringFinished
    localSdp,     \* the parameter of createSession and acceptSession
    atA,          \* the application's: in terminateSession or reject
    atR,          \* the receiver's: in onOffer, onAnswer or onTerminated
    \* the DUM (external)
    state,        \* where each dialog is
    role,         \* "uac" or "uas", or "none" while unused
    sent,         \* the local SDP put into the dialog's INVITE or 200
    ends,         \* how often end() was called on the dialog's session
    \* the application and WebRTC (external)
    call,         \* the call attempt a dialog belongs to: the one its INVITE was
                  \* sent for, or the one with which the user accepted it
    active,       \* the call attempt in progress
    gather        \* how far ICE gathering of each call is

progress == <<mProgress, isUACRejected>>
callData == <<m_isCaller, m_inInBoundAccepted, m_localSdp, m_localSdpSet,
              m_localCandidates, m_localCandidatesCollected>>
sessions == <<m_clientInviteSession, m_serverInviteSession>>
statics == <<offerSdp, answerSdp>>
threads == <<atW, localSdp, atA, atR>>
dum == <<state, role, sent, ends>>
env == <<call, active, gather>>
vars == <<progress, m_inCall, callData, sessions, statics, crashed, threads, dum, env>>

(***************************************************************************)
(* Dialog states.  "calling": INVITE sent, no response.  "responded",      *)
(* "invited", "answered", "failed": the DUM is between two callbacks of    *)
(* one message.  "cancelling": end() was called, onTerminated is to come.  *)
(***************************************************************************)
DialogState == {"unused", "calling", "responded", "early", "answered", "connected",
                "failed", "invited", "offered", "cancelling", "terminated"}
Transient == {"responded", "answered", "failed", "invited"}

Live(d) == state[d] \notin {"unused", "terminated"}
\* the first callback about the dialog is past and the last not begun
Established(d) == Live(d) /\ state[d] \notin {"calling", "failed", "cancelling"}

ThreadsIdle == atW = "idle" /\ atA = "idle" /\ atR = "idle"

\* between calls
Quiet == ThreadsIdle /\ active = None /\ \A d \in Dialogs : ~Live(d)

\* an operation or a callback is under way that still sets flags of the call
Settling == atW # "idle" \/ atR \in {"offer", "answer"}

\* The receiver thread delivers all callbacks of one message before the next.
ReceiverAt(d) == atR = "idle" /\ \A e \in Dialogs \ {d} : state[e] \notin Transient

\* Bound: a dialog is left for an INVITE.
DialogLeft == \E d \in Dialogs : state[d] = "unused"

Init == /\ mProgress \in {"Dialing", "Ringing", "Connected", "Done"}  \* not initialised
        /\ isUACRejected \in BOOLEAN                                  \* not initialised
        /\ m_inInBoundAccepted \in BOOLEAN                            \* not initialised
        /\ m_inCall = FALSE /\ m_isCaller = FALSE
        /\ m_localSdp = None /\ m_localSdpSet = FALSE
        /\ m_localCandidates = {} /\ m_localCandidatesCollected = FALSE
        /\ m_clientInviteSession = None /\ m_serverInviteSession = None
        /\ offerSdp = Unset /\ answerSdp = Unset
        /\ crashed = FALSE
        /\ atW = "idle" /\ atA = "idle" /\ atR = "idle" /\ localSdp = None
        /\ state = [d \in Dialogs |-> "unused"]
        /\ role = [d \in Dialogs |-> "none"]
        /\ sent = [d \in Dialogs |-> None]
        /\ ends = [d \in Dialogs |-> 0]
        /\ call = [d \in Dialogs |-> None]
        /\ active = None
        /\ gather = [c \in Calls |-> "none"]

----------------------------------------------------------------------------
(***************************************************************************)
(* What several operations share.  The definitions named <step>_<fault>    *)
(* are faulty variants that no specification uses: each is put in the      *)
(* place of its step to see that the property it is paired with notices.   *)
(***************************************************************************)

\* Variants of ResetCallData that forget a field
ResetCallData_KeepsCollected ==
    /\ m_inInBoundAccepted' = FALSE /\ m_isCaller' = FALSE /\ m_localSdpSet' = FALSE
    /\ m_localSdp' = None /\ m_localCandidates' = {}
    /\ UNCHANGED m_localCandidatesCollected
ResetCallData_KeepsCandidates ==
    /\ m_inInBoundAccepted' = FALSE /\ m_isCaller' = FALSE /\ m_localSdpSet' = FALSE
    /\ m_localCandidatesCollected' = FALSE /\ m_localSdp' = None
    /\ UNCHANGED m_localCandidates
ResetCallData_KeepsFlags ==
    /\ m_inInBoundAccepted' = FALSE /\ m_localCandidatesCollected' = FALSE
    /\ m_localSdp' = None /\ m_localCandidates' = {}
    /\ UNCHANGED <<m_isCaller, m_localSdpSet>>

\* The block of assignments with which unregisterUser, reject, terminateSession
\* and onTerminated drop the call data
ResetCallData ==
    /\ m_inInBoundAccepted' = FALSE
    /\ m_isCaller' = FALSE
    /\ m_localSdpSet' = FALSE
    /\ m_localCandidatesCollected' = FALSE
    /\ m_localSdp' = None
    /\ m_localCandidates' = {}

\* Variant: the session of an outgoing call is forgotten
DropSessions_KeepsClient == m_serverInviteSession' = None /\ UNCHANGED m_clientInviteSession

\* The resets at the end of terminateSession and onTerminated
DropSessions == m_clientInviteSession' = None /\ m_serverInviteSession' = None

\* Variants: the message is never sent; it is built before the offer is
SendSdpOffer_NotSent(sdp) ==
    /\ offerSdp' = IF offerSdp = Unset THEN sdp ELSE offerSdp
    /\ m_localCandidates' = {}
    /\ UNCHANGED <<state, role, sent, call>>
SendSdpOffer_BuiltLate(sdp) ==
    \E d \in Dialogs :
        /\ state[d] = "unused"
        /\ offerSdp' = IF offerSdp = Unset THEN sdp ELSE offerSdp
        /\ m_localCandidates' = {}
        /\ state' = [state EXCEPT ![d] = "calling"]
        /\ role' = [role EXCEPT ![d] = "uac"]
        /\ sent' = [sent EXCEPT ![d] = offerSdp]
        /\ call' = [call EXCEPT ![d] = sdp]

\* sendSdpOffer with m_localSdp = sdp.  offerSdp is static: it is built from the
\* local SDP of the first offer only.  The candidates gathered so far go into it
\* and are dropped; the INVITE opens a new dialog.
SendSdpOffer(sdp) ==
    \E d \in Dialogs :
        /\ state[d] = "unused"
        /\ offerSdp' = IF offerSdp = Unset THEN sdp ELSE offerSdp
        /\ m_localCandidates' = {}
        /\ state' = [state EXCEPT ![d] = "calling"]
        /\ role' = [role EXCEPT ![d] = "uac"]
        /\ sent' = [sent EXCEPT ![d] = offerSdp']
        /\ call' = [call EXCEPT ![d] = sdp]

\* Variant: provideAnswer without accept
SendSdpAnswer_NotAccepted(sdp) ==
    /\ answerSdp' = IF answerSdp = Unset THEN sdp ELSE answerSdp
    /\ m_localCandidates' = {}
    /\ UNCHANGED <<state, sent, crashed>>

\* sendSdpAnswer with m_localSdp = sdp.  m_serverInviteSession is not tested; the
\* DUM takes an answer while an offer is open, or throws.  In a connected dialog
\* the offer may be that of a re-INVITE; what a call on a session that is over does
\* is undefined.
SendSdpAnswer(sdp) ==
    LET s == m_serverInviteSession IN
    /\ answerSdp' = IF answerSdp = Unset THEN sdp ELSE answerSdp
    /\ m_localCandidates' = {}
    /\ IF s \in Dialogs /\ state[s] = "offered"
       THEN /\ state' = [state EXCEPT ![s] = "connected"]
            /\ sent' = [sent EXCEPT ![s] = answerSdp']
            /\ crashed' = FALSE
       ELSE /\ crashed' \in IF s \in Dialogs /\ state[s] \in {"connected", "terminated"}
                            THEN BOOLEAN ELSE {TRUE}
            /\ UNCHANGED <<state, sent>>

----------------------------------------------------------------------------
(* The WebRTC signalling thread *)

\* createSession (JNI makeCall) with the local SDP of call c, to its first unlock
CreateSession(c) ==
    /\ ~crashed
    /\ atW = "idle" /\ atW' = "create"
    /\ gather[c] = "none"
    /\ Quiet \/ May("callWaiting")
    /\ DialogLeft
    /\ m_isCaller' = TRUE
    /\ localSdp' = c
    /\ active' = c
    /\ gather' = [gather EXCEPT ![c] = "gathering"]
    /\ UNCHANGED <<progress, m_inCall, m_inInBoundAccepted, m_localSdp, m_localSdpSet,
                   m_localCandidates, m_localCandidatesCollected, sessions, statics,
                   crashed, atA, atR, dum, call>>

\* acceptSession (JNI answer) with the local SDP of call c, to its lock; d is the
\* dialog the user means, which the code is not told
AcceptSession(c, d) ==
    /\ ~crashed
    /\ atW = "idle" /\ atW' = "accept"
    /\ gather[c] = "none"
    /\ role[d] = "uas" /\ call[d] = None
    /\ \/ state[d] = "offered" /\ atA = "idle"
       \/ state[d] \in {"offered", "cancelling", "terminated"} /\ May("lateAnswer")
    /\ m_inInBoundAccepted' = TRUE
    /\ localSdp' = c
    /\ call' = [call EXCEPT ![d] = c]
    /\ active' = c
    /\ gather' = [gather EXCEPT ![c] = "gathering"]
    /\ UNCHANGED <<progress, m_inCall, m_isCaller, m_localSdp, m_localSdpSet,
                   m_localCandidates, m_localCandidatesCollected, sessions, statics,
                   crashed, atA, atR, dum>>

\* The locked part of createSession and acceptSession.  If candidates were
\* collected the INVITE, or the answer, goes out next.
SetLocalSdp ==
    /\ ~crashed
    /\ atW \in {"create", "accept"}
    /\ atW' = IF ~m_localCandidatesCollected THEN "idle"
              ELSE IF atW = "create" THEN "offer" ELSE "answer"
    /\ m_localSdp' = localSdp
    /\ m_localSdpSet' = TRUE
    /\ localSdp' = None
    /\ UNCHANGED <<progress, m_inCall, m_isCaller, m_inInBoundAccepted, m_localCandidates,
                   m_localCandidatesCollected, sessions, statics, crashed, atA, atR, dum,
                   env>>

\* onIceCandidate: a candidate of call c, whichever call the flags are about
OnIceCandidate(c) ==
    /\ ~crashed
    /\ atW = "idle"
    /\ gather[c] # "none"
    /\ c = active \/ May("lateIce")
    /\ m_localCandidates' = m_localCandidates \cup {c}
    /\ gather' = [gather EXCEPT ![c] = IF @ = "gathering" THEN "candidate" ELSE @]
    /\ UNCHANGED <<progress, m_inCall, m_isCaller, m_inInBoundAccepted, m_localSdp,
                   m_localSdpSet, m_localCandidatesCollected, sessions, statics, crashed,
                   threads, dum, call, active>>

\* onIceGatheringFinished, which SipController.java calls once, on the first
\* candidate of a call: it reads the flags under the lock and lets go of it
OnIceGatheringFinished(c) ==
    /\ ~crashed
    /\ atW = "idle"
    /\ gather[c] = "candidate"
    /\ c = active \/ May("lateIce")
    /\ gather' = [gather EXCEPT ![c] = "finished"]
    /\ atW' = IF m_localSdpSet /\ m_isCaller THEN "finishOffer"
              ELSE IF m_localSdpSet /\ m_inInBoundAccepted THEN "finishAnswer"
              ELSE "collected"
    /\ UNCHANGED <<progress, m_inCall, callData, sessions, statics, crashed, localSdp, atA,
                   atR, dum, call, active>>

\* sendSdpOffer called by createSession, which returns then, with m_inCall as it
\* is, or by onIceGatheringFinished; m_localSdp is read without the lock
SendOffer ==
    /\ ~crashed
    /\ \/ atW = "offer" /\ atW' = "idle"
       \/ atW = "finishOffer" /\ atW' = "inCall"
    /\ SendSdpOffer(m_localSdp)
    /\ UNCHANGED <<progress, m_inCall, m_isCaller, m_inInBoundAccepted, m_localSdp,
                   m_localSdpSet, m_localCandidatesCollected, sessions, answerSdp, crashed,
                   localSdp, atA, atR, ends, active, gather>>

\* sendSdpAnswer called by acceptSession or by onIceGatheringFinished
SendAnswer ==
    /\ ~crashed
    /\ \/ atW = "answer" /\ atW' = "acceptInCall"
       \/ atW = "finishAnswer" /\ atW' = "inCall"
    /\ SendSdpAnswer(m_localSdp)
    /\ UNCHANGED <<progress, m_inCall, m_isCaller, m_inInBoundAccepted, m_localSdp,
                   m_localSdpSet, m_localCandidatesCollected, sessions, offerSdp, localSdp,
                   atA, atR, role, ends, env>>

\* The lock is taken again: m_inCall is set after the message has gone out
SetInCall ==
    /\ ~crashed
    /\ \/ atW = "inCall" /\ atW' = "collected"
       \/ atW = "acceptInCall" /\ atW' = "idle"
    /\ m_inCall' = TRUE
    /\ UNCHANGED <<progress, callData, sessions, statics, crashed, localSdp, atA, atR, dum,
                   env>>

\* ... and again: the last lines of onIceGatheringFinished
SetCollected ==
    /\ ~crashed
    /\ atW = "collected" /\ atW' = "idle"
    /\ m_localCandidatesCollected' = TRUE
    /\ UNCHANGED <<progress, m_inCall, m_isCaller, m_inInBoundAccepted, m_localSdp,
                   m_localSdpSet, m_localCandidates, sessions, statics, crashed, localSdp,
                   atA, atR, dum, env>>

----------------------------------------------------------------------------
(* Where onTerminated is done with its upcalls *)

\* What it has left to do then, by the m_inCall it has read before them: nothing
\* for a call that was not "in call", which is taken to be reset already
TerminatedRest(msg) ==
    IF isUACRejected THEN "rejected" ELSE IF msg /\ m_inCall THEN "reset" ELSE "idle"

\* The end of onTerminated, without the lock
EndTerminated(rest) ==
    \/ /\ rest = "reset"
       /\ ResetCallData
       /\ m_inCall' = FALSE
       /\ DropSessions
    \/ /\ rest = "rejected"
       /\ m_serverInviteSession' = None
       /\ UNCHANGED <<callData, m_inCall, m_clientInviteSession>>
    \/ /\ rest = "idle"
       /\ UNCHANGED <<callData, m_inCall, sessions>>

\* A null message is dereferenced unless the call was rejected locally
NullMessage(msg) == ~msg /\ ~isUACRejected

----------------------------------------------------------------------------
(* The application's thread *)

\* terminateSession (JNI endCall) with mProgress = Done returns at once; else it
\* goes on from here
TerminateSession ==
    /\ ~crashed
    /\ atA = "idle" /\ atA' = "tested"
    /\ \/ Quiet \/ May("earlyHangup")
       \/ \E d \in Dialogs : Established(d)
    /\ ~Settling \/ May("hasty")
    /\ mProgress # "Done"
    /\ active' = None
    /\ UNCHANGED <<progress, m_inCall, callData, sessions, statics, crashed, atW, localSdp,
                   atR, dum, call, gather>>

\* The session that terminateSession ends: the client's, else the server's
SessionToEnd == IF m_clientInviteSession # None THEN m_clientInviteSession
                ELSE m_serverInviteSession

\* m_inCall is cleared under the lock, then the sessions are tested without it
ClearInCall ==
    /\ ~crashed
    /\ atA = "tested"
    /\ atA' = IF SessionToEnd = None THEN "reset"
              ELSE IF m_clientInviteSession # None THEN "endClient" ELSE "endServer"
    /\ m_inCall' = FALSE
    /\ UNCHANGED <<progress, callData, sessions, statics, crashed, atW, localSdp, atR, dum,
                   env>>

\* InviteSession::end or ServerInviteSession::reject (external) on session s: a
\* BYE, a CANCEL or a rejection is sent; the DUM calls onTerminated later, on the
\* receiver thread, or before the call returns.  A null session is a crash; what a
\* call on a session that is over does is undefined.
EndSession(s) ==
    \/ /\ s \in Dialogs /\ Live(s)
       /\ state' = [state EXCEPT ![s] = "cancelling"]
       /\ UNCHANGED <<mProgress, callData, m_inCall, sessions, crashed, active>>
    \/ /\ s \in Dialogs /\ Live(s)
       /\ state' = [state EXCEPT ![s] = "terminated"]
       /\ mProgress' = "Done"
       /\ \E msg \in {TRUE, ~May("noMessage")} :
            /\ crashed' = NullMessage(msg)
            /\ EndTerminated(TerminatedRest(msg))
       /\ active' = IF call[s] = active THEN None ELSE active
    \/ /\ ~(s \in Dialogs /\ Live(s))
       /\ crashed' \in IF s = None THEN {TRUE} ELSE BOOLEAN
       /\ UNCHANGED <<state, mProgress, callData, m_inCall, sessions, active>>

CountEnd(s) == ends' = IF s \in Dialogs /\ Live(s) THEN [ends EXCEPT ![s] = @ + 1] ELSE ends

\* Variant: the other session than the one that was tested is ended
EndCall_OtherSession ==
    /\ ~crashed
    /\ atA' = "reset"
    /\ \/ /\ atA = "endClient"
          /\ EndSession(m_serverInviteSession) /\ CountEnd(m_serverInviteSession)
       \/ /\ atA = "endServer"
          /\ EndSession(m_clientInviteSession) /\ CountEnd(m_clientInviteSession)
    /\ UNCHANGED <<isUACRejected, statics, atW, localSdp, atR, role, sent, call, gather>>

\* The call of end() on the session that was tested, which may be gone by now
EndCall ==
    /\ ~crashed
    /\ atA' = "reset"
    /\ \/ /\ atA = "endClient"
          /\ EndSession(m_clientInviteSession) /\ CountEnd(m_clientInviteSession)
       \/ /\ atA = "endServer"
          /\ EndSession(m_serverInviteSession) /\ CountEnd(m_serverInviteSession)
    /\ UNCHANGED <<isUACRejected, statics, atW, localSdp, atR, role, sent, call, gather>>

\* The rest of terminateSession, under the lock
ResetSession ==
    /\ ~crashed
    /\ atA = "reset" /\ atA' = "idle"
    /\ ResetCallData
    /\ DropSessions
    /\ UNCHANGED <<progress, m_inCall, statics, crashed, atW, localSdp, atR, dum, env>>

\* reject takes no lock at all.  With a session it goes on from the test.
Reject ==
    /\ ~crashed
    /\ May("reject")
    /\ atA = "idle"
    /\ atA' = IF m_serverInviteSession # None THEN "reject" ELSE "idle"
    /\ isUACRejected' = TRUE
    /\ UNCHANGED <<mProgress, m_inCall, callData, sessions, statics, crashed, atW, localSdp,
                   atR, dum, env>>

RejectSession ==
    /\ ~crashed
    /\ atA = "reject" /\ atA' = "resetRejected"
    /\ EndSession(m_serverInviteSession)
    /\ UNCHANGED <<isUACRejected, statics, atW, localSdp, atR, role, sent, ends, call,
                   gather>>

\* m_inCall and the sessions stay
ResetRejected ==
    /\ ~crashed
    /\ atA = "resetRejected" /\ atA' = "idle"
    /\ ResetCallData
    /\ UNCHANGED <<progress, m_inCall, sessions, statics, crashed, atW, localSdp, atR, dum,
                   env>>

\* What unregisterUser does to the call: the flags go, the sessions stay
UnregisterUser ==
    /\ ~crashed
    /\ atA = "idle"
    /\ Quiet \/ May("logoutInCall")
    /\ ResetCallData
    /\ m_inCall' = FALSE
    /\ UNCHANGED <<progress, sessions, statics, crashed, threads, dum, env>>

----------------------------------------------------------------------------
(* Callbacks of the DUM, run by the receiver thread *)

Move(d, from, to) == /\ ~crashed
                     /\ ReceiverAt(d)
                     /\ state[d] \in from
                     /\ state' = [state EXCEPT ![d] = to]

\* a callback that sets mProgress and returns
ProgressIs(p) ==
    /\ mProgress' = p
    /\ UNCHANGED <<isUACRejected, m_inCall, callData, sessions, statics, crashed, threads,
                   role, sent, ends, env>>

\* a callback that goes on from place p
UpcallsAt(p) ==
    /\ atR' = p
    /\ UNCHANGED <<progress, m_inCall, callData, sessions, statics, crashed, atW, localSdp,
                   atA, role, sent, ends, env>>

\* onNewSession(ServerInviteSessionHandle): an INVITE has arrived
OnNewSessionServer(d) ==
    /\ Quiet \/ May("callWaiting")
    /\ Move(d, {"unused"}, "invited")
    /\ role' = [role EXCEPT ![d] = "uas"]
    /\ mProgress' = "Ringing"
    /\ isUACRejected' = FALSE
    /\ \/ m_serverInviteSession' = d
       \/ May("foreignAgent") /\ UNCHANGED m_serverInviteSession
    /\ UNCHANGED <<m_inCall, callData, m_clientInviteSession, statics, crashed, threads,
                   sent, ends, env>>

\* onOffer: the offer of that INVITE, or of a re-INVITE, which is not told apart;
\* the upcalls come first
OnOffer(d) ==
    /\ atA = "idle" \/ May("hasty")
    /\ \/ Move(d, {"invited"}, "offered")
       \/ May("reinvite") /\ Move(d, {"connected"}, "connected")
    /\ UpcallsAt("offer")

\* ... and then the flags, under the lock
EndOffer ==
    /\ ~crashed
    /\ atR = "offer" /\ atR' = "idle"
    /\ m_isCaller' = FALSE
    /\ m_inCall' = TRUE
    /\ UNCHANGED <<progress, m_inInBoundAccepted, m_localSdp, m_localSdpSet,
                   m_localCandidates, m_localCandidatesCollected, sessions, statics,
                   crashed, atW, localSdp, atA, dum, env>>

\* onNewSession(ClientInviteSessionHandle): the first response has arrived.  Its
\* body is handed to the SDP handler without a test that there is one.
OnNewSessionClient(d) ==
    /\ Move(d, {"calling"}, "responded")
    /\ mProgress' = "Dialing"
    /\ isUACRejected' = FALSE
    /\ \/ m_clientInviteSession' = d
       \/ May("foreignAgent") /\ UNCHANGED m_clientInviteSession
    /\ \/ crashed' = crashed
       \/ May("bodiless") /\ crashed' = TRUE
    /\ UNCHANGED <<m_inCall, callData, m_serverInviteSession, statics, threads, role, sent,
                   ends, env>>

\* onEarlyMedia and onProvisional: a 1xx response
OnProvisional(d) == Move(d, {"responded", "early"}, "early") /\ ProgressIs("Dialing")

\* onAnswer: a 2xx response; the upcalls come first
OnAnswer(d) ==
    /\ atA = "idle" \/ May("hasty")
    /\ Move(d, {"responded", "early"}, "answered")
    /\ UpcallsAt("answer")

\* ... and then m_inCall, under the lock
EndAnswer ==
    /\ ~crashed
    /\ atR = "answer" /\ atR' = "idle"
    /\ m_inCall' = TRUE
    /\ UNCHANGED <<progress, callData, sessions, statics, crashed, atW, localSdp, atA, dum,
                   env>>

\* onConnected(ClientInviteSessionHandle), right after onAnswer
OnConnected(d) == Move(d, {"answered"}, "connected") /\ ProgressIs("Connected")

\* onFailure: a final error response, which may be the first one; onTerminated
\* follows
OnFailure(d) ==
    /\ atW = "idle" \/ May("hasty")
    /\ state[d] = "calling" /\ isUACRejected => May("staleReject")
    /\ Move(d, {"calling", "responded", "early"}, "failed")
    /\ ProgressIs("Done")

\* onForkDestroyed (another fork of the INVITE is gone), onRedirected and
\* onStaleCallTimeout: this dialog is not over yet
OnForkDestroyed(d) ==
    /\ May("fork")
    /\ role[d] = "uac"
    /\ Move(d, {"early", "connected"}, state[d])
    /\ ProgressIs("Done")

\* onTerminated(handle, reason, msg), with its upcalls; msg may be null
OnTerminated(d, msg) ==
    /\ atW = "idle" \/ May("hasty")
    /\ Move(d, {"early", "failed", "connected", "offered", "cancelling"}, "terminated")
    /\ msg \/ May("noMessage")
    /\ mProgress' = "Done"
    /\ crashed' = NullMessage(msg)
    /\ atR' = TerminatedRest(msg)
    /\ active' = IF call[d] = active THEN None ELSE active
    /\ UNCHANGED <<isUACRejected, m_inCall, callData, sessions, statics, atW, localSdp, atA,
                   role, sent, ends, call, gather>>

\* ... and its end
FinishTerminated ==
    /\ ~crashed
    /\ atR \in {"reset", "rejected"} /\ atR' = "idle"
    /\ EndTerminated(atR)
    /\ UNCHANGED <<progress, statics, crashed, atW, localSdp, atA, dum, env>>

----------------------------------------------------------------------------
Application == \/ TerminateSession \/ ClearInCall \/ EndCall \/ ResetSession
               \/ Reject \/ RejectSession \/ ResetRejected \/ UnregisterUser

WebRTC == \/ \E c \in Calls : \/ CreateSession(c)
                              \/ \E d \in Dialogs : AcceptSession(c, d)
                              \/ OnIceCandidate(c) \/ OnIceGatheringFinished(c)
          \/ SetLocalSdp \/ SendOffer \/ SendAnswer \/ SetInCall \/ SetCollected

Callback(d) == \/ OnNewSessionServer(d) \/ OnOffer(d) \/ OnNewSessionClient(d)
               \/ OnProvisional(d) \/ OnAnswer(d) \/ OnConnected(d) \/ OnFailure(d)
               \/ OnForkDestroyed(d) \/ \E msg \in BOOLEAN : OnTerminated(d, msg)

Receiver == EndOffer \/ EndAnswer \/ FinishTerminated \/ \E d \in Dialogs : Callback(d)

Next == Application \/ WebRTC \/ Receiver

Spec == Init /\ [][Next]_vars

(***************************************************************************)
(* Fairness: WebRTC goes on gathering for the call in progress until it    *)
(* has told the first candidate (it always has a host candidate),          *)
(* SipController.java calls iceGatheringFinish from that very callback,    *)
(* and an operation that was begun runs on.  Users, peers and networks owe *)
(* nothing.                                                                *)
(***************************************************************************)
Fairness ==
    /\ \A c \in Calls : /\ WF_vars(gather[c] = "gathering" /\ OnIceCandidate(c))
                        /\ WF_vars(OnIceGatheringFinished(c))
    /\ WF_vars(SetLocalSdp \/ SendOffer \/ SendAnswer \/ SetInCall \/ SetCollected)
    /\ WF_vars(ClearInCall \/ EndCall \/ ResetSession)

FairSpec == Spec /\ Fairness

----------------------------------------------------------------------------
(* Properties *)

FlagsOK ==
    /\ isUACRejected \in BOOLEAN /\ m_inCall \in BOOLEAN /\ m_isCaller \in BOOLEAN
    /\ m_inInBoundAccepted \in BOOLEAN /\ m_localSdpSet \in BOOLEAN
    /\ m_localCandidatesCollected \in BOOLEAN /\ crashed \in BOOLEAN

DataOK ==
    /\ mProgress \in {"Dialing", "Ringing", "Connected", "Done"}
    /\ m_localSdp \in Calls \cup {None}
    /\ m_localCandidates \subseteq Calls
    /\ m_clientInviteSession \in Dialogs \cup {None}
    /\ m_serverInviteSession \in Dialogs \cup {None}
    /\ offerSdp \in Calls \cup {None, Unset}
    /\ answerSdp \in Calls \cup {None, Unset}

DialogsOK ==
    /\ state \in [Dialogs -> DialogState]
    /\ role \in [Dialogs -> {"none", "uac", "uas"}]
    /\ sent \in [Dialogs -> Calls \cup {None}]
    /\ ends \in [Dialogs -> Nat]
    /\ call \in [Dialogs -> Calls \cup {None}]
    /\ active \in Calls \cup {None}
    /\ gather \in [Calls -> {"none", "gathering", "candidate", "finished"}]

ThreadsOK ==
    /\ atW \in {"idle", "create", "accept", "offer", "answer", "finishOffer",
               "finishAnswer", "inCall", "acceptInCall", "collected"}
    /\ localSdp \in Calls \cup {None}
    /\ atA \in {"idle", "tested", "endClient", "endServer", "reset", "reject",
               "resetRejected"}
    /\ atR \in {"idle", "offer", "answer", "reset", "rejected"}

\* The types of the members of SipControllerCore, of the threads and of the dialogs around them.
TypeOK == FlagsOK /\ DataOK /\ DialogsOK /\ ThreadsOK

\* A hang-up that meets the end of its call may dereference a session that is gone;
\* the process so goes down only when the call it was about is over, never with a
\* call that is up (terminateSession, onTerminated, sendSdpAnswer).
CrashTakesNoCall == crashed => \A d \in Dialogs : ~Established(d)

\* A 200 with an SDP answer goes out only on a dialog that the user accepted:
\* nothing left over from an earlier call (m_inInBoundAccepted, the collected
\* candidates) answers the next one by itself.
AnsweredOnlyIfAccepted ==
    \A d \in Dialogs : role[d] = "uas" /\ sent[d] # None => call[d] # None

\* A call sends one INVITE: createSession and onIceGatheringFinished never both
\* send it.
OneInvitePerCall ==
    \A d, e \in Dialogs : role[d] = "uac" /\ role[e] = "uac" /\ call[d] = call[e] => d = e

\* Between calls nothing of the last call is left in the flags or the sessions.
CleanWhenQuiet ==
    Quiet /\ ~crashed =>
        /\ ~m_inCall /\ ~m_isCaller /\ ~m_localSdpSet /\ ~m_localCandidatesCollected
        /\ m_localSdp = None /\ m_localCandidates = {}
        /\ m_clientInviteSession = None /\ m_serverInviteSession = None

\* When onTerminated returns with "already destroyed" the sessions are destroyed:
\* no call that is over leaves one behind.
DestroyedMeansReset ==
    Quiet /\ ~crashed => m_clientInviteSession = None /\ m_serverInviteSession = None

\* endCall reaches the call: whenever a dialog is established, terminateSession
\* would not turn it down as "already destroyed" and would end this very dialog.
HangupReaches ==
    \A d \in Dialogs : Established(d) => mProgress # "Done" /\ SessionToEnd = d

\* The INVITE of a call carries the local SDP of that call ("SDP Offer local sdp"
\* in the log of sendSdpOffer).
OfferCarriesLocalSdp == \A d \in Dialogs : role[d] = "uac" => sent[d] = call[d]

\* When terminateSession would return with "already destroyed due to progress ==
\* done", there is no call left to end.
DoneMeansDestroyed == mProgress = "Done" => \A d \in Dialogs : ~Live(d) \/ state[d] = "failed"

\* end() is called at most once on a session.
EndedOnce == \A d \in Dialogs : ends[d] <= 1

\* A call that was placed gets its INVITE sent, or is hung up or over.
CallGoesOut ==
    \A c \in Calls :
        (active = c /\ m_isCaller) ~>
            (active # c \/ \E d \in Dialogs : role[d] = "uac" /\ call[d] = c)

\* A call that was accepted is answered, or is hung up or over.
AcceptGoesOut ==
    \A d \in Dialogs :
        (state[d] = "offered" /\ call[d] # None) ~> (state[d] # "offered")

----------------------------------------------------------------------------
(***************************************************************************)
(* The controller as a telephone line.  The mapping reads the line from    *)
(* what the user and the peers know of it: which call is in progress and   *)
(* what was sent for it.                                                   *)
(***************************************************************************)
Accepted(d) == role[d] = "uas" /\ call[d] = active
Ringing(d) == state[d] = "offered" /\ call[d] = None

LineView ==
    IF active = None THEN IF \E d \in Dialogs : Ringing(d) THEN "ringing" ELSE "idle"
    ELSE IF \E d \in Dialogs : Accepted(d)
         THEN IF \E d \in Dialogs : Accepted(d) /\ sent[d] # None
              THEN "incoming" ELSE "accepted"
         ELSE IF \E d \in Dialogs : call[d] = active THEN "outgoing" ELSE "placing"

Line == INSTANCE PhoneLine WITH
            line <- LineView,
            invites <- {d \in Dialogs : role[d] = "uac"},
            answers <- {d \in Dialogs : role[d] = "uas" /\ sent[d] # None}

\* One call at a time, the controller is a telephone line to the user and to the
\* peers, although the flags that decide what is sent are set and reset by three
\* threads in several steps: for every call that is placed one INVITE goes out, and
\* only while the call is wanted; a call is answered once, and only when it rings
\* and is accepted; what was placed or accepted does go out (createSession,
\* acceptSession, onIceGatheringFinished, onOffer, terminateSession, onTerminated).
LineKept == Line!FairLineSpec

=============================================================================
