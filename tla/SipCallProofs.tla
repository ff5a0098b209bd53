--------------------------- MODULE SipCallProofs ---------------------------
(***************************************************************************)
(* Theorems about SipCall, for any sets of calls and of dialogs.           *)
(***************************************************************************)
EXTENDS SipCall, TLAPS

----------------------------------------------------------------------------
(* Types *)

LEMMA OfferTypes ==
    ASSUME NEW sdp \in Calls \cup {None}, TypeOK, SendSdpOffer(sdp)
    PROVE  /\ offerSdp' \in Calls \cup {None}
           /\ m_localCandidates' = {}
           /\ state' \in [Dialogs -> DialogState]
           /\ role' \in [Dialogs -> {"none", "uac", "uas"}]
           /\ sent' \in [Dialogs -> Calls \cup {None}]
           /\ call' \in [Dialogs -> Calls \cup {None}]
<1>1. offerSdp' \in Calls \cup {None} /\ m_localCandidates' = {}
  BY DEF SendSdpOffer, TypeOK, DataOK
<1> QED
  BY <1>1 DEF SendSdpOffer, TypeOK, DialogsOK, DialogState

LEMMA AnswerTypes ==
    ASSUME NEW sdp \in Calls \cup {None}, TypeOK, SendSdpAnswer(sdp)
    PROVE  /\ answerSdp' \in Calls \cup {None}
           /\ m_localCandidates' = {}
           /\ crashed' \in BOOLEAN
           /\ state' \in [Dialogs -> DialogState]
           /\ sent' \in [Dialogs -> Calls \cup {None}]
<1> USE DEF SendSdpAnswer, TypeOK
<1>1. answerSdp' \in Calls \cup {None}
  BY DEF DataOK
<1>2. crashed' \in BOOLEAN
  OBVIOUS
<1>3. state' \in [Dialogs -> DialogState]
  BY DEF DialogsOK, DialogState
<1>4. sent' \in [Dialogs -> Calls \cup {None}]
  BY <1>1 DEF DialogsOK
<1> QED
  BY <1>1, <1>2, <1>3, <1>4

\* the call data and the sessions that a reset leaves have their types
CallDataOK ==
    /\ m_inCall \in BOOLEAN /\ m_isCaller \in BOOLEAN /\ m_inInBoundAccepted \in BOOLEAN
    /\ m_localSdpSet \in BOOLEAN /\ m_localCandidatesCollected \in BOOLEAN
    /\ m_localSdp \in Calls \cup {None} /\ m_localCandidates \subseteq Calls
    /\ m_clientInviteSession \in Dialogs \cup {None}
    /\ m_serverInviteSession \in Dialogs \cup {None}

LEMMA EndTerminatedTypes ==
    ASSUME TypeOK, NEW rest, EndTerminated(rest) PROVE CallDataOK'
<1>1. CallDataOK
  BY DEF TypeOK, FlagsOK, DataOK, CallDataOK
<1> QED
  BY <1>1 DEF CallDataOK, EndTerminated, ResetCallData, DropSessions, callData, sessions

LEMMA EndSessionTypes ==
    ASSUME TypeOK, NEW s \in Dialogs \cup {None}, EndSession(s)
    PROVE  /\ CallDataOK' /\ crashed' \in BOOLEAN
           /\ mProgress' \in {"Dialing", "Ringing", "Connected", "Done"}
           /\ state' \in [Dialogs -> DialogState] /\ active' \in Calls \cup {None}
<1>1. CallDataOK
  BY DEF TypeOK, FlagsOK, DataOK, CallDataOK
<1>2. CallDataOK'
  <2>1. CASE UNCHANGED <<callData, m_inCall, sessions>>
    BY <1>1, <2>1 DEF CallDataOK, callData, sessions
  <2>2. CASE ~UNCHANGED <<callData, m_inCall, sessions>>
    BY <2>2, EndTerminatedTypes DEF EndSession
  <2> QED
    BY <2>1, <2>2
<1>3. crashed' \in BOOLEAN
  BY DEF EndSession, NullMessage, TypeOK, FlagsOK
<1>4. /\ mProgress' \in {"Dialing", "Ringing", "Connected", "Done"}
      /\ active' \in Calls \cup {None}
  BY DEF EndSession, TypeOK, DataOK, DialogsOK
<1>5. state' \in [Dialogs -> DialogState]
  BY DEF EndSession, TypeOK, DialogsOK, DialogState
<1> QED
  BY <1>2, <1>3, <1>4, <1>5

LEMMA CountEndTypes ==
    ASSUME TypeOK, NEW s, CountEnd(s) PROVE ends' \in [Dialogs -> Nat]
<1>1. ends \in [Dialogs -> Nat]
  BY DEF TypeOK, DialogsOK
<1>2. CASE s \in Dialogs /\ Live(s)
  BY <1>1, <1>2 DEF CountEnd
<1>3. CASE ~(s \in Dialogs /\ Live(s))
  BY <1>1, <1>3 DEF CountEnd
<1> QED
  BY <1>2, <1>3

LEMMA ApplicationTypes == ASSUME TypeOK, Application PROVE TypeOK'
<1> USE DEF TypeOK
<1>1. CASE EndCall \/ RejectSession
  <2>1. PICK s \in Dialogs \cup {None} : EndSession(s)
    BY <1>1 DEF EndCall, RejectSession, DataOK
  <2>2. ends' \in [Dialogs -> Nat]
    <3>1. CASE EndCall
      BY <3>1, CountEndTypes DEF EndCall
    <3>2. CASE RejectSession
      BY <3>2 DEF RejectSession, DialogsOK
    <3> QED
      BY <1>1, <3>1, <3>2
  <2>3. /\ UNCHANGED <<isUACRejected, offerSdp, answerSdp, atW, localSdp, atR, role, sent,
                       call, gather>>
        /\ atA' \in {"reset", "resetRejected"}
    BY <1>1 DEF EndCall, RejectSession, statics
  <2>4. /\ CallDataOK' /\ crashed' \in BOOLEAN
        /\ mProgress' \in {"Dialing", "Ringing", "Connected", "Done"}
        /\ state' \in [Dialogs -> DialogState] /\ active' \in Calls \cup {None}
    BY <2>1, EndSessionTypes
  <2>5. FlagsOK' /\ DataOK'
    BY <2>3, <2>4 DEF FlagsOK, DataOK, CallDataOK
  <2>6. DialogsOK'
    BY <2>2, <2>3, <2>4 DEF DialogsOK
  <2>7. ThreadsOK'
    BY <2>3 DEF ThreadsOK
  <2> QED
    BY <2>5, <2>6, <2>7
<1> USE DEF progress, callData, sessions, statics, threads, dum, env
<1>2. CASE TerminateSession \/ ClearInCall \/ Reject
  <2> USE <1>2 DEF TerminateSession, ClearInCall, Reject
  <2>1. FlagsOK'
    BY DEF FlagsOK
  <2>2. DataOK'
    BY DEF DataOK
  <2>3. DialogsOK'
    BY DEF DialogsOK
  <2>4. ThreadsOK'
    BY DEF ThreadsOK
  <2> QED
    BY <2>1, <2>2, <2>3, <2>4
<1>3. CASE ResetSession \/ ResetRejected \/ UnregisterUser
  <2> USE <1>3 DEF ResetSession, ResetRejected, UnregisterUser,
                   ResetCallData, DropSessions
  <2>1. FlagsOK'
    BY DEF FlagsOK
  <2>2. DataOK'
    BY DEF DataOK
  <2>3. DialogsOK'
    BY DEF DialogsOK
  <2>4. ThreadsOK'
    BY DEF ThreadsOK
  <2> QED
    BY <2>1, <2>2, <2>3, <2>4
<1> QED
  BY <1>1, <1>2, <1>3 DEF Application

LEMMA WebRTCTypes == ASSUME TypeOK, WebRTC PROVE TypeOK'
<1> USE DEF TypeOK, progress, callData, sessions, statics, threads, dum, env
<1>1. ASSUME NEW c \in Calls, CreateSession(c) PROVE TypeOK'
  BY <1>1 DEF CreateSession, FlagsOK, DataOK, DialogsOK, ThreadsOK
<1>2. ASSUME NEW c \in Calls, NEW d \in Dialogs, AcceptSession(c, d) PROVE TypeOK'
  BY <1>2 DEF AcceptSession, FlagsOK, DataOK, DialogsOK, ThreadsOK
<1>3. ASSUME NEW c \in Calls, OnIceCandidate(c) PROVE TypeOK'
  BY <1>3 DEF OnIceCandidate, FlagsOK, DataOK, DialogsOK, ThreadsOK
<1>4. ASSUME NEW c \in Calls, OnIceGatheringFinished(c) PROVE TypeOK'
  BY <1>4 DEF OnIceGatheringFinished, FlagsOK, DataOK, DialogsOK, ThreadsOK
<1>5. CASE SetLocalSdp \/ SetInCall \/ SetCollected
  <2> USE <1>5 DEF SetLocalSdp, SetInCall, SetCollected
  <2>1. FlagsOK'
    BY DEF FlagsOK
  <2>2. DataOK'
    BY DEF DataOK, ThreadsOK
  <2>3. DialogsOK'
    BY DEF DialogsOK
  <2>4. ThreadsOK'
    BY DEF ThreadsOK
  <2> QED
    BY <2>1, <2>2, <2>3, <2>4
<1>6. m_localSdp \in Calls \cup {None}
  BY DEF DataOK
<1>7. CASE SendOffer
  <2>1. FlagsOK' /\ DataOK'
    BY <1>6, <1>7, OfferTypes DEF SendOffer, FlagsOK, DataOK
  <2>2. DialogsOK'
    BY <1>6, <1>7, OfferTypes DEF SendOffer, DialogsOK
  <2>3. ThreadsOK'
    BY <1>7 DEF SendOffer, ThreadsOK
  <2> QED
    BY <2>1, <2>2, <2>3
<1>8. CASE SendAnswer
  <2>1. FlagsOK' /\ DataOK'
    BY <1>6, <1>8, AnswerTypes DEF SendAnswer, FlagsOK, DataOK
  <2>2. DialogsOK'
    BY <1>6, <1>8, AnswerTypes DEF SendAnswer, DialogsOK
  <2>3. ThreadsOK'
    BY <1>8 DEF SendAnswer, ThreadsOK
  <2> QED
    BY <2>1, <2>2, <2>3
<1> QED
  BY <1>1, <1>2, <1>3, <1>4, <1>5, <1>7, <1>8 DEF WebRTC

LEMMA ReceiverTypes == ASSUME TypeOK, Receiver PROVE TypeOK'
<1> USE DEF TypeOK, progress, callData, sessions, statics, threads, dum, env
<1>1. CASE EndOffer \/ EndAnswer
  <2> USE <1>1 DEF EndOffer, EndAnswer
  <2>1. FlagsOK'
    BY DEF FlagsOK
  <2>2. DataOK'
    BY DEF DataOK
  <2>3. DialogsOK'
    BY DEF DialogsOK
  <2>4. ThreadsOK'
    BY DEF ThreadsOK
  <2> QED
    BY <2>1, <2>2, <2>3, <2>4
<1>2. CASE FinishTerminated
  <2>1. CallDataOK'
    BY <1>2, EndTerminatedTypes DEF FinishTerminated
  <2> QED
    BY <1>2, <2>1 DEF FinishTerminated, CallDataOK, FlagsOK, DataOK, DialogsOK, ThreadsOK
<1>3. ASSUME NEW d \in Dialogs, Callback(d) PROVE TypeOK'
  <2>1. ASSUME NEW from, NEW to \in DialogState, Move(d, from, to)
        PROVE  state' \in [Dialogs -> DialogState]
    BY <2>1 DEF Move, DialogsOK
  <2>2. state' \in [Dialogs -> DialogState]
    BY <1>3, <2>1 DEF Callback, OnNewSessionServer, OnOffer, OnNewSessionClient, OnProvisional,
         OnAnswer, OnConnected, OnFailure, OnForkDestroyed, OnTerminated, DialogState,
         DialogsOK
  <2>3. CASE OnNewSessionServer(d)
    <3> USE <2>3, <2>2 DEF OnNewSessionServer
    <3>1. FlagsOK'
      BY DEF FlagsOK
    <3>2. DataOK'
      BY DEF DataOK
    <3>3. DialogsOK'
      BY DEF DialogsOK
    <3>4. ThreadsOK'
      BY DEF ThreadsOK
    <3> QED
      BY <3>1, <3>2, <3>3, <3>4
  <2>4. CASE OnNewSessionClient(d)
    <3> USE <2>4, <2>2 DEF OnNewSessionClient
    <3>1. FlagsOK'
      BY DEF FlagsOK
    <3>2. DataOK'
      BY DEF DataOK
    <3>3. DialogsOK'
      BY DEF DialogsOK
    <3>4. ThreadsOK'
      BY DEF ThreadsOK
    <3> QED
      BY <3>1, <3>2, <3>3, <3>4
  <2> USE DEF FlagsOK, DataOK, DialogsOK, ThreadsOK
  <2>5. CASE OnOffer(d) \/ OnAnswer(d)
    BY <2>2, <2>5 DEF OnOffer, OnAnswer, UpcallsAt
  <2>6. CASE OnProvisional(d) \/ OnConnected(d) \/ OnFailure(d) \/ OnForkDestroyed(d)
    BY <2>2, <2>6 DEF OnProvisional, OnConnected, OnFailure, OnForkDestroyed, ProgressIs
  <2>7. ASSUME NEW msg \in BOOLEAN, OnTerminated(d, msg) PROVE TypeOK'
    BY <2>2, <2>7 DEF OnTerminated, TerminatedRest, NullMessage
  <2> QED
    BY <1>3, <2>3, <2>4, <2>5, <2>6, <2>7 DEF Callback
<1> QED
  BY <1>1, <1>2, <1>3 DEF Receiver

\* Every operation and callback of SipControllerCore keeps the types, whatever
\* the environment does.
LEMMA TypeOKInductive == TypeOK /\ [Next]_vars => TypeOK'
<1>1. TypeOK /\ UNCHANGED vars => TypeOK'
  BY DEF TypeOK, FlagsOK, DataOK, DialogsOK, ThreadsOK, vars, progress, callData, sessions,
         statics, threads, dum, env
<1> QED
  BY <1>1, ApplicationTypes, WebRTCTypes, ReceiverTypes DEF Next

\* SipControllerCore's members, its threads and the dialogs keep their types.
THEOREM TypeCorrect == Spec => []TypeOK
<1>1. Init => TypeOK
  <2> SUFFICES ASSUME Init PROVE TypeOK
    OBVIOUS
  <2>1. FlagsOK /\ ThreadsOK
    BY DEF Init, FlagsOK, ThreadsOK
  <2>2. DataOK
    BY DEF Init, DataOK
  <2>3. DialogsOK
    BY DEF Init, DialogsOK, DialogState
  <2> QED
    BY <2>1, <2>2, <2>3 DEF TypeOK
<1> QED
  BY <1>1, TypeOKInductive, PTL DEF Spec

----------------------------------------------------------------------------
(* What holds whatever the environment does *)

\* A session that was ended never comes back, and once terminateSession is through
\* it is held by neither pointer.
EndInv == \A d \in Dialogs :
    \/ ends[d] = 0
    \/ /\ ends[d] = 1 /\ state[d] \in {"cancelling", "terminated"}
       /\ atA = "reset" \/ (m_clientInviteSession # d /\ m_serverInviteSession # d)

\* A step that brings no ended session back and no pointer to one
LEMMA EndKept ==
    ASSUME TypeOK, EndInv, UNCHANGED ends,
           atA # "reset" \/ atA' = "reset",
           m_clientInviteSession' \in {m_clientInviteSession, None},
           m_serverInviteSession' \in {m_serverInviteSession, None},
           \A d \in Dialogs : state[d] \in {"cancelling", "terminated"} =>
                                  state'[d] \in {"cancelling", "terminated"}
    PROVE  EndInv'
BY NoneAssumption DEF EndInv, TypeOK, DialogsOK

LEMMA EndSessionKeeps ==
    ASSUME TypeOK, NEW s \in Dialogs \cup {None}, EndSession(s)
    PROVE  /\ m_clientInviteSession' \in {m_clientInviteSession, None}
           /\ m_serverInviteSession' \in {m_serverInviteSession, None}
           /\ \A d \in Dialogs : state[d] \in {"cancelling", "terminated"} =>
                                    state'[d] \in {"cancelling", "terminated"}
           /\ s \in Dialogs /\ Live(s) => state'[s] \in {"cancelling", "terminated"}
<1>1. /\ m_clientInviteSession' \in {m_clientInviteSession, None}
      /\ m_serverInviteSession' \in {m_serverInviteSession, None}
  BY DEF EndSession, EndTerminated, DropSessions, sessions
<1>2. /\ \A d \in Dialogs : state[d] \in {"cancelling", "terminated"} =>
                                    state'[d] \in {"cancelling", "terminated"}
      /\ s \in Dialogs /\ Live(s) => state'[s] \in {"cancelling", "terminated"}
  BY DEF EndSession, TypeOK, DialogsOK
<1> QED
  BY <1>1, <1>2

LEMMA EndInvInductive == TypeOK /\ EndInv /\ [Next]_vars => EndInv'
<1> SUFFICES ASSUME TypeOK, EndInv, [Next]_vars PROVE EndInv'
  OBVIOUS
<1> USE DEF sessions, dum
<1>1. CASE EndCall
  <2>1. PICK s \in Dialogs \cup {None} :
           /\ s \in {m_clientInviteSession, m_serverInviteSession}
           /\ EndSession(s) /\ CountEnd(s) /\ atA # "reset"
    BY <1>1 DEF EndCall, TypeOK, DataOK
  <2>2. atA' = "reset"
    BY <1>1 DEF EndCall
  <2>3. ASSUME NEW d \in Dialogs
        PROVE  ends'[d] = 0 \/ (ends'[d] = 1 /\ state'[d] \in {"cancelling", "terminated"})
    <3>1. CASE d = s /\ Live(s)
      <4>1. ends[d] = 0
        BY <2>1, <3>1 DEF EndInv
      <4>2. ends'[d] = 1
        BY <2>1, <3>1, <4>1 DEF CountEnd, TypeOK, DialogsOK
      <4> QED
        BY <2>1, <3>1, <4>2, EndSessionKeeps
    <3>2. CASE ~(d = s /\ Live(s))
      <4>1. ends'[d] = ends[d]
        BY <2>1, <3>2 DEF CountEnd, TypeOK, DialogsOK
      <4> QED
        BY <2>1, <4>1, EndSessionKeeps DEF EndInv
    <3> QED
      BY <3>1, <3>2
  <2> QED
    BY <2>2, <2>3 DEF EndInv
<1>2. CASE RejectSession
  BY <1>2, EndSessionKeeps, EndKept DEF RejectSession, TypeOK, DataOK
<1>3. CASE ResetSession
  BY <1>3, NoneAssumption DEF ResetSession, DropSessions, EndInv
<1>4. CASE TerminateSession \/ ClearInCall \/ Reject \/ ResetRejected \/ UnregisterUser
  BY <1>4, EndKept DEF TerminateSession, ClearInCall, Reject, ResetRejected, UnregisterUser,
                       threads
<1>5. CASE WebRTC
  <2>1. CASE SendOffer
    BY <2>1, EndKept DEF SendOffer, SendSdpOffer, TypeOK, DialogsOK
  <2>2. CASE SendAnswer
    BY <2>2, EndKept DEF SendAnswer, SendSdpAnswer, TypeOK, DialogsOK
  <2>3. CASE ~SendOffer /\ ~SendAnswer
    BY <1>5, <2>3, EndKept DEF WebRTC, CreateSession, AcceptSession, OnIceCandidate,
         OnIceGatheringFinished, SetLocalSdp, SetInCall, SetCollected, threads
  <2> QED
    BY <2>1, <2>2, <2>3
<1>6. CASE EndOffer \/ EndAnswer
  BY <1>6, EndKept DEF EndOffer, EndAnswer
<1>7. CASE FinishTerminated
  BY <1>7, EndKept DEF FinishTerminated, EndTerminated, DropSessions
<1>8. ASSUME NEW d \in Dialogs, Callback(d) PROVE EndInv'
  <2>1. CASE OnNewSessionServer(d)
    BY <2>1 DEF OnNewSessionServer, Move, EndInv, TypeOK, DialogsOK, threads
  <2>2. CASE OnNewSessionClient(d)
    BY <2>2 DEF OnNewSessionClient, Move, EndInv, TypeOK, DialogsOK, threads
  <2>3. ASSUME NEW msg \in BOOLEAN, OnTerminated(d, msg) PROVE EndInv'
    BY <2>3, EndKept DEF OnTerminated, Move, TypeOK, DialogsOK
  <2>4. CASE \/ OnOffer(d) \/ OnProvisional(d) \/ OnAnswer(d)
             \/ OnConnected(d) \/ OnFailure(d) \/ OnForkDestroyed(d)
    BY <2>4, EndKept DEF OnOffer, OnProvisional, OnAnswer, OnConnected, OnFailure,
                OnForkDestroyed, ProgressIs, UpcallsAt, Move, TypeOK, DialogsOK, threads
  <2> QED
    BY <1>8, <2>1, <2>2, <2>3, <2>4 DEF Callback
<1>9. CASE UNCHANGED vars
  BY <1>9 DEF vars, threads, EndInv
<1> QED
  BY <1>1, <1>2, <1>3, <1>4, <1>5, <1>6, <1>7, <1>8, <1>9 DEF Next, Application, Receiver

\* Whatever application, WebRTC and peers do, terminateSession never calls end()
\* twice on one session.
THEOREM SessionEndedOnce == Spec => []EndedOnce
<1>1. Init => EndInv
  BY DEF Init, EndInv
<1>2. EndInv => EndedOnce
  BY DEF EndInv, EndedOnce
<1> QED
  BY <1>1, <1>2, EndInvInductive, TypeCorrect, PTL DEF Spec

----------------------------------------------------------------------------
(***************************************************************************)
(* The inductive invariant: what the flags are in each phase of the one    *)
(* call there is, and at each place of the three threads, under an         *)
(* environment that takes no liberty but re-INVITEs and forks.  A thread   *)
(* that clears up after a call (terminateSession past its test, or         *)
(* onTerminated past its upcalls) may find the flags in any state.         *)
(***************************************************************************)
NoData == /\ ~m_isCaller /\ ~m_localSdpSet /\ ~m_localCandidatesCollected
          /\ m_localSdp = None /\ m_localCandidates = {}

NoSessions == m_clientInviteSession = None /\ m_serverInviteSession = None

NoDialog == \A d \in Dialogs : ~Live(d)

OneLive == \A d, e \in Dialogs : Live(d) /\ Live(e) => d = e

\* no call, and no thread is clearing up after one
ClearInv == NoDialog /\ active = None /\ atA = "idle" /\ atR = "idle" =>
                ~m_inCall /\ NoData /\ NoSessions

\* WebRTC's thread before the message of the call in progress goes out: in the
\* operation that begins the call (entry), between operations, or about to send
UnsentInv(entry, send) ==
    \/ atW = entry /\ localSdp = active /\ ~m_localCandidatesCollected
                   /\ gather[active] \in {"gathering", "candidate"}
    \/ atW = "idle" /\ m_localSdpSet /\ m_localSdp = active
                    /\ gather[active] \in {"gathering", "candidate"}
    \/ atW = send /\ m_localSdp = active /\ gather[active] = "finished"

PlacingInv == NoDialog /\ active # None =>
    /\ m_isCaller /\ NoSessions
    /\ UnsentInv("create", "finishOffer")

\* where the threads can be at the same time
ThreadInv ==
    /\ active = None => atW = "idle"
    /\ atA # "idle" => /\ active = None /\ atR \in {"idle", "reset"}
                       /\ atA \in {"tested", "endClient", "endServer", "reset"}
                       /\ atA # "tested" => ~m_inCall
    /\ atR \in {"offer", "answer"} => ~NoDialog
    /\ atR = "reset" => NoDialog /\ active = None
    /\ atR # "rejected"

\* the message of the call in progress is out; m_inCall may lag behind
SentInv == /\ active # None /\ gather[active] = "finished"
           /\ atW \in {"idle", "inCall", "collected"}
           /\ m_inCall \/ atW = "inCall"

\* a call that was placed, while it is not being ended
OutgoingInv(d) == state[d] # "cancelling" /\ role[d] = "uac" =>
    /\ state[d] \in {"calling", "responded", "early", "answered", "connected", "failed"}
    /\ m_serverInviteSession = None
    /\ state[d] = "calling" => atA = "idle" /\ m_clientInviteSession = None
    /\ state[d] = "failed" =>
          m_clientInviteSession = d \/ (m_clientInviteSession = None /\ atA = "idle")
    /\ state[d] \notin {"calling", "failed"} =>
          m_clientInviteSession = d /\ (~May("fork") => mProgress # "Done")
    /\ state[d] # "calling" => ~isUACRejected
    /\ atA = "idle" => call[d] = active /\ SentInv
    /\ atA # "endServer"

\* a call that was received, while it is not being ended
IncomingInv(d) == state[d] # "cancelling" /\ role[d] = "uas" =>
    /\ state[d] \in {"invited", "offered", "connected"}
    /\ m_serverInviteSession = d /\ m_clientInviteSession = None
    /\ mProgress # "Done" /\ ~isUACRejected
    /\ atA = "idle" => call[d] = active
    /\ atA = "idle" /\ state[d] = "invited" => active = None
    /\ atA = "idle" /\ state[d] # "connected" /\ active = None => NoData
    /\ atA = "idle" /\ state[d] = "offered" => m_inCall \/ atR = "offer"
    /\ atA = "idle" /\ state[d] = "offered" /\ active # None =>
          /\ ~m_isCaller /\ m_inInBoundAccepted
          /\ UnsentInv("accept", "finishAnswer")
    /\ atA = "idle" /\ state[d] = "connected" => SentInv
    /\ atA # "endClient"

\* end() is past, onTerminated is to come
CancellingInv(d) == state[d] = "cancelling" =>
    /\ active = None /\ ~m_inCall /\ ~isUACRejected
    /\ atA \in {"idle", "reset"} /\ (atA = "idle" => NoData /\ NoSessions)
    /\ atR \notin {"offer", "answer"}

\* terminateSession does not come to its resets with a call it has not ended
EndingInv(d) == atA = "reset" => state[d] = "cancelling"

DialogInv(d) ==
    Live(d) => OutgoingInv(d) /\ IncomingInv(d) /\ CancellingInv(d) /\ EndingInv(d)

\* what dialogs keep for good
HistoryInv(d) ==
    /\ state[d] = "unused" <=> role[d] = "none"
    /\ role[d] = "none" => call[d] = None
    /\ call[d] # None => gather[call[d]] # "none"
    /\ call[d] # None /\ call[d] = active => Live(d)
    /\ role[d] = "uac" => call[d] # None

\* what holds while the process runs
InCallInv == /\ OneLive /\ ClearInv /\ PlacingInv /\ ThreadInv
             /\ \A d \in Dialogs : DialogInv(d)

CallInv == /\ OneInvitePerCall /\ CrashTakesNoCall
           /\ \A d \in Dialogs : HistoryInv(d)
           /\ ~crashed => InCallInv

Disciplined == Liberties \subseteq {"reinvite", "fork"}

\* What a disciplined environment does not do
LEMMA NotDone ==
    ASSUME Disciplined
    PROVE  /\ ~May("hasty") /\ ~May("earlyHangup") /\ ~May("lateAnswer") /\ ~May("lateIce")
           /\ ~May("callWaiting") /\ ~May("logoutInCall") /\ ~May("reject")
           /\ ~May("staleReject") /\ ~May("foreignAgent") /\ ~May("bodiless")
           /\ ~May("noMessage")
BY DEF Disciplined, May

----------------------------------------------------------------------------
(* Steps by what they do to the dialogs *)

\* Dialogs stay where they are, and the call in progress stays or is given up.
LEMMA FixedStep ==
    ASSUME TypeOK, CallInv, ~crashed, ~crashed', UNCHANGED <<state, role, call>>,
           \A c \in Calls : gather[c] # "none" => gather'[c] # "none",
           active' \in {active, None},
           ClearInv', PlacingInv', ThreadInv', \A d \in Dialogs : Live(d) => DialogInv(d)'
    PROVE  CallInv'
<1>1. OneInvitePerCall' /\ CrashTakesNoCall'
  BY DEF CallInv, OneInvitePerCall, CrashTakesNoCall
<1>2. \A d \in Dialogs : HistoryInv(d)'
  BY DEF CallInv, HistoryInv, Live, TypeOK, DialogsOK
<1>3. OneLive' /\ \A d \in Dialogs : DialogInv(d)'
  BY DEF CallInv, InCallInv, OneLive, Live, DialogInv
<1> QED
  BY <1>1, <1>2, <1>3 DEF CallInv, InCallInv

\* One dialog moves and lives on.
LEMMA LiveStep ==
    ASSUME TypeOK, CallInv, ~crashed, ~crashed', NEW d \in Dialogs, Live(d), Live(d)',
           \A e \in Dialogs \ {d} : state'[e] = state[e],
           UNCHANGED <<role, call, gather>>,
           active' \in {active, None},
           ThreadInv', DialogInv(d)'
    PROVE  CallInv'
<1>1. OneInvitePerCall' /\ CrashTakesNoCall'
  BY DEF CallInv, OneInvitePerCall, CrashTakesNoCall
<1>2. \A e \in Dialogs \ {d} : ~Live(e) /\ ~Live(e)'
  BY DEF CallInv, InCallInv, OneLive, Live
<1>3. \A e \in Dialogs : HistoryInv(e)'
  BY <1>2 DEF CallInv, HistoryInv, Live
<1>4. OneLive' /\ \A e \in Dialogs : DialogInv(e)'
  BY <1>2 DEF OneLive, DialogInv
<1>5. ClearInv' /\ PlacingInv'
  BY DEF ClearInv, PlacingInv, NoDialog
<1> QED
  BY <1>1, <1>3, <1>4, <1>5 DEF CallInv, InCallInv

\* The dialog that lives is over, and the call with it.
LEMMA OverStep ==
    ASSUME TypeOK, CallInv, ~crashed, ~crashed', NEW d \in Dialogs, Live(d),
           state' = [state EXCEPT ![d] = "terminated"],
           UNCHANGED <<role, call, gather>>,
           active' = None,
           ThreadInv', ClearInv'
    PROVE  CallInv'
<1>1. OneInvitePerCall' /\ CrashTakesNoCall'
  BY DEF CallInv, OneInvitePerCall, CrashTakesNoCall
<1>2. NoDialog'
  BY DEF CallInv, InCallInv, OneLive, NoDialog, Live, TypeOK, DialogsOK
<1>3. \A e \in Dialogs : HistoryInv(e)'
  BY DEF CallInv, HistoryInv, Live, TypeOK, DialogsOK
<1>4. OneLive' /\ PlacingInv' /\ \A e \in Dialogs : DialogInv(e)'
  BY <1>2 DEF OneLive, NoDialog, PlacingInv, DialogInv
<1> QED
  BY <1>1, <1>3, <1>4 DEF CallInv, InCallInv

----------------------------------------------------------------------------
(* The application's thread *)

LEMMA HangupStep ==
    ASSUME Disciplined, TypeOK, CallInv, TerminateSession PROVE CallInv'
<1> USE NotDone DEF TerminateSession
<1>1. /\ InCallInv /\ ~crashed /\ ~crashed' /\ UNCHANGED <<state, role, call, gather>>
      /\ atW = "idle" /\ atR \notin {"offer", "answer"}
  BY DEF CallInv, dum, Settling
<1>2. ASSUME NEW d \in Dialogs, Live(d) PROVE state[d] \notin {"calling", "failed", "cancelling"}
  BY <1>1, <1>2 DEF InCallInv, OneLive, Quiet, Established
<1>3. ThreadInv'
  <2>1. NoDialog' <=> NoDialog
    BY <1>1 DEF NoDialog, Live
  <2> QED
    BY <1>1, <2>1 DEF InCallInv, ThreadInv, TypeOK, ThreadsOK
<1>4. ClearInv' /\ PlacingInv'
  BY DEF ClearInv, PlacingInv
<1>5. ASSUME NEW d \in Dialogs, Live(d) PROVE DialogInv(d)'
  BY <1>1, <1>2, <1>5 DEF InCallInv, DialogInv, OutgoingInv, IncomingInv, CancellingInv,
       EndingInv, Live, progress, sessions
<1> QED
  BY <1>1, <1>3, <1>4, <1>5, FixedStep

LEMMA ClearStep ==
    ASSUME TypeOK, CallInv, ClearInCall PROVE CallInv'
<1> USE DEF ClearInCall
<1>1. /\ InCallInv /\ ~crashed /\ ~crashed'
      /\ UNCHANGED <<state, role, call, gather, active, atW, atR>>
  BY DEF CallInv, dum, env
<1>2. ThreadInv'
  BY <1>1 DEF InCallInv, ThreadInv, NoDialog, Live
<1>3. ClearInv' /\ PlacingInv'
  BY <1>1 DEF ClearInv, PlacingInv, InCallInv, ThreadInv
<1>4. ASSUME NEW d \in Dialogs, Live(d) PROVE DialogInv(d)'
  <2>1. state[d] # "cancelling" /\ state[d] # "calling" /\ role[d] \in {"uac", "uas"}
    BY <1>1, <1>4 DEF InCallInv, CallInv, HistoryInv, DialogInv, CancellingInv, OutgoingInv,
         IncomingInv, TypeOK, DialogsOK, Live
  <2> QED
    BY <1>1, <1>4, <2>1, NoneAssumption DEF InCallInv, DialogInv, OutgoingInv, IncomingInv,
         CancellingInv, EndingInv, Live, progress, sessions, SessionToEnd
<1> QED
  BY <1>1, <1>2, <1>3, <1>4, FixedStep

\* The session that was tested is the live one, or no call is up: end() ends the
\* call, or meets a session that is gone.
LEMMA EndStep ==
    ASSUME Disciplined, TypeOK, CallInv, EndCall PROVE CallInv'
<1> USE NotDone
<1>1. /\ InCallInv /\ ~crashed /\ active = None /\ ~m_inCall /\ atR \in {"idle", "reset"}
      /\ atA \in {"endClient", "endServer"} /\ atA' = "reset" /\ atW = "idle"
      /\ UNCHANGED <<role, call, gather, isUACRejected, atW, atR>>
  BY DEF EndCall, CallInv, InCallInv, ThreadInv
<1>2. PICK s \in Dialogs \cup {None} :
        /\ EndSession(s)
        /\ atA = "endClient" => s = m_clientInviteSession
        /\ atA = "endServer" => s = m_serverInviteSession
  BY DEF EndCall, TypeOK, DataOK
<1>3. ASSUME NEW d \in Dialogs, Live(d) PROVE s = d /\ ~isUACRejected
  <2>1. state[d] # "cancelling" /\ state[d] # "calling" /\ role[d] \in {"uac", "uas"}
    BY <1>1, <1>3 DEF InCallInv, CallInv, HistoryInv, DialogInv, CancellingInv, OutgoingInv,
         IncomingInv, TypeOK, DialogsOK, Live
  <2> QED
    BY <1>1, <1>2, <1>3, <2>1 DEF InCallInv, DialogInv, OutgoingInv, IncomingInv
<1>4. CASE s \in Dialogs /\ Live(s)
  <2>1. ~isUACRejected /\ state \in [Dialogs -> DialogState] /\ active' = None
    BY <1>1, <1>2, <1>3, <1>4 DEF TypeOK, DialogsOK, EndSession
  <2>2. UNCHANGED <<m_inCall, callData, sessions>> /\ ~crashed'
    <3>1. TerminatedRest(TRUE) = "idle" /\ ~NullMessage(TRUE)
      BY <1>1, <2>1 DEF TerminatedRest, NullMessage
    <3>2. CASE UNCHANGED <<callData, m_inCall, sessions, crashed>>
      BY <1>1, <3>2
    <3>3. CASE crashed' = NullMessage(TRUE) /\ EndTerminated(TerminatedRest(TRUE))
      BY <3>1, <3>3 DEF EndTerminated
    <3> QED
      BY <1>2, <1>4, <3>2, <3>3 DEF EndSession
  <2>3. CASE state' = [state EXCEPT ![s] = "cancelling"]
    <3>1. Live(s)' /\ state'[s] = "cancelling"
      BY <1>4, <2>1, <2>3 DEF Live
    <3>2. ThreadInv'
      BY <1>1, <1>4, <2>1, <2>2, <3>1 DEF InCallInv, ThreadInv, NoDialog
    <3>3. DialogInv(s)'
      BY <1>1, <2>1, <2>2, <3>1 DEF DialogInv, OutgoingInv, IncomingInv, CancellingInv, EndingInv
    <3> QED
      BY <1>1, <1>4, <2>1, <2>2, <2>3, <3>1, <3>2, <3>3, LiveStep
  <2>4. CASE state' = [state EXCEPT ![s] = "terminated"]
    <3>1. NoDialog'
      BY <1>4, <2>1, <2>4 , <1>1 DEF InCallInv, OneLive, NoDialog, Live
    <3>2. ThreadInv' /\ ClearInv'
      BY <1>1, <2>1, <2>2, <3>1 DEF InCallInv, ThreadInv, ClearInv
    <3> QED
      BY <1>1, <1>4, <2>1, <2>2, <2>4, <3>2, OverStep
  <2> QED
    BY <1>2, <1>4, <2>3, <2>4 DEF EndSession
<1>5. CASE ~(s \in Dialogs /\ Live(s))
  <2>1. NoDialog /\ UNCHANGED <<state, active, m_inCall>>
    BY <1>2, <1>3, <1>5 DEF NoDialog, EndSession
  <2>2. CASE crashed'
    <3>1. CrashTakesNoCall' /\ OneInvitePerCall'
      BY <1>1, <2>1 DEF CallInv, NoDialog, Live, Established, CrashTakesNoCall, OneInvitePerCall
    <3>2. \A d \in Dialogs : HistoryInv(d)'
      BY <1>1, <2>1 DEF CallInv, HistoryInv, Live
    <3> QED
      BY <2>2, <3>1, <3>2 DEF CallInv
  <2>3. CASE ~crashed'
    <3>1. NoDialog'
      BY <2>1 DEF NoDialog, Live
    <3>2. ThreadInv' /\ ClearInv' /\ PlacingInv'
      BY <1>1, <2>1, <3>1 DEF InCallInv, ThreadInv, ClearInv, PlacingInv
    <3> QED
      BY <1>1, <2>1, <2>3, <3>2, FixedStep DEF NoDialog
  <2> QED
    BY <2>2, <2>3
<1> QED
  BY <1>4, <1>5

LEMMA ResetStep ==
    ASSUME TypeOK, CallInv, ResetSession PROVE CallInv'
<1>1. /\ InCallInv /\ ~crashed /\ ~crashed' /\ atA = "reset" /\ atA' = "idle"
      /\ UNCHANGED <<state, role, call, gather, active, atW, atR, m_inCall, isUACRejected>>
      /\ ~m_inCall /\ active = None
  BY DEF ResetSession, CallInv, InCallInv, ThreadInv, dum, env, progress
<1>2. NoData' /\ NoSessions'
  BY DEF ResetSession, ResetCallData, DropSessions, NoData, NoSessions
<1>3. ThreadInv' /\ ClearInv' /\ PlacingInv'
  BY <1>1, <1>2 DEF InCallInv, ThreadInv, ClearInv, PlacingInv, NoDialog, Live
<1>4. ASSUME NEW d \in Dialogs, Live(d) PROVE DialogInv(d)'
  BY <1>1, <1>2, <1>4 DEF InCallInv, DialogInv, OutgoingInv, IncomingInv, CancellingInv,
       EndingInv
<1> QED
  BY <1>1, <1>3, <1>4, FixedStep

LEMMA LogoutStep ==
    ASSUME Disciplined, TypeOK, CallInv, UnregisterUser PROVE CallInv'
<1> USE NotDone DEF UnregisterUser
<1>1. /\ InCallInv /\ ~crashed /\ ~crashed' /\ Quiet /\ NoSessions /\ NoDialog
      /\ UNCHANGED <<state, role, call, gather, active, atA, atW, atR>>
  BY DEF CallInv, InCallInv, ClearInv, NoDialog, Quiet, ThreadsIdle, dum, env, threads
<1>2. NoData' /\ NoSessions' /\ ~m_inCall' /\ NoDialog'
  BY <1>1 DEF ResetCallData, NoData, NoSessions, sessions, NoDialog, Live
<1>3. ThreadInv' /\ ClearInv' /\ PlacingInv'
  BY <1>1, <1>2 DEF InCallInv, ThreadInv, ClearInv, PlacingInv, Quiet
<1> QED
  BY <1>1, <1>3, FixedStep DEF NoDialog

----------------------------------------------------------------------------
(* WebRTC's thread *)

LEMMA PlaceStep ==
    ASSUME Disciplined, TypeOK, CallInv, NEW c \in Calls, CreateSession(c) PROVE CallInv'
<1> USE NotDone DEF CreateSession
<1>1. /\ InCallInv /\ ~crashed /\ ~crashed' /\ Quiet /\ NoDialog /\ NoSessions /\ NoData
      /\ ThreadsIdle /\ UNCHANGED <<state, role, call, atA, atR>>
  BY DEF CallInv, InCallInv, ClearInv, NoDialog, Quiet, ThreadsIdle, dum
<1>2. active' = c /\ c # None /\ gather'[c] = "gathering"
  BY NoneAssumption DEF TypeOK, DialogsOK
<1>3. NoDialog' /\ OneLive' /\ \A d \in Dialogs : DialogInv(d)'
  BY <1>1 DEF NoDialog, OneLive, Live, DialogInv
<1>4. ThreadInv' /\ ClearInv' /\ PlacingInv'
  BY <1>1, <1>2, <1>3 DEF ThreadInv, ThreadsIdle, ClearInv, PlacingInv, UnsentInv, NoSessions,
       NoData, sessions
<1>5. OneInvitePerCall' /\ CrashTakesNoCall'
  BY <1>1 DEF CallInv, OneInvitePerCall, CrashTakesNoCall
<1>6. ASSUME NEW d \in Dialogs PROVE HistoryInv(d)'
  <2>1. HistoryInv(d) /\ call[d] \in Calls \cup {None}
    BY DEF CallInv, TypeOK, DialogsOK
  <2>2. call[d] # c
    BY <1>2, <2>1 DEF HistoryInv
  <2> QED
    BY <1>1, <1>2, <2>1, <2>2 DEF HistoryInv, Live, TypeOK, DialogsOK
<1> QED
  BY <1>1, <1>3, <1>4, <1>5, <1>6 DEF CallInv, InCallInv

LEMMA AcceptStep ==
    ASSUME Disciplined, TypeOK, CallInv, NEW c \in Calls, NEW d \in Dialogs,
           AcceptSession(c, d)
    PROVE  CallInv'
<1> USE NotDone DEF AcceptSession
<1>1. /\ InCallInv /\ ~crashed /\ ~crashed' /\ state[d] = "offered" /\ atA = "idle"
      /\ role[d] = "uas" /\ call[d] = None /\ Live(d)
      /\ UNCHANGED <<state, role, atA, atR, m_inCall, mProgress, isUACRejected>>
      /\ UNCHANGED <<m_clientInviteSession, m_serverInviteSession>>
  BY DEF CallInv, Live, dum, progress, sessions
<1>2. DialogInv(d) /\ IncomingInv(d) /\ active = None /\ NoData
  BY <1>1 DEF InCallInv, DialogInv, IncomingInv
<1>3. /\ active' = c /\ c # None /\ gather'[c] = "gathering"
      /\ call' = [call EXCEPT ![d] = c] /\ call'[d] = c
  BY NoneAssumption DEF TypeOK, DialogsOK
<1>4. Live(d)' /\ ~NoDialog /\ ~NoDialog' /\ OneLive'
  BY <1>1 DEF Live, NoDialog, InCallInv, OneLive
<1>5. \A e \in Dialogs \ {d} : ~Live(e) /\ ~Live(e)'
  BY <1>1 DEF InCallInv, OneLive, Live
<1>6. DialogInv(d)'
  BY <1>1, <1>2, <1>3 DEF DialogInv, IncomingInv, OutgoingInv, CancellingInv, EndingInv,
       UnsentInv, NoData
<1>7. \A e \in Dialogs : DialogInv(e)'
  BY <1>5, <1>6 DEF DialogInv
<1>8. ThreadInv' /\ ClearInv' /\ PlacingInv'
  BY <1>1, <1>3, <1>4 DEF InCallInv, ThreadInv, ClearInv, PlacingInv
<1>9. OneInvitePerCall' /\ CrashTakesNoCall'
  BY <1>1, <1>3 DEF CallInv, OneInvitePerCall, CrashTakesNoCall, TypeOK, DialogsOK
<1>10. ASSUME NEW e \in Dialogs PROVE HistoryInv(e)'
  <2>1. HistoryInv(e) /\ call[e] \in Calls \cup {None}
    BY DEF CallInv, TypeOK, DialogsOK
  <2>2. call[e] # c
    BY <1>3, <2>1 DEF HistoryInv
  <2> QED
    BY <1>1, <1>3, <1>4, <2>1, <2>2 DEF HistoryInv, Live, TypeOK, DialogsOK
<1> QED
  BY <1>1, <1>4, <1>7, <1>8, <1>9, <1>10 DEF CallInv, InCallInv

LEMMA SdpStep ==
    ASSUME TypeOK, CallInv, SetLocalSdp PROVE CallInv'
<1> USE DEF SetLocalSdp
<1>1. /\ InCallInv /\ ~crashed /\ ~crashed'
      /\ UNCHANGED <<state, role, call, gather, active, atA, atR, m_inCall, m_isCaller>>
      /\ UNCHANGED <<m_inInBoundAccepted, mProgress, isUACRejected>>
      /\ UNCHANGED <<m_clientInviteSession, m_serverInviteSession>>
      /\ active # None /\ atA = "idle"
  BY DEF CallInv, InCallInv, ThreadInv, dum, env, progress, sessions
<1>2. CASE NoDialog
  <2>1. NoDialog' /\ m_isCaller /\ NoSessions /\ UnsentInv("create", "finishOffer")
    BY <1>1, <1>2 DEF NoDialog, Live, InCallInv, PlacingInv
  <2>2. atW' = "idle" /\ m_localSdp' = active /\ m_localSdpSet'
        /\ gather[active] \in {"gathering", "candidate"}
    BY <2>1 DEF UnsentInv
  <2>3. ThreadInv' /\ ClearInv' /\ PlacingInv'
    BY <1>1, <1>2, <2>1, <2>2 DEF InCallInv, ThreadInv, ClearInv, PlacingInv, UnsentInv,
         NoSessions
  <2> QED
    BY <1>1, <1>2, <2>3, FixedStep DEF NoDialog
<1>3. ASSUME NEW d \in Dialogs, Live(d) PROVE CallInv'
  <2>1. role[d] \in {"uac", "uas"}
    BY <1>3 DEF CallInv, HistoryInv, Live, TypeOK, DialogsOK
  <2>2. /\ role[d] = "uas" /\ state[d] = "offered" /\ UnsentInv("accept", "finishAnswer")
        /\ IncomingInv(d)
    BY <1>1, <1>3, <2>1 DEF InCallInv, DialogInv, OutgoingInv, IncomingInv, CancellingInv, SentInv
  <2>3. atW' = "idle" /\ m_localSdp' = active /\ m_localSdpSet'
        /\ gather[active] \in {"gathering", "candidate"}
    BY <2>2 DEF UnsentInv
  <2>4. DialogInv(d)'
    BY <1>1, <2>2, <2>3 DEF DialogInv, IncomingInv, OutgoingInv, CancellingInv, EndingInv,
         UnsentInv
  <2>5. ThreadInv' /\ Live(d)'
    BY <1>1, <1>3, <2>3 DEF InCallInv, ThreadInv, NoDialog, Live
  <2> QED
    BY <1>1, <1>3, <2>4, <2>5, LiveStep
<1> QED
  BY <1>2, <1>3 DEF NoDialog

LEMMA CandidateStep ==
    ASSUME Disciplined, TypeOK, CallInv, NEW c \in Calls, OnIceCandidate(c) PROVE CallInv'
<1> USE NotDone DEF OnIceCandidate
<1>1. /\ InCallInv /\ ~crashed /\ ~crashed' /\ c = active /\ atW = "idle"
      /\ UNCHANGED <<state, role, call, active, atA, atW, atR, m_inCall, m_isCaller>>
      /\ UNCHANGED <<m_inInBoundAccepted, m_localSdp, m_localSdpSet, mProgress, isUACRejected>>
      /\ UNCHANGED <<m_clientInviteSession, m_serverInviteSession>>
  BY DEF CallInv, threads, dum, progress, sessions
<1>2. /\ active # None /\ \A b \in Calls : gather[b] # "none" => gather'[b] # "none"
      /\ gather[c] = "finished" => gather'[c] = "finished"
      /\ gather[c] \in {"gathering", "candidate"} => gather'[c] = "candidate"
  BY <1>1, NoneAssumption DEF TypeOK, DialogsOK
<1>3. ThreadInv' /\ ClearInv' /\ PlacingInv'
  BY <1>1, <1>2 DEF InCallInv, ThreadInv, ClearInv, PlacingInv, UnsentInv, NoSessions,
       NoDialog, Live
<1>4. ASSUME NEW d \in Dialogs, Live(d) PROVE DialogInv(d)'
  BY <1>1, <1>2, <1>4 DEF InCallInv, DialogInv, OutgoingInv, IncomingInv, CancellingInv,
       EndingInv, UnsentInv, SentInv, Live
<1> QED
  BY <1>1, <1>2, <1>3, <1>4, FixedStep

\* The flags of the call in progress let the message out that it waits for.
LEMMA GatheredStep ==
    ASSUME Disciplined, TypeOK, CallInv, NEW c \in Calls, OnIceGatheringFinished(c)
    PROVE  CallInv'
<1> USE NotDone DEF OnIceGatheringFinished
<1>1. /\ InCallInv /\ ~crashed /\ ~crashed' /\ c = active /\ atW = "idle"
      /\ gather[active] = "candidate"
      /\ UNCHANGED <<state, role, call, active, atA, atR, m_inCall, m_isCaller>>
      /\ UNCHANGED <<m_inInBoundAccepted, m_localSdp, m_localSdpSet, mProgress, isUACRejected>>
      /\ UNCHANGED <<m_clientInviteSession, m_serverInviteSession>>
  BY DEF CallInv, callData, dum, progress, sessions
<1>2. /\ active # None /\ \A b \in Calls : gather[b] # "none" => gather'[b] # "none"
      /\ gather'[active] = "finished" /\ atA = "idle"
  BY <1>1, NoneAssumption DEF TypeOK, DialogsOK, InCallInv, ThreadInv
<1>3. ThreadInv' /\ ClearInv'
  BY <1>1, <1>2 DEF InCallInv, ThreadInv, ClearInv, NoDialog, Live
<1>4. PlacingInv'
  <2>1. SUFFICES ASSUME NoDialog' PROVE /\ m_isCaller' /\ NoSessions'
                                        /\ UnsentInv("create", "finishOffer")'
    BY DEF PlacingInv
  <2>2. m_isCaller /\ NoSessions /\ m_localSdpSet /\ m_localSdp = active
    BY <1>1, <1>2, <2>1 DEF InCallInv, PlacingInv, UnsentInv, NoDialog, Live
  <2> QED
    BY <1>1, <1>2, <2>2 DEF NoSessions, UnsentInv
<1>5. ASSUME NEW d \in Dialogs, Live(d) PROVE DialogInv(d)'
  <2>1. role[d] \in {"uac", "uas"}
    BY <1>5 DEF CallInv, HistoryInv, Live, TypeOK, DialogsOK
  <2>2. role[d] = "uas" /\ state[d] = "offered" /\ IncomingInv(d)
    BY <1>1, <1>2, <1>5, <2>1 DEF InCallInv, DialogInv, OutgoingInv, IncomingInv,
         CancellingInv, SentInv
  <2>3. m_localSdpSet /\ m_localSdp = active /\ ~m_isCaller /\ m_inInBoundAccepted
    BY <1>1, <1>2, <2>2 DEF IncomingInv, UnsentInv
  <2> QED
    BY <1>1, <1>2, <2>2, <2>3 DEF DialogInv, IncomingInv, OutgoingInv, CancellingInv,
         EndingInv, UnsentInv
<1> QED
  BY <1>1, <1>2, <1>3, <1>4, <1>5, FixedStep

\* The INVITE opens the one dialog of the call that was placed.
LEMMA OfferStep ==
    ASSUME TypeOK, CallInv, SendOffer PROVE CallInv'
<1>1. /\ InCallInv /\ ~crashed /\ ~crashed' /\ atW \in {"offer", "finishOffer"}
      /\ UNCHANGED <<active, gather, atA, atR, m_inCall, isUACRejected>>
      /\ UNCHANGED <<m_clientInviteSession, m_serverInviteSession>>
      /\ active # None /\ atA = "idle" /\ SendSdpOffer(m_localSdp)
  BY DEF SendOffer, CallInv, InCallInv, ThreadInv, progress, sessions
<1>2. NoDialog
  <2>1. ASSUME NEW d \in Dialogs, Live(d) PROVE FALSE
    <3>1. role[d] \in {"uac", "uas"}
      BY <2>1 DEF CallInv, HistoryInv, Live, TypeOK, DialogsOK
    <3> QED
      BY <1>1, <2>1, <3>1 DEF InCallInv, DialogInv, OutgoingInv, IncomingInv, CancellingInv,
           SentInv, UnsentInv
  <2> QED
    BY <2>1 DEF NoDialog
<1>3. /\ atW = "finishOffer" /\ m_localSdp = active /\ gather[active] = "finished"
      /\ NoSessions
  BY <1>1, <1>2 DEF InCallInv, PlacingInv, UnsentInv
<1>4. PICK d \in Dialogs : /\ state[d] = "unused"
                           /\ state' = [state EXCEPT ![d] = "calling"]
                           /\ role' = [role EXCEPT ![d] = "uac"]
                           /\ call' = [call EXCEPT ![d] = active]
  BY <1>1, <1>3 DEF SendSdpOffer
<1>5. /\ state'[d] = "calling" /\ role'[d] = "uac" /\ call'[d] = active /\ atW' = "inCall"
      /\ \A e \in Dialogs \ {d} : /\ state'[e] = state[e] /\ role'[e] = role[e]
                                  /\ call'[e] = call[e]
  BY <1>3, <1>4 DEF TypeOK, DialogsOK, SendOffer
<1>6. Live(d)' /\ ~NoDialog' /\ \A e \in Dialogs \ {d} : ~Live(e) /\ ~Live(e)'
  BY <1>2, <1>5 DEF NoDialog, Live
<1>7. DialogInv(d)'
  BY <1>1, <1>3, <1>5 DEF DialogInv, OutgoingInv, IncomingInv, CancellingInv, EndingInv,
       SentInv, NoSessions
<1>8. OneLive' /\ \A e \in Dialogs : DialogInv(e)'
  BY <1>6, <1>7 DEF OneLive, DialogInv
<1>9. ThreadInv' /\ ClearInv' /\ PlacingInv'
  BY <1>1, <1>2, <1>6 DEF InCallInv, ThreadInv, ClearInv, PlacingInv
<1>10. \A e \in Dialogs : HistoryInv(e)'
  BY <1>1, <1>3, <1>5, <1>6 DEF CallInv, HistoryInv, Live
<1>11. \A e \in Dialogs : call[e] # active
  BY <1>1, <1>2 DEF CallInv, HistoryInv, NoDialog
<1>12. OneInvitePerCall' /\ CrashTakesNoCall'
  BY <1>1, <1>5, <1>11 DEF CallInv, OneInvitePerCall, CrashTakesNoCall
<1> QED
  BY <1>8, <1>9, <1>10, <1>12 DEF CallInv, InCallInv

LEMMA AnswerStep ==
    ASSUME TypeOK, CallInv, SendAnswer PROVE CallInv'
<1>1. /\ InCallInv /\ ~crashed /\ atW \in {"answer", "finishAnswer"}
      /\ UNCHANGED <<role, call, active, gather, atA, atR, m_inCall, mProgress>>
      /\ UNCHANGED <<isUACRejected, m_clientInviteSession, m_serverInviteSession>>
      /\ active # None /\ atA = "idle" /\ SendSdpAnswer(m_localSdp)
  BY DEF SendAnswer, CallInv, InCallInv, ThreadInv, progress, sessions, env
<1>2. PICK d \in Dialogs : Live(d)
  BY <1>1 DEF InCallInv, PlacingInv, UnsentInv, NoDialog
<1>3. role[d] \in {"uac", "uas"}
  BY <1>2 DEF CallInv, HistoryInv, Live, TypeOK, DialogsOK
<1>4. role[d] = "uas" /\ state[d] = "offered" /\ IncomingInv(d)
  BY <1>1, <1>2, <1>3 DEF InCallInv, DialogInv, OutgoingInv, IncomingInv, CancellingInv, SentInv
<1>5. /\ atW = "finishAnswer" /\ gather[active] = "finished" /\ m_serverInviteSession = d
      /\ m_inCall \/ atR = "offer"
  BY <1>1, <1>4 DEF IncomingInv, UnsentInv
<1>6. ~crashed' /\ state' = [state EXCEPT ![d] = "connected"] /\ atW' = "inCall"
  BY <1>1, <1>4, <1>5 DEF SendAnswer, SendSdpAnswer
<1>7. state'[d] = "connected" /\ \A e \in Dialogs \ {d} : state'[e] = state[e]
  BY <1>6 DEF TypeOK, DialogsOK
<1>8. Live(d)' /\ ThreadInv'
  BY <1>1, <1>2, <1>6, <1>7 DEF InCallInv, ThreadInv, NoDialog, Live
<1>9. DialogInv(d)'
  BY <1>1, <1>4, <1>5, <1>6, <1>7 DEF DialogInv, IncomingInv, OutgoingInv, CancellingInv,
       EndingInv, SentInv
<1> QED
  BY <1>1, <1>2, <1>6, <1>7, <1>8, <1>9, LiveStep

\* The message is out, so its dialog is there.
LEMMA SetStep ==
    ASSUME TypeOK, CallInv, SetInCall \/ SetCollected PROVE CallInv'
<1>1. /\ InCallInv /\ ~crashed /\ ~crashed' /\ atW \in {"inCall", "acceptInCall", "collected"}
      /\ UNCHANGED <<state, role, call, active, gather, atA, atR, mProgress, isUACRejected>>
      /\ UNCHANGED <<m_clientInviteSession, m_serverInviteSession>>
      /\ active # None /\ atA = "idle"
  BY DEF SetInCall, SetCollected, CallInv, InCallInv, ThreadInv, progress, sessions, dum, env
<1>2. PICK d \in Dialogs : Live(d)
  BY <1>1 DEF InCallInv, PlacingInv, UnsentInv, NoDialog
<1>3. role[d] \in {"uac", "uas"}
  BY <1>2 DEF CallInv, HistoryInv, Live, TypeOK, DialogsOK
<1>4. /\ OutgoingInv(d) /\ IncomingInv(d) /\ SentInv
      /\ state[d] \notin {"cancelling", "invited", "offered"}
  BY <1>1, <1>2, <1>3 DEF InCallInv, DialogInv, OutgoingInv, IncomingInv, CancellingInv,
       SentInv, UnsentInv
<1>5. SentInv'
  BY <1>1, <1>4 DEF SentInv, SetInCall, SetCollected
<1>6. DialogInv(d)'
  BY <1>1, <1>4, <1>5 DEF DialogInv, IncomingInv, OutgoingInv, CancellingInv, EndingInv
<1>7. Live(d)' /\ ThreadInv'
  BY <1>1, <1>2, <1>4 DEF InCallInv, ThreadInv, NoDialog, Live
<1> QED
  BY <1>1, <1>2, <1>6, <1>7, LiveStep

----------------------------------------------------------------------------
(* The receiver's thread *)

LEMMA ArriveStep ==
    ASSUME Disciplined, TypeOK, CallInv, NEW d \in Dialogs, OnNewSessionServer(d)
    PROVE  CallInv'
<1> USE NotDone DEF OnNewSessionServer
<1>1. /\ InCallInv /\ ~crashed /\ ~crashed' /\ Quiet /\ NoDialog /\ NoSessions /\ NoData
      /\ ThreadsIdle /\ active = None
      /\ UNCHANGED <<atA, atW, atR, m_inCall, call, active, gather>>
      /\ m_serverInviteSession' = d /\ m_clientInviteSession' = None
      /\ mProgress' = "Ringing" /\ ~isUACRejected'
  <2>1. /\ InCallInv /\ ~crashed /\ ~crashed' /\ Quiet /\ NoDialog /\ ThreadsIdle
        /\ active = None
    BY DEF Move, CallInv, Quiet, NoDialog
  <2>2. NoSessions /\ NoData
    BY <2>1 DEF InCallInv, ClearInv, ThreadsIdle
  <2> QED
    BY <2>1, <2>2 DEF NoSessions, threads, env
<1>2. /\ NoData' /\ state[d] = "unused" /\ state'[d] = "invited" /\ role'[d] = "uas"
      /\ \A e \in Dialogs \ {d} : state'[e] = state[e] /\ role'[e] = role[e]
  BY <1>1 DEF Move, TypeOK, DialogsOK, NoData, callData
<1>3. call[d] = None
  BY <1>2 DEF CallInv, HistoryInv
<1>4. Live(d)' /\ ~NoDialog' /\ \A e \in Dialogs \ {d} : ~Live(e) /\ ~Live(e)'
  BY <1>1, <1>2 DEF NoDialog, Live
<1>5. DialogInv(d)'
  BY <1>1, <1>2, <1>3 DEF DialogInv, OutgoingInv, IncomingInv, CancellingInv, EndingInv,
       ThreadsIdle
<1>6. OneLive' /\ \A e \in Dialogs : DialogInv(e)'
  BY <1>4, <1>5 DEF OneLive, DialogInv
<1>7. ThreadInv' /\ ClearInv' /\ PlacingInv'
  BY <1>1, <1>4 DEF ThreadInv, ClearInv, PlacingInv, ThreadsIdle
<1>8. \A e \in Dialogs : HistoryInv(e)'
  BY <1>1, <1>2, <1>3, <1>4 DEF CallInv, HistoryInv, Live
<1>9. OneInvitePerCall' /\ CrashTakesNoCall'
  BY <1>1, <1>2 DEF CallInv, OneInvitePerCall, CrashTakesNoCall
<1> QED
  BY <1>6, <1>7, <1>8, <1>9 DEF CallInv, InCallInv

\* what Move does
LEMMA Moves ==
    ASSUME TypeOK, NEW d \in Dialogs, NEW from, NEW to, Move(d, from, to)
    PROVE  /\ ~crashed /\ atR = "idle" /\ state[d] \in from /\ state'[d] = to
           /\ \A e \in Dialogs \ {d} : state'[e] = state[e]
BY DEF Move, ReceiverAt, TypeOK, DialogsOK

\* Callbacks that set mProgress and return
LEMMA ProgressStep ==
    ASSUME Disciplined, TypeOK, CallInv, NEW d \in Dialogs,
           OnProvisional(d) \/ OnConnected(d) \/ OnFailure(d) \/ OnForkDestroyed(d)
    PROVE  CallInv'
<1> USE NotDone
<1>1. PICK from, to, p : /\ Move(d, from, to) /\ ProgressIs(p)
                         /\ \/ from = {"responded", "early"} /\ to = "early" /\ p = "Dialing"
                            \/ from = {"answered"} /\ to = "connected" /\ p = "Connected"
                            \/ /\ from = {"calling", "responded", "early"} /\ to = "failed"
                               /\ state[d] = "calling" => ~isUACRejected
                            \/ /\ May("fork") /\ from = {"early", "connected"}
                               /\ to = state[d] /\ role[d] = "uac"
  BY DEF OnProvisional, OnConnected, OnFailure, OnForkDestroyed
<1>2. /\ ~crashed /\ ~crashed' /\ InCallInv /\ mProgress' = p
      /\ UNCHANGED <<role, call, active, gather, atA, atW, atR, m_inCall, isUACRejected>>
      /\ UNCHANGED <<m_clientInviteSession, m_serverInviteSession>>
      /\ state[d] \in from /\ state'[d] = to
      /\ \A e \in Dialogs \ {d} : state'[e] = state[e]
  BY <1>1, Moves DEF CallInv, ProgressIs, threads, env, sessions
<1>3. Live(d) /\ Live(d)'
  BY <1>1, <1>2 DEF Live
<1>4. role[d] \in {"uac", "uas"}
  BY <1>3 DEF CallInv, HistoryInv, Live, TypeOK, DialogsOK
<1>5. role[d] = "uac" /\ OutgoingInv(d) /\ CancellingInv(d) /\ EndingInv(d)
  BY <1>1, <1>2, <1>3, <1>4 DEF InCallInv, DialogInv, IncomingInv
<1>6. SentInv => SentInv'
  BY <1>2 DEF SentInv
<1>7. OutgoingInv(d)'
  BY <1>1, <1>2, <1>5, <1>6 DEF OutgoingInv
<1>8. IncomingInv(d)' /\ CancellingInv(d)' /\ EndingInv(d)'
  BY <1>1, <1>2, <1>5 DEF IncomingInv, CancellingInv, EndingInv
<1>9. ThreadInv'
  BY <1>2, <1>3 DEF InCallInv, ThreadInv, NoDialog
<1> QED
  BY <1>2, <1>3, <1>7, <1>8, <1>9, LiveStep DEF DialogInv

LEMMA RespondedStep ==
    ASSUME Disciplined, TypeOK, CallInv, NEW d \in Dialogs, OnNewSessionClient(d)
    PROVE  CallInv'
<1> USE NotDone DEF OnNewSessionClient
<1>1. /\ ~crashed /\ ~crashed' /\ InCallInv /\ mProgress' = "Dialing" /\ ~isUACRejected'
      /\ UNCHANGED <<role, call, active, gather, atA, atW, atR, m_inCall>>
      /\ m_clientInviteSession' = d /\ UNCHANGED m_serverInviteSession
      /\ state[d] = "calling" /\ state'[d] = "responded"
      /\ \A e \in Dialogs \ {d} : state'[e] = state[e]
  BY Moves DEF CallInv, threads, env
<1>2. Live(d) /\ Live(d)'
  BY <1>1 DEF Live
<1>3. role[d] \in {"uac", "uas"}
  BY <1>2 DEF CallInv, HistoryInv, Live, TypeOK, DialogsOK
<1>4. role[d] = "uac" /\ OutgoingInv(d)
  BY <1>1, <1>2, <1>3 DEF InCallInv, DialogInv, IncomingInv
<1>5. DialogInv(d)'
  BY <1>1, <1>4 DEF DialogInv, OutgoingInv, IncomingInv, CancellingInv, EndingInv, SentInv
<1>6. ThreadInv'
  BY <1>1, <1>2 DEF InCallInv, ThreadInv, NoDialog
<1> QED
  BY <1>1, <1>2, <1>5, <1>6, LiveStep

\* Callbacks up to their upcalls
LEMMA UpcallStep ==
    ASSUME Disciplined, TypeOK, CallInv, NEW d \in Dialogs, OnOffer(d) \/ OnAnswer(d)
    PROVE  CallInv'
<1> USE NotDone
<1>1. PICK from, to, p : /\ Move(d, from, to) /\ UpcallsAt(p) /\ p \in {"offer", "answer"}
                         /\ \/ from = {"invited"} /\ to = "offered" /\ p = "offer"
                            \/ from = {"connected"} /\ to = "connected"
                            \/ from = {"responded", "early"} /\ to = "answered"
  BY DEF OnOffer, OnAnswer
<1>2. /\ ~crashed /\ ~crashed' /\ InCallInv /\ atR' = p /\ atA = "idle"
      /\ UNCHANGED <<role, call, active, gather, atA, atW, m_inCall, mProgress>>
      /\ UNCHANGED <<isUACRejected, m_clientInviteSession, m_serverInviteSession>>
      /\ UNCHANGED <<m_isCaller, m_localSdpSet, m_localCandidatesCollected, m_localSdp>>
      /\ UNCHANGED <<m_localCandidates, m_inInBoundAccepted>>
      /\ state[d] \in from /\ state'[d] = to
      /\ \A e \in Dialogs \ {d} : state'[e] = state[e]
  BY <1>1, Moves DEF CallInv, UpcallsAt, OnOffer, OnAnswer, env, sessions, progress, callData
<1>3. Live(d) /\ Live(d)'
  BY <1>1, <1>2 DEF Live
<1>4. OutgoingInv(d) /\ IncomingInv(d)
  BY <1>2, <1>3 DEF InCallInv, DialogInv
<1>5. SentInv => SentInv'
  BY <1>2 DEF SentInv
<1>6. OutgoingInv(d)'
  BY <1>1, <1>2, <1>4, <1>5 DEF OutgoingInv
<1>7. IncomingInv(d)' /\ CancellingInv(d)' /\ EndingInv(d)'
  BY <1>1, <1>2, <1>4, <1>5 DEF IncomingInv, CancellingInv, EndingInv, NoData
<1>8. ThreadInv'
  BY <1>1, <1>2, <1>3 DEF InCallInv, ThreadInv, NoDialog
<1> QED
  BY <1>2, <1>3, <1>6, <1>7, <1>8, LiveStep DEF DialogInv

\* Their ends: the call has not gone meanwhile.
LEMMA ReturnStep ==
    ASSUME TypeOK, CallInv, EndOffer \/ EndAnswer PROVE CallInv'
<1>1. /\ InCallInv /\ ~crashed /\ ~crashed' /\ atR \in {"offer", "answer"} /\ atR' = "idle"
      /\ UNCHANGED <<state, role, call, active, gather, atA, atW, mProgress, isUACRejected>>
      /\ UNCHANGED <<m_clientInviteSession, m_serverInviteSession, m_inInBoundAccepted>>
      /\ UNCHANGED <<m_localSdpSet, m_localCandidatesCollected, m_localSdp, m_localCandidates>>
      /\ UNCHANGED localSdp /\ m_inCall' /\ ~NoDialog /\ atA = "idle"
      /\ ~m_isCaller => ~m_isCaller'
  <2>1. CASE EndOffer
    BY <2>1 DEF EndOffer, CallInv, InCallInv, ThreadInv, progress, sessions, dum, env
  <2>2. CASE EndAnswer
    BY <2>2 DEF EndAnswer, CallInv, InCallInv, ThreadInv, progress, sessions, dum, env,
         callData
  <2> QED
    BY <2>1, <2>2
<1>2. PICK d \in Dialogs : Live(d)
  BY <1>1 DEF NoDialog
<1>3. OutgoingInv(d) /\ IncomingInv(d) /\ state[d] # "cancelling"
  BY <1>1, <1>2 DEF InCallInv, DialogInv, CancellingInv
<1>4. (SentInv => SentInv') /\ (NoData => NoData')
      /\ \A a, b : UnsentInv(a, b) => UnsentInv(a, b)'
  BY <1>1 DEF SentInv, NoData, UnsentInv
<1>5. OutgoingInv(d)'
  BY <1>1, <1>3, <1>4 DEF OutgoingInv
<1>6. IncomingInv(d)' /\ CancellingInv(d)' /\ EndingInv(d)'
  BY <1>1, <1>3, <1>4 DEF IncomingInv, CancellingInv, EndingInv
<1>7. Live(d)' /\ ThreadInv'
  BY <1>1, <1>2 DEF InCallInv, ThreadInv, NoDialog, Live
<1> QED
  BY <1>1, <1>2, <1>5, <1>6, <1>7, LiveStep DEF DialogInv

\* The call is over.  A call that is not "in call" by now is being hung up, or was
\* hung up and is reset.
LEMMA TerminatedStep ==
    ASSUME Disciplined, TypeOK, CallInv, NEW d \in Dialogs, NEW msg \in BOOLEAN,
           OnTerminated(d, msg)
    PROVE  CallInv'
<1> USE NotDone DEF OnTerminated
<1>1. /\ ~crashed /\ InCallInv /\ atW = "idle" /\ msg = TRUE /\ atR = "idle"
      /\ UNCHANGED <<role, call, gather, atA, atW, m_inCall, isUACRejected, callData>>
      /\ UNCHANGED sessions
      /\ state[d] \in {"early", "failed", "connected", "offered", "cancelling"}
      /\ state' = [state EXCEPT ![d] = "terminated"]
  BY DEF CallInv, Move, ReceiverAt
<1>2. Live(d)
  BY <1>1 DEF Live
<1>3. role[d] \in {"uac", "uas"}
  BY <1>2 DEF CallInv, HistoryInv, Live, TypeOK, DialogsOK
<1>4. ~isUACRejected
  BY <1>1, <1>2, <1>3 DEF InCallInv, DialogInv, OutgoingInv, IncomingInv, CancellingInv
<1>5. ~crashed' /\ atR' = IF m_inCall THEN "reset" ELSE "idle"
  BY <1>1, <1>4 DEF NullMessage, TerminatedRest
<1>6. active' = None
  <2>1. call[d] = active \/ active = None
    BY <1>1, <1>2, <1>3 DEF InCallInv, DialogInv, OutgoingInv, IncomingInv, CancellingInv,
         ThreadInv
  <2> QED
    BY <2>1
<1>7. NoDialog'
  BY <1>1, <1>2 DEF InCallInv, OneLive, NoDialog, Live, TypeOK, DialogsOK
<1>8. ThreadInv'
  BY <1>1, <1>5, <1>6, <1>7 DEF InCallInv, ThreadInv
<1>9. ~m_inCall /\ atA = "idle" => NoData /\ NoSessions
  BY <1>1, <1>2, <1>3 DEF InCallInv, DialogInv, OutgoingInv, IncomingInv, CancellingInv,
       SentInv
<1>10. ClearInv'
  BY <1>1, <1>5, <1>9 DEF ClearInv, NoData, NoSessions, callData, sessions
<1> QED
  BY <1>1, <1>2, <1>5, <1>6, <1>8, <1>10, OverStep

LEMMA FinishStep ==
    ASSUME TypeOK, CallInv, FinishTerminated PROVE CallInv'
<1>1. /\ InCallInv /\ ~crashed /\ ~crashed' /\ atR = "reset" /\ atR' = "idle"
      /\ UNCHANGED <<state, role, call, gather, active, atW, atA>>
      /\ NoDialog /\ active = None
  BY DEF FinishTerminated, CallInv, InCallInv, ThreadInv, dum, env
<1>2. NoData' /\ NoSessions' /\ ~m_inCall'
  BY <1>1 DEF FinishTerminated, EndTerminated, ResetCallData, DropSessions, NoData, NoSessions
<1>3. ThreadInv' /\ ClearInv' /\ PlacingInv'
  BY <1>1, <1>2 DEF InCallInv, ThreadInv, ClearInv, PlacingInv, NoDialog, Live
<1> QED
  BY <1>1, <1>3, FixedStep DEF NoDialog

----------------------------------------------------------------------------
(* The invariant and what follows from it *)

LEMMA CallInvInductive ==
    ASSUME Disciplined PROVE TypeOK /\ CallInv /\ [Next]_vars => CallInv'
<1> SUFFICES ASSUME TypeOK, CallInv, [Next]_vars PROVE CallInv'
  OBVIOUS
<1>1. CASE Application
  <2>1. ~Reject /\ ~RejectSession /\ ~ResetRejected
    BY NotDone DEF Reject, RejectSession, ResetRejected, CallInv, InCallInv, ThreadInv
  <2> QED
    BY <1>1, <2>1, HangupStep, ClearStep, EndStep, ResetStep, LogoutStep DEF Application
<1>2. CASE WebRTC
  BY <1>2, PlaceStep, AcceptStep, SdpStep, CandidateStep, GatheredStep, OfferStep, AnswerStep,
     SetStep DEF WebRTC
<1>3. CASE Receiver
  <2>1. ASSUME NEW d \in Dialogs, Callback(d) PROVE CallInv'
    BY <2>1, ArriveStep, ProgressStep, RespondedStep, UpcallStep, TerminatedStep DEF Callback
  <2> QED
    BY <1>3, <2>1, ReturnStep, FinishStep DEF Receiver
<1>4. CASE UNCHANGED vars
  <2> USE DEF vars, progress, callData, sessions, statics, threads, dum, env
  <2>1. \A d \in Dialogs : HistoryInv(d)' /\ (Live(d)' <=> Live(d))
    BY <1>4 DEF CallInv, HistoryInv, Live
  <2>2. OneInvitePerCall' /\ CrashTakesNoCall'
    BY <1>4 DEF CallInv, OneInvitePerCall, CrashTakesNoCall, Established, Live
  <2>3. ASSUME InCallInv PROVE InCallInv'
    <3>1. NoDialog' <=> NoDialog
      BY <2>1 DEF NoDialog
    <3>2. OneLive' /\ ClearInv' /\ ThreadInv'
      BY <1>4, <2>1, <2>3, <3>1 DEF InCallInv, OneLive, ClearInv, ThreadInv, NoData, NoSessions
    <3>3. PlacingInv'
      BY <1>4, <2>3, <3>1 DEF InCallInv, PlacingInv, UnsentInv, NoSessions
    <3>4. ASSUME NEW d \in Dialogs PROVE DialogInv(d)'
      BY <1>4, <2>1, <2>3 DEF InCallInv, DialogInv, OutgoingInv, IncomingInv, CancellingInv,
           EndingInv, UnsentInv, SentInv, NoData, NoSessions
    <3> QED
      BY <3>2, <3>3, <3>4 DEF InCallInv
  <2> QED
    BY <1>4, <2>1, <2>2, <2>3 DEF CallInv
<1> QED
  BY <1>1, <1>2, <1>3, <1>4 DEF Next

LEMMA InitCallInv == Init => CallInv
<1> SUFFICES ASSUME Init PROVE CallInv
  OBVIOUS
<1>1. \A d \in Dialogs : ~Live(d) /\ HistoryInv(d)
  BY DEF Init, Live, HistoryInv
<1>2. OneInvitePerCall /\ CrashTakesNoCall
  BY DEF Init, OneInvitePerCall, CrashTakesNoCall
<1>3. InCallInv
  BY <1>1 DEF Init, InCallInv, OneLive, ClearInv, PlacingInv, ThreadInv, DialogInv, NoData,
       NoSessions
<1> QED
  BY <1>1, <1>2, <1>3 DEF CallInv

LEMMA CallInvariant == ASSUME Disciplined PROVE Spec => [](TypeOK /\ CallInv)
<1>1. TypeOK /\ CallInv /\ [Next]_vars => CallInv'
  BY CallInvInductive
<1> QED
  BY <1>1, InitCallInv, TypeCorrect, PTL DEF Spec

\* In an environment that takes no liberty but re-INVITEs and forks, the session
\* tests of terminateSession, which take no lock, can lose the race with onTerminated;
\* but what goes down then is a process without a call that is up.
THEOREM CrashOnlyAfterCall == ASSUME Disciplined PROVE Spec => []CrashTakesNoCall
BY CallInvariant, PTL DEF CallInv

\* There a call sends one INVITE, whichever of createSession and
\* onIceGatheringFinished comes second.
THEOREM InvitedOnce == ASSUME Disciplined PROVE Spec => []OneInvitePerCall
BY CallInvariant, PTL DEF CallInv

\* There every call is gone from the flags and the sessions when the threads have
\* returned: whether it ends by hang-up, by the peer, by both at once or by a final
\* error, once the operation or callback that sets its flags has returned.
THEOREM NothingLeftOver == ASSUME Disciplined PROVE Spec => []CleanWhenQuiet
<1>1. CallInv => CleanWhenQuiet
  BY DEF CallInv, InCallInv, ClearInv, CleanWhenQuiet, Quiet, ThreadsIdle, NoDialog, NoData,
       NoSessions
<1> QED
  BY <1>1, CallInvariant, PTL

\* Without forks, terminateSession would reach every established call, at every place
\* of the three threads.
THEOREM HangupReachesTheCall ==
    ASSUME Liberties \subseteq {"reinvite"} PROVE Spec => []HangupReaches
<1>1. Disciplined /\ ~May("fork")
  BY DEF Disciplined, May
<1>2. TypeOK /\ CallInv => HangupReaches
  <2> SUFFICES ASSUME TypeOK, CallInv, NEW d \in Dialogs, Established(d)
               PROVE  mProgress # "Done" /\ SessionToEnd = d
    BY DEF HangupReaches
  <2>1. ~crashed /\ InCallInv /\ Live(d)
    BY DEF CallInv, CrashTakesNoCall, Established, TypeOK, FlagsOK
  <2>2. role[d] \in {"uac", "uas"}
    BY <2>1 DEF CallInv, HistoryInv, Live, TypeOK, DialogsOK
  <2> QED
    BY <1>1, <2>1, <2>2, NoneAssumption DEF InCallInv, DialogInv, OutgoingInv, IncomingInv,
       Established, SessionToEnd
<1> QED
  BY <1>1, <1>2, CallInvariant, PTL

=============================================================================
