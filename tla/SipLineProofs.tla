--------------------------- MODULE SipLineProofs ---------------------------
(***************************************************************************)
(* SipCall implements PhoneLine, for any sets of calls and of dialogs.     *)
(* The proof rests on the inductive invariant of SipCallProofs, from which *)
(* ViewOK reads the line off the one dialog that lives, and on LineInv:    *)
(* which dialogs have been answered.                                       *)
(***************************************************************************)
EXTENDS SipCallProofs

LineInv ==
    /\ answerSdp # None
    /\ \A d \in Dialogs :
        /\ state[d] \in {"unused", "invited", "offered"} => sent[d] = None
        /\ state[d] = "connected" /\ role[d] = "uas" => sent[d] # None

\* The line as the dialog d has it
ViewOf(d) ==
    IF active = None THEN IF Ringing(d) THEN "ringing" ELSE "idle"
    ELSE IF role[d] = "uac" THEN "outgoing"
    ELSE IF sent[d] = None THEN "accepted" ELSE "incoming"

ViewOK ==
    ~crashed => /\ NoDialog => LineView = IF active = None THEN "idle" ELSE "placing"
                /\ \A d \in Dialogs : Live(d) => LineView = ViewOf(d)

Invites == {d \in Dialogs : role[d] = "uac"}
Answers == {d \in Dialogs : role[d] = "uas" /\ sent[d] # None}

LineStep == [Line!LineNext]_(Line!lineVars)

LEMMA NoLiberty ==
    ASSUME Liberties = {} PROVE Disciplined /\ \A l : ~May(l)
BY DEF Disciplined, May

LEMMA LiveRole ==
    ASSUME TypeOK, CallInv, NEW d \in Dialogs, Live(d) PROVE role[d] \in {"uac", "uas"}
BY DEF CallInv, HistoryInv, Live, TypeOK, DialogsOK

\* A call in progress belongs to the dialog that lives.
LEMMA LiveCall ==
    ASSUME TypeOK, CallInv, ~crashed, NEW d \in Dialogs, Live(d), active # None
    PROVE  call[d] = active
BY LiveRole DEF CallInv, InCallInv, DialogInv, OutgoingInv, IncomingInv, CancellingInv,
   ThreadInv

LEMMA ViewIsOK ==
    TypeOK /\ CallInv => ViewOK
<1> SUFFICES ASSUME TypeOK, CallInv, ~crashed
             PROVE  /\ NoDialog => LineView = IF active = None THEN "idle" ELSE "placing"
                    /\ \A d \in Dialogs : Live(d) => LineView = ViewOf(d)
  BY DEF ViewOK
<1>1. ASSUME NEW d \in Dialogs, ~Live(d) PROVE ~Ringing(d) /\ (active # None => call[d] # active)
  BY <1>1 DEF CallInv, HistoryInv, Live, Ringing
<1>2. ASSUME NoDialog PROVE LineView = IF active = None THEN "idle" ELSE "placing"
  BY <1>1, <1>2 DEF NoDialog, LineView, Accepted
<1>3. ASSUME NEW d \in Dialogs, Live(d) PROVE LineView = ViewOf(d)
  <2>1. \A e \in Dialogs : e # d => ~Ringing(e) /\ (active # None => call[e] # active)
    BY <1>1, <1>3 DEF CallInv, InCallInv, OneLive
  <2>2. CASE active = None
    BY <2>1, <2>2 DEF LineView, ViewOf
  <2>3. CASE active # None
    <3>1. call[d] = active /\ role[d] \in {"uac", "uas"}
      BY <1>3, <2>3, LiveCall, LiveRole
    <3>2. Accepted(d) <=> role[d] = "uas"
      BY <3>1 DEF Accepted
    <3>3. \A e \in Dialogs : Accepted(e) => e = d
      BY <2>1, <2>3 DEF Accepted
    <3> QED
      BY <2>3, <3>1, <3>2, <3>3 DEF LineView, ViewOf
  <2> QED
    BY <2>2, <2>3
<1> QED
  BY <1>2, <1>3

----------------------------------------------------------------------------
(* Steps by what they do to the line *)

LEMMA SameMessages ==
    ASSUME UNCHANGED <<role, sent>>
    PROVE  Invites' = Invites /\ Answers' = Answers
BY DEF Invites, Answers

LEMMA Stutters ==
    ASSUME LineView' = LineView, Invites' = Invites, Answers' = Answers
    PROVE  LineStep
BY DEF LineStep, Line!lineVars, Invites, Answers

\* Steps of the threads on the flags alone
LEMMA Inside ==
    ASSUME LineInv, UNCHANGED <<state, role, sent, call, active, answerSdp>>
    PROVE  LineInv' /\ LineStep
<1>1. LineInv'
  BY DEF LineInv
<1>2. LineView' = LineView
  BY DEF LineView, Accepted, Ringing
<1> QED
  BY <1>1, <1>2, SameMessages, Stutters

LEMMA GetsOver ==
    ASSUME LineView' = "idle", UNCHANGED <<role, sent>>,
           LineView \in {"idle", "outgoing", "ringing", "accepted", "incoming"}
    PROVE  LineStep
<1>1. Invites' = Invites /\ Answers' = Answers
  BY SameMessages
<1>2. CASE LineView = "idle"
  BY <1>1, <1>2, Stutters
<1>3. CASE LineView # "idle"
  BY <1>1, <1>3 DEF LineStep, Line!LineNext, Line!Over, Invites, Answers
<1> QED
  BY <1>2, <1>3

----------------------------------------------------------------------------
(* LineInv, and the step of the line, for each operation and callback *)

LEMMA LinePlace ==
    ASSUME Liberties = {}, TypeOK, CallInv, ViewOK, ViewOK', LineInv,
           NEW c \in Calls, CreateSession(c)
    PROVE  LineInv' /\ LineStep
<1>1. /\ ~crashed /\ ~crashed' /\ NoDialog /\ active = None /\ active' # None
      /\ UNCHANGED <<state, role, sent, answerSdp>>
  BY NoLiberty, NoneAssumption DEF CreateSession, Quiet, NoDialog, dum, statics
<1>2. NoDialog'
  BY <1>1 DEF NoDialog, Live
<1>3. LineView = "idle" /\ LineView' = "placing"
  BY <1>1, <1>2 DEF ViewOK
<1>4. LineInv'
  BY <1>1 DEF LineInv
<1>5. Invites' = Invites /\ Answers' = Answers
  BY <1>1, SameMessages
<1> QED
  BY <1>3, <1>4, <1>5 DEF LineStep, Line!LineNext, Line!Place, Line!Goes, Invites, Answers

LEMMA LineAccept ==
    ASSUME Liberties = {}, TypeOK, CallInv, ViewOK, ViewOK', LineInv,
           NEW c \in Calls, NEW d \in Dialogs, AcceptSession(c, d)
    PROVE  LineInv' /\ LineStep
<1>1. /\ ~crashed /\ ~crashed' /\ state[d] = "offered" /\ role[d] = "uas" /\ call[d] = None
      /\ UNCHANGED <<state, role, sent, answerSdp>> /\ active' # None
  BY NoLiberty, NoneAssumption DEF AcceptSession, dum, statics
<1>2. Live(d) /\ Live(d)' /\ Ringing(d) /\ sent[d] = None
  BY <1>1 DEF Live, Ringing, LineInv
<1>3. active = None
  BY <1>1, <1>2, LiveCall
<1>4. LineView = "ringing" /\ LineView' = "accepted"
  BY <1>1, <1>2, <1>3 DEF ViewOK, ViewOf
<1>5. LineInv'
  BY <1>1 DEF LineInv
<1>6. Invites' = Invites /\ Answers' = Answers
  BY <1>1, SameMessages
<1> QED
  BY <1>4, <1>5, <1>6 DEF LineStep, Line!LineNext, Line!Accept, Line!Goes, Invites, Answers

LEMMA LineInvite ==
    ASSUME TypeOK, CallInv, ViewOK, ViewOK', LineInv, SendOffer
    PROVE  LineInv' /\ LineStep
<1>1. /\ ~crashed /\ ~crashed' /\ atW \in {"offer", "finishOffer"} /\ active # None
      /\ UNCHANGED <<active, answerSdp>>
  BY DEF SendOffer, CallInv, InCallInv, ThreadInv
<1>2. PICK d \in Dialogs :
        /\ state[d] = "unused" /\ state' = [state EXCEPT ![d] = "calling"]
        /\ role' = [role EXCEPT ![d] = "uac"] /\ sent' = [sent EXCEPT ![d] = offerSdp']
  BY DEF SendOffer, SendSdpOffer
<1>3. \A e \in Dialogs : IF e = d THEN state'[e] = "calling" /\ role'[e] = "uac"
                         ELSE state'[e] = state[e] /\ role'[e] = role[e] /\ sent'[e] = sent[e]
  BY <1>2 DEF TypeOK, DialogsOK
<1>4. role[d] = "none" /\ Live(d)'
  BY <1>2, <1>3 DEF CallInv, HistoryInv, Live
<1>5. NoDialog
  BY <1>1, LiveRole DEF CallInv, InCallInv, DialogInv, OutgoingInv, IncomingInv, CancellingInv,
     ThreadInv, SentInv, UnsentInv, NoDialog
<1>6. LineView = "placing" /\ LineView' = "outgoing"
  BY <1>1, <1>3, <1>4, <1>5 DEF ViewOK, ViewOf
<1>7. LineInv'
  BY <1>1, <1>3 DEF LineInv
<1>8. Invites' = Invites \cup {d} /\ Answers' = Answers
  BY <1>3, <1>4 DEF Invites, Answers
<1>9. d \in Dialogs \ (Invites \cup Answers)
  BY <1>4 DEF Invites, Answers
<1> QED
  BY <1>6, <1>7, <1>8, <1>9
     DEF LineStep, Line!LineNext, Line!Invite, Line!Goes, Invites, Answers

LEMMA LineAnswer ==
    ASSUME TypeOK, CallInv, ViewOK, ViewOK', LineInv, SendAnswer
    PROVE  LineInv' /\ LineStep
<1>1. /\ ~crashed /\ atW \in {"answer", "finishAnswer"} /\ active # None /\ atA = "idle"
      /\ UNCHANGED <<active, role>> /\ SendSdpAnswer(m_localSdp)
  BY DEF SendAnswer, CallInv, InCallInv, ThreadInv, env
<1>2. PICK d \in Dialogs : Live(d)
  BY <1>1 DEF CallInv, InCallInv, PlacingInv, UnsentInv, NoDialog
<1>3. role[d] = "uas" /\ state[d] = "offered" /\ IncomingInv(d)
  BY <1>1, <1>2, LiveRole DEF CallInv, InCallInv, DialogInv, OutgoingInv, IncomingInv,
     CancellingInv, SentInv
<1>4. m_serverInviteSession = d /\ m_localSdp = active
  BY <1>1, <1>3 DEF IncomingInv, UnsentInv
<1>5. /\ ~crashed' /\ state' = [state EXCEPT ![d] = "connected"]
      /\ sent' = [sent EXCEPT ![d] = answerSdp']
  BY <1>1, <1>3, <1>4 DEF SendSdpAnswer
<1>6. answerSdp' # None
  BY <1>1, <1>4 DEF SendSdpAnswer, LineInv
<1>7. \A e \in Dialogs : IF e = d THEN state'[e] = "connected" /\ sent'[e] = answerSdp'
                         ELSE state'[e] = state[e] /\ sent'[e] = sent[e]
  BY <1>5 DEF TypeOK, DialogsOK
<1>8. Live(d)' /\ sent[d] = None
  BY <1>3, <1>7 DEF Live, LineInv
<1>9. LineView = "accepted" /\ LineView' = "incoming"
  BY <1>1, <1>2, <1>3, <1>5, <1>6, <1>7, <1>8 DEF ViewOK, ViewOf
<1>10. LineInv'
  BY <1>1, <1>6, <1>7 DEF LineInv
<1>11. Invites' = Invites /\ Answers' = Answers \cup {d}
  BY <1>1, <1>3, <1>6, <1>7 DEF Invites, Answers
<1>12. d \in Dialogs \ (Invites \cup Answers)
  BY <1>3, <1>8 DEF Invites, Answers
<1> QED
  BY <1>9, <1>10, <1>11, <1>12
     DEF LineStep, Line!LineNext, Line!Answer, Line!Goes, Invites, Answers

LEMMA LineHangup ==
    ASSUME Liberties = {}, TypeOK, CallInv, ViewOK, ViewOK', LineInv, TerminateSession
    PROVE  LineInv' /\ LineStep
<1>1. /\ ~crashed /\ ~crashed' /\ active' = None
      /\ UNCHANGED <<state, role, sent, call, answerSdp>>
  BY DEF TerminateSession, dum, statics
<1>2. CASE active = None
  BY <1>1, <1>2, Inside
<1>3. CASE active # None
  <2>1. PICK d \in Dialogs : Live(d)
    BY <1>3, NoLiberty DEF TerminateSession, Quiet, Established
  <2>2. call[d] = active /\ role[d] \in {"uac", "uas"} /\ Live(d)'
    BY <1>1, <1>3, <2>1, LiveCall, LiveRole DEF Live
  <2>3. LineView' = "idle"
    BY <1>1, <1>3, <2>2 DEF ViewOK, ViewOf, Ringing
  <2>4. LineView \in {"outgoing", "accepted", "incoming"}
    BY <1>1, <1>3, <2>1 DEF ViewOK, ViewOf
  <2>5. LineInv'
    BY <1>1 DEF LineInv
  <2> QED
    BY <1>1, <2>3, <2>4, <2>5, GetsOver
<1> QED
  BY <1>2, <1>3

\* A call that rings is over for the line when end() is called.
LEMMA LineEnd ==
    ASSUME TypeOK, CallInv, ViewOK, ViewOK', LineInv, EndCall
    PROVE  LineInv' /\ LineStep
<1>1. ~crashed /\ active = None /\ UNCHANGED <<role, sent, call, answerSdp>>
  BY DEF EndCall, CallInv, InCallInv, ThreadInv, statics
<1>2. PICK s \in Dialogs \cup {None} : EndSession(s)
  BY DEF EndCall, TypeOK, DataOK
<1>3. CASE UNCHANGED <<state, active>>
  BY <1>1, <1>3, Inside
<1>4. CASE s \in Dialogs /\ Live(s) /\ state' = [state EXCEPT ![s] = state'[s]]
           /\ state'[s] \in {"cancelling", "terminated"}
  <2>1. \A e \in Dialogs \ {s} : state'[e] = state[e]
    BY <1>4 DEF TypeOK, DialogsOK
  <2>2. LineInv'
    BY <1>1, <1>4, <2>1 DEF LineInv
  <2>3. LineView \in {"idle", "ringing"}
    BY <1>1, <1>4 DEF ViewOK, ViewOf
  <2>4. active' = None
    BY <1>1, <1>2 DEF EndSession
  <2>5. \A e \in Dialogs : ~Ringing(e)'
    BY <1>1, <1>4, <2>1 DEF Ringing, CallInv, InCallInv, OneLive, Live
  <2>6. LineView' = "idle"
    BY <2>4, <2>5 DEF LineView
  <2> QED
    BY <1>1, <2>2, <2>3, <2>6, GetsOver
<1> QED
  BY <1>2, <1>3, <1>4 DEF EndSession, TypeOK, DialogsOK

LEMMA LineArrive ==
    ASSUME Liberties = {}, TypeOK, CallInv, ViewOK, ViewOK', LineInv, NEW d \in Dialogs,
           OnNewSessionServer(d)
    PROVE  LineInv' /\ LineStep
<1>1. /\ state[d] = "unused" /\ ~crashed /\ ~crashed' /\ NoDialog /\ active = None
      /\ UNCHANGED <<sent, call, active, answerSdp>>
      /\ \A e \in Dialogs : IF e = d THEN state'[e] = "invited" /\ role'[e] = "uas"
                            ELSE state'[e] = state[e] /\ role'[e] = role[e]
  BY NoLiberty DEF OnNewSessionServer, Move, Quiet, NoDialog, env, statics, TypeOK, DialogsOK
<1>2. role[d] = "none" /\ sent[d] = None /\ Live(d)'
  BY <1>1 DEF CallInv, HistoryInv, LineInv, Live
<1>3. LineView = "idle" /\ LineView' = "idle"
  BY <1>1, <1>2 DEF ViewOK, ViewOf, Ringing
<1>4. LineInv'
  BY <1>1, <1>2 DEF LineInv
<1>5. Invites' = Invites
  BY <1>1, <1>2 DEF Invites
<1>6. Answers' = Answers
  BY <1>1, <1>2 DEF Answers
<1> QED
  BY <1>3, <1>4, <1>5, <1>6, Stutters

LEMMA LineRing ==
    ASSUME Liberties = {}, TypeOK, CallInv, ViewOK, ViewOK', LineInv, NEW d \in Dialogs,
           OnOffer(d)
    PROVE  LineInv' /\ LineStep
<1>1. /\ state[d] = "invited" /\ state'[d] = "offered" /\ ~crashed /\ ~crashed'
      /\ \A e \in Dialogs \ {d} : state'[e] = state[e]
      /\ UNCHANGED <<role, sent, call, active, answerSdp>> /\ atA = "idle"
  BY NoLiberty, Moves DEF OnOffer, UpcallsAt, env, statics
<1>2. Live(d) /\ Live(d)'
  BY <1>1 DEF Live
<1>3. role[d] = "uas" /\ active = None /\ call[d] = None /\ sent[d] = None
  BY <1>1, <1>2, LiveRole DEF CallInv, InCallInv, DialogInv, OutgoingInv, IncomingInv, LineInv
<1>4. LineView = "idle" /\ LineView' = "ringing"
  BY <1>1, <1>2, <1>3 DEF ViewOK, ViewOf, Ringing
<1>5. LineInv'
  BY <1>1, <1>3 DEF LineInv
<1>6. Invites' = Invites /\ Answers' = Answers
  BY <1>1, SameMessages
<1> QED
  BY <1>4, <1>5, <1>6 DEF LineStep, Line!LineNext, Line!Ring, Line!Goes, Invites, Answers

LEMMA LineProgress ==
    ASSUME TypeOK, CallInv, ViewOK, ViewOK', LineInv, NEW d \in Dialogs, ~crashed', ~crashed,
           UNCHANGED <<role, sent, call, active, answerSdp>>,
           state[d] \in {"calling", "responded", "early", "answered"},
           state'[d] \in {"responded", "early", "answered", "connected", "failed"},
           \A e \in Dialogs \ {d} : state'[e] = state[e]
    PROVE  LineInv' /\ LineStep
<1>1. Live(d) /\ Live(d)'
  BY DEF Live
<1>2. role[d] = "uac"
  BY <1>1, LiveRole DEF CallInv, InCallInv, DialogInv, IncomingInv
<1>3. LineView' = LineView
  BY <1>1, <1>2 DEF ViewOK, ViewOf, Ringing
<1>4. LineInv'
  BY <1>2 DEF LineInv
<1> QED
  BY <1>3, <1>4, SameMessages, Stutters

LEMMA LineTerminated ==
    ASSUME Liberties = {}, TypeOK, CallInv, ViewOK, LineInv, NEW d \in Dialogs,
           NEW msg \in BOOLEAN, OnTerminated(d, msg)
    PROVE  LineInv' /\ LineStep
<1>1. /\ state[d] \in {"early", "failed", "connected", "offered", "cancelling"}
      /\ state'[d] = "terminated" /\ ~crashed
      /\ \A e \in Dialogs \ {d} : state'[e] = state[e]
      /\ UNCHANGED <<role, sent, call, answerSdp>>
  BY Moves DEF OnTerminated, statics
<1>2. Live(d) /\ LineView \in {"idle", "outgoing", "ringing", "accepted", "incoming"}
  BY <1>1 DEF Live, ViewOK, ViewOf
<1>3. active' = None
  BY <1>1, <1>2, LiveCall DEF OnTerminated
<1>4. \A e \in Dialogs : ~Ringing(e)'
  BY <1>1, <1>2 DEF Ringing, CallInv, InCallInv, OneLive, Live
<1>5. LineView' = "idle"
  BY <1>3, <1>4 DEF LineView
<1>6. LineInv'
  BY <1>1 DEF LineInv
<1> QED
  BY <1>1, <1>2, <1>5, <1>6, GetsOver

LEMMA LineInductive ==
    ASSUME Liberties = {}
    PROVE  TypeOK /\ CallInv /\ ViewOK /\ ViewOK' /\ LineInv /\ [Next]_vars
             => LineInv' /\ LineStep
<1> SUFFICES ASSUME TypeOK, CallInv, ViewOK, ViewOK', LineInv, [Next]_vars
             PROVE  LineInv' /\ LineStep
  OBVIOUS
<1>1. CASE Application
  <2>1. ~Reject /\ ~RejectSession /\ ~ResetRejected
    BY NoLiberty DEF Reject, RejectSession, ResetRejected, CallInv, InCallInv, ThreadInv
  <2>2. CASE ClearInCall \/ ResetSession \/ UnregisterUser
    BY <2>2, Inside DEF ClearInCall, ResetSession, UnregisterUser, dum, env, statics
  <2> QED
    BY <1>1, <2>1, <2>2, LineHangup, LineEnd DEF Application
<1>2. CASE WebRTC
  <2>1. ASSUME NEW c \in Calls, OnIceCandidate(c) \/ OnIceGatheringFinished(c)
        PROVE  LineInv' /\ LineStep
    BY <2>1, Inside DEF OnIceCandidate, OnIceGatheringFinished, dum, statics
  <2>2. CASE SetLocalSdp \/ SetInCall \/ SetCollected
    BY <2>2, Inside DEF SetLocalSdp, SetInCall, SetCollected, dum, env, statics
  <2> QED
    BY <1>2, <2>1, <2>2, LinePlace, LineAccept, LineInvite, LineAnswer DEF WebRTC
<1>3. ASSUME NEW d \in Dialogs, Callback(d) PROVE LineInv' /\ LineStep
  <2>1. ~OnForkDestroyed(d)
    BY NoLiberty DEF OnForkDestroyed
  <2>2. CASE OnProvisional(d) \/ OnAnswer(d) \/ OnConnected(d) \/ OnFailure(d)
    BY <2>2, Moves, LineProgress
       DEF OnProvisional, OnAnswer, OnConnected, OnFailure, ProgressIs, UpcallsAt, env, statics
  <2>3. CASE OnNewSessionClient(d)
    BY <2>3, NoLiberty, Moves, LineProgress DEF OnNewSessionClient, env, statics
  <2> QED
    BY <1>3, <2>1, <2>2, <2>3, LineArrive, LineRing, LineTerminated DEF Callback
<1>4. CASE EndOffer \/ EndAnswer \/ FinishTerminated
  BY <1>4, Inside DEF EndOffer, EndAnswer, FinishTerminated, dum, env, statics
<1>5. CASE UNCHANGED vars
  BY <1>5, Inside DEF vars, dum, env, statics
<1> QED
  BY <1>1, <1>2, <1>3, <1>4, <1>5 DEF Next, Receiver

\* One call at a time, SipControllerCore implements the telephone line, for any
\* number of calls and at every interleaving of its three threads that no liberty
\* opens: an INVITE goes out once for a call that was placed and is wanted, an answer
\* once for a call that rings and was accepted, whatever the flags, which follow
\* later, are by then (the safety part of LineKept).
THEOREM ImplementsLine ==
    ASSUME Liberties = {} PROVE Spec => Line!LineSpec
<1>1. Init => LineInv /\ Line!LineInit
  <2> SUFFICES ASSUME Init PROVE LineInv /\ Line!LineInit
    OBVIOUS
  <2>1. LineInv
    BY NoneAssumption DEF Init, LineInv
  <2>2. LineView = "idle"
    BY DEF Init, LineView, Ringing
  <2> QED
    BY <2>1, <2>2 DEF Init, Line!LineInit
<1>2. Spec => [](TypeOK /\ CallInv)
  BY CallInvariant, NoLiberty
<1>3. TypeOK /\ CallInv /\ ViewOK /\ ViewOK' /\ LineInv /\ [Next]_vars => LineInv' /\ LineStep
  BY LineInductive
<1> QED
  BY <1>1, <1>2, <1>3, ViewIsOK, PTL DEF Spec, Line!LineSpec, LineStep
=============================================================================
