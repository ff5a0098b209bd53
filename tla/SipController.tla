--------------------------- MODULE SipController ---------------------------
(***************************************************************************)
(* SipController.java with the upcalls of rtcsip_jni.cpp that drive it:    *)
(* the peer connection, the call info and the statistics of "the" call.    *)
(*                                                                         *)
(* Two threads call up into Java, one upcall at a time:                    *)
(*   "R"  the SIP receiver, in the callbacks of the DialogUsageManager;    *)
(*   "W"  WebRTC's signalling thread, which runs the observers of          *)
(*        PeerConnection and, through makeCall, answer, iceCandidate and   *)
(*        iceGatheringFinish, the native code they call.                   *)
(* todo[t] is what thread t has still to do in its callback.  Every upcall *)
(* is synchronized on the controller, so each is one step; only            *)
(* setRemoteSDP is two, because it waits for W while it owns the monitor   *)
(* (a PeerConnection method runs on the signalling thread).                *)
(*                                                                         *)
(* A call stands for its X-CallUUID, and the SIP side of a call is kept in *)
(* line; the native flags behind it are the subject of SipCall.            *)
(***************************************************************************)
EXTENDS Naturals, Sequences

CONSTANTS
    Calls,        \* calls, placed or received
    None,         \* Java's null
    Environments  \* sets of liberties (see AllLiberties)

(***************************************************************************)
(* The liberties of an environment, which are what the code relies on      *)
(* users, peers and threads not to take:                                   *)
(*                                                                         *)
(*  "survives"    the application swallows exceptions of native threads    *)
(*  "stalePc"     it places or takes a call without a hangup() before      *)
(*  "overlap"     R and W are in callbacks at the same time                *)
(*  "silent"      a call is answered or ends, on either side, before early *)
(*                media, the response that brings the X-CallUUID           *)
(*  "noUuid"      the peer sends no X-CallUUID                             *)
(*  "localHangup" a call ends by no message of the peer: it is ended       *)
(*                locally, replaced or referred, fails or times out        *)
(*  "callWaiting" a call comes in while another one is up                  *)
(*  "relogin"     a registration succeeds during a call                    *)
(***************************************************************************)
AllLiberties == {"survives", "stalePc", "overlap", "silent", "noUuid",
                 "localHangup", "callWaiting", "relogin"}

ASSUME EnvironmentsAssumption == Environments \subseteq SUBSET AllLiberties
ASSUME ControllerNoneAssumption ==    \* null is no call and no SignallingStats
    None \notin Calls /\ None \notin [xcallUUID : Calls \cup {None}, callUUID : BOOLEAN]

VARIABLES
    \* SipController
    pc,               \* the call whose PeerConnection the field holds
    didSentInvite, isIncomingCall, xcallid,
    signallingStats,  \* its two names; the time stamps are left out
    timer, running,   \* of CallInsights: the current timer, the timers that tick
    \* threads
    todo,             \* what each thread has to do before its callback returns
    inSetRemoteSDP,   \* R owns the monitor and waits for W
    \* environment and histories
    liberties,        \* those of the environment at hand
    line,             \* how far each call is
    placed,           \* calls that were placed, not received
    reports,          \* events handed to CallInsights
    npe               \* places of the NullPointerExceptions there were

javaVars == <<pc, didSentInvite, isIncomingCall, xcallid, signallingStats, timer, running, reports, npe>>
vars == <<javaVars, todo, inSetRemoteSDP, line, placed, liberties>>

May(liberty) == liberty \in liberties

Init ==
    /\ pc = None /\ didSentInvite = FALSE /\ isIncomingCall = FALSE
    /\ xcallid = None /\ signallingStats = None
    /\ timer = None /\ running = {}
    /\ todo = [t \in {"R", "W"} |-> <<>>]
    /\ inSetRemoteSDP = FALSE
    /\ line = [c \in Calls |-> "new"]
    /\ placed = {} /\ reports = <<>>
    /\ npe = {}
    /\ liberties \in Environments

\* An exception that is pending when R detaches from the VM ends the process.
Alive == npe = {} \/ May("survives")

Job(do, call, arg, status) == [do |-> do, call |-> call, arg |-> arg, status |-> status]
Log(c) == Job("log", c, None, 0)
State(c, state, status) == Job("state", c, state, status)

\* The X-CallUUID among the headers of a message of call c
Uuids(c) == {c} \cup (IF May("noUuid") THEN {None} ELSE {})

Busy(t) == todo[t] # <<>>

\* Thread t starts a callback with these jobs.
Starts(t, jobs) ==
    /\ Alive /\ ~Busy(t)
    /\ May("overlap") \/ ~(Busy("R") \/ Busy("W"))
    /\ todo' = [todo EXCEPT ![t] = jobs]
    /\ UNCHANGED inSetRemoteSDP

Moves(c, from, to) == line[c] \in from /\ line' = [line EXCEPT ![c] = to]

-----------------------------------------------------------------------------
(***************************************************************************)
(* Callbacks on the signalling thread, and the application's calls.        *)
(***************************************************************************)
Free == \A c \in Calls : line[c] \in {"new", "over"}
ReadyForCall == Free /\ (pc = None \/ May("stalePc"))

\* Outgoing.makeCall: a new PeerConnection, whose offer goes to makeCall.
MakeCall(c) ==
    /\ ReadyForCall /\ Starts("W", <<Log(c)>>)
    /\ Moves(c, {"new"}, "placed")
    /\ pc' = c
    /\ placed' = placed \cup {c}
    /\ UNCHANGED <<didSentInvite, isIncomingCall, xcallid, signallingStats, timer, running, reports, npe, liberties>>

\* Incoming.answer, doAnswer: the answer of the PeerConnection goes to answer().
DoAnswer(c) ==
    /\ pc # None
    /\ Moves(c, {"ringing"}, "accepting")
    /\ Starts("W", <<Log(c)>>)
    /\ UNCHANGED <<javaVars, placed, liberties>>

\* What native onIceGatheringFinished does for the call: sendSdpOffer, which
\* reports Calling when the INVITE is out, or sendSdpAnswer, which accepts
\* when CallAccepted has been reported.
GatheringFinish(c) ==
    CASE line[c] = "placed"    -> <<Job("invite", c, None, 0), State(c, "Calling", 0)>>
      [] line[c] = "accepting" -> <<State(c, "CallAccepted", 200), Job("accept", c, None, 0)>>
      [] OTHER                 -> <<>>

\* The observer's onIceCandidate.  Only W and hangup() use didSentInvite, and
\* close() waits for W, so it may be set at the start of the callback.  A
\* PeerConnection that setRemoteSDP makes after a hangup() gathers nothing: it
\* has no local description.
OnIceCandidate(c) ==
    /\ line[c] \notin {"new", "ringing", "over"} /\ pc = c
    /\ didSentInvite \/ line[c] \in {"placed", "accepting"}
    /\ Starts("W", <<Log(c)>> \o (IF didSentInvite THEN <<>> ELSE GatheringFinish(c)))
    /\ didSentInvite' = TRUE
    /\ UNCHANGED <<pc, isIncomingCall, xcallid, signallingStats, timer, running, reports, npe, line, placed, liberties>>

Hangup_KeepsInvite ==
    /\ Alive /\ pc # None /\ ~Busy("W")
    /\ pc' = None
    /\ UNCHANGED <<didSentInvite, isIncomingCall, xcallid, signallingStats, timer, running, reports, npe, todo, inSetRemoteSDP, line, placed, liberties>>

\* hangup() by the application, which may call it at any time: close() runs on W.
\* (Without a PeerConnection it throws in the application's own thread.)
Hangup ==
    /\ Alive /\ pc # None /\ ~Busy("W")
    /\ pc' = None /\ didSentInvite' = FALSE
    /\ UNCHANGED <<isIncomingCall, xcallid, signallingStats, timer, running, reports, npe, todo, inSetRemoteSDP, line, placed, liberties>>

-----------------------------------------------------------------------------
(***************************************************************************)
(* Callbacks on the receiver thread (SipControllerCore), as the upcalls    *)
(* they make.                                                              *)
(***************************************************************************)
Unheard == {"invited", "early"}       \* outgoing, no call info yet

OnNewSession(c) ==
    /\ Moves(c, {"invited"}, "early")
    /\ Starts("R", <<Job("sdp", c, None, 0)>>)
    /\ UNCHANGED <<javaVars, placed, liberties>>

OnEarlyMedia_Accepted(c) ==
    /\ Moves(c, {"early", "informed"}, "informed")
    /\ \E u \in Uuids(c) : Starts("R", <<Job("info", c, u, 0), State(c, "CallAccepted", 183)>>)
    /\ UNCHANGED <<javaVars, placed, liberties>>

OnEarlyMedia(c) ==
    /\ Moves(c, {"early", "informed"}, "informed")
    /\ \E u \in Uuids(c) : Starts("R", <<Job("info", c, u, 0), State(c, "EarlyMedia", 183)>>)
    /\ UNCHANGED <<javaVars, placed, liberties>>

OnAnswer(c) ==
    /\ Moves(c, {"informed"} \cup (IF May("silent") THEN {"early"} ELSE {}), "talking")
    /\ \E u \in Uuids(c) :
          Starts("R", <<State(c, "CallAccepted", 200), Job("info", c, u, 0), Job("accepted", c, None, 0)>>)
    /\ UNCHANGED <<javaVars, placed, liberties>>

OfferJobs(c, u) == <<Job("info", c, u, 0), Job("sdp", c, None, 0),
                     Job("incoming", c, None, 0), State(c, "EarlyMedia", 183)>>

OnOffer(c) ==
    /\ \/ ReadyForCall /\ Moves(c, {"new"}, "ringing")
       \/ May("callWaiting") /\ ~Free /\ Moves(c, {"new"}, "waiting")
    /\ \E u \in Uuids(c) : Starts("R", OfferJobs(c, u))
    /\ UNCHANGED <<javaVars, placed, liberties>>

\* The status code that onTerminated reports for a reason, and the codes of the
\* responses that take its place: one for each range that Java tells apart.
StatusOf(reason) ==
    CASE reason = "RemoteBye" -> 200 [] reason = "RemoteCancel" -> 487
      [] reason = "Rejected"  -> 486 [] OTHER -> 603
Responses == {404, 408, 480, 486, 487, 500, 503, 603}
LocalReasons == {"LocalBye", "LocalCancel", "Replaced", "Referred", "Error", "Timeout"}

\* How a call may end: the reason and the status code of onTerminated.  A peer
\* rejects with a response, a BYE and a CANCEL are requests; the other reasons
\* come with a response (the 487 of a CANCEL, the 408 of a timeout) or not.
Ends(c) ==
    LET heard == line[c] \notin Unheard \/ May("silent")
    IN  (CASE line[c] \in Unheard \cup {"informed"} /\ heard -> {"Rejected"} \X Responses
           [] line[c] = "talking" -> {<<"RemoteBye", StatusOf("RemoteBye")>>}
           [] line[c] \in {"ringing", "accepting", "waiting"} ->
                  {<<"RemoteCancel", StatusOf("RemoteCancel")>>}
           [] OTHER -> {})
        \cup (IF May("localHangup") /\ heard /\ line[c] \notin {"new", "placed", "over"}
              THEN {<<r, StatusOf(r)>> : r \in LocalReasons} \cup (LocalReasons \X Responses)
              ELSE {})

\* A final error as the first response finds isUACRejected as it was, and with
\* it set (it is not initialised) onTerminated reports no state.
OnTerminated(c) ==
    \E end \in Ends(c) :
        /\ Moves(c, {line[c]}, "over")
        /\ \/ Starts("R", <<State(c, end[1], end[2]), Job("terminate", c, None, 0)>>)
           \/ line[c] = "invited" /\ Starts("R", <<Job("terminate", c, None, 0)>>)
        /\ UNCHANGED <<javaVars, placed, liberties>>

\* onSuccess of a registration hands its own call info on, which has no UUID.
OnSuccess ==
    /\ Free \/ May("relogin")
    /\ Starts("R", <<Job("info", None, None, 0), Job("registered", None, None, 0)>>)
    /\ UNCHANGED <<javaVars, line, placed, liberties>>

-----------------------------------------------------------------------------
(***************************************************************************)
(* One job of a thread.                                                    *)
(***************************************************************************)
Next_(t) == Head(todo[t])
Done(t)  == todo' = [todo EXCEPT ![t] = Tail(@)]

\* Thread t is about to make an upcall, and the monitor is free.
Upcall(t, do) == Alive /\ Busy(t) /\ Next_(t).do = do /\ ~inSetRemoteSDP

Npe(place) ==
    /\ npe' = npe \cup {place}
    /\ UNCHANGED <<signallingStats, timer, running, reports>>

Report(msg, c, stats, incoming) ==
    reports' = Append(reports, [msg |-> msg, call |-> c, uuid |-> stats.xcallUUID, incoming |-> incoming])

\* SignallingStats.setXCallUUID keeps the first UUID, and cannot take null.
XCallUUIDFails == signallingStats.xcallUUID = None /\ xcallid = None
WithXCallUUID == [signallingStats EXCEPT !.xcallUUID = IF @ = None THEN xcallid ELSE @]

\* setCallUUID names the call on the server, once, and cannot take null.
CallUUIDFails == ~signallingStats.callUUID /\ xcallid = None

NewStats == [xcallUUID |-> None, callUUID |-> FALSE]

\* The branch CallAccepted: the answer event, then the timer of sendRtpStats.
Accepted(c) ==
    IF signallingStats = None \/ XCallUUIDFails
    THEN Npe("answer")
    ELSE /\ signallingStats' = WithXCallUUID
         /\ Report("CALL_ANSWERED", c, signallingStats', isIncomingCall)
         /\ timer' = c /\ running' = running \cup {c}
         /\ UNCHANGED npe

StopTimer_Forgotten == UNCHANGED <<timer, running>>

\* CallInsights.stopTimer cancels the timer that the field holds.
StopTimer == running' = running \ {timer} /\ UNCHANGED timer

\* The summary event and stopTimer, when setting the names does not throw;
\* clean says whether cleanupCallData follows.
Summarised(c, setsX, clean) ==
    IF signallingStats = None \/ (setsX /\ XCallUUIDFails) \/ CallUUIDFails
    THEN Npe("summary") /\ UNCHANGED xcallid
    ELSE LET stats == IF setsX THEN WithXCallUUID ELSE signallingStats
         IN  /\ Report("CALL_SUMMARY", c, stats, isIncomingCall)
             /\ signallingStats' = IF clean THEN None ELSE [stats EXCEPT !.callUUID = TRUE]
             /\ xcallid' = IF clean THEN None ELSE xcallid
             /\ StopTimer
             /\ UNCHANGED npe

CleanupCallData ==
    /\ signallingStats' = None /\ xcallid' = None
    /\ UNCHANGED <<timer, running, reports, npe>>

Unaffected == UNCHANGED <<signallingStats, xcallid, timer, running, reports, npe>>

OnCalling_Nothing == Unaffected

OnCalling_Reuses ==
    /\ signallingStats' = IF signallingStats = None THEN NewStats ELSE signallingStats
    /\ UNCHANGED <<xcallid, timer, running, reports, npe>>

\* A call begins: new statistics
OnCalling ==
    /\ signallingStats' = NewStats
    /\ UNCHANGED <<xcallid, timer, running, reports, npe>>

\* The states that name a CallState; the others name a TerminatedReason.
Underway == {"Calling", "EarlyMedia", "CallAccepted"}

OutgoingCallStates(c, state, status) ==
    CASE state = "Calling" -> OnCalling
      [] state = "EarlyMedia" ->
            IF signallingStats = None THEN Npe("early") /\ UNCHANGED xcallid ELSE Unaffected
      [] state = "CallAccepted"                                  -> Accepted(c) /\ UNCHANGED xcallid
      [] state \notin Underway /\ status \in 480 .. 489          -> Summarised(c, status = 486, FALSE)
      [] state \notin Underway /\ status \in 404 .. 408 \cup {503} -> CleanupCallData
      [] state \notin Underway /\ status = 200                   -> Summarised(c, FALSE, TRUE)
      [] OTHER                                                   -> Unaffected

\* setXCallUUID("") at the end of two branches changes nothing: the UUID is set.
IncomingCallStates(c, state, status) ==
    CASE state = "EarlyMedia" ->
            signallingStats' = NewStats /\ UNCHANGED <<xcallid, timer, running, reports, npe>>
      [] state = "CallAccepted"                           -> Accepted(c) /\ UNCHANGED xcallid
      [] state \notin Underway /\ status \in {486, 487}   -> Summarised(c, TRUE, FALSE)
      [] state \notin Underway /\ status = 200            -> Summarised(c, TRUE, TRUE)
      [] state \notin Underway /\ status \in {408, 603}   -> CleanupCallData
      [] OTHER                                            -> Unaffected

SetCallState(t) ==
    /\ Upcall(t, "state") /\ Done(t)
    /\ LET job == Next_(t)
       IN  IF isIncomingCall THEN IncomingCallStates(job.call, job.arg, job.status)
                             ELSE OutgoingCallStates(job.call, job.arg, job.status)
    /\ UNCHANGED <<pc, didSentInvite, isIncomingCall, inSetRemoteSDP, line, placed, liberties>>

\* Variant: the whole call info is kept, not the X-CallUUID in it
SetCallInfo_Unparsed(t) ==
    /\ Upcall(t, "info") /\ Done(t)
    /\ xcallid' = <<"call_id", Next_(t).call, Next_(t).arg>>
    /\ UNCHANGED <<pc, didSentInvite, isIncomingCall, signallingStats, timer, running, reports, npe, inSetRemoteSDP, line, placed, liberties>>

SetCallInfo(t) ==
    /\ Upcall(t, "info") /\ Done(t)
    /\ xcallid' = Next_(t).arg
    /\ UNCHANGED <<pc, didSentInvite, isIncomingCall, signallingStats, timer, running, reports, npe, inSetRemoteSDP, line, placed, liberties>>

\* onCall(INCOMING_CALL)
OnIncomingCall(t) ==
    /\ Upcall(t, "incoming") /\ Done(t)
    /\ isIncomingCall' = TRUE
    /\ UNCHANGED <<pc, didSentInvite, xcallid, signallingStats, timer, running, reports, npe, inSetRemoteSDP, line, placed, liberties>>

\* onCall(TERMINATE_CALL): the listener calls hangup() through a field that
\* nothing assigns.
OnTerminateCall(t) ==
    /\ Upcall(t, "terminate") /\ Done(t)
    /\ Npe("hangup")
    /\ UNCHANGED <<pc, didSentInvite, isIncomingCall, xcallid, inSetRemoteSDP, line, placed, liberties>>

\* onRegistration(REGISTERED): a new CallInsights, with no timer of its own
OnRegistration(t) ==
    /\ Upcall(t, "registered") /\ Done(t)
    /\ timer' = None
    /\ UNCHANGED <<pc, didSentInvite, isIncomingCall, xcallid, signallingStats, running, reports, npe, inSetRemoteSDP, line, placed, liberties>>

\* onLog, and onCall(CALL_ACCEPTED)
OnLog(t) ==
    /\ Upcall(t, "log") \/ Upcall(t, "accepted")
    /\ Done(t)
    /\ UNCHANGED <<javaVars, inSetRemoteSDP, line, placed, liberties>>

\* setRemoteSDP takes the monitor, creates the PeerConnection if there is none
\* and hands the description to the signalling thread,
SetRemoteSDP(t) ==
    /\ Upcall(t, "sdp")
    /\ inSetRemoteSDP' = TRUE
    /\ UNCHANGED <<javaVars, todo, line, placed, liberties>>

\* which answers when it is not in a callback.
SetRemoteSDPReturns(t) ==
    /\ Alive /\ inSetRemoteSDP /\ Busy(t) /\ Next_(t).do = "sdp" /\ ~Busy("W")
    /\ inSetRemoteSDP' = FALSE /\ Done(t)
    /\ pc' = IF pc = None THEN Next_(t).call ELSE pc
    /\ UNCHANGED <<didSentInvite, isIncomingCall, xcallid, signallingStats, timer, running, reports, npe, line, placed, liberties>>

\* Jobs that are no upcalls: the INVITE, or the 200 OK, leaves.
SipMessageOut(t) ==
    /\ Alive /\ Busy(t) /\ Next_(t).do \in {"invite", "accept"}
    /\ LET c == Next_(t).call
       IN  IF line[c] = "over" THEN UNCHANGED line
           ELSE line' = [line EXCEPT ![c] = IF Next_(t).do = "invite" THEN "invited" ELSE "talking"]
    /\ Done(t)
    /\ UNCHANGED <<javaVars, inSetRemoteSDP, placed, liberties>>

-----------------------------------------------------------------------------
ThreadStep(t) ==
    \/ SetCallState(t) \/ SetCallInfo(t) \/ OnIncomingCall(t) \/ OnTerminateCall(t)
    \/ OnRegistration(t) \/ OnLog(t) \/ SetRemoteSDP(t) \/ SetRemoteSDPReturns(t) \/ SipMessageOut(t)

CallEvent(c) ==
    \/ MakeCall(c) \/ DoAnswer(c) \/ OnIceCandidate(c) \/ OnNewSession(c) \/ OnEarlyMedia(c)
    \/ OnAnswer(c) \/ OnOffer(c) \/ OnTerminated(c)

Next ==
    \/ \E t \in {"R", "W"} : ThreadStep(t)
    \/ \E c \in Calls : CallEvent(c)
    \/ OnSuccess
    \/ Hangup

Spec == Init /\ [][Next]_vars

\* Threads run on, and a PeerConnection that gathers reports a candidate.
FairSpec ==
    /\ Spec
    /\ \A t \in {"R", "W"} : WF_vars(ThreadStep(t))
    /\ \A c \in Calls : SF_vars(line[c] \in {"placed", "accepting"} /\ OnIceCandidate(c))

-----------------------------------------------------------------------------
Jobs == [do : {"info", "sdp", "incoming", "terminate", "registered", "log", "accepted", "invite", "accept", "state"},
         call : Calls \cup {None},
         arg : Calls \cup {None, "Calling", "EarlyMedia", "CallAccepted", "Rejected", "RemoteBye", "RemoteCancel"} \cup LocalReasons,
         status : 0 .. 699]

TypeOK ==
    /\ pc \in Calls \cup {None} /\ xcallid \in Calls \cup {None} /\ timer \in Calls \cup {None}
    /\ didSentInvite \in BOOLEAN /\ isIncomingCall \in BOOLEAN /\ inSetRemoteSDP \in BOOLEAN
    /\ signallingStats \in [xcallUUID : Calls \cup {None}, callUUID : BOOLEAN] \cup {None}
    /\ running \subseteq Calls
    /\ \A t \in {"R", "W"} : \A i \in DOMAIN todo[t] : todo[t][i] \in Jobs
    /\ line \in [Calls -> {"new", "placed", "invited", "early", "informed", "talking",
                           "ringing", "accepting", "waiting", "over"}]
    /\ npe \subseteq {"hangup", "answer", "summary", "early"} /\ liberties \in Environments
    /\ inSetRemoteSDP => Busy("R") /\ Next_("R").do = "sdp"

\* The environment takes no liberty but these, and perhaps "survives".
Only(tolerated) == liberties \subseteq tolerated \cup {"survives"}

AllBut(refused) == AllLiberties \ refused

\* Of the statistics of a call nothing is null when setCallState
\* (SipController.java:225) uses it: signallingStats exists and the X-CallUUID
\* has arrived, in whatever order calls are placed, received and ended.
OnlyHangupThrows == Only({"stalePc", "localHangup"}) => npe \subseteq {"hangup"}

\* A call that is answered is reported as answered ("send call answerstats",
\* SipController.java:266), although CallAccepted comes up before the call info
\* of the same message: the UUID has come with an earlier one.
AnswerReported ==
    Only({"stalePc", "localHangup"}) =>
        \A c \in Calls :
            line[c] = "talking" /\ (\A t \in {"R", "W"} : ~Busy(t)) =>
                \E i \in DOMAIN reports : reports[i].call = c /\ reports[i].msg = "CALL_ANSWERED"

\* An event that is reported to CallInsights carries the UUID of the call it is
\* about, although xcallid outlives calls that are rejected (480-489) and the
\* registration overwrites it; and a received call is reported as incoming.
ReportsOwnCall ==
    Only({"stalePc", "noUuid", "localHangup", "relogin"}) =>
        \A i \in DOMAIN reports :
            /\ reports[i].uuid \in {reports[i].call, None}
            /\ reports[i].call \notin placed => reports[i].incoming

\* A call is reported as answered at most once, and ends with one summary, after
\* its answer.
SummaryLast ==
    Only(AllBut({"overlap"})) =>
        \A i, j \in DOMAIN reports :
            i < j /\ reports[i].call = reports[j].call =>
                reports[i].msg = "CALL_ANSWERED" /\ reports[j].msg = "CALL_SUMMARY"

\* When no call is up and the receiver is done, no timer of a call ticks on:
\* each end of a call that was answered has reached stopTimer.
TimersStopped ==
    Only({"stalePc", "silent", "callWaiting"}) =>
        (Free /\ ~Busy("R") /\ ~Busy("W") => running = {})

\* A call that is placed goes out and one that is taken is accepted: the first
\* candidate finds didSentInvite reset (SipController.java:385) and starts the
\* native side, unless the application closes the PeerConnection with hangup().
\* With overlap the threads may wait for each other before that.
CallProceeds ==
    Only(AllBut({"stalePc", "overlap"})) =>
        \A c \in Calls :
            line[c] \in {"placed", "accepting"} ~>
                (line[c] \notin {"placed", "accepting"} \/ pc # c \/ ~Alive)
=============================================================================
