---------------------------- MODULE CallInsights ----------------------------
(***************************************************************************)
(* CallInsights: the buffer of call statistics, the web socket that is     *)
(* opened when there is something to send, and the timer that samples the  *)
(* RTP statistics of a call.  No lock protects any of them, and they are   *)
(* used by                                                                 *)
(*   "upcall"  the thread that reports call states: SipController's        *)
(*             setCallState is synchronized, so there is one at a time;    *)
(*   "media"   WebRTC's thread, in the callbacks of getStats;              *)
(*   "app"     the application, which may send feedback;                   *)
(*   a client  each web socket has a thread of its own, which runs onOpen. *)
(* A step is a stretch of code that touches the shared state once: one add *)
(* to the buffer, one test of the socket, one turn of the loop that sends. *)
(***************************************************************************)
EXTENDS Naturals, Sequences, FiniteSets, SequencesExt

CONSTANTS
    Calls,        \* calls whose statistics are recorded by one CallInsights
    Clients,      \* WebSocketClient objects, a bound on how often one is made
    MaxTicks,     \* bound: samples of a call
    None,         \* no web socket, no timer
    Environments  \* sets of liberties (see AllLiberties)

(***************************************************************************)
(* The liberties of an environment:                                        *)
(*                                                                         *)
(*  "overlap"   two threads are inside CallInsights at the same time       *)
(*  "drop"      a web socket fails to open, or is closed by the peer       *)
(*  "noUuid"    a stat has no xcallUUID                                    *)
(*  "unstopped" a call ends locally: status 603, which SipController       *)
(*              answers without sendSummaryEvent and stopTimer             *)
(*  "feedback"  the application sends feedback                             *)
(***************************************************************************)
AllLiberties == {"overlap", "drop", "noUuid", "unstopped", "feedback"}

ASSUME InsightsEnvironmentsAssumption == Environments \subseteq SUBSET AllLiberties
ASSUME MaxTicksAssumption == MaxTicks \in Nat
ASSUME InsightsNoneAssumption == None \notin Calls \cup Clients
ASSUME ClientsAssumption == Clients \cap {"upcall", "media", "app"} = {}

Producers == {"upcall", "media", "app"}
Threads   == Producers \cup Clients

Global_rtpBatchSize == 1

Stats == [msg : {"CALL_ANSWERED", "CALL_STATS", "CALL_SUMMARY", "FEEDBACK"},
          call : Calls, n : 0 .. MaxTicks, uuid : BOOLEAN]

NoLoop == [cursor |-> 0, limit |-> 0, valid |-> FALSE]

VARIABLES
    callInsightsKey,   \* whether the server has sent the key
    rtpFlagEnabled,    \* is_rtp_enabled of its response
    statBuffer,
    mWebSocketClient,  \* the field, which onOpen and the loops read each time
    readyState,        \* of each web socket: unused, connecting, open, closed
    at,                \* where each thread is
    stat,              \* the argument of sendStats on each producer
    iter,              \* the iterator of each thread's loop over statBuffer
    timer,             \* the field: the call whose timer it is
    running,           \* the timers that tick
    fetched,           \* calls whose getStats is in flight
    ticks,             \* samples taken of each call
    phase,             \* where SipController is with each call
    liberties,         \* those of the environment at hand
    recorded, sent,    \* histories: stats put into the buffer, stats sent
    thrown             \* threads on which an exception left CallInsights

bufferVars == <<statBuffer, recorded, sent>>
socketVars == <<mWebSocketClient, readyState>>
threadVars == <<at, stat, iter, thrown>>
timerVars  == <<timer, running, fetched, ticks>>
vars == <<callInsightsKey, rtpFlagEnabled, bufferVars, socketVars, threadVars, timerVars, phase, liberties>>

May(liberty) == liberty \in liberties

Init ==
    /\ callInsightsKey = FALSE /\ rtpFlagEnabled = FALSE
    /\ statBuffer = <<>>
    /\ mWebSocketClient = None
    /\ readyState = [c \in Clients |-> "unused"]
    /\ at = [t \in Threads |-> "idle"]
    /\ stat = [t \in Producers |-> None]
    /\ iter = [t \in Threads |-> NoLoop]
    /\ timer = None /\ running = {} /\ fetched = {}
    /\ ticks = [c \in Calls |-> 0]
    /\ phase = [c \in Calls |-> "new"]
    /\ recorded = <<>> /\ sent = <<>>
    /\ thrown = {}
    /\ liberties \in Environments

\* An exception that leaves a callback of JNI or of WebRTC ends the process.
Alive == thrown = {}

\* Without the liberty "overlap" a thread enters only when no other is inside.
Alone(t) == May("overlap") \/ \A u \in Threads \ {t} : at[u] = "idle"

\* mWebSocketClient != null && mWebSocketClient.isOpen()
IsOpen == mWebSocketClient # None /\ readyState[mWebSocketClient] = "open"

UnusedClients == {c \in Clients : readyState[c] = "unused"}

\* The bound on sockets, so that every sendStats under way can open one.
ClientLeft == Cardinality(UnusedClients) > Cardinality({t \in Producers : at[t] = "send"})

\* ArrayList is fail-fast: add and clear invalidate the iterators there are.
Invalidated == [t \in Threads |-> [iter[t] EXCEPT !.valid = FALSE]]

StatOf(msg, call, n) ==
    {s \in Stats : s.msg = msg /\ s.call = call /\ s.n = n /\ (s.uuid \/ May("noUuid"))}

-----------------------------------------------------------------------------
(***************************************************************************)
(* The response to getCallStatsKey; the HTTP task may also fail for good.  *)
(***************************************************************************)
KeyResponse ==
    /\ Alive /\ ~callInsightsKey
    /\ callInsightsKey' = TRUE
    /\ rtpFlagEnabled' \in BOOLEAN
    /\ UNCHANGED <<liberties, bufferVars, socketVars, threadVars, timerVars, phase>>

\* statBuffer.add(s), and on to sendStats(s)
Buffer(t, s) ==
    /\ statBuffer' = Append(statBuffer, s)
    /\ recorded' = Append(recorded, s)
    /\ iter' = Invalidated
    /\ stat' = [stat EXCEPT ![t] = s]
    /\ at' = [at EXCEPT ![t] = "send"]
    /\ UNCHANGED <<sent, thrown>>

Enter(t) == Alive /\ at[t] = "idle" /\ Alone(t) /\ ClientLeft

\* sendAnswerEvent and sendSummaryEvent of the stats of a call
SendEvent(msg, call) ==
    \/ ~callInsightsKey /\ UNCHANGED <<bufferVars, threadVars>>
    \/ callInsightsKey /\ \E s \in StatOf(msg, call, 0) : Buffer("upcall", s)

Between == \A c \in Calls : phase[c] \notin {"answering", "ending"}

SendAnswerEvent(call) ==
    /\ Enter("upcall") /\ Between
    /\ phase[call] = "new" /\ \A c \in Calls : phase[c] # "talking"
    /\ phase' = [phase EXCEPT ![call] = "answering"]
    /\ SendEvent("CALL_ANSWERED", call)
    /\ UNCHANGED <<liberties, callInsightsKey, rtpFlagEnabled, socketVars, timerVars>>

\* SipController calls sendRtpStats right after sendAnswerEvent: a new timer
\* takes the place of the old one, which is not cancelled.  Tracking is always
\* enabled, because the options are an empty map.
SendRtpStats(call) ==
    /\ Alive /\ at["upcall"] = "idle" /\ phase[call] = "answering"
    /\ phase' = [phase EXCEPT ![call] = "talking"]
    /\ timer' = call
    /\ running' = running \cup {call}
    /\ UNCHANGED <<liberties, callInsightsKey, rtpFlagEnabled, bufferVars, socketVars, threadVars, fetched, ticks>>

\* The timer task: getStats, whose callback comes later on WebRTC's thread.
Tick(call) ==
    /\ Alive /\ call \in running \ fetched /\ ticks[call] < MaxTicks
    /\ fetched' = fetched \cup {call}
    /\ ticks' = [ticks EXCEPT ![call] = @ + 1]
    /\ UNCHANGED <<liberties, callInsightsKey, rtpFlagEnabled, bufferVars, socketVars, threadVars, timer, running, phase>>

RtpCallback(call) ==
    /\ Enter("media") /\ call \in fetched
    /\ fetched' = fetched \ {call}
    /\ \/ ~rtpFlagEnabled /\ UNCHANGED <<bufferVars, threadVars>>
       \/ rtpFlagEnabled /\ \E s \in StatOf("CALL_STATS", call, ticks[call]) : Buffer("media", s)
    /\ UNCHANGED <<liberties, callInsightsKey, rtpFlagEnabled, socketVars, timer, running, ticks, phase>>

SendSummaryEvent(call) ==
    /\ Enter("upcall") /\ Between
    /\ phase[call] \in {"new", "talking"}
    /\ phase[call] = "new" => \A c \in Calls : phase[c] # "talking"
    /\ phase' = [phase EXCEPT ![call] = "ending"]
    /\ SendEvent("CALL_SUMMARY", call)
    /\ UNCHANGED <<liberties, callInsightsKey, rtpFlagEnabled, socketVars, timerVars>>

\* SipController calls stopTimer right after sendSummaryEvent.
StopTimer_KeepsTimer(call) ==
    /\ Alive /\ at["upcall"] = "idle" /\ Alone("upcall") /\ phase[call] = "ending"
    /\ phase' = [phase EXCEPT ![call] = "over"]
    /\ IF IsOpen
       THEN readyState' = [readyState EXCEPT ![mWebSocketClient] = "closed"] /\ UNCHANGED running
       ELSE running' = running \ {timer} /\ UNCHANGED readyState
    /\ UNCHANGED <<liberties, callInsightsKey, rtpFlagEnabled, bufferVars, mWebSocketClient, threadVars, timer, fetched, ticks>>

StopTimer(call) ==
    /\ Alive /\ at["upcall"] = "idle" /\ Alone("upcall") /\ phase[call] = "ending"
    /\ phase' = [phase EXCEPT ![call] = "over"]
    /\ readyState' = IF IsOpen THEN [readyState EXCEPT ![mWebSocketClient] = "closed"] ELSE readyState
    /\ running' = running \ {timer}
    /\ UNCHANGED <<liberties, callInsightsKey, rtpFlagEnabled, bufferVars, mWebSocketClient, threadVars, timer, fetched, ticks>>

\* A call that is ended locally is over for SipController and not for this class.
LocalEnd(call) ==
    /\ May("unstopped") /\ Alive /\ Between /\ phase[call] = "talking"
    /\ phase' = [phase EXCEPT ![call] = "over"]
    /\ UNCHANGED <<liberties, callInsightsKey, rtpFlagEnabled, bufferVars, socketVars, threadVars, timerVars>>

SendFeedbackEvent(call) ==
    /\ May("feedback") /\ Enter("app") /\ callInsightsKey
    /\ \A i \in DOMAIN recorded : recorded[i].msg # "FEEDBACK"      \* bound: once
    /\ \E s \in StatOf("FEEDBACK", call, 0) : Buffer("app", s)
    /\ UNCHANGED <<liberties, callInsightsKey, rtpFlagEnabled, socketVars, timerVars, phase>>

-----------------------------------------------------------------------------
Goto(t, place) == at' = [at EXCEPT ![t] = place]

\* Thread t returns, and its local variables are gone; its loop had iterators its.
Return(t, its) ==
    /\ Goto(t, "idle")
    /\ stat' = [p \in Producers |-> IF p = t THEN None ELSE stat[p]]
    /\ iter' = [its EXCEPT ![t] = NoLoop]

\* for (JSONObject stat: statBuffer): a new iterator
StartLoop(t) ==
    /\ iter' = [iter EXCEPT ![t] = [cursor |-> 0, limit |-> Len(statBuffer), valid |-> TRUE]]
    /\ Goto(t, "flush")

\* sendStats from its first line to the loop, or to connect().
SendStats(t) ==
    /\ Alive /\ at[t] = "send"
    /\ LET unsent == ~stat[t].uuid
           waits  == stat[t].msg = "CALL_STATS" /\ Len(statBuffer) < Global_rtpBatchSize
       IN  \/ /\ unsent \/ waits
              /\ Return(t, iter)
              /\ UNCHANGED socketVars
           \/ /\ ~unsent /\ ~waits /\ IsOpen
              /\ StartLoop(t)
              /\ UNCHANGED <<stat, socketVars>>
           \/ /\ ~unsent /\ ~waits /\ ~IsOpen
              /\ \E c \in UnusedClients :
                    /\ mWebSocketClient' = c
                    /\ readyState' = [readyState EXCEPT ![c] = "connecting"]
              /\ Return(t, iter)
    /\ UNCHANGED <<liberties, callInsightsKey, rtpFlagEnabled, bufferVars, thrown, timerVars, phase>>

\* One turn of the loop: send() on the field, if that socket is open.
SendNext_Backwards(t) ==
    /\ Alive /\ at[t] = "flush" /\ iter[t].cursor < iter[t].limit
    /\ iter[t].valid /\ IsOpen
    /\ sent' = Append(sent, statBuffer[iter[t].limit - iter[t].cursor])
    /\ iter' = [iter EXCEPT ![t].cursor = @ + 1]
    /\ UNCHANGED <<liberties, callInsightsKey, rtpFlagEnabled, statBuffer, recorded, socketVars, at, stat, thrown, timerVars, phase>>

SendNext_Skips(t) ==
    /\ Alive /\ at[t] = "flush" /\ iter[t].cursor < iter[t].limit
    /\ iter[t].valid /\ IsOpen
    /\ sent' = Append(sent, statBuffer[iter[t].cursor + 1])
    /\ iter' = [iter EXCEPT ![t].cursor = @ + 2]
    /\ UNCHANGED <<liberties, callInsightsKey, rtpFlagEnabled, statBuffer, recorded, socketVars, at, stat, thrown, timerVars, phase>>

SendNext(t) ==
    /\ Alive /\ at[t] = "flush" /\ iter[t].cursor < iter[t].limit
    /\ iter[t].valid /\ IsOpen
    /\ sent' = Append(sent, statBuffer[iter[t].cursor + 1])
    /\ iter' = [iter EXCEPT ![t].cursor = @ + 1]
    /\ UNCHANGED <<liberties, callInsightsKey, rtpFlagEnabled, statBuffer, recorded, socketVars, at, stat, thrown, timerVars, phase>>

\* statBuffer.clear() after the loop
Clear_Forgotten(t) ==
    /\ Alive /\ at[t] = "flush" /\ iter[t].cursor = iter[t].limit
    /\ Return(t, iter)
    /\ UNCHANGED <<liberties, callInsightsKey, rtpFlagEnabled, bufferVars, socketVars, thrown, timerVars, phase>>

Clear(t) ==
    /\ Alive /\ at[t] = "flush" /\ iter[t].cursor = iter[t].limit
    /\ statBuffer' = <<>>
    /\ Return(t, Invalidated)
    /\ UNCHANGED <<liberties, callInsightsKey, rtpFlagEnabled, recorded, sent, socketVars, thrown, timerVars, phase>>

\* A turn of the loop that throws: next() when the buffer was changed behind the
\* iterator, send() when the socket is not open.  At the end of the loop an
\* invalid iterator ends it or throws, depending on the Android version: hasNext
\* compares the cursor with the size at the start of the loop or with the size now.
LoopThrows_Clears(t) ==
    /\ Alive /\ at[t] = "flush"
    /\ iter[t].cursor < iter[t].limit /\ ~(iter[t].valid /\ IsOpen)
    /\ statBuffer' = <<>>
    /\ Return(t, Invalidated)
    /\ thrown' = thrown \cup ({t} \cap Producers)
    /\ UNCHANGED <<liberties, callInsightsKey, rtpFlagEnabled, recorded, sent, socketVars, timerVars, phase>>

LoopThrows(t) ==
    /\ Alive /\ at[t] = "flush"
    /\ \/ iter[t].cursor < iter[t].limit /\ ~(iter[t].valid /\ IsOpen)
       \/ iter[t].cursor = iter[t].limit /\ ~iter[t].valid /\ Len(statBuffer) # iter[t].cursor
    /\ Return(t, iter)
    \* WebSocketImpl.open catches what onOpen throws; nobody else does.
    /\ thrown' = thrown \cup ({t} \cap Producers)
    /\ UNCHANGED <<liberties, callInsightsKey, rtpFlagEnabled, bufferVars, socketVars, timerVars, phase>>

-----------------------------------------------------------------------------
(***************************************************************************)
(* The web sockets (java_websocket).  A socket is open before its thread   *)
(* is in onOpen; one that fails or is closed is not open any more.         *)
(***************************************************************************)
Open(c) ==
    /\ Alive /\ readyState[c] = "connecting" /\ Alone(c)
    /\ readyState' = [readyState EXCEPT ![c] = "open"]
    /\ Goto(c, "opened")
    /\ UNCHANGED <<liberties, callInsightsKey, rtpFlagEnabled, bufferVars, mWebSocketClient, stat, iter, thrown, timerVars, phase>>

OnOpen(c) ==
    /\ Alive /\ at[c] = "opened"
    /\ StartLoop(c)
    /\ UNCHANGED <<liberties, callInsightsKey, rtpFlagEnabled, bufferVars, socketVars, stat, thrown, timerVars, phase>>

Drop(c) ==
    /\ May("drop") /\ Alive /\ readyState[c] \in {"connecting", "open"}
    /\ readyState' = [readyState EXCEPT ![c] = "closed"]
    /\ UNCHANGED <<liberties, callInsightsKey, rtpFlagEnabled, bufferVars, mWebSocketClient, threadVars, timerVars, phase>>

-----------------------------------------------------------------------------
Loop(t) == SendNext(t) \/ Clear(t) \/ LoopThrows(t)

CallStep(call) ==
    \/ SendAnswerEvent(call) \/ SendRtpStats(call) \/ Tick(call) \/ RtpCallback(call)
    \/ SendSummaryEvent(call) \/ StopTimer(call) \/ LocalEnd(call) \/ SendFeedbackEvent(call)

Next ==
    \/ KeyResponse
    \/ \E call \in Calls : CallStep(call)
    \/ \E t \in Producers : SendStats(t)
    \/ \E t \in Threads : Loop(t)
    \/ \E c \in Clients : Open(c) \/ OnOpen(c) \/ Drop(c)

Spec == Init /\ [][Next]_vars

(***************************************************************************)
(* Threads that are inside CallInsights run on, and a socket that connects *)
(* is opened in the end.  Nothing is assumed of calls, ticks and the key.  *)
(***************************************************************************)
FairSpec ==
    /\ Spec
    /\ \A t \in Producers : WF_vars(SendStats(t))
    /\ \A t \in Threads : WF_vars(Loop(t))
    /\ \A c \in Clients : WF_vars(Open(c)) /\ WF_vars(OnOpen(c))
    /\ \A call \in Calls : WF_vars(SendRtpStats(call)) /\ WF_vars(StopTimer(call))

-----------------------------------------------------------------------------
TypeOK ==
    /\ callInsightsKey \in BOOLEAN /\ rtpFlagEnabled \in BOOLEAN
    /\ statBuffer \in Seq(Stats) /\ recorded \in Seq(Stats) /\ sent \in Seq(Stats)
    /\ mWebSocketClient \in Clients \cup {None}
    /\ readyState \in [Clients -> {"unused", "connecting", "open", "closed"}]
    /\ at \in [Threads -> {"idle", "send", "flush", "opened"}]
    /\ stat \in [Producers -> Stats \cup {None}]
    /\ iter \in [Threads -> [cursor : Nat, limit : Nat, valid : BOOLEAN]]
    /\ \A t \in Threads : iter[t].cursor <= iter[t].limit
    /\ timer \in Calls \cup {None} /\ running \subseteq Calls /\ fetched \subseteq Calls
    /\ ticks \in [Calls -> 0 .. MaxTicks]
    /\ phase \in [Calls -> {"new", "answering", "talking", "ending", "over"}]
    /\ thrown \subseteq Producers /\ liberties \in Environments

\* the buffer seen as a channel
Channel == INSTANCE StatChannel WITH delivered <- sent

\* sendStats and onOpen (CallInsights.java:88-145) implement the channel: every
\* recorded stat is sent, once and in order, though the buffer is handed from
\* socket to socket and each socket's thread empties it again.  The initial
\* condition and the steps are those of the channel, the sockets' fairness
\* gives its fairness.
ChannelKept == Channel!FairChannelSpec

\* stopTimer (CallInsights.java:316) leaves no timer behind: a timer that ticks
\* is the one that the field holds, and its call is in progress.
TimerStopsWithCall ==
    \A call \in running : timer = call /\ phase[call] \in {"talking", "ending"}

\* Sockets that fail, or are closed in the middle of the loop, lose no stat:
\* what was recorded has been sent or is still in the buffer, because the loop
\* clears it only after the last send() (CallInsights.java:102-106, 123-127).
\* Two threads inside at once may lose one: a clear() takes what the other added.
NothingLost == May("overlap") \/ ToSet(recorded) \subseteq ToSet(sent) \cup ToSet(statBuffer)

FirstIn(s, seq) == CHOOSE i \in DOMAIN seq : seq[i] = s /\ \A j \in 1 .. i - 1 : seq[j] # s

\* Whatever threads and sockets do, a stat may be lost or sent twice, but stats
\* arrive for the first time in the order in which they were recorded: a loop
\* that finds the buffer changed stops, and the next one starts at its head.
FirstDeliveryInOrder ==
    \A a, b \in ToSet(sent) :
        FirstIn(a, sent) < FirstIn(b, sent) => FirstIn(a, recorded) < FirstIn(b, recorded)
=============================================================================
