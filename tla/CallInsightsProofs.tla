------------------------- MODULE CallInsightsProofs -------------------------
(***************************************************************************)
(* Theorems about CallInsights, for any sets of calls and of web sockets   *)
(* and any number of samples.  What depends on the environment says so.    *)
(***************************************************************************)
EXTENDS CallInsights, SequenceTheorems, TLAPS

Iterators == [cursor : Nat, limit : Nat, valid : BOOLEAN]

\* An iterator that is still valid was made for the buffer as it is now.
IteratorsFit == \A t \in Threads : iter[t].valid => iter[t].limit = Len(statBuffer)

LEMMA InvalidatedIterators ==
    ASSUME iter \in [Threads -> Iterators]
    PROVE  /\ Invalidated \in [Threads -> Iterators]
           /\ \A t \in Threads : /\ Invalidated[t].cursor = iter[t].cursor
                                 /\ Invalidated[t].limit = iter[t].limit
                                 /\ Invalidated[t].valid = FALSE
BY DEF Invalidated, Iterators

LEMMA ProducersAreThreads == Producers \subseteq Threads /\ Clients \subseteq Threads
BY DEF Threads

LEMMA ProducersOrClients ==
    ASSUME NEW t \in Producers, NEW c \in Clients PROVE t # c
BY ClientsAssumption DEF Producers

\* What recording a stat does to the types.
LEMMA BufferTypes ==
    ASSUME TypeOK, IteratorsFit, NEW t \in Producers, NEW s \in Stats, Buffer(t, s)
    PROVE  /\ statBuffer' \in Seq(Stats) /\ recorded' \in Seq(Stats) /\ sent' \in Seq(Stats)
           /\ at' \in [Threads -> {"idle", "send", "flush", "opened"}]
           /\ stat' \in [Producers -> Stats \cup {None}]
           /\ iter' \in [Threads -> Iterators]
           /\ \A u \in Threads : iter'[u].cursor <= iter'[u].limit
           /\ IteratorsFit'
           /\ thrown' \subseteq Producers
<1> USE DEF TypeOK, Buffer
<1>1. statBuffer' \in Seq(Stats) /\ recorded' \in Seq(Stats) /\ sent' \in Seq(Stats)
  OBVIOUS
<1>2. at' \in [Threads -> {"idle", "send", "flush", "opened"}]
  OBVIOUS
<1>3. stat' \in [Producers -> Stats \cup {None}]
  OBVIOUS
<1>4. /\ iter' \in [Threads -> Iterators]
      /\ \A u \in Threads : iter'[u].cursor <= iter'[u].limit
      /\ IteratorsFit'
  BY InvalidatedIterators DEF IteratorsFit, Iterators
<1> QED
  BY <1>1, <1>2, <1>3, <1>4

LEMMA ReturnTypes ==
    ASSUME TypeOK, NEW t \in Threads, NEW its \in [Threads -> Iterators], Return(t, its),
           \A u \in Threads : its[u].cursor <= its[u].limit
    PROVE  /\ at' \in [Threads -> {"idle", "send", "flush", "opened"}]
           /\ stat' \in [Producers -> Stats \cup {None}]
           /\ iter' \in [Threads -> Iterators]
           /\ \A u \in Threads : iter'[u].cursor <= iter'[u].limit
           /\ iter'[t] = NoLoop
           /\ \A u \in Threads \ {t} : iter'[u] = its[u]
BY DEF TypeOK, Return, Goto, NoLoop, Iterators

LEMMA StartLoopTypes ==
    ASSUME TypeOK, NEW t \in Threads, StartLoop(t)
    PROVE  /\ at' \in [Threads -> {"idle", "send", "flush", "opened"}]
           /\ iter' \in [Threads -> Iterators]
           /\ \A u \in Threads : iter'[u].cursor <= iter'[u].limit
           /\ iter'[t] = [cursor |-> 0, limit |-> Len(statBuffer), valid |-> TRUE]
           /\ \A u \in Threads \ {t} : iter'[u] = iter[u]
<1>1. Len(statBuffer) \in Nat
  BY LenProperties DEF TypeOK
<1> QED
  BY <1>1 DEF TypeOK, StartLoop, Goto, Iterators

\* A turn of the loop takes a stat that is there.
LEMMA SendNextTypes ==
    ASSUME TypeOK, IteratorsFit, NEW t \in Threads, SendNext(t)
    PROVE  /\ statBuffer[iter[t].cursor + 1] \in Stats
           /\ sent' \in Seq(Stats)
           /\ iter[t].cursor + 1 \in 1 .. Len(statBuffer)
           /\ iter' \in [Threads -> Iterators]
           /\ \A u \in Threads : iter'[u].cursor <= iter'[u].limit
           /\ \A u \in Threads : /\ iter'[u].limit = iter[u].limit
                                 /\ iter'[u].valid = iter[u].valid
           /\ iter'[t].cursor = iter[t].cursor + 1
           /\ \A u \in Threads \ {t} : iter'[u] = iter[u]
<1>1. Len(statBuffer) \in Nat
  BY LenProperties DEF TypeOK
<1>2. iter[t] \in Iterators /\ iter[t].cursor < iter[t].limit /\ iter[t].limit = Len(statBuffer)
  BY DEF TypeOK, IteratorsFit, SendNext, Iterators
<1>3. iter[t].cursor + 1 \in 1 .. Len(statBuffer)
  BY <1>1, <1>2 DEF Iterators
<1>4. statBuffer[iter[t].cursor + 1] \in Stats
  BY <1>3, ElementOfSeq DEF TypeOK
<1>5. sent' \in Seq(Stats)
  BY <1>4, AppendProperties DEF TypeOK, SendNext
<1>6. iter' = [iter EXCEPT ![t].cursor = @ + 1]
  BY DEF SendNext
<1>7. iter \in [Threads -> Iterators] /\ iter[t].cursor \in Nat /\ iter[t].limit \in Nat
  BY DEF TypeOK, Iterators
<1>8. iter'[t] = [iter[t] EXCEPT !.cursor = @ + 1] /\ \A u \in Threads \ {t} : iter'[u] = iter[u]
  BY <1>6, <1>7
<1>9. /\ iter'[t] \in Iterators /\ iter'[t].cursor = iter[t].cursor + 1
      /\ iter'[t].limit = iter[t].limit /\ iter'[t].valid = iter[t].valid
  BY <1>7, <1>8 DEF Iterators
<1>10. iter' \in [Threads -> Iterators]
  BY <1>6, <1>7, <1>8, <1>9
<1>11. \A u \in Threads : iter'[u].cursor <= iter'[u].limit
  <2>1. iter'[t].cursor <= iter'[t].limit
    BY <1>2, <1>7, <1>9
  <2>2. \A u \in Threads \ {t} : iter[u].cursor <= iter[u].limit
    BY DEF TypeOK
  <2> QED
    BY <1>8, <2>1, <2>2
<1> QED
  BY <1>3, <1>4, <1>5, <1>8, <1>9, <1>10, <1>11

-----------------------------------------------------------------------------
(***************************************************************************)
(* A step, seen from the buffer and the threads inside CallInsights.       *)
(***************************************************************************)
Quiet == UNCHANGED <<bufferVars, threadVars>>

Records(t, s) == Enter(t) /\ Buffer(t, s) /\ UNCHANGED socketVars

\* sendStats returns before its loop
Leaves(t) == at[t] = "send" /\ Return(t, iter) /\ UNCHANGED <<bufferVars, thrown>>

\* sendStats finds an open socket
Begins(t) ==
    /\ at[t] = "send" /\ IsOpen
    /\ StartLoop(t)
    /\ UNCHANGED <<bufferVars, stat, thrown, socketVars>>

BufferStep ==
    \/ Quiet
    \/ \E t \in Producers, s \in Stats : Records(t, s)
    \/ \E t \in Producers : Leaves(t) \/ Begins(t)
    \/ \E t \in Threads : SendNext(t) \/ Clear(t) \/ LoopThrows(t)
    \/ \E c \in Clients : Open(c) \/ OnOpen(c)

LEMMA SendStatsKinds ==
    ASSUME NEW t \in Producers, SendStats(t) PROVE Leaves(t) \/ Begins(t)
BY DEF SendStats, Leaves, Begins

LEMMA StepKinds ==
    ASSUME [Next]_vars PROVE BufferStep
<1> USE DEF BufferStep
<1>1. CASE KeyResponse
  BY <1>1 DEF KeyResponse, Quiet
<1>2. ASSUME NEW call \in Calls, CallStep(call) PROVE BufferStep
  <2> USE DEF StatOf, Producers, Records, Quiet
  <2>1. CASE SendAnswerEvent(call)
    BY <2>1 DEF SendAnswerEvent, SendEvent
  <2>2. CASE SendRtpStats(call)
    BY <2>2 DEF SendRtpStats
  <2>3. CASE Tick(call)
    BY <2>3 DEF Tick
  <2>4. CASE RtpCallback(call)
    BY <2>4 DEF RtpCallback
  <2>5. CASE SendSummaryEvent(call)
    BY <2>5 DEF SendSummaryEvent, SendEvent
  <2>6. CASE StopTimer(call)
    BY <2>6 DEF StopTimer
  <2>7. CASE LocalEnd(call)
    BY <2>7 DEF LocalEnd
  <2>8. CASE SendFeedbackEvent(call)
    BY <2>8 DEF SendFeedbackEvent
  <2> QED
    BY <1>2, <2>1, <2>2, <2>3, <2>4, <2>5, <2>6, <2>7, <2>8 DEF CallStep
<1>3. ASSUME NEW t \in Producers, SendStats(t) PROVE BufferStep
  BY <1>3, SendStatsKinds
<1>4. ASSUME NEW t \in Threads, Loop(t) PROVE BufferStep
  BY <1>4 DEF Loop
<1>5. ASSUME NEW c \in Clients, Open(c) \/ OnOpen(c) \/ Drop(c) PROVE BufferStep
  BY <1>5 DEF Drop, Quiet
<1>6. CASE UNCHANGED vars
  BY <1>6 DEF vars, Quiet
<1> QED
  BY <1>1, <1>2, <1>3, <1>4, <1>5, <1>6 DEF Next

\* The key, the sockets, the timers and the phases of the calls.
SurroundingsOK ==
    /\ callInsightsKey \in BOOLEAN /\ rtpFlagEnabled \in BOOLEAN
    /\ mWebSocketClient \in Clients \cup {None}
    /\ readyState \in [Clients -> {"unused", "connecting", "open", "closed"}]
    /\ timer \in Calls \cup {None} /\ running \subseteq Calls /\ fetched \subseteq Calls
    /\ ticks \in [Calls -> 0 .. MaxTicks]
    /\ phase \in [Calls -> {"new", "answering", "talking", "ending", "over"}]
    /\ liberties \in Environments

\* The buffer, the histories and the threads.
BufferOK ==
    /\ statBuffer \in Seq(Stats) /\ recorded \in Seq(Stats) /\ sent \in Seq(Stats)
    /\ at \in [Threads -> {"idle", "send", "flush", "opened"}]
    /\ stat \in [Producers -> Stats \cup {None}]
    /\ iter \in [Threads -> Iterators]
    /\ \A t \in Threads : iter[t].cursor <= iter[t].limit
    /\ thrown \subseteq Producers

LEMMA TypeParts == TypeOK <=> SurroundingsOK /\ BufferOK
BY DEF TypeOK, SurroundingsOK, BufferOK, Iterators

LEMMA SurroundingsKept ==
    ASSUME SurroundingsOK, [Next]_vars PROVE SurroundingsOK'
<1> USE DEF SurroundingsOK, socketVars, timerVars
<1>1. CASE KeyResponse
  BY <1>1 DEF KeyResponse
<1>2. ASSUME NEW call \in Calls, CallStep(call) PROVE SurroundingsOK'
  <2>1. CASE SendAnswerEvent(call)
    BY <2>1 DEF SendAnswerEvent
  <2>2. CASE SendRtpStats(call)
    BY <2>2 DEF SendRtpStats
  <2>3. CASE Tick(call)
    BY <2>3, MaxTicksAssumption DEF Tick
  <2>4. CASE RtpCallback(call)
    BY <2>4 DEF RtpCallback
  <2>5. CASE SendSummaryEvent(call)
    BY <2>5 DEF SendSummaryEvent
  <2>6. CASE StopTimer(call)
    BY <2>6 DEF StopTimer
  <2>7. CASE LocalEnd(call)
    BY <2>7 DEF LocalEnd
  <2>8. CASE SendFeedbackEvent(call)
    BY <2>8 DEF SendFeedbackEvent
  <2> QED
    BY <1>2, <2>1, <2>2, <2>3, <2>4, <2>5, <2>6, <2>7, <2>8 DEF CallStep
<1>3. ASSUME NEW t \in Producers, SendStats(t) PROVE SurroundingsOK'
  BY <1>3 DEF SendStats, UnusedClients
<1>4. ASSUME NEW t \in Threads, Loop(t) PROVE SurroundingsOK'
  BY <1>4 DEF Loop, SendNext, Clear, LoopThrows
<1>5. ASSUME NEW c \in Clients, Open(c) \/ OnOpen(c) \/ Drop(c) PROVE SurroundingsOK'
  BY <1>5 DEF Open, OnOpen, Drop
<1>6. CASE UNCHANGED vars
  BY <1>6 DEF vars
<1> QED
  BY <1>1, <1>2, <1>3, <1>4, <1>5, <1>6 DEF Next

LEMMA BufferKept ==
    ASSUME TypeOK, IteratorsFit, [Next]_vars PROVE BufferOK' /\ IteratorsFit'
<1> BufferOK
  BY TypeParts
<1> USE DEF BufferOK, IteratorsFit, bufferVars, threadVars
<1>0. iter \in [Threads -> Iterators]
  OBVIOUS
<1>1. CASE Quiet
  BY <1>1 DEF Quiet
<1>2. ASSUME NEW t \in Producers, NEW s \in Stats, Records(t, s)
      PROVE  BufferOK' /\ IteratorsFit'
  <2>1. Buffer(t, s)
    BY <1>2 DEF Records
  <2> QED
    BY <2>1, BufferTypes
<1>3. ASSUME NEW t \in Threads, Return(t, iter), statBuffer' = statBuffer
      PROVE  IteratorsFit'
  <2>1. ~iter'[t].valid
    BY <1>0, <1>3, ReturnTypes DEF NoLoop
  <2>2. \A u \in Threads \ {t} : iter'[u] = iter[u]
    BY <1>0, <1>3, ReturnTypes
  <2> QED
    BY <1>3, <2>1, <2>2
<1>4. ASSUME NEW t \in Producers, Leaves(t) PROVE BufferOK' /\ IteratorsFit'
  BY <1>0, <1>3, <1>4, ReturnTypes, ProducersAreThreads DEF Leaves
<1>5. ASSUME NEW t \in Producers, Begins(t) PROVE BufferOK' /\ IteratorsFit'
  BY <1>5, StartLoopTypes, ProducersAreThreads DEF Begins
<1>6. ASSUME NEW t \in Threads, SendNext(t) PROVE BufferOK' /\ IteratorsFit'
  BY <1>6, SendNextTypes DEF SendNext
<1>7. ASSUME NEW t \in Threads, Clear(t) PROVE BufferOK' /\ IteratorsFit'
  <2>1. statBuffer' \in Seq(Stats)
    BY <1>7 DEF Clear
  <2>2. Return(t, Invalidated) /\ UNCHANGED <<recorded, sent, thrown>>
    BY <1>7 DEF Clear
  <2>3. /\ Invalidated \in [Threads -> Iterators]
        /\ \A u \in Threads : Invalidated[u].cursor <= Invalidated[u].limit
    BY <1>0, InvalidatedIterators
  <2>4. BufferOK'
    BY <2>1, <2>2, <2>3, ReturnTypes
  <2>5. ~iter'[t].valid
    BY <2>2, <2>3, ReturnTypes DEF NoLoop
  <2>6. \A u \in Threads \ {t} : iter'[u] = Invalidated[u]
    BY <2>2, <2>3, ReturnTypes
  <2>7. IteratorsFit'
    BY <1>0, <2>5, <2>6, InvalidatedIterators
  <2> QED
    BY <2>4, <2>7
<1>8. ASSUME NEW t \in Threads, LoopThrows(t) PROVE BufferOK' /\ IteratorsFit'
  BY <1>0, <1>3, <1>8, ReturnTypes DEF LoopThrows
<1>9. ASSUME NEW c \in Clients, Open(c) PROVE BufferOK' /\ IteratorsFit'
  BY <1>9 DEF Open, Goto, Threads
<1>10. ASSUME NEW c \in Clients, OnOpen(c) PROVE BufferOK' /\ IteratorsFit'
  BY <1>10, StartLoopTypes, ProducersAreThreads DEF OnOpen
<1> QED
  BY <1>1, <1>2, <1>4, <1>5, <1>6, <1>7, <1>8, <1>9, <1>10, StepKinds DEF BufferStep

\* The state of CallInsights keeps its types in every environment; the loop over
\* statBuffer (CallInsights.java:102-106) reads a stat that is there.  Needs that
\* a valid iterator was made for the buffer as it is.
THEOREM TypeCorrect == Spec => [](TypeOK /\ IteratorsFit)
<1>1. Init => TypeOK /\ IteratorsFit
  <2> SUFFICES ASSUME Init PROVE TypeOK /\ IteratorsFit
    OBVIOUS
  <2>1. SurroundingsOK
    <3>1. 0 \in 0 .. MaxTicks
      BY MaxTicksAssumption
    <3>2. ticks \in [Calls -> 0 .. MaxTicks]
      BY <3>1 DEF Init
    <3> QED
      BY <3>2 DEF Init, SurroundingsOK
  <2>2. \A t \in Threads : iter[t] = [cursor |-> 0, limit |-> 0, valid |-> FALSE]
    BY DEF Init, NoLoop
  <2>3. iter \in [Threads -> Iterators]
    BY DEF Init, NoLoop, Iterators
  <2>4. BufferOK /\ IteratorsFit
    BY <2>2, <2>3 DEF Init, BufferOK, IteratorsFit
  <2> QED
    BY <2>1, <2>4, TypeParts
<1>2. TypeOK /\ IteratorsFit /\ [Next]_vars => TypeOK' /\ IteratorsFit'
  <2> SUFFICES ASSUME TypeOK, IteratorsFit, [Next]_vars PROVE TypeOK' /\ IteratorsFit'
    OBVIOUS
  <2>1. SurroundingsOK'
    BY TypeParts, SurroundingsKept
  <2> QED
    BY <2>1, TypeParts, BufferKept DEF TypeOK, SurroundingsOK, BufferOK, Iterators
<1> QED
  BY <1>1, <1>2, PTL DEF Spec

-----------------------------------------------------------------------------
(***************************************************************************)
(* No stat is recorded twice: its message, its call and the number of its  *)
(* sample tell it from the others.                                         *)
(***************************************************************************)
RecordedKeys ==
    \A i \in 1 .. Len(recorded) :
        LET s == recorded[i] IN
        /\ s.msg = "CALL_ANSWERED" => phase[s.call] # "new"
        /\ s.msg = "CALL_SUMMARY" => phase[s.call] \in {"ending", "over"}
        /\ s.msg = "CALL_STATS" => /\ s.n <= ticks[s.call]
                                   /\ s.call \in fetched => s.n < ticks[s.call]

RecordedOnce ==
    \A i, j \in 1 .. Len(recorded) : recorded[i] = recorded[j] => i = j

Known == {recorded[i] : i \in 1 .. Len(recorded)}

\* What a step adds to the history was not there.
LEMMA RecordsNew ==
    ASSUME TypeOK, RecordedKeys, [Next]_vars, recorded' # recorded
    PROVE  \E s \in Stats : s \notin Known /\ recorded' = Append(recorded, s)
<1> USE DEF TypeOK, Known, RecordedKeys, bufferVars, threadVars
<1>0. recorded \in Seq(Stats)
  OBVIOUS
<1>1. CASE KeyResponse
  BY <1>1 DEF KeyResponse
<1>2. ASSUME NEW call \in Calls, CallStep(call)
      PROVE  \E s \in Stats : s \notin Known /\ recorded' = Append(recorded, s)
  <2> USE DEF StatOf
  <2>1. CASE SendAnswerEvent(call)
    BY <2>1 DEF SendAnswerEvent, SendEvent, Buffer
  <2>2. CASE SendRtpStats(call)
    BY <2>2 DEF SendRtpStats
  <2>3. CASE Tick(call)
    BY <2>3 DEF Tick
  <2>4. CASE RtpCallback(call)
    BY <2>4 DEF RtpCallback, Buffer
  <2>5. CASE SendSummaryEvent(call)
    <3>1. PICK s \in StatOf("CALL_SUMMARY", call, 0) : Buffer("upcall", s)
      BY <2>5 DEF SendSummaryEvent, SendEvent
    <3>2. phase[call] \notin {"ending", "over"}
      BY <2>5 DEF SendSummaryEvent
    <3>3. s \notin Known
      BY <3>1, <3>2
    <3> QED
      BY <3>1, <3>3 DEF Buffer
  <2>6. CASE StopTimer(call)
    BY <2>6 DEF StopTimer
  <2>7. CASE LocalEnd(call)
    BY <2>7 DEF LocalEnd
  <2>8. CASE SendFeedbackEvent(call)
    BY <2>8 DEF SendFeedbackEvent, Buffer
  <2> QED
    BY <1>2, <2>1, <2>2, <2>3, <2>4, <2>5, <2>6, <2>7, <2>8 DEF CallStep
<1>3. ASSUME NEW t \in Producers, SendStats(t) PROVE FALSE
  BY <1>3 DEF SendStats
<1>4. ASSUME NEW t \in Threads, Loop(t) PROVE FALSE
  BY <1>4 DEF Loop, SendNext, Clear, LoopThrows
<1>5. ASSUME NEW c \in Clients, Open(c) \/ OnOpen(c) \/ Drop(c) PROVE FALSE
  BY <1>5 DEF Open, OnOpen, Drop
<1>6. CASE UNCHANGED vars
  BY <1>6 DEF vars
<1> QED
  BY <1>1, <1>2, <1>3, <1>4, <1>5, <1>6 DEF Next

LEMMA RecordedKeysKept ==
    ASSUME TypeOK, RecordedKeys, [Next]_vars
    PROVE  RecordedKeys'
<1> USE DEF RecordedKeys, bufferVars, timerVars, TypeOK
<1>0. \A i \in 1 .. Len(recorded) : recorded[i] \in Stats
  BY ElementOfSeq
<1> USE DEF Stats
<1>a. ASSUME NEW s \in Stats, recorded' = Append(recorded, s)
      PROVE  /\ Len(recorded') = Len(recorded) + 1 /\ Len(recorded) \in Nat
             /\ \A i \in 1 .. Len(recorded) : recorded'[i] = recorded[i]
             /\ recorded'[Len(recorded) + 1] = s
  BY <1>a, AppendProperties, LenProperties
<1>1. CASE KeyResponse
  BY <1>1 DEF KeyResponse
<1>2. ASSUME NEW call \in Calls, CallStep(call) PROVE RecordedKeys'
  <2>1. CASE SendAnswerEvent(call)
    <3>1. CASE recorded' = recorded
      BY <1>0, <2>1, <3>1 DEF SendAnswerEvent
    <3>2. ASSUME NEW s \in StatOf("CALL_ANSWERED", call, 0), Buffer("upcall", s) PROVE RecordedKeys'
      <4>1. s \in Stats /\ s.msg = "CALL_ANSWERED" /\ s.call = call /\ recorded' = Append(recorded, s)
        BY <3>2 DEF StatOf, Buffer
      <4> QED
        BY <1>0, <1>a, <2>1, <4>1 DEF SendAnswerEvent
    <3> QED
      BY <2>1, <3>1, <3>2 DEF SendAnswerEvent, SendEvent
  <2>2. CASE SendRtpStats(call)
    BY <1>0, <2>2 DEF SendRtpStats
  <2>3. CASE Tick(call)
    BY <1>0, <2>3 DEF Tick
  <2>4. CASE RtpCallback(call)
    <3>1. CASE recorded' = recorded
      BY <1>0, <2>4, <3>1 DEF RtpCallback
    <3>2. ASSUME NEW s \in StatOf("CALL_STATS", call, ticks[call]), Buffer("media", s) PROVE RecordedKeys'
      <4>1. s \in Stats /\ s.msg = "CALL_STATS" /\ s.call = call /\ s.n = ticks[call]
        BY <3>2 DEF StatOf
      <4>2. recorded' = Append(recorded, s)
        BY <3>2 DEF Buffer
      <4> QED
        BY <1>0, <1>a, <2>4, <4>1, <4>2 DEF RtpCallback
    <3> QED
      BY <2>4, <3>1, <3>2 DEF RtpCallback
  <2>5. CASE SendSummaryEvent(call)
    <3>1. CASE recorded' = recorded
      BY <1>0, <2>5, <3>1 DEF SendSummaryEvent
    <3>2. ASSUME NEW s \in StatOf("CALL_SUMMARY", call, 0), Buffer("upcall", s) PROVE RecordedKeys'
      <4>1. s \in Stats /\ s.msg = "CALL_SUMMARY" /\ s.call = call /\ recorded' = Append(recorded, s)
        BY <3>2 DEF StatOf, Buffer
      <4> QED
        BY <1>0, <1>a, <2>5, <4>1 DEF SendSummaryEvent
    <3> QED
      BY <2>5, <3>1, <3>2 DEF SendSummaryEvent, SendEvent
  <2>6. CASE StopTimer(call)
    BY <1>0, <2>6 DEF StopTimer
  <2>7. CASE LocalEnd(call)
    BY <1>0, <2>7 DEF LocalEnd
  <2>8. CASE SendFeedbackEvent(call)
    <3>1. PICK s \in StatOf("FEEDBACK", call, 0) : Buffer("app", s)
      BY <2>8 DEF SendFeedbackEvent
    <3>2. s \in Stats /\ s.msg = "FEEDBACK" /\ recorded' = Append(recorded, s)
      BY <3>1 DEF StatOf, Buffer
    <3>3. UNCHANGED <<phase, ticks, fetched>>
      BY <2>8 DEF SendFeedbackEvent
    <3> QED
      BY <1>0, <1>a, <3>2, <3>3
  <2> QED
    BY <1>2, <2>1, <2>2, <2>3, <2>4, <2>5, <2>6, <2>7, <2>8 DEF CallStep
<1>3. ASSUME NEW t \in Producers, SendStats(t) PROVE RecordedKeys'
  BY <1>3 DEF SendStats
<1>4. ASSUME NEW t \in Threads, Loop(t) PROVE RecordedKeys'
  BY <1>4 DEF Loop, SendNext, Clear, LoopThrows
<1>5. ASSUME NEW c \in Clients, Open(c) \/ OnOpen(c) \/ Drop(c) PROVE RecordedKeys'
  BY <1>5 DEF Open, OnOpen, Drop
<1>6. CASE UNCHANGED vars
  BY <1>6 DEF vars
<1> QED
  BY <1>1, <1>2, <1>3, <1>4, <1>5, <1>6 DEF Next

LEMMA RecordedOnceKept ==
    ASSUME TypeOK, RecordedKeys, RecordedOnce, [Next]_vars
    PROVE  RecordedOnce'
<1>1. CASE recorded' = recorded
  BY <1>1 DEF RecordedOnce
<1>2. ASSUME NEW s \in Stats, s \notin Known, recorded' = Append(recorded, s)
      PROVE  RecordedOnce'
  <2>1. /\ Len(recorded') = Len(recorded) + 1 /\ Len(recorded) \in Nat
        /\ \A i \in 1 .. Len(recorded) : recorded'[i] = recorded[i]
        /\ recorded'[Len(recorded) + 1] = s
    BY <1>2, AppendProperties, LenProperties DEF TypeOK
  <2> QED
    BY <1>2, <2>1 DEF RecordedOnce, Known
<1> QED
  BY <1>1, <1>2, RecordsNew

-----------------------------------------------------------------------------
(***************************************************************************)
(* The order of first deliveries.  The buffer is the end of what was       *)
(* recorded; what has been sent of it is a stretch at its head, which      *)
(* reaches at least up to the cursor of every loop that is not stale.      *)
(***************************************************************************)
Gone == {sent[i] : i \in 1 .. Len(sent)}

BufferIsTail ==
    /\ Len(statBuffer) <= Len(recorded)
    /\ \A i \in 1 .. Len(statBuffer) :
           statBuffer[i] = recorded[Len(recorded) - Len(statBuffer) + i]

SentFromHead ==
    \A i, j \in 1 .. Len(statBuffer) : i < j /\ statBuffer[j] \in Gone => statBuffer[i] \in Gone

CursorsBehind ==
    \A t \in Threads : iter[t].valid => \A i \in 1 .. iter[t].cursor : statBuffer[i] \in Gone

SentKnown == \A i \in 1 .. Len(sent) : sent[i] \in Known

\* a repetition, or behind all that was sent before
SentInOrder ==
    \A i \in 1 .. Len(sent) :
        \/ \E j \in 1 .. i - 1 : sent[j] = sent[i]
        \/ \A j \in 1 .. i - 1, p, q \in 1 .. Len(recorded) :
               sent[j] = recorded[p] /\ sent[i] = recorded[q] => p < q

FirstsExist ==
    \A i \in 1 .. Len(sent) :
        \E k \in 1 .. i : sent[k] = sent[i] /\ \A j \in 1 .. k - 1 : sent[j] # sent[i]

OrderInv ==
    /\ BufferIsTail /\ SentFromHead /\ CursorsBehind
    /\ SentKnown /\ SentInOrder /\ FirstsExist

LEMMA Lengths ==
    ASSUME TypeOK
    PROVE  Len(statBuffer) \in Nat /\ Len(recorded) \in Nat /\ Len(sent) \in Nat
BY LenProperties DEF TypeOK

\* Steps that leave the buffer alone, and at most start loops or end them.
LEMMA OrderKeptAside ==
    ASSUME OrderInv, UNCHANGED <<statBuffer, recorded, sent>>,
           \A t \in Threads : \/ iter'[t] = iter[t]
                              \/ iter'[t].cursor = 0
    PROVE  OrderInv'
<1>1. CursorsBehind'
  BY DEF OrderInv, CursorsBehind, Gone
<1>2. BufferIsTail' /\ SentFromHead' /\ SentKnown' /\ SentInOrder' /\ FirstsExist'
  BY DEF OrderInv, BufferIsTail, SentFromHead, SentKnown, SentInOrder, FirstsExist, Gone, Known
<1> QED
  BY <1>1, <1>2 DEF OrderInv

LEMMA OrderKeptByRecording ==
    ASSUME TypeOK, OrderInv, NEW s \in Stats, s \notin Known,
           statBuffer' = Append(statBuffer, s), recorded' = Append(recorded, s),
           sent' = sent, iter' = Invalidated
    PROVE  OrderInv'
<1> DEFINE n == Len(statBuffer)
           m == Len(recorded)
<1>1. n \in Nat /\ m \in Nat /\ Len(sent) \in Nat /\ n <= m
  BY Lengths DEF OrderInv, BufferIsTail
<1>2. /\ Len(statBuffer') = n + 1 /\ statBuffer'[n + 1] = s
      /\ \A i \in 1 .. n : statBuffer'[i] = statBuffer[i]
  BY AppendProperties DEF TypeOK
<1>3. /\ Len(recorded') = m + 1 /\ recorded'[m + 1] = s
      /\ \A i \in 1 .. m : recorded'[i] = recorded[i]
  BY AppendProperties DEF TypeOK
<1>4. Gone' = Gone
  BY DEF Gone
<1>5. s \notin Gone
  BY DEF Gone, OrderInv, SentKnown
<1>6. \A i \in 1 .. n : statBuffer[i] = recorded[m - n + i]
  BY DEF OrderInv, BufferIsTail
<1> HIDE DEF n, m
<1>7. BufferIsTail'
  <2>1. (m + 1) - (n + 1) = m - n
    BY <1>1
  <2>2. \A i \in 1 .. n : m - n + i \in 1 .. m
    BY <1>1
  <2>3. m - n + (n + 1) = m + 1
    BY <1>1
  <2>4. \A i \in 1 .. n + 1 : statBuffer'[i] = recorded'[m - n + i]
    <3> SUFFICES ASSUME NEW i \in 1 .. n + 1 PROVE statBuffer'[i] = recorded'[m - n + i]
      OBVIOUS
    <3>1. CASE i \in 1 .. n
      BY <1>2, <1>3, <1>6, <2>2, <3>1
    <3>2. CASE i = n + 1
      BY <1>2, <1>3, <2>3, <3>2
    <3>3. i \in 1 .. n \/ i = n + 1
      BY <1>1
    <3> QED
      BY <3>1, <3>2, <3>3
  <2>5. n + 1 <= m + 1
    BY <1>1
  <2>6. Len(recorded') - Len(statBuffer') = m - n
    BY <1>2, <1>3, <2>1
  <2> QED
    BY <1>2, <1>3, <2>4, <2>5, <2>6 DEF BufferIsTail
<1>8. SentFromHead'
  <2>1. SentFromHead
    BY DEF OrderInv
  <2>2. \A i, j \in 1 .. n : i < j /\ statBuffer[j] \in Gone => statBuffer[i] \in Gone
    BY <2>1 DEF SentFromHead, n
  <2>3. \A i, j \in 1 .. n + 1 : i < j /\ statBuffer'[j] \in Gone => statBuffer'[i] \in Gone
    BY <1>1, <1>2, <1>5, <2>2
  <2> QED
    BY <1>2, <1>4, <2>3 DEF SentFromHead
<1>9. CursorsBehind'
  BY InvalidatedIterators DEF CursorsBehind, TypeOK, Iterators
<1>10. SentKnown'
  BY <1>1, <1>3 DEF SentKnown, Known, OrderInv, n, m
<1>11. SentInOrder'
  <2>1. \A j \in 1 .. Len(sent) : \A p \in 1 .. m + 1 : sent[j] = recorded'[p] => p \in 1 .. m
    BY <1>1, <1>3, <1>5 DEF Gone
  <2>2. SentInOrder
    BY DEF OrderInv
  <2>3. ASSUME NEW i \in 1 .. Len(sent)
        PROVE  \/ \E j \in 1 .. i - 1 : sent[j] = sent[i]
               \/ \A j \in 1 .. i - 1, p, q \in 1 .. m + 1 :
                      sent[j] = recorded'[p] /\ sent[i] = recorded'[q] => p < q
    <3>1. \A j \in 1 .. i - 1 : j \in 1 .. Len(sent)
      BY <1>1
    <3>2. \/ \E j \in 1 .. i - 1 : sent[j] = sent[i]
          \/ \A j \in 1 .. i - 1, p, q \in 1 .. m :
                 sent[j] = recorded[p] /\ sent[i] = recorded[q] => p < q
      BY <2>2 DEF SentInOrder, m
    <3>3. ASSUME NEW j \in 1 .. i - 1, NEW p \in 1 .. m + 1, NEW q \in 1 .. m + 1,
                 sent[j] = recorded'[p], sent[i] = recorded'[q]
          PROVE  /\ p \in 1 .. m /\ q \in 1 .. m
                 /\ sent[j] = recorded[p] /\ sent[i] = recorded[q]
      <4>1. p \in 1 .. m /\ q \in 1 .. m
        BY <2>1, <3>1, <3>3
      <4> QED
        BY <1>3, <3>3, <4>1
    <3>4. CASE \A j \in 1 .. i - 1, p, q \in 1 .. m :
                   sent[j] = recorded[p] /\ sent[i] = recorded[q] => p < q
      <4>1. ASSUME NEW j \in 1 .. i - 1, NEW p \in 1 .. m + 1, NEW q \in 1 .. m + 1,
                   sent[j] = recorded'[p], sent[i] = recorded'[q]
            PROVE  p < q
        <5>1. p \in 1 .. m /\ q \in 1 .. m /\ sent[j] = recorded[p] /\ sent[i] = recorded[q]
          BY <3>3, <4>1
        <5> QED
          BY <3>4, <5>1
      <4> QED
        BY <4>1, Zenon
    <3> QED
      BY <3>2, <3>4, Zenon
  <2>4. \A i \in 1 .. Len(sent') :
            \/ \E j \in 1 .. i - 1 : sent'[j] = sent'[i]
            \/ \A j \in 1 .. i - 1, p, q \in 1 .. Len(recorded') :
                   sent'[j] = recorded'[p] /\ sent'[i] = recorded'[q] => p < q
    BY <1>3, <2>3
  <2> QED
    BY <2>4, Zenon DEF SentInOrder
<1>12. FirstsExist'
  BY DEF FirstsExist, OrderInv
<1> QED
  BY <1>7, <1>8, <1>9, <1>10, <1>11, <1>12 DEF OrderInv

LEMMA OrderKeptBySending ==
    ASSUME TypeOK, IteratorsFit, RecordedOnce, OrderInv, NEW t \in Threads, SendNext(t)
    PROVE  OrderInv'
<1> DEFINE n == Len(statBuffer)
           m == Len(recorded)
           l == Len(sent)
           k == iter[t].cursor + 1
           s == statBuffer[k]
<1>1. n \in Nat /\ m \in Nat /\ l \in Nat /\ n <= m
  BY Lengths DEF OrderInv, BufferIsTail
<1>2. s \in Stats /\ k \in 1 .. n
  BY SendNextTypes
<1>3. sent' = Append(sent, s) /\ statBuffer' = statBuffer /\ recorded' = recorded
  BY DEF SendNext
<1>4. /\ Len(sent') = l + 1 /\ sent'[l + 1] = s
      /\ \A i \in 1 .. l : sent'[i] = sent[i]
  BY <1>2, <1>3, AppendProperties DEF TypeOK
<1>5. iter[t].valid /\ iter[t].cursor \in Nat
  BY DEF SendNext, TypeOK
<1>6. \A i \in 1 .. k - 1 : statBuffer[i] \in Gone
  BY <1>5 DEF OrderInv, CursorsBehind
<1>7. \A i \in 1 .. n : statBuffer[i] = recorded[m - n + i]
  BY DEF OrderInv, BufferIsTail
<1>8. \A i, j \in 1 .. n : i < j /\ statBuffer[j] \in Gone => statBuffer[i] \in Gone
  BY DEF OrderInv, SentFromHead
<1>9. \A i \in 1 .. l : sent[i] \in Gone /\ sent[i] \in Known
  BY DEF Gone, OrderInv, SentKnown
<1>10. Gone' = Gone \cup {s}
  <2>1. ASSUME NEW x \in Gone' PROVE x \in Gone \/ x = s
    BY <1>1, <1>4, <2>1 DEF Gone
  <2>2. ASSUME NEW x \in Gone PROVE x \in Gone'
    BY <1>1, <1>4, <2>2 DEF Gone
  <2>3. s \in Gone'
    BY <1>1, <1>4 DEF Gone
  <2> QED
    BY <2>1, <2>2, <2>3
<1>11. /\ \A u \in Threads \ {t} : iter'[u] = iter[u]
       /\ iter'[t].cursor = iter[t].cursor + 1
  BY SendNextTypes
<1>12. s \in Known
  BY <1>1, <1>2, <1>7 DEF Known
<1> HIDE DEF n, m, l, s
<1>13. BufferIsTail'
  BY <1>3 DEF BufferIsTail, OrderInv
<1>14. SentFromHead'
  <2>1. \A i, j \in 1 .. n : i < j /\ (statBuffer[j] \in Gone \/ statBuffer[j] = s) => statBuffer[i] \in Gone \/ statBuffer[i] = s
    <3> SUFFICES ASSUME NEW i \in 1 .. n, NEW j \in 1 .. n, i < j, statBuffer[j] = s
                 PROVE  statBuffer[i] \in Gone
      BY <1>8
    <3>1. recorded[m - n + j] = recorded[m - n + k]
      BY <1>2, <1>7 DEF s
    <3>2. m - n + j \in 1 .. m /\ m - n + k \in 1 .. m
      BY <1>1, <1>2
    <3>3. m - n + j = m - n + k
      BY <3>1, <3>2 DEF RecordedOnce, m
    <3>4. j = k
      BY <1>1, <1>2, <3>3
    <3> QED
      BY <1>2, <1>6, <3>4
  <2> QED
    BY <1>3, <1>10, <2>1 DEF SentFromHead, n
<1>15. CursorsBehind'
  <2>1. ASSUME NEW u \in Threads, iter'[u].valid, NEW i \in 1 .. iter'[u].cursor
        PROVE  statBuffer[i] \in Gone \/ statBuffer[i] = s
    <3>1. CASE u = t
      BY <1>2, <1>5, <1>6, <1>11, <2>1, <3>1 DEF s
    <3>2. CASE u # t
      BY <1>11, <2>1, <3>2 DEF OrderInv, CursorsBehind
    <3> QED
      BY <3>1, <3>2
  <2> QED
    BY <1>3, <1>10, <2>1 DEF CursorsBehind
<1>16. SentKnown'
  BY <1>1, <1>3, <1>4, <1>9, <1>12 DEF SentKnown, Known
<1>17. SentInOrder'
  <2>1. ASSUME NEW i \in 1 .. l
        PROVE  \/ \E j \in 1 .. i - 1 : sent'[j] = sent'[i]
               \/ \A j \in 1 .. i - 1, p, q \in 1 .. m :
                      sent'[j] = recorded[p] /\ sent'[i] = recorded[q] => p < q
    <3>1. \A j \in 1 .. i : sent'[j] = sent[j]
      BY <1>1, <1>4
    <3>2. \/ \E j \in 1 .. i - 1 : sent[j] = sent[i]
          \/ \A j \in 1 .. i - 1, p, q \in 1 .. m :
                 sent[j] = recorded[p] /\ sent[i] = recorded[q] => p < q
      BY DEF OrderInv, SentInOrder, l, m
    <3>3. \A j \in 1 .. i - 1 : j \in 1 .. i
      BY <1>1
    <3> QED
      BY <3>1, <3>2, <3>3
  <2>2. \/ \E j \in 1 .. l : sent[j] = s
        \/ \A j \in 1 .. l, p, q \in 1 .. m : sent[j] = recorded[p] /\ s = recorded[q] => p < q
    <3> SUFFICES ASSUME s \notin Gone, NEW j \in 1 .. l, NEW p \in 1 .. m, NEW q \in 1 .. m,
                        sent[j] = recorded[p], s = recorded[q]
                 PROVE  p < q
      BY DEF Gone, l
    <3>1. m - n + k \in 1 .. m /\ recorded[q] = recorded[m - n + k]
      BY <1>1, <1>2, <1>7 DEF s
    <3>2. q = m - n + k
      BY <3>1 DEF RecordedOnce, m
    <3>3. ASSUME p >= q PROVE FALSE
      <4>1. p - (m - n) \in 1 .. n /\ p - (m - n) >= k /\ p = m - n + (p - (m - n))
        BY <1>1, <1>2, <3>2, <3>3
      <4>2. sent[j] = statBuffer[p - (m - n)]
        BY <1>7, <4>1
      <4>3. statBuffer[p - (m - n)] \in Gone
        BY <1>9, <4>2
      <4>4. CASE p - (m - n) = k
        BY <4>3, <4>4 DEF s
      <4>5. CASE p - (m - n) > k
        BY <1>2, <1>8, <4>1, <4>3, <4>5 DEF s
      <4> QED
        BY <1>1, <1>2, <4>1, <4>4, <4>5
    <3> QED
      BY <1>1, <3>3
  <2>3. (l + 1) - 1 = l
    BY <1>1
  <2>4. \/ \E j \in 1 .. (l + 1) - 1 : sent'[j] = sent'[l + 1]
        \/ \A j \in 1 .. (l + 1) - 1, p, q \in 1 .. m :
               sent'[j] = recorded[p] /\ sent'[l + 1] = recorded[q] => p < q
    BY <1>4, <2>2, <2>3
  <2>5. \A i \in 1 .. l + 1 : i \in 1 .. l \/ i = l + 1
    BY <1>1
  <2>6. \A i \in 1 .. l + 1 :
            \/ \E j \in 1 .. i - 1 : sent'[j] = sent'[i]
            \/ \A j \in 1 .. i - 1, p, q \in 1 .. m :
                   sent'[j] = recorded[p] /\ sent'[i] = recorded[q] => p < q
    BY <2>1, <2>4, <2>5, Zenon
  <2>7. \A i \in 1 .. Len(sent') :
            \/ \E j \in 1 .. i - 1 : sent'[j] = sent'[i]
            \/ \A j \in 1 .. i - 1, p, q \in 1 .. Len(recorded') :
                   sent'[j] = recorded'[p] /\ sent'[i] = recorded'[q] => p < q
    <3>1. recorded' = recorded /\ Len(recorded') = m /\ Len(sent') = l + 1
      BY <1>3, <1>4 DEF m
    <3> QED
      BY <2>6, <3>1
  <2> QED
    BY <2>7, Zenon DEF SentInOrder
<1>18. FirstsExist'
  <2>1. \A i \in 1 .. l : \E f \in 1 .. i : sent[f] = sent[i] /\ \A j \in 1 .. f - 1 : sent[j] # sent[i]
    BY DEF OrderInv, FirstsExist, l
  <2>2. ASSUME NEW i \in 1 .. l
        PROVE  \E f \in 1 .. i : sent'[f] = sent'[i] /\ \A j \in 1 .. f - 1 : sent'[j] # sent'[i]
    <3>1. PICK f \in 1 .. i : sent[f] = sent[i] /\ \A j \in 1 .. f - 1 : sent[j] # sent[i]
      BY <2>1
    <3>2. \A j \in 1 .. i : sent'[j] = sent[j]
      BY <1>1, <1>4
    <3>3. i \in 1 .. i /\ \A j \in 1 .. f - 1 : j \in 1 .. i
      BY <1>1
    <3>4. sent'[f] = sent'[i] /\ \A j \in 1 .. f - 1 : sent'[j] # sent'[i]
      BY <3>1, <3>2, <3>3, Zenon
    <3> QED
      BY <3>4, Zenon
  <2>3. \E f \in 1 .. l + 1 : sent'[f] = sent'[l + 1] /\ \A j \in 1 .. f - 1 : sent'[j] # sent'[l + 1]
    <3>1. CASE s \in Gone
      <4>1. PICK i \in 1 .. l : sent[i] = s
        BY <3>1 DEF Gone, l
      <4>2. PICK f \in 1 .. i : sent'[f] = sent'[i] /\ \A j \in 1 .. f - 1 : sent'[j] # sent'[i]
        BY <2>2
      <4>3. sent'[i] = sent'[l + 1]
        BY <1>4, <4>1
      <4>4. f \in 1 .. l + 1
        BY <1>1
      <4> QED
        BY <4>2, <4>3, <4>4
    <3>2. CASE s \notin Gone
      <4>1. \A j \in 1 .. (l + 1) - 1 : sent'[j] # sent'[l + 1]
        BY <1>1, <1>4, <3>2 DEF Gone, l
      <4> QED
        BY <1>1, <4>1
    <3> QED
      BY <3>1, <3>2
  <2>4. \A i \in 1 .. l + 1 : i \in 1 .. l \/ i = l + 1
    BY <1>1
  <2> QED
    BY <1>4, <2>2, <2>3, <2>4 DEF FirstsExist
<1> QED
  BY <1>13, <1>14, <1>15, <1>16, <1>17, <1>18 DEF OrderInv

LEMMA OrderKept ==
    ASSUME TypeOK, IteratorsFit, RecordedKeys, RecordedOnce, OrderInv, [Next]_vars
    PROVE  OrderInv'
<1> USE DEF bufferVars, threadVars
<1>0. iter \in [Threads -> Iterators] /\ \A u \in Threads : iter[u].cursor <= iter[u].limit
  BY DEF TypeOK, Iterators
<1>1. CASE Quiet
  BY <1>1, OrderKeptAside DEF Quiet
<1>2. ASSUME NEW t \in Producers, NEW s \in Stats, Records(t, s) PROVE OrderInv'
  <2>1. /\ statBuffer' = Append(statBuffer, s) /\ recorded' = Append(recorded, s)
        /\ sent' = sent /\ iter' = Invalidated
    BY <1>2 DEF Records, Buffer
  <2>2. Len(recorded') = Len(recorded) + 1 /\ Len(recorded) \in Nat
    BY <2>1, AppendProperties, LenProperties DEF TypeOK
  <2>3. recorded' # recorded
    BY <2>2
  <2>4. PICK x \in Stats : x \notin Known /\ recorded' = Append(recorded, x)
    BY <2>3, RecordsNew
  <2>5. Append(recorded, s)[Len(recorded) + 1] = s /\ Append(recorded, x)[Len(recorded) + 1] = x
    BY AppendProperties DEF TypeOK
  <2>6. s = x
    BY <2>1, <2>4, <2>5
  <2> QED
    BY <2>1, <2>4, <2>6, OrderKeptByRecording
<1>3. ASSUME NEW t \in Threads, Return(t, iter), UNCHANGED bufferVars PROVE OrderInv'
  <2>1. iter'[t].cursor = 0 /\ \A u \in Threads \ {t} : iter'[u] = iter[u]
    BY <1>0, <1>3, ReturnTypes DEF NoLoop
  <2> QED
    BY <1>3, <2>1, OrderKeptAside
<1>4. ASSUME NEW t \in Threads, StartLoop(t), UNCHANGED bufferVars PROVE OrderInv'
  <2>1. iter'[t].cursor = 0 /\ \A u \in Threads \ {t} : iter'[u] = iter[u]
    BY <1>4, StartLoopTypes
  <2> QED
    BY <1>4, <2>1, OrderKeptAside
<1>5. ASSUME NEW t \in Producers, Leaves(t) \/ Begins(t) PROVE OrderInv'
  BY <1>3, <1>4, <1>5, ProducersAreThreads DEF Leaves, Begins
<1>6. ASSUME NEW t \in Threads, SendNext(t) PROVE OrderInv'
  BY <1>6, OrderKeptBySending
<1>7. ASSUME NEW t \in Threads, Clear(t) PROVE OrderInv'
  <2>1. statBuffer' = <<>> /\ UNCHANGED <<recorded, sent>> /\ Return(t, Invalidated)
    BY <1>7 DEF Clear
  <2>2. Len(statBuffer') = 0 /\ Len(recorded) \in Nat
    BY <2>1, LenProperties DEF TypeOK
  <2>3. \A u \in Threads : ~iter'[u].valid
    <3>1. /\ Invalidated \in [Threads -> Iterators]
          /\ \A u \in Threads : Invalidated[u].cursor <= Invalidated[u].limit
      BY <1>0, InvalidatedIterators
    <3>2. ~iter'[t].valid
      BY <2>1, <3>1, ReturnTypes DEF NoLoop
    <3>3. \A u \in Threads \ {t} : iter'[u] = Invalidated[u]
      BY <2>1, <3>1, ReturnTypes
    <3> QED
      BY <1>0, <3>2, <3>3, InvalidatedIterators
  <2>4. BufferIsTail'
    BY <2>1, <2>2 DEF BufferIsTail
  <2>5. SentFromHead'
    BY <2>2 DEF SentFromHead
  <2>6. CursorsBehind'
    BY <2>3 DEF CursorsBehind
  <2>7. SentKnown' /\ SentInOrder' /\ FirstsExist'
    BY <2>1 DEF OrderInv, SentKnown, SentInOrder, FirstsExist, Known
  <2> QED
    BY <2>4, <2>5, <2>6, <2>7 DEF OrderInv
<1>8. ASSUME NEW t \in Threads, LoopThrows(t) PROVE OrderInv'
  BY <1>3, <1>8 DEF LoopThrows
<1>9. ASSUME NEW c \in Clients, Open(c) PROVE OrderInv'
  BY <1>9, OrderKeptAside DEF Open
<1>10. ASSUME NEW c \in Clients, OnOpen(c) PROVE OrderInv'
  BY <1>4, <1>10, ProducersAreThreads DEF OnOpen
<1> QED
  BY <1>1, <1>2, <1>5, <1>6, <1>7, <1>8, <1>9, <1>10, StepKinds DEF BufferStep

\* From positions to first positions.
LEMMA OrderInvImplies ==
    ASSUME TypeOK, RecordedOnce, OrderInv
    PROVE  FirstDeliveryInOrder
<1> SUFFICES ASSUME NEW a \in ToSet(sent), NEW b \in ToSet(sent),
                    FirstIn(a, sent) < FirstIn(b, sent)
             PROVE  FirstIn(a, recorded) < FirstIn(b, recorded)
  BY DEF FirstDeliveryInOrder
<1>1. Len(sent) \in Nat /\ Len(recorded) \in Nat
  BY Lengths
<1>2. DOMAIN sent = 1 .. Len(sent) /\ DOMAIN recorded = 1 .. Len(recorded)
  BY LenProperties DEF TypeOK
<1>3. ASSUME NEW x \in ToSet(sent)
      PROVE  /\ FirstIn(x, sent) \in 1 .. Len(sent) /\ sent[FirstIn(x, sent)] = x
             /\ \A j \in 1 .. FirstIn(x, sent) - 1 : sent[j] # x
  <2>1. PICK i \in 1 .. Len(sent) : sent[i] = x
    BY <1>2 DEF ToSet
  <2>2. PICK k \in 1 .. i : sent[k] = x /\ \A j \in 1 .. k - 1 : sent[j] # x
    BY <2>1 DEF OrderInv, FirstsExist
  <2>3. k \in DOMAIN sent
    BY <1>1, <1>2
  <2> QED
    BY <1>2, <2>2, <2>3 DEF FirstIn
<1>4. ASSUME NEW x \in ToSet(sent)
      PROVE  FirstIn(x, recorded) \in 1 .. Len(recorded) /\ recorded[FirstIn(x, recorded)] = x
  <2>1. PICK k \in 1 .. Len(recorded) : recorded[k] = x
    BY <1>2 DEF ToSet, OrderInv, SentKnown, Known
  <2>2. \A j \in 1 .. k - 1 : j \in 1 .. Len(recorded) /\ j # k
    BY <1>1
  <2>3. \A j \in 1 .. k - 1 : recorded[j] # x
    BY <2>1, <2>2 DEF RecordedOnce
  <2> QED
    BY <1>2, <2>1, <2>3 DEF FirstIn
<1> DEFINE i == FirstIn(a, sent)
           k == FirstIn(b, sent)
           p == FirstIn(a, recorded)
           q == FirstIn(b, recorded)
<1>5. i \in 1 .. Len(sent) /\ k \in 1 .. Len(sent) /\ i < k
  BY <1>3
<1>6. sent[i] = a /\ sent[k] = b /\ \A j \in 1 .. k - 1 : sent[j] # b
  BY <1>3
<1>7. p \in 1 .. Len(recorded) /\ q \in 1 .. Len(recorded) /\ recorded[p] = a /\ recorded[q] = b
  BY <1>4
<1> HIDE DEF i, k, p, q
<1>8. i \in 1 .. k - 1
  BY <1>1, <1>5
<1>9. p < q
  BY <1>5, <1>6, <1>7, <1>8 DEF OrderInv, SentInOrder
<1> QED
  BY <1>9 DEF p, q

\* The invariant about the histories, in every environment.
LEMMA StatOrder == Spec => [](RecordedKeys /\ RecordedOnce /\ OrderInv)
<1> DEFINE I == TypeOK /\ IteratorsFit
           J == RecordedKeys /\ RecordedOnce /\ OrderInv
<1>1. Init => J
  <2> SUFFICES ASSUME Init PROVE J
    OBVIOUS
  <2>1. recorded = <<>> /\ sent = <<>> /\ statBuffer = <<>> /\ \A t \in Threads : ~iter[t].valid
    BY DEF Init, NoLoop
  <2>2. Len(recorded) = 0 /\ Len(sent) = 0 /\ Len(statBuffer) = 0
    BY <2>1
  <2>3. RecordedKeys /\ RecordedOnce
    BY <2>2 DEF RecordedKeys, RecordedOnce
  <2>4. OrderInv
    BY <2>1, <2>2 DEF OrderInv, BufferIsTail, SentFromHead, CursorsBehind, SentKnown,
                      SentInOrder, FirstsExist
  <2> QED
    BY <2>3, <2>4
<1>2. I /\ J /\ [Next]_vars => J'
  BY RecordedKeysKept, RecordedOnceKept, OrderKept
<1> HIDE DEF J
<1>3. Spec => []J
  BY <1>1, <1>2, TypeCorrect, PTL DEF Spec
<1> QED
  BY <1>3 DEF J

\* Stats arrive at the server for the first time in the order in which they were
\* recorded (CallInsights.java:88-145), whichever threads are inside at once and
\* whatever happens to the web sockets, for any number of calls, samples and
\* sockets.
THEOREM FirstDeliveries == Spec => []FirstDeliveryInOrder
<1>1. TypeOK /\ IteratorsFit /\ RecordedKeys /\ RecordedOnce /\ OrderInv => FirstDeliveryInOrder
  BY OrderInvImplies
<1> QED
  BY <1>1, TypeCorrect, StatOrder, PTL

-----------------------------------------------------------------------------
(***************************************************************************)
(* One thread inside at a time: without the liberty "overlap" no loop is   *)
(* left with a stale iterator, and no stat is lost.                        *)
(***************************************************************************)
LEMMA LibertiesFixed == ASSUME [Next]_vars PROVE liberties' = liberties
BY DEF Next, vars, KeyResponse, CallStep, SendAnswerEvent, SendRtpStats, Tick, RtpCallback,
       SendSummaryEvent, StopTimer, LocalEnd, SendFeedbackEvent, SendStats, Loop, SendNext,
       Clear, LoopThrows, Open, OnOpen, Drop

OneInside == \A t, u \in Threads : at[t] # "idle" /\ at[u] # "idle" => t = u

LoopsFresh == \A t \in Threads : at[t] = "flush" => iter[t].valid

Serial == OneInside /\ LoopsFresh

LEMMA SerialKept ==
    ASSUME TypeOK, IteratorsFit, ~May("overlap"), Serial, [Next]_vars
    PROVE  Serial'
<1> USE DEF Serial, OneInside, LoopsFresh, bufferVars, threadVars
<1>0. /\ iter \in [Threads -> Iterators] /\ at \in [Threads -> {"idle", "send", "flush", "opened"}]
      /\ \A u \in Threads : iter[u].cursor <= iter[u].limit
  BY DEF TypeOK, Iterators
<1>1. CASE Quiet
  BY <1>1 DEF Quiet
<1>2. ASSUME NEW t \in Producers, NEW s \in Stats, Records(t, s) PROVE Serial'
  <2>1. at' = [at EXCEPT ![t] = "send"] /\ \A u \in Threads \ {t} : at[u] = "idle"
    BY <1>2 DEF Records, Enter, Alone, Buffer
  <2> QED
    BY <1>0, <2>1
<1>3. ASSUME NEW t \in Threads, NEW its \in [Threads -> Iterators], Return(t, its), at[t] # "idle"
      PROVE  Serial'
  BY <1>0, <1>3 DEF Return, Goto
<1>4. ASSUME NEW t \in Threads, StartLoop(t), at[t] # "idle" PROVE Serial'
  <2>1. at' = [at EXCEPT ![t] = "flush"] /\ \A u \in Threads \ {t} : at[u] = "idle"
    BY <1>4 DEF StartLoop, Goto
  <2>2. iter'[t].valid
    BY <1>4, StartLoopTypes
  <2> QED
    BY <1>0, <2>1, <2>2
<1>5. ASSUME NEW t \in Producers, Leaves(t) \/ Begins(t) PROVE Serial'
  BY <1>0, <1>3, <1>4, <1>5, ProducersAreThreads DEF Leaves, Begins
<1>6. ASSUME NEW t \in Threads, SendNext(t) PROVE Serial'
  <2>1. \A u \in Threads : iter'[u].valid = iter[u].valid
    BY <1>6, SendNextTypes
  <2> QED
    BY <1>6, <2>1 DEF SendNext
<1>7. ASSUME NEW t \in Threads, Clear(t) \/ LoopThrows(t) PROVE Serial'
  BY <1>0, <1>3, <1>7, InvalidatedIterators DEF Clear, LoopThrows
<1>8. ASSUME NEW c \in Clients, Open(c) PROVE Serial'
  <2>1. at' = [at EXCEPT ![c] = "opened"] /\ \A u \in Threads \ {c} : at[u] = "idle"
    BY <1>8 DEF Open, Alone, Goto
  <2> QED
    BY <1>0, <2>1, ProducersAreThreads
<1>9. ASSUME NEW c \in Clients, OnOpen(c) PROVE Serial'
  BY <1>4, <1>9, ProducersAreThreads DEF OnOpen
<1> QED
  BY <1>1, <1>2, <1>5, <1>6, <1>7, <1>8, <1>9, StepKinds DEF BufferStep

NoneLost == ToSet(recorded) \subseteq ToSet(sent) \cup ToSet(statBuffer)

LEMMA ToSetAppend ==
    ASSUME NEW S, NEW seq \in Seq(S), NEW e \in S
    PROVE  ToSet(Append(seq, e)) = ToSet(seq) \cup {e}
BY AppendProperties, LenProperties DEF ToSet

\* Who clears the buffer has sent all of it.
LEMMA ClearedIsSent ==
    ASSUME TypeOK, IteratorsFit, CursorsBehind, Serial, NEW t \in Threads, Clear(t)
    PROVE  ToSet(statBuffer) \subseteq ToSet(sent)
<1>1. iter[t].valid /\ iter[t].cursor = Len(statBuffer)
  BY DEF Clear, Serial, LoopsFresh, IteratorsFit
<1>2. \A i \in 1 .. Len(statBuffer) : statBuffer[i] \in Gone
  BY <1>1 DEF CursorsBehind
<1>3. DOMAIN statBuffer = 1 .. Len(statBuffer) /\ DOMAIN sent = 1 .. Len(sent)
  BY LenProperties DEF TypeOK
<1> QED
  BY <1>2, <1>3 DEF ToSet, Gone

LEMMA NoneLostKept ==
    ASSUME TypeOK, IteratorsFit, OrderInv, Serial, NoneLost, [Next]_vars
    PROVE  NoneLost'
<1> USE DEF NoneLost, bufferVars
<1>1. CASE UNCHANGED bufferVars
  BY <1>1
<1>2. ASSUME NEW t \in Producers, NEW s \in Stats, Records(t, s) PROVE NoneLost'
  <2>1. statBuffer' = Append(statBuffer, s) /\ recorded' = Append(recorded, s) /\ sent' = sent
    BY <1>2 DEF Records, Buffer
  <2>2. ToSet(statBuffer') = ToSet(statBuffer) \cup {s} /\ ToSet(recorded') = ToSet(recorded) \cup {s}
    BY <2>1, ToSetAppend DEF TypeOK
  <2> QED
    BY <2>1, <2>2
<1>3. ASSUME NEW t \in Threads, SendNext(t) PROVE NoneLost'
  <2>1. statBuffer[iter[t].cursor + 1] \in Stats
    BY <1>3, SendNextTypes
  <2>2. ToSet(sent') = ToSet(sent) \cup {statBuffer[iter[t].cursor + 1]}
    BY <1>3, <2>1, ToSetAppend DEF SendNext, TypeOK
  <2> QED
    BY <1>3, <2>2 DEF SendNext
<1>4. ASSUME NEW t \in Threads, Clear(t) PROVE NoneLost'
  BY <1>4, ClearedIsSent DEF Clear, OrderInv
<1> QED
  BY <1>1, <1>2, <1>3, <1>4, StepKinds DEF BufferStep, Quiet, Leaves, Begins, LoopThrows, Open, OnOpen

SerialInv == May("overlap") \/ (Serial /\ NoneLost)

\* As long as one thread at a time is inside CallInsights, every recorded stat has
\* been sent or waits in the buffer (CallInsights.java:102-106, 123-127), though
\* sockets fail, or are closed in the middle of the loop.  Needs that a loop in
\* progress has a fresh iterator and has sent what is behind its cursor.
THEOREM NoStatLost == Spec => []NothingLost
<1> DEFINE I == TypeOK /\ IteratorsFit
           J == RecordedKeys /\ RecordedOnce /\ OrderInv
<1>1. Init => SerialInv
  <2> SUFFICES ASSUME Init PROVE Serial /\ NoneLost
    BY DEF SerialInv
  <2>1. Serial
    BY DEF Init, Serial, OneInside, LoopsFresh
  <2>2. recorded = <<>>
    BY DEF Init
  <2>3. NoneLost
    BY <2>2 DEF NoneLost, ToSet
  <2> QED
    BY <2>1, <2>3
<1>2. I /\ J /\ SerialInv /\ [Next]_vars => SerialInv'
  BY LibertiesFixed, SerialKept, NoneLostKept DEF SerialInv, May
<1>3. SerialInv => NothingLost
  BY DEF SerialInv, NoneLost, NothingLost
<1>4. Spec => []J
  BY StatOrder
<1> HIDE DEF J
<1> QED
  BY <1>1, <1>2, <1>3, <1>4, TypeCorrect, PTL DEF Spec

-----------------------------------------------------------------------------
(***************************************************************************)
(* Sockets that last, one thread inside at a time: the loop of a producer, *)
(* and a loop that has sent something, sends on an open socket, so that    *)
(* nothing is thrown and the loops deliver what was recorded once, in      *)
(* order.  Lasting is a condition on the environments.                     *)
(***************************************************************************)
Lasting == ~May("overlap") /\ ~May("drop")

\* A socket's thread is not inside before its socket is open.
ClientsWait == \A c \in Clients : readyState[c] \in {"unused", "connecting"} => at[c] = "idle"

LoopsOpen ==
    \A t \in Threads : at[t] = "flush" /\ (t \in Producers \/ iter[t].cursor > 0) => IsOpen

\* How far the loop has come, if a thread is in it.
Delivered ==
    /\ \A t \in Threads : at[t] = "flush" =>
           Len(sent) = Len(recorded) - Len(statBuffer) + iter[t].cursor
    /\ (\A t \in Threads : at[t] # "flush") => Len(sent) = Len(recorded) - Len(statBuffer)

SentIsPrefix == \A i \in 1 .. Len(sent) : sent[i] = recorded[i]

\* No turn of the loop throws on a thread that records.
NeverThrows == thrown = {}

LastingInv == ClientsWait /\ LoopsOpen /\ NeverThrows /\ Delivered /\ SentIsPrefix

LEMMA ClientsWaitKept ==
    ASSUME TypeOK, ClientsWait, [Next]_vars PROVE ClientsWait'
<1> USE DEF TypeOK, ClientsWait, socketVars, threadVars
<1>0. \A c \in Clients : c \in Threads /\ c \notin Producers
  BY ProducersAreThreads, ProducersOrClients
<1>1. CASE KeyResponse
  BY <1>1 DEF KeyResponse
<1>2. ASSUME NEW call \in Calls, CallStep(call) PROVE ClientsWait'
  <2>1. CASE StopTimer(call)
    BY <2>1 DEF StopTimer
  <2>2. CASE UNCHANGED <<readyState, at>>
    BY <2>2
  <2>3. ASSUME NEW p \in Producers, readyState' = readyState, at' = [at EXCEPT ![p] = "send"]
        PROVE  ClientsWait'
    BY <1>0, <2>3
  <2>4. CASE SendAnswerEvent(call)
    BY <2>2, <2>3, <2>4 DEF SendAnswerEvent, SendEvent, Buffer, Producers
  <2>5. CASE RtpCallback(call)
    BY <2>2, <2>3, <2>5 DEF RtpCallback, Buffer, Producers
  <2>6. CASE SendSummaryEvent(call)
    BY <2>2, <2>3, <2>6 DEF SendSummaryEvent, SendEvent, Buffer, Producers
  <2>7. CASE SendFeedbackEvent(call)
    BY <2>2, <2>3, <2>7 DEF SendFeedbackEvent, Buffer, Producers
  <2>8. CASE SendRtpStats(call) \/ Tick(call) \/ LocalEnd(call)
    BY <2>2, <2>8 DEF SendRtpStats, Tick, LocalEnd
  <2> QED
    BY <1>2, <2>1, <2>4, <2>5, <2>6, <2>7, <2>8 DEF CallStep
<1>3. ASSUME NEW t \in Producers, SendStats(t) PROVE ClientsWait'
  <2>1. \A c \in Clients : at'[c] = at[c]
    BY <1>0, <1>3 DEF SendStats, Return, StartLoop, Goto
  <2>2. \/ readyState' = readyState
        \/ \E c \in Clients : readyState[c] = "unused" /\ readyState' = [readyState EXCEPT ![c] = "connecting"]
    BY <1>3 DEF SendStats, UnusedClients
  <2> QED
    BY <2>1, <2>2
<1>4. ASSUME NEW t \in Threads, Loop(t) PROVE ClientsWait'
  <2>1. \A c \in Clients : at'[c] = at[c] \/ at'[c] = "idle"
    BY <1>0, <1>4 DEF Loop, SendNext, Clear, LoopThrows, Return, Goto
  <2> QED
    BY <1>4, <2>1 DEF Loop, SendNext, Clear, LoopThrows
<1>5. ASSUME NEW c \in Clients, Open(c) \/ OnOpen(c) \/ Drop(c) PROVE ClientsWait'
  BY <1>0, <1>5 DEF Open, OnOpen, Drop, StartLoop, Goto
<1>6. CASE UNCHANGED vars
  BY <1>6 DEF vars
<1> QED
  BY <1>1, <1>2, <1>3, <1>4, <1>5, <1>6 DEF Next

\* stopTimer and connect() leave an open socket alone while a loop uses it.
LEMMA OpenKept ==
    ASSUME TypeOK, Lasting, Serial, ClientsWait, [Next]_vars, IsOpen,
           NEW t \in Threads, at[t] = "flush"
    PROVE  IsOpen'
<1> USE DEF IsOpen, socketVars
<1>1. CASE KeyResponse
  BY <1>1 DEF KeyResponse
<1>2. ASSUME NEW call \in Calls, CallStep(call) PROVE IsOpen'
  <2>1. ~StopTimer(call)
    BY DEF StopTimer, Alone, Lasting
  <2> QED
    BY <1>2, <2>1 DEF CallStep, SendAnswerEvent, SendRtpStats, Tick, RtpCallback,
                      SendSummaryEvent, LocalEnd, SendFeedbackEvent
<1>3. ASSUME NEW p \in Producers, SendStats(p) PROVE FALSE
  BY <1>3, ProducersAreThreads DEF SendStats, Serial, OneInside
<1>4. ASSUME NEW u \in Threads, Loop(u) PROVE IsOpen'
  BY <1>4 DEF Loop, SendNext, Clear, LoopThrows
<1>5. ASSUME NEW c \in Clients, Open(c) PROVE FALSE
  BY <1>5 DEF Open, Alone, Lasting, ClientsWait
<1>6. ASSUME NEW c \in Clients, OnOpen(c) \/ Drop(c) PROVE IsOpen'
  BY <1>6 DEF OnOpen, Drop, Lasting
<1>7. CASE UNCHANGED vars
  BY <1>7 DEF vars
<1> QED
  BY <1>1, <1>2, <1>3, <1>4, <1>5, <1>6, <1>7 DEF Next

NobodyLoops == \A t \in Threads : at[t] # "flush"

\* Steps before which and after which nobody is in a loop.
LEMMA LastingKeptOutside ==
    ASSUME LastingInv, NobodyLoops, NobodyLoops', thrown' = thrown,
           UNCHANGED <<statBuffer, recorded, sent>>
    PROVE  LoopsOpen' /\ NeverThrows' /\ Delivered' /\ SentIsPrefix'
BY DEF LastingInv, NobodyLoops, LoopsOpen, NeverThrows, Delivered, SentIsPrefix

\* Steps that start a loop.
LEMMA LastingKeptByStarting ==
    ASSUME TypeOK, Serial, LastingInv, NEW t \in Threads, at[t] \in {"send", "opened"}, StartLoop(t),
           t \in Producers => IsOpen', thrown' = thrown, UNCHANGED <<statBuffer, recorded, sent>>
    PROVE  LoopsOpen' /\ NeverThrows' /\ Delivered' /\ SentIsPrefix'
<1>1. /\ at' = [at EXCEPT ![t] = "flush"] /\ at \in [Threads -> {"idle", "send", "flush", "opened"}]
      /\ \A u \in Threads \ {t} : at[u] = "idle"
  BY DEF StartLoop, Goto, TypeOK, Serial, OneInside
<1>2. iter'[t].cursor = 0
  BY StartLoopTypes
<1>3. at'[t] = "flush" /\ \A u \in Threads : at'[u] = "flush" => u = t
  BY <1>1
<1>4. LoopsOpen'
  BY <1>2, <1>3 DEF LoopsOpen
<1>5. Len(sent) = Len(recorded) - Len(statBuffer)
  BY <1>1 DEF LastingInv, Delivered
<1>6. Len(recorded) - Len(statBuffer) = Len(recorded) - Len(statBuffer) + 0
  BY Lengths
<1>7. Delivered'
  BY <1>2, <1>3, <1>5, <1>6 DEF Delivered
<1>8. NeverThrows' /\ SentIsPrefix'
  BY DEF LastingInv, NeverThrows, SentIsPrefix
<1> QED
  BY <1>4, <1>7, <1>8

LEMMA LastingKeptByRecording ==
    ASSUME TypeOK, Lasting, Serial, OrderInv, LastingInv,
           NEW t \in Producers, NEW s \in Stats, Records(t, s)
    PROVE  LoopsOpen' /\ NeverThrows' /\ Delivered' /\ SentIsPrefix'
<1> DEFINE n == Len(statBuffer)
           m == Len(recorded)
           l == Len(sent)
<1>1. /\ statBuffer' = Append(statBuffer, s) /\ recorded' = Append(recorded, s)
      /\ sent' = sent /\ thrown' = thrown /\ at' = [at EXCEPT ![t] = "send"]
  BY DEF Records, Buffer
<1>2. at[t] = "idle" /\ \A u \in Threads \ {t} : at[u] = "idle"
  BY DEF Records, Enter, Alone, Lasting
<1>3. NobodyLoops /\ NobodyLoops'
  BY <1>1, <1>2 DEF NobodyLoops, TypeOK
<1>4. n \in Nat /\ m \in Nat /\ l \in Nat /\ n <= m
  BY Lengths DEF OrderInv, BufferIsTail
<1>5. l = m - n
  BY <1>3 DEF NobodyLoops, LastingInv, Delivered
<1>6. /\ Len(statBuffer') = n + 1 /\ Len(recorded') = m + 1
      /\ \A i \in 1 .. m : recorded'[i] = recorded[i]
  BY <1>1, AppendProperties DEF TypeOK
<1>7. \A i \in 1 .. l : sent[i] = recorded[i]
  BY DEF LastingInv, SentIsPrefix
<1> HIDE DEF n, m
<1>8. Len(recorded') - Len(statBuffer') = l
  BY <1>4, <1>5, <1>6
<1>9. \A i \in 1 .. l : i \in 1 .. m
  BY <1>4, <1>5
<1>10. Delivered'
  BY <1>1, <1>3, <1>8 DEF Delivered, NobodyLoops
<1>11. SentIsPrefix'
  BY <1>1, <1>6, <1>7, <1>9 DEF SentIsPrefix
<1> QED
  BY <1>1, <1>3, <1>10, <1>11 DEF LoopsOpen, NobodyLoops, NeverThrows, LastingInv

\* A turn of the loop sends the stat that is next in the order of recording.
LEMMA SendsNextRecorded ==
    ASSUME TypeOK, IteratorsFit, OrderInv, LastingInv, NEW t \in Threads, SendNext(t)
    PROVE  /\ Len(sent) < Len(recorded)
           /\ statBuffer[iter[t].cursor + 1] = recorded[Len(sent) + 1]
<1> DEFINE n == Len(statBuffer)
           m == Len(recorded)
           c == iter[t].cursor
<1>1. n \in Nat /\ m \in Nat /\ n <= m /\ c \in Nat
  BY Lengths DEF OrderInv, BufferIsTail, TypeOK
<1>2. c + 1 \in 1 .. n
  BY SendNextTypes
<1>3. Len(sent) = m - n + c
  BY DEF SendNext, LastingInv, Delivered
<1>4. statBuffer[c + 1] = recorded[m - n + (c + 1)]
  BY <1>2 DEF OrderInv, BufferIsTail
<1> HIDE DEF n, m, c
<1>5. Len(sent) < m /\ m - n + (c + 1) = Len(sent) + 1
  BY <1>1, <1>2, <1>3
<1> QED
  BY <1>4, <1>5 DEF m, c

LEMMA LastingKeptBySending ==
    ASSUME TypeOK, IteratorsFit, Serial, OrderInv, LastingInv, NEW t \in Threads, SendNext(t)
    PROVE  LoopsOpen' /\ NeverThrows' /\ Delivered' /\ SentIsPrefix'
<1> DEFINE l == Len(sent)
           s == statBuffer[iter[t].cursor + 1]
<1>1. /\ sent' = Append(sent, s)
      /\ UNCHANGED <<statBuffer, recorded, at, thrown, mWebSocketClient, readyState>>
  BY DEF SendNext, socketVars
<1>2. IsOpen' /\ at[t] = "flush"
  BY <1>1 DEF SendNext, IsOpen
<1>3. \A u \in Threads : at[u] = "flush" => u = t
  BY <1>2 DEF Serial, OneInside
<1>4. s \in Stats /\ iter'[t].cursor = iter[t].cursor + 1
  BY SendNextTypes
<1>5. Len(sent') = l + 1 /\ sent'[l + 1] = s /\ \A i \in 1 .. l : sent'[i] = sent[i]
  BY <1>1, <1>4, AppendProperties DEF TypeOK
<1>6. l \in Nat /\ iter[t].cursor \in Nat /\ Len(statBuffer) \in Nat /\ Len(recorded) \in Nat
  BY Lengths DEF TypeOK
<1>7. s = recorded[l + 1]
  BY SendsNextRecorded
<1>8. l = Len(recorded) - Len(statBuffer) + iter[t].cursor
  BY <1>2 DEF LastingInv, Delivered
<1>9. \A i \in 1 .. l : sent[i] = recorded[i]
  BY DEF LastingInv, SentIsPrefix
<1> HIDE DEF l, s
<1>10. Len(sent') = Len(recorded) - Len(statBuffer) + iter'[t].cursor
  BY <1>4, <1>5, <1>6, <1>8
<1>11. Delivered'
  BY <1>1, <1>2, <1>3, <1>10 DEF Delivered
<1>12. \A i \in 1 .. l + 1 : i \in 1 .. l \/ i = l + 1
  BY <1>6
<1>13. \A i \in 1 .. l + 1 : sent'[i] = recorded[i]
  BY <1>5, <1>7, <1>9, <1>12
<1>14. SentIsPrefix'
  BY <1>1, <1>5, <1>13 DEF SentIsPrefix
<1> QED
  BY <1>1, <1>2, <1>11, <1>14 DEF LoopsOpen, NeverThrows, LastingInv

LEMMA LastingKept ==
    ASSUME TypeOK, IteratorsFit, OrderInv, Lasting, Serial, LastingInv, [Next]_vars
    PROVE  LastingInv'
<1> DEFINE Goal == LoopsOpen' /\ NeverThrows' /\ Delivered' /\ SentIsPrefix'
<1> USE DEF bufferVars, threadVars
<1>0. at \in [Threads -> {"idle", "send", "flush", "opened"}] /\ iter \in [Threads -> Iterators]
  BY DEF TypeOK, Iterators
<1>a. ASSUME NEW t \in Threads, at[t] # "idle" PROVE \A u \in Threads \ {t} : at[u] = "idle"
  BY <1>a DEF Serial, OneInside
<1>1. ASSUME Quiet PROVE Goal
  <2>1. UNCHANGED <<statBuffer, recorded, sent, at, iter, thrown>>
    BY <1>1 DEF Quiet
  <2>2. ASSUME NEW t \in Threads, at[t] = "flush", t \in Producers \/ iter[t].cursor > 0 PROVE IsOpen'
    BY <2>2, OpenKept DEF LastingInv, LoopsOpen
  <2>3. LoopsOpen'
    BY <2>1, <2>2 DEF LoopsOpen
  <2> QED
    BY <2>1, <2>3 DEF LastingInv, NeverThrows, Delivered, SentIsPrefix
<1>2. ASSUME NEW t \in Producers, NEW s \in Stats, Records(t, s) PROVE Goal
  BY <1>2, LastingKeptByRecording
<1>3. ASSUME NEW t \in Producers, Leaves(t) PROVE Goal
  <2>1. at' = [at EXCEPT ![t] = "idle"] /\ at[t] = "send"
    BY <1>3 DEF Leaves, Return, Goto
  <2>2. NobodyLoops /\ NobodyLoops'
    BY <1>0, <1>a, <2>1, ProducersAreThreads DEF NobodyLoops
  <2> QED
    BY <1>3, <2>2, LastingKeptOutside DEF Leaves
<1>4. ASSUME NEW t \in Producers, Begins(t) PROVE Goal
  <2>1. IsOpen'
    BY <1>4 DEF Begins, IsOpen, socketVars
  <2> QED
    BY <1>4, <2>1, LastingKeptByStarting, ProducersAreThreads DEF Begins
<1>5. ASSUME NEW t \in Threads, SendNext(t) PROVE Goal
  BY <1>5, LastingKeptBySending
<1>6. ASSUME NEW t \in Threads, Clear(t) PROVE Goal
  <2>1. /\ at' = [at EXCEPT ![t] = "idle"] /\ at[t] = "flush" /\ statBuffer' = <<>>
        /\ UNCHANGED <<recorded, sent, thrown>>
    BY <1>6 DEF Clear, Return, Goto
  <2>2. NobodyLoops'
    BY <1>0, <1>a, <2>1 DEF NobodyLoops
  <2>3. iter[t].cursor = Len(statBuffer)
    BY <1>6 DEF Clear, Serial, LoopsFresh, IteratorsFit
  <2>4. Len(sent) = Len(recorded) - Len(statBuffer) + Len(statBuffer)
    BY <2>1, <2>3 DEF LastingInv, Delivered
  <2>5. Len(sent) = Len(recorded) - 0
    BY <2>4, Lengths
  <2>6. Len(statBuffer') = 0
    BY <2>1
  <2>7. Delivered'
    BY <2>1, <2>2, <2>5, <2>6 DEF Delivered, NobodyLoops
  <2> QED
    BY <2>1, <2>2, <2>7 DEF LoopsOpen, NobodyLoops, LastingInv, NeverThrows, SentIsPrefix
<1>7. ASSUME NEW t \in Threads, LoopThrows(t) PROVE Goal
  <2>1. at' = [at EXCEPT ![t] = "idle"] /\ at[t] = "flush" /\ UNCHANGED <<statBuffer, recorded, sent>>
    BY <1>7 DEF LoopThrows, Return, Goto
  <2>2. iter[t].valid
    BY <2>1 DEF Serial, LoopsFresh
  <2>3. ~IsOpen
    BY <1>7, <2>2 DEF LoopThrows
  <2>4. t \notin Producers /\ iter[t].cursor = 0
    BY <1>0, <2>1, <2>3 DEF LastingInv, LoopsOpen, Iterators
  <2>5. thrown' = thrown
    BY <1>7, <2>4 DEF LoopThrows
  <2>6. NobodyLoops'
    BY <1>0, <1>a, <2>1 DEF NobodyLoops
  <2>7. Len(sent) = Len(recorded) - Len(statBuffer) + 0
    BY <2>1, <2>4 DEF LastingInv, Delivered
  <2>8. Len(sent) = Len(recorded) - Len(statBuffer)
    BY <2>7, Lengths
  <2>9. Delivered'
    BY <2>1, <2>6, <2>8 DEF Delivered, NobodyLoops
  <2> QED
    BY <2>1, <2>5, <2>6, <2>9 DEF LoopsOpen, NobodyLoops, LastingInv, NeverThrows, SentIsPrefix
<1>8. ASSUME NEW c \in Clients, Open(c) PROVE Goal
  <2>1. at' = [at EXCEPT ![c] = "opened"] /\ at[c] = "idle" /\ \A u \in Threads \ {c} : at[u] = "idle"
    BY <1>8 DEF Open, Goto, Alone, Lasting, LastingInv, ClientsWait
  <2>2. NobodyLoops /\ NobodyLoops'
    BY <1>0, <2>1, ProducersAreThreads DEF NobodyLoops
  <2> QED
    BY <1>8, <2>2, LastingKeptOutside DEF Open
<1>9. ASSUME NEW c \in Clients, OnOpen(c) PROVE Goal
  BY <1>9, LastingKeptByStarting, ProducersAreThreads, ProducersOrClients DEF OnOpen
<1>10. Goal
  BY <1>1, <1>2, <1>3, <1>4, <1>5, <1>6, <1>7, <1>8, <1>9, StepKinds DEF BufferStep
<1>11. ClientsWait'
  BY ClientsWaitKept DEF LastingInv
<1> QED
  BY <1>10, <1>11 DEF LastingInv

LEMMA LastingReached ==
    ASSUME Environments \subseteq SUBSET {"noUuid", "unstopped", "feedback"}
    PROVE  Spec => [](Serial /\ LastingInv)
<1> DEFINE I == TypeOK /\ IteratorsFit
           J == RecordedKeys /\ RecordedOnce /\ OrderInv
           K == Serial /\ LastingInv
<1>1. TypeOK => Lasting
  <2> SUFFICES ASSUME liberties \in Environments PROVE Lasting
    BY DEF TypeOK
  <2>1. liberties \subseteq {"noUuid", "unstopped", "feedback"}
    OBVIOUS
  <2> QED
    BY <2>1 DEF Lasting, May
<1>2. Init => K
  <2> SUFFICES ASSUME Init PROVE Serial /\ LastingInv
    OBVIOUS
  <2>1. \A t \in Threads : at[t] = "idle"
    BY DEF Init
  <2>2. recorded = <<>> /\ sent = <<>> /\ statBuffer = <<>> /\ thrown = {}
    BY DEF Init
  <2>3. Len(recorded) = 0 /\ Len(sent) = 0 /\ Len(statBuffer) = 0
    BY <2>2
  <2>4. Serial
    BY <2>1 DEF Serial, OneInside, LoopsFresh
  <2>5. ClientsWait /\ LoopsOpen /\ NeverThrows
    BY <2>1, <2>2, ProducersAreThreads DEF ClientsWait, LoopsOpen, NeverThrows
  <2>6. Delivered /\ SentIsPrefix
    BY <2>1, <2>3 DEF Delivered, SentIsPrefix
  <2> QED
    BY <2>4, <2>5, <2>6 DEF LastingInv
<1>3. I /\ J /\ K /\ [Next]_vars => K'
  BY <1>1, SerialKept, LastingKept DEF Lasting
<1>4. Spec => []J
  BY StatOrder
<1> HIDE DEF J, K
<1>5. Spec => []K
  BY <1>2, <1>3, <1>4, TypeCorrect, PTL DEF Spec
<1> QED
  BY <1>5 DEF K

\* sendStats and onOpen (CallInsights.java:88-145) implement the channel of
\* StatChannel: every step of CallInsights records a stat, delivers the next one
\* in the order of recording, or does nothing to the channel.  The safety part of
\* ChannelKept, in all environments without overlap and drop.
THEOREM ChannelImplemented ==
    ASSUME Environments \subseteq SUBSET {"noUuid", "unstopped", "feedback"}
    PROVE  Spec => Channel!ChannelSpec
<1> DEFINE I == TypeOK /\ IteratorsFit
           J == RecordedKeys /\ RecordedOnce /\ OrderInv
           K == Serial /\ LastingInv
<1>1. Init => Channel!ChannelInit
  BY DEF Init, Channel!ChannelInit
<1>2. I /\ J /\ K /\ [Next]_vars => [Channel!ChannelNext]_(Channel!channelVars)
  <2> SUFFICES ASSUME I, J, K, [Next]_vars PROVE [Channel!ChannelNext]_(Channel!channelVars)
    OBVIOUS
  <2>1. CASE UNCHANGED <<recorded, sent>>
    BY <2>1 DEF Channel!channelVars
  <2>2. ASSUME NEW t \in Producers, NEW s \in Stats, Records(t, s) PROVE Channel!Record(s)
    BY <2>2 DEF Records, Buffer, Channel!Record
  <2>3. ASSUME NEW t \in Threads, SendNext(t) PROVE Channel!Deliver
    <3>1. /\ Len(sent) < Len(recorded)
          /\ statBuffer[iter[t].cursor + 1] = recorded[Len(sent) + 1]
      BY <2>3, SendsNextRecorded
    <3>2. sent' = Append(sent, statBuffer[iter[t].cursor + 1]) /\ recorded' = recorded
      BY <2>3 DEF SendNext
    <3> QED
      BY <3>1, <3>2 DEF Channel!Deliver
  <2> QED
    BY <2>1, <2>2, <2>3, StepKinds
       DEF BufferStep, Quiet, Leaves, Begins, Clear, LoopThrows, Open, OnOpen, bufferVars,
           Channel!ChannelNext
<1>3. Spec => []J
  BY StatOrder
<1>4. Spec => []K
  BY LastingReached
<1> HIDE DEF J, K
<1> QED
  BY <1>1, <1>2, <1>3, <1>4, TypeCorrect, PTL DEF Spec, Channel!ChannelSpec

-----------------------------------------------------------------------------
(***************************************************************************)
(* The timers.  SipController has one call at a time, and its stopTimer    *)
(* finds the timer of that call in the field.                              *)
(***************************************************************************)
InProgress(call) == phase[call] \in {"answering", "talking", "ending"}

OneInProgress == \A c, d \in Calls : InProgress(c) /\ InProgress(d) => c = d

LEMMA TimersKept ==
    ASSUME TypeOK, ~May("unstopped"), OneInProgress, TimerStopsWithCall, [Next]_vars
    PROVE  OneInProgress' /\ TimerStopsWithCall'
<1> USE DEF TypeOK, OneInProgress, InProgress, TimerStopsWithCall, timerVars
<1>1. CASE UNCHANGED <<phase, timer, running>>
  BY <1>1
<1>2. ASSUME NEW call \in Calls, SendAnswerEvent(call)
      PROVE  OneInProgress' /\ TimerStopsWithCall'
  BY <1>2 DEF SendAnswerEvent, Between
<1>3. ASSUME NEW call \in Calls, SendRtpStats(call)
      PROVE  OneInProgress' /\ TimerStopsWithCall'
  BY <1>3 DEF SendRtpStats
<1>4. ASSUME NEW call \in Calls, SendSummaryEvent(call)
      PROVE  OneInProgress' /\ TimerStopsWithCall'
  BY <1>4 DEF SendSummaryEvent, Between
<1>5. ASSUME NEW call \in Calls, StopTimer(call)
      PROVE  OneInProgress' /\ TimerStopsWithCall'
  BY <1>5 DEF StopTimer
<1>6. ASSUME NEW call \in Calls, LocalEnd(call) PROVE FALSE
  BY <1>6 DEF LocalEnd
<1> QED
  BY <1>1, <1>2, <1>3, <1>4, <1>5, <1>6
     DEF Next, KeyResponse, CallStep, Tick, RtpCallback, SendFeedbackEvent, SendStats, Loop,
         SendNext, Clear, LoopThrows, Open, OnOpen, Drop, vars

\* stopTimer (CallInsights.java:316) leaves no timer behind, though sendRtpStats
\* overwrites the field without cancelling what it held: as long as no call ends
\* locally, the one timer that ticks is that of the call in progress, with any
\* threads inside at once and any sockets failing.
THEOREM TimersStop ==
    ASSUME \A e \in Environments : "unstopped" \notin e
    PROVE  Spec => []TimerStopsWithCall
<1> DEFINE K == OneInProgress /\ TimerStopsWithCall
<1>1. Init => K
  BY DEF Init, OneInProgress, InProgress, TimerStopsWithCall
<1>2. TypeOK /\ K /\ [Next]_vars => K'
  BY TimersKept DEF TypeOK, May
<1>3. K => TimerStopsWithCall
  OBVIOUS
<1> HIDE DEF K
<1> QED
  BY <1>1, <1>2, <1>3, TypeCorrect, PTL DEF Spec
=============================================================================
