------------------------------ MODULE RtpStats ------------------------------
(***************************************************************************)
(* RtpStats: the quality warnings of a call.  Every five seconds           *)
(* computeRTPStats takes a report, appends its measures to one short list  *)
(* per metric, and warns when two of the last three are bad.  A report may *)
(* lack its local or its remote half, and then the rest of the measures is *)
(* skipped.                                                                *)
(*                                                                         *)
(* Measures are integers: milliseconds, loss in thousandths, MOS in 1/10^4 *)
(* (computed from R in tenths).  The audio levels are no input: the code   *)
(* that would read them is commented out, and the level is always -100 dB. *)
(***************************************************************************)
EXTENDS Integers, Sequences, FiniteSets

CONSTANTS
    Rtts, Jitters,    \* measures, in milliseconds
    PacketCounts,     \* pairs <<lost, sent>>
    BytesSent,
    Codecs            \* googCodecName of a report

ASSUME MeasuresAssumption ==
    /\ Rtts \subseteq Nat /\ Jitters \subseteq Nat /\ BytesSent \subseteq Nat
    /\ PacketCounts \subseteq Nat \X Nat

Windowed == {"rtt", "mos", "jitterLocalMeasures", "jitterRemoteMeasures",
             "packetLossLocalMeasures", "packetLossRemoteMeasures"}
AudioLevels == {"audioLevelLocalMeasures", "audioLevelRemoteMeasures"}
Metrics == Windowed \cup AudioLevels \cup {"microphoneAccess"}

VARIABLES
    mediaMetricMap,   \* list of each windowed metric
    audioLevelList,   \* the one list behind both audio levels
    mediaWarning,
    codec,
    samples           \* history: the last three measures of each windowed metric

vars == <<mediaMetricMap, audioLevelList, mediaWarning, codec, samples>>

Init ==
    /\ mediaMetricMap = [m \in Windowed |-> <<>>]
    /\ audioLevelList = <<>>
    /\ mediaWarning = [m \in Metrics |-> FALSE]
    /\ codec = "PCMU"
    /\ samples = [m \in Windowed |-> <<>>]

-----------------------------------------------------------------------------
(***************************************************************************)
(* The pure part.                                                          *)
(***************************************************************************)
RTenths(c, rtt, jitter) ==
    LET value   == IF c = "opus" THEN 950 ELSE 932
        latency == rtt + 4000 * jitter + 20000            \* in 1/2000 ms
    IN  IF latency < 320000 THEN value - latency \div 8000
                            ELSE value - (latency - 240000) \div 2000

MosOf(R) == 10000 + 35 * R + (71 * ((R * (R - 600) * (1000 - R)) \div 1000)) \div 1000

GetMOS_NoFloor(c, rtt, jitter) == MosOf(RTenths(c, rtt, jitter))

GetMOS(c, rtt, jitter) ==
    LET R == RTenths(c, rtt, jitter)
    IN  IF R <= 0 THEN 10000 ELSE IF R > 1000 THEN 45000 ELSE MosOf(R)

\* The loss in thousandths, as processStats rounds it.
CalculateFractionLoss(lost, sent) ==
    IF lost = 0 /\ sent = 0 THEN 0
    ELSE IF sent = 0 THEN 1000 ELSE (2000 * lost + sent) \div (2 * sent)

\* processStats rounds the MOS to three decimals: 3.4996 is not low any more.
RoundedMos(mos) == 10 * ((mos + 5) \div 10)

\* The switch of sendAlertCallback.  callMediaMatrices passes the name of the
\* metric, and those of jitter and packet loss are none of its cases.
Bad(c, type, val) ==
    CASE type = "rtt" -> val > 400
      [] type = "mos" -> val < 35000
      [] type \in {"jitter_local", "jitter_remote"} -> val > 30
      [] type \in {"packectloss_local", "packectloss_remote"} ->
            val >= (IF c = "PCMU" THEN 20 ELSE 100)
      [] OTHER -> FALSE

BadOnes(c, list, type) == {i \in DOMAIN list : Bad(c, type, list[i])}

\* Whether sendAlertCallback returns an average: two or more values are bad.
SendAlertCallback(c, list, type) == Cardinality(BadOnes(c, list, type)) >= 2

-----------------------------------------------------------------------------
(***************************************************************************)
(* One report.  Each half is there or not: a set of at most one record.    *)
(***************************************************************************)
Halves(records) == {{}} \cup {{r} : r \in records}
LocalHalves == Halves([rtt : Rtts, jitter : Jitters, packets : PacketCounts, bytesSent : BytesSent])
RemoteHalves == Halves([jitter : Jitters, packets : PacketCounts])

Loss(half) == CalculateFractionLoss(half.packets[1], half.packets[2])

\* The measures that printMediaMetric reaches, each with its metric: reading one
\* that is missing throws, and the rest is skipped.
Measures(local, remote, c) ==
    UNION ({{<<"rtt", l.rtt>>, <<"mos", RoundedMos(GetMOS(c, l.rtt, l.jitter))>>,
             <<"jitterLocalMeasures", l.jitter>>} : l \in local}
           \cup {{<<"jitterRemoteMeasures", r.jitter>>, <<"packetLossLocalMeasures", Loss(l)>>,
                  <<"packetLossRemoteMeasures", Loss(r)>>} : l \in local, r \in remote})

\* callMediaMatrices: the list of metric m after it, and its warning.
CallMediaMatrices_Resets(c, m, value) ==
    LET list == Append(mediaMetricMap[m], value)
    IN  IF Len(list) = 3 THEN [list |-> <<>>, warning |-> SendAlertCallback(c, list, m)]
                         ELSE [list |-> list, warning |-> mediaWarning[m]]

CallMediaMatrices_Keeps(c, m, value) ==
    LET list == Append(mediaMetricMap[m], value)
    IN  IF Len(list) = 3 THEN [list |-> list, warning |-> SendAlertCallback(c, list, m)]
                         ELSE [list |-> list, warning |-> mediaWarning[m]]

CallMediaMatrices(c, m, value) ==
    LET list == Append(mediaMetricMap[m], value)
    IN  IF Len(list) = 3 THEN [list |-> Tail(list), warning |-> SendAlertCallback(c, list, m)]
                         ELSE [list |-> list, warning |-> mediaWarning[m]]

\* processAudioLevels(type, value): the shared list has two entries, and the
\* level that is there twice is -100, or has fewer.
Level == -100

ProcessAudioLevels(list) ==
    LET full == Append(list, Level)
    IN  IF Len(list) = 2
        THEN [list |-> Tail(full), decides |-> TRUE, mute |-> Cardinality({i \in 1 .. 3 : full[i] = -100}) >= 2]
        ELSE [list |-> full, decides |-> FALSE, mute |-> FALSE]

LastThree(list) == IF Len(list) > 3 THEN Tail(list) ELSE list

\* early is the codec when the local half is read: its name may come before or
\* after bytesSent among the values of a report.
ComputeRTPStats(local, remote, c, early) ==
    LET measures == Measures(local, remote, early)
        Measured(m) == \E x \in measures : x[1] = m
        Value(m) == (CHOOSE x \in measures : x[1] = m)[2]
        whole == local # {} /\ remote # {}
        first == ProcessAudioLevels(audioLevelList)
        second == ProcessAudioLevels(first.list)
        warning == [m \in Metrics |->
            CASE m \in Windowed /\ Measured(m) -> CallMediaMatrices(c, m, Value(m)).warning
              [] m = "audioLevelLocalMeasures" /\ whole /\ first.decides -> first.mute
              [] m = "audioLevelRemoteMeasures" /\ whole /\ second.decides -> second.mute
              [] m = "microphoneAccess" /\ whole ->
                    (\A l \in local : l.bytesSent = 0) /\ Level = -100
              [] OTHER -> mediaWarning[m]]
    IN  /\ codec' = c
        /\ mediaMetricMap' = [m \in Windowed |->
               IF Measured(m) THEN CallMediaMatrices(c, m, Value(m)).list ELSE mediaMetricMap[m]]
        /\ audioLevelList' = IF whole THEN second.list ELSE audioLevelList
        /\ mediaWarning' = warning
        /\ samples' = [m \in Windowed |-> IF Measured(m) THEN LastThree(Append(samples[m], Value(m))) ELSE samples[m]]

Next ==
    \E local \in LocalHalves, remote \in RemoteHalves, c \in Codecs :
        \E early \in {codec, c} : ComputeRTPStats(local, remote, c, early)

Spec == Init /\ [][Next]_vars

-----------------------------------------------------------------------------
TypeOK ==
    /\ \A m \in Windowed : Len(mediaMetricMap[m]) <= 2
    /\ audioLevelList \in {<<>>} \cup [1 .. 1 -> {Level}] \cup [1 .. 2 -> {Level}]
    /\ mediaWarning \in [Metrics -> BOOLEAN]

\* The reference: two of the last three measures of the metric are bad.
TwoOfThreeBad(m, type) ==
    Len(samples[m]) = 3 /\ Cardinality(BadOnes(codec, samples[m], type)) >= 2

\* callMediaMatrices (RtpStats.java:479) warns of a high round-trip time and of
\* a low MOS exactly when two of the last three measures are bad, however many
\* reports came without one of their halves in between.  (Jitter and packet loss
\* never warn: see Bad.)
WarningIsWindow == \A m \in {"rtt", "mos"} : mediaWarning[m] <=> TwoOfThreeBad(m, m)

\* getMOS (RtpStats.java:134): with the codec at hand, more jitter never turns a
\* low MOS into a good one, across the change of formula at 160 ms and the floor
\* at R = 0.
LowMosStaysLow ==
    \A j \in 0 .. 15 :
        GetMOS(codec, 400, 60 * j) < 35000 => GetMOS(codec, 400, 60 * j + 60) < 35000
=============================================================================
