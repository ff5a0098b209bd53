--------------------------- MODULE RtpStatsProofs ---------------------------
(***************************************************************************)
(* Theorems about RtpStats, for any sets of measures and codecs.           *)
(***************************************************************************)
EXTENDS RtpStats, SequenceTheorems, TLAPS

(***************************************************************************)
(* The MOS.  The polynomial is not monotonic (it falls below R = 14), so   *)
(* the argument goes through a threshold: the MOS is low exactly for R of  *)
(* at most 67.9, and R falls with the jitter.                              *)
(***************************************************************************)
Cubic(R) == R * (R - 600) * (1000 - R)

\* getMOS (RtpStats.java:160): up to R = 67.9 the polynomial is below 3.5.
LEMMA MosLowBelow ==
    ASSUME NEW R \in Int, 0 < R, R <= 679
    PROVE  MosOf(R) < 35000
<1>1. Cubic(R) <= 17218761
  <2>1. CASE R <= 600
    <3>1. R * (R - 600) <= 0
      BY <2>1
    <3> QED
      BY <3>1, <2>1 DEF Cubic
  <2>2. CASE R > 600
    BY <2>2 DEF Cubic
  <2> QED
    BY <2>1, <2>2
<1>2. Cubic(R) \div 1000 <= 17218
  BY <1>1 DEF Cubic
<1>3. (71 * (Cubic(R) \div 1000)) \div 1000 <= 1222
  BY <1>2 DEF Cubic
<1> QED
  BY <1>3 DEF MosOf, Cubic

\* From R = 68.0 up to 100 it is 3.5 or more.
LEMMA MosGoodAbove ==
    ASSUME NEW R \in Int, 680 <= R, R <= 1000
    PROVE  MosOf(R) >= 35000
<1>1. CASE R >= 715
  <2>1. Cubic(R) >= 0
    BY <1>1 DEF Cubic
  <2> QED
    BY <1>1, <2>1 DEF MosOf, Cubic
<1>2. CASE R < 715
  <2>1. Cubic(R) >= 17408000
    BY <1>2 DEF Cubic
  <2>2. Cubic(R) \div 1000 >= 17408
    BY <2>1 DEF Cubic
  <2>3. (71 * (Cubic(R) \div 1000)) \div 1000 >= 1235
    BY <2>2 DEF Cubic
  <2> QED
    BY <2>3 DEF MosOf, Cubic
<1> QED
  BY <1>1, <1>2

\* The R factor is an integer and falls with the jitter, also where its formula
\* changes at 160 ms (RtpStats.java:149).
LEMMA RFalls ==
    ASSUME NEW c, NEW rtt \in Nat, NEW j \in Nat, NEW k \in Nat, j <= k
    PROVE  /\ RTenths(c, rtt, j) \in Int /\ RTenths(c, rtt, k) \in Int
           /\ RTenths(c, rtt, k) <= RTenths(c, rtt, j)
  BY DEF RTenths

\* getMOS is below 3.5 exactly for R of at most 67.9.
LEMMA MosThreshold ==
    ASSUME NEW c, NEW rtt \in Nat, NEW j \in Nat
    PROVE  GetMOS(c, rtt, j) < 35000 <=> RTenths(c, rtt, j) <= 679
<1> DEFINE R == RTenths(c, rtt, j)
<1>1. R \in Int
  BY RFalls
<1>2. GetMOS(c, rtt, j) = IF R <= 0 THEN 10000 ELSE IF R > 1000 THEN 45000 ELSE MosOf(R)
  BY DEF GetMOS
<1> HIDE DEF R
<1>3. MosOf(R) \in Int
  BY <1>1 DEF MosOf
<1>4. R > 679 /\ R <= 1000 => MosOf(R) >= 35000
  BY <1>1, MosGoodAbove
<1>5. R > 0 /\ R <= 679 => MosOf(R) < 35000
  BY <1>1, MosLowBelow
<1>6. GetMOS(c, rtt, j) < 35000 <=> R <= 679
  BY <1>1, <1>2, <1>3, <1>4, <1>5
<1> QED
  BY <1>6 DEF R

\* getMOS (RtpStats.java:134): for every codec, round-trip time and jitter, more
\* jitter never turns a low MOS into a good one.
THEOREM LowMosMonotone ==
    ASSUME NEW c, NEW rtt \in Nat, NEW j \in Nat, NEW k \in Nat, j <= k,
           GetMOS(c, rtt, j) < 35000
    PROVE  GetMOS(c, rtt, k) < 35000
  BY MosThreshold, RFalls

\* Whatever codec the reports have named, LowMosStaysLow holds.
THEOREM LowMosNeverRecovers == Spec => []LowMosStaysLow
<1>1. LowMosStaysLow
  BY LowMosMonotone DEF LowMosStaysLow
<1> QED
  BY <1>1, PTL

-----------------------------------------------------------------------------
(***************************************************************************)
(* The windows.  What callMediaMatrices keeps of a metric are the last two *)
(* measures at most, so that the list it judges is the last three.         *)
(***************************************************************************)
Window(m) ==
    /\ samples[m] \in Seq(Int) /\ Len(samples[m]) <= 3
    /\ mediaMetricMap[m] = IF Len(samples[m]) = 3 THEN Tail(samples[m]) ELSE samples[m]

WindowInv ==
    /\ mediaMetricMap \in [Windowed -> Seq(Int)] /\ samples \in [Windowed -> Seq(Int)]
    /\ mediaWarning \in [Metrics -> BOOLEAN]
    /\ \A m \in Windowed : Window(m)
    /\ audioLevelList \in Seq({Level}) /\ Len(audioLevelList) <= 2
    /\ \A m \in {"rtt", "mos"} : mediaWarning[m] <=> TwoOfThreeBad(m, m)

\* Sliding a full window: dropping the oldest measure and adding a new one in
\* either order.
LEMMA SlideWindow ==
    ASSUME NEW S, NEW s \in Seq(S), NEW v \in S, Len(s) = 3
    PROVE  /\ Append(Tail(s), v) \in Seq(S) /\ Len(Append(Tail(s), v)) = 3
           /\ Tail(Append(s, v)) = Append(Tail(s), v)
<1>1. s # <<>>
  <2>1. Len(<<>>) = 0 /\ 3 # 0
    BY EmptySeq
  <2> QED
    BY <2>1, Zenon
<1>2. Tail(s) \in Seq(S) /\ Len(Tail(s)) = Len(s) - 1
  BY <1>1, HeadTailProperties
<1>3. Append(Tail(s), v) \in Seq(S) /\ Len(Append(Tail(s), v)) = Len(Tail(s)) + 1
  BY <1>2, AppendProperties
<1>4. Tail(Append(s, v)) = Append(Tail(s), v)
  BY <1>1, HeadTailAppend
<1> QED
  BY <1>2, <1>3, <1>4

\* Every measure that printMediaMetric reaches is an integer.
LEMMA MeasuresAreIntegers ==
    ASSUME NEW local \in LocalHalves, NEW remote \in RemoteHalves, NEW c,
           NEW x \in Measures(local, remote, c)
    PROVE  x[2] \in Int
<1>1. ASSUME NEW R \in Int PROVE MosOf(R) \in Int
  BY DEF MosOf
<1>2. ASSUME NEW l \in local PROVE l.rtt \in Nat /\ l.jitter \in Nat /\ l.packets \in Nat \X Nat
  BY MeasuresAssumption DEF LocalHalves, Halves
<1>3. ASSUME NEW r \in remote PROVE r.jitter \in Nat /\ r.packets \in Nat \X Nat
  BY MeasuresAssumption DEF RemoteHalves, Halves
<1>4. ASSUME NEW half, half.packets \in Nat \X Nat PROVE Loss(half) \in Int
  BY <1>4 DEF Loss, CalculateFractionLoss
<1>5. ASSUME NEW l \in local PROVE RoundedMos(GetMOS(c, l.rtt, l.jitter)) \in Int
  <2>1. GetMOS(c, l.rtt, l.jitter) \in Int
    BY <1>1, <1>2, RFalls DEF GetMOS
  <2> QED
    BY <2>1 DEF RoundedMos
<1> QED
  BY <1>2, <1>3, <1>4, <1>5 DEF Measures

\* sendAlertCallback judges round-trip time and MOS alike for every codec.
LEMMA BadIgnoresCodec ==
    ASSUME NEW m \in {"rtt", "mos"}, NEW list, NEW c, NEW d
    PROVE  BadOnes(c, list, m) = BadOnes(d, list, m)
<1>1. \A v : Bad(c, m, v) <=> Bad(d, m, v)
  BY DEF Bad
<1> QED
  BY <1>1 DEF BadOnes

\* callMediaMatrices with a new measure: the window slides, and the warning is
\* about the last three measures.
LEMMA WindowSlides ==
    ASSUME NEW m \in Windowed, Window(m), NEW v \in Int, NEW c, NEW s,
           s = LastThree(Append(samples[m], v))
    PROVE  /\ s \in Seq(Int) /\ Len(s) <= 3
           /\ CallMediaMatrices(c, m, v).list = IF Len(s) = 3 THEN Tail(s) ELSE s
           /\ CallMediaMatrices(c, m, v).warning =
                 IF Len(s) = 3 THEN SendAlertCallback(c, s, m) ELSE mediaWarning[m]
           /\ Len(samples[m]) = 3 => Len(s) = 3
<1>1. samples[m] \in Seq(Int) /\ Len(samples[m]) \in Nat /\ Len(samples[m]) <= 3
  BY LenProperties DEF Window
<1>2. Append(samples[m], v) \in Seq(Int) /\ Len(Append(samples[m], v)) = Len(samples[m]) + 1
  BY <1>1, AppendProperties
<1> DEFINE new == CallMediaMatrices(c, m, v)
<1>3. CASE Len(samples[m]) = 3
  <2>1. /\ Append(Tail(samples[m]), v) \in Seq(Int) /\ Len(Append(Tail(samples[m]), v)) = 3
        /\ Tail(Append(samples[m], v)) = Append(Tail(samples[m]), v)
    BY <1>1, <1>3, SlideWindow
  <2>2. Len(Append(samples[m], v)) > 3
    BY <1>2, <1>3
  <2>3. s = Append(Tail(samples[m]), v)
    BY <2>1, <2>2, Zenon DEF LastThree
  <2>4. Append(mediaMetricMap[m], v) = s
    BY <1>3, <2>3, Zenon DEF Window
  <2>5. s \in Seq(Int) /\ Len(s) = 3
    BY <2>1, <2>3, Zenon
  <2>6. new = [list |-> Tail(s), warning |-> SendAlertCallback(c, s, m)]
    BY <2>4, <2>5, Zenon DEF CallMediaMatrices
  <2>7. new.list = Tail(s) /\ new.warning = SendAlertCallback(c, s, m)
    BY <2>6
  <2> HIDE DEF new
  <2>8. 3 <= 3
    OBVIOUS
  <2> QED
    BY <1>3, <2>5, <2>7, <2>8, Zenon DEF new
<1>4. CASE Len(samples[m]) # 3
  <2> DEFINE n == Len(samples[m])
  <2>0. n \in Nat /\ n <= 3 /\ n # 3
    BY <1>1, <1>4
  <2> HIDE DEF n
  <2>1. ~(n + 1 > 3) /\ n + 1 <= 3
    BY <2>0
  <2>2. s = Append(samples[m], v)
    BY <1>2, <2>1, Zenon DEF LastThree, n
  <2>3. Append(mediaMetricMap[m], v) = s
    BY <1>4, <2>2, Zenon DEF Window
  <2>4. s \in Seq(Int) /\ Len(s) = Len(samples[m]) + 1
    BY <1>2, <2>2, Zenon
  <2>5. Len(s) <= 3
    BY <2>1, <2>4, Zenon DEF n
  <2>6. CASE Len(s) = 3
    <3>1. new = [list |-> Tail(s), warning |-> SendAlertCallback(c, s, m)]
      BY <2>3, <2>6, Zenon DEF CallMediaMatrices
    <3>2. new.list = Tail(s) /\ new.warning = SendAlertCallback(c, s, m)
      BY <3>1
    <3> QED
      BY <1>4, <2>4, <2>5, <2>6, <3>2, Zenon
  <2>7. CASE Len(s) # 3
    <3>1. new = [list |-> s, warning |-> mediaWarning[m]]
      BY <2>3, <2>7, Zenon DEF CallMediaMatrices
    <3>2. new.list = s /\ new.warning = mediaWarning[m]
      BY <3>1
    <3> QED
      BY <1>4, <2>4, <2>5, <2>7, <3>2, Zenon
  <2> QED
    BY <2>6, <2>7
<1> QED
  BY <1>3, <1>4

\* processAudioLevels keeps two levels at most.
LEMMA LevelsStayShort ==
    ASSUME NEW list \in Seq({Level}), Len(list) <= 2
    PROVE  /\ ProcessAudioLevels(list).list \in Seq({Level})
           /\ Len(ProcessAudioLevels(list).list) <= 2
           /\ ProcessAudioLevels(list).mute \in BOOLEAN
<1>1. Append(list, Level) \in Seq({Level}) /\ Len(Append(list, Level)) = Len(list) + 1
  BY AppendProperties
<1>2. Len(list) \in Nat
  BY LenProperties
<1>3. CASE Len(list) = 2
  <2>1. Tail(Append(list, Level)) \in Seq({Level}) /\ Len(Tail(Append(list, Level))) = 2
    BY <1>1, <1>3, HeadTailProperties, EmptySeq
  <2> DEFINE loud == Cardinality({i \in 1 .. 3 : Append(list, Level)[i] = -100}) >= 2
  <2>2. loud \in BOOLEAN
    OBVIOUS
  <2>3. ProcessAudioLevels(list) = [list |-> Tail(Append(list, Level)), decides |-> TRUE, mute |-> loud]
    BY <1>3, Zenon DEF ProcessAudioLevels
  <2> HIDE DEF loud
  <2>4. ProcessAudioLevels(list).list = Tail(Append(list, Level)) /\ ProcessAudioLevels(list).mute = loud
    BY <2>3
  <2> QED
    BY <2>1, <2>2, <2>4
<1>4. CASE Len(list) # 2
  <2>1. ProcessAudioLevels(list) = [list |-> Append(list, Level), decides |-> FALSE, mute |-> FALSE]
    BY <1>4, Zenon DEF ProcessAudioLevels
  <2>2. ProcessAudioLevels(list).list = Append(list, Level) /\ ProcessAudioLevels(list).mute = FALSE
    BY <2>1
  <2>3. Len(Append(list, Level)) <= 2
    <3>1. \A n \in Nat : n <= 2 /\ n # 2 => n + 1 <= 2
      OBVIOUS
    <3>2. Len(list) + 1 <= 2
      BY <1>2, <1>4, <3>1, Zenon
    <3> QED
      BY <1>1, <3>2, Zenon
  <2>4. FALSE \in BOOLEAN
    OBVIOUS
  <2> QED
    BY <1>1, <2>2, <2>3, <2>4, Zenon
<1> QED
  BY <1>3, <1>4

\* One report, with whatever halves it has, slides the windows of the metrics
\* that it reaches and leaves the others.
LEMMA ReportKeepsWindows ==
    ASSUME WindowInv, NEW local \in LocalHalves, NEW remote \in RemoteHalves, NEW c, NEW early,
           ComputeRTPStats(local, remote, c, early)
    PROVE  WindowInv'
<1> DEFINE measures == Measures(local, remote, early)
           Measured(m) == \E x \in measures : x[1] = m
           Value(m) == (CHOOSE x \in measures : x[1] = m)[2]
           whole == local # {} /\ remote # {}
           first == ProcessAudioLevels(audioLevelList)
           second == ProcessAudioLevels(first.list)
           mic == (\A l \in local : l.bytesSent = 0) /\ Level = -100
           warning(m) ==
               CASE m \in Windowed /\ Measured(m) -> CallMediaMatrices(c, m, Value(m)).warning
                 [] m = "audioLevelLocalMeasures" /\ whole /\ first.decides -> first.mute
                 [] m = "audioLevelRemoteMeasures" /\ whole /\ second.decides -> second.mute
                 [] m = "microphoneAccess" /\ whole -> mic
                 [] OTHER -> mediaWarning[m]
<1>1. /\ codec' = c
      /\ mediaMetricMap' = [m \in Windowed |->
             IF Measured(m) THEN CallMediaMatrices(c, m, Value(m)).list ELSE mediaMetricMap[m]]
      /\ audioLevelList' = IF whole THEN second.list ELSE audioLevelList
      /\ mediaWarning' = [m \in Metrics |-> warning(m)]
      /\ samples' = [m \in Windowed |->
             IF Measured(m) THEN LastThree(Append(samples[m], Value(m))) ELSE samples[m]]
  BY Zenon DEF ComputeRTPStats
<1>2. \A m \in Windowed : Measured(m) => Value(m) \in Int
  BY MeasuresAreIntegers
<1> HIDE DEF measures, Measured, Value
<1>3. /\ first.list \in Seq({Level}) /\ Len(first.list) <= 2 /\ first.mute \in BOOLEAN
      /\ second.list \in Seq({Level}) /\ Len(second.list) <= 2 /\ second.mute \in BOOLEAN
  BY LevelsStayShort DEF WindowInv
<1> HIDE DEF first, second
<1>4. audioLevelList' \in Seq({Level}) /\ Len(audioLevelList') <= 2
  BY <1>1, <1>3, Zenon DEF WindowInv
<1>5. ASSUME NEW m \in Windowed
      PROVE  /\ samples'[m] \in Seq(Int) /\ Len(samples'[m]) <= 3
             /\ mediaMetricMap'[m] = IF Len(samples'[m]) = 3 THEN Tail(samples'[m]) ELSE samples'[m]
             /\ mediaMetricMap'[m] \in Seq(Int)
             /\ warning(m) = IF Measured(m) /\ Len(samples'[m]) = 3
                             THEN SendAlertCallback(c, samples'[m], m) ELSE mediaWarning[m]
             /\ Measured(m) \/ samples'[m] = samples[m]
             /\ Len(samples[m]) = 3 => Len(samples'[m]) = 3
  <2>1. Window(m) /\ mediaMetricMap[m] \in Seq(Int)
    BY DEF WindowInv
  <2>2. CASE Measured(m)
    <3>1. /\ mediaMetricMap'[m] = CallMediaMatrices(c, m, Value(m)).list
          /\ samples'[m] = LastThree(Append(samples[m], Value(m)))
      BY <1>1, <2>2, Zenon
    <3>2. warning(m) = CallMediaMatrices(c, m, Value(m)).warning
      BY <2>2 DEF Windowed
    <3>3. /\ samples'[m] \in Seq(Int) /\ Len(samples'[m]) <= 3
          /\ mediaMetricMap'[m] = IF Len(samples'[m]) = 3 THEN Tail(samples'[m]) ELSE samples'[m]
          /\ warning(m) = IF Len(samples'[m]) = 3 THEN SendAlertCallback(c, samples'[m], m)
                                                  ELSE mediaWarning[m]
          /\ Len(samples[m]) = 3 => Len(samples'[m]) = 3
      BY <1>2, <2>1, <2>2, <3>1, <3>2, WindowSlides
    <3>4. mediaMetricMap'[m] \in Seq(Int)
      <4>1. CASE Len(samples'[m]) = 3
        <5>1. Len(<<>>) = 0 /\ 3 # 0
          BY EmptySeq
        <5>2. samples'[m] # <<>>
          BY <4>1, <5>1, Zenon
        <5> QED
          BY <3>3, <4>1, <5>2, HeadTailProperties
      <4> QED
        BY <3>3, <4>1, Zenon
    <3> QED
      BY <2>2, <3>3, <3>4, Zenon
  <2>3. CASE ~Measured(m)
    <3>1. mediaMetricMap'[m] = mediaMetricMap[m] /\ samples'[m] = samples[m]
      BY <1>1, <2>3, Zenon
    <3>2. warning(m) = mediaWarning[m]
      BY <2>3 DEF Windowed
    <3> QED
      BY <2>1, <2>3, <3>1, <3>2, Zenon DEF Window
  <2> QED
    BY <2>2, <2>3
<1>6. \A m \in Metrics : warning(m) \in BOOLEAN
  <2> SUFFICES ASSUME NEW m \in Metrics PROVE warning(m) \in BOOLEAN
    OBVIOUS
  <2>1. mediaWarning[m] \in BOOLEAN
    BY DEF WindowInv
  <2>2. CASE m \in Windowed
    <3>1. SendAlertCallback(c, samples'[m], m) \in BOOLEAN
      BY DEF SendAlertCallback
    <3> QED
      BY <1>5, <2>1, <2>2, <3>1, Zenon
  <2>3. CASE m \notin Windowed
    <3>1. mic \in BOOLEAN
      OBVIOUS
    <3> QED
      BY <1>3, <2>1, <2>3, <3>1, Zenon
  <2> QED
    BY <2>2, <2>3
<1> HIDE DEF warning
<1>7. ASSUME NEW m \in {"rtt", "mos"} PROVE (mediaWarning[m] <=> TwoOfThreeBad(m, m))'
  <2>1. m \in Windowed /\ m \in Metrics
    BY DEF Windowed, Metrics
  <2>2. mediaWarning'[m] = warning(m)
    BY <1>1, <2>1, Zenon
  <2>3. TwoOfThreeBad(m, m)' <=> Len(samples'[m]) = 3 /\ SendAlertCallback(c, samples'[m], m)
    BY <1>1, Zenon DEF TwoOfThreeBad, SendAlertCallback
  <2>4. mediaWarning[m] <=> Len(samples[m]) = 3 /\ SendAlertCallback(codec, samples[m], m)
    BY Zenon DEF WindowInv, TwoOfThreeBad, SendAlertCallback
  <2>5. SendAlertCallback(codec, samples[m], m) <=> SendAlertCallback(c, samples[m], m)
    BY BadIgnoresCodec DEF SendAlertCallback
  <2>6. CASE ~Measured(m)
    <3>1. samples'[m] = samples[m] /\ warning(m) = mediaWarning[m]
      BY <1>5, <2>1, <2>6, Zenon
    <3> QED
      BY <2>2, <2>3, <2>4, <2>5, <3>1, Zenon
  <2>7. CASE Measured(m) /\ Len(samples'[m]) = 3
    BY <1>5, <2>1, <2>2, <2>3, <2>7, Zenon
  <2>8. CASE Measured(m) /\ Len(samples'[m]) # 3
    <3>1. Len(samples[m]) # 3
      BY <1>5, <2>1, <2>8, Zenon
    <3> QED
      BY <1>5, <2>1, <2>2, <2>3, <2>4, <2>8, <3>1, Zenon
  <2> QED
    BY <2>6, <2>7, <2>8
<1> QED
  <2>1. /\ mediaMetricMap' \in [Windowed -> Seq(Int)] /\ samples' \in [Windowed -> Seq(Int)]
        /\ \A m \in Windowed : Window(m)'
    BY <1>1, <1>5, Zenon DEF Window
  <2>2. mediaWarning' \in [Metrics -> BOOLEAN]
    BY <1>1, <1>6, Zenon
  <2> QED
    BY <1>4, <1>7, <2>1, <2>2, Zenon DEF WindowInv

\* The windows hold in every state.
LEMMA WindowsKept == Spec => []WindowInv
<1>1. Init => WindowInv
  <2> SUFFICES ASSUME Init PROVE WindowInv
    OBVIOUS
  <2>1. <<>> \in Seq(Int) /\ <<>> \in Seq({Level}) /\ Len(<<>>) = 0 /\ 0 # 3 /\ 0 <= 3 /\ 0 <= 2
    BY EmptySeq
  <2>2. \A m \in Windowed : samples[m] = <<>> /\ mediaMetricMap[m] = <<>>
    BY Zenon DEF Init
  <2>3. \A m \in Windowed : Window(m)
    BY <2>1, <2>2, Zenon DEF Window
  <2>4. \A m \in {"rtt", "mos"} : mediaWarning[m] <=> TwoOfThreeBad(m, m)
    <3>1. \A m \in {"rtt", "mos"} : mediaWarning[m] = FALSE /\ samples[m] = <<>>
      BY DEF Init, Windowed, Metrics
    <3> QED
      BY <2>1, <3>1, Zenon DEF TwoOfThreeBad
  <2> QED
    BY <2>1, <2>3, <2>4, Zenon DEF Init, WindowInv
<1>2. WindowInv /\ [Next]_vars => WindowInv'
  <2> SUFFICES ASSUME WindowInv, [Next]_vars PROVE WindowInv'
    OBVIOUS
  <2>1. CASE Next
    BY <2>1, ReportKeepsWindows DEF Next
  <2>2. CASE UNCHANGED vars
    BY <2>2, Zenon DEF vars, WindowInv, Window, TwoOfThreeBad, BadOnes
  <2> QED
    BY <2>1, <2>2
<1> QED
  BY <1>1, <1>2, PTL DEF Spec

\* The lists of RtpStats stay short (callMediaMatrices removes the oldest
\* measure, RtpStats.java:494), and the warnings keep their type.
THEOREM TypeCorrect == Spec => []TypeOK
<1>1. WindowInv => TypeOK
  <2> SUFFICES ASSUME WindowInv PROVE TypeOK
    OBVIOUS
  <2>1. ASSUME NEW m \in Windowed PROVE Len(mediaMetricMap[m]) <= 2
    <3>1. samples[m] \in Seq(Int) /\ Len(samples[m]) \in Nat /\ Len(samples[m]) <= 3
      BY LenProperties DEF WindowInv, Window
    <3>2. CASE Len(samples[m]) = 3
      <4>1. Len(<<>>) = 0 /\ 3 # 0 /\ 3 - 1 <= 2
        BY EmptySeq
      <4>2. samples[m] # <<>>
        BY <3>2, <4>1, Zenon
      <4>3. Len(Tail(samples[m])) = Len(samples[m]) - 1
        BY <3>1, <4>2, HeadTailProperties
      <4>4. mediaMetricMap[m] = Tail(samples[m])
        BY <3>2, Zenon DEF WindowInv, Window
      <4> QED
        BY <3>2, <4>1, <4>3, <4>4, Zenon
    <3>3. CASE Len(samples[m]) # 3
      <4>1. mediaMetricMap[m] = samples[m]
        BY <3>3, Zenon DEF WindowInv, Window
      <4> DEFINE n == Len(samples[m])
      <4>2. n \in Nat /\ n <= 3 /\ n # 3
        BY <3>1, <3>3
      <4> HIDE DEF n
      <4>3. n <= 2
        BY <4>2
      <4> QED
        BY <4>1, <4>3, Zenon DEF n
    <3> QED
      BY <3>2, <3>3
  <2>2. audioLevelList \in {<<>>} \cup [1 .. 1 -> {Level}] \cup [1 .. 2 -> {Level}]
    <3> DEFINE n == Len(audioLevelList)
    <3>1. n \in Nat /\ n <= 2 /\ audioLevelList \in [1 .. n -> {Level}] /\ (audioLevelList # <<>> => n # 0)
      BY LenProperties, EmptySeq DEF WindowInv
    <3> HIDE DEF n
    <3>2. n = 0 \/ n = 1 \/ n = 2
      BY <3>1
    <3> QED
      BY <3>1, <3>2, Zenon
  <2> QED
    BY <2>1, <2>2, Zenon DEF TypeOK, WindowInv
<1> QED
  BY <1>1, WindowsKept, PTL

\* callMediaMatrices (RtpStats.java:479): for all measures, codecs and sequences
\* of reports, complete or not, the warnings of round-trip time and MOS are
\* raised exactly when two of the last three measures are bad.
THEOREM WarningsAreRight == Spec => []WarningIsWindow
<1>1. WindowInv => WarningIsWindow
  BY Zenon DEF WindowInv, WarningIsWindow
<1> QED
  BY <1>1, WindowsKept, PTL
=============================================================================
