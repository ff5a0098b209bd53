------------------------ MODULE SipControllerProofs ------------------------
(***************************************************************************)
(* Theorems about SipController, for any set of calls and any              *)
(* environments.  The argument follows the two threads through their       *)
(* callbacks: RAt and WAt name the place of each in its callback, and the  *)
(* invariants say what holds of the line, the call info and the statistics *)
(* of a call at each place.                                                *)
(***************************************************************************)
EXTENDS SipController, SequenceTheorems, TLAPS

R == todo["R"]
W == todo["W"]

Info(c, u)  == Job("info", c, u, 0)
Sdp(c)      == Job("sdp", c, None, 0)
Incoming(c) == Job("incoming", c, None, 0)
Early(c)    == State(c, "EarlyMedia", 183)
Answer(c)   == State(c, "CallAccepted", 200)
Taken(c)    == Job("accepted", c, None, 0)
Over(c)     == Job("terminate", c, None, 0)
Registered  == Job("registered", None, None, 0)
Invite(c)   == Job("invite", c, None, 0)
Calling(c)  == State(c, "Calling", 0)
Accept(c)   == Job("accept", c, None, 0)

\* The ends that come with the status of some response.
Failures == {"Rejected"} \cup LocalReasons

AllEnds == {<<"RemoteBye", 200>>, <<"RemoteCancel", 487>>} \cup (Failures \X Responses)

\* What the receiver may have left to do.
RShape ==
    \/ R = <<>>
    \/ \E c \in Calls :
          \/ R = <<Sdp(c)>>
          \/ R = <<Early(c)>>
          \/ R = <<Taken(c)>>
          \/ R = <<Over(c)>>
          \/ R = <<Incoming(c), Early(c)>>
          \/ R = <<Sdp(c), Incoming(c), Early(c)>>
          \/ \E u \in Uuids(c) :
                \/ R = <<Info(c, u), Early(c)>>
                \/ R = <<Answer(c), Info(c, u), Taken(c)>>
                \/ R = <<Info(c, u), Taken(c)>>
                \/ R = <<Info(c, u), Sdp(c), Incoming(c), Early(c)>>
          \/ \E end \in AllEnds : R = <<State(c, end[1], end[2]), Over(c)>>
    \/ R = <<Info(None, None), Registered>>
    \/ R = <<Registered>>

\* What the signalling thread may have left to do.
WShape ==
    \/ W = <<>>
    \/ \E c \in Calls :
          \/ W = <<Log(c)>>
          \/ W = <<Log(c), Invite(c), Calling(c)>>
          \/ W = <<Invite(c), Calling(c)>>
          \/ W = <<Calling(c)>>
          \/ W = <<Log(c), Answer(c), Accept(c)>>
          \/ W = <<Answer(c), Accept(c)>>
          \/ W = <<Accept(c)>>

Shape == todo \in [{"R", "W"} -> Seq(Jobs)] /\ RShape /\ WShape

\* The places of R: onNewSession, onEarlyMedia, onAnswer, onOffer, onTerminated
\* and onSuccess, by what they have done so far.
RPlace(q) ==
    CASE Len(q) = 0 -> "idle"
      [] Len(q) = 1 /\ q[1].do = "sdp" -> "sdp"
      [] Len(q) = 1 /\ q[1].do = "state" -> "early"
      [] Len(q) = 1 /\ q[1].do = "accepted" -> "answer3"
      [] Len(q) = 1 /\ q[1].do = "terminate" -> "end2"
      [] Len(q) = 1 /\ q[1].do = "registered" -> "reg2"
      [] Len(q) = 2 /\ q[1].do = "incoming" -> "offer3"
      [] Len(q) = 2 /\ q[1].do = "state" -> "end1"
      [] Len(q) = 2 /\ q[2].do = "state" /\ q[1].do = "info" -> "info"
      [] Len(q) = 2 /\ q[2].do = "accepted" -> "answer2"
      [] Len(q) = 2 /\ q[2].do = "registered" -> "reg1"
      [] Len(q) = 3 /\ q[1].do = "state" -> "answer1"
      [] Len(q) = 3 /\ q[1].do = "sdp" -> "offer2"
      [] Len(q) = 4 -> "offer1"

\* The places of W: a callback that only logs, or that leads to the INVITE or to
\* the 200 OK.
WPlace(q) ==
    CASE Len(q) = 0 -> "idle"
      [] Len(q) = 1 /\ q[1].do = "log" -> "log"
      [] Len(q) = 1 /\ q[1].do = "state" -> "call3"
      [] Len(q) = 1 /\ q[1].do = "accept" -> "take3"
      [] Len(q) = 2 /\ q[1].do = "invite" -> "call2"
      [] Len(q) = 2 /\ q[1].do = "state" -> "take2"
      [] Len(q) = 3 /\ q[2].do = "invite" -> "call1"
      [] Len(q) = 3 /\ q[2].do = "state" -> "take1"

RAt   == RPlace(R)
WAt   == WPlace(W)
RCall == IF R = <<>> THEN None ELSE Head(R).call
WCall == IF W = <<>> THEN None ELSE Head(W).call
RWhy  == IF R = <<>> THEN None ELSE Head(R).arg       \* why the call ends, at "end1"

LEMMA RPlaces ==
    /\ RPlace(<<>>) = "idle"
    /\ \A c :
         /\ RPlace(<<Sdp(c)>>) = "sdp"
         /\ RPlace(<<Early(c)>>) = "early"
         /\ RPlace(<<Taken(c)>>) = "answer3"
         /\ RPlace(<<Over(c)>>) = "end2"
         /\ RPlace(<<Incoming(c), Early(c)>>) = "offer3"
         /\ RPlace(<<Sdp(c), Incoming(c), Early(c)>>) = "offer2"
    /\ \A c, u :
         /\ RPlace(<<Info(c, u), Early(c)>>) = "info"
         /\ RPlace(<<Answer(c), Info(c, u), Taken(c)>>) = "answer1"
         /\ RPlace(<<Info(c, u), Taken(c)>>) = "answer2"
         /\ RPlace(<<Info(c, u), Sdp(c), Incoming(c), Early(c)>>) = "offer1"
    /\ \A c, why, status : RPlace(<<State(c, why, status), Over(c)>>) = "end1"
    /\ RPlace(<<Info(None, None), Registered>>) = "reg1"
    /\ RPlace(<<Registered>>) = "reg2"
<1> USE DEF RPlace, Sdp, Early, Taken, Over, Incoming, Info, Answer, Registered, State, Job
<1>1. RPlace(<<>>) = "idle"
  OBVIOUS
<1>2. ASSUME NEW c PROVE /\ RPlace(<<Sdp(c)>>) = "sdp"
                         /\ RPlace(<<Early(c)>>) = "early"
                         /\ RPlace(<<Taken(c)>>) = "answer3"
                         /\ RPlace(<<Over(c)>>) = "end2"
  OBVIOUS
<1>3. ASSUME NEW c PROVE /\ RPlace(<<Incoming(c), Early(c)>>) = "offer3"
                         /\ RPlace(<<Sdp(c), Incoming(c), Early(c)>>) = "offer2"
  OBVIOUS
<1>4. ASSUME NEW c, NEW u PROVE /\ RPlace(<<Info(c, u), Early(c)>>) = "info"
                                /\ RPlace(<<Answer(c), Info(c, u), Taken(c)>>) = "answer1"
                                /\ RPlace(<<Info(c, u), Taken(c)>>) = "answer2"
                                /\ RPlace(<<Info(c, u), Sdp(c), Incoming(c), Early(c)>>) = "offer1"
  OBVIOUS
<1>5. ASSUME NEW c, NEW why, NEW status PROVE RPlace(<<State(c, why, status), Over(c)>>) = "end1"
  OBVIOUS
<1>6. RPlace(<<Info(None, None), Registered>>) = "reg1" /\ RPlace(<<Registered>>) = "reg2"
  OBVIOUS
<1> HIDE DEF RPlace, Sdp, Early, Taken, Over, Incoming, Info, Answer, Registered, State, Job
<1> QED
  BY <1>1, <1>2, <1>3, <1>4, <1>5, <1>6

LEMMA WPlaces ==
    /\ WPlace(<<>>) = "idle"
    /\ \A c :
         /\ WPlace(<<Log(c)>>) = "log"
         /\ WPlace(<<Log(c), Invite(c), Calling(c)>>) = "call1"
         /\ WPlace(<<Invite(c), Calling(c)>>) = "call2"
         /\ WPlace(<<Calling(c)>>) = "call3"
         /\ WPlace(<<Log(c), Answer(c), Accept(c)>>) = "take1"
         /\ WPlace(<<Answer(c), Accept(c)>>) = "take2"
         /\ WPlace(<<Accept(c)>>) = "take3"
BY DEF WPlace, Log, Invite, Calling, Answer, Accept, State, Job


-----------------------------------------------------------------------------
(***************************************************************************)
(* The queues of the threads keep their shapes, in every environment.      *)
(***************************************************************************)
LEMMA LibertiesFixed == ASSUME [Next]_vars PROVE liberties' = liberties
BY DEF Next, vars, ThreadStep, CallEvent, SetCallState, SetCallInfo, OnIncomingCall, OnTerminateCall,
       OnRegistration, OnLog, SetRemoteSDP, SetRemoteSDPReturns, SipMessageOut, MakeCall, DoAnswer,
       OnIceCandidate, OnNewSession, OnEarlyMedia, OnAnswer, OnOffer, OnTerminated, OnSuccess, Hangup

LEMMA UuidsAre == ASSUME NEW c \in Calls, NEW u \in Uuids(c) PROVE u \in {c, None}
BY DEF Uuids

LEMMA JobsAre ==
    /\ \A c \in Calls :
         /\ Sdp(c) \in Jobs /\ Early(c) \in Jobs /\ Taken(c) \in Jobs /\ Over(c) \in Jobs
         /\ Incoming(c) \in Jobs /\ Answer(c) \in Jobs /\ Log(c) \in Jobs /\ Invite(c) \in Jobs
         /\ Calling(c) \in Jobs /\ Accept(c) \in Jobs
         /\ \A u \in Calls \cup {None} : Info(c, u) \in Jobs
         /\ \A end \in AllEnds : State(c, end[1], end[2]) \in Jobs
    /\ Info(None, None) \in Jobs /\ Registered \in Jobs
<1> USE DEF Jobs, Job
<1>1. ASSUME NEW c \in Calls
      PROVE  /\ Sdp(c) \in Jobs /\ Early(c) \in Jobs /\ Taken(c) \in Jobs /\ Over(c) \in Jobs
             /\ Incoming(c) \in Jobs /\ Answer(c) \in Jobs /\ Log(c) \in Jobs /\ Invite(c) \in Jobs
             /\ Calling(c) \in Jobs /\ Accept(c) \in Jobs
  BY DEF Sdp, Early, Taken, Over, Incoming, Answer, Log, Invite, Calling, Accept, State
<1>2. ASSUME NEW c \in Calls \cup {None}, NEW u \in Calls \cup {None} PROVE Info(c, u) \in Jobs
  BY DEF Info
<1>3. ASSUME NEW c \in Calls, NEW end \in AllEnds PROVE State(c, end[1], end[2]) \in Jobs
  <2>1. /\ end[1] \in {"Rejected", "RemoteBye", "RemoteCancel"} \cup LocalReasons
        /\ end[2] \in 0 .. 699
    BY DEF AllEnds, Failures, Responses
  <2> QED
    BY <2>1 DEF State
<1>4. Registered \in Jobs
  BY DEF Registered
<1> HIDE DEF Jobs, Job
<1> QED
  BY <1>1, <1>2, <1>3, <1>4

LEMMA RHead ==
    ASSUME RShape, R # <<>>
    PROVE  /\ Head(R).do \in {"sdp", "state", "accepted", "terminate", "incoming", "info", "registered"}
           /\ Head(R).do \in {"sdp", "state"} => Head(R).call \in Calls
           /\ Head(R).do = "info" => Head(R).arg \in Calls \cup {None}
<1> USE DEF Sdp, Early, Taken, Over, Incoming, Info, Answer, Registered, State, Job
<1> DEFINE Goal == /\ Head(R).do \in {"sdp", "state", "accepted", "terminate", "incoming", "info", "registered"}
                   /\ Head(R).do \in {"sdp", "state"} => Head(R).call \in Calls
                   /\ Head(R).do = "info" => Head(R).arg \in Calls \cup {None}
<1>1. ASSUME R = <<Info(None, None), Registered>> \/ R = <<Registered>> PROVE Goal
  BY <1>1
<1>2. ASSUME NEW c \in Calls,
             \/ R = <<Sdp(c)>> \/ R = <<Early(c)>> \/ R = <<Taken(c)>> \/ R = <<Over(c)>>
             \/ R = <<Incoming(c), Early(c)>> \/ R = <<Sdp(c), Incoming(c), Early(c)>>
      PROVE  Goal
  BY <1>2
<1>3. ASSUME NEW c \in Calls, NEW u \in {c, None},
             \/ R = <<Info(c, u), Early(c)>> \/ R = <<Answer(c), Info(c, u), Taken(c)>>
             \/ R = <<Info(c, u), Taken(c)>> \/ R = <<Info(c, u), Sdp(c), Incoming(c), Early(c)>>
      PROVE  Goal
  BY <1>3
<1>4. ASSUME NEW c \in Calls, NEW end \in AllEnds, R = <<State(c, end[1], end[2]), Over(c)>>
      PROVE  Goal
  BY <1>4
<1> HIDE DEF Goal, Sdp, Early, Taken, Over, Incoming, Info, Answer, Registered, State, Job
<1>5. Goal
  BY <1>1, <1>2, <1>3, <1>4, UuidsAre DEF RShape
<1> QED
  BY <1>5 DEF Goal

LEMMA WHead ==
    ASSUME WShape, W # <<>>
    PROVE  /\ Head(W).do \in {"log", "invite", "accept", "state"}
           /\ Head(W).call \in Calls
BY DEF WShape, Log, Invite, Calling, Answer, Accept, State, Job

\* The job at the head of R's queue is done.
RMove(do, from, to) ==
    /\ RAt = from /\ RAt' = to /\ Head(R).do = do
    /\ to = "idle" \/ RCall' = RCall

RDone ==
    \/ RMove("sdp", "sdp", "idle") /\ RCall \in Calls
    \/ RMove("state", "early", "idle") /\ RCall \in Calls /\ Head(R) = Early(RCall)
    \/ RMove("accepted", "answer3", "idle") /\ RCall \in Calls
    \/ RMove("terminate", "end2", "idle") /\ RCall \in Calls
    \/ RMove("incoming", "offer3", "early") /\ RCall \in Calls
    \/ RMove("sdp", "offer2", "offer3") /\ RCall \in Calls
    \/ RMove("info", "info", "early") /\ RCall \in Calls /\ Head(R).arg \in Uuids(RCall)
    \/ RMove("state", "answer1", "answer2") /\ RCall \in Calls /\ Head(R) = Answer(RCall)
    \/ RMove("info", "answer2", "answer3") /\ RCall \in Calls /\ Head(R).arg \in Uuids(RCall)
    \/ RMove("info", "offer1", "offer2") /\ RCall \in Calls /\ Head(R).arg \in Uuids(RCall)
    \/ RMove("state", "end1", "end2") /\ RCall \in Calls /\ (\E e \in AllEnds : Head(R) = State(RCall, e[1], e[2]) /\ RWhy = e[1])
    \/ RMove("info", "reg1", "reg2") /\ Head(R).arg = None
    \/ RMove("registered", "reg2", "idle")

LEMMA RDoneKinds ==
    ASSUME RShape, R # <<>>, R' = Tail(R), liberties' = liberties
    PROVE  RShape' /\ RDone
<1>0. \A c : Uuids(c)' = Uuids(c)
  BY DEF Uuids, May
<1>1. ASSUME NEW c \in Calls, R = <<Sdp(c)>>
      PROVE  RShape' /\ RDone
  <2>1. Tail(<<Sdp(c)>>) = <<>>
    OBVIOUS
  <2>2. R' = <<>>
    BY <1>1, <2>1, Zenon
  <2>3. RAt = "sdp" /\ RAt' = "idle"
    BY <1>1, <2>2, RPlaces, Zenon DEF RAt
  <2>4. Head(<<Sdp(c)>>) = Sdp(c)
    OBVIOUS
  <2>5. Head(R) = Sdp(c)
    BY <1>1, <2>4, Zenon
  <2>6. Head(R).do = "sdp" /\ RCall = c
    BY <2>5 DEF RCall, RWhy, Sdp, Job
  <2>7. RMove("sdp", "sdp", "idle")
    BY <2>3, <2>6, Zenon DEF RMove
  <2>8. RShape'
    BY <2>2 DEF RShape
  <2> QED
    BY <2>5, <2>6, <2>7, <2>8, Zenon DEF RDone
<1>2. ASSUME NEW c \in Calls, R = <<Early(c)>>
      PROVE  RShape' /\ RDone
  <2>1. Tail(<<Early(c)>>) = <<>>
    OBVIOUS
  <2>2. R' = <<>>
    BY <1>2, <2>1, Zenon
  <2>3. RAt = "early" /\ RAt' = "idle"
    BY <1>2, <2>2, RPlaces, Zenon DEF RAt
  <2>4. Head(<<Early(c)>>) = Early(c)
    OBVIOUS
  <2>5. Head(R) = Early(c)
    BY <1>2, <2>4, Zenon
  <2>6. Head(R).do = "state" /\ RCall = c
    BY <2>5 DEF RCall, RWhy, Early, State, Job
  <2>7. RMove("state", "early", "idle")
    BY <2>3, <2>6, Zenon DEF RMove
  <2>8. RShape'
    BY <2>2 DEF RShape
  <2> QED
    BY <2>5, <2>6, <2>7, <2>8, Zenon DEF RDone
<1>3. ASSUME NEW c \in Calls, R = <<Taken(c)>>
      PROVE  RShape' /\ RDone
  <2>1. Tail(<<Taken(c)>>) = <<>>
    OBVIOUS
  <2>2. R' = <<>>
    BY <1>3, <2>1, Zenon
  <2>3. RAt = "answer3" /\ RAt' = "idle"
    BY <1>3, <2>2, RPlaces, Zenon DEF RAt
  <2>4. Head(<<Taken(c)>>) = Taken(c)
    OBVIOUS
  <2>5. Head(R) = Taken(c)
    BY <1>3, <2>4, Zenon
  <2>6. Head(R).do = "accepted" /\ RCall = c
    BY <2>5 DEF RCall, RWhy, Taken, Job
  <2>7. RMove("accepted", "answer3", "idle")
    BY <2>3, <2>6, Zenon DEF RMove
  <2>8. RShape'
    BY <2>2 DEF RShape
  <2> QED
    BY <2>5, <2>6, <2>7, <2>8, Zenon DEF RDone
<1>4. ASSUME NEW c \in Calls, R = <<Over(c)>>
      PROVE  RShape' /\ RDone
  <2>1. Tail(<<Over(c)>>) = <<>>
    OBVIOUS
  <2>2. R' = <<>>
    BY <1>4, <2>1, Zenon
  <2>3. RAt = "end2" /\ RAt' = "idle"
    BY <1>4, <2>2, RPlaces, Zenon DEF RAt
  <2>4. Head(<<Over(c)>>) = Over(c)
    OBVIOUS
  <2>5. Head(R) = Over(c)
    BY <1>4, <2>4, Zenon
  <2>6. Head(R).do = "terminate" /\ RCall = c
    BY <2>5 DEF RCall, RWhy, Over, Job
  <2>7. RMove("terminate", "end2", "idle")
    BY <2>3, <2>6, Zenon DEF RMove
  <2>8. RShape'
    BY <2>2 DEF RShape
  <2> QED
    BY <2>5, <2>6, <2>7, <2>8, Zenon DEF RDone
<1>5. ASSUME NEW c \in Calls, R = <<Incoming(c), Early(c)>>
      PROVE  RShape' /\ RDone
  <2>1. Tail(<<Incoming(c), Early(c)>>) = <<Early(c)>>
    OBVIOUS
  <2>2. R' = <<Early(c)>>
    BY <1>5, <2>1, Zenon
  <2>3. RAt = "offer3" /\ RAt' = "early"
    BY <1>5, <2>2, RPlaces, Zenon DEF RAt
  <2>4. Head(<<Incoming(c), Early(c)>>) = Incoming(c)
    OBVIOUS
  <2>5. Head(R) = Incoming(c)
    BY <1>5, <2>4, Zenon
  <2>6. Head(R).do = "incoming" /\ RCall = c
    BY <2>5 DEF RCall, RWhy, Incoming, Job
  <2>7. <<Early(c)>> # <<>> /\ Head(<<Early(c)>>) = Early(c)
    OBVIOUS
  <2>8. Early(c).call = c
    BY DEF Early, State, Job
  <2>9. RCall' = c
    BY <2>2, <2>7, <2>8, Zenon DEF RCall
  <2>10. RMove("incoming", "offer3", "early")
    BY <2>3, <2>6, <2>9, Zenon DEF RMove
  <2>11. RShape'
    BY <2>2 DEF RShape
  <2> QED
    BY <2>5, <2>6, <2>10, <2>11, Zenon DEF RDone
<1>6. ASSUME NEW c \in Calls, R = <<Sdp(c), Incoming(c), Early(c)>>
      PROVE  RShape' /\ RDone
  <2>1. Tail(<<Sdp(c), Incoming(c), Early(c)>>) = <<Incoming(c), Early(c)>>
    OBVIOUS
  <2>2. R' = <<Incoming(c), Early(c)>>
    BY <1>6, <2>1, Zenon
  <2>3. RAt = "offer2" /\ RAt' = "offer3"
    BY <1>6, <2>2, RPlaces, Zenon DEF RAt
  <2>4. Head(<<Sdp(c), Incoming(c), Early(c)>>) = Sdp(c)
    OBVIOUS
  <2>5. Head(R) = Sdp(c)
    BY <1>6, <2>4, Zenon
  <2>6. Head(R).do = "sdp" /\ RCall = c
    BY <2>5 DEF RCall, RWhy, Sdp, Job
  <2>7. <<Incoming(c), Early(c)>> # <<>> /\ Head(<<Incoming(c), Early(c)>>) = Incoming(c)
    OBVIOUS
  <2>8. Incoming(c).call = c
    BY DEF Incoming, Job
  <2>9. RCall' = c
    BY <2>2, <2>7, <2>8, Zenon DEF RCall
  <2>10. RMove("sdp", "offer2", "offer3")
    BY <2>3, <2>6, <2>9, Zenon DEF RMove
  <2>11. RShape'
    BY <2>2 DEF RShape
  <2> QED
    BY <2>5, <2>6, <2>10, <2>11, Zenon DEF RDone
<1>7. ASSUME NEW c \in Calls, NEW u \in Uuids(c), R = <<Info(c, u), Early(c)>>
      PROVE  RShape' /\ RDone
  <2>1. Tail(<<Info(c, u), Early(c)>>) = <<Early(c)>>
    OBVIOUS
  <2>2. R' = <<Early(c)>>
    BY <1>7, <2>1, Zenon
  <2>3. RAt = "info" /\ RAt' = "early"
    BY <1>7, <2>2, RPlaces, Zenon DEF RAt
  <2>4. Head(<<Info(c, u), Early(c)>>) = Info(c, u)
    OBVIOUS
  <2>5. Head(R) = Info(c, u)
    BY <1>7, <2>4, Zenon
  <2>6. Head(R).do = "info" /\ RCall = c /\ Head(R).arg = u
    BY <2>5 DEF RCall, RWhy, Info, Job
  <2>7. <<Early(c)>> # <<>> /\ Head(<<Early(c)>>) = Early(c)
    OBVIOUS
  <2>8. Early(c).call = c
    BY DEF Early, State, Job
  <2>9. RCall' = c
    BY <2>2, <2>7, <2>8, Zenon DEF RCall
  <2>10. RMove("info", "info", "early")
    BY <2>3, <2>6, <2>9, Zenon DEF RMove
  <2>11. RShape'
    BY <2>2 DEF RShape
  <2> QED
    BY <2>5, <2>6, <2>10, <2>11, Zenon DEF RDone
<1>8. ASSUME NEW c \in Calls, NEW u \in Uuids(c), R = <<Answer(c), Info(c, u), Taken(c)>>
      PROVE  RShape' /\ RDone
  <2>1. Tail(<<Answer(c), Info(c, u), Taken(c)>>) = <<Info(c, u), Taken(c)>>
    OBVIOUS
  <2>2. R' = <<Info(c, u), Taken(c)>>
    BY <1>8, <2>1, Zenon
  <2>3. RAt = "answer1" /\ RAt' = "answer2"
    BY <1>8, <2>2, RPlaces, Zenon DEF RAt
  <2>4. Head(<<Answer(c), Info(c, u), Taken(c)>>) = Answer(c)
    OBVIOUS
  <2>5. Head(R) = Answer(c)
    BY <1>8, <2>4, Zenon
  <2>6. Head(R).do = "state" /\ RCall = c
    BY <2>5 DEF RCall, RWhy, Answer, State, Job
  <2>7. <<Info(c, u), Taken(c)>> # <<>> /\ Head(<<Info(c, u), Taken(c)>>) = Info(c, u)
    OBVIOUS
  <2>8. Info(c, u).call = c
    BY DEF Info, Job
  <2>9. RCall' = c
    BY <2>2, <2>7, <2>8, Zenon DEF RCall
  <2>10. RMove("state", "answer1", "answer2")
    BY <2>3, <2>6, <2>9, Zenon DEF RMove
  <2>11. RShape'
    BY <1>0, <2>2 DEF RShape
  <2> QED
    BY <2>5, <2>6, <2>10, <2>11, Zenon DEF RDone
<1>9. ASSUME NEW c \in Calls, NEW u \in Uuids(c), R = <<Info(c, u), Taken(c)>>
      PROVE  RShape' /\ RDone
  <2>1. Tail(<<Info(c, u), Taken(c)>>) = <<Taken(c)>>
    OBVIOUS
  <2>2. R' = <<Taken(c)>>
    BY <1>9, <2>1, Zenon
  <2>3. RAt = "answer2" /\ RAt' = "answer3"
    BY <1>9, <2>2, RPlaces, Zenon DEF RAt
  <2>4. Head(<<Info(c, u), Taken(c)>>) = Info(c, u)
    OBVIOUS
  <2>5. Head(R) = Info(c, u)
    BY <1>9, <2>4, Zenon
  <2>6. Head(R).do = "info" /\ RCall = c /\ Head(R).arg = u
    BY <2>5 DEF RCall, RWhy, Info, Job
  <2>7. <<Taken(c)>> # <<>> /\ Head(<<Taken(c)>>) = Taken(c)
    OBVIOUS
  <2>8. Taken(c).call = c
    BY DEF Taken, Job
  <2>9. RCall' = c
    BY <2>2, <2>7, <2>8, Zenon DEF RCall
  <2>10. RMove("info", "answer2", "answer3")
    BY <2>3, <2>6, <2>9, Zenon DEF RMove
  <2>11. RShape'
    BY <2>2 DEF RShape
  <2> QED
    BY <2>5, <2>6, <2>10, <2>11, Zenon DEF RDone
<1>10. ASSUME NEW c \in Calls, NEW u \in Uuids(c), R = <<Info(c, u), Sdp(c), Incoming(c), Early(c)>>
      PROVE  RShape' /\ RDone
  <2>1. Tail(<<Info(c, u), Sdp(c), Incoming(c), Early(c)>>) = <<Sdp(c), Incoming(c), Early(c)>>
    OBVIOUS
  <2>2. R' = <<Sdp(c), Incoming(c), Early(c)>>
    BY <1>10, <2>1, Zenon
  <2>3. RAt = "offer1" /\ RAt' = "offer2"
    BY <1>10, <2>2, RPlaces, Zenon DEF RAt
  <2>4. Head(<<Info(c, u), Sdp(c), Incoming(c), Early(c)>>) = Info(c, u)
    OBVIOUS
  <2>5. Head(R) = Info(c, u)
    BY <1>10, <2>4, Zenon
  <2>6. Head(R).do = "info" /\ RCall = c /\ Head(R).arg = u
    BY <2>5 DEF RCall, RWhy, Info, Job
  <2>7. <<Sdp(c), Incoming(c), Early(c)>> # <<>> /\ Head(<<Sdp(c), Incoming(c), Early(c)>>) = Sdp(c)
    OBVIOUS
  <2>8. Sdp(c).call = c
    BY DEF Sdp, Job
  <2>9. RCall' = c
    BY <2>2, <2>7, <2>8, Zenon DEF RCall
  <2>10. RMove("info", "offer1", "offer2")
    BY <2>3, <2>6, <2>9, Zenon DEF RMove
  <2>11. RShape'
    BY <2>2 DEF RShape
  <2> QED
    BY <2>5, <2>6, <2>10, <2>11, Zenon DEF RDone
<1>11. ASSUME NEW c \in Calls, NEW end \in AllEnds, R = <<State(c, end[1], end[2]), Over(c)>>
      PROVE  RShape' /\ RDone
  <2>1. Tail(<<State(c, end[1], end[2]), Over(c)>>) = <<Over(c)>>
    OBVIOUS
  <2>2. R' = <<Over(c)>>
    BY <1>11, <2>1, Zenon
  <2>3. RAt = "end1" /\ RAt' = "end2"
    BY <1>11, <2>2, RPlaces, Zenon DEF RAt
  <2>4. Head(<<State(c, end[1], end[2]), Over(c)>>) = State(c, end[1], end[2])
    OBVIOUS
  <2>5. Head(R) = State(c, end[1], end[2])
    BY <1>11, <2>4, Zenon
  <2>6. Head(R).do = "state" /\ RCall = c /\ RWhy = end[1]
    BY <2>5 DEF RCall, RWhy, State, Job
  <2>7. <<Over(c)>> # <<>> /\ Head(<<Over(c)>>) = Over(c)
    OBVIOUS
  <2>8. Over(c).call = c
    BY DEF Over, Job
  <2>9. RCall' = c
    BY <2>2, <2>7, <2>8, Zenon DEF RCall
  <2>10. RMove("state", "end1", "end2")
    BY <2>3, <2>6, <2>9, Zenon DEF RMove
  <2>11. RShape'
    BY <2>2 DEF RShape
  <2> QED
    BY <2>5, <2>6, <2>10, <2>11, Zenon DEF RDone
<1>12. ASSUME R = <<Info(None, None), Registered>> PROVE RShape' /\ RDone
  <2>1. Tail(<<Info(None, None), Registered>>) = <<Registered>>
    OBVIOUS
  <2>2. R' = <<Registered>>
    BY <1>12, <2>1, Zenon
  <2>3. RAt = "reg1" /\ RAt' = "reg2"
    BY <1>12, <2>2, RPlaces, Zenon DEF RAt
  <2>4. Head(<<Info(None, None), Registered>>) = Info(None, None)
    OBVIOUS
  <2>5. Head(R) = Info(None, None)
    BY <1>12, <2>4, Zenon
  <2>6. Head(R).do = "info" /\ Head(R).arg = None
    BY <2>5 DEF RCall, RWhy, Info, Job
  <2>7. R' # <<>> /\ Head(R') = Registered
    BY <2>2
  <2>8. RCall' = RCall
    BY <2>7, <2>5 DEF RCall, Info, Registered, Job
  <2>9. RMove("info", "reg1", "reg2")
    BY <2>3, <2>6, <2>8, Zenon DEF RMove
  <2>10. RShape'
    BY <2>2 DEF RShape
  <2> QED
    BY <2>5, <2>6, <2>9, <2>10, Zenon DEF RDone
<1>13. ASSUME R = <<Registered>> PROVE RShape' /\ RDone
  <2>1. Tail(<<Registered>>) = <<>>
    OBVIOUS
  <2>2. R' = <<>>
    BY <1>13, <2>1, Zenon
  <2>3. RAt = "reg2" /\ RAt' = "idle"
    BY <1>13, <2>2, RPlaces, Zenon DEF RAt
  <2>4. Head(<<Registered>>) = Registered
    OBVIOUS
  <2>5. Head(R) = Registered
    BY <1>13, <2>4, Zenon
  <2>6. Head(R).do = "registered"
    BY <2>5 DEF RCall, RWhy, Registered, Job
  <2>7. RMove("registered", "reg2", "idle")
    BY <2>3, <2>6, Zenon DEF RMove
  <2>8. RShape'
    BY <2>2 DEF RShape
  <2> QED
    BY <2>5, <2>6, <2>7, <2>8, Zenon DEF RDone
<1> QED
  BY <1>1, <1>2, <1>3, <1>4, <1>5, <1>6, <1>7, <1>8, <1>9, <1>10, <1>11, <1>12, <1>13, Zenon DEF RShape

\* The same for W.
WMove(do, from, to) ==
    /\ WAt = from /\ WAt' = to /\ Head(W).do = do
    /\ to = "idle" \/ WCall' = WCall

WDone ==
    /\ WCall \in Calls
    /\ \/ WMove("log", "log", "idle")
       \/ WMove("log", "call1", "call2")
       \/ WMove("invite", "call2", "call3")
       \/ WMove("state", "call3", "idle") /\ Head(W) = Calling(WCall)
       \/ WMove("log", "take1", "take2")
       \/ WMove("state", "take2", "take3") /\ Head(W) = Answer(WCall)
       \/ WMove("accept", "take3", "idle")

LEMMA WDoneKinds ==
    ASSUME WShape, W # <<>>, W' = Tail(W)
    PROVE  WShape' /\ WDone
<1>1. ASSUME NEW c \in Calls, W = <<Log(c)>> PROVE WShape' /\ WDone
  <2>1. Tail(<<Log(c)>>) = <<>>
    OBVIOUS
  <2>2. W' = <<>>
    BY <1>1, <2>1, Zenon
  <2>3. WAt = "log" /\ WAt' = "idle"
    BY <1>1, <2>2, WPlaces, Zenon DEF WAt
  <2>4. Head(<<Log(c)>>) = Log(c)
    OBVIOUS
  <2>5. Head(W) = Log(c)
    BY <1>1, <2>4, Zenon
  <2>6. Head(W).do = "log" /\ WCall = c
    BY <2>5 DEF WCall, Log, Job
  <2>7. WMove("log", "log", "idle")
    BY <2>3, <2>6, Zenon DEF WMove
  <2>8. WShape'
    BY <2>2 DEF WShape
  <2> QED
    BY <2>5, <2>6, <2>7, <2>8, Zenon DEF WDone
<1>2. ASSUME NEW c \in Calls, W = <<Log(c), Invite(c), Calling(c)>> PROVE WShape' /\ WDone
  <2>1. Tail(<<Log(c), Invite(c), Calling(c)>>) = <<Invite(c), Calling(c)>>
    OBVIOUS
  <2>2. W' = <<Invite(c), Calling(c)>>
    BY <1>2, <2>1, Zenon
  <2>3. WAt = "call1" /\ WAt' = "call2"
    BY <1>2, <2>2, WPlaces, Zenon DEF WAt
  <2>4. Head(<<Log(c), Invite(c), Calling(c)>>) = Log(c)
    OBVIOUS
  <2>5. Head(W) = Log(c)
    BY <1>2, <2>4, Zenon
  <2>6. Head(W).do = "log" /\ WCall = c
    BY <2>5 DEF WCall, Log, Job
  <2>7. <<Invite(c), Calling(c)>> # <<>> /\ Head(<<Invite(c), Calling(c)>>) = Invite(c)
    OBVIOUS
  <2>8. Invite(c).call = c
    BY DEF Invite, Job
  <2>9. WCall' = c
    BY <2>2, <2>7, <2>8, Zenon DEF WCall
  <2>10. WMove("log", "call1", "call2")
    BY <2>3, <2>6, <2>9, Zenon DEF WMove
  <2>11. WShape'
    BY <2>2 DEF WShape
  <2> QED
    BY <2>5, <2>6, <2>10, <2>11, Zenon DEF WDone
<1>3. ASSUME NEW c \in Calls, W = <<Invite(c), Calling(c)>> PROVE WShape' /\ WDone
  <2>1. Tail(<<Invite(c), Calling(c)>>) = <<Calling(c)>>
    OBVIOUS
  <2>2. W' = <<Calling(c)>>
    BY <1>3, <2>1, Zenon
  <2>3. WAt = "call2" /\ WAt' = "call3"
    BY <1>3, <2>2, WPlaces, Zenon DEF WAt
  <2>4. Head(<<Invite(c), Calling(c)>>) = Invite(c)
    OBVIOUS
  <2>5. Head(W) = Invite(c)
    BY <1>3, <2>4, Zenon
  <2>6. Head(W).do = "invite" /\ WCall = c
    BY <2>5 DEF WCall, Invite, Job
  <2>7. <<Calling(c)>> # <<>> /\ Head(<<Calling(c)>>) = Calling(c)
    OBVIOUS
  <2>8. Calling(c).call = c
    BY DEF Calling, State, Job
  <2>9. WCall' = c
    BY <2>2, <2>7, <2>8, Zenon DEF WCall
  <2>10. WMove("invite", "call2", "call3")
    BY <2>3, <2>6, <2>9, Zenon DEF WMove
  <2>11. WShape'
    BY <2>2 DEF WShape
  <2> QED
    BY <2>5, <2>6, <2>10, <2>11, Zenon DEF WDone
<1>4. ASSUME NEW c \in Calls, W = <<Calling(c)>> PROVE WShape' /\ WDone
  <2>1. Tail(<<Calling(c)>>) = <<>>
    OBVIOUS
  <2>2. W' = <<>>
    BY <1>4, <2>1, Zenon
  <2>3. WAt = "call3" /\ WAt' = "idle"
    BY <1>4, <2>2, WPlaces, Zenon DEF WAt
  <2>4. Head(<<Calling(c)>>) = Calling(c)
    OBVIOUS
  <2>5. Head(W) = Calling(c)
    BY <1>4, <2>4, Zenon
  <2>6. Head(W).do = "state" /\ WCall = c
    BY <2>5 DEF WCall, Calling, State, Job
  <2>7. WMove("state", "call3", "idle")
    BY <2>3, <2>6, Zenon DEF WMove
  <2>8. WShape'
    BY <2>2 DEF WShape
  <2> QED
    BY <2>5, <2>6, <2>7, <2>8, Zenon DEF WDone
<1>5. ASSUME NEW c \in Calls, W = <<Log(c), Answer(c), Accept(c)>> PROVE WShape' /\ WDone
  <2>1. Tail(<<Log(c), Answer(c), Accept(c)>>) = <<Answer(c), Accept(c)>>
    OBVIOUS
  <2>2. W' = <<Answer(c), Accept(c)>>
    BY <1>5, <2>1, Zenon
  <2>3. WAt = "take1" /\ WAt' = "take2"
    BY <1>5, <2>2, WPlaces, Zenon DEF WAt
  <2>4. Head(<<Log(c), Answer(c), Accept(c)>>) = Log(c)
    OBVIOUS
  <2>5. Head(W) = Log(c)
    BY <1>5, <2>4, Zenon
  <2>6. Head(W).do = "log" /\ WCall = c
    BY <2>5 DEF WCall, Log, Job
  <2>7. <<Answer(c), Accept(c)>> # <<>> /\ Head(<<Answer(c), Accept(c)>>) = Answer(c)
    OBVIOUS
  <2>8. Answer(c).call = c
    BY DEF Answer, State, Job
  <2>9. WCall' = c
    BY <2>2, <2>7, <2>8, Zenon DEF WCall
  <2>10. WMove("log", "take1", "take2")
    BY <2>3, <2>6, <2>9, Zenon DEF WMove
  <2>11. WShape'
    BY <2>2 DEF WShape
  <2> QED
    BY <2>5, <2>6, <2>10, <2>11, Zenon DEF WDone
<1>6. ASSUME NEW c \in Calls, W = <<Answer(c), Accept(c)>> PROVE WShape' /\ WDone
  <2>1. Tail(<<Answer(c), Accept(c)>>) = <<Accept(c)>>
    OBVIOUS
  <2>2. W' = <<Accept(c)>>
    BY <1>6, <2>1, Zenon
  <2>3. WAt = "take2" /\ WAt' = "take3"
    BY <1>6, <2>2, WPlaces, Zenon DEF WAt
  <2>4. Head(<<Answer(c), Accept(c)>>) = Answer(c)
    OBVIOUS
  <2>5. Head(W) = Answer(c)
    BY <1>6, <2>4, Zenon
  <2>6. Head(W).do = "state" /\ WCall = c
    BY <2>5 DEF WCall, Answer, State, Job
  <2>7. <<Accept(c)>> # <<>> /\ Head(<<Accept(c)>>) = Accept(c)
    OBVIOUS
  <2>8. Accept(c).call = c
    BY DEF Accept, Job
  <2>9. WCall' = c
    BY <2>2, <2>7, <2>8, Zenon DEF WCall
  <2>10. WMove("state", "take2", "take3")
    BY <2>3, <2>6, <2>9, Zenon DEF WMove
  <2>11. WShape'
    BY <2>2 DEF WShape
  <2> QED
    BY <2>5, <2>6, <2>10, <2>11, Zenon DEF WDone
<1>7. ASSUME NEW c \in Calls, W = <<Accept(c)>> PROVE WShape' /\ WDone
  <2>1. Tail(<<Accept(c)>>) = <<>>
    OBVIOUS
  <2>2. W' = <<>>
    BY <1>7, <2>1, Zenon
  <2>3. WAt = "take3" /\ WAt' = "idle"
    BY <1>7, <2>2, WPlaces, Zenon DEF WAt
  <2>4. Head(<<Accept(c)>>) = Accept(c)
    OBVIOUS
  <2>5. Head(W) = Accept(c)
    BY <1>7, <2>4, Zenon
  <2>6. Head(W).do = "accept" /\ WCall = c
    BY <2>5 DEF WCall, Accept, Job
  <2>7. WMove("accept", "take3", "idle")
    BY <2>3, <2>6, Zenon DEF WMove
  <2>8. WShape'
    BY <2>2 DEF WShape
  <2> QED
    BY <2>5, <2>6, <2>7, <2>8, Zenon DEF WDone
<1> QED
  BY <1>1, <1>2, <1>3, <1>4, <1>5, <1>6, <1>7, Zenon DEF WShape

LEMMA Prepended ==
    ASSUME NEW S, NEW a \in S, NEW b \in S, NEW c \in S
    PROVE  <<a>> \o <<b, c>> = <<a, b, c>>
<1> DEFINE s == <<a>>
           t == <<b, c>>
           u == <<a, b, c>>
           w == s \o t
<1>1. s \in Seq(S) /\ t \in Seq(S) /\ Len(s) = 1 /\ Len(t) = 2 /\ s[1] = a /\ t[1] = b /\ t[2] = c
  OBVIOUS
<1>2. u \in Seq(S) /\ Len(u) = 3 /\ u[1] = a /\ u[2] = b /\ u[3] = c
  OBVIOUS
<1> HIDE DEF s, t, u
<1>3. w \in Seq(S) /\ Len(w) = Len(s) + Len(t)
  BY <1>1, ConcatProperties
<1>4. \A i \in 1 .. Len(s) + Len(t) : w[i] = IF i <= Len(s) THEN s[i] ELSE t[i - Len(s)]
  BY <1>1, ConcatProperties
<1> HIDE DEF w
<1>5. \A i \in 1 .. 3 : w[i] = u[i]
  BY <1>1, <1>2, <1>4
<1>6. w = u
  BY <1>1, <1>2, <1>3, <1>5, SeqEqual
<1> QED
  BY <1>6 DEF s, t, u, w

\* What starting a callback, and doing a job, change of the queues.
LEMMA Queues ==
    ASSUME Shape
    PROVE  /\ \A jobs : Starts("R", jobs) =>
                /\ R = <<>> /\ R' = jobs /\ W' = W /\ (May("overlap") \/ W = <<>>)
                /\ jobs \in Seq(Jobs) => todo' \in [{"R", "W"} -> Seq(Jobs)]
           /\ \A jobs : Starts("W", jobs) =>
                /\ W = <<>> /\ W' = jobs /\ R' = R /\ (May("overlap") \/ R = <<>>)
                /\ jobs \in Seq(Jobs) => todo' \in [{"R", "W"} -> Seq(Jobs)]
           /\ R # <<>> /\ Done("R") => R' = Tail(R) /\ W' = W /\ todo' \in [{"R", "W"} -> Seq(Jobs)]
           /\ W # <<>> /\ Done("W") => W' = Tail(W) /\ R' = R /\ todo' \in [{"R", "W"} -> Seq(Jobs)]
<1>1. todo \in [{"R", "W"} -> Seq(Jobs)] /\ R \in Seq(Jobs) /\ W \in Seq(Jobs)
  BY DEF Shape, R, W
<1>2. ASSUME NEW jobs, Starts("R", jobs)
      PROVE  /\ R = <<>> /\ R' = jobs /\ W' = W /\ (May("overlap") \/ W = <<>>)
             /\ jobs \in Seq(Jobs) => todo' \in [{"R", "W"} -> Seq(Jobs)]
  BY <1>1, <1>2 DEF Starts, Busy, R, W
<1>3. ASSUME NEW jobs, Starts("W", jobs)
      PROVE  /\ W = <<>> /\ W' = jobs /\ R' = R /\ (May("overlap") \/ R = <<>>)
             /\ jobs \in Seq(Jobs) => todo' \in [{"R", "W"} -> Seq(Jobs)]
  BY <1>1, <1>3 DEF Starts, Busy, R, W
<1>4. ASSUME R # <<>>, Done("R")
      PROVE  R' = Tail(R) /\ W' = W /\ todo' \in [{"R", "W"} -> Seq(Jobs)]
  <2>1. Tail(R) \in Seq(Jobs)
    BY <1>1, <1>4, HeadTailProperties
  <2> QED
    BY <1>1, <1>4, <2>1 DEF Done, R, W
<1>5. ASSUME W # <<>>, Done("W")
      PROVE  W' = Tail(W) /\ R' = R /\ todo' \in [{"R", "W"} -> Seq(Jobs)]
  <2>1. Tail(W) \in Seq(Jobs)
    BY <1>1, <1>5, HeadTailProperties
  <2> QED
    BY <1>1, <1>5, <2>1 DEF Done, R, W
<1> QED
  BY <1>2, <1>3, <1>4, <1>5

LEMMA Unmoved == (R' = R => RAt' = RAt /\ RCall' = RCall /\ RWhy' = RWhy) /\ (W' = W => WAt' = WAt /\ WCall' = WCall)
BY Zenon DEF RAt, RCall, RWhy, WAt, WCall

LEMMA IdleIs == (R = <<>> => RAt = "idle") /\ (W = <<>> => WAt = "idle")
BY RPlaces, WPlaces DEF RAt, WAt

-----------------------------------------------------------------------------
(***************************************************************************)
(* The steps of SipController when one thread at a time is in a callback,  *)
(* in terms of places.                                                     *)
(***************************************************************************)
dataVars  == <<isIncomingCall, xcallid, signallingStats, timer, running, reports, npe>>
placeVars == <<RAt, RCall, RWhy, WAt, WCall>>

OneBusy == R = <<>> \/ W = <<>>

Idle == RAt = "idle" /\ WAt = "idle"

\* A callback of the signalling thread begins.
WBegins ==
    /\ Idle /\ RAt' = "idle" /\ UNCHANGED dataVars
    /\ \E c \in Calls :
         \/ /\ Free /\ Moves(c, {"new"}, "placed") /\ placed' = placed \cup {c} /\ WAt' = "log"
         \/ /\ Moves(c, {"ringing"}, "accepting") /\ UNCHANGED placed /\ WAt' = "log"
         \/ /\ UNCHANGED <<line, placed>>
            /\ \/ WAt' = "log"
               \/ line[c] = "placed" /\ WAt' = "call1" /\ WCall' = c
               \/ line[c] = "accepting" /\ WAt' = "take1" /\ WCall' = c

\* A callback of the receiver begins, about call c.
RBegins(c) ==
    /\ Idle /\ WAt' = "idle" /\ RCall' = c /\ UNCHANGED <<dataVars, placed>>
    /\ \/ RAt' = "sdp" /\ Moves(c, {"invited"}, "early")
       \/ RAt' = "info" /\ Moves(c, {"early", "informed"}, "informed")
       \/ RAt' = "answer1" /\ Moves(c, {"informed"} \cup (IF May("silent") THEN {"early"} ELSE {}), "talking")
       \/ RAt' = "offer1" /\ Free /\ Moves(c, {"new"}, "ringing")
       \/ RAt' = "offer1" /\ May("callWaiting") /\ Moves(c, {"new"}, "waiting")
       \/ /\ RAt' = "end1" /\ Moves(c, {line[c]}, "over")
          /\ \E end \in Ends(c) : RWhy' = end[1]
       \/ RAt' = "end2" /\ Moves(c, {"invited"}, "over") /\ Ends(c) # {}

\* The same for a registration.
RegistrationBegins ==
    /\ Idle /\ WAt' = "idle" /\ RAt' = "reg1" /\ UNCHANGED <<dataVars, line, placed>>
    /\ Free \/ May("relogin")

\* What setCallState(EarlyMedia, 183) does.
OnEarly ==
    \/ /\ isIncomingCall /\ signallingStats' = NewStats
       /\ UNCHANGED <<xcallid, timer, running, reports, npe>>
    \/ ~isIncomingCall /\ signallingStats = None /\ Npe("early") /\ UNCHANGED xcallid
    \/ ~isIncomingCall /\ signallingStats # None /\ Unaffected

\* What setCallState does at the end of call c.
OnEnd(c, why) ==
    \/ why = "RemoteBye" /\ Summarised(c, isIncomingCall, TRUE)
    \/ why \in {"RemoteCancel"} \cup Failures /\ \E setsX \in BOOLEAN : Summarised(c, setsX, FALSE)
    \/ why \in Failures /\ (CleanupCallData \/ Unaffected)

RGoes(from, to) ==
    /\ RAt = from /\ RAt' = to /\ (to = "idle" \/ RCall' = RCall)
    /\ WAt = "idle" /\ WAt' = "idle"
    /\ UNCHANGED <<line, placed>>

RJob ==
    \/ RGoes("sdp", "idle") /\ UNCHANGED dataVars
    \/ RGoes("answer3", "idle") /\ UNCHANGED dataVars
    \/ RGoes("offer2", "offer3") /\ UNCHANGED dataVars
    \/ /\ RGoes("offer3", "early") /\ isIncomingCall' = TRUE
       /\ UNCHANGED <<xcallid, signallingStats, timer, running, reports, npe>>
    \/ RGoes("end2", "idle") /\ Npe("hangup") /\ UNCHANGED <<isIncomingCall, xcallid>>
    \/ /\ RGoes("reg2", "idle") /\ timer' = None
       /\ UNCHANGED <<isIncomingCall, xcallid, signallingStats, running, reports, npe>>
    \/ /\ RGoes("info", "early") \/ RGoes("answer2", "answer3") \/ RGoes("offer1", "offer2")
       /\ RCall \in Calls /\ xcallid' \in Uuids(RCall)
       /\ UNCHANGED <<isIncomingCall, signallingStats, timer, running, reports, npe>>
    \/ /\ RGoes("reg1", "reg2") /\ xcallid' = None
       /\ UNCHANGED <<isIncomingCall, signallingStats, timer, running, reports, npe>>
    \/ RGoes("early", "idle") /\ OnEarly /\ UNCHANGED isIncomingCall
    \/ RGoes("answer1", "answer2") /\ Accepted(RCall) /\ UNCHANGED <<isIncomingCall, xcallid>>
    \/ RGoes("end1", "end2") /\ OnEnd(RCall, RWhy) /\ UNCHANGED isIncomingCall

WGoes(from, to) ==
    /\ WAt = from /\ WAt' = to /\ (to = "idle" \/ WCall' = WCall)
    /\ RAt = "idle" /\ RAt' = "idle"
    /\ UNCHANGED placed

Advances(c, to) == line' = IF line[c] = "over" THEN line ELSE [line EXCEPT ![c] = to]

WJob ==
    \/ WGoes("log", "idle") /\ UNCHANGED <<line, dataVars>>
    \/ WGoes("call1", "call2") /\ UNCHANGED <<line, dataVars>>
    \/ WGoes("take1", "take2") /\ UNCHANGED <<line, dataVars>>
    \/ WGoes("call2", "call3") /\ Advances(WCall, "invited") /\ UNCHANGED dataVars
    \/ WGoes("call3", "idle") /\ (IF isIncomingCall THEN Unaffected ELSE OnCalling)
       /\ UNCHANGED <<isIncomingCall, line>>
    \/ WGoes("take2", "take3") /\ Accepted(WCall) /\ UNCHANGED <<isIncomingCall, xcallid, line>>
    \/ WGoes("take3", "idle") /\ Advances(WCall, "talking") /\ UNCHANGED dataVars

Flat ==
    \/ UNCHANGED <<placeVars, dataVars, line, placed>>
    \/ WBegins
    \/ \E c \in Calls : RBegins(c)
    \/ RegistrationBegins
    \/ RJob
    \/ WJob

LEMMA WStartsKinds ==
    ASSUME Shape, NEW c \in Calls, MakeCall(c) \/ DoAnswer(c) \/ OnIceCandidate(c)
    PROVE  /\ Shape' /\ R' = R /\ (May("overlap") \/ R = <<>>) /\ UNCHANGED inSetRemoteSDP
           /\ R = <<>> => WBegins
<1> DEFINE New == \/ W' = <<Log(c)>> /\ UNCHANGED <<line, placed>>
                  \/ W' = <<Log(c), Invite(c), Calling(c)>> /\ line[c] = "placed" /\ UNCHANGED <<line, placed>>
                  \/ W' = <<Log(c), Answer(c), Accept(c)>> /\ line[c] = "accepting" /\ UNCHANGED <<line, placed>>
                  \/ W' = <<Log(c)>> /\ Free /\ Moves(c, {"new"}, "placed") /\ placed' = placed \cup {c}
                  \/ W' = <<Log(c)>> /\ Moves(c, {"ringing"}, "accepting") /\ UNCHANGED placed
           Begun == /\ W = <<>> /\ R' = R /\ (May("overlap") \/ R = <<>>)
                    /\ todo' \in [{"R", "W"} -> Seq(Jobs)]
                    /\ UNCHANGED <<dataVars, inSetRemoteSDP, liberties>>
                    /\ New
<1>1. Log(c) \in Jobs /\ Invite(c) \in Jobs /\ Calling(c) \in Jobs /\ Answer(c) \in Jobs /\ Accept(c) \in Jobs
  BY JobsAre
<1>2. /\ <<Log(c)>> \in Seq(Jobs)
      /\ <<Log(c), Invite(c), Calling(c)>> \in Seq(Jobs)
      /\ <<Log(c), Answer(c), Accept(c)>> \in Seq(Jobs)
  BY <1>1
<1>3. ASSUME MakeCall(c) PROVE Begun
  <2>1. Starts("W", <<Log(c)>>) /\ Free /\ Moves(c, {"new"}, "placed") /\ placed' = placed \cup {c}
    BY <1>3 DEF MakeCall, ReadyForCall
  <2>2. UNCHANGED <<dataVars, inSetRemoteSDP, liberties>>
    BY <1>3 DEF MakeCall, Starts, dataVars
  <2> QED
    BY <1>2, <2>1, <2>2, Queues, Zenon DEF Shape
<1>4. ASSUME DoAnswer(c) PROVE Begun
  <2>1. Starts("W", <<Log(c)>>) /\ Moves(c, {"ringing"}, "accepting") /\ UNCHANGED placed
    BY <1>4 DEF DoAnswer
  <2>2. UNCHANGED <<dataVars, inSetRemoteSDP, liberties>>
    BY <1>4 DEF DoAnswer, Starts, dataVars, javaVars
  <2> QED
    BY <1>2, <2>1, <2>2, Queues, Zenon DEF Shape
<1>5. ASSUME OnIceCandidate(c) PROVE Begun
  <2>1. UNCHANGED <<dataVars, inSetRemoteSDP, liberties, line, placed>>
    BY <1>5 DEF OnIceCandidate, Starts, dataVars
  <2>2. <<Log(c)>> \o <<>> = <<Log(c)>>
    BY <1>1
  <2>3. <<Log(c)>> \o <<Invite(c), Calling(c)>> = <<Log(c), Invite(c), Calling(c)>>
    BY <1>1, Prepended
  <2>4. <<Log(c)>> \o <<Answer(c), Accept(c)>> = <<Log(c), Answer(c), Accept(c)>>
    BY <1>1, Prepended
  <2>5. \/ GatheringFinish(c) = <<Invite(c), Calling(c)>> /\ line[c] = "placed"
        \/ GatheringFinish(c) = <<Answer(c), Accept(c)>> /\ line[c] = "accepting"
        \/ GatheringFinish(c) = <<>>
    BY DEF GatheringFinish, Invite, Calling, Answer, Accept
  <2>6. \/ Starts("W", <<Log(c)>>)
        \/ Starts("W", <<Log(c), Invite(c), Calling(c)>>) /\ line[c] = "placed"
        \/ Starts("W", <<Log(c), Answer(c), Accept(c)>>) /\ line[c] = "accepting"
    <3>1. Starts("W", <<Log(c)>> \o (IF didSentInvite THEN <<>> ELSE GatheringFinish(c)))
      BY <1>5 DEF OnIceCandidate
    <3>2. CASE didSentInvite
      BY <3>1, <3>2, <2>2, Zenon
    <3>3. CASE ~didSentInvite
      BY <3>1, <3>3, <2>2, <2>3, <2>4, <2>5, Zenon
    <3> QED
      BY <3>2, <3>3
  <2> QED
    BY <1>2, <2>1, <2>6, Queues, Zenon DEF Shape
<1>6. Begun
  BY <1>3, <1>4, <1>5
<1>7. WShape' /\ WCall' = c
  <2>1. W' = <<Log(c)>> \/ W' = <<Log(c), Invite(c), Calling(c)>> \/ W' = <<Log(c), Answer(c), Accept(c)>>
    BY <1>6
  <2>2. /\ <<Log(c)>> # <<>> /\ <<Log(c), Invite(c), Calling(c)>> # <<>> /\ <<Log(c), Answer(c), Accept(c)>> # <<>>
        /\ Head(<<Log(c)>>) = Log(c) /\ Head(<<Log(c), Invite(c), Calling(c)>>) = Log(c)
        /\ Head(<<Log(c), Answer(c), Accept(c)>>) = Log(c)
    OBVIOUS
  <2>3. Log(c).call = c
    BY DEF Log, Job
  <2> QED
    BY <2>1, <2>2, <2>3, Zenon DEF WShape, WCall
<1>8. RShape'
  <2>1. \A d : Uuids(d)' = Uuids(d)
    BY <1>6, Zenon DEF Uuids, May
  <2> QED
    BY <1>6, <2>1, Zenon DEF RShape, Shape
<1>9. Shape'
  BY <1>6, <1>7, <1>8, Zenon DEF Shape
<1>10. ASSUME R = <<>> PROVE WBegins
  <2>1. Idle /\ RAt' = "idle" /\ UNCHANGED dataVars
    BY <1>6, <1>10, IdleIs, Unmoved, Zenon DEF Idle
  <2>2. \/ WAt' = "log" /\ UNCHANGED <<line, placed>>
        \/ WAt' = "call1" /\ line[c] = "placed" /\ UNCHANGED <<line, placed>>
        \/ WAt' = "take1" /\ line[c] = "accepting" /\ UNCHANGED <<line, placed>>
        \/ WAt' = "log" /\ Free /\ Moves(c, {"new"}, "placed") /\ placed' = placed \cup {c}
        \/ WAt' = "log" /\ Moves(c, {"ringing"}, "accepting") /\ UNCHANGED placed
    BY <1>6, WPlaces, Zenon DEF WAt
  <2> QED
    BY <2>1, <2>2, <1>7, Zenon DEF WBegins
<1> QED
  BY <1>6, <1>9, <1>10

\* The jobs of a callback of the receiver about call c, and the place it begins.
LEMMA RFirst ==
    ASSUME NEW c \in Calls, NEW u \in Uuids(c), NEW end \in AllEnds
    PROVE  /\ R' = <<Sdp(c)>> => R' \in Seq(Jobs) /\ RAt' = "sdp" /\ RCall' = c
           /\ R' = <<Info(c, u), Early(c)>> => R' \in Seq(Jobs) /\ RAt' = "info" /\ RCall' = c
           /\ R' = <<Answer(c), Info(c, u), Taken(c)>> => R' \in Seq(Jobs) /\ RAt' = "answer1" /\ RCall' = c
           /\ R' = <<Info(c, u), Sdp(c), Incoming(c), Early(c)>> => R' \in Seq(Jobs) /\ RAt' = "offer1" /\ RCall' = c
           /\ R' = <<State(c, end[1], end[2]), Over(c)>> =>
                R' \in Seq(Jobs) /\ RAt' = "end1" /\ RCall' = c /\ RWhy' = end[1]
           /\ R' = <<Over(c)>> => R' \in Seq(Jobs) /\ RAt' = "end2" /\ RCall' = c
           /\ R' = <<Info(None, None), Registered>> => R' \in Seq(Jobs) /\ RAt' = "reg1"
<1>1. /\ Sdp(c) \in Jobs /\ Info(c, u) \in Jobs /\ Early(c) \in Jobs /\ Answer(c) \in Jobs /\ Taken(c) \in Jobs
      /\ Incoming(c) \in Jobs /\ State(c, end[1], end[2]) \in Jobs /\ Over(c) \in Jobs
      /\ Info(None, None) \in Jobs /\ Registered \in Jobs
  <2>1. u \in Calls \cup {None}
    BY UuidsAre
  <2> QED
    BY <2>1, JobsAre
<1>2. /\ Sdp(c).call = c /\ Info(c, u).call = c /\ Answer(c).call = c /\ Over(c).call = c
      /\ State(c, end[1], end[2]).call = c /\ State(c, end[1], end[2]).arg = end[1]
  BY DEF Sdp, Info, Answer, Over, State, Job
<1>3. ASSUME R' = <<Sdp(c)>> PROVE R' \in Seq(Jobs) /\ RAt' = "sdp" /\ RCall' = c
  <2>1. <<Sdp(c)>> \in Seq(Jobs) /\ <<Sdp(c)>> # <<>> /\ Head(<<Sdp(c)>>) = Sdp(c)
    BY <1>1
  <2> QED
    BY <1>2, <1>3, <2>1, RPlaces, Zenon DEF RAt, RCall
<1>4. ASSUME R' = <<Info(c, u), Early(c)>> PROVE R' \in Seq(Jobs) /\ RAt' = "info" /\ RCall' = c
  <2>1. /\ <<Info(c, u), Early(c)>> \in Seq(Jobs) /\ <<Info(c, u), Early(c)>> # <<>>
        /\ Head(<<Info(c, u), Early(c)>>) = Info(c, u)
    BY <1>1
  <2> QED
    BY <1>2, <1>4, <2>1, RPlaces, Zenon DEF RAt, RCall
<1>5. ASSUME R' = <<Answer(c), Info(c, u), Taken(c)>> PROVE R' \in Seq(Jobs) /\ RAt' = "answer1" /\ RCall' = c
  <2>1. /\ <<Answer(c), Info(c, u), Taken(c)>> \in Seq(Jobs) /\ <<Answer(c), Info(c, u), Taken(c)>> # <<>>
        /\ Head(<<Answer(c), Info(c, u), Taken(c)>>) = Answer(c)
    BY <1>1
  <2> QED
    BY <1>2, <1>5, <2>1, RPlaces, Zenon DEF RAt, RCall
<1>6. ASSUME R' = <<Info(c, u), Sdp(c), Incoming(c), Early(c)>>
      PROVE  R' \in Seq(Jobs) /\ RAt' = "offer1" /\ RCall' = c
  <2>1. /\ <<Info(c, u), Sdp(c), Incoming(c), Early(c)>> \in Seq(Jobs)
        /\ <<Info(c, u), Sdp(c), Incoming(c), Early(c)>> # <<>>
        /\ Head(<<Info(c, u), Sdp(c), Incoming(c), Early(c)>>) = Info(c, u)
    BY <1>1
  <2> QED
    BY <1>2, <1>6, <2>1, RPlaces, Zenon DEF RAt, RCall
<1>7. ASSUME R' = <<State(c, end[1], end[2]), Over(c)>>
      PROVE  R' \in Seq(Jobs) /\ RAt' = "end1" /\ RCall' = c /\ RWhy' = end[1]
  <2>1. /\ <<State(c, end[1], end[2]), Over(c)>> \in Seq(Jobs) /\ <<State(c, end[1], end[2]), Over(c)>> # <<>>
        /\ Head(<<State(c, end[1], end[2]), Over(c)>>) = State(c, end[1], end[2])
    BY <1>1
  <2> QED
    BY <1>2, <1>7, <2>1, RPlaces, Zenon DEF RAt, RCall, RWhy
<1>8. ASSUME R' = <<Info(None, None), Registered>> PROVE R' \in Seq(Jobs) /\ RAt' = "reg1"
  <2>1. <<Info(None, None), Registered>> \in Seq(Jobs)
    BY <1>1
  <2> QED
    BY <1>8, <2>1, RPlaces, Zenon DEF RAt
<1>9. ASSUME R' = <<Over(c)>> PROVE R' \in Seq(Jobs) /\ RAt' = "end2" /\ RCall' = c
  <2>1. <<Over(c)>> \in Seq(Jobs) /\ <<Over(c)>> # <<>> /\ Head(<<Over(c)>>) = Over(c)
    BY <1>1
  <2> QED
    BY <1>2, <1>9, <2>1, RPlaces, Zenon DEF RAt, RCall
<1> QED
  BY <1>3, <1>4, <1>5, <1>6, <1>7, <1>8, <1>9

LEMMA RStartsKinds ==
    ASSUME Shape, NEW c \in Calls,
           OnNewSession(c) \/ OnEarlyMedia(c) \/ OnAnswer(c) \/ OnOffer(c) \/ OnTerminated(c)
    PROVE  /\ Shape' /\ R = <<>> /\ W' = W /\ (May("overlap") \/ W = <<>>) /\ UNCHANGED inSetRemoteSDP
           /\ W = <<>> => RBegins(c)
<1> DEFINE Fresh == /\ R' \in Seq(Jobs) /\ RCall' = c /\ RShape'
           New == \/ RAt' = "sdp" /\ Moves(c, {"invited"}, "early")
                  \/ RAt' = "info" /\ Moves(c, {"early", "informed"}, "informed")
                  \/ RAt' = "answer1" /\ Moves(c, {"informed"} \cup (IF May("silent") THEN {"early"} ELSE {}), "talking")
                  \/ RAt' = "offer1" /\ Free /\ Moves(c, {"new"}, "ringing")
                  \/ RAt' = "offer1" /\ May("callWaiting") /\ Moves(c, {"new"}, "waiting")
                  \/ /\ RAt' = "end1" /\ Moves(c, {line[c]}, "over")
                     /\ \E end \in Ends(c) : RWhy' = end[1]
                  \/ RAt' = "end2" /\ Moves(c, {"invited"}, "over") /\ Ends(c) # {}
           Begun == /\ \E jobs : Starts("R", jobs)
                    /\ UNCHANGED <<dataVars, placed, inSetRemoteSDP, liberties>>
<1>1. Begun
  <2>1. UNCHANGED <<dataVars, placed, inSetRemoteSDP, liberties>>
    BY DEF OnNewSession, OnEarlyMedia, OnAnswer, OnOffer, OnTerminated, Starts, dataVars, javaVars
  <2>2. \E jobs : Starts("R", jobs)
    BY Zenon DEF OnNewSession, OnEarlyMedia, OnAnswer, OnOffer, OnTerminated
  <2> QED
    BY <2>1, <2>2
<1>2. \A d : Uuids(d)' = Uuids(d)
  BY <1>1, Zenon DEF Uuids, May
<1>3. \E end \in AllEnds : TRUE
  BY Zenon DEF AllEnds
<1>4. c \in Uuids(c)
  BY DEF Uuids
<1>5. ASSUME OnNewSession(c) PROVE Fresh /\ New
  <2>1. Starts("R", <<Sdp(c)>>) /\ Moves(c, {"invited"}, "early")
    BY <1>5 DEF OnNewSession, Sdp
  <2>2. R' = <<Sdp(c)>>
    BY <2>1, Queues, Zenon
  <2>3. RShape'
    BY <2>2, Zenon DEF RShape
  <2> QED
    BY <2>1, <2>2, <2>3, <1>3, <1>4, RFirst, Zenon
<1>6. ASSUME OnEarlyMedia(c) PROVE Fresh /\ New
  <2>1. PICK u \in Uuids(c) : Starts("R", <<Info(c, u), Early(c)>>)
    BY <1>6 DEF OnEarlyMedia, Info, Early
  <2>2. R' = <<Info(c, u), Early(c)>>
    BY <2>1, Queues, Zenon
  <2>3. RShape'
    BY <2>2, <1>2, Zenon DEF RShape
  <2>4. Moves(c, {"early", "informed"}, "informed")
    BY <1>6 DEF OnEarlyMedia
  <2> QED
    BY <2>2, <2>3, <2>4, <1>3, RFirst, Zenon
<1>7. ASSUME OnAnswer(c) PROVE Fresh /\ New
  <2>1. PICK u \in Uuids(c) : Starts("R", <<Answer(c), Info(c, u), Taken(c)>>)
    BY <1>7 DEF OnAnswer, Answer, Info, Taken
  <2>2. R' = <<Answer(c), Info(c, u), Taken(c)>>
    BY <2>1, Queues, Zenon
  <2>3. RShape'
    BY <2>2, <1>2, Zenon DEF RShape
  <2>4. Moves(c, {"informed"} \cup (IF May("silent") THEN {"early"} ELSE {}), "talking")
    BY <1>7 DEF OnAnswer
  <2> QED
    BY <2>2, <2>3, <2>4, <1>3, RFirst, Zenon
<1>8. ASSUME OnOffer(c) PROVE Fresh /\ New
  <2>1. PICK u \in Uuids(c) : Starts("R", <<Info(c, u), Sdp(c), Incoming(c), Early(c)>>)
    BY <1>8 DEF OnOffer, OfferJobs, Info, Sdp, Incoming, Early
  <2>2. R' = <<Info(c, u), Sdp(c), Incoming(c), Early(c)>>
    BY <2>1, Queues, Zenon
  <2>3. RShape'
    BY <2>2, <1>2, Zenon DEF RShape
  <2>4. \/ Free /\ Moves(c, {"new"}, "ringing")
        \/ May("callWaiting") /\ Moves(c, {"new"}, "waiting")
    BY <1>8, Zenon DEF OnOffer, ReadyForCall
  <2> QED
    BY <2>2, <2>3, <2>4, <1>3, RFirst, Zenon
<1>9. ASSUME OnTerminated(c) PROVE Fresh /\ New
  <2>1. PICK end \in Ends(c) :
            /\ Moves(c, {line[c]}, "over")
            /\ \/ Starts("R", <<State(c, end[1], end[2]), Over(c)>>)
               \/ line[c] = "invited" /\ Starts("R", <<Over(c)>>)
    BY <1>9, Zenon DEF OnTerminated, Over
  <2>2. end \in AllEnds
    BY DEF Ends, AllEnds, Failures, StatusOf, LocalReasons, Responses
  <2>3. ASSUME Starts("R", <<State(c, end[1], end[2]), Over(c)>>) PROVE Fresh /\ New
    <3>1. R' = <<State(c, end[1], end[2]), Over(c)>>
      BY <2>3, Queues, Zenon
    <3>2. RShape'
      BY <2>2, <3>1, Zenon DEF RShape
    <3> QED
      BY <2>1, <2>2, <3>1, <3>2, <1>4, RFirst, Zenon
  <2>4. ASSUME line[c] = "invited", Starts("R", <<Over(c)>>) PROVE Fresh /\ New
    <3>1. R' = <<Over(c)>>
      BY <2>4, Queues, Zenon
    <3>2. RShape'
      BY <3>1, Zenon DEF RShape
    <3>3. Ends(c) # {} /\ Moves(c, {"invited"}, "over")
      BY <2>1, <2>4, Zenon DEF Moves
    <3> QED
      BY <2>2, <3>1, <3>2, <3>3, <1>4, RFirst, Zenon
  <2> QED
    BY <2>1, <2>3, <2>4
<1>10. Fresh /\ New
  BY <1>5, <1>6, <1>7, <1>8, <1>9
<1>11. R = <<>> /\ W' = W /\ (May("overlap") \/ W = <<>>)
  BY <1>1, Queues, Zenon
<1>12. Shape'
  <2>1. WShape'
    BY <1>11, Zenon DEF Shape, WShape
  <2>2. PICK jobs : Starts("R", jobs)
    BY <1>1
  <2>3. jobs \in Seq(Jobs)
    BY <2>2, <1>10, Queues, Zenon
  <2> QED
    BY <1>10, <2>1, <2>2, <2>3, Queues, Zenon DEF Shape
<1>13. ASSUME W = <<>> PROVE RBegins(c)
  <2>1. Idle /\ WAt' = "idle"
    BY <1>11, <1>13, IdleIs, Unmoved, Zenon DEF Idle
  <2> QED
    BY <1>1, <1>10, <2>1, Zenon DEF RBegins
<1> QED
  BY <1>1, <1>11, <1>12, <1>13

LEMMA RegistrationKinds ==
    ASSUME Shape, OnSuccess
    PROVE  /\ Shape' /\ R = <<>> /\ W' = W /\ (May("overlap") \/ W = <<>>) /\ UNCHANGED inSetRemoteSDP
           /\ W = <<>> => RegistrationBegins
<1>1. /\ Starts("R", <<Info(None, None), Registered>>)
      /\ Free \/ May("relogin")
      /\ UNCHANGED <<dataVars, line, placed, liberties, inSetRemoteSDP>>
  BY DEF OnSuccess, Info, Registered, Starts, dataVars, javaVars
<1>2. /\ R = <<>> /\ W' = W /\ (May("overlap") \/ W = <<>>) /\ R' = <<Info(None, None), Registered>>
  BY <1>1, Queues, Zenon
<1>3. <<Info(None, None), Registered>> \in Seq(Jobs)
  BY JobsAre
<1>4. RAt' = "reg1"
  BY <1>2, RPlaces, Zenon DEF RAt
<1>5. Shape'
  BY <1>1, <1>2, <1>3, Queues, Zenon DEF Shape, RShape, WShape
<1>6. ASSUME W = <<>> PROVE RegistrationBegins
  BY <1>1, <1>2, <1>4, <1>6, IdleIs, Unmoved, Zenon DEF RegistrationBegins, Idle
<1> QED
  BY <1>1, <1>2, <1>5, <1>6

\* The branches of setCallState that the receiver's states lead to.
LEMMA EarlyBranch ==
    ASSUME NEW c, IF isIncomingCall THEN IncomingCallStates(c, "EarlyMedia", 183)
                                    ELSE OutgoingCallStates(c, "EarlyMedia", 183)
    PROVE  OnEarly
BY DEF IncomingCallStates, OutgoingCallStates, OnEarly

LEMMA AcceptedBranch ==
    ASSUME NEW c, IF isIncomingCall THEN IncomingCallStates(c, "CallAccepted", 200)
                                    ELSE OutgoingCallStates(c, "CallAccepted", 200)
    PROVE  Accepted(c) /\ UNCHANGED xcallid
BY DEF IncomingCallStates, OutgoingCallStates, Underway

LEMMA CallingBranch ==
    ASSUME NEW c, IF isIncomingCall THEN IncomingCallStates(c, "Calling", 0)
                                    ELSE OutgoingCallStates(c, "Calling", 0)
    PROVE  IF isIncomingCall THEN Unaffected ELSE OnCalling
BY DEF IncomingCallStates, OutgoingCallStates, Underway

LEMMA EndBranch ==
    ASSUME NEW c, NEW end \in AllEnds, isIncomingCall \in BOOLEAN,
           IF isIncomingCall THEN IncomingCallStates(c, end[1], end[2])
                             ELSE OutgoingCallStates(c, end[1], end[2])
    PROVE  OnEnd(c, end[1])
<1>1. CASE end = <<"RemoteBye", 200>>
  <2>1. Summarised(c, isIncomingCall, TRUE)
    <3>1. CASE isIncomingCall = TRUE
      <4>1. Summarised(c, TRUE, TRUE)
        <5>1. end[1] = "RemoteBye" /\ end[2] = 200 /\ IncomingCallStates(c, end[1], end[2])
          BY <1>1, <3>1
        <5> QED
          BY <5>1 DEF IncomingCallStates, Underway, Summarised
      <4> QED
        BY <3>1, <4>1, Zenon
    <3>2. CASE isIncomingCall = FALSE
      BY <1>1, <3>2 DEF OutgoingCallStates, Underway, Summarised
    <3> QED
      BY <3>1, <3>2
  <2> QED
    BY <1>1, <2>1 DEF OnEnd
<1>2. CASE end = <<"RemoteCancel", 487>>
  <2>1. Summarised(c, TRUE, FALSE) \/ Summarised(c, FALSE, FALSE)
    BY <1>2 DEF IncomingCallStates, OutgoingCallStates, Underway, Summarised
  <2> QED
    BY <1>2, <2>1 DEF OnEnd
<1>3. CASE end[1] \in Failures /\ end[2] \in Responses
  <2> DEFINE why == end[1]
             status == end[2]
  <2>1. why \notin Underway
    BY <1>3 DEF Failures, LocalReasons, Underway
  <2>2. /\ status \in {480, 486, 487} \/ status \in {404, 408, 500, 503, 603}
        /\ why \notin {"Calling", "EarlyMedia", "CallAccepted"}
        /\ IF isIncomingCall THEN IncomingCallStates(c, why, status)
                             ELSE OutgoingCallStates(c, why, status)
    BY <1>3, <2>1 DEF Responses, Underway
  <2> HIDE DEF why, status
  <2>3. CASE status \in {480, 486, 487}
    <3>1. \/ Summarised(c, TRUE, FALSE) \/ Summarised(c, FALSE, FALSE)
          \/ Unaffected
      BY <2>1, <2>2, <2>3 DEF IncomingCallStates, OutgoingCallStates, Summarised
    <3> QED
      BY <1>3, <3>1, Zenon DEF OnEnd, why
  <2>4. CASE status \in {404, 408, 500, 503, 603}
    <3>1. CleanupCallData \/ Unaffected
      BY <2>1, <2>2, <2>4 DEF IncomingCallStates, OutgoingCallStates, Summarised
    <3> QED
      BY <1>3, <3>1, Zenon DEF OnEnd, why
  <2> QED
    BY <2>2, <2>3, <2>4
<1> QED
  BY <1>1, <1>2, <1>3 DEF AllEnds

LEMMA RStateBranch ==
    ASSUME isIncomingCall \in BOOLEAN, SetCallState("R"), RDone
    PROVE  /\ RCall \in Calls
           /\ \/ RMove("state", "early", "idle") /\ OnEarly
              \/ RMove("state", "answer1", "answer2") /\ Accepted(RCall) /\ UNCHANGED xcallid
              \/ RMove("state", "end1", "end2") /\ OnEnd(RCall, RWhy)
<1>1. /\ Head(R).do = "state"
      /\ IF isIncomingCall THEN IncomingCallStates(Head(R).call, Head(R).arg, Head(R).status)
                           ELSE OutgoingCallStates(Head(R).call, Head(R).arg, Head(R).status)
  BY Zenon DEF SetCallState, Upcall, Next_, R
<1>2. /\ RCall \in Calls
      /\ \/ RMove("state", "early", "idle") /\ Head(R) = Early(RCall)
         \/ RMove("state", "answer1", "answer2") /\ Head(R) = Answer(RCall)
         \/ RMove("state", "end1", "end2") /\ (\E e \in AllEnds : Head(R) = State(RCall, e[1], e[2]) /\ RWhy = e[1])
  BY <1>1 DEF RDone, RMove
<1>3. ASSUME Head(R) = Early(RCall) PROVE OnEarly
  <2>1. Head(R).call = RCall /\ Head(R).arg = "EarlyMedia" /\ Head(R).status = 183
    BY <1>3 DEF Early, State, Job
  <2>2. IF isIncomingCall THEN IncomingCallStates(RCall, "EarlyMedia", 183)
                          ELSE OutgoingCallStates(RCall, "EarlyMedia", 183)
    BY <1>1, <2>1
  <2> QED
    BY <2>2, EarlyBranch
<1>4. ASSUME Head(R) = Answer(RCall) PROVE Accepted(RCall) /\ UNCHANGED xcallid
  <2>1. Head(R).call = RCall /\ Head(R).arg = "CallAccepted" /\ Head(R).status = 200
    BY <1>4 DEF Answer, State, Job
  <2>2. IF isIncomingCall THEN IncomingCallStates(RCall, "CallAccepted", 200)
                          ELSE OutgoingCallStates(RCall, "CallAccepted", 200)
    BY <1>1, <2>1
  <2> QED
    BY <2>2, AcceptedBranch
<1>5. ASSUME NEW e \in AllEnds, Head(R) = State(RCall, e[1], e[2]), RWhy = e[1] PROVE OnEnd(RCall, RWhy)
  <2>1. Head(R).call = RCall /\ Head(R).arg = e[1] /\ Head(R).status = e[2]
    BY <1>5 DEF State, Job
  <2> QED
    BY <1>1, <1>5, <2>1, EndBranch, Zenon
<1> QED
  BY <1>2, <1>3, <1>4, <1>5, Zenon

LEMMA WStateBranch ==
    ASSUME isIncomingCall \in BOOLEAN, SetCallState("W"), WDone
    PROVE  /\ WCall \in Calls
           /\ \/ WMove("state", "call3", "idle") /\ (IF isIncomingCall THEN Unaffected ELSE OnCalling)
              \/ WMove("state", "take2", "take3") /\ Accepted(WCall) /\ UNCHANGED xcallid
<1>1. /\ Head(W).do = "state"
      /\ IF isIncomingCall THEN IncomingCallStates(Head(W).call, Head(W).arg, Head(W).status)
                           ELSE OutgoingCallStates(Head(W).call, Head(W).arg, Head(W).status)
  BY Zenon DEF SetCallState, Upcall, Next_, W
<1>2. /\ WCall \in Calls
      /\ \/ WMove("state", "call3", "idle") /\ Head(W) = Calling(WCall)
         \/ WMove("state", "take2", "take3") /\ Head(W) = Answer(WCall)
  BY <1>1 DEF WDone, WMove
<1>3. ASSUME Head(W) = Calling(WCall) PROVE IF isIncomingCall THEN Unaffected ELSE OnCalling
  <2>1. Head(W).call = WCall /\ Head(W).arg = "Calling" /\ Head(W).status = 0
    BY <1>3 DEF Calling, State, Job
  <2>2. IF isIncomingCall THEN IncomingCallStates(WCall, "Calling", 0)
                          ELSE OutgoingCallStates(WCall, "Calling", 0)
    BY <1>1, <2>1
  <2> QED
    BY <2>2, CallingBranch
<1>4. ASSUME Head(W) = Answer(WCall) PROVE Accepted(WCall) /\ UNCHANGED xcallid
  <2>1. Head(W).call = WCall /\ Head(W).arg = "CallAccepted" /\ Head(W).status = 200
    BY <1>4 DEF Answer, State, Job
  <2>2. IF isIncomingCall THEN IncomingCallStates(WCall, "CallAccepted", 200)
                          ELSE OutgoingCallStates(WCall, "CallAccepted", 200)
    BY <1>1, <2>1
  <2> QED
    BY <2>2, AcceptedBranch
<1> QED
  BY <1>2, <1>3, <1>4, Zenon

LEMMA RThreadKinds ==
    ASSUME Shape, isIncomingCall \in BOOLEAN, ThreadStep("R")
    PROVE  /\ R # <<>> /\ W' = W /\ Shape'
           /\ R' = R \/ (R' = Tail(R) /\ RDone)
           /\ W = <<>> => Flat
<1>1. R # <<>> /\ Head(R).do \notin {"invite", "accept"}
  <2>1. R # <<>>
    BY Zenon DEF ThreadStep, SetCallState, SetCallInfo, OnIncomingCall, OnTerminateCall, OnRegistration, OnLog,
           SetRemoteSDP, SetRemoteSDPReturns, SipMessageOut, Upcall, Busy, R
  <2> QED
    BY <2>1, RHead DEF Shape
<1>2. CASE SetRemoteSDP("R")
  <2>1. UNCHANGED <<todo, dataVars, line, placed, liberties>>
    BY <1>2 DEF SetRemoteSDP, dataVars, javaVars
  <2>2. R' = R /\ W' = W
    BY <2>1, Zenon DEF R, W
  <2>3. Shape'
    BY <2>1, <2>2, Zenon DEF Shape, RShape, WShape, Uuids, May
  <2>4. UNCHANGED <<placeVars, dataVars, line, placed>>
    BY <2>1, <2>2, Unmoved, Zenon DEF placeVars
  <2> QED
    BY <1>1, <2>2, <2>3, <2>4, Zenon DEF Flat
<1>3. ASSUME ~SetRemoteSDP("R") PROVE Done("R") /\ UNCHANGED <<line, placed, liberties>>
  <2>1. ~SipMessageOut("R")
    BY <1>1 DEF SipMessageOut, Next_, R
  <2> QED
    BY <1>3, <2>1 DEF ThreadStep, SetCallState, SetCallInfo, OnIncomingCall, OnTerminateCall, OnRegistration, OnLog,
           SetRemoteSDPReturns
<1>4. ASSUME ~SetRemoteSDP("R") PROVE R' = Tail(R) /\ W' = W /\ Shape' /\ RDone
  <2>1. R' = Tail(R) /\ W' = W /\ todo' \in [{"R", "W"} -> Seq(Jobs)] /\ liberties' = liberties
    BY <1>1, <1>3, <1>4, Queues, Zenon
  <2>2. RShape' /\ RDone
    BY <1>1, <2>1, RDoneKinds, Zenon DEF Shape
  <2> QED
    BY <2>1, <2>2, Zenon DEF Shape, WShape
<1>5. ASSUME ~SetRemoteSDP("R"), W = <<>>, NEW do, NEW from, NEW to, RMove(do, from, to) PROVE RGoes(from, to)
  <2>1. WAt = "idle" /\ WAt' = "idle"
    BY <1>4, <1>5, IdleIs, Unmoved, Zenon
  <2> QED
    BY <1>3, <1>5, <2>1, Zenon DEF RMove, RGoes
<1>6. ASSUME SetRemoteSDPReturns("R"), ~SetRemoteSDP("R"), W = <<>> PROVE RJob
  <2>1. Head(R).do = "sdp" /\ UNCHANGED dataVars
    BY <1>6 DEF SetRemoteSDPReturns, Next_, R, dataVars
  <2>2. RMove("sdp", "sdp", "idle") \/ RMove("sdp", "offer2", "offer3")
    BY <2>1, <1>4, <1>6 DEF RDone, RMove
  <2> QED
    BY <1>5, <1>6, <2>1, <2>2, Zenon DEF RJob
<1>7. ASSUME OnLog("R"), ~SetRemoteSDP("R"), W = <<>> PROVE RJob
  <2>1. Head(R).do \in {"log", "accepted"} /\ UNCHANGED dataVars
    BY <1>7 DEF OnLog, Upcall, Next_, R, dataVars, javaVars
  <2>2. RMove("accepted", "answer3", "idle")
    BY <2>1, <1>4, <1>7 DEF RDone, RMove
  <2> QED
    BY <1>5, <1>7, <2>1, <2>2, Zenon DEF RJob
<1>8. ASSUME OnRegistration("R"), ~SetRemoteSDP("R"), W = <<>> PROVE RJob
  <2>1. Head(R).do = "registered" /\ timer' = None /\ UNCHANGED <<isIncomingCall, xcallid, signallingStats, running, reports, npe>>
    BY <1>8 DEF OnRegistration, Upcall, Next_, R
  <2>2. RMove("registered", "reg2", "idle")
    BY <2>1, <1>4, <1>8 DEF RDone, RMove
  <2> QED
    BY <1>5, <1>8, <2>1, <2>2, Zenon DEF RJob
<1>9. ASSUME OnTerminateCall("R"), ~SetRemoteSDP("R"), W = <<>> PROVE RJob
  <2>1. Head(R).do = "terminate" /\ Npe("hangup") /\ UNCHANGED <<isIncomingCall, xcallid>>
    BY <1>9 DEF OnTerminateCall, Upcall, Next_, R
  <2>2. RMove("terminate", "end2", "idle")
    BY <2>1, <1>4, <1>9 DEF RDone, RMove
  <2> QED
    BY <1>5, <1>9, <2>1, <2>2, Zenon DEF RJob
<1>10. ASSUME OnIncomingCall("R"), ~SetRemoteSDP("R"), W = <<>> PROVE RJob
  <2>1. /\ Head(R).do = "incoming" /\ isIncomingCall' = TRUE
        /\ UNCHANGED <<xcallid, signallingStats, timer, running, reports, npe>>
    BY <1>10 DEF OnIncomingCall, Upcall, Next_, R
  <2>2. RMove("incoming", "offer3", "early")
    BY <2>1, <1>4, <1>10 DEF RDone, RMove
  <2> QED
    BY <1>5, <1>10, <2>1, <2>2, Zenon DEF RJob
<1>11. ASSUME SetCallInfo("R"), ~SetRemoteSDP("R"), W = <<>> PROVE RJob
  <2>1. /\ Head(R).do = "info" /\ xcallid' = Head(R).arg
        /\ UNCHANGED <<isIncomingCall, signallingStats, timer, running, reports, npe>>
    BY <1>11 DEF SetCallInfo, Upcall, Next_, R
  <2>2. \/ /\ RMove("info", "info", "early") \/ RMove("info", "answer2", "answer3") \/ RMove("info", "offer1", "offer2")
           /\ RCall \in Calls /\ Head(R).arg \in Uuids(RCall)
        \/ RMove("info", "reg1", "reg2") /\ Head(R).arg = None
    BY <2>1, <1>4, <1>11 DEF RDone, RMove
  <2>3. \/ /\ RGoes("info", "early") \/ RGoes("answer2", "answer3") \/ RGoes("offer1", "offer2")
           /\ RCall \in Calls /\ xcallid' \in Uuids(RCall)
        \/ RGoes("reg1", "reg2") /\ xcallid' = None
    BY <1>5, <1>11, <2>1, <2>2, Zenon
  <2> QED
    BY <2>1, <2>3, Zenon DEF RJob
<1>12. ASSUME SetCallState("R"), ~SetRemoteSDP("R"), W = <<>> PROVE RJob
  <2>1. UNCHANGED isIncomingCall
    BY <1>12 DEF SetCallState
  <2>2. \/ RMove("state", "early", "idle") /\ OnEarly
        \/ RMove("state", "answer1", "answer2") /\ Accepted(RCall) /\ UNCHANGED xcallid
        \/ RMove("state", "end1", "end2") /\ OnEnd(RCall, RWhy)
    BY <1>4, <1>12, RStateBranch, Zenon
  <2> QED
    BY <1>5, <1>12, <2>1, <2>2, Zenon DEF RJob
<1>13. ~SipMessageOut("R")
  BY <1>1 DEF SipMessageOut, Next_, R
<1>14. CASE ~SetRemoteSDP("R")
  <2>1. W = <<>> => RJob
    BY <1>14, <1>6, <1>7, <1>8, <1>9, <1>10, <1>11, <1>12, <1>13, Zenon DEF ThreadStep
  <2> QED
    BY <1>1, <1>4, <1>14, <2>1, Zenon DEF Flat
<1> QED
  BY <1>2, <1>14

LEMMA WThreadKinds ==
    ASSUME Shape, isIncomingCall \in BOOLEAN, ThreadStep("W")
    PROVE  /\ W # <<>> /\ R' = R /\ Shape' /\ UNCHANGED inSetRemoteSDP /\ WDone
           /\ R = <<>> => WJob
<1>1. W # <<>> /\ Head(W).do \in {"log", "invite", "accept", "state"}
  <2>1. W # <<>>
    BY Zenon DEF ThreadStep, SetCallState, SetCallInfo, OnIncomingCall, OnTerminateCall, OnRegistration, OnLog,
           SetRemoteSDP, SetRemoteSDPReturns, SipMessageOut, Upcall, Busy, W
  <2> QED
    BY <2>1, WHead DEF Shape
<1>2. OnLog("W") \/ SetCallState("W") \/ SipMessageOut("W")
  BY <1>1 DEF ThreadStep, SetCallInfo, OnIncomingCall, OnTerminateCall, OnRegistration,
         SetRemoteSDP, SetRemoteSDPReturns, Upcall, Next_, W
<1>3. Done("W") /\ UNCHANGED <<placed, liberties, inSetRemoteSDP>>
  BY <1>2 DEF OnLog, SetCallState, SipMessageOut
<1>4. W' = Tail(W) /\ R' = R /\ todo' \in [{"R", "W"} -> Seq(Jobs)]
  BY <1>1, <1>3, Queues, Zenon
<1>5. WShape' /\ WDone
  BY <1>1, <1>4, WDoneKinds, Zenon DEF Shape
<1>6. Shape'
  <2>1. \A d : Uuids(d)' = Uuids(d)
    BY <1>3, Zenon DEF Uuids, May
  <2> QED
    BY <1>4, <1>5, <2>1, Zenon DEF Shape, RShape
<1>7. ASSUME R = <<>>, NEW do, NEW from, NEW to, WMove(do, from, to) PROVE WGoes(from, to)
  <2>1. RAt = "idle" /\ RAt' = "idle"
    BY <1>4, <1>7, IdleIs, Unmoved, Zenon
  <2> QED
    BY <1>3, <1>7, <2>1, Zenon DEF WMove, WGoes
<1>8. ASSUME OnLog("W"), R = <<>> PROVE WJob
  <2>1. Head(W).do \in {"log", "accepted"} /\ UNCHANGED <<line, dataVars>>
    BY <1>8 DEF OnLog, Upcall, Next_, W, dataVars, javaVars
  <2>2. WMove("log", "log", "idle") \/ WMove("log", "call1", "call2") \/ WMove("log", "take1", "take2")
    BY <2>1, <1>5 DEF WDone, WMove
  <2> QED
    BY <1>7, <1>8, <2>1, <2>2, Zenon DEF WJob
<1>9. ASSUME SipMessageOut("W"), R = <<>> PROVE WJob
  <2>1. /\ Head(W).do \in {"invite", "accept"} /\ UNCHANGED dataVars
        /\ Advances(Head(W).call, IF Head(W).do = "invite" THEN "invited" ELSE "talking")
    BY <1>9 DEF SipMessageOut, Next_, W, dataVars, javaVars, Advances
  <2>2. WMove("invite", "call2", "call3") \/ WMove("accept", "take3", "idle")
    BY <2>1, <1>5 DEF WDone, WMove
  <2>3. WCall = Head(W).call
    BY <1>1, Zenon DEF WCall
  <2>4. ASSUME WMove("invite", "call2", "call3") PROVE WJob
    <3>1. Advances(WCall, "invited")
      BY <2>1, <2>3, <2>4 DEF WMove, Advances
    <3> QED
      BY <1>7, <1>9, <2>1, <2>4, <3>1, Zenon DEF WJob
  <2>5. ASSUME WMove("accept", "take3", "idle") PROVE WJob
    <3>1. Advances(WCall, "talking")
      BY <2>1, <2>3, <2>5 DEF WMove, Advances
    <3> QED
      BY <1>7, <1>9, <2>1, <2>5, <3>1, Zenon DEF WJob
  <2> QED
    BY <2>2, <2>4, <2>5
<1>10. ASSUME SetCallState("W"), R = <<>> PROVE WJob
  <2>1. UNCHANGED <<isIncomingCall, line>>
    BY <1>10 DEF SetCallState
  <2>2. \/ WMove("state", "call3", "idle") /\ (IF isIncomingCall THEN Unaffected ELSE OnCalling)
        \/ WMove("state", "take2", "take3") /\ Accepted(WCall) /\ UNCHANGED xcallid
    BY <1>5, <1>10, WStateBranch, Zenon
  <2>3. ASSUME WMove("state", "call3", "idle"), IF isIncomingCall THEN Unaffected ELSE OnCalling PROVE WJob
    BY <1>7, <1>10, <2>1, <2>3, Zenon DEF WJob
  <2>4. ASSUME WMove("state", "take2", "take3"), Accepted(WCall), UNCHANGED xcallid PROVE WJob
    BY <1>7, <1>10, <2>1, <2>4, Zenon DEF WJob
  <2> QED
    BY <2>2, <2>3, <2>4, Zenon
<1> QED
  BY <1>1, <1>2, <1>3, <1>4, <1>5, <1>6, <1>8, <1>9, <1>10, Zenon

\* hangup() of the application changes nothing that the statistics depend on.
LEMMA HangupKinds ==
    ASSUME Shape, Hangup \/ UNCHANGED vars
    PROVE  /\ Shape' /\ UNCHANGED <<todo, R, W, inSetRemoteSDP>>
           /\ UNCHANGED <<placeVars, dataVars, line, placed>>
<1>1. UNCHANGED <<todo, inSetRemoteSDP, dataVars, line, placed, liberties>>
  BY DEF Hangup, vars, javaVars, dataVars
<1>2. R' = R /\ W' = W
  BY <1>1, Zenon DEF R, W
<1>3. Shape'
  BY <1>1, <1>2, Zenon DEF Shape, RShape, WShape, Uuids, May
<1>4. UNCHANGED placeVars
  BY <1>2, Unmoved, Zenon DEF placeVars
<1> QED
  BY <1>1, <1>2, <1>3, <1>4

\* One thread at a time stays one at a time, and then every step is one of Flat.
LEMMA FlatStep ==
    ASSUME Shape, isIncomingCall \in BOOLEAN, [Next]_vars
    PROVE  /\ Shape'
           /\ OneBusy /\ ~May("overlap") => OneBusy' /\ Flat
<1>1. CASE ThreadStep("R")
  <2>1. /\ R # <<>> /\ W' = W /\ Shape' /\ (W = <<>> => Flat)
    BY <1>1, RThreadKinds, Zenon
  <2> QED
    BY <2>1, Zenon DEF OneBusy
<1>2. CASE ThreadStep("W")
  <2>1. W # <<>> /\ R' = R /\ Shape' /\ (R = <<>> => WJob)
    BY <1>2, WThreadKinds, Zenon
  <2> QED
    BY <2>1, Zenon DEF OneBusy, Flat
<1>3. ASSUME NEW c \in Calls, CallEvent(c)
      PROVE  Shape' /\ (OneBusy /\ ~May("overlap") => OneBusy' /\ Flat)
  <2>1. CASE MakeCall(c) \/ DoAnswer(c) \/ OnIceCandidate(c)
    <3>1. Shape' /\ R' = R /\ (May("overlap") \/ R = <<>>) /\ (R = <<>> => WBegins)
      BY <2>1, WStartsKinds, Zenon
    <3> QED
      BY <3>1, Zenon DEF OneBusy, Flat
  <2>2. CASE OnNewSession(c) \/ OnEarlyMedia(c) \/ OnAnswer(c) \/ OnOffer(c) \/ OnTerminated(c)
    <3>1. Shape' /\ W' = W /\ (May("overlap") \/ W = <<>>) /\ (W = <<>> => RBegins(c))
      BY <2>2, RStartsKinds, Zenon
    <3> QED
      BY <3>1, Zenon DEF OneBusy, Flat
  <2> QED
    BY <1>3, <2>1, <2>2, Zenon DEF CallEvent
<1>4. CASE OnSuccess
  <2>1. Shape' /\ W' = W /\ (May("overlap") \/ W = <<>>) /\ (W = <<>> => RegistrationBegins)
    BY <1>4, RegistrationKinds, Zenon
  <2> QED
    BY <2>1, Zenon DEF OneBusy, Flat
<1>5. CASE Hangup \/ UNCHANGED vars
  <2>1. Shape' /\ R' = R /\ W' = W /\ UNCHANGED <<placeVars, dataVars, line, placed>>
    BY <1>5, HangupKinds, Zenon
  <2> QED
    BY <2>1, Zenon DEF OneBusy, Flat
<1>6. \/ ThreadStep("R") \/ ThreadStep("W") \/ (\E c \in Calls : CallEvent(c)) \/ OnSuccess
      \/ Hangup \/ UNCHANGED vars
  BY DEF Next
<1> QED
  BY <1>1, <1>2, <1>3, <1>4, <1>5, <1>6, Zenon

-----------------------------------------------------------------------------
(***************************************************************************)
(* The invariants, place by place.  All of them are about environments     *)
(* without overlap; each was model-checked before it was proved.           *)
(***************************************************************************)
InOffer == RAt \in {"offer1", "offer2", "offer3"}

Active(c) == line[c] \notin {"new", "over", "waiting"}

NobodyActive == \A c \in Calls : ~Active(c)

\* One call at a time is up, though others may wait, and the callbacks are about
\* calls that are as far as they should be.
LineInv ==
    /\ \A c, d \in Calls : Active(c) /\ Active(d) => c = d
    /\ WAt \in {"call1", "call2"} => WCall \in Calls /\ line[WCall] = "placed"
    /\ WAt = "call3" => WCall \in Calls /\ line[WCall] = "invited"
    /\ WAt \in {"take1", "take2", "take3"} => WCall \in Calls /\ line[WCall] = "accepting"
    /\ RAt \notin {"idle", "reg1", "reg2"} => RCall \in Calls
    /\ RAt = "sdp" => line[RCall] = "early"
    /\ RAt = "info" => line[RCall] = "informed"
    /\ RAt = "early" => line[RCall] \in {"informed", "ringing", "waiting"}
    /\ RAt \in {"answer1", "answer2", "answer3"} => line[RCall] = "talking"
    /\ InOffer => line[RCall] \in {"ringing", "waiting"}
    /\ RAt \in {"end1", "end2"} => line[RCall] = "over"
    /\ RAt = "end1" => \/ RWhy \in {"RemoteBye", "Rejected"} /\ NobodyActive
                       \/ RWhy = "RemoteCancel"
                       \/ RWhy \in LocalReasons /\ May("localHangup")
    /\ RAt \in {"reg1", "reg2"} => Free \/ May("relogin")
    /\ \A c \in Calls :
         /\ line[c] \in {"placed", "invited", "early", "informed"} => c \in placed
         /\ line[c] \in {"new", "ringing", "accepting", "waiting"} => c \notin placed
    /\ May("callWaiting") \/ \A c \in Calls : line[c] # "waiting"
    /\ May("callWaiting") \/ RAt \notin {"end1", "end2"} \/ NobodyActive

Reported(msg, c) == \E i \in DOMAIN reports : reports[i].msg = msg /\ reports[i].call = c

\* The events of one call are an answer, then a summary.
InOrder ==
    /\ \A i \in DOMAIN reports : reports[i].msg \in {"CALL_ANSWERED", "CALL_SUMMARY"}
    /\ \A i, j \in DOMAIN reports :
           i < j /\ reports[i].call = reports[j].call =>
               reports[i].msg = "CALL_ANSWERED" /\ reports[j].msg = "CALL_SUMMARY"

\* A summary comes with the end of the call, an answer event with its answer.
SummaryPlaced == \A c \in Calls : Reported("CALL_SUMMARY", c) => line[c] = "over" /\ ~(RAt = "end1" /\ RCall = c)

AnswerPlaced ==
    \A c \in Calls : Reported("CALL_ANSWERED", c) =>
        \/ line[c] = "over"
        \/ line[c] = "talking" /\ ~(RAt = "answer1" /\ RCall = c)
        \/ WAt = "take3" /\ WCall = c

SummaryInv == InOrder /\ SummaryPlaced /\ AnswerPlaced

\* A timer ticks for a call that talks, or is about to get its summary, which
\* nothing can keep from stopTimer: the statistics and the UUID are there.
TimerInv ==
    /\ running \subseteq {timer}
    /\ running # {} =>
         /\ signallingStats # None
         /\ xcallid # None \/ RAt = "answer2"
         /\ \/ \E d \in Calls : line[d] = "talking" /\ ~(RAt = "answer1" /\ RCall = d)
            \/ WAt = "take3"
            \/ RAt = "end1" /\ RWhy = "RemoteBye"
    /\ \A c \in Calls : line[c] \in {"ringing", "accepting"} =>
           xcallid # None \/ (RAt = "offer1" /\ RCall = c)

\* Calls whose early media or whose offer has come, or has begun to.
Heard(c) == line[c] \in {"informed", "talking", "ringing", "accepting"}

\* An outgoing call that has statistics from setCallState(Calling) only.
BeforeEarly(c) ==
    \/ line[c] \in {"invited", "early"}
    \/ RAt \in {"info", "early"} /\ RCall = c /\ line[c] = "informed"

\* The info of call c is still to come up, and the same for its statistics.
AwaitsInfo(c)  == RAt \in {"info", "offer1"} /\ RCall = c
AwaitsEarly(c) == (RAt \in {"info", "early"} \/ InOffer) /\ RCall = c

NullInv ==
    /\ npe \subseteq {"hangup"}
    /\ \A c \in Calls : Heard(c) => (xcallid # None \/ AwaitsInfo(c)) /\ (signallingStats # None \/ AwaitsEarly(c))
    /\ \A c \in Calls : BeforeEarly(c) => isIncomingCall \/ (WAt = "call3" /\ WCall = c) \/ signallingStats # None
    /\ RAt = "early" /\ line[RCall] = "ringing" => isIncomingCall
    /\ RAt = "end1" => xcallid # None /\ signallingStats # None
    /\ \A c \in Calls : line[c] = "talking" => (RAt = "answer1" /\ RCall = c) \/ Reported("CALL_ANSWERED", c)
    /\ WAt = "take3" => Reported("CALL_ANSWERED", WCall)

\* The statistics bear no other call's UUID.
OwnStats(c) == signallingStats = None \/ signallingStats.xcallUUID \in {c, None}

\* Call c is the one that the next event is about.
Subject(c) == Heard(c) \/ (RAt = "end1" /\ RCall = c)

OwnUuids ==
    \A c \in Calls : Subject(c) => (xcallid \in {c, None} \/ AwaitsInfo(c)) /\ (OwnStats(c) \/ AwaitsEarly(c))

OwnEarly == \A c \in Calls : BeforeEarly(c) => isIncomingCall \/ (WAt = "call3" /\ WCall = c) \/ OwnStats(c)

\* A received call is marked as incoming.
OwnSide == \A c \in Calls \ placed : Subject(c) => isIncomingCall \/ (InOffer /\ RCall = c)

OwnReports ==
    \A i \in DOMAIN reports :
        /\ reports[i].uuid \in {reports[i].call, None}
        /\ reports[i].call \notin placed => reports[i].incoming

OwnInv == OwnUuids /\ OwnEarly /\ OwnSide /\ OwnReports

-----------------------------------------------------------------------------
(***************************************************************************)
(* Types, in every environment.                                            *)
(***************************************************************************)
Stats == [xcallUUID : Calls \cup {None}, callUUID : BOOLEAN]

Events == [msg : {"CALL_ANSWERED", "CALL_SUMMARY"}, call : Calls, uuid : Calls \cup {None}, incoming : BOOLEAN]

\* What setCallState and setCallInfo keep, and the events so far.
DataOK ==
    /\ xcallid \in Calls \cup {None} /\ timer \in Calls \cup {None} /\ isIncomingCall \in BOOLEAN
    /\ signallingStats \in Stats \cup {None}
    /\ running \subseteq Calls /\ reports \in Seq(Events)
    /\ npe \subseteq {"hangup", "answer", "summary", "early"}

\* The rest of the state; R owns the monitor only at the head of setRemoteSDP.
StateOK ==
    /\ pc \in Calls \cup {None} /\ didSentInvite \in BOOLEAN /\ inSetRemoteSDP \in BOOLEAN
    /\ line \in [Calls -> {"new", "placed", "invited", "early", "informed", "talking",
                           "ringing", "accepting", "waiting", "over"}]
    /\ placed \subseteq Calls /\ liberties \in Environments
    /\ inSetRemoteSDP => R # <<>> /\ Head(R).do = "sdp"

LEMMA Appended ==
    ASSUME NEW S, NEW s \in Seq(S), NEW e \in S
    PROVE  /\ Append(s, e) \in Seq(S)
           /\ DOMAIN Append(s, e) = DOMAIN s \cup {Len(s) + 1}
           /\ \A i \in DOMAIN s : Append(s, e)[i] = s[i] /\ i < Len(s) + 1 /\ i \in Nat
           /\ Append(s, e)[Len(s) + 1] = e
<1> DEFINE n == Len(s)
           t == Append(s, e)
<1>1. t \in Seq(S) /\ Len(t) = n + 1 /\ t[n + 1] = e /\ \A i \in 1 .. n : t[i] = s[i]
  BY AppendProperties
<1>2. n \in Nat /\ DOMAIN s = 1 .. n /\ DOMAIN t = 1 .. Len(t)
  BY <1>1, LenProperties
<1> HIDE DEF n, t
<1>3. DOMAIN t = DOMAIN s \cup {n + 1} /\ \A i \in DOMAIN s : t[i] = s[i] /\ i < n + 1 /\ i \in Nat
  BY <1>1, <1>2
<1> QED
  BY <1>1, <1>3 DEF n, t

LEMMA NoneIsNoStats == None \notin Stats
BY ControllerNoneAssumption DEF Stats

\* setXCallUUID, where it does not throw
LEMMA NamedStats ==
    ASSUME DataOK, signallingStats # None
    PROVE  /\ signallingStats \in Stats /\ WithXCallUUID \in Stats
           /\ WithXCallUUID.callUUID = signallingStats.callUUID
           /\ WithXCallUUID.xcallUUID = IF signallingStats.xcallUUID = None THEN xcallid ELSE signallingStats.xcallUUID
           /\ ~XCallUUIDFails => WithXCallUUID.xcallUUID # None
           /\ [signallingStats EXCEPT !.callUUID = TRUE] \in Stats
           /\ [WithXCallUUID EXCEPT !.callUUID = TRUE] \in Stats
           /\ [signallingStats EXCEPT !.callUUID = TRUE].xcallUUID = signallingStats.xcallUUID
           /\ [WithXCallUUID EXCEPT !.callUUID = TRUE].xcallUUID = WithXCallUUID.xcallUUID
BY DEF DataOK, WithXCallUUID, XCallUUIDFails, Stats

LEMMA EventsAre ==
    ASSUME NEW msg \in {"CALL_ANSWERED", "CALL_SUMMARY"}, NEW c \in Calls, NEW stats \in Stats, NEW incoming \in BOOLEAN,
           reports \in Seq(Events), Report(msg, c, stats, incoming)
    PROVE  /\ [msg |-> msg, call |-> c, uuid |-> stats.xcallUUID, incoming |-> incoming] \in Events
           /\ reports' = Append(reports, [msg |-> msg, call |-> c, uuid |-> stats.xcallUUID, incoming |-> incoming])
           /\ reports' \in Seq(Events)
<1> DEFINE e == [msg |-> msg, call |-> c, uuid |-> stats.xcallUUID, incoming |-> incoming]
<1>1. e \in Events
  BY DEF Events, Stats
<1>2. reports' = Append(reports, e)
  BY DEF Report
<1> HIDE DEF e
<1>3. reports' \in Seq(Events)
  BY <1>1, <1>2, Appended, Zenon
<1> QED
  BY <1>1, <1>2, <1>3 DEF e

\* The two events that setCallState reports, as the events they add
Answered(c, e) == e = [msg |-> "CALL_ANSWERED", call |-> c, uuid |-> WithXCallUUID.xcallUUID, incoming |-> isIncomingCall]

LEMMA AcceptedIs ==
    ASSUME DataOK, NEW c \in Calls, Accepted(c)
    PROVE  \/ /\ signallingStats = None \/ XCallUUIDFails
              /\ npe' = npe \cup {"answer"} /\ UNCHANGED <<signallingStats, timer, running, reports>>
           \/ /\ signallingStats # None /\ ~XCallUUIDFails
              /\ signallingStats' = WithXCallUUID /\ WithXCallUUID \in Stats
              /\ timer' = c /\ running' = running \cup {c} /\ npe' = npe
              /\ reports' \in Seq(Events)
              /\ \E e \in Events : Answered(c, e) /\ reports' = Append(reports, e)
<1>1. CASE signallingStats = None \/ XCallUUIDFails
  BY <1>1 DEF Accepted, Npe
<1>2. CASE ~(signallingStats = None \/ XCallUUIDFails)
  <2>1. /\ signallingStats' = WithXCallUUID /\ Report("CALL_ANSWERED", c, signallingStats', isIncomingCall)
        /\ timer' = c /\ running' = running \cup {c} /\ npe' = npe
    BY <1>2 DEF Accepted
  <2>2. Report("CALL_ANSWERED", c, WithXCallUUID, isIncomingCall)
    BY <2>1, Zenon
  <2>3. WithXCallUUID \in Stats
    BY <1>2, NamedStats
  <2>4. reports \in Seq(Events) /\ isIncomingCall \in BOOLEAN
    BY DEF DataOK
  <2> DEFINE e == [msg |-> "CALL_ANSWERED", call |-> c, uuid |-> WithXCallUUID.xcallUUID, incoming |-> isIncomingCall]
  <2>5. e \in Events /\ reports' = Append(reports, e) /\ reports' \in Seq(Events)
    BY <2>2, <2>3, <2>4, EventsAre
  <2>6. Answered(c, e)
    BY DEF Answered
  <2> HIDE DEF e
  <2> QED
    BY <1>2, <2>1, <2>3, <2>5, <2>6
<1> QED
  BY <1>1, <1>2

SummaryOf(c, stats, e) == e = [msg |-> "CALL_SUMMARY", call |-> c, uuid |-> stats.xcallUUID, incoming |-> isIncomingCall]

LEMMA SummarisedIs ==
    ASSUME DataOK, NEW c \in Calls, NEW setsX \in BOOLEAN, NEW clean \in BOOLEAN, Summarised(c, setsX, clean)
    PROVE  \/ /\ signallingStats = None \/ (setsX /\ XCallUUIDFails) \/ CallUUIDFails
              /\ npe' = npe \cup {"summary"} /\ UNCHANGED <<xcallid, signallingStats, timer, running, reports>>
           \/ /\ signallingStats # None /\ ~(setsX /\ XCallUUIDFails)
              /\ npe' = npe /\ timer' = timer /\ running' = running \ {timer}
              /\ xcallid' = IF clean THEN None ELSE xcallid
              /\ reports' \in Seq(Events)
              /\ \E stats \in {signallingStats, WithXCallUUID}, e \in Events :
                    /\ SummaryOf(c, stats, e) /\ reports' = Append(reports, e)
                    /\ setsX => stats = WithXCallUUID
                    /\ \/ clean /\ signallingStats' = None
                       \/ /\ ~clean /\ signallingStats' \in Stats
                          /\ signallingStats'.xcallUUID = stats.xcallUUID
<1>1. CASE signallingStats = None \/ (setsX /\ XCallUUIDFails) \/ CallUUIDFails
  BY <1>1 DEF Summarised, Npe
<1>2. CASE ~(signallingStats = None \/ (setsX /\ XCallUUIDFails) \/ CallUUIDFails)
  <2> DEFINE stats == IF setsX THEN WithXCallUUID ELSE signallingStats
             e == [msg |-> "CALL_SUMMARY", call |-> c, uuid |-> stats.xcallUUID, incoming |-> isIncomingCall]
  <2>1. /\ Report("CALL_SUMMARY", c, stats, isIncomingCall)
        /\ signallingStats' = IF clean THEN None ELSE [stats EXCEPT !.callUUID = TRUE]
        /\ xcallid' = IF clean THEN None ELSE xcallid
        /\ npe' = npe /\ timer' = timer /\ running' = running \ {timer}
    BY <1>2 DEF Summarised, StopTimer
  <2>2. /\ stats \in Stats /\ stats \in {signallingStats, WithXCallUUID} /\ (setsX => stats = WithXCallUUID)
        /\ [stats EXCEPT !.callUUID = TRUE] \in Stats
        /\ [stats EXCEPT !.callUUID = TRUE].xcallUUID = stats.xcallUUID
    <3>1. CASE setsX
      BY <1>2, <3>1, NamedStats
    <3>2. CASE ~setsX
      BY <1>2, <3>2, NamedStats
    <3> QED
      BY <3>1, <3>2
  <2>3. reports \in Seq(Events) /\ isIncomingCall \in BOOLEAN
    BY DEF DataOK
  <2> HIDE DEF stats
  <2>4. e \in Events /\ reports' = Append(reports, e) /\ reports' \in Seq(Events)
    BY <2>1, <2>2, <2>3, EventsAre
  <2>5. SummaryOf(c, stats, e)
    BY DEF SummaryOf
  <2> HIDE DEF e
  <2>6. \/ clean /\ signallingStats' = None
        \/ ~clean /\ signallingStats' \in Stats /\ signallingStats'.xcallUUID = stats.xcallUUID
    BY <2>1, <2>2
  <2>7. \E s \in {signallingStats, WithXCallUUID}, f \in Events :
                    /\ SummaryOf(c, s, f) /\ reports' = Append(reports, f)
                    /\ setsX => s = WithXCallUUID
                    /\ \/ clean /\ signallingStats' = None
                       \/ /\ ~clean /\ signallingStats' \in Stats
                          /\ signallingStats'.xcallUUID = s.xcallUUID
    BY <2>2, <2>4, <2>5, <2>6, Zenon
  <2> QED
    BY <1>2, <2>1, <2>4, <2>7, Zenon
<1> QED
  BY <1>1, <1>2

\* What a step may do to the data, in any environment.
DataStep ==
    \/ UNCHANGED dataVars
    \/ isIncomingCall' = TRUE /\ UNCHANGED <<xcallid, signallingStats, timer, running, reports, npe>>
    \/ timer' = None /\ UNCHANGED <<isIncomingCall, xcallid, signallingStats, running, reports, npe>>
    \/ Npe("hangup") /\ UNCHANGED <<isIncomingCall, xcallid>>
    \/ /\ xcallid' \in Calls \cup {None}
       /\ UNCHANGED <<isIncomingCall, signallingStats, timer, running, reports, npe>>
    \/ (OnEarly \/ OnCalling \/ Unaffected) /\ UNCHANGED isIncomingCall
    \/ \E c \in Calls : Accepted(c) /\ UNCHANGED <<isIncomingCall, xcallid>>
    \/ \E c \in Calls : \E why : OnEnd(c, why) /\ UNCHANGED isIncomingCall

LEMMA DataSteps ==
    ASSUME Shape, isIncomingCall \in BOOLEAN, [Next]_vars
    PROVE  DataStep
<1>1. ASSUME NEW t \in {"R", "W"}, ThreadStep(t) PROVE DataStep
  <2>1. CASE SetCallState(t)
    <3>1. UNCHANGED isIncomingCall
      BY <2>1 DEF SetCallState
    <3>2. CASE t = "R"
      <4>1. SetCallState("R") /\ ThreadStep("R")
        BY <1>1, <2>1, <3>2, Zenon
      <4>2. RDone
        <5>1. R # <<>> /\ Done("R")
          BY <4>1, Zenon DEF SetCallState, Upcall, Busy, R
        <5>2. R' = Tail(R) /\ R \in Seq(Jobs) /\ liberties' = liberties
          BY <4>1, <5>1, Queues, Zenon DEF Shape, R, SetCallState
        <5> QED
          BY <5>1, <5>2, RDoneKinds, Zenon DEF Shape
      <4> QED
        BY <3>1, <4>1, <4>2, RStateBranch, Zenon DEF DataStep
    <3>3. CASE t = "W"
      <4>1. SetCallState("W") /\ ThreadStep("W")
        BY <1>1, <2>1, <3>3, Zenon
      <4>2. WDone
        BY <4>1, WThreadKinds, Zenon
      <4>3. \/ IF isIncomingCall THEN Unaffected ELSE OnCalling
            \/ WCall \in Calls /\ Accepted(WCall) /\ UNCHANGED xcallid
        BY <4>1, <4>2, WStateBranch, Zenon
      <4>4. ASSUME IF isIncomingCall THEN Unaffected ELSE OnCalling PROVE Unaffected \/ OnCalling
        BY <4>4
      <4> QED
        BY <3>1, <4>3, <4>4, Zenon DEF DataStep
    <3> QED
      BY <3>2, <3>3
  <2>2. CASE SetCallInfo(t)
    <3>1. Head(todo[t]).do = "info" /\ todo[t] # <<>> /\ xcallid' = Head(todo[t]).arg
      BY <2>2 DEF SetCallInfo, Upcall, Busy, Next_
    <3>2. CASE t = "R"
      <4>1. R # <<>> /\ Head(R).do = "info" /\ xcallid' = Head(R).arg
        BY <3>1, <3>2, Zenon DEF R
      <4>2. xcallid' \in Calls \cup {None}
        BY <4>1, RHead DEF Shape
      <4> QED
        BY <2>2, <4>2 DEF SetCallInfo, DataStep
    <3>3. CASE t = "W"
      <4>1. W # <<>> /\ Head(W).do = "info"
        BY <3>1, <3>3, Zenon DEF W
      <4> QED
        BY <4>1, WHead DEF Shape
    <3> QED
      BY <3>2, <3>3
  <2>3. CASE OnIncomingCall(t)
    BY <2>3, Zenon DEF OnIncomingCall, DataStep
  <2>4. CASE OnTerminateCall(t)
    BY <2>4 DEF OnTerminateCall, DataStep
  <2>5. CASE OnRegistration(t)
    BY <2>5, Zenon DEF OnRegistration, DataStep
  <2>6. CASE OnLog(t) \/ SetRemoteSDP(t) \/ SipMessageOut(t)
    <3>1. UNCHANGED dataVars
      BY <2>6 DEF OnLog, SetRemoteSDP, SipMessageOut, javaVars, dataVars
    <3> QED
      BY <3>1 DEF DataStep
  <2>7. CASE SetRemoteSDPReturns(t)
    <3>1. UNCHANGED dataVars
      BY <2>7 DEF SetRemoteSDPReturns, dataVars
    <3> QED
      BY <3>1 DEF DataStep
  <2> QED
    BY <1>1, <2>1, <2>2, <2>3, <2>4, <2>5, <2>6, <2>7, Zenon DEF ThreadStep
<1>2. ASSUME (\E c \in Calls : CallEvent(c)) \/ OnSuccess \/ Hangup \/ UNCHANGED vars PROVE DataStep
  <2>1. UNCHANGED dataVars
    BY <1>2 DEF CallEvent, MakeCall, DoAnswer, OnIceCandidate, OnNewSession, OnEarlyMedia, OnAnswer, OnOffer,
           OnTerminated, OnSuccess, Hangup, vars, javaVars, dataVars
  <2> QED
    BY <2>1 DEF DataStep
<1> QED
  BY <1>1, <1>2 DEF Next

LEMMA NewIs == NewStats \in Stats /\ NewStats # None /\ NewStats.xcallUUID = None
<1>1. NewStats \in Stats /\ NewStats.xcallUUID = None
  BY DEF NewStats, Stats
<1> QED
  BY <1>1, NoneIsNoStats

\* What setCallState does at the end of a call, as one of four effects.
LEMMA EndIs ==
    ASSUME DataOK, NEW c \in Calls, NEW why, OnEnd(c, why)
    PROVE  \/ UNCHANGED <<signallingStats, xcallid, timer, running, reports, npe>>
           \/ /\ why \in Failures /\ CleanupCallData
           \/ /\ why \in {"RemoteBye", "RemoteCancel"} \cup Failures
              /\ signallingStats = None \/ xcallid = None
              /\ npe' = npe \cup {"summary"} /\ UNCHANGED <<xcallid, signallingStats, timer, running, reports>>
           \/ /\ why \in {"RemoteBye", "RemoteCancel"} \cup Failures
              /\ signallingStats # None /\ npe' = npe /\ timer' = timer /\ running' = running \ {timer}
              /\ xcallid' \in {None, xcallid} /\ (why # "RemoteBye" => xcallid' = xcallid)
              /\ reports' \in Seq(Events)
              /\ \E stats \in {signallingStats, WithXCallUUID}, e \in Events :
                    /\ SummaryOf(c, stats, e) /\ reports' = Append(reports, e)
                    /\ \/ signallingStats' = None /\ why = "RemoteBye"
                       \/ signallingStats' \in Stats /\ signallingStats'.xcallUUID = stats.xcallUUID
<1>1. CASE why = "RemoteBye" /\ Summarised(c, isIncomingCall, TRUE)
  <2>1. isIncomingCall \in BOOLEAN
    BY DEF DataOK
  <2> QED
    BY <1>1, <2>1, SummarisedIs DEF XCallUUIDFails, CallUUIDFails
<1>2. CASE why \in {"RemoteCancel"} \cup Failures /\ \E setsX \in BOOLEAN : Summarised(c, setsX, FALSE)
  <2>1. why \in {"RemoteBye", "RemoteCancel"} \cup Failures /\ why # "RemoteBye"
    BY <1>2 DEF Failures, LocalReasons
  <2> QED
    BY <1>2, <2>1, SummarisedIs DEF XCallUUIDFails, CallUUIDFails
<1>3. CASE why \in Failures /\ (CleanupCallData \/ Unaffected)
  BY <1>3 DEF Unaffected
<1> QED
  BY <1>1, <1>2, <1>3 DEF OnEnd

LEMMA DataKept == ASSUME DataOK, DataStep PROVE DataOK'
<1>1. CASE UNCHANGED dataVars
  BY <1>1, Zenon DEF DataOK, dataVars
<1>2. CASE isIncomingCall' = TRUE /\ UNCHANGED <<xcallid, signallingStats, timer, running, reports, npe>>
  BY <1>2 DEF DataOK
<1>3. CASE timer' = None /\ UNCHANGED <<isIncomingCall, xcallid, signallingStats, running, reports, npe>>
  BY <1>3 DEF DataOK
<1>4. CASE Npe("hangup") /\ UNCHANGED <<isIncomingCall, xcallid>>
  BY <1>4 DEF DataOK, Npe
<1>5. CASE /\ xcallid' \in Calls \cup {None}
           /\ UNCHANGED <<isIncomingCall, signallingStats, timer, running, reports, npe>>
  BY <1>5 DEF DataOK
<1>6. CASE (OnEarly \/ OnCalling \/ Unaffected) /\ UNCHANGED isIncomingCall
  BY <1>6, NewIs DEF DataOK, OnEarly, OnCalling, Unaffected, Npe
<1>7. ASSUME NEW c \in Calls, Accepted(c), UNCHANGED <<isIncomingCall, xcallid>> PROVE DataOK'
  BY <1>7, AcceptedIs DEF DataOK
<1>8. ASSUME NEW c \in Calls, NEW why, OnEnd(c, why), UNCHANGED isIncomingCall PROVE DataOK'
  BY <1>8, EndIs DEF DataOK, CleanupCallData
<1> QED
  BY <1>1, <1>2, <1>3, <1>4, <1>5, <1>6, <1>7, <1>8, Zenon DEF DataStep

LEMMA StateKept ==
    ASSUME Shape, StateOK, isIncomingCall \in BOOLEAN, [Next]_vars
    PROVE  StateOK'
<1> DEFINE Phases == {"new", "placed", "invited", "early", "informed", "talking",
                      "ringing", "accepting", "waiting", "over"}
<1>1. /\ pc \in Calls \cup {None} /\ didSentInvite \in BOOLEAN /\ inSetRemoteSDP \in BOOLEAN
      /\ line \in [Calls -> Phases] /\ placed \subseteq Calls
  BY DEF StateOK
<1>2. liberties' \in Environments
  BY LibertiesFixed DEF StateOK
<1>3. inSetRemoteSDP' \in BOOLEAN
  BY <1>1 DEF Next, vars, ThreadStep, CallEvent, SetCallState, SetCallInfo, OnIncomingCall, OnTerminateCall,
         OnRegistration, OnLog, SetRemoteSDP, SetRemoteSDPReturns, SipMessageOut, MakeCall, DoAnswer,
         OnIceCandidate, OnNewSession, OnEarlyMedia, OnAnswer, OnOffer, OnTerminated, OnSuccess, Hangup, Starts
<1>4. didSentInvite' \in BOOLEAN
  BY <1>1 DEF Next, vars, javaVars, ThreadStep, CallEvent, SetCallState, SetCallInfo, OnIncomingCall, OnTerminateCall,
         OnRegistration, OnLog, SetRemoteSDP, SetRemoteSDPReturns, SipMessageOut, MakeCall, DoAnswer,
         OnIceCandidate, OnNewSession, OnEarlyMedia, OnAnswer, OnOffer, OnTerminated, OnSuccess, Hangup
<1>5. pc' \in Calls \cup {None}
  <2>1. ASSUME NEW t \in {"R", "W"}, SetRemoteSDPReturns(t) PROVE pc' \in Calls \cup {None}
    <3>1. pc' \in {pc, Head(todo[t]).call} /\ todo[t] # <<>> /\ Head(todo[t]).do = "sdp"
      BY <2>1 DEF SetRemoteSDPReturns, Next_, Busy
    <3>2. CASE t = "R"
      <4>1. pc' \in {pc, Head(R).call} /\ R # <<>> /\ Head(R).do = "sdp"
        BY <3>1, <3>2, Zenon DEF R
      <4> QED
        BY <1>1, <4>1, RHead DEF Shape
    <3>3. CASE t = "W"
      <4>1. W # <<>> /\ Head(W).do = "sdp"
        BY <3>1, <3>3, Zenon DEF W
      <4> QED
        BY <4>1, WHead DEF Shape
    <3> QED
      BY <3>2, <3>3
  <2> QED
    BY <1>1, <2>1 DEF Next, vars, javaVars, ThreadStep, CallEvent, SetCallState, SetCallInfo, OnIncomingCall, OnTerminateCall,
         OnRegistration, OnLog, SetRemoteSDP, SipMessageOut, MakeCall, DoAnswer,
         OnIceCandidate, OnNewSession, OnEarlyMedia, OnAnswer, OnOffer, OnTerminated, OnSuccess, Hangup
<1>6. placed' \subseteq Calls
  BY <1>1 DEF Next, vars, javaVars, ThreadStep, CallEvent, SetCallState, SetCallInfo, OnIncomingCall, OnTerminateCall,
         OnRegistration, OnLog, SetRemoteSDP, SetRemoteSDPReturns, SipMessageOut, MakeCall, DoAnswer,
         OnIceCandidate, OnNewSession, OnEarlyMedia, OnAnswer, OnOffer, OnTerminated, OnSuccess, Hangup
<1>7. line' \in [Calls -> Phases]
  <2>1. ASSUME NEW c \in Calls, CallEvent(c) PROVE line' \in [Calls -> Phases]
    BY <1>1, <2>1 DEF CallEvent, MakeCall, DoAnswer,
         OnIceCandidate, OnNewSession, OnEarlyMedia, OnAnswer, OnOffer, OnTerminated, Moves
  <2>2. ASSUME NEW t \in {"R", "W"}, ThreadStep(t) PROVE line' \in [Calls -> Phases]
    BY <1>1, <2>2 DEF ThreadStep, SetCallState, SetCallInfo, OnIncomingCall, OnTerminateCall,
         OnRegistration, OnLog, SetRemoteSDP, SetRemoteSDPReturns, SipMessageOut
  <2> QED
    BY <1>1, <2>1, <2>2 DEF Next, vars, OnSuccess, Hangup
<1>8. inSetRemoteSDP' => R' # <<>> /\ Head(R').do = "sdp"
  <2>1. CASE R' = R /\ UNCHANGED inSetRemoteSDP
    BY <2>1, Zenon DEF StateOK
  <2>2. CASE ThreadStep("R")
    <3>1. CASE SetRemoteSDP("R")
      BY <3>1, Zenon DEF SetRemoteSDP, Upcall, Busy, Next_, R
    <3>2. CASE SetRemoteSDPReturns("R")
      BY <3>2 DEF SetRemoteSDPReturns
    <3>3. CASE ~SetRemoteSDP("R") /\ ~SetRemoteSDPReturns("R")
      <4>1. ~SipMessageOut("R")
        <5>1. ASSUME SipMessageOut("R") PROVE FALSE
          <6>1. R # <<>> /\ Head(R).do \in {"invite", "accept"}
            BY <5>1, Zenon DEF SipMessageOut, Busy, Next_, R
          <6> QED
            BY <6>1, RHead DEF Shape
        <5> QED
          BY <5>1
      <4>2. ~inSetRemoteSDP /\ UNCHANGED inSetRemoteSDP
        BY <2>2, <3>3, <4>1, Zenon DEF ThreadStep, SetCallState, SetCallInfo, OnIncomingCall, OnTerminateCall,
             OnRegistration, OnLog, Upcall
      <4> QED
        BY <4>2, Zenon
    <3> QED
      BY <3>1, <3>2, <3>3
  <2>3. CASE ThreadStep("W")
    BY <2>1, <2>3, WThreadKinds, Zenon
  <2>4. ASSUME NEW c \in Calls, CallEvent(c) PROVE inSetRemoteSDP' => R' # <<>> /\ Head(R').do = "sdp"
    <3>1. CASE MakeCall(c) \/ DoAnswer(c) \/ OnIceCandidate(c)
      BY <2>1, <3>1, WStartsKinds, Zenon
    <3>2. CASE OnNewSession(c) \/ OnEarlyMedia(c) \/ OnAnswer(c) \/ OnOffer(c) \/ OnTerminated(c)
      <4>1. R = <<>> /\ UNCHANGED inSetRemoteSDP
        BY <3>2, RStartsKinds, Zenon
      <4> QED
        BY <4>1, Zenon DEF StateOK
    <3> QED
      BY <2>4, <3>1, <3>2, Zenon DEF CallEvent
  <2>5. CASE OnSuccess
    <3>1. R = <<>> /\ UNCHANGED inSetRemoteSDP
      BY <2>5, RegistrationKinds, Zenon
    <3> QED
      BY <3>1, Zenon DEF StateOK
  <2>6. CASE Hangup \/ UNCHANGED vars
    BY <2>1, <2>6, HangupKinds, Zenon
  <2>7. \/ ThreadStep("R") \/ ThreadStep("W") \/ (\E c \in Calls : CallEvent(c)) \/ OnSuccess
        \/ Hangup \/ UNCHANGED vars
    BY DEF Next
  <2> QED
    BY <2>2, <2>3, <2>4, <2>5, <2>6, <2>7, Zenon
<1> QED
  BY <1>2, <1>3, <1>4, <1>5, <1>6, <1>7, <1>8 DEF StateOK

Typed == Shape /\ DataOK /\ StateOK

LEMMA InitTyped == ASSUME Init PROVE Typed /\ OneBusy /\ Idle
<1>1. R = <<>> /\ W = <<>> /\ todo \in [{"R", "W"} -> Seq(Jobs)]
  BY DEF Init, R, W
<1>2. Shape
  BY <1>1 DEF Shape, RShape, WShape
<1>3. DataOK
  <2>1. reports \in Seq(Events)
    BY DEF Init
  <2> QED
    BY <2>1 DEF Init, DataOK
<1>4. StateOK
  BY DEF Init, StateOK
<1>5. OneBusy /\ Idle
  BY <1>1, IdleIs DEF OneBusy, Idle
<1> QED
  BY <1>2, <1>3, <1>4, <1>5 DEF Typed

LEMMA StepTyped == ASSUME Typed, [Next]_vars PROVE Typed'
<1>1. isIncomingCall \in BOOLEAN
  BY DEF Typed, DataOK
<1> QED
  BY <1>1, FlatStep, DataSteps, DataKept, StateKept DEF Typed

LEMMA AlwaysTyped == Spec => []Typed
<1>1. Init => Typed
  BY InitTyped
<1>2. Typed /\ [Next]_vars => Typed'
  BY StepTyped
<1> QED
  BY <1>1, <1>2, PTL DEF Spec

\* TypeOK of SipController, whatever calls, users, peers and threads do: the
\* queues of both threads hold only the upcalls that rtcsip_jni.cpp makes, and the
\* receiver owns the monitor of the controller inside setRemoteSDP alone.
THEOREM TypeCorrect == Spec => []TypeOK
<1>1. Typed => TypeOK
  <2> SUFFICES ASSUME Typed PROVE TypeOK
    OBVIOUS
  <2>1. \A t \in {"R", "W"} : \A i \in DOMAIN todo[t] : todo[t][i] \in Jobs
    BY DEF Typed, Shape
  <2>2. inSetRemoteSDP => Busy("R") /\ Next_("R").do = "sdp"
    BY Zenon DEF Typed, StateOK, R, Busy, Next_
  <2> QED
    BY <2>1, <2>2 DEF Typed, DataOK, StateOK, Stats, TypeOK
<1> QED
  BY <1>1, AlwaysTyped, PTL

-----------------------------------------------------------------------------
(***************************************************************************)
(* One thread at a time: how far the calls are.                            *)
(***************************************************************************)
LEMMA EndsAre ==
    ASSUME NEW c \in Calls, NEW end \in Ends(c)
    PROVE  /\ line[c] \notin {"new", "over", "placed"}
           /\ end[1] = "RemoteBye" => line[c] = "talking"
           /\ end[1] = "Rejected" => line[c] = "informed" \/ (line[c] \in Unheard /\ May("silent"))
           /\ end[1] = "RemoteCancel" => line[c] \in {"ringing", "accepting", "waiting"}
           /\ end[1] \in LocalReasons => May("localHangup")
           /\ line[c] \in Unheard => May("silent")
           /\ end[1] \in {"RemoteBye", "Rejected", "RemoteCancel"} \cup LocalReasons
BY DEF Ends, Unheard, LocalReasons

Phases == {"new", "placed", "invited", "early", "informed", "talking", "ringing", "accepting", "waiting", "over"}

LEMMA MovedLine ==
    ASSUME line \in [Calls -> Phases], NEW c \in Calls, NEW from, NEW to, Moves(c, from, to)
    PROVE  line'[c] = to /\ line[c] \in from /\ \A d \in Calls : d # c => line'[d] = line[d]
BY DEF Moves

LEMMA AdvancedLine ==
    ASSUME line \in [Calls -> Phases], NEW c \in Calls, NEW to, Advances(c, to), line[c] # "over"
    PROVE  line'[c] = to /\ \A d \in Calls : d # c => line'[d] = line[d]
BY DEF Advances

LEMMA LineKept ==
    ASSUME Typed, LineInv, Flat, liberties' = liberties
    PROVE  LineInv'
<1>1. line \in [Calls -> Phases] /\ placed \subseteq Calls
  BY DEF Typed, StateOK, Phases
<1>2. /\ May("callWaiting")' = May("callWaiting") /\ May("relogin")' = May("relogin")
      /\ May("localHangup")' = May("localHangup")
  BY DEF May
<1> USE DEF LineInv, Active, NobodyActive, InOffer, Free, Idle
<1>3. CASE UNCHANGED <<placeVars, dataVars, line, placed>>
  BY <1>2, <1>3 DEF placeVars
<1>4. CASE WBegins
  <2>1. PICK c \in Calls :
         \/ /\ Free /\ Moves(c, {"new"}, "placed") /\ placed' = placed \cup {c} /\ WAt' = "log"
         \/ /\ Moves(c, {"ringing"}, "accepting") /\ UNCHANGED placed /\ WAt' = "log"
         \/ /\ UNCHANGED <<line, placed>>
            /\ \/ WAt' = "log"
               \/ line[c] = "placed" /\ WAt' = "call1" /\ WCall' = c
               \/ line[c] = "accepting" /\ WAt' = "take1" /\ WCall' = c
    BY <1>4 DEF WBegins
  <2>2. RAt' = "idle" /\ Idle
    BY <1>4 DEF WBegins
  <2>3. CASE Free /\ Moves(c, {"new"}, "placed") /\ placed' = placed \cup {c} /\ WAt' = "log"
    BY <1>1, <1>2, <2>2, <2>3, MovedLine
  <2>4. CASE Moves(c, {"ringing"}, "accepting") /\ UNCHANGED placed /\ WAt' = "log"
    BY <1>1, <1>2, <2>2, <2>4, MovedLine
  <2>5. CASE /\ UNCHANGED <<line, placed>>
             /\ \/ WAt' = "log"
                \/ line[c] = "placed" /\ WAt' = "call1" /\ WCall' = c
                \/ line[c] = "accepting" /\ WAt' = "take1" /\ WCall' = c
    BY <1>1, <1>2, <2>2, <2>5
  <2> QED
    BY <2>1, <2>3, <2>4, <2>5
<1>5. ASSUME NEW c \in Calls, RBegins(c) PROVE LineInv'
  <2>1. WAt' = "idle" /\ RCall' = c /\ Idle /\ UNCHANGED placed
    BY <1>5 DEF RBegins
  <2>2. CASE RAt' = "sdp" /\ Moves(c, {"invited"}, "early")
    BY <1>1, <1>2, <2>1, <2>2, MovedLine
  <2>3. CASE RAt' = "info" /\ Moves(c, {"early", "informed"}, "informed")
    BY <1>1, <1>2, <2>1, <2>3, MovedLine
  <2>4. CASE RAt' = "answer1" /\ Moves(c, {"informed"} \cup (IF May("silent") THEN {"early"} ELSE {}), "talking")
    BY <1>1, <1>2, <2>1, <2>4, MovedLine
  <2>5. CASE RAt' = "offer1" /\ Free /\ Moves(c, {"new"}, "ringing")
    BY <1>1, <1>2, <2>1, <2>5, MovedLine
  <2>6. CASE RAt' = "offer1" /\ May("callWaiting") /\ Moves(c, {"new"}, "waiting")
    BY <1>1, <1>2, <2>1, <2>6, MovedLine
  <2>7. CASE /\ RAt' = "end1" /\ Moves(c, {line[c]}, "over")
             /\ \E end \in Ends(c) : RWhy' = end[1]
    <3>1. /\ line[c] \notin {"new", "over", "placed"}
          /\ \/ RWhy' \in {"RemoteBye", "Rejected"} /\ Active(c)
             \/ RWhy' = "RemoteCancel"
             \/ RWhy' \in LocalReasons /\ May("localHangup")
          /\ line[c] = "waiting" \/ Active(c)
      BY <2>7, EndsAre DEF Unheard
    <3> QED
      BY <1>1, <1>2, <2>1, <2>7, <3>1, MovedLine
  <2>8. CASE RAt' = "end2" /\ Moves(c, {"invited"}, "over")
    BY <1>1, <1>2, <2>1, <2>8, MovedLine
  <2> QED
    BY <1>5, <2>2, <2>3, <2>4, <2>5, <2>6, <2>7, <2>8 DEF RBegins
<1>6. CASE RegistrationBegins
  BY <1>1, <1>2, <1>6 DEF RegistrationBegins
<1>7. CASE RJob
  BY <1>1, <1>2, <1>7 DEF RJob, RGoes
<1>8. CASE WJob
  <2>1. CASE WGoes("call2", "call3") /\ Advances(WCall, "invited")
    BY <1>1, <1>2, <2>1, AdvancedLine DEF WGoes
  <2>2. CASE WGoes("take3", "idle") /\ Advances(WCall, "talking")
    BY <1>1, <1>2, <2>2, AdvancedLine DEF WGoes
  <2>3. CASE /\ UNCHANGED line
             /\ \/ WGoes("log", "idle") \/ WGoes("call1", "call2") \/ WGoes("take1", "take2")
                \/ WGoes("call3", "idle") \/ WGoes("take2", "take3")
    BY <1>1, <1>2, <2>3 DEF WGoes
  <2> QED
    BY <1>8, <2>1, <2>2, <2>3 DEF WJob
<1> QED
  BY <1>3, <1>4, <1>5, <1>6, <1>7, <1>8 DEF Flat

-----------------------------------------------------------------------------
(***************************************************************************)
(* One thread at a time: the events of a call.                             *)
(***************************************************************************)
LEMMA ReportedSame == ASSUME reports' = reports PROVE \A msg, c : Reported(msg, c)' <=> Reported(msg, c)
BY Zenon DEF Reported

LEMMA ReportedMore ==
    ASSUME DataOK, NEW e \in Events, reports' = Append(reports, e)
    PROVE  /\ \A msg, c : Reported(msg, c)' <=> (Reported(msg, c) \/ (e.msg = msg /\ e.call = c))
           /\ DOMAIN reports' = DOMAIN reports \cup {Len(reports) + 1}
           /\ \A i \in DOMAIN reports : reports'[i] = reports[i] /\ i < Len(reports) + 1 /\ i \in Nat
           /\ reports'[Len(reports) + 1] = e
           /\ Len(reports) \in Nat
<1> DEFINE n == Len(reports) + 1
<1>1. reports \in Seq(Events) /\ Len(reports) \in Nat
  BY LenProperties DEF DataOK
<1>2. /\ DOMAIN Append(reports, e) = DOMAIN reports \cup {n}
      /\ \A i \in DOMAIN reports : Append(reports, e)[i] = reports[i] /\ i < n /\ i \in Nat
      /\ Append(reports, e)[n] = e
  BY <1>1, Appended
<1> HIDE DEF n
<1>3. /\ DOMAIN reports' = DOMAIN reports \cup {n}
      /\ \A i \in DOMAIN reports : reports'[i] = reports[i] /\ i < n /\ i \in Nat
      /\ reports'[n] = e
  BY <1>2, Zenon
<1>4. ASSUME NEW msg, NEW c
      PROVE  (\E i \in DOMAIN reports' : reports'[i].msg = msg /\ reports'[i].call = c)
             <=> ((\E i \in DOMAIN reports : reports[i].msg = msg /\ reports[i].call = c)
                  \/ (e.msg = msg /\ e.call = c))
  BY <1>3
<1>5. \A msg, c : Reported(msg, c)' <=> (Reported(msg, c) \/ (e.msg = msg /\ e.call = c))
  BY <1>4, Zenon DEF Reported
<1> QED
  BY <1>1, <1>3, <1>5 DEF n

LEMMA OrderKept ==
    ASSUME DataOK, InOrder, NEW e \in Events, reports' = Append(reports, e),
           ~Reported("CALL_SUMMARY", e.call),
           e.msg = "CALL_ANSWERED" => ~Reported("CALL_ANSWERED", e.call)
    PROVE  InOrder'
<1> DEFINE n == Len(reports) + 1
<1>1. /\ DOMAIN reports' = DOMAIN reports \cup {n}
      /\ \A i \in DOMAIN reports : reports'[i] = reports[i] /\ i < n /\ i \in Nat
      /\ reports'[n] = e /\ n \in Nat
  BY ReportedMore
<1>2. e.msg \in {"CALL_ANSWERED", "CALL_SUMMARY"}
  BY DEF Events
<1> HIDE DEF n
<1>3. \A i \in DOMAIN reports' : reports'[i].msg \in {"CALL_ANSWERED", "CALL_SUMMARY"}
  BY <1>1, <1>2 DEF InOrder
<1>4. ASSUME NEW i \in DOMAIN reports', NEW j \in DOMAIN reports', i < j, reports'[i].call = reports'[j].call
      PROVE  reports'[i].msg = "CALL_ANSWERED" /\ reports'[j].msg = "CALL_SUMMARY"
  <2>1. CASE j # n
    <3>1. i \in DOMAIN reports /\ j \in DOMAIN reports
      BY <1>1, <1>4, <2>1
    <3> QED
      BY <1>1, <1>4, <3>1 DEF InOrder
  <2>2. CASE j = n
    <3>1. i \in DOMAIN reports /\ reports'[i] = reports[i] /\ reports'[j] = e
      BY <1>1, <1>4, <2>2
    <3>2. reports[i].call = e.call /\ reports[i].msg \in {"CALL_ANSWERED", "CALL_SUMMARY"}
      BY <1>4, <3>1 DEF InOrder
    <3>3. reports[i].msg = "CALL_ANSWERED"
      BY <3>1, <3>2 DEF Reported
    <3>4. Reported("CALL_ANSWERED", e.call)
      BY <3>1, <3>2, <3>3 DEF Reported
    <3> QED
      BY <1>2, <3>1, <3>3, <3>4
  <2> QED
    BY <2>1, <2>2
<1>5. \A i, j \in DOMAIN reports' :
           i < j /\ reports'[i].call = reports'[j].call =>
               reports'[i].msg = "CALL_ANSWERED" /\ reports'[j].msg = "CALL_SUMMARY"
  BY <1>4
<1> QED
  BY <1>3, <1>5, Zenon DEF InOrder

LEMMA SummaryKept ==
    ASSUME Typed, LineInv, SummaryInv, Flat
    PROVE  SummaryInv'
<1>1. line \in [Calls -> Phases] /\ DataOK
  BY DEF Typed, StateOK, Phases
<1> USE DEF SummaryInv
\* Steps that report nothing
<1>2. ASSUME reports' = reports PROVE InOrder' /\ (\A msg, c : Reported(msg, c)' <=> Reported(msg, c))
  BY <1>2, ReportedSame, Zenon DEF InOrder
<1>3. CASE UNCHANGED <<placeVars, dataVars, line, placed>>
  <2>1. reports' = reports /\ line' = line /\ RAt' = RAt /\ RCall' = RCall /\ WAt' = WAt /\ WCall' = WCall
    BY <1>3 DEF placeVars, dataVars
  <2>2. SummaryPlaced'
    BY <1>2, <2>1 DEF SummaryPlaced
  <2>3. AnswerPlaced'
    BY <1>2, <2>1 DEF AnswerPlaced
  <2> QED
    BY <1>2, <2>1, <2>2, <2>3
<1>4. CASE WBegins
  <2>1. /\ reports' = reports /\ RAt' = "idle" /\ Idle
        /\ \A d \in Calls : line[d] \in {"over", "talking"} => line'[d] = line[d]
    BY <1>1, <1>4, MovedLine DEF WBegins, dataVars
  <2>2. SummaryPlaced'
    BY <1>2, <2>1 DEF SummaryPlaced
  <2>3. AnswerPlaced'
    BY <1>2, <2>1 DEF AnswerPlaced, Idle
  <2> QED
    BY <1>2, <2>1, <2>2, <2>3
<1>5. ASSUME NEW c \in Calls, RBegins(c) PROVE SummaryInv'
  <2>1. /\ reports' = reports /\ WAt' = "idle" /\ Idle /\ RCall' = c
        /\ \A d \in Calls : d # c => line'[d] = line[d]
        /\ line[c] # "over"
        /\ line[c] = "talking" => line'[c] = "over" /\ RAt' # "answer1"
    BY <1>1, <1>5, MovedLine, EndsAre DEF RBegins, dataVars
  <2>2. SummaryPlaced'
    BY <1>2, <2>1 DEF SummaryPlaced
  <2>3. AnswerPlaced'
    BY <1>2, <2>1 DEF AnswerPlaced, Idle
  <2> QED
    BY <1>2, <2>1, <2>2, <2>3
<1>6. CASE RegistrationBegins
  <2>1. reports' = reports /\ line' = line /\ RAt' = "reg1" /\ Idle /\ WAt' = "idle"
    BY <1>6 DEF RegistrationBegins, dataVars
  <2>2. SummaryPlaced'
    BY <1>2, <2>1 DEF SummaryPlaced
  <2>3. AnswerPlaced'
    BY <1>2, <2>1 DEF AnswerPlaced, Idle
  <2> QED
    BY <1>2, <2>1, <2>2, <2>3
<1>7. CASE RJob
  <2>1. /\ line' = line /\ WAt = "idle" /\ WAt' = "idle" /\ RAt' \notin {"end1", "answer1"}
    BY <1>7 DEF RJob, RGoes
  <2>2. CASE reports' = reports
    <3>1. SummaryPlaced'
      BY <1>2, <2>1, <2>2 DEF SummaryPlaced
    <3>2. AnswerPlaced'
      BY <1>2, <2>1, <2>2 DEF AnswerPlaced
    <3> QED
      BY <1>2, <2>2, <3>1, <3>2
  <2>3. CASE RGoes("answer1", "answer2") /\ Accepted(RCall) /\ reports' # reports
    <3>1. RCall \in Calls /\ line[RCall] = "talking" /\ RAt = "answer1"
      BY <2>3 DEF RGoes, LineInv
    <3>2. PICK e \in Events : Answered(RCall, e) /\ reports' = Append(reports, e)
      BY <1>1, <2>3, <3>1, AcceptedIs
    <3>3. e.msg = "CALL_ANSWERED" /\ e.call = RCall
      BY <3>2 DEF Answered
    <3>4. ~Reported("CALL_SUMMARY", RCall) /\ ~Reported("CALL_ANSWERED", RCall)
      BY <2>1, <3>1 DEF SummaryPlaced, AnswerPlaced
    <3>5. InOrder'
      BY <1>1, <3>2, <3>3, <3>4, OrderKept
    <3>6. \A msg, c : Reported(msg, c)' <=> (Reported(msg, c) \/ (e.msg = msg /\ e.call = c))
      BY <1>1, <3>2, ReportedMore
    <3>7. SummaryPlaced'
      BY <2>1, <3>3, <3>6 DEF SummaryPlaced
    <3>8. AnswerPlaced'
      BY <2>1, <3>1, <3>3, <3>6 DEF AnswerPlaced
    <3> QED
      BY <3>5, <3>7, <3>8
  <2>4. CASE RGoes("end1", "end2") /\ OnEnd(RCall, RWhy) /\ reports' # reports
    <3>1. RCall \in Calls /\ line[RCall] = "over" /\ RAt = "end1"
      BY <2>4 DEF RGoes, LineInv
    <3>2. PICK stats \in {signallingStats, WithXCallUUID} : \E f \in Events : SummaryOf(RCall, stats, f) /\ reports' = Append(reports, f)
      BY <1>1, <2>4, <3>1, EndIs DEF CleanupCallData
    <3>3. PICK e \in Events : SummaryOf(RCall, stats, e) /\ reports' = Append(reports, e)
      BY <3>2
    <3>4. e.msg = "CALL_SUMMARY" /\ e.call = RCall
      BY <3>3 DEF SummaryOf
    <3>5. ~Reported("CALL_SUMMARY", RCall)
      BY <3>1 DEF SummaryPlaced
    <3>6. InOrder'
      BY <1>1, <3>3, <3>4, <3>5, OrderKept
    <3>7. \A msg, c : Reported(msg, c)' <=> (Reported(msg, c) \/ (e.msg = msg /\ e.call = c))
      BY <1>1, <3>3, ReportedMore
    <3>8. SummaryPlaced'
      BY <2>1, <3>1, <3>4, <3>7 DEF SummaryPlaced
    <3>9. AnswerPlaced'
      BY <2>1, <3>4, <3>7 DEF AnswerPlaced
    <3> QED
      BY <3>6, <3>8, <3>9
  <2>5. \/ reports' = reports
        \/ RGoes("answer1", "answer2") /\ Accepted(RCall)
        \/ RGoes("end1", "end2") /\ OnEnd(RCall, RWhy)
    BY <1>7 DEF RJob, dataVars, OnEarly, Unaffected, Npe
  <2> QED
    BY <2>2, <2>3, <2>4, <2>5
<1>8. CASE WJob
  <2>1. RAt' = "idle" /\ RAt = "idle"
    BY <1>8 DEF WJob, WGoes
  <2>2. CASE WGoes("take2", "take3") /\ Accepted(WCall) /\ line' = line /\ reports' # reports
    <3>1. WCall \in Calls /\ line[WCall] = "accepting" /\ WAt = "take2" /\ WAt' = "take3" /\ WCall' = WCall
      BY <2>2 DEF WGoes, LineInv
    <3>2. PICK e \in Events : Answered(WCall, e) /\ reports' = Append(reports, e)
      BY <1>1, <2>2, <3>1, AcceptedIs
    <3>3. e.msg = "CALL_ANSWERED" /\ e.call = WCall
      BY <3>2 DEF Answered
    <3>4. ~Reported("CALL_SUMMARY", WCall) /\ ~Reported("CALL_ANSWERED", WCall)
      BY <3>1 DEF SummaryPlaced, AnswerPlaced
    <3>5. InOrder'
      BY <1>1, <3>2, <3>3, <3>4, OrderKept
    <3>6. \A msg, c : Reported(msg, c)' <=> (Reported(msg, c) \/ (e.msg = msg /\ e.call = c))
      BY <1>1, <3>2, ReportedMore
    <3>7. SummaryPlaced'
      BY <2>1, <2>2, <3>3, <3>6 DEF SummaryPlaced
    <3>8. AnswerPlaced'
      BY <2>1, <2>2, <3>1, <3>3, <3>6 DEF AnswerPlaced
    <3> QED
      BY <3>5, <3>7, <3>8
  <2>3. ASSUME reports' = reports,
               \A d \in Calls : line[d] \in {"over", "talking"} => line'[d] = line[d],
               WAt = "take3" => WCall \in Calls /\ line'[WCall] = "talking"
        PROVE  SummaryInv'
    <3>1. SummaryPlaced'
      BY <1>2, <2>1, <2>3 DEF SummaryPlaced
    <3>2. AnswerPlaced'
      BY <1>2, <2>1, <2>3 DEF AnswerPlaced
    <3> QED
      BY <1>2, <2>3, <3>1, <3>2
  <2>4. CASE WGoes("call2", "call3") /\ Advances(WCall, "invited") /\ UNCHANGED dataVars
    <3>1. WCall \in Calls /\ line[WCall] = "placed"
      BY <2>4 DEF WGoes, LineInv
    <3> QED
      BY <1>1, <2>3, <2>4, <3>1, AdvancedLine DEF dataVars, WGoes
  <2>5. CASE WGoes("take3", "idle") /\ Advances(WCall, "talking") /\ UNCHANGED dataVars
    <3>1. WCall \in Calls /\ line[WCall] = "accepting"
      BY <2>5 DEF WGoes, LineInv
    <3> QED
      BY <1>1, <2>3, <2>5, <3>1, AdvancedLine DEF dataVars, WGoes
  <2>6. CASE WAt # "take3" /\ line' = line /\ reports' = reports
    BY <2>3, <2>6
  <2>7. \/ WGoes("take2", "take3") /\ Accepted(WCall) /\ line' = line
        \/ WGoes("call2", "call3") /\ Advances(WCall, "invited") /\ UNCHANGED dataVars
        \/ WGoes("take3", "idle") /\ Advances(WCall, "talking") /\ UNCHANGED dataVars
        \/ WAt # "take3" /\ line' = line /\ reports' = reports
    BY <1>8 DEF WJob, WGoes, dataVars, OnCalling, Unaffected
  <2>8. WGoes("take2", "take3") => WAt # "take3"
    BY DEF WGoes
  <2> QED
    BY <2>2, <2>4, <2>5, <2>6, <2>7, <2>8
<1> QED
  BY <1>3, <1>4, <1>5, <1>6, <1>7, <1>8 DEF Flat

\* Without overlap, one thread at a time is in a callback.
SequentialInv == May("overlap") \/ (OneBusy /\ LineInv)

LEMMA SequentialStep ==
    ASSUME Typed, OneBusy, LineInv, ~May("overlap"), [Next]_vars
    PROVE  Flat /\ OneBusy' /\ LineInv' /\ liberties' = liberties
<1>1. liberties' = liberties
  BY LibertiesFixed
<1>2. Shape /\ isIncomingCall \in BOOLEAN
  BY DEF Typed, DataOK
<1>3. Flat /\ OneBusy'
  BY <1>2, FlatStep
<1> QED
  BY <1>1, <1>3, LineKept

LEMMA AlwaysSequential == Spec => [](Typed /\ SequentialInv)
<1>1. Init => SequentialInv
  <2> SUFFICES ASSUME Init PROVE LineInv /\ OneBusy
    BY DEF SequentialInv
  <2>1. OneBusy /\ RAt = "idle" /\ WAt = "idle"
    BY InitTyped DEF Idle
  <2>2. placed = {} /\ \A c \in Calls : line[c] = "new"
    BY DEF Init
  <2> QED
    BY <2>1, <2>2 DEF LineInv, Active, NobodyActive, InOffer
<1>2. Typed /\ SequentialInv /\ [Next]_vars => SequentialInv'
  <2> SUFFICES ASSUME Typed, SequentialInv, [Next]_vars PROVE SequentialInv'
    OBVIOUS
  <2>1. May("overlap")' = May("overlap")
    BY LibertiesFixed DEF May
  <2> QED
    BY <2>1, SequentialStep DEF SequentialInv
<1> QED
  BY <1>1, <1>2, AlwaysTyped, PTL DEF Spec

\* A call is reported as answered at most once and summarised at most once, in
\* this order, as long as setCallState is called by one thread at a time: the
\* branches of setCallState (SipController.java:225) keep no record of what they
\* reported, it follows from where the calls are when they are taken.
THEOREM SummariesLast == Spec => []SummaryLast
<1> DEFINE Inv == May("overlap") \/ SummaryInv
<1>1. Init => Inv
  <2> SUFFICES ASSUME Init PROVE SummaryInv
    OBVIOUS
  <2>1. DOMAIN reports = {}
    BY DEF Init
  <2> QED
    BY <2>1 DEF SummaryInv, InOrder, SummaryPlaced, AnswerPlaced, Reported
<1>2. Typed /\ SequentialInv /\ Inv /\ [Next]_vars => Inv'
  <2> SUFFICES ASSUME Typed, SequentialInv, Inv, [Next]_vars PROVE Inv'
    OBVIOUS
  <2>1. May("overlap")' = May("overlap")
    BY LibertiesFixed DEF May
  <2>2. CASE ~May("overlap")
    <3>1. OneBusy /\ LineInv /\ SummaryInv
      BY <2>2 DEF SequentialInv
    <3> QED
      BY <2>2, <3>1, SequentialStep, SummaryKept
  <2> QED
    BY <2>1, <2>2
<1>3. Inv => SummaryLast
  BY DEF SummaryLast, Only, AllBut, May, SummaryInv, InOrder
<1> QED
  BY <1>1, <1>2, <1>3, AlwaysSequential, PTL DEF Spec

-----------------------------------------------------------------------------
(***************************************************************************)
(* One thread at a time, and only hangups by the peer: the timers.         *)
(***************************************************************************)
LEMMA TimerKept ==
    ASSUME Typed, LineInv, TimerInv, Flat,
           ~May("noUuid"), ~May("localHangup"), ~May("relogin")
    PROVE  TimerInv'
<1>1. line \in [Calls -> Phases] /\ DataOK /\ timer \in Calls \cup {None} /\ None \notin Calls
  BY ControllerNoneAssumption DEF Typed, StateOK, DataOK, Phases
<1> USE DEF TimerInv
<1>2. CASE UNCHANGED <<placeVars, dataVars, line, placed>>
  BY <1>2 DEF placeVars, dataVars
<1>3. CASE WBegins
  <2>1. /\ UNCHANGED <<xcallid, signallingStats, timer, running>> /\ Idle /\ RAt' = "idle"
    BY <1>3 DEF WBegins, dataVars
  <2>2. \A d \in Calls : line[d] = "talking" => line'[d] = "talking"
    BY <1>1, <1>3, MovedLine DEF WBegins
  <2>3. \A d \in Calls : line'[d] \in {"ringing", "accepting"} => line[d] \in {"ringing", "accepting"}
    BY <1>1, <1>3, MovedLine DEF WBegins
  <2> QED
    BY <2>1, <2>2, <2>3 DEF Idle
<1>4. ASSUME NEW c \in Calls, RBegins(c) PROVE TimerInv'
  <2>1. /\ UNCHANGED <<xcallid, signallingStats, timer, running>> /\ Idle /\ WAt' = "idle" /\ RCall' = c
        /\ \A d \in Calls : d # c => line'[d] = line[d]
    BY <1>1, <1>4, MovedLine DEF RBegins, dataVars
  <2>2. \/ RAt' = "offer1"
        \/ line'[c] \notin {"ringing", "accepting"}
    BY <1>1, <1>4, MovedLine DEF RBegins
  <2>3. line[c] = "talking" => RAt' = "end1" /\ RWhy' = "RemoteBye"
    BY <1>1, <1>4, MovedLine, EndsAre DEF RBegins, Unheard
  <2>4. RAt' = "answer1" => Active(c) /\ line[c] # "talking"
    BY <1>1, <1>4, MovedLine DEF RBegins, Active
  <2>5. ASSUME running # {} PROVE /\ signallingStats # None /\ xcallid # None
                                 /\ \E d \in Calls : line[d] = "talking"
    BY <2>1, <2>5 DEF Idle
  <2>6. ASSUME running # {}
        PROVE \/ \E d \in Calls : line'[d] = "talking" /\ ~(RAt' = "answer1" /\ RCall' = d)
              \/ RAt' = "end1" /\ RWhy' = "RemoteBye"
    <3>1. PICK d \in Calls : line[d] = "talking"
      BY <2>5, <2>6
    <3>2. RAt' # "answer1"
      BY <2>4, <3>1 DEF LineInv, Active
    <3> QED
      BY <2>1, <2>3, <3>1, <3>2
  <2>7. \A d \in Calls : line'[d] \in {"ringing", "accepting"} => xcallid # None \/ (RAt' = "offer1" /\ RCall' = d)
    BY <2>1, <2>2 DEF Idle
  <2> QED
    BY <2>1, <2>5, <2>6, <2>7
<1>5. CASE RegistrationBegins
  BY <1>5 DEF RegistrationBegins, dataVars, Idle
<1>6. CASE RJob
  <2>1. line' = line /\ WAt = "idle" /\ WAt' = "idle"
    BY <1>6 DEF RJob, RGoes
  <2>2. CASE (RGoes("sdp", "idle") \/ RGoes("answer3", "idle") \/ RGoes("offer2", "offer3")) /\ UNCHANGED dataVars
    BY <2>1, <2>2 DEF RGoes, dataVars
  <2>3. CASE /\ RGoes("offer3", "early") \/ RGoes("end2", "idle")
             /\ UNCHANGED <<xcallid, signallingStats, timer, running>>
    BY <2>1, <2>3 DEF RGoes
  <2>4. CASE /\ RGoes("reg2", "idle") /\ timer' = None /\ UNCHANGED <<xcallid, signallingStats, running>>
    <3>1. Free
      BY <2>4 DEF RGoes, LineInv
    <3>2. running = {}
      BY <2>1, <2>4, <3>1 DEF Free, RGoes
    <3> QED
      BY <2>1, <2>4, <3>1, <3>2 DEF Free
  <2>5. CASE /\ RGoes("info", "early") \/ RGoes("answer2", "answer3") \/ RGoes("offer1", "offer2")
             /\ RCall \in Calls /\ xcallid' \in Uuids(RCall)
             /\ UNCHANGED <<signallingStats, timer, running>>
    <3>1. xcallid' # None
      BY <1>1, <2>5 DEF Uuids
    <3> QED
      BY <2>1, <2>5, <3>1 DEF RGoes
  <2>6. CASE RGoes("reg1", "reg2") /\ xcallid' = None /\ UNCHANGED <<signallingStats, timer, running>>
    <3>1. Free
      BY <2>6 DEF RGoes, LineInv
    <3>2. running = {}
      BY <2>1, <2>6, <3>1 DEF Free, RGoes
    <3> QED
      BY <2>1, <2>6, <3>1, <3>2 DEF Free
  <2>7. CASE RGoes("early", "idle") /\ OnEarly
    <3>1. UNCHANGED <<xcallid, timer, running>> /\ (signallingStats # None => signallingStats' # None)
      BY <2>7, NewIs DEF OnEarly, Npe, Unaffected
    <3> QED
      BY <2>1, <2>7, <3>1 DEF RGoes
  <2>8. CASE RGoes("answer1", "answer2") /\ Accepted(RCall) /\ UNCHANGED xcallid
    <3>1. RAt = "answer1" /\ RAt' = "answer2" /\ RCall' = RCall /\ RCall \in Calls /\ line[RCall] = "talking"
      BY <2>8 DEF RGoes, LineInv
    <3>2. running = {}
      BY <2>1, <3>1 DEF LineInv, Active
    <3>3. CASE UNCHANGED <<signallingStats, timer, running>>
      BY <2>1, <2>8, <3>1, <3>2, <3>3
    <3>4. CASE signallingStats' \in Stats /\ timer' = RCall /\ running' = running \cup {RCall}
      <4>1. signallingStats' # None
        BY <3>4, NoneIsNoStats
      <4> QED
        BY <2>1, <2>8, <3>1, <3>2, <3>4, <4>1
    <3> QED
      BY <1>1, <2>8, <3>1, <3>3, <3>4, AcceptedIs
  <2>9. CASE RGoes("end1", "end2") /\ OnEnd(RCall, RWhy)
    <3>1. /\ RAt = "end1" /\ RAt' = "end2" /\ RCall \in Calls
          /\ (RWhy \in {"RemoteBye", "Rejected"} /\ NobodyActive) \/ RWhy = "RemoteCancel"
      BY <2>9 DEF RGoes, LineInv
    <3>2. CASE RWhy = "RemoteCancel"
      <4>1. xcallid' = xcallid /\ timer' = timer
        BY <1>1, <2>9, <3>1, <3>2, EndIs DEF CleanupCallData, Failures, LocalReasons
      <4>2. running' = running \ {timer} \/ (running' = running /\ signallingStats' = signallingStats)
        BY <1>1, <2>9, <3>1, <3>2, EndIs DEF CleanupCallData, Failures, LocalReasons
      <4> QED
        BY <2>1, <3>1, <3>2, <4>1, <4>2
    <3>3. CASE RWhy \in {"RemoteBye", "Rejected"} /\ NobodyActive
      <4>1. timer' = timer
        BY <1>1, <2>9, <3>1, EndIs DEF CleanupCallData
      <4>2. running' = {}
        <5>1. running # {} => RWhy = "RemoteBye" /\ signallingStats # None /\ xcallid # None
          BY <2>1, <3>1, <3>3 DEF NobodyActive, Active
        <5>2. running' \in {running, running \ {timer}}
          BY <1>1, <2>9, <3>1, EndIs DEF CleanupCallData
        <5>3. CASE RWhy = "Rejected"
          BY <5>1, <5>2, <5>3
        <5>4. CASE RWhy = "RemoteBye"
          <6>1. CASE running = {}
            BY <5>2, <6>1
          <6>2. CASE running # {}
            <7>1. Summarised(RCall, isIncomingCall, TRUE)
              BY <2>9, <5>4 DEF OnEnd, Failures, LocalReasons
            <7>2. running' = running \ {timer}
              BY <1>1, <3>1, <5>1, <6>2, <7>1, SummarisedIs DEF XCallUUIDFails, CallUUIDFails, DataOK
            <7> QED
              BY <7>2
          <6> QED
            BY <6>1, <6>2
        <5> QED
          BY <3>3, <5>3, <5>4
      <4> QED
        BY <2>1, <3>3, <4>1, <4>2 DEF NobodyActive, Active
    <3> QED
      BY <3>1, <3>2, <3>3
  <2> QED
    BY <1>6, <2>2, <2>3, <2>4, <2>5, <2>6, <2>7, <2>8, <2>9 DEF RJob, Npe
<1>7. CASE WJob
  <2>1. RAt = "idle" /\ RAt' = "idle"
    BY <1>7 DEF WJob, WGoes
  <2>2. CASE /\ WGoes("log", "idle") \/ WGoes("call1", "call2") \/ WGoes("take1", "take2")
             /\ UNCHANGED <<line, dataVars>>
    BY <2>1, <2>2 DEF WGoes, dataVars
  <2>3. CASE WGoes("call2", "call3") /\ Advances(WCall, "invited") /\ UNCHANGED dataVars
    <3>1. WCall \in Calls /\ line[WCall] = "placed"
      BY <2>3 DEF WGoes, LineInv
    <3> QED
      BY <1>1, <2>1, <2>3, <3>1, AdvancedLine DEF WGoes, dataVars
  <2>4. CASE WGoes("call3", "idle") /\ (IF isIncomingCall THEN Unaffected ELSE OnCalling) /\ UNCHANGED line
    <3>1. UNCHANGED <<xcallid, timer, running>> /\ (signallingStats # None => signallingStats' # None)
      BY <2>4, NewIs DEF OnCalling, Unaffected
    <3> QED
      BY <2>1, <2>4, <3>1 DEF WGoes
  <2>5. CASE WGoes("take2", "take3") /\ Accepted(WCall) /\ UNCHANGED <<xcallid, line>>
    <3>1. WAt = "take2" /\ WAt' = "take3" /\ WCall' = WCall /\ WCall \in Calls /\ line[WCall] = "accepting"
      BY <2>5 DEF WGoes, LineInv
    <3>2. running = {}
      BY <2>1, <3>1 DEF LineInv, Active
    <3>3. xcallid # None
      BY <2>1, <3>1
    <3>4. CASE UNCHANGED <<signallingStats, timer, running>>
      BY <2>1, <2>5, <3>1, <3>2, <3>4
    <3>5. CASE signallingStats' \in Stats /\ timer' = WCall /\ running' = running \cup {WCall}
      <4>1. signallingStats' # None
        BY <3>5, NoneIsNoStats
      <4> QED
        BY <2>1, <2>5, <3>1, <3>2, <3>3, <3>5, <4>1
    <3> QED
      BY <1>1, <2>5, <3>1, <3>4, <3>5, AcceptedIs
  <2>6. CASE WGoes("take3", "idle") /\ Advances(WCall, "talking") /\ UNCHANGED dataVars
    <3>1. WCall \in Calls /\ line[WCall] = "accepting"
      BY <2>6 DEF WGoes, LineInv
    <3> QED
      BY <1>1, <2>1, <2>6, <3>1, AdvancedLine DEF WGoes, dataVars
  <2> QED
    BY <1>7, <2>2, <2>3, <2>4, <2>5, <2>6 DEF WJob
<1> QED
  BY <1>2, <1>3, <1>4, <1>5, <1>6, <1>7 DEF Flat

\* Every end of a call that was answered has reached stopTimer when the call is
\* gone: no exception of the summary branch (SipController.java:225) can come
\* before it, and no other call's timer has taken the field.
THEOREM AllTimersStopped == Spec => []TimersStopped
<1> DEFINE Calm == Only({"stalePc", "silent", "callWaiting"})
           Inv == Calm => TimerInv
<1>1. Init => Inv
  <2> SUFFICES ASSUME Init PROVE TimerInv
    OBVIOUS
  <2> QED
    BY DEF Init, TimerInv
<1>2. Typed /\ SequentialInv /\ Inv /\ [Next]_vars => Inv'
  <2> SUFFICES ASSUME Typed, SequentialInv, Inv, [Next]_vars, Calm' PROVE TimerInv'
    BY Zenon
  <2>1. Calm
    BY LibertiesFixed DEF Only
  <2>2. ~May("overlap") /\ ~May("noUuid") /\ ~May("localHangup") /\ ~May("relogin")
    BY <2>1 DEF Only, May
  <2>3. OneBusy /\ LineInv /\ TimerInv
    BY <2>1, <2>2 DEF SequentialInv
  <2>4. Flat
    BY <2>2, <2>3, SequentialStep
  <2> QED
    BY <2>2, <2>3, <2>4, TimerKept
<1>3. Inv => TimersStopped
  <2> SUFFICES ASSUME Calm, TimerInv, Free, ~Busy("R"), ~Busy("W") PROVE running = {}
    BY DEF TimersStopped
  <2>1. RAt = "idle" /\ WAt = "idle"
    BY IdleIs DEF Busy, R, W
  <2> QED
    BY <2>1 DEF TimerInv, Free
<1> QED
  BY <1>1, <1>2, <1>3, AlwaysSequential, PTL DEF Spec

-----------------------------------------------------------------------------
(***************************************************************************)
(* One thread at a time, and peers that send early media and UUIDs: what   *)
(* is there when setCallState uses it.                                     *)
(***************************************************************************)
LEMMA NullKept ==
    ASSUME Typed, LineInv, NullInv, Flat,
           ~May("noUuid"), ~May("silent"), ~May("relogin"), ~May("callWaiting")
    PROVE  NullInv'
<1>1. line \in [Calls -> Phases] /\ DataOK /\ None \notin Calls
  BY ControllerNoneAssumption DEF Typed, StateOK, Phases
<1> USE DEF NullInv, Heard, BeforeEarly, AwaitsInfo, AwaitsEarly, InOffer
<1>2. ASSUME reports' = reports PROVE \A msg, c : Reported(msg, c)' <=> Reported(msg, c)
  BY <1>2, ReportedSame
<1>3. CASE UNCHANGED <<placeVars, dataVars, line, placed>>
  BY <1>2, <1>3 DEF placeVars, dataVars
<1>4. CASE WBegins
  <2>1. UNCHANGED <<xcallid, signallingStats, isIncomingCall, npe, reports>> /\ Idle /\ RAt' = "idle" /\ WAt' # "take3"
    BY <1>4 DEF WBegins, dataVars
  <2>2. \A d \in Calls : (line'[d] = "talking" => line[d] = "talking") /\ (Heard(d)' => Heard(d)) /\ (BeforeEarly(d)' => BeforeEarly(d))
    BY <1>1, <1>4, MovedLine DEF WBegins, Idle
  <2> QED
    BY <1>2, <2>1, <2>2 DEF Idle
<1>5. ASSUME NEW c \in Calls, RBegins(c) PROVE NullInv'
  <2>1. /\ UNCHANGED <<xcallid, signallingStats, isIncomingCall, npe, reports>> /\ Idle /\ WAt' = "idle" /\ RCall' = c
        /\ \A d \in Calls : d # c => line'[d] = line[d]
    BY <1>1, <1>5, MovedLine DEF RBegins, dataVars
  <2>2. CASE RAt' = "sdp" /\ Moves(c, {"invited"}, "early")
    BY <1>1, <1>2, <2>1, <2>2, MovedLine DEF Idle
  <2>3. CASE RAt' = "info" /\ Moves(c, {"early", "informed"}, "informed")
    BY <1>1, <1>2, <2>1, <2>3, MovedLine DEF Idle
  <2>4. CASE RAt' = "answer1" /\ Moves(c, {"informed"} \cup (IF May("silent") THEN {"early"} ELSE {}), "talking")
    BY <1>1, <1>2, <2>1, <2>4, MovedLine DEF Idle
  <2>5. CASE RAt' = "offer1" /\ Free /\ Moves(c, {"new"}, "ringing")
    BY <1>1, <1>2, <2>1, <2>5, MovedLine DEF Idle
  <2>6. CASE /\ RAt' = "end1" /\ Moves(c, {line[c]}, "over")
             /\ \E end \in Ends(c) : RWhy' = end[1]
    <3>1. Heard(c)
      BY <1>1, <2>6, EndsAre DEF LineInv, Unheard, Phases
    <3> QED
      BY <1>1, <1>2, <2>1, <2>6, <3>1, MovedLine DEF Idle
  <2>7. CASE RAt' = "end2" /\ Moves(c, {"invited"}, "over")
    BY <1>1, <1>2, <2>1, <2>7, MovedLine DEF Idle
  <2> QED
    BY <1>5, <2>2, <2>3, <2>4, <2>5, <2>6, <2>7 DEF RBegins
<1>6. CASE RegistrationBegins
  BY <1>2, <1>6 DEF RegistrationBegins, dataVars, Idle
<1>7. CASE RJob
  <2>1. line' = line /\ WAt = "idle" /\ WAt' = "idle"
    BY <1>7 DEF RJob, RGoes
  <2>2. CASE (RGoes("sdp", "idle") \/ RGoes("answer3", "idle") \/ RGoes("offer2", "offer3")) /\ UNCHANGED dataVars
    BY <1>2, <2>1, <2>2 DEF RGoes, dataVars
  <2>3. CASE /\ RGoes("offer3", "early") /\ isIncomingCall' = TRUE
             /\ UNCHANGED <<xcallid, signallingStats, timer, running, reports, npe>>
    BY <1>2, <2>1, <2>3 DEF RGoes
  <2>4. CASE RGoes("end2", "idle") /\ Npe("hangup") /\ UNCHANGED <<isIncomingCall, xcallid>>
    BY <1>2, <2>1, <2>4 DEF RGoes, Npe
  <2>5. CASE RGoes("reg2", "idle") /\ UNCHANGED <<isIncomingCall, xcallid, signallingStats, running, reports, npe>>
    BY <1>2, <2>1, <2>5 DEF RGoes
  <2>6. CASE /\ RGoes("info", "early") \/ RGoes("answer2", "answer3") \/ RGoes("offer1", "offer2")
             /\ RCall \in Calls /\ xcallid' \in Uuids(RCall)
             /\ UNCHANGED <<isIncomingCall, signallingStats, timer, running, reports, npe>>
    <3>1. xcallid' # None
      BY <1>1, <2>6 DEF Uuids
    <3>2. RAt = "info" => line[RCall] = "informed"
      BY DEF LineInv
    <3> QED
      BY <1>2, <2>1, <2>6, <3>1, <3>2 DEF RGoes
  <2>7. CASE /\ RGoes("reg1", "reg2") /\ xcallid' = None
             /\ UNCHANGED <<isIncomingCall, signallingStats, timer, running, reports, npe>>
    <3>1. Free
      BY <2>7 DEF RGoes, LineInv
    <3> QED
      BY <1>2, <2>1, <2>7, <3>1 DEF Free, RGoes
  <2>8. CASE RGoes("early", "idle") /\ OnEarly /\ UNCHANGED isIncomingCall
    <3>1. RAt = "early" /\ RAt' = "idle" /\ RCall \in Calls /\ line[RCall] \in {"informed", "ringing"}
      BY <2>8 DEF RGoes, LineInv
    <3>2. isIncomingCall \/ signallingStats # None
      BY <2>1, <3>1
    <3>3. UNCHANGED <<xcallid, reports, npe, isIncomingCall>> /\ signallingStats' # None
      BY <2>8, <3>2, NewIs DEF OnEarly, Unaffected
    <3> QED
      BY <1>2, <2>1, <3>1, <3>3
  <2>9. CASE RGoes("answer1", "answer2") /\ Accepted(RCall) /\ UNCHANGED <<isIncomingCall, xcallid>>
    <3>1. RAt = "answer1" /\ RAt' = "answer2" /\ RCall' = RCall /\ RCall \in Calls /\ line[RCall] = "talking"
      BY <2>9 DEF RGoes, LineInv
    <3>2. xcallid # None /\ signallingStats # None
      BY <3>1
    <3>3. /\ signallingStats' \in Stats /\ npe' = npe
          /\ \E e \in Events : Answered(RCall, e) /\ reports' = Append(reports, e)
      BY <1>1, <2>9, <3>1, <3>2, AcceptedIs DEF XCallUUIDFails
    <3>4. PICK e \in Events : Answered(RCall, e) /\ reports' = Append(reports, e)
      BY <3>3
    <3>5. e.msg = "CALL_ANSWERED" /\ e.call = RCall
      BY <3>4 DEF Answered
    <3>6. \A msg, c : Reported(msg, c)' <=> (Reported(msg, c) \/ (e.msg = msg /\ e.call = c))
      BY <1>1, <3>4, ReportedMore
    <3>7. signallingStats' # None
      BY <3>3, NoneIsNoStats
    <3> QED
      BY <2>1, <2>9, <3>1, <3>2, <3>3, <3>5, <3>6, <3>7
  <2>10. CASE RGoes("end1", "end2") /\ OnEnd(RCall, RWhy) /\ UNCHANGED isIncomingCall
    <3>1. RAt = "end1" /\ RAt' = "end2" /\ RCall \in Calls /\ NobodyActive
      BY <2>10 DEF RGoes, LineInv
    <3>2. \A d \in Calls : ~Heard(d)' /\ ~BeforeEarly(d)' /\ line'[d] # "talking"
      BY <2>1, <3>1 DEF NobodyActive, Active
    <3>3. npe' = npe
      BY <1>1, <2>10, <3>1, EndIs DEF CleanupCallData
    <3> QED
      BY <2>1, <3>1, <3>2, <3>3
  <2> QED
    BY <1>7, <2>2, <2>3, <2>4, <2>5, <2>6, <2>7, <2>8, <2>9, <2>10 DEF RJob
<1>8. CASE WJob
  <2>1. RAt = "idle" /\ RAt' = "idle"
    BY <1>8 DEF WJob, WGoes
  <2>2. CASE /\ WGoes("log", "idle") \/ WGoes("call1", "call2") \/ WGoes("take1", "take2")
             /\ UNCHANGED <<line, dataVars>>
    BY <1>2, <2>1, <2>2 DEF WGoes, dataVars
  <2>3. CASE WGoes("call2", "call3") /\ Advances(WCall, "invited") /\ UNCHANGED dataVars
    <3>1. WCall \in Calls /\ line[WCall] = "placed"
      BY <2>3 DEF WGoes, LineInv
    <3> QED
      BY <1>1, <1>2, <2>1, <2>3, <3>1, AdvancedLine DEF WGoes, dataVars
  <2>4. CASE WGoes("call3", "idle") /\ (IF isIncomingCall THEN Unaffected ELSE OnCalling) /\ UNCHANGED <<isIncomingCall, line>>
    <3>1. /\ UNCHANGED <<xcallid, reports, npe>> /\ (signallingStats # None => signallingStats' # None)
          /\ isIncomingCall \/ signallingStats' # None
      BY <2>4, NewIs DEF OnCalling, Unaffected
    <3> QED
      BY <1>2, <2>1, <2>4, <3>1 DEF WGoes
  <2>5. CASE WGoes("take2", "take3") /\ Accepted(WCall) /\ UNCHANGED <<isIncomingCall, xcallid, line>>
    <3>1. WAt = "take2" /\ WAt' = "take3" /\ WCall' = WCall /\ WCall \in Calls /\ line[WCall] = "accepting"
      BY <2>5 DEF WGoes, LineInv
    <3>2. xcallid # None /\ signallingStats # None
      BY <2>1, <3>1
    <3>3. /\ signallingStats' \in Stats /\ npe' = npe
          /\ \E e \in Events : Answered(WCall, e) /\ reports' = Append(reports, e)
      BY <1>1, <2>5, <3>1, <3>2, AcceptedIs DEF XCallUUIDFails
    <3>4. PICK e \in Events : Answered(WCall, e) /\ reports' = Append(reports, e)
      BY <3>3
    <3>5. e.msg = "CALL_ANSWERED" /\ e.call = WCall
      BY <3>4 DEF Answered
    <3>6. \A msg, c : Reported(msg, c)' <=> (Reported(msg, c) \/ (e.msg = msg /\ e.call = c))
      BY <1>1, <3>4, ReportedMore
    <3>7. signallingStats' # None
      BY <3>3, NoneIsNoStats
    <3> QED
      BY <2>1, <2>5, <3>1, <3>2, <3>3, <3>5, <3>6, <3>7
  <2>6. CASE WGoes("take3", "idle") /\ Advances(WCall, "talking") /\ UNCHANGED dataVars
    <3>1. WCall \in Calls /\ line[WCall] = "accepting"
      BY <2>6 DEF WGoes, LineInv
    <3> QED
      BY <1>1, <1>2, <2>1, <2>6, <3>1, AdvancedLine DEF WGoes, dataVars
  <2> QED
    BY <1>8, <2>2, <2>3, <2>4, <2>5, <2>6 DEF WJob
<1> QED
  BY <1>3, <1>4, <1>5, <1>6, <1>7, <1>8 DEF Flat

LEMMA NullInitially == ASSUME Init PROVE NullInv
<1>1. Idle /\ \A c \in Calls : line[c] = "new"
  BY InitTyped DEF Init
<1>2. npe = {}
  BY DEF Init
<1> QED
  BY <1>1, <1>2 DEF NullInv, Idle, Heard, BeforeEarly

LEMMA AlwaysThere == Spec => [](Only({"stalePc", "localHangup"}) => NullInv)
<1> DEFINE Calm == Only({"stalePc", "localHangup"})
           Inv == Calm => NullInv
<1>1. Init => Inv
  BY NullInitially
<1>2. Typed /\ SequentialInv /\ Inv /\ [Next]_vars => Inv'
  <2> SUFFICES ASSUME Typed, SequentialInv, Inv, [Next]_vars, Calm' PROVE NullInv'
    BY Zenon
  <2>1. Calm
    BY LibertiesFixed DEF Only
  <2>2. ~May("overlap") /\ ~May("noUuid") /\ ~May("silent") /\ ~May("relogin") /\ ~May("callWaiting")
    BY <2>1 DEF Only, May
  <2>3. OneBusy /\ LineInv /\ NullInv
    BY <2>1, <2>2 DEF SequentialInv
  <2>4. Flat
    BY <2>2, <2>3, SequentialStep
  <2> QED
    BY <2>2, <2>3, <2>4, NullKept
<1> QED
  BY <1>1, <1>2, AlwaysSequential, PTL DEF Spec

\* With peers that send early media and UUIDs, nothing is null where setCallState
\* (SipController.java:225) uses it, through any number of calls, placed or
\* received, that end for any reason and with any status, with PeerConnections
\* left behind or not: the statistics exist and the X-CallUUID has arrived.
THEOREM NothingNull == Spec => []OnlyHangupThrows
<1>1. (Only({"stalePc", "localHangup"}) => NullInv) => OnlyHangupThrows
  BY DEF OnlyHangupThrows, NullInv
<1> QED
  BY <1>1, AlwaysThere, PTL

\* In the same environments a call that talks has been reported as answered,
\* although CallAccepted comes up before the call info of the same message.
THEOREM AnswersReported == Spec => []AnswerReported
<1>1. (Only({"stalePc", "localHangup"}) => NullInv) => AnswerReported
  <2> SUFFICES ASSUME NullInv, NEW c \in Calls, line[c] = "talking", \A t \in {"R", "W"} : ~Busy(t)
               PROVE  \E i \in DOMAIN reports : reports[i].call = c /\ reports[i].msg = "CALL_ANSWERED"
    BY DEF AnswerReported
  <2>1. RAt = "idle"
    BY IdleIs DEF Busy, R
  <2>2. Reported("CALL_ANSWERED", c)
    BY <2>1 DEF NullInv
  <2> QED
    BY <2>2, Zenon DEF Reported
<1> QED
  BY <1>1, AlwaysThere, PTL

-----------------------------------------------------------------------------
(***************************************************************************)
(* One thread at a time, one call at a time, and peers that send early     *)
(* media: whose UUID is where.                                             *)
(***************************************************************************)
LEMMA OwnReportsKept ==
    ASSUME DataOK, OwnReports, placed \subseteq placed',
           \/ reports' = reports
           \/ \E e \in Events : /\ reports' = Append(reports, e) /\ e.uuid \in {e.call, None}
                                /\ e.call \notin placed => e.incoming
    PROVE  OwnReports'
<1>1. CASE reports' = reports
  <2>1. \A i \in DOMAIN reports :
            /\ reports[i].uuid \in {reports[i].call, None}
            /\ reports[i].call \notin placed' => reports[i].incoming
    BY DEF OwnReports
  <2> QED
    BY <1>1, <2>1, Zenon DEF OwnReports
<1>2. ASSUME NEW e \in Events, reports' = Append(reports, e), e.uuid \in {e.call, None},
             e.call \notin placed => e.incoming
      PROVE  OwnReports'
  <2>1. /\ DOMAIN reports' = DOMAIN reports \cup {Len(reports) + 1}
        /\ \A i \in DOMAIN reports : reports'[i] = reports[i]
        /\ reports'[Len(reports) + 1] = e
    BY <1>2, ReportedMore
  <2>2. \A i \in DOMAIN reports' :
            /\ reports'[i].uuid \in {reports'[i].call, None}
            /\ reports'[i].call \notin placed' => reports'[i].incoming
    BY <1>2, <2>1 DEF OwnReports
  <2> QED
    BY <2>2, Zenon DEF OwnReports
<1> QED
  BY <1>1, <1>2

LEMMA OwnKept ==
    ASSUME Typed, LineInv, OwnInv, Flat, ~May("silent"), ~May("callWaiting")
    PROVE  OwnInv'
<1>1. line \in [Calls -> Phases] /\ DataOK /\ None \notin Calls /\ isIncomingCall \in BOOLEAN
  BY ControllerNoneAssumption DEF Typed, StateOK, Phases, DataOK
<1>2. OwnUuids /\ OwnEarly /\ OwnSide /\ OwnReports
  BY DEF OwnInv
<1>3. \A c : OwnStats(c)' <=> (signallingStats' = None \/ signallingStats'.xcallUUID \in {c, None})
  BY Zenon DEF OwnStats
<1>4. ASSUME reports' = reports, placed \subseteq placed' PROVE OwnReports'
  BY <1>1, <1>2, <1>4, OwnReportsKept
<1>5. ASSUME signallingStats' = signallingStats PROVE \A c : OwnStats(c)' <=> OwnStats(c)
  BY <1>5, Zenon DEF OwnStats
<1> USE DEF OwnInv, OwnUuids, OwnEarly, OwnSide, Subject, Heard, BeforeEarly, AwaitsInfo, AwaitsEarly, InOffer
<1>6. CASE UNCHANGED <<placeVars, dataVars, line, placed>>
  BY <1>2, <1>4, <1>5, <1>6 DEF placeVars, dataVars
<1>7. CASE WBegins
  <2>1. UNCHANGED <<xcallid, signallingStats, isIncomingCall, reports>> /\ Idle /\ RAt' = "idle" /\ placed \subseteq placed'
    BY <1>7 DEF WBegins, dataVars
  <2>2. \A d \in Calls : (Heard(d)' => Heard(d)) /\ (BeforeEarly(d)' => BeforeEarly(d))
    BY <1>1, <1>7, MovedLine DEF WBegins, Idle
  <2> QED
    BY <1>2, <1>4, <1>5, <2>1, <2>2 DEF Idle
<1>8. ASSUME NEW c \in Calls, RBegins(c) PROVE OwnInv'
  <2>1. /\ UNCHANGED <<xcallid, signallingStats, isIncomingCall, reports, placed>> /\ Idle /\ WAt' = "idle" /\ RCall' = c
        /\ \A d \in Calls : d # c => line'[d] = line[d]
    BY <1>1, <1>8, MovedLine DEF RBegins, dataVars
  <2>2. line[c] \in {"early", "informed"} => c \in placed
    BY DEF LineInv
  <2>3. CASE RAt' = "sdp" /\ Moves(c, {"invited"}, "early")
    BY <1>1, <1>2, <1>4, <1>5, <2>1, <2>3, MovedLine DEF Idle
  <2>4. CASE RAt' = "info" /\ Moves(c, {"early", "informed"}, "informed")
    BY <1>1, <1>2, <1>4, <1>5, <2>1, <2>2, <2>4, MovedLine DEF Idle
  <2>5. CASE RAt' = "answer1" /\ Moves(c, {"informed"} \cup (IF May("silent") THEN {"early"} ELSE {}), "talking")
    BY <1>1, <1>2, <1>4, <1>5, <2>1, <2>2, <2>5, MovedLine DEF Idle
  <2>6. CASE RAt' = "offer1" /\ Free /\ Moves(c, {"new"}, "ringing")
    BY <1>1, <1>2, <1>4, <1>5, <2>1, <2>6, MovedLine DEF Idle
  <2>7. CASE /\ RAt' = "end1" /\ Moves(c, {line[c]}, "over")
             /\ \E end \in Ends(c) : RWhy' = end[1]
    <3>1. Heard(c)
      BY <1>1, <2>7, EndsAre DEF LineInv, Unheard, Phases
    <3> QED
      BY <1>1, <1>2, <1>4, <1>5, <2>1, <2>7, <3>1, MovedLine DEF Idle
  <2>8. CASE RAt' = "end2" /\ Moves(c, {"invited"}, "over")
    BY <1>1, <1>2, <1>4, <1>5, <2>1, <2>8, MovedLine DEF Idle
  <2> QED
    BY <1>8, <2>3, <2>4, <2>5, <2>6, <2>7, <2>8 DEF RBegins
<1>9. CASE RegistrationBegins
  BY <1>2, <1>4, <1>5, <1>9 DEF RegistrationBegins, dataVars, Idle
<1>10. CASE RJob
  <2>1. line' = line /\ WAt = "idle" /\ WAt' = "idle" /\ placed' = placed
    BY <1>10 DEF RJob, RGoes
  <2>2. CASE (RGoes("sdp", "idle") \/ RGoes("answer3", "idle") \/ RGoes("offer2", "offer3")) /\ UNCHANGED dataVars
    BY <1>2, <1>4, <1>5, <2>1, <2>2 DEF RGoes, dataVars
  <2>3. CASE /\ RGoes("offer3", "early") /\ isIncomingCall' = TRUE
             /\ UNCHANGED <<xcallid, signallingStats, timer, running, reports, npe>>
    BY <1>2, <1>4, <1>5, <2>1, <2>3 DEF RGoes
  <2>4. CASE /\ RGoes("end2", "idle") \/ RGoes("reg2", "idle")
             /\ UNCHANGED <<isIncomingCall, xcallid, signallingStats, reports>>
    BY <1>2, <1>4, <1>5, <2>1, <2>4 DEF RGoes
  <2>5. CASE /\ RGoes("info", "early") \/ RGoes("answer2", "answer3") \/ RGoes("offer1", "offer2")
             /\ RCall \in Calls /\ xcallid' \in Uuids(RCall)
             /\ UNCHANGED <<isIncomingCall, signallingStats, timer, running, reports, npe>>
    <3>1. xcallid' \in {RCall, None}
      BY <2>5, UuidsAre
    <3>2. Active(RCall)
      BY <2>5 DEF RGoes, LineInv, InOffer, Active
    <3>3. \A d \in Calls : Heard(d) => d = RCall
      BY <2>5, <3>2 DEF LineInv, Active
    <3> QED
      BY <1>2, <1>4, <1>5, <2>1, <2>5, <3>1, <3>3 DEF RGoes
  <2>6. CASE /\ RGoes("reg1", "reg2") /\ xcallid' = None
             /\ UNCHANGED <<isIncomingCall, signallingStats, timer, running, reports, npe>>
    BY <1>2, <1>4, <1>5, <2>1, <2>6 DEF RGoes
  <2>7. CASE RGoes("early", "idle") /\ OnEarly /\ UNCHANGED isIncomingCall
    <3>1. RAt = "early" /\ RAt' = "idle" /\ RCall \in Calls /\ line[RCall] \in {"informed", "ringing"}
      BY <2>7 DEF RGoes, LineInv
    <3>2. UNCHANGED <<xcallid, reports>> /\ (signallingStats' = NewStats \/ (~isIncomingCall /\ signallingStats' = signallingStats))
      BY <2>7 DEF OnEarly, Unaffected, Npe
    <3>3. \A d \in Calls : Active(d) => d = RCall
      BY <3>1 DEF LineInv, Active
    <3>4. signallingStats' = None \/ signallingStats'.xcallUUID \in {RCall, None}
      <4>1. CASE signallingStats' = NewStats
        BY <4>1, NewIs
      <4>2. CASE ~isIncomingCall /\ signallingStats' = signallingStats
        <5>1. line[RCall] = "ringing" => RCall \notin placed
          BY <3>1 DEF LineInv
        <5>2. line[RCall] = "informed"
          BY <1>2, <3>1, <4>2, <5>1
        <5>3. OwnStats(RCall)
          BY <1>2, <2>1, <3>1, <4>2, <5>2
        <5> QED
          BY <4>2, <5>3 DEF OwnStats
      <4> QED
        BY <3>2, <4>1, <4>2
    <3>5. OwnUuids'
      BY <1>2, <1>3, <2>1, <3>1, <3>2, <3>3, <3>4 DEF Active
    <3>6. OwnEarly'
      BY <1>3, <2>1, <3>1, <3>3, <3>4 DEF Active
    <3>7. OwnSide'
      BY <1>2, <2>1, <2>7, <3>1
    <3> QED
      BY <1>4, <2>1, <3>2, <3>5, <3>6, <3>7
  <2>8. CASE RGoes("answer1", "answer2") /\ Accepted(RCall) /\ UNCHANGED <<isIncomingCall, xcallid>>
    <3>1. RAt = "answer1" /\ RAt' = "answer2" /\ RCall' = RCall /\ RCall \in Calls /\ line[RCall] = "talking"
      BY <2>8 DEF RGoes, LineInv
    <3>2. xcallid \in {RCall, None} /\ OwnStats(RCall) /\ (RCall \notin placed => isIncomingCall)
      BY <1>2, <3>1
    <3>3. CASE UNCHANGED <<signallingStats, reports>>
      BY <1>2, <1>4, <1>5, <2>1, <2>8, <3>1, <3>3
    <3>4. ASSUME signallingStats # None, signallingStats' = WithXCallUUID,
                 NEW e \in Events, Answered(RCall, e), reports' = Append(reports, e)
          PROVE  OwnInv'
      <4>1. WithXCallUUID.xcallUUID \in {RCall, None}
        BY <1>1, <3>2, <3>4, NamedStats DEF OwnStats
      <4>2. signallingStats'.xcallUUID \in {RCall, None}
        BY <3>4, <4>1
      <4>3. e.uuid \in {e.call, None} /\ (e.call \notin placed => e.incoming)
        BY <3>2, <3>4, <4>1 DEF Answered
      <4>4. OwnReports'
        BY <1>1, <1>2, <2>1, <3>4, <4>3, OwnReportsKept
      <4>5. \A d \in Calls : Active(d) => d = RCall
        BY <3>1 DEF LineInv, Active
      <4>6. OwnUuids'
        BY <1>2, <1>3, <2>1, <2>8, <3>1, <4>2, <4>5 DEF Active
      <4>7. OwnEarly'
        BY <1>3, <2>1, <3>1, <4>2, <4>5 DEF Active
      <4>8. OwnSide'
        BY <1>2, <2>1, <2>8, <3>1
      <4> QED
        BY <4>4, <4>6, <4>7, <4>8
    <3> QED
      BY <1>1, <2>8, <3>1, <3>3, <3>4, AcceptedIs
  <2>9. CASE RGoes("end1", "end2") /\ OnEnd(RCall, RWhy) /\ UNCHANGED isIncomingCall
    <3>1. RAt = "end1" /\ RAt' = "end2" /\ RCall \in Calls /\ NobodyActive
      BY <2>9 DEF RGoes, LineInv
    <3>2. \A d \in Calls : ~Subject(d)' /\ ~BeforeEarly(d)'
      BY <2>1, <3>1 DEF NobodyActive, Active
    <3>3. OwnReports'
      <4>1. CASE reports' = reports
        BY <1>4, <2>1, <4>1
      <4>2. ASSUME signallingStats # None, NEW stats \in {signallingStats, WithXCallUUID}, NEW e \in Events,
                   SummaryOf(RCall, stats, e), reports' = Append(reports, e)
            PROVE  OwnReports'
        <5>1. xcallid \in {RCall, None} /\ OwnStats(RCall) /\ (RCall \notin placed => isIncomingCall)
          BY <1>2, <3>1, <4>2
        <5>2. stats.xcallUUID \in {RCall, None}
          BY <1>1, <4>2, <5>1, NamedStats DEF OwnStats
        <5>3. e.uuid \in {e.call, None} /\ (e.call \notin placed => e.incoming)
          BY <4>2, <5>1, <5>2 DEF SummaryOf
        <5> QED
          BY <1>1, <1>2, <2>1, <4>2, <5>3, OwnReportsKept
      <4> QED
        BY <1>1, <2>9, <3>1, <4>1, <4>2, EndIs DEF CleanupCallData
    <3> QED
      BY <3>2, <3>3
  <2> QED
    BY <1>10, <2>2, <2>3, <2>4, <2>5, <2>6, <2>7, <2>8, <2>9 DEF RJob, Npe
<1>11. CASE WJob
  <2>1. RAt = "idle" /\ RAt' = "idle" /\ placed' = placed
    BY <1>11 DEF WJob, WGoes
  <2>2. CASE /\ WGoes("log", "idle") \/ WGoes("call1", "call2") \/ WGoes("take1", "take2")
             /\ UNCHANGED <<line, dataVars>>
    BY <1>2, <1>4, <1>5, <2>1, <2>2 DEF WGoes, dataVars
  <2>3. CASE WGoes("call2", "call3") /\ Advances(WCall, "invited") /\ UNCHANGED dataVars
    <3>1. WCall \in Calls /\ line[WCall] = "placed"
      BY <2>3 DEF WGoes, LineInv
    <3> QED
      BY <1>1, <1>2, <1>4, <1>5, <2>1, <2>3, <3>1, AdvancedLine DEF WGoes, dataVars
  <2>4. CASE WGoes("call3", "idle") /\ (IF isIncomingCall THEN Unaffected ELSE OnCalling) /\ UNCHANGED <<isIncomingCall, line>>
    <3>1. WCall \in Calls /\ line[WCall] = "invited" /\ WAt' = "idle"
      BY <2>4 DEF WGoes, LineInv
    <3>2. UNCHANGED <<xcallid, reports>> /\ (isIncomingCall \/ signallingStats' = NewStats)
      BY <2>4 DEF OnCalling, Unaffected
    <3>3. \A d \in Calls : ~Heard(d)
      BY <3>1 DEF LineInv, Active
    <3>4. signallingStats' = NewStats => \A d : OwnStats(d)'
      BY NewIs DEF OwnStats
    <3> QED
      BY <1>4, <2>1, <2>4, <3>1, <3>2, <3>3, <3>4
  <2>5. CASE WGoes("take2", "take3") /\ Accepted(WCall) /\ UNCHANGED <<isIncomingCall, xcallid, line>>
    <3>1. WAt = "take2" /\ WAt' = "take3" /\ WCall' = WCall /\ WCall \in Calls /\ line[WCall] = "accepting"
      BY <2>5 DEF WGoes, LineInv
    <3>2. xcallid \in {WCall, None} /\ OwnStats(WCall) /\ (WCall \notin placed => isIncomingCall)
      BY <1>2, <2>1, <3>1
    <3>3. CASE UNCHANGED <<signallingStats, reports>>
      BY <1>2, <1>4, <1>5, <2>1, <2>5, <3>1, <3>3
    <3>4. ASSUME signallingStats # None, signallingStats' = WithXCallUUID,
                 NEW e \in Events, Answered(WCall, e), reports' = Append(reports, e)
          PROVE  OwnInv'
      <4>1. WithXCallUUID.xcallUUID \in {WCall, None}
        BY <1>1, <3>2, <3>4, NamedStats DEF OwnStats
      <4>2. signallingStats'.xcallUUID \in {WCall, None}
        BY <3>4, <4>1
      <4>3. e.uuid \in {e.call, None} /\ (e.call \notin placed => e.incoming)
        BY <3>2, <3>4, <4>1 DEF Answered
      <4>4. OwnReports'
        BY <1>1, <1>2, <2>1, <3>4, <4>3, OwnReportsKept
      <4>5. \A d \in Calls : Active(d) => d = WCall
        BY <3>1 DEF LineInv, Active
      <4>6. OwnUuids'
        BY <1>2, <1>3, <2>1, <2>5, <3>1, <4>2, <4>5 DEF Active
      <4>7. OwnEarly'
        BY <1>3, <2>1, <2>5, <3>1, <4>2, <4>5 DEF Active
      <4>8. OwnSide'
        BY <1>2, <2>1, <2>5, <3>1
      <4> QED
        BY <4>4, <4>6, <4>7, <4>8
    <3> QED
      BY <1>1, <2>5, <3>1, <3>3, <3>4, AcceptedIs
  <2>6. CASE WGoes("take3", "idle") /\ Advances(WCall, "talking") /\ UNCHANGED dataVars
    <3>1. WCall \in Calls /\ line[WCall] = "accepting"
      BY <2>6 DEF WGoes, LineInv
    <3> QED
      BY <1>1, <1>2, <1>4, <1>5, <2>1, <2>6, <3>1, AdvancedLine DEF WGoes, dataVars
  <2> QED
    BY <1>11, <2>2, <2>3, <2>4, <2>5, <2>6 DEF WJob
<1> QED
  BY <1>6, <1>7, <1>8, <1>9, <1>10, <1>11 DEF Flat

\* Every event that CallInsights gets carries the UUID of its own call or none,
\* and one about a received call says so, although xcallid, isIncomingCall and the
\* statistics are one field each and outlive the calls.  (isIncomingCall is never
\* reset, so a call placed after a received one is reported as incoming too.)
THEOREM ReportsOwn == Spec => []ReportsOwnCall
<1> DEFINE Calm == Only({"stalePc", "noUuid", "localHangup", "relogin"})
           Inv == Calm => OwnInv
<1>1. Init => Inv
  <2> SUFFICES ASSUME Init PROVE OwnInv
    OBVIOUS
  <2>1. Idle /\ \A c \in Calls : line[c] = "new"
    BY InitTyped DEF Init
  <2>2. DOMAIN reports = {}
    BY DEF Init
  <2> QED
    BY <2>1, <2>2 DEF OwnInv, OwnUuids, OwnEarly, OwnSide, OwnReports, Idle, Subject, Heard, BeforeEarly
<1>2. Typed /\ SequentialInv /\ Inv /\ [Next]_vars => Inv'
  <2> SUFFICES ASSUME Typed, SequentialInv, Inv, [Next]_vars, Calm' PROVE OwnInv'
    BY Zenon
  <2>1. Calm
    BY LibertiesFixed DEF Only
  <2>2. ~May("overlap") /\ ~May("silent") /\ ~May("callWaiting")
    BY <2>1 DEF Only, May
  <2>3. OneBusy /\ LineInv /\ OwnInv
    BY <2>1, <2>2 DEF SequentialInv
  <2>4. Flat
    BY <2>2, <2>3, SequentialStep
  <2> QED
    BY <2>2, <2>3, <2>4, OwnKept
<1>3. Inv => ReportsOwnCall
  BY DEF OwnInv, OwnReports, ReportsOwnCall
<1> QED
  BY <1>1, <1>2, <1>3, AlwaysSequential, PTL DEF Spec
=============================================================================
