--------------------------- MODULE EndpointProofs ---------------------------
(***************************************************************************)
(* Theorems about Endpoint, for any set of calls and any environments.     *)
(***************************************************************************)
EXTENDS Endpoint, TLAPS

\* The flags of Endpoint, IO and NetworkChangeReceiver keep their types, and
\* isRegistered and isLogoutInProgress never leave FALSE: the guards of login
\* and logout (Endpoint.java:71-136) see an endpoint that is never registered.
THEOREM TypeCorrect == Spec => []TypeOK
<1> USE DEF TypeOK, Flags
<1>1. Init => TypeOK
  BY DEF Init
<1>2. TypeOK /\ [Next]_vars => TypeOK'
  <2> SUFFICES ASSUME TypeOK, [Next]_vars PROVE TypeOK'
    OBVIOUS
  <2> USE DEF endpointVars, callVars, lineVars
  <2>1. CASE OnReceive
    BY <2>1 DEF OnReceive
  <2>2. CASE Logout
    BY <2>2 DEF Logout
  <2>3. CASE ControllerLogin
    BY <2>3 DEF ControllerLogin
  <2>4. CASE Registered
    BY <2>4 DEF Registered
  <2>5. CASE UnregisterUser
    BY <2>5 DEF UnregisterUser
  <2>6. CASE ControllerHangup
    BY <2>6 DEF ControllerHangup
  <2>7. ASSUME NEW deviceToken \in {None, "", "token"}, Login(deviceToken) PROVE TypeOK'
    BY <2>7 DEF Login
  <2>8. ASSUME NEW c \in Calls, OnOffer(c) PROVE TypeOK'
    BY <2>8 DEF OnOffer
  <2>9. ASSUME NEW c \in Calls, OnTerminated(c) PROVE TypeOK'
    BY <2>9 DEF OnTerminated
  <2>10. ASSUME NEW c \in Calls, Answer(c) PROVE TypeOK'
    BY <2>10 DEF Answer
  <2>11. ASSUME NEW c \in Calls, Hold(c) PROVE TypeOK'
    BY <2>11 DEF Hold, Usable
  <2>12. ASSUME NEW c \in Calls, Unhold(c) PROVE TypeOK'
    BY <2>12 DEF Unhold, Usable
  <2>13. ASSUME NEW c \in Calls, UnholdMutes(c) PROVE TypeOK'
    BY <2>13 DEF UnholdMutes, Usable
  <2>14. ASSUME NEW c \in Calls, NEW on \in BOOLEAN, SetMute(c, on) PROVE TypeOK'
    BY <2>14 DEF SetMute
  <2>15. CASE UNCHANGED vars
    BY <2>15 DEF vars
  <2> QED
    BY <2>1, <2>2, <2>3, <2>4, <2>5, <2>6, <2>7, <2>8, <2>9, <2>10, <2>11, <2>12,
       <2>13, <2>14, <2>15 DEF Next
<1> QED
  BY <1>1, <1>2, PTL DEF Spec

-----------------------------------------------------------------------------
(***************************************************************************)
(* The mute of a call across unhold(), which clears it and asks for it     *)
(* again through a guard on the network flag.  MutedAsAsked excepts a call *)
(* inside unhold(); what brings it back is that such a call was muted on   *)
(* request, and that mute() will find the network there and the call       *)
(* active: only the thread that is inside unhold(), and is inside it for   *)
(* one call at a time, would take them away.                               *)
(***************************************************************************)
MuteInv ==
    \/ May("worker")
    \/ /\ \A c \in Calls \ unholding : isOnMute[c] = asked[c]
       /\ \A c \in unholding : asked[c] /\ ~isOnMute[c] /\ Usable(c)
       /\ \A c, d \in unholding : c = d

LEMMA MuteInvInductive ==
    ASSUME TypeOK, MuteInv, [Next]_vars
    PROVE  MuteInv'
<1> USE DEF TypeOK, Flags, MuteInv, Usable, May, endpointVars, callVars, lineVars
<1>1. CASE OnReceive
  BY <1>1 DEF OnReceive
<1>2. CASE Logout
  BY <1>2 DEF Logout
<1>3. CASE ControllerLogin
  BY <1>3 DEF ControllerLogin
<1>4. CASE Registered
  BY <1>4 DEF Registered
<1>5. CASE UnregisterUser
  BY <1>5 DEF UnregisterUser
<1>6. CASE ControllerHangup
  BY <1>6 DEF ControllerHangup
<1>7. ASSUME NEW deviceToken \in {None, "", "token"}, Login(deviceToken) PROVE MuteInv'
  BY <1>7 DEF Login
<1>8. ASSUME NEW c \in Calls, OnOffer(c) PROVE MuteInv'
  BY <1>8 DEF OnOffer
<1>9. ASSUME NEW c \in Calls, OnTerminated(c) PROVE MuteInv'
  BY <1>9 DEF OnTerminated
<1>10. ASSUME NEW c \in Calls, Answer(c) PROVE MuteInv'
  BY <1>10 DEF Answer, Given, Ready
<1>11. ASSUME NEW c \in Calls, Hold(c) PROVE MuteInv'
  BY <1>11 DEF Hold
<1>12. ASSUME NEW c \in Calls, Unhold(c) PROVE MuteInv'
  BY <1>12 DEF Unhold, Given, Ready
<1>13. ASSUME NEW c \in Calls, UnholdMutes(c) PROVE MuteInv'
  BY <1>13 DEF UnholdMutes
<1>14. ASSUME NEW c \in Calls, NEW on \in BOOLEAN, SetMute(c, on) PROVE MuteInv'
  BY <1>14 DEF SetMute, Given, Ready
<1>15. CASE UNCHANGED vars
  BY <1>15 DEF vars
<1> QED
  BY <1>1, <1>2, <1>3, <1>4, <1>5, <1>6, <1>7, <1>8, <1>9, <1>10, <1>11, <1>12,
     <1>13, <1>14, <1>15 DEF Next

\* unhold() (IO.java:168-203) puts a mute back: in environments whose operations
\* run on the thread that receives network changes, every call is muted exactly
\* if the last successful mute() or unmute() asked so, for any number of calls.
THEOREM MuteSurvivesHold == Spec => []MutedAsAsked
<1>1. Init => MuteInv
  BY DEF Init, MuteInv
<1>2. MuteInv => MutedAsAsked
  BY DEF MuteInv, MutedAsAsked
<1> QED
  BY <1>1, <1>2, MuteInvInductive, TypeCorrect, PTL DEF Spec
=============================================================================
