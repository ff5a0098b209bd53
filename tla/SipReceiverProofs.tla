------------------------- MODULE SipReceiverProofs -------------------------
(***************************************************************************)
(* Theorems about SipReceiver, for any set of receiver threads, any bound  *)
(* on the pending events and any liberties of the environment.             *)
(***************************************************************************)
EXTENDS SipReceiver, TLAPS

\* The constructor leaves every flag with its type, isProxyRegister included.
LEMMA InitTypeOK == Init => TypeOK
<1> SUFFICES ASSUME Init PROVE TypeOK
  OBVIOUS
<1>1. pending \in 0..MaxEvents
  BY MaxEventsAssumption DEF Init
<1> QED
  BY <1>1, ReceiversAssumption DEF Init, TypeOK, AppPC, ReceiverPC

\* The program counters, shared flags and mutex of setupTransport,
\* unregisterUser and receive keep their types.
THEOREM TypeCorrect == Spec => []TypeOK
<1>1. Init => TypeOK
  BY InitTypeOK
<1>2. TypeOK /\ [Next]_vars => TypeOK'
  <2> SUFFICES ASSUME TypeOK, [Next]_vars PROVE TypeOK'
    OBVIOUS
  <2> USE ReceiversAssumption DEF TypeOK, AppPC, ReceiverPC
  <2>1. ASSUME NEW proxy \in BOOLEAN, RegisterUser(proxy) PROVE TypeOK'
    BY <2>1 DEF RegisterUser
  <2>2. CASE SetupTransport
    BY <2>2 DEF SetupTransport
  <2>3. CASE ResetClosed
    BY <2>3 DEF ResetClosed
  <2>4. CASE StartReceiver
    BY <2>4 DEF StartReceiver
  <2>5. CASE UnregisterUser
    BY <2>5 DEF UnregisterUser
  <2>6. CASE StopRun
    BY <2>6 DEF StopRun
  <2>7. CASE CheckClosed
    BY <2>7 DEF CheckClosed
  <2>8. CASE SpuriousWakeup
    BY <2>8 DEF SpuriousWakeup
  <2>9. CASE WaitReturns
    BY <2>9 DEF WaitReturns
  <2>10. ASSUME NEW r \in Receivers, HasEvents(r) PROVE TypeOK'
    BY <2>10 DEF HasEvents
  <2>11. ASSUME NEW r \in Receivers, Process(r) PROVE TypeOK'
    <3>1. pending' \in 0..MaxEvents
      BY <2>11, MaxEventsAssumption DEF Process, OnSuccess
    <3>2. isProxyRegister' \in BOOLEAN
      BY <2>11, Zenon DEF Process, OnSuccess
    <3> QED
      BY <2>11, <3>1, <3>2 DEF Process, OnSuccess
  <2>12. ASSUME NEW r \in Receivers, ReadRun(r) PROVE TypeOK'
    BY <2>12 DEF ReadRun
  <2>13. ASSUME NEW r \in Receivers, Unlock(r) PROVE TypeOK'
    BY <2>13 DEF Unlock
  <2>14. ASSUME NEW r \in Receivers, Close(r) PROVE TypeOK'
    BY <2>14 DEF Close
  <2>15. ASSUME NEW r \in Receivers, Notify(r) PROVE TypeOK'
    BY <2>15 DEF Notify, Notified
  <2>16. CASE PostEvent
    BY <2>16, MaxEventsAssumption DEF PostEvent
  <2>17. CASE UNCHANGED vars
    BY <2>17 DEF vars
  <2> QED
    BY <2>1, <2>2, <2>3, <2>4, <2>5, <2>6, <2>7, <2>8, <2>9, <2>10, <2>11, <2>12,
       <2>13, <2>14, <2>15, <2>16, <2>17 DEF Next, AppNext, Receive
<1> QED
  BY <1>1, <1>2, PTL DEF Spec

----------------------------------------------------------------------------
(***************************************************************************)
(* The wakeup of unregisterUser.  Two facts are needed beside the types:   *)
(* while m_receiveClosed is false some started receiver is still to set it *)
(* (except between its reset and the start of the new thread), and a       *)
(* thread that waits although m_receiveClosed is already true has a        *)
(* receiver about to call notify_one.                                      *)
(***************************************************************************)
OpenHasLive ==
    app # "spawn" /\ Started /\ ~m_receiveClosed => \E r \in Receivers : pc[r] \in Live

ClosedHasNotifier ==
    app = "waiting" /\ m_receiveClosed => \E r \in Receivers : pc[r] = "notify"

WakeInv == TypeOK /\ OpenHasLive /\ ClosedHasNotifier

\* receive() sets m_receiveClosed under the mutex before notify_one, and
\* unregisterUser tests it and enters the wait under the same mutex.
LEMMA WakeInvInductive == WakeInv /\ TypeOK' /\ [Next]_vars => WakeInv'
<1> SUFFICES ASSUME WakeInv, TypeOK', [Next]_vars PROVE OpenHasLive' /\ ClosedHasNotifier'
  BY DEF WakeInv
<1> USE DEF WakeInv, OpenHasLive, ClosedHasNotifier, Started, Live, Looping, TypeOK,
            AppPC, ReceiverPC
<1>1. ASSUME NEW proxy \in BOOLEAN, RegisterUser(proxy)
      PROVE  OpenHasLive' /\ ClosedHasNotifier'
  BY <1>1 DEF RegisterUser
<1>2. CASE SetupTransport
  BY <1>2 DEF SetupTransport
<1>3. CASE ResetClosed
  BY <1>3 DEF ResetClosed
<1>4. CASE StartReceiver
  BY <1>4 DEF StartReceiver
<1>5. CASE UnregisterUser
  BY <1>5 DEF UnregisterUser
<1>6. CASE StopRun
  BY <1>6 DEF StopRun
<1>7. CASE CheckClosed
  BY <1>7 DEF CheckClosed
<1>8. CASE SpuriousWakeup
  BY <1>8 DEF SpuriousWakeup
<1>9. CASE WaitReturns
  BY <1>9 DEF WaitReturns
<1>10. ASSUME NEW r \in Receivers, HasEvents(r)
      PROVE  OpenHasLive' /\ ClosedHasNotifier'
  BY <1>10 DEF HasEvents
<1>11. ASSUME NEW r \in Receivers, Process(r)
      PROVE  OpenHasLive' /\ ClosedHasNotifier'
  BY <1>11 DEF Process
<1>12. ASSUME NEW r \in Receivers, ReadRun(r)
      PROVE  OpenHasLive' /\ ClosedHasNotifier'
  BY <1>12 DEF ReadRun
<1>13. ASSUME NEW r \in Receivers, Unlock(r)
      PROVE  OpenHasLive' /\ ClosedHasNotifier'
  BY <1>13 DEF Unlock
<1>14. ASSUME NEW r \in Receivers, Close(r)
      PROVE  OpenHasLive' /\ ClosedHasNotifier'
  BY <1>14 DEF Close
<1>15. ASSUME NEW r \in Receivers, Notify(r)
      PROVE  OpenHasLive' /\ ClosedHasNotifier'
  BY <1>15 DEF Notify, Notified
<1>16. CASE PostEvent
  BY <1>16 DEF PostEvent
<1>17. CASE UNCHANGED vars
  BY <1>17 DEF vars
<1> QED
  BY <1>1, <1>2, <1>3, <1>4, <1>5, <1>6, <1>7, <1>8, <1>9, <1>10, <1>11, <1>12,
     <1>13, <1>14, <1>15, <1>16, <1>17
     DEF Next, AppNext, Receive

\* unregisterUser never waits for a notify_one that nobody will call, once a
\* receiver has been started: for any number of logins and logouts, threads,
\* spurious wakeups and late notifications.
THEOREM WakeupNeverLost == Spec => []NoLostWakeup
<1>1. Init => WakeInv
  <2>1. Init => TypeOK
    BY InitTypeOK
  <2> QED
    BY <2>1 DEF Init, WakeInv, OpenHasLive, ClosedHasNotifier, Started
<1>2. WakeInv => NoLostWakeup
  BY DEF WakeInv, OpenHasLive, ClosedHasNotifier, NoLostWakeup
<1> QED
  BY <1>1, <1>2, TypeCorrect, WakeInvInductive, PTL DEF Spec

----------------------------------------------------------------------------
(***************************************************************************)
(* A login is served.  m_run is true from setupTransport on, until         *)
(* unregisterUser clears it, and unregisterUser is only entered with       *)
(* loggedIn cleared.                                                       *)
(***************************************************************************)
Registering == {"reset", "spawn"}
Unregistering == {"stop", "check", "waiting", "wake"}

ServedInv ==
    /\ app \in Unregistering => ~loggedIn
    /\ app \in Registering => m_run
    /\ loggedIn => /\ m_run
                   /\ \E r \in Receivers : pc[r] \in Looping /\ run[r]

\* Every copy of m_run that a receiver takes while logged in is true.
LEMMA ServedInvInductive == TypeOK /\ ServedInv /\ [Next]_vars => ServedInv'
<1> SUFFICES ASSUME TypeOK, ServedInv, [Next]_vars PROVE ServedInv'
  OBVIOUS
<1> USE DEF ServedInv, Registering, Unregistering, Looping, TypeOK, AppPC, ReceiverPC
<1>1. ASSUME NEW proxy \in BOOLEAN, RegisterUser(proxy)
      PROVE  ServedInv'
  BY <1>1 DEF RegisterUser
<1>2. CASE SetupTransport
  BY <1>2 DEF SetupTransport
<1>3. CASE ResetClosed
  BY <1>3 DEF ResetClosed
<1>4. CASE StartReceiver
  BY <1>4 DEF StartReceiver
<1>5. CASE UnregisterUser
  BY <1>5 DEF UnregisterUser
<1>6. CASE StopRun
  BY <1>6 DEF StopRun
<1>7. CASE CheckClosed
  BY <1>7 DEF CheckClosed
<1>8. CASE SpuriousWakeup
  BY <1>8 DEF SpuriousWakeup
<1>9. CASE WaitReturns
  BY <1>9 DEF WaitReturns
<1>10. ASSUME NEW r \in Receivers, HasEvents(r)
      PROVE  ServedInv'
  BY <1>10 DEF HasEvents
<1>11. ASSUME NEW r \in Receivers, Process(r)
      PROVE  ServedInv'
  BY <1>11 DEF Process
<1>12. ASSUME NEW r \in Receivers, ReadRun(r)
      PROVE  ServedInv'
  BY <1>12 DEF ReadRun
<1>13. ASSUME NEW r \in Receivers, Unlock(r)
      PROVE  ServedInv'
  BY <1>13 DEF Unlock
<1>14. ASSUME NEW r \in Receivers, Close(r)
      PROVE  ServedInv'
  BY <1>14 DEF Close
<1>15. ASSUME NEW r \in Receivers, Notify(r)
      PROVE  ServedInv'
  BY <1>15 DEF Notify, Notified
<1>16. CASE PostEvent
  BY <1>16 DEF PostEvent
<1>17. CASE UNCHANGED vars
  BY <1>17 DEF vars
<1> QED
  BY <1>1, <1>2, <1>3, <1>4, <1>5, <1>6, <1>7, <1>8, <1>9, <1>10, <1>11, <1>12,
     <1>13, <1>14, <1>15, <1>16, <1>17
     DEF Next, AppNext, Receive

\* After registerUser, and until unregisterUser, some receiver stays in the loop
\* of receive(), even if receivers of earlier logins are still winding down.
THEOREM LoginIsServed == Spec => []LoginServed
<1>1. Init => ServedInv
  BY DEF Init, ServedInv, Registering, Unregistering
<1>2. ServedInv => LoginServed
  BY DEF ServedInv, LoginServed
<1> QED
  BY <1>1, <1>2, TypeCorrect, ServedInvInductive, PTL DEF Spec

=============================================================================
