---------------------------- MODULE SipReceiver ----------------------------
(***************************************************************************)
(* The receiver thread of rtcsip::SipControllerCore: how registerUser      *)
(* starts it (setupTransport), how it pumps the DialogUsageManager         *)
(* (receive) and how unregisterUser stops it and waits for it.             *)
(*                                                                         *)
(* The grain is that of the code's locks.  receive() and unregisterUser()  *)
(* share m_receiveMutex; setupTransport() writes m_run and m_receiveClosed *)
(* under m_controllerMutex, which neither of the two takes, so its three   *)
(* assignments are three steps here.  A wait on m_receiveCondition that is *)
(* not a loop returns on any wakeup, so wakeups are modelled one by one,   *)
(* spurious ones too.                                                      *)
(***************************************************************************)
EXTENDS Naturals

CONSTANTS
    Receivers,    \* the std::thread objects; each is started at most once
    MaxEvents,    \* bound on the events pending in the DialogUsageManager
    Liberties     \* what the environment may do beyond the plain cycle
                  \* login, logout, login, ... (see AllLiberties)

(***************************************************************************)
(* "logoutFirst": unregisterUser with no receiver ever started.            *)
(* "relogin":     registerUser again while a registration is up.           *)
(* "proxy":       registerUser with a proxy and headers.                   *)
(***************************************************************************)
AllLiberties == {"logoutFirst", "relogin", "proxy"}

ASSUME LibertiesAssumption == Liberties \subseteq AllLiberties
ASSUME MaxEventsAssumption == MaxEvents \in Nat \ {0}
ASSUME ReceiversAssumption == "app" \notin Receivers /\ "free" \notin Receivers

VARIABLES
    m_run,            \* what receive() reads to go on
    m_receiveClosed,  \* set by receive() when it leaves its loop
    isProxyRegister,  \* which kind of REGISTER was the last one
    receiveMutex,     \* "free", "app" or the receiver that holds it
    app,              \* where the application thread is
    loggedIn,         \* a receiver was started and unregisterUser not called since
    pc,               \* where each receiver is
    run,              \* each receiver's local copy of m_run
    pending           \* number of events hasEvents()/process() will see

vars == <<m_run, m_receiveClosed, isProxyRegister, receiveMutex, app, loggedIn,
          pc, run, pending>>

AppPC == {"idle", "setup", "reset", "spawn", "stop", "check", "waiting", "wake"}
ReceiverPC == {"new", "poll", "process", "lock", "hold", "closing", "notify", "done"}

\* A receiver inside the loop of receive(): it may still process events.
Looping == {"poll", "process", "lock", "hold"}
\* A receiver that has not yet set m_receiveClosed.
Live == Looping \cup {"closing"}

Started == \E r \in Receivers : pc[r] # "new"

Init == /\ m_run = FALSE
        /\ m_receiveClosed = FALSE
        /\ isProxyRegister \in BOOLEAN     \* not initialised by the constructor
        /\ receiveMutex = "free"
        /\ app = "idle"
        /\ loggedIn = FALSE
        /\ pc = [r \in Receivers |-> "new"]
        /\ run = [r \in Receivers |-> TRUE]
        /\ pending = 0

----------------------------------------------------------------------------
(***************************************************************************)
(* Faulty variants of the steps below, named <step>_<fault>.  No           *)
(* specification uses them: each is put in the place of its step to see    *)
(* that the property it is paired with notices.                            *)
(***************************************************************************)

\* setupTransport forgets m_run = true
SetupTransport_KeepsRun ==
    /\ app = "setup"
    /\ app' = IF isProxyRegister THEN "idle" ELSE "reset"
    /\ UNCHANGED <<m_run, m_receiveClosed, isProxyRegister, receiveMutex, loggedIn, pc,
                   run, pending>>

\* unregisterUser waits without looking at m_receiveClosed
CheckClosed_Blind ==
    /\ app = "check"
    /\ receiveMutex = "free"
    /\ app' = "waiting"
    /\ UNCHANGED <<m_run, m_receiveClosed, isProxyRegister, receiveMutex, loggedIn, pc,
                   run, pending>>

\* unregisterUser forgets m_run = false
StopRun_KeepsRun ==
    /\ app = "stop"
    /\ receiveMutex = "free"
    /\ app' = "check"
    /\ UNCHANGED <<m_run, m_receiveClosed, isProxyRegister, receiveMutex, loggedIn, pc,
                   run, pending>>

\* receive leaves the block without m_receiveMutex.unlock()
Unlock_Forgotten(r) ==
    /\ pc[r] = "hold"
    /\ pc' = [pc EXCEPT ![r] = IF run[r] THEN "poll" ELSE "closing"]
    /\ UNCHANGED <<m_run, m_receiveClosed, isProxyRegister, receiveMutex, app, loggedIn,
                   run, pending>>

\* receive goes on with the m_run that it read first
ReadRun_Once(r) ==
    /\ pc[r] = "lock"
    /\ receiveMutex = "free"
    /\ receiveMutex' = r
    /\ pc' = [pc EXCEPT ![r] = "hold"]
    /\ UNCHANGED <<m_run, m_receiveClosed, isProxyRegister, app, loggedIn, run, pending>>

----------------------------------------------------------------------------
(* The application thread *)

\* registerUser: the overloads differ in isProxyRegister only.
RegisterUser(proxy) ==
    /\ app = "idle"
    /\ proxy => "proxy" \in Liberties
    /\ loggedIn => (proxy \/ "relogin" \in Liberties)
    /\ \E r \in Receivers : pc[r] = "new"    \* bound: a thread is left to start
    /\ isProxyRegister' = proxy
    /\ app' = "setup"
    /\ UNCHANGED <<m_run, m_receiveClosed, receiveMutex, loggedIn, pc, run, pending>>

\* setupTransport, up to m_run = true.  A proxy registration starts no thread.
SetupTransport ==
    /\ app = "setup"
    /\ IF isProxyRegister
       THEN /\ app' = "idle"
            /\ m_run' = m_run
       ELSE /\ app' = "reset"
            /\ m_run' = TRUE
    /\ UNCHANGED <<m_receiveClosed, isProxyRegister, receiveMutex, loggedIn, pc, run,
                   pending>>

\* m_receiveClosed = false
ResetClosed ==
    /\ app = "reset"
    /\ m_receiveClosed' = FALSE
    /\ app' = "spawn"
    /\ UNCHANGED <<m_run, isProxyRegister, receiveMutex, loggedIn, pc, run, pending>>

\* m_receiver = new std::thread(&SipControllerCore::receive, this)
StartReceiver ==
    /\ app = "spawn"
    /\ \E r \in Receivers :
          /\ pc[r] = "new"
          /\ pc' = [pc EXCEPT ![r] = "poll"]
          /\ run' = [run EXCEPT ![r] = TRUE]
    /\ loggedIn' = TRUE
    /\ app' = "idle"
    /\ UNCHANGED <<m_run, m_receiveClosed, isProxyRegister, receiveMutex, pending>>

\* unregisterUser, up to the first lock of m_receiveMutex
UnregisterUser ==
    /\ app = "idle"
    /\ Started \/ "logoutFirst" \in Liberties
    /\ loggedIn' = FALSE
    /\ app' = "stop"
    /\ UNCHANGED <<m_run, m_receiveClosed, isProxyRegister, receiveMutex, pc, run,
                   pending>>

\* m_run = false under m_receiveMutex
StopRun ==
    /\ app = "stop"
    /\ receiveMutex = "free"
    /\ m_run' = FALSE
    /\ app' = "check"
    /\ UNCHANGED <<m_receiveClosed, isProxyRegister, receiveMutex, loggedIn, pc, run,
                   pending>>

\* if (!m_receiveClosed) m_receiveCondition.wait(...): the test and the entry
\* into the wait set are one critical section, which the wait then releases
CheckClosed ==
    /\ app = "check"
    /\ receiveMutex = "free"
    /\ app' = IF m_receiveClosed THEN "idle" ELSE "waiting"
    /\ UNCHANGED <<m_run, m_receiveClosed, isProxyRegister, receiveMutex, loggedIn, pc,
                   run, pending>>

\* wait() returns although nobody notified (external: std::condition_variable)
SpuriousWakeup ==
    /\ app = "waiting"
    /\ app' = "wake"
    /\ UNCHANGED <<m_run, m_receiveClosed, isProxyRegister, receiveMutex, loggedIn, pc,
                   run, pending>>

\* wait() has the mutex again; m_receiveClosed is not tested a second time
WaitReturns ==
    /\ app = "wake"
    /\ receiveMutex = "free"
    /\ app' = "idle"
    /\ UNCHANGED <<m_run, m_receiveClosed, isProxyRegister, receiveMutex, loggedIn, pc,
                   run, pending>>

----------------------------------------------------------------------------
(* receive(), run by each receiver thread *)

\* while (run) if (m_userAgent->hasEvents())
HasEvents(r) ==
    /\ pc[r] = "poll"
    /\ pending > 0
    /\ pc' = [pc EXCEPT ![r] = "process"]
    /\ UNCHANGED <<m_run, m_receiveClosed, isProxyRegister, receiveMutex, app, loggedIn,
                   run, pending>>

\* onSuccess: the answer to a REGISTER, whichever kind it was
OnSuccess == isProxyRegister' = FALSE

\* m_userAgent->process(): one event, which may be the answer to a REGISTER
Process(r) ==
    /\ pc[r] = "process"
    /\ pending' = IF pending > 0 THEN pending - 1 ELSE 0
    /\ OnSuccess \/ UNCHANGED isProxyRegister
    /\ pc' = [pc EXCEPT ![r] = "lock"]
    /\ UNCHANGED <<m_run, m_receiveClosed, receiveMutex, app, loggedIn, run>>

\* m_receiveMutex.lock(); run = m_run; sleepMs(100)
ReadRun(r) ==
    /\ pc[r] = "lock"
    /\ receiveMutex = "free"
    /\ receiveMutex' = r
    /\ run' = [run EXCEPT ![r] = m_run]
    /\ pc' = [pc EXCEPT ![r] = "hold"]
    /\ UNCHANGED <<m_run, m_receiveClosed, isProxyRegister, app, loggedIn, pending>>

\* m_receiveMutex.unlock(); while (run)
Unlock(r) ==
    /\ pc[r] = "hold"
    /\ receiveMutex' = "free"
    /\ pc' = [pc EXCEPT ![r] = IF run[r] THEN "poll" ELSE "closing"]
    /\ UNCHANGED <<m_run, m_receiveClosed, isProxyRegister, app, loggedIn, run, pending>>

\* what notify_one does to the only thread that ever waits
Notified == IF app = "waiting" THEN "wake" ELSE app

\* m_receiveClosed = true under m_receiveMutex
Close(r) ==
    /\ pc[r] = "closing"
    /\ receiveMutex = "free"
    /\ m_receiveClosed' = TRUE
    /\ pc' = [pc EXCEPT ![r] = "notify"]
    /\ UNCHANGED <<m_run, isProxyRegister, receiveMutex, app, loggedIn, run, pending>>

\* m_receiveCondition.notify_one(), after the unlock
Notify(r) ==
    /\ pc[r] = "notify"
    /\ app' = Notified
    /\ pc' = [pc EXCEPT ![r] = "done"]
    /\ UNCHANGED <<m_run, m_receiveClosed, isProxyRegister, receiveMutex, loggedIn, run,
                   pending>>

----------------------------------------------------------------------------
(* The SIP stack (external): it posts an event to the DialogUsageManager *)
PostEvent ==
    /\ Started
    /\ pending < MaxEvents
    /\ pending' = pending + 1
    /\ UNCHANGED <<m_run, m_receiveClosed, isProxyRegister, receiveMutex, app, loggedIn,
                   pc, run>>

AppNext == \/ \E proxy \in BOOLEAN : RegisterUser(proxy)
           \/ SetupTransport \/ ResetClosed \/ StartReceiver
           \/ UnregisterUser \/ StopRun \/ CheckClosed \/ SpuriousWakeup \/ WaitReturns

Receive(r) == \/ HasEvents(r) \/ Process(r) \/ ReadRun(r) \/ Unlock(r)
              \/ Close(r) \/ Notify(r)

Next == AppNext \/ (\E r \in Receivers : Receive(r)) \/ PostEvent

Spec == Init /\ [][Next]_vars

(***************************************************************************)
(* Fairness.  Threads that can run do run; a thread that keeps asking for  *)
(* m_receiveMutex gets it in the end (strong fairness on the lock steps:   *)
(* receive() holds the mutex for 100 ms at a time and asks for it again at *)
(* once); the stack keeps posting events (its keep-alive timers fire every *)
(* 30 s or 180 s, createMasterProfile).  Nobody is obliged to log in or to *)
(* log out, and a wakeup is never obliged to be spurious.                  *)
(***************************************************************************)
Fairness ==
    /\ WF_vars(SetupTransport) /\ WF_vars(ResetClosed) /\ WF_vars(StartReceiver)
    /\ SF_vars(StopRun) /\ SF_vars(CheckClosed) /\ SF_vars(WaitReturns)
    /\ WF_vars(PostEvent)
    /\ WF_vars(\E r \in Receivers : HasEvents(r))
    /\ \A r \in Receivers :
          /\ WF_vars(Process(r)) /\ WF_vars(Unlock(r)) /\ WF_vars(Notify(r))
          /\ SF_vars(ReadRun(r)) /\ SF_vars(Close(r))

FairSpec == Spec /\ Fairness

----------------------------------------------------------------------------
(* Properties *)

\* The types of the shared variables and of the program counters of
\* setupTransport, unregisterUser and receive; m_receiveMutex belongs to nobody
\* but a receiver that is in the block it guards.
TypeOK == /\ m_run \in BOOLEAN
          /\ m_receiveClosed \in BOOLEAN
          /\ isProxyRegister \in BOOLEAN
          /\ receiveMutex \in Receivers \cup {"free"}
          /\ app \in AppPC
          /\ loggedIn \in BOOLEAN
          /\ pc \in [Receivers -> ReceiverPC]
          /\ run \in [Receivers -> BOOLEAN]
          /\ pending \in 0..MaxEvents
          /\ \A r \in Receivers : receiveMutex = r <=> pc[r] = "hold"

\* Once a receiver has ever been started, the thread that waits on
\* m_receiveCondition in unregisterUser always has a receiver that is still to
\* notify it: the flag and the wait set are handled in an order that loses no
\* wakeup, whatever the logins and logouts before.
NoLostWakeup ==
    app = "waiting" /\ Started => \E r \in Receivers : pc[r] \in Live \cup {"notify"}

\* After registerUser has started a receiver, and until unregisterUser is
\* called, some receiver is in the loop of receive() and will stay there: no
\* left-over of an earlier logout (m_run, the local copies of it) ends it.
LoginServed ==
    app = "idle" /\ loggedIn =>
        \E r \in Receivers : pc[r] \in Looping /\ run[r]

\* unregisterUser is no barrier: it may return while receivers still run, and a
\* login that follows at once gives them m_run = true again.  But if in the end
\* nobody logs in, every receiver there is, and be it left over from a login of
\* long ago, reads m_run = false and leaves receive().
ReceiversWindDown ==
    <>[]~loggedIn => <>[](\A r \in Receivers : pc[r] \notin Live)

\* unregisterUser returns once a receiver has been started.
LogoutReturns ==
    (app \in {"stop", "check", "waiting", "wake"} /\ Started) ~> app = "idle"

=============================================================================
