# Verification of the Plivo Android SDK's call signalling

This directory holds TLA+ models of the Plivo endpoint SDK, the TLC
configurations that check them on small instances, and TLAPS proofs of their
main properties for every size. The models are translated from the code under
`PlivoEndpoint/src/main`; `PROJECT.json` maps each definition to its lines.

## 1. The system

The SDK is a SIP user agent with WebRTC media. A call passes these layers:

```
 application
     |  Endpoint, Outgoing, Incoming (Java)
 SipController.java  <---- WebRTC signalling thread (SDP, ICE callbacks)
     |  JNI (rtcsip_jni.cpp)          ^ upcalls: call, call state, SDP, info
 SipControllerCore.cpp  <---- receiver thread (DUM callbacks)
     |
 resiprocate DialogUsageManager (DUM), external
```

| Component | State | Operations | Hard parts |
|---|---|---|---|
| Receiver thread (`SipControllerCore`: `registerUser`, `setupTransport`, `receive`, `unregisterUser`) | `m_run`, `m_receiveClosed`, `isProxyRegister`, `m_receiveMutex`, `m_receiveCondition`, the threads | log in, log out, pump events | two mutexes for one pair of flags; a wait without a loop, which any wakeup ends; flags left by the last logout |
| Call state (`SipControllerCore`: everything about sessions) | `mProgress`, eight flags and data fields, two session pointers, two function-local statics | `createSession`, `acceptSession`, `reject`, `terminateSession`, `onIceCandidate`, `onIceGatheringFinished`, thirteen DUM callbacks | one set of flags for all calls, reset in four places, most of it used without the lock; callbacks, ICE and user on three threads |
| JNI bridge | global references | downcalls, upcalls | upcalls from two threads into synchronized methods |
| `SipController.java` | peer connection, `didSentInvite`, `isIncomingCall`, `xcallid`, `signallingStats` | upcalls, `makeCall`, `answer`, `hangup` | two threads of upcalls; fields that survive a call |
| `Endpoint`, `IO`, `Incoming`, `Outgoing` | registered, mute, hold, active | the public API | guards on flags that others should set |
| `CallInsights` | statistics buffer, web socket, timer, key | send, flush, stop | three threads on one list; a socket opened lazily |
| `RtpStats`, `SignallingStats` | sliding windows, warning flags, time stamps | per-interval computation | window boundaries, zero counts |
| Vendored `java_websocket` | the ready state of a socket | open, send, close | a socket that closes while it is used; only the states `CallInsights` sees are modelled |
| Helpers, vendored `slf4j`, resiprocate and OpenSSL headers | - | - | not modelled |

What makes the parts correct: a login is served, a logout returns and receivers
end in the end (receiver; a logout is no barrier, see below); a call leaves nothing behind, is invited and answered
once and only when the user wants it, and can be hung up (call state); every
call is reported in the right order to the right handler (SipController); a
statistic is delivered once and in order (CallInsights); a warning says what was
measured (RtpStats); an operation of the API does what its guards and messages
promise (Endpoint).

## 2. Modules

### SipReceiver, SipReceiverProofs, MCSipReceiver

One application thread and any number of receiver threads (`Receivers`). The
steps are the code's critical sections; `setupTransport` takes a mutex that
`receive` does not know, so its three assignments are three steps
(`SetupTransport`, `ResetClosed`, `StartReceiver`). `unregisterUser` is
`UnregisterUser`, `StopRun`, `CheckClosed` and `WaitReturns`; the loop of
`receive` is `HasEvents`, `Process`, `ReadRun`, `Unlock`, and its end is `Close`
(the flag, under the lock) and `Notify`, which the scheduler may delay for ever so
long. `PostEvent` is the SIP stack, `SpuriousWakeup` the condition variable; both
are external, and a spurious wakeup is possible in every environment. A logout can
so return before its receiver has stopped, and an old receiver can meet the next
login: `unregisterUser` is no barrier, and no property says that it is one.

The constant `Liberties` says what the application may do besides the plain cycle
of login and logout: `logoutFirst`, `relogin`, `proxy`.

### SipCall, SipCallProofs, SipLineProofs, MCSipCall

The call state, on three threads: WebRTC's signalling thread (`atW`: `createSession`,
`acceptSession`, `onIceCandidate`, `onIceGatheringFinished`), the application's
(`atA`: `terminateSession`, `reject`, `unregisterUser`) and the receiver's (`atR`:
the callbacks of the DUM). A step ends where another thread can see or change what
the function goes on with: at an unlock of `m_controllerMutex`, between a test and
the use it guards, around an upcall.

| Function | Steps |
|---|---|
| `createSession`, `acceptSession` | `CreateSession` / `AcceptSession`, `SetLocalSdp`, `SendOffer` / `SendAnswer`, `SetInCall` (accept only) |
| `onIceGatheringFinished` | `OnIceGatheringFinished`, `SendOffer` / `SendAnswer`, `SetInCall`, `SetCollected` |
| `terminateSession` | `TerminateSession` (the test of `mProgress`), `ClearInCall` (lock, then the test of the sessions), `EndCall`, `ResetSession` |
| `reject` | `Reject`, `RejectSession`, `ResetRejected` |
| `onOffer`, `onAnswer` | `OnOffer`, `EndOffer`; `OnAnswer`, `EndAnswer` |
| `onTerminated` | `OnTerminated` (reads `m_inCall`, upcalls), `FinishTerminated` |

The other callbacks are one step each. Strings and logging are left out. A local
SDP, and a candidate, is the call attempt (`Calls`) that produced it. `Dialogs` are
the DUM's INVITE dialogs; `state` is where each one is, including the points
between two callbacks of one message. A final error may be the first response to
an INVITE; `onNewSession` is then skipped. `crashed` says that a null or dead
session or message was used or that the DUM threw; a call on a session object that
is over is undefined behaviour and may do either. Uninitialised members
(`mProgress`, `isUACRejected`, `m_inInBoundAccepted`) start with any value.
`InviteSession::end` and `ServerInviteSession::reject` may call `onTerminated`
before they return or later; both are modelled.

The code keeps one set of flags, so it relies on users, WebRTC and peers not to
do certain things. The constant `Liberties` holds what they may do (the list is
in the module). That both sides hang up at once is not among them: it is always
possible, and so is the crash it can lead to, since `terminateSession` tests and
uses a session without the lock (830, 831). What holds is that such a crash takes
no call with it that is up (`CrashTakesNoCall`). Checked one by one with two calls
and two dialogs, this is what each liberty costs (x: the property fails):

| Liberty | CrashTakesNoCall | OneInvitePerCall | CleanWhenQuiet | HangupReaches | CallGoesOut | AcceptGoesOut | LineKept |
|---|---|---|---|---|---|---|---|
| hasty: a call ends, or is hung up, while an operation or callback still sets its flags | x |   | x | x | x | x | x |
| earlyHangup: hang up before the first response | x |   | x | x |   | x | x |
| lateAnswer: answer a call that is over | x |   | x |   | x |   | x |
| lateIce: candidates of a call that is over | x |   | x |   |   |   | x |
| callWaiting: a second call meanwhile | x | x | x | x | x | x | x |
| logoutInCall | x | x | x | x | x | x | x |
| reject (called by nothing in the repository) | x |   | x | x | x | x | x |
| staleReject: a final error as first response, with `isUACRejected` set | x |   | x |   | x |   |   |
| foreignAgent: User-Agent without "plivo" | x |   | x | x |   | x | x |
| bodiless: a first response without a body | x |   |   |   |   |   |   |
| noMessage: onTerminated without a message |   |   |   |   |   |   |   |
| fork: forks, redirections, stale calls |   |   |   | x |   |   |   |
| reinvite: an offer in an established dialog |   |   |   |   |   |   |   |

The row of `hasty` is the price of the unlocked windows inside the operations (an
INVITE leaves at line 267, `m_inCall` is set at 791 and
`m_localCandidatesCollected` at 806; `m_localSdp` is read unlocked at 217-219); the
run `already_destroyed` shows it as a trace.
`noMessage` does crash, but only with the call that is over.

`LineView` reads the line from what user and peers know: the call in progress and
what was sent for it, not from the controller's flags, which may lag behind.
`Line` is the instance of `PhoneLine` under this mapping, and `LineKept` says
that `SipCall` implements it.

### PhoneLine

The abstract telephone line: idle, placing, outgoing, ringing, accepted,
incoming, with the INVITEs and answers that were sent. `FairLineSpec` adds that
what was placed goes out and what was accepted is answered.

### SipController, SipControllerProofs, MCSipController

`SipController.java` and the upcalls of `rtcsip_jni.cpp`. Two threads, the SIP
receiver `R` and WebRTC's signalling thread `W`, each work off the list of jobs
(`todo`) of the callback they are in: upcalls, and the moments at which an INVITE
or a 200 leaves. An upcall is one step, because the Java method is synchronized;
`setRemoteSDP` is two, because it waits for `W` while it owns the monitor. A
call stands for its X-CallUUID. `npe` records where a `NullPointerException`
arose; without the liberty `survives` the first one ends the process. A call ends
for any of the reasons of `onTerminated`, with the status of its reason or with that
of the response that came with it (`Ends`); a final error may be the first response.
`hangup()` is public, and the application may call it at any time.

Here, in `CallInsights` and in `Endpoint`, the constant `Environments` holds sets
of liberties; the variable `liberties` is one of them, chosen initially and never
changed. One run so covers many environments, and a property that some liberty
breaks names, in its first line, the environments for which it is claimed
(`Only({...}) => ...`). What each liberty costs, with `survives` (three calls;
x: the property fails, and its condition excludes the liberty):

| Liberty | OnlyHangupThrows | ReportsOwnCall | SummaryLast | TimersStopped | CallProceeds |
|---|---|---|---|---|---|
| stalePc: a call without hangup() after the last one |   |   |   |   | x |
| overlap: both threads in callbacks at once | x | x | x | x |   |
| silent: an answer or an end before early media | x | x |   |   |   |
| noUuid: no X-CallUUID from the peer | x |   |   | x |   |
| localHangup: an end by no message of the peer |   |   |   | x |   |
| callWaiting: a second call meanwhile | x | x |   |   |   |
| relogin: a registration during a call | x |   |   | x |   |

`AnswerReported` fails with `overlap`, `silent`, `noUuid` and `relogin`; the type
invariant has no condition. `overlap` together with `callWaiting` breaks
`CallProceeds` too, by a deadlock: `R` waits in `setRemoteSDP` for `W`, which waits
for the monitor.

### CallInsights, StatChannel, CallInsightsProofs, MCCallInsights

The statistics buffer, the socket field, the timer. A step is one access to the
shared state: an `add`, the test of the socket, one turn of the loop that sends,
the `clear`. The loop over `statBuffer` is an iterator that every `add` and
`clear` of another thread invalidates, as `ArrayList`'s does. A socket is, like
`WebSocketImpl`, connecting, open or closed, and has a thread that runs `onOpen`;
`send` throws unless it is open. The
fields `recorded` and `sent` are histories; with them as `recorded` and
`delivered`, `ChannelKept` says that `CallInsights` implements `StatChannel`:
every statistic is delivered, once, in order. What each liberty costs:

| Liberty | TimerStopsWithCall | ChannelKept | NothingLost | FirstDeliveryInOrder |
|---|---|---|---|---|
| overlap: two threads inside at once |   | x | x |   |
| drop: a socket fails or is closed by the peer |   | x |   |   |
| noUuid: a statistic without X-CallUUID |   | x |   |   |
| unstopped: a call ends with status 603 | x |   |   |   |
| feedback: the application sends feedback |   |   |   |   |

(Two calls and three sockets; one call for `overlap` and `feedback`.)

### RtpStats, RtpStatsProofs, MCRtpStats

One step is one report, whose local or remote half may be missing. Measures are
integers, MOS in 1/10000, rounded to three decimals where `processStats` hands it on
(`RoundedMos`), the R factor in tenths. `samples` keeps the last three
measures of each metric apart from the code's own lists, as the reference for
`WarningIsWindow`. The level of the audio is no input: the function that would
read it is commented out, so it is -100 dB in every report.

### Endpoint, EndpointProofs, MCEndpoint

`Endpoint`, `Incoming` with `IO`, and `NetworkChangeReceiver`. An application
logs in through `Endpoint` or through the public `SipController`; `line` is the
call at the SIP side, `asked` the last mute or unmute that succeeded. `unhold()`
is two steps, because it calls `mute()`, which reads the network flag again; with
the liberty `worker` the flag may change in between, and a mute can be lost. `Answer` answers the call of the one peer connection,
whichever `Incoming` it is called on.

The faulty variants `<step>_<fault>` in the modules are not part of any
specification. Each property of a passing run is paired with one of them; with
the variant in the place of the step, TLC finds the property violated.

## 3. Runs

| Run | Configuration | Checks | Shows |
|---|---|---|---|
| `receiver` | `SipReceiver.cfg` | `TypeOK`, `NoLostWakeup`, `LoginServed`, `LogoutReturns`, `ReceiversWindDown` | all liberties, spurious wakeups and late notifies: no wakeup is lost, a login is served, a logout returns, and all receivers end once nobody logs in any more |
| `call_disciplined` | `SipCallDisciplined.cfg` | `CrashTakesNoCall`, `OneInvitePerCall`, `CleanWhenQuiet`, `HangupReaches`, `CallGoesOut`, `AcceptGoesOut`, `LineKept` | one call at a time, three threads inside: clean flags, one INVITE, hang-up works, a crash takes no call that is up, and the controller implements `PhoneLine`, liveness included |
| `call_liberal` | `SipCallLiberal.cfg` | `TypeOK`, `EndedOnce` | all liberties at once |
| `controller` | `SipController.cfg` | `TypeOK`, `OnlyHangupThrows`, `AnswerReported`, `ReportsOwnCall`, `SummaryLast`, `TimersStopped`, `CallProceeds` | reports are complete, in order and under the right UUID, calls proceed; each in the environments of its condition |
| `insights_disciplined` | `CallInsightsDisciplined.cfg` | `TimerStopsWithCall`, `ChannelKept` | one thread inside at a time: `CallInsights` implements `StatChannel` |
| `insights_faulty` | `CallInsightsFaulty.cfg` | `TypeOK`, `NothingLost`, `FirstDeliveryInOrder` | sockets that fail lose nothing; overlapping threads keep the order of first deliveries |
| `rtp_windows` | `RtpStatsWindows.cfg` | `WarningIsWindow`, `LowMosStaysLow`, `TypeOK` | the warnings of round-trip time and MOS are right |
| `endpoint` | `Endpoint.cfg` | `TypeOK`, `MutedAsAsked` | mute survives hold and network changes on the main thread |
| `stale_offer` | `SipCallStaleOffer.cfg` | `OfferCarriesLocalSdp` is violated | the second INVITE carries the first call's SDP (`static SdpContents offerSdp`) |
| `done_gate` | `SipCallDoneGate.cfg` | `DoneMeansDestroyed` is violated | `mProgress` is Done while an INVITE is outstanding, so it cannot be hung up |
| `late_answer` | `SipCallLateAnswer.cfg` | `AnsweredOnlyIfAccepted` is violated | `answer()` on an expired `Incoming` answers the call that rings now |
| `already_destroyed` | `SipCallAlreadyDestroyed.cfg` | `DestroyedMeansReset` is violated | a call that fails between its INVITE and `m_inCall = true` is taken for destroyed; its session and flags stay |

A run that expects a violation states what a message, a comment or a test of the
repository says, and shows that the code does otherwise; `PROJECT.json` quotes
the line.

**Bounds.** Three receivers let a login follow a logout twice, so a leftover of
the first cycle can meet the third, and two run side by side after a re-login.
`MaxEvents` = 1 is enough for an event to be pending or not. Three calls and three
dialogs let a fault of the first call show in the second and its consequence in the
third (`call_disciplined`: 408,881 states). The liberal call run, where every step
of every thread interleaves, has one local call and two dialogs and symmetry
under renaming of dialogs (safety only; 475,821 states); its two invariants are
proved for all sizes. A dialog or
a thread is used once; `DialogLeft` and the guard of `RegisterUser` stop the
environment when none is left, hence `CHECK_DEADLOCK FALSE` in the call runs (the
receiver's run checks for deadlock: the stack goes on posting events, and a logout
remains possible).
The same holds for the calls of `SipController` (two, so that what a call leaves
behind meets a placed or a received one; its run has the environments without a
liberty, with each one, with those that a property tolerates together, with all
but `overlap`, with all but `overlap` and `stalePc`, and with `overlap` and
`callWaiting`) and for calls and sockets of `CallInsights`: three sockets for two calls, so that the socket of the first
call, the one that its summary opened, and a replacement can meet; `MaxTicks` = 1
sample per call is enough for a sample that arrives after the summary. The run
`insights_faulty` has one call and two sockets for the size of its state space
(the four kinds of statistics of one call already interleave), once with all
liberties but `overlap` and once with all; symmetry under renaming of sockets. `RtpStats` has one
measure on either side of each threshold, and its reachable states are finite
without a bound. `Endpoint` has two calls, the smallest number for which a stale
`Incoming` meets another call, in all four environments, with symmetry. Without
`survives` its process ends with the first call, hence `CHECK_DEADLOCK FALSE`.

**Where the code does not do what it says.** Besides the four violation runs,
the models show, or the translation came across, these places. The properties
claim nothing about them, or exclude them by their conditions:

- `isUACRejected` is not initialised and is reset by `onNewSession` alone: a call
  refused with its first response may be reported as "Local call rejected"
  (`SipControllerCore.cpp:896`) though nobody rejected it, and its flags stay (`staleReject`).
- `onAnswer` reports CallAccepted (`SipControllerCore.cpp:1016`) before the call info
  of the same message (1048): a call answered without early media (`silent`) has no
  UUID yet, `setXCallUUID(null)` throws, and no answer event is sent.
- `isIncomingCall` (`SipController.java:573`) is never reset: after one incoming call
  the answer of a placed call is reported as "Incoming call answered".
- The listener calls `sipController.hangup()` on a field that nothing assigns
  (`SipController.java:123`), so each end of a call throws on the receiver thread and
  the peer connection and `didSentInvite` stay.
- A statistic without UUID (`CallInsights.java:91`, "so not sending stats") is in the
  buffer already and leaves with the next one.
- Jitter and packet loss never warn: `callMediaMatrices` passes the name of the list
  (`RtpStats.java:484`), `sendAlertCallback` knows other names (434, 441).
- The audio level is -100 dB in every report, since the function that would read it
  is commented out (`RtpStats.java:614`), so "no audio packets received" is always
  raised.
- `unhold()` ignores what its `mute()` returns (`IO.java:192`).
- Nothing calls `setRegistered` (`Endpoint.java:161`), so `logout()` and
  `createOutgoingCall()` refuse for ever.
- Every registration event, NOT_REGISTERED too, is told to the application as a login
  (`SipController.java:113`).
- `Endpoint.login` (`Endpoint.java:93`) makes no `PeerConnectionFactory`, as
  `SipController.login` does; the first incoming call then throws.
- `isActive` of an `Incoming` (`IO.java:14`) outlives its call, so `mute()` succeeds on
  one that is over.

**Fairness.** `SipReceiver`: runnable threads run; a thread that keeps asking
for `m_receiveMutex` gets it (strong fairness on the lock steps: `receive` holds
the mutex for 100 ms at a time and asks again at once, which a weakly fair
mutex would let starve the application); the stack keeps posting events, since
keep-alive timers are set in `createMasterProfile`. Without events a logout
never returns, as `m_run` is read only after an event. `SipCall`: WebRTC
delivers the first candidate of the call in progress, `SipController.java`
calls `iceGatheringFinish` from that callback, and an operation that was begun, on
WebRTC's thread or `terminateSession`, runs on. `SipController`: both threads go
on with their jobs, and a peer connection that gathers reports a candidate
whenever `W` is free again and again (strong fairness, since `W` serves other
callbacks in between). `CallInsights`: threads inside go on, a socket that
connects is opened, and `sendRtpStats` and `stopTimer` follow the events that
precede them in the same function. Users, peers and networks owe nothing.

**What is assumed about SipController.java.** `iceGatheringFinish` is called
once per call, on its first candidate. This is what `didSentInvite` is for.
`CallProceeds` of `SipController` shows that it works as long as the application
calls `hangup()` after each call (the liberty `survives`): the listener's own
call of it throws.

## 4. Proofs

`SipReceiverProofs` (any number of receivers, any bound on events):

- `TypeCorrect`, for every environment.
- `WakeupNeverLost`: `NoLostWakeup`, for every environment. Inductive: a waiting
  application has a receiver short of its notify, because the test of
  `m_receiveClosed` and the entry into the wait are one critical section and a
  receiver sets the flag before it notifies.
- `LoginIsServed`: `LoginServed`, for every environment. The strengthening says
  that from `m_run = true` on, until a logout, no receiver reads FALSE.

`SipCallProofs` (any sets of calls and dialogs):

- `TypeCorrect` and `SessionEndedOnce` (`EndedOnce`), for every environment.
  `EndInv`: a session that was ended is on its way out or over, so that the next
  `end()` finds no live dialog behind either pointer.
- `CrashOnlyAfterCall` (`CrashTakesNoCall`), `InvitedOnce` (`OneInvitePerCall`) and
  `NothingLeftOver` (`CleanWhenQuiet`) for environments that take no liberty but
  `reinvite` and `fork`, and `HangupReachesTheCall` (`HangupReaches`) without `fork`.
  None of the four is inductive: all follow from `CallInv`, which says where the
  three threads can be together (`ThreadInv`), what the flags are while no dialog
  lives (`ClearInv`, `PlacingInv`) and, for the one dialog that lives (`OneLive`), what
  they are in each of its states and at each place of the threads (`OutgoingInv`,
  `IncomingInv`, `CancellingInv`, `EndingInv`). Three lemmas on the shape of a step
  (`FixedStep`, `LiveStep`, `OverStep`: no dialog changes, the live one does, it ends)
  carry the conjuncts that an action does not touch. `CallInv` was checked by TLC
  before it was proved.

`SipLineProofs` (any sets of calls and dialogs): `ImplementsLine`, the safety
part of `LineKept`: without liberties, `Spec` implies `LineSpec` of `PhoneLine`
under the mapping of `Line`. `ViewOK` reads the line off the one dialog that lives,
by `CallInv`; `LineInv` adds which dialogs have been answered. Each action is a step
of `PhoneLine` or changes neither the line nor the messages.

`SipControllerProofs` (any set of calls, any set of environments; the condition
of each property says in which of them it is claimed):

- `TypeCorrect`, for every environment.
- `SummariesLast` (`SummaryLast`), in all environments without `overlap`.
- `AllTimersStopped` (`TimersStopped`), with `stalePc`, `silent` and
  `callWaiting`.
- `NothingNull` (`OnlyHangupThrows`) and `AnswersReported` (`AnswerReported`),
  with `stalePc` and `localHangup`.
- `ReportsOwn` (`ReportsOwnCall`), with `stalePc`, `noUuid`, `localHangup` and
  `relogin`.

None of these is inductive, because what a thread is about to do stands in its
queue. The first part of the module shows that each queue always
has one of a few shapes (`Shape`, in every environment) and gives them names:
`RAt` and `WAt` are the places the threads are at, `RCall` and `WCall` the calls
they are at work on, `RWhy` the reason of an end. Without `overlap` one thread at
most is in a callback (`OneBusy`), and a step of `SipController` is then a move
between places (`Flat`, `FlatStep`), with no sequences left in it. The data are
treated apart from the places (`DataStep`, `Typed`). On this rest the invariants:
`LineInv` (one call at most is up while others may wait, and a callback is about a
call that is far enough for it), `SummaryInv` (a call that was answered or
summarised is past the place where this is reported), `TimerInv` (the one timer
belongs to a call that is up or whose end is being reported), `NullInv` (from
early media on, statistics and UUID are there), `OwnInv` (`xcallid`,
`isIncomingCall` and the statistics are those of the call in progress from the
place on from which they are used). TLC checked each of them before it was proved.

`CallInsightsProofs` (any sets of calls and sockets, any number of samples):

- `TypeCorrect`, for every environment, together with `IteratorsFit`: an iterator
  that no `add` or `clear` has invalidated was made for the buffer as it is.
- `FirstDeliveries` (`FirstDeliveryInOrder`), for every environment. A statistic is
  recorded once (`RecordedKeys`, `RecordedOnce`: its kind, call and sample follow
  from counters that only grow). `OrderInv`: the buffer is the end of what was
  recorded, every valid iterator has sent what is behind its cursor, and what was
  sent for the first time is in the order of recording.
- `NoStatLost` (`NothingLost`), without `overlap`, whatever sockets do. `Serial`:
  one thread is inside and a loop in progress has a valid iterator; hence `clear`
  removes only what has been sent (`NoneLost`).
- `ChannelImplemented`, the safety part of `ChannelKept`, if `Environments` allow neither `overlap` nor `drop`. `LastingInv`
  adds that a loop has an open socket and that what was sent is exactly what left
  the buffer or is behind the cursor, so the next statistic is the next one of the
  channel.
- `TimersStop` (`TimerStopsWithCall`), if no environment allows `unstopped`; threads
  may overlap and sockets fail. `OneInProgress`: no two calls are up at once.

`RtpStatsProofs` (any natural numbers as measures, any codecs):

- `LowMosMonotone`: with more jitter a low MOS stays low, for every codec,
  round-trip time and jitter. The polynomial of `getMOS` is not monotonic in R, so
  the proof locates the threshold (MOS is below 3.5 exactly for an R factor of at
  most 67.9) and shows that R falls with jitter. `LowMosNeverRecovers` is `LowMosStaysLow`.
- `WarningsAreRight` (`WarningIsWindow`) and `TypeCorrect`, from `WindowInv`: the
  code's list holds the last two of the three measures in `samples`, and a warning
  is up exactly when two of the three are bad.

`EndpointProofs` (any set of calls): `TypeCorrect`, and `MuteSurvivesHold`
(`MutedAsAsked`). `MuteInv` says what `unhold` is about to restore while it is
between its two steps.

**Assumptions** are those named in the modules: liberties and environments are among
the listed ones; `None` and `Unset` are no calls, dialogs or sockets; `None` is no
statistics record either (Java's null is no object); a socket is none of the three
named threads; measures are natural numbers; at least one event can be pending.
The theorems whose statement restricts `Environments` do so because their property
has no condition of its own: the run that checks it allows no more.

**Only model-checked** is liveness, which the prover does not handle:
`LogoutReturns`, `ReceiversWindDown`, `CallGoesOut`, `AcceptGoesOut`, `CallProceeds`
and the fairness in `LineKept` and `ChannelKept`. Every invariant of a passing run
is stated by a theorem. The properties of the four runs that expect a violation
are false, and there is nothing to prove.

## 5. Not modelled, and the plan

Not modelled:

- message contents and configuration handed to the SIP stack, the callbacks that
  only log, `networkChange` and `ringing` (no state, no caller);
- the heap behaviour of `SharedPtr<ServerInviteSession>(sis.get())`, which makes a
  second owner of an object of the DUM;
- the order of assignments in a row: a reset block, also the one at the end of
  `onTerminated`, which runs without `m_controllerMutex`, is one step, and so is the
  building of a message from the fields; data races on single fields (a torn string
  or pointer) are not modelled;
- `Endpoint.setRegistered` (no caller) and what therefore cannot be reached from
  `Endpoint`: `Outgoing.call`, `submitCallQualityFeedback`. The bodies of
  `reject()`, `hangup()`, `sendDigits()` are commented out: they change no state;
- audio devices, DTMF, HTTP, logging;
- third-party code: `java_websocket` beyond the states of a socket and `slf4j` in the
  source tree, headers and binaries of resiprocate, OpenSSL and WebRTC. These headers are nearly all of the
  repository's 314,000 lines; the SDK's own code is about 7,000, and the
  models cover the part of it that keeps state. A model of generated headers
  would say nothing about this program.

Plan:

1. The safety core of the liveness properties: without `overlap` the receiver
   never waits in `setRemoteSDP` while `W` is in a callback, so that a deadlock
   has no state to begin in; without `stalePc` each call starts with
   `didSentInvite` reset, on which `CallProceeds` rests.
2. `OneInvitePerCall` and `CleanWhenQuiet` under single liberties of the table of
   `SipCall` that do not break them.
