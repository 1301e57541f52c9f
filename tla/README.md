# A verification project for simple-phone

simple-phone is a SIP telephone for one Android handset (KYF42).  A Kotlin
application drives a native library, which embeds the user agent baresip and
its base library libre.  This directory holds TLA+ models of the parts in which
threads, callbacks and time meet, TLC configurations that check them on small
instances, and proofs, checked by TLAPS, for every value of the constants.

Abbreviations: `APP` is `src/kyf42-phone/app/src/main/java/io/github/r_ch_iij/simplephone/`,
`JNI` is `src/kyf42-phone/app/src/main/cpp/native-sip-jni.c`, `BS` and `RE` are
`src/kyf42-phone/native/baresip/src/` and `src/kyf42-phone/native/re/src/`.

Contents

1. The system: components, interactions, what is hard
2. The modules and how they correspond to the code
3. The runs: what each shows, bounds, fairness
4. What the code does otherwise than it says
5. The proofs
6. What is not modelled
7. Plan

## 1. The system

### Components

| component | state it keeps | operations | correct when |
|---|---|---|---|
| **Native bridge** (`JNI`) | `g_ua`, `g_registered`, `g_call`, `g_in_call`, `g_watchdog_running`, `g_callback`, the account strings | nine requests from JNI threads (register, unregister, reregister, makecall, answer, endcall, dtmf, mute, unmute), each posted to the event loop and run there as a `*_worker`; `baresip_event_handler` for what baresip reports; `timeout_hangup_worker` for the watchdog | one call at a time; no pointer to a freed call is used; the two flags agree; the service hears of every start and end |
| **Media watchdog** (`rtpwatch.c`, `watchdog_thread` in `JNI`) | `last_rx_s`, the thread | mark on every frame and RTCP report; sample every 5 s; post a hangup after 30 s | a dead call is hung up, in time; a live call never is; a call that is not a conversation never is |
| **Request transport** (libre async and mqueue) | list of posted items, list of items under way, a pipe, worker threads | `re_async`, `worker_thread`, `queueh` | requests run once, in order, and all of them run |
| **baresip call and UA** (`BS/call.c`, `ua.c`, `event.c`) | the calls of the UA and their states | connect, answer, hangup; events INCOMING, OUTGOING, ESTABLISHED, CLOSED, AUDIO_ERROR, RTCP | environment: third-party code, modelled by what it reports and when it frees a call |
| **Registration client** (`BS/reg.c`, `RE/sipreg/reg.c`) | per client: expiry, timer, latest request, whether it is registered, whether its user agent still owns it | REGISTER, refresh, retry, answer to a challenge, un-REGISTER, destruction | a registration that is lost comes back; a client outlives its requests and no longer |
| **Registration workers and life cycle** (`JNI`, `APP/SipService.kt`, `SipManager.kt`, `BootReceiver.kt`) | `g_ua`, `g_registered`, `sipManager` | start, stop, return of the network, change of the account | `g_registered` tells the truth, for the return of the network renews nothing else |
| **SipService** (`APP/SipService.kt`) | `callActive`, `ringing`, `sipManager`, `callback`, a single-thread executor, a ring timer on the main thread | service lifecycle, four receivers, network callback, the upcalls | a ring timer ends only the ringing it belongs to; stop leaves nothing running |
| **SipManager** (`APP/SipManager.kt`) | initialised flag, audio mode | start, stop, makeCall, answerCall, endCall, reregister, applySettings | audio mode is on exactly during calls |
| **NativeSip** (`APP/NativeSip.kt`) | none | the JNI declarations and the `Callback` interface | – |
| **MainActivity, CallState** (`APP/MainActivity.kt`) | the state of the call screen, mute, call timer | keys, upcalls posted to the main thread, `syncCallState` on (re)binding | the screen shows the state of the call that is on |
| **Ringing and notifications** (`APP/NotificationHelper.kt`) | ringtone, vibrator, notification | startRinging, stopRinging | ringing stops when the call no longer rings |
| **Settings, history, QR import** (`APP/SipConfig.kt`, `SettingsActivity.kt`, ...) | preferences, bounded call history | save and apply, add to history, import | a change of the account re-registers; history never grows beyond its bound |
| **BootReceiver** | none | starts the service | – |
| **SIP stack, media, libraries** (baresip core and modules, libre, mbedtls, opus, spandsp) | – | – | vendored third-party code: environment |

### How they interact

```
   main thread          sipExecutor             re_main (libre loop)         watchdog
 MainActivity --op--> SipService.onSip --JNI--> Post -> async worker
                                                  -> pipe -> *_worker --> baresip calls
 (posted) <-- upcall -- SipService.on* <-- call_callback <-- baresip_event_handler
                                                                 |
                      last_rx_s  <---- every frame / RTCP -------+
                      last_rx_s, g_call ------- sampled every 5 s ------> timeout_hangup
```

A request travels down through two queues (the executor's and the event
loop's) and is applied to whatever call is current when it arrives.  Upcalls run
on the event loop's thread; the screen sees them through a third queue, the main
thread's.  The watchdog shares `g_call` and `last_rx_s` with the event loop and no
lock.

### What is hard

* **Order.** Requests, SIP events and the watchdog interleave, and `makecall_worker`
  itself sleeps 200 ms between the end of the old call and the dial.
* **Lifetime.** A call is freed by baresip in the middle of an event; the bridge
  holds a bare pointer.  Some paths free a call without telling anyone
  (`ua_destroy`, a dial that fails late).
* **Identity.** No request names the call it is for, and `CALL_CLOSED` of any
  call ends the current one.
* **Time.** The watchdog subtracts 32-bit wall-clock readings, acts on values
  read in an earlier step, and is started anew by each call unless the old one
  still runs.
* **Failure.** Allocation, dial, post and thread creation can fail half way.
* **Lifecycle.** The service can be stopped and started while the event loop
  goes on; initialisation happens once per process.

`PROJECT.json` lists each hazard at the line where it bites, with the properties that
guard against it or the reason why none does.

## 2. The modules

### CallBridge – the native bridge, its watchdog, and the calls it manages

The core.  A step is one uninterrupted stretch of one thread: a whole worker or a whole
event (both run on `re_main`, so nothing else of `re_main` runs in between),
one post of a JNI thread, or one read or write of shared state by the watchdog.
`makecall_worker` is two steps, because it sleeps.

| TLA+ | code |
|---|---|
| `queue`, `Post`, `Take` | `remain_run` and `remain_cb`; that a FIFO queue is the right picture is what ReAsync shows |
| `pc` | `re_main` before or after the `usleep` of `makecall_worker` |
| `g_ua`, `g_registered`, `g_call`, `g_in_call` | the globals of those names |
| `state` | `enum call_state` of each baresip call object, as far as the bridge can tell: `answered` is between `call_answer` and ESTABLISHED, `freed` after `call_destructor` |
| `muted` | `audio_mute` of the call |
| `silent` | `time(NULL) - rtpwatch_last_rx_s() > RX_TIMEOUT_S`; RtpWatch looks inside |
| `gone` | the remote process was killed: no media, no BYE |
| `wd` | where `watchdog_thread` is; `off` exactly when `g_watchdog_running` is 0 |
| `upcalls`, `callActive` | the callbacks of the last step; the flag of SipService they write at once on the same thread |
| `fault` | a freed call was handed to baresip; after that, nothing is promised and nothing happens |
| `*_worker`, `ua_connect`, `watchdog_start`, `CallIncoming`, ... | the functions of those names and the branches of `baresip_event_handler` |

Choices worth knowing.

* `CallClosed` is the one place where a call ends by an event, used by hangups,
  rejections, remote ends and audio errors alike, because in the code all of them go
  through the `UA_EVENT_CALL_CLOSED` branch, most of them re-entrantly from
  within `ua_hangup`.
* A rejected second INVITE (`CallIncomingBusy`) and one refused for want of a
  common codec (`CallUnacceptable`) raise CALL_CLOSED for a call that was never
  current.
* Every call identity is used once.  An allocator may give a new call the
  address of a freed one; the model reports a fault where the code might happen to
  hit the new call instead.
* An INVITE with a Replaces header is the two events it consists of.
* The faulty variants kept beside the actions (`MakecallUntold`, ...) are not
  part of `Next`; each is a bug one of the properties must find.

### PhoneLine – what the bridge promises

The abstract specification: a line that is idle, incoming, answered, outgoing or
established, and the callbacks the service gets with each change.  `CallBridge`
implements it with `line` mapped to the state of the call `g_call` names, `told` to
the callbacks of the last step, `active` to `SipService.callActive`
(`ImplementsPhoneLine`).  It is the line under the service and the screen: `CallService` takes its
steps instead of the bridge's.

### CallService and CallUi – the Kotlin side of a call

`CallService` is SipService, SipManager and the ringing of NotificationHelper, with
PhoneLine below; `CallUi` puts MainActivity on top and is the module that is checked.
Three threads meet, with a queue between each two of them.

| TLA+ | code |
|---|---|
| `line`, `told`, `callActive` | PhoneLine, and the flag the upcalls write on `re_main` |
| `queue`, `connecting` | native requests posted to `re_main`; the sleep in `makecall_worker` |
| `exec`, `half` | operations in `sipExecutor`; how far the one it is in the middle of has come |
| `refused` | history, written by no code: during this conversation a dial of the own number was refused, or its refusal was under way when the conversation began |
| `audio` | `AudioManager.mode` is `MODE_IN_COMMUNICATION` |
| `ringing`, `timer` | the flag set in `onIncomingCall`; `ringTimeoutRunnable` is posted |
| `main` | messages of the main looper: `stopRinging`, and the notices to the listeners |
| `sounding`, `notified` | ringtone and vibration; the notification with its two buttons |
| `intents` | activities started by `showMainActivity` and not delivered yet |
| `activity`, `callState` | the activity is there, is bound; `MainActivity.callState` |
| `LineTakes...`, `LineConnects` | the workers, with the upcalls they make, in one step of `re_main` |
| `ExecAnswers`, `ExecPostsAnswer`, ... | the two halves of `answerCall` and `endCall` |
| `ExecRefusesSelf`, `ExecCancelsNotification`, `ExecSilences`, `ExecPostsRefusal` | `makeCall` of the own number, which calls `onCallFailed` on the executor: the write of `callActive`, the notification, the post of `stopRinging`, the post of the notice |
| `RingTimeout`, `ScreenOff`, `NotificationPressed` | `onRingTimeout`, the screen-off receiver (the flip), the notification's receiver |
| `KeyDials`, `KeyAnswers`, `KeyEnds` | the keys that change the call state |
| `UserOpens`, `IntentArrives`, `ServiceConnected`, `Resumed`, `Destroyed` | the activity's life cycle, `syncCallState` where the code calls it |

* The dial, hangup and end of `makecall_worker` are those of `PhoneLine`, so the proof that
  CallBridge implements PhoneLine is what makes this line the bridge's - in the environment of that
  proof: no second INVITE, no late dial failure, no registration during the call.
* The callbacks of the service run in one step when `re_main` calls them, and the two messages they
  post in a row (`stopRinging` or `startRinging`, then the notice) are one.  What the other threads could do in
  between is a message of theirs before or after the pair, as far as ringtone and screen are
  concerned each for itself, and no property is about both; a refusal within `onCallStarted` is one `refused` tells of.
* `onCallFailed` is the exception, for it also runs on the executor, and `onCallStarted` may write
  the flag and post its notice between any two of its steps: there it is four steps, and its two messages are two.
  The notice is called `refusal` to tell it from the one `re_main` posts; the screen treats both alike.
* The ring timer (45 s) fires only when the message that announces its call has been delivered; in
  every other respect it may fire at any time.  A main thread that lags 45 s is thereby excluded.
* A screen without a binding hears nothing and its keys reach nobody; it synchronises with
  `nativeIsInCall` when the binding is made and on every resume.  Android may create it anew with
  the intent of an incoming call of long ago (`UserOpens`).
* The properties of the screen are stated for settled states, in which everything asked for has been
  done: in between, screen and line may differ, and that is no error.

### SipReg and Registration – registration

`SipReg` is libre's registration client with the handler baresip gives it, the requests in
flight and the registrar; `Registration` adds the workers of the bridge, the executor and the
service's life cycle.

| TLA+ | code |
|---|---|
| `reg[c].state` | `live` while the user agent owns the client, `terminated` from `destructor` until the last reply, `freed` |
| `expires`, `registered`, `tmr`, `req` | the members of `struct sipreg` of those names (`expires # 0`, timer running, pointer set) |
| `out[kind]` | transactions in flight that hold a pointer to the client: REGISTERs that bind, and that unbind |
| `contact` | the contact user, made of the agent's address (`ua.c`) |
| `binding` | what the registrar holds |
| `AnswerOk`, `AnswerFail`, `Challenged` | `response_handler` with 2xx; any other final reply, or none in time; 401, 407, 423 |
| `TimerSends`, `TimerFails` | `tmr_handler` with a send that succeeds or fails |
| `UseAfterFree` | a reply whose client was freed; sets `touched` |
| `BindingLost` | the registrar expires a contact or restarts |
| `register_worker`, `unregister_worker`, `reregister_worker`, `ua_create_and_register` | the functions of those names |
| `ensureSipManager`, `reregisterIfReady`, `applySettings`, `Stop` | the functions of those names; `Stop` is `onDestroy` and the shutdown receiver |

* A client remembers its latest request only.  `Destroys` follows the destructor: with that one
  pending it waits for its reply, otherwise it sends one more un-REGISTER and waits for that.
* A failed request may have been served: `AnswerFail` lets `binding` change or not.
* Contacts are not tied to clients: a new agent may get the address, and with it the contact, of
  the one just freed, and a late un-REGISTER of the old one then removes the new one's binding.
* Requests and events that have nothing to do with calls or registration are left out; so is the
  call a reregister may drop, which CallBridge has.

### RtpWatch – the watchdog's arithmetic

`CallBridge` takes "more than RX_TIMEOUT_S seconds of silence" as a Boolean.  RtpWatch
is about how the code finds out: a `uint32_t` wall clock that wraps (`Modulus`), a
store by `rtpwatch_mark_rx`, a sleep, two reads and an unsigned difference.
The ghost `gap` counts the seconds that really passed since the last frame.
`MayTear` lets time pass and frames arrive between the two reads;
`ClockMayStep` lets the wall clock be set during a call.

### ReAsync and PostQueue – the way from a JNI thread to the event loop

`ReAsync` is libre's async object as `remain_run` uses it: the list `workl` under a mutex,
worker threads that wait on a condition variable (with spurious wakeups), move the
item to `curl`, release the lock, take it again and write to the pipe, and the
event loop that reads the pipe and runs the callback.  `worker_check`, the timer that wakes waiting workers while items lie in the list, is one more
reason for a spurious wakeup.  `PostQueue` is the FIFO
queue `CallBridge` uses; with one worker, ReAsync implements it, liveness included.
`ran`, the items whose callback has run, stands for libre's `freel` too: `queueh` moves an item there, and
`re_async` takes the next one from it.  Each post is an item of its own; `OneList` says that an item on
`freel` is not pointed to any more, which is what makes its reuse harmless.

### Proof and TLC modules

`CallBridgeProofs`, `RtpWatchProofs`, `ReAsyncProofs`, `RegistrationProofs` and `CallUiProofs` hold the theorems.  `MCCallBridge` and
`MCReAsync` give the sets of the TLC instances.  The others take numbers and model values only and
are run as they are.

## 3. The runs

| run | instance | shows |
|---|---|---|
| `line` | 3 calls, 2 queued requests of eight kinds, thread creation may fail; no second INVITE, no late dial failure, no reregister | `TypeOK`, `NoUseAfterFree`, `SingleLine`, `ActiveMeansTalking`, `ImplementsPhoneLine`: under these assumptions the bridge is one telephone line |
| `live` | 2 calls, all nine requests, late dial failures, fair | `FlagsAgree`, `HangUpReachesCall`, `WatchedCallEnds` |
| `steady` | clock of 16 values, timeout 6, period 2 | `TypeOK`, `NoFalseAlarm`, `DeathDetected` on a steady clock with untorn reads |
| `fifo` | 1 worker, 5 posts | `TypeOK`, `NoLostWakeup`, `RunOnce`, `OneList`, `ImplementsPostQueue` |
| `phone` | 2 operations, 1 message, 1 intent under way when one more begins; fair | `TypeOK`, `ScreenSettles`, `HangUpAtHand`, `TalkingHasCallAudio`, `RingIsTimed`, `SoundHasCall`, `RingingEnds`, `SoundStops` |
| `registration` | 2 clients, 2 contacts, 2 requests of a kind in flight, 2 operations; fair | `TypeOK`, `NoStall`, `RegisteredIsReal`, `NoFreedClientAnswered`, `RegistrationRecovers`, `OldClientsGo` |
| `busy` | 3 calls, second INVITEs | *violated*: `SingleLine` |
| `dialfail` | 2 calls, late dial failure | *violated*: `NoUseAfterFree` |
| `ringtimeout` | 2 calls | *violated*: `TimeoutOnlyWhileTalking` |
| `ringtimer` | as `phone`, no fairness | *violated*: `DialledCallNotTimedOut` |
| `offline` | as `registration`, the first send of a client may fail | *violated*: `RegistrationRecovers` |
| `overlap` | as `registration`, a new registration may begin while requests of the old client are in flight | *violated*: `NoFreedClientAnswered` |

**The assumptions of `line` and `registration` are needed.** Each is a constant or a missing request,
and for each the code breaks a property without it: `busy` and `dialfail` show two of `line`, the third is
the reregister during a call (section 4); `offline` and `overlap` show both of `registration`.

**Bounds.** *Calls:* the bridge remembers one call, `g_call`.  Two suffice for an old and a new
one (a stale hangup, a second INVITE); three let a third call meet an orphan of the
first two.  Calls are used once, so a run of CallBridge is a history of at most three calls; since
the bridge keeps nothing of a freed call this loses only repetitions.
*MaxPosted* = 2 puts one request behind another, the least at which order
matters; 1 where order does not.  The watchdog's own post is not bounded by
it, only one can be under way per call.  *Modulus* 16, RxTimeout 6,
Period 2: a silence of timeout plus period is longer than half the range, so
every position of the wrap within it occurs; MaxGap 13 exceeds the timeout and period,
so the boundary is crossed.  *Five posts:* one in the worker's hands, two in the list, one in the pipe, one to
come.  *PipeRoom* 5 never fills, see section 6.
*CallUi:* `MaxOps` 2, `MaxMain` 1, `MaxIntents` 1 bound what is under way when the user or a caller
does something new (`Room`, which counts an operation that is half done and the sleep in `makecall_worker`); the callbacks and messages this leads to are never held back, so queues
do grow beyond them (a dial that ends a call leaves a notice, an operation and a request at once).
The safety properties were also checked with two messages under way.  Calls are not counted:
the line goes through any number of them.
*Registration:* two clients are an old one and its successor, the pair every property
is about; the safety properties were also checked with three.  With two contacts the successor may have
its predecessor's address or another.  Two requests of one kind in flight are a refresh that is
retransmitted and the one sent when the timer fires again; two operations let a stop meet a start.
`NoStopUnderWay` excludes a second stop while the first is not through.

**Fairness.**  In `live`: the event loop serves its queue (weak
fairness of `Worker`: libre polls the pipe in every round); each step of the watchdog thread is
weakly fair (a runnable thread runs); its post is strongly fair (memory that is
short now is not short for ever: a retried `remain_run` succeeds in the end); and media that has
stopped for good has at some time been silent for the timeout (`DeadMediaLapses`, weak).
In `fifo` the refinement includes the queue's liveness, from weak fairness of the worker thread and the
event loop; posts and spurious wakeups owe nothing.
In `phone`: `re_main`, the executor and the looper serve their queues, and the ring timer fires
(weak fairness of `LineServes`, `Executor`, `MainServes`, `RingTimeout`).
In `registration`: the executor and the event loop serve their queues (weak); every request is finally
answered or times out, as the transaction timers of SIP and the limit of challenges see to (weak);
and the network and the server are not dead for ever: a timer's REGISTER gets out, and a REGISTER gets its 2xx,
infinitely often if they are tried infinitely often (strong).
Neither the user, nor the remote side, nor Android's activity manager owes anything anywhere.

**Deadlock** is checked except in `live` and `dialfail`, where a use of a freed call ends the process and
calls run out, and in the runs of Registration, where a system whose clients are used up
and whose user does nothing more may stop.

**Symmetry** of the calls is used in the run `line` only, which has no liveness
property.

**Mutants.** Every property of a passing run has a faulty variant of a mapped definition that makes TLC
find it violated: a forgotten reset, a check left out, a hangup that is not told, an
off-by-one at the timeout, a missed signal, a timer not set again.

## 4. What the code does otherwise than it says

Each of these is a run that must fail; `PROJECT.json` quotes the sentence it contradicts.

1. **`busy`** – While a call is on, a second INVITE is rejected with `ua_hangup`; its
   CALL_CLOSED clears `g_call` of the *first* call (line 192: `g_call == call || g_call != NULL`)
   and reports `onCallEnded`.  The first call goes on unseen: hanging up no longer reaches it, and a third call is accepted beside it.
   An INVITE refused by `call_accept` has the same effect.
2. **`dialfail`** – `ua_connect` announces the call, then fails to send the INVITE and frees it.
   `makecall_worker` reports `onCallFailed` but leaves `g_call` dangling for the next request.
3. **`ringtimeout`** – The watchdog looks at `g_call`, not at whether a conversation is on.
   If the next call rings or dials within the five seconds of its sleep, it keeps
   comparing with the old `last_rx_s`, and a call that has rung for half a
   minute, or less if the old call was silent at its end, is hung up unanswered.
4. **`ringtimer`** – `ringing` is set by every incoming call and reset by nothing, and the ring timer
   is cancelled by nothing but the next incoming call.  A caller gives up, the user calls back within 45
   seconds of the first ring, and when the old timer fires before the other side has answered, the dialled call is hung up.
5. **`offline`** – A user agent whose first REGISTER cannot be sent (a start without a network) has no
   timer running, `register_worker` skips because there is a `g_ua`, and the return of the network is
   ignored because the phone is not registered.  Only a changed account registers again.
6. **`overlap`** – A reregister while a REGISTER of the old client is being retransmitted leaves two
   transactions with a pointer to it.  The reply to the first frees it, and the second runs on freed memory.

Seen while modelling, and not the subject of a run:

* Between the watchdog's decision to end and `g_watchdog_running = 0`, a new
  conversation starts no watchdog; `WatchedCallEnds` is about calls that are watched.
* `now - last_rx_s` takes it that the clock is not earlier than
  `last_rx_s`.  A clock set back during a call, or a frame marked in a new second between the two
  reads, makes the unsigned difference huge and a healthy call is hung up (`ClockMayStep`, `MayTear`).
* A reregister during a call (network back, account saved) destroys the agent and the call and clears
  `g_call`, without `onCallEnded`: `callActive` and the audio mode stay on.  A comment in
  `SipManager.kt:130` says this is not done during a call; nothing checks it.
* After `stop()`, the 200 to the un-REGISTER is an event REGISTER_OK; a later `start()` finds `g_ua` and
  registers nothing.  The phone counts as registered and is not; `RegistrationRecovers` speaks of
  registrations that were not taken back.
* An answer that reaches `re_main` after the caller gave up leaves the audio mode on until the next call
  has ended: `TalkingHasCallAudio` holds in one direction only.
* Dialling the own number while a call is on (from a stale screen) reports `onCallFailed`, which clears
  `callActive` and shows an idle screen: neither closing the flip nor the end key ends that call until the screen
  synchronises, and the ring timer of an incoming call that was answered, cancelled by nothing, may end it.
  If the conversation starts during the refusal, whose steps the executor takes one by one, `callActive` may end up
  set with the refusal as the last notice, and the screen is idle all the same.  `HangUpAtHand`
  leaves out the conversations this happened in (`refused`); without that condition TLC finds it violated.
* The notice that an old call has ended may reach the screen after the user has dialled the next one: the
  screen is idle and the end key clears a digit, until the conversation starts.

## 5. The proofs

| theorem | states | for |
|---|---|---|
| `TypeCorrect` | `Spec => []TypeOK` | every instance |
| `FlagsAlwaysAgree` | `Spec => []FlagsAgree` | every instance |
| `NoFreedCallIsUsed` | `Spec => []NoUseAfterFree` | `~DialMayFailLate` |
| `LineIsSingle` | `Spec => []SingleLine` | `~CallWaiting` |
| `ActiveIsTalking` | `Spec => []ActiveMeansTalking` | no reregister among the requests |
| `BridgeImplementsPhoneLine` | `Spec => ImplementsPhoneLine` | `SingleLineEnvironment`: `~CallWaiting`, `~DialMayFailLate`, no reregister among the requests |
| `WatchTypeCorrect` | `Spec => []TypeOK` (RtpWatch) | every modulus, timeout and period |
| `DeathIsDetected` | `Spec => []DeathDetected` | a steady clock, reads not torn |
| `NoAlarmIsFalse` | `Spec => NoFalseAlarm` | a steady clock, reads not torn |
| `TransportTypeCorrect` | `Spec => []TypeOK` (ReAsync) | every instance |
| `NoPostSleptThrough` | `Spec => []NoLostWakeup` | at least one worker |
| `EachRunsOnce` | `Spec => []RunOnce` | every instance: any number of workers, a full pipe included |
| `ItemsAreOnOneList` | `Spec => []OneList` | every instance, likewise |
| `OneWorkerKeepsOrder` | `Spec => Queue!Init /\ [][Queue!Next]_(Queue!vars)` | one worker, finitely many posts and a pipe with room for them |
| `RegistrationIsReal` | `Spec => []RegisteredIsReal` | every instance |
| `RegistrationNeverStalls` | `Spec => []NoStall` | `~MayFailAtOnce` |
| `RepliesFindTheirClient` | `Spec => []NoFreedClientAnswered` | `~ReregisterOverlaps` |
| `RegistrationTypeCorrect` | `Spec => []TypeOK` (Registration) | `~ReregisterOverlaps`, `MaxOut >= 2` |
| `ScreenTypeCorrect` | `Spec => []TypeOK` (CallUi) | every instance |
| `TalkingIsHeard` | `Spec => []TalkingHasCallAudio` | every instance |
| `EndKeyHangsUp` | `Spec => []HangUpAtHand` | every instance |
| `ScreenFollowsLine` | `Spec => []ScreenSettles` | every instance |
| `RingingIsTimed` | `Spec => []RingIsTimed` | every instance |
| `SoundBelongsToCall` | `Spec => []SoundHasCall` | every instance |

**Assumptions** are the modules' ASSUMEs, which TLC evaluates in every run, and the
hypotheses of the table.  `busy`, `dialfail`, `offline`, `overlap` and section 4 show what happens
without them.

**CallBridge.** The argument is a ladder; each rung is inductive given the rungs below.
`TypeOK` needs nothing.  `FlagsAgree` needs only `TypeOK`: every branch that
writes one of the two globals writes the other; the branch to look at is `CallClosed`, which leaves
both alone when `g_call` is NULL.  `NoUseAfterFree` is not inductive: it needs `PointerLive`
(`g_call` names a call not freed), and that needs `ConnectIdle` (`g_call` is NULL during the sleep
of `makecall_worker`, as `re_main` handles no event there).  The late dial failure is the only step
that breaks `PointerLive`, hence the hypothesis.  `SingleLine` uses `ConnectIdle` at the dial and the absence of
second INVITEs at an incoming call.  `ActiveMeansTalking` uses `ConnectIdle` too: any call
that closes takes `g_call` and `callActive` away together, and only a reregister takes the one without the other.  The refinement then maps each action to a step of PhoneLine or
a stutter, using all of them.

**RtpWatch.** `NoFalseAlarm` and `DeathDetected` follow from `Measured`: the modular difference
equals `gap` (true while `gap < Modulus`), a clock value just read is current, and the sleep
in progress leaves time to find the silence.  The single arithmetic fact is `MinusSuccessor`: advancing
the clock by one advances the difference by one, wrap or no wrap.

**ReAsync.** `NoLostWakeup` is inductive with the types: a post either signals a waiting worker or finds none
waiting, and a worker waits only when it has found the list empty.  `RunOnce` needs `OnePlace`: the list, the
workers' hands, the pipe and the items run hold no item twice and none in common (`PlaceOf` says it of one
item, `NoneTwice` of the sequences).  `OneList` adds `curl`, which an item enters when a worker takes it and leaves
when it has run: whatever the pipe or a worker points to is on it.  A full pipe does not disturb that; the item it
loses stays on `curl` for ever.
`OneWorkerKeepsOrder` is the refinement of PostQueue step by step.  The abstract queue is the pipe, the
worker's hand and the list, one after the other; with one worker `OneInHand` keeps the hand at one item at
most, so that taking an item and pushing it are stutters and running one takes the head.  Pushing is a stutter only if
the pipe has room, and `RoomForAll` shows that it has: the items in the pipe are distinct posts, and the
one in hand is not among them.

**Registration.** First come lemmas on the functions of the client's record: what each does to the
requests in flight (`Flight`) and to these together with the timer (`Load`).  From them `RegStepMoves` reduces every reply and timer to three
kinds of step - a live client goes on, a terminated one waits or goes, a freed one is answered - and `NextMoves`
every step of the module to five.  The invariants then form a ladder again.  `AnyTypeOK` (types without the bound on requests) and
`Owned` (the live client is that of the current agent; one that wants a binding has no un-REGISTER in flight) hold
in every instance, and `RegisteredIsReal` is inductive with them: any reply that sets `g_registered` sets `registered`
with it, or leaves something in flight.  `NoStall` follows because a live client's `Load` stays positive, unless its first
request fails at once.  `NoFreedClientAnswered` and the bound in `TypeOK` need `Accounted`: a terminated client has
exactly one request in flight, a freed one none, a live one a load of one, or two after it has unregistered.  That in turn needs
`StopOnce`, as an unregister in the queue will add one to the load, and fails when a new registration may
overlap the old client's requests.

**CallUi.** `Room` bounds only what the user and the callers begin, so that TLC's state space is finite, and the proofs
never use it: they hold for queues of any length.  A property of settled states says nothing of the steps before; the invariants behind it say what
must still be on its way while the property does not hold yet.
`HangUpUnderWay`: an idle screen hides a conversation without a refusal (`Talking`) only if a hang-up is in `exec` or `queue`, or the notice of
the conversation is in `main`.  `CallUnderWay`: a screen shows a call on an idle line only if a dial, its refusal or the
notice of an end is on its way.  When such a notice is taken, another one may undo what it shows, so both need to
know which comes last: `StartIsLast` and `EndIsLast` (in such a conversation, every notice of an end or refusal in `main` has a
start behind it; while the line is idle, every notice of a call has an end behind it).
`RefusalSeen` says that in such a conversation `callActive` is set and the executor is not in the middle of
a refusal: without it a refusal begun earlier could clear the flag or post its notice behind that of the start.
`TalkingHasCallAudio` comes from `AudioUntilHangUp` (a conversation without the audio has a hang-up in the queue) and
that from `HangUpPosted`: between the two halves of `endCall` the request is the last in the queue, or
it has been served and no conversation can have begun since.
`RingIsTimed` is inductive with `ActiveTalks` (`callActive` implies a conversation): the timer spares the call only if `ringing` is
false, which the incoming call has made impossible, or a conversation is on.  `SoundHasCall` needs `QuietIsLast`: once the call no
longer rings, every ring in `main`, and the sound itself, has a message behind it that stops it.
The lemmas on sequences (`Has`, `Follows`, `LastIs` under Append and Tail) and those on what each thread
may do to the queues (`NextMovesQueues`, `NextThreads`, `MainMoves`, `ExecutorPassesOn`) carry these arguments.
All of them were checked by TLC as invariants, with two messages under way, before they were proved.

**Model-checked only:** the liveness properties `HangUpReachesCall`, `WatchedCallEnds`, `RegistrationRecovers`, `OldClientsGo`, `RingingEnds`
and `SoundStops`, and the liveness half of `ImplementsPostQueue`.  `RingIsTimed` and `SoundHasCall` are the safety
behind two of them: what is left to fairness is that a timer which runs fires and a message which waits is taken.  Temporal reasoning under fairness, and ENABLED, are out of the prover's reach.

## 6. What is not modelled

* **Most of the repository.**  Nearly all of its 300,000 lines are vendored libraries (baresip, libre, librem,
  mbedtls, opus, spandsp), of which the phone uses a part as a black box.  They appear as the
  environment: the events they may raise and the pieces named above.  The share of the lines that
  the models cover is small for that reason, and models of a codec or of TLS would say nothing
  about this telephone.
* **Start-up and lifetime.** Everything before `nativeInit` has finished, `nativeDestroy`, the global
  reference `g_callback`, and the ownership of libre's thread object.  `ensureSipManager` is one step
  of Registration, while an `onDestroy` may in truth fall between its test and its assignment.
* **`remain_run_or_direct` on a failed post** runs the worker on the JNI thread, unsynchronised.
  It happens only when an allocation of a few bytes fails; the models assume it does not.
* **A full pipe.** `mqueue_push` on a full pipe loses the request; it takes thousands of requests
  in one round of the event loop.
* **Cancelling and destroying** the async object: nothing in the application does so while requests are under way.
* **Composition of bridge and service.**  CallService stands on PhoneLine, which CallBridge implements only without second INVITEs,
  late dial failures and reregister; the product of the two detailed modules is too large for TLC
  at bounds of interest.  Registration and calls are not composed either; the one point where they meet, a
  reregister during a call, is in CallBridge.
* **Outbound, fallback and keepalive registrations, several accounts**: the phone configures none.
* **SDP, media negotiation, transfer, hold, video, mute and volume on the screen.**
* **Settings, history and QR import**: sequential code on preferences and screens.
* **Wording, layout, notification channels, logging.**
* **The death of the process.**  Nothing of the modelled state survives it; a new process starts at `Init`.

## 7. Plan

The models are in place, and every safety invariant of a passing run has its theorem.

1. **Composition** – `CallService` takes the steps of PhoneLine for the bridge's.  A theorem that it also
   tolerates what the bridge does outside the single-line environment needs a weaker PhoneLine first.
2. **RtpWatch and CallBridge** – tie `silent` of CallBridge to `gap` of RtpWatch.

Liveness stays with TLC.  A model of start-up and lifetime comes next if the code's handling of it changes.
