----------------------------- MODULE CallBridge -----------------------------
(***************************************************************************)
(* The native bridge of the phone (native-sip-jni.c) between the Kotlin    *)
(* service and the baresip user agent, from the moment nativeInit is done. *)
(*                                                                         *)
(* Three kinds of threads run:                                             *)
(*   - JNI threads post requests; libre's async worker and message queue   *)
(*     hand them to the event loop in FIFO order (queue);                  *)
(*   - re_main, baresip's event loop, runs the *_worker of a request or    *)
(*     handles one SIP or media event.  makecall_worker sleeps 200 ms      *)
(*     half way, so it takes two steps (pc);                               *)
(*   - the watchdog, a detached thread, samples g_call and the time of the *)
(*     last RTP packet every five seconds and posts a hangup when the      *)
(*     media of the call has stopped (wd).                                 *)
(*                                                                         *)
(* A call is an object of baresip: it is freed when it ends, and the       *)
(* bridge keeps a bare pointer to it in g_call.  Calling baresip with a    *)
(* pointer to a freed call is undefined behaviour: fault becomes TRUE and  *)
(* the process does nothing more.                                          *)
(*                                                                         *)
(* upcalls holds the callbacks the last step made into SipService; they    *)
(* run on the re_main thread and write SipService.callActive at once.      *)
(***************************************************************************)
EXTENDS Naturals, Sequences

CONSTANTS
  Calls,            \* identities of the calls that can exist, each used once
  NoCall,           \* the NULL pointer
  Requests,         \* the requests the JNI threads make
  MaxPosted,        \* bound on the requests of JNI threads that are queued
  CallWaiting,      \* the PBX may send an INVITE while a call exists
  DialMayFailLate,  \* sending the INVITE may fail once the call is announced
  SpawnMayFail      \* pthread_create may fail for the watchdog

AllRequests ==
  {"register", "unregister", "reregister", "makecall", "answer", "endcall",
   "dtmf", "mute", "unmute"}

ASSUME NoCallAssumption == NoCall \notin Calls
ASSUME RequestsAssumption == Requests \subseteq AllRequests
ASSUME MaxPostedAssumption == MaxPosted \in Nat
ASSUME EnvironmentAssumption ==
  {CallWaiting, DialMayFailLate, SpawnMayFail} \subseteq BOOLEAN

VARIABLES
  queue,         \* requests posted to re_main and not yet taken
  pc,            \* re_main: "loop", or "connect" half way makecall_worker
  g_ua,          \* the user agent exists
  g_registered,
  g_call,
  g_in_call,
  state,         \* state of each call object
  muted,         \* calls whose transmitted audio is muted
  silent,        \* more than RX_TIMEOUT_S since rtpwatch_mark_rx last ran
  gone,          \* established calls whose remote process has died
  wd,            \* the watchdog thread; "off" iff g_watchdog_running is 0
  upcalls,       \* callbacks made by the last step
  callActive,    \* SipService.callActive
  fault          \* a freed call was dereferenced

lineVars == <<g_call, g_in_call, state, muted>>
uaVars   == <<g_ua, g_registered>>
wdVars   == <<silent, gone, wd>>
javaVars == <<upcalls, callActive>>
vars == <<queue, pc, lineVars, uaVars, wdVars, javaVars, fault>>

CallStates ==
  {"unused", "incoming", "answered", "outgoing", "established", "freed"}
Upcalls ==
  {"onRegistered", "onRegistrationFailed", "onDebug", "onIncomingCall",
   "onCallStarted", "onCallEnded", "onCallFailed"}

TypeOK ==
  /\ queue \in Seq(Requests \cup {"timeout"})
  /\ pc \in {"loop", "connect"}
  /\ g_ua \in BOOLEAN
  /\ g_registered \in BOOLEAN
  /\ g_call \in Calls \cup {NoCall}
  /\ g_in_call \in BOOLEAN
  /\ state \in [Calls -> CallStates]
  /\ muted \subseteq Calls
  /\ silent \in BOOLEAN
  /\ gone \subseteq Calls
  /\ wd \in {"off", "sleep", "measure", "post", "leave"}
  /\ upcalls \in Seq(Upcalls)
  /\ callActive \in BOOLEAN
  /\ fault \in BOOLEAN

Init ==
  /\ queue = <<>>
  /\ pc = "loop"
  /\ g_ua = FALSE
  /\ g_registered = FALSE
  /\ g_call = NoCall
  /\ g_in_call = FALSE
  /\ state = [c \in Calls |-> "unused"]
  /\ muted = {}
  /\ silent = TRUE               \* last_rx_s is 0, the epoch
  /\ gone = {}
  /\ wd = "off"
  /\ upcalls = <<>>
  /\ callActive = FALSE
  /\ fault = FALSE

-----------------------------------------------------------------------------
(* Callbacks into SipService.                                              *)

Live(c) == state[c] \notin {"unused", "freed"}

NoUpcall == upcalls' = <<>> /\ UNCHANGED callActive
Notice(cb) == upcalls' = <<cb>> /\ UNCHANGED callActive
OnCallStarted == upcalls' = <<"onCallStarted">> /\ callActive' = TRUE
OnCallOver(cbs) ==
  /\ upcalls' = cbs
  /\ callActive' = IF cbs = <<>> THEN callActive ELSE FALSE

(* Faulty variant: only the end of a conversation clears g_call.           *)
ClosedKeepsRinging(c, cbs) ==
  /\ state' = [state EXCEPT ![c] = "freed"]
  /\ muted' = muted \ {c}
  /\ g_call' = IF state[c] = "established" THEN NoCall ELSE g_call
  /\ g_in_call' = (g_call' # NoCall)
  /\ OnCallOver(IF g_call = NoCall THEN cbs ELSE Append(cbs, "onCallEnded"))

(* UA_EVENT_CALL_CLOSED for call c, preceded by the callbacks cbs: any     *)
(* close ends the current call, whichever call it is about.  baresip frees *)
(* the call after the event.                                               *)
CallClosed(c, cbs) ==
  /\ state' = [state EXCEPT ![c] = "freed"]
  /\ muted' = muted \ {c}
  /\ g_call' = NoCall
  /\ g_in_call' = (g_in_call /\ g_call = NoCall)
  /\ OnCallOver(IF g_call = NoCall THEN cbs ELSE Append(cbs, "onCallEnded"))

-----------------------------------------------------------------------------
(* JNI threads: remain_run posts a request.                                *)

Post(req) ==
  /\ ~fault
  /\ Len(queue) < MaxPosted
  /\ queue' = Append(queue, req)
  /\ upcalls' = <<>>
  /\ UNCHANGED <<pc, lineVars, uaVars, wdVars, callActive, fault>>

(* re_main takes the oldest request and runs its worker.                   *)
Take(req) ==
  /\ ~fault
  /\ pc = "loop"
  /\ queue # <<>>
  /\ Head(queue) = req
  /\ queue' = Tail(queue)

(* The worker hands a freed call to baresip.                               *)
Dangling == g_call \in Calls /\ ~Live(g_call)
UseAfterFree ==
  /\ Dangling
  /\ fault' = TRUE
  /\ NoUpcall
  /\ UNCHANGED <<pc, lineVars, uaVars, wdVars>>

(* ua_create_and_register: ua_alloc may fail, ua_register may fail (then   *)
(* start_register has raised REGISTER_FAIL as well), or the REGISTER is    *)
(* sent.                                                                   *)
ua_create_and_register ==
  \/ /\ g_ua' = FALSE
     /\ Notice("onRegistrationFailed")
     /\ UNCHANGED g_registered
  \/ /\ g_ua' = TRUE
     /\ g_registered' = FALSE
     /\ upcalls' = <<"onRegistrationFailed", "onRegistrationFailed">>
     /\ UNCHANGED callActive
  \/ /\ g_ua' = TRUE
     /\ Notice("onDebug")
     /\ UNCHANGED g_registered

register_worker ==
  /\ Take("register")
  /\ \/ g_ua /\ NoUpcall /\ UNCHANGED uaVars
     \/ ~g_ua /\ ua_create_and_register
  /\ UNCHANGED <<pc, lineVars, wdVars, fault>>

unregister_worker ==
  /\ Take("unregister")
  /\ NoUpcall
  /\ UNCHANGED <<pc, lineVars, uaVars, wdVars, fault>>

(* Faulty variant: g_in_call is not reset with the user agent.             *)
ReregisterKeepsFlag ==
  /\ Take("reregister")
  /\ state' = [c \in Calls |-> IF Live(c) THEN "freed" ELSE state[c]]
  /\ muted' = {}
  /\ g_call' = NoCall
  /\ UNCHANGED g_in_call
  /\ ua_create_and_register
  /\ UNCHANGED <<pc, wdVars, fault>>

(* ua_destroy frees every call of the user agent without CALL_CLOSED.      *)
reregister_worker ==
  /\ Take("reregister")
  /\ state' = [c \in Calls |-> IF Live(c) THEN "freed" ELSE state[c]]
  /\ muted' = {}
  /\ g_call' = NoCall
  /\ g_in_call' = FALSE
  /\ ua_create_and_register
  /\ UNCHANGED <<pc, wdVars, fault>>

(* Faulty variants: the existing call is left alone; its end is not told   *)
(* because g_call is cleared before ua_hangup.                             *)
MakecallBesides ==
  /\ Take("makecall")
  /\ g_call' = NoCall
  /\ g_in_call' = FALSE
  /\ pc' = IF g_ua THEN "connect" ELSE "loop"
  /\ NoUpcall
  /\ UNCHANGED <<state, muted, uaVars, wdVars, fault>>
MakecallUntold ==
  /\ Take("makecall")
  /\ state' = [c \in Calls |-> IF c = g_call THEN "freed" ELSE state[c]]
  /\ muted' = muted \ {g_call}
  /\ g_call' = NoCall
  /\ g_in_call' = FALSE
  /\ pc' = IF g_ua THEN "connect" ELSE "loop"
  /\ NoUpcall
  /\ UNCHANGED <<uaVars, wdVars, fault>>

(* makecall_worker up to the usleep: an existing call is hung up first.    *)
makecall_worker ==
  /\ Take("makecall")
  /\ \/ /\ ~g_ua
        /\ NoUpcall
        /\ UNCHANGED <<pc, lineVars, fault>>
     \/ /\ g_ua
        /\ g_call = NoCall
        /\ pc' = "connect"
        /\ NoUpcall
        /\ UNCHANGED <<lineVars, fault>>
     \/ /\ g_ua
        /\ g_call # NoCall
        /\ Live(g_call)
        /\ CallClosed(g_call, <<>>)
        /\ pc' = "connect"
        /\ UNCHANGED fault
  /\ UNCHANGED <<uaVars, wdVars>>

(* ... and from there: ua_connect fails before the call is announced,      *)
(* fails after CALL_OUTGOING (baresip frees the call and raises no event), *)
(* or sends the INVITE.                                                    *)
ConnectFails ==
  /\ OnCallOver(<<"onCallFailed">>)
  /\ UNCHANGED lineVars

ConnectFailsLate(c) ==
  /\ DialMayFailLate
  /\ state' = [state EXCEPT ![c] = "freed"]
  /\ g_call' = c
  /\ g_in_call' = TRUE
  /\ OnCallOver(<<"onCallFailed">>)
  /\ UNCHANGED muted

ConnectSucceeds(c) ==
  /\ state' = [state EXCEPT ![c] = "outgoing"]
  /\ g_call' = c
  /\ g_in_call' = TRUE
  /\ NoUpcall
  /\ UNCHANGED muted

ua_connect ==
  /\ ~fault
  /\ pc = "connect"
  /\ pc' = "loop"
  /\ \/ ConnectFails
     \/ \E c \in Calls :
          /\ state[c] = "unused"
          /\ ConnectFailsLate(c) \/ ConnectSucceeds(c)
  /\ UNCHANGED <<queue, uaVars, wdVars, fault>>

(* call_answer does nothing unless the call is incoming; it may fail.      *)
answer_worker ==
  /\ Take("answer")
  /\ \/ /\ g_call \in Calls
        /\ state[g_call] = "incoming"
        /\ state' = [state EXCEPT ![g_call] = "answered"]
     \/ /\ ~Dangling
        /\ UNCHANGED state
  /\ NoUpcall
  /\ UNCHANGED <<pc, g_call, g_in_call, muted, uaVars, wdVars, fault>>

(* endcall_worker and timeout_hangup_worker differ in the reason only.     *)
HangUpCurrent ==
  \/ /\ g_call = NoCall
     /\ g_in_call' = FALSE
     /\ NoUpcall
     /\ UNCHANGED <<g_call, state, muted>>
  \/ /\ g_call # NoCall
     /\ Live(g_call)
     /\ CallClosed(g_call, <<>>)

(* Faulty variants: g_call is cleared before ua_hangup, so CALL_CLOSED     *)
(* finds nothing to tell; only a conversation can be hung up.              *)
EndcallUntold ==
  /\ Take("endcall")
  /\ state' = [c \in Calls |-> IF c = g_call THEN "freed" ELSE state[c]]
  /\ muted' = muted \ {g_call}
  /\ g_call' = NoCall
  /\ g_in_call' = FALSE
  /\ NoUpcall
  /\ UNCHANGED <<pc, uaVars, wdVars, fault>>
EndcallOfConversation ==
  /\ Take("endcall")
  /\ IF g_call \in Calls /\ state[g_call] = "established"
       THEN HangUpCurrent
       ELSE NoUpcall /\ UNCHANGED lineVars
  /\ UNCHANGED <<pc, uaVars, wdVars, fault>>

endcall_worker ==
  /\ Take("endcall")
  /\ HangUpCurrent
  /\ UNCHANGED <<pc, uaVars, wdVars, fault>>

timeout_hangup_worker ==
  /\ Take("timeout")
  /\ HangUpCurrent
  /\ UNCHANGED <<pc, uaVars, wdVars, fault>>

(* call_send_digit changes nothing the bridge can see.                     *)
dtmf_worker ==
  /\ Take("dtmf")
  /\ ~Dangling
  /\ NoUpcall
  /\ UNCHANGED <<pc, lineVars, uaVars, wdVars, fault>>

(* Faulty variant: the check of g_call is missing.                         *)
MuteUnchecked(req) ==
  /\ Take(req)
  /\ muted' = IF req = "mute" THEN muted \cup {g_call} ELSE muted \ {g_call}
  /\ NoUpcall
  /\ UNCHANGED <<pc, g_call, g_in_call, state, uaVars, wdVars, fault>>

mute_worker(req) ==
  /\ Take(req)
  /\ ~Dangling
  /\ \/ g_call = NoCall /\ UNCHANGED muted
     \/ /\ g_call # NoCall
        /\ muted' = IF req = "mute" THEN muted \cup {g_call}
                                    ELSE muted \ {g_call}
  /\ NoUpcall
  /\ UNCHANGED <<pc, g_call, g_in_call, state, uaVars, wdVars, fault>>

DanglingUse(req) == Take(req) /\ UseAfterFree /\ (req = "makecall" => g_ua)

-----------------------------------------------------------------------------
(* re_main: baresip_event_handler.                                         *)

Event == ~fault /\ pc = "loop" /\ UNCHANGED <<queue, pc, fault>>

RegisterOk ==
  /\ Event
  /\ g_ua
  /\ g_registered' = TRUE
  /\ Notice("onRegistered")
  /\ UNCHANGED <<g_ua, lineVars, wdVars>>

RegisterFail ==
  /\ Event
  /\ g_ua
  /\ g_registered' = FALSE
  /\ Notice("onRegistrationFailed")
  /\ UNCHANGED <<g_ua, lineVars, wdVars>>

(* CALL_INCOMING on a free line.                                           *)
CallIncoming(c) ==
  /\ Event
  /\ g_ua
  /\ state[c] = "unused"
  /\ CallWaiting \/ \A d \in Calls : ~Live(d)
  /\ g_call = NoCall
  /\ g_call' = c
  /\ g_in_call' = TRUE
  /\ state' = [state EXCEPT ![c] = "incoming"]
  /\ Notice("onIncomingCall")
  /\ UNCHANGED <<muted, uaVars, wdVars>>

(* CALL_INCOMING while g_call points to another call: ua_hangup rejects it *)
(* with 486, which raises CALL_CLOSED for the new call inside the event.   *)
CallIncomingBusy(c) ==
  /\ Event
  /\ g_ua
  /\ state[c] = "unused"
  /\ CallWaiting \/ \A d \in Calls : ~Live(d)
  /\ g_call # NoCall
  /\ CallClosed(c, <<>>)
  /\ UNCHANGED <<uaVars, wdVars>>

(* call_accept refuses an INVITE with 488 (no common codec): CALL_CLOSED   *)
(* for a call that was never announced.                                    *)
CallUnacceptable(c) ==
  /\ Event
  /\ g_ua
  /\ state[c] = "unused"
  /\ CallWaiting \/ \A d \in Calls : ~Live(d)
  /\ CallClosed(c, <<>>)
  /\ UNCHANGED <<uaVars, wdVars>>

(* watchdog_start: one thread at a time.                                   *)
watchdog_start ==
  \/ wd # "off" /\ UNCHANGED wd
  \/ wd = "off" /\ wd' = "sleep"
  \/ wd = "off" /\ SpawnMayFail /\ UNCHANGED wd

CallEstablished(c) ==
  /\ Event
  /\ state[c] \in {"answered", "outgoing"}
  /\ state' = [state EXCEPT ![c] = "established"]
  /\ g_call' = c
  /\ g_in_call' = TRUE
  /\ silent' = FALSE
  /\ watchdog_start
  /\ OnCallStarted
  /\ UNCHANGED <<muted, gone, uaVars>>

(* The session ended: BYE, CANCEL, an error response or a SIP timeout.     *)
SessionClosed(c) ==
  /\ Event
  /\ Live(c)
  /\ CallClosed(c, <<>>)
  /\ UNCHANGED <<uaVars, wdVars>>

(* The audio device failed: AUDIO_ERROR, then CALL_CLOSED.                 *)
AudioError(c) ==
  /\ Event
  /\ state[c] \in {"outgoing", "answered", "established"}
  /\ CallClosed(c, <<"onCallFailed">>)
  /\ UNCHANGED <<uaVars, wdVars>>

(* An RTP packet is decoded or CALL_RTCP is raised: rtpwatch_mark_rx.      *)
MediaArrives(c) ==
  /\ Event
  /\ state[c] \in {"outgoing", "established"}
  /\ c \notin gone
  /\ silent
  /\ silent' = FALSE
  /\ NoUpcall
  /\ UNCHANGED <<lineVars, uaVars, gone, wd>>

-----------------------------------------------------------------------------
(* Time and the remote side.                                               *)

Elsewhere == ~fault /\ upcalls' = <<>>
             /\ UNCHANGED <<pc, lineVars, uaVars, callActive, fault>>

(* RX_TIMEOUT_S seconds pass without a packet.                             *)
MediaLapses ==
  /\ Elsewhere
  /\ ~silent
  /\ silent' = TRUE
  /\ UNCHANGED <<queue, gone, wd>>

(* The remote process is killed: no more media, no BYE.                    *)
PeerDies(c) ==
  /\ Elsewhere
  /\ state[c] = "established"
  /\ c \notin gone
  /\ gone' = gone \cup {c}
  /\ UNCHANGED <<queue, silent, wd>>

-----------------------------------------------------------------------------
(* The watchdog thread: one step for each read or write of shared state.   *)

WatchdogReadsCall ==
  /\ Elsewhere
  /\ wd = "sleep"
  /\ wd' = IF g_call = NoCall THEN "leave" ELSE "measure"
  /\ UNCHANGED <<queue, silent, gone>>

WatchdogMeasures ==
  /\ Elsewhere
  /\ wd = "measure"
  /\ wd' = IF silent THEN "post" ELSE "sleep"
  /\ UNCHANGED <<queue, silent, gone>>

WatchdogPosts ==
  /\ Elsewhere
  /\ wd = "post"
  /\ queue' = Append(queue, "timeout")
  /\ wd' = "leave"
  /\ UNCHANGED <<silent, gone>>

(* Faulty variant: a post that fails ends the watchdog.                    *)
WatchdogGivesUp ==
  /\ Elsewhere
  /\ wd = "post"
  /\ wd' = "leave"
  /\ UNCHANGED <<queue, silent, gone>>

(* remain_run failed: keep watching.                                       *)
WatchdogRetries ==
  /\ Elsewhere
  /\ wd = "post"
  /\ wd' = "sleep"
  /\ UNCHANGED <<queue, silent, gone>>

(* g_watchdog_running = 0                                                  *)
WatchdogLeaves ==
  /\ Elsewhere
  /\ wd = "leave"
  /\ wd' = "off"
  /\ UNCHANGED <<queue, silent, gone>>

-----------------------------------------------------------------------------
Worker ==
  \/ register_worker
  \/ unregister_worker
  \/ reregister_worker
  \/ makecall_worker
  \/ ua_connect
  \/ answer_worker
  \/ endcall_worker
  \/ timeout_hangup_worker
  \/ dtmf_worker
  \/ \E req \in {"mute", "unmute"} : mute_worker(req)
  \/ \E req \in AllRequests \cup {"timeout"} :
       req \notin {"register", "unregister", "reregister"} /\ DanglingUse(req)

EventHandler ==
  \/ RegisterOk
  \/ RegisterFail
  \/ \E c \in Calls :
       \/ CallIncoming(c)
       \/ CallIncomingBusy(c)
       \/ CallUnacceptable(c)
       \/ CallEstablished(c)
       \/ SessionClosed(c)
       \/ AudioError(c)
       \/ MediaArrives(c)

Watchdog ==
  \/ WatchdogReadsCall
  \/ WatchdogMeasures
  \/ WatchdogPosts
  \/ WatchdogRetries
  \/ WatchdogLeaves

Next ==
  \/ \E req \in Requests : Post(req)
  \/ Worker
  \/ EventHandler
  \/ MediaLapses
  \/ \E c \in Calls : PeerDies(c)
  \/ Watchdog

Spec == Init /\ [][Next]_vars

(* The event loop serves its queue, every thread that can run does, a post *)
(* that is retried at last succeeds, and media that has stopped for good   *)
(* has at last been silent for RX_TIMEOUT_S.                               *)
DeadMediaLapses ==
  MediaLapses /\ \A c \in Calls : state[c] = "established" => c \in gone

Fairness ==
  /\ WF_vars(Worker)
  /\ WF_vars(WatchdogReadsCall)
  /\ WF_vars(WatchdogMeasures)
  /\ SF_vars(WatchdogPosts)
  /\ WF_vars(WatchdogLeaves)
  /\ WF_vars(DeadMediaLapses)

FairSpec == Spec /\ Fairness

-----------------------------------------------------------------------------
(* Properties.                                                             *)

(* The single-line rule of the comment on g_call: calls do not coexist,    *)
(* and every live call is the one g_call names, so the phone's keys reach  *)
(* it.                                                                     *)
SingleLine == \A c \in Calls : Live(c) => c = g_call

(* No worker ever hands baresip a call it has freed: what posting to       *)
(* re_main is for (comment above remain_h).                                *)
NoUseAfterFree == ~fault

(* The two globals that say a call exists agree whenever re_main is done   *)
(* with a worker or an event, and while it sleeps in makecall_worker:      *)
(* g_in_call answers nativeIsInCall, g_call guards every worker.           *)
FlagsAgree == g_in_call <=> g_call # NoCall

(* The service believes a conversation is on exactly while an established  *)
(* call is the current one, whichever of the user, the peer, the audio     *)
(* device or the watchdog ends it.                                         *)
ActiveMeansTalking ==
  callActive <=> (g_call \in Calls /\ state[g_call] = "established")

(* g_call is NULL while makecall_worker sleeps, and names a call baresip   *)
(* has not freed; with these the properties above are inductive.           *)
ConnectIdle == pc = "connect" => g_call = NoCall
PointerLive == g_call \in Calls => Live(g_call)

Pending(req) == \E i \in 1..Len(queue) : queue[i] = req

(* A request to hang up that finds a call current ends that call in the    *)
(* end: endcall_worker, or something that closes the call before it runs.  *)
HangUpReaches(c) ==
  (g_call = c /\ Pending("endcall")) ~> ~Live(c)
HangUpReachesCall == \A c \in Calls : HangUpReaches(c)

(* A current call whose peer died is hung up as long as the watchdog is    *)
(* asleep when it happens, even when other calls come and go.              *)
WatchedCallEnds ==
  \A c \in Calls :
    (g_call = c /\ c \in gone /\ wd = "sleep") ~> ~Live(c)

(* watchdog_thread hangs up a conversation ("during a call"), never a call *)
(* that still rings or dials.                                              *)
TimeoutOnlyWhileTalking ==
  [][timeout_hangup_worker =>
       (g_call \in Calls => state[g_call] = "established")]_vars

(* The line PhoneLine sees is the state of the call g_call names.          *)
LineState == IF g_call = NoCall THEN "idle" ELSE state[g_call]
Line == INSTANCE PhoneLine WITH
  line   <- LineState,
  told   <- upcalls,
  active <- callActive

(* As long as no second INVITE arrives, no dial fails late and the account *)
(* is not registered anew, the workers and event handlers of the bridge    *)
(* implement a single telephone line.                                      *)
ImplementsPhoneLine == Line!Spec
=============================================================================
