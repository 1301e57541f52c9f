----------------------------- MODULE CallService -----------------------------
(***************************************************************************)
(* The Kotlin service of the phone: SipService, SipManager and the ringing *)
(* of NotificationHelper, over the telephone line of PhoneLine.            *)
(*                                                                         *)
(* Three threads meet here, with a queue between each two of them:         *)
(*   - the main thread runs keys, receivers, the ring timer and the        *)
(*     messages posted to its looper (main);                               *)
(*   - sipExecutor runs one operation of SipManager after the other        *)
(*     (exec).  answerCall and endCall are two steps each: one switches    *)
(*     the audio mode, one posts the native request.  The refusal of the   *)
(*     own number is four, for re_main may call the service between any    *)
(*     two of its writes and posts (half);                                 *)
(*   - re_main takes the posted requests (queue), moves the line, and runs *)
(*     the callbacks of SipManager and SipService within the same step.    *)
(* Two messages that re_main posts in a row (stopRinging and the notice to *)
(* the listeners) are one message, named for the notice.                   *)
(***************************************************************************)
EXTENDS Naturals, Sequences

CONSTANTS
  (* Bounds on what is under way when the user or a caller does something. *)
  MaxOps,      \* operations in exec and queue, or half done
  MaxMain,     \* messages of the main thread
  MaxIntents   \* activity starts

ASSUME ServiceBoundsAssumption == {MaxOps, MaxMain, MaxIntents} \subseteq Nat

VARIABLES
  line, told, callActive,   \* the line; SipService.callActive
  refused,     \* history: during this conversation a dial of the own
               \* number was refused, or its refusal was under way
  connecting,  \* re_main sleeps in makecall_worker
  queue,       \* native requests posted to re_main
  exec,        \* operations queued in sipExecutor
  half,        \* the operation the executor is half way through, or "none"
  audio,       \* the audio mode is MODE_IN_COMMUNICATION
  ringing,     \* SipService.ringing
  timer,       \* ringTimeoutRunnable is posted
  main,        \* messages of the main looper
  sounding,    \* ringtone and vibration are on
  notified,    \* the notification of an incoming call is shown
  intents      \* activities started and not yet delivered

lineVars == <<line, told, callActive, refused, connecting, queue>>
execVars == <<exec, half>>
ringVars == <<ringing, timer, notified>>
serviceVars ==
  <<lineVars, execVars, audio, ringVars, main, sounding, intents>>

Line == INSTANCE PhoneLine WITH active <- callActive

Requests == {"makecall", "answer", "endcall"}
Operations == Requests \cup {"dialself"}
CallNotices ==
  {"onIncomingCall", "onCallStarted", "onCallEnded", "onCallFailed"}
Notices == CallNotices \cup {"refusal"}
Messages == Notices \cup {"stopRinging"}

(* How far the refusal of the own number has come.                         *)
Refusing == {"unflagged", "cancelled", "silenced"}

ServiceTypeOK ==
  /\ line \in {"idle", "incoming", "answered", "outgoing", "established"}
  /\ told \in Seq(CallNotices)
  /\ callActive \in BOOLEAN
  /\ refused \in BOOLEAN
  /\ connecting \in BOOLEAN
  /\ queue \in Seq(Requests)
  /\ exec \in Seq(Operations)
  /\ half \in {"none", "answer", "endcall"} \cup Refusing
  /\ audio \in BOOLEAN
  /\ ringing \in BOOLEAN
  /\ timer \in BOOLEAN
  /\ main \in Seq(Messages)
  /\ sounding \in BOOLEAN
  /\ notified \in BOOLEAN
  /\ intents \in Seq({"incoming", "show"})

ServiceInit ==
  /\ Line!Init
  /\ refused = FALSE
  /\ connecting = FALSE
  /\ queue = <<>>
  /\ exec = <<>>
  /\ half = "none"
  /\ audio = FALSE
  /\ ringing = FALSE
  /\ timer = FALSE
  /\ main = <<>>
  /\ sounding = FALSE
  /\ notified = FALSE
  /\ intents = <<>>

-----------------------------------------------------------------------------
(* The callbacks of SipManager and SipService, on the re_main thread.      *)

NoCallback == UNCHANGED <<refused, audio, ringVars, main, intents>>

(* Faulty variant: a timer that is thought to run is not set anew.         *)
OnIncomingCallOnce ==
  /\ ringing' = TRUE
  /\ timer' = (timer \/ ~ringing)
  /\ notified' = TRUE
  /\ main' = Append(main, "onIncomingCall")
  /\ intents' = Append(intents, "incoming")
  /\ UNCHANGED <<refused, audio>>

OnIncomingCall ==
  /\ ringing' = TRUE
  /\ timer' = TRUE
  /\ notified' = TRUE
  /\ main' = Append(main, "onIncomingCall")
  /\ intents' = Append(intents, "incoming")
  /\ UNCHANGED <<refused, audio>>

(* Faulty variant: the audio mode is left to answerCall.                   *)
OnCallStartedQuietly ==
  /\ refused' = (half \in Refusing)
  /\ notified' = FALSE
  /\ main' = Append(main, "onCallStarted")
  /\ intents' = Append(intents, "show")
  /\ UNCHANGED <<audio, ringing, timer>>

OnCallStarted ==
  /\ audio' = TRUE
  /\ refused' = (half \in Refusing)
  /\ notified' = FALSE
  /\ main' = Append(main, "onCallStarted")
  /\ intents' = Append(intents, "show")
  /\ UNCHANGED <<ringing, timer>>

(* onCallEnded and onCallFailed, in the order of the line's callbacks.     *)
OnCallOver ==
  /\ audio' = FALSE
  /\ refused' = FALSE
  /\ notified' = FALSE
  /\ main' = main \o told'
  /\ UNCHANGED <<ringing, timer, intents>>

-----------------------------------------------------------------------------
(* re_main: the native requests, and what the remote side does.            *)

ReMain == ~connecting /\ UNCHANGED <<execVars, sounding>>

Take(req) ==
  /\ ReMain
  /\ queue # <<>>
  /\ Head(queue) = req
  /\ queue' = Tail(queue)

HungUp == Line!End /\ told' = <<"onCallEnded">> /\ OnCallOver
NothingHeard == UNCHANGED <<line, callActive>> /\ told' = <<>> /\ NoCallback

LineTakesMakecall ==
  /\ Take("makecall")
  /\ connecting' = TRUE
  /\ HungUp \/ (line = "idle" /\ NothingHeard)

LineConnects ==
  /\ connecting
  /\ connecting' = FALSE
  /\ (Line!Dial /\ NoCallback) \/ (Line!DialFails /\ OnCallOver)
  /\ UNCHANGED <<queue, execVars, sounding>>

LineTakesAnswer ==
  /\ Take("answer")
  /\ (Line!Answer /\ NoCallback) \/ NothingHeard
  /\ UNCHANGED connecting

LineTakesEndcall ==
  /\ Take("endcall")
  /\ HungUp \/ (line = "idle" /\ NothingHeard)
  /\ UNCHANGED connecting

One(busy) == IF busy THEN 1 ELSE 0

Room ==
  /\ Len(exec) + One(half # "none") + Len(queue) + One(connecting) < MaxOps
  /\ Len(main) < MaxMain
  /\ Len(intents) < MaxIntents

LineRings ==
  /\ ReMain
  /\ Room
  /\ Line!Ring
  /\ OnIncomingCall
  /\ UNCHANGED <<queue, connecting>>

LineTalks ==
  /\ ReMain
  /\ Line!Talk
  /\ OnCallStarted
  /\ UNCHANGED <<queue, connecting>>

LineEnds ==
  /\ ReMain
  /\ Line!End
  /\ OnCallOver
  /\ UNCHANGED <<queue, connecting>>

-----------------------------------------------------------------------------
(* sipExecutor.                                                            *)

Elsewhere == told' = <<>> /\ UNCHANGED <<line, connecting>>

ExecTakes(op) ==
  /\ Elsewhere
  /\ half = "none"
  /\ exec # <<>>
  /\ Head(exec) = op
  /\ exec' = Tail(exec)

ExecDials ==
  /\ ExecTakes("makecall")
  /\ queue' = Append(queue, "makecall")
  /\ NoCallback
  /\ UNCHANGED <<callActive, half, sounding>>

(* Faulty variant: the own number is dialled like any other.               *)
ExecDialsSelf ==
  /\ ExecTakes("dialself")
  /\ queue' = Append(queue, "dialself")
  /\ NoCallback
  /\ UNCHANGED <<callActive, half, sounding>>

(* The user's own number: SipService.onCallFailed, called by the executor  *)
(* itself.  First the flag, ...                                            *)
ExecRefusesSelf ==
  /\ ExecTakes("dialself")
  /\ half' = "unflagged"
  /\ callActive' = FALSE
  /\ refused' = (line = "established")
  /\ UNCHANGED <<queue, audio, ringVars, main, sounding, intents>>

Refuses(from, to) ==
  /\ Elsewhere
  /\ half = from
  /\ half' = to
  /\ UNCHANGED <<callActive, refused, queue, exec, audio, ringing, timer,
                 sounding, intents>>

(* ... then the notification, ...                                          *)
ExecCancelsNotification ==
  /\ Refuses("unflagged", "cancelled")
  /\ notified' = FALSE
  /\ UNCHANGED main

(* ... the ringtone, ...                                                   *)
ExecSilences ==
  /\ Refuses("cancelled", "silenced")
  /\ main' = Append(main, "stopRinging")
  /\ UNCHANGED notified

(* ... and the listeners.                                                  *)
ExecPostsRefusal ==
  /\ Refuses("silenced", "none")
  /\ main' = Append(main, "refusal")
  /\ UNCHANGED notified

ExecAnswers ==
  /\ ExecTakes("answer")
  /\ half' = "answer"
  /\ audio' = TRUE
  /\ UNCHANGED <<callActive, refused, queue, ringVars, main, sounding, intents>>

ExecPostsAnswer ==
  /\ Elsewhere
  /\ half = "answer"
  /\ half' = "none"
  /\ queue' = Append(queue, "answer")
  /\ NoCallback
  /\ UNCHANGED <<callActive, exec, sounding>>

ExecPostsEndcall ==
  /\ ExecTakes("endcall")
  /\ half' = "endcall"
  /\ queue' = Append(queue, "endcall")
  /\ NoCallback
  /\ UNCHANGED <<callActive, sounding>>

ExecEndsAudio ==
  /\ Elsewhere
  /\ half = "endcall"
  /\ half' = "none"
  /\ audio' = FALSE
  /\ UNCHANGED <<callActive, refused, queue, exec, ringVars, main, sounding,
                 intents>>

-----------------------------------------------------------------------------
(* The main thread.                                                        *)

OnMain == Elsewhere /\ UNCHANGED <<callActive, refused, queue, half, audio>>

makeCall(op) ==
  /\ exec' = Append(exec, op)
  /\ UNCHANGED main

answerCall ==
  /\ main' = Append(main, "stopRinging")
  /\ exec' = Append(exec, "answer")

endCall ==
  /\ main' = Append(main, "stopRinging")
  /\ exec' = Append(exec, "endcall")

MainTakes(msg) ==
  /\ OnMain
  /\ main # <<>>
  /\ Head(main) = msg
  /\ main' = Tail(main)
  /\ UNCHANGED <<exec, ringVars, intents>>

StopsRinging == MainTakes("stopRinging") /\ sounding' = FALSE

(* Faulty variant: ringing stops when the call ends, not when it starts.   *)
DeliversStillRinging(cb) ==
  /\ MainTakes(cb)
  /\ sounding' = \/ cb = "onIncomingCall"
                 \/ sounding /\ cb \in {"onCallStarted", "refusal"}

(* startRinging or stopRinging, then the notice to the listeners; the      *)
(* executor has sent its stopRinging ahead.                                *)
Delivers(cb) ==
  /\ MainTakes(cb)
  /\ sounding' = (cb = "onIncomingCall" \/ (sounding /\ cb = "refusal"))

(* onRingTimeout, not before the call it was set by has been announced.    *)
RingTimeout ==
  /\ OnMain
  /\ timer
  /\ \A i \in 1..Len(main) : main[i] # "onIncomingCall"
  /\ timer' = FALSE
  /\ \/ /\ ~ringing \/ callActive
        /\ UNCHANGED <<main, exec, notified>>
     \/ /\ ringing /\ ~callActive
        /\ endCall
        /\ notified' = FALSE
  /\ UNCHANGED <<ringing, sounding, intents>>

(* The flip is closed during a conversation.                               *)
ScreenOff ==
  /\ OnMain
  /\ Room
  /\ callActive
  /\ endCall
  /\ UNCHANGED <<ringVars, sounding, intents>>

(* The buttons of the incoming call's notification.                        *)
NotificationPressed ==
  /\ OnMain
  /\ Room
  /\ notified
  /\ answerCall \/ endCall
  /\ UNCHANGED <<ringVars, sounding, intents>>

-----------------------------------------------------------------------------
LineServes ==
  \/ LineTakesMakecall
  \/ LineConnects
  \/ LineTakesAnswer
  \/ LineTakesEndcall

Executor ==
  \/ ExecDials
  \/ ExecRefusesSelf
  \/ ExecCancelsNotification
  \/ ExecSilences
  \/ ExecPostsRefusal
  \/ ExecAnswers
  \/ ExecPostsAnswer
  \/ ExecPostsEndcall
  \/ ExecEndsAudio

(* What happens without the call screen.                                   *)
Background ==
  \/ LineServes
  \/ LineRings
  \/ LineTalks
  \/ LineEnds
  \/ Executor
  \/ StopsRinging
  \/ RingTimeout
  \/ ScreenOff
  \/ NotificationPressed
=============================================================================
