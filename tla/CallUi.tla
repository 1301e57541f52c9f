-------------------------------- MODULE CallUi --------------------------------
(***************************************************************************)
(* The call screen: MainActivity with its CallState, on top of the service *)
(* (CallService).  The screen follows the notices posted to the main       *)
(* thread, not the line itself: between a key and its effect, and between  *)
(* an event and its notice, the two differ.                                *)
(*                                                                         *)
(* The activity comes and goes.  Without a binding to the service its keys *)
(* reach nobody and no notice reaches it; it synchronises with the native  *)
(* state when the binding is made and whenever it is resumed.              *)
(***************************************************************************)
EXTENDS CallService

VARIABLES
  activity,    \* "none", "unbound", or "bound" to the service
  callState    \* MainActivity.callState

uiVars == <<activity, callState>>
vars == <<serviceVars, uiVars>>

CallState == {"Idle", "Outgoing", "Incoming", "Active"}

TypeOK ==
  /\ ServiceTypeOK
  /\ activity \in {"none", "unbound", "bound"}
  /\ callState \in CallState

Init ==
  /\ ServiceInit
  /\ activity = "none"
  /\ callState = "Idle"

-----------------------------------------------------------------------------
(* nativeIsInCall: g_in_call is set for every call, talking or not.        *)
isCallActive == line # "idle"

(* Faulty variants: a call that rang is left on the screen; a call in      *)
(* progress is not put on it.                                              *)
SyncKeepsIncoming(shown) ==
  callState' = IF isCallActive
                 THEN IF shown = "Idle" THEN "Active" ELSE shown
                 ELSE IF shown = "Incoming" THEN shown ELSE "Idle"
SyncOnlyClears(shown) ==
  callState' = IF isCallActive THEN shown ELSE "Idle"

(* syncCallState, with shown on the screen.  A call in progress moves an   *)
(* idle screen only; without one the screen becomes idle.                  *)
syncCallState(shown) ==
  callState' = IF ~isCallActive THEN "Idle"
               ELSE IF shown = "Idle" THEN "Active" ELSE shown

(* The listener's part of a notice.                                        *)
Shows(cb) ==
  callState' = CASE cb = "onIncomingCall" -> "Incoming"
                 [] cb = "onCallStarted"  -> "Active"
                 [] OTHER                 -> "Idle"

Notice(cb) ==
  /\ Delivers(cb)
  /\ UNCHANGED activity
  /\ IF activity = "bound" THEN Shows(cb) ELSE UNCHANGED callState

-----------------------------------------------------------------------------
(* Keys.                                                                   *)

Key ==
  /\ OnMain
  /\ activity # "none"
  /\ Room
  /\ UNCHANGED <<ringVars, sounding, intents, activity>>

(* What a key asks of the service, if there is one.                        *)
Asks(request) ==
  IF activity = "bound" THEN request ELSE UNCHANGED <<main, exec>>

KeyDials ==
  /\ Key
  /\ callState = "Idle"
  /\ callState' = "Outgoing"
  /\ \E op \in {"makecall", "dialself"} : Asks(makeCall(op))

KeyAnswers ==
  /\ Key
  /\ callState = "Incoming"
  /\ UNCHANGED callState
  /\ Asks(answerCall)

KeyEnds ==
  /\ Key
  /\ callState # "Idle"
  /\ callState' = "Idle"
  /\ Asks(endCall)

-----------------------------------------------------------------------------
(* The activity's life.                                                    *)

OutsideService ==
  /\ OnMain
  /\ UNCHANGED <<exec, ringVars, main, sounding>>

(* onCreate.  The system may start the activity anew with the intent that  *)
(* started it first, which may be that of an incoming call of long ago.    *)
Created(intent) ==
  /\ activity = "none"
  /\ activity' = "unbound"
  /\ callState' = IF intent = "incoming" THEN "Incoming" ELSE "Idle"

UserOpens ==
  /\ OutsideService
  /\ UNCHANGED intents
  /\ Created("show") \/ (ringing /\ Created("incoming"))

(* onServiceConnected                                                      *)
ServiceConnected ==
  /\ OutsideService
  /\ UNCHANGED intents
  /\ activity = "unbound"
  /\ activity' = "bound"
  /\ syncCallState(callState)

(* An intent of showMainActivity: onCreate, or onNewIntent and onResume.   *)
IntentArrives ==
  /\ OutsideService
  /\ intents # <<>>
  /\ intents' = Tail(intents)
  /\ \/ Created(Head(intents))
     \/ /\ activity # "none"
        /\ UNCHANGED activity
        /\ LET shown == IF Head(intents) = "incoming" THEN "Incoming"
                                                      ELSE callState
           IN IF activity = "bound" THEN syncCallState(shown)
                                    ELSE callState' = shown

(* The user comes back to the activity: onResume.                          *)
Resumed ==
  /\ OutsideService
  /\ UNCHANGED <<intents, activity>>
  /\ activity = "bound"
  /\ syncCallState(callState)

Destroyed ==
  /\ OutsideService
  /\ UNCHANGED intents
  /\ activity # "none"
  /\ activity' = "none"
  /\ callState' = "Idle"

-----------------------------------------------------------------------------
Next ==
  \/ Background /\ UNCHANGED uiVars
  \/ \E cb \in Notices : Notice(cb)
  \/ KeyDials
  \/ KeyAnswers
  \/ KeyEnds
  \/ UserOpens
  \/ ServiceConnected
  \/ IntentArrives
  \/ Resumed
  \/ Destroyed

Spec == Init /\ [][Next]_vars

MainServes ==
  \/ StopsRinging /\ UNCHANGED uiVars
  \/ \E cb \in Notices : Notice(cb)

(* The queues are served and the ring timer fires; the user, the remote    *)
(* side and Android's activity manager owe nothing.                        *)
Fairness ==
  /\ WF_vars(LineServes /\ UNCHANGED uiVars)
  /\ WF_vars(Executor /\ UNCHANGED uiVars)
  /\ WF_vars(MainServes)
  /\ WF_vars(RingTimeout /\ UNCHANGED uiVars)

FairSpec == Spec /\ Fairness

-----------------------------------------------------------------------------
(* Properties.                                                             *)

(* Everything that was asked for, posted or started has been done.         *)
Settled ==
  /\ exec = <<>> /\ half = "none"
  /\ queue = <<>> /\ ~connecting
  /\ main = <<>>
  /\ intents = <<>>

(* A screen bound to the service never stays at a call that is gone.       *)
ScreenSettles ==
  (Settled /\ activity = "bound" /\ line = "idle") => callState = "Idle"

(* Once nothing is under way, a conversation can be hung up: the service   *)
(* holds it to be on, so that closing the flip ends it, and a screen bound *)
(* to the service is not idle, where the end key would clear a digit.  Not *)
(* so when the own number was dialled from a screen that lagged behind:    *)
(* the refusal is told like a failure of the call that is on.              *)
HangUpAtHand ==
  (Settled /\ line = "established" /\ ~refused) =>
    /\ callActive
    /\ activity = "bound" => callState # "Idle"

(* While a conversation is on and nothing is under way, the audio is       *)
(* routed as for a call.                                                   *)
TalkingHasCallAudio ==
  (Settled /\ line = "established") => audio

(* A call that rings is about to be hung up, or the ring timer runs and    *)
(* will hang it up, whatever calls the same timer has been set for before. *)
RingIsTimed ==
  line = "incoming" =>
    \/ timer /\ ringing
    \/ \E i \in 1..Len(exec) : exec[i] = "endcall"
    \/ \E i \in 1..Len(queue) : queue[i] = "endcall"

(* With no message left for the main thread, ringtone and vibration are on *)
(* only for a call that has not been talked on yet.                        *)
SoundHasCall ==
  sounding /\ main = <<>> => line \in {"incoming", "answered"}

(* An incoming call does not ring for ever: it is answered, ends, or the   *)
(* ring timer rejects it.                                                  *)
RingingEnds == (line = "incoming") ~> (line # "incoming")

(* Ringtone and vibration stop in the end.                                 *)
SoundStops == sounding ~> ~sounding

(* The comment on onRingTimeout: it rejects an incoming call that was not  *)
(* answered.  It never ends a call the user has dialled.                   *)
DialledCallNotTimedOut ==
  [][(RingTimeout /\ exec' # exec) => line # "outgoing"]_vars
=============================================================================
