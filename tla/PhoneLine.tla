------------------------------ MODULE PhoneLine ------------------------------
(***************************************************************************)
(* What the native bridge promises the Kotlin service: one telephone line. *)
(* The line carries at most one call; it is idle between two calls; the    *)
(* service hears of every incoming call, of every conversation that starts *)
(* and of the end of every call, in the step in which it happens, and has  *)
(* nothing else to learn about calls.  A call that is dialled is known to  *)
(* the service already and is not announced.                               *)
(***************************************************************************)
EXTENDS Sequences

VARIABLES
  line,    \* state of the one call
  told,    \* callbacks of the last step
  active   \* what the callbacks have told the service: a conversation is on

vars == <<line, told, active>>

Notices ==   \* callbacks that say nothing about calls
  {<<>>, <<"onRegistered">>, <<"onRegistrationFailed">>, <<"onDebug">>,
   <<"onRegistrationFailed", "onRegistrationFailed">>}

Init ==
  /\ line = "idle"
  /\ told = <<>>
  /\ active = FALSE

Dial ==
  /\ line = "idle"
  /\ line' = "outgoing"
  /\ told' = <<>>
  /\ UNCHANGED active

DialFails ==
  /\ line = "idle"
  /\ told' = <<"onCallFailed">>
  /\ UNCHANGED <<line, active>>

Ring ==
  /\ line = "idle"
  /\ line' = "incoming"
  /\ told' = <<"onIncomingCall">>
  /\ UNCHANGED active

Answer ==
  /\ line = "incoming"
  /\ line' = "answered"
  /\ told' = <<>>
  /\ UNCHANGED active

Talk ==
  /\ line \in {"answered", "outgoing"}
  /\ line' = "established"
  /\ told' = <<"onCallStarted">>
  /\ active' = TRUE

End ==
  /\ line # "idle"
  /\ line' = "idle"
  /\ told' \in {<<"onCallEnded">>, <<"onCallFailed", "onCallEnded">>}
  /\ active' = FALSE

Quiet ==
  /\ told' \in Notices
  /\ UNCHANGED <<line, active>>

Next == Dial \/ DialFails \/ Ring \/ Answer \/ Talk \/ End \/ Quiet

Spec == Init /\ [][Next]_vars
=============================================================================
