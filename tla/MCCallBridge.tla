---------------------------- MODULE MCCallBridge ----------------------------
(***************************************************************************)
(* Instances of CallBridge for TLC.                                        *)
(***************************************************************************)
EXTENDS CallBridge, TLC

CONSTANTS c1, c2, c3

TwoCalls == {c1, c2}
ThreeCalls == {c1, c2, c3}
CallSymmetry == Permutations(Calls)

(* Requests that matter to the calls; all but a new registration.          *)
LineRequests == {"register", "makecall", "answer", "endcall"}
QuietRequests == AllRequests \ {"reregister"}

=============================================================================
