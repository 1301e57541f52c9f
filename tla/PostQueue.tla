------------------------------ MODULE PostQueue ------------------------------
(***************************************************************************)
(* What remain_run promises: requests run on the event loop, each once, in *)
(* the order in which they were posted.  CallBridge's queue is this one.   *)
(***************************************************************************)
EXTENDS Sequences

CONSTANT Posts   \* the requests that can be posted, each once

VARIABLES
  queue,    \* posted and not yet run
  posted,   \* posted so far
  ran       \* run so far, in order

vars == <<queue, posted, ran>>

Init == queue = <<>> /\ posted = {} /\ ran = <<>>

Post(p) ==
  /\ p \notin posted
  /\ posted' = posted \cup {p}
  /\ queue' = Append(queue, p)
  /\ UNCHANGED ran

Run ==
  /\ queue # <<>>
  /\ ran' = Append(ran, Head(queue))
  /\ queue' = Tail(queue)
  /\ UNCHANGED posted

Next == Run \/ \E p \in Posts : Post(p)

Spec == Init /\ [][Next]_vars /\ WF_vars(Run)
=============================================================================
