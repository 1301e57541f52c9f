------------------------------- MODULE ReAsync -------------------------------
(***************************************************************************)
(* How a request travels from a JNI thread to the event loop: libre's      *)
(* async object (async.c) and message queue (mqueue.c), as remain_run and  *)
(* re_thread_async_main use them, without a work handler.                  *)
(*                                                                         *)
(* A post appends a work item to workl and signals a worker thread; the    *)
(* worker moves the item to curl, releases the lock, takes it again and    *)
(* writes a pointer to the item to the message queue, a pipe; the event    *)
(* loop reads the pipe and runs the callback.  A step is one stretch of    *)
(* code under the object's mutex, or one pass of the event loop.           *)
(***************************************************************************)
EXTENDS FiniteSets, Sequences, SequencesExt

CONSTANTS
  Posts,      \* the requests posted, each once
  Workers,    \* the worker threads: one (re_thread_async_init(1)), or four
              \* if that failed (RE_THREAD_WORKERS)
  PipeRoom    \* messages the pipe holds

ASSUME PipeAssumption == PipeRoom \in Nat
ASSUME WorkersAssumption == IsFiniteSet(Workers)

VARIABLES
  workl,     \* items no worker has taken
  curl,      \* items taken and not yet run
  pipe,      \* items written to the message queue
  thread,    \* where each worker is
  work,      \* the item each worker holds, as a sequence of at most one
  posted,
  ran        \* items run by the event loop, in order

vars == <<workl, curl, pipe, thread, work, posted, ran>>

TypeOK ==
  /\ workl \in Seq(Posts)
  /\ curl \subseteq Posts
  /\ pipe \in Seq(Posts)
  /\ thread \in [Workers -> {"start", "waiting", "woken", "push"}]
  /\ work \in [Workers -> Seq(Posts)]
  /\ posted \subseteq Posts
  /\ ran \in Seq(Posts)
  /\ \A w \in Workers : thread[w] = "push" <=> Len(work[w]) = 1

Init ==
  /\ workl = <<>>
  /\ curl = {}
  /\ pipe = <<>>
  /\ thread = [w \in Workers |-> "start"]
  /\ work = [w \in Workers |-> <<>>]
  /\ posted = {}
  /\ ran = <<>>

-----------------------------------------------------------------------------
(* re_async: append the item, and wake one worker if any waits.            *)
re_async(p) ==
  /\ p \notin posted
  /\ posted' = posted \cup {p}
  /\ workl' = Append(workl, p)
  /\ \/ /\ \A w \in Workers : thread[w] # "waiting"
        /\ UNCHANGED thread
     \/ \E w \in Workers :
          /\ thread[w] = "waiting"
          /\ thread' = [thread EXCEPT ![w] = "woken"]
  /\ UNCHANGED <<curl, pipe, work, ran>>

(* worker_thread, from cnd_wait or the head of the loop: take the oldest   *)
(* item ...                                                                *)
TakeFrom(w, item, rest) ==
  /\ workl # <<>>
  /\ workl' = rest
  /\ curl' = curl \cup {item}
  /\ work' = [work EXCEPT ![w] = <<item>>]
  /\ thread' = [thread EXCEPT ![w] = "push"]

(* Faulty variant: the newest item.                                        *)
TakeNewest(w) ==
  /\ thread[w] \in {"start", "woken"}
  /\ TakeFrom(w, Last(workl), Front(workl))
  /\ UNCHANGED <<pipe, posted, ran>>

(* Faulty variant: the item is on no list while the worker holds it.       *)
TakeUnlisted(w) ==
  /\ thread[w] \in {"start", "woken"}
  /\ workl # <<>>
  /\ workl' = Tail(workl)
  /\ work' = [work EXCEPT ![w] = <<Head(workl)>>]
  /\ thread' = [thread EXCEPT ![w] = "push"]
  /\ UNCHANGED <<curl, pipe, posted, ran>>

TakeItem(w) ==
  /\ thread[w] \in {"start", "woken"}
  /\ TakeFrom(w, Head(workl), Tail(workl))
  /\ UNCHANGED <<pipe, posted, ran>>

(* Faulty variant: cnd_wait without a look at the list.                    *)
WaitUnchecked(w) ==
  /\ thread[w] = "start"
  /\ thread' = [thread EXCEPT ![w] = "waiting"]
  /\ UNCHANGED <<workl, curl, pipe, work, posted, ran>>

(* ... or wait for one, ...                                                *)
Wait(w) ==
  /\ thread[w] = "start"
  /\ workl = <<>>
  /\ thread' = [thread EXCEPT ![w] = "waiting"]
  /\ UNCHANGED <<workl, curl, pipe, work, posted, ran>>

(* Faulty variant: the list is not looked at again after cnd_wait.         *)
WokenGoesOn(w) ==
  /\ thread[w] = "woken"
  /\ workl = <<>>
  /\ thread' = [thread EXCEPT ![w] = "push"]
  /\ UNCHANGED <<workl, curl, pipe, work, posted, ran>>

(* ... or, woken for nothing, start over.                                  *)
WokenForNothing(w) ==
  /\ thread[w] = "woken"
  /\ workl = <<>>
  /\ thread' = [thread EXCEPT ![w] = "start"]
  /\ UNCHANGED <<workl, curl, pipe, work, posted, ran>>

(* cnd_wait may return without a signal; worker_check, a timer of the      *)
(* event loop, may wake a waiting worker too, while items are listed.      *)
SpuriousWakeup(w) ==
  /\ thread[w] = "waiting"
  /\ thread' = [thread EXCEPT ![w] = "woken"]
  /\ UNCHANGED <<workl, curl, pipe, work, posted, ran>>

(* mqueue_push does not block and its result is ignored: a full pipe loses *)
(* the item.                                                               *)
Push(w) ==
  /\ thread[w] = "push"
  /\ pipe' = IF Len(pipe) < PipeRoom THEN pipe \o work[w] ELSE pipe
  /\ work' = [work EXCEPT ![w] = <<>>]
  /\ thread' = [thread EXCEPT ![w] = "start"]
  /\ UNCHANGED <<workl, curl, posted, ran>>

(* Faulty variant: the message stays in the pipe.                          *)
RunAgain ==
  /\ pipe # <<>>
  /\ Len(ran) < 2 * Cardinality(Posts)
  /\ ran' = Append(ran, Head(pipe))
  /\ UNCHANGED <<workl, curl, pipe, thread, work, posted>>

(* The event loop reads a message; queueh runs the callback.               *)
queueh ==
  /\ pipe # <<>>
  /\ ran' = Append(ran, Head(pipe))
  /\ pipe' = Tail(pipe)
  /\ curl' = curl \ {Head(pipe)}
  /\ UNCHANGED <<workl, thread, work, posted>>

-----------------------------------------------------------------------------
worker_thread(w) ==
  TakeItem(w) \/ Wait(w) \/ WokenForNothing(w) \/ Push(w)

Next ==
  \/ \E p \in Posts : re_async(p)
  \/ \E w \in Workers : worker_thread(w) \/ SpuriousWakeup(w)
  \/ queueh

Fairness ==
  /\ \A w \in Workers : WF_vars(worker_thread(w))
  /\ WF_vars(queueh)

Spec == Init /\ [][Next]_vars /\ Fairness

-----------------------------------------------------------------------------
(* Properties.                                                             *)

(* A worker that waits has been told of every item: no post is left lying  *)
(* in workl while all workers sleep, even without the timer.               *)
NoLostWakeup ==
  workl # <<>> => \E w \in Workers : thread[w] # "waiting"

(* Whatever the number of workers, no request is run twice.                *)
RunOnce == IsInjective(ran)

(* Every item posted is on one list, workl, curl or, once it has run, the  *)
(* list of free items, and none that a worker or the pipe still points to  *)
(* is free: freel is what re_async takes the next item from, and           *)
(* async_destructor frees all three lists.                                 *)
OneList ==
  /\ posted = ToSet(workl) \cup curl \cup ToSet(ran)
  /\ ToSet(workl) \cap curl = {}
  /\ (ToSet(workl) \cup curl) \cap ToSet(ran) = {}
  /\ ToSet(pipe) \cup UNION {ToSet(work[w]) : w \in Workers} \subseteq curl

(* The item on its way through the one worker.                             *)
InHand == work[CHOOSE w \in Workers : TRUE]

Queue == INSTANCE PostQueue WITH queue <- pipe \o InHand \o workl

(* With one worker and a pipe that is never full, requests run once each,  *)
(* in the order of the posts, and every one of them at last: remain_run    *)
(* is a queue (comment above remain_h).                                    *)
ImplementsPostQueue == Queue!Spec
=============================================================================
