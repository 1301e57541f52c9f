---------------------------- MODULE ReAsyncProofs ----------------------------
(***************************************************************************)
(* What holds of ReAsync for any number of workers and posts and any room  *)
(* in the pipe, a full pipe included.                                      *)
(***************************************************************************)
EXTENDS ReAsync, FiniteSetTheorems, SequenceTheorems, TLAPS

LEMMA TypeInductive == TypeOK /\ [Next]_vars => TypeOK'
<1> SUFFICES ASSUME TypeOK, [Next]_vars PROVE TypeOK'
  OBVIOUS
<1> USE DEF TypeOK
<1>1. ASSUME NEW p \in Posts, re_async(p) PROVE TypeOK'
  <2>1. /\ workl' \in Seq(Posts) /\ posted' \subseteq Posts
        /\ UNCHANGED <<curl, pipe, work, ran>>
    BY <1>1 DEF re_async
  <2>2. /\ thread' \in [Workers -> {"start", "waiting", "woken", "push"}]
        /\ \A w \in Workers : thread'[w] = "push" <=> thread[w] = "push"
    BY <1>1 DEF re_async
  <2>3. QED
    BY <2>1, <2>2
<1>2. ASSUME NEW w \in Workers, TakeItem(w) PROVE TypeOK'
  BY <1>2 DEF TakeItem, TakeFrom
<1>3. ASSUME NEW w \in Workers, Wait(w) \/ WokenForNothing(w) \/ SpuriousWakeup(w)
      PROVE  TypeOK'
  BY <1>3 DEF Wait, WokenForNothing, SpuriousWakeup
<1>4. ASSUME NEW w \in Workers, Push(w) PROVE TypeOK'
  BY <1>4 DEF Push
<1>5. CASE queueh
  BY <1>5 DEF queueh
<1>6. CASE UNCHANGED vars
  BY <1>6 DEF vars
<1>7. QED
  BY <1>1, <1>2, <1>3, <1>4, <1>5, <1>6, Zenon DEF Next, worker_thread

(* The transport is well typed: a worker that pushes holds one item, any   *)
(* other holds none.                                                       *)
THEOREM TransportTypeCorrect == Spec => []TypeOK
<1>1. Init => TypeOK
  BY DEF Init, TypeOK
<1>2. QED
  BY <1>1, TypeInductive, PTL DEF Spec

-----------------------------------------------------------------------------
(* No post is slept through.                                               *)

LEMMA WakeupInductive ==
  ASSUME Workers # {}
  PROVE  TypeOK /\ NoLostWakeup /\ [Next]_vars => NoLostWakeup'
<1> SUFFICES ASSUME TypeOK, NoLostWakeup, [Next]_vars PROVE NoLostWakeup'
  OBVIOUS
<1> USE DEF NoLostWakeup
<1>1. ASSUME NEW p \in Posts, re_async(p) PROVE NoLostWakeup'
  BY <1>1 DEF re_async, TypeOK
<1>2. ASSUME NEW w \in Workers, TakeItem(w) PROVE NoLostWakeup'
  BY <1>2 DEF TakeItem, TakeFrom, TypeOK
<1>3. ASSUME NEW w \in Workers, Wait(w) \/ WokenForNothing(w) \/ SpuriousWakeup(w)
      PROVE  NoLostWakeup'
  BY <1>3 DEF Wait, WokenForNothing, SpuriousWakeup, TypeOK
<1>4. ASSUME NEW w \in Workers, Push(w) PROVE NoLostWakeup'
  BY <1>4 DEF Push, TypeOK
<1>5. CASE queueh
  BY <1>5 DEF queueh
<1>6. CASE UNCHANGED vars
  BY <1>6 DEF vars
<1>7. QED
  BY <1>1, <1>2, <1>3, <1>4, <1>5, <1>6, Zenon DEF Next, worker_thread

(* While an item lies in workl some worker is awake, with any number of    *)
(* workers: the signal of re_async and the look at the list before         *)
(* cnd_wait leave no gap.                                                  *)
THEOREM NoPostSleptThrough ==
  ASSUME Workers # {}
  PROVE  Spec => []NoLostWakeup
<1>1. Init => NoLostWakeup
  BY DEF Init, NoLostWakeup
<1>2. TypeOK /\ NoLostWakeup /\ [Next]_vars => NoLostWakeup'
  BY WakeupInductive
<1>3. QED
  BY <1>1, <1>2, TransportTypeCorrect, PTL DEF Spec

-----------------------------------------------------------------------------
(* No request runs twice.                                                  *)

In(p, s) == \E i \in 1..Len(s) : s[i] = p

Distinct(s) == \A i, j \in 1..Len(s) : s[i] = s[j] => i = j

LEMMA AppendItem ==
  ASSUME NEW s \in Seq(Posts), NEW x \in Posts
  PROVE  /\ \A p \in Posts : In(p, Append(s, x)) <=> In(p, s) \/ p = x
         /\ Distinct(s) /\ ~In(x, s) => Distinct(Append(s, x))
<1>1. /\ Len(Append(s, x)) = Len(s) + 1 /\ Len(s) \in Nat
      /\ Append(s, x)[Len(s) + 1] = x
      /\ \A i \in 1..Len(s) : Append(s, x)[i] = s[i]
  OBVIOUS
<1>2. \A p \in Posts : In(p, Append(s, x)) <=> In(p, s) \/ p = x
  <2>1. ASSUME NEW p \in Posts, In(p, Append(s, x)) PROVE In(p, s) \/ p = x
    BY <1>1, <2>1 DEF In
  <2>2. ASSUME NEW p \in Posts, In(p, s) \/ p = x PROVE In(p, Append(s, x))
    BY <1>1, <2>2 DEF In
  <2>3. QED
    BY <2>1, <2>2
<1>3. Distinct(s) /\ ~In(x, s) => Distinct(Append(s, x))
  BY <1>1 DEF Distinct, In
<1>4. QED
  BY <1>2, <1>3

LEMMA ConcatItems ==
  ASSUME NEW s \in Seq(Posts), NEW t \in Seq(Posts), NEW p, In(p, s \o t)
  PROVE  In(p, s) \/ In(p, t)
<1>1. PICK i \in 1..Len(s) + Len(t) : (s \o t)[i] = p
  BY ConcatProperties DEF In
<1>2. CASE i <= Len(s)
  BY <1>1, <1>2, ConcatProperties DEF In
<1>3. CASE i > Len(s)
  <2>1. i - Len(s) \in 1..Len(t) /\ t[i - Len(s)] = p
    BY <1>1, <1>3, ConcatProperties
  <2>2. QED
    BY <2>1 DEF In
<1>4. QED
  BY <1>2, <1>3

LEMMA TailItems ==
  ASSUME NEW s \in Seq(Posts), s # <<>>, Distinct(s)
  PROVE  /\ Head(s) \in Posts /\ In(Head(s), s)
         /\ \A p \in Posts : In(p, Tail(s)) <=> In(p, s) /\ p # Head(s)
         /\ Distinct(Tail(s))
<1>1. /\ Len(s) \in Nat /\ Len(s) > 0 /\ Len(Tail(s)) = Len(s) - 1
      /\ \A i \in 1..Len(Tail(s)) : Tail(s)[i] = s[i + 1]
      /\ Head(s) = s[1] /\ s[1] \in Posts
  OBVIOUS
<1>2. In(Head(s), s)
  BY <1>1 DEF In
<1>3. ASSUME NEW p \in Posts, In(p, Tail(s)) PROVE In(p, s) /\ p # Head(s)
  BY <1>1, <1>3 DEF In, Distinct
<1>4. ASSUME NEW p \in Posts, In(p, s), p # Head(s) PROVE In(p, Tail(s))
  <2>1. PICK i \in 1..Len(s) : s[i] = p
    BY <1>4 DEF In
  <2>2. i - 1 \in 1..Len(Tail(s)) /\ Tail(s)[i - 1] = p
    BY <1>1, <1>4, <2>1
  <2>3. QED
    BY <2>2 DEF In
<1>5. Distinct(Tail(s))
  BY <1>1 DEF Distinct
<1>6. QED
  BY <1>1, <1>2, <1>3, <1>4, <1>5

(* Every item is in one place.                                             *)
Held(p) == \E w \in Workers : In(p, work[w])

PlaceOf(p) ==
  /\ In(p, workl) => p \in posted /\ ~In(p, pipe) /\ ~In(p, ran) /\ ~Held(p)
  /\ In(p, pipe) => p \in posted /\ ~In(p, ran) /\ ~Held(p)
  /\ In(p, ran) => p \in posted /\ ~Held(p)
  /\ Held(p) => p \in posted
  /\ \A v, w \in Workers : In(p, work[v]) /\ In(p, work[w]) => v = w

NoneTwice == Distinct(workl) /\ Distinct(pipe) /\ Distinct(ran)

OnePlace == NoneTwice /\ \A p \in Posts : PlaceOf(p)

(* What becomes of an item that a step moves, and of one it leaves alone.  *)
LEMMA PlaceKept ==
  ASSUME NEW q \in Posts, PlaceOf(q),
         q \in posted => q \in posted',
         In(q, workl') => In(q, workl),
         In(q, pipe') => In(q, pipe),
         In(q, ran') => In(q, ran),
         \A v \in Workers : In(q, work'[v]) => In(q, work[v])
  PROVE  PlaceOf(q)'
<1>1. Held(q)' => Held(q)
  BY Zenon DEF Held
<1>2. QED
  BY <1>1, Zenon DEF PlaceOf

LEMMA PlaceInductive == TypeOK /\ OnePlace /\ [Next]_vars => OnePlace'
<1> SUFFICES ASSUME TypeOK, OnePlace, [Next]_vars PROVE OnePlace'
  OBVIOUS
<1>0. NoneTwice /\ \A q \in Posts : PlaceOf(q)
  BY Zenon DEF OnePlace
<1>1. ASSUME NEW p \in Posts, re_async(p) PROVE OnePlace'
  <2>1. /\ p \notin posted /\ posted' = posted \cup {p}
        /\ workl' = Append(workl, p) /\ UNCHANGED <<pipe, work, ran>>
    BY <1>1, Zenon DEF re_async
  <2>2. ~In(p, workl) /\ ~In(p, pipe) /\ ~In(p, ran) /\ ~Held(p)
    BY <1>0, <2>1, Zenon DEF PlaceOf
  <2>3. /\ Distinct(workl')
        /\ \A q \in Posts : In(q, workl') <=> In(q, workl) \/ q = p
    BY <1>0, <2>1, <2>2, AppendItem DEF TypeOK, NoneTwice
  <2>4. /\ p \in posted' /\ pipe' = pipe /\ work' = work /\ ran' = ran
        /\ \A q \in posted : q \in posted'
    BY <2>1
  <2>5. ASSUME NEW q \in Posts PROVE PlaceOf(q)'
    <3>1. CASE q = p
      <4>1. /\ p \in posted' /\ ~In(p, pipe') /\ ~In(p, ran')
            /\ \A v \in Workers : ~In(p, work'[v])
        BY <2>2, <2>4, Zenon DEF Held
      <4>2. QED
        BY <3>1, <4>1, Zenon DEF PlaceOf, Held
    <3>2. CASE q # p
      BY <1>0, <2>3, <2>4, <3>2, PlaceKept, Zenon
    <3>3. QED
      BY <3>1, <3>2, Zenon
  <2>6. NoneTwice'
    BY <1>0, <2>3, <2>4, Zenon DEF NoneTwice
  <2>7. QED
    BY <2>5, <2>6, Zenon DEF OnePlace
<1>2. ASSUME NEW w \in Workers, TakeItem(w) PROVE OnePlace'
  <2> DEFINE x == Head(workl)
  <2>1. /\ workl # <<>> /\ workl' = Tail(workl)
        /\ work' = [work EXCEPT ![w] = <<x>>]
        /\ pipe' = pipe /\ posted' = posted /\ ran' = ran
    BY <1>2, Zenon DEF TakeItem, TakeFrom
  <2>2. /\ x \in Posts /\ In(x, workl) /\ Distinct(workl')
        /\ \A q \in Posts : In(q, workl') <=> In(q, workl) /\ q # x
    BY <1>0, <2>1, TailItems DEF TypeOK, NoneTwice
  <2>3. \A q \in Posts : In(q, <<x>>) <=> q = x
    BY <2>2 DEF In
  <2>4. /\ work'[w] = <<x>>
        /\ \A v \in Workers : v # w => work'[v] = work[v]
    BY <2>1 DEF TypeOK
  <2> HIDE DEF x
  <2>5. \A q \in Posts, v \in Workers :
          In(q, work'[v]) <=> (v = w /\ q = x) \/ (v # w /\ In(q, work[v]))
    BY <2>3, <2>4, Zenon
  <2>6. ~In(x, pipe) /\ ~In(x, ran) /\ ~Held(x) /\ x \in posted
    BY <1>0, <2>2, Zenon DEF PlaceOf
  <2>7. ASSUME NEW q \in Posts PROVE PlaceOf(q)'
    <3>1. CASE q = x
      <4>1. /\ x \in posted' /\ ~In(x, workl') /\ ~In(x, pipe') /\ ~In(x, ran')
        BY <2>1, <2>2, <2>6, Zenon
      <4>2. \A v \in Workers : In(x, work'[v]) => v = w
        BY <2>2, <2>5, <2>6, Zenon DEF Held
      <4>3. QED
        BY <3>1, <4>1, <4>2, Zenon DEF PlaceOf
    <3>2. CASE q # x
      <4>1. \A v \in Workers : In(q, work'[v]) => In(q, work[v])
        BY <2>5, <3>2, Zenon
      <4>2. QED
        BY <1>0, <2>1, <2>2, <4>1, PlaceKept, Zenon
    <3>3. QED
      BY <3>1, <3>2, Zenon
  <2>8. NoneTwice'
    BY <1>0, <2>1, <2>2, Zenon DEF NoneTwice
  <2>9. QED
    BY <2>7, <2>8, Zenon DEF OnePlace
<1>3. ASSUME NEW w \in Workers, Wait(w) \/ WokenForNothing(w) \/ SpuriousWakeup(w)
      PROVE  OnePlace'
  <2>1. workl' = workl /\ pipe' = pipe /\ ran' = ran /\ work' = work
        /\ posted' = posted
    BY <1>3, Zenon DEF Wait, WokenForNothing, SpuriousWakeup
  <2>2. QED
    BY <1>0, <2>1, PlaceKept, Zenon DEF OnePlace, NoneTwice
<1>4. ASSUME NEW w \in Workers, Push(w) PROVE OnePlace'
  <2> DEFINE x == work[w][1]
  <2>1. /\ Len(work[w]) = 1 /\ work[w] \in Seq(Posts)
        /\ work' = [work EXCEPT ![w] = <<>>]
        /\ workl' = workl /\ posted' = posted /\ ran' = ran
    BY <1>4 DEF Push, TypeOK
  <2>2. x \in Posts /\ In(x, work[w])
    BY <2>1 DEF In
  <2>3. pipe' = pipe \/ pipe' = Append(pipe, x)
    <3>1. work[w] = <<x>>
      BY <2>1
    <3>2. pipe \o <<x>> = Append(pipe, x)
      BY <2>2 DEF TypeOK
    <3>3. QED
      BY <1>4, <3>1, <3>2, Zenon DEF Push
  <2>4. \A q \in Posts, v \in Workers : In(q, work'[v]) => v # w /\ In(q, work[v])
    BY <2>1 DEF TypeOK, In
  <2> HIDE DEF x
  <2>5. /\ ~In(x, workl) /\ ~In(x, pipe) /\ ~In(x, ran) /\ x \in posted
        /\ \A v \in Workers : v # w => ~In(x, work[v])
    BY <1>0, <2>2, Zenon DEF PlaceOf, Held
  <2>6. /\ Distinct(pipe')
        /\ \A q \in Posts : In(q, pipe') => In(q, pipe) \/ q = x
    <3>1. pipe \in Seq(Posts) /\ Distinct(pipe)
      BY <1>0 DEF TypeOK, NoneTwice
    <3>2. CASE pipe' = pipe
      BY <3>1, <3>2, Zenon
    <3>3. CASE pipe' = Append(pipe, x)
      BY <2>2, <2>5, <3>1, <3>3, AppendItem
    <3>4. QED
      BY <2>3, <3>2, <3>3
  <2>7. ASSUME NEW q \in Posts PROVE PlaceOf(q)'
    <3>1. CASE q = x
      <4>1. /\ x \in posted' /\ ~In(x, workl') /\ ~In(x, ran')
            /\ \A v \in Workers : ~In(x, work'[v])
        BY <2>1, <2>2, <2>4, <2>5, Zenon
      <4>2. QED
        BY <3>1, <4>1, Zenon DEF PlaceOf, Held
    <3>2. CASE q # x
      BY <1>0, <2>1, <2>4, <2>6, <3>2, PlaceKept, Zenon
    <3>3. QED
      BY <3>1, <3>2, Zenon
  <2>8. NoneTwice'
    BY <1>0, <2>1, <2>6, Zenon DEF NoneTwice
  <2>9. QED
    BY <2>7, <2>8, Zenon DEF OnePlace
<1>5. CASE queueh
  <2> DEFINE x == Head(pipe)
  <2>1. /\ pipe # <<>> /\ pipe' = Tail(pipe) /\ ran' = Append(ran, x)
        /\ workl' = workl /\ work' = work /\ posted' = posted
    BY <1>5, Zenon DEF queueh
  <2>2. /\ x \in Posts /\ In(x, pipe) /\ Distinct(pipe')
        /\ \A q \in Posts : In(q, pipe') <=> In(q, pipe) /\ q # x
    BY <1>0, <2>1, TailItems DEF TypeOK, NoneTwice
  <2> HIDE DEF x
  <2>3. ~In(x, workl) /\ ~In(x, ran) /\ x \in posted /\ ~Held(x)
    BY <1>0, <2>2, Zenon DEF PlaceOf
  <2>4. /\ Distinct(ran')
        /\ \A q \in Posts : In(q, ran') <=> In(q, ran) \/ q = x
    BY <1>0, <2>1, <2>2, <2>3, AppendItem DEF TypeOK, NoneTwice
  <2>5. ASSUME NEW q \in Posts PROVE PlaceOf(q)'
    <3>1. CASE q = x
      <4>1. /\ x \in posted' /\ ~In(x, workl') /\ ~In(x, pipe')
            /\ \A v \in Workers : ~In(x, work'[v])
        BY <2>1, <2>2, <2>3, Zenon DEF Held
      <4>2. QED
        BY <3>1, <4>1, Zenon DEF PlaceOf, Held
    <3>2. CASE q # x
      BY <1>0, <2>1, <2>2, <2>4, <3>2, PlaceKept, Zenon
    <3>3. QED
      BY <3>1, <3>2, Zenon
  <2>6. NoneTwice'
    BY <1>0, <2>1, <2>2, <2>4, Zenon DEF NoneTwice
  <2>7. QED
    BY <2>5, <2>6, Zenon DEF OnePlace
<1>6. CASE UNCHANGED vars
  <2>1. workl' = workl /\ pipe' = pipe /\ ran' = ran /\ work' = work
        /\ posted' = posted
    BY <1>6, Zenon DEF vars
  <2>2. QED
    BY <1>0, <2>1, PlaceKept, Zenon DEF OnePlace, NoneTwice
<1>7. QED
  BY <1>1, <1>2, <1>3, <1>4, <1>5, <1>6, Zenon DEF Next, worker_thread

(* Whatever the number of workers, no request runs twice: an item is in    *)
(* the list, in one worker's hands, in the pipe or run, and in one place.  *)
THEOREM EachRunsOnce == Spec => []RunOnce
<1>1. Init => OnePlace
  BY DEF Init, OnePlace, NoneTwice, PlaceOf, Held, Distinct, In
<1>2. TypeOK /\ OnePlace => RunOnce
  BY DEF TypeOK, OnePlace, NoneTwice, Distinct, RunOnce, IsInjective
<1>3. QED
  BY <1>1, <1>2, PlaceInductive, TransportTypeCorrect, PTL DEF Spec

-----------------------------------------------------------------------------
(* Every item is on one list.                                              *)

ListOf(p) ==
  /\ p \in posted <=> In(p, workl) \/ p \in curl \/ In(p, ran)
  /\ ~(In(p, workl) /\ p \in curl)
  /\ ~(p \in curl /\ In(p, ran))
  /\ In(p, pipe) \/ Held(p) => p \in curl

Listed == \A p \in Posts : ListOf(p)

LEMMA ListKept ==
  ASSUME NEW q \in Posts, ListOf(q),
         q \in posted' <=> q \in posted,
         In(q, workl') <=> In(q, workl),
         q \in curl' <=> q \in curl,
         In(q, ran') <=> In(q, ran),
         In(q, pipe') \/ Held(q)' => In(q, pipe) \/ Held(q)
  PROVE  ListOf(q)'
BY Zenon DEF ListOf

LEMMA ListInductive == TypeOK /\ OnePlace /\ Listed /\ [Next]_vars => Listed'
<1> SUFFICES ASSUME TypeOK, OnePlace, Listed, [Next]_vars,
                    NEW q \in Posts
             PROVE  ListOf(q)'
  BY DEF Listed
<1>0. /\ ListOf(q) /\ PlaceOf(q)
      /\ workl \in Seq(Posts) /\ pipe \in Seq(Posts) /\ ran \in Seq(Posts)
      /\ work \in [Workers -> Seq(Posts)]
      /\ Distinct(workl) /\ Distinct(pipe) /\ Distinct(ran)
  BY DEF Listed, OnePlace, NoneTwice, TypeOK
<1>1. ASSUME NEW p \in Posts, re_async(p) PROVE ListOf(q)'
  <2>1. /\ p \notin posted /\ posted' = posted \cup {p}
        /\ workl' = Append(workl, p)
        /\ curl' = curl /\ pipe' = pipe /\ work' = work /\ ran' = ran
    BY <1>1, Zenon DEF re_async
  <2>2. /\ q \in posted' <=> q \in posted \/ q = p
        /\ In(q, workl') <=> In(q, workl) \/ q = p
    BY <1>0, <2>1, AppendItem
  <2>3. Held(q)' <=> Held(q)
    BY <2>1, Zenon DEF Held
  <2>4. CASE q = p
    BY <1>0, <2>1, <2>2, <2>3, <2>4, Zenon DEF ListOf
  <2>5. CASE q # p
    BY <1>0, <2>1, <2>2, <2>3, <2>5, ListKept, Zenon
  <2>6. QED
    BY <2>4, <2>5, Zenon
<1>2. ASSUME NEW w \in Workers, TakeItem(w) PROVE ListOf(q)'
  <2> DEFINE x == Head(workl)
  <2>1. /\ workl # <<>> /\ workl' = Tail(workl) /\ curl' = curl \cup {x}
        /\ work' = [work EXCEPT ![w] = <<x>>]
        /\ pipe' = pipe /\ posted' = posted /\ ran' = ran
    BY <1>2, Zenon DEF TakeItem, TakeFrom
  <2>2. /\ x \in Posts /\ In(x, workl)
        /\ In(q, workl') <=> In(q, workl) /\ q # x
        /\ q \in curl' <=> q \in curl \/ q = x
    BY <1>0, <2>1, TailItems
  <2>3. In(q, <<x>>) => q = x
    BY <2>2 DEF In
  <2>4. Held(q)' => Held(q) \/ q = x
    <3>1. /\ work'[w] = <<x>>
          /\ \A v \in Workers : v # w => work'[v] = work[v]
      BY <1>0, <2>1
    <3> HIDE DEF x
    <3>2. QED
      BY <2>3, <3>1, Zenon DEF Held
  <2> HIDE DEF x
  <2>5. CASE q = x
    BY <1>0, <2>1, <2>2, <2>5, Zenon DEF ListOf, PlaceOf
  <2>6. CASE q # x
    BY <1>0, <2>1, <2>2, <2>4, <2>6, ListKept, Zenon
  <2>7. QED
    BY <2>5, <2>6, Zenon
<1>3. ASSUME NEW w \in Workers, Wait(w) \/ WokenForNothing(w) \/ SpuriousWakeup(w)
      PROVE  ListOf(q)'
  <2>1. workl' = workl /\ curl' = curl /\ pipe' = pipe /\ ran' = ran
        /\ work' = work /\ posted' = posted
    BY <1>3, Zenon DEF Wait, WokenForNothing, SpuriousWakeup
  <2>2. QED
    BY <1>0, <2>1, ListKept, Zenon DEF Held
<1>4. ASSUME NEW w \in Workers, Push(w) PROVE ListOf(q)'
  <2>1. /\ workl' = workl /\ curl' = curl /\ posted' = posted /\ ran' = ran
        /\ work' = [work EXCEPT ![w] = <<>>]
        /\ pipe' = pipe \/ pipe' = pipe \o work[w]
    BY <1>4, Zenon DEF Push
  <2>2. \A v \in Workers : In(q, work'[v]) => In(q, work[v])
    BY <1>0, <2>1 DEF In
  <2>3. In(q, pipe') => In(q, pipe) \/ In(q, work[w])
    <3>1. work[w] \in Seq(Posts)
      BY <1>0
    <3>2. CASE pipe' = pipe \o work[w]
      BY <1>0, <3>1, <3>2, ConcatItems, Zenon
    <3>3. QED
      BY <2>1, <3>2, Zenon
  <2>4. In(q, pipe') \/ Held(q)' => In(q, pipe) \/ Held(q)
    BY <2>2, <2>3, Zenon DEF Held
  <2>5. QED
    BY <1>0, <2>1, <2>4, ListKept, Zenon
<1>5. CASE queueh
  <2> DEFINE x == Head(pipe)
  <2>1. /\ pipe # <<>> /\ pipe' = Tail(pipe) /\ ran' = Append(ran, x)
        /\ curl' = curl \ {x}
        /\ workl' = workl /\ work' = work /\ posted' = posted
    BY <1>5, Zenon DEF queueh
  <2>2. /\ x \in Posts /\ In(x, pipe)
        /\ In(q, pipe') <=> In(q, pipe) /\ q # x
        /\ q \in curl' <=> q \in curl /\ q # x
    BY <1>0, <2>1, TailItems
  <2>3. In(q, ran') <=> In(q, ran) \/ q = x
    BY <1>0, <2>1, <2>2, AppendItem
  <2>4. Held(q)' <=> Held(q)
    BY <2>1, Zenon DEF Held
  <2> HIDE DEF x
  <2>5. CASE q = x
    <3>1. In(q, pipe) /\ q \in curl /\ ~In(q, workl) /\ ~Held(q)
      BY <1>0, <2>2, <2>5, Zenon DEF ListOf, PlaceOf
    <3>2. q \in posted
      BY <1>0, <3>1, Zenon DEF ListOf
    <3>3. QED
      BY <2>1, <2>2, <2>3, <2>4, <2>5, <3>1, <3>2, Zenon DEF ListOf
  <2>6. CASE q # x
    BY <1>0, <2>1, <2>2, <2>3, <2>4, <2>6, ListKept, Zenon
  <2>7. QED
    BY <2>5, <2>6, Zenon
<1>6. CASE UNCHANGED vars
  <2>1. workl' = workl /\ curl' = curl /\ pipe' = pipe /\ ran' = ran
        /\ work' = work /\ posted' = posted
    BY <1>6, Zenon DEF vars
  <2>2. QED
    BY <1>0, <2>1, ListKept, Zenon DEF Held
<1>7. QED
  BY <1>1, <1>2, <1>3, <1>4, <1>5, <1>6, Zenon DEF Next, worker_thread

LEMMA InToSet ==
  ASSUME NEW s \in Seq(Posts), NEW x
  PROVE  x \in ToSet(s) <=> x \in Posts /\ In(x, s)
BY DEF ToSet, In

(* Every item is on one of the three lists, and one that a worker or the   *)
(* pipe points to is on curl, however many workers there are and even when *)
(* a full pipe loses items: none is freed or used again too early.         *)
THEOREM ItemsAreOnOneList == Spec => []OneList
<1>1. Init => OnePlace /\ Listed
  BY DEF Init, OnePlace, NoneTwice, PlaceOf, Held, Distinct, In, Listed, ListOf
<1>2. TypeOK /\ OnePlace /\ Listed => OneList
  <2> SUFFICES ASSUME TypeOK, OnePlace, Listed PROVE OneList
    OBVIOUS
  <2>1. /\ workl \in Seq(Posts) /\ pipe \in Seq(Posts) /\ ran \in Seq(Posts)
        /\ \A w \in Workers : work[w] \in Seq(Posts)
        /\ curl \subseteq Posts /\ posted \subseteq Posts
    BY DEF TypeOK
  <2>2. /\ \A x : x \in ToSet(workl) <=> x \in Posts /\ In(x, workl)
        /\ \A x : x \in ToSet(pipe) <=> x \in Posts /\ In(x, pipe)
        /\ \A x : x \in ToSet(ran) <=> x \in Posts /\ In(x, ran)
        /\ \A w \in Workers :
             \A x : x \in ToSet(work[w]) => x \in Posts /\ In(x, work[w])
    BY <2>1, InToSet, Zenon
  <2>3. posted = ToSet(workl) \cup curl \cup ToSet(ran)
    BY <2>1, <2>2, Zenon DEF Listed, ListOf
  <2>4. ToSet(workl) \cap curl = {}
    BY <2>1, <2>2, Zenon DEF Listed, ListOf
  <2>5. (ToSet(workl) \cup curl) \cap ToSet(ran) = {}
    <3>1. ASSUME NEW x \in Posts, In(x, ran) PROVE ~In(x, workl) /\ x \notin curl
      BY <3>1, Zenon DEF Listed, ListOf, OnePlace, PlaceOf
    <3>2. QED
      BY <2>1, <2>2, <3>1, Zenon
  <2>6. ToSet(pipe) \subseteq curl
    BY <2>2, Zenon DEF Listed, ListOf
  <2>7. UNION {ToSet(work[w]) : w \in Workers} \subseteq curl
    <3>1. ASSUME NEW w \in Workers, NEW x \in ToSet(work[w]) PROVE x \in curl
      BY <2>2, Zenon DEF Listed, ListOf, Held
    <3>2. QED
      BY <3>1
  <2>8. QED
    BY <2>3, <2>4, <2>5, <2>6, <2>7 DEF OneList
<1>3. TypeOK /\ OnePlace /\ Listed /\ [Next]_vars => OnePlace' /\ Listed'
  BY PlaceInductive, ListInductive
<1>4. QED
  BY <1>1, <1>2, <1>3, TransportTypeCorrect, PTL DEF Spec

-----------------------------------------------------------------------------
(* One worker keeps the order of the posts.                                *)

(* A worker holds one item at most.                                        *)
OneInHand == \A w \in Workers : thread[w] # "push" => work[w] = <<>>

LEMMA HandInductive == TypeOK /\ OneInHand /\ [Next]_vars => OneInHand'
<1> SUFFICES ASSUME TypeOK, OneInHand, [Next]_vars PROVE OneInHand'
  OBVIOUS
<1> USE DEF OneInHand
<1>1. ASSUME NEW p \in Posts, re_async(p) PROVE OneInHand'
  BY <1>1 DEF re_async, TypeOK
<1>2. ASSUME NEW w \in Workers, TakeItem(w) PROVE OneInHand'
  BY <1>2 DEF TakeItem, TakeFrom, TypeOK
<1>3. ASSUME NEW w \in Workers, Wait(w) \/ WokenForNothing(w) \/ SpuriousWakeup(w)
      PROVE  OneInHand'
  BY <1>3 DEF Wait, WokenForNothing, SpuriousWakeup, TypeOK
<1>4. ASSUME NEW w \in Workers, Push(w) PROVE OneInHand'
  BY <1>4 DEF Push, TypeOK
<1>5. CASE queueh
  BY <1>5 DEF queueh
<1>6. CASE UNCHANGED vars
  BY <1>6 DEF vars
<1>7. QED
  BY <1>1, <1>2, <1>3, <1>4, <1>5, <1>6, Zenon DEF Next, worker_thread

(* Distinct items never outnumber the posts: a pipe with room for all of   *)
(* them is not full while one is outside.                                  *)
LEMMA RoomForAll ==
  ASSUME IsFiniteSet(Posts), NEW s \in Seq(Posts), Distinct(s),
         NEW x \in Posts, ~In(x, s)
  PROVE  Len(s) < Cardinality(Posts)
<1> DEFINE t == Append(s, x)
           n == Len(s) + 1
<1>1. /\ t \in Seq(Posts) /\ Len(t) = n /\ n \in Nat /\ Len(s) \in Nat
      /\ t \in [1..n -> Posts]
  <2>1. t \in Seq(Posts) /\ Len(t) = n /\ n \in Nat /\ Len(s) \in Nat
    OBVIOUS
  <2> HIDE DEF t, n
  <2>2. QED
    BY <2>1, LenProperties
<1>2. Distinct(t)
  BY AppendItem
<1>3. t \in Injection(1..n, Posts)
  <2>1. \A i, j \in 1..n : t[i] = t[j] => i = j
    BY <1>1, <1>2 DEF Distinct
  <2> HIDE DEF t, n
  <2>2. QED
    BY <1>1, <2>1, Zenon DEF Injection, IsInjective
<1>4. Cardinality(1..n) = n
  BY <1>1, FS_Interval
<1>5. Cardinality(1..n) <= Cardinality(Posts)
  BY <1>3, FS_Injection
<1>6. QED
  BY <1>1, <1>4, <1>5, FS_CardinalityType

LEMMA HeadPasses ==
  ASSUME NEW S, NEW s \in Seq(S), NEW t \in Seq(S), t # <<>>
  PROVE  s \o <<Head(t)>> \o Tail(t) = s \o t
<1>1. <<Head(t)>> \in Seq(S) /\ Tail(t) \in Seq(S)
  OBVIOUS
<1>2. <<Head(t)>> \o Tail(t) = t
  OBVIOUS
<1>3. QED
  BY <1>1, <1>2, ConcatAssociative

LEMMA HeadTailConcat ==
  ASSUME NEW S, NEW s \in Seq(S), NEW t \in Seq(S), s # <<>>
  PROVE  /\ s \o t # <<>>
         /\ Head(s \o t) = Head(s)
         /\ Tail(s \o t) = Tail(s) \o t
<1>1. /\ s \o t \in Seq(S) /\ Len(s) \in Nat /\ Len(t) \in Nat /\ Len(s) > 0
      /\ Len(s \o t) = Len(s) + Len(t)
      /\ \A i \in 1..Len(s) + Len(t) :
           (s \o t)[i] = IF i <= Len(s) THEN s[i] ELSE t[i - Len(s)]
  BY ConcatProperties, EmptySeq, LenProperties
<1>2. s \o t # <<>> /\ Head(s \o t) = Head(s)
  BY <1>1
<1>3. /\ Tail(s) \in Seq(S) /\ Len(Tail(s)) = Len(s) - 1
      /\ \A i \in 1..Len(s) - 1 : Tail(s)[i] = s[i + 1]
  OBVIOUS
<1>4. /\ Tail(s \o t) \in Seq(S) /\ Len(Tail(s \o t)) = Len(s) + Len(t) - 1
      /\ \A i \in 1..Len(s) + Len(t) - 1 : Tail(s \o t)[i] = (s \o t)[i + 1]
  BY <1>1, <1>2
<1>5. /\ Tail(s) \o t \in Seq(S)
      /\ Len(Tail(s) \o t) = Len(s) - 1 + Len(t)
      /\ \A i \in 1..Len(s) - 1 + Len(t) :
           (Tail(s) \o t)[i]
             = IF i <= Len(s) - 1 THEN Tail(s)[i] ELSE t[i - (Len(s) - 1)]
  BY <1>3, ConcatProperties
<1>6. ASSUME NEW i \in 1..Len(s) + Len(t) - 1
      PROVE  Tail(s \o t)[i] = (Tail(s) \o t)[i]
  <2>1. CASE i <= Len(s) - 1
    BY <1>1, <1>3, <1>4, <1>5, <2>1
  <2>2. CASE i > Len(s) - 1
    <3>1. /\ Tail(s \o t)[i] = (s \o t)[i + 1]
          /\ (s \o t)[i + 1] = t[(i + 1) - Len(s)]
      BY <1>1, <1>4, <2>2
    <3>2. (Tail(s) \o t)[i] = t[i - (Len(s) - 1)]
      BY <1>1, <1>5, <2>2
    <3>3. (i + 1) - Len(s) = i - (Len(s) - 1)
      BY <1>1
    <3>4. QED
      BY <3>1, <3>2, <3>3
  <2>3. QED
    BY <1>1, <2>1, <2>2
<1>7. Tail(s \o t) = Tail(s) \o t
  <2>1. Len(s) + Len(t) - 1 = Len(s) - 1 + Len(t)
    BY <1>1
  <2>2. QED
    BY <1>4, <1>5, <1>6, <2>1, SeqEqual
<1>8. QED
  BY <1>2, <1>7

LEMMA OneWorkerStep ==
  ASSUME NEW w, Workers = {w}, IsFiniteSet(Posts),
         Cardinality(Posts) <= PipeRoom,
         TypeOK, OnePlace, OneInHand, [Next]_vars
  PROVE  [Queue!Next]_(Queue!vars)
<1> DEFINE hand == work[w]
           q == pipe \o hand \o workl
<1>1. InHand = hand /\ InHand' = hand'
  BY DEF InHand
<1>2. /\ pipe \in Seq(Posts) /\ hand \in Seq(Posts) /\ workl \in Seq(Posts)
      /\ ran \in Seq(Posts) /\ w \in Workers
      /\ work \in [Workers -> Seq(Posts)]
  BY DEF TypeOK
<1>3. ASSUME q' = q, posted' = posted, ran' = ran
      PROVE  [Queue!Next]_(Queue!vars)
  BY <1>1, <1>3 DEF Queue!vars
<1>4. ASSUME NEW p \in Posts, re_async(p) PROVE [Queue!Next]_(Queue!vars)
  <2>1. /\ p \notin posted /\ posted' = posted \cup {p} /\ ran' = ran
        /\ workl' = Append(workl, p) /\ pipe' = pipe /\ hand' = hand
    BY <1>4, Zenon DEF re_async
  <2>2. q' = Append(q, p)
    BY <1>2, <2>1
  <2>3. Queue!Post(p)
    BY <1>1, <2>1, <2>2 DEF Queue!Post
  <2>4. QED
    BY <2>3 DEF Queue!Next
<1>5. CASE TakeItem(w)
  <2>1. /\ hand = <<>> /\ workl # <<>> /\ workl' = Tail(workl)
        /\ hand' = <<Head(workl)>> /\ pipe' = pipe
        /\ posted' = posted /\ ran' = ran
    BY <1>2, <1>5 DEF TakeItem, TakeFrom, OneInHand
  <2>2. q = pipe \o workl
    BY <1>2, <2>1
  <2>3. pipe \o <<Head(workl)>> \o Tail(workl) = pipe \o workl
    BY <1>2, <2>1, HeadPasses
  <2>4. QED
    BY <1>3, <2>1, <2>2, <2>3
<1>6. CASE Wait(w) \/ WokenForNothing(w) \/ SpuriousWakeup(w)
  <2>1. /\ pipe' = pipe /\ work' = work /\ workl' = workl
        /\ posted' = posted /\ ran' = ran
    BY <1>6, Zenon DEF Wait, WokenForNothing, SpuriousWakeup
  <2>2. QED
    BY <1>3, <2>1
<1>7. CASE Push(w)
  <2>1. Len(pipe) < PipeRoom
    <3>1. Len(hand) = 1 /\ hand[1] \in Posts /\ In(hand[1], hand)
      <4>1. Len(hand) = 1
        BY <1>2, <1>7, Zenon DEF Push, TypeOK
      <4>2. 1 \in 1..Len(hand)
        BY <4>1
      <4>3. hand[1] \in Posts
        BY <1>2, <4>2, ElementOfSeq
      <4>4. QED
        BY <4>1, <4>2, <4>3, Zenon DEF In
    <3>2. ~In(hand[1], pipe)
      BY <1>2, <3>1, Zenon DEF OnePlace, PlaceOf, Held
    <3>3. Distinct(pipe)
      BY Zenon DEF OnePlace, NoneTwice
    <3>4. Len(pipe) < Cardinality(Posts)
      BY <1>2, <3>1, <3>2, <3>3, RoomForAll, Zenon
    <3>5. QED
      BY <1>2, <3>4, FS_CardinalityType, PipeAssumption
  <2>2. /\ pipe' = pipe \o hand /\ hand' = <<>> /\ workl' = workl
        /\ posted' = posted /\ ran' = ran
    BY <1>2, <1>7, <2>1 DEF Push
  <2>3. q' = q
    BY <1>2, <2>2
  <2>4. QED
    BY <1>3, <2>2, <2>3
<1>8. CASE queueh
  <2>1. /\ pipe # <<>> /\ pipe' = Tail(pipe) /\ ran' = Append(ran, Head(pipe))
        /\ hand' = hand /\ workl' = workl /\ posted' = posted
    BY <1>8, Zenon DEF queueh
  <2>2. /\ q # <<>> /\ Head(q) = Head(pipe) /\ q' = Tail(q)
    <3>1. /\ pipe \o hand # <<>> /\ Head(pipe \o hand) = Head(pipe)
          /\ Tail(pipe \o hand) = Tail(pipe) \o hand
      <4>1. pipe \in Seq(Posts) /\ hand \in Seq(Posts) /\ pipe # <<>>
        BY <1>2, <2>1, Zenon
      <4>2. QED
        BY <4>1, HeadTailConcat, Zenon
    <3>2. pipe \o hand \in Seq(Posts)
      BY <1>2, ConcatProperties
    <3>3. workl \in Seq(Posts) /\ pipe \o hand # <<>>
      BY <1>2, <3>1, Zenon
    <3>4. /\ q # <<>> /\ Head(q) = Head(pipe \o hand)
          /\ Tail(q) = Tail(pipe \o hand) \o workl
      BY <3>2, <3>3, HeadTailConcat, Zenon
    <3>5. QED
      BY <2>1, <3>1, <3>4, Zenon
  <2>3. QED
    BY <1>1, <2>1, <2>2 DEF Queue!Next, Queue!Run
<1>9. CASE UNCHANGED vars
  <2>1. /\ pipe' = pipe /\ work' = work /\ workl' = workl
        /\ posted' = posted /\ ran' = ran
    BY <1>9, Zenon DEF vars
  <2>2. QED
    BY <1>3, <2>1
<1>10. \/ \E p \in Posts : re_async(p)
       \/ TakeItem(w) \/ Wait(w) \/ WokenForNothing(w) \/ SpuriousWakeup(w)
       \/ Push(w) \/ queueh \/ UNCHANGED vars
  BY DEF Next, worker_thread
<1>11. QED
  BY <1>4, <1>5, <1>6, <1>7, <1>8, <1>9, <1>10, Zenon

(* With one worker and room in the pipe for every post, the transport is a *)
(* queue: what waits in the pipe, in the worker's hand and in the list is  *)
(* one sequence, which a post extends and the event loop shortens; no      *)
(* request is lost and none overtakes another.                             *)
THEOREM OneWorkerKeepsOrder ==
  ASSUME NEW w, Workers = {w}, IsFiniteSet(Posts),
         Cardinality(Posts) <= PipeRoom
  PROVE  Spec => Queue!Init /\ [][Queue!Next]_(Queue!vars)
<1>1. Init => Queue!Init
  BY DEF Init, InHand, Queue!Init
<1>2. Init => OnePlace /\ OneInHand
  BY DEF Init, OnePlace, NoneTwice, PlaceOf, Held, Distinct, In, OneInHand
<1>3. TypeOK /\ OnePlace /\ OneInHand /\ [Next]_vars => OnePlace' /\ OneInHand'
  BY PlaceInductive, HandInductive
<1>4. TypeOK /\ OnePlace /\ OneInHand /\ [Next]_vars => [Queue!Next]_(Queue!vars)
  BY OneWorkerStep
<1>5. QED
  BY <1>1, <1>2, <1>3, <1>4, TransportTypeCorrect, PTL DEF Spec
=============================================================================
