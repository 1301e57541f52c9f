--------------------------- MODULE RtpWatchProofs ---------------------------
(***************************************************************************)
(* The watchdog's arithmetic is right for every timeout, period and width  *)
(* of the counter, as long as its two reads are not torn apart and nobody  *)
(* sets the clock.                                                         *)
(***************************************************************************)
EXTENDS RtpWatch, TLAPS

(* The constants, one by one.                                              *)
LEMMA Numbers ==
  /\ Modulus \in Nat /\ RxTimeout \in Nat /\ Period \in Nat /\ MaxGap \in Nat
  /\ RxTimeout + Period < MaxGap
  /\ MaxGap < Modulus
BY NumbersAssumption

USE Numbers

(* The counters stay in the range of uint32_t, the silence within its      *)
(* bound, whatever the clock does.                                         *)
LEMMA TypeInductive == TypeOK /\ [Next]_vars => TypeOK'
<1> SUFFICES ASSUME TypeOK, [Next]_vars PROVE TypeOK'
  OBVIOUS
<1>0. alarmed' \in BOOLEAN
  BY Zenon DEF TypeOK, Next, Tick, rtpwatch_mark_rx, CallEstablished, Wakes,
               ReadsClock, ReadsLast, PostsHangup, vars
<1> DEFINE Typed ==
      /\ clock' \in UInt32
      /\ last_rx_s' \in UInt32
      /\ wd' \in {"sleep", "awake", "sampling", "hangup", "over"}
      /\ timer' \in 0..Period
      /\ now' \in UInt32
      /\ gap' \in 0..MaxGap
<1>1. ASSUME Tick PROVE Typed
  BY <1>1 DEF TypeOK, UInt32, Tick, Successor
<1>2. ASSUME rtpwatch_mark_rx PROVE Typed
  BY <1>2 DEF TypeOK, UInt32, rtpwatch_mark_rx
<1>3. ASSUME CallEstablished PROVE Typed
  BY <1>3 DEF TypeOK, UInt32, CallEstablished
<1>4. ASSUME Wakes PROVE Typed
  BY <1>4 DEF TypeOK, UInt32, Wakes
<1>5. ASSUME ReadsClock PROVE Typed
  BY <1>5 DEF TypeOK, UInt32, ReadsClock
<1>6. ASSUME ReadsLast PROVE Typed
  BY <1>6 DEF TypeOK, UInt32, ReadsLast
<1>7. ASSUME PostsHangup PROVE Typed
  BY <1>7 DEF TypeOK, UInt32, PostsHangup
<1>8. ASSUME UNCHANGED vars PROVE Typed
  BY <1>8 DEF TypeOK, UInt32, vars
<1>9. Typed
  BY <1>1, <1>2, <1>3, <1>4, <1>5, <1>6, <1>7, <1>8, Zenon DEF Next
<1>10. QED
  BY <1>0, <1>9, Zenon DEF TypeOK

(* Every reachable state of the watchdog is well typed.                    *)
THEOREM WatchTypeCorrect == Spec => []TypeOK
<1>1. ASSUME Init PROVE TypeOK
  <2>1. alarmed \in BOOLEAN
    BY <1>1, Zenon DEF Init
  <2>2. /\ wd = "sleep" /\ timer \in 0..Period /\ gap \in 0..MaxGap
        /\ {clock, last_rx_s, now} \subseteq UInt32
    BY <1>1 DEF Init, UInt32
  <2>3. QED
    BY <2>1, <2>2, Zenon DEF TypeOK
<1>2. QED
  BY <1>1, TypeInductive, PTL DEF Spec

(* A second on the wall clock is a second more of difference, also when    *)
(* the counter wraps.                                                      *)
LEMMA MinusSuccessor ==
  ASSUME NEW a \in UInt32, NEW b \in UInt32, Minus(a, b) + 1 < Modulus
  PROVE  Minus(Successor(a), b) = Minus(a, b) + 1
BY DEF UInt32, Minus, Successor

SteadyClock == ~MayTear /\ ~ClockMayStep

(* On a steady clock the difference of the counters is the silence.        *)
LEMMA MeasuredInductive ==
  ASSUME SteadyClock, TypeOK, Measured, [Next]_vars
  PROVE  Measured'
<1> USE DEF SteadyClock, TypeOK, UInt32, Measured, MeasuresGap, SampleFresh,
            InTime, DeathDetected
<1>1. CASE Tick
  <2>1. clock' = Successor(clock) /\ gap' = gap + 1 /\ last_rx_s' = last_rx_s
    BY <1>1 DEF Tick
  <2>2. gap < MaxGap
    BY <1>1 DEF Tick
  <2>3. MeasuresGap'
    BY <2>1, <2>2, MinusSuccessor
  <2>4. QED
    BY <1>1, <2>3 DEF Tick, Interruptible
<1>2. CASE rtpwatch_mark_rx
  BY <1>2 DEF rtpwatch_mark_rx, Interruptible, Minus
<1>3. CASE CallEstablished
  BY <1>3 DEF CallEstablished, Minus
<1>4. CASE Wakes
  BY <1>4 DEF Wakes
<1>5. CASE ReadsClock
  BY <1>5 DEF ReadsClock
<1>6. CASE ReadsLast
  <2>1. wd = "sampling" /\ Minus(now, last_rx_s) = gap /\ gap \in Nat
    BY <1>6 DEF ReadsLast
  <2>2. UNCHANGED <<clock, last_rx_s, now, gap>>
    BY <1>6, Zenon DEF ReadsLast
  <2>3. CASE gap > RxTimeout
    <3>1. wd' = "hangup" /\ alarmed'
      BY <1>6, <2>1, <2>3, Zenon DEF ReadsLast, TooSilent
    <3>2. QED
      BY <2>1, <2>2, <3>1
  <2>4. CASE ~(gap > RxTimeout)
    <3>1. wd' = "sleep" /\ timer' = Period
      BY <1>6, <2>1, <2>4, Zenon DEF ReadsLast, TooSilent
    <3>2. QED
      BY <2>1, <2>2, <2>4, <3>1
  <2>5. QED
    BY <2>3, <2>4
<1>7. CASE PostsHangup
  BY <1>7 DEF PostsHangup
<1>8. CASE UNCHANGED vars
  BY <1>8 DEF vars
<1>9. QED
  BY <1>1, <1>2, <1>3, <1>4, <1>5, <1>6, <1>7, <1>8 DEF Next

(* On a steady clock the watchdog always measures the silence.             *)
LEMMA MeasuredInvariant ==
  ASSUME SteadyClock
  PROVE  Spec => []Measured
<1>1. Init => Measured
  BY DEF Init, Measured, MeasuresGap, SampleFresh, InTime, DeathDetected, Minus,
         UInt32
<1>2. TypeOK /\ Measured /\ [Next]_vars => Measured'
  BY MeasuredInductive
<1>3. QED
  BY <1>1, <1>2, WatchTypeCorrect, PTL DEF Spec

(* A call whose media has died is found dead within RX_TIMEOUT_S seconds   *)
(* and one period of watchdog_thread.                                      *)
THEOREM DeathIsDetected ==
  ASSUME SteadyClock
  PROVE  Spec => []DeathDetected
<1>1. Measured => DeathDetected
  BY DEF Measured
<1>2. QED
  BY <1>1, MeasuredInvariant, PTL

(* watchdog_thread finds no call dead before RX_TIMEOUT_S seconds of       *)
(* silence have passed.                                                    *)
THEOREM NoAlarmIsFalse ==
  ASSUME SteadyClock
  PROVE  Spec => NoFalseAlarm
<1>1. ASSUME TypeOK, Measured, [Next]_vars
      PROVE  [Alarm => gap > RxTimeout]_vars
  <2>1. CASE ReadsLast
    <3>1. wd = "sampling" /\ Minus(now, last_rx_s) = gap
      BY <1>1, <2>1 DEF ReadsLast, Measured, MeasuresGap, SampleFresh
    <3>2. wd' = "hangup" => TooSilent
      BY <2>1 DEF ReadsLast
    <3>3. QED
      BY <3>1, <3>2, Zenon DEF TooSilent, Alarm
  <2>2. CASE ~ReadsLast
    BY <1>1, <2>2 DEF Next, Tick, rtpwatch_mark_rx, CallEstablished, Wakes,
                      ReadsClock, PostsHangup, Alarm, vars
  <2>3. QED
    BY <2>1, <2>2
<1>2. QED
  BY <1>1, WatchTypeCorrect, MeasuredInvariant, PTL DEF Spec, NoFalseAlarm
=============================================================================
