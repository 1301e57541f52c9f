------------------------------- MODULE RtpWatch -------------------------------
(***************************************************************************)
(* The arithmetic of the media watchdog.  Every received RTP frame and     *)
(* RTCP report stores the wall clock, in whole seconds, in last_rx_s, a    *)
(* uint32_t (rtpwatch.c).  Every five seconds watchdog_thread subtracts it *)
(* from the wall clock, also as uint32_t, and hangs up when the difference *)
(* exceeds RX_TIMEOUT_S (native-sip-jni.c).  The two reads are two steps:  *)
(* the thread can be preempted between them.  C leaves their order open;   *)
(* clang, which the build uses, evaluates the left operand, the clock,     *)
(* first.                                                                  *)
(*                                                                         *)
(* The module follows one conversation after the other; what becomes of    *)
(* the request to hang up is CallBridge's subject.  gap counts the seconds *)
(* that have really passed since the last frame, which the code cannot see.*)
(***************************************************************************)
EXTENDS Naturals

CONSTANTS
  Modulus,       \* 2^32, the range of uint32_t
  RxTimeout,     \* RX_TIMEOUT_S
  Period,        \* sleep(5)
  MaxGap,        \* bound on gap
  MayTear,       \* time passes, frames arrive between the watchdog's two reads
  ClockMayStep   \* the wall clock may be set while a call is on

ASSUME NumbersAssumption ==
  /\ {Modulus, RxTimeout, Period, MaxGap} \subseteq Nat \ {0}
  /\ RxTimeout + Period < MaxGap
  /\ MaxGap < Modulus
ASSUME SchedulingAssumption == {MayTear, ClockMayStep} \subseteq BOOLEAN

VARIABLES
  clock,       \* (uint32_t)time(NULL)
  last_rx_s,
  wd,          \* where the watchdog is
  timer,       \* seconds left of its sleep
  now,         \* the clock as it read it
  alarmed,     \* it has found this silence too long
  gap          \* seconds since the last frame

vars == <<clock, last_rx_s, wd, timer, now, alarmed, gap>>

UInt32 == 0..Modulus - 1

(* Faulty variant: the counter does not wrap.                              *)
SuccessorUnwrapped(a) == a + 1

(* Addition and subtraction of uint32_t: modulo Modulus.                   *)
Successor(a) == IF a + 1 = Modulus THEN 0 ELSE a + 1
Minus(a, b) == IF a >= b THEN a - b ELSE (a + Modulus) - b

TypeOK ==
  /\ clock \in UInt32
  /\ last_rx_s \in UInt32
  /\ wd \in {"sleep", "awake", "sampling", "hangup", "over"}
  /\ timer \in 0..Period
  /\ now \in UInt32
  /\ alarmed \in BOOLEAN
  /\ gap \in 0..MaxGap

(* CALL_ESTABLISHED marks the time and starts the watchdog.                *)
Init ==
  /\ clock \in UInt32
  /\ last_rx_s = clock
  /\ wd = "sleep"
  /\ timer = Period
  /\ now = clock
  /\ alarmed = FALSE
  /\ gap = 0

-----------------------------------------------------------------------------
(* The watchdog samples without interruption unless MayTear.               *)
Interruptible == wd \in {"awake", "sampling"} => MayTear

(* A second passes; the wall clock shows it, unless the user or the        *)
(* network's time sets it.  A sleep that is over wakes the watchdog.       *)
Tick ==
  /\ Interruptible
  /\ wd = "sleep" => timer > 0
  /\ wd # "hangup"
  /\ gap < MaxGap
  /\ clock' \in IF ClockMayStep THEN UInt32 ELSE {Successor(clock)}
  /\ gap' = gap + 1
  /\ timer' = IF wd = "sleep" THEN timer - 1 ELSE timer
  /\ UNCHANGED <<last_rx_s, wd, now, alarmed>>

(* A frame is decoded, or an RTCP report arrives.                          *)
rtpwatch_mark_rx ==
  /\ Interruptible
  /\ last_rx_s' = clock
  /\ gap' = 0
  /\ alarmed' = FALSE
  /\ UNCHANGED <<clock, wd, timer, now>>

(* The next conversation, once the watchdog has ended.                     *)
CallEstablished ==
  /\ wd = "over"
  /\ last_rx_s' = clock
  /\ gap' = 0
  /\ alarmed' = FALSE
  /\ wd' = "sleep"
  /\ timer' = Period
  /\ UNCHANGED <<clock, now>>

-----------------------------------------------------------------------------
(* watchdog_thread.                                                        *)

Wakes ==
  /\ wd = "sleep"
  /\ timer = 0
  /\ wd' = "awake"
  /\ UNCHANGED <<clock, last_rx_s, timer, now, alarmed, gap>>

ReadsClock ==
  /\ wd = "awake"
  /\ wd' = "sampling"
  /\ now' = clock
  /\ UNCHANGED <<clock, last_rx_s, timer, alarmed, gap>>

(* Faulty variants of the comparison: seconds compared as they are, as if  *)
(* the counter never wrapped; the timeout reached instead of exceeded.     *)
ComparesUnwrapped == now > last_rx_s + RxTimeout
ComparesReached == Minus(now, last_rx_s) >= RxTimeout

(* silent > RX_TIMEOUT_S                                                   *)
TooSilent == Minus(now, last_rx_s) > RxTimeout

ReadsLast ==
  /\ wd = "sampling"
  /\ \/ /\ TooSilent
        /\ wd' = "hangup"
        /\ alarmed' = TRUE
        /\ UNCHANGED timer
     \/ /\ ~TooSilent
        /\ wd' = "sleep"
        /\ timer' = Period
        /\ UNCHANGED alarmed
  /\ UNCHANGED <<clock, last_rx_s, now, gap>>

(* remain_run takes the request, or fails and the watchdog keeps watching. *)
PostsHangup ==
  /\ wd = "hangup"
  /\ \/ wd' = "over" /\ UNCHANGED timer
     \/ wd' = "sleep" /\ timer' = Period
  /\ UNCHANGED <<clock, last_rx_s, now, alarmed, gap>>

Next ==
  \/ Tick
  \/ rtpwatch_mark_rx
  \/ CallEstablished
  \/ Wakes
  \/ ReadsClock
  \/ ReadsLast
  \/ PostsHangup

Spec == Init /\ [][Next]_vars

-----------------------------------------------------------------------------
(* Properties.                                                             *)

(* The watchdog finds a call dead only when no frame has arrived for more  *)
(* than RX_TIMEOUT_S seconds, whatever the counter's value is when it      *)
(* wraps (comment above rtpwatch_last_rx_s: it does not misfire).          *)
Alarm == wd # "hangup" /\ wd' = "hangup"
NoFalseAlarm == [][Alarm => gap > RxTimeout]_vars

(* A silence is found within RX_TIMEOUT_S seconds and one sleep.           *)
DeathDetected == wd # "over" /\ ~alarmed => gap <= RxTimeout + Period

(* The counters' difference is the silence, and the sleep in progress      *)
(* leaves time to find it: with these the properties are inductive.        *)
MeasuresGap == Minus(clock, last_rx_s) = gap
SampleFresh == wd = "sampling" => now = clock
InTime ==
  /\ wd = "sleep" /\ ~alarmed => gap + timer <= RxTimeout + Period
  /\ wd = "hangup" /\ ~alarmed => gap <= RxTimeout
Measured == MeasuresGap /\ SampleFresh /\ InTime /\ DeathDetected
=============================================================================
