-------------------------- MODULE CallBridgeProofs --------------------------
(***************************************************************************)
(* What holds of CallBridge for every set of calls, every bound and every  *)
(* environment the assumptions of a theorem admit.                         *)
(***************************************************************************)
EXTENDS CallBridge, SequenceTheorems, TLAPS

(* The bridge's state keeps its type.  Every leaf of TypeInductive is one  *)
(* action.                                                                 *)
LEMMA TypeInit == Init => TypeOK
<1> SUFFICES ASSUME Init PROVE TypeOK
  OBVIOUS
<1>1. queue \in Seq(Requests \cup {"timeout"}) /\ upcalls \in Seq(Upcalls)
  BY DEF Init
<1>2. state \in [Calls -> CallStates]
  BY DEF Init, CallStates
<1>3. QED
  BY <1>1, <1>2 DEF Init, TypeOK

(* A request taken from the queue leaves a queue of requests.              *)
LEMMA TakeType ==
  ASSUME TypeOK, NEW req, Take(req)
  PROVE  queue' \in Seq(Requests \cup {"timeout"})
BY DEF TypeOK, Take

(* The end of a call keeps the types of the variables it writes.           *)
LEMMA CallClosedType ==
  ASSUME TypeOK, NEW c \in Calls, NEW cbs \in Seq(Upcalls), CallClosed(c, cbs)
  PROVE  /\ state' \in [Calls -> CallStates]
         /\ muted' \subseteq Calls
         /\ g_call' \in Calls \cup {NoCall}
         /\ g_in_call' \in BOOLEAN
         /\ upcalls' \in Seq(Upcalls)
         /\ callActive' \in BOOLEAN
<1>1. "freed" \in CallStates
  BY DEF CallStates
<1>2. state' \in [Calls -> CallStates]
  BY <1>1 DEF TypeOK, CallClosed
<1>3. Append(cbs, "onCallEnded") \in Seq(Upcalls)
  BY DEF Upcalls
<1>4. upcalls' \in Seq(Upcalls) /\ callActive' \in BOOLEAN
  BY <1>3 DEF TypeOK, CallClosed, OnCallOver
<1>5. QED
  BY <1>2, <1>4 DEF TypeOK, CallClosed

(* So does the creation of a user agent.                                   *)
LEMMA CreateType ==
  ASSUME TypeOK, ua_create_and_register
  PROVE  /\ g_ua' \in BOOLEAN
         /\ g_registered' \in BOOLEAN
         /\ upcalls' \in Seq(Upcalls)
         /\ callActive' \in BOOLEAN
<1>1. g_ua' \in BOOLEAN /\ g_registered' \in BOOLEAN
  BY Zenon DEF TypeOK, ua_create_and_register
<1>2. callActive' \in BOOLEAN
  BY Zenon DEF TypeOK, ua_create_and_register, Notice
<1>3. /\ <<"onRegistrationFailed">> \in Seq(Upcalls)
      /\ <<"onRegistrationFailed", "onRegistrationFailed">> \in Seq(Upcalls)
      /\ <<"onDebug">> \in Seq(Upcalls)
  BY DEF Upcalls
<1>4. QED
  BY <1>1, <1>2, <1>3, Zenon DEF ua_create_and_register, Notice

(* Every step keeps the type: one leaf per action.                         *)
LEMMA TypeInductive == TypeOK /\ [Next]_vars => TypeOK'
<1> SUFFICES ASSUME TypeOK, [Next]_vars PROVE TypeOK'
  OBVIOUS
<1> USE DEF CallStates
<1>1. ASSUME NEW req \in Requests, Post(req) PROVE TypeOK'
  <2>1. queue' \in Seq(Requests \cup {"timeout"}) /\ upcalls' \in Seq(Upcalls)
    BY <1>1 DEF TypeOK, Post
  <2>2. QED
    BY <1>1, <2>1, Zenon DEF TypeOK, Post, lineVars, uaVars, wdVars
<1>2. CASE register_worker
  <2>1. queue' \in Seq(Requests \cup {"timeout"})
    BY <1>2, TakeType DEF register_worker
  <2>2. /\ g_ua' \in BOOLEAN /\ g_registered' \in BOOLEAN
        /\ upcalls' \in Seq(Upcalls) /\ callActive' \in BOOLEAN
    <3>1. CASE g_ua /\ NoUpcall /\ UNCHANGED uaVars
      BY <3>1 DEF TypeOK, NoUpcall, uaVars
    <3>2. CASE ~g_ua /\ ua_create_and_register
      BY <3>2, CreateType
    <3>3. QED
      BY <1>2, <3>1, <3>2 DEF register_worker
  <2>3. QED
    BY <1>2, <2>1, <2>2, Zenon DEF TypeOK, register_worker, lineVars, wdVars
<1>3. CASE unregister_worker
  <2>1. queue' \in Seq(Requests \cup {"timeout"})
    BY <1>3, TakeType DEF unregister_worker
  <2>2. upcalls' \in Seq(Upcalls)
    BY <1>3 DEF unregister_worker, NoUpcall
  <2>3. QED
    BY <1>3, <2>1, <2>2, Zenon
       DEF TypeOK, unregister_worker, NoUpcall, lineVars, uaVars, wdVars
<1>4. CASE reregister_worker
  <2>1. queue' \in Seq(Requests \cup {"timeout"})
    BY <1>4, TakeType DEF reregister_worker
  <2>2. /\ g_ua' \in BOOLEAN /\ g_registered' \in BOOLEAN
        /\ upcalls' \in Seq(Upcalls) /\ callActive' \in BOOLEAN
    BY <1>4, CreateType DEF reregister_worker
  <2>3. state' \in [Calls -> CallStates]
    BY <1>4 DEF TypeOK, reregister_worker
  <2>4. QED
    BY <1>4, <2>1, <2>2, <2>3, Zenon DEF TypeOK, reregister_worker, wdVars
<1>5. CASE makecall_worker
  <2>1. queue' \in Seq(Requests \cup {"timeout"})
    BY <1>5, TakeType DEF makecall_worker
  <2>2. CASE ~g_ua /\ NoUpcall /\ UNCHANGED <<pc, lineVars, fault>>
    <3>1. upcalls' \in Seq(Upcalls)
      BY <2>2 DEF NoUpcall
    <3>2. QED
      BY <1>5, <2>1, <2>2, <3>1, Zenon
         DEF TypeOK, makecall_worker, NoUpcall, lineVars, uaVars, wdVars
  <2>3. CASE pc' = "connect" /\ NoUpcall /\ UNCHANGED <<lineVars, fault>>
    <3>1. upcalls' \in Seq(Upcalls)
      BY <2>3 DEF NoUpcall
    <3>2. QED
      BY <1>5, <2>1, <2>3, <3>1, Zenon
         DEF TypeOK, makecall_worker, NoUpcall, lineVars, uaVars, wdVars
  <2>4. CASE /\ g_call # NoCall
             /\ CallClosed(g_call, <<>>)
             /\ pc' = "connect"
             /\ UNCHANGED fault
    <3>1. g_call \in Calls /\ <<>> \in Seq(Upcalls)
      BY <2>4 DEF TypeOK
    <3>2. /\ state' \in [Calls -> CallStates]
          /\ muted' \subseteq Calls
          /\ g_call' \in Calls \cup {NoCall}
          /\ g_in_call' \in BOOLEAN
          /\ upcalls' \in Seq(Upcalls)
          /\ callActive' \in BOOLEAN
      BY <2>4, <3>1, CallClosedType
    <3>3. QED
      BY <1>5, <2>1, <2>4, <3>2, Zenon
         DEF TypeOK, makecall_worker, uaVars, wdVars
  <2>5. QED
    BY <1>5, <2>2, <2>3, <2>4 DEF makecall_worker
<1>6. CASE ua_connect
  <2>1. CASE ConnectFails
    <3>1. upcalls' \in Seq(Upcalls) /\ callActive' \in BOOLEAN
      BY <2>1 DEF ConnectFails, OnCallOver, Upcalls
    <3>2. QED
      BY <1>6, <2>1, <3>1, Zenon
         DEF TypeOK, ua_connect, ConnectFails, lineVars, uaVars, wdVars
  <2>2. ASSUME NEW c \in Calls, ConnectFailsLate(c) PROVE TypeOK'
    <3>1. upcalls' \in Seq(Upcalls) /\ callActive' \in BOOLEAN
      BY <2>2 DEF ConnectFailsLate, OnCallOver, Upcalls
    <3>2. state' \in [Calls -> CallStates]
      BY <2>2 DEF TypeOK, ConnectFailsLate
    <3>3. QED
      BY <1>6, <2>2, <3>1, <3>2, Zenon
         DEF TypeOK, ua_connect, ConnectFailsLate, uaVars, wdVars
  <2>3. ASSUME NEW c \in Calls, ConnectSucceeds(c) PROVE TypeOK'
    <3>1. upcalls' \in Seq(Upcalls) /\ callActive' \in BOOLEAN
      BY <2>3 DEF TypeOK, ConnectSucceeds, NoUpcall
    <3>2. state' \in [Calls -> CallStates]
      BY <2>3 DEF TypeOK, ConnectSucceeds
    <3>3. QED
      BY <1>6, <2>3, <3>1, <3>2, Zenon
         DEF TypeOK, ua_connect, ConnectSucceeds, uaVars, wdVars
  <2>4. QED
    BY <1>6, <2>1, <2>2, <2>3 DEF ua_connect
<1>7. CASE answer_worker
  <2>1. queue' \in Seq(Requests \cup {"timeout"})
    BY <1>7, TakeType DEF answer_worker
  <2>2. state' \in [Calls -> CallStates]
    BY <1>7 DEF TypeOK, answer_worker
  <2>3. upcalls' \in Seq(Upcalls)
    BY <1>7 DEF answer_worker, NoUpcall
  <2>4. QED
    BY <1>7, <2>1, <2>2, <2>3, Zenon
       DEF TypeOK, answer_worker, NoUpcall, uaVars, wdVars
<1>8. CASE endcall_worker \/ timeout_hangup_worker
  <2>1. /\ queue' \in Seq(Requests \cup {"timeout"})
        /\ HangUpCurrent
        /\ UNCHANGED <<pc, uaVars, wdVars, fault>>
    BY <1>8, TakeType DEF endcall_worker, timeout_hangup_worker
  <2>2. /\ state' \in [Calls -> CallStates]
        /\ muted' \subseteq Calls
        /\ g_call' \in Calls \cup {NoCall}
        /\ g_in_call' \in BOOLEAN
        /\ upcalls' \in Seq(Upcalls)
        /\ callActive' \in BOOLEAN
    <3>1. CASE g_call = NoCall
      <4>1. /\ g_in_call' = FALSE
            /\ NoUpcall
            /\ UNCHANGED <<g_call, state, muted>>
        BY <2>1, <3>1, Zenon DEF HangUpCurrent
      <4>2. upcalls' \in Seq(Upcalls)
        BY <4>1 DEF NoUpcall
      <4>3. QED
        BY <4>1, <4>2, Zenon DEF TypeOK, NoUpcall
    <3>2. CASE g_call # NoCall
      <4>1. g_call \in Calls /\ <<>> \in Seq(Upcalls)
        BY <3>2 DEF TypeOK
      <4>2. QED
        BY <2>1, <3>2, <4>1, CallClosedType DEF HangUpCurrent
    <3>3. QED
      BY <3>1, <3>2
  <2>3. QED
    BY <2>1, <2>2, Zenon DEF TypeOK, uaVars, wdVars
<1>9. CASE dtmf_worker
  <2>1. queue' \in Seq(Requests \cup {"timeout"})
    BY <1>9, TakeType DEF dtmf_worker
  <2>2. upcalls' \in Seq(Upcalls)
    BY <1>9 DEF dtmf_worker, NoUpcall
  <2>3. QED
    BY <1>9, <2>1, <2>2, Zenon
       DEF TypeOK, dtmf_worker, NoUpcall, lineVars, uaVars, wdVars
<1>10. ASSUME NEW req \in {"mute", "unmute"}, mute_worker(req) PROVE TypeOK'
  <2>1. queue' \in Seq(Requests \cup {"timeout"})
    BY <1>10, TakeType DEF mute_worker
  <2>2. upcalls' \in Seq(Upcalls)
    BY <1>10 DEF mute_worker, NoUpcall
  <2>3. muted' \subseteq Calls
    <3>1. g_call # NoCall => muted \cup {g_call} \subseteq Calls
      BY DEF TypeOK
    <3>2. muted' \in {muted, muted \cup {g_call}, muted \ {g_call}}
          /\ (g_call = NoCall => muted' = muted)
      BY <1>10 DEF mute_worker
    <3>3. QED
      BY <3>1, <3>2 DEF TypeOK
  <2>4. QED
    BY <1>10, <2>1, <2>2, <2>3, Zenon
       DEF TypeOK, mute_worker, NoUpcall, uaVars, wdVars
<1>11. ASSUME NEW req, DanglingUse(req) PROVE TypeOK'
  <2>1. queue' \in Seq(Requests \cup {"timeout"})
    BY <1>11, TakeType DEF DanglingUse
  <2>2. upcalls' \in Seq(Upcalls)
    BY <1>11 DEF DanglingUse, UseAfterFree, NoUpcall
  <2>3. QED
    BY <1>11, <2>1, <2>2, Zenon
       DEF TypeOK, DanglingUse, UseAfterFree, NoUpcall, lineVars, uaVars, wdVars
<1>12. CASE RegisterOk \/ RegisterFail
  <2>1. upcalls' \in Seq(Upcalls) /\ callActive' \in BOOLEAN
    <3>1. /\ <<"onRegistered">> \in Seq(Upcalls)
          /\ <<"onRegistrationFailed">> \in Seq(Upcalls)
      BY DEF Upcalls
    <3>2. QED
      BY <1>12, <3>1, Zenon DEF TypeOK, RegisterOk, RegisterFail, Notice
  <2>2. QED
    BY <1>12, <2>1, Zenon
       DEF TypeOK, RegisterOk, RegisterFail, Event, lineVars, wdVars
<1>13. ASSUME NEW c \in Calls, CallIncoming(c) PROVE TypeOK'
  <2>1. upcalls' \in Seq(Upcalls) /\ callActive' \in BOOLEAN
    BY <1>13 DEF TypeOK, CallIncoming, Notice, Upcalls
  <2>2. state' \in [Calls -> CallStates]
    BY <1>13 DEF TypeOK, CallIncoming
  <2>3. QED
    BY <1>13, <2>1, <2>2, Zenon
       DEF TypeOK, CallIncoming, Event, uaVars, wdVars
<1>14. ASSUME NEW c \in Calls,
              \/ CallIncomingBusy(c) \/ CallUnacceptable(c)
              \/ SessionClosed(c) \/ AudioError(c)
       PROVE  TypeOK'
  <2>1. /\ <<>> \in Seq(Upcalls)
        /\ <<"onCallFailed">> \in Seq(Upcalls)
    BY DEF Upcalls
  <2>2. /\ Event
        /\ \E cbs \in Seq(Upcalls) : CallClosed(c, cbs)
        /\ UNCHANGED <<uaVars, wdVars>>
    BY <1>14, <2>1, Zenon
       DEF CallIncomingBusy, CallUnacceptable, SessionClosed, AudioError
  <2>3. /\ state' \in [Calls -> CallStates]
        /\ muted' \subseteq Calls
        /\ g_call' \in Calls \cup {NoCall}
        /\ g_in_call' \in BOOLEAN
        /\ upcalls' \in Seq(Upcalls)
        /\ callActive' \in BOOLEAN
    BY <2>2, CallClosedType
  <2>4. QED
    BY <2>2, <2>3, Zenon DEF TypeOK, Event, uaVars, wdVars
<1>15. ASSUME NEW c \in Calls, CallEstablished(c) PROVE TypeOK'
  <2>1. upcalls' \in Seq(Upcalls) /\ callActive' \in BOOLEAN
    BY <1>15 DEF CallEstablished, OnCallStarted, Upcalls
  <2>2. state' \in [Calls -> CallStates]
    BY <1>15 DEF TypeOK, CallEstablished
  <2>3. QED
    BY <1>15, <2>1, <2>2, Zenon
       DEF TypeOK, CallEstablished, Event, watchdog_start, uaVars
<1>16. ASSUME NEW c \in Calls, MediaArrives(c) PROVE TypeOK'
  <2>1. upcalls' \in Seq(Upcalls)
    BY <1>16 DEF MediaArrives, NoUpcall
  <2>2. QED
    BY <1>16, <2>1, Zenon
       DEF TypeOK, MediaArrives, Event, NoUpcall, lineVars, uaVars
<1>17. CASE MediaLapses
  <2>1. upcalls' \in Seq(Upcalls)
    BY <1>17 DEF MediaLapses, Elsewhere
  <2>2. QED
    BY <1>17, <2>1, Zenon
       DEF TypeOK, MediaLapses, Elsewhere, lineVars, uaVars
<1>18. ASSUME NEW c \in Calls, PeerDies(c) PROVE TypeOK'
  <2>1. upcalls' \in Seq(Upcalls)
    BY <1>18 DEF PeerDies, Elsewhere
  <2>2. gone' \subseteq Calls
    BY <1>18 DEF TypeOK, PeerDies
  <2>3. QED
    BY <1>18, <2>1, <2>2, Zenon DEF TypeOK, PeerDies, Elsewhere, lineVars, uaVars
<1>19. CASE Watchdog
  <2>1. Elsewhere /\ UNCHANGED <<silent, gone>>
    BY <1>19 DEF Watchdog, WatchdogReadsCall, WatchdogMeasures, WatchdogPosts,
                 WatchdogRetries, WatchdogLeaves
  <2>2. upcalls' \in Seq(Upcalls)
    BY <2>1 DEF Elsewhere
  <2>3. /\ queue' \in Seq(Requests \cup {"timeout"})
        /\ wd' \in {"off", "sleep", "measure", "post", "leave"}
    <3>1. CASE WatchdogReadsCall \/ WatchdogMeasures
      BY <3>1 DEF TypeOK, WatchdogReadsCall, WatchdogMeasures
    <3>2. CASE WatchdogPosts
      BY <3>2 DEF TypeOK, WatchdogPosts
    <3>3. CASE WatchdogRetries \/ WatchdogLeaves
      BY <3>3 DEF TypeOK, WatchdogRetries, WatchdogLeaves
    <3>4. QED
      BY <1>19, <3>1, <3>2, <3>3, Zenon DEF Watchdog
  <2>4. QED
    BY <2>1, <2>2, <2>3, Zenon DEF TypeOK, Elsewhere, lineVars, uaVars
<1>20. CASE UNCHANGED vars
  BY <1>20, Zenon DEF TypeOK, vars, lineVars, uaVars, wdVars, javaVars
<1>21. CASE Worker
  BY <1>2, <1>3, <1>4, <1>5, <1>6, <1>7, <1>8, <1>9, <1>10, <1>11, <1>21
     DEF Worker
<1>22. CASE EventHandler
  BY <1>12, <1>13, <1>14, <1>15, <1>16, <1>22, Zenon DEF EventHandler
<1>23. QED
  BY <1>1, <1>17, <1>18, <1>19, <1>20, <1>21, <1>22 DEF Next

(* Every reachable state of the bridge is well typed.                      *)
THEOREM TypeCorrect == Spec => []TypeOK
BY TypeInit, TypeInductive, PTL DEF Spec

-----------------------------------------------------------------------------
(* The steps that touch the line.                                          *)

LineSteps ==
  \/ reregister_worker
  \/ makecall_worker
  \/ ua_connect
  \/ answer_worker
  \/ endcall_worker
  \/ timeout_hangup_worker
  \/ \E req : DanglingUse(req)
  \/ \E c \in Calls :
       \/ CallIncoming(c)
       \/ CallIncomingBusy(c)
       \/ CallUnacceptable(c)
       \/ CallEstablished(c)
       \/ SessionClosed(c)
       \/ AudioError(c)

core == <<pc, g_call, g_in_call, state, callActive, fault>>

(* Every other step leaves the line and the service's view of it alone.    *)
LEMMA StepCases == [Next]_vars => LineSteps \/ UNCHANGED core
<1> SUFFICES ASSUME [Next]_vars PROVE LineSteps \/ UNCHANGED core
  OBVIOUS
<1> USE DEF lineVars, uaVars, wdVars, javaVars, core
<1>1. ASSUME NEW req \in Requests, Post(req) PROVE UNCHANGED core
  BY <1>1, Zenon DEF Post
<1>2. CASE register_worker
  BY <1>2, Zenon DEF register_worker, NoUpcall, ua_create_and_register, Notice
<1>3. CASE unregister_worker \/ dtmf_worker
  BY <1>3, Zenon DEF unregister_worker, dtmf_worker, NoUpcall
<1>4. ASSUME NEW req, mute_worker(req) PROVE UNCHANGED core
  BY <1>4, Zenon DEF mute_worker, NoUpcall
<1>5. CASE RegisterOk \/ RegisterFail
  BY <1>5, Zenon DEF RegisterOk, RegisterFail, Event, Notice
<1>6. ASSUME NEW c \in Calls, MediaArrives(c) PROVE UNCHANGED core
  BY <1>6, Zenon DEF MediaArrives, Event, NoUpcall
<1>7. ASSUME Elsewhere PROVE UNCHANGED core
  BY <1>7, Zenon DEF Elsewhere
<1>8. CASE MediaLapses
  BY <1>7, <1>8, Zenon DEF MediaLapses
<1>9. ASSUME NEW c \in Calls, PeerDies(c) PROVE UNCHANGED core
  BY <1>7, <1>9, Zenon DEF PeerDies
<1>10. CASE Watchdog
  BY <1>7, <1>10, Zenon
     DEF Watchdog, WatchdogReadsCall, WatchdogMeasures, WatchdogPosts,
         WatchdogRetries, WatchdogLeaves
<1>11. CASE UNCHANGED vars
  BY <1>11, Zenon DEF vars
<1>12. CASE Worker
  BY <1>2, <1>3, <1>4, <1>12, Zenon DEF Worker, LineSteps
<1>13. CASE EventHandler
  BY <1>5, <1>6, <1>13, Zenon DEF EventHandler, LineSteps
<1>14. QED
  BY <1>1, <1>8, <1>9, <1>10, <1>11, <1>12, <1>13, Zenon DEF Next

(* What the end of a call does to the line.                                *)
LEMMA CallClosedLine ==
  ASSUME TypeOK, NEW c \in Calls, NEW cbs, CallClosed(c, cbs)
  PROVE  /\ g_call' = NoCall
         /\ \A d \in Calls : Live(d)' => Live(d) /\ d # c
BY DEF TypeOK, CallClosed, Live

-----------------------------------------------------------------------------
(* g_in_call and g_call.                                                   *)

(* Every step of re_main writes g_call and g_in_call together.             *)
LEMMA FlagsInductive == TypeOK /\ FlagsAgree /\ [Next]_vars => FlagsAgree'
<1> SUFFICES ASSUME TypeOK, FlagsAgree, [Next]_vars PROVE FlagsAgree'
  OBVIOUS
<1> USE NoCallAssumption DEF FlagsAgree
<1>1. ASSUME NEW c, NEW cbs, CallClosed(c, cbs) PROVE FlagsAgree'
  BY <1>1, Zenon DEF CallClosed
<1>2. CASE reregister_worker
  BY <1>2, Zenon DEF reregister_worker
<1>3. CASE makecall_worker
  BY <1>1, <1>3, Zenon DEF makecall_worker, lineVars
<1>4. CASE ua_connect
  <2>1. CASE ConnectFails
    BY <2>1, Zenon DEF ConnectFails, lineVars
  <2>2. ASSUME NEW c \in Calls, ConnectFailsLate(c) \/ ConnectSucceeds(c)
        PROVE  FlagsAgree'
    <3>1. g_call' = c /\ g_in_call' = TRUE /\ c # NoCall
      BY <2>2, Zenon DEF ConnectFailsLate, ConnectSucceeds
    <3>2. QED
      BY <3>1, Zenon
  <2>3. QED
    BY <1>4, <2>1, <2>2, Zenon DEF ua_connect
<1>5. CASE answer_worker
  BY <1>5, Zenon DEF answer_worker
<1>6. CASE endcall_worker \/ timeout_hangup_worker
  BY <1>1, <1>6, Zenon DEF endcall_worker, timeout_hangup_worker, HangUpCurrent
<1>7. ASSUME NEW req, DanglingUse(req) PROVE FlagsAgree'
  BY <1>7, Zenon DEF DanglingUse, UseAfterFree, lineVars
<1>8. ASSUME NEW c \in Calls, CallIncoming(c) \/ CallEstablished(c)
      PROVE  FlagsAgree'
  <2>1. g_call' = c /\ g_in_call' = TRUE /\ c # NoCall
    BY <1>8, Zenon DEF CallIncoming, CallEstablished
  <2>2. QED
    BY <2>1, Zenon
<1>9. ASSUME NEW c \in Calls,
             \/ CallIncomingBusy(c) \/ CallUnacceptable(c)
             \/ SessionClosed(c) \/ AudioError(c)
      PROVE  FlagsAgree'
  BY <1>1, <1>9, Zenon
     DEF CallIncomingBusy, CallUnacceptable, SessionClosed, AudioError
<1>10. CASE UNCHANGED core
  BY <1>10, Zenon DEF core
<1>11. QED
  BY <1>2, <1>3, <1>4, <1>5, <1>6, <1>7, <1>8, <1>9, <1>10, StepCases, Zenon
     DEF LineSteps

(* In every environment, a late failure of a dial and a second INVITE      *)
(* included, g_in_call is 1 exactly while g_call is not NULL.              *)
THEOREM FlagsAlwaysAgree == Spec => []FlagsAgree
<1>1. Init => FlagsAgree
  BY DEF Init, FlagsAgree
<1>2. QED
  BY <1>1, TypeCorrect, FlagsInductive, PTL DEF Spec

-----------------------------------------------------------------------------
(* The pointer g_call.                                                     *)

(* A call that is freed is no longer the one g_call names.                 *)
LEMMA PointerInductive ==
  ASSUME ~DialMayFailLate, TypeOK, NoUseAfterFree, PointerLive, [Next]_vars
  PROVE  NoUseAfterFree' /\ PointerLive'
<1> USE NoCallAssumption DEF NoUseAfterFree, PointerLive, Live
<1>1. ASSUME NEW c, NEW cbs, CallClosed(c, cbs) PROVE PointerLive'
  BY <1>1, Zenon DEF CallClosed
<1>2. CASE reregister_worker
  BY <1>2, Zenon DEF reregister_worker
<1>3. CASE makecall_worker
  <2>1. ~fault'
    BY <1>3, Zenon DEF makecall_worker
  <2>2. UNCHANGED lineVars \/ CallClosed(g_call, <<>>)
    BY <1>3, Zenon DEF makecall_worker
  <2>3. QED
    BY <1>1, <2>1, <2>2, Zenon DEF lineVars
<1>4. CASE ua_connect
  <2>1. CASE ConnectFails
    BY <1>4, <2>1, Zenon DEF ua_connect, ConnectFails, lineVars
  <2>2. ASSUME NEW c \in Calls, ConnectFailsLate(c) \/ ConnectSucceeds(c)
        PROVE  NoUseAfterFree' /\ PointerLive'
    <3>1. g_call' = c /\ state' = [state EXCEPT ![c] = "outgoing"]
      BY <2>2, Zenon DEF ConnectFailsLate, ConnectSucceeds
    <3>2. state'[c] = "outgoing"
      BY <3>1 DEF TypeOK
    <3>3. ~fault'
      BY <1>4, Zenon DEF ua_connect
    <3>4. QED
      BY <3>1, <3>2, <3>3
  <2>3. QED
    BY <1>4, <2>1, <2>2, Zenon DEF ua_connect
<1>5. CASE answer_worker
  <2>1. CASE /\ g_call \in Calls
             /\ state' = [state EXCEPT ![g_call] = "answered"]
    <3>1. state'[g_call] = "answered"
      BY <2>1 DEF TypeOK
    <3>2. ~fault' /\ g_call' = g_call
      BY <1>5, Zenon DEF answer_worker
    <3>3. QED
      BY <3>1, <3>2
  <2>2. CASE UNCHANGED state
    BY <1>5, <2>2, Zenon DEF answer_worker
  <2>3. QED
    BY <1>5, <2>1, <2>2, Zenon DEF answer_worker
<1>6. CASE endcall_worker \/ timeout_hangup_worker
  <2>1. ~fault'
    BY <1>6, Zenon DEF endcall_worker, timeout_hangup_worker
  <2>2. UNCHANGED <<g_call, state>> \/ CallClosed(g_call, <<>>)
    BY <1>6, Zenon DEF endcall_worker, timeout_hangup_worker, HangUpCurrent
  <2>3. QED
    BY <1>1, <2>1, <2>2, Zenon
<1>7. ASSUME NEW req, DanglingUse(req) PROVE FALSE
  BY <1>7, Zenon DEF DanglingUse, UseAfterFree, Dangling
<1>8. ASSUME NEW c \in Calls, CallIncoming(c) \/ CallEstablished(c)
      PROVE  NoUseAfterFree' /\ PointerLive'
  <2>1. PICK s \in {"incoming", "established"} :
          g_call' = c /\ state' = [state EXCEPT ![c] = s]
    BY <1>8, Zenon DEF CallIncoming, CallEstablished
  <2>2. state'[c] = s
    BY <2>1 DEF TypeOK
  <2>3. ~fault'
    BY <1>8, Zenon DEF CallIncoming, CallEstablished, Event
  <2>4. QED
    BY <2>1, <2>2, <2>3
<1>9. ASSUME NEW c \in Calls,
             \/ CallIncomingBusy(c) \/ CallUnacceptable(c)
             \/ SessionClosed(c) \/ AudioError(c)
      PROVE  NoUseAfterFree' /\ PointerLive'
  <2>1. ~fault'
    BY <1>9, Zenon
       DEF CallIncomingBusy, CallUnacceptable, SessionClosed, AudioError,
           Event
  <2>2. CallClosed(c, <<>>) \/ CallClosed(c, <<"onCallFailed">>)
    BY <1>9, Zenon
       DEF CallIncomingBusy, CallUnacceptable, SessionClosed, AudioError
  <2>3. QED
    BY <1>1, <2>1, <2>2, Zenon
<1>10. CASE UNCHANGED core
  BY <1>10, Zenon DEF core
<1>11. QED
  BY <1>2, <1>3, <1>4, <1>5, <1>6, <1>7, <1>8, <1>9, <1>10, StepCases, Zenon
     DEF LineSteps

(* While no dial fails late, g_call never outlives the call it names.      *)
LEMMA PointerInvariant ==
  ASSUME ~DialMayFailLate
  PROVE  Spec => [](NoUseAfterFree /\ PointerLive)
<1>1. Init => NoUseAfterFree /\ PointerLive
  BY NoCallAssumption DEF Init, NoUseAfterFree, PointerLive
<1>2. TypeOK /\ NoUseAfterFree /\ PointerLive /\ [Next]_vars
        => NoUseAfterFree' /\ PointerLive'
  BY PointerInductive
<1>3. QED
  BY <1>1, <1>2, TypeCorrect, PTL DEF Spec

(* As long as a dial cannot fail once it is announced, no worker touches a *)
(* freed call, even when second INVITEs make calls coexist: every close    *)
(* clears g_call, whichever call it is about.                              *)
THEOREM NoFreedCallIsUsed ==
  ASSUME ~DialMayFailLate
  PROVE  Spec => []NoUseAfterFree
BY PointerInvariant, PTL

-----------------------------------------------------------------------------
(* One line.                                                               *)

(* A call is made or accepted only while no other call lives.              *)
LEMMA LineInductive ==
  ASSUME ~CallWaiting, TypeOK, SingleLine, ConnectIdle, [Next]_vars
  PROVE  SingleLine' /\ ConnectIdle'
<1> USE NoCallAssumption DEF SingleLine, ConnectIdle
<1>1. ASSUME NEW c \in Calls, NEW cbs, CallClosed(c, cbs),
             \A d \in Calls : Live(d) => d = c
      PROVE  SingleLine' /\ ConnectIdle'
  BY <1>1, CallClosedLine
<1>2. CASE reregister_worker
  BY <1>2 DEF reregister_worker, TypeOK, Live
<1>3. CASE makecall_worker
  <2>1. CASE UNCHANGED lineVars /\ (pc' = "connect" => g_call = NoCall)
    BY <2>1, Zenon DEF lineVars, Live
  <2>2. CASE g_call # NoCall /\ CallClosed(g_call, <<>>)
    BY <1>1, <2>2 DEF TypeOK
  <2>3. CASE ~g_ua /\ UNCHANGED <<pc, lineVars>>
    BY <2>3, Zenon DEF lineVars, Live
  <2>4. QED
    BY <1>3, <2>1, <2>2, <2>3, Zenon DEF makecall_worker
<1>4. CASE ua_connect
  <2>1. g_call = NoCall /\ \A d \in Calls : ~Live(d)
    BY <1>4, Zenon DEF ua_connect
  <2>2. pc' = "loop"
    BY <1>4, Zenon DEF ua_connect
  <2>3. CASE ConnectFails
    BY <2>1, <2>2, <2>3 DEF ConnectFails, lineVars, Live
  <2>4. ASSUME NEW c \in Calls, ConnectFailsLate(c) \/ ConnectSucceeds(c)
        PROVE  SingleLine'
    BY <2>1, <2>4 DEF ConnectFailsLate, ConnectSucceeds, TypeOK, Live
  <2>5. QED
    BY <1>4, <2>2, <2>3, <2>4 DEF ua_connect
<1>5. CASE answer_worker
  BY <1>5 DEF answer_worker, TypeOK, Live
<1>6. CASE endcall_worker \/ timeout_hangup_worker
  <2>1. CASE UNCHANGED <<pc, g_call, state>>
    BY <2>1, Zenon DEF Live
  <2>2. CASE g_call # NoCall /\ CallClosed(g_call, <<>>)
    BY <1>1, <2>2 DEF TypeOK
  <2>3. QED
    BY <1>6, <2>1, <2>2, Zenon
       DEF endcall_worker, timeout_hangup_worker, HangUpCurrent
<1>7. ASSUME NEW req, DanglingUse(req) PROVE SingleLine' /\ ConnectIdle'
  BY <1>7, Zenon DEF DanglingUse, UseAfterFree, lineVars, Live
<1>8. ASSUME NEW c \in Calls, CallIncoming(c) PROVE SingleLine' /\ ConnectIdle'
  <2>1. \A d \in Calls : ~Live(d)
    BY <1>8, Zenon DEF CallIncoming
  <2>2. pc' = "loop" /\ g_call' = c /\ state' = [state EXCEPT ![c] = "incoming"]
    BY <1>8, Zenon DEF CallIncoming, Event
  <2>3. QED
    BY <2>1, <2>2 DEF TypeOK, Live
<1>9. ASSUME NEW c \in Calls, CallEstablished(c)
      PROVE  SingleLine' /\ ConnectIdle'
  <2>1. Live(c)
    BY <1>9 DEF CallEstablished, Live
  <2>2. pc' = "loop" /\ g_call' = c
        /\ state' = [state EXCEPT ![c] = "established"]
    BY <1>9, Zenon DEF CallEstablished, Event
  <2>3. QED
    BY <2>1, <2>2 DEF TypeOK, Live
<1>10. ASSUME NEW c \in Calls, SessionClosed(c) \/ AudioError(c)
       PROVE  SingleLine' /\ ConnectIdle'
  <2>1. Live(c)
    BY <1>10 DEF SessionClosed, AudioError, Live
  <2>2. \A d \in Calls : Live(d) => d = c
    BY <2>1
  <2>3. QED
    BY <1>1, <1>10, <2>2, Zenon DEF SessionClosed, AudioError
<1>11. ASSUME NEW c \in Calls, CallIncomingBusy(c) \/ CallUnacceptable(c)
       PROVE  SingleLine' /\ ConnectIdle'
  BY <1>1, <1>11, Zenon DEF CallIncomingBusy, CallUnacceptable
<1>12. CASE UNCHANGED core
  BY <1>12, Zenon DEF core, Live
<1>13. QED
  BY <1>2, <1>3, <1>4, <1>5, <1>6, <1>7, <1>8, <1>9, <1>10, <1>11, <1>12,
     StepCases, Zenon DEF LineSteps

(* While no second INVITE is sent, the line is single and free to dial.    *)
LEMMA LineInvariant ==
  ASSUME ~CallWaiting
  PROVE  Spec => [](SingleLine /\ ConnectIdle)
<1>1. Init => SingleLine /\ ConnectIdle
  BY DEF Init, SingleLine, ConnectIdle, Live
<1>2. TypeOK /\ SingleLine /\ ConnectIdle /\ [Next]_vars
        => SingleLine' /\ ConnectIdle'
  BY LineInductive
<1>3. QED
  BY <1>1, <1>2, TypeCorrect, PTL DEF Spec

(* When the PBX sends no second INVITE, every live call is the one g_call  *)
(* names, whatever else fails.                                             *)
THEOREM LineIsSingle ==
  ASSUME ~CallWaiting
  PROVE  Spec => []SingleLine
BY LineInvariant, PTL

-----------------------------------------------------------------------------
(* What the service believes.                                              *)

(* A request nobody makes is never served.                                 *)
LEMMA NeverReregisters ==
  ASSUME TypeOK, "reregister" \notin Requests
  PROVE  ~reregister_worker
BY DEF TypeOK, reregister_worker, Take

(* Nothing writes g_call while makecall_worker sleeps.                     *)
LEMMA ConnectIdleInductive ==
  ASSUME TypeOK, ConnectIdle, [Next]_vars
  PROVE  ConnectIdle'
<1> USE DEF ConnectIdle
<1>1. ASSUME NEW c, NEW cbs, CallClosed(c, cbs) PROVE g_call' = NoCall
  BY <1>1, Zenon DEF CallClosed
<1>2. CASE reregister_worker
  BY <1>2, Zenon DEF reregister_worker
<1>3. CASE makecall_worker
  BY <1>1, <1>3, Zenon DEF makecall_worker, lineVars
<1>4. CASE ua_connect
  BY <1>4 DEF ua_connect
<1>5. CASE answer_worker
  BY <1>5, Zenon DEF answer_worker
<1>6. CASE endcall_worker \/ timeout_hangup_worker
  BY <1>1, <1>6, Zenon DEF endcall_worker, timeout_hangup_worker, HangUpCurrent
<1>7. ASSUME NEW req, DanglingUse(req) PROVE ConnectIdle'
  BY <1>7, Zenon DEF DanglingUse, UseAfterFree, lineVars
<1>8. ASSUME Event PROVE pc' = "loop"
  BY <1>8 DEF Event
<1>9. ASSUME NEW c \in Calls,
             \/ CallIncoming(c) \/ CallEstablished(c) \/ CallIncomingBusy(c)
             \/ CallUnacceptable(c) \/ SessionClosed(c) \/ AudioError(c)
      PROVE  ConnectIdle'
  <2>1. pc' = "loop"
    BY <1>8, <1>9, Zenon
       DEF CallIncoming, CallEstablished, CallIncomingBusy, CallUnacceptable,
           SessionClosed, AudioError
  <2>2. QED
    BY <2>1
<1>10. CASE UNCHANGED core
  BY <1>10, Zenon DEF core
<1>11. QED
  BY <1>2, <1>3, <1>4, <1>5, <1>6, <1>7, <1>9, <1>10, StepCases, Zenon
     DEF LineSteps

Talking == g_call \in Calls /\ state[g_call] = "established"

(* Each close of a current call tells the service, each CALL_ESTABLISHED   *)
(* makes the established call current.                                     *)
LEMMA ActiveInductive ==
  ASSUME "reregister" \notin Requests, TypeOK, ActiveMeansTalking, ConnectIdle,
         [Next]_vars
  PROVE  ActiveMeansTalking'
<1> USE NoCallAssumption
<1>a. ActiveMeansTalking <=> (callActive <=> Talking)
  BY Zenon DEF ActiveMeansTalking, Talking
<1>b. ActiveMeansTalking' <=> (callActive' <=> Talking')
  BY Zenon DEF ActiveMeansTalking, Talking
<1>0. ASSUME g_call' = NoCall PROVE ~Talking'
  BY <1>0, Zenon DEF Talking
<1>1. ASSUME NEW c, NEW cbs \in Seq(Upcalls), CallClosed(c, cbs)
      PROVE  ActiveMeansTalking'
  <2>1. ~Talking'
    BY <1>0, <1>1, Zenon DEF CallClosed
  <2>2. CASE g_call = NoCall
    <3>1. ~callActive
      BY <1>a, <2>2, Zenon DEF Talking
    <3>2. ~callActive'
      BY <1>1, <2>2, <3>1, Zenon DEF CallClosed, OnCallOver
    <3>3. QED
      BY <1>b, <2>1, <3>2, Zenon
  <2>3. CASE g_call # NoCall
    <3>1. Append(cbs, "onCallEnded") # <<>>
      OBVIOUS
    <3>2. ~callActive'
      BY <1>1, <2>3, <3>1, Zenon DEF CallClosed, OnCallOver
    <3>3. QED
      BY <1>b, <2>1, <3>2, Zenon
  <2>4. QED
    BY <2>2, <2>3
<1>2. /\ <<>> \in Seq(Upcalls)
      /\ <<"onCallFailed">> \in Seq(Upcalls)
      /\ <<"onCallFailed">> # <<>>
  BY DEF Upcalls
<1>3. CASE makecall_worker
  <2>1. CASE UNCHANGED lineVars /\ NoUpcall
    BY <1>a, <1>b, <2>1, Zenon DEF lineVars, NoUpcall, Talking
  <2>2. QED
    BY <1>1, <1>2, <1>3, <2>1, Zenon DEF makecall_worker
<1>4. CASE ua_connect
  <2>1. g_call = NoCall /\ ~callActive
    BY <1>4, <1>a, Zenon DEF ua_connect, ConnectIdle, Talking
  <2>2. CASE ConnectFails
    BY <1>b, <1>0, <1>2, <2>1, <2>2, Zenon DEF ConnectFails, OnCallOver, lineVars
  <2>3. ASSUME NEW c \in Calls, ConnectFailsLate(c) \/ ConnectSucceeds(c)
        PROVE  ActiveMeansTalking'
    <3>1. ~callActive'
      BY <2>1, <2>3, <1>2, Zenon
         DEF ConnectFailsLate, ConnectSucceeds, OnCallOver, NoUpcall
    <3>2. g_call' = c /\ state'[c] # "established"
      BY <2>3 DEF ConnectFailsLate, ConnectSucceeds, TypeOK
    <3>3. QED
      BY <1>b, <3>1, <3>2, Zenon DEF Talking
  <2>4. QED
    BY <1>4, <2>2, <2>3, Zenon DEF ua_connect
<1>5. CASE answer_worker
  <2>1. g_call' = g_call /\ callActive' = callActive
    BY <1>5, Zenon DEF answer_worker, NoUpcall
  <2>2. CASE g_call \in Calls /\ state[g_call] = "incoming"
    <3>1. state'[g_call] # "established" /\ ~callActive
      BY <1>5, <1>a, <2>2 DEF answer_worker, TypeOK, Talking
    <3>2. QED
      BY <1>b, <2>1, <3>1, Zenon DEF Talking
  <2>3. CASE UNCHANGED state
    BY <1>a, <1>b, <2>1, <2>3, Zenon DEF Talking
  <2>4. QED
    BY <1>5, <2>2, <2>3, Zenon DEF answer_worker
<1>6. CASE endcall_worker \/ timeout_hangup_worker
  <2>1. HangUpCurrent
    BY <1>6, Zenon DEF endcall_worker, timeout_hangup_worker
  <2>2. CASE NoUpcall /\ UNCHANGED <<g_call, state, muted>>
    BY <1>a, <1>b, <2>2, Zenon DEF NoUpcall, Talking
  <2>3. QED
    BY <1>1, <1>2, <2>1, <2>2, Zenon DEF HangUpCurrent
<1>7. ASSUME NEW req, DanglingUse(req) PROVE ActiveMeansTalking'
  BY <1>7, <1>a, <1>b, Zenon
     DEF DanglingUse, UseAfterFree, lineVars, NoUpcall, Talking
<1>8. ASSUME NEW c \in Calls, CallIncoming(c) PROVE ActiveMeansTalking'
  <2>1. ~callActive'
    BY <1>8, <1>a, Zenon DEF CallIncoming, Notice, Talking
  <2>2. g_call' = c /\ state'[c] # "established"
    BY <1>8 DEF CallIncoming, TypeOK
  <2>3. QED
    BY <1>b, <2>1, <2>2, Zenon DEF Talking
<1>9. ASSUME NEW c \in Calls, CallEstablished(c) PROVE ActiveMeansTalking'
  <2>1. callActive'
    BY <1>9, Zenon DEF CallEstablished, OnCallStarted
  <2>2. g_call' = c /\ state'[c] = "established"
    BY <1>9 DEF CallEstablished, TypeOK
  <2>3. QED
    BY <1>b, <2>1, <2>2, Zenon DEF Talking
<1>10. ASSUME NEW c \in Calls,
              \/ CallIncomingBusy(c) \/ CallUnacceptable(c)
              \/ SessionClosed(c) \/ AudioError(c)
       PROVE  ActiveMeansTalking'
  BY <1>1, <1>2, <1>10, Zenon
     DEF CallIncomingBusy, CallUnacceptable, SessionClosed, AudioError
<1>11. CASE UNCHANGED core
  BY <1>11, <1>a, <1>b, Zenon DEF core, Talking
<1>12. QED
  BY <1>3, <1>4, <1>5, <1>6, <1>7, <1>8, <1>9, <1>10, <1>11, StepCases,
     NeverReregisters, Zenon DEF LineSteps

(* While the account is not registered anew, the service's callActive is   *)
(* set exactly during a conversation, in every other environment.          *)
LEMMA ActiveInvariant ==
  ASSUME "reregister" \notin Requests
  PROVE  Spec => [](ActiveMeansTalking /\ ConnectIdle)
<1>1. Init => ActiveMeansTalking /\ ConnectIdle
  BY NoCallAssumption DEF Init, ActiveMeansTalking, ConnectIdle
<1>2. TypeOK /\ ActiveMeansTalking /\ ConnectIdle /\ [Next]_vars
        => ActiveMeansTalking' /\ ConnectIdle'
  BY ActiveInductive, ConnectIdleInductive
<1>3. QED
  BY <1>1, <1>2, TypeCorrect, PTL DEF Spec

(* SipService.callActive tells the truth about the current call.           *)
THEOREM ActiveIsTalking ==
  ASSUME "reregister" \notin Requests
  PROVE  Spec => []ActiveMeansTalking
BY ActiveInvariant, PTL

-----------------------------------------------------------------------------
(* The bridge implements PhoneLine.                                        *)

SingleLineEnvironment ==
  ~CallWaiting /\ ~DialMayFailLate /\ "reregister" \notin Requests

LineInv ==
  TypeOK /\ SingleLine /\ ConnectIdle /\ NoUseAfterFree /\ PointerLive
    /\ ActiveMeansTalking

(* The invariant under which each step of the bridge is a step of a line.  *)
LEMMA LineInvHolds ==
  ASSUME SingleLineEnvironment
  PROVE  Spec => []LineInv
<1>1. /\ Spec => [](SingleLine /\ ConnectIdle)
      /\ Spec => [](NoUseAfterFree /\ PointerLive)
      /\ Spec => [](ActiveMeansTalking /\ ConnectIdle)
  BY LineInvariant, PointerInvariant, ActiveInvariant DEF SingleLineEnvironment
<1>2. QED
  BY <1>1, TypeCorrect, PTL DEF LineInv

(* The callbacks of the steps that leave the line alone are mere notices.  *)
LEMMA QuietSteps ==
  [Next]_vars => LineSteps \/ upcalls' \in Line!Notices \/ UNCHANGED vars
<1> SUFFICES ASSUME [Next]_vars
             PROVE  LineSteps \/ upcalls' \in Line!Notices \/ UNCHANGED vars
  OBVIOUS
<1>0. /\ <<>> \in Line!Notices
      /\ <<"onRegistered">> \in Line!Notices
      /\ <<"onRegistrationFailed">> \in Line!Notices
      /\ <<"onRegistrationFailed", "onRegistrationFailed">> \in Line!Notices
      /\ <<"onDebug">> \in Line!Notices
  BY Zenon DEF Line!Notices
<1>1. ASSUME NEW req \in Requests, Post(req) PROVE upcalls' \in Line!Notices
  BY <1>0, <1>1, Zenon DEF Post
<1>2. CASE register_worker
  BY <1>0, <1>2, Zenon
     DEF register_worker, NoUpcall, ua_create_and_register, Notice
<1>3. CASE unregister_worker \/ dtmf_worker
  BY <1>0, <1>3, Zenon DEF unregister_worker, dtmf_worker, NoUpcall
<1>4. ASSUME NEW req, mute_worker(req) PROVE upcalls' \in Line!Notices
  BY <1>0, <1>4, Zenon DEF mute_worker, NoUpcall
<1>5. CASE RegisterOk \/ RegisterFail
  BY <1>0, <1>5, Zenon DEF RegisterOk, RegisterFail, Notice
<1>6. ASSUME NEW c \in Calls, MediaArrives(c) PROVE upcalls' \in Line!Notices
  BY <1>0, <1>6, Zenon DEF MediaArrives, NoUpcall
<1>7. ASSUME Elsewhere PROVE upcalls' \in Line!Notices
  BY <1>0, <1>7, Zenon DEF Elsewhere
<1>8. CASE MediaLapses
  BY <1>7, <1>8, Zenon DEF MediaLapses
<1>9. ASSUME NEW c \in Calls, PeerDies(c) PROVE upcalls' \in Line!Notices
  BY <1>7, <1>9, Zenon DEF PeerDies
<1>10. CASE Watchdog
  BY <1>7, <1>10, Zenon
     DEF Watchdog, WatchdogReadsCall, WatchdogMeasures, WatchdogPosts,
         WatchdogRetries, WatchdogLeaves
<1>11. CASE Worker
  BY <1>2, <1>3, <1>4, <1>11, Zenon DEF Worker, LineSteps
<1>12. CASE EventHandler
  BY <1>5, <1>6, <1>12, Zenon DEF EventHandler, LineSteps
<1>13. QED
  BY <1>1, <1>8, <1>9, <1>10, <1>11, <1>12, Zenon DEF Next

(* A call that ends ends the line.                                         *)
LEMMA CloseRefines ==
  ASSUME LineInv, g_call \in Calls,
         NEW cbs \in {<<>>, <<"onCallFailed">>}, CallClosed(g_call, cbs)
  PROVE  Line!End
<1>1. LineState # "idle"
  BY NoCallAssumption DEF LineInv, TypeOK, LineState, CallStates
<1>2. LineState' = "idle"
  BY DEF CallClosed, LineState
<1>3. upcalls' = Append(cbs, "onCallEnded") /\ g_call # NoCall
  BY NoCallAssumption, Zenon DEF CallClosed, OnCallOver
<1>4. upcalls' \in {<<"onCallEnded">>, <<"onCallFailed", "onCallEnded">>}
  <2>1. Append(<<>>, "onCallEnded") = <<"onCallEnded">>
    OBVIOUS
  <2>2. Append(<<"onCallFailed">>, "onCallEnded")
          = <<"onCallFailed", "onCallEnded">>
    <3> DEFINE l == Append(<<"onCallFailed">>, "onCallEnded")
               r == <<"onCallFailed", "onCallEnded">>
    <3>1. l \in Seq(Upcalls) /\ r \in Seq(Upcalls) /\ Len(l) = Len(r)
      BY DEF Upcalls
    <3>2. \A i \in 1..Len(l) : l[i] = r[i]
      OBVIOUS
    <3>3. QED
      BY <3>1, <3>2, SeqEqual
  <2>3. QED
    BY <1>3, <2>1, <2>2, Zenon
<1>5. Append(cbs, "onCallEnded") # <<>>
  <2>1. /\ Append(<<>>, "onCallEnded") # <<>>
        /\ Append(<<"onCallFailed">>, "onCallEnded") # <<>>
    OBVIOUS
  <2>2. QED
    BY <2>1, Zenon
<1>6. callActive' = FALSE
  BY <1>3, <1>5, Zenon DEF CallClosed, OnCallOver
<1>7. QED
  BY <1>1, <1>2, <1>4, <1>6, Zenon DEF Line!End

(* Each step of the bridge is a step of the line, or leaves it as it is.   *)
LEMMA StepRefines ==
  ASSUME SingleLineEnvironment, LineInv, [Next]_vars
  PROVE  [Line!Next]_<<LineState, upcalls, callActive>>
<1> DEFINE Refined == [Line!Next]_<<LineState, upcalls, callActive>>
<1>0. SUFFICES Refined
  OBVIOUS
<1> USE NoCallAssumption
<1>a. /\ Line!Dial => Refined
      /\ Line!DialFails => Refined
      /\ Line!Ring => Refined
      /\ Line!Answer => Refined
      /\ Line!Talk => Refined
      /\ Line!End => Refined
      /\ Line!Quiet => Refined
  BY Zenon DEF Line!Next
<1>b. /\ TypeOK /\ SingleLine /\ ConnectIdle /\ PointerLive
      /\ ActiveMeansTalking /\ NoUseAfterFree
  BY Zenon DEF LineInv
<1>c. ASSUME upcalls' \in Line!Notices, LineState' = LineState,
             callActive' = callActive
      PROVE  Refined
  BY <1>a, <1>c, Zenon DEF Line!Quiet
<1>d. ASSUME NoUpcall, LineState' = LineState PROVE Refined
  BY <1>c, <1>d, Zenon DEF NoUpcall, Line!Notices
<1>e. ASSUME UNCHANGED <<g_call, state>> PROVE LineState' = LineState
  BY <1>e, Zenon DEF LineState
<1>1. CASE makecall_worker
  <2>1. CASE UNCHANGED lineVars /\ NoUpcall
    BY <1>d, <1>e, <2>1, Zenon DEF lineVars
  <2>2. CASE g_call # NoCall /\ CallClosed(g_call, <<>>)
    <3>1. g_call \in Calls
      BY <1>b, <2>2 DEF TypeOK
    <3>2. QED
      BY <1>a, <2>2, <3>1, CloseRefines, Zenon
  <2>3. QED
    BY <1>1, <2>1, <2>2, Zenon DEF makecall_worker
<1>2. CASE ua_connect
  <2>1. g_call = NoCall /\ LineState = "idle"
    BY <1>2, <1>b, Zenon DEF ua_connect, ConnectIdle, LineState
  <2>2. callActive = FALSE
    BY <1>b, <2>1, Zenon DEF ActiveMeansTalking, TypeOK
  <2>3. CASE ConnectFails
    <3>1. LineState' = LineState
      BY <1>e, <2>3, Zenon DEF ConnectFails, lineVars
    <3>2. <<"onCallFailed">> # <<>>
      OBVIOUS
    <3>3. upcalls' = <<"onCallFailed">> /\ callActive' = FALSE
      BY <2>3, <3>2, Zenon DEF ConnectFails, OnCallOver
    <3>4. QED
      BY <1>a, <2>1, <2>2, <3>1, <3>3, Zenon DEF Line!DialFails
  <2>4. ASSUME NEW c \in Calls, ConnectSucceeds(c) PROVE Refined
    <3>1. g_call' = c /\ state'[c] = "outgoing"
      BY <1>b, <2>4 DEF ConnectSucceeds, TypeOK
    <3>2. LineState' = "outgoing"
      BY <3>1 DEF LineState
    <3>3. upcalls' = <<>> /\ callActive' = callActive
      BY <2>4, Zenon DEF ConnectSucceeds, NoUpcall
    <3>4. QED
      BY <1>a, <2>1, <3>2, <3>3, Zenon DEF Line!Dial
  <2>5. QED
    BY <1>2, <2>3, <2>4, Zenon
       DEF ua_connect, ConnectFailsLate, SingleLineEnvironment
<1>3. CASE answer_worker
  <2>1. g_call' = g_call /\ NoUpcall
    BY <1>3, Zenon DEF answer_worker
  <2>2. CASE /\ g_call \in Calls
             /\ state[g_call] = "incoming"
             /\ state' = [state EXCEPT ![g_call] = "answered"]
    <3>1. LineState = "incoming" /\ LineState' = "answered"
      BY <1>b, <2>1, <2>2 DEF LineState, TypeOK
    <3>2. QED
      BY <1>a, <2>1, <3>1, Zenon DEF Line!Answer, NoUpcall
  <2>3. CASE UNCHANGED state
    BY <1>d, <1>e, <2>1, <2>3, Zenon
  <2>4. QED
    BY <1>3, <2>2, <2>3, Zenon DEF answer_worker
<1>4. CASE endcall_worker \/ timeout_hangup_worker
  <2>1. HangUpCurrent
    BY <1>4, Zenon DEF endcall_worker, timeout_hangup_worker
  <2>2. CASE NoUpcall /\ UNCHANGED <<g_call, state, muted>>
    BY <1>d, <1>e, <2>2, Zenon
  <2>3. CASE g_call # NoCall /\ CallClosed(g_call, <<>>)
    <3>1. g_call \in Calls
      BY <1>b, <2>3 DEF TypeOK
    <3>2. QED
      BY <1>a, <2>3, <3>1, CloseRefines, Zenon
  <2>4. QED
    BY <2>1, <2>2, <2>3, Zenon DEF HangUpCurrent
<1>5. ASSUME NEW req, DanglingUse(req) PROVE FALSE
  BY <1>5, <1>b, Zenon DEF DanglingUse, UseAfterFree, Dangling, PointerLive
<1>6. ASSUME NEW c \in Calls, CallIncoming(c) PROVE Refined
  <2>1. g_call' = c /\ state'[c] = "incoming"
    BY <1>b, <1>6 DEF CallIncoming, TypeOK
  <2>2. LineState = "idle" /\ LineState' = "incoming"
    BY <1>6, <2>1 DEF CallIncoming, LineState
  <2>3. QED
    BY <1>a, <1>6, <2>2, Zenon DEF CallIncoming, Notice, Line!Ring
<1>7. ASSUME NEW c \in Calls, CallIncomingBusy(c) \/ CallUnacceptable(c)
      PROVE  Refined
  <2>1. \A d \in Calls : ~Live(d)
    BY <1>7, Zenon DEF CallIncomingBusy, CallUnacceptable, SingleLineEnvironment
  <2>2. g_call = NoCall
    BY <1>b, <2>1, Zenon DEF TypeOK, PointerLive
  <2>3. CallClosed(c, <<>>)
    BY <1>7, Zenon DEF CallIncomingBusy, CallUnacceptable
  <2>4. LineState' = LineState
    BY <2>2, <2>3, Zenon DEF CallClosed, LineState
  <2>5. NoUpcall
    BY <2>2, <2>3, Zenon DEF CallClosed, OnCallOver, NoUpcall
  <2>6. QED
    BY <1>d, <2>4, <2>5, Zenon
<1>8. ASSUME NEW c \in Calls, Live(c) PROVE c = g_call
  BY <1>b, <1>8, Zenon DEF SingleLine
<1>9. ASSUME NEW c \in Calls, CallEstablished(c) PROVE Refined
  <2>1. c = g_call
    BY <1>8, <1>9 DEF CallEstablished, Live
  <2>2. g_call' = c /\ state'[c] = "established"
    BY <1>b, <1>9 DEF CallEstablished, TypeOK
  <2>3. LineState \in {"answered", "outgoing"} /\ LineState' = "established"
    BY <1>9, <2>1, <2>2 DEF CallEstablished, LineState
  <2>4. QED
    BY <1>a, <1>9, <2>3, Zenon DEF CallEstablished, OnCallStarted, Line!Talk
<1>10. ASSUME NEW c \in Calls, SessionClosed(c) \/ AudioError(c) PROVE Refined
  <2>1. c = g_call
    BY <1>8, <1>10 DEF SessionClosed, AudioError, Live
  <2>2. CallClosed(c, <<>>) \/ CallClosed(c, <<"onCallFailed">>)
    BY <1>10, Zenon DEF SessionClosed, AudioError
  <2>3. QED
    BY <1>a, <2>1, <2>2, CloseRefines, Zenon
<1>11. CASE upcalls' \in Line!Notices /\ UNCHANGED core
  BY <1>11, <1>c, <1>e, Zenon DEF core
<1>12. CASE UNCHANGED vars
  BY <1>12, Zenon DEF vars, lineVars, javaVars, LineState
<1>13. QED
  BY <1>1, <1>2, <1>3, <1>4, <1>5, <1>6, <1>7, <1>9, <1>10, <1>11, <1>12, <1>b,
     StepCases, QuietSteps, NeverReregisters, Zenon
     DEF LineSteps, SingleLineEnvironment

(* Without second INVITEs, late dial failures and new registrations, what  *)
(* the bridge does is what one telephone line does.                        *)
THEOREM BridgeImplementsPhoneLine ==
  ASSUME SingleLineEnvironment
  PROVE  Spec => ImplementsPhoneLine
<1>1. Init => Line!Init
  BY Zenon DEF Init, Line!Init, LineState
<1>2. LineInv /\ [Next]_vars => [Line!Next]_<<LineState, upcalls, callActive>>
  BY StepRefines
<1>3. Spec => []LineInv
  BY LineInvHolds
<1>4. QED
  BY <1>1, <1>2, <1>3, PTL DEF Spec, ImplementsPhoneLine, Line!Spec, Line!vars
=============================================================================
