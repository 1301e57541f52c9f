----------------------------- MODULE CallUiProofs -----------------------------
(***************************************************************************)
(* What holds of CallUi whatever the bounds: the audio, the end key and    *)
(* the screen, argued from what is still on its way between the threads.   *)
(***************************************************************************)
EXTENDS CallUi, SequenceTheorems, TLAPS

(* Some element of s is in Q.                                              *)
Has(s, Q) == \E i \in 1..Len(s) : s[i] \in Q

(* Whatever in s is in P is followed by something in Q.                    *)
Follows(s, P, Q) ==
  \A i \in 1..Len(s) : s[i] \in P => \E j \in 1..Len(s) : j > i /\ s[j] \in Q

LastIs(s, x) == s # <<>> /\ s[Len(s)] = x

Hangs == {"endcall"}
Dials == {"makecall", "dialself"}
Over == {"onCallEnded", "onCallFailed", "refusal"}
Up == {"onIncomingCall", "onCallStarted"}

-----------------------------------------------------------------------------
(* What lies behind the properties.                                        *)

(* A conversation the service knows of is on.                              *)
ActiveTalks == callActive => line = "established"

(* The executor has posted the hang-up whose audio it has yet to switch:   *)
(* it is the last request, or has been served.                             *)
HangUpPosted ==
  half = "endcall" =>
    \/ LastIs(queue, "endcall")
    \/ queue = <<>> /\ ~connecting /\ line \in {"idle", "incoming"}

(* A conversation loses the audio only when it is about to be hung up.     *)
AudioUntilHangUp == line = "established" => audio \/ Has(queue, Hangs)

(* The conversation is on, and nothing has told the service otherwise.     *)
Talking == line = "established" /\ ~refused

(* callActive is off, or about to be contradicted by the notice of a       *)
(* refusal, only in a conversation that is known as refused.               *)
RefusalSeen == Talking => callActive /\ half \notin Refusing

(* While a conversation is on, no notice of an end is the last word.       *)
StartIsLast == Talking => Follows(main, Over, {"onCallStarted"})

(* An idle screen hides a conversation only when a hang-up or the notice   *)
(* of the conversation is on its way.                                      *)
HangUpUnderWay ==
  Talking /\ activity = "bound" /\ callState = "Idle" =>
    \/ Has(exec, Hangs)
    \/ Has(queue, Hangs)
    \/ Has(main, {"onCallStarted"})

(* While the line is idle, no notice of a call is the last word.           *)
EndIsLast == line = "idle" => Follows(main, Up, Over)

(* A screen shows a call on an idle line only when a dial, its refusal or  *)
(* the notice of the end is on its way.                                    *)
CallUnderWay ==
  line = "idle" /\ activity = "bound" /\ callState # "Idle" =>
    \/ Has(exec, Dials)
    \/ Has(queue, Dials)
    \/ half \in Refusing
    \/ connecting
    \/ Has(main, Over)

-----------------------------------------------------------------------------
(* Sequences.                                                              *)

LEMMA AppendHas ==
  ASSUME NEW S, NEW s \in Seq(S), NEW x \in S, NEW Q
  PROVE  Has(Append(s, x), Q) <=> Has(s, Q) \/ x \in Q
<1>1. /\ Len(Append(s, x)) = Len(s) + 1 /\ Len(s) \in Nat
      /\ Append(s, x)[Len(s) + 1] = x
      /\ \A i \in 1..Len(s) : Append(s, x)[i] = s[i]
  OBVIOUS
<1>2. ASSUME Has(Append(s, x), Q) PROVE Has(s, Q) \/ x \in Q
  <2>1. PICK i \in 1..Len(s) + 1 : Append(s, x)[i] \in Q
    BY <1>1, <1>2 DEF Has
  <2>2. QED
    BY <1>1, <2>1 DEF Has
<1>3. ASSUME Has(s, Q) PROVE Has(Append(s, x), Q)
  <2>1. PICK i \in 1..Len(s) : s[i] \in Q
    BY <1>3 DEF Has
  <2>2. i \in 1..Len(Append(s, x)) /\ Append(s, x)[i] \in Q
    BY <1>1, <2>1
  <2>3. QED
    BY <2>2 DEF Has
<1>4. ASSUME x \in Q PROVE Has(Append(s, x), Q)
  BY <1>1, <1>4 DEF Has
<1>5. QED
  BY <1>2, <1>3, <1>4

LEMMA TailHas ==
  ASSUME NEW S, NEW s \in Seq(S), s # <<>>, NEW Q
  PROVE  Has(s, Q) <=> Head(s) \in Q \/ Has(Tail(s), Q)
<1>1. /\ Len(s) \in Nat /\ Len(s) > 0 /\ Len(Tail(s)) = Len(s) - 1
      /\ \A i \in 1..Len(Tail(s)) : Tail(s)[i] = s[i + 1]
      /\ Head(s) = s[1]
  OBVIOUS
<1>2. ASSUME Has(s, Q), Head(s) \notin Q PROVE Has(Tail(s), Q)
  <2>1. PICK i \in 1..Len(s) : s[i] \in Q
    BY <1>2 DEF Has
  <2>2. i # 1
    BY <1>1, <1>2, <2>1
  <2>3. i - 1 \in 1..Len(Tail(s)) /\ Tail(s)[i - 1] = s[i]
    BY <1>1, <2>1, <2>2
  <2>4. QED
    BY <2>1, <2>3 DEF Has
<1>3. ASSUME Has(Tail(s), Q) PROVE Has(s, Q)
  <2>1. PICK i \in 1..Len(Tail(s)) : Tail(s)[i] \in Q
    BY <1>3 DEF Has
  <2>2. i + 1 \in 1..Len(s) /\ s[i + 1] \in Q
    BY <1>1, <2>1
  <2>3. QED
    BY <2>2 DEF Has
<1>4. ASSUME Head(s) \in Q PROVE Has(s, Q)
  BY <1>1, <1>4 DEF Has
<1>5. QED
  BY <1>2, <1>3, <1>4

LEMMA AppendFollows ==
  ASSUME NEW S, NEW s \in Seq(S), NEW x \in S, NEW P, NEW Q,
         x \notin P,
         Follows(s, P, Q) \/ x \in Q
  PROVE  Follows(Append(s, x), P, Q)
<1>1. /\ Len(Append(s, x)) = Len(s) + 1 /\ Len(s) \in Nat
      /\ Append(s, x)[Len(s) + 1] = x
      /\ \A i \in 1..Len(s) : Append(s, x)[i] = s[i]
  OBVIOUS
<1>2. SUFFICES ASSUME NEW i \in 1..Len(s) + 1, Append(s, x)[i] \in P
               PROVE  \E j \in 1..Len(s) + 1 : j > i /\ Append(s, x)[j] \in Q
  BY <1>1 DEF Follows
<1>3. i \in 1..Len(s) /\ s[i] \in P
  BY <1>1, <1>2
<1>4. CASE x \in Q
  <2>1. /\ Len(s) + 1 \in 1..Len(s) + 1 /\ Len(s) + 1 > i
        /\ Append(s, x)[Len(s) + 1] \in Q
    BY <1>1, <1>3, <1>4
  <2>2. QED
    BY <2>1
<1>5. CASE Follows(s, P, Q)
  <2>1. PICK j \in 1..Len(s) : j > i /\ s[j] \in Q
    BY <1>3, <1>5 DEF Follows
  <2>2. j \in 1..Len(s) + 1 /\ Append(s, x)[j] \in Q
    BY <1>1, <2>1
  <2>3. QED
    BY <2>1, <2>2
<1>6. QED
  BY <1>4, <1>5

LEMMA TailFollows ==
  ASSUME NEW S, NEW s \in Seq(S), s # <<>>, NEW P, NEW Q,
         Follows(s, P, Q)
  PROVE  /\ Follows(Tail(s), P, Q)
         /\ Head(s) \in P => Has(Tail(s), Q)
<1>1. /\ Len(s) \in Nat /\ Len(s) > 0 /\ Len(Tail(s)) = Len(s) - 1
      /\ \A i \in 1..Len(Tail(s)) : Tail(s)[i] = s[i + 1]
      /\ Head(s) = s[1]
  OBVIOUS
<1>2. ASSUME NEW i \in 1..Len(s), s[i] \in P
      PROVE  \E j \in 1..Len(Tail(s)) : j > i - 1 /\ Tail(s)[j] \in Q
  <2>1. PICK j \in 1..Len(s) : j > i /\ s[j] \in Q
    BY <1>2 DEF Follows
  <2>2. j - 1 \in 1..Len(Tail(s)) /\ Tail(s)[j - 1] = s[j] /\ j - 1 > i - 1
    BY <1>1, <2>1
  <2>3. QED
    BY <2>1, <2>2
<1>3. Follows(Tail(s), P, Q)
  <2>1. SUFFICES ASSUME NEW i \in 1..Len(Tail(s)), Tail(s)[i] \in P
                 PROVE  \E j \in 1..Len(Tail(s)) : j > i /\ Tail(s)[j] \in Q
    BY DEF Follows
  <2>2. i + 1 \in 1..Len(s) /\ s[i + 1] \in P /\ (i + 1) - 1 = i
    BY <1>1, <2>1
  <2>3. QED
    BY <1>2, <2>2
<1>4. ASSUME Head(s) \in P PROVE Has(Tail(s), Q)
  <2>1. 1 \in 1..Len(s) /\ s[1] \in P
    BY <1>1, <1>4
  <2>2. QED
    BY <1>2, <2>1 DEF Has
<1>5. QED
  BY <1>3, <1>4

LEMMA TailLast ==
  ASSUME NEW S, NEW s \in Seq(S), NEW x, LastIs(s, x)
  PROVE  \/ LastIs(Tail(s), x)
         \/ Tail(s) = <<>> /\ Head(s) = x
<1>1. /\ Len(s) \in Nat /\ Len(s) > 0 /\ Len(Tail(s)) = Len(s) - 1
      /\ \A i \in 1..Len(Tail(s)) : Tail(s)[i] = s[i + 1]
      /\ Head(s) = s[1] /\ Tail(s) \in Seq(S) /\ s[Len(s)] = x
  BY DEF LastIs
<1>2. CASE Len(s) = 1
  <2>1. Tail(s) = <<>>
    <3>1. Len(Tail(s)) = 0 /\ Tail(s) \in Seq(S)
      BY <1>1, <1>2
    <3>2. QED
      BY <3>1, EmptySeq
  <2>2. Head(s) = x
    BY <1>1, <1>2
  <2>3. QED
    BY <2>1, <2>2
<1>3. CASE Len(s) > 1
  <2>1. Len(s) - 1 \in 1..Len(Tail(s)) /\ (Len(s) - 1) + 1 = Len(s)
    BY <1>1, <1>3
  <2>2. Tail(s)[Len(Tail(s))] = x
    BY <1>1, <2>1
  <2>3. Tail(s) # <<>>
    BY <1>1, <1>3
  <2>4. QED
    BY <2>2, <2>3 DEF LastIs
<1>4. QED
  BY <1>1, <1>2, <1>3

-----------------------------------------------------------------------------
(* Types.                                                                  *)

(* The switches, and all the rest.                                         *)
SwitchesOK ==
  /\ callActive \in BOOLEAN /\ refused \in BOOLEAN
  /\ connecting \in BOOLEAN /\ audio \in BOOLEAN
  /\ ringing \in BOOLEAN /\ timer \in BOOLEAN /\ notified \in BOOLEAN
  /\ sounding \in BOOLEAN

QueuesOK ==
  /\ queue \in Seq(Requests) /\ exec \in Seq(Operations)
  /\ main \in Seq(Messages) /\ intents \in Seq({"incoming", "show"})
  /\ told \in Seq(CallNotices)

StatesOK ==
  /\ line \in {"idle", "incoming", "answered", "outgoing", "established"}
  /\ half \in {"none", "answer", "endcall"} \cup Refusing
  /\ activity \in {"none", "unbound", "bound"}
  /\ callState \in CallState

LEMMA TypeParts == TypeOK <=> SwitchesOK /\ QueuesOK /\ StatesOK
BY Zenon DEF TypeOK, ServiceTypeOK, SwitchesOK, QueuesOK, StatesOK

LEMMA SwitchesTyped == SwitchesOK /\ [Next]_vars => SwitchesOK'
<1> SUFFICES ASSUME SwitchesOK, [Next]_vars PROVE SwitchesOK'
  OBVIOUS
<1>0. /\ TRUE \in BOOLEAN /\ FALSE \in BOOLEAN
      /\ (half \in Refusing) \in BOOLEAN /\ (line = "established") \in BOOLEAN
  OBVIOUS
<1> USE <1>0 DEF SwitchesOK
<1>1. CASE LineServes
  <2> USE DEF Take, ReMain, HungUp, NothingHeard, OnCallOver, NoCallback,
              execVars, ringVars
  <2>1. CASE LineTakesMakecall
    BY <2>1, Zenon DEF LineTakesMakecall, Line!End
  <2>2. CASE LineConnects
    BY <2>2, Zenon DEF LineConnects, Line!Dial, Line!DialFails
  <2>3. CASE LineTakesAnswer
    BY <2>3, Zenon DEF LineTakesAnswer, Line!Answer
  <2>4. CASE LineTakesEndcall
    BY <2>4, Zenon DEF LineTakesEndcall, Line!End
  <2>5. QED
    BY <1>1, <2>1, <2>2, <2>3, <2>4, Zenon DEF LineServes
<1>2. CASE LineRings \/ LineTalks \/ LineEnds
  BY <1>2, Zenon DEF LineRings, LineTalks, LineEnds, ReMain, OnIncomingCall,
     OnCallStarted, OnCallOver, Line!Ring, Line!Talk, Line!End, execVars
<1>3. CASE Executor
  <2> USE DEF ExecTakes, Elsewhere, NoCallback, ringVars
  <2>1. CASE ExecDials \/ ExecPostsAnswer \/ ExecPostsEndcall
    BY <2>1, Zenon DEF ExecDials, ExecPostsAnswer, ExecPostsEndcall
  <2>2. CASE ExecRefusesSelf
    BY <2>2, Zenon DEF ExecRefusesSelf
  <2>3. CASE ExecCancelsNotification \/ ExecSilences \/ ExecPostsRefusal
    BY <2>3, Zenon DEF ExecCancelsNotification, ExecSilences,
                       ExecPostsRefusal, Refuses
  <2>4. CASE ExecAnswers \/ ExecEndsAudio
    BY <2>4, Zenon DEF ExecAnswers, ExecEndsAudio
  <2>5. QED
    BY <1>3, <2>1, <2>2, <2>3, <2>4, Zenon DEF Executor
<1>4. CASE StopsRinging \/ RingTimeout \/ ScreenOff \/ NotificationPressed
  BY <1>4, Zenon DEF StopsRinging, RingTimeout, ScreenOff, NotificationPressed,
     MainTakes, OnMain, Elsewhere, ringVars
<1>5. ASSUME NEW cb \in Notices, Notice(cb) PROVE SwitchesOK'
  <2>1. (cb = "onIncomingCall" \/ (sounding /\ cb = "refusal")) \in BOOLEAN
    OBVIOUS
  <2>2. QED
    BY <1>5, <2>1, Zenon DEF Notice, Delivers, MainTakes, OnMain, Elsewhere,
                             ringVars
<1>6. CASE KeyDials \/ KeyAnswers \/ KeyEnds
  BY <1>6, Zenon DEF KeyDials, KeyAnswers, KeyEnds, Key, OnMain, Elsewhere,
                     ringVars
<1>7. CASE UserOpens \/ ServiceConnected \/ IntentArrives \/ Resumed \/ Destroyed
  BY <1>7, Zenon DEF UserOpens, ServiceConnected, IntentArrives, Resumed,
     Destroyed, OutsideService, OnMain, Elsewhere, ringVars
<1>8. CASE UNCHANGED vars
  BY <1>8, Zenon DEF vars, serviceVars, lineVars, ringVars
<1>9. QED
  BY <1>1, <1>2, <1>3, <1>4, <1>5, <1>6, <1>7, <1>8, Zenon DEF Next, Background

LEMMA StatesTyped == StatesOK /\ [Next]_vars => StatesOK'
<1> SUFFICES ASSUME StatesOK, [Next]_vars PROVE StatesOK'
  OBVIOUS
<1> USE DEF StatesOK, CallState, Refusing
<1>1. CASE LineServes /\ UNCHANGED uiVars
  <2> USE DEF Take, ReMain, HungUp, NothingHeard, execVars, uiVars
  <2>1. CASE LineTakesMakecall
    BY <1>1, <2>1 DEF LineTakesMakecall, Line!End
  <2>2. CASE LineConnects
    BY <1>1, <2>2 DEF LineConnects, Line!Dial, Line!DialFails
  <2>3. CASE LineTakesAnswer
    BY <1>1, <2>3 DEF LineTakesAnswer, Line!Answer
  <2>4. CASE LineTakesEndcall
    BY <1>1, <2>4 DEF LineTakesEndcall, Line!End
  <2>5. QED
    BY <1>1, <2>1, <2>2, <2>3, <2>4, Zenon DEF LineServes
<1>2. CASE (LineRings \/ LineTalks \/ LineEnds) /\ UNCHANGED uiVars
  BY <1>2 DEF LineRings, LineTalks, LineEnds, ReMain, Line!Ring, Line!Talk,
              Line!End, execVars, uiVars
<1>3. CASE Executor /\ UNCHANGED uiVars
  BY <1>3 DEF Executor, ExecDials, ExecRefusesSelf, Refuses,
     ExecCancelsNotification, ExecSilences, ExecPostsRefusal, ExecAnswers,
     ExecPostsAnswer, ExecPostsEndcall, ExecEndsAudio, ExecTakes, Elsewhere,
     uiVars
<1>4. CASE (StopsRinging \/ RingTimeout \/ ScreenOff \/ NotificationPressed)
           /\ UNCHANGED uiVars
  BY <1>4, Zenon DEF StopsRinging, RingTimeout, ScreenOff, NotificationPressed,
     MainTakes, OnMain, Elsewhere, uiVars
<1>5. ASSUME NEW cb \in Notices, Notice(cb) PROVE StatesOK'
  BY <1>5 DEF Notice, Delivers, Shows, MainTakes, OnMain, Elsewhere
<1>6. CASE KeyDials \/ KeyAnswers \/ KeyEnds
  BY <1>6 DEF KeyDials, KeyAnswers, KeyEnds, Key, OnMain, Elsewhere
<1>7. CASE UserOpens \/ ServiceConnected \/ IntentArrives \/ Resumed \/ Destroyed
  BY <1>7 DEF UserOpens, ServiceConnected, IntentArrives, Resumed, Destroyed,
     Created, syncCallState, OutsideService, OnMain, Elsewhere
<1>8. CASE UNCHANGED vars
  BY <1>8, Zenon DEF vars, uiVars, serviceVars, lineVars, execVars
<1>9. QED
  BY <1>1, <1>2, <1>3, <1>4, <1>5, <1>6, <1>7, <1>8, Zenon DEF Next, Background

(* The ends of a call that the line tells the service in one step.         *)
Ends ==
  {<<"onCallEnded">>, <<"onCallFailed">>, <<"onCallFailed", "onCallEnded">>}

(* Somebody puts x at the end of s, or somebody takes its head.            *)
Moves(s, t, S) ==
  \/ t = s
  \/ s # <<>> /\ t = Tail(s)
  \/ \E x \in S : t = Append(s, x)

(* A queue is served from its head and filled at its end; the line may     *)
(* leave two notices at once.                                              *)
QueueMoves ==
  /\ Moves(queue, queue', Requests)
  /\ Moves(exec, exec', Operations)
  /\ Moves(intents, intents', {"incoming", "show"})
  /\ Moves(main, main', Messages) \/ (told' \in Ends /\ main' = main \o told')
  /\ \/ told' \in Ends \cup {<<>>, <<"onIncomingCall">>, <<"onCallStarted">>}
     \/ told' = told

LEMMA NextMovesQueues == [Next]_vars => QueueMoves
<1> SUFFICES ASSUME [Next]_vars PROVE QueueMoves
  OBVIOUS
<1>0. /\ \A x \in Notices \cup {"stopRinging"} : x \in Messages
      /\ {"onIncomingCall", "onCallStarted", "onCallFailed", "stopRinging",
          "refusal"} \subseteq Messages
      /\ {"makecall", "answer", "endcall"} \subseteq Requests
      /\ {"makecall", "answer", "endcall", "dialself"} \subseteq Operations
  BY DEF Messages, Notices, CallNotices, Requests, Operations
<1> USE <1>0 DEF QueueMoves, Moves, Ends
<1>1. CASE LineServes
  <2> USE DEF Take, ReMain, HungUp, NothingHeard, OnCallOver, NoCallback,
              execVars
  <2>1. CASE LineTakesMakecall
    BY <2>1 DEF LineTakesMakecall, Line!End
  <2>2. CASE LineConnects
    BY <2>2 DEF LineConnects, Line!Dial, Line!DialFails
  <2>3. CASE LineTakesAnswer
    BY <2>3 DEF LineTakesAnswer, Line!Answer
  <2>4. CASE LineTakesEndcall
    BY <2>4 DEF LineTakesEndcall, Line!End
  <2>5. QED
    BY <1>1, <2>1, <2>2, <2>3, <2>4, Zenon DEF LineServes
<1>2. CASE LineRings \/ LineTalks \/ LineEnds
  BY <1>2 DEF LineRings, LineTalks, LineEnds, ReMain, OnIncomingCall,
     OnCallStarted, OnCallOver, Line!Ring, Line!Talk, Line!End, execVars
<1>3. CASE Executor
  <2> USE DEF ExecTakes, Elsewhere, NoCallback
  <2>1. CASE ExecDials
    BY <2>1 DEF ExecDials
  <2>2. CASE ExecRefusesSelf
    BY <2>2 DEF ExecRefusesSelf
  <2>3. CASE ExecCancelsNotification
    BY <2>3 DEF ExecCancelsNotification, Refuses
  <2>4. CASE ExecSilences
    BY <2>4 DEF ExecSilences, Refuses
  <2>5. CASE ExecPostsRefusal
    BY <2>5 DEF ExecPostsRefusal, Refuses
  <2>6. CASE ExecAnswers
    BY <2>6 DEF ExecAnswers
  <2>7. CASE ExecPostsAnswer
    BY <2>7 DEF ExecPostsAnswer
  <2>8. CASE ExecPostsEndcall
    BY <2>8 DEF ExecPostsEndcall
  <2>9. CASE ExecEndsAudio
    BY <2>9 DEF ExecEndsAudio
  <2>10. QED
    BY <1>3, <2>1, <2>2, <2>3, <2>4, <2>5, <2>6, <2>7, <2>8, <2>9, Zenon
       DEF Executor
<1>4. CASE StopsRinging \/ RingTimeout \/ ScreenOff \/ NotificationPressed
  BY <1>4 DEF StopsRinging, RingTimeout, ScreenOff, NotificationPressed,
     MainTakes, OnMain, Elsewhere, answerCall, endCall
<1>5. ASSUME NEW cb \in Notices, Notice(cb) PROVE QueueMoves
  BY <1>5 DEF Notice, Delivers, MainTakes, OnMain, Elsewhere
<1>6. CASE KeyDials \/ KeyAnswers \/ KeyEnds
  BY <1>6 DEF KeyDials, KeyAnswers, KeyEnds, Key, Asks, makeCall, answerCall,
     endCall, OnMain, Elsewhere
<1>7. CASE UserOpens \/ ServiceConnected \/ IntentArrives \/ Resumed \/ Destroyed
  BY <1>7 DEF UserOpens, ServiceConnected, IntentArrives, Resumed, Destroyed,
     OutsideService, OnMain, Elsewhere
<1>8. CASE UNCHANGED vars
  BY <1>8, Zenon DEF vars, serviceVars, lineVars, execVars
<1>9. QED
  BY <1>1, <1>2, <1>3, <1>4, <1>5, <1>6, <1>7, <1>8, Zenon DEF Next, Background

LEMMA MovesTyped ==
  ASSUME NEW S, NEW s \in Seq(S), NEW t, Moves(s, t, S)
  PROVE  t \in Seq(S)
BY DEF Moves

LEMMA QueuesTyped == QueuesOK /\ [Next]_vars => QueuesOK'
<1> SUFFICES ASSUME QueuesOK, [Next]_vars PROVE QueuesOK'
  OBVIOUS
<1>1. QueueMoves
  BY NextMovesQueues
<1>2. /\ queue' \in Seq(Requests) /\ exec' \in Seq(Operations)
      /\ intents' \in Seq({"incoming", "show"})
  BY <1>1, MovesTyped DEF QueueMoves, QueuesOK
<1>3. \A t \in Ends : t \in Seq(Messages) /\ t \in Seq(CallNotices)
  <2>1. /\ <<"onCallEnded">> \in Seq(CallNotices)
        /\ <<"onCallFailed">> \in Seq(CallNotices)
        /\ <<"onCallFailed", "onCallEnded">> \in Seq(CallNotices)
    BY DEF CallNotices
  <2>2. /\ <<"onCallEnded">> \in Seq(Messages)
        /\ <<"onCallFailed">> \in Seq(Messages)
        /\ <<"onCallFailed", "onCallEnded">> \in Seq(Messages)
    BY DEF Messages, Notices, CallNotices
  <2>3. QED
    BY <2>1, <2>2, Zenon DEF Ends
<1>4. main' \in Seq(Messages)
  <2>1. CASE Moves(main, main', Messages)
    BY <2>1, MovesTyped DEF QueuesOK
  <2>2. CASE told' \in Ends /\ main' = main \o told'
    BY <1>3, <2>2 DEF QueuesOK
  <2>3. QED
    BY <1>1, <2>1, <2>2 DEF QueueMoves
<1>5. told' \in Seq(CallNotices)
  <2>1. /\ <<>> \in Seq(CallNotices)
        /\ <<"onIncomingCall">> \in Seq(CallNotices)
        /\ <<"onCallStarted">> \in Seq(CallNotices)
    BY DEF CallNotices
  <2>2. QED
    BY <1>1, <1>3, <2>1 DEF QueueMoves, QueuesOK
<1>6. QED
  BY <1>2, <1>4, <1>5 DEF QueuesOK

LEMMA TypeInductive == TypeOK /\ [Next]_vars => TypeOK'
<1>1. TypeOK' <=> (SwitchesOK /\ QueuesOK /\ StatesOK)'
  BY TypeParts, PTL
<1>2. QED
  BY <1>1, TypeParts, SwitchesTyped, QueuesTyped, StatesTyped, Zenon

(* The service and the call screen are well typed: what waits in a queue   *)
(* is something the thread that serves it knows how to handle.             *)
THEOREM ScreenTypeCorrect == Spec => []TypeOK
<1>1. Init => TypeOK
  <2>1. <<>> \in Seq(Requests) /\ <<>> \in Seq(Operations)
        /\ <<>> \in Seq(Messages) /\ <<>> \in Seq(CallNotices)
        /\ <<>> \in Seq({"incoming", "show"})
    OBVIOUS
  <2>2. QED
    BY <2>1, Zenon DEF Init, ServiceInit, Line!Init, TypeOK, ServiceTypeOK,
                      CallState
<1>2. QED
  BY <1>1, TypeInductive, PTL DEF Spec

-----------------------------------------------------------------------------
(* Each step is one of re_main, of the executor or of the main thread.     *)

(* The service's own part of the main thread, and the activity's life.     *)
ServiceAsks == RingTimeout \/ ScreenOff \/ NotificationPressed
ActivityLives ==
  UserOpens \/ ServiceConnected \/ IntentArrives \/ Resumed \/ Destroyed

LEMMA NextThreads ==
  [Next]_vars =>
    \/ /\ \/ LineServes \/ LineRings \/ LineTalks \/ LineEnds
          \/ Executor
          \/ OnMain /\ (StopsRinging \/ ServiceAsks)
       /\ UNCHANGED uiVars
    \/ /\ OnMain
       /\ \/ \E cb \in Notices : Notice(cb)
          \/ KeyDials \/ KeyAnswers \/ KeyEnds
          \/ ActivityLives
    \/ UNCHANGED vars
BY Zenon DEF Next, Background, StopsRinging, RingTimeout, ScreenOff,
   NotificationPressed, MainTakes, Notice, Delivers, KeyDials, KeyAnswers,
   KeyEnds, Key, UserOpens, ServiceConnected, IntentArrives, Resumed, Destroyed,
   OutsideService, ServiceAsks, ActivityLives

(* What the main thread does to its own messages and to sipExecutor.       *)
LEMMA ServiceAsksMoves ==
  ASSUME ServiceAsks
  PROVE  /\ main' = main \/ main' = Append(main, "stopRinging")
         /\ \/ exec' = exec
            \/ \E op \in {"answer", "endcall"} : exec' = Append(exec, op)
<1>1. "answer" \in {"answer", "endcall"} /\ "endcall" \in {"answer", "endcall"}
  OBVIOUS
<1>2. CASE RingTimeout
  BY <1>1, <1>2, Zenon DEF RingTimeout, endCall
<1>3. CASE ScreenOff
  BY <1>1, <1>3, Zenon DEF ScreenOff, endCall
<1>4. CASE NotificationPressed
  BY <1>1, <1>4, Zenon DEF NotificationPressed, answerCall, endCall
<1>5. QED
  BY <1>2, <1>3, <1>4, Zenon DEF ServiceAsks

LEMMA MainMoves ==
  ASSUME [Next]_vars
  PROVE  \/ LineServes \/ LineRings \/ LineTalks \/ LineEnds \/ Executor
         \/ /\ line' = line /\ callActive' = callActive
            /\ refused' = refused /\ half' = half
            /\ \/ main' = main
               \/ main' = Append(main, "stopRinging")
               \/ main # <<>> /\ main' = Tail(main)
<1> DEFINE Goal == \/ main' = main
                   \/ main' = Append(main, "stopRinging")
                   \/ main # <<>> /\ main' = Tail(main)
<1>1. OnMain => /\ line' = line /\ callActive' = callActive
                /\ refused' = refused /\ half' = half
  BY Zenon DEF OnMain, Elsewhere
<1>2. ServiceAsks => Goal
  BY ServiceAsksMoves, Zenon
<1>3. StopsRinging \/ (\E cb \in Notices : Notice(cb)) => Goal
  BY Zenon DEF StopsRinging, Notice, Delivers, MainTakes
<1>4. KeyDials \/ KeyAnswers \/ KeyEnds => Goal
  BY Zenon DEF KeyDials, KeyAnswers, KeyEnds, Asks, makeCall, answerCall, endCall
<1>5. ActivityLives => Goal
  BY Zenon DEF ActivityLives, UserOpens, ServiceConnected, IntentArrives,
               Resumed, Destroyed, OutsideService
<1>6. CASE UNCHANGED vars
  BY <1>6, Zenon DEF vars, serviceVars, lineVars, execVars
<1> HIDE DEF Goal
<1>7. OnMain /\ ~Goal =>
        ~(\/ StopsRinging \/ ServiceAsks \/ KeyDials \/ KeyAnswers \/ KeyEnds
          \/ ActivityLives \/ \E cb \in Notices : Notice(cb))
  BY <1>2, <1>3, <1>4, <1>5, Zenon
<1>8. QED
  BY <1>1, <1>6, <1>7, NextThreads, Zenon DEF Goal

-----------------------------------------------------------------------------
(* The audio.                                                              *)

LEMMA ActiveInductive == ActiveTalks /\ [Next]_vars => ActiveTalks'
<1> SUFFICES ASSUME ActiveTalks, [Next]_vars PROVE ActiveTalks'
  OBVIOUS
<1>0. /\ "idle" # "established" /\ "incoming" # "established"
      /\ "answered" # "established" /\ "outgoing" # "established"
  OBVIOUS
<1> USE <1>0 DEF ActiveTalks
<1>1. CASE LineServes
  <2> USE DEF HungUp, NothingHeard
  <2>1. CASE LineTakesMakecall
    BY <2>1, Zenon DEF LineTakesMakecall, Line!End
  <2>2. CASE LineConnects
    BY <2>2, Zenon DEF LineConnects, Line!Dial, Line!DialFails
  <2>3. CASE LineTakesAnswer
    BY <2>3, Zenon DEF LineTakesAnswer, Line!Answer
  <2>4. CASE LineTakesEndcall
    BY <2>4, Zenon DEF LineTakesEndcall, Line!End
  <2>5. QED
    BY <1>1, <2>1, <2>2, <2>3, <2>4, Zenon DEF LineServes
<1>2. CASE LineRings \/ LineTalks \/ LineEnds
  BY <1>2, Zenon DEF LineRings, LineTalks, LineEnds, Line!Ring, Line!Talk,
                     Line!End
<1>3. CASE Executor
  BY <1>3, Zenon DEF Executor, ExecDials, ExecRefusesSelf, Refuses,
     ExecCancelsNotification, ExecSilences, ExecPostsRefusal, ExecAnswers,
     ExecPostsAnswer, ExecPostsEndcall, ExecEndsAudio, ExecTakes, Elsewhere
<1>4. CASE OnMain \/ UNCHANGED vars
  BY <1>4, Zenon DEF OnMain, Elsewhere, vars, serviceVars, lineVars
<1>5. QED
  BY <1>1, <1>2, <1>3, <1>4, NextThreads

LEMMA HangUpPostedInductive ==
  TypeOK /\ HangUpPosted /\ [Next]_vars => HangUpPosted'
<1> SUFFICES ASSUME TypeOK, HangUpPosted, [Next]_vars PROVE HangUpPosted'
  OBVIOUS
<1>0. queue \in Seq(Requests)
  BY DEF TypeOK, ServiceTypeOK
<1> USE DEF HangUpPosted
<1>1. ASSUME NEW req \in {"makecall", "answer"}, Take(req)
      PROVE  LastIs(queue, "endcall") => LastIs(queue', "endcall")
  BY <1>0, <1>1, TailLast DEF Take
<1>2. CASE LineTakesMakecall
  <2>1. half' = half /\ queue # <<>>
        /\ (LastIs(queue, "endcall") => LastIs(queue', "endcall"))
    BY <1>1, <1>2 DEF LineTakesMakecall, Take, ReMain, execVars
  <2>2. QED
    BY <2>1, Zenon
<1>3. CASE LineTakesAnswer
  <2>1. half' = half /\ queue # <<>>
        /\ (LastIs(queue, "endcall") => LastIs(queue', "endcall"))
    BY <1>1, <1>3 DEF LineTakesAnswer, Take, ReMain, execVars
  <2>2. QED
    BY <2>1, Zenon
<1>4. CASE LineTakesEndcall
  <2>1. /\ half' = half /\ queue # <<>> /\ queue' = Tail(queue)
        /\ connecting' = connecting /\ ~connecting /\ line' = "idle"
    BY <1>4, Zenon DEF LineTakesEndcall, Take, ReMain, execVars, HungUp,
                       NothingHeard, Line!End
  <2>2. LastIs(queue, "endcall") => LastIs(queue', "endcall") \/ queue' = <<>>
    BY <1>0, <2>1, TailLast
  <2>3. "idle" \in {"idle", "incoming"}
    OBVIOUS
  <2>4. QED
    BY <2>1, <2>2, <2>3, Zenon
<1>5. CASE LineConnects
  BY <1>5, Zenon DEF LineConnects, execVars
<1>6. CASE LineRings \/ LineTalks \/ LineEnds
  <2>1. /\ half' = half /\ queue' = queue /\ connecting' = connecting
        /\ \/ line' \in {"idle", "incoming"}
           \/ line \in {"answered", "outgoing"}
    BY <1>6 DEF LineRings, LineTalks, LineEnds, ReMain, execVars, Line!Ring,
                Line!Talk, Line!End
  <2>2. line \in {"answered", "outgoing"} => line \notin {"idle", "incoming"}
    OBVIOUS
  <2>3. QED
    BY <2>1, <2>2, Zenon
<1>7. CASE Executor
  <2>1. CASE ExecPostsEndcall
    <3>1. queue' = Append(queue, "endcall")
      BY <2>1, Zenon DEF ExecPostsEndcall
    <3>2. LastIs(queue', "endcall")
      BY <1>0, <3>1 DEF LastIs
    <3>3. QED
      BY <3>2, Zenon
  <2>2. CASE half' # "endcall"
    BY <2>2
  <2>3. ExecPostsEndcall \/ half' # "endcall"
    BY <1>7 DEF Executor, ExecDials, ExecRefusesSelf, Refuses,
       ExecCancelsNotification, ExecSilences, ExecPostsRefusal, ExecAnswers,
       ExecPostsAnswer, ExecEndsAudio, ExecTakes
  <2>4. QED
    BY <2>1, <2>2, <2>3, Zenon
<1>8. CASE OnMain \/ UNCHANGED vars
  BY <1>8, Zenon DEF OnMain, Elsewhere, vars, serviceVars, lineVars, execVars
<1>9. QED
  BY <1>2, <1>3, <1>4, <1>5, <1>6, <1>7, <1>8, NextThreads, Zenon DEF LineServes

LEMMA AudioInductive ==
  TypeOK /\ HangUpPosted /\ AudioUntilHangUp /\ [Next]_vars => AudioUntilHangUp'
<1> SUFFICES ASSUME TypeOK, HangUpPosted, AudioUntilHangUp, [Next]_vars
             PROVE  AudioUntilHangUp'
  OBVIOUS
<1>0. queue \in Seq(Requests)
  BY DEF TypeOK, ServiceTypeOK
<1> USE DEF AudioUntilHangUp
<1>1. CASE LineTakesMakecall \/ LineTakesEndcall \/ LineConnects \/ LineRings
           \/ LineEnds
  <2>1. line' \in {"idle", "incoming", "outgoing"}
    BY <1>1 DEF LineTakesMakecall, LineTakesEndcall, LineConnects, LineRings,
       LineEnds, HungUp, NothingHeard, Line!End, Line!Dial, Line!DialFails,
       Line!Ring
  <2>2. QED
    BY <2>1
<1>2. CASE LineTakesAnswer
  <2>1. /\ queue # <<>> /\ Head(queue) = "answer" /\ queue' = Tail(queue)
        /\ audio' = audio
        /\ line' = "answered" \/ line' = line
    BY <1>2, Zenon DEF LineTakesAnswer, Take, NothingHeard, NoCallback,
                       Line!Answer
  <2>2. Has(queue, Hangs) => Has(queue', Hangs)
    BY <1>0, <2>1, TailHas DEF Hangs
  <2>3. "answered" # "established"
    OBVIOUS
  <2>4. QED
    BY <2>1, <2>2, <2>3, Zenon
<1>3. CASE LineTalks
  BY <1>3, Zenon DEF LineTalks, OnCallStarted
<1>4. CASE ExecEndsAudio
  <2>1. half = "endcall" /\ queue' = queue /\ line' = line
    BY <1>4, Zenon DEF ExecEndsAudio, Elsewhere
  <2>2. LastIs(queue, "endcall") => Has(queue, Hangs)
    BY <1>0 DEF LastIs, Has, Hangs
  <2>3. line \in {"idle", "incoming"} => line # "established"
    OBVIOUS
  <2>4. QED
    BY <2>1, <2>2, <2>3, Zenon DEF HangUpPosted
<1>5. CASE Executor /\ ~ExecEndsAudio
  <2>1. /\ line' = line
        /\ audio => audio'
        /\ queue' = queue \/ \E req \in Requests : queue' = Append(queue, req)
    <3>1. {"makecall", "answer", "endcall"} \subseteq Requests
      BY DEF Requests
    <3>2. QED
      BY <1>5, <3>1 DEF Executor, ExecDials, ExecRefusesSelf, Refuses,
         ExecCancelsNotification, ExecSilences, ExecPostsRefusal, ExecAnswers,
         ExecPostsAnswer, ExecPostsEndcall, ExecTakes, Elsewhere, NoCallback
  <2>2. Has(queue, Hangs) => Has(queue', Hangs)
    <3>1. CASE queue' = queue
      BY <3>1
    <3>2. ASSUME NEW req \in Requests, queue' = Append(queue, req)
          PROVE  Has(queue, Hangs) => Has(queue', Hangs)
      BY <1>0, <3>2, AppendHas, Zenon
    <3>3. QED
      BY <2>1, <3>1, <3>2, Zenon
  <2>3. QED
    BY <2>1, <2>2, Zenon
<1>6. CASE OnMain \/ UNCHANGED vars
  BY <1>6, Zenon DEF OnMain, Elsewhere, vars, serviceVars, lineVars
<1>7. QED
  BY <1>1, <1>2, <1>3, <1>4, <1>5, <1>6, NextThreads, Zenon DEF LineServes

(* While a conversation is on and nothing is under way, the audio is       *)
(* routed as for a call: a hang-up switches the audio off only when the    *)
(* request that ends the call is posted already, and no request that could *)
(* bring up another call can overtake it.                                  *)
THEOREM TalkingIsHeard == Spec => []TalkingHasCallAudio
<1>1. Init => HangUpPosted /\ AudioUntilHangUp
  BY DEF Init, ServiceInit, Line!Init, HangUpPosted, AudioUntilHangUp
<1>2. AudioUntilHangUp => TalkingHasCallAudio
  BY DEF AudioUntilHangUp, TalkingHasCallAudio, Settled, Has
<1>3. TypeOK /\ HangUpPosted /\ AudioUntilHangUp /\ [Next]_vars
        => HangUpPosted' /\ AudioUntilHangUp'
  BY HangUpPostedInductive, AudioInductive
<1>4. QED
  BY <1>1, <1>2, <1>3, ScreenTypeCorrect, PTL DEF Spec

-----------------------------------------------------------------------------
(* The last word among the messages of the main thread.                    *)

(* What the line tells at the end of a call comes last.                    *)
LEMMA EndsComeLast ==
  ASSUME main \in Seq(Messages), told' \in Ends, main' = main \o told',
         NEW P, NEW Q, {"onCallEnded", "onCallFailed"} \subseteq Q,
         "onCallEnded" \notin P, "onCallFailed" \notin P
  PROVE  Has(main', Q) /\ Follows(main', P, Q)
<1>1. /\ "onCallEnded" \in Messages /\ "onCallFailed" \in Messages
      /\ "onCallEnded" \in Q /\ "onCallFailed" \in Q
  BY DEF Messages, Notices, CallNotices
<1>2. ASSUME NEW s \in Seq(Messages), NEW x \in Messages, x \in Q, x \notin P,
             main' = Append(s, x)
      PROVE  Has(main', Q) /\ Follows(main', P, Q)
  <2>1. Has(Append(s, x), Q)
    BY <1>2, AppendHas, Zenon
  <2>2. Follows(Append(s, x), P, Q)
    BY <1>2, AppendFollows, Zenon
  <2>3. QED
    BY <1>2, <2>1, <2>2
<1>3. CASE told' = <<"onCallEnded">>
  <2>1. main' = Append(main, "onCallEnded")
    BY <1>3
  <2>2. QED
    BY <1>1, <1>2, <2>1, Zenon
<1>4. CASE told' = <<"onCallFailed">>
  <2>1. main' = Append(main, "onCallFailed")
    BY <1>4
  <2>2. QED
    BY <1>1, <1>2, <2>1, Zenon
<1>5. CASE told' = <<"onCallFailed", "onCallEnded">>
  <2>1. main' = Append(Append(main, "onCallFailed"), "onCallEnded")
    BY <1>1, <1>5
  <2>2. Append(main, "onCallFailed") \in Seq(Messages)
    BY <1>1
  <2>3. QED
    BY <1>1, <1>2, <2>1, <2>2, Zenon
<1>6. QED
  BY <1>3, <1>4, <1>5, Zenon DEF Ends

LEMMA OverIsLast ==
  ASSUME main \in Seq(Messages), told' \in Ends, main' = main \o told'
  PROVE  Has(main', Over) /\ Follows(main', Up, Over)
<1>1. /\ {"onCallEnded", "onCallFailed"} \subseteq Over
      /\ "onCallEnded" \notin Up /\ "onCallFailed" \notin Up
  BY DEF Over, Up
<1>2. QED
  BY <1>1, EndsComeLast, Zenon

LEMMA MainFollows ==
  ASSUME main \in Seq(Messages), NEW P, NEW Q, Follows(main, P, Q),
         "stopRinging" \notin P,
         \/ main' = main
         \/ main' = Append(main, "stopRinging")
         \/ main # <<>> /\ main' = Tail(main)
  PROVE  Follows(main', P, Q)
<1>1. "stopRinging" \in Messages
  BY DEF Messages
<1>2. CASE main' = main
  BY <1>2, Zenon
<1>3. CASE main' = Append(main, "stopRinging")
  BY <1>1, <1>3, AppendFollows, Zenon
<1>4. CASE main # <<>> /\ main' = Tail(main)
  BY <1>4, TailFollows, Zenon
<1>5. QED
  BY <1>2, <1>3, <1>4, Zenon

(* A step of re_main leaves line and messages alone, brings a call up or   *)
(* leaves the notice of an end.                                            *)
LEMMA LineMovesMain ==
  ASSUME LineServes \/ LineRings \/ LineTalks \/ LineEnds
  PROVE  \/ line' # "idle"
         \/ line' = line /\ main' = main
         \/ told' \in Ends /\ main' = main \o told'
<1>0. /\ "incoming" # "idle" /\ "answered" # "idle" /\ "outgoing" # "idle"
      /\ "established" # "idle"
      /\ <<"onCallEnded">> \in Ends /\ <<"onCallFailed">> \in Ends
      /\ <<"onCallFailed", "onCallEnded">> \in Ends
      /\ \A t \in {<<"onCallEnded">>, <<"onCallFailed", "onCallEnded">>} :
           t \in Ends
  BY DEF Ends
<1> USE <1>0 DEF HungUp, NothingHeard, OnCallOver, NoCallback
<1>1. CASE LineTakesMakecall \/ LineTakesEndcall
  BY <1>1, Zenon DEF LineTakesMakecall, LineTakesEndcall
<1>2. CASE LineConnects
  BY <1>2, Zenon DEF LineConnects, Line!Dial, Line!DialFails
<1>3. CASE LineTakesAnswer
  BY <1>3, Zenon DEF LineTakesAnswer, Line!Answer
<1>4. CASE LineRings \/ LineTalks
  BY <1>4, Zenon DEF LineRings, LineTalks, Line!Ring, Line!Talk
<1>5. CASE LineEnds
  BY <1>5, Zenon DEF LineEnds, Line!End
<1>6. QED
  BY <1>1, <1>2, <1>3, <1>4, <1>5, Zenon DEF LineServes

(* What re_main does to a conversation, but for its start: it hears of     *)
(* nothing while it takes an answer that comes too late.                   *)
LEMMA ServesTalking ==
  ASSUME LineServes \/ LineRings \/ LineEnds, Talking'
  PROVE  /\ Talking /\ LineTakesAnswer
         /\ callActive' = callActive /\ half' = half /\ main' = main
<1>0. /\ "idle" # "established" /\ "incoming" # "established"
      /\ "answered" # "established" /\ "outgoing" # "established"
  OBVIOUS
<1> USE <1>0 DEF HungUp, NothingHeard, NoCallback, Talking
<1>1. CASE LineTakesMakecall \/ LineTakesEndcall
  BY <1>1, Zenon DEF LineTakesMakecall, LineTakesEndcall, Line!End
<1>2. CASE LineConnects
  BY <1>2, Zenon DEF LineConnects, Line!Dial, Line!DialFails
<1>3. CASE LineTakesAnswer
  <2>1. half' = half
    BY <1>3, Zenon DEF LineTakesAnswer, Take, ReMain, execVars
  <2>2. ~Line!Answer
    BY Zenon DEF Line!Answer
  <2>3. /\ line' = line /\ callActive' = callActive /\ refused' = refused
        /\ main' = main
    BY <1>3, <2>2, Zenon DEF LineTakesAnswer
  <2>4. QED
    BY <1>3, <2>1, <2>3, Zenon
<1>4. CASE LineRings \/ LineEnds
  BY <1>4, Zenon DEF LineRings, LineEnds, Line!Ring, Line!End
<1>5. QED
  BY <1>1, <1>2, <1>3, <1>4, Zenon DEF LineServes

(* What the executor does to a conversation it does not refuse a dial in:  *)
(* no message but from the middle of a refusal.                            *)
LEMMA ExecutorTalking ==
  ASSUME Executor, RefusalSeen, Talking'
  PROVE  /\ Talking /\ callActive' = callActive /\ main' = main
         /\ half' \notin Refusing
<1>0. /\ "unflagged" \in Refusing /\ "cancelled" \in Refusing
      /\ "silenced" \in Refusing /\ "none" \notin Refusing
      /\ "answer" \notin Refusing /\ "endcall" \notin Refusing
  BY DEF Refusing
<1> USE DEF Talking, RefusalSeen, ExecTakes, Elsewhere, NoCallback
<1>1. CASE ExecDials
  BY <1>1, Zenon DEF ExecDials
<1>2. CASE ExecRefusesSelf
  BY <1>2, Zenon DEF ExecRefusesSelf
<1>3. CASE ExecCancelsNotification
  BY <1>0, <1>3, Zenon DEF ExecCancelsNotification, Refuses
<1>4. CASE ExecSilences
  BY <1>0, <1>4, Zenon DEF ExecSilences, Refuses
<1>5. CASE ExecPostsRefusal
  BY <1>0, <1>5, Zenon DEF ExecPostsRefusal, Refuses
<1>6. CASE ExecAnswers
  BY <1>0, <1>6, Zenon DEF ExecAnswers
<1>7. CASE ExecPostsAnswer
  BY <1>0, <1>7, Zenon DEF ExecPostsAnswer
<1>8. CASE ExecPostsEndcall
  BY <1>0, <1>8, Zenon DEF ExecPostsEndcall
<1>9. CASE ExecEndsAudio
  BY <1>0, <1>9, Zenon DEF ExecEndsAudio
<1>10. QED
  BY <1>1, <1>2, <1>3, <1>4, <1>5, <1>6, <1>7, <1>8, <1>9, Zenon DEF Executor

LEMMA RefusalInductive == RefusalSeen /\ [Next]_vars => RefusalSeen'
<1> SUFFICES ASSUME RefusalSeen, [Next]_vars PROVE RefusalSeen'
  OBVIOUS
<1>1. CASE LineServes \/ LineRings \/ LineEnds
  BY <1>1, ServesTalking, Zenon DEF RefusalSeen
<1>2. CASE LineTalks
  BY <1>2, Zenon DEF LineTalks, Line!Talk, OnCallStarted, ReMain, execVars,
                     RefusalSeen, Talking
<1>3. CASE Executor
  BY <1>3, ExecutorTalking, Zenon DEF RefusalSeen
<1>4. CASE /\ line' = line /\ callActive' = callActive
           /\ refused' = refused /\ half' = half
  BY <1>4, Zenon DEF RefusalSeen, Talking
<1>5. QED
  BY <1>1, <1>2, <1>3, <1>4, MainMoves, Zenon

LEMMA StartInductive ==
  TypeOK /\ RefusalSeen /\ StartIsLast /\ [Next]_vars => StartIsLast'
<1> SUFFICES ASSUME TypeOK, RefusalSeen, StartIsLast, [Next]_vars
             PROVE  StartIsLast'
  OBVIOUS
<1>0. main \in Seq(Messages)
  BY DEF TypeOK, ServiceTypeOK
<1> USE DEF StartIsLast
<1>1. CASE LineServes \/ LineRings \/ LineEnds
  BY <1>1, ServesTalking, Zenon
<1>2. CASE LineTalks
  <2>1. main' = Append(main, "onCallStarted")
    BY <1>2, Zenon DEF LineTalks, OnCallStarted
  <2>2. /\ "onCallStarted" \in Messages /\ "onCallStarted" \notin Over
        /\ "onCallStarted" \in {"onCallStarted"}
    BY DEF Messages, Notices, CallNotices, Over
  <2>3. QED
    BY <1>0, <2>1, <2>2, AppendFollows, Zenon
<1>3. CASE Executor
  BY <1>3, ExecutorTalking, Zenon
<1>4. CASE /\ line' = line /\ refused' = refused
           /\ \/ main' = main
              \/ main' = Append(main, "stopRinging")
              \/ main # <<>> /\ main' = Tail(main)
  <2>1. "stopRinging" \notin Over /\ (Talking' <=> Talking)
    BY <1>4 DEF Over, Talking
  <2>2. QED
    BY <1>0, <1>4, <2>1, MainFollows, Zenon
<1>5. QED
  BY <1>1, <1>2, <1>3, <1>4, MainMoves, Zenon

(* All the executor ever leaves to the main thread belongs to a refusal.   *)
LEMMA ExecutorMoves ==
  ASSUME Executor
  PROVE  /\ line' = line /\ connecting' = connecting /\ sounding' = sounding
         /\ \/ main' = main
            \/ main' = Append(main, "stopRinging")
            \/ main' = Append(main, "refusal")
BY Zenon DEF Executor, ExecDials, ExecRefusesSelf, Refuses,
   ExecCancelsNotification, ExecSilences, ExecPostsRefusal, ExecAnswers,
   ExecPostsAnswer, ExecPostsEndcall, ExecEndsAudio, ExecTakes, Elsewhere,
   NoCallback

LEMMA EndInductive ==
  TypeOK /\ EndIsLast /\ [Next]_vars => EndIsLast'
<1> SUFFICES ASSUME TypeOK, EndIsLast, [Next]_vars PROVE EndIsLast'
  OBVIOUS
<1>0. main \in Seq(Messages)
  BY DEF TypeOK, ServiceTypeOK
<1> USE DEF EndIsLast
<1>1. CASE LineServes \/ LineRings \/ LineTalks \/ LineEnds
  <2>1. \/ line' # "idle"
        \/ line' = line /\ main' = main
        \/ told' \in Ends /\ main' = main \o told'
    BY <1>1, LineMovesMain
  <2>2. QED
    BY <1>0, <2>1, OverIsLast, Zenon
<1>2. CASE Executor
  <2>1. /\ "stopRinging" \in Messages /\ "stopRinging" \notin Up
        /\ "refusal" \in Messages /\ "refusal" \notin Up /\ "refusal" \in Over
    BY DEF Messages, Notices, CallNotices, Up, Over
  <2>2. CASE main' = main
    BY <1>2, <2>2, ExecutorMoves, Zenon
  <2>3. CASE main' = Append(main, "stopRinging")
    BY <1>0, <1>2, <2>1, <2>3, AppendFollows, ExecutorMoves, Zenon
  <2>4. CASE main' = Append(main, "refusal")
    BY <1>0, <2>1, <2>4, AppendFollows, Zenon
  <2>5. QED
    BY <1>2, <2>2, <2>3, <2>4, ExecutorMoves, Zenon
<1>3. CASE /\ line' = line
           /\ \/ main' = main
              \/ main' = Append(main, "stopRinging")
              \/ main # <<>> /\ main' = Tail(main)
  <2>1. "stopRinging" \notin Up
    BY DEF Up
  <2>2. QED
    BY <1>0, <1>3, <2>1, MainFollows, Zenon
<1>4. QED
  BY <1>1, <1>2, <1>3, MainMoves, Zenon

-----------------------------------------------------------------------------
(* What a queue still holds.                                               *)

LEMMA TakenOther ==
  ASSUME NEW S, NEW s \in Seq(S), s # <<>>, NEW Q, Head(s) \notin Q, Has(s, Q)
  PROVE  Has(Tail(s), Q)
BY TailHas, Zenon

LEMMA StillThere ==
  ASSUME NEW S, NEW s \in Seq(S), NEW t, NEW Q, Has(s, Q),
         \/ t = s
         \/ \E x \in S : t = Append(s, x)
  PROVE  Has(t, Q)
<1>1. ASSUME NEW x \in S, t = Append(s, x) PROVE Has(t, Q)
  BY <1>1, AppendHas, Zenon
<1>2. QED
  BY <1>1, Zenon

(* The executor does not lose what it has been asked: a hang-up or a dial  *)
(* goes on to re_main, and a dial of the own number is refused by a notice.*)
LEMMA ExecutorPassesOn ==
  ASSUME TypeOK, Executor
  PROVE  /\ Has(exec, Hangs) \/ Has(queue, Hangs)
              => Has(exec', Hangs) \/ Has(queue', Hangs)
         /\ Has(exec, Dials) \/ Has(queue, Dials) \/ half \in Refusing
              => \/ Has(exec', Dials)
                 \/ Has(queue', Dials)
                 \/ half' \in Refusing
                 \/ Has(main', Over)
         /\ Has(main, Over) => Has(main', Over)
<1>1. /\ exec \in Seq(Operations) /\ queue \in Seq(Requests)
      /\ main \in Seq(Messages)
  BY DEF TypeOK, ServiceTypeOK
<1>2. /\ "makecall" \in Requests /\ "answer" \in Requests
      /\ "endcall" \in Requests
      /\ "refusal" \in Messages /\ "refusal" \in Over
      /\ "stopRinging" \in Messages
  BY DEF Requests, Messages, Notices, CallNotices, Over
<1>3. /\ "unflagged" \in Refusing /\ "cancelled" \in Refusing
      /\ "silenced" \in Refusing /\ "none" \notin Refusing
      /\ "answer" \notin Refusing /\ "endcall" \notin Refusing
  BY DEF Refusing
<1>4. ASSUME NEW op, ExecTakes(op)
      PROVE  /\ half \notin Refusing
             /\ op \notin Hangs /\ Has(exec, Hangs) => Has(exec', Hangs)
             /\ op \notin Dials /\ Has(exec, Dials) => Has(exec', Dials)
  BY <1>1, <1>3, <1>4, TakenOther, Zenon DEF ExecTakes
<1>5. ASSUME NEW req \in Requests, queue' = Append(queue, req)
      PROVE  /\ req = "endcall" \/ Has(queue, Hangs) => Has(queue', Hangs)
             /\ req = "makecall" \/ Has(queue, Dials)
                  => Has(queue', Dials)
  <2>1. "endcall" \in Hangs /\ "makecall" \in Dials
    BY DEF Hangs, Dials
  <2>2. /\ Has(Append(queue, req), Hangs) <=> Has(queue, Hangs) \/ req \in Hangs
        /\ Has(Append(queue, req), Dials) <=> Has(queue, Dials) \/ req \in Dials
    BY <1>1, AppendHas, Zenon
  <2>3. QED
    BY <1>5, <2>1, <2>2, Zenon
<1>6. CASE ExecDials
  <2>1. "makecall" \notin Hangs
    BY DEF Hangs
  <2>2. QED
    BY <1>2, <1>4, <1>5, <1>6, <2>1, Zenon DEF ExecDials, NoCallback
<1>7. CASE ExecRefusesSelf
  <2>1. "dialself" \notin Hangs
    BY DEF Hangs
  <2>2. QED
    BY <1>3, <1>4, <1>7, <2>1, Zenon DEF ExecRefusesSelf
<1>8. CASE ExecCancelsNotification
  BY <1>3, <1>8, Zenon DEF ExecCancelsNotification, Refuses
<1>9. CASE ExecSilences
  <2>1. main' = Append(main, "stopRinging")
    BY <1>9, Zenon DEF ExecSilences
  <2>2. Has(main, Over) => Has(main', Over)
    BY <1>1, <1>2, <2>1, AppendHas, Zenon
  <2>3. QED
    BY <1>3, <1>9, <2>2, Zenon DEF ExecSilences, Refuses
<1>10. CASE ExecPostsRefusal
  <2>1. main' = Append(main, "refusal")
    BY <1>10, Zenon DEF ExecPostsRefusal
  <2>2. Has(main', Over)
    BY <1>1, <1>2, <2>1, AppendHas, Zenon
  <2>3. QED
    BY <1>10, <2>2, Zenon DEF ExecPostsRefusal, Refuses
<1>11. CASE ExecAnswers
  <2>1. "answer" \notin Hangs /\ "answer" \notin Dials
    BY DEF Hangs, Dials
  <2>2. QED
    BY <1>4, <1>11, <2>1, Zenon DEF ExecAnswers
<1>12. CASE ExecPostsAnswer
  BY <1>2, <1>3, <1>5, <1>12, Zenon DEF ExecPostsAnswer, NoCallback
<1>13. CASE ExecPostsEndcall
  <2>1. "endcall" \notin Dials
    BY DEF Dials
  <2>2. QED
    BY <1>2, <1>4, <1>5, <1>13, <2>1, Zenon DEF ExecPostsEndcall, NoCallback
<1>14. CASE ExecEndsAudio
  BY <1>3, <1>14, Zenon DEF ExecEndsAudio
<1>15. QED
  BY <1>6, <1>7, <1>8, <1>9, <1>10, <1>11, <1>12, <1>13, <1>14, Zenon
     DEF Executor

(* What the main thread asks of the executor is added to what it has.      *)
LEMMA AsksAdd ==
  ASSUME TypeOK, NEW Q,
         \/ exec' = exec
         \/ \E op \in Operations : exec' = Append(exec, op)
  PROVE  Has(exec, Q) => Has(exec', Q)
<1>1. exec \in Seq(Operations)
  BY DEF TypeOK, ServiceTypeOK
<1>2. QED
  BY <1>1, StillThere, Zenon

LEMMA StopsRingingKeeps ==
  ASSUME TypeOK, NEW Q, "stopRinging" \notin Q, Has(main, Q),
         \/ main' = main
         \/ main' = Append(main, "stopRinging")
         \/ main # <<>> /\ Head(main) = "stopRinging" /\ main' = Tail(main)
  PROVE  Has(main', Q)
<1>1. main \in Seq(Messages) /\ "stopRinging" \in Messages
  BY DEF TypeOK, ServiceTypeOK, Messages
<1>2. CASE main' = main
  BY <1>2, Zenon
<1>3. CASE main' = Append(main, "stopRinging")
  BY <1>1, <1>3, StillThere, Zenon
<1>4. CASE main # <<>> /\ Head(main) = "stopRinging" /\ main' = Tail(main)
  BY <1>1, <1>4, TakenOther, Zenon
<1>5. QED
  BY <1>2, <1>3, <1>4, Zenon

(* Whatever the activity has been through, one that is bound has just      *)
(* compared its screen with the line.                                      *)
LEMMA ActivitySyncs ==
  ASSUME ActivityLives, activity' = "bound"
  PROVE  /\ line = "idle" => callState' = "Idle"
         /\ line # "idle" => callState' # "Idle"
<1>0. /\ "unbound" # "bound" /\ "none" # "bound" /\ "Active" # "Idle"
      /\ "Incoming" # "Idle"
  OBVIOUS
<1>1. \E shown : syncCallState(shown)
  BY <1>0, Zenon DEF ActivityLives, UserOpens, ServiceConnected, IntentArrives,
                     Resumed, Destroyed, Created
<1>2. QED
  BY <1>0, <1>1 DEF syncCallState, isCallActive

-----------------------------------------------------------------------------
(* The end key.                                                            *)

LEMMA HangUpInductive ==
  TypeOK /\ RefusalSeen /\ StartIsLast /\ HangUpUnderWay /\ [Next]_vars
    => HangUpUnderWay'
<1> SUFFICES ASSUME TypeOK, RefusalSeen, StartIsLast, HangUpUnderWay,
                    [Next]_vars
             PROVE  HangUpUnderWay'
  OBVIOUS
<1>0. /\ exec \in Seq(Operations) /\ queue \in Seq(Requests)
      /\ main \in Seq(Messages)
  BY DEF TypeOK, ServiceTypeOK
<1> DEFINE Started == {"onCallStarted"}
<1>1. /\ "stopRinging" \notin Started /\ "onCallStarted" \in Started
      /\ "onCallStarted" \in Messages /\ "endcall" \in Hangs
      /\ "endcall" \in Operations /\ "answer" \in Operations
  BY DEF Messages, Notices, CallNotices, Hangs, Operations, Requests
<1> OnMain => (Talking' <=> Talking)
  BY DEF OnMain, Elsewhere, Talking
<1>2. CASE (LineServes \/ LineRings \/ LineEnds) /\ UNCHANGED uiVars
  <2>1. Talking' => Talking /\ LineTakesAnswer /\ main' = main
    BY <1>2, ServesTalking, Zenon
  <2>2. LineTakesAnswer => exec' = exec /\ (Has(queue, Hangs) => Has(queue', Hangs))
    <3>1. "answer" \notin Hangs
      BY DEF Hangs
    <3>2. QED
      BY <1>0, <3>1, TakenOther, Zenon DEF LineTakesAnswer, Take, ReMain, execVars
  <2>3. QED
    BY <1>2, <2>1, <2>2, Zenon DEF HangUpUnderWay, uiVars
<1>3. CASE LineTalks
  <2>1. main' = Append(main, "onCallStarted")
    BY <1>3, Zenon DEF LineTalks, OnCallStarted
  <2>2. Has(main', Started)
    BY <1>0, <1>1, <2>1, AppendHas, Zenon
  <2>3. QED
    BY <2>2, Zenon DEF HangUpUnderWay
<1>4. CASE Executor /\ UNCHANGED uiVars
  <2>1. Talking' => Talking /\ main' = main
    BY <1>4, ExecutorTalking, Zenon
  <2>2. Has(exec, Hangs) \/ Has(queue, Hangs)
          => Has(exec', Hangs) \/ Has(queue', Hangs)
    BY <1>4, ExecutorPassesOn, Zenon
  <2>3. QED
    BY <1>4, <2>1, <2>2, Zenon DEF HangUpUnderWay, uiVars
<1>5. CASE OnMain /\ (StopsRinging \/ ServiceAsks) /\ UNCHANGED uiVars
  <2>1. Has(exec, Hangs) => Has(exec', Hangs)
    <3>1. \/ exec' = exec
          \/ \E op \in Operations : exec' = Append(exec, op)
      <4>1. CASE StopsRinging
        BY <4>1, Zenon DEF StopsRinging, MainTakes
      <4>2. CASE ServiceAsks
        BY <1>1, <4>2, ServiceAsksMoves
      <4>3. QED
        BY <1>5, <4>1, <4>2, Zenon
    <3>2. QED
      BY <3>1, AsksAdd, Zenon
  <2>2. Has(main, Started) => Has(main', Started)
    <3>1. \/ main' = main
          \/ main' = Append(main, "stopRinging")
          \/ main # <<>> /\ Head(main) = "stopRinging" /\ main' = Tail(main)
      BY <1>5, ServiceAsksMoves, Zenon DEF StopsRinging, MainTakes
    <3>2. QED
      BY <1>1, <3>1, StopsRingingKeeps, Zenon
  <2>3. queue' = queue
    BY <1>5, Zenon DEF OnMain
  <2>4. QED
    BY <1>5, <2>1, <2>2, <2>3, Zenon DEF HangUpUnderWay, uiVars
<1>6. ASSUME NEW cb \in Notices, Notice(cb), OnMain PROVE HangUpUnderWay'
  <2>1. /\ main # <<>> /\ Head(main) = cb /\ main' = Tail(main)
        /\ exec' = exec /\ queue' = queue
        /\ activity' = activity
    BY <1>6, Zenon DEF Notice, Delivers, MainTakes, OnMain
  <2>2. CASE activity # "bound"
    BY <2>1, <2>2, Zenon DEF HangUpUnderWay
  <2>3. CASE activity = "bound" /\ cb \in Up
    <3>1. callState' # "Idle"
      BY <1>6, <2>3 DEF Notice, Shows, Up
    <3>2. QED
      BY <3>1, Zenon DEF HangUpUnderWay
  <2>4. CASE cb \in Over
    <3>1. Talking => Has(main', Started)
      BY <1>0, <2>1, <2>4, TailFollows, Zenon DEF StartIsLast
    <3>2. QED
      BY <1>6, <2>1, <3>1, Zenon DEF HangUpUnderWay
  <2>5. cb \in Up \/ cb \in Over
    BY DEF Notices, CallNotices, Up, Over
  <2>6. QED
    BY <2>2, <2>3, <2>4, <2>5, Zenon
<1>7. CASE KeyDials
  BY <1>7 DEF KeyDials, HangUpUnderWay
<1>8. CASE KeyAnswers
  <2>1. /\ OnMain /\ queue' = queue
        /\ callState' = callState /\ activity' = activity
    BY <1>8, Zenon DEF KeyAnswers, Key, OnMain
  <2>2. Has(exec, Hangs) => Has(exec', Hangs)
    <3>1. exec' = exec \/ exec' = Append(exec, "answer")
      BY <1>8, Zenon DEF KeyAnswers, Asks, answerCall
    <3>2. QED
      BY <1>1, <3>1, AsksAdd, Zenon
  <2>3. Has(main, Started) => Has(main', Started)
    <3>1. main' = main \/ main' = Append(main, "stopRinging")
      BY <1>8, Zenon DEF KeyAnswers, Asks, answerCall
    <3>2. QED
      BY <1>1, <3>1, StopsRingingKeeps, Zenon
  <2>4. QED
    BY <2>1, <2>2, <2>3, Zenon DEF HangUpUnderWay
<1>9. CASE KeyEnds
  <2>1. activity' = "bound" => exec' = Append(exec, "endcall")
    BY <1>9, Zenon DEF KeyEnds, Key, Asks, endCall
  <2>2. Has(Append(exec, "endcall"), Hangs)
    BY <1>0, <1>1, AppendHas, Zenon
  <2>3. QED
    BY <2>1, <2>2, Zenon DEF HangUpUnderWay
<1>10. CASE ActivityLives /\ OnMain
  <2>1. Talking => line # "idle"
    BY DEF Talking
  <2>2. activity' = "bound" /\ line # "idle" => callState' # "Idle"
    BY <1>10, ActivitySyncs, Zenon
  <2>3. QED
    BY <1>10, <2>1, <2>2, Zenon DEF HangUpUnderWay
<1>11. CASE UNCHANGED vars
  BY <1>11, Zenon DEF vars, serviceVars, lineVars, execVars, uiVars,
                     HangUpUnderWay, Talking
<1>12. QED
  BY <1>2, <1>3, <1>4, <1>5, <1>6, <1>7, <1>8, <1>9, <1>10, <1>11, NextThreads,
     Zenon

(* Once nothing is under way, a conversation can be hung up, if no dial of *)
(* the own number was refused in it.  The service holds it to be on: only  *)
(* its end and such a refusal say otherwise.  And a screen bound to the    *)
(* service is not idle: it turns idle by the end key, whose request is     *)
(* then on its way, or by the notice of an earlier end or refusal, which   *)
(* the notice of the conversation follows.                                 *)
THEOREM EndKeyHangsUp == Spec => []HangUpAtHand
<1>1. Init => RefusalSeen /\ StartIsLast /\ HangUpUnderWay
  BY DEF Init, ServiceInit, Line!Init, RefusalSeen, StartIsLast, HangUpUnderWay,
         Talking
<1>2. RefusalSeen /\ HangUpUnderWay => HangUpAtHand
  BY DEF RefusalSeen, HangUpUnderWay, HangUpAtHand, Talking, Settled, Has
<1>3. TypeOK /\ RefusalSeen /\ StartIsLast /\ HangUpUnderWay /\ [Next]_vars
        => RefusalSeen' /\ StartIsLast' /\ HangUpUnderWay'
  BY RefusalInductive, StartInductive, HangUpInductive
<1>4. QED
  BY <1>1, <1>2, <1>3, ScreenTypeCorrect, PTL DEF Spec

-----------------------------------------------------------------------------
(* The screen.                                                             *)

LEMMA CallInductive ==
  TypeOK /\ EndIsLast /\ CallUnderWay /\ [Next]_vars => CallUnderWay'
<1> SUFFICES ASSUME TypeOK, EndIsLast, CallUnderWay, [Next]_vars
             PROVE  CallUnderWay'
  OBVIOUS
<1>0. /\ exec \in Seq(Operations) /\ queue \in Seq(Requests)
      /\ main \in Seq(Messages)
  BY DEF TypeOK, ServiceTypeOK
<1>1. /\ "stopRinging" \notin Over /\ "answer" \notin Dials
      /\ "endcall" \notin Dials
      /\ "makecall" \in Operations /\ "dialself" \in Operations
      /\ "endcall" \in Operations /\ "answer" \in Operations
      /\ Dials \subseteq Operations
  BY DEF Over, Dials, Operations, Requests
<1>2. CASE (LineServes \/ LineRings \/ LineTalks \/ LineEnds) /\ UNCHANGED uiVars
  <2>1. CASE line' # "idle"
    BY <2>1, Zenon DEF CallUnderWay
  <2>2. CASE told' \in Ends /\ main' = main \o told'
    BY <1>0, <2>2, OverIsLast, Zenon DEF CallUnderWay
  <2>3. CASE line' = line /\ main' = main
    <3>1. exec' = exec /\ half' = half
      BY <1>2, Zenon DEF LineServes, LineTakesMakecall, LineConnects,
         LineTakesAnswer, LineTakesEndcall, LineRings, LineTalks, LineEnds, Take,
         ReMain, execVars
    <3>2. CASE LineTakesMakecall
      BY <3>2, Zenon DEF LineTakesMakecall, CallUnderWay
    <3>3. CASE LineTakesAnswer \/ LineTakesEndcall
      <4>1. connecting' = connecting /\ (Has(queue, Dials) => Has(queue', Dials))
        BY <1>0, <1>1, <3>3, TakenOther, Zenon
           DEF LineTakesAnswer, LineTakesEndcall, Take
      <4>2. QED
        BY <1>2, <2>3, <3>1, <4>1, Zenon DEF CallUnderWay, uiVars
    <3>4. CASE LineConnects
      <4>1. \/ line' = "outgoing"
            \/ told' \in Ends /\ main' = main \o told'
        BY <3>4 DEF LineConnects, Line!Dial, Line!DialFails, OnCallOver, Ends
      <4>2. "outgoing" # "idle"
        OBVIOUS
      <4>3. QED
        BY <2>1, <2>2, <4>1, <4>2, Zenon
    <3>5. CASE LineRings \/ LineTalks \/ LineEnds
      BY <1>2, <2>3, <3>1, <3>5, Zenon DEF LineRings, LineTalks, LineEnds,
         CallUnderWay, uiVars
    <3>6. QED
      BY <1>2, <3>2, <3>3, <3>4, <3>5, Zenon DEF LineServes
  <2>4. QED
    BY <1>2, <2>1, <2>2, <2>3, LineMovesMain, Zenon
<1>3. CASE Executor /\ UNCHANGED uiVars
  <2>1. line' = line /\ connecting' = connecting
    BY <1>3, ExecutorMoves, Zenon
  <2>2. QED
    BY <1>3, <2>1, ExecutorPassesOn, Zenon DEF CallUnderWay, uiVars
<1>4. CASE OnMain /\ (StopsRinging \/ ServiceAsks) /\ UNCHANGED uiVars
  <2>1. Has(exec, Dials) => Has(exec', Dials)
    <3>1. \/ exec' = exec
          \/ \E op \in Operations : exec' = Append(exec, op)
      <4>1. CASE StopsRinging
        BY <4>1, Zenon DEF StopsRinging, MainTakes
      <4>2. CASE ServiceAsks
        BY <1>1, <4>2, ServiceAsksMoves
      <4>3. QED
        BY <1>4, <4>1, <4>2, Zenon
    <3>2. QED
      BY <3>1, AsksAdd, Zenon
  <2>2. Has(main, Over) => Has(main', Over)
    <3>1. \/ main' = main
          \/ main' = Append(main, "stopRinging")
          \/ main # <<>> /\ Head(main) = "stopRinging" /\ main' = Tail(main)
      BY <1>4, ServiceAsksMoves, Zenon DEF StopsRinging, MainTakes
    <3>2. QED
      BY <1>1, <3>1, StopsRingingKeeps, Zenon
  <2>3. /\ line' = line /\ connecting' = connecting /\ queue' = queue
        /\ half' = half
    BY <1>4, Zenon DEF OnMain, Elsewhere
  <2>4. QED
    BY <1>4, <2>1, <2>2, <2>3, Zenon DEF CallUnderWay, uiVars
<1>5. ASSUME NEW cb \in Notices, Notice(cb), OnMain PROVE CallUnderWay'
  <2>1. /\ main # <<>> /\ Head(main) = cb /\ main' = Tail(main)
        /\ line' = line /\ activity' = activity
    BY <1>5, Zenon DEF Notice, Delivers, MainTakes, OnMain, Elsewhere
  <2>2. CASE activity # "bound"
    BY <2>1, <2>2, Zenon DEF CallUnderWay
  <2>3. CASE activity = "bound" /\ cb \in Over
    <3>1. callState' = "Idle"
      BY <1>5, <2>3 DEF Notice, Shows, Over
    <3>2. QED
      BY <3>1, Zenon DEF CallUnderWay
  <2>4. CASE cb \in Up
    <3>1. line = "idle" => Has(main', Over)
      BY <1>0, <2>1, <2>4, TailFollows, Zenon DEF EndIsLast
    <3>2. QED
      BY <2>1, <3>1, Zenon DEF CallUnderWay
  <2>5. cb \in Up \/ cb \in Over
    BY DEF Notices, CallNotices, Up, Over
  <2>6. QED
    BY <2>2, <2>3, <2>4, <2>5, Zenon
<1>6. CASE KeyDials
  <2>1. activity' = "bound" => \E op \in Dials : exec' = Append(exec, op)
    BY <1>6, Zenon DEF KeyDials, Key, Asks, makeCall, Dials
  <2>2. ASSUME NEW op \in Dials, exec' = Append(exec, op)
        PROVE  Has(exec', Dials)
    <3>1. op \in Operations
      BY <1>1
    <3>2. QED
      BY <1>0, <2>2, <3>1, AppendHas, Zenon
  <2>3. QED
    BY <2>1, <2>2, Zenon DEF CallUnderWay
<1>7. CASE KeyAnswers
  <2>1. /\ line' = line /\ connecting' = connecting /\ queue' = queue
        /\ half' = half /\ callState' = callState /\ activity' = activity
    BY <1>7, Zenon DEF KeyAnswers, Key, OnMain, Elsewhere
  <2>2. Has(exec, Dials) => Has(exec', Dials)
    <3>1. exec' = exec \/ exec' = Append(exec, "answer")
      BY <1>7, Zenon DEF KeyAnswers, Asks, answerCall
    <3>2. QED
      BY <1>1, <3>1, AsksAdd, Zenon
  <2>3. Has(main, Over) => Has(main', Over)
    <3>1. main' = main \/ main' = Append(main, "stopRinging")
      BY <1>7, Zenon DEF KeyAnswers, Asks, answerCall
    <3>2. QED
      BY <1>1, <3>1, StopsRingingKeeps, Zenon
  <2>4. QED
    BY <2>1, <2>2, <2>3, Zenon DEF CallUnderWay
<1>8. CASE KeyEnds
  BY <1>8, Zenon DEF KeyEnds, CallUnderWay
<1>9. CASE ActivityLives /\ OnMain
  <2>1. line' = line
    BY <1>9, Zenon DEF OnMain, Elsewhere
  <2>2. activity' = "bound" /\ line = "idle" => callState' = "Idle"
    BY <1>9, ActivitySyncs, Zenon
  <2>3. QED
    BY <2>1, <2>2, Zenon DEF CallUnderWay
<1>10. CASE UNCHANGED vars
  BY <1>10, Zenon DEF vars, serviceVars, lineVars, execVars, uiVars, CallUnderWay
<1>11. QED
  BY <1>2, <1>3, <1>4, <1>5, <1>6, <1>7, <1>8, <1>9, <1>10, NextThreads, Zenon

(* A screen bound to the service never stays at a call that is gone: the   *)
(* notice of the end comes last, whatever the order of keys, intents and   *)
(* notices, and a key that dials leaves a request or a refusal behind.     *)
THEOREM ScreenFollowsLine == Spec => []ScreenSettles
<1>1. Init => EndIsLast /\ CallUnderWay
  BY DEF Init, ServiceInit, Line!Init, EndIsLast, CallUnderWay, Follows
<1>2. CallUnderWay => ScreenSettles
  BY DEF CallUnderWay, ScreenSettles, Settled, Has, Refusing
<1>3. TypeOK /\ EndIsLast /\ CallUnderWay /\ [Next]_vars
        => EndIsLast' /\ CallUnderWay'
  BY EndInductive, CallInductive
<1>4. QED
  BY <1>1, <1>2, <1>3, ScreenTypeCorrect, PTL DEF Spec

-----------------------------------------------------------------------------
(* The ring timer.                                                         *)

(* RingIsTimed in the terms of this module.                                *)
HangUpComing == (timer /\ ringing) \/ Has(exec, Hangs) \/ Has(queue, Hangs)

LEMMA TimedMeans == RingIsTimed <=> (line = "incoming" => HangUpComing)
BY DEF RingIsTimed, HangUpComing, Has, Hangs

LEMMA TimedInductive ==
  TypeOK /\ ActiveTalks /\ (line = "incoming" => HangUpComing) /\ [Next]_vars
    => (line = "incoming" => HangUpComing)'
<1> SUFFICES ASSUME TypeOK, ActiveTalks, line = "incoming" => HangUpComing,
                    [Next]_vars, line' = "incoming"
             PROVE  HangUpComing'
  OBVIOUS
<1>0. /\ exec \in Seq(Operations) /\ queue \in Seq(Requests)
      /\ "endcall" \in Operations /\ "answer" \in Operations
      /\ "endcall" \in Hangs /\ "answer" \notin Hangs
      /\ \A op \in {"makecall", "dialself"} : op \in Operations
  BY DEF TypeOK, ServiceTypeOK, Operations, Requests, Hangs
<1>1. /\ "idle" # "incoming" /\ "answered" # "incoming"
      /\ "outgoing" # "incoming" /\ "established" # "incoming"
  OBVIOUS
<1> USE DEF HangUpComing
<1>2. CASE LineServes \/ LineTalks \/ LineEnds
  <2>1. LineTakesAnswer /\ line' = line
    <3> USE <1>1 DEF HungUp, NothingHeard
    <3>1. ~LineTakesMakecall /\ ~LineTakesEndcall
      BY Zenon DEF LineTakesMakecall, LineTakesEndcall, Line!End
    <3>2. ~LineConnects
      BY Zenon DEF LineConnects, Line!Dial, Line!DialFails
    <3>3. ~LineTalks /\ ~LineEnds
      BY Zenon DEF LineTalks, LineEnds, Line!Talk, Line!End
    <3>4. LineTakesAnswer => line' = line
      BY Zenon DEF LineTakesAnswer, Line!Answer
    <3>5. QED
      BY <1>2, <3>1, <3>2, <3>3, <3>4, Zenon DEF LineServes
  <2>2. /\ exec' = exec /\ timer' = timer /\ ringing' = ringing
        /\ queue # <<>> /\ Head(queue) = "answer" /\ queue' = Tail(queue)
    BY <2>1, <1>1, Zenon DEF LineTakesAnswer, Take, ReMain, execVars,
       NothingHeard, NoCallback, ringVars, Line!Answer
  <2>3. Has(queue, Hangs) => Has(queue', Hangs)
    BY <1>0, <2>2, TakenOther, Zenon
  <2>4. QED
    BY <2>1, <2>2, <2>3, Zenon
<1>3. CASE LineRings
  BY <1>3, Zenon DEF LineRings, OnIncomingCall
<1>4. CASE Executor
  <2>1. line' = line /\ timer' = timer /\ ringing' = ringing
    BY <1>4, Zenon DEF Executor, ExecDials, ExecRefusesSelf, Refuses,
       ExecCancelsNotification, ExecSilences, ExecPostsRefusal, ExecAnswers,
       ExecPostsAnswer, ExecPostsEndcall, ExecEndsAudio, ExecTakes, Elsewhere,
       NoCallback, ringVars
  <2>2. QED
    BY <1>4, <2>1, ExecutorPassesOn, Zenon
<1>5. CASE OnMain /\ RingTimeout
  <2>1. ~callActive /\ line = "incoming" /\ queue' = queue
    BY <1>1, <1>5, Zenon DEF OnMain, Elsewhere, ActiveTalks
  <2>2. CASE ringing
    <3>1. exec' = Append(exec, "endcall")
      BY <1>5, <2>1, <2>2, Zenon DEF RingTimeout, endCall
    <3>2. QED
      BY <1>0, <3>1, AppendHas, Zenon
  <2>3. CASE ~ringing
    <3>1. exec' = exec
      BY <1>5, <2>3, Zenon DEF RingTimeout
    <3>2. QED
      BY <2>1, <2>3, <3>1, Zenon
  <2>4. QED
    BY <2>2, <2>3, Zenon
<1>6. ASSUME OnMain, UNCHANGED ringVars,
             \/ exec' = exec
             \/ \E op \in Operations : exec' = Append(exec, op)
      PROVE  HangUpComing'
  <2>1. /\ line' = line /\ timer' = timer /\ ringing' = ringing
        /\ queue' = queue
    BY <1>6, Zenon DEF OnMain, Elsewhere, ringVars
  <2>2. Has(exec, Hangs) => Has(exec', Hangs)
    BY <1>6, AsksAdd, Zenon
  <2>3. QED
    BY <2>1, <2>2, Zenon
<1>7. CASE OnMain /\ (ScreenOff \/ NotificationPressed)
  BY <1>0, <1>6, <1>7, Zenon DEF ScreenOff, NotificationPressed, answerCall,
                                 endCall
<1>8. CASE OnMain /\ (StopsRinging \/ \E cb \in Notices : Notice(cb))
  BY <1>6, <1>8, Zenon DEF StopsRinging, Notice, Delivers, MainTakes
<1>9. CASE OnMain /\ (KeyDials \/ KeyAnswers \/ KeyEnds)
  BY <1>0, <1>6, <1>9, Zenon DEF KeyDials, KeyAnswers, KeyEnds, Key, Asks,
                                 makeCall, answerCall, endCall
<1>10. CASE OnMain /\ ActivityLives
  BY <1>6, <1>10, Zenon DEF ActivityLives, UserOpens, ServiceConnected,
     IntentArrives, Resumed, Destroyed, OutsideService
<1>11. CASE UNCHANGED vars
  BY <1>11, Zenon DEF vars, serviceVars, lineVars, execVars, ringVars
<1>12. QED
  BY <1>2, <1>3, <1>4, <1>5, <1>7, <1>8, <1>9, <1>10, <1>11, NextThreads, Zenon
     DEF ServiceAsks

(* A call that rings is about to be hung up, or the ring timer runs and    *)
(* will hang it up: the timer spares a call only if none has ever rung or  *)
(* a conversation is on, and neither is so while a call rings.             *)
THEOREM RingingIsTimed == Spec => []RingIsTimed
<1> DEFINE Timed == line = "incoming" => HangUpComing
<1>1. Init => ActiveTalks /\ Timed
  BY DEF Init, ServiceInit, Line!Init, ActiveTalks
<1>2. TypeOK /\ ActiveTalks /\ Timed /\ [Next]_vars => ActiveTalks' /\ Timed'
  BY ActiveInductive, TimedInductive
<1>3. RingIsTimed <=> Timed
  BY TimedMeans
<1> HIDE DEF Timed
<1>4. QED
  BY <1>1, <1>2, <1>3, ScreenTypeCorrect, PTL DEF Spec

-----------------------------------------------------------------------------
(* The ringtone.                                                           *)

(* What stops it.                                                          *)
Quiet == {"stopRinging", "onCallStarted", "onCallEnded", "onCallFailed"}

Rings == {"onIncomingCall"}

(* Without a call to be talked on yet, silence is the last word.           *)
QuietIsLast ==
  line \notin {"incoming", "answered"} =>
    Follows(main, Rings, Quiet) /\ (sounding => Has(main, Quiet))

(* Every message of the main thread that is appended to main, but the ring *)
(* of a new call, makes for silence.                                       *)
LEMMA QuietAppended ==
  ASSUME main \in Seq(Messages), NEW x \in Quiet, main' = Append(main, x)
  PROVE  Follows(main', Rings, Quiet) /\ Has(main', Quiet)
<1>1. x \in Messages /\ x \notin Rings
  BY DEF Messages, Notices, CallNotices, Quiet, Rings
<1>2. QED
  BY <1>1, AppendFollows, AppendHas, Zenon

LEMMA QuietAtEnd ==
  ASSUME main \in Seq(Messages), told' \in Ends, main' = main \o told'
  PROVE  Follows(main', Rings, Quiet) /\ Has(main', Quiet)
<1>1. /\ {"onCallEnded", "onCallFailed"} \subseteq Quiet
      /\ "onCallEnded" \notin Rings /\ "onCallFailed" \notin Rings
  BY DEF Quiet, Rings
<1>2. QED
  BY <1>1, EndsComeLast, Zenon

(* A message is taken: the ring of a call turns the sound on, and it stays *)
(* on only behind a message that does not make for silence.                *)
LEMMA QuietTaken ==
  ASSUME main \in Seq(Messages), main # <<>>, main' = Tail(main),
         Follows(main, Rings, Quiet), sounding => Has(main, Quiet),
         \/ sounding' => Head(main) \in Rings
         \/ sounding' = sounding /\ Head(main) \notin Quiet
  PROVE  Follows(main', Rings, Quiet) /\ (sounding' => Has(main', Quiet))
<1>1. /\ Follows(main', Rings, Quiet)
      /\ Head(main) \in Rings => Has(main', Quiet)
  BY TailFollows, Zenon
<1>2. Has(main, Quiet) /\ Head(main) \notin Quiet => Has(main', Quiet)
  BY TailHas, Zenon
<1>3. sounding' = sounding /\ Head(main) \notin Quiet
        => (sounding' => Has(main', Quiet))
  <2>1. sounding' = sounding /\ sounding' => sounding
    OBVIOUS
  <2>2. QED
    BY <1>2, <2>1, Zenon
<1>4. QED
  BY <1>1, <1>3, Zenon

LEMMA QuietInductive ==
  TypeOK /\ QuietIsLast /\ [Next]_vars => QuietIsLast'
<1> SUFFICES ASSUME TypeOK, QuietIsLast, [Next]_vars,
                    line' \notin {"incoming", "answered"}
             PROVE  Follows(main', Rings, Quiet)
                    /\ (sounding' => Has(main', Quiet))
  BY DEF QuietIsLast
<1>0. main \in Seq(Messages)
  BY DEF TypeOK, ServiceTypeOK
<1>1. /\ "stopRinging" \in Quiet /\ "onCallStarted" \in Quiet
      /\ "onCallFailed" \in Quiet /\ "stopRinging" \notin Rings
  BY DEF Quiet, Rings
<1>2. ASSUME line' = line, main' = main, sounding' = sounding
      PROVE  Follows(main', Rings, Quiet) /\ (sounding' => Has(main', Quiet))
  BY <1>2, Zenon DEF QuietIsLast
<1>3. CASE LineServes \/ LineEnds
  <2>1. \/ line' = line /\ main' = main /\ sounding' = sounding
        \/ line = "idle" /\ main' = main /\ sounding' = sounding
        \/ told' \in Ends /\ main' = main \o told'
    BY <1>3 DEF LineServes, LineTakesMakecall, LineConnects, LineTakesAnswer,
       LineTakesEndcall, LineEnds, Take, ReMain, HungUp, NothingHeard,
       OnCallOver, NoCallback, Ends, Line!End, Line!Dial, Line!DialFails,
       Line!Answer
  <2>2. "idle" \notin {"incoming", "answered"}
    OBVIOUS
  <2>3. CASE line = "idle" /\ main' = main /\ sounding' = sounding
    BY <2>2, <2>3, Zenon DEF QuietIsLast
  <2>4. CASE told' \in Ends /\ main' = main \o told'
    BY <1>0, <2>4, QuietAtEnd, Zenon
  <2>5. QED
    BY <1>2, <2>1, <2>3, <2>4, Zenon
<1>4. CASE LineTalks
  <2>1. main' = Append(main, "onCallStarted")
    BY <1>4, Zenon DEF LineTalks, OnCallStarted
  <2>2. QED
    BY <1>0, <1>1, <2>1, QuietAppended, Zenon
<1>5. CASE LineRings
  BY <1>5 DEF LineRings, Line!Ring
<1>6. CASE Executor
  <2>1. CASE main' = main
    BY <1>2, <1>6, <2>1, ExecutorMoves, Zenon
  <2>2. CASE main' = Append(main, "stopRinging")
    BY <1>0, <1>1, <2>2, QuietAppended, Zenon
  <2>3. CASE main' = Append(main, "refusal")
    <3>1. line' = line /\ sounding' = sounding
      BY <1>6, ExecutorMoves, Zenon
    <3>2. Follows(main, Rings, Quiet) /\ (sounding => Has(main, Quiet))
      BY <3>1, Zenon DEF QuietIsLast
    <3>3. "refusal" \in Messages /\ "refusal" \notin Rings
      BY DEF Messages, Notices, Rings
    <3>4. QED
      BY <1>0, <2>3, <3>1, <3>2, <3>3, AppendFollows, AppendHas, Zenon
  <2>4. QED
    BY <1>6, <2>1, <2>2, <2>3, ExecutorMoves, Zenon
<1>7. ASSUME OnMain, sounding' = sounding,
             main' = main \/ main' = Append(main, "stopRinging")
      PROVE  Follows(main', Rings, Quiet) /\ (sounding' => Has(main', Quiet))
  <2>1. line' = line
    BY <1>7, Zenon DEF OnMain, Elsewhere
  <2>2. QED
    BY <1>0, <1>1, <1>2, <1>7, <2>1, QuietAppended, Zenon
<1>8. CASE OnMain /\ ServiceAsks
  <2>1. sounding' = sounding
    BY <1>8, Zenon DEF ServiceAsks, RingTimeout, ScreenOff, NotificationPressed
  <2>2. QED
    BY <1>7, <1>8, <2>1, ServiceAsksMoves, Zenon
<1>9. ASSUME OnMain, NEW msg, MainTakes(msg),
             \/ sounding' => msg \in Rings
             \/ sounding' = sounding /\ msg \notin Quiet
      PROVE  Follows(main', Rings, Quiet) /\ (sounding' => Has(main', Quiet))
  <2>1. line' = line /\ main # <<>> /\ Head(main) = msg /\ main' = Tail(main)
    BY <1>9, Zenon DEF OnMain, Elsewhere, MainTakes
  <2>2. Follows(main, Rings, Quiet) /\ (sounding => Has(main, Quiet))
    BY <2>1, Zenon DEF QuietIsLast
  <2>3. QED
    BY <1>0, <1>9, <2>1, <2>2, QuietTaken, Zenon
<1>10. CASE OnMain /\ (StopsRinging \/ \E cb \in Notices : Notice(cb))
  <2>1. CASE StopsRinging
    BY <1>9, <1>10, <2>1, Zenon DEF StopsRinging
  <2>2. ASSUME NEW cb \in Notices, Notice(cb)
        PROVE  Follows(main', Rings, Quiet) /\ (sounding' => Has(main', Quiet))
    <3>1. /\ MainTakes(cb)
          /\ sounding' = (cb = "onIncomingCall" \/ (sounding /\ cb = "refusal"))
      BY <2>2, Zenon DEF Notice, Delivers
    <3>2. /\ "onIncomingCall" \in Rings /\ "refusal" \notin Quiet
          /\ "refusal" # "onIncomingCall" /\ sounding \in BOOLEAN
      BY DEF Rings, Quiet, TypeOK, ServiceTypeOK
    <3>3. CASE cb = "refusal"
      <4>1. sounding' = sounding
        BY <3>1, <3>2, <3>3
      <4>2. QED
        BY <1>9, <1>10, <3>1, <3>2, <3>3, <4>1, Zenon
    <3>4. CASE cb # "refusal"
      <4>1. sounding' => cb \in Rings
        BY <3>1, <3>2, <3>4
      <4>2. QED
        BY <1>9, <1>10, <3>1, <4>1, Zenon
    <3>5. QED
      BY <3>3, <3>4
  <2>3. QED
    BY <1>10, <2>1, <2>2, Zenon
<1>11. CASE OnMain /\ (KeyDials \/ KeyAnswers \/ KeyEnds)
  BY <1>7, <1>11, Zenon DEF KeyDials, KeyAnswers, KeyEnds, Key, Asks, makeCall,
                            answerCall, endCall
<1>12. CASE OnMain /\ ActivityLives
  BY <1>7, <1>12, Zenon DEF ActivityLives, UserOpens, ServiceConnected,
     IntentArrives, Resumed, Destroyed, OutsideService
<1>13. CASE UNCHANGED vars
  BY <1>2, <1>13, Zenon DEF vars, serviceVars, lineVars
<1>14. QED
  BY <1>3, <1>4, <1>5, <1>6, <1>8, <1>10, <1>11, <1>12, <1>13, NextThreads,
     Zenon

(* With no message left for the main thread, ringtone and vibration are on *)
(* only for a call that has not been talked on yet: a call that leaves     *)
(* that state leaves a message that stops them, behind its own ring.       *)
THEOREM SoundBelongsToCall == Spec => []SoundHasCall
<1>1. Init => QuietIsLast
  BY DEF Init, ServiceInit, Line!Init, QuietIsLast, Follows
<1>2. QuietIsLast => SoundHasCall
  BY DEF QuietIsLast, SoundHasCall, Has
<1>3. TypeOK /\ QuietIsLast /\ [Next]_vars => QuietIsLast'
  BY QuietInductive
<1>4. QED
  BY <1>1, <1>2, <1>3, ScreenTypeCorrect, PTL DEF Spec
=============================================================================
