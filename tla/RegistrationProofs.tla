-------------------------- MODULE RegistrationProofs --------------------------
(***************************************************************************)
(* What holds of Registration for every number of clients and contacts.    *)
(*                                                                         *)
(* The client's record carries the argument: first what each of its        *)
(* functions does to a record, then invariants over all clients.           *)
(***************************************************************************)
EXTENDS Registration, TLAPS

(* A client without the bound on its requests in flight.                   *)
AnyClient ==
  [state : {"unused", "live", "terminated", "freed"},
   contact : Contacts,
   expires : BOOLEAN,
   registered : BOOLEAN,
   tmr : BOOLEAN,
   req : BOOLEAN,
   out : [Kinds -> Nat]]

-----------------------------------------------------------------------------
(* The functions of the client's record.                                   *)

(* A request that is sent is one more in flight, of the kind the client    *)
(* wants, and the latest one.                                              *)
LEMMA SentRecord ==
  ASSUME NEW r \in AnyClient
  PROVE  /\ Sent(r) \in AnyClient
         /\ Sent(r).state = r.state
         /\ Sent(r).expires = r.expires
         /\ Sent(r).registered = r.registered
         /\ Sent(r).tmr = r.tmr
         /\ Sent(r).req = TRUE
         /\ Sent(r).out["bind"] = r.out["bind"] + (IF r.expires THEN 1 ELSE 0)
         /\ Sent(r).out["unbind"] = r.out["unbind"] + (IF r.expires THEN 0 ELSE 1)
<1> DEFINE kind == IF r.expires THEN "bind" ELSE "unbind"
           out == [r.out EXCEPT ![kind] = @ + 1]
<1>1. kind \in Kinds
  BY DEF Kinds
<1>2. r.out \in [Kinds -> Nat] /\ r.expires \in BOOLEAN
  BY DEF AnyClient
<1>3. /\ out \in [Kinds -> Nat]
      /\ out["bind"] = r.out["bind"] + (IF r.expires THEN 1 ELSE 0)
      /\ out["unbind"] = r.out["unbind"] + (IF r.expires THEN 0 ELSE 1)
  BY <1>1, <1>2 DEF Kinds
<1>4. Sent(r) = [r EXCEPT !.req = TRUE, !.out = out]
  BY DEF Sent, AnyClient
<1> HIDE DEF out
<1>5. QED
  BY <1>3, <1>4 DEF AnyClient

(* One that cannot be sent clears the pointer and nothing else.            *)
LEMMA NotSentRecord ==
  ASSUME NEW r \in AnyClient
  PROVE  /\ NotSent(r) \in AnyClient
         /\ NotSent(r) = [r EXCEPT !.req = FALSE]
         /\ NotSent(r).state = r.state
         /\ NotSent(r).expires = r.expires
         /\ NotSent(r).registered = r.registered
         /\ NotSent(r).tmr = r.tmr
         /\ NotSent(r).out = r.out
BY DEF AnyClient, NotSent

(* A freed client keeps only what points to it.                            *)
LEMMA FreedRecord ==
  ASSUME NEW r \in AnyClient
  PROVE  /\ Freed(r) \in AnyClient
         /\ Freed(r).state = "freed"
         /\ Freed(r).tmr = FALSE
         /\ Freed(r).out = r.out
<1>1. (CHOOSE contact \in Contacts : TRUE) \in Contacts
  BY ContactsAssumption
<1>2. QED
  BY <1>1 DEF AnyClient, Freed, Blank, Allocated, Kinds

(* An answer takes one request of its kind away.                           *)
LEMMA AnsweredRecord ==
  ASSUME NEW r \in AnyClient, NEW kind \in Kinds, r.out[kind] > 0
  PROVE  /\ Answered(r, kind) \in AnyClient
         /\ Answered(r, kind).state = r.state
         /\ Answered(r, kind).expires = r.expires
         /\ Answered(r, kind).registered = r.registered
         /\ Answered(r, kind).tmr = r.tmr
         /\ Answered(r, kind).out["bind"]
              = r.out["bind"] - (IF kind = "bind" THEN 1 ELSE 0)
         /\ Answered(r, kind).out["unbind"]
              = r.out["unbind"] - (IF kind = "bind" THEN 0 ELSE 1)
<1> DEFINE out == [r.out EXCEPT ![kind] = @ - 1]
<1>1. r.out \in [Kinds -> Nat]
  BY DEF AnyClient
<1>2. /\ out \in [Kinds -> Nat]
      /\ out["bind"] = r.out["bind"] - (IF kind = "bind" THEN 1 ELSE 0)
      /\ out["unbind"] = r.out["unbind"] - (IF kind = "bind" THEN 0 ELSE 1)
  BY <1>1 DEF Kinds
<1>3. Answered(r, kind) = [r EXCEPT !.req = FALSE, !.out = out]
  BY DEF Answered, AnyClient
<1> HIDE DEF out
<1>4. QED
  BY <1>2, <1>3 DEF AnyClient

(* A new client has nothing in flight.                                     *)
LEMMA AllocatedRecord ==
  ASSUME NEW contact \in Contacts
  PROVE  /\ Allocated(contact) \in AnyClient
         /\ Allocated(contact).state = "live"
         /\ Allocated(contact).expires = TRUE
         /\ Allocated(contact).registered = FALSE
         /\ Allocated(contact).tmr = FALSE
         /\ Allocated(contact).out["bind"] = 0
         /\ Allocated(contact).out["unbind"] = 0
BY DEF AnyClient, Allocated, Kinds

(* Requests in flight, and with them the timer that will send another.      *)
Flight(r) == r.out["bind"] + r.out["unbind"]
Load(r) == Flight(r) + (IF r.tmr THEN 1 ELSE 0)

(* The types of the members.                                               *)
LEMMA Members ==
  ASSUME NEW r \in AnyClient
  PROVE  /\ r.state \in {"unused", "live", "terminated", "freed"}
         /\ r.expires \in BOOLEAN
         /\ r.registered \in BOOLEAN
         /\ r.tmr \in BOOLEAN
         /\ r.req \in BOOLEAN
         /\ r.out["bind"] \in Nat
         /\ r.out["unbind"] \in Nat
         /\ Flight(r) \in Nat
         /\ Load(r) \in Nat
BY DEF AnyClient, Kinds, Flight, Load

(* The end of response_handler frees a terminated client and sets the      *)
(* timer of any other.                                                     *)
LEMMA FinishesRecord ==
  ASSUME NEW r \in AnyClient
  PROVE  /\ Finishes(r) \in AnyClient
         /\ Finishes(r).out = r.out
         /\ r.state = "terminated" => /\ Finishes(r).state = "freed"
                                      /\ Finishes(r).tmr = FALSE
         /\ r.state # "terminated" => /\ Finishes(r).state = r.state
                                      /\ Finishes(r).expires = r.expires
                                      /\ Finishes(r).registered = r.registered
                                      /\ Finishes(r).tmr = r.expires
<1>1. CASE r.state = "terminated"
  BY <1>1, FreedRecord DEF Finishes
<1>2. CASE r.state # "terminated"
  BY <1>2 DEF Finishes, AnyClient
<1>3. QED
  BY <1>1, <1>2

(* sipreg_unregister asks for no binding any more, and sends or fails.     *)
LEMMA UnregistersRecord ==
  ASSUME NEW r \in AnyClient, NEW s \in Unregisters(r)
  PROVE  /\ s \in AnyClient
         /\ s.state = r.state
         /\ s.expires = FALSE
         /\ s.tmr = r.tmr
         /\ \/ s.req /\ Flight(s) = Flight(r) + 1
            \/ ~s.req /\ Flight(s) = Flight(r)
<1> DEFINE quits == [r EXCEPT !.expires = FALSE]
<1>1. /\ quits \in AnyClient
      /\ quits.state = r.state
      /\ quits.expires = FALSE
      /\ quits.tmr = r.tmr
      /\ quits.out = r.out
  BY DEF AnyClient
<1>2. s = Sent(quits) \/ s = NotSent(quits)
  BY DEF Unregisters
<1>3. NotSent(quits).req = FALSE
  BY <1>1 DEF NotSent, AnyClient
<1>4. r.out["bind"] \in Nat /\ r.out["unbind"] \in Nat
  BY Members
<1> HIDE DEF quits
<1>5. CASE s = Sent(quits)
  <2>1. /\ s \in AnyClient
        /\ s.state = quits.state /\ s.tmr = quits.tmr
        /\ s.expires = quits.expires /\ s.req = TRUE
        /\ s.out["bind"] = quits.out["bind"] + (IF quits.expires THEN 1 ELSE 0)
        /\ s.out["unbind"]
             = quits.out["unbind"] + (IF quits.expires THEN 0 ELSE 1)
    BY <1>1, <1>5, SentRecord
  <2>2. QED
    BY <1>1, <1>4, <2>1 DEF Flight
<1>6. CASE s = NotSent(quits)
  BY <1>1, <1>3, <1>4, <1>6, NotSentRecord DEF Flight
<1>7. QED
  BY <1>2, <1>5, <1>6

(* The destructor waits for a pending request or sends one of its own, and *)
(* the client is freed at once only when there is none.                    *)
LEMMA DestroysRecord ==
  ASSUME NEW r \in AnyClient, NEW s \in Destroys(r)
  PROVE  /\ s \in AnyClient
         /\ s.tmr = FALSE
         /\ \/ s.state = "terminated" /\ r.req /\ Flight(s) = Flight(r)
            \/ s.state = "terminated" /\ ~r.req /\ Flight(s) = Flight(r) + 1
            \/ s.state = "freed" /\ ~r.req /\ Flight(s) = Flight(r)
<1> DEFINE stays == [r EXCEPT !.state = "terminated", !.tmr = FALSE]
<1>1. /\ stays \in AnyClient
      /\ stays.state = "terminated"
      /\ stays.expires = r.expires
      /\ stays.tmr = FALSE
      /\ stays.out = r.out
  BY DEF AnyClient
<1>2. \/ s = stays /\ r.req
      \/ s = Sent(stays) /\ ~r.req
      \/ s = Freed(r) /\ ~r.req
  BY DEF Destroys
<1>3. /\ r.out["bind"] \in Nat /\ r.out["unbind"] \in Nat
      /\ r.expires \in BOOLEAN
  BY Members
<1> HIDE DEF stays
<1>4. CASE s = stays /\ r.req
  BY <1>1, <1>4 DEF Flight
<1>5. CASE s = Sent(stays) /\ ~r.req
  <2>1. /\ s \in AnyClient
        /\ s.state = stays.state /\ s.tmr = stays.tmr
        /\ s.out["bind"] = stays.out["bind"] + (IF stays.expires THEN 1 ELSE 0)
        /\ s.out["unbind"]
             = stays.out["unbind"] + (IF stays.expires THEN 0 ELSE 1)
    BY <1>1, <1>5, SentRecord
  <2>2. QED
    BY <1>1, <1>3, <1>5, <2>1 DEF Flight
<1>6. CASE s = Freed(r) /\ ~r.req
  BY <1>6, FreedRecord DEF Flight
<1>7. QED
  BY <1>2, <1>4, <1>5, <1>6

-----------------------------------------------------------------------------
(* What a reply or a timer does to the clients.                            *)

(* A client that is not live has no timer, one that was never allocated no *)
(* request, and one that wants a binding has not asked to lose it.         *)
RecordOK(r) ==
  /\ r.state # "live" => ~r.tmr
  /\ r.state = "unused" => Flight(r) = 0
  /\ (r.state = "live" /\ r.expires) => r.out["unbind"] = 0

(* The client c becomes s: a live one goes on, a terminated one waits or   *)
(* goes, a freed one is answered.                                          *)
Lives(c, s) ==
  /\ reg[c].state = "live"
  /\ s.state = "live"
  /\ s.expires = reg[c].expires
  /\ RecordOK(s)
  /\ Load(s) <= Load(reg[c])
  /\ (s.expires /\ Load(reg[c]) > 0) => Load(s) > 0
  /\ (s.expires /\ Flight(s) = 0 /\ g_registered') => s.registered
  /\ touched' = touched

Fades(c, s) ==
  /\ reg[c].state = "terminated"
  /\ ~s.tmr
  /\ \/ s.state = "terminated" /\ Flight(s) = Flight(reg[c])
     \/ s.state = "freed" /\ Flight(s) = Flight(reg[c]) - 1
  /\ g_registered' = g_registered
  /\ touched' = touched

Haunts(c, s) ==
  /\ reg[c].state = "freed"
  /\ s.state = "freed"
  /\ ~s.tmr
  /\ Flight(reg[c]) > 0
  /\ g_registered' = g_registered

Becomes(c, s) ==
  /\ reg' = [reg EXCEPT ![c] = s]
  /\ Lives(c, s) \/ Fades(c, s) \/ Haunts(c, s)

(* A 2xx, or a final failure: the request goes and the handler ends.       *)
LEMMA ReplyMoves ==
  ASSUME NEW c \in Clients, NEW kind \in Kinds, NEW ok \in BOOLEAN,
         NEW a \in AnyClient,
         reg[c] \in AnyClient, RecordOK(reg[c]), InFlight(c, kind),
         a.state = reg[c].state, a.expires = reg[c].expires,
         a.tmr = reg[c].tmr,
         a.out["bind"] = reg[c].out["bind"] - (IF kind = "bind" THEN 1 ELSE 0),
         a.out["unbind"]
           = reg[c].out["unbind"] - (IF kind = "bind" THEN 0 ELSE 1),
         (ok /\ kind = "bind") => a.registered,
         reg' = [reg EXCEPT ![c] = Finishes(a)],
         Reports(c, ok), touched' = touched
  PROVE  Becomes(c, Finishes(a)) /\ Finishes(a) \in AnyClient
<1> DEFINE r == reg[c]
           s == Finishes(a)
<1>1. /\ r.state \in {"live", "terminated", "unused"}
      /\ r.out[kind] > 0
  BY Members DEF InFlight
<1>2. /\ r.out["bind"] \in Nat /\ r.out["unbind"] \in Nat
      /\ r.expires \in BOOLEAN /\ r.tmr \in BOOLEAN
  BY Members
<1>3. kind = "bind" \/ kind = "unbind"
  BY DEF Kinds
<1>4. r.state # "unused"
  BY <1>1, <1>2, <1>3 DEF RecordOK, Flight
<1>5. s \in AnyClient /\ s.out = a.out
  BY FinishesRecord
<1>6. CASE r.state = "live"
  <2>1. /\ s.state = "live" /\ s.expires = r.expires
        /\ s.registered = a.registered /\ s.tmr = r.expires
    BY <1>6, FinishesRecord
  <2>2. g_registered' = ok
    BY <1>6 DEF Reports
  <2>3. RecordOK(s)
    BY <1>1, <1>2, <1>3, <1>5, <1>6, <2>1 DEF RecordOK
  <2>4. Load(s) <= Load(r) /\ ((s.expires /\ Load(r) > 0) => Load(s) > 0)
    BY <1>1, <1>2, <1>3, <1>5, <1>6, <2>1 DEF RecordOK, Load, Flight
  <2>5. (s.expires /\ Flight(s) = 0 /\ g_registered') => s.registered
    <3>1. r.expires => kind = "bind"
      BY <1>1, <1>2, <1>3, <1>6 DEF RecordOK
    <3>2. QED
      BY <2>1, <2>2, <3>1, Zenon
  <2>6. Lives(c, s)
    BY <1>6, <2>1, <2>3, <2>4, <2>5 DEF Lives
  <2>7. QED
    BY <1>5, <2>6 DEF Becomes
<1>7. CASE r.state = "terminated"
  <2>1. s.state = "freed" /\ s.tmr = FALSE
    <3>1. a.state = "terminated"
      BY <1>7
    <3>2. QED
      BY <3>1, FinishesRecord, Zenon
  <2>2. Flight(s) = Flight(r) - 1
    BY <1>2, <1>3, <1>5 DEF Flight
  <2>3. g_registered' = g_registered
    BY <1>7 DEF Reports
  <2>4. Fades(c, s)
    BY <1>7, <2>1, <2>2, <2>3 DEF Fades
  <2>5. QED
    BY <1>5, <2>4 DEF Becomes
<1>8. QED
  BY <1>1, <1>4, <1>6, <1>7

(* A challenge: one request goes, another is sent.                         *)
LEMMA ChallengedMoves ==
  ASSUME NEW c \in Clients, NEW kind \in Kinds,
         reg[c] \in AnyClient, RecordOK(reg[c]), Challenged(c, kind)
  PROVE  \E s \in AnyClient : Becomes(c, s)
<1> DEFINE r == reg[c]
           a == Answered(r, kind)
           s == Sent(a)
<1>1. /\ r.state \in {"live", "terminated", "unused"}
      /\ r.out[kind] > 0
      /\ r.state = "live" \/ r.registered
  BY Members DEF Challenged, InFlight
<1>2. /\ r.out["bind"] \in Nat /\ r.out["unbind"] \in Nat
      /\ r.expires \in BOOLEAN /\ r.tmr \in BOOLEAN
  BY Members
<1>3. kind = "bind" \/ kind = "unbind"
  BY DEF Kinds
<1>4. r.state # "unused"
  BY <1>1, <1>2, <1>3 DEF RecordOK, Flight
<1>5. /\ a \in AnyClient
      /\ a.state = r.state /\ a.expires = r.expires /\ a.tmr = r.tmr
      /\ a.out["bind"] = r.out["bind"] - (IF kind = "bind" THEN 1 ELSE 0)
      /\ a.out["unbind"] = r.out["unbind"] - (IF kind = "bind" THEN 0 ELSE 1)
  BY <1>1, AnsweredRecord
<1> HIDE DEF a
<1>6. /\ s \in AnyClient
      /\ s.state = a.state /\ s.expires = a.expires /\ s.tmr = a.tmr
      /\ s.out["bind"] = a.out["bind"] + (IF a.expires THEN 1 ELSE 0)
      /\ s.out["unbind"] = a.out["unbind"] + (IF a.expires THEN 0 ELSE 1)
  BY <1>5, SentRecord
<1>7. /\ reg' = [reg EXCEPT ![c] = s]
      /\ g_registered' = g_registered /\ touched' = touched
  BY DEF Challenged, a
<1> HIDE DEF s
<1>8. Flight(s) = Flight(r) /\ Flight(s) > 0
  BY <1>1, <1>2, <1>3, <1>5, <1>6 DEF Flight
<1>9. CASE r.state = "live"
  <2>1. RecordOK(s)
    BY <1>1, <1>2, <1>3, <1>5, <1>6, <1>9 DEF RecordOK
  <2>2. Load(s) = Load(r) /\ Load(s) > 0
    BY <1>2, <1>5, <1>6, <1>8 DEF Load, Flight
  <2>3. Lives(c, s)
    BY <1>5, <1>6, <1>7, <1>8, <1>9, <2>1, <2>2, Members DEF Lives
  <2>4. QED
    BY <1>6, <1>7, <2>3 DEF Becomes
<1>10. CASE r.state = "terminated"
  <2>1. Fades(c, s)
    BY <1>5, <1>6, <1>7, <1>8, <1>10 DEF Fades, RecordOK
  <2>2. QED
    BY <1>6, <1>7, <2>1 DEF Becomes
<1>11. QED
  BY <1>1, <1>4, <1>9, <1>10

(* The timer of a client, which is then a live one.                        *)
LEMMA TimerMoves ==
  ASSUME NEW c \in Clients, reg[c] \in AnyClient, RecordOK(reg[c]),
         TimerSends(c) \/ TimerFails(c)
  PROVE  \E s \in AnyClient : Becomes(c, s)
<1> DEFINE r == reg[c]
<1>1. /\ r.tmr /\ r.state = "live"
      /\ r.out["bind"] \in Nat /\ r.out["unbind"] \in Nat
      /\ r.expires \in BOOLEAN
  BY Members DEF RecordOK, TimerSends, TimerFails
<1>2. CASE TimerSends(c)
  <2> DEFINE a == [r EXCEPT !.tmr = FALSE]
             s == Sent(a)
  <2>1. /\ a \in AnyClient
        /\ a.state = r.state /\ a.expires = r.expires /\ a.tmr = FALSE
        /\ a.out = r.out
    BY DEF AnyClient
  <2>2. reg' = [reg EXCEPT ![c] = s] /\ touched' = touched
    BY <1>2 DEF TimerSends
  <2> HIDE DEF a
  <2>3. /\ s \in AnyClient
        /\ s.state = a.state /\ s.expires = a.expires /\ s.tmr = a.tmr
        /\ s.out["bind"] = a.out["bind"] + (IF a.expires THEN 1 ELSE 0)
        /\ s.out["unbind"] = a.out["unbind"] + (IF a.expires THEN 0 ELSE 1)
    BY <2>1, SentRecord
  <2> HIDE DEF s
  <2>4. RecordOK(s)
    BY <1>1, <2>1, <2>3 DEF RecordOK
  <2>5. Load(s) = Load(r) /\ Flight(s) > 0 /\ Load(s) > 0
    BY <1>1, <2>1, <2>3 DEF Load, Flight
  <2>6. Lives(c, s)
    BY <1>1, <2>1, <2>2, <2>3, <2>4, <2>5, Members DEF Lives
  <2>7. QED
    BY <2>2, <2>3, <2>6 DEF Becomes
<1>3. CASE TimerFails(c)
  <2> DEFINE s == NotSent(r)
  <2>1. /\ s \in AnyClient
        /\ s.state = r.state /\ s.expires = r.expires /\ s.tmr = r.tmr
        /\ s.out = r.out
    BY NotSentRecord
  <2>2. /\ reg' = [reg EXCEPT ![c] = s] /\ touched' = touched
        /\ g_registered' = FALSE
    BY <1>1, <1>3 DEF TimerFails, Reports
  <2> HIDE DEF s
  <2>3. RecordOK(s) /\ Load(s) = Load(r)
    BY <2>1 DEF RecordOK, Load, Flight
  <2>4. Lives(c, s)
    BY <1>1, <2>1, <2>2, <2>3, Members DEF Lives
  <2>5. QED
    BY <2>1, <2>2, <2>4 DEF Becomes
<1>4. QED
  BY <1>2, <1>3

(* Every step of RegStep is one of these, or leaves the clients alone.     *)
LEMMA RegStepMoves ==
  ASSUME reg \in [Clients -> AnyClient],
         \A c \in Clients : RecordOK(reg[c]),
         RegStep
  PROVE  \/ UNCHANGED <<reg, g_registered, touched>>
         \/ \E c \in Clients : \E s \in AnyClient : Becomes(c, s)
<1>1. ASSUME NEW c \in Clients, NEW kind \in Kinds, AnswerOk(c, kind)
      PROVE  \E s \in AnyClient : Becomes(c, s)
  <2> DEFINE b == Answered(reg[c], kind)
             a == [b EXCEPT !.registered = (kind = "bind")]
  <2>1. reg[c] \in AnyClient /\ RecordOK(reg[c]) /\ InFlight(c, kind)
    BY <1>1 DEF AnswerOk
  <2>2. reg[c].out[kind] > 0
    BY <2>1 DEF InFlight
  <2>3. /\ b \in AnyClient
        /\ b.state = reg[c].state /\ b.expires = reg[c].expires
        /\ b.tmr = reg[c].tmr
        /\ b.out["bind"] = reg[c].out["bind"] - (IF kind = "bind" THEN 1 ELSE 0)
        /\ b.out["unbind"]
             = reg[c].out["unbind"] - (IF kind = "bind" THEN 0 ELSE 1)
    BY <2>1, <2>2, AnsweredRecord
  <2>4. /\ reg' = [reg EXCEPT ![c] = Finishes(a)]
        /\ Reports(c, TRUE) /\ touched' = touched
    BY <1>1 DEF AnswerOk
  <2> HIDE DEF b
  <2>5. /\ a \in AnyClient
        /\ a.state = b.state /\ a.expires = b.expires /\ a.tmr = b.tmr
        /\ a.out = b.out
        /\ kind = "bind" => a.registered
    BY <2>3 DEF AnyClient
  <2> HIDE DEF a
  <2>6. Becomes(c, Finishes(a)) /\ Finishes(a) \in AnyClient
    BY <2>1, <2>3, <2>4, <2>5, ReplyMoves
  <2>7. QED
    BY <2>6
<1>2. ASSUME NEW c \in Clients, NEW kind \in Kinds, AnswerFail(c, kind)
      PROVE  \E s \in AnyClient : Becomes(c, s)
  <2> DEFINE a == Answered(reg[c], kind)
  <2>1. reg[c] \in AnyClient /\ RecordOK(reg[c]) /\ InFlight(c, kind)
    BY <1>2 DEF AnswerFail
  <2>2. reg[c].out[kind] > 0
    BY <2>1 DEF InFlight
  <2>3. /\ a \in AnyClient
        /\ a.state = reg[c].state /\ a.expires = reg[c].expires
        /\ a.tmr = reg[c].tmr
        /\ a.out["bind"] = reg[c].out["bind"] - (IF kind = "bind" THEN 1 ELSE 0)
        /\ a.out["unbind"]
             = reg[c].out["unbind"] - (IF kind = "bind" THEN 0 ELSE 1)
    BY <2>1, <2>2, AnsweredRecord
  <2>4. /\ reg' = [reg EXCEPT ![c] = Finishes(a)]
        /\ Reports(c, FALSE) /\ touched' = touched
    BY <1>2 DEF AnswerFail
  <2> HIDE DEF a
  <2>5. Becomes(c, Finishes(a)) /\ Finishes(a) \in AnyClient
    BY <2>1, <2>3, <2>4, ReplyMoves
  <2>6. QED
    BY <2>5
<1>3. ASSUME NEW c \in Clients, NEW kind \in Kinds, UseAfterFree(c, kind)
      PROVE  \E s \in AnyClient : Becomes(c, s)
  <2> DEFINE r == reg[c]
             out == [r.out EXCEPT ![kind] = @ - 1]
             s == [r EXCEPT !.out = out]
  <2>1. /\ r \in AnyClient /\ RecordOK(r)
        /\ r.state = "freed" /\ r.out[kind] > 0
        /\ reg' = [reg EXCEPT ![c] = s]
        /\ g_registered' = g_registered
    BY <1>3 DEF UseAfterFree
  <2>2. r.out \in [Kinds -> Nat]
    BY <2>1 DEF AnyClient
  <2>3. out \in [Kinds -> Nat]
    BY <2>1, <2>2
  <2> HIDE DEF out
  <2>4. s \in AnyClient /\ s.state = r.state /\ s.tmr = r.tmr
    BY <2>1, <2>3 DEF AnyClient
  <2>5. Flight(r) > 0
    BY <2>1, <2>2 DEF Flight, Kinds
  <2>6. Haunts(c, s)
    BY <2>1, <2>4, <2>5 DEF Haunts, RecordOK
  <2>7. QED
    BY <2>1, <2>4, <2>6 DEF Becomes
<1>4. ASSUME NEW c \in Clients, NEW kind \in Kinds, Challenged(c, kind)
      PROVE  \E s \in AnyClient : Becomes(c, s)
  BY <1>4, ChallengedMoves
<1>5. ASSUME NEW c \in Clients, TimerSends(c) \/ TimerFails(c)
      PROVE  \E s \in AnyClient : Becomes(c, s)
  BY <1>5, TimerMoves
<1>6. BindingLost => UNCHANGED <<reg, g_registered, touched>>
  BY DEF BindingLost
<1>7. QED
  BY <1>1, <1>2, <1>3, <1>4, <1>5, <1>6, Zenon DEF RegStep

-----------------------------------------------------------------------------
(* What the workers do to the clients.                                     *)

(* ua_create_and_register: no agent, or one with a new client, whose first *)
(* REGISTER is out unless it fails at once.                                *)
NewAgent(old) ==
  \/ /\ MayFailAtOnce
     /\ g_ua' = NoClient
     /\ reg' = old
     /\ g_registered' = g_registered
  \/ \E c \in Unused, s \in AnyClient :
       /\ g_ua' = c
       /\ reg' = [old EXCEPT ![c] = s]
       /\ s.state = "live" /\ s.expires /\ ~s.tmr
       /\ s.out["unbind"] = 0
       /\ \/ s.out["bind"] = 1 /\ g_registered' = g_registered
          \/ s.out["bind"] = 0 /\ MayFailAtOnce /\ g_registered' = FALSE

LEMMA CreatesNewAgent ==
  ASSUME NEW old, ua_create_and_register(old)
  PROVE  NewAgent(old)
<1>1. CASE MayFailAtOnce /\ g_ua' = NoClient /\ reg' = old
           /\ UNCHANGED g_registered
  BY <1>1 DEF NewAgent
<1>2. ASSUME NEW c \in Unused, NEW contact \in Contacts, g_ua' = c,
             reg' = [old EXCEPT ![c] = Sent(Allocated(contact))],
             UNCHANGED g_registered
      PROVE  NewAgent(old)
  <2> DEFINE a == Allocated(contact)
             s == Sent(a)
  <2>1. /\ a \in AnyClient /\ a.state = "live" /\ a.expires = TRUE
        /\ a.tmr = FALSE /\ a.out["bind"] = 0 /\ a.out["unbind"] = 0
    BY AllocatedRecord
  <2> HIDE DEF a
  <2>2. /\ s \in AnyClient /\ s.state = a.state /\ s.expires = a.expires
        /\ s.tmr = a.tmr
        /\ s.out["bind"] = a.out["bind"] + (IF a.expires THEN 1 ELSE 0)
        /\ s.out["unbind"] = a.out["unbind"] + (IF a.expires THEN 0 ELSE 1)
    BY <2>1, SentRecord
  <2>3. reg' = [old EXCEPT ![c] = s]
    BY <1>2 DEF a
  <2> HIDE DEF s
  <2>4. s.out["bind"] = 1 /\ s.out["unbind"] = 0
    BY <2>1, <2>2
  <2>5. QED
    BY <1>2, <2>1, <2>2, <2>3, <2>4 DEF NewAgent
<1>3. ASSUME NEW c \in Unused, NEW contact \in Contacts, g_ua' = c,
             MayFailAtOnce, g_registered' = FALSE,
             reg' = [old EXCEPT ![c] = NotSent(Allocated(contact))]
      PROVE  NewAgent(old)
  <2> DEFINE a == Allocated(contact)
             s == NotSent(a)
  <2>1. /\ a \in AnyClient /\ a.state = "live" /\ a.expires = TRUE
        /\ a.tmr = FALSE /\ a.out["bind"] = 0 /\ a.out["unbind"] = 0
    BY AllocatedRecord
  <2> HIDE DEF a
  <2>2. /\ s \in AnyClient /\ s.state = a.state /\ s.expires = a.expires
        /\ s.tmr = a.tmr /\ s.out = a.out
    BY <2>1, NotSentRecord
  <2>3. reg' = [old EXCEPT ![c] = s]
    BY <1>3 DEF a
  <2> HIDE DEF s
  <2>4. /\ s \in AnyClient /\ s.state = "live" /\ s.expires = TRUE
        /\ s.tmr = FALSE /\ s.out["bind"] = 0 /\ s.out["unbind"] = 0
    BY <2>1, <2>2
  <2>5. QED
    BY <1>3, <2>3, <2>4 DEF NewAgent
<1>4. QED
  BY <1>1, <1>2, <1>3, Zenon DEF ua_create_and_register

(* The client of an agent that is replaced: its un-REGISTER is pending, or *)
(* it is gone.                                                             *)
Goes(r, gone) ==
  /\ gone \in AnyClient
  /\ ~gone.tmr
  /\ \/ gone.state = "terminated" /\ Flight(gone) = Flight(r) + 1
     \/ gone.state = "freed" /\ Flight(gone) = Flight(r)

LEMMA ReplacedGoes ==
  ASSUME NEW r \in AnyClient, NEW u \in Unregisters(r), NEW gone \in Destroys(u)
  PROVE  Goes(r, gone)
<1>1. /\ u \in AnyClient
      /\ \/ u.req /\ Flight(u) = Flight(r) + 1
         \/ ~u.req /\ Flight(u) = Flight(r)
  BY UnregistersRecord
<1>2. /\ gone \in AnyClient /\ gone.tmr = FALSE
      /\ \/ gone.state = "terminated" /\ u.req /\ Flight(gone) = Flight(u)
         \/ gone.state = "terminated" /\ ~u.req /\ Flight(gone) = Flight(u) + 1
         \/ gone.state = "freed" /\ ~u.req /\ Flight(gone) = Flight(u)
  BY <1>1, DestroysRecord
<1>3. QED
  BY <1>1, <1>2 DEF Goes

(* reregister_worker with an agent, in these terms.                        *)
LEMMA ReregisterReplaces ==
  ASSUME reg \in [Clients -> AnyClient], g_ua \in Clients, reregister_worker,
         g_ua # NoClient
  PROVE  /\ ReregisterOverlaps \/ Silent(reg[g_ua])
         /\ \E gone : /\ Goes(reg[g_ua], gone)
                      /\ NewAgent([reg EXCEPT ![g_ua] = gone])
<1>1. PICK u \in Unregisters(reg[g_ua]) : \E gone \in Destroys(u) :
        ua_create_and_register([reg EXCEPT ![g_ua] = gone])
  BY Zenon DEF reregister_worker
<1>2. PICK gone \in Destroys(u) :
        ua_create_and_register([reg EXCEPT ![g_ua] = gone])
  BY <1>1
<1>3. Goes(reg[g_ua], gone)
  BY ReplacedGoes
<1>4. NewAgent([reg EXCEPT ![g_ua] = gone])
  BY <1>2, CreatesNewAgent
<1>5. QED
  BY <1>3, <1>4, Zenon DEF reregister_worker

-----------------------------------------------------------------------------
(* Who owns a client: true in every instance.                              *)

AnyTypeOK ==
  /\ reg \in [Clients -> AnyClient]
  /\ binding \subseteq Contacts
  /\ g_registered \in BOOLEAN
  /\ touched \in BOOLEAN
  /\ g_ua \in Clients \cup {NoClient}
  /\ queue \in Seq(Requests)
  /\ exec \in Seq(Operations)
  /\ sipManager \in BOOLEAN

(* The live client is the one of the current agent.                        *)
Owned ==
  /\ \A c \in Clients : RecordOK(reg[c])
  /\ \A c \in Clients : reg[c].state = "live" => c = g_ua
  /\ g_ua # NoClient => reg[g_ua].state = "live"

(* What a step may do to the clients; what a step of the service does not. *)
Idles == UNCHANGED <<reg, g_ua, g_registered, touched>>

Creates == g_ua = NoClient /\ touched' = touched /\ NewAgent(reg)

Quits ==
  /\ g_ua # NoClient
  /\ Head(queue) = "unregister" /\ queue # <<>> /\ queue' = Tail(queue)
  /\ UNCHANGED <<g_ua, g_registered, touched>>
  /\ \E u \in Unregisters(reg[g_ua]) : reg' = [reg EXCEPT ![g_ua] = u]

Replaces ==
  /\ g_ua # NoClient
  /\ touched' = touched
  /\ ReregisterOverlaps \/ Silent(reg[g_ua])
  /\ \E gone : /\ Goes(reg[g_ua], gone)
               /\ NewAgent([reg EXCEPT ![g_ua] = gone])

Moves ==
  /\ UNCHANGED <<g_ua, queue>>
  /\ \E c \in Clients : \E s \in AnyClient : Becomes(c, s)

LEMMA NextMoves ==
  ASSUME AnyTypeOK, Owned, [Next]_vars
  PROVE  Idles \/ Creates \/ Quits \/ Replaces \/ Moves
<1>1. CASE StartCommand \/ NetworkReturns \/ AccountChanges \/ Stop \/ Executor
  BY <1>1, Zenon DEF StartCommand, NetworkReturns, AccountChanges, Stop, Asks,
     Executor, ensureSipManager, reregisterIfReady, applySettings, Executes,
     InService, regVars, Idles
<1>2. CASE register_worker
  <2>1. CASE g_ua # NoClient
    BY <1>2, <2>1, Zenon DEF register_worker, Idles
  <2>2. CASE g_ua = NoClient
    <3>1. NewAgent(reg)
      BY <1>2, <2>2, CreatesNewAgent, Zenon DEF register_worker
    <3>2. QED
      BY <1>2, <2>2, <3>1, Zenon DEF register_worker, Creates
  <2>3. QED
    BY <2>1, <2>2
<1>3. CASE unregister_worker
  BY <1>3, Zenon DEF unregister_worker, Takes, Idles, Quits
<1>4. CASE reregister_worker
  <2>1. CASE g_ua # NoClient
    <3>1. g_ua \in Clients /\ reg \in [Clients -> AnyClient]
      BY <2>1 DEF AnyTypeOK
    <3>2. touched' = touched
      BY <1>4, Zenon DEF reregister_worker
    <3>3. QED
      BY <1>4, <2>1, <3>1, <3>2, ReregisterReplaces, Zenon DEF Replaces
  <2>2. CASE g_ua = NoClient
    <3>1. NewAgent(reg)
      BY <1>4, <2>2, CreatesNewAgent, Zenon DEF reregister_worker
    <3>2. QED
      BY <1>4, <2>2, <3>1, Zenon DEF reregister_worker, Creates
  <2>3. QED
    BY <2>1, <2>2
<1>5. CASE RegStep /\ UNCHANGED <<g_ua, serviceVars>>
  <2>1. \/ UNCHANGED <<reg, g_registered, touched>>
        \/ \E c \in Clients : \E s \in AnyClient : Becomes(c, s)
    BY <1>5, RegStepMoves DEF AnyTypeOK, Owned
  <2>2. QED
    BY <1>5, <2>1, Zenon DEF Idles, Moves, serviceVars
<1>6. CASE UNCHANGED vars
  BY <1>6, Zenon DEF vars, regVars, Idles
<1>7. QED
  BY <1>1, <1>2, <1>3, <1>4, <1>5, <1>6, Zenon DEF Next, Worker

(* A new agent takes a client that was never used, and no other changes.   *)
LEMMA NewAgentOwned ==
  ASSUME AnyTypeOK, NEW old \in [Clients -> AnyClient], NewAgent(old),
         \A c \in Clients : RecordOK(old[c]) /\ old[c].state # "live"
  PROVE  /\ reg' \in [Clients -> AnyClient]
         /\ g_ua' \in Clients \cup {NoClient}
         /\ g_registered' \in BOOLEAN
         /\ Owned'
<1>1. CASE g_ua' = NoClient /\ reg' = old /\ g_registered' = g_registered
  <2>1. g_ua' \notin Clients
    BY <1>1, NoClientAssumption
  <2>2. QED
    BY <1>1, <2>1 DEF AnyTypeOK, Owned
<1>2. ASSUME NEW c \in Unused, NEW s \in AnyClient, g_ua' = c,
             reg' = [old EXCEPT ![c] = s], g_registered' \in BOOLEAN,
             s.state = "live", s.out["unbind"] = 0
      PROVE  /\ reg' \in [Clients -> AnyClient]
             /\ g_ua' \in Clients \cup {NoClient}
             /\ Owned'
  <2>1. c \in Clients
    BY DEF Unused
  <2>2. RecordOK(s)
    BY <1>2 DEF RecordOK
  <2>3. /\ reg' \in [Clients -> AnyClient]
        /\ \A x \in Clients : reg'[x] = IF x = c THEN s ELSE old[x]
    BY <1>2, <2>1
  <2>4. QED
    BY <1>2, <2>1, <2>2, <2>3 DEF Owned
<1>3. QED
  BY <1>1, <1>2, Zenon DEF NewAgent, AnyTypeOK

(* The variables beside the clients keep their types.                      *)
LEMMA ServiceType ==
  ASSUME AnyTypeOK, [Next]_vars
  PROVE  /\ queue' \in Seq(Requests)
         /\ exec' \in Seq(Operations)
         /\ sipManager' \in BOOLEAN
<1> USE DEF AnyTypeOK, Requests, Operations
<1>1. CASE StartCommand \/ NetworkReturns \/ AccountChanges
  <2>1. PICK op \in Operations : exec' = Append(exec, op)
                                 /\ UNCHANGED <<queue, sipManager>>
    BY <1>1, Zenon DEF StartCommand, NetworkReturns, AccountChanges, Asks
  <2>2. QED
    BY <2>1
<1>2. CASE Stop
  <2>1. /\ exec' = exec \/ exec' = <<>>
        /\ queue' = Append(queue, "unregister")
        /\ sipManager' = FALSE
    BY <1>2, Zenon DEF Stop
  <2>2. exec' \in Seq(Operations)
    <3>1. <<>> \in Seq(Operations)
      OBVIOUS
    <3>2. QED
      BY <2>1, <3>1, Zenon
  <2>3. queue' \in Seq(Requests)
    BY <2>1
  <2>4. QED
    BY <2>1, <2>2, <2>3, Zenon
<1>3. CASE Executor
  <2>1. exec' \in Seq(Operations)
    <3>1. exec # <<>> /\ exec' = Tail(exec)
      BY <1>3, Zenon DEF Executor, ensureSipManager, reregisterIfReady,
                         applySettings, Executes
    <3>2. QED
      BY <3>1
  <2>2. queue' \in Seq(Requests)
    <3>1. \/ queue' = queue
          \/ queue' = Append(queue, "register")
          \/ queue' = Append(queue, "reregister")
      <4>1. CASE ensureSipManager
        BY <4>1, Zenon DEF ensureSipManager
      <4>2. CASE reregisterIfReady
        BY <4>2, Zenon DEF reregisterIfReady
      <4>3. CASE applySettings
        BY <4>3, Zenon DEF applySettings
      <4>4. QED
        BY <1>3, <4>1, <4>2, <4>3, Zenon DEF Executor
    <3>2. CASE queue' = queue
      BY <3>2
    <3>3. ASSUME NEW req \in {"register", "reregister"},
                 queue' = Append(queue, req)
          PROVE  queue' \in Seq(Requests)
      BY <3>3
    <3>4. QED
      BY <3>1, <3>2, <3>3, Zenon
  <2>3. sipManager' \in BOOLEAN
    BY <1>3, Zenon DEF Executor, ensureSipManager, reregisterIfReady,
                       applySettings
  <2>4. QED
    BY <2>1, <2>2, <2>3
<1>4. CASE Worker
  <2>1. queue # <<>> /\ queue' = Tail(queue) /\ UNCHANGED <<exec, sipManager>>
    BY <1>4, Zenon DEF Worker, register_worker, unregister_worker,
                       reregister_worker, Takes
  <2>2. QED
    BY <2>1
<1>5. CASE UNCHANGED serviceVars
  BY <1>5 DEF serviceVars
<1>6. QED
  BY <1>1, <1>2, <1>3, <1>4, <1>5, Zenon DEF Next, vars

(* The registrar knows contacts only.                                      *)
LEMMA BindingType ==
  ASSUME AnyTypeOK, [Next]_vars
  PROVE  binding' \subseteq Contacts /\ touched' \in BOOLEAN
<1>1. ASSUME NEW c \in Clients PROVE reg[c].contact \in Contacts
  BY DEF AnyTypeOK, AnyClient
<1>2. ASSUME NEW c \in Clients, NEW kind \in Kinds
      PROVE  Served(c, kind) \subseteq Contacts
  BY <1>1 DEF Served, AnyTypeOK
<1>3. CASE RegStep
  <2>1. ASSUME NEW c \in Clients, NEW kind \in Kinds,
               AnswerOk(c, kind) \/ AnswerFail(c, kind)
        PROVE  binding' \subseteq Contacts /\ touched' = touched
    <3>1. binding' = binding \/ binding' = Served(c, kind)
      BY <2>1, Zenon DEF AnswerOk, AnswerFail
    <3>2. touched' = touched
      BY <2>1, Zenon DEF AnswerOk, AnswerFail
    <3>3. QED
      BY <1>2, <3>1, <3>2 DEF AnyTypeOK
  <2>2. ASSUME NEW c \in Clients, NEW kind \in Kinds,
               Challenged(c, kind) \/ TimerSends(c) \/ TimerFails(c)
        PROVE  binding' = binding /\ touched' = touched
    BY <2>2, Zenon DEF Challenged, TimerSends, TimerFails
  <2>3. ASSUME NEW c \in Clients, TimerSends(c) \/ TimerFails(c)
        PROVE  binding' = binding /\ touched' = touched
    BY <2>3, Zenon DEF TimerSends, TimerFails
  <2>4. ASSUME NEW c \in Clients, NEW kind \in Kinds, UseAfterFree(c, kind)
        PROVE  binding' = binding /\ touched' = TRUE
    BY <2>4, Zenon DEF UseAfterFree
  <2>5. BindingLost => binding' \subseteq binding /\ touched' = touched
    BY DEF BindingLost
  <2>6. touched' \in BOOLEAN
    BY <1>3, <2>1, <2>2, <2>3, <2>4, <2>5, Zenon DEF RegStep, AnyTypeOK
  <2>7. binding' \subseteq Contacts
    <3>1. binding \subseteq Contacts
      BY DEF AnyTypeOK
    <3>2. BindingLost => binding' \subseteq Contacts
      BY <2>5, <3>1
    <3>3. QED
      BY <1>3, <2>1, <2>2, <2>3, <2>4, <3>1, <3>2, Zenon DEF RegStep
  <2>8. QED
    BY <2>6, <2>7
<1>4. CASE UNCHANGED <<binding, touched>>
  BY <1>4 DEF AnyTypeOK
<1>5. QED
  BY <1>3, <1>4, Zenon DEF Next, StartCommand, NetworkReturns, AccountChanges,
     Stop, Asks, Executor, ensureSipManager, reregisterIfReady, applySettings,
     Executes, InService, Worker, register_worker, unregister_worker,
     reregister_worker, vars, regVars

LEMMA OwnedInit == Init => AnyTypeOK /\ Owned
<1> SUFFICES ASSUME Init PROVE AnyTypeOK /\ Owned
  OBVIOUS
<1>1. (CHOOSE contact \in Contacts : TRUE) \in Contacts
  BY ContactsAssumption
<1> DEFINE r == [Blank EXCEPT !.state = "unused"]
<1>2. /\ r \in AnyClient /\ r.state = "unused" /\ r.tmr = FALSE
      /\ r.out["bind"] = 0 /\ r.out["unbind"] = 0
  BY <1>1 DEF Blank, Allocated, AnyClient, Kinds
<1>3. reg = [c \in Clients |-> r]
  BY DEF Init, RegInit
<1> HIDE DEF r
<1>4. RecordOK(r)
  BY <1>2 DEF RecordOK, Flight
<1>5. AnyTypeOK
  <2>1. /\ g_registered = FALSE /\ touched = FALSE /\ sipManager = FALSE
        /\ binding = {} /\ g_ua = NoClient /\ queue = <<>> /\ exec = <<>>
    BY Zenon DEF Init, RegInit
  <2>2. queue \in Seq(Requests) /\ exec \in Seq(Operations)
    BY <2>1
  <2>3. reg \in [Clients -> AnyClient]
    BY <1>2, <1>3
  <2>4. QED
    BY <2>1, <2>2, <2>3, Zenon DEF AnyTypeOK
<1>6. Owned
  BY <1>2, <1>3, <1>4 DEF Owned, Init
<1>7. QED
  BY <1>5, <1>6

LEMMA OwnedInductive == AnyTypeOK /\ Owned /\ [Next]_vars => AnyTypeOK' /\ Owned'
<1> SUFFICES ASSUME AnyTypeOK, Owned, [Next]_vars PROVE AnyTypeOK' /\ Owned'
  OBVIOUS
<1> DEFINE Kept == /\ reg' \in [Clients -> AnyClient]
                   /\ g_ua' \in Clients \cup {NoClient}
                   /\ g_registered' \in BOOLEAN
                   /\ Owned'
<1>0. g_ua # NoClient => g_ua \in Clients
  BY DEF AnyTypeOK
<1>1. ASSUME Idles PROVE Kept
  BY <1>1 DEF Idles, AnyTypeOK, Owned
<1>2. ASSUME Creates PROVE Kept
  <2>1. \A c \in Clients : RecordOK(reg[c]) /\ reg[c].state # "live"
    BY <1>2, NoClientAssumption DEF Creates, Owned
  <2>2. QED
    BY <1>2, <2>1, NewAgentOwned DEF Creates, AnyTypeOK
<1>3. ASSUME Quits PROVE Kept
  <2>1. PICK u \in Unregisters(reg[g_ua]) : reg' = [reg EXCEPT ![g_ua] = u]
    BY <1>3 DEF Quits
  <2>2. /\ u \in AnyClient /\ u.state = reg[g_ua].state
        /\ u.expires = FALSE /\ u.tmr = reg[g_ua].tmr
    BY <1>0, <1>3, UnregistersRecord DEF AnyTypeOK, Quits
  <2>3. reg[g_ua].state = "live"
    BY <1>3 DEF Quits, Owned
  <2>4. RecordOK(u)
    BY <2>2, <2>3 DEF RecordOK
  <2>5. QED
    BY <1>0, <1>3, <2>1, <2>2, <2>3, <2>4 DEF AnyTypeOK, Owned, Quits
<1>4. ASSUME Replaces PROVE Kept
  <2>1. PICK gone : /\ Goes(reg[g_ua], gone)
                    /\ NewAgent([reg EXCEPT ![g_ua] = gone])
    BY <1>4 DEF Replaces
  <2> DEFINE old == [reg EXCEPT ![g_ua] = gone]
  <2>2. /\ gone \in AnyClient /\ ~gone.tmr
        /\ gone.state \in {"terminated", "freed"}
    BY <2>1 DEF Goes
  <2>3. RecordOK(gone)
    BY <2>2 DEF RecordOK
  <2>4. old \in [Clients -> AnyClient]
    BY <2>2 DEF AnyTypeOK
  <2>5. \A c \in Clients : RecordOK(old[c]) /\ old[c].state # "live"
    BY <1>0, <1>4, <2>2, <2>3 DEF Owned, AnyTypeOK, Replaces
  <2> HIDE DEF old
  <2>6. NewAgent(old)
    BY <2>1 DEF old
  <2>7. QED
    BY <2>4, <2>5, <2>6, NewAgentOwned
<1>5. ASSUME Moves PROVE Kept
  <2>1. PICK c \in Clients, s \in AnyClient : Becomes(c, s)
    BY <1>5 DEF Moves
  <2>2. reg' = [reg EXCEPT ![c] = s] /\ g_ua' = g_ua
    BY <1>5, <2>1 DEF Moves, Becomes
  <2>3. RecordOK(s) /\ (s.state = "live" <=> reg[c].state = "live")
    BY <2>1 DEF Becomes, Lives, Fades, Haunts, RecordOK
  <2>4. g_registered' \in BOOLEAN
    <3>1. [Next]_vars
      OBVIOUS
    <3>2. QED
      BY <3>1, Zenon DEF AnyTypeOK, Next, vars, regVars, InService, StartCommand,
         NetworkReturns, AccountChanges, Stop, Asks, Executor, ensureSipManager,
         reregisterIfReady, applySettings, Executes, Worker, register_worker,
         unregister_worker, reregister_worker, ua_create_and_register, RegStep,
         AnswerOk, AnswerFail, Challenged, UseAfterFree, TimerSends, TimerFails,
         BindingLost, Reports
  <2>5. QED
    BY <2>2, <2>3, <2>4 DEF AnyTypeOK, Owned
<1>6. Kept
  BY <1>1, <1>2, <1>3, <1>4, <1>5, NextMoves
<1>7. QED
  BY <1>6, ServiceType, BindingType DEF AnyTypeOK

-----------------------------------------------------------------------------
(* The registration that is claimed, and the one that is waited for.       *)

LEMMA SilentFlight ==
  ASSUME NEW r \in AnyClient
  PROVE  Silent(r) <=> Flight(r) = 0
BY Members DEF Silent, Flight, Kinds

(* A new agent's client is not silent unless its first send has failed.    *)
LEMMA NewAgentWaits ==
  ASSUME NEW old, DOMAIN old = Clients, NewAgent(old), g_ua' # NoClient
  PROVE  /\ reg'[g_ua'].expires
         /\ \/ Flight(reg'[g_ua']) = 1
            \/ MayFailAtOnce /\ g_registered' = FALSE
<1>1. PICK c \in Unused, s \in AnyClient :
        /\ g_ua' = c
        /\ reg' = [old EXCEPT ![c] = s]
        /\ s.expires
        /\ s.out["unbind"] = 0
        /\ \/ s.out["bind"] = 1
           \/ MayFailAtOnce /\ g_registered' = FALSE
  BY Zenon DEF NewAgent
<1>2. reg'[g_ua'] = s
  BY <1>1 DEF Unused
<1>3. QED
  BY <1>1, <1>2 DEF Flight

(* What a reply or a timer means for the client of the current agent.      *)
LEMMA CurrentMoves ==
  ASSUME AnyTypeOK, Owned, Moves, g_ua # NoClient
  PROVE  \/ reg'[g_ua] = reg[g_ua] /\ g_registered' = g_registered
         \/ Lives(g_ua, reg'[g_ua])
<1>1. PICK c \in Clients, s \in AnyClient : Becomes(c, s)
  BY DEF Moves
<1>2. g_ua \in Clients
  BY DEF AnyTypeOK
<1>3. CASE c = g_ua
  <2>1. reg'[g_ua] = s /\ reg[g_ua].state = "live"
    BY <1>1, <1>2, <1>3 DEF Becomes, AnyTypeOK, Owned
  <2>2. Lives(g_ua, s)
    BY <1>1, <1>3, <2>1 DEF Becomes, Fades, Haunts
  <2>3. QED
    BY <2>1, <2>2
<1>4. CASE c # g_ua
  <2>1. reg'[g_ua] = reg[g_ua] /\ reg[c].state # "live"
    BY <1>1, <1>2, <1>4 DEF Becomes, AnyTypeOK, Owned
  <2>2. g_registered' = g_registered
    BY <1>1, <2>1 DEF Becomes, Lives, Fades, Haunts
  <2>3. QED
    BY <2>1, <2>2
<1>5. QED
  BY <1>3, <1>4

(* What a step means for the registration that is wanted after it.         *)
LEMMA WantedMoves ==
  ASSUME AnyTypeOK, Owned, [Next]_vars, Wanted'
  PROVE  \/ /\ Wanted
            /\ g_registered' = g_registered
            /\ reg'[g_ua'] = reg[g_ua]
         \/ Wanted /\ g_ua' = g_ua /\ Lives(g_ua, reg'[g_ua'])
         \/ Flight(reg'[g_ua']) = 1
         \/ MayFailAtOnce /\ g_registered' = FALSE
<1>1. g_ua' # NoClient /\ reg'[g_ua'].expires
  BY DEF Wanted
<1>2. CASE Idles
  BY <1>1, <1>2 DEF Idles, Wanted
<1>3. CASE Creates
  BY <1>1, <1>3, NewAgentWaits DEF Creates, AnyTypeOK
<1>4. CASE Quits
  <2>1. g_ua \in Clients /\ g_ua' = g_ua
    BY <1>4 DEF Quits, AnyTypeOK
  <2>2. PICK u \in Unregisters(reg[g_ua]) : reg' = [reg EXCEPT ![g_ua] = u]
    BY <1>4 DEF Quits
  <2>3. u.expires = FALSE
    BY <2>1, UnregistersRecord DEF AnyTypeOK
  <2>4. QED
    BY <1>1, <2>1, <2>2, <2>3 DEF AnyTypeOK
<1>5. CASE Replaces
  <2>1. PICK gone : NewAgent([reg EXCEPT ![g_ua] = gone])
    BY <1>5 DEF Replaces
  <2> DEFINE old == [reg EXCEPT ![g_ua] = gone]
  <2>2. DOMAIN old = Clients
    BY DEF AnyTypeOK
  <2> HIDE DEF old
  <2>3. NewAgent(old)
    BY <2>1 DEF old
  <2>4. QED
    BY <1>1, <2>2, <2>3, NewAgentWaits
<1>6. CASE Moves
  <2>1. g_ua' = g_ua
    BY <1>6 DEF Moves
  <2>2. \/ reg'[g_ua] = reg[g_ua] /\ g_registered' = g_registered
        \/ Lives(g_ua, reg'[g_ua])
    BY <1>1, <1>6, <2>1, CurrentMoves
  <2>3. Wanted
    BY <1>1, <2>1, <2>2 DEF Wanted, Lives
  <2>4. QED
    BY <2>1, <2>2, <2>3
<1>7. QED
  BY <1>2, <1>3, <1>4, <1>5, <1>6, NextMoves

LEMMA RealInductive ==
  AnyTypeOK /\ Owned /\ RegisteredIsReal /\ [Next]_vars => RegisteredIsReal'
<1> SUFFICES ASSUME AnyTypeOK, Owned, RegisteredIsReal, [Next]_vars,
                    Wanted', Silent(reg[g_ua])', g_registered'
             PROVE  reg'[g_ua'].registered
  BY DEF RegisteredIsReal
<1>1. reg'[g_ua'] \in AnyClient
  BY OwnedInductive DEF AnyTypeOK, Wanted
<1>2. Flight(reg'[g_ua']) = 0
  BY <1>1, SilentFlight DEF Silent
<1>3. CASE Wanted /\ g_registered' = g_registered /\ reg'[g_ua'] = reg[g_ua]
  <2>1. Silent(reg[g_ua])
    BY <1>3 DEF Silent
  <2>2. g_registered
    BY <1>3
  <2>3. QED
    BY <1>3, <2>1, <2>2 DEF RegisteredIsReal
<1>4. CASE Wanted /\ g_ua' = g_ua /\ Lives(g_ua, reg'[g_ua'])
  BY <1>2, <1>4 DEF Lives, Wanted
<1>5. Flight(reg'[g_ua']) # 1 /\ g_registered' # FALSE
  BY <1>2
<1>6. QED
  BY <1>3, <1>4, <1>5, WantedMoves, Zenon

LEMMA StallInductive ==
  ASSUME ~MayFailAtOnce
  PROVE  AnyTypeOK /\ Owned /\ NoStall /\ [Next]_vars => NoStall'
<1> SUFFICES ASSUME AnyTypeOK, Owned, NoStall, [Next]_vars, Wanted'
             PROVE  reg'[g_ua'].tmr \/ ~Silent(reg[g_ua])'
  BY DEF NoStall
<1>1. reg'[g_ua'] \in AnyClient
  BY OwnedInductive DEF AnyTypeOK, Wanted
<1>2. SUFFICES reg'[g_ua'].tmr \/ Flight(reg'[g_ua']) # 0
  BY <1>1, SilentFlight DEF Silent
<1>3. ASSUME Wanted
      PROVE  reg[g_ua] \in AnyClient
             /\ (reg[g_ua].tmr \/ Flight(reg[g_ua]) # 0)
  BY <1>3, SilentFlight DEF NoStall, Wanted, AnyTypeOK
<1>4. CASE Wanted /\ g_registered' = g_registered /\ reg'[g_ua'] = reg[g_ua]
  BY <1>3, <1>4
<1>5. CASE Wanted /\ g_ua' = g_ua /\ Lives(g_ua, reg'[g_ua'])
  <2>1. Load(reg[g_ua]) > 0
    BY <1>3, <1>5, Members DEF Load
  <2>2. Load(reg'[g_ua']) > 0
    BY <1>5, <2>1 DEF Lives, Wanted
  <2>3. QED
    BY <1>1, <2>2, Members DEF Load
<1>6. CASE Flight(reg'[g_ua']) = 1
  BY <1>6
<1>7. QED
  BY <1>4, <1>5, <1>6, WantedMoves, Zenon

(* g_registered, which decides whether the return of the network renews    *)
(* the registration, never claims one the client does not have: in every   *)
(* instance, overlapping and failing registrations included.               *)
THEOREM RegistrationIsReal == Spec => []RegisteredIsReal
<1>1. Init => AnyTypeOK /\ Owned
  BY OwnedInit
<1>2. Init => RegisteredIsReal
  BY DEF Init, RegisteredIsReal, Wanted
<1>3. QED
  BY <1>1, <1>2, OwnedInductive, RealInductive, PTL DEF Spec

(* Unless its first request fails at once, a registration never stalls:    *)
(* the client waits for a reply or for its timer.                          *)
THEOREM RegistrationNeverStalls ==
  ASSUME ~MayFailAtOnce
  PROVE  Spec => []NoStall
<1>1. Init => AnyTypeOK /\ Owned
  BY OwnedInit
<1>2. Init => NoStall
  BY DEF Init, NoStall, Wanted
<1>3. AnyTypeOK /\ Owned /\ NoStall /\ [Next]_vars => NoStall'
  BY StallInductive
<1>4. QED
  BY <1>1, <1>2, <1>3, OwnedInductive, PTL DEF Spec

-----------------------------------------------------------------------------
(* Requests are accounted for, while no registration overlaps another.     *)

(* A terminated client waits for exactly one reply, a freed one for none;  *)
(* a live one has one request to come, or two once it has unregistered.    *)
Accounted ==
  /\ \A c \in Clients :
       /\ reg[c].state = "terminated" => Flight(reg[c]) = 1
       /\ reg[c].state = "freed" => Flight(reg[c]) = 0
       /\ reg[c].state = "live" =>
            Load(reg[c]) <= (IF reg[c].expires THEN 1 ELSE 2)
  /\ ~touched

(* At most one stop is on its way, and when it arrives there is room for   *)
(* its request.                                                            *)
Stopping(q) == \E i \in 1..Len(q) : q[i] = "unregister"

Single(q) ==
  \A i, j \in 1..Len(q) : q[i] = "unregister" /\ q[j] = "unregister" => i = j

StopOnce ==
  /\ Single(queue)
  /\ (Stopping(queue) /\ g_ua # NoClient /\ ~reg[g_ua].expires) =>
       Load(reg[g_ua]) <= 1

(* A request that is not a stop does not make one of the queue.            *)
LEMMA AppendOther ==
  ASSUME NEW q \in Seq(Requests), NEW req \in Requests, req # "unregister",
         Single(q)
  PROVE  Single(Append(q, req)) /\ (Stopping(Append(q, req)) => Stopping(q))
<1>1. /\ Len(Append(q, req)) = Len(q) + 1
      /\ Append(q, req)[Len(q) + 1] = req
      /\ \A i \in 1..Len(q) : Append(q, req)[i] = q[i]
      /\ Len(q) \in Nat
  OBVIOUS
<1>2. \A i \in 1..Len(Append(q, req)) :
        Append(q, req)[i] = "unregister" => i \in 1..Len(q) /\ q[i] = "unregister"
  BY <1>1
<1>3. QED
  BY <1>2, Zenon DEF Single, Stopping

LEMMA AppendStop ==
  ASSUME NEW q \in Seq(Requests), ~Stopping(q)
  PROVE  Single(Append(q, "unregister"))
<1>1. /\ Len(Append(q, "unregister")) = Len(q) + 1
      /\ \A i \in 1..Len(q) : Append(q, "unregister")[i] = q[i]
      /\ Len(q) \in Nat
  BY DEF Requests
<1>2. \A i \in 1..Len(Append(q, "unregister")) :
        Append(q, "unregister")[i] = "unregister" => i = Len(q) + 1
  BY <1>1 DEF Stopping
<1>3. QED
  BY <1>2, Zenon DEF Single

LEMMA TailStops ==
  ASSUME NEW q \in Seq(Requests), q # <<>>, Single(q)
  PROVE  /\ Single(Tail(q))
         /\ Stopping(Tail(q)) => Stopping(q)
         /\ Head(q) = "unregister" => ~Stopping(Tail(q))
<1>1. /\ Len(q) \in Nat /\ Len(q) > 0
      /\ Len(Tail(q)) = Len(q) - 1
      /\ \A i \in 1..Len(Tail(q)) : Tail(q)[i] = q[i + 1]
      /\ Head(q) = q[1]
  OBVIOUS
<1>2. \A i \in 1..Len(Tail(q)) : i + 1 \in 1..Len(q) /\ i + 1 # 1
  BY <1>1
<1>3. Single(Tail(q))
  BY <1>1, <1>2 DEF Single
<1>4. Stopping(Tail(q)) => Stopping(q)
  BY <1>1, <1>2 DEF Stopping
<1>5. Head(q) = "unregister" => ~Stopping(Tail(q))
  BY <1>1, <1>2 DEF Single, Stopping
<1>6. QED
  BY <1>3, <1>4, <1>5

(* What a step does to the queue.                                          *)
LEMMA QueueMoves ==
  ASSUME AnyTypeOK, Single(queue), [Next]_vars
  PROVE  /\ Single(queue')
         /\ Stop \/ (Stopping(queue') => Stopping(queue))
<1> USE DEF AnyTypeOK
<1>1. CASE Stop
  <2>1. ~Stopping(queue) /\ queue' = Append(queue, "unregister")
    BY <1>1, Zenon DEF Stop, NoStopUnderWay, Stopping
  <2>2. QED
    BY <1>1, <2>1, AppendStop
<1>2. CASE Executor
  <2>1. "register" \in Requests /\ "reregister" \in Requests
    BY DEF Requests
  <2>2. \/ queue' = queue
        \/ queue' = Append(queue, "register")
        \/ queue' = Append(queue, "reregister")
    BY <1>2, Zenon DEF Executor, ensureSipManager, reregisterIfReady,
                       applySettings
  <2>3. QED
    BY <2>1, <2>2, AppendOther
<1>3. CASE Worker
  <2>1. queue # <<>> /\ queue' = Tail(queue)
    BY <1>3, Zenon DEF Worker, register_worker, unregister_worker,
                       reregister_worker, Takes
  <2>2. QED
    BY <2>1, TailStops
<1>4. CASE UNCHANGED queue
  BY <1>4
<1>5. QED
  BY <1>1, <1>2, <1>3, <1>4, Zenon DEF Next, StartCommand, NetworkReturns,
     AccountChanges, Asks, serviceVars, vars

(* One client's part of the account.                                       *)
RecordAccounted(r) ==
  /\ r.state = "terminated" => Flight(r) = 1
  /\ r.state = "freed" => Flight(r) = 0
  /\ r.state = "live" => Load(r) <= (IF r.expires THEN 1 ELSE 2)

LEMMA NewAgentAccounted ==
  ASSUME NEW old \in [Clients -> AnyClient], NewAgent(old),
         \A c \in Clients : RecordAccounted(old[c])
  PROVE  /\ \A c \in Clients : RecordAccounted(reg'[c])
         /\ g_ua' # NoClient => reg'[g_ua'].expires
<1>1. CASE g_ua' = NoClient /\ reg' = old
  BY <1>1
<1>2. ASSUME NEW c \in Unused, NEW s \in AnyClient,
             g_ua' = c, reg' = [old EXCEPT ![c] = s],
             s.state = "live", s.expires, ~s.tmr, s.out["unbind"] = 0,
             s.out["bind"] = 1 \/ s.out["bind"] = 0
      PROVE  /\ \A x \in Clients : RecordAccounted(reg'[x])
             /\ reg'[g_ua'].expires
  <2>1. RecordAccounted(s)
    BY <1>2 DEF RecordAccounted, Load, Flight
  <2>2. QED
    BY <1>2, <2>1 DEF Unused
<1>3. QED
  BY <1>1, <1>2, Zenon DEF NewAgent

LEMMA AccountInductive ==
  ASSUME ~ReregisterOverlaps, AnyTypeOK, Owned, Accounted, StopOnce, [Next]_vars
  PROVE  Accounted' /\ StopOnce'
<1> DEFINE Kept ==
      /\ \A c \in Clients : RecordAccounted(reg'[c])
      /\ touched' = touched
      /\ (Stopping(queue') /\ g_ua' # NoClient /\ ~reg'[g_ua'].expires) =>
           Load(reg'[g_ua']) <= 1
<1>0. /\ \A c \in Clients : RecordAccounted(reg[c])
      /\ Single(queue')
      /\ Stop \/ (Stopping(queue') => Stopping(queue))
      /\ g_ua # NoClient => g_ua \in Clients /\ reg[g_ua].state = "live"
  BY QueueMoves DEF Accounted, RecordAccounted, StopOnce, AnyTypeOK, Owned
<1>1. ASSUME Idles PROVE Kept
  <2>1. CASE Stop
    <3>1. g_ua # NoClient => reg[g_ua].expires \/ Silent(reg[g_ua])
      BY <2>1, Zenon DEF Stop, NoStopUnderWay
    <3>2. g_ua # NoClient => reg[g_ua].expires \/ Load(reg[g_ua]) <= 1
      BY <1>0, <3>1, SilentFlight, Members DEF AnyTypeOK, Load
    <3>3. QED
      BY <1>0, <1>1, <3>2 DEF Idles
  <2>2. CASE Stopping(queue') => Stopping(queue)
    BY <1>0, <1>1, <2>2 DEF Idles, StopOnce
  <2>3. QED
    BY <1>0, <2>1, <2>2
<1>2. ASSUME Creates PROVE Kept
  BY <1>0, <1>2, NewAgentAccounted DEF Creates, AnyTypeOK
<1>3. ASSUME Quits PROVE Kept
  <2>1. /\ g_ua \in Clients /\ reg[g_ua] \in AnyClient
        /\ reg[g_ua].state = "live" /\ g_ua' = g_ua
    BY <1>0, <1>3 DEF Quits, AnyTypeOK
  <2>2. PICK u \in Unregisters(reg[g_ua]) : reg' = [reg EXCEPT ![g_ua] = u]
    BY <1>3 DEF Quits
  <2>3. /\ u \in AnyClient /\ u.state = "live" /\ u.expires = FALSE
        /\ u.tmr = reg[g_ua].tmr /\ Flight(u) <= Flight(reg[g_ua]) + 1
    <3>1. /\ u \in AnyClient /\ u.state = reg[g_ua].state
          /\ u.expires = FALSE /\ u.tmr = reg[g_ua].tmr
          /\ Flight(u) = Flight(reg[g_ua]) + 1 \/ Flight(u) = Flight(reg[g_ua])
      BY <2>1, UnregistersRecord
    <3>2. Flight(reg[g_ua]) \in Nat
      BY <2>1, Members
    <3>3. QED
      BY <2>1, <3>1, <3>2
  <2>4. Stopping(queue) /\ ~Stopping(queue')
    <3>1. queue # <<>> /\ Head(queue) = "unregister" /\ queue' = Tail(queue)
      BY <1>3 DEF Quits
    <3>2. queue \in Seq(Requests) /\ Single(queue)
      BY DEF AnyTypeOK, StopOnce
    <3>3. 1 \in 1..Len(queue) /\ queue[1] = "unregister"
      BY <3>1, <3>2
    <3>4. QED
      BY <3>1, <3>2, <3>3, TailStops DEF Stopping
  <2>5. Load(reg[g_ua]) <= 1
    <3>1. CASE reg[g_ua].expires
      BY <1>0, <2>1, <3>1 DEF RecordAccounted
    <3>2. CASE ~reg[g_ua].expires
      BY <1>3, <2>4, <3>2 DEF StopOnce, Quits
    <3>3. QED
      BY <3>1, <3>2
  <2>6. Load(u) <= 2
    BY <2>1, <2>3, <2>5, Members DEF Load
  <2>7. RecordAccounted(u)
    BY <2>3, <2>6 DEF RecordAccounted
  <2>8. \A c \in Clients : RecordAccounted(reg'[c])
    BY <1>0, <2>1, <2>2, <2>7 DEF AnyTypeOK
  <2>9. QED
    BY <1>3, <2>4, <2>8 DEF Quits
<1>4. ASSUME Replaces PROVE Kept
  <2>1. PICK gone : /\ Goes(reg[g_ua], gone)
                    /\ NewAgent([reg EXCEPT ![g_ua] = gone])
    BY <1>4 DEF Replaces
  <2> DEFINE old == [reg EXCEPT ![g_ua] = gone]
  <2>2. g_ua \in Clients /\ reg[g_ua] \in AnyClient /\ Silent(reg[g_ua])
    BY <1>0, <1>4 DEF Replaces, AnyTypeOK
  <2>3. Flight(reg[g_ua]) = 0
    BY <2>2, SilentFlight
  <2>4. gone \in AnyClient /\ RecordAccounted(gone)
    BY <2>1, <2>3 DEF Goes, RecordAccounted
  <2>5. /\ old \in [Clients -> AnyClient]
        /\ \A c \in Clients : RecordAccounted(old[c])
    BY <1>0, <2>2, <2>4 DEF AnyTypeOK
  <2> HIDE DEF old
  <2>6. NewAgent(old)
    BY <2>1 DEF old
  <2>7. QED
    BY <1>4, <2>5, <2>6, NewAgentAccounted DEF Replaces
<1>5. ASSUME Moves PROVE Kept
  <2>1. PICK c \in Clients, s \in AnyClient : Becomes(c, s)
    BY <1>5 DEF Moves
  <2>2. /\ reg' = [reg EXCEPT ![c] = s] /\ reg[c] \in AnyClient
        /\ UNCHANGED <<g_ua, queue>>
    BY <1>5, <2>1 DEF Moves, Becomes, AnyTypeOK
  <2>3. ~Haunts(c, s)
    BY <1>0 DEF Haunts, RecordAccounted
  <2>4. RecordAccounted(s) /\ touched' = touched
    <3>1. CASE Lives(c, s)
      <4>1. Load(s) <= Load(reg[c]) /\ Load(s) \in Nat /\ Load(reg[c]) \in Nat
        BY <2>2, <3>1, Members DEF Lives
      <4>2. QED
        BY <1>0, <3>1, <4>1 DEF Lives, RecordAccounted
    <3>2. CASE Fades(c, s)
      BY <1>0, <3>2 DEF Fades, RecordAccounted
    <3>3. QED
      BY <2>1, <2>3, <3>1, <3>2 DEF Becomes
  <2>5. \A x \in Clients : RecordAccounted(reg'[x])
    BY <1>0, <2>2, <2>4 DEF AnyTypeOK
  <2>6. (Stopping(queue') /\ g_ua' # NoClient /\ ~reg'[g_ua'].expires) =>
          Load(reg'[g_ua']) <= 1
    <3>1. CASE g_ua = NoClient
      BY <2>2, <3>1
    <3>2. CASE g_ua # NoClient
      <4>1. \/ reg'[g_ua] = reg[g_ua]
            \/ Lives(g_ua, reg'[g_ua])
        BY <1>5, <3>2, CurrentMoves
      <4>2. reg[g_ua] \in AnyClient /\ reg'[g_ua] \in AnyClient
        BY <1>0, <2>2, <3>2 DEF AnyTypeOK
      <4>3. Load(reg'[g_ua]) <= Load(reg[g_ua])
            /\ reg'[g_ua].expires = reg[g_ua].expires
        BY <4>1, <4>2, Members DEF Lives
      <4>4. QED
        BY <2>2, <4>2, <4>3, Members DEF StopOnce
    <3>3. QED
      BY <3>1, <3>2
  <2>7. QED
    BY <2>4, <2>5, <2>6
<1>6. Kept
  BY <1>1, <1>2, <1>3, <1>4, <1>5, NextMoves
<1>7. QED
  BY <1>0, <1>6 DEF Accounted, RecordAccounted, StopOnce

LEMMA AccountInvariant ==
  ASSUME ~ReregisterOverlaps
  PROVE  Spec => [](AnyTypeOK /\ Owned /\ Accounted /\ StopOnce)
<1>1. Init => AnyTypeOK /\ Owned
  BY OwnedInit
<1>2. Init => Accounted /\ StopOnce
  <2>1. ASSUME Init PROVE Accounted /\ StopOnce
    <3>1. \A c \in Clients : reg[c].state = "unused"
      <4>1. /\ reg = [c \in Clients |-> [Blank EXCEPT !.state = "unused"]]
            /\ [Blank EXCEPT !.state = "unused"].state = "unused"
        BY <2>1 DEF Init, RegInit, Blank, Allocated
      <4>2. QED
        BY <4>1
    <3>2. ~touched /\ queue = <<>> /\ g_ua = NoClient
      BY <2>1 DEF Init, RegInit
    <3>3. Single(queue)
      BY <3>2 DEF Single
    <3>4. QED
      BY <3>1, <3>2, <3>3 DEF Accounted, StopOnce
  <2>2. QED
    BY <2>1
<1>3. AnyTypeOK /\ Owned /\ Accounted /\ StopOnce /\ [Next]_vars
        => Accounted' /\ StopOnce'
  BY AccountInductive
<1>4. QED
  BY <1>1, <1>2, <1>3, OwnedInductive, PTL DEF Spec

(* While no new registration overlaps requests of the old client, every    *)
(* reply finds the client of its request.                                  *)
THEOREM RepliesFindTheirClient ==
  ASSUME ~ReregisterOverlaps
  PROVE  Spec => []NoFreedClientAnswered
<1>1. Accounted => NoFreedClientAnswered
  BY DEF Accounted, NoFreedClientAnswered
<1>2. QED
  BY <1>1, AccountInvariant, PTL

(* Then, too, no client ever has more than two requests in flight, and     *)
(* every state is well typed with room for two.                            *)
THEOREM RegistrationTypeCorrect ==
  ASSUME ~ReregisterOverlaps, MaxOut >= 2
  PROVE  Spec => []TypeOK
<1>1. ASSUME AnyTypeOK, Owned, Accounted PROVE TypeOK
  <2>1. ASSUME NEW c \in Clients PROVE reg[c] \in Client
    <3>1. reg[c] \in AnyClient
      BY <1>1 DEF AnyTypeOK
    <3>2. Flight(reg[c]) <= 2
      BY <1>1, <3>1, Members DEF Owned, RecordOK, Accounted, Load
    <3>3. \A kind \in Kinds : reg[c].out[kind] \in 0..MaxOut
      BY <3>1, <3>2, Members, MaxOutAssumption DEF Flight, Kinds
    <3>4. reg[c].out \in [Kinds -> 0..MaxOut]
      BY <3>1, <3>3 DEF AnyClient
    <3>5. QED
      BY <3>1, <3>4 DEF AnyClient, Client
  <2>2. reg \in [Clients -> Client]
    BY <1>1, <2>1 DEF AnyTypeOK
  <2>3. QED
    BY <1>1, <2>2, Zenon DEF AnyTypeOK, TypeOK, RegTypeOK
<1>2. QED
  BY <1>1, AccountInvariant, PTL

=============================================================================
