----------------------------- MODULE Registration -----------------------------
(***************************************************************************)
(* The phone's registration: the part of SipService and SipManager that    *)
(* starts, renews and stops it on sipExecutor, the native requests they    *)
(* post, and the workers that carry them out on re_main with the clients   *)
(* of SipReg.                                                              *)
(*                                                                         *)
(* g_ua is the client of the bridge's one user agent, or NoClient.         *)
(***************************************************************************)
EXTENDS SipReg, Sequences

CONSTANTS
  NoClient,
  MaxOps,             \* bound on operations under way when one more is asked
  MayFailAtOnce,      \* ua_alloc or the first send of a client may fail
  ReregisterOverlaps  \* a new registration may begin while requests of the
                      \* old client are in flight

ASSUME NoClientAssumption == NoClient \notin Clients
ASSUME MaxOpsAssumption == MaxOps \in Nat
ASSUME EnvironmentAssumption ==
  MayFailAtOnce \in BOOLEAN /\ ReregisterOverlaps \in BOOLEAN

VARIABLES
  g_ua,        \* the current client
  queue,       \* native requests posted to re_main
  exec,        \* operations queued in sipExecutor
  sipManager   \* SipService.sipManager is set

serviceVars == <<queue, exec, sipManager>>
vars == <<regVars, g_ua, serviceVars>>

Requests == {"register", "unregister", "reregister"}
Operations == {"ensure", "rearm", "settings"}

TypeOK ==
  /\ RegTypeOK
  /\ g_ua \in Clients \cup {NoClient}
  /\ queue \in Seq(Requests)
  /\ exec \in Seq(Operations)
  /\ sipManager \in BOOLEAN

Init ==
  /\ RegInit
  /\ g_ua = NoClient
  /\ queue = <<>>
  /\ exec = <<>>
  /\ sipManager = FALSE

-----------------------------------------------------------------------------
(* The service.                                                            *)

InService == UNCHANGED <<regVars, g_ua>>

Room == Len(exec) + Len(queue) < MaxOps

Asks(op) ==
  /\ InService
  /\ Room
  /\ exec' = Append(exec, op)
  /\ UNCHANGED <<queue, sipManager>>

(* onCreate or onStartCommand: the first start, a boot, a restart.         *)
StartCommand == Asks("ensure")

(* A loss and return of the network, or the broadcast of old devices.      *)
NetworkReturns == Asks("rearm")

(* The user saves another account.                                         *)
AccountChanges == Asks("settings")

(* Bound: the registration is not stopped again before an earlier stop is  *)
(* through.                                                                *)
NoStopUnderWay ==
  /\ \A i \in 1..Len(queue) : queue[i] # "unregister"
  /\ g_ua # NoClient => reg[g_ua].expires \/ Silent(reg[g_ua])

(* onDestroy, which drops the executor's operations, or ACTION_SHUTDOWN.   *)
Stop ==
  /\ InService
  /\ Room
  /\ NoStopUnderWay
  /\ sipManager
  /\ sipManager' = FALSE
  /\ exec' \in {exec, <<>>}
  /\ queue' = Append(queue, "unregister")

Executes(op) ==
  /\ InService
  /\ exec # <<>>
  /\ Head(exec) = op
  /\ exec' = Tail(exec)

ensureSipManager ==
  /\ Executes("ensure")
  /\ sipManager' = TRUE
  /\ queue' = IF sipManager THEN queue ELSE Append(queue, "register")

reregisterIfReady ==
  /\ Executes("rearm")
  /\ queue' = IF sipManager /\ g_registered THEN Append(queue, "reregister")
                                            ELSE queue
  /\ UNCHANGED sipManager

applySettings ==
  /\ Executes("settings")
  /\ queue' = IF sipManager THEN Append(queue, "reregister") ELSE queue
  /\ UNCHANGED sipManager

-----------------------------------------------------------------------------
(* The workers on re_main.                                                 *)

Takes(req) ==
  /\ queue # <<>>
  /\ Head(queue) = req
  /\ queue' = Tail(queue)
  /\ UNCHANGED <<exec, sipManager>>

Unused == {c \in Clients : reg[c].state = "unused"}

(* ua_create_and_register, with old the clients as the worker left them.   *)
(* The new agent's contact may be that of an old one: the address it is    *)
(* made of is free again.                                                  *)
ua_create_and_register(old) ==
  \/ /\ MayFailAtOnce
     /\ g_ua' = NoClient
     /\ reg' = old
     /\ UNCHANGED g_registered
  \/ \E c \in Unused, contact \in Contacts :
       /\ \A other \in Unused : c <= other
       /\ g_ua' = c
       /\ \/ /\ reg' = [old EXCEPT ![c] = Sent(Allocated(contact))]
             /\ UNCHANGED g_registered
          \/ /\ MayFailAtOnce
             /\ reg' = [old EXCEPT ![c] = NotSent(Allocated(contact))]
             /\ g_registered' = FALSE

register_worker ==
  /\ Takes("register")
  /\ UNCHANGED <<binding, touched>>
  /\ \/ g_ua # NoClient /\ UNCHANGED <<reg, g_ua, g_registered>>
     \/ g_ua = NoClient /\ ua_create_and_register(reg)

unregister_worker ==
  /\ Takes("unregister")
  /\ UNCHANGED <<g_ua, binding, g_registered, touched>>
  /\ \/ g_ua = NoClient /\ UNCHANGED reg
     \/ /\ g_ua # NoClient
        /\ \E r \in Unregisters(reg[g_ua]) : reg' = [reg EXCEPT ![g_ua] = r]

reregister_worker ==
  /\ Takes("reregister")
  /\ UNCHANGED <<binding, touched>>
  /\ \/ g_ua = NoClient /\ ua_create_and_register(reg)
     \/ /\ g_ua # NoClient
        /\ ReregisterOverlaps \/ Silent(reg[g_ua])
        /\ \E r \in Unregisters(reg[g_ua]) : \E gone \in Destroys(r) :
             ua_create_and_register([reg EXCEPT ![g_ua] = gone])

-----------------------------------------------------------------------------
Executor == ensureSipManager \/ reregisterIfReady \/ applySettings
Worker == register_worker \/ unregister_worker \/ reregister_worker

Next ==
  \/ StartCommand
  \/ NetworkReturns
  \/ AccountChanges
  \/ Stop
  \/ Executor
  \/ Worker
  \/ RegStep /\ UNCHANGED <<g_ua, serviceVars>>

Spec == Init /\ [][Next]_vars

(* Every request is answered or times out, and a client gives up after 16  *)
(* challenges; the network lets a timer's request and the server a REGISTER *)
(* through again and again.                                                *)
Fairness ==
  /\ WF_vars(Executor)
  /\ WF_vars(Worker)
  /\ \A c \in Clients, kind \in Kinds :
       LET Final == AnswerOk(c, kind) \/ AnswerFail(c, kind)
       IN WF_vars(Final /\ UNCHANGED <<g_ua, serviceVars>>)
  /\ \A c \in Clients :
       /\ SF_vars(TimerSends(c) /\ UNCHANGED <<g_ua, serviceVars>>)
       /\ SF_vars(AnswerOk(c, "bind") /\ UNCHANGED <<g_ua, serviceVars>>)

FairSpec == Spec /\ Fairness

-----------------------------------------------------------------------------
(* Properties.                                                             *)

(* A registration was begun, and not taken back by stop().                 *)
Wanted == g_ua # NoClient /\ reg[g_ua].expires

(* The registration never stalls: its client waits for a reply or for its  *)
(* timer.                                                                  *)
NoStall == Wanted => reg[g_ua].tmr \/ ~Silent(reg[g_ua])

(* With no request under way, g_registered, which decides whether the      *)
(* return of the network renews the registration, claims none that the     *)
(* client does not have.                                                   *)
RegisteredIsReal ==
  (Wanted /\ Silent(reg[g_ua]) /\ g_registered) => reg[g_ua].registered

(* The comment on networkCallback: no native crash from a registration     *)
(* that meets another.  A reply finds the client of its request.           *)
NoFreedClientAnswered == ~touched

(* A registration comes back after losses, refusals and timeouts, and also *)
(* when the late un-REGISTER of an old client with the same contact has    *)
(* taken it away.                                                          *)
RegistrationRecovers ==
  Wanted ~> (~Wanted \/ reg[g_ua].contact \in binding)

(* The client of a user agent that was replaced goes in the end.           *)
OldClientsGo ==
  \A c \in Clients : (reg[c].state = "terminated") ~> (reg[c].state = "freed")
=============================================================================
