-------------------------------- MODULE SipReg --------------------------------
(***************************************************************************)
(* Registration clients: struct sipreg of libre with the handler baresip   *)
(* gives it, the requests they have in flight, and the registrar.          *)
(*                                                                         *)
(* A client is unused, live while its user agent owns it, terminated while *)
(* it outlives the user agent to see its un-REGISTER through, and freed.   *)
(* A request carries no expiry in the model but its kind: "bind" for a     *)
(* REGISTER that asks for a binding, "unbind" for one that takes it back.  *)
(* Several requests of one client may be in flight, although the client    *)
(* remembers only the latest (req), and they hold a pointer to the client. *)
(***************************************************************************)
EXTENDS Naturals

CONSTANTS
  Clients,     \* the clients that can be allocated, in order
  Contacts,    \* contact users; one is made of the user agent's address
  MaxOut       \* bound on requests of one kind a client has in flight

ASSUME ClientsAssumption == Clients \subseteq Nat
ASSUME ContactsAssumption == Contacts # {}
ASSUME MaxOutAssumption == MaxOut \in Nat

VARIABLES
  reg,           \* the clients
  binding,       \* contacts the registrar holds
  g_registered,  \* what the last event of a live client said
  touched        \* a reply was handed to a freed client

regVars == <<reg, binding, g_registered, touched>>

Kinds == {"bind", "unbind"}

Client ==
  [state : {"unused", "live", "terminated", "freed"},
   contact : Contacts,
   expires : BOOLEAN,      \* it asks for a binding: expires is not 0
   registered : BOOLEAN,   \* the last 2xx granted one
   tmr : BOOLEAN,          \* the timer runs
   req : BOOLEAN,          \* the pointer to its latest request is set
   out : [Kinds -> 0..MaxOut]]

RegTypeOK ==
  /\ reg \in [Clients -> Client]
  /\ binding \subseteq Contacts
  /\ g_registered \in BOOLEAN
  /\ touched \in BOOLEAN

(* sipreg_alloc *)
Allocated(contact) ==
  [state |-> "live", contact |-> contact, expires |-> TRUE,
   registered |-> FALSE, tmr |-> FALSE, req |-> FALSE,
   out |-> [kind \in Kinds |-> 0]]

(* What an unused or freed client holds means nothing; a freed one may     *)
(* still have requests that point to it.                                   *)
Blank == Allocated(CHOOSE contact \in Contacts : TRUE)
Freed(r) == [Blank EXCEPT !.state = "freed", !.out = r.out]

RegInit ==
  /\ reg = [c \in Clients |-> [Blank EXCEPT !.state = "unused"]]
  /\ binding = {}
  /\ g_registered = FALSE
  /\ touched = FALSE

Silent(r) == \A kind \in Kinds : r.out[kind] = 0

-----------------------------------------------------------------------------
(* What a client does, as functions of its record.                         *)

(* request() with a send that succeeds.                                    *)
Sent(r) ==
  LET kind == IF r.expires THEN "bind" ELSE "unbind"
  IN [r EXCEPT !.req = TRUE, !.out[kind] = @ + 1]

(* request() with a send that fails at once.  The new request's destructor *)
(* clears the client's pointer even if that is to an older request.        *)
NotSent(r) == [r EXCEPT !.req = FALSE]

(* sipreg_unregister.  The timer is left running.                          *)
Unregisters(r) ==
  LET quits == [r EXCEPT !.expires = FALSE]
  IN {Sent(quits), NotSent(quits)}

(* Faulty variant: the client goes although its last request is pending.   *)
DestroysAtOnce(r) == {Freed(r)}

(* The destructor, of a client that has been told to unregister.  It stays *)
(* for the reply to a pending request, or to one more un-REGISTER.         *)
Destroys(r) ==
  LET stays == [r EXCEPT !.state = "terminated", !.tmr = FALSE]
  IN IF r.req THEN {stays}
     ELSE IF r.registered THEN {Sent(stays), Freed(r)}
     ELSE {Freed(r)}

(* Faulty variants: a client that has never been registered gives up; a    *)
(* terminated client is kept.                                              *)
FinishesOnce(r) ==
  IF r.state = "terminated" THEN Freed(r)
                            ELSE [r EXCEPT !.tmr = r.expires /\ r.registered]
FinishesKeeping(r) == [r EXCEPT !.tmr = r.expires /\ r.state = "live"]

(* The end of response_handler: a live client sets its timer, to refresh   *)
(* or to try again, or cancels it once it has unregistered.                *)
Finishes(r) ==
  IF r.state = "terminated" THEN Freed(r) ELSE [r EXCEPT !.tmr = r.expires]

(* terminate() of the request, before the client's handler is called.      *)
Answered(r, kind) == [r EXCEPT !.req = FALSE, !.out[kind] = @ - 1]

-----------------------------------------------------------------------------
(* Replies, timers, and the registrar.                                     *)

(* Faulty variant: a failure does not reach g_registered.                  *)
ReportsSuccess(c, ok) ==
  g_registered' = (g_registered \/ (ok /\ reg[c].state = "live"))

(* register_handler, and the event it raises; a terminated client has the  *)
(* handler that does nothing.  The 2xx to an un-REGISTER is REGISTER_OK.   *)
Reports(c, ok) ==
  g_registered' = IF reg[c].state = "live" THEN ok ELSE g_registered

InFlight(c, kind) == reg[c].state # "freed" /\ reg[c].out[kind] > 0

Served(c, kind) ==
  IF kind = "bind" THEN binding \cup {reg[c].contact}
                   ELSE binding \ {reg[c].contact}

AnswerOk(c, kind) ==
  /\ InFlight(c, kind)
  /\ binding' = Served(c, kind)
  /\ reg' = [reg EXCEPT ![c] =
       Finishes([Answered(@, kind) EXCEPT !.registered = (kind = "bind")])]
  /\ Reports(c, TRUE)
  /\ UNCHANGED touched

(* A final response of 300 or more, or none in time: the request may have  *)
(* been served all the same.                                               *)
AnswerFail(c, kind) ==
  /\ InFlight(c, kind)
  /\ binding' \in {binding, Served(c, kind)}
  /\ reg' = [reg EXCEPT ![c] = Finishes(Answered(@, kind))]
  /\ Reports(c, FALSE)
  /\ UNCHANGED touched

(* 401, 407 or 423, and the request sent again.  If it cannot be, or if a  *)
(* terminated client is not registered, the step is AnswerFail.            *)
Challenged(c, kind) ==
  /\ InFlight(c, kind)
  /\ reg[c].state = "live" \/ reg[c].registered
  /\ reg' = [reg EXCEPT ![c] = Sent(Answered(@, kind))]
  /\ UNCHANGED <<binding, g_registered, touched>>

(* Undefined behaviour: the handlers run on memory that was given back.    *)
UseAfterFree(c, kind) ==
  /\ reg[c].state = "freed"
  /\ reg[c].out[kind] > 0
  /\ reg' = [reg EXCEPT ![c].out[kind] = @ - 1]
  /\ touched' = TRUE
  /\ UNCHANGED <<binding, g_registered>>

(* Faulty variant: the timer runs on.                                      *)
TimerRepeats(c) ==
  /\ reg[c].tmr
  /\ reg' = [reg EXCEPT ![c] = Sent(@)]
  /\ UNCHANGED <<binding, g_registered, touched>>

TimerSends(c) ==
  /\ reg[c].tmr
  /\ reg' = [reg EXCEPT ![c] = Sent([@ EXCEPT !.tmr = FALSE])]
  /\ UNCHANGED <<binding, g_registered, touched>>

(* Faulty variant: the timer is not started again.                         *)
TimerGivesUp(c) ==
  /\ reg[c].tmr
  /\ reg' = [reg EXCEPT ![c] = NotSent([@ EXCEPT !.tmr = FALSE])]
  /\ Reports(c, FALSE)
  /\ UNCHANGED <<binding, touched>>

TimerFails(c) ==
  /\ reg[c].tmr
  /\ reg' = [reg EXCEPT ![c] = NotSent(@)]
  /\ Reports(c, FALSE)
  /\ UNCHANGED <<binding, touched>>

(* The registrar forgets a contact: it expired, or the server restarted.   *)
BindingLost ==
  /\ \E contact \in binding : binding' = binding \ {contact}
  /\ UNCHANGED <<reg, g_registered, touched>>

RegStep ==
  \/ \E c \in Clients :
       \/ \E kind \in Kinds :
            \/ AnswerOk(c, kind)
            \/ AnswerFail(c, kind)
            \/ Challenged(c, kind)
            \/ UseAfterFree(c, kind)
       \/ TimerSends(c)
       \/ TimerFails(c)
  \/ BindingLost
=============================================================================
