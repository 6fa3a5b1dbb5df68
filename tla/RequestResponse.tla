--------------------------- MODULE RequestResponse ---------------------------
(***************************************************************************)
(* What Send<Response> promises its caller, with no handles, slots, frames *)
(* or condition variables: a call is made under a ticket (its              *)
(* RequestHandle); while it is in progress its own answer may arrive, at   *)
(* most once; the call then returns, with that answer or without one (the *)
(* default-constructed response), and every call eventually returns.       *)
(* Correlator implements this specification under the mapping in           *)
(* Correlator's RR instance.                                               *)
(***************************************************************************)
CONSTANTS
  Callers,   \* threads calling Send<Response>
  Tickets,   \* identities of calls (request handles)
  NoTicket,  \* no call in progress
  NoAnswer   \* no answer received (a default response)

ASSUME NoTicket \notin Tickets /\ NoAnswer \notin Tickets

VARIABLES
  state,   \* per caller: idle or busy
  ticket,  \* per caller: the ticket of its call in progress
  answer   \* per caller: the answer its call received so far

vars == <<state, ticket, answer>>

Init ==
  /\ state = [c \in Callers |-> "idle"]
  /\ ticket = [c \in Callers |-> NoTicket]
  /\ answer = [c \in Callers |-> NoAnswer]

\* A caller starts a call.
Call(c, t) ==
  /\ state[c] = "idle"
  /\ state' = [state EXCEPT ![c] = "busy"]
  /\ ticket' = [ticket EXCEPT ![c] = t]
  /\ UNCHANGED answer

\* The call's own answer arrives, once.
Answer(c) ==
  /\ state[c] = "busy"
  /\ answer[c] = NoAnswer
  /\ answer' = [answer EXCEPT ![c] = ticket[c]]
  /\ UNCHANGED <<state, ticket>>

\* The call returns, with the answer it got or with none.
Return(c) ==
  /\ state[c] = "busy"
  /\ state' = [state EXCEPT ![c] = "idle"]
  /\ ticket' = [ticket EXCEPT ![c] = NoTicket]
  /\ answer' = [answer EXCEPT ![c] = NoAnswer]

Next ==
  \E c \in Callers :
    \/ \E t \in Tickets : Call(c, t)
    \/ Answer(c)
    \/ Return(c)

\* A call in progress cannot block forever.
Spec == Init /\ [][Next]_vars /\ \A c \in Callers : WF_vars(Return(c))

=============================================================================
