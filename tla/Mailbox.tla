------------------------------- MODULE Mailbox -------------------------------
(***************************************************************************)
(* What receive() and try_receive() promise an actor: a selective mailbox  *)
(* in which a send, a receive and a timeout are each one step.             *)
(*                                                                         *)
(* Receive, with Concurrent = FALSE, implements this specification         *)
(* (ReceiveImplements); GenServer and Supervisor build on it.  A message   *)
(* is its number in the order of the sends.                                *)
(***************************************************************************)
EXTENDS Naturals

CONSTANTS MsgTypes, MaxMessages, MaxReceives

Messages == 1..MaxMessages
Receives == 1..MaxReceives
Timeout == 0
None == 0

VARIABLES
    pushed,    \* number of messages sent
    typeOf,    \* typeOf[i]: the type of message i
    queued,    \* messages that no receive has taken
    begun,     \* number of receives begun
    wants,     \* wants[n]: message types that receive n accepts
    timed,     \* timed[n]: does receive n have a timeout?
    result,    \* result[n]: the message receive n took, or its timeout, as a
               \* set of at most one
    returned,  \* receives that have returned to the actor
    exited     \* the actor has ended

mailVars == <<pushed, typeOf, queued>>
vars == <<mailVars, begun, wants, timed, result, returned, exited>>

Init ==
    /\ pushed = 0
    /\ typeOf = [i \in Messages |-> None]
    /\ queued = {}
    /\ begun = 0
    /\ wants = [n \in Receives |-> {}]
    /\ timed = [n \in Receives |-> FALSE]
    /\ result = [n \in Receives |-> {}]
    /\ returned = {}
    /\ exited = FALSE

(* Receive n waits. *)
Waits(n) == n \in 1..begun /\ result[n] = {}

(* A message goes to the receive that waits for its type, or is queued. *)
Send(type) ==
    /\ pushed < MaxMessages
    /\ pushed' = pushed + 1
    /\ typeOf' = [typeOf EXCEPT ![pushed + 1] = type]
    /\ \/ \E n \in Receives :
             /\ Waits(n) /\ type \in wants[n]
             /\ result' = [result EXCEPT ![n] = {pushed + 1}]
             /\ UNCHANGED queued
       \/ /\ \A n \in Receives : Waits(n) => type \notin wants[n]
          /\ queued' = queued \cup {pushed + 1}
          /\ UNCHANGED result
    /\ UNCHANGED <<begun, wants, timed, returned, exited>>

(* The actor's next receive takes the oldest message it accepts and        *)
(* returns, or waits.                                                      *)
Begin(w, t) ==
    LET n == begun + 1
        matching == {i \in queued : typeOf[i] \in w} IN
    /\ ~exited
    /\ begun < MaxReceives
    /\ 1..begun \subseteq returned
    /\ begun' = n
    /\ wants' = [wants EXCEPT ![n] = w]
    /\ timed' = [timed EXCEPT ![n] = t]
    /\ \/ \E i \in matching :
             /\ \A j \in matching : i <= j
             /\ result' = [result EXCEPT ![n] = {i}]
             /\ queued' = queued \ {i}
             /\ returned' = returned \cup {n}
       \/ /\ matching = {}
          /\ UNCHANGED <<result, queued, returned>>
    /\ UNCHANGED <<pushed, typeOf, exited>>

(* A try_receive that waits gives up. *)
Expire(n) ==
    /\ Waits(n)
    /\ timed[n]
    /\ result' = [result EXCEPT ![n] = {Timeout}]
    /\ UNCHANGED <<mailVars, begun, wants, timed, returned, exited>>

(* A receive that has waited returns its result. *)
Complete(n) ==
    /\ result[n] # {}
    /\ n \notin returned
    /\ returned' = returned \cup {n}
    /\ UNCHANGED <<mailVars, begun, wants, timed, result, exited>>

Exit ==
    /\ ~exited
    /\ 1..begun \subseteq returned
    /\ exited' = TRUE
    /\ UNCHANGED <<mailVars, begun, wants, timed, result, returned>>

Next ==
    \/ \E type \in MsgTypes : Send(type)
    \/ \E w \in (SUBSET MsgTypes) \ {{}}, t \in BOOLEAN : Begin(w, t)
    \/ \E n \in Receives : Expire(n) \/ Complete(n)
    \/ Exit

Spec == Init /\ [][Next]_vars

FairSpec == Spec /\ \A n \in Receives : WF_vars(Expire(n)) /\ WF_vars(Complete(n))

=============================================================================
