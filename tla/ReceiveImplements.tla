-------------------------- MODULE ReceiveImplements --------------------------
(***************************************************************************)
(* Receive implements Mailbox when the scheduler has one thread.           *)
(***************************************************************************)
EXTENDS Receive

Abstract == INSTANCE Mailbox WITH
    queued <- mailbox,
    result <- outcome,
    returned <- {n \in Receives : state[n] = "done"}

(* Seen from outside, the lock sections, the flag, the timer callback and  *)
(* the scheduled handle of receive() and try_receive() amount to one step  *)
(* per send, per receive and per timeout: a message goes to the receive    *)
(* that waits for it or is queued, the oldest match is taken first, a      *)
(* waiting try_receive gives up in the end, and a receive that has a       *)
(* result returns.                                                         *)
ImplementsMailbox == Abstract!FairSpec

=============================================================================
