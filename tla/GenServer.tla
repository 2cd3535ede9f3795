------------------------------ MODULE GenServer ------------------------------
(***************************************************************************)
(* GenServers that call, cast to and serve each other                      *)
(* (include/agner/genserver.hpp), on a single-threaded scheduler.          *)
(*                                                                         *)
(* Every actor is a GenServer whose run() may call(), cast() and serve()   *)
(* in any order.  A send to an actor that waits in a receive runs the      *)
(* visitor inside the sender's call: a request to a serving actor is       *)
(* handled, and the Reply sent, before the sender's send() returns.  The   *)
(* mailbox is the one that Receive shows receive() and try_receive() to    *)
(* implement without threads.                                              *)
(*                                                                         *)
(* A handler may throw.  In await_ready of the server that ends the        *)
(* server; in a sender's call it ends that call, and the server is left    *)
(* suspended with its pending_ taken out ("deaf").                         *)
(*                                                                         *)
(* A request is its sender, the sender's request id, and its number n      *)
(* among the sender's requests; a response is the request it answers and   *)
(* the server that gave it.  handle() overloads send nothing themselves,   *)
(* and no actor sends a request to itself.                                 *)
(***************************************************************************)
EXTENDS Integers, Sequences, SequencesExt

CONSTANTS
    Actors,       \* the GenServers
    Timeouts,     \* what call() is given as its timeout
    MaxRequests,  \* bound: calls and casts of each actor
    MaxSignals,   \* bound: ExitSignals and DownSignals sent
    MaxTime       \* bound: the clock

ASSUME GenServerBounds == MaxRequests \in Nat /\ MaxSignals \in Nat /\ MaxTime \in Nat
ASSUME TimeoutsAssumption == Timeouts \subseteq Int

VARIABLES
    phase,      \* phase[a]: where the coroutine of a is
    mailbox,    \* mailbox[a]: mailbox_
    call,       \* call[a]: the locals of a's call(): request, deadline, result
    nextId,     \* nextId[a]: next_request_id_
    sent,       \* sent[a]: number of requests sent by a
    outcome,    \* outcome[a]: how a's calls have ended, by request id
    handled,    \* handled[a]: the requests a has handled, in order
    signals,    \* number of signals sent
    clock

requests == <<nextId, sent>>
results == <<call, outcome>>
vars == <<phase, mailbox, results, requests, handled, signals, clock>>

(* A message, or a result, is a record with a kind. *)
None == [kind |-> "none"]
TimedOut == [kind |-> "timeout"]
Failed == [kind |-> "error"]
Requests == [kind : {"call", "cast"}, from : Actors, to : Actors,
             id : 0..MaxRequests, n : 1..MaxRequests]
Replies == [kind : {"reply"}, id : 0..MaxRequests, answers : Requests, by : Actors]
Signals == [kind : {"exit", "down"}]

NoCall == [request |-> None, deadline |-> 0, result |-> None]

(* The phases of an actor:                                                 *)
(*   "user"     in run(), outside of call() and serve()                    *)
(*   "loop"     at the head of call()'s loop, running                      *)
(*   "waiting"  suspended in call()'s try_receive                          *)
(*   "woken"    its try_receive has a result and its handle is scheduled   *)
(*   "serve"    at the head of serve()'s loop, running                     *)
(*   "serving"  suspended in dispatch_one's receive                        *)
(*   "next"     dispatch_one has returned false, its handle is scheduled   *)
(*   "stop"     dispatch_one has returned true, its handle is scheduled    *)
(*   "deaf"     suspended in dispatch_one's receive, no longer registered  *)
(*   "gone"     has exited                                                 *)
Phases == {"user", "loop", "waiting", "woken", "serve", "serving", "next",
           "stop", "deaf", "gone"}

(* Between two suspensions a coroutine has the thread for itself. *)
ThreadFree == \A a \in Actors : phase[a] \notin {"loop", "serve"}

Init ==
    /\ phase = [a \in Actors |-> "user"]
    /\ mailbox = [a \in Actors |-> <<>>]
    /\ call = [a \in Actors |-> NoCall]
    /\ nextId = [a \in Actors |-> 0]
    /\ sent = [a \in Actors |-> 0]
    /\ outcome = [a \in Actors |-> <<>>]
    /\ handled = [a \in Actors |-> <<>>]
    /\ signals = 0
    /\ clock = 0

Goto(a, p) == phase' = [phase EXCEPT ![a] = p]
Queue(mb, a, m) == [mb EXCEPT ![a] = Append(@, m)]

-----------------------------------------------------------------------------
(* What a message does on arrival.  ph, mb and cl are the values of phase, *)
(* mailbox and call when it arrives.  A definition whose name starts with  *)
(* Wrong is a faulty variant of the one after it, kept to show that a      *)
(* property notices the fault.                                             *)

(* The Reply to r arrives at r.from: the visitor of that actor's           *)
(* try_receive takes it, or its serve() takes and ignores it, or it is     *)
(* queued, or there is no such actor any more.                             *)
ReplyArrives(r, s, ph, mb, cl) ==
    LET c == r.from
        reply == [kind |-> "reply", id |-> r.id, answers |-> r, by |-> s] IN
    /\ phase' = [ph EXCEPT ![c] = CASE @ = "waiting" -> "woken"
                                    [] @ = "serving" -> "next"
                                    [] OTHER -> @]
    /\ call' = IF ph[c] = "waiting" THEN [cl EXCEPT ![c].result = reply] ELSE cl
    /\ mailbox' = IF ph[c] \in {"waiting", "serving", "gone"} THEN mb ELSE Queue(mb, c, reply)

(* MessageDispatcher, for a request r that server s has taken: handle()    *)
(* runs, and the Reply to a call is sent.                                  *)
Dispatch(r, s, ph, mb, cl) ==
    /\ handled' = [handled EXCEPT ![s] = Append(@, r)]
    /\ \/ r.kind = "call" /\ ReplyArrives(r, s, ph, mb, cl)
       \/ r.kind = "cast" /\ phase' = ph /\ mailbox' = mb /\ call' = cl

(* Actor::send of request r: the receiver is gone, or does not wait for    *)
(* requests, or handles it at once, ...                                    *)
Send(r, ph, cl) ==
    \/ /\ phase[r.to] # "serving"
       /\ phase' = ph
       /\ mailbox' = IF phase[r.to] = "gone" THEN mailbox ELSE Queue(mailbox, r.to, r)
       /\ call' = cl
       /\ UNCHANGED handled
    \/ /\ phase[r.to] = "serving"
       /\ Dispatch(r, r.to, [ph EXCEPT ![r.to] = "next"], mailbox, cl)

(* ... or its handler throws, into the sender's send(): the message stays  *)
(* in the mailbox and the receiver's awaiter is not put back.              *)
SendThrows(r) ==
    /\ phase[r.to] = "serving"
    /\ Goto(r.to, "deaf")
    /\ mailbox' = Queue(mailbox, r.to, r)
    /\ handled' = [handled EXCEPT ![r.to] = Append(@, r)]
    /\ UNCHANGED call

-----------------------------------------------------------------------------
(* call() and cast() *)

MaySend(a, s) == ThreadFree /\ phase[a] = "user" /\ a # s /\ sent[a] < MaxRequests

(* The request is sent, and the deadline taken; the loop comes next, if no *)
(* exception ends the call.                                                *)
Call(a, s, t) ==
    LET r == [kind |-> "call", from |-> a, to |-> s, id |-> nextId[a], n |-> sent[a] + 1]
        locals == [request |-> r, deadline |-> clock + t, result |-> None] IN
    /\ MaySend(a, s)
    /\ clock + t < MaxTime
    /\ nextId' = [nextId EXCEPT ![a] = @ + 1]
    /\ sent' = [sent EXCEPT ![a] = @ + 1]
    /\ \/ /\ Send(r, [phase EXCEPT ![a] = "loop"], [call EXCEPT ![a] = locals])
          /\ UNCHANGED outcome
       \/ /\ SendThrows(r)
          /\ outcome' = [outcome EXCEPT ![a] = Append(@, Failed)]
    /\ UNCHANGED <<signals, clock>>

Cast(a, s) ==
    LET r == [kind |-> "cast", from |-> a, to |-> s, id |-> 0, n |-> sent[a] + 1] IN
    /\ MaySend(a, s)
    /\ sent' = [sent EXCEPT ![a] = @ + 1]
    /\ Send(r, phase, call) \/ SendThrows(r)
    /\ UNCHANGED <<nextId, outcome, signals, clock>>

IsReply(m) == m.kind = "reply"

WrongEnds(a, x) == TRUE

(* Does the result x of a try_receive end the call?  A Reply to another    *)
(* request does not.                                                       *)
Ends(a, x) == IsReply(x) => x.id = call[a].request.id

CallReceived(a, x) ==
    /\ Goto(a, IF Ends(a, x) THEN "user" ELSE "loop")
    /\ outcome' = [outcome EXCEPT ![a] = IF Ends(a, x) THEN Append(@, x) ELSE @]
    /\ call' = [call EXCEPT ![a] = IF Ends(a, x) THEN NoCall ELSE [@ EXCEPT !.result = None]]

RepliesAt(a) == {i \in DOMAIN mailbox[a] : IsReply(mailbox[a][i])}

WrongFirstReply(a) == {}

(* The message that await_ready of call()'s try_receive takes. *)
FirstReply(a) == {i \in RepliesAt(a) : \A j \in RepliesAt(a) : i <= j}

(* One round of the loop: the deadline is checked, await_ready takes the   *)
(* first Reply of the mailbox, or there is none and the actor suspends.    *)
CallLoop(a) ==
    /\ phase[a] = "loop"
    /\ \/ /\ call[a].deadline < clock
          /\ CallReceived(a, TimedOut)
          /\ UNCHANGED mailbox
       \/ /\ call[a].deadline >= clock
          /\ \E i \in FirstReply(a) :
                /\ CallReceived(a, mailbox[a][i])
                /\ mailbox' = [mailbox EXCEPT ![a] = RemoveAt(@, i)]
       \/ /\ call[a].deadline >= clock
          /\ FirstReply(a) = {}
          /\ Goto(a, "waiting")
          /\ UNCHANGED <<mailbox, results>>
    /\ UNCHANGED <<requests, handled, signals, clock>>

WrongTimeoutVisitor == None

(* What the timeout visitor leaves behind. *)
TimeoutVisitor == TimedOut

WrongDue(a) == clock > call[a].deadline + MaxTime

(* The timer, armed with what remained until the deadline, is due. *)
Due(a) == clock >= call[a].deadline

CallTimer(a) ==
    /\ ThreadFree
    /\ phase[a] = "waiting"
    /\ Due(a)
    /\ Goto(a, "woken")
    /\ call' = [call EXCEPT ![a].result = TimeoutVisitor]
    /\ UNCHANGED <<mailbox, outcome, requests, handled, signals, clock>>

(* The scheduler resumes the caller. *)
CallResume(a) ==
    /\ ThreadFree
    /\ phase[a] = "woken"
    /\ CallReceived(a, call[a].result)
    /\ UNCHANGED <<mailbox, requests, handled, signals, clock>>

-----------------------------------------------------------------------------
(* serve() *)

WrongDispatched(stop) == IF stop THEN "user" ELSE "next"

(* Where serve() goes when dispatch_one has returned stop. *)
Dispatched(stop) == IF stop THEN "user" ELSE "serve"

(* run() calls serve(), or the scheduler resumes it after a dispatch_one. *)
Serve(a) ==
    /\ ThreadFree
    /\ \/ phase[a] = "user" /\ Goto(a, "serve")
       \/ phase[a] \in {"next", "stop"} /\ Goto(a, Dispatched(phase[a] = "stop"))
    /\ UNCHANGED <<mailbox, results, requests, handled, signals, clock>>

WrongErased(a) == mailbox

(* The mailbox without the message that dispatch_one has taken. *)
Erased(a) == [mailbox EXCEPT ![a] = Tail(@)]

(* dispatch_one: its receive finds m in front of the mailbox.  A request   *)
(* is handled, or its handler throws and run_actor ends the actor; a Reply *)
(* or a DownSignal is ignored; an ExitSignal ends serve().  Or there is no *)
(* message, and the actor suspends.                                        *)
ServeLoop(a) ==
    LET m == Head(mailbox[a]) IN
    /\ phase[a] = "serve"
    /\ \/ /\ mailbox[a] # <<>> /\ m \in Requests
          /\ Dispatch(m, a, phase, Erased(a), call)
       \/ /\ mailbox[a] # <<>> /\ m \in Requests
          /\ handled' = [handled EXCEPT ![a] = Append(@, m)]
          /\ Goto(a, "gone")
          /\ mailbox' = [mailbox EXCEPT ![a] = <<>>]
          /\ UNCHANGED call
       \/ /\ mailbox[a] # <<>> /\ m \notin Requests
          /\ Goto(a, Dispatched(m.kind = "exit"))
          /\ mailbox' = Erased(a)
          /\ UNCHANGED <<call, handled>>
       \/ /\ mailbox[a] = <<>>
          /\ Goto(a, "serving")
          /\ UNCHANGED <<mailbox, call, handled>>
    /\ UNCHANGED <<outcome, requests, signals, clock>>

(* run() returns and the actor leaves the registry. *)
Exit(a) ==
    /\ ThreadFree
    /\ phase[a] = "user"
    /\ Goto(a, "gone")
    /\ mailbox' = [mailbox EXCEPT ![a] = <<>>]
    /\ UNCHANGED <<results, requests, handled, signals, clock>>

(* A signal from stop(), or from a linked or monitored actor, arrives. *)
Signal(a, m) ==
    /\ ThreadFree
    /\ signals < MaxSignals
    /\ signals' = signals + 1
    /\ \/ /\ phase[a] = "serving"
          /\ Goto(a, IF m.kind = "exit" THEN "stop" ELSE "next")
          /\ UNCHANGED mailbox
       \/ /\ phase[a] \notin {"serving", "gone"}
          /\ mailbox' = Queue(mailbox, a, m)
          /\ UNCHANGED phase
    /\ UNCHANGED <<results, requests, handled, clock>>

(* Time passes, also while a coroutine runs. *)
Tick ==
    /\ clock < MaxTime
    /\ clock' = clock + 1
    /\ UNCHANGED <<phase, mailbox, results, requests, handled, signals>>

-----------------------------------------------------------------------------
Coroutine(a) ==
    \/ CallLoop(a) \/ CallTimer(a) \/ CallResume(a) \/ ServeLoop(a)
    \/ phase[a] # "user" /\ Serve(a)

Program(a) ==
    \/ \E s \in Actors : Cast(a, s) \/ \E t \in Timeouts : Call(a, s, t)
    \/ phase[a] = "user" /\ Serve(a)
    \/ Exit(a)

Next ==
    \/ \E a \in Actors : Coroutine(a) \/ Program(a)
    \/ \E a \in Actors, m \in Signals : Signal(a, m)
    \/ Tick

Spec == Init /\ [][Next]_vars

(* A running coroutine goes on, scheduled handles are resumed, due timers  *)
(* fire and time passes; run() need not call, serve or return.             *)
FairSpec == Spec /\ WF_vars(Tick) /\ \A a \in Actors : WF_vars(Coroutine(a))

-----------------------------------------------------------------------------
(* Properties. *)

(* Every variable keeps its type. *)
TypeOK ==
    /\ phase \in [Actors -> Phases]
    /\ mailbox \in [Actors -> Seq(Requests \cup Replies \cup Signals)]
    /\ call \in [Actors -> [request : Requests \cup {None}, deadline : Int,
                            result : Replies \cup {None, TimedOut}]]
    /\ nextId \in [Actors -> 0..MaxRequests]
    /\ sent \in [Actors -> 0..MaxRequests]
    /\ outcome \in [Actors -> Seq(Replies \cup {TimedOut, Failed})]
    /\ handled \in [Actors -> Seq(Requests)]
    /\ signals \in 0..MaxSignals
    /\ clock \in 0..MaxTime

(* call() never returns the answer to another request: what it returns is  *)
(* the response of the server it called, to the very request it sent, also *)
(* when replies to calls that have timed out come in late.                 *)
CallCorrelated ==
    \A a \in Actors : \A i \in DOMAIN outcome[a] :
        LET x == outcome[a][i] IN
        IsReply(x) =>
            /\ x.answers.from = a
            /\ x.answers.id = i - 1
            /\ x.by = x.answers.to
            /\ \E j \in DOMAIN handled[x.by] : handled[x.by][j] = x.answers

(* A server handles the requests of one sender in the order in which they  *)
(* were sent, and each of them once.                                       *)
HandledInOrder ==
    \A s \in Actors : \A i, j \in DOMAIN handled[s] :
        (i < j /\ handled[s][i].from = handled[s][j].from)
            => handled[s][i].n < handled[s][j].n

(* Nobody sleeps on what it waits for: a suspended server has an empty     *)
(* mailbox and a suspended caller has no Reply in its mailbox, unless an   *)
(* exception has made the server deaf.                                     *)
SleepersHaveNothing ==
    \A a \in Actors :
        /\ phase[a] = "serving" => mailbox[a] = <<>>
        /\ phase[a] = "waiting" => RepliesAt(a) = {}

(* A call ends, by its Reply or by its deadline, whatever the server does. *)
CallEnds ==
    \A a \in Actors :
        (phase[a] \in {"loop", "waiting", "woken"}) ~> (phase[a] = "user")

(* A request queued at an actor that serves is handled, unless that actor  *)
(* stops serving or is left deaf first.                                    *)
RequestHandled ==
    \A s \in Actors :
        (phase[s] \in {"serve", "serving", "next"} /\ \E i \in DOMAIN mailbox[s] : mailbox[s][i] \in Requests)
            ~> (mailbox[s] = <<>> \/ phase[s] \in {"user", "stop", "deaf", "gone"})

=============================================================================
