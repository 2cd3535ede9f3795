----------------------------- MODULE Supervisor -----------------------------
(***************************************************************************)
(* The supervisor of include/agner/supervisor.hpp on a single-threaded     *)
(* scheduler: its children, the restart strategies, the restart intensity  *)
(* and the administrative calls.                                           *)
(*                                                                         *)
(* A signal that arrives while the supervisor is suspended in receive is   *)
(* handled at once, inside the exit of the child that sends it, because    *)
(* notify_waiter_locked runs the visitors; the coroutine is then scheduled *)
(* and, until it runs, further signals queue in the mailbox.  In that      *)
(* window children_ holds children that have already left the registry.    *)
(*                                                                         *)
(* Every spawn of the supervisor draws a new ActorRef and a new            *)
(* start_order, both increasing, so one number stands for the two.  The    *)
(* constructor arguments of a child are left out.                          *)
(***************************************************************************)
EXTENDS Integers, Sequences, FiniteSets, Functions

CONSTANTS
    Strategies,   \* the strategies considered
    NumSpecs,     \* child specifications
    Permanent,    \* those with Restart::permanent
    Transient,    \* those with Restart::transient; the others are temporary
    MaxRestarts,  \* Intensity::max_restarts
    Within,       \* Intensity::within, in ticks
    MaxFaults,    \* bound: exits that nobody asked for
    MaxAdmin,     \* bound: administrative calls
    MaxTime       \* bound: ticks of the clock

Specs == 1..NumSpecs

ASSUME SupervisorAssumption ==
    /\ Strategies \subseteq {"one_for_one", "one_for_all", "rest_for_one", "simple_one_for_one"}
    /\ NumSpecs \in Nat \ {0} /\ MaxRestarts \in Nat /\ Within \in Nat
    /\ MaxFaults \in Nat /\ MaxAdmin \in Nat /\ MaxTime \in Nat
    /\ Permanent \subseteq Specs /\ Transient \subseteq Specs \ Permanent

VARIABLES
    strategy,      \* specification_.strategy, chosen once
    sup,           \* where the supervisor's coroutine is
    started,       \* init() has run
    stopping,      \* stopping_
    mailbox,       \* signals not yet received
    spawned,       \* spawned[r]: the specification that child r was spawned for
    alive,         \* children in the scheduler's registry
    asked,         \* children whose Actor::stop was called
    children,      \* children_, a function on the refs it holds
    group,         \* restart_group_
    restartTimes,  \* restart_times_
    now,           \* the scheduler's clock
    granted,       \* history: when register_restart returned true
    halted,        \* history: specs whose children a call has stopped, not started since
    faults, admin  \* counters for MaxFaults and MaxAdmin

child == <<spawned, alive, asked, children>>
restarts == <<restartTimes, granted>>
calls == <<halted, admin>>
vars == <<strategy, sup, started, stopping, mailbox, spawned, alive, asked, children, group,
          restartTimes, now, granted, halted, faults, admin>>

Simple == strategy = "simple_one_for_one"
NoGroup == [failed |-> 0, reason |-> "none", others |-> {}, pending |-> {}] \* no restart_group_
StopSignal == [from |-> 0, reason |-> "stopped"] \* the supervisor's own ExitSignal
Down(r, why) == [from |-> r, reason |-> why]
Fresh == [stopping |-> FALSE, suppress |-> FALSE]

Init ==
    /\ strategy \in Strategies
    /\ sup = "scheduled" /\ started = FALSE /\ stopping = FALSE
    /\ mailbox = <<>> /\ spawned = <<>> /\ alive = {} /\ asked = {} /\ children = <<>>
    /\ group = NoGroup /\ restartTimes = <<>> /\ now = 0 /\ granted = <<>>
    /\ halted = {} /\ faults = 0 /\ admin = 0

-----------------------------------------------------------------------------
(* Starting children.  A definition whose name starts with Wrong is a      *)
(* faulty variant of the one after it, kept to show that a property        *)
(* notices the fault.                                                      *)

Kids == [spawned |-> spawned, alive |-> alive, children |-> children]

(* start_child_with_args: spawn and monitor, unless the spec has a child. *)
StartChild(kids, s) ==
    LET r == Len(kids.spawned) + 1
    IN  IF ~Simple /\ \E q \in DOMAIN kids.children : kids.spawned[q] = s THEN kids
        ELSE [spawned  |-> Append(kids.spawned, s),
              alive    |-> kids.alive \cup {r},
              children |-> [q \in DOMAIN kids.children \cup {r} |->
                               IF q = r THEN Fresh ELSE kids.children[q]]]

StartChildren(kids, specs) ==
    LET after[i \in 0..Len(specs)] ==
            IF i = 0 THEN kids ELSE StartChild(after[i - 1], specs[i])
    IN  after[Len(specs)]

Install(kids) ==
    spawned' = kids.spawned /\ alive' = kids.alive /\ children' = kids.children

WrongWithout(r) == children

(* children_.erase *)
Without(r) == Restrict(children, DOMAIN children \ {r})

ShouldRestart(s, why) == s \in Permanent \/ (s \in Transient /\ why # "normal")

-----------------------------------------------------------------------------
(* Stopping children, in the order of their refs. *)

(* request_stop of these would throw: scheduler().stop looks up a child    *)
(* that has left the registry.                                             *)
Throws(kids, refs) ==
    {r \in refs : ~kids.children[r].stopping /\ r \notin kids.alive}

Reached(kids, refs) ==
    {r \in refs : \A q \in Throws(kids, refs) : r <= q}

(* The loop over refs that sets suppress_restart and calls request_stop. *)
StopEach(kids, refs, suppress) ==
    /\ asked' = asked \cup {r \in Reached(kids, refs) \cap kids.alive :
                               ~kids.children[r].stopping}
    /\ Install([kids EXCEPT !.children =
           [r \in DOMAIN @ |-> IF r \in Reached(kids, refs)
                               THEN [stopping |-> TRUE, suppress |-> suppress] ELSE @[r]]])

(* Supervisor::stop, with where the coroutine is afterwards; box is the    *)
(* mailbox without the signal being handled.                               *)
Stop(kids, box, after, thrown) ==
    /\ stopping' = TRUE
    /\ \/ /\ stopping
          /\ Install(kids)
          /\ mailbox' = Append(box, StopSignal)
          /\ sup' = after
          /\ UNCHANGED <<asked, group>>
       \/ /\ ~stopping
          /\ StopEach(kids, DOMAIN kids.children, TRUE)
          /\ IF Throws(kids, DOMAIN kids.children) = {}
             THEN /\ group' = NoGroup
                  /\ mailbox' = Append(box, StopSignal)
                  /\ sup' = after
             ELSE /\ mailbox' = box
                  /\ sup' = thrown
                  /\ UNCHANGED group

-----------------------------------------------------------------------------
(* The end of a child, in the supervisor: handle_termination.  In every    *)
(* case r is the child, kids the children without it, box the mailbox      *)
(* after the signal was taken and after where the coroutine then is.       *)

(* The erase_if on restart_times_. *)
Pruned ==
    LET kept[i \in 0..Len(restartTimes)] ==
            IF i = 0 THEN <<>>
            ELSE IF now - restartTimes[i] > Within THEN kept[i - 1]
            ELSE Append(kept[i - 1], restartTimes[i])
    IN  kept[Len(restartTimes)]

WrongMayRestart == MaxRestarts > 0 /\ Len(Pruned) <= MaxRestarts

(* register_restart, as a test ... *)
MayRestart == MaxRestarts > 0 /\ Len(Pruned) < MaxRestarts

WrongRegisterRestart ==
    /\ restartTimes' = IF MaxRestarts = 0 THEN restartTimes ELSE Append(Pruned, now + Within)
    /\ granted' = IF MayRestart THEN Append(granted, now) ELSE granted

(* ... and its effect. *)
RegisterRestart ==
    /\ restartTimes' = IF MaxRestarts = 0 THEN restartTimes ELSE Append(Pruned, now)
    /\ granted' = IF MayRestart THEN Append(granted, now) ELSE granted

WrongWillRestart(r, why) ==
    r \in DOMAIN children /\ ShouldRestart(spawned[r], why)

WillRestart(r, why) ==
    r \in DOMAIN children /\ ~children[r].suppress /\ ShouldRestart(spawned[r], why)

(* Not a child, or one that is not restarted. *)
Forget(r, why, kids, box, after) ==
    /\ group = NoGroup
    /\ ~WillRestart(r, why)
    /\ Install(kids)
    /\ mailbox' = box
    /\ sup' = after
    /\ UNCHANGED <<asked, group, stopping, restarts>>

(* register_restart found too many restarts and stopped the supervisor. *)
Refuse(r, why, kids, box, after) ==
    /\ group = NoGroup
    /\ WillRestart(r, why)
    /\ ~MayRestart
    /\ RegisterRestart
    /\ Stop(kids, box, after, "crashed")

(* one_for_one and simple_one_for_one: respawn_with_entry. *)
RestartOne(r, why, kids, box, after) ==
    /\ group = NoGroup
    /\ WillRestart(r, why)
    /\ MayRestart
    /\ strategy \in {"one_for_one", "simple_one_for_one"}
    /\ RegisterRestart
    /\ Install(StartChild(kids, spawned[r]))
    /\ mailbox' = box
    /\ sup' = after
    /\ UNCHANGED <<asked, group, stopping>>

WrongPlanned(r, kids) ==
    {q \in DOMAIN kids.children : strategy = "rest_for_one" => q < r}

(* The children that begin_restart_group plans to stop. *)
Planned(r, kids) ==
    {q \in DOMAIN kids.children : strategy = "rest_for_one" => q > r}

(* respawn_with_entry, for an item of the plan that is to be restarted. *)
RestartItem(kids, s, why) == IF ShouldRestart(s, why) THEN StartChild(kids, s) ELSE kids

(* finalize_restart_group: the failed child comes first in the plan, then  *)
(* the others in the order of children_, which is that of their refs.      *)
Respawn(plan, kids) ==
    LET after[q \in 0..Len(spawned)] ==
            IF q = 0 THEN RestartItem(kids, spawned[plan.failed], plan.reason)
            ELSE IF q \in plan.others THEN RestartItem(after[q - 1], spawned[q], "stopped")
            ELSE after[q - 1]
    IN  after[Len(spawned)]

(* one_for_all and rest_for_one: begin_restart_group. *)
BeginRestartGroup(r, why, kids, box, after) ==
    LET others == Planned(r, kids)
        plan == [failed |-> r, reason |-> why, others |-> others,
                 pending |-> Reached(kids, others)]
    IN  /\ group = NoGroup
        /\ WillRestart(r, why)
        /\ MayRestart
        /\ strategy \in {"one_for_all", "rest_for_one"}
        /\ RegisterRestart
        /\ mailbox' = box
        /\ IF others = {}
           THEN /\ Install(Respawn(plan, kids))
                /\ sup' = after
                /\ UNCHANGED <<asked, group>>
           ELSE /\ group' = plan
                /\ StopEach(kids, others, FALSE)
                /\ sup' = IF Throws(kids, others) = {} THEN after ELSE "crashed"
        /\ UNCHANGED stopping

WrongRestartGroupStop(r, kids, box, after) ==
    /\ group # NoGroup
    /\ group' = [group EXCEPT !.pending = @ \ {r}]
    /\ Install(kids)
    /\ mailbox' = box
    /\ sup' = after
    /\ UNCHANGED <<asked, stopping, restarts>>

(* handle_restart_group_stop; the last pending stop finalizes the group. *)
RestartGroupStop(r, kids, box, after) ==
    /\ group # NoGroup
    /\ IF group.pending \subseteq {r}
       THEN group' = NoGroup /\ Install(Respawn(group, kids))
       ELSE group' = [group EXCEPT !.pending = @ \ {r}] /\ Install(kids)
    /\ mailbox' = box
    /\ sup' = after
    /\ UNCHANGED <<asked, stopping, restarts>>

HandleTermination(r, why, live, box, after) ==
    LET kids == [spawned |-> spawned, alive |-> live, children |-> Without(r)]
    IN  \/ Forget(r, why, kids, box, after)
        \/ Refuse(r, why, kids, box, after)
        \/ RestartOne(r, why, kids, box, after)
        \/ BeginRestartGroup(r, why, kids, box, after)
        \/ RestartGroupStop(r, kids, box, after)

-----------------------------------------------------------------------------
(* The coroutine. *)

Over == {"done", "crashed"}

(* run(): init() starts the static children. *)
Start ==
    /\ sup = "scheduled" /\ ~started
    /\ started' = TRUE
    /\ sup' = "running"
    /\ Install(IF Simple THEN Kids ELSE StartChildren(Kids, [s \in Specs |-> s]))
    /\ UNCHANGED <<strategy, stopping, mailbox, asked, group, restarts, now, calls, faults>>

(* The scheduler resumes it after a receive was matched. *)
Resume ==
    /\ sup = "scheduled" /\ started
    /\ sup' = "running"
    /\ UNCHANGED <<strategy, started, stopping, mailbox, child, group, restarts, now, calls,
                   faults>>

(* supervise_loop: a signal is there, or the receive suspends. *)
Receive ==
    /\ sup = "running"
    /\ \/ /\ mailbox = <<>>
          /\ sup' = "waiting"
          /\ UNCHANGED <<mailbox, child, group, stopping, restarts>>
       \/ /\ mailbox # <<>> /\ Head(mailbox) = StopSignal
          /\ sup' = "done"
          /\ mailbox' = Tail(mailbox)
          /\ UNCHANGED <<child, group, stopping, restarts>>
       \/ /\ mailbox # <<>> /\ Head(mailbox) # StopSignal
          /\ HandleTermination(Head(mailbox).from, Head(mailbox).reason, alive,
                               Tail(mailbox), "running")
    /\ UNCHANGED <<strategy, started, now, calls, faults>>

-----------------------------------------------------------------------------
(* Everything else runs while the supervisor's coroutine does not. *)

WrongSignal(r, why) ==
    /\ mailbox' = Append(mailbox, Down(r, why))
    /\ alive' = alive \ {r}
    /\ UNCHANGED <<sup, spawned, asked, children, group, stopping, restarts>>

(* notify_exit of child r sends its DownSignal. *)
Signal(r, why) ==
    \/ /\ sup = "waiting"
       /\ HandleTermination(r, why, alive \ {r}, mailbox, "scheduled")
    \/ /\ sup = "scheduled"
       /\ alive' = alive \ {r}
       /\ mailbox' = Append(mailbox, Down(r, why))
       /\ UNCHANGED <<sup, spawned, asked, children, group, stopping, restarts>>
    \/ /\ sup \in Over
       /\ alive' = alive \ {r}
       /\ UNCHANGED <<sup, mailbox, spawned, asked, children, group, stopping, restarts>>

(* A child returns or throws of its own accord ... *)
Fail(r) ==
    /\ sup # "running"
    /\ r \in alive \ asked
    /\ faults < MaxFaults
    /\ faults' = faults + 1
    /\ \E why \in {"normal", "error"} : Signal(r, why)
    /\ UNCHANGED <<strategy, started, now, calls>>

(* ... or because it was asked to stop. *)
Obey(r) ==
    /\ sup # "running"
    /\ r \in alive \cap asked
    /\ \E why \in {"stopped", "error"} : Signal(r, why)
    /\ UNCHANGED <<strategy, started, now, calls, faults>>

Tick ==
    /\ sup # "running"
    /\ now < MaxTime
    /\ now' = now + 1
    /\ UNCHANGED <<strategy, sup, started, stopping, mailbox, child, group, restarts, calls,
                   faults>>

Administer ==
    /\ sup \in {"waiting", "scheduled"}
    /\ admin < MaxAdmin
    /\ admin' = admin + 1
    /\ UNCHANGED <<strategy, started, now, restarts, faults>>

(* scheduler.stop(supervisor) from elsewhere.  A suspended receive takes   *)
(* the ExitSignal at once and the coroutine returns when it is resumed;    *)
(* here it finds the signal at the head of the mailbox then.               *)
StopSupervisor ==
    /\ Administer
    /\ Stop(Kids, mailbox, "scheduled", sup)
    /\ UNCHANGED halted

StartChildCall(s) ==
    /\ Administer /\ started
    /\ Install(StartChild(Kids, s))
    /\ halted' = IF spawned' = spawned THEN halted ELSE halted \ {s}
    /\ UNCHANGED <<sup, stopping, mailbox, asked, group>>

Instances(s) == {r \in DOMAIN children : spawned[r] = s}

(* A call that throws leaves the children behind the one it throws at as   *)
(* they are; s is halted if there are none.                                *)
Halt(s) == IF Reached(Kids, Instances(s)) = Instances(s) THEN halted \cup {s} ELSE halted

StopChildCall(s) ==
    /\ Administer /\ started
    /\ StopEach(Kids, Instances(s), TRUE)
    /\ halted' = Halt(s)
    /\ UNCHANGED <<sup, stopping, mailbox, group>>

(* restart_child_entry, for every child of specification s: one not yet    *)
(* asked is stopped and comes back with its DownSignal, for one that was a *)
(* new child is started now.                                               *)
RestartEntries(kids, s) ==
    LET running == {r \in Instances(s) : ~children[r].stopping}
        again == {r \in Instances(s) \cap Reached(Kids, Instances(s)) : children[r].stopping}
    IN  StopEach(StartChildren(kids, [i \in 1..Cardinality(again) |-> s]), running, FALSE)

(* restart_children_by_index first clears suppress_restart. *)
Cleared(s) ==
    [Kids EXCEPT !.children =
        [r \in DOMAIN children |-> IF r \in Instances(s)
                                   THEN [children[r] EXCEPT !.suppress = FALSE] ELSE children[r]]]

RestartChildCall(s) ==
    /\ Administer /\ started
    /\ RestartEntries(Cleared(s), s)
    /\ halted' = IF Instances(s) = {} THEN halted ELSE halted \ {s}
    /\ UNCHANGED <<sup, stopping, mailbox, group>>

(* delete_child; the erasure is not reached when a stop throws. *)
DeleteChildCall(s) ==
    /\ Administer /\ started
    /\ IF Throws(Kids, Instances(s)) = {}
       THEN /\ asked' = asked \cup (Instances(s) \cap alive)
            /\ Install([Kids EXCEPT !.children = Restrict(@, DOMAIN @ \ Instances(s))])
       ELSE StopEach(Kids, Instances(s), TRUE)
    /\ halted' = Halt(s)
    /\ UNCHANGED <<sup, stopping, mailbox, group>>

-----------------------------------------------------------------------------
Coroutine == Start \/ Resume \/ Receive

Next ==
    \/ Coroutine
    \/ \E r \in alive : Fail(r) \/ Obey(r)
    \/ Tick
    \/ StopSupervisor
    \/ \E s \in Specs : StartChildCall(s) \/ StopChildCall(s) \/ RestartChildCall(s)
                          \/ DeleteChildCall(s)

Spec == Init /\ [][Next]_vars

(* The scheduler resumes what is ready, and a child that was asked to stop *)
(* does so in the end.                                                     *)
FairSpec == Spec /\ WF_vars(Coroutine) /\ WF_vars(\E r \in alive : Obey(r))

-----------------------------------------------------------------------------
(* Properties. *)

Queued(r) == \E i \in DOMAIN mailbox : mailbox[i].from = r

Reasons == {"normal", "error", "stopped"}
Entries == [stopping : BOOLEAN, suppress : BOOLEAN]

(* Every variable keeps its type: children_, the registry, the signals and *)
(* the restart group name children that were spawned, for specifications   *)
(* that exist, and no restart is noted for a time that has not come.       *)
TypeOK ==
    /\ strategy \in Strategies
    /\ sup \in {"scheduled", "running", "waiting"} \cup Over
    /\ started \in BOOLEAN /\ stopping \in BOOLEAN
    /\ spawned \in Seq(Specs)
    /\ mailbox \in Seq([from : 0..Len(spawned), reason : Reasons])
    /\ alive \subseteq DOMAIN spawned /\ asked \subseteq DOMAIN spawned
    /\ DOMAIN children \subseteq DOMAIN spawned
    /\ children \in [DOMAIN children -> Entries]
    /\ \/ group = NoGroup
       \/ group \in [failed : DOMAIN spawned, reason : Reasons,
                     others : SUBSET DOMAIN spawned, pending : SUBSET DOMAIN spawned]
    /\ now \in 0..MaxTime
    /\ restartTimes \in Seq(0..now) /\ granted \in Seq(0..now)
    /\ halted \subseteq Specs
    /\ faults \in 0..MaxFaults /\ admin \in 0..MaxAdmin

(* children_ and the registry agree up to the signals under way: an entry  *)
(* is a live child or has its DownSignal queued, a live child that the     *)
(* supervisor no longer knows was asked to stop, and no specification has  *)
(* two children that were not.                                             *)
EntriesAccounted ==
    sup \notin Over =>
        /\ \A r \in DOMAIN children :
              r \in alive <=> ~Queued(r)
        /\ \A r \in alive : r \in DOMAIN children \/ r \in asked
        /\ ~Simple =>
              \A q, r \in alive \ asked : spawned[q] = spawned[r] => q = r

(* While a restart group is open it waits for some child, and each child   *)
(* it waits for was asked to stop and will still be heard of: no group is  *)
(* stuck on a child that is already gone.                                  *)
GroupCanFinish ==
    group # NoGroup /\ sup \notin Over =>
        /\ group.pending # {}
        /\ \A r \in group.pending : (r \in alive /\ r \in asked) \/ Queued(r)

(* register_restart grants no more than max_restarts restarts in any       *)
(* interval of length within.                                              *)
IntensityRespected ==
    \A i \in DOMAIN granted :
        Cardinality({j \in DOMAIN granted : granted[j] - granted[i] \in 0..Within}) <= MaxRestarts

(* No group leaves a permanent child out.  An open group forgets a         *)
(* child that ends and is not in its plan: one older than the failed one   *)
(* (rest_for_one), or one started by a call since it began.                *)
NoneLeftOut ==
    strategy = "one_for_one" \/ (strategy = "one_for_all" /\ admin = 0)

(* As long as nobody calls start_child or the like, a rest_for_one         *)
(* supervisor keeps its children in the order of their specifications:     *)
(* none is older than one it may depend on.                                *)
StartOrderKept ==
    strategy = "rest_for_one" /\ admin = 0 =>
        \A q, r \in DOMAIN children : spawned[q] < spawned[r] => q < r

(* A child stopped or deleted by a call is not brought back by a restart,  *)
(* under the strategies that restart a child by itself.                    *)
HaltedLeftAlone ==
    strategy \in {"one_for_one", "simple_one_for_one"} =>
        \A r \in alive \ asked : spawned[r] \notin halted

(* A restart group, once begun, is finished. *)
GroupFinishes == (group # NoGroup) ~> (group = NoGroup)

(* A permanent child that is gone is replaced, if the supervisor goes on   *)
(* and no group leaves it out.                                             *)
PermanentComesBack ==
    \A s \in Permanent :
        (NoneLeftOut /\ started /\ Instances(s) \cap alive = {}) ~>
            \/ Instances(s) \cap alive # {} \/ s \in halted
            \/ stopping \/ sup = "crashed" \/ ~NoneLeftOut

=============================================================================
