---------------------------- MODULE ActorRuntime ----------------------------
(***************************************************************************)
(* ActorRuntime: the sharded actor scheduler of the server.  Each actor     *)
(* belongs to one worker thread.  Other threads reach a worker through its  *)
(* bounded ingress queue, through the continuations of the asynchronous     *)
(* operations its actors await, and through close() and cancel().           *)
(*                                                                          *)
(* A worker's own data (actors, mailboxes, ready queue, timers) is touched  *)
(* by its thread only, so a worker step reaches from one look at the shared *)
(* state to the next.  A submission is its target, a number that orders the *)
(* posts (0 for a timer's submission) and whether it may activate its actor.*)
(* What a handler does is a free choice of calls and of a dispatch result.  *)
(* A tell made by a handler is a Post.                                      *)
(***************************************************************************)
EXTENDS Naturals, Sequences, FiniteSetsExt

CONSTANTS
    Workers,
    Actors,
    WorkerOf,           \* hash(ActorKey) % worker_count
    Capacity,           \* queue_capacity_per_worker
    MaxInFlight,        \* max_in_flight_operations_per_worker
    TurnBudget,         \* ACTOR_TURN_BUDGET
    IngressBatch,       \* INGRESS_BATCH_SIZE
    ContinuationBatch,  \* CONTINUATION_BATCH_SIZE
    MaxPosts,           \* bound: accepted posts
    MaxOps,             \* bound: operations begun
    MaxTimers           \* bound: timers scheduled

ASSUME WorkersAssumption == /\ IsFiniteSet(Workers) /\ IsFiniteSet(Actors)
                            /\ WorkerOf \in [Actors -> Workers]
ASSUME LimitsAssumption ==
    /\ Capacity \in Nat \ {0} /\ MaxInFlight \in Nat \ {0} /\ TurnBudget \in Nat \ {0}
    /\ IngressBatch \in Nat \ {0} /\ ContinuationBatch \in Nat \ {0}
    /\ MaxPosts \in Nat /\ MaxOps \in Nat /\ MaxTimers \in Nat

VARIABLES
    input,            \* _input_state
    completion,       \* _completion_state
    failureRecorded,  \* _worker_failure_recorded
    finishedWorkers,  \* _finished_workers
    drainedNotices,   \* calls of notifyDrained
    failedNotices,    \* calls of notifyFailed
    ingress, ingressFlags, outstanding, inFlight, continuations,
    cancelScan, signalled,               \* what other threads see of a worker
    timers, ready, nextIncarnation,      \* what only the worker sees
    pc, count, failed,                   \* where its thread is
    exec, incarnation, mailbox, active, pendingResume, operation, nextTask,
    ops,              \* the AsyncOperationControls, with their producers
    nextPost, nextTimer,
    lastTaken,        \* history: per actor, the number of the last post dispatched
    dropped           \* history: submissions dropped by the worker's last batch

sharedVars  == <<input, completion, failureRecorded, finishedWorkers,
                 drainedNotices, failedNotices>>
inboxVars   == <<ingress, ingressFlags>>
signalVars  == <<cancelScan, signalled>>
threadVars  == <<pc, count, failed>>
actorVars   == <<exec, incarnation, mailbox, active, pendingResume, operation, nextTask>>
opVars      == <<ops, inFlight, continuations>>
countVars   == <<nextPost, nextTimer, lastTaken, dropped>>
vars == <<sharedVars, inboxVars, outstanding, signalVars, timers, ready,
          nextIncarnation, threadVars, actorVars, opVars, countVars>>

Submissions == [target : Actors, post : 0 .. MaxPosts, activates : BOOLEAN]
OpIds == 1 .. MaxOps
ActorsOf(w) == {a \in Actors : WorkerOf[a] = w}

(* The sequences that list a set of actors once each: the order in which an *)
(* unordered_map hands them out.                                            *)
OrdersOf(as) ==
    {f \in [1 .. Cardinality(as) -> as] : \A a \in as : \E i \in 1 .. Cardinality(as) : f[i] = a}

Steps == {"pump", "drain", "route", "timers", "test", "sleep", "turn", "take",
          "handler", "fail", "failCancel", "cleanup", "abandon", "cancelTasks",
          "cancelDrain", "cancelWait", "destroy", "done"}

Init ==
    /\ input = "Running" /\ completion = "Pending" /\ failureRecorded = FALSE
    /\ finishedWorkers = 0 /\ drainedNotices = 0 /\ failedNotices = 0
    /\ ingress = [w \in Workers |-> << >>]
    /\ ingressFlags = [w \in Workers |-> {}]
    /\ outstanding = [w \in Workers |-> 0]
    /\ inFlight = [w \in Workers |-> 0]
    /\ continuations = [w \in Workers |-> << >>]
    /\ cancelScan = [w \in Workers |-> FALSE]
    /\ signalled = [w \in Workers |-> FALSE]
    /\ timers = [w \in Workers |-> {}]
    /\ ready = [w \in Workers |-> << >>]
    /\ nextIncarnation = [w \in Workers |-> 1]
    /\ pc = [w \in Workers |-> "pump"]
    /\ count = [w \in Workers |-> 0]
    /\ failed = [w \in Workers |-> FALSE]
    /\ exec = [a \in Actors |-> "Absent"]
    /\ incarnation = [a \in Actors |-> 0]
    /\ mailbox = [a \in Actors |-> << >>]
    /\ active = [a \in Actors |-> FALSE]
    /\ pendingResume = [a \in Actors |-> FALSE]
    /\ operation = [a \in Actors |-> 0]
    /\ nextTask = [a \in Actors |-> 0]
    /\ ops = << >>
    /\ nextPost = 1 /\ nextTimer = 1
    /\ lastTaken = [a \in Actors |-> 0]
    /\ dropped = [w \in Workers |-> 0]

Closed(w) == "closed" \in ingressFlags[w]
Cancelled(w) == "cancelled" \in ingressFlags[w]
GoTo(w, step) == pc' = [pc EXCEPT ![w] = step]
(* Mutant: a worker that is not asleep yet is not told. *)
NotifySleeper(w) == signalled' = [signalled EXCEPT ![w] = @ \/ pc[w] = "sleep"]
Notify(w) == signalled' = [signalled EXCEPT ![w] = TRUE]
Release(w, n) == outstanding' = [outstanding EXCEPT ![w] = @ - n]
ExpectedTask(a) == ops[operation[a]].task

-----------------------------------------------------------------------------
(* Calls made by other threads. *)

(* tryPost, accepted.  A refused post (Closed, Full) changes nothing here.  *)
Post(a, activates) ==
    LET w == WorkerOf[a] IN
    /\ input = "Running" /\ nextPost <= MaxPosts
    /\ outstanding[w] < Capacity
    /\ ~Closed(w) /\ ~Cancelled(w) /\ Len(ingress[w]) < Capacity
    /\ outstanding' = [outstanding EXCEPT ![w] = @ + 1]
    /\ ingress' = [ingress EXCEPT ![w] =
                     Append(@, [target |-> a, post |-> nextPost, activates |-> activates])]
    /\ nextPost' = nextPost + 1
    /\ Notify(w)
    /\ UNCHANGED <<sharedVars, ingressFlags, cancelScan, timers, ready, nextIncarnation,
                   threadVars, actorVars, opVars, nextTimer, lastTaken, dropped>>

Close ==
    /\ input \notin {"Closed", "Cancelled"}
    /\ input' = "Closed"
    /\ completion' = "DrainRequested"
    /\ ingressFlags' = [w \in Workers |-> ingressFlags[w] \cup {"closed"}]
    /\ signalled' = [w \in Workers |-> TRUE]
    /\ UNCHANGED <<failureRecorded, finishedWorkers, drainedNotices, failedNotices, ingress,
                   outstanding, cancelScan, timers, ready, nextIncarnation, threadVars,
                   actorVars, opVars, countVars>>

(* cancel(): what every caller of it does to the shared state. *)
CancelRuntime ==
    IF input = "Cancelled"
    THEN UNCHANGED <<input, completion, inboxVars, outstanding, signalled>>
    ELSE /\ input' = "Cancelled"
         /\ completion' = IF completion \in {"DrainWon", "Failed"} THEN completion
                          ELSE "Cancelled"
         /\ ingressFlags' = [w \in Workers |-> ingressFlags[w] \cup {"cancelled"}]
         /\ outstanding' = [w \in Workers |-> outstanding[w] - Len(ingress[w])]
         /\ ingress' = [w \in Workers |-> << >>]
         /\ signalled' = [w \in Workers |-> TRUE]

Cancel ==
    /\ input # "Cancelled"
    /\ CancelRuntime
    /\ UNCHANGED <<failureRecorded, finishedWorkers, drainedNotices, failedNotices,
                   cancelScan, timers, ready, nextIncarnation, threadVars, actorVars,
                   opVars, countVars>>

RequestActorOperationCancel(a) ==
    LET w == WorkerOf[a] IN
    /\ operation[a] # 0
    /\ ops' = [ops EXCEPT ![operation[a]].cancel = TRUE]
    /\ cancelScan' = [cancelScan EXCEPT ![w] = TRUE]
    /\ Notify(w)
    /\ UNCHANGED <<sharedVars, inboxVars, outstanding, timers, ready, nextIncarnation,
                   threadVars, actorVars, inFlight, continuations, countVars>>

(* Mutant: the outcome is overwritten whatever it is. *)
ProducerOverwrites(o) ==
    /\ ops[o].producer = "working"
    /\ ops' = [ops EXCEPT ![o].outcome = "Completed", ![o].producer = "claimed"]
    /\ UNCHANGED <<sharedVars, inboxVars, outstanding, signalVars, timers, ready,
                   nextIncarnation, threadVars, actorVars, inFlight, continuations, countVars>>

(* A producer claims the outcome of its operation.  If the worker claimed it *)
(* as cancelled first, the completion is rejected.                          *)
ProducerClaims(o) ==
    /\ ops[o].producer = "working"
    /\ ops' = [ops EXCEPT ![o] = IF @.outcome = "Pending"
                                 THEN [@ EXCEPT !.outcome = "Completed", !.producer = "claimed"]
                                 ELSE [@ EXCEPT !.producer = "gone"]]
    /\ UNCHANGED <<sharedVars, inboxVars, outstanding, signalVars, timers, ready,
                   nextIncarnation, threadVars, actorVars, inFlight, continuations, countVars>>

(* ... and publishes the continuation, for which a slot is reserved. *)
ProducerPublishes(o) ==
    LET w == WorkerOf[ops[o].actor] IN
    /\ ops[o].producer = "claimed"
    /\ ops' = [ops EXCEPT ![o].producer = "gone"]
    /\ continuations' = [continuations EXCEPT ![w] =
          Append(@, [target |-> ops[o].actor, inc |-> ops[o].inc, task |-> ops[o].task])]
    /\ Notify(w)
    /\ UNCHANGED <<sharedVars, inboxVars, outstanding, cancelScan, timers, ready,
                   nextIncarnation, threadVars, actorVars, inFlight, countVars>>

(* Time passes: the deadline of a timer is reached. *)
TimerBecomesDue(w, t) ==
    /\ t \in timers[w] /\ ~t.due
    /\ timers' = [timers EXCEPT ![w] = (@ \ {t}) \cup {[t EXCEPT !.due = TRUE]}]
    /\ UNCHANGED <<sharedVars, inboxVars, outstanding, signalVars, ready, nextIncarnation,
                   threadVars, actorVars, opVars, countVars>>

-----------------------------------------------------------------------------
(* A worker's thread: pumpWorker. *)

(* Mutant: the result of claimCancelled is ignored. *)
CancelRequestedActors(w) ==
    {a \in ActorsOf(w) : exec[a] = "Suspended" /\ operation[a] # 0 /\ ops[operation[a]].cancel}

(* applyCancelRequests: the suspended actors whose operation somebody asked *)
(* to cancel and whose producer has not claimed it yet are resumed.         *)
CancellableActors(w) ==
    {a \in ActorsOf(w) : /\ exec[a] = "Suspended" /\ operation[a] # 0
                         /\ ops[operation[a]].cancel
                         /\ ops[operation[a]].outcome = "Pending"}

ClaimCancelled(as) ==
    ops' = [o \in DOMAIN ops |->
              IF \E a \in as : operation[a] = o
              THEN [ops[o] EXCEPT !.outcome = "Cancelled"] ELSE ops[o]]

Pump(w) ==
    /\ pc[w] = "pump" /\ ~Cancelled(w)
    /\ GoTo(w, "drain")
    /\ count' = [count EXCEPT ![w] = 0]
    /\ cancelScan' = [cancelScan EXCEPT ![w] = FALSE]
    /\ \E order \in OrdersOf(IF cancelScan[w] THEN CancellableActors(w) ELSE {}) :
         LET as == {order[i] : i \in DOMAIN order} IN
         /\ ClaimCancelled(as)
         /\ operation' = [a \in Actors |-> IF a \in as THEN 0 ELSE operation[a]]
         /\ pendingResume' = [a \in Actors |-> a \in as \/ pendingResume[a]]
         /\ exec' = [a \in Actors |-> IF a \in as THEN "Ready" ELSE exec[a]]
         /\ ready' = [ready EXCEPT ![w] = @ \o order]
         /\ inFlight' = [inFlight EXCEPT ![w] = @ - Len(order)]
    /\ UNCHANGED <<sharedVars, inboxVars, outstanding, signalled, timers, nextIncarnation,
                   failed, incarnation, mailbox, active, nextTask, continuations, countVars>>

PumpCancelled(w) ==
    /\ pc[w] = "pump" /\ Cancelled(w)
    /\ GoTo(w, "cleanup")
    /\ UNCHANGED <<sharedVars, inboxVars, outstanding, signalVars, timers, ready,
                   nextIncarnation, count, failed, actorVars, opVars, countVars>>

(* One continuation of drainContinuations. *)
Matches(c) == /\ exec[c.target] = "Suspended"
              /\ incarnation[c.target] = c.inc
              /\ operation[c.target] # 0 /\ ExpectedTask(c.target) = c.task

DrainOne(w) ==
    LET c == Head(continuations[w]) IN
    /\ continuations[w] # << >>
    /\ continuations' = [continuations EXCEPT ![w] = Tail(@)]
    /\ inFlight' = [inFlight EXCEPT ![w] = @ - 1]
    /\ IF Matches(c)
       THEN /\ operation' = [operation EXCEPT ![c.target] = 0]
            /\ pendingResume' = [pendingResume EXCEPT ![c.target] = TRUE]
            /\ exec' = [exec EXCEPT ![c.target] = "Ready"]
            /\ ready' = [ready EXCEPT ![w] = Append(@, c.target)]
       ELSE UNCHANGED <<operation, pendingResume, exec, ready>>
    /\ UNCHANGED <<sharedVars, inboxVars, outstanding, signalVars, timers, nextIncarnation,
                   failed, incarnation, mailbox, active, nextTask, ops, countVars>>

DrainContinuation(w) ==
    /\ pc[w] \in {"drain", "cancelDrain"} /\ count[w] < ContinuationBatch
    /\ DrainOne(w)
    /\ count' = [count EXCEPT ![w] = @ + 1]
    /\ UNCHANGED pc

DrainEnd(w) ==
    /\ pc[w] = "drain"
    /\ count[w] = ContinuationBatch \/ continuations[w] = << >>
    /\ GoTo(w, "route")
    /\ count' = [count EXCEPT ![w] = 0]
    /\ dropped' = [dropped EXCEPT ![w] = 0]
    /\ UNCHANGED <<sharedVars, inboxVars, outstanding, signalVars, timers, ready,
                   nextIncarnation, failed, actorVars, opVars, nextPost, nextTimer,
                   lastTaken>>

(* An actor that gets a submission becomes ready, unless it is ready, runs  *)
(* or is suspended already.  Mutants: it is registered again; it does not   *)
(* wait for its suspended command.                                          *)
BecomesReadyAgain(a) == exec[a] \in {"Idle", "Absent", "Ready"}
BecomesReadyEarly(a) == exec[a] \in {"Idle", "Absent", "Suspended"}
BecomesReady(a) == exec[a] \in {"Idle", "Absent"}

(* Mutant: control submissions go to the front. *)
EnqueueFirst(a, s) ==
    mailbox' = [mailbox EXCEPT ![a] = IF s.activates THEN Append(@, s) ELSE <<s>> \o @]
Enqueue(a, s) == mailbox' = [mailbox EXCEPT ![a] = Append(@, s)]

(* routeToMailbox: the submission is dropped if its actor is missing and it *)
(* may not activate it; otherwise a missing actor is activated with a new   *)
(* incarnation, and an idle one becomes ready.                              *)
Deliver(w, s) ==
    LET a == s.target IN
    /\ Enqueue(a, s)
    /\ IF BecomesReady(a)
       THEN /\ exec' = [exec EXCEPT ![a] = "Ready"]
            /\ ready' = [ready EXCEPT ![w] = Append(@, a)]
       ELSE UNCHANGED <<exec, ready>>
    /\ IF exec[a] = "Absent"
       THEN /\ incarnation' = [incarnation EXCEPT ![a] = nextIncarnation[w]]
            /\ nextIncarnation' = [nextIncarnation EXCEPT ![w] = @ + 1]
            /\ nextTask' = [nextTask EXCEPT ![a] = 0]
       ELSE UNCHANGED <<incarnation, nextIncarnation, nextTask>>

Route(w) ==
    LET s == Head(ingress[w]) IN
    /\ pc[w] = "route" /\ count[w] < IngressBatch /\ ingress[w] # << >>
    /\ ingress' = [ingress EXCEPT ![w] = Tail(@)]
    /\ count' = [count EXCEPT ![w] = @ + 1]
    /\ IF exec[s.target] = "Absent" /\ ~s.activates
       THEN /\ Release(w, 1)
            /\ dropped' = [dropped EXCEPT ![w] = @ + 1]
            /\ UNCHANGED <<mailbox, exec, ready, incarnation, nextIncarnation, nextTask>>
       ELSE Deliver(w, s) /\ UNCHANGED <<outstanding, dropped>>
    /\ UNCHANGED <<sharedVars, ingressFlags, signalVars, timers, pc, failed, active,
                   pendingResume, operation, opVars, nextPost, nextTimer, lastTaken>>

(* The binding's activate throws: the submission is given back. *)
ActivationThrows(w) ==
    LET s == Head(ingress[w]) IN
    /\ pc[w] = "route" /\ count[w] < IngressBatch /\ ingress[w] # << >>
    /\ exec[s.target] = "Absent" /\ s.activates
    /\ ingress' = [ingress EXCEPT ![w] = Tail(@)]
    /\ Release(w, 1)
    /\ failed' = [failed EXCEPT ![w] = TRUE]
    /\ GoTo(w, "fail")
    /\ UNCHANGED <<sharedVars, ingressFlags, signalVars, timers, ready, nextIncarnation, count,
                   actorVars, opVars, countVars>>

RouteEnd(w) ==
    /\ pc[w] = "route"
    /\ count[w] = IngressBatch \/ ingress[w] = << >>
    /\ GoTo(w, "timers")
    /\ UNCHANGED <<sharedVars, inboxVars, outstanding, signalVars, timers, ready,
                   nextIncarnation, count, failed, actorVars, opVars, countVars>>

(* dispatchDueTimers: a due timer's submission goes to its actor's mailbox, *)
(* unless the actor it was set by is gone.                                  *)
FireTimer(w, t) ==
    /\ pc[w] = "timers" /\ t \in timers[w] /\ t.due
    /\ timers' = [timers EXCEPT ![w] = @ \ {t}]
    /\ IF exec[t.target] = "Absent" \/ incarnation[t.target] # t.inc
       THEN /\ Release(w, 1)
            /\ UNCHANGED <<mailbox, exec, ready, incarnation, nextIncarnation, nextTask>>
       ELSE /\ Deliver(w, [target |-> t.target, post |-> 0, activates |-> FALSE])
            /\ UNCHANGED outstanding
    /\ UNCHANGED <<sharedVars, inboxVars, signalVars, threadVars, active, pendingResume,
                   operation, opVars, countVars>>

TimersEnd(w) ==
    /\ pc[w] = "timers" /\ \A t \in timers[w] : ~t.due
    /\ GoTo(w, IF ready[w] # << >> THEN "turn" ELSE "test")
    /\ UNCHANGED <<sharedVars, inboxVars, outstanding, signalVars, timers, ready,
                   nextIncarnation, count, failed, actorVars, opVars, countVars>>

(* Mutant: only the queues are looked at. *)
QueuesAreEmpty(w) == Closed(w) /\ ingress[w] = << >> /\ ready[w] = << >>

IsWorkerDrained(w) ==
    /\ Closed(w) /\ ingress[w] = << >>
    /\ inFlight[w] = 0 /\ continuations[w] = << >>
    /\ ready[w] = << >>
    /\ \A a \in ActorsOf(w) : /\ mailbox[a] = << >> /\ exec[a] # "Suspended"
                              /\ ~active[a] /\ operation[a] = 0 /\ ~pendingResume[a]

(* discardWorkerTimers.  Mutants: the timers stay; their slots stay. *)
DiscardKeepingTimers(w, released) ==
    UNCHANGED timers /\ Release(w, released + Cardinality(timers[w]))
DiscardKeepingSlots(w, released) ==
    timers' = [timers EXCEPT ![w] = {}] /\ Release(w, released)
DiscardTimers(w, released) ==
    timers' = [timers EXCEPT ![w] = {}] /\ Release(w, released + Cardinality(timers[w]))

(* Nothing is ready: timers are dropped once the input is closed, and the   *)
(* worker ends when it is drained, else it waits.                           *)
TestDrained(w) ==
    /\ pc[w] = "test"
    /\ IF Closed(w)
       THEN DiscardTimers(w, 0)
       ELSE UNCHANGED <<timers, outstanding>>
    /\ GoTo(w, IF IsWorkerDrained(w) THEN "cleanup" ELSE "sleep")
    /\ UNCHANGED <<sharedVars, inboxVars, signalVars, ready, nextIncarnation, count, failed,
                   actorVars, opVars, countVars>>

WakeUp(w) ==
    /\ pc[w] = "sleep"
    /\ signalled[w] \/ \E t \in timers[w] : t.due
    /\ signalled' = [signalled EXCEPT ![w] = FALSE]
    /\ GoTo(w, "pump")
    /\ UNCHANGED <<sharedVars, inboxVars, outstanding, cancelScan, timers, ready,
                   nextIncarnation, count, failed, actorVars, opVars, countVars>>

-----------------------------------------------------------------------------
(* A worker's thread: runReadyActorTurn.  The actor whose turn it is is the *)
(* one that is Running.                                                     *)

BeginTurn(w) ==
    LET a == Head(ready[w]) IN
    /\ pc[w] = "turn" /\ ~Cancelled(w)
    /\ ready' = [ready EXCEPT ![w] = Tail(@)]
    /\ exec' = [exec EXCEPT ![a] = "Running"]
    /\ count' = [count EXCEPT ![w] = 0]
    /\ GoTo(w, "take")
    /\ UNCHANGED <<sharedVars, inboxVars, outstanding, signalVars, timers, nextIncarnation,
                   failed, incarnation, mailbox, active, pendingResume, operation, nextTask,
                   opVars, countVars>>

TurnCancelled(w) ==
    /\ pc[w] \in {"turn", "take"} /\ Cancelled(w)
    /\ exec' = [a \in Actors |-> IF a \in ActorsOf(w) /\ exec[a] = "Running"
                                 THEN "Idle" ELSE exec[a]]
    /\ GoTo(w, "cleanup")
    /\ UNCHANGED <<sharedVars, inboxVars, outstanding, signalVars, timers, ready,
                   nextIncarnation, count, failed, incarnation, mailbox, active,
                   pendingResume, operation, nextTask, opVars, countVars>>

Runs(w, a) == WorkerOf[a] = w /\ exec[a] = "Running"

(* A suspended command is resumed before the mailbox is looked at. *)
TakeResume(w, a) ==
    /\ pc[w] = "take" /\ ~Cancelled(w) /\ Runs(w, a) /\ count[w] < TurnBudget
    /\ pendingResume[a]
    /\ pendingResume' = [pendingResume EXCEPT ![a] = FALSE]
    /\ GoTo(w, "handler")
    /\ UNCHANGED <<sharedVars, inboxVars, outstanding, signalVars, timers, ready,
                   nextIncarnation, count, failed, exec, incarnation, mailbox, active,
                   operation, nextTask, opVars, countVars>>

TakeCommand(w, a) ==
    /\ pc[w] = "take" /\ ~Cancelled(w) /\ Runs(w, a) /\ count[w] < TurnBudget
    /\ ~pendingResume[a] /\ mailbox[a] # << >>
    /\ mailbox' = [mailbox EXCEPT ![a] = Tail(@)]
    /\ active' = [active EXCEPT ![a] = TRUE]
    /\ lastTaken' = IF Head(mailbox[a]).post = 0 THEN lastTaken
                    ELSE [lastTaken EXCEPT ![a] = Head(mailbox[a]).post]
    /\ GoTo(w, "handler")
    /\ UNCHANGED <<sharedVars, inboxVars, outstanding, signalVars, timers, ready,
                   nextIncarnation, count, failed, exec, incarnation, pendingResume,
                   operation, nextTask, opVars, nextPost, nextTimer, dropped>>

(* The mailbox is empty, or the turn's budget is used up. *)
EndTurn(w, a) ==
    /\ pc[w] = "take" /\ ~Cancelled(w) /\ Runs(w, a)
    /\ count[w] = TurnBudget \/ (~pendingResume[a] /\ mailbox[a] = << >>)
    /\ IF mailbox[a] = << >>
       THEN exec' = [exec EXCEPT ![a] = "Idle"] /\ UNCHANGED ready
       ELSE /\ exec' = [exec EXCEPT ![a] = "Ready"]
            /\ ready' = [ready EXCEPT ![w] = Append(@, a)]
    /\ GoTo(w, "pump")
    /\ UNCHANGED <<sharedVars, inboxVars, outstanding, signalVars, timers, nextIncarnation,
                   count, failed, incarnation, mailbox, active, pendingResume, operation,
                   nextTask, opVars, countVars>>

(* Calls a handler makes on its ActorContext. *)

InHandler(w, a) == pc[w] = "handler" /\ Runs(w, a)

(* trySchedule; when no outstanding slot is left it has no effect. *)
Schedule(w, a) ==
    /\ InHandler(w, a) /\ nextTimer <= MaxTimers
    /\ outstanding[w] < Capacity
    /\ outstanding' = [outstanding EXCEPT ![w] = @ + 1]
    /\ timers' = [timers EXCEPT ![w] = @ \cup
          {[target |-> a, inc |-> incarnation[a], id |-> nextTimer, due |-> FALSE]}]
    /\ nextTimer' = nextTimer + 1
    /\ UNCHANGED <<sharedVars, inboxVars, signalVars, ready, nextIncarnation, threadVars,
                   actorVars, opVars, nextPost, lastTaken, dropped>>

CancelTimer(w, a, t) ==
    /\ InHandler(w, a) /\ t \in timers[w] /\ t.target = a
    /\ timers' = [timers EXCEPT ![w] = @ \ {t}]
    /\ Release(w, 1)
    /\ UNCHANGED <<sharedVars, inboxVars, signalVars, ready, nextIncarnation, threadVars,
                   actorVars, opVars, countVars>>

(* tryBeginOperation; when no in-flight slot is left it has no effect. *)
BeginOperation(w, a) ==
    /\ InHandler(w, a) /\ operation[a] = 0 /\ Len(ops) < MaxOps
    /\ inFlight[w] < MaxInFlight
    /\ inFlight' = [inFlight EXCEPT ![w] = @ + 1]
    /\ ops' = Append(ops, [actor |-> a, inc |-> incarnation[a], task |-> nextTask[a],
                           outcome |-> "Pending", producer |-> "working", cancel |-> FALSE])
    /\ operation' = [operation EXCEPT ![a] = Len(ops) + 1]
    /\ nextTask' = [nextTask EXCEPT ![a] = @ + 1]
    /\ UNCHANGED <<sharedVars, inboxVars, outstanding, signalVars, timers, ready,
                   nextIncarnation, threadVars, exec, incarnation, mailbox, active,
                   pendingResume, continuations, countVars>>

(* abortOperation: the submit function threw before its producer got away.  *)
AbortOperation(w, a) ==
    /\ InHandler(w, a) /\ operation[a] # 0
    /\ ops[operation[a]].producer = "working"
    /\ ops' = [ops EXCEPT ![operation[a]].producer = "gone"]
    /\ operation' = [operation EXCEPT ![a] = 0]
    /\ inFlight' = [inFlight EXCEPT ![w] = @ - 1]
    /\ UNCHANGED <<sharedVars, inboxVars, outstanding, signalVars, timers, ready,
                   nextIncarnation, threadVars, exec, incarnation, mailbox, active,
                   pendingResume, nextTask, continuations, countVars>>

(* The results of dispatch and resume. *)

HandlerSuspends(w, a) ==
    /\ InHandler(w, a) /\ operation[a] # 0
    /\ exec' = [exec EXCEPT ![a] = "Suspended"]
    /\ GoTo(w, "pump")
    /\ UNCHANGED <<sharedVars, inboxVars, outstanding, signalVars, timers, ready,
                   nextIncarnation, count, failed, incarnation, mailbox, active,
                   pendingResume, operation, nextTask, opVars, countVars>>

(* KeepActive, and PassivateIfIdle when accepted work is waiting. *)
HandlerKeeps(w, a) ==
    /\ InHandler(w, a) /\ operation[a] = 0
    /\ active' = [active EXCEPT ![a] = FALSE]
    /\ Release(w, 1)
    /\ count' = [count EXCEPT ![w] = @ + 1]
    /\ GoTo(w, "take")
    /\ UNCHANGED <<sharedVars, inboxVars, signalVars, timers, ready, nextIncarnation, failed,
                   exec, incarnation, mailbox, pendingResume, operation, nextTask, opVars,
                   countVars>>

(* Mutant: an evicted actor's timers stay. *)
NoTimers(w, a) == {}
OwnTimers(w, a) == {t \in timers[w] : t.target = a}

(* Evict: the actor goes, with its mailbox and its timers.  PassivateIfIdle *)
(* with an empty mailbox does the same.                                     *)
HandlerEvicts(w, a) ==
    LET own == OwnTimers(w, a) IN
    /\ InHandler(w, a) /\ operation[a] = 0
    /\ active' = [active EXCEPT ![a] = FALSE]
    /\ exec' = [exec EXCEPT ![a] = "Absent"]
    /\ mailbox' = [mailbox EXCEPT ![a] = << >>]
    /\ timers' = [timers EXCEPT ![w] = @ \ own]
    /\ Release(w, 1 + Len(mailbox[a]) + Cardinality(own))
    /\ GoTo(w, "pump")
    /\ UNCHANGED <<sharedVars, inboxVars, signalVars, ready, nextIncarnation, count, failed,
                   incarnation, pendingResume, operation, nextTask, opVars, countVars>>

(* A binding answers Stopped only after cancellation reached it. *)
HandlerStops(w, a) ==
    /\ InHandler(w, a) /\ operation[a] = 0 /\ Cancelled(w)
    /\ active' = [active EXCEPT ![a] = FALSE]
    /\ Release(w, 1)
    /\ GoTo(w, "cleanup")
    /\ UNCHANGED <<sharedVars, inboxVars, signalVars, timers, ready, nextIncarnation, count,
                   failed, exec, incarnation, mailbox, pendingResume, operation, nextTask,
                   opVars, countVars>>

HandlerThrows(w, a) ==
    /\ InHandler(w, a) /\ operation[a] = 0
    /\ failed' = [failed EXCEPT ![w] = TRUE]
    /\ GoTo(w, "fail")
    /\ UNCHANGED <<sharedVars, inboxVars, outstanding, signalVars, timers, ready,
                   nextIncarnation, count, actorVars, opVars, countVars>>

-----------------------------------------------------------------------------
(* A worker's thread: the end of runWorker. *)

(* Mutant: every failing worker cancels and reports. *)
RecordEveryFailure(w) ==
    /\ pc[w] = "fail"
    /\ failureRecorded' = TRUE
    /\ GoTo(w, "failCancel") /\ completion' = "Failed"
    /\ UNCHANGED <<input, finishedWorkers, drainedNotices, failedNotices, inboxVars,
                   outstanding, signalVars, timers, ready, nextIncarnation, count, failed,
                   actorVars, opVars, countVars>>

(* recordWorkerFailure: only the first failing worker cancels the runtime.  *)
RecordFailure(w) ==
    /\ pc[w] = "fail"
    /\ failureRecorded' = TRUE
    /\ IF failureRecorded THEN GoTo(w, "abandon") /\ UNCHANGED completion
       ELSE GoTo(w, "failCancel") /\ completion' = "Failed"
    /\ UNCHANGED <<input, finishedWorkers, drainedNotices, failedNotices, inboxVars,
                   outstanding, signalVars, timers, ready, nextIncarnation, count, failed,
                   actorVars, opVars, countVars>>

CancelAfterFailure(w) ==
    /\ pc[w] = "failCancel"
    /\ CancelRuntime
    /\ failedNotices' = failedNotices + 1
    /\ GoTo(w, "abandon")
    /\ UNCHANGED <<failureRecorded, finishedWorkers, drainedNotices, cancelScan, timers, ready,
                   nextIncarnation, count, failed, actorVars, opVars, countVars>>

MailboxTotal(w) == MapThenSumSet(LAMBDA a : Len(mailbox[a]), ActorsOf(w))

(* discardWorkerSubmissions and discardWorkerTimers. *)
CleanUp(w) ==
    /\ pc[w] = "cleanup"
    /\ mailbox' = [a \in Actors |-> IF a \in ActorsOf(w) THEN << >> ELSE mailbox[a]]
    /\ exec' = [a \in Actors |-> IF a \in ActorsOf(w) /\ exec[a] = "Ready"
                                 THEN "Idle" ELSE exec[a]]
    /\ ready' = [ready EXCEPT ![w] = << >>]
    /\ DiscardTimers(w, MailboxTotal(w))
    /\ GoTo(w, "cancelTasks")
    /\ UNCHANGED <<sharedVars, inboxVars, signalVars, nextIncarnation, count, failed,
                   incarnation, active, pendingResume, operation, nextTask, opVars, countVars>>

(* A failed worker drops its timers only. *)
Abandon(w) ==
    /\ pc[w] = "abandon"
    /\ DiscardTimers(w, 0)
    /\ GoTo(w, "cancelTasks")
    /\ UNCHANGED <<sharedVars, inboxVars, signalVars, ready, nextIncarnation, count, failed,
                   actorVars, opVars, countVars>>

(* cancelSuspendedTasks: every operation is claimed as cancelled, except    *)
(* those a producer claimed first; their continuations are waited for.      *)
CancelSuspendedTasks(w) ==
    LET awaiting == {a \in ActorsOf(w) : operation[a] # 0}
        claimed == {a \in awaiting : ops[operation[a]].outcome = "Pending"}
        settled == ActorsOf(w) \ (awaiting \ claimed) IN
    /\ pc[w] = "cancelTasks"
    /\ ClaimCancelled(claimed)
    /\ operation' = [a \in Actors |-> IF a \in claimed THEN 0 ELSE operation[a]]
    /\ inFlight' = [inFlight EXCEPT ![w] = @ - Cardinality(claimed)]
    /\ pendingResume' = [a \in Actors |-> a \notin settled /\ pendingResume[a]]
    /\ exec' = [a \in Actors |-> IF a \in settled /\ exec[a] \in {"Suspended", "Ready"}
                                 THEN "Idle" ELSE exec[a]]
    /\ count' = [count EXCEPT ![w] = 0]
    /\ GoTo(w, IF settled = ActorsOf(w) THEN "destroy" ELSE "cancelDrain")
    /\ UNCHANGED <<sharedVars, inboxVars, outstanding, signalVars, timers, ready,
                   nextIncarnation, failed, incarnation, mailbox, active, nextTask,
                   continuations, countVars>>

CancelDrainEnd(w) ==
    /\ pc[w] = "cancelDrain"
    /\ count[w] = ContinuationBatch \/ continuations[w] = << >>
    /\ GoTo(w, IF count[w] = 0 THEN "cancelWait" ELSE "cancelTasks")
    /\ UNCHANGED <<sharedVars, inboxVars, outstanding, signalVars, timers, ready,
                   nextIncarnation, count, failed, actorVars, opVars, countVars>>

CancelWakeUp(w) ==
    /\ pc[w] = "cancelWait" /\ signalled[w]
    /\ signalled' = [signalled EXCEPT ![w] = FALSE]
    /\ GoTo(w, "cancelTasks")
    /\ UNCHANGED <<sharedVars, inboxVars, outstanding, cancelScan, timers, ready,
                   nextIncarnation, count, failed, actorVars, opVars, countVars>>

(* destroyWorkerActors, then workerFinished unless the worker failed. *)
WorkerFinished(w) ==
    IF failed[w] THEN UNCHANGED <<completion, finishedWorkers, drainedNotices>>
    ELSE /\ finishedWorkers' = finishedWorkers + 1
         /\ IF finishedWorkers + 1 = Cardinality(Workers) /\ completion = "DrainRequested"
            THEN completion' = "DrainWon" /\ drainedNotices' = drainedNotices + 1
            ELSE UNCHANGED <<completion, drainedNotices>>

Destroy(w) ==
    /\ pc[w] = "destroy"
    /\ ready' = [ready EXCEPT ![w] = << >>]
    /\ exec' = [a \in Actors |-> IF a \in ActorsOf(w) THEN "Absent" ELSE exec[a]]
    /\ mailbox' = [a \in Actors |-> IF a \in ActorsOf(w) THEN << >> ELSE mailbox[a]]
    /\ active' = [a \in Actors |-> a \notin ActorsOf(w) /\ active[a]]
    /\ Release(w, Cardinality({a \in ActorsOf(w) : active[a]}))
    /\ WorkerFinished(w)
    /\ GoTo(w, "done")
    /\ UNCHANGED <<input, failureRecorded, failedNotices, inboxVars, signalVars, timers,
                   nextIncarnation, count, failed, incarnation, pendingResume, operation,
                   nextTask, opVars, countVars>>

-----------------------------------------------------------------------------
Worker(w) ==
    \/ Pump(w) \/ PumpCancelled(w)
    \/ DrainContinuation(w) \/ DrainEnd(w)
    \/ Route(w) \/ ActivationThrows(w) \/ RouteEnd(w)
    \/ (\E t \in timers[w] : FireTimer(w, t))
    \/ TimersEnd(w) \/ TestDrained(w) \/ WakeUp(w)
    \/ BeginTurn(w) \/ TurnCancelled(w)
    \/ \E a \in Actors :
         \/ TakeResume(w, a) \/ TakeCommand(w, a) \/ EndTurn(w, a)
         \/ Schedule(w, a) \/ (\E t \in timers[w] : CancelTimer(w, a, t))
         \/ BeginOperation(w, a) \/ AbortOperation(w, a)
         \/ HandlerSuspends(w, a) \/ HandlerKeeps(w, a) \/ HandlerEvicts(w, a)
         \/ HandlerStops(w, a) \/ HandlerThrows(w, a)
    \/ RecordFailure(w) \/ CancelAfterFailure(w) \/ CleanUp(w) \/ Abandon(w)
    \/ CancelSuspendedTasks(w) \/ CancelDrainEnd(w) \/ CancelWakeUp(w) \/ Destroy(w)

Callers ==
    \/ \E a \in Actors : \E activates \in BOOLEAN : Post(a, activates)
    \/ Close \/ Cancel
    \/ \E a \in Actors : RequestActorOperationCancel(a)

Producers == \E o \in DOMAIN ops : ProducerClaims(o) \/ ProducerPublishes(o)

Clock == \E w \in Workers : \E t \in timers[w] : TimerBecomesDue(w, t)

Terminated == (\A w \in Workers : pc[w] = "done") /\ UNCHANGED vars

Next == (\E w \in Workers : Worker(w)) \/ Callers \/ Producers \/ Clock \/ Terminated

Spec == Init /\ [][Next]_vars

(* The worker threads are scheduled, a handler returns, every asynchronous  *)
(* operation is answered by its producer, and time passes.                  *)
FairSpec == /\ Spec
            /\ \A w \in Workers : WF_vars(Worker(w))
            /\ WF_vars(Producers) /\ WF_vars(Clock)

-----------------------------------------------------------------------------
(* Properties. *)

(* Every variable stays in its domain. *)
TypeOK ==
    /\ input \in {"Running", "Closed", "Cancelled"}
    /\ completion \in {"Pending", "DrainRequested", "DrainWon", "Cancelled", "Failed"}
    /\ failureRecorded \in BOOLEAN /\ failed \in [Workers -> BOOLEAN]
    /\ finishedWorkers \in Nat /\ drainedNotices \in Nat /\ failedNotices \in Nat
    /\ ingress \in [Workers -> Seq(Submissions)]
    /\ ingressFlags \in [Workers -> SUBSET {"closed", "cancelled"}]
    /\ outstanding \in [Workers -> Nat] /\ inFlight \in [Workers -> Nat]
    /\ continuations \in [Workers -> Seq([target : Actors, inc : Nat, task : Nat])]
    /\ cancelScan \in [Workers -> BOOLEAN] /\ signalled \in [Workers -> BOOLEAN]
    /\ timers \in [Workers -> SUBSET [target : Actors, inc : Nat, id : Nat, due : BOOLEAN]]
    /\ ready \in [Workers -> Seq(Actors)] /\ nextIncarnation \in [Workers -> Nat]
    /\ pc \in [Workers -> Steps] /\ count \in [Workers -> Nat]
    /\ exec \in [Actors -> {"Absent", "Idle", "Ready", "Running", "Suspended"}]
    /\ incarnation \in [Actors -> Nat] /\ nextTask \in [Actors -> Nat]
    /\ mailbox \in [Actors -> Seq(Submissions)]
    /\ active \in [Actors -> BOOLEAN] /\ pendingResume \in [Actors -> BOOLEAN]
    /\ operation \in [Actors -> Nat]
    /\ ops \in Seq([actor : Actors, inc : Nat, task : Nat, cancel : BOOLEAN,
                    outcome : {"Pending", "Completed", "Cancelled"},
                    producer : {"working", "claimed", "gone"}])
    /\ nextPost \in Nat /\ nextTimer \in Nat /\ lastTaken \in [Actors -> Nat]
    /\ dropped \in [Workers -> 0 .. IngressBatch]

Scheduling(w) == pc[w] \in {"pump", "drain", "route", "timers", "test", "sleep", "turn",
                            "take", "handler"}

(* The ready queue of a worker holds exactly its Ready actors, each once,   *)
(* and each with something to run: the logic_error of runReadyActorTurn is  *)
(* never thrown.                                                            *)
ReadyQueueInvariant ==
    \A w \in Workers : Scheduling(w) =>
        /\ \A i, j \in DOMAIN ready[w] : ready[w][i] = ready[w][j] => i = j
        /\ {ready[w][i] : i \in DOMAIN ready[w]} = {a \in ActorsOf(w) : exec[a] = "Ready"}
        /\ \A a \in ActorsOf(w) :
             exec[a] = "Ready" => mailbox[a] # << >> \/ pendingResume[a]

(* While a command of an actor is suspended, or waits to be resumed, no     *)
(* other command of that actor has been started; and no command is left     *)
(* active on an actor that nothing will resume.                             *)
CommandNotOvertaken ==
    \A a \in Actors : Scheduling(WorkerOf[a]) =>
        active[a] = \/ exec[a] = "Suspended" \/ pendingResume[a]
                    \/ exec[a] = "Running" /\ pc[WorkerOf[a]] = "handler"

IsIncreasing(s) == \A i \in 1 .. Len(s) - 1 : s[i] < s[i + 1]
PostsTo(a, q) == LET own == SelectSeq(q, LAMBDA s : s.target = a /\ s.post # 0)
                 IN [i \in DOMAIN own |-> own[i].post]

(* The posts to one actor are dispatched in the order they were accepted:   *)
(* last dispatched, then mailbox, then ingress, is an increasing sequence.  *)
PostsInOrder ==
    \A a \in Actors :
        IsIncreasing(<<lastTaken[a]>> \o PostsTo(a, mailbox[a])
                                      \o PostsTo(a, ingress[WorkerOf[a]]))

(* A worker's outstanding counter is the number of submissions and timers   *)
(* it holds, until a failed worker drops its mailboxes, and never exceeds   *)
(* the capacity: nothing is released twice and no capacity leaks.           *)
OutstandingExact ==
    \A w \in Workers :
        /\ outstanding[w] <= Capacity
        /\ ~(failed[w] /\ pc[w] = "done") =>
             outstanding[w] = Len(ingress[w]) + MailboxTotal(w)
                              + Cardinality({a \in ActorsOf(w) : active[a]})
                              + Cardinality(timers[w])

(* Every in-flight slot belongs to one actor's operation, so a completed    *)
(* operation always finds room for its continuation: publishContinuation    *)
(* never reaches its std::terminate.                                        *)
SlotForEveryCompletion ==
    \A w \in Workers :
        /\ inFlight[w] = Cardinality({a \in ActorsOf(w) : operation[a] # 0})
        /\ inFlight[w] <= MaxInFlight
        /\ Len(continuations[w])
             + Cardinality({o \in DOMAIN ops : /\ ops[o].producer = "claimed"
                                               /\ WorkerOf[ops[o].actor] = w}) <= inFlight[w]

(* A published continuation always finds the actor that awaits it, in the   *)
(* same incarnation and awaiting that very task: no completion is dropped   *)
(* and none resumes another command.                                        *)
ContinuationsMatch ==
    \A w \in Workers : \A i \in DOMAIN continuations[w] :
        LET c == continuations[w][i] IN
        /\ exec[c.target] \in {"Running", "Suspended"}
        /\ incarnation[c.target] = c.inc
        /\ operation[c.target] # 0 /\ ExpectedTask(c.target) = c.task

(* A timer never outlives the actor that set it: no timer fires into a      *)
(* later incarnation.                                                       *)
TimersBelongToLiveActors ==
    \A w \in Workers : \A t \in timers[w] :
        /\ exec[t.target] # "Absent"
        /\ incarnation[t.target] = t.inc

(* The server hears of the end of the runtime at most once: drained, or     *)
(* failed, never both.                                                      *)
OneCompletionNotice == drainedNotices + failedNotices <= 1

(* When close() is what ends the runtime, a worker stops only once nothing  *)
(* it accepted is left: no submission, no continuation, no command begun    *)
(* and not finished (isWorkerDrained).  What an actor's own Evict dropped   *)
(* with its mailbox on the way is gone; nothing else is.                    *)
DrainLosesNothing ==
    \A w \in Workers :
        /\ completion \in {"DrainRequested", "DrainWon"} /\ ~failed[w] /\ ~Scheduling(w)
        => /\ ingress[w] = << >> /\ continuations[w] = << >>
           /\ \A a \in ActorsOf(w) : /\ mailbox[a] = << >> /\ ~active[a]
                                     /\ operation[a] = 0 /\ ~pendingResume[a]

(* The last pass of the worker used its whole ingress batch up on           *)
(* submissions that were dropped, so nothing became ready by it.            *)
BatchDropped(w) == dropped[w] = IngressBatch

(* No wake-up is lost: what is in a worker's ingress leaves it, with one    *)
(* exception.  After a full batch of dropped ExistingOnly submissions       *)
(* pumpWorker waits for a notify that the rest of the ingress has used up.  *)
SubmissionsMove ==
    \A w \in Workers : (ingress[w] # << >>) ~> (ingress[w] = << >> \/ BatchDropped(w))

(* tryPost notifies the worker after every accepted submission, and says    *)
(* that the worker then consumes the queue.                                 *)
EverySubmissionMoves == \A w \in Workers : (ingress[w] # << >>) ~> (ingress[w] = << >>)

(* A suspended actor is resumed, or torn down with its worker. *)
SuspendedResumes == \A a \in Actors : (exec[a] = "Suspended") ~> (exec[a] # "Suspended")

(* After cancel() every worker ends, with operations still in flight at     *)
(* that moment.  After close() every worker ends, or is cancelled later, or *)
(* waits after a full batch of dropped submissions with more behind it: the *)
(* one case in which a closed runtime does not drain (pumpWorker).          *)
ShutdownEnds ==
    /\ input = "Cancelled" ~> \A w \in Workers : pc[w] = "done"
    /\ input = "Closed" ~> \/ input = "Cancelled"
                           \/ \A w \in Workers :
                                \/ pc[w] = "done"
                                \/ pc[w] = "sleep" /\ BatchDropped(w) /\ ingress[w] # << >>
=============================================================================
