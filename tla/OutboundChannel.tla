--------------------------- MODULE OutboundChannel ---------------------------
(***************************************************************************)
(* The outbound channel (outbound_channel.cpp): the bounded queue through  *)
(* which the actor workers hand frames to the reactor.  A slot is reserved *)
(* before a frame is committed.  A player actor that finds no slot         *)
(* registers a waiter and suspends; the reactor grants the waiters at the  *)
(* end of every pass over the queue (TcpServer::handleOutboundActions).    *)
(*                                                                         *)
(* An actor stands for one player actor, or (Pushers) for a zone or room   *)
(* actor that sends one frame and never waits (send_one_frame).  The       *)
(* connections, their sessions and the reactor's position in its pass are  *)
(* part of the model, and so is the cancellation of runtime and channel.   *)
(***************************************************************************)
EXTENDS Integers, Sequences, FiniteSetsExt, SequencesExt

CONSTANTS Actors, Pushers, Connections, ConnectionOf,
          Capacity,         \* capacity
          MaxSlots,         \* max_slots_per_connection
          MaxGrants,        \* max_grants_per_turn
          MaxFailures,      \* max_pending_admission_failures
          DrainBatch,       \* OUTBOUND_DRAIN_BATCH_SIZE
          Commands          \* bound: how many commands each actor runs

ASSUME ActorsAssumption ==
    /\ IsFiniteSet(Actors) /\ IsFiniteSet(Connections)
    /\ Pushers \subseteq Actors /\ ConnectionOf \in [Actors -> Connections]
ASSUME SizesAssumption ==
    /\ Capacity \in Nat /\ MaxSlots \in 1 .. Capacity
    /\ MaxGrants \in Nat \ {0} /\ MaxFailures \in Nat \ {0} /\ DrainBatch \in Nat \ {0}
    /\ Commands \in [Actors -> Nat]

VARIABLES
    items,          \* _items: the connections of the queued actions
    queued,         \* ConnectionUsage::queued
    reserved,       \* ConnectionUsage::reserved
    waiters,        \* ConnectionUsage::waiters: sequences of actors
    listed,         \* the connections with queued_for_grant
    kept,           \* the connections without erase_when_idle
    known,          \* the keys of _connections
    grantOrder,     \* _grant_order
    reservedSlots,  \* _reserved_slots
    waiterCount,    \* _waiter_count
    failures,       \* _admission_failures
    overflowed,     \* _admission_failure_overflowed
    cancelled,      \* _cancelled
    wake,           \* the eventfd is readable
    reactor,        \* where the reactor is in its pass
    remaining,      \* turns the loop of drainInto or grantPending still has
    drained,        \* _drained_outbound_actions
    failing,        \* _failed_outbound_admissions
    awards,         \* grantPending: the awards whose operation is still to be completed
    session,        \* connection -> new, open or closed
    step,           \* actor -> where it is in its command
    slots,          \* actor -> slots it wants or holds
    left,           \* actor -> commands it still runs
    stopping,       \* the runtime has been cancelled
    orphans         \* cancel(): actors whose operation is still to be completed

queueVars == <<items, queued>>
reservationVars == <<reserved, reservedSlots>>
waiterVars == <<waiters, waiterCount>>
grantVars == <<listed, grantOrder>>
failureVars == <<failures, overflowed>>
passVars == <<remaining, drained, failing, awards>>
actorVars == <<step, slots, left>>
stopVars == <<stopping, orphans>>
vars == <<queueVars, reservationVars, waiterVars, grantVars, kept, known, failureVars,
          cancelled, wake, reactor, passVars, session, actorVars, stopVars>>

ActorSteps == {"idle", "register", "waiting", "cancelled", "invalid", "holding", "stopped"}
ReactorSteps == {"wait", "drain", "taking", "handle", "failures", "close", "granting", "award"}

Init ==
    /\ items = << >> /\ queued = [c \in Connections |-> 0]
    /\ reserved = [c \in Connections |-> 0] /\ reservedSlots = 0
    /\ waiters = [c \in Connections |-> << >>] /\ waiterCount = 0
    /\ listed = {} /\ grantOrder = << >> /\ kept = {} /\ known = {}
    /\ failures = {} /\ overflowed = FALSE /\ cancelled = FALSE /\ wake = FALSE
    /\ reactor = "wait" /\ remaining = 0 /\ drained = << >> /\ failing = {} /\ awards = << >>
    /\ session = [c \in Connections |-> "new"]
    /\ step = [a \in Actors |-> "idle"] /\ slots = [a \in Actors |-> 0]
    /\ left = Commands
    /\ stopping = FALSE /\ orphans = {}

-----------------------------------------------------------------------------
(* The operations run under _mutex, which drainInto and grantPending hold   *)
(* for their whole loop.                                                    *)
MutexFree == reactor \notin {"taking", "granting"}

(* Mutant: reservations are not counted. *)
FitsQueued(c, n) == Len(items) + n <= Capacity /\ queued[c] + n <= MaxSlots

Fits(c, n) == /\ Len(items) + reservedSlots + n <= Capacity
              /\ queued[c] + reserved[c] + n <= MaxSlots

(* Mutant: reservations do not keep the usage alive. *)
EraseUnqueued(c, usages) ==
    known' = IF /\ c \notin kept' /\ c \notin listed'
                /\ queued'[c] = 0 /\ waiters'[c] = << >>
             THEN usages \ {c} ELSE usages

(* The last step of an operation, when the other fields have their new      *)
(* values.                                                                  *)
EraseUsageIfIdle(c, usages) ==
    known' = IF /\ c \notin kept' /\ c \notin listed'
                /\ queued'[c] = 0 /\ reserved'[c] = 0 /\ waiters'[c] = << >>
             THEN usages \ {c} ELSE usages

MarkGrantable(c) ==
    IF waiters'[c] = << >> \/ c \in listed
    THEN UNCHANGED grantVars
    ELSE listed' = listed \cup {c} /\ grantOrder' = Append(grantOrder, c)

(* Mutant: the slots of the connection are not given back. *)
ReturnSharedSlots(c, n) ==
    /\ reservedSlots' = reservedSlots - n
    /\ UNCHANGED <<reserved, grantVars, known>>
    /\ wake' = TRUE

(* The destruction of a reservation of n slots.                             *)
ReturnSlots(c, n) ==
    /\ reservedSlots' = IF reservedSlots >= n THEN reservedSlots - n ELSE 0
    /\ IF c \in known
       THEN /\ reserved' = [reserved EXCEPT ![c] = IF @ >= n THEN @ - n ELSE 0]
            /\ MarkGrantable(c)
            /\ EraseUsageIfIdle(c, known)
       ELSE UNCHANGED <<reserved, grantVars, known>>
    /\ wake' = TRUE

ReportAdmissionFailure(c) ==
    /\ \/ c \in failures /\ UNCHANGED failureVars
       \/ /\ c \notin failures /\ Cardinality(failures) = MaxFailures
          /\ overflowed' = TRUE /\ failures' = failures
       \/ /\ c \notin failures /\ Cardinality(failures) # MaxFailures
          /\ failures' = failures \cup {c} /\ overflowed' = overflowed
    /\ wake' = TRUE

-----------------------------------------------------------------------------
(* The actors. *)
Finish(a, how) == step' = [step EXCEPT ![a] = how] /\ slots' = [slots EXCEPT ![a] = 0]

SlotCounts(a) == IF a \in Pushers THEN {1} ELSE 1 .. MaxSlots

Begin(a) == /\ step[a] = "idle" /\ left[a] > 0 /\ session[ConnectionOf[a]] # "new"
            /\ left' = [left EXCEPT ![a] = @ - 1]

(* A response that could never fit is given up (canEverReserve).            *)
Abandon(a) ==
    /\ a \notin Pushers /\ MutexFree /\ Begin(a)
    /\ ReportAdmissionFailure(ConnectionOf[a])
    /\ UNCHANGED <<queueVars, reservationVars, waiterVars, grantVars, kept, known, cancelled,
                   reactor, passVars, session, step, slots, stopVars>>

TryReserve(a, n) ==
    LET c == ConnectionOf[a] IN
    /\ MutexFree /\ Begin(a)
    /\ ~cancelled /\ waiterCount = 0 /\ Fits(c, n)
    /\ reserved' = [reserved EXCEPT ![c] = @ + n]
    /\ reservedSlots' = reservedSlots + n
    /\ known' = known \cup {c}
    /\ step' = [step EXCEPT ![a] = "holding"] /\ slots' = [slots EXCEPT ![a] = n]
    /\ UNCHANGED <<queueVars, waiterVars, grantVars, kept, failureVars, cancelled, wake,
                   reactor, passVars, session, stopVars>>

(* Refused: a player actor goes on to registerWaiter, a pusher reports that *)
(* the frame could not be admitted.                                         *)
TryReserveRefused(a, n) ==
    LET c == ConnectionOf[a] IN
    /\ MutexFree /\ Begin(a)
    /\ cancelled \/ waiterCount # 0 \/ ~Fits(c, n)
    /\ UNCHANGED <<queueVars, reservationVars, waiterVars, grantVars, kept, cancelled,
                   reactor, passVars, session, stopVars>>
    /\ IF a \in Pushers
       THEN ReportAdmissionFailure(c) /\ UNCHANGED <<step, slots>>
       ELSE /\ step' = [step EXCEPT ![a] = "register"] /\ slots' = [slots EXCEPT ![a] = n]
            /\ UNCHANGED <<failureVars, wake>>
    /\ IF cancelled \/ waiterCount # 0
       THEN UNCHANGED known
       ELSE EraseUsageIfIdle(c, known \cup {c})

(* Mutant: the reactor is not woken. *)
RegisterQuietly(a) ==
    LET c == ConnectionOf[a] IN
    /\ MutexFree /\ step[a] = "register" /\ ~cancelled
    /\ waiters' = [waiters EXCEPT ![c] = Append(@, a)]
    /\ waiterCount' = waiterCount + 1
    /\ known' = known \cup {c}
    /\ MarkGrantable(c)
    /\ step' = [step EXCEPT ![a] = "waiting"]
    /\ UNCHANGED <<queueVars, reservationVars, kept, failureVars, cancelled, wake, reactor,
                   passVars, session, slots, left, stopVars>>

RegisterWaiter(a) ==
    LET c == ConnectionOf[a] IN
    /\ MutexFree /\ step[a] = "register" /\ ~cancelled
    /\ waiters' = [waiters EXCEPT ![c] = Append(@, a)]
    /\ waiterCount' = waiterCount + 1
    /\ known' = known \cup {c}
    /\ MarkGrantable(c)
    /\ wake' = TRUE
    /\ step' = [step EXCEPT ![a] = "waiting"]
    /\ UNCHANGED <<queueVars, reservationVars, kept, failureVars, cancelled, reactor,
                   passVars, session, slots, left, stopVars>>

RegisterCancelled(a) ==
    /\ MutexFree /\ step[a] = "register" /\ cancelled
    /\ step' = [step EXCEPT ![a] = "invalid"]
    /\ UNCHANGED <<queueVars, reservationVars, waiterVars, grantVars, kept, known, failureVars,
                   cancelled, wake, reactor, passVars, session, slots, left, stopVars>>

(* Mutant: the reactor is not woken. *)
CommitQuietly(a) ==
    LET c == ConnectionOf[a] IN
    /\ MutexFree /\ step[a] = "holding" /\ ~cancelled
    /\ items' = Append(items, c)
    /\ queued' = [queued EXCEPT ![c] = @ + 1]
    /\ reserved' = [reserved EXCEPT ![c] = @ - 1]
    /\ reservedSlots' = reservedSlots - 1
    /\ IF slots[a] = 1 THEN Finish(a, "idle")
       ELSE slots' = [slots EXCEPT ![a] = @ - 1] /\ step' = step
    /\ UNCHANGED <<waiterVars, grantVars, kept, known, failureVars, cancelled, wake, reactor,
                   passVars, session, left, stopVars>>

Commit(a) ==
    LET c == ConnectionOf[a] IN
    /\ MutexFree /\ step[a] = "holding" /\ ~cancelled
    /\ items' = Append(items, c)
    /\ queued' = [queued EXCEPT ![c] = @ + 1]
    /\ reserved' = [reserved EXCEPT ![c] = @ - 1]
    /\ reservedSlots' = reservedSlots - 1
    /\ IF slots[a] = 1 THEN Finish(a, "idle")
       ELSE slots' = [slots EXCEPT ![a] = @ - 1] /\ step' = step
    /\ wake' = TRUE
    /\ UNCHANGED <<waiterVars, grantVars, kept, known, failureVars, cancelled, reactor,
                   passVars, session, left, stopVars>>

(* commit() fails once the channel is cancelled; the reservation is given   *)
(* back.  A pusher also reports the failure.                                *)
CommitCancelled(a) ==
    LET c == ConnectionOf[a] IN
    /\ MutexFree /\ step[a] = "holding" /\ cancelled
    /\ UNCHANGED <<queueVars, waiterVars, kept, cancelled, reactor, passVars, session, left,
                   stopVars>>
    /\ ReturnSlots(c, slots[a])
    /\ IF a \in Pushers
       THEN ReportAdmissionFailure(c) /\ Finish(a, "idle")
       ELSE UNCHANGED failureVars /\ Finish(a, "stopped")

(* The worker of a cancelled runtime cancels the operation of a suspended   *)
(* command; the resumed coroutine withdraws its waiter and gives up.        *)
CancelOperation(a) ==
    /\ stopping /\ step[a] = "waiting"
    /\ step' = [step EXCEPT ![a] = "cancelled"]
    /\ UNCHANGED <<queueVars, reservationVars, waiterVars, grantVars, kept, known, failureVars,
                   cancelled, wake, reactor, passVars, session, slots, left, stopVars>>

(* Mutant: the waiter is counted out although it was granted already. *)
WithdrawTwice(a) ==
    LET c == ConnectionOf[a] IN
    /\ MutexFree /\ step[a] = "cancelled"
    /\ UNCHANGED <<queueVars, reservationVars, grantVars, kept, cancelled, reactor, passVars,
                   session, left, stopVars>>
    /\ waiters' = [waiters EXCEPT ![c] = SelectSeq(@, LAMBDA w : w # a)]
    /\ waiterCount' = waiterCount - 1
    /\ EraseUsageIfIdle(c, known)
    /\ ReportAdmissionFailure(c)
    /\ Finish(a, "stopped")

WithdrawWaiter(a) ==
    LET c == ConnectionOf[a] IN
    /\ MutexFree /\ step[a] = "cancelled"
    /\ UNCHANGED <<queueVars, reservationVars, grantVars, kept, cancelled, reactor, passVars,
                   session, left, stopVars>>
    /\ IF a \in ToSet(waiters[c])
       THEN /\ waiters' = [waiters EXCEPT ![c] = SelectSeq(@, LAMBDA w : w # a)]
            /\ waiterCount' = waiterCount - 1
            /\ EraseUsageIfIdle(c, known)
       ELSE UNCHANGED <<waiterVars, known>>
    /\ ReportAdmissionFailure(c)
    /\ Finish(a, "stopped")

(* The operation was completed with an invalid reservation.                 *)
TakeInvalid(a) ==
    /\ step[a] = "invalid"
    /\ Finish(a, "stopped")
    /\ UNCHANGED <<queueVars, reservationVars, waiterVars, grantVars, kept, known, failureVars,
                   cancelled, wake, reactor, passVars, session, left, stopVars>>

-----------------------------------------------------------------------------
(* The reactor. *)
Accept(c) ==
    /\ reactor = "wait" /\ session[c] = "new"
    /\ session' = [session EXCEPT ![c] = "open"]
    /\ kept' = kept \cup {c} /\ known' = known \cup {c}
    /\ UNCHANGED <<queueVars, reservationVars, waiterVars, grantVars, failureVars, cancelled,
                   wake, reactor, passVars, actorVars, stopVars>>

(* Mutant: an idle usage stays until something touches it. *)
ForgetLater(c) == kept' = kept \ {c} /\ known' = known

ForgetConnection(c) ==
    IF c \in known
    THEN kept' = kept \ {c} /\ EraseUsageIfIdle(c, known)
    ELSE UNCHANGED <<kept, known>>

RemoveSession(c) ==
    /\ session[c] = "open"
    /\ session' = [session EXCEPT ![c] = "closed"]
    /\ UNCHANGED <<queueVars, reservationVars, waiterVars, grantVars>>
    /\ ForgetConnection(c)

(* The peer hangs up, or its send queue overflows, outside the pass.        *)
ClientCloses(c) ==
    /\ reactor = "wait" /\ RemoveSession(c)
    /\ UNCHANGED <<failureVars, cancelled, wake, reactor, passVars, actorVars, stopVars>>

WakeUp ==
    /\ reactor = "wait" /\ wake
    /\ wake' = FALSE
    /\ reactor' = "drain"
    /\ UNCHANGED <<queueVars, reservationVars, waiterVars, grantVars, kept, known, failureVars,
                   cancelled, passVars, session, actorVars, stopVars>>

(* drainInto takes a batch under one lock; the loop ends when it finds the  *)
(* queue empty.                                                             *)
DrainInto ==
    /\ reactor = "drain"
    /\ IF items = << >>
       THEN reactor' = "failures" /\ remaining' = 0
       ELSE reactor' = "taking" /\ remaining' = DrainBatch
    /\ UNCHANGED <<queueVars, reservationVars, waiterVars, grantVars, kept, known, failureVars,
                   cancelled, wake, drained, failing, awards, session, actorVars, stopVars>>

TakeFront ==
    LET c == Head(items) IN
    /\ reactor = "taking" /\ remaining > 0 /\ items # << >>
    /\ remaining' = remaining - 1
    /\ items' = Tail(items)
    /\ drained' = Append(drained, c)
    /\ UNCHANGED <<reservationVars, waiterVars, kept>>
    /\ IF c \in known
       THEN /\ queued' = [queued EXCEPT ![c] = IF @ # 0 THEN @ - 1 ELSE 0]
            /\ MarkGrantable(c)
            /\ EraseUsageIfIdle(c, known)
       ELSE UNCHANGED <<queued, grantVars, known>>
    /\ UNCHANGED <<failureVars, cancelled, wake, reactor, failing, awards, session, actorVars,
                   stopVars>>

BatchTaken ==
    /\ reactor = "taking" /\ (remaining = 0 \/ items = << >>)
    /\ reactor' = "handle" /\ remaining' = 0
    /\ UNCHANGED <<queueVars, reservationVars, waiterVars, grantVars, kept, known, failureVars,
                   cancelled, wake, drained, failing, awards, session, actorVars, stopVars>>

(* handleOutboundAction: the frame goes to the session, if it is still      *)
(* there; the session is removed when its send queue overflows or the       *)
(* action asks for it.                                                      *)
HandleAction ==
    LET c == Head(drained) IN
    /\ reactor = "handle" /\ drained # << >>
    /\ drained' = Tail(drained)
    /\ reactor' = IF Len(drained) = 1 THEN "drain" ELSE "handle"
    /\ RemoveSession(c) \/ UNCHANGED <<session, kept, known>>
    /\ UNCHANGED <<queueVars, reservationVars, waiterVars, grantVars, failureVars, cancelled,
                   wake, remaining, failing, awards, actorVars, stopVars>>

OpenSessions == {c \in Connections : session[c] = "open"}

(* Mutant: the overflow is cleared and not acted on. *)
TakeListedFailures ==
    /\ reactor = "failures"
    /\ failing' = failures \cap OpenSessions
    /\ failures' = {} /\ overflowed' = FALSE
    /\ reactor' = "close"
    /\ UNCHANGED <<queueVars, reservationVars, waiterVars, grantVars, kept, known, cancelled,
                   wake, remaining, drained, awards, session, actorVars, stopVars>>

(* takePendingAdmissionFailures; an overflow of the set closes every        *)
(* session.                                                                 *)
TakeFailures ==
    /\ reactor = "failures"
    /\ failing' = IF overflowed THEN OpenSessions ELSE failures \cap OpenSessions
    /\ failures' = {} /\ overflowed' = FALSE
    /\ reactor' = "close"
    /\ UNCHANGED <<queueVars, reservationVars, waiterVars, grantVars, kept, known, cancelled,
                   wake, remaining, drained, awards, session, actorVars, stopVars>>

CloseFailed(c) ==
    /\ reactor = "close" /\ c \in failing
    /\ RemoveSession(c)
    /\ failing' = failing \ {c}
    /\ UNCHANGED <<failureVars, cancelled, wake, reactor, remaining, drained, awards,
                   actorVars, stopVars>>

(* grantPending examines at most MaxGrants entries of _grant_order, each at *)
(* most once, holding _mutex.                                               *)
BeginGrant ==
    /\ reactor = "close" /\ failing = {}
    /\ IF cancelled
       THEN reactor' = "wait" /\ remaining' = 0
       ELSE reactor' = "granting" /\ remaining' = Min({MaxGrants, Len(grantOrder)})
    /\ UNCHANGED <<queueVars, reservationVars, waiterVars, grantVars, kept, known, failureVars,
                   cancelled, wake, drained, failing, awards, session, actorVars, stopVars>>

GrantTo(c) ==
    LET a == Head(waiters[c]) IN
    /\ reserved' = [reserved EXCEPT ![c] = @ + slots[a]]
    /\ reservedSlots' = reservedSlots + slots[a]
    /\ awards' = Append(awards, [actor |-> a, slots |-> slots[a]])
    /\ waiters' = [waiters EXCEPT ![c] = Tail(@)]
    /\ waiterCount' = waiterCount - 1
    /\ IF Len(waiters[c]) > 1
       THEN grantOrder' = Append(Tail(grantOrder), c) /\ listed' = listed
       ELSE grantOrder' = Tail(grantOrder) /\ listed' = listed \ {c}
    /\ known' = known

Examine ==
    LET c == Head(grantOrder) IN
    /\ reactor = "granting" /\ remaining > 0
    /\ remaining' = remaining - 1
    /\ UNCHANGED <<queueVars, kept>>
    /\ \/ /\ c \notin known \/ waiters[c] = << >>
          /\ grantOrder' = Tail(grantOrder) /\ listed' = listed \ {c}
          /\ UNCHANGED <<reservationVars, waiterVars, awards>>
          /\ EraseUsageIfIdle(c, known)
       \/ /\ c \in known /\ waiters[c] # << >> /\ ~Fits(c, slots[Head(waiters[c])])
          /\ grantOrder' = Append(Tail(grantOrder), c)
          /\ UNCHANGED <<listed, known, reservationVars, waiterVars, awards>>
       \/ /\ c \in known /\ waiters[c] # << >> /\ Fits(c, slots[Head(waiters[c])])
          /\ GrantTo(c)
    /\ UNCHANGED <<failureVars, cancelled, wake, reactor, drained, failing, session, actorVars,
                   stopVars>>

EndGrant ==
    /\ reactor = "granting" /\ remaining = 0
    /\ reactor' = "award"
    /\ UNCHANGED <<queueVars, reservationVars, waiterVars, grantVars, kept, known, failureVars,
                   cancelled, wake, passVars, session, actorVars, stopVars>>

(* The operation of an actor is completed with the reservation; if it was   *)
(* cancelled in the meantime the reservation is destroyed.                  *)
CompleteAward ==
    LET a == Head(awards).actor IN
    /\ reactor = "award" /\ awards # << >>
    /\ awards' = Tail(awards)
    /\ UNCHANGED <<queueVars, waiterVars, kept, failureVars, cancelled, reactor, remaining,
                   drained, failing, session, slots, left, stopVars>>
    /\ \/ /\ step[a] = "waiting"
          /\ step' = [step EXCEPT ![a] = "holding"]
          /\ UNCHANGED <<reservationVars, grantVars, known, wake>>
       \/ /\ step[a] # "waiting"
          /\ ReturnSlots(ConnectionOf[a], Head(awards).slots)
          /\ step' = step

EndPass ==
    /\ reactor = "award" /\ awards = << >>
    /\ reactor' = "wait"
    /\ UNCHANGED <<queueVars, reservationVars, waiterVars, grantVars, kept, known, failureVars,
                   cancelled, wake, passVars, session, actorVars, stopVars>>

-----------------------------------------------------------------------------
(* Shutdown: the runtime is cancelled first, then the channel.              *)
StopRuntime ==
    /\ ~stopping
    /\ stopping' = TRUE
    /\ UNCHANGED <<queueVars, reservationVars, waiterVars, grantVars, kept, known, failureVars,
                   cancelled, wake, reactor, passVars, session, actorVars, orphans>>

Cancel ==
    /\ MutexFree /\ stopping /\ ~cancelled
    /\ cancelled' = TRUE
    /\ items' = << >> /\ queued' = [c \in Connections |-> 0]
    /\ orphans' = UNION {ToSet(waiters[c]) : c \in Connections}
    /\ waiters' = [c \in Connections |-> << >>] /\ waiterCount' = 0
    /\ grantOrder' = << >> /\ listed' = {}
    /\ wake' = TRUE
    /\ UNCHANGED <<reservationVars, kept, known, failureVars, reactor, passVars, session,
                   actorVars, stopping>>

CompleteOrphan(a) ==
    /\ a \in orphans
    /\ orphans' = orphans \ {a}
    /\ step' = IF step[a] = "waiting" THEN [step EXCEPT ![a] = "invalid"] ELSE step
    /\ UNCHANGED <<queueVars, reservationVars, waiterVars, grantVars, kept, known, failureVars,
                   cancelled, wake, reactor, passVars, session, slots, left, stopping>>

-----------------------------------------------------------------------------
ActorStep(a) ==
    \/ Abandon(a)
    \/ \E n \in SlotCounts(a) : TryReserve(a, n) \/ TryReserveRefused(a, n)
    \/ RegisterWaiter(a) \/ RegisterCancelled(a) \/ Commit(a) \/ CommitCancelled(a)
    \/ CancelOperation(a) \/ WithdrawWaiter(a) \/ TakeInvalid(a)

Pass == \/ WakeUp \/ DrainInto \/ TakeFront \/ BatchTaken \/ HandleAction \/ TakeFailures
        \/ \E c \in Connections : CloseFailed(c)
        \/ BeginGrant \/ Examine \/ EndGrant \/ CompleteAward \/ EndPass

Next == \/ \E a \in Actors : ActorStep(a)
        \/ Pass
        \/ \E c \in Connections : Accept(c) \/ ClientCloses(c)
        \/ StopRuntime \/ Cancel
        \/ \E a \in orphans : CompleteOrphan(a)

Spec == Init /\ [][Next]_vars

FairSpec == /\ Spec
            /\ \A a \in Actors : WF_vars(ActorStep(a))
            /\ WF_vars(Pass)
            /\ \A a \in Actors : WF_vars(CompleteOrphan(a))

-----------------------------------------------------------------------------
Held(a) == IF step[a] = "holding" THEN slots[a] ELSE 0
AwardedTo(c) == SelectSeq(awards, LAMBDA w : ConnectionOf[w.actor] = c)
AwardedSlots(c) == FoldSeq(LAMBDA w, sum : w.slots + sum, 0, AwardedTo(c))
On(c) == {a \in Actors : ConnectionOf[a] = c}

(* Every variable has its type; in particular no counter goes below zero.   *)
TypeOK ==
    /\ items \in Seq(Connections) /\ drained \in Seq(Connections)
    /\ queued \in [Connections -> 0 .. MaxSlots] /\ reserved \in [Connections -> 0 .. MaxSlots]
    /\ waiters \in [Connections -> Seq(Actors)] /\ waiterCount \in Nat
    /\ grantOrder \in Seq(Connections) /\ reservedSlots \in 0 .. Capacity
    /\ {listed, kept, known, failures, failing} \subseteq SUBSET Connections
    /\ {overflowed, cancelled, wake, stopping} \subseteq BOOLEAN
    /\ reactor \in ReactorSteps /\ remaining \in Nat
    /\ awards \in Seq([actor : Actors, slots : 1 .. MaxSlots])
    /\ session \in [Connections -> {"new", "open", "closed"}]
    /\ step \in [Actors -> ActorSteps] /\ slots \in [Actors -> 0 .. MaxSlots]
    /\ left \in [Actors -> Nat] /\ orphans \subseteq Actors

(* Queued and reserved slots together stay within the capacity of the       *)
(* channel and, per connection, within its limit, through refused, granted, *)
(* returned and cancelled reservations (fits).                              *)
WithinCapacity ==
    /\ Len(items) + reservedSlots <= Capacity
    /\ \A c \in Connections : queued[c] + reserved[c] <= MaxSlots

(* The counters agree with what they count: the slots held by actors and by *)
(* awards on their way, the actions in the queue, the registered waiters.   *)
(* So the clamps of returnSlots and takeFront never hide a lost slot.       *)
CountersExact ==
    /\ \A c \in Connections :
         /\ reserved[c] = MapThenSumSet(Held, On(c)) + AwardedSlots(c)
         /\ queued[c] = Len(SelectSeq(items, LAMBDA d : d = c))
    /\ reservedSlots = MapThenSumSet(LAMBDA c : reserved[c], Connections)
    /\ waiterCount = MapThenSumSet(LAMBDA c : Len(waiters[c]), Connections)

(* A connection with accounting under way is never erased from              *)
(* _connections, although reactor and workers forget and touch it in any    *)
(* order: commit() finds the reservation it is about to use.                *)
UsageKept ==
    \A c \in Connections :
        queued[c] > 0 \/ reserved[c] > 0 \/ waiters[c] # << >> \/ c \in listed => c \in known

(* Nothing is left of a closed connection once nothing is under way for it. *)
ClosedUsageErased ==
    \A c \in known : session[c] = "closed" /\ ~cancelled =>
        queued[c] > 0 \/ reserved[c] > 0 \/ waiters[c] # << >> \/ c \in listed

(* A waiting actor is answered: a reservation, or the cancellation of       *)
(* runtime or channel.                                                      *)
WaiterAnswered == \A a \in Actors : step[a] = "waiting" ~> step[a] # "waiting"

(* Committed actions reach the reactor unless the channel is cancelled.     *)
ActionsTaken == items # << >> ~> items = << >>

(* A connection to which a frame could not be admitted is closed, also when  *)
(* there are more of them than _admission_failures holds.                    *)
FailureClosesConnection ==
    \A c \in Connections :
        session[c] = "open" /\ (c \in failures \/ overflowed) ~> session[c] = "closed"
=============================================================================
