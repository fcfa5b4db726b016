------------------------- MODULE PlayerPersistence -------------------------
(***************************************************************************)
(* PlayerPersistenceService: the thread that turns the snapshots and final  *)
(* saves of the PlayerActors into repository saves, one at a time for each  *)
(* player, together with the callers and the repository it works between.   *)
(*                                                                          *)
(* A PlayerRecord is abstracted to its version: the number of the state     *)
(* change of that player it was taken after.  0 stands for "no record".     *)
(* Every critical section of _mutex is one step; tryPop and the assignment  *)
(* that follows it in drainSnapshots are one step because nothing another   *)
(* thread does between the two can tell.                                    *)
(***************************************************************************)
EXTENDS Naturals, Sequences, FiniteSets

CONSTANTS
    Players,        \* PlayerIds
    MaxVersion,     \* bound: state changes of one player
    QueueCapacity,  \* PlayerPersistenceServiceConfig::queue_capacity
    MaxFailures     \* bound: saves the repository fails

ASSUME PlayersAssumption == IsFiniteSet(Players)
ASSUME BoundsAssumption == /\ MaxVersion \in Nat
                           /\ QueueCapacity \in Nat \ {0}
                           /\ MaxFailures \in Nat

VARIABLES
    orderly,        \* stop() is reached through joinActorRuntime only; never changes
    live,           \* version of the PlayerActor's own state
    client,         \* what the PlayerActor of each player is doing
    snapshots,      \* _snapshots, the bounded queue
    pending,        \* _pending, 0 when the player has no entry
    finalRequests,  \* _final_requests, the versions in each deque
    inFlight,       \* _in_flight, Idle when the player has no entry
    starts,         \* the vector selectSaves returned, not yet started
    pc,             \* where the service thread is in run()
    stopPhase,      \* the service thread left the first loop of run()
    stopping,       \* _stopping
    flushRequested, \* _flush_requested
    main,           \* the thread in GameServer::joinActorRuntime
    completing,     \* final saves out of _in_flight whose completion has still to run
    jobs,           \* saves the repository accepted and has not completed
    repo,           \* the version the database holds
    failures,       \* number of failed saves so far
    accepted,       \* newest version handed over successfully
    asked,          \* final saves accepted
    answered        \* final saves whose completion ran

actorVars  == <<live, client, accepted, asked>>
saveVars   == <<pending, finalRequests, inFlight, completing>>
threadVars == <<starts, pc, stopPhase>>
mainVars   == <<main, stopping, flushRequested>>
repoVars   == <<jobs, repo, failures, answered>>
workVars   == <<snapshots, actorVars, saveVars, threadVars, mainVars, repoVars>>
vars == <<orderly, workVars>>

Versions == 0 .. MaxVersion
InFlightSaves == [version : Versions, kind : {"none", "snapshot", "final"}]
Idle == [version |-> 0, kind |-> "none"]
Saves == [player : Players, version : Versions]

(* A player's PlayerActor is active, waits for its final save, left after   *)
(* it succeeded, or threw because the save was refused.                     *)
ClientStates == {"active", "saving", "closed", "failed"}
(* The result a completion still has to be given: by a repository thread,   *)
(* after a save that succeeded or failed, or by the service thread itself,  *)
(* after the repository refused the job.                                    *)
CompletingStates == {"none", "saved", "failed", "refused"}
ThreadSteps == {"wait", "drain", "select", "start", "check", "loop",
                "stopCheck", "stopWait", "finish", "done"}
MainSteps == {"serving", "flushing", "flushed", "closing", "joining", "done"}

Init ==
    /\ orderly \in BOOLEAN
    /\ live = [p \in Players |-> 0]
    /\ client = [p \in Players |-> "active"]
    /\ snapshots = << >>
    /\ pending = [p \in Players |-> 0]
    /\ finalRequests = [p \in Players |-> << >>]
    /\ inFlight = [p \in Players |-> Idle]
    /\ completing = [p \in Players |-> "none"]
    /\ starts = {}
    /\ pc = "wait"
    /\ stopPhase = FALSE
    /\ stopping = FALSE
    /\ flushRequested = FALSE
    /\ main = "serving"
    /\ jobs = {}
    /\ repo = [p \in Players |-> 0]
    /\ failures = 0
    /\ accepted = [p \in Players |-> 0]
    /\ asked = [p \in Players |-> 0]
    /\ answered = [p \in Players |-> 0]

IsIdle(p) == inFlight[p].kind = "none"

(* Mutant: saves under way are not waited for. *)
FlushIgnoresInFlight == snapshots = << >> /\ \A p \in Players : finalRequests[p] = << >>

IsFlushCompleteLocked ==
    /\ snapshots = << >>
    /\ \A p \in Players : finalRequests[p] = << >> /\ IsIdle(p)

-----------------------------------------------------------------------------
(* The PlayerActors.  In GameServer they have all ended when join() returns *)
(* and joinActorRuntime goes on to flush and stop the service.              *)

ClientsRun == orderly => main = "serving"

QueueClosed == main \in {"joining", "done"}

(* BoundedQueue::tryPush.  Mutant: one record too many is taken. *)
HasRoomForOneMore == Len(snapshots) <= QueueCapacity
HasRoom == Len(snapshots) < QueueCapacity

(* tryEnqueue accepts the record of a state change. *)
TryEnqueue(p) ==
    /\ ClientsRun /\ client[p] = "active" /\ live[p] < MaxVersion
    /\ ~QueueClosed /\ HasRoom
    /\ live' = [live EXCEPT ![p] = @ + 1]
    /\ snapshots' = Append(snapshots, [player |-> p, version |-> live[p] + 1])
    /\ accepted' = [accepted EXCEPT ![p] = live[p] + 1]
    /\ UNCHANGED <<client, asked, saveVars, threadVars, mainVars, repoVars>>

(* tryEnqueue answers false: the actor keeps the change dirty.  The service *)
(* counts it and nothing else.                                              *)
RejectEnqueue(p) ==
    /\ ClientsRun /\ client[p] = "active" /\ live[p] < MaxVersion
    /\ QueueClosed \/ ~HasRoom
    /\ live' = [live EXCEPT ![p] = @ + 1]
    /\ UNCHANGED <<snapshots, client, accepted, asked, saveVars, threadVars, mainVars,
                   repoVars>>

(* asyncSave: the final snapshot of a player whose connection closed. *)
AsyncSave(p) ==
    /\ ClientsRun /\ client[p] = "active" /\ live[p] < MaxVersion
    /\ ~stopping
    /\ live' = [live EXCEPT ![p] = @ + 1]
    /\ client' = [client EXCEPT ![p] = "saving"]
    /\ finalRequests' = [finalRequests EXCEPT ![p] = Append(@, live[p] + 1)]
    /\ accepted' = [accepted EXCEPT ![p] = live[p] + 1]
    /\ asked' = [asked EXCEPT ![p] = @ + 1]
    /\ UNCHANGED <<snapshots, pending, inFlight, completing, threadVars, mainVars, repoVars>>

(* asyncSave after stop(): the completion runs at once with Unavailable and *)
(* PlayerActorBinding::advance throws.                                      *)
RefuseSave(p) ==
    /\ ClientsRun /\ client[p] = "active" /\ live[p] < MaxVersion
    /\ stopping
    /\ live' = [live EXCEPT ![p] = @ + 1]
    /\ client' = [client EXCEPT ![p] = "failed"]
    /\ UNCHANGED <<snapshots, accepted, asked, saveVars, threadVars, mainVars, repoVars>>

(* The player comes back after the final save: a new actor loads the record.*)
Reactivate(p) ==
    /\ ClientsRun /\ client[p] = "closed"
    /\ client' = [client EXCEPT ![p] = "active"]
    /\ UNCHANGED <<snapshots, live, accepted, asked, saveVars, threadVars, mainVars,
                   repoVars>>

-----------------------------------------------------------------------------
(* The service thread. *)

(* wait_for returns, on its predicate or on the flush interval. *)
WakeUp ==
    /\ pc = "wait"
    /\ pc' = "drain"
    /\ UNCHANGED <<snapshots, actorVars, saveVars, starts, stopPhase, mainVars,
                   repoVars>>

DrainSnapshot ==
    /\ pc = "drain" /\ snapshots # << >>
    /\ pending' = [pending EXCEPT ![Head(snapshots).player] = Head(snapshots).version]
    /\ snapshots' = Tail(snapshots)
    /\ UNCHANGED <<actorVars, finalRequests, inFlight, completing, threadVars, mainVars,
                   repoVars>>

DrainEnd ==
    /\ pc = "drain" /\ snapshots = << >>
    /\ pc' = "select"
    /\ UNCHANGED <<snapshots, actorVars, saveVars, starts, stopPhase, mainVars,
                   repoVars>>

(* selectSaves: first the final request at the front of every deque whose   *)
(* player is not being saved, then every pending snapshot whose player has  *)
(* neither a save under way nor a final request left.                       *)
SelectableFinals == {p \in Players : finalRequests[p] # << >> /\ IsIdle(p)}

(* Mutant: a save under way does not hold the next one back. *)
SnapshotsAlongside == {p \in Players : pending[p] # 0 /\ finalRequests[p] = << >>}

SelectableSnapshots ==
    {p \in Players : /\ pending[p] # 0
                     /\ IsIdle(p)
                     /\ finalRequests[p] = << >>}

SelectSaves ==
    /\ pc = "select"
    /\ finalRequests' = [p \in Players |-> IF p \in SelectableFinals
                                           THEN Tail(finalRequests[p])
                                           ELSE finalRequests[p]]
    /\ inFlight' = [p \in Players |->
                      IF p \in SelectableFinals
                      THEN [version |-> Head(finalRequests[p]), kind |-> "final"]
                      ELSE IF p \in SelectableSnapshots
                           THEN [version |-> pending[p], kind |-> "snapshot"]
                           ELSE inFlight[p]]
    /\ pending' = [p \in Players |->
                      IF p \in SelectableFinals \cup SelectableSnapshots
                      THEN 0 ELSE pending[p]]
    /\ starts' = {[player |-> p, version |-> inFlight'[p].version] :
                      p \in SelectableFinals \cup SelectableSnapshots}
    /\ pc' = "start"
    /\ UNCHANGED <<snapshots, actorVars, completing, stopPhase, mainVars, repoVars>>

(* The critical section of completeSave(player, result), for each outcome.   *)
(* A failed snapshot goes back to _pending unless a final request of that   *)
(* player is waiting.  The completion of a final save is taken out and runs *)
(* only after the mutex is released.                                        *)
SaveSucceeded(p) ==
    /\ inFlight' = [inFlight EXCEPT ![p] = Idle]
    /\ completing' = IF inFlight[p].kind = "final" THEN [completing EXCEPT ![p] = "saved"]
                     ELSE completing
    /\ pending' = pending
    /\ failures' = failures

(* Mutant: the completion of a failed final save is dropped. *)
SaveFailedSilently(p, result) ==
    /\ failures < MaxFailures
    /\ failures' = failures + 1
    /\ inFlight' = [inFlight EXCEPT ![p] = Idle]
    /\ UNCHANGED <<pending, completing>>

SaveFailed(p, result) ==
    /\ failures < MaxFailures
    /\ failures' = failures + 1
    /\ inFlight' = [inFlight EXCEPT ![p] = Idle]
    /\ completing' = IF inFlight[p].kind = "final" THEN [completing EXCEPT ![p] = result]
                     ELSE completing
    /\ pending' = IF inFlight[p].kind = "snapshot" /\ finalRequests[p] = << >>
                  THEN [pending EXCEPT ![p] = inFlight[p].version]
                  ELSE pending

(* notifyCompletion, after the unlock: the PlayerActor is answered.  It     *)
(* leaves after a success and throws after a failure.                       *)
NotifyCompletion(p) ==
    /\ completing[p] # "none"
    /\ completing' = [completing EXCEPT ![p] = "none"]
    /\ answered' = [answered EXCEPT ![p] = @ + 1]
    /\ client' = [client EXCEPT ![p] = IF completing[p] = "saved" THEN "closed" ELSE "failed"]
    /\ UNCHANGED <<snapshots, live, accepted, asked, pending, finalRequests, inFlight,
                   threadVars, mainVars, jobs, repo, failures>>

(* The service thread is not inside a completion it runs itself. *)
BetweenSaves == pc = "start" /\ \A p \in Players : completing[p] # "refused"

(* startSave: the repository accepts the job ... *)
StartSave(s) ==
    /\ BetweenSaves /\ s \in starts
    /\ starts' = starts \ {s}
    /\ jobs' = jobs \cup {s}
    /\ UNCHANGED <<snapshots, actorVars, saveVars, pc, stopPhase, mainVars, repo,
                   failures, answered>>

(* ... or refuses it (queue full, or an exception) and completes it inline. *)
StartSaveRefused(s) ==
    /\ BetweenSaves /\ s \in starts
    /\ starts' = starts \ {s}
    /\ SaveFailed(s.player, "refused")
    /\ UNCHANGED <<snapshots, actorVars, finalRequests, pc, stopPhase, mainVars, jobs, repo,
                   answered>>

StartEnd ==
    /\ BetweenSaves /\ starts = {}
    /\ pc' = "check"
    /\ UNCHANGED <<snapshots, actorVars, saveVars, starts, stopPhase, mainVars,
                   repoVars>>

(* The end of processOnce. *)
CheckFlush ==
    /\ pc = "check"
    /\ flushRequested' = (flushRequested /\ ~IsFlushCompleteLocked)
    /\ pc' = IF stopPhase THEN "stopCheck" ELSE "loop"
    /\ UNCHANGED <<snapshots, actorVars, saveVars, starts, stopPhase, main, stopping,
                   repoVars>>

(* Mutant: the loop does not look at _stopping. *)
LoopForever ==
    /\ pc = "loop"
    /\ flushRequested' = (flushRequested /\ ~IsFlushCompleteLocked)
    /\ pc' = "wait"
    /\ UNCHANGED <<snapshots, actorVars, saveVars, starts, stopPhase, main, stopping,
                   repoVars>>

(* The end of the first loop's body and the test of its condition. *)
LoopTest ==
    /\ pc = "loop"
    /\ flushRequested' = (flushRequested /\ ~IsFlushCompleteLocked)
    /\ pc' = IF stopping THEN "drain" ELSE "wait"
    /\ stopPhase' = stopping
    /\ UNCHANGED <<snapshots, actorVars, saveVars, starts, main, stopping, repoVars>>

(* Mutant: final requests that wait behind a save are forgotten. *)
StopWithoutFinals ==
    /\ pc = "stopCheck"
    /\ IF \A p \in Players : IsIdle(p)
       THEN pc' = "finish" /\ pending' = [p \in Players |-> 0]
       ELSE pc' = "stopWait" /\ pending' = pending
    /\ UNCHANGED <<snapshots, actorVars, finalRequests, inFlight, completing, starts,
                   stopPhase, mainVars, repoVars>>

(* The second loop, under stop_lock: leave, go round again, or wait. *)
StopCheck ==
    /\ pc = "stopCheck"
    /\ IF \A p \in Players : IsIdle(p)
       THEN IF \A p \in Players : finalRequests[p] = << >>
            THEN pc' = "finish" /\ pending' = [p \in Players |-> 0]
            ELSE pc' = "drain" /\ pending' = pending
       ELSE pc' = "stopWait" /\ pending' = pending
    /\ UNCHANGED <<snapshots, actorVars, finalRequests, inFlight, completing, starts,
                   stopPhase, mainVars, repoVars>>

StopWaitEnds ==
    /\ pc = "stopWait"
    /\ \A p \in Players : IsIdle(p)
    /\ pc' = "drain"
    /\ UNCHANGED <<snapshots, actorVars, saveVars, starts, stopPhase, mainVars,
                   repoVars>>

Finish ==
    /\ pc = "finish"
    /\ pc' = "done"
    /\ flushRequested' = FALSE
    /\ UNCHANGED <<snapshots, actorVars, saveVars, starts, stopPhase, main, stopping,
                   repoVars>>

-----------------------------------------------------------------------------
(* The repository's workers.  A failed save may still have been committed.  *)

RepositorySaves(j) ==
    /\ j \in jobs
    /\ jobs' = jobs \ {j}
    /\ repo' = [repo EXCEPT ![j.player] = j.version]
    /\ SaveSucceeded(j.player)
    /\ UNCHANGED <<snapshots, actorVars, finalRequests, threadVars, mainVars, answered>>

RepositoryFails(j) ==
    /\ j \in jobs
    /\ jobs' = jobs \ {j}
    /\ \/ repo' = repo
       \/ repo' = [repo EXCEPT ![j.player] = j.version]
    /\ SaveFailed(j.player, "failed")
    /\ UNCHANGED <<snapshots, actorVars, finalRequests, threadVars, mainVars, answered>>

-----------------------------------------------------------------------------
(* GameServer::joinActorRuntime: flush(), then stop(). *)

Flush ==
    /\ main = "serving"
    /\ main' = "flushing"
    /\ flushRequested' = TRUE
    /\ UNCHANGED <<snapshots, actorVars, saveVars, threadVars, stopping, repoVars>>

FlushReturns ==
    /\ main = "flushing"
    /\ IsFlushCompleteLocked /\ ~flushRequested
    /\ main' = "flushed"
    /\ UNCHANGED <<snapshots, actorVars, saveVars, threadVars, stopping, flushRequested,
                   repoVars>>

Stop ==
    /\ main = "flushed" \/ (~orderly /\ main = "serving")
    /\ main' = "closing"
    /\ stopping' = TRUE
    /\ UNCHANGED <<snapshots, actorVars, saveVars, threadVars, flushRequested, repoVars>>

CloseQueue ==
    /\ main = "closing"
    /\ main' = "joining"
    /\ UNCHANGED <<snapshots, actorVars, saveVars, threadVars, stopping, flushRequested,
                   repoVars>>

StopReturns ==
    /\ main = "joining" /\ pc = "done"
    /\ main' = "done"
    /\ UNCHANGED <<snapshots, actorVars, saveVars, threadVars, stopping, flushRequested,
                   repoVars>>

-----------------------------------------------------------------------------

ServiceThread ==
    \/ WakeUp \/ DrainSnapshot \/ DrainEnd \/ SelectSaves
    \/ \E s \in starts : StartSave(s) \/ StartSaveRefused(s)
    \/ StartEnd \/ CheckFlush \/ LoopTest \/ StopCheck \/ StopWaitEnds \/ Finish

Repository == \E j \in jobs : RepositorySaves(j) \/ RepositoryFails(j)

MainThread == Flush \/ FlushReturns \/ Stop \/ CloseQueue \/ StopReturns

Clients == \E p \in Players : \/ TryEnqueue(p) \/ RejectEnqueue(p)
                              \/ AsyncSave(p) \/ RefuseSave(p) \/ Reactivate(p)

Terminated == main = "done" /\ UNCHANGED vars

(* Run by a repository thread, or inline by the service thread. *)
Completions == \E p \in Players : NotifyCompletion(p)

Next == /\ UNCHANGED orderly
        /\ \/ ServiceThread \/ Repository \/ Completions \/ MainThread \/ Clients
           \/ Terminated

Spec == Init /\ [][Next]_vars

(* The service thread runs whenever it can; the repository completes every  *)
(* job it accepted, and the thread that completes a save runs its           *)
(* completion; joinActorRuntime, once started, goes on when it can.         *)
Fairness ==
    /\ WF_workVars(ServiceThread)
    /\ WF_workVars(Repository)
    /\ \A p \in Players : WF_workVars(NotifyCompletion(p))
    /\ WF_workVars(main # "serving" /\ MainThread)
FairSpec == Spec /\ Fairness

-----------------------------------------------------------------------------
(* Every variable stays in its domain, and the queue of snapshots within    *)
(* its capacity (BoundedQueue).                                             *)
TypeOK ==
    /\ orderly \in BOOLEAN
    /\ live \in [Players -> Versions]
    /\ client \in [Players -> ClientStates]
    /\ snapshots \in Seq(Saves) /\ Len(snapshots) <= QueueCapacity
    /\ pending \in [Players -> Versions]
    /\ finalRequests \in [Players -> Seq(Versions)]
    /\ inFlight \in [Players -> InFlightSaves]
    /\ completing \in [Players -> CompletingStates]
    /\ starts \in SUBSET Saves
    /\ pc \in ThreadSteps
    /\ stopPhase \in BOOLEAN
    /\ stopping \in BOOLEAN
    /\ flushRequested \in BOOLEAN
    /\ main \in MainSteps
    /\ jobs \in SUBSET Saves
    /\ repo \in [Players -> Versions]
    /\ failures \in Nat
    /\ accepted \in [Players -> Versions]
    /\ asked \in [Players -> Nat]
    /\ answered \in [Players -> Nat]

(* Saves of one player never run side by side: whatever was handed to the   *)
(* repository, or is about to be, is the one save _in_flight records.       *)
(* (README 6.3: in_flight[player] is "0 or 1" save; selectSaves skips a     *)
(* player that is in _in_flight.)                                           *)
OneSavePerPlayer ==
    /\ jobs \cap starts = {}
    /\ \A s, t \in jobs \cup starts : s.player = t.player => s = t
    /\ \A s \in jobs \cup starts : inFlight[s.player].version = s.version

(* The completion of an accepted final save runs at most once, and once the *)
(* service thread has ended no final save is forgotten: its completion has  *)
(* run, or a repository thread has taken it out of _in_flight and is about  *)
(* to run it.  stop() may return in between: completeSave unlocks before it *)
(* calls the completion (run's second loop, completeSave).                  *)
FinalAnsweredOnce ==
    \A p \in Players :
        /\ answered[p] <= asked[p]
        /\ pc = "done" => \/ answered[p] = asked[p]
                          \/ answered[p] + 1 = asked[p] /\ completing[p] \in {"saved", "failed"}

(* A player that has made no final save yet never has its database record   *)
(* replaced by an older one, failed saves and retries included              *)
(* (drainSnapshots, selectSaves and completeSave keep the order).           *)
BackgroundSavesInOrder ==
    [][\A p \in Players : asked[p] = 0 => repo'[p] >= repo[p]]_vars

(* joinActorRuntime flushes and then stops: if no save failed, the newest   *)
(* accepted snapshot of a player without a final save is in the database    *)
(* when stop() returns (flush, isFlushCompleteLocked, run's second loop).   *)
OrderlyStopSavesAll ==
    orderly /\ main = "done" /\ failures = 0 =>
        \A p \in Players : asked[p] = 0 => repo[p] = accepted[p]

(* A PlayerActor that waits for its final save is always answered.          *)
FinalSaveAnswered ==
    \A p \in Players : client[p] = "saving" ~> client[p] # "saving"

(* joinActorRuntime ends: flush() and stop() return when the repository     *)
(* stops failing saves.                                                     *)
ShutdownEnds == (main = "flushing") ~> (main = "done")

(* README 6.3: pending[player] is the newest snapshot not yet started.      *)
(* Stated for players without a final save and with nothing in the queue.   *)
PendingIsNewest ==
    \A p \in Players :
        /\ pending[p] # 0 /\ asked[p] = 0
        /\ \A i \in DOMAIN snapshots : snapshots[i].player # p
        => pending[p] = accepted[p]

(* README 6.3: a final snapshot replaces the earlier waiting values, so the *)
(* database keeps it until the player comes back.                           *)
FinalSnapshotStands == \A p \in Players : client[p] = "closed" => repo[p] = live[p]
=============================================================================
