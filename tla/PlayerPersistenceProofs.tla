---------------------- MODULE PlayerPersistenceProofs ----------------------
(***************************************************************************)
(* Proofs about PlayerPersistence, for every set of players, every queue    *)
(* capacity and any number of state changes and failures.                   *)
(***************************************************************************)
EXTENDS PlayerPersistence, TLAPS

(* What the service thread is doing says which parts of its state are       *)
(* settled.                                                                 *)
ThreadInv ==
    /\ starts # {} => pc = "start"
    /\ stopPhase => stopping
    /\ pc \in {"stopCheck", "stopWait", "finish", "done"} => stopPhase
    /\ pc \in {"finish", "done"} =>
         \A p \in Players : finalRequests[p] = << >> /\ IsIdle(p)
    /\ \A p \in Players : completing[p] = "refused" => pc = "start"

(* A save handed to the repository, or about to be, is the one _in_flight   *)
(* records.                                                                 *)
SaveInv ==
    /\ jobs \cap starts = {}
    /\ \A s \in jobs \cup starts : /\ inFlight[s.player].kind # "none"
                                  /\ inFlight[s.player].version = s.version

IndInv == TypeOK /\ ThreadInv /\ SaveInv

(* The value of a player without a save under way has the right type.        *)
LEMMA IdleType == Idle \in InFlightSaves /\ 0 \in Versions
  BY BoundsAssumption DEF Idle, InFlightSaves, Versions

(* The invariant holds in the initial states: the service is constructed    *)
(* with empty queues and nothing under way.                                  *)
LEMMA InitIndInv == Init => IndInv
<1> SUFFICES ASSUME Init PROVE IndInv
  OBVIOUS
<1>1. TypeOK
  <2>1. /\ live \in [Players -> Versions] /\ client \in [Players -> ClientStates]
        /\ pending \in [Players -> Versions] /\ repo \in [Players -> Versions]
        /\ accepted \in [Players -> Versions] /\ inFlight \in [Players -> InFlightSaves]
        /\ asked \in [Players -> Nat] /\ answered \in [Players -> Nat]
        /\ completing \in [Players -> CompletingStates]
    BY IdleType DEF Init, ClientStates, CompletingStates
  <2>2. /\ snapshots \in Seq(Saves) /\ finalRequests \in [Players -> Seq(Versions)]
        /\ Len(snapshots) <= QueueCapacity
    BY BoundsAssumption DEF Init
  <2> QED BY Zenon, <2>1, <2>2 DEF Init, TypeOK, ThreadSteps, MainSteps
<1>2. ThreadInv
  BY DEF Init, ThreadInv
<1>3. SaveInv
  BY DEF Init, SaveInv
<1> QED BY <1>1, <1>2, <1>3 DEF IndInv

(* The type invariant is inductive by itself. *)
LEMMA TypeStep == TypeOK /\ [Next]_vars => TypeOK'
<1> SUFFICES ASSUME TypeOK, [Next]_vars, orderly' = orderly PROVE TypeOK'
  BY DEF Next, vars
<1> USE DEF TypeOK, actorVars, saveVars, threadVars, mainVars, repoVars
<1>0. \A p \in Players : live[p] < MaxVersion =>
         live[p] + 1 \in Versions /\ [player |-> p, version |-> live[p] + 1] \in Saves
  BY BoundsAssumption DEF Versions, Saves
<1>1. ASSUME NEW p \in Players, TryEnqueue(p) PROVE TypeOK'
  <2> DEFINE new == [player |-> p, version |-> live[p] + 1]
  <2>1. snapshots' = Append(snapshots, new) /\ new \in Saves /\ HasRoom
    BY <1>0, <1>1 DEF TryEnqueue
  <2>2. snapshots' \in Seq(Saves) /\ Len(snapshots') = Len(snapshots) + 1
    BY <2>1
  <2>3. Len(snapshots') <= QueueCapacity
    BY <2>1, <2>2, BoundsAssumption DEF HasRoom
  <2> QED BY <1>0, <1>1, <2>2, <2>3 DEF TryEnqueue
<1>2. ASSUME NEW p \in Players, RejectEnqueue(p) PROVE TypeOK'
  BY Zenon, <1>0, <1>2 DEF RejectEnqueue
<1>3. ASSUME NEW p \in Players, AsyncSave(p) PROVE TypeOK'
  <2>1. Append(finalRequests[p], live[p] + 1) \in Seq(Versions)
    <3>1. live[p] + 1 \in Versions /\ finalRequests[p] \in Seq(Versions)
      BY Zenon, <1>0, <1>3 DEF AsyncSave
    <3> HIDE DEF TypeOK
    <3> QED BY <3>1
  <2>2. finalRequests' \in [Players -> Seq(Versions)]
    BY <1>3, <2>1 DEF AsyncSave
  <2>3. asked' \in [Players -> Nat] /\ client' \in [Players -> ClientStates]
    BY <1>3 DEF AsyncSave, ClientStates
  <2> QED BY <1>0, <1>3, <2>2, <2>3 DEF AsyncSave
<1>4. ASSUME NEW p \in Players, RefuseSave(p) PROVE TypeOK'
  BY Zenon, <1>0, <1>4 DEF RefuseSave, ClientStates
<1>5. ASSUME NEW p \in Players, Reactivate(p) PROVE TypeOK'
  BY <1>5 DEF Reactivate, ClientStates
<1>6. CASE WakeUp \/ DrainEnd \/ StartEnd \/ CheckFlush \/ LoopTest \/ StopWaitEnds \/ Finish
  BY Zenon, <1>6 DEF WakeUp, DrainEnd, StartEnd, CheckFlush, LoopTest, StopWaitEnds, Finish,
              ThreadSteps
<1>7. CASE DrainSnapshot
  <2>1. Head(snapshots) \in Saves /\ Tail(snapshots) \in Seq(Saves)
    BY <1>7 DEF DrainSnapshot
  <2>2. Head(snapshots).version \in Versions
    BY <2>1 DEF Saves
  <2>3. Len(Tail(snapshots)) <= QueueCapacity
    BY <1>7, BoundsAssumption DEF DrainSnapshot
  <2> QED BY Zenon, <2>1, <2>2, <2>3, <1>7 DEF DrainSnapshot
<1>8. CASE SelectSaves
  <2>1. finalRequests' \in [Players -> Seq(Versions)] /\ pending' \in [Players -> Versions]
    <3>1. \A p \in SelectableFinals : Tail(finalRequests[p]) \in Seq(Versions)
      BY DEF SelectableFinals
    <3> QED BY <1>8, <3>1, IdleType DEF SelectSaves
  <2>2. inFlight' \in [Players -> InFlightSaves]
    <3>1. \A p \in SelectableFinals : Head(finalRequests[p]) \in Versions
      BY DEF SelectableFinals
    <3> QED BY <1>8, <3>1 DEF SelectSaves, InFlightSaves
  <2>3. \A p \in Players : inFlight'[p].version \in Versions
    BY <2>2 DEF InFlightSaves
  <2>4. starts' \in SUBSET Saves
    <3>1. \A p \in Players : [player |-> p, version |-> inFlight'[p].version] \in Saves
      BY <2>3 DEF Saves
    <3> QED BY Zenon, <1>8, <3>1 DEF SelectSaves, SelectableFinals, SelectableSnapshots
  <2>5. pc' \in ThreadSteps
    BY <1>8 DEF SelectSaves, ThreadSteps
  <2> QED BY Zenon, <1>8, <2>1, <2>2, <2>4, <2>5 DEF SelectSaves
<1>9. ASSUME NEW s \in starts, StartSave(s) PROVE TypeOK'
  BY <1>9 DEF StartSave
<1>10. ASSUME NEW p \in Players, NEW result \in CompletingStates, SaveFailed(p, result)
       PROVE  /\ inFlight' \in [Players -> InFlightSaves] /\ pending' \in [Players -> Versions]
              /\ failures' \in Nat /\ completing' \in [Players -> CompletingStates]
  BY <1>10, IdleType DEF SaveFailed, InFlightSaves
<1>11. ASSUME NEW s \in starts, StartSaveRefused(s) PROVE TypeOK'
  <2>1. s.player \in Players
    BY DEF Saves
  <2> QED BY <2>1, <1>10, <1>11 DEF StartSaveRefused, CompletingStates
<1>12. CASE StopCheck
  BY <1>12, IdleType DEF StopCheck, ThreadSteps
<1>13. ASSUME NEW j \in jobs, RepositorySaves(j) PROVE TypeOK'
  <2>1. j.player \in Players /\ j.version \in Versions
    BY DEF Saves
  <2> QED BY <2>1, <1>13, IdleType DEF RepositorySaves, SaveSucceeded, CompletingStates
<1>14. ASSUME NEW j \in jobs, RepositoryFails(j) PROVE TypeOK'
  <2>1. j.player \in Players /\ j.version \in Versions
    BY DEF Saves
  <2> QED BY Zenon, <2>1, <1>10, <1>14 DEF RepositoryFails, CompletingStates
<1>15. CASE Flush \/ FlushReturns \/ Stop \/ CloseQueue \/ StopReturns
  <2>1. CASE Flush
    BY <2>1 DEF Flush, MainSteps
  <2>2. CASE FlushReturns
    BY <2>2 DEF FlushReturns, MainSteps
  <2>3. CASE Stop
    BY <2>3 DEF Stop, MainSteps
  <2>4. CASE CloseQueue
    BY <2>4 DEF CloseQueue, MainSteps
  <2>5. CASE StopReturns
    BY <2>5 DEF StopReturns, MainSteps
  <2> QED BY <1>15, <2>1, <2>2, <2>3, <2>4, <2>5
<1>16. CASE UNCHANGED vars
  BY <1>16 DEF vars, workVars
<1>17. ASSUME NEW p \in Players, NotifyCompletion(p) PROVE TypeOK'
  BY <1>17 DEF NotifyCompletion, ClientStates, CompletingStates
<1> HIDE DEF TypeOK
<1> QED
  BY <1>1, <1>2, <1>3, <1>4, <1>5, <1>6, <1>7, <1>8, <1>9, <1>11, <1>12, <1>13, <1>14, <1>15,
     <1>16, <1>17
  DEF Next, ServiceThread, Repository, Completions, MainThread, Clients, Terminated

(* Saves of one player are one save. *)
LEMMA OneEntry ==
    TypeOK /\ SaveInv => \A s, t \in jobs \cup starts : s.player = t.player => s = t
<1> SUFFICES ASSUME TypeOK, SaveInv, NEW s \in jobs \cup starts, NEW t \in jobs \cup starts,
                    s.player = t.player
             PROVE  s = t
  OBVIOUS
<1>1. s \in Saves /\ t \in Saves
  BY DEF TypeOK
<1>2. s.version = t.version
  BY DEF SaveInv
<1> QED BY <1>1, <1>2 DEF Saves

(* Every step keeps what the position of the service thread says of starts   *)
(* and of the stop phase.                                                    *)
LEMMA ThreadStep == IndInv /\ [Next]_vars => ThreadInv'
<1> SUFFICES ASSUME IndInv, [Next]_vars PROVE ThreadInv'
  OBVIOUS
<1> USE DEF ThreadInv, IsIdle, actorVars, saveVars, threadVars, mainVars, repoVars
<1>0. TypeOK /\ ThreadInv
  BY DEF IndInv
<1>1. ASSUME NEW p \in Players, TryEnqueue(p) \/ RejectEnqueue(p) \/ RefuseSave(p) \/ Reactivate(p)
      PROVE  ThreadInv'
  BY <1>0, <1>1 DEF TryEnqueue, RejectEnqueue, RefuseSave, Reactivate
<1>2. ASSUME NEW p \in Players, AsyncSave(p) PROVE ThreadInv'
  BY <1>0, <1>2 DEF AsyncSave
<1>3. CASE WakeUp \/ DrainSnapshot \/ DrainEnd \/ StartEnd \/ StopWaitEnds
  BY <1>0, <1>3 DEF WakeUp, DrainSnapshot, DrainEnd, StartEnd, BetweenSaves, StopWaitEnds
<1>4. CASE CheckFlush \/ LoopTest \/ Finish
  BY <1>0, <1>4 DEF CheckFlush, LoopTest, Finish, TypeOK
<1>5. CASE SelectSaves
  BY <1>0, <1>5 DEF SelectSaves
<1>6. CASE StopCheck
  BY <1>0, <1>6 DEF StopCheck
<1>7. ASSUME NEW s \in starts, StartSave(s) PROVE ThreadInv'
  BY <1>0, <1>7 DEF StartSave
<1>8. ASSUME NEW p \in Players, NEW result, SaveSucceeded(p) \/ SaveFailed(p, result)
      PROVE  \A q \in Players :
                /\ IsIdle(q) => IsIdle(q)'
                /\ completing'[q] = "refused" => completing[q] = "refused" \/ result = "refused"
  BY <1>0, <1>8 DEF SaveSucceeded, SaveFailed, TypeOK, Idle
<1>9. ASSUME NEW s \in starts, StartSaveRefused(s) PROVE ThreadInv'
  <2>1. s.player \in Players
    BY <1>0 DEF TypeOK, Saves
  <2> QED BY <1>0, <1>8, <1>9, <2>1 DEF StartSaveRefused, BetweenSaves
<1>10. ASSUME NEW j \in jobs, RepositorySaves(j) \/ RepositoryFails(j) PROVE ThreadInv'
  <2>1. j.player \in Players
    BY <1>0 DEF TypeOK, Saves
  <2>2. SaveSucceeded(j.player) \/ SaveFailed(j.player, "failed")
    BY <1>10 DEF RepositorySaves, RepositoryFails
  <2>3. \A q \in Players : /\ IsIdle(q) => IsIdle(q)'
                           /\ completing'[q] = "refused" => completing[q] = "refused"
    BY <1>8, <2>1, <2>2
  <2>4. UNCHANGED <<starts, pc, stopPhase, stopping, finalRequests>>
    BY <1>10 DEF RepositorySaves, RepositoryFails
  <2> QED BY <1>0, <2>3, <2>4
<1>11. CASE MainThread
  BY <1>0, <1>11 DEF MainThread, Flush, FlushReturns, Stop, CloseQueue, StopReturns
<1>12. CASE UNCHANGED vars
  BY <1>0, <1>12 DEF vars, workVars
<1>13. ASSUME NEW p \in Players, NotifyCompletion(p) PROVE ThreadInv'
  BY <1>0, <1>13 DEF NotifyCompletion, TypeOK
<1> HIDE DEF ThreadInv
<1> QED
  BY <1>1, <1>2, <1>3, <1>4, <1>5, <1>6, <1>7, <1>9, <1>10, <1>11, <1>12, <1>13
  DEF Next, ServiceThread, Repository, Completions, Clients, Terminated

(* Every step keeps the saves handed to the repository, or about to be, in    *)
(* one-to-one correspondence with the _in_flight entries.                    *)
LEMMA SaveStep == IndInv /\ [Next]_vars => SaveInv'
<1> SUFFICES ASSUME IndInv, [Next]_vars PROVE SaveInv'
  OBVIOUS
<1> USE DEF actorVars, saveVars, threadVars, mainVars, repoVars
<1>0. TypeOK /\ ThreadInv /\ SaveInv
  BY DEF IndInv
<1>1. ASSUME UNCHANGED <<jobs, starts, inFlight>> PROVE SaveInv'
  BY Zenon, <1>0, <1>1 DEF SaveInv
<1>2. CASE Clients \/ Completions \/ MainThread \/ WakeUp \/ DrainSnapshot \/ DrainEnd \/ StartEnd
           \/ CheckFlush \/ LoopTest \/ StopCheck \/ StopWaitEnds \/ Finish
  BY Zenon, <1>1, <1>2 DEF Clients, TryEnqueue, RejectEnqueue, AsyncSave, RefuseSave, Reactivate,
     MainThread, Flush, FlushReturns, Stop, CloseQueue, StopReturns, WakeUp, DrainSnapshot,
     DrainEnd, StartEnd, CheckFlush, LoopTest, StopCheck, StopWaitEnds, Finish, Completions,
     NotifyCompletion
<1>3. CASE SelectSaves
  <2> DEFINE selected == SelectableFinals \cup SelectableSnapshots
  <2>1. starts = {}
    <3>1. pc = "select"
      BY <1>3 DEF SelectSaves
    <3> QED BY <1>0, <3>1 DEF ThreadInv
  <2>2. \A p \in selected : p \in Players /\ inFlight[p].kind = "none" /\ inFlight'[p].kind # "none"
    BY Zenon, <1>3 DEF SelectSaves, SelectableFinals, SelectableSnapshots, IsIdle
  <2>3. \A p \in Players \ selected : inFlight'[p] = inFlight[p]
    BY <1>3 DEF SelectSaves
  <2>4. \A s \in jobs : s.player \in Players \ selected
    BY Zenon, <1>0, <2>2 DEF SaveInv, TypeOK, Saves
  <2>5. \A s \in starts' : s.player \in selected /\ inFlight'[s.player].version = s.version
    <3>1. starts' = {[player |-> p, version |-> inFlight'[p].version] : p \in selected}
      BY <1>3 DEF SelectSaves
    <3> QED BY <3>1
  <2>6. jobs' = jobs
    BY <1>3 DEF SelectSaves
  <2>7. \A s \in jobs' : inFlight'[s.player].kind # "none" /\ inFlight'[s.player].version = s.version
    BY <1>0, <2>3, <2>4, <2>6 DEF SaveInv
  <2>8. \A s \in starts' : inFlight'[s.player].kind # "none" /\ inFlight'[s.player].version = s.version
    BY <2>2, <2>5
  <2>9. jobs' \cap starts' = {}
    BY <2>4, <2>5, <2>6
  <2> QED BY <2>7, <2>8, <2>9 DEF SaveInv
<1>4. ASSUME NEW s \in starts, StartSave(s) PROVE SaveInv'
  BY <1>0, <1>4 DEF SaveInv, StartSave
<1>5. ASSUME NEW s \in jobs \cup starts, NEW result,
             SaveSucceeded(s.player) \/ SaveFailed(s.player, result),
             jobs' = jobs \ {s}, starts' = starts \ {s}
      PROVE  SaveInv'
  <2>1. \A t \in (jobs \cup starts) \ {s} : t.player # s.player /\ t.player \in Players
    BY <1>0, OneEntry DEF TypeOK, Saves
  <2>2. \A t \in (jobs \cup starts) \ {s} : inFlight'[t.player] = inFlight[t.player]
    BY <1>0, <1>5, <2>1 DEF SaveSucceeded, SaveFailed, TypeOK
  <2> QED BY <1>0, <1>5, <2>2 DEF SaveInv
<1>6. ASSUME NEW s \in starts, StartSaveRefused(s) PROVE SaveInv'
  <2>1. jobs' = jobs \ {s}
    BY <1>0, <1>6 DEF SaveInv, StartSaveRefused
  <2> QED BY <1>5, <1>6, <2>1 DEF StartSaveRefused
<1>7. ASSUME NEW j \in jobs, RepositorySaves(j) \/ RepositoryFails(j) PROVE SaveInv'
  <2>1. starts' = starts \ {j}
    BY <1>0, <1>7 DEF SaveInv, RepositorySaves, RepositoryFails
  <2> QED BY <1>5, <1>7, <2>1 DEF RepositorySaves, RepositoryFails
<1>8. CASE UNCHANGED vars
  BY <1>1, <1>8 DEF vars, workVars
<1> QED
  BY <1>2, <1>3, <1>4, <1>6, <1>7, <1>8 DEF Next, ServiceThread, Repository, Terminated

(* The inductive invariant holds in every reachable state of the service.    *)
THEOREM Invariance == Spec => []IndInv
<1>1. IndInv /\ [Next]_vars => IndInv'
  BY TypeStep, ThreadStep, SaveStep DEF IndInv
<1> QED BY InitIndInv, <1>1, PTL DEF Spec

(* Every variable of the persistence service stays in its domain. *)
THEOREM TypeCorrect == Spec => []TypeOK
<1>1. IndInv => TypeOK
  BY DEF IndInv
<1> QED BY Invariance, <1>1, PTL

(* Whatever the callers, the repository and the shutdown do, the saves of   *)
(* one player never run side by side.                                       *)
THEOREM SavesDoNotOverlap == Spec => []OneSavePerPlayer
<1>1. IndInv => OneSavePerPlayer
  BY OneEntry DEF IndInv, SaveInv, OneSavePerPlayer
<1> QED BY Invariance, <1>1, PTL
=============================================================================
