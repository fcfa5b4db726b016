---------------------- MODULE PlayerPersistenceFinals -----------------------
(***************************************************************************)
(* The account of the final saves of PlayerPersistence, proved for every   *)
(* value of the constants.                                                 *)
(***************************************************************************)
EXTENDS PlayerPersistenceProofs, TLAPS

(* Every accepted final save waits in its deque, is the save under way, is  *)
(* a completion about to run, or has been answered; and a player has one    *)
(* unanswered final save exactly while its PlayerActor waits for it.        *)
UnderWay(p) == IF inFlight[p].kind = "final" THEN 1 ELSE 0
Completing(p) == IF completing[p] = "none" THEN 0 ELSE 1
Waiting(p) == IF client[p] = "saving" THEN 1 ELSE 0
Accounted(p) ==
    /\ asked[p] = answered[p] + Len(finalRequests[p]) + UnderWay(p) + Completing(p)
    /\ asked[p] = answered[p] + Waiting(p)
FinalInv == \A p \in Players : Accounted(p)

(* The numbers of the account are natural numbers.                           *)
LEMMA AccountType ==
    ASSUME TypeOK, NEW p \in Players
    PROVE  /\ asked[p] \in Nat /\ answered[p] \in Nat /\ Len(finalRequests[p]) \in Nat
           /\ UnderWay(p) \in {0, 1} /\ Completing(p) \in {0, 1} /\ Waiting(p) \in {0, 1}
<1>1. asked[p] \in Nat /\ answered[p] \in Nat /\ Len(finalRequests[p]) \in Nat
  BY DEF TypeOK
<1> QED BY <1>1 DEF UnderWay, Completing, Waiting

(* Every step keeps the account of final saves.                              *)
LEMMA FinalStep == IndInv /\ FinalInv /\ [Next]_vars => FinalInv'
<1> SUFFICES ASSUME IndInv, FinalInv, [Next]_vars, NEW q \in Players
             PROVE  Accounted(q)'
  BY DEF FinalInv
<1> USE DEF actorVars, saveVars, threadVars, mainVars, repoVars
<1>0. TypeOK /\ SaveInv /\ Accounted(q)
  BY DEF IndInv, FinalInv
<1>n. /\ asked[q] \in Nat /\ answered[q] \in Nat /\ Len(finalRequests[q]) \in Nat
      /\ UnderWay(q) \in {0, 1} /\ Completing(q) \in {0, 1} /\ Waiting(q) \in {0, 1}
  BY <1>0, AccountType
<1>1. ASSUME asked'[q] = asked[q], answered'[q] = answered[q],
             Len(finalRequests'[q]) + UnderWay(q)' + Completing(q)'
               = Len(finalRequests[q]) + UnderWay(q) + Completing(q),
             Waiting(q)' = Waiting(q), UnderWay(q)' \in {0, 1}, Completing(q)' \in {0, 1},
             Len(finalRequests'[q]) \in Nat
      PROVE  Accounted(q)'
  <2> DEFINE n == Len(finalRequests[q])    u == UnderWay(q)    c == Completing(q)
             n2 == Len(finalRequests'[q])  u2 == UnderWay(q)'  c2 == Completing(q)'
             a == answered[q]
  <2>1. /\ a \in Nat /\ n \in Nat /\ u \in Nat /\ c \in Nat
        /\ n2 \in Nat /\ u2 \in Nat /\ c2 \in Nat /\ n2 + u2 + c2 = n + u + c
    BY <1>n, <1>1
  <2>2. a + n2 + u2 + c2 = a + n + u + c
    <3> HIDE DEF a, n, u, c, n2, u2, c2
    <3> QED BY <2>1
  <2> QED BY <1>0, <1>1, <2>2 DEF Accounted
<1>2. ASSUME UNCHANGED <<asked, answered, finalRequests, inFlight, completing>>,
             (client'[q] = "saving") <=> (client[q] = "saving")
      PROVE  Accounted(q)'
  BY <1>0, <1>2 DEF Accounted, UnderWay, Completing, Waiting
<1>3. CASE MainThread \/ WakeUp \/ DrainSnapshot \/ DrainEnd \/ StartEnd \/ CheckFlush
           \/ LoopTest \/ StopCheck \/ StopWaitEnds \/ Finish
  BY <1>2, <1>3 DEF MainThread, Flush, FlushReturns, Stop, CloseQueue, StopReturns, WakeUp,
     DrainSnapshot, DrainEnd, StartEnd, CheckFlush, LoopTest, StopCheck, StopWaitEnds, Finish
<1>4. ASSUME NEW p \in Players, TryEnqueue(p) \/ RejectEnqueue(p) \/ RefuseSave(p) \/ Reactivate(p)
      PROVE  Accounted(q)'
  <2>1. UNCHANGED <<asked, answered, finalRequests, inFlight, completing>>
    BY <1>4 DEF TryEnqueue, RejectEnqueue, RefuseSave, Reactivate
  <2>2. (client'[q] = "saving") <=> (client[q] = "saving")
    BY <1>0, <1>4 DEF TryEnqueue, RejectEnqueue, RefuseSave, Reactivate, TypeOK
  <2> QED BY <1>2, <2>1, <2>2
<1>5. ASSUME NEW p \in Players, AsyncSave(p) PROVE Accounted(q)'
  <2>1. CASE p = q
    <3>1. /\ asked'[q] = asked[q] + 1 /\ UNCHANGED <<answered, inFlight, completing>>
          /\ client[q] = "active" /\ client'[q] = "saving"
      BY <1>0, <1>5, <2>1 DEF AsyncSave, TypeOK
    <3>2. finalRequests[q] \in Seq(Versions) /\ live[q] + 1 \in Versions
      BY <1>0, <1>5, <2>1, BoundsAssumption DEF AsyncSave, TypeOK, Versions
    <3>3. finalRequests'[q] = Append(finalRequests[q], live[q] + 1)
      BY <1>0, <1>5, <2>1 DEF AsyncSave, TypeOK
    <3>4. Len(finalRequests'[q]) = Len(finalRequests[q]) + 1
      BY <3>2, <3>3
    <3>5. /\ UnderWay(q)' = UnderWay(q) /\ Completing(q)' = Completing(q)
          /\ Waiting(q) = 0 /\ Waiting(q)' = 1
      BY <3>1 DEF UnderWay, Completing, Waiting
    <3> DEFINE a == answered[q]   n == Len(finalRequests[q])   u == UnderWay(q)   c == Completing(q)
    <3>6. a + (n + 1) + u + c = (a + n + u + c) + 1
      <4>1. a \in Nat /\ n \in Nat /\ u \in Nat /\ c \in Nat
        BY <1>n
      <4> HIDE DEF a, n, u, c
      <4> QED BY <4>1
    <3>7. asked[q] = a + n + u + c /\ asked[q] = a + Waiting(q)
      BY <1>0 DEF Accounted
    <3>8. asked'[q] = answered'[q] + Len(finalRequests'[q]) + UnderWay(q)' + Completing(q)'
      BY <3>1, <3>4, <3>5, <3>6, <3>7
    <3>9. asked'[q] = answered'[q] + Waiting(q)'
      BY <1>n, <3>1, <3>5, <3>7
    <3> QED BY <3>8, <3>9 DEF Accounted
  <2>2. CASE p # q
    <3>1. /\ UNCHANGED <<answered, inFlight, completing>> /\ asked'[q] = asked[q]
          /\ finalRequests'[q] = finalRequests[q] /\ client'[q] = client[q]
      BY <1>0, <1>5, <2>2 DEF AsyncSave, TypeOK
    <3> QED BY <1>0, <3>1 DEF Accounted, UnderWay, Completing, Waiting
  <2> QED BY <2>1, <2>2
<1>6. CASE SelectSaves
  <2>1. UNCHANGED <<asked, answered, client, completing>>
    BY <1>6 DEF SelectSaves
  <2>2. Completing(q)' = Completing(q) /\ Waiting(q)' = Waiting(q)
    BY <2>1 DEF Completing, Waiting
  <2>3. CASE q \in SelectableFinals
    <3>1. UnderWay(q) = 0 /\ finalRequests[q] # << >> /\ finalRequests[q] \in Seq(Versions)
      BY <1>0, <2>3 DEF SelectableFinals, IsIdle, UnderWay, TypeOK
    <3>2. finalRequests'[q] = Tail(finalRequests[q]) /\ inFlight'[q].kind = "final"
      BY <1>6, <2>3 DEF SelectSaves
    <3>3. Len(finalRequests'[q]) = Len(finalRequests[q]) - 1 /\ Len(finalRequests[q]) # 0
      BY <3>1, <3>2
    <3>4. UnderWay(q)' = 1
      BY <3>2 DEF UnderWay
    <3> QED BY <1>n, <1>1, <2>1, <2>2, <3>1, <3>3, <3>4
  <2>4. CASE q \notin SelectableFinals
    <3>1. finalRequests'[q] = finalRequests[q]
      BY <1>6, <2>4 DEF SelectSaves
    <3>2. (inFlight'[q].kind = "final") <=> (inFlight[q].kind = "final")
      BY <1>6, <2>4 DEF SelectSaves, SelectableSnapshots, IsIdle
    <3>3. UnderWay(q)' = UnderWay(q)
      BY <3>2 DEF UnderWay
    <3> QED BY <1>0, <2>1, <2>2, <3>1, <3>3 DEF Accounted
  <2> QED BY <2>3, <2>4
<1>7. ASSUME NEW s \in starts, StartSave(s) PROVE Accounted(q)'
  BY <1>2, <1>7 DEF StartSave
<1>8. ASSUME NEW p \in Players, NEW result, result # "none",
             SaveSucceeded(p) \/ SaveFailed(p, result),
             UNCHANGED <<asked, answered, client, finalRequests>>
      PROVE  Accounted(q)'
  <2>0. Waiting(q)' = Waiting(q)
    BY <1>8 DEF Waiting
  <2>1. CASE p = q /\ inFlight[p].kind = "final"
    <3>1. UnderWay(q) = 1 /\ Completing(q) = 0
      <4>1. UnderWay(q) = 1
        BY <2>1 DEF UnderWay
      <4> QED BY <1>0, <1>n, <4>1 DEF Accounted
    <3>2. inFlight'[q].kind = "none" /\ completing'[q] # "none"
      BY <1>0, <1>8, <2>1 DEF SaveSucceeded, SaveFailed, TypeOK, Idle
    <3>3. UnderWay(q)' = 0 /\ Completing(q)' = 1
      BY <3>2 DEF UnderWay, Completing
    <3> QED BY <1>n, <1>1, <1>8, <2>0, <3>1, <3>3
  <2>2. CASE ~(p = q /\ inFlight[p].kind = "final")
    <3>1. /\ completing'[q] = completing[q]
          /\ (inFlight'[q].kind = "final") <=> (inFlight[q].kind = "final")
      BY <1>0, <1>8, <2>2 DEF SaveSucceeded, SaveFailed, TypeOK, Idle
    <3>2. UnderWay(q)' = UnderWay(q) /\ Completing(q)' = Completing(q)
      BY <3>1 DEF UnderWay, Completing
    <3> QED BY <1>0, <1>8, <2>0, <3>2 DEF Accounted
  <2> QED BY <2>1, <2>2
<1>9. ASSUME NEW s \in starts, StartSaveRefused(s) PROVE Accounted(q)'
  <2>1. s.player \in Players
    BY <1>0 DEF TypeOK, Saves
  <2> QED BY <1>8, <1>9, <2>1 DEF StartSaveRefused
<1>10. ASSUME NEW j \in jobs, RepositorySaves(j) \/ RepositoryFails(j) PROVE Accounted(q)'
  <2>1. j.player \in Players
    BY <1>0 DEF TypeOK, Saves
  <2>2. /\ SaveSucceeded(j.player) \/ SaveFailed(j.player, "failed")
        /\ UNCHANGED <<asked, answered, client, finalRequests>>
    BY <1>10 DEF RepositorySaves, RepositoryFails
  <2> QED BY <1>8, <2>1, <2>2
<1>11. ASSUME NEW p \in Players, NotifyCompletion(p) PROVE Accounted(q)'
  <2>1. UNCHANGED <<asked, finalRequests, inFlight>> /\ UnderWay(q)' = UnderWay(q)
    BY <1>11 DEF NotifyCompletion, UnderWay
  <2>2. CASE p = q
    <3>1. /\ completing[q] # "none" /\ completing'[q] = "none" /\ client'[q] # "saving"
          /\ answered'[q] = answered[q] + 1
      BY <1>0, <1>11, <2>2 DEF NotifyCompletion, TypeOK
    <3>2. Completing(q) = 1 /\ Completing(q)' = 0 /\ Waiting(q)' = 0
      BY <3>1 DEF Completing, Waiting
    <3> QED BY <1>0, <1>n, <2>1, <3>1, <3>2 DEF Accounted
  <2>3. CASE p # q
    <3>1. completing'[q] = completing[q] /\ answered'[q] = answered[q] /\ client'[q] = client[q]
      BY <1>0, <1>11, <2>3 DEF NotifyCompletion, TypeOK
    <3> QED BY <1>0, <2>1, <3>1 DEF Accounted, Completing, Waiting
  <2> QED BY <2>2, <2>3
<1>12. CASE UNCHANGED vars
  BY <1>2, <1>12 DEF vars, workVars
<1> QED
  BY <1>3, <1>4, <1>5, <1>6, <1>7, <1>9, <1>10, <1>11, <1>12
  DEF Next, ServiceThread, Repository, Completions, Clients, Terminated

(* The account holds in the initial states: no final save was asked for.     *)
LEMMA InitFinalInv == Init => FinalInv
  BY DEF Init, FinalInv, Accounted, UnderWay, Completing, Waiting, Idle

(* Each final save a PlayerActor waits for is answered at most once, and    *)
(* when the service thread has ended none is forgotten: the completion ran, *)
(* or is in the hands of a repository thread that has left completeSave's    *)
(* critical section.                                                         *)
THEOREM FinalSavesAnswered == Spec => []FinalAnsweredOnce
<1>1. IndInv /\ FinalInv => FinalAnsweredOnce
  <2> SUFFICES ASSUME IndInv, FinalInv, NEW p \in Players
               PROVE  /\ answered[p] <= asked[p]
                      /\ pc = "done" => \/ answered[p] = asked[p]
                                        \/ /\ answered[p] + 1 = asked[p]
                                           /\ completing[p] \in {"saved", "failed"}
    BY DEF FinalAnsweredOnce
  <2>1. /\ asked[p] \in Nat /\ answered[p] \in Nat /\ Len(finalRequests[p]) \in Nat
        /\ UnderWay(p) \in {0, 1} /\ Completing(p) \in {0, 1} /\ Waiting(p) \in {0, 1}
    BY AccountType DEF IndInv
  <2>2. /\ asked[p] = answered[p] + Len(finalRequests[p]) + UnderWay(p) + Completing(p)
        /\ asked[p] = answered[p] + Waiting(p)
    BY DEF FinalInv, Accounted
  <2>3. ASSUME pc = "done"
        PROVE  /\ Len(finalRequests[p]) = 0 /\ UnderWay(p) = 0
               /\ Completing(p) = 0 \/ completing[p] \in {"saved", "failed"}
    <3>1. Len(finalRequests[p]) = 0 /\ UnderWay(p) = 0
      BY <2>3 DEF IndInv, ThreadInv, UnderWay, IsIdle
    <3>2. completing[p] \in CompletingStates /\ completing[p] # "refused"
      BY <2>3 DEF IndInv, ThreadInv, TypeOK
    <3> QED BY <3>1, <3>2 DEF Completing, CompletingStates
  <2> QED BY <2>1, <2>2, <2>3
<1> QED BY Invariance, InitFinalInv, FinalStep, <1>1, PTL DEF Spec
=============================================================================
