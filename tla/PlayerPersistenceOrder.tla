----------------------- MODULE PlayerPersistenceOrder -----------------------
(***************************************************************************)
(* The order of the background saves of PlayerPersistence, proved for      *)
(* every value of the constants.                                           *)
(***************************************************************************)
EXTENDS PlayerPersistenceFinals, TLAPS

(* The versions of a player along the way of a snapshot: database, save     *)
(* under way, pending, queue, the actor itself.  They never decrease.       *)
Ordered(queue, p, stored, waiting, saving, current) ==
    /\ \A i \in 1 .. Len(queue) : queue[i].player = p =>
         /\ stored <= queue[i].version /\ waiting <= queue[i].version
         /\ saving <= queue[i].version /\ queue[i].version <= current
    /\ \A i, j \in 1 .. Len(queue) :
         queue[i].player = p /\ queue[j].player = p /\ i < j =>
            queue[i].version <= queue[j].version

QueueOrdered(p) ==
    Ordered(snapshots, p, repo[p], pending[p], inFlight[p].version, live[p])

SavesOrdered(p) ==
    /\ inFlight[p].kind = "none" => inFlight[p].version = 0
    /\ inFlight[p].kind # "none" => repo[p] <= inFlight[p].version
    /\ pending[p] # 0 => repo[p] <= pending[p] /\ inFlight[p].version <= pending[p]
    /\ repo[p] <= live[p] /\ pending[p] <= live[p] /\ inFlight[p].version <= live[p]

OrderInv == \A p \in Players : asked[p] = 0 => QueueOrdered(p) /\ SavesOrdered(p)

(* Every version number the ordering argument compares is a natural number.  *)
LEMMA NumbersType ==
    ASSUME TypeOK, NEW p \in Players
    PROVE  /\ live[p] \in Nat /\ repo[p] \in Nat /\ pending[p] \in Nat
           /\ inFlight[p].version \in Nat /\ asked[p] \in Nat
           /\ \A i \in 1 .. Len(snapshots) : /\ snapshots[i] \in Saves
                                             /\ snapshots[i].version \in Nat
<1>1. Versions \subseteq Nat
  BY BoundsAssumption DEF Versions
<1>2. inFlight[p] \in InFlightSaves
  BY DEF TypeOK
<1>3. inFlight[p].version \in Nat
  BY Zenon, <1>1, <1>2 DEF InFlightSaves
<1>4. \A i \in 1 .. Len(snapshots) : snapshots[i] \in Saves
  BY DEF TypeOK
<1>5. \A i \in 1 .. Len(snapshots) : snapshots[i].version \in Nat
  BY Zenon, <1>1, <1>4 DEF Saves
<1> QED BY Zenon, <1>1, <1>3, <1>4, <1>5 DEF TypeOK

(* A queue stays ordered when what lies behind it is replaced by something  *)
(* that lay behind it, and when the live state moves on.                     *)
LEMMA OrderedKept ==
    ASSUME NEW queue \in Seq(Saves), \A i \in 1 .. Len(queue) : queue[i].version \in Nat,
           NEW p, NEW r \in Nat, NEW w \in Nat, NEW f \in Nat, NEW l \in Nat,
           NEW r2 \in Nat, NEW w2 \in Nat, NEW f2 \in Nat, NEW l2 \in Nat,
           r2 <= r \/ r2 <= w \/ r2 <= f, w2 <= r \/ w2 <= w \/ w2 <= f,
           f2 <= r \/ f2 <= w \/ f2 <= f, l <= l2,
           Ordered(queue, p, r, w, f, l)
    PROVE  Ordered(queue, p, r2, w2, f2, l2)
<1>1. ASSUME NEW i \in 1 .. Len(queue), queue[i].player = p
      PROVE  /\ r2 <= queue[i].version /\ w2 <= queue[i].version
             /\ f2 <= queue[i].version /\ queue[i].version <= l2
  <2> DEFINE v == queue[i].version
  <2>1. v \in Nat
    OBVIOUS
  <2>2. r <= v /\ w <= v /\ f <= v /\ v <= l
    BY <1>1 DEF Ordered
  <2> HIDE DEF v
  <2>3. r2 <= v /\ w2 <= v /\ f2 <= v /\ v <= l2
    BY <2>1, <2>2
  <2> QED BY <2>3 DEF v
<1>2. \A i, j \in 1 .. Len(queue) : queue[i].player = p /\ queue[j].player = p /\ i < j =>
         queue[i].version <= queue[j].version
  BY DEF Ordered
<1> QED BY <1>1, <1>2 DEF Ordered

(* Taking the oldest snapshot leaves an ordered queue.                       *)
LEMMA OrderedTail ==
    ASSUME NEW queue \in Seq(Saves), queue # << >>,
           NEW p, NEW r, NEW w, NEW f, NEW l, Ordered(queue, p, r, w, f, l)
    PROVE  /\ Ordered(Tail(queue), p, r, w, f, l)
           /\ queue[1].player = p => Ordered(Tail(queue), p, r, queue[1].version, f, l)
<1>1. /\ Len(queue) \in Nat \ {0} /\ Len(Tail(queue)) = Len(queue) - 1
      /\ \A i \in 1 .. Len(Tail(queue)) : Tail(queue)[i] = queue[i + 1]
  OBVIOUS
<1>2. \A i \in 1 .. Len(Tail(queue)) :
          i + 1 \in 1 .. Len(queue) /\ 1 < i + 1 /\ Tail(queue)[i] = queue[i + 1]
  BY <1>1
<1>3. 1 \in 1 .. Len(queue)
  BY <1>1
<1>4. \A i, j \in 1 .. Len(Tail(queue)) : i < j => i + 1 < j + 1
  BY <1>1
<1>5. \A i, j \in 1 .. Len(Tail(queue)) :
         Tail(queue)[i].player = p /\ Tail(queue)[j].player = p /\ i < j =>
            Tail(queue)[i].version <= Tail(queue)[j].version
  BY <1>2, <1>4 DEF Ordered
<1>6. ASSUME NEW i \in 1 .. Len(Tail(queue)), Tail(queue)[i].player = p
      PROVE  /\ r <= Tail(queue)[i].version /\ w <= Tail(queue)[i].version
             /\ f <= Tail(queue)[i].version /\ Tail(queue)[i].version <= l
             /\ queue[1].player = p => queue[1].version <= Tail(queue)[i].version
  BY <1>2, <1>3, <1>6 DEF Ordered
<1> HIDE DEF Ordered
<1>7. Ordered(Tail(queue), p, r, w, f, l)
  BY <1>5, <1>6 DEF Ordered
<1>8. queue[1].player = p => Ordered(Tail(queue), p, r, queue[1].version, f, l)
  BY <1>5, <1>6 DEF Ordered
<1> QED BY <1>7, <1>8

(* Appending the actor's newest snapshot leaves an ordered queue.            *)
LEMMA OrderedAppend ==
    ASSUME NEW queue \in Seq(Saves), \A i \in 1 .. Len(queue) : queue[i].version \in Nat,
           NEW p, NEW r \in Nat, NEW w \in Nat, NEW f \in Nat, NEW l \in Nat,
           NEW new \in Saves, new.version = l, r <= l, w <= l, f <= l,
           Ordered(queue, p, r, w, f, l)
    PROVE  Ordered(Append(queue, new), p, r, w, f, l)
<1> DEFINE longer == Append(queue, new)
<1>1. /\ Len(queue) \in Nat /\ Len(longer) = Len(queue) + 1
      /\ \A i \in 1 .. Len(queue) : longer[i] = queue[i]
      /\ longer[Len(queue) + 1] = new
  OBVIOUS
<1> HIDE DEF longer
<1>2. \A i \in 1 .. Len(longer) : i \in 1 .. Len(queue) \/ i = Len(queue) + 1
  BY <1>1
<1>3. ASSUME NEW i \in 1 .. Len(longer), longer[i].player = p
      PROVE  /\ r <= longer[i].version /\ w <= longer[i].version
             /\ f <= longer[i].version /\ longer[i].version <= l
  <2>1. CASE i \in 1 .. Len(queue)
    BY <1>1, <1>3, <2>1 DEF Ordered
  <2>2. CASE i = Len(queue) + 1
    <3>1. longer[i].version = l
      BY <1>1, <2>2
    <3> QED BY <3>1
  <2> QED BY <1>2, <2>1, <2>2
<1>4. ASSUME NEW i \in 1 .. Len(longer), NEW j \in 1 .. Len(longer), i < j,
             longer[i].player = p, longer[j].player = p
      PROVE  longer[i].version <= longer[j].version
  <2>1. CASE j \in 1 .. Len(queue)
    <3>1. i \in 1 .. Len(queue)
      BY <1>1, <1>4, <2>1
    <3> QED BY SMTT(40), <1>1, <1>4, <2>1, <3>1 DEF Ordered
  <2>2. CASE j = Len(queue) + 1
    <3>1. longer[j].version = l
      BY <1>1, <2>2
    <3>2. longer[i].version <= l
      BY <1>3, <1>4
    <3> QED BY <3>1, <3>2
  <2> QED BY <1>2, <2>1, <2>2
<1>5. Ordered(longer, p, r, w, f, l)
  BY <1>3, <1>4 DEF Ordered
<1> QED BY <1>5 DEF longer

(* A snapshot of another player changes nothing.                             *)
LEMMA OrderedOther ==
    ASSUME NEW queue \in Seq(Saves), NEW new \in Saves,
           NEW p, NEW r, NEW w, NEW f, NEW l, new.player # p, Ordered(queue, p, r, w, f, l)
    PROVE  Ordered(Append(queue, new), p, r, w, f, l)
<1> DEFINE longer == Append(queue, new)
<1>1. /\ Len(queue) \in Nat /\ Len(longer) = Len(queue) + 1
      /\ \A i \in 1 .. Len(queue) : longer[i] = queue[i]
      /\ longer[Len(queue) + 1] = new
  OBVIOUS
<1> HIDE DEF longer
<1>2. \A i \in 1 .. Len(longer) :
         longer[i].player = p => i \in 1 .. Len(queue) /\ longer[i] = queue[i]
  BY <1>1
<1>3. Ordered(longer, p, r, w, f, l)
  BY <1>2 DEF Ordered
<1> QED BY <1>3 DEF longer

(* Every step of a player without final save keeps the versions ordered along *)
(* the way from the actor to the database.                                   *)
LEMMA OrderStep == IndInv /\ FinalInv /\ OrderInv /\ [Next]_vars => OrderInv'
<1> SUFFICES ASSUME IndInv, FinalInv, OrderInv, [Next]_vars,
                    NEW p \in Players, asked'[p] = 0
             PROVE  QueueOrdered(p)' /\ SavesOrdered(p)'
  BY DEF OrderInv
<1> USE DEF actorVars, saveVars, threadVars, mainVars, repoVars
<1>0. TypeOK /\ SaveInv /\ TypeOK'
  BY TypeStep DEF IndInv
<1>a. asked[p] = 0 /\ ~AsyncSave(p)
  <2>1. AsyncSave(p) => asked'[p] = asked[p] + 1
    BY <1>0 DEF AsyncSave, TypeOK
  <2>2. asked[p] \in Nat
    BY <1>0, NumbersType
  <2>3. ASSUME NEW q \in Players, q # p, AsyncSave(q) PROVE asked'[p] = asked[p]
    BY <1>0, <2>3 DEF AsyncSave, TypeOK
  <2>4. asked'[p] = asked[p] \/ AsyncSave(p)
    BY Zenon, <2>3 DEF Next, Clients, ServiceThread, Repository, Completions, NotifyCompletion,
       MainThread, Terminated, vars, workVars, TryEnqueue,
       RejectEnqueue, RefuseSave, Reactivate, WakeUp, DrainSnapshot, DrainEnd, SelectSaves,
       StartSave, StartSaveRefused, StartEnd, CheckFlush, LoopTest, StopCheck, StopWaitEnds,
       Finish, RepositorySaves, RepositoryFails, Flush, FlushReturns, Stop, CloseQueue,
       StopReturns
  <2> QED BY <2>1, <2>2, <2>4
<1>b. QueueOrdered(p) /\ SavesOrdered(p)
  BY <1>a DEF OrderInv
<1>n. /\ live[p] \in Nat /\ repo[p] \in Nat /\ pending[p] \in Nat
      /\ inFlight[p].version \in Nat
      /\ \A i \in 1 .. Len(snapshots) : snapshots[i] \in Saves /\ snapshots[i].version \in Nat
  BY <1>0, NumbersType
<1>f. inFlight[p].kind # "final" /\ finalRequests[p] = << >>
  <2>1. /\ answered[p] \in Nat /\ Len(finalRequests[p]) \in Nat
        /\ UnderWay(p) \in {0, 1} /\ Completing(p) \in {0, 1}
    BY <1>0, AccountType
  <2>2. asked[p] = answered[p] + Len(finalRequests[p]) + UnderWay(p) + Completing(p)
    BY DEF FinalInv, Accounted
  <2>3. Len(finalRequests[p]) = 0 /\ UnderWay(p) = 0
    BY <1>a, <2>1, <2>2
  <2>4. finalRequests[p] \in Seq(Versions)
    BY <1>0 DEF TypeOK
  <2> QED BY <2>3, <2>4 DEF UnderWay
<1>m. /\ live'[p] \in Nat /\ repo'[p] \in Nat /\ pending'[p] \in Nat
      /\ inFlight'[p].version \in Nat
  <2>1. Versions \subseteq Nat
    BY BoundsAssumption DEF Versions
  <2>2. inFlight'[p].version \in Versions
    BY <1>0 DEF TypeOK, InFlightSaves
  <2>3. live'[p] \in Versions /\ repo'[p] \in Versions /\ pending'[p] \in Versions
    BY <1>0 DEF TypeOK
  <2> QED BY Zenon, <2>1, <2>2, <2>3
<1>s. snapshots \in Seq(Saves)
  BY <1>0 DEF TypeOK
<1>k. ASSUME snapshots' = snapshots, live[p] <= live'[p],
             repo'[p] <= repo[p] \/ repo'[p] <= inFlight[p].version,
             pending'[p] <= pending[p] \/ pending'[p] <= inFlight[p].version,
             inFlight'[p].version <= inFlight[p].version \/ inFlight'[p].version <= pending[p]
      PROVE  QueueOrdered(p)'
  <2> DEFINE r == repo[p]   w == pending[p]   f == inFlight[p].version   l == live[p]
             r2 == repo'[p]   w2 == pending'[p]   f2 == inFlight'[p].version   l2 == live'[p]
  <2>1. /\ r \in Nat /\ w \in Nat /\ f \in Nat /\ l \in Nat
        /\ r2 \in Nat /\ w2 \in Nat /\ f2 \in Nat /\ l2 \in Nat
    BY <1>n, <1>m
  <2>2. Ordered(snapshots, p, r, w, f, l) /\ snapshots \in Seq(Saves)
    BY <1>b, <1>s DEF QueueOrdered
  <2>3. \A i \in 1 .. Len(snapshots) : snapshots[i].version \in Nat
    BY <1>n
  <2>4. /\ r2 <= r \/ r2 <= w \/ r2 <= f
        /\ w2 <= r \/ w2 <= w \/ w2 <= f
        /\ f2 <= r \/ f2 <= w \/ f2 <= f
        /\ l <= l2
    BY <1>k
  <2> HIDE DEF r, w, f, l, r2, w2, f2, l2
  <2>5. Ordered(snapshots, p, r2, w2, f2, l2)
    BY <2>1, <2>2, <2>3, <2>4, OrderedKept
  <2> QED BY <1>k, <2>5 DEF QueueOrdered, r2, w2, f2, l2
<1>1. ASSUME UNCHANGED <<snapshots, repo, live>>, inFlight'[p] = inFlight[p],
             pending'[p] = 0 \/ pending'[p] = pending[p]
      PROVE  QueueOrdered(p)' /\ SavesOrdered(p)'
  <2>1. QueueOrdered(p)'
    BY <1>n, <1>k, <1>1
  <2>2. SavesOrdered(p)'
    BY <1>b, <1>n, <1>1 DEF SavesOrdered
  <2> QED BY <2>1, <2>2
<1>2. ASSUME NEW q \in Players, TryEnqueue(q) PROVE QueueOrdered(p)' /\ SavesOrdered(p)'
  <2> DEFINE new == [player |-> q, version |-> live[q] + 1]
  <2>1. /\ snapshots' = Append(snapshots, new) /\ repo' = repo /\ pending' = pending
        /\ inFlight' = inFlight /\ live'[p] = IF p = q THEN live[p] + 1 ELSE live[p]
    BY <1>0, <1>2 DEF TryEnqueue, TypeOK
  <2>2. new \in Saves
    <3>1. live[q] + 1 \in Versions
      BY <1>0, <1>2, BoundsAssumption DEF TryEnqueue, TypeOK, Versions
    <3> QED BY <3>1 DEF Saves
  <2>3. SavesOrdered(p)'
    BY <1>b, <1>n, <2>1 DEF SavesOrdered
  <2>4. /\ repo[p] <= live'[p] /\ pending[p] <= live'[p] /\ inFlight[p].version <= live'[p]
        /\ live[p] <= live'[p]
    BY <1>b, <1>n, <2>1 DEF SavesOrdered
  <2>5. Ordered(snapshots, p, repo[p], pending[p], inFlight[p].version, live'[p])
    <3> DEFINE r == repo[p]   w == pending[p]   f == inFlight[p].version
               l == live[p]   l2 == live'[p]
    <3>1. r \in Nat /\ w \in Nat /\ f \in Nat /\ l \in Nat /\ l2 \in Nat
      BY <1>n, <1>m
    <3>2. Ordered(snapshots, p, r, w, f, l)
      BY <1>b DEF QueueOrdered
    <3>3. r <= r /\ w <= w /\ f <= f /\ l <= l2
      BY <2>4, <3>1
    <3>4. \A i \in 1 .. Len(snapshots) : snapshots[i].version \in Nat
      BY <1>n
    <3> HIDE DEF r, w, f, l, l2
    <3>5. Ordered(snapshots, p, r, w, f, l2)
      BY <1>s, <3>1, <3>2, <3>3, <3>4, OrderedKept
    <3> QED BY <3>5 DEF r, w, f, l2
  <2>6. Ordered(snapshots', p, repo[p], pending[p], inFlight[p].version, live'[p])
    <3>1. CASE p = q
      <4>1. new.version = live'[p]
        BY <2>1, <3>1
      <4> HIDE DEF new
      <4>2. Ordered(Append(snapshots, new), p, repo[p], pending[p], inFlight[p].version, live'[p])
        BY SMTT(40), <1>n, <1>m, <1>s, <2>2, <2>4, <2>5, <4>1, OrderedAppend
      <4> QED BY <2>1, <4>2
    <3>2. CASE p # q
      <4>1. new.player # p
        BY <3>2
      <4> HIDE DEF new
      <4> QED BY <1>s, <2>1, <2>2, <2>5, <4>1, OrderedOther
    <3> QED BY <3>1, <3>2
  <2> QED BY <2>1, <2>3, <2>6 DEF QueueOrdered
<1>3. ASSUME NEW q \in Players, RejectEnqueue(q) \/ RefuseSave(q) \/ Reactivate(q) \/ AsyncSave(q)
      PROVE  QueueOrdered(p)' /\ SavesOrdered(p)'
  <2>1. /\ UNCHANGED <<snapshots, repo, pending, inFlight>>
        /\ live' = live \/ live' = [live EXCEPT ![q] = live[q] + 1]
    BY <1>3 DEF RejectEnqueue, RefuseSave, Reactivate, AsyncSave
  <2>2. live[p] <= live'[p]
    <3>1. live'[p] = live[p] \/ live'[p] = live[p] + 1
      BY SMTT(40), <1>0, <2>1 DEF TypeOK
    <3> QED BY <1>n, <3>1
  <2>3. QueueOrdered(p)'
    BY <1>n, <1>k, <2>1, <2>2
  <2>4. SavesOrdered(p)'
    BY <1>b, <1>n, <1>m, <2>1, <2>2 DEF SavesOrdered
  <2> QED BY <2>3, <2>4
<1>4. CASE DrainSnapshot
  <2>1. /\ UNCHANGED <<repo, live, inFlight>> /\ snapshots # << >> /\ snapshots' = Tail(snapshots)
        /\ pending'[p] = IF snapshots[1].player = p THEN snapshots[1].version ELSE pending[p]
    BY <1>0, <1>4 DEF DrainSnapshot, TypeOK
  <2>2. QueueOrdered(p)'
    <3>1. CASE snapshots[1].player = p
      BY <1>b, <1>s, <2>1, <3>1, OrderedTail DEF QueueOrdered
    <3>2. CASE snapshots[1].player # p
      BY <1>b, <1>s, <2>1, <3>2, OrderedTail DEF QueueOrdered
    <3> QED BY <3>1, <3>2
  <2>3. 1 \in 1 .. Len(snapshots)
    BY <1>s, <2>1
  <2>4. snapshots[1].player = p =>
          /\ repo[p] <= snapshots[1].version /\ inFlight[p].version <= snapshots[1].version
          /\ snapshots[1].version <= live[p]
    BY <1>b, <2>3 DEF QueueOrdered, Ordered
  <2>5. SavesOrdered(p)'
    BY <1>b, <2>1, <2>4 DEF SavesOrdered
  <2> QED BY <2>2, <2>5
<1>5. CASE SelectSaves
  <2>1. UNCHANGED <<snapshots, repo, live>> /\ p \notin SelectableFinals
    BY <1>5, <1>f DEF SelectSaves, SelectableFinals
  <2>2. CASE p \in SelectableSnapshots
    <3>1. /\ inFlight'[p].version = pending[p] /\ inFlight'[p].kind = "snapshot"
          /\ pending'[p] = 0 /\ pending[p] # 0
      BY <1>5, <2>1, <2>2 DEF SelectSaves, SelectableSnapshots
    <3>2. QueueOrdered(p)'
      BY <1>n, <1>k, <2>1, <3>1
    <3>3. SavesOrdered(p)'
      BY <1>b, <1>n, <2>1, <3>1 DEF SavesOrdered
    <3> QED BY <3>2, <3>3
  <2>3. CASE p \notin SelectableSnapshots
    <3>1. inFlight'[p] = inFlight[p] /\ pending'[p] = pending[p]
      BY <1>5, <2>1, <2>3 DEF SelectSaves
    <3> QED BY <1>1, <2>1, <3>1
  <2> QED BY <2>2, <2>3
<1>6. ASSUME NEW q \in Players, NEW result, SaveSucceeded(q) \/ SaveFailed(q, result),
             UNCHANGED <<snapshots, live>>,
             repo'[p] = repo[p] \/ (p = q /\ repo'[p] = inFlight[p].version),
             SaveSucceeded(q) /\ p = q => repo'[p] = inFlight[p].version,
             p = q => inFlight[p].kind # "none"
      PROVE  QueueOrdered(p)' /\ SavesOrdered(p)'
  <2>1. CASE p # q
    <3>1. inFlight'[p] = inFlight[p] /\ pending'[p] = pending[p]
      BY <1>0, <1>6, <2>1 DEF SaveSucceeded, SaveFailed, TypeOK
    <3>2. repo'[p] = repo[p] /\ snapshots' = snapshots /\ live' = live
      BY <1>6, <2>1
    <3>3. QueueOrdered(p)'
      BY <1>n, <1>k, <3>1, <3>2
    <3>4. SavesOrdered(p)'
      BY <1>b, <3>1, <3>2 DEF SavesOrdered
    <3> QED BY <3>3, <3>4
  <2>2. CASE p = q
    <3>1. inFlight'[p] = Idle
      BY <1>0, <1>6, <2>2 DEF SaveSucceeded, SaveFailed, TypeOK
    <3>2. pending' = pending \/ pending' = [pending EXCEPT ![p] = inFlight[p].version]
      BY <1>6, <2>2 DEF SaveSucceeded, SaveFailed
    <3>3. /\ inFlight'[p].version = 0 /\ inFlight'[p].kind = "none"
          /\ pending'[p] = pending[p] \/ pending'[p] = inFlight[p].version
      BY <1>0, <3>1, <3>2 DEF TypeOK, Idle
    <3>4. /\ repo'[p] = repo[p] \/ repo'[p] = inFlight[p].version
          /\ snapshots' = snapshots /\ live' = live /\ inFlight[p].kind # "none"
      BY <1>6, <2>2
    <3>5. QueueOrdered(p)'
      BY <1>n, <1>k, <3>3, <3>4
    <3>6. SavesOrdered(p)'
      BY <1>b, <1>n, <3>3, <3>4 DEF SavesOrdered
    <3> QED BY <3>5, <3>6
  <2> QED BY <2>1, <2>2
<1>7. ASSUME NEW s \in starts, StartSaveRefused(s) PROVE QueueOrdered(p)' /\ SavesOrdered(p)'
  <2>1. s.player \in Players /\ inFlight[s.player].kind # "none"
    BY <1>0 DEF TypeOK, Saves, SaveInv
  <2>2. /\ SaveFailed(s.player, "refused") /\ ~SaveSucceeded(s.player)
        /\ UNCHANGED <<snapshots, live, repo>>
    BY <1>0, <1>7 DEF StartSaveRefused, SaveFailed, SaveSucceeded, TypeOK
  <2> QED BY <1>6, <2>1, <2>2
<1>8. ASSUME NEW j \in jobs, RepositorySaves(j) \/ RepositoryFails(j)
      PROVE  QueueOrdered(p)' /\ SavesOrdered(p)'
  <2>1. j.player \in Players /\ inFlight[j.player].kind # "none"
        /\ inFlight[j.player].version = j.version
    BY <1>0 DEF TypeOK, Saves, SaveInv
  <2>2. UNCHANGED <<snapshots, live>>
    BY <1>8 DEF RepositorySaves, RepositoryFails
  <2>3. CASE RepositorySaves(j)
    <3>1. SaveSucceeded(j.player)
          /\ repo'[p] = IF p = j.player THEN inFlight[p].version ELSE repo[p]
      BY <1>0, <2>1, <2>3 DEF RepositorySaves, TypeOK
    <3> QED BY <1>6, <2>1, <2>2, <3>1
  <2>4. CASE RepositoryFails(j)
    <3>1. SaveFailed(j.player, "failed") /\ ~SaveSucceeded(j.player)
      BY <1>0, <2>4 DEF RepositoryFails, SaveFailed, SaveSucceeded, TypeOK
    <3>2. repo'[p] = repo[p] \/ (p = j.player /\ repo'[p] = inFlight[p].version)
      BY <1>0, <2>1, <2>4 DEF RepositoryFails, TypeOK
    <3> QED BY <1>6, <2>1, <2>2, <3>1, <3>2
  <2> QED BY <1>8, <2>3, <2>4
<1>9. CASE \/ MainThread \/ Completions \/ WakeUp \/ DrainEnd \/ StartEnd \/ CheckFlush \/ LoopTest
           \/ StopWaitEnds \/ Finish \/ UNCHANGED vars \/ StopCheck
           \/ \E s \in starts : StartSave(s)
  <2>1. UNCHANGED <<snapshots, repo, live>> /\ inFlight' = inFlight
        /\ (pending'[p] = 0 \/ pending'[p] = pending[p])
    BY Zenon, <1>9 DEF MainThread, Flush, FlushReturns, Stop, CloseQueue, StopReturns, WakeUp,
       DrainEnd, StartEnd, CheckFlush, LoopTest, StopWaitEnds, Finish, vars, workVars, StopCheck, StartSave,
       Completions, NotifyCompletion
  <2> QED BY Zenon, <1>1, <2>1
<1> QED
  BY <1>2, <1>3, <1>4, <1>5, <1>7, <1>8, <1>9
  DEF Next, ServiceThread, Repository, Clients, Terminated

(* Until a final save of a player is asked for, the record in the database   *)
(* never goes back to an older snapshot: coalescing in _pending, one save    *)
(* per player under way and the restoring of a failed snapshot keep the      *)
(* order in which the actor published them.                                  *)
THEOREM SnapshotsInOrder == Spec => BackgroundSavesInOrder
<1>1. Init => OrderInv
  <2> SUFFICES ASSUME Init, NEW p \in Players PROVE QueueOrdered(p) /\ SavesOrdered(p)
    BY DEF OrderInv
  <2>1. /\ snapshots = << >> /\ repo[p] = 0 /\ live[p] = 0 /\ pending[p] = 0
        /\ inFlight[p].version = 0 /\ inFlight[p].kind = "none"
    BY SMTT(40) DEF Init, Idle
  <2>2. QueueOrdered(p)
    BY <2>1 DEF QueueOrdered, Ordered
  <2>3. SavesOrdered(p)
    BY <2>1 DEF SavesOrdered
  <2> QED BY <2>2, <2>3
<1>2. IndInv /\ FinalInv /\ OrderInv /\ [Next]_vars
        => [\A p \in Players : asked[p] = 0 => repo'[p] >= repo[p]]_vars
  <2> SUFFICES ASSUME IndInv, OrderInv, [Next]_vars, NEW p \in Players, asked[p] = 0
               PROVE  repo'[p] >= repo[p]
    OBVIOUS
  <2>1. TypeOK /\ SaveInv
    BY DEF IndInv
  <2>2. repo[p] \in Nat /\ inFlight[p].version \in Nat
    BY <2>1, NumbersType
  <2>3. SavesOrdered(p)
    BY DEF OrderInv
  <2>4. ASSUME NEW j \in jobs, RepositorySaves(j) \/ RepositoryFails(j)
        PROVE  repo'[p] >= repo[p]
    <3>1. /\ j.player \in Players /\ inFlight[j.player].kind # "none"
          /\ inFlight[j.player].version = j.version
      BY <2>1 DEF TypeOK, Saves, SaveInv
    <3>2. repo'[p] = repo[p] \/ (p = j.player /\ repo'[p] = j.version)
      BY <2>1, <2>4, <3>1 DEF RepositorySaves, RepositoryFails, TypeOK
    <3> QED BY <2>2, <2>3, <3>1, <3>2 DEF SavesOrdered
  <2>5. repo' = repo \/ Repository
    BY Zenon DEF Next, ServiceThread, Clients, MainThread, Terminated, vars, workVars, Completions,
       NotifyCompletion, TryEnqueue, RejectEnqueue,
       AsyncSave, RefuseSave, Reactivate, WakeUp, DrainSnapshot, DrainEnd, SelectSaves, StartSave,
       StartSaveRefused, StartEnd, CheckFlush, LoopTest, StopCheck, StopWaitEnds, Finish, Flush,
       FlushReturns, Stop, CloseQueue, StopReturns, actorVars, saveVars, threadVars, mainVars,
       repoVars
  <2> QED BY <2>2, <2>4, <2>5 DEF Repository
<1> QED
  BY <1>1, <1>2, InitFinalInv, Invariance, FinalStep, OrderStep, PTL
  DEF Spec, BackgroundSavesInOrder
=============================================================================
