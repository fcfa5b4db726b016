--------------------------- MODULE MCActorRuntime ---------------------------
(***************************************************************************)
(* Instances of ActorRuntime for TLC.  MCSpec allows one operation only in  *)
(* a behaviour that sets a timer.                                           *)
(***************************************************************************)
EXTENDS ActorRuntime, TLC

CONSTANTS w1, w2, a1, a2

OneWorker == {w1}
TwoWorkers == {w1, w2}
OneActor == {a1}
TwoActors == {a1, a2}
SameWorker == [a \in Actors |-> w1]
WorkerEach == [a \in Actors |-> IF a = a1 THEN w1 ELSE w2]
ActorSymmetry == Permutations(Actors)

TimerOrOperations == nextTimer = 1 \/ Len(ops) <= 1
MCSpec == Init /\ [][Next /\ TimerOrOperations']_vars
=============================================================================
