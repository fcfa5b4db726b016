----------------------- MODULE MCPlayerPersistence -----------------------
(***************************************************************************)
(* Instances of PlayerPersistence for TLC.  In MCSpec either p1 changes    *)
(* twice at most and p2 once, or p1 alone changes MaxVersion times.        *)
(***************************************************************************)
EXTENDS PlayerPersistence

CONSTANTS p1, p2

OnePlayer == {p1}
TwoPlayers == {p1, p2}

FewChanges == live[p2] = 0 \/ (live[p1] <= 2 /\ live[p2] <= 1)
MCSpec == Init /\ [][Next /\ FewChanges']_vars /\ Fairness
=============================================================================
