------------------------- MODULE MCSpaceTransitions -------------------------
(***************************************************************************)
(* Instances of SpaceTransitions for TLC: one connection; two connections  *)
(* c1 and c2 of player p1, who reconnects; and these with c3 of a second   *)
(* player.                                                                 *)
(***************************************************************************)
EXTENDS SpaceTransitions

CONSTANTS c1, c2, c3, p1, p2, z1

SoleOwner == c1 :> p1
OneOwner == (c1 :> p1) @@ (c2 :> p1)
TwoOwners == (c1 :> p1) @@ (c2 :> p1) @@ (c3 :> p2)
Reconnects == Permutations({c1, c2})

Used(c) == session[c] # None \/ conn[c] \in {"closing", "closed"}
AtMostTwo == stopping \/ Cardinality({c \in Connections : Used(c)}) <= 2
(* p1 reconnects only in a behaviour without a fault: no command refused, no *)
(* load or save failed, until the shutdown.                                 *)
CalmReconnect == Used(c1) /\ Used(c2) /\ ~stopping => faults = 0

(* With both players present the run is about the room they share: each has *)
(* logged in once, its record is loaded before it enters zone z1, it leaves *)
(* the zone for the room only, and comes back from the room or disconnects. *)
LoggedInOnce(c) ==
    LET p == PlayerOf[c]
    IN session[c] # None /\ (player[p].stage = "loaded" \/ player[p].command # None) =>
           \A i \in DOMAIN playerMail[p] : playerMail[p][i].cmd # "Authenticate"
LoadedFirst(c) ==
    /\ conn[c] = "open" /\ (routes[c] # None \/ Busy(c)) => player[PlayerOf[c]].stage = "loaded"
    /\ session[c] # None => ~session[c].overwritten
InOneZone(c) ==
    /\ handoffs[c] = None
    /\ session[c] # None /\ session[c].location # None => session[c].location.zone = z1
    /\ conn[c] = "open" /\ session[c] # None /\ lastEpoch[PlayerOf[c]] > 0 => routes[c] # None \/ Busy(c)
EntersOnce ==
    /\ \A z \in Zones : \A i \in DOMAIN zoneMail[z] :
          LET m == zoneMail[z][i]
          IN m.for = None /\ m.cmd # "Leave" => m.cmd = "Enter" /\ zones[z][m.player] = None
    /\ 2 * Cardinality({p \in Players : lastEpoch[p] > 1}) < nextId    \* an entry and a return each
ShareRoom ==
    Used(c3) => /\ faults = 0 /\ ~stopping /\ EntersOnce
                /\ \A c \in Connections : LoggedInOnce(c) /\ LoadedFirst(c) /\ InOneZone(c)

MCSpec == Init /\ [][Next /\ (AtMostTwo /\ CalmReconnect /\ ShareRoom)']_vars
=============================================================================
