--------------------------- MODULE SpaceContract ---------------------------
(***************************************************************************)
(* What the change of space promises (docs/room-entry-handoff-contract.md, *)
(* section 2, and the maps of route_coordinator.hpp): each connection is   *)
(* in exactly one state of a small machine, its moves are the ones below,  *)
(* and a player never has two connections in a space.  SpaceTransitions    *)
(* implements it.                                                          *)
(***************************************************************************)
CONSTANTS Connections, PlayerOf, Zones, Rooms

VARIABLE space

Nowhere == [is |-> "Nowhere"]
Stable(z) == [is |-> "Stable", zone |-> z]
Transferring(z, target) == [is |-> "Transferring", zone |-> z, target |-> target]
Entering(z, r) == [is |-> "Entering", zone |-> z, room |-> r]
InRoom(z, r) == [is |-> "InRoom", zone |-> z, room |-> r]
Returning(z, r) == [is |-> "Returning", zone |-> z, room |-> r]

(* A transition ends where it began, where it was bound for, or nowhere. *)
Successors(s) ==
    {Nowhere} \cup
    CASE s.is = "Nowhere" -> {Stable(z) : z \in Zones}
      [] s.is = "Stable" -> {Transferring(s.zone, z) : z \in Zones \ {s.zone}} \cup
                            {Entering(s.zone, r) : r \in Rooms}
      [] s.is = "Transferring" -> {Stable(s.zone), Stable(s.target)}
      [] s.is = "Entering" -> {Stable(s.zone), InRoom(s.zone, s.room)}
      [] s.is = "InRoom" -> {Returning(s.zone, s.room)}
      [] s.is = "Returning" -> {Stable(s.zone)}

Init == space = [c \in Connections |-> Nowhere]

Change(c) ==
    /\ space[c] = Nowhere =>
          \A d \in Connections \ {c} : PlayerOf[d] = PlayerOf[c] => space[d] = Nowhere
    /\ \E s \in Successors(space[c]) : space' = [space EXCEPT ![c] = s]

(* Shutdown gives up every transition at once. *)
GiveUp ==
    space' = [c \in Connections |->
        IF space[c].is \in {"Transferring", "Entering", "Returning"} THEN Nowhere ELSE space[c]]

Next == GiveUp \/ \E c \in Connections : Change(c)
Spec == Init /\ [][Next]_space
=============================================================================
