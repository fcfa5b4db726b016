-------------------------- MODULE RouteCoordinator --------------------------
(***************************************************************************)
(* The route coordinator (route_coordinator.cpp): the reactor's record of  *)
(* the space each connection's player is in.  Five maps, keyed by the      *)
(* connection: the route of a player in a zone, and the four transitions   *)
(* and stays that exclude one another (handoff between zones, entry into a *)
(* room, the stay in it, the return from it).  Every zone entry gets a     *)
(* fresh epoch of its player.                                              *)
(*                                                                         *)
(* Each operation is an action on the coordinator's variables alone;       *)
(* SpaceTransitions calls them from the gateway and the services.          *)
(***************************************************************************)
EXTENDS Integers, FiniteSets

CONSTANTS Connections, Players, PlayerOf, Zones, Rooms, Positions,
          None,
          MaxTransitions    \* _max_handoffs

ASSUME PlayerOfAssumption == PlayerOf \in [Connections -> Players]
ASSUME MaxTransitionsAssumption == MaxTransitions \in Nat \ {0}
ASSUME NoneAssumption == None \notin Zones \cup Rooms \cup Positions

VARIABLES
    routes,         \* _routes
    handoffs,       \* _handoffs
    roomEntries,    \* _room_entries
    inRooms,        \* _in_rooms
    roomReturns,    \* _room_returns
    lastEpoch,      \* _last_epoch
    nextId          \* _next_handoff_id, _next_room_entry_id and _next_room_return_id in one

routeVars == <<routes, handoffs, roomEntries, inRooms, roomReturns, lastEpoch, nextId>>

SessionRoute == [zone : Zones, epoch : Nat]
HandoffSteps == {"LeaveSource", "EnterTarget", "RestoreSource", "CleanupTarget", "CleanupSource"}
ZoneHandoff ==
    [id : Nat, source : SessionRoute, target : Zones, targetEpoch : Nat, restoreEpoch : Nat,
     lastPosition : Positions, requested : Positions, step : HandoffSteps]
RoomEntry == [id : Nat, source : SessionRoute, room : Rooms, step : {"RequestSnapshot", "LeaveSource"}]
InRoomState == [room : Rooms, zone : Zones, position : Positions]
RoomReturn == [id : Nat, room : Rooms, zone : Zones, epoch : Nat, position : Positions]

RouteTypeOK ==
    /\ routes \in [Connections -> SessionRoute \cup {None}]
    /\ handoffs \in [Connections -> ZoneHandoff \cup {None}]
    /\ roomEntries \in [Connections -> RoomEntry \cup {None}]
    /\ inRooms \in [Connections -> InRoomState \cup {None}]
    /\ roomReturns \in [Connections -> RoomReturn \cup {None}]
    /\ lastEpoch \in [Players -> Nat]
    /\ nextId \in Nat

RouteInit ==
    /\ routes = [c \in Connections |-> None]
    /\ handoffs = [c \in Connections |-> None]
    /\ roomEntries = [c \in Connections |-> None]
    /\ inRooms = [c \in Connections |-> None]
    /\ roomReturns = [c \in Connections |-> None]
    /\ lastEpoch = [p \in Players |-> 0]
    /\ nextId = 1

Size(map) == Cardinality({c \in Connections : map[c] # None})
InTransition(c) == handoffs[c] # None \/ roomEntries[c] # None \/ roomReturns[c] # None
BusyInTransition(c) == InTransition(c)  \* Mutant: a stay in a room does not block a zone entry
Busy(c) == InTransition(c) \/ inRooms[c] # None
RouteFor(c) == IF InTransition(c) THEN None ELSE routes[c]

NextEpoch(c) == lastEpoch[PlayerOf[c]] + 1
TakeEpoch(c) == lastEpoch' = [lastEpoch EXCEPT ![PlayerOf[c]] = @ + 1]
TakeId == nextId' = nextId + 1
-----------------------------------------------------------------------------
(* A zone's first entry; a route that exists already is admitted again. *)
CanEnter(c, z) == ~Busy(c) /\ (routes[c] # None => routes[c].zone = z)
EnterRoute(c, z) == IF routes[c] = None THEN [zone |-> z, epoch |-> NextEpoch(c)] ELSE routes[c]
TryEnter(c, z) ==
    /\ routes' = [routes EXCEPT ![c] = EnterRoute(c, z)]
    /\ IF routes[c] = None THEN TakeEpoch(c) ELSE UNCHANGED lastEpoch
    /\ UNCHANGED <<handoffs, roomEntries, inRooms, roomReturns, nextId>>

(* tryEnter followed by rollbackEnter: only the epoch stays taken. *)
TryEnterRolledBack(c) ==
    /\ IF routes[c] = None THEN TakeEpoch(c) ELSE UNCHANGED lastEpoch
    /\ UNCHANGED <<routes, handoffs, roomEntries, inRooms, roomReturns, nextId>>

CompleteLeave(c) ==
    /\ routes' = [routes EXCEPT ![c] = None]
    /\ UNCHANGED <<handoffs, roomEntries, inRooms, roomReturns, lastEpoch, nextId>>

Forget(c) ==
    /\ routes' = [routes EXCEPT ![c] = None]
    /\ handoffs' = [handoffs EXCEPT ![c] = None]
    /\ roomEntries' = [roomEntries EXCEPT ![c] = None]
    /\ inRooms' = [inRooms EXCEPT ![c] = None]
    /\ roomReturns' = [roomReturns EXCEPT ![c] = None]
Abandon(c) == Forget(c) /\ UNCHANGED <<lastEpoch, nextId>>
-----------------------------------------------------------------------------
CanBeginHandoff(c, z) ==
    /\ routes[c] # None /\ routes[c].zone # z
    /\ ~Busy(c) /\ Size(handoffs) < MaxTransitions
NewHandoff(c, z, from, to) ==
    [id |-> nextId, source |-> routes[c], target |-> z, targetEpoch |-> NextEpoch(c),
     restoreEpoch |-> 0, lastPosition |-> from, requested |-> to, step |-> "LeaveSource"]
BeginHandoff(c, z, from, to) ==
    /\ handoffs' = [handoffs EXCEPT ![c] = NewHandoff(c, z, from, to)]
    /\ TakeEpoch(c) /\ TakeId
    /\ UNCHANGED <<routes, roomEntries, inRooms, roomReturns>>
(* tryBeginHandoff followed by rollbackHandoffBeforeLeave *)
BeginHandoffRolledBack(c) ==
    /\ TakeEpoch(c) /\ TakeId
    /\ UNCHANGED <<routes, handoffs, roomEntries, inRooms, roomReturns>>

NoteSourceLeft(c, position) ==
    /\ handoffs' = [handoffs EXCEPT ![c].lastPosition = position, ![c].step = "EnterTarget"]
    /\ UNCHANGED <<routes, roomEntries, inRooms, roomReturns, lastEpoch, nextId>>
BeginSourceRestore(c, position) ==
    /\ handoffs' = [handoffs EXCEPT ![c].lastPosition = position, ![c].step = "RestoreSource",
                                    ![c].restoreEpoch = NextEpoch(c)]
    /\ TakeEpoch(c)
    /\ UNCHANGED <<routes, roomEntries, inRooms, roomReturns, nextId>>
(* beginSourceRestore followed by abandon *)
BeginSourceRestoreAbandoned(c) == Forget(c) /\ TakeEpoch(c) /\ UNCHANGED nextId
BeginCleanup(c, step) ==
    /\ handoffs' = [handoffs EXCEPT ![c].step = step]
    /\ UNCHANGED <<routes, roomEntries, inRooms, roomReturns, lastEpoch, nextId>>

(* completeTargetEnter and completeSourceRestore publish the new route. *)
CompleteHandoff(c, route) ==
    /\ routes' = [routes EXCEPT ![c] = route]
    /\ handoffs' = [handoffs EXCEPT ![c] = None]
    /\ UNCHANGED <<roomEntries, inRooms, roomReturns, lastEpoch, nextId>>
-----------------------------------------------------------------------------
CanBeginRoomEntry(c) == routes[c] # None /\ ~Busy(c) /\ Size(roomEntries) < MaxTransitions
BeginRoomEntry(c, r) ==
    /\ roomEntries' = [roomEntries EXCEPT ![c] =
           [id |-> nextId, source |-> routes[c], room |-> r, step |-> "RequestSnapshot"]]
    /\ TakeId
    /\ UNCHANGED <<routes, handoffs, inRooms, roomReturns, lastEpoch>>
BeginRoomEntryRolledBack ==
    /\ TakeId
    /\ UNCHANGED <<routes, handoffs, roomEntries, inRooms, roomReturns, lastEpoch>>
NoteRoomJoined(c) ==
    /\ roomEntries' = [roomEntries EXCEPT ![c].step = "LeaveSource"]
    /\ UNCHANGED <<routes, handoffs, inRooms, roomReturns, lastEpoch, nextId>>
RollbackRoomEntry(c) ==
    /\ roomEntries' = [roomEntries EXCEPT ![c] = None]
    /\ UNCHANGED <<routes, handoffs, inRooms, roomReturns, lastEpoch, nextId>>
CompleteRoomEntry(c, position) ==
    /\ routes' = [routes EXCEPT ![c] = None]
    /\ roomEntries' = [roomEntries EXCEPT ![c] = None]
    /\ inRooms' = [inRooms EXCEPT ![c] =
           [room |-> roomEntries[c].room, zone |-> roomEntries[c].source.zone, position |-> position]]
    /\ UNCHANGED <<handoffs, roomReturns, lastEpoch, nextId>>

CanBeginRoomReturn(c, r) ==
    /\ inRooms[c] # None /\ inRooms[c].room = r
    /\ roomReturns[c] = None /\ Size(roomReturns) < MaxTransitions
NewReturn(c) ==
    [id |-> nextId, room |-> inRooms[c].room, zone |-> inRooms[c].zone, epoch |-> NextEpoch(c),
     position |-> inRooms[c].position]
BeginRoomReturn(c) ==
    /\ inRooms' = [inRooms EXCEPT ![c] = None]
    /\ roomReturns' = [roomReturns EXCEPT ![c] = NewReturn(c)]
    /\ TakeEpoch(c) /\ TakeId
    /\ UNCHANGED <<routes, handoffs, roomEntries>>
(* tryBeginRoomReturn followed by abandonRoomReturn: the player is nowhere. *)
BeginRoomReturnAbandoned(c) ==
    /\ inRooms' = [inRooms EXCEPT ![c] = None]
    /\ TakeEpoch(c) /\ TakeId
    /\ UNCHANGED <<routes, handoffs, roomEntries, roomReturns>>
CompleteRoomReturn(c) ==
    /\ routes' = [routes EXCEPT ![c] = [zone |-> roomReturns[c].zone, epoch |-> roomReturns[c].epoch]]
    /\ roomReturns' = [roomReturns EXCEPT ![c] = None]
    /\ UNCHANGED <<handoffs, roomEntries, inRooms, lastEpoch, nextId>>
AbandonRoomReturn(c) ==
    /\ roomReturns' = [roomReturns EXCEPT ![c] = None]
    /\ UNCHANGED <<routes, handoffs, roomEntries, inRooms, lastEpoch, nextId>>
=============================================================================
