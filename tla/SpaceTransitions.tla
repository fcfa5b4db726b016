-------------------------- MODULE SpaceTransitions --------------------------
(***************************************************************************)
(* How a player changes space.  The reactor runs the protocol gateway, the *)
(* zone handoff service and the room entry service (protocol_gateway.cpp,  *)
(* zone_handoff_service.cpp, room_entry_service.cpp): it posts commands to *)
(* the actors of SpaceActors, takes their results from the transition      *)
(* channels and keeps the record of RouteCoordinator.  Disconnects and     *)
(* shutdown may come at any moment.                                        *)
(*                                                                         *)
(* One action is one reactor handler; the actors' steps interleave with    *)
(* them.  Requests the gateway answers without changing anything           *)
(* (TransitionInProgress, InRoom, InvalidPayload) are left out.            *)
(***************************************************************************)
EXTENDS SpaceActors

CONSTANTS MaxCompletionsPerTurn,        \* _max_completions_per_turn of both services
          MaxEpoch, MaxIds, MaxMail     \* bounds on the clients' requests

ASSUME BoundsAssumption == MaxEpoch \in Nat /\ MaxIds \in Nat /\ MaxMail \in Nat
ASSUME PerTurnAssumption ==
    MaxCompletionsPerTurn \in 1 .. MaxTransitions /\ MaxCompletionsPerTurn <= RoomCapacity

VARIABLES
    conn,           \* connection -> open, stopping (beginShutdown is to post its close), closing
                    \* (its close is to be retried) or closed
    activeHandoffs, \* ZoneHandoffService::_active
    activeEntries,  \* RoomEntryService::_active_entries
    activeReturns,  \* RoomEntryService::_active_returns
    drain,          \* the queue drainTransitions is at, and how many it may still take from it;
                    \* or the loop of beginShutdown, called for a stop or to abort
    stopping        \* TcpServer::_is_stopping

serviceVars == <<activeHandoffs, activeEntries, activeReturns>>
reactorVars == <<conn, serviceVars, drain, stopping>>
vars == <<routeVars, actorVars, reactorVars>>

Idle == [at |-> "idle", left |-> 0]
Active == [id : Nat, disconnecting : BOOLEAN]
TypeOK ==
    /\ RouteTypeOK /\ ActorTypeOK
    /\ conn \in [Connections -> {"open", "stopping", "closing", "closed"}]
    /\ activeHandoffs \in [Connections -> Active \cup {None}]
    /\ activeEntries \in [Connections -> Active \cup {None}]
    /\ activeReturns \in [Connections -> Active \cup {None}]
    /\ drain \in [at : {"idle", "zone", "room", "return", "shutdown", "abort"}, left : 0 .. MaxCompletionsPerTurn]
    /\ stopping \in BOOLEAN

Init ==
    /\ RouteInit /\ ActorInit
    /\ conn = [c \in Connections |-> "open"]
    /\ activeHandoffs = [c \in Connections |-> None]
    /\ activeEntries = [c \in Connections |-> None]
    /\ activeReturns = [c \in Connections |-> None]
    /\ drain = Idle
    /\ stopping = FALSE
-----------------------------------------------------------------------------
Erased(active, c) == [active EXCEPT ![c] = None]
Started(active, c) == [active EXCEPT ![c] = [id |-> nextId, disconnecting |-> FALSE]]
For(c, kind, id, step) == [kind |-> kind, connection |-> c, id |-> id, step |-> step]
Enter(c, epoch, position, for) ==
    [cmd |-> "Enter", player |-> PlayerOf[c], epoch |-> epoch, position |-> position, for |-> for]
Leave(c, epoch, for) == [cmd |-> "Leave", player |-> PlayerOf[c], epoch |-> epoch, for |-> for]

(* A frame reaches the gateway from an open connection with a session,      *)
(* whether or not its login has been answered.                              *)
Requests(c) == conn[c] = "open" /\ ~stopping /\ drain = Idle /\ session[c] # None
PlayerFreeAlways(p) == TRUE      \* Mutant: a second session of the player is attached
PlayerFree(p) == \A c \in Connections : PlayerOf[c] = p => session[c] = None

(* A login attaches the player; repeated, it is one more command of the player. *)
Authenticate(c) ==
    /\ conn[c] = "open" /\ ~stopping /\ drain = Idle
    /\ \/ /\ session[c] = None /\ PlayerFree(PlayerOf[c])
          /\ session' = [session EXCEPT ![c] =
                            [state |-> "Active", known |-> FALSE, location |-> None,
                             overwritten |-> FALSE]]
       \/ /\ session[c] # None /\ Len(playerMail[PlayerOf[c]]) < MaxMail
          /\ UNCHANGED session
    /\ Posted(playerMail, PlayerOf[c], [cmd |-> "Authenticate", connection |-> c])
    /\ UNCHANGED <<routeVars, zoneVars, roomVars, player, stored, channelVars, faultVars,
                   reactorVars>>

(* The last position restores the player to the zone it was in. *)
EntryPosition(c, z, position) ==
    IF session[c].location # None /\ session[c].location.zone = z
    THEN session[c].location.position ELSE position

EnterZone(c, z, position) ==
    /\ Requests(c) /\ CanEnter(c, z)
    /\ lastEpoch[PlayerOf[c]] < MaxEpoch /\ Len(zoneMail[z]) < MaxMail
    /\ LET at == EntryPosition(c, z, position)
       IN \/ /\ TryEnter(c, z)
             /\ Posted(zoneMail, z, Enter(c, EnterRoute(c, z).epoch, at, None))
             /\ IF routes[c] = None THEN NoteLocation(c, [zone |-> z, position |-> at])
                                    ELSE UNCHANGED session
             /\ UNCHANGED faultVars
          \/ /\ TryEnterRolledBack(c) /\ Refused(1)
             /\ UNCHANGED <<zoneMail, session>>
    /\ UNCHANGED <<zones, roomVars, playerVars, channelVars, reactorVars>>

LeaveZone(c) ==
    /\ Requests(c) /\ RouteFor(c) # None /\ Len(zoneMail[routes[c].zone]) < MaxMail
    /\ Posted(zoneMail, routes[c].zone, Leave(c, routes[c].epoch, None))
    /\ CompleteLeave(c) /\ NoteLocation(c, None)
    /\ UNCHANGED <<zones, roomVars, playerVars, channelVars, faultVars, reactorVars>>

Move(c, position) ==
    /\ Requests(c) /\ RouteFor(c) # None /\ Len(zoneMail[routes[c].zone]) < MaxMail
    /\ Posted(zoneMail, routes[c].zone,
              [cmd |-> "Move", player |-> PlayerOf[c], epoch |-> routes[c].epoch,
               position |-> position, for |-> None])
    /\ NoteLocation(c, [zone |-> routes[c].zone, position |-> position])
    /\ UNCHANGED <<routeVars, zones, roomVars, playerVars, channelVars, faultVars, reactorVars>>
-----------------------------------------------------------------------------
(* Mutant: only zone completions wake the reactor *)
BeginDrainZones ==
    /\ drain = Idle /\ ~cancelled /\ zoneQueue # << >>
    /\ drain' = [at |-> "zone", left |-> MaxCompletionsPerTurn]
    /\ UNCHANGED <<routeVars, actorVars, conn, serviceVars, stopping>>
(* drainTransitions, when a channel woke the reactor: zone completions, room *)
(* completions, then return requests, no client being served in between.    *)
Drain(at) == [at |-> at, left |-> MaxCompletionsPerTurn]
BeginDrain ==
    /\ drain = Idle /\ ~cancelled
    /\ ~(zoneQueue = << >> /\ roomQueue = << >> /\ returnQueue = << >>)
    /\ drain' = Drain("zone")
    /\ UNCHANGED <<routeVars, actorVars, conn, serviceVars, stopping>>
DrainOne == drain.left > 0 /\ drain' = [drain EXCEPT !.left = @ - 1]
DrainNext ==
    /\ CASE drain.at = "zone" ->
              (drain.left > 0 => zoneQueue = << >>) /\ drain' = Drain("room")
         [] drain.at = "room" ->
              (drain.left > 0 => roomQueue = << >>) /\ drain' = Drain("return")
         [] drain.at = "return" ->
              (drain.left > 0 => returnQueue = << >>) /\ drain' = Idle
         [] drain.at = "shutdown" ->
              (\A c \in Connections : conn[c] # "stopping") /\ drain' = Idle
         [] OTHER -> FALSE
    /\ UNCHANGED <<routeVars, actorVars, conn, serviceVars, stopping>>
-----------------------------------------------------------------------------
(* ZoneHandoffService *)

(* tryStart, called for EnterZone into another zone than the route's *)
StartHandoff(c, z, position) ==
    /\ Requests(c) /\ CanBeginHandoff(c, z)
    /\ lastEpoch[PlayerOf[c]] < MaxEpoch /\ nextId <= MaxIds
    /\ session[c].location # None /\ session[c].location.zone = routes[c].zone
    /\ LET h == NewHandoff(c, z, session[c].location.position, EntryPosition(c, z, position))
       IN \/ /\ Cardinality(zoneReserved) < MaxTransitions
             /\ BeginHandoff(c, z, h.lastPosition, h.requested)
             /\ zoneReserved' = zoneReserved \cup {nextId}
             /\ activeHandoffs' = Started(activeHandoffs, c)
             /\ Posted(zoneMail, h.source.zone,
                       Leave(c, h.source.epoch, For(c, "handoff", nextId, "LeaveSource")))
             /\ UNCHANGED faultVars
          \/ /\ BeginHandoffRolledBack(c)
             /\ IF Cardinality(zoneReserved) < MaxTransitions THEN Refused(1) ELSE Refused(0)
             /\ UNCHANGED <<zoneReserved, activeHandoffs, zoneMail>>
    /\ UNCHANGED <<zones, roomVars, playerVars, session, zoneQueue, roomReserved, roomQueue,
                   returnQueue, cancelled, runtimeFailed, conn, activeEntries, activeReturns, drain, stopping>>

(* postStage *)
StageZone(h, step) == IF step \in {"EnterTarget", "CleanupTarget"} THEN h.target ELSE h.source.zone
StageEpoch(h, step) ==
    CASE step = "LeaveSource" -> h.source.epoch
      [] step \in {"EnterTarget", "CleanupTarget"} -> h.targetEpoch
      [] OTHER -> h.restoreEpoch
StageCommand(c, h, step) ==
    LET for == For(c, "handoff", h.id, step)
    IN CASE step = "EnterTarget" -> Enter(c, h.targetEpoch, h.requested, for)
         [] step = "RestoreSource" -> Enter(c, h.restoreEpoch, h.lastPosition, for)
         [] OTHER -> Leave(c, StageEpoch(h, step), for)
PostStage(c, h, step) == Posted(zoneMail, StageZone(h, step), StageCommand(c, h, step))

IsValidCompletion(c, m) ==
    /\ handoffs[c] # None /\ activeHandoffs[c] # None
    /\ m.for.id = handoffs[c].id /\ m.for.step = handoffs[c].step
    /\ m.zone = StageZone(handoffs[c], m.for.step) /\ m.epoch = StageEpoch(handoffs[c], m.for.step)

(* finishActiveHandoff *)
FinishHandoff(c) ==
    /\ zoneReserved' = zoneReserved \ {activeHandoffs[c].id}
    /\ activeHandoffs' = Erased(activeHandoffs, c)
(* finishDisconnectedHandoff and finishFatalHandoff, after n commands were   *)
(* refused: the player is nowhere, and a connection still there is reported. *)
FinishNowhere(c, n, losses) ==
    /\ NoteLocation(c, None) /\ FinishHandoff(c) /\ UNCHANGED zoneMail
    /\ Fault(n, losses, IF activeHandoffs[c].disconnecting THEN {} ELSE {c})
(* The new route is published only now. *)
FinishAt(c, route, position) ==
    /\ CompleteHandoff(c, route)
    /\ NoteLocation(c, [zone |-> route.zone, position |-> position])
    /\ FinishHandoff(c)
    /\ UNCHANGED zoneMail

(* n commands of this handler were refused before. *)
SourceRestore(c, position, n) ==
    \/ /\ BeginSourceRestore(c, position) /\ Refused(n)
       /\ PostStage(c, [handoffs[c] EXCEPT !.lastPosition = position, !.restoreEpoch = NextEpoch(c)],
                    "RestoreSource")
       /\ UNCHANGED <<session, zoneReserved, activeHandoffs>>
    \/ BeginSourceRestoreAbandoned(c) /\ FinishNowhere(c, n + 1, {})

DisconnectCleanup(c, step) ==
    \/ /\ BeginCleanup(c, step) /\ Refused(0)
       /\ PostStage(c, handoffs[c], step)
       /\ UNCHANGED <<session, zoneReserved, activeHandoffs>>
    \/ /\ Abandon(c)
       /\ FinishNowhere(c, 1, {<<"entity", StageZone(handoffs[c], step), PlayerOf[c],
                                StageEpoch(handoffs[c], step)>>})

SourceLeft(c, m) ==
    IF m.status # "Applied" \/ activeHandoffs[c].disconnecting
    THEN Abandon(c) /\ FinishNowhere(c, 0, {})
    ELSE \/ /\ NoteSourceLeft(c, m.position) /\ Refused(0)
            /\ PostStage(c, handoffs[c], "EnterTarget")
            /\ UNCHANGED <<session, zoneReserved, activeHandoffs>>
         \/ SourceRestore(c, m.position, 1)

TargetEnteredUncleaned(c, m) ==    \* Mutant: a disconnected player stays in the target
    LET h == handoffs[c]
    IN IF activeHandoffs[c].disconnecting THEN Abandon(c) /\ FinishNowhere(c, 0, {})
       ELSE FinishAt(c, [zone |-> h.target, epoch |-> h.targetEpoch], m.position) /\ Refused(0)
TargetEntered(c, m) ==
    LET h == handoffs[c]
    IN IF m.status \notin {"Applied", "AlreadyPresent"}
       THEN IF activeHandoffs[c].disconnecting
            THEN Abandon(c) /\ FinishNowhere(c, 0, {})
            ELSE SourceRestore(c, h.lastPosition, 0)
       ELSE IF activeHandoffs[c].disconnecting THEN DisconnectCleanup(c, "CleanupTarget")
       ELSE FinishAt(c, [zone |-> h.target, epoch |-> h.targetEpoch], m.position) /\ Refused(0)

SourceRestored(c, m) ==
    LET h == handoffs[c]
    IN IF m.status \notin {"Applied", "AlreadyPresent"}
       THEN Abandon(c) /\ FinishNowhere(c, 0, {})
       ELSE IF activeHandoffs[c].disconnecting THEN DisconnectCleanup(c, "CleanupSource")
       ELSE FinishAt(c, [zone |-> h.source.zone, epoch |-> h.restoreEpoch], m.position) /\ Refused(0)

(* handleCompletion of the next completion in the zone channel *)
DrainZone ==
    /\ drain.at = "zone" /\ zoneQueue # << >> /\ DrainOne
    /\ zoneQueue' = Tail(zoneQueue)
    /\ LET m == Head(zoneQueue)
           c == m.for.connection
       IN IF ~IsValidCompletion(c, m)
          THEN UNCHANGED <<routeVars, zoneMail, session, zoneReserved, activeHandoffs, faultVars>>
          ELSE CASE m.for.step = "LeaveSource" -> SourceLeft(c, m)
                 [] m.for.step = "EnterTarget" -> TargetEntered(c, m)
                 [] m.for.step = "RestoreSource" -> SourceRestored(c, m)
                 [] OTHER -> Abandon(c) /\ FinishNowhere(c, 0, {})
    /\ UNCHANGED <<zones, roomVars, playerVars, roomReserved, roomQueue, returnQueue, cancelled,
                   runtimeFailed, conn, activeEntries, activeReturns, stopping>>
-----------------------------------------------------------------------------
(* RoomEntryService *)

FinishEntry(c) ==
    /\ roomReserved' = roomReserved \ {activeEntries[c].id}
    /\ activeEntries' = Erased(activeEntries, c)
    /\ UNCHANGED activeReturns
(* The result of posting LeaveRoom is ignored: k says whether it is refused, *)
(* n how many commands of the handler were refused before.                   *)
LeaveRoom(c, r, k) ==
    IF k = 0 THEN Posted(roomMail, r, [cmd |-> "Leave", player |-> PlayerOf[c]])
             ELSE UNCHANGED roomMail
SeatLost(c, r, k) == IF k = 0 THEN {} ELSE {<<"seat", r, PlayerOf[c]>>}
TryLeaveRoom(c, r, n) ==
    \E k \in 0 .. 1 : LeaveRoom(c, r, k) /\ Fault(n + k, SeatLost(c, r, k), {})

RoomJoinRequest(c, r) ==
    /\ Requests(c) /\ CanBeginRoomEntry(c) /\ nextId <= MaxIds
    /\ \/ /\ Cardinality(roomReserved) < RoomCapacity
          /\ BeginRoomEntry(c, r)
          /\ roomReserved' = roomReserved \cup {nextId}
          /\ activeEntries' = Started(activeEntries, c)
          /\ Posted(playerMail, PlayerOf[c],
                    [cmd |-> "JoinRoomRequest", connection |-> c, room |-> r,
                     for |-> For(c, "entry", nextId, "JoinRoom")])
          /\ Refused(0)
       \/ /\ BeginRoomEntryRolledBack
          /\ IF Cardinality(roomReserved) < RoomCapacity THEN Refused(1) ELSE Refused(0)
          /\ UNCHANGED <<roomReserved, activeEntries, playerMail>>
    /\ UNCHANGED <<zoneVars, roomVars, player, stored, session, zoneReserved, zoneQueue,
                   roomQueue, returnQueue, cancelled, runtimeFailed, conn, activeHandoffs,
                   activeReturns, drain, stopping>>

RoomJoinedReleased(c, m) ==     \* Mutant: the reservation is released before the source zone is left
    LET e == roomEntries[c]
    IN /\ roomReserved' = roomReserved \ {e.id}
       /\ IF m.status # "Applied"
          THEN /\ RollbackRoomEntry(c) /\ activeEntries' = Erased(activeEntries, c)
               /\ UNCHANGED zoneMail
          ELSE /\ NoteRoomJoined(c) /\ UNCHANGED activeEntries
               /\ Posted(zoneMail, e.source.zone,
                         Leave(c, e.source.epoch, For(c, "entry", e.id, "LeaveSource")))
       /\ Refused(0) /\ UNCHANGED <<roomMail, session, activeReturns>>
RoomJoinedUncompensated(c, m) ==    \* Mutant: the seat of a disconnected player is kept
    LET e == roomEntries[c]
    IN IF m.status # "Applied" \/ activeEntries[c].disconnecting
       THEN /\ RollbackRoomEntry(c) /\ FinishEntry(c) /\ Refused(0)
            /\ UNCHANGED <<zoneMail, roomMail, session>>
       ELSE /\ NoteRoomJoined(c) /\ Refused(0)
            /\ Posted(zoneMail, e.source.zone,
                      Leave(c, e.source.epoch, For(c, "entry", e.id, "LeaveSource")))
            /\ UNCHANGED <<roomMail, session, roomReserved, activeEntries, activeReturns>>
(* handleJoinRoomCompletion *)
RoomJoined(c, m) ==
    LET e == roomEntries[c]
    IN IF m.status # "Applied"
       THEN /\ RollbackRoomEntry(c) /\ FinishEntry(c) /\ Refused(0)
            /\ UNCHANGED <<zoneMail, roomMail, session>>
       ELSE IF activeEntries[c].disconnecting
       THEN /\ TryLeaveRoom(c, e.room, 0)
            /\ RollbackRoomEntry(c) /\ FinishEntry(c)
            /\ UNCHANGED <<zoneMail, session>>
       ELSE \/ /\ NoteRoomJoined(c) /\ Refused(0)
               /\ Posted(zoneMail, e.source.zone,
                         Leave(c, e.source.epoch, For(c, "entry", e.id, "LeaveSource")))
               /\ UNCHANGED <<roomMail, session, roomReserved, activeEntries, activeReturns>>
            \/ \* compensateFailedSourceLeave
               /\ TryLeaveRoom(c, e.room, 1)
               /\ RollbackRoomEntry(c) /\ FinishEntry(c)
               /\ UNCHANGED <<zoneMail, session>>

EntrySourceLeftRolledBack(c, m) ==     \* Mutant: a disconnect falls back to the zone already left
    LET e == roomEntries[c]
    IN /\ FinishEntry(c) /\ UNCHANGED <<zoneMail, session>>
       /\ IF activeEntries[c].disconnecting
          THEN RollbackRoomEntry(c) /\ TryLeaveRoom(c, e.room, 0)
          ELSE CompleteRoomEntry(c, m.position) /\ Refused(0) /\ UNCHANGED roomMail
EntrySourceLeftNowhere(c, m) ==     \* Mutant: the point of return is cleared on entry
    /\ FinishEntry(c) /\ CompleteRoomEntry(c, m.position) /\ NoteLocation(c, None)
    /\ Refused(0) /\ UNCHANGED <<zoneMail, roomMail>>
(* handleLeaveSourceCompletion *)
EntrySourceLeft(c, m) ==
    LET e == roomEntries[c]
    IN /\ FinishEntry(c) /\ UNCHANGED zoneMail
       /\ IF m.status # "Applied"
          THEN RollbackRoomEntry(c) /\ TryLeaveRoom(c, e.room, 0) /\ UNCHANGED session
          ELSE IF activeEntries[c].disconnecting
          THEN Abandon(c) /\ TryLeaveRoom(c, e.room, 0) /\ NoteLocation(c, None)
          ELSE CompleteRoomEntry(c, m.position) /\ Refused(0) /\ UNCHANGED <<roomMail, session>>

(* handleReturnZoneCompletion; the zone keeps a player who has disconnected. *)
Returned(c, m) ==
    LET back == roomReturns[c]
    IN /\ roomReserved' = roomReserved \ {activeReturns[c].id}
       /\ activeReturns' = Erased(activeReturns, c)
       /\ UNCHANGED <<zoneMail, roomMail, activeEntries>>
       /\ IF m.status \notin {"Applied", "AlreadyPresent"}
          THEN AbandonRoomReturn(c) /\ NoteLocation(c, None) /\ Fault(0, {}, {c})
          ELSE IF activeReturns[c].disconnecting
          THEN /\ Abandon(c) /\ NoteLocation(c, None)
               /\ Fault(0, {<<"entity", back.zone, PlayerOf[c], back.epoch>>}, {})
          ELSE /\ CompleteRoomReturn(c) /\ Refused(0)
               /\ NoteLocation(c, [zone |-> back.zone, position |-> m.position])

(* handleCompletion of the next completion in the room channel *)
DrainRoom ==
    /\ drain.at = "room" /\ roomQueue # << >> /\ DrainOne
    /\ roomQueue' = Tail(roomQueue)
    /\ LET m == Head(roomQueue)
           c == m.for.connection
       IN CASE m.for.step = "ReturnZone" /\ activeReturns[c] # None -> Returned(c, m)
            [] m.for.step = "JoinRoom" /\ activeEntries[c] # None -> RoomJoined(c, m)
            [] m.for.step = "LeaveSource" /\ activeEntries[c] # None -> EntrySourceLeft(c, m)
            [] OTHER -> UNCHANGED <<routeVars, zoneMail, roomMail, session, roomReserved,
                                    activeEntries, activeReturns, faultVars>>
    /\ UNCHANGED <<zones, rooms, playerVars, zoneReserved, zoneQueue, returnQueue, cancelled,
                   runtimeFailed, conn, activeHandoffs, stopping>>

StartReturn(c, r) ==
    IF ~CanBeginRoomReturn(c, r)
    THEN UNCHANGED <<routeVars, zoneMail, session, roomReserved, activeReturns>> /\ Refused(0)
    ELSE \/ /\ Cardinality(roomReserved) < RoomCapacity
            /\ BeginRoomReturn(c)
            /\ roomReserved' = roomReserved \cup {nextId}
            /\ activeReturns' = Started(activeReturns, c)
            /\ Posted(zoneMail, inRooms[c].zone,
                      Enter(c, NextEpoch(c), inRooms[c].position, For(c, "return", nextId, "ReturnZone")))
            /\ Refused(0) /\ UNCHANGED session
         \/ /\ BeginRoomReturnAbandoned(c) /\ NoteLocation(c, None)
            /\ Fault(IF Cardinality(roomReserved) < RoomCapacity THEN 1 ELSE 0, {}, {c})
            /\ UNCHANGED <<zoneMail, roomReserved, activeReturns>>

(* A battle is over: the next participant returns. *)
DrainReturn ==
    /\ drain.at = "return" /\ returnQueue # << >> /\ DrainOne
    /\ returnQueue' = Tail(returnQueue)
    /\ LET request == Head(returnQueue)
           owners == {c \in Connections : /\ PlayerOf[c] = request.player
                                          /\ session[c] # None /\ session[c].state = "Active"}
       IN IF owners = {}
          THEN UNCHANGED <<routeVars, zoneMail, session, roomReserved, activeReturns, faultVars>>
          ELSE \E c \in owners : StartReturn(c, request.room)
    /\ UNCHANGED <<zones, roomVars, playerVars, zoneReserved, zoneQueue, roomQueue, cancelled,
                   runtimeFailed, conn, activeHandoffs, activeEntries, stopping>>

RoomLeaveRequest(c) ==
    /\ Requests(c) /\ inRooms[c] # None
    /\ LeaveRoom(c, inRooms[c].room, 0)
    /\ StartReturn(c, inRooms[c].room)
    /\ UNCHANGED <<zones, rooms, playerVars, zoneReserved, zoneQueue, roomQueue, returnQueue, cancelled,
                   runtimeFailed, conn, activeHandoffs, activeEntries, drain, stopping>>

BattleStart(c) ==
    /\ Requests(c) /\ inRooms[c] # None /\ Len(roomMail[inRooms[c].room]) < MaxMail
    /\ Posted(roomMail, inRooms[c].room, [cmd |-> "StartBattle"])
    /\ UNCHANGED <<routeVars, zoneVars, rooms, playerVars, channelVars, session, faultVars, reactorVars>>
-----------------------------------------------------------------------------
(* tryPostConnectionClosed: a transition under way is told and the close is *)
(* tried again later (Full); otherwise the space is left and the player     *)
(* actor is told.                                                           *)
NoteDisconnect(c) ==
    /\ activeHandoffs' = [activeHandoffs EXCEPT ![c] =
           IF @ = None THEN None ELSE [@ EXCEPT !.disconnecting = TRUE]]
    /\ activeEntries' = [activeEntries EXCEPT ![c] =
           IF @ = None THEN None ELSE [@ EXCEPT !.disconnecting = TRUE]]
    /\ activeReturns' = [activeReturns EXCEPT ![c] =
           IF @ = None THEN None ELSE [@ EXCEPT !.disconnecting = TRUE]]
    /\ conn' = [conn EXCEPT ![c] = "closing"]
    /\ UNCHANGED <<routeVars, zoneMail, roomMail, playerMail, session, faultVars>>

PostClosedOnce(c, s, n, losses) ==     \* Mutant: a refused close is not kept for a retry
    /\ conn' = [conn EXCEPT ![c] = "closed"]
    /\ UNCHANGED serviceVars
    /\ \/ /\ session' = [session EXCEPT ![c] = [s EXCEPT !.state = "Closing"]]
          /\ Posted(playerMail, PlayerOf[c], [cmd |-> "ConnectionClosed", connection |-> c,
                                              known |-> s.known, location |-> s.location])
          /\ Fault(n, losses, {})
       \/ session' = [session EXCEPT ![c] = s] /\ Fault(n + 1, losses, {}) /\ UNCHANGED playerMail
(* Accepted, Full (rollbackClose) or, from a runtime that is down, Closed   *)
(* (the session is abandoned).                                              *)
PostClosed(c, s, n, losses) ==
    /\ UNCHANGED serviceVars
    /\ \/ /\ session' = [session EXCEPT ![c] = [s EXCEPT !.state = "Closing"]]
          /\ Posted(playerMail, PlayerOf[c], [cmd |-> "ConnectionClosed", connection |-> c,
                                              known |-> s.known, location |-> s.location])
          /\ conn' = [conn EXCEPT ![c] = "closed"]
          /\ Fault(n, losses, {})
       \/ /\ ~RuntimeDown
          /\ session' = [session EXCEPT ![c] = s]
          /\ conn' = [conn EXCEPT ![c] = "closing"]
          /\ Fault(n + 1, losses, {})
          /\ UNCHANGED playerMail
       \/ /\ RuntimeDown
          /\ session' = [session EXCEPT ![c] = None]
          /\ conn' = [conn EXCEPT ![c] = "closed"]
          /\ Fault(n, losses, {})
          /\ UNCHANGED playerMail

TryPostConnectionClosed(c) ==
    /\ CASE activeHandoffs[c] # None \/ activeEntries[c] # None \/ activeReturns[c] # None ->
              NoteDisconnect(c)
         [] inRooms[c] # None ->
              \E k \in 0 .. 1 :
                 /\ LeaveRoom(c, inRooms[c].room, k) /\ Abandon(c)
                 /\ PostClosed(c, NotedLocation(session[c], None, FALSE), k,
                               SeatLost(c, inRooms[c].room, k))
                 /\ UNCHANGED zoneMail
         [] RouteFor(c) # None ->
              \/ /\ \/ Posted(zoneMail, routes[c].zone, Leave(c, routes[c].epoch, None))
                    \/ RuntimeDown /\ UNCHANGED zoneMail
                 /\ CompleteLeave(c) /\ PostClosed(c, session[c], 0, {})
                 /\ UNCHANGED roomMail
              \/ /\ ~RuntimeDown /\ conn' = [conn EXCEPT ![c] = "closing"] /\ Refused(1)
                 /\ UNCHANGED <<routeVars, zoneMail, roomMail, playerMail, session, serviceVars>>
         [] OTHER ->
              PostClosed(c, session[c], 0, {}) /\ UNCHANGED <<routeVars, zoneMail, roomMail>>
    /\ UNCHANGED <<zones, rooms, player, stored, channelVars, drain, stopping>>

Disconnect(c) ==
    conn[c] = "open" /\ session[c] # None /\ drain = Idle /\ ~cancelled /\ TryPostConnectionClosed(c)
RetryClose(c) ==
    conn[c] = "closing" /\ drain = Idle /\ ~cancelled /\ TryPostConnectionClosed(c)

(* beginShutdown posts the close of every open connection, one after the    *)
(* other, before the reactor does anything else.  It is called for a stop   *)
(* or, after notifyFailed, to abort, and then cancel() follows at once.     *)
BeginShutdown ==
    /\ ~stopping /\ drain = Idle /\ stopping' = TRUE
    /\ conn' = [c \in Connections |->
                   IF conn[c] = "open" THEN IF session[c] = None THEN "closed" ELSE "stopping"
                                       ELSE conn[c]]
    /\ \E at \in {"shutdown", "abort"} :
          (at = "abort" => runtimeFailed # "no") /\ drain' = [at |-> at, left |-> 0]
    /\ UNCHANGED <<routeVars, actorVars, serviceVars>>
ShutdownClose(c) ==
    drain.at \in {"shutdown", "abort"} /\ conn[c] = "stopping" /\ TryPostConnectionClosed(c)

(* The grace period is over or the runtime has failed: cancel() of both     *)
(* services.                                                                *)
Cancel ==
    LET transitions == {c \in Connections : \/ activeHandoffs[c] # None \/ activeEntries[c] # None
                                            \/ activeReturns[c] # None}
        Without(map) == [c \in Connections |-> IF c \in transitions THEN None ELSE map[c]]
    IN /\ stopping /\ ~cancelled
       /\ drain = Idle \/ (drain.at = "abort" /\ \A c \in Connections : conn[c] # "stopping")
       /\ drain' = Idle
       /\ cancelled' = TRUE
       /\ zoneReserved' = {} /\ zoneQueue' = << >>
       /\ roomReserved' = {} /\ roomQueue' = << >> /\ returnQueue' = << >>
       /\ activeHandoffs' = [c \in Connections |-> None]
       /\ activeEntries' = [c \in Connections |-> None]
       /\ activeReturns' = [c \in Connections |-> None]
       /\ routes' = Without(routes) /\ handoffs' = Without(handoffs)
       /\ roomEntries' = Without(roomEntries) /\ inRooms' = Without(inRooms)
       /\ roomReturns' = Without(roomReturns)
       /\ session' = [c \in Connections |->
              IF c \in transitions THEN NotedLocation(session[c], None, FALSE) ELSE session[c]]
       /\ UNCHANGED <<lastEpoch, nextId, zoneVars, roomVars, playerVars, runtimeFailed, faultVars,
                      conn, stopping>>
-----------------------------------------------------------------------------
(* The actors run until the runtime has cancelled itself. *)
Actor(turn) == ~RuntimeDown /\ turn /\ UNCHANGED <<routeVars, reactorVars>>
ActorStep ==
    \/ \E z \in Zones : Actor(ZoneTurn(z))
    \/ \E r \in Rooms : Actor(RoomTurn(r)) \/ Actor(BattleEnds(r))
    \/ \E p \in Players : \/ Actor(PlayerTurn(p)) \/ Actor(LoadCompletes(p)) \/ Actor(LoadFails(p))
                         \/ Actor(SaveCompletes(p)) \/ Actor(SaveFails(p))

ReactorStep ==
    \/ \E c \in Connections :
          \/ Authenticate(c) \/ LeaveZone(c) \/ RoomLeaveRequest(c) \/ BattleStart(c)
          \/ \E p \in Positions : Move(c, p)
          \/ \E z \in Zones, p \in Positions : EnterZone(c, z, p) \/ StartHandoff(c, z, p)
          \/ \E r \in Rooms : RoomJoinRequest(c, r)
          \/ Disconnect(c) \/ RetryClose(c) \/ ShutdownClose(c)
    \/ BeginDrain \/ DrainZone \/ DrainRoom \/ DrainReturn \/ DrainNext
    \/ BeginShutdown \/ Cancel

Next == ActorStep \/ ReactorStep
Spec == Init /\ [][Next]_vars
-----------------------------------------------------------------------------
(* Properties *)

SameIds(active, map) ==
    \A c \in Connections : IF active[c] = None THEN map[c] = None
                           ELSE map[c] # None /\ map[c].id = active[c].id
IdsOf(active) == {active[c].id : c \in {d \in Connections : active[d] # None}}
(* "At most one transition per connection is under way": the coordinator's  *)
(* four maps exclude one another, a player in a room or returning from one  *)
(* has no route, and each service's active record is the coordinator's, by  *)
(* id, with exactly its reservation in the channel.                         *)
TransitionExclusive ==
    /\ \A c \in Connections :
          /\ Cardinality({i \in 1 .. 4 : <<handoffs, roomEntries, inRooms, roomReturns>>[i][c] # None}) <= 1
          /\ inRooms[c] # None \/ roomReturns[c] # None => routes[c] = None
          /\ handoffs[c] # None => routes[c] = handoffs[c].source
          /\ roomEntries[c] # None => routes[c] = roomEntries[c].source
    /\ SameIds(activeHandoffs, handoffs)
    /\ SameIds(activeEntries, roomEntries)
    /\ SameIds(activeReturns, roomReturns)
    /\ zoneReserved = IdsOf(activeHandoffs)
    /\ roomReserved = IdsOf(activeEntries) \cup IdsOf(activeReturns)

CarriersIn(mail, id) ==
    {<<a, i>> \in UNION {{a} \X DOMAIN mail[a] : a \in DOMAIN mail} :
        /\ "for" \in DOMAIN mail[a][i] /\ mail[a][i].for # None /\ mail[a][i].for.id = id}
Carriers(id) ==
    Cardinality(CarriersIn(zoneMail, id)) + Cardinality(CarriersIn(roomMail, id))
    + Cardinality(CarriersIn(playerMail, id))
    + Cardinality(CarriersIn([p \in Players |-> IF player[p].command = None THEN << >>
                                                ELSE <<player[p].command>>], id))
    + Cardinality(CarriersIn([q \in {1} |-> zoneQueue], id))
    + Cardinality(CarriersIn([q \in {1} |-> roomQueue], id))
(* The entry under way whose join advance() dropped with a failed load. *)
Unanswered(c) == roomEntries[c] # None /\ <<"join", roomEntries[c].id>> \in lost
(* A transition has no timeout, so it must always have its answer coming:   *)
(* exactly one command, suspended player command or completion carries the  *)
(* id of each transition under way.  The only exception is a room entry     *)
(* whose join was dropped because its player's record failed to load:       *)
(* nothing will ever answer that one.                                       *)
TransitionAnswered ==
    \A id \in IdsOf(activeHandoffs) \cup IdsOf(activeEntries) \cup IdsOf(activeReturns) :
        Carriers(id) = IF <<"join", id>> \in lost THEN 0 ELSE 1

(* An actor's result always finds its reservation: as long as the channels  *)
(* are not cancelled, no result is refused, which would stop the server     *)
(* (notifyFailed).                                                          *)
PublishAccepted == runtimeFailed = "result" => cancelled

(* What each zone will hold once its queued commands are applied. *)
Projected(z, p) ==
    FoldLeft(LAMBDA entity, m : IF m.player = p THEN ZoneEntity(entity, m) ELSE entity,
             zones[z][p], zoneMail[z])
(* Where the coordinator's record says the player will then be. *)
Expected(c) ==
    CASE handoffs[c] # None ->
           IF handoffs[c].step \in {"EnterTarget", "RestoreSource"}
           THEN {[zone |-> StageZone(handoffs[c], handoffs[c].step),
                  epoch |-> StageEpoch(handoffs[c], handoffs[c].step)]} ELSE {}
      [] roomEntries[c] # None ->
           IF roomEntries[c].step = "LeaveSource" THEN {} ELSE {routes[c]}
      [] roomReturns[c] # None -> {[zone |-> roomReturns[c].zone, epoch |-> roomReturns[c].epoch]}
      [] routes[c] # None -> {routes[c]}
      [] OTHER -> {}

(* A recorded player is really there: no stale or reordered leave removes   *)
(* the entity a newer route or a transition stands for.                     *)
RoutesPresent ==
    \A c \in Connections : \A route \in Expected(c) :
        LET entity == Projected(route.zone, PlayerOf[c])
        IN entity # None /\ entity.epoch = route.epoch

(* "No duplicate entity stays behind": a zone holds, or will hold, nobody   *)
(* whom no connection's record places there.  Two kinds of entity are       *)
(* excepted, each by its zone and epoch: one whose cleanup command was      *)
(* refused (beginDisconnectCleanup ends the handoff all the same), and one  *)
(* whose player disconnected during the return from a room                  *)
(* (handleReturnZoneCompletion drops the route and posts no leave).         *)
NoGhosts ==
    ~cancelled /\ ~RuntimeDown => \A z \in Zones, p \in Players :
        LET entity == Projected(z, p)
        IN entity # None =>
            \/ \E c \in Connections : PlayerOf[c] = p /\ \E route \in Expected(c) : route.zone = z
            \/ <<"entity", z, p, entity.epoch>> \in lost

(* A seat is owned by a connection entering or in its room, or the LeaveRoom *)
(* that frees it is queued.                                                  *)
SeatHeld(r, p) ==
    \/ [cmd |-> "Leave", player |-> p] \in Range(roomMail[r])
    \/ \E c \in Connections : /\ PlayerOf[c] = p
                              /\ \/ roomEntries[c] # None /\ roomEntries[c].room = r
                                 \/ inRooms[c] # None /\ inRooms[c].room = r
(* Every seat of a room whose battle is not over is held by somebody or     *)
(* about to be freed.  The only exception is a seat whose LeaveRoom the     *)
(* room's mailbox refused: noteDisconnect and the compensations of the room *)
(* entry service ignore that result and never repeat the command.           *)
SeatOwned ==
    ~cancelled /\ ~RuntimeDown => \A r \in Rooms : rooms[r].phase # "Over" =>
        \A p \in rooms[r].seats : SeatHeld(r, p) \/ <<"seat", r, p>> \in lost

(* "After a disconnect no duplicate entity and no reservation is left": no  *)
(* player is, or will be once the queued commands are handled, in two zones *)
(* at once, or on a seat of a room still in use that nobody holds.          *)
DisconnectLeavesNothing ==
    ~cancelled /\ ~RuntimeDown => \A p \in Players :
        /\ Cardinality({z \in Zones : Projected(z, p) # None}) <= 1
        /\ \A r \in Rooms : p \in rooms[r].seats /\ rooms[r].phase # "Over" => SeatHeld(r, p)

(* A player in a room has its seat, or the request to return is queued. *)
InRoomSeated ==
    ~cancelled => \A c \in Connections : inRooms[c] # None =>
        \/ PlayerOf[c] \in rooms[inRooms[c].room].seats /\ rooms[inRooms[c].room].phase # "Over"
        \/ [room |-> inRooms[c].room, player |-> PlayerOf[c]] \in Range(returnQueue)

(* The location the session will save is the place and position the player  *)
(* is in or, in a room, the point of return.  The exception is a session    *)
(* whose record was loaded after the client had already entered a zone: the *)
(* load notes the stored location over the newer one, and it stays wrong    *)
(* until the next change of place.                                          *)
LocationAgrees ==
    \A c \in Connections : session[c] # None /\ session[c].known /\ ~session[c].overwritten =>
        /\ ~Busy(c) /\ routes[c] # None =>
              session[c].location = [zone |-> routes[c].zone,
                                     position |-> Projected(routes[c].zone, PlayerOf[c]).position]
        /\ inRooms[c] # None =>
              session[c].location = [zone |-> inRooms[c].zone, position |-> inRooms[c].position]

(* A connection that closes while its player is in a room leaves the point *)
(* of return as the location to be saved.                                  *)
ReturnPointKept ==
    [][\A c \in Connections : inRooms[c] # None /\ conn'[c] = "closed" =>
          Last(playerMail'[PlayerOf[c]]).location =
              [zone |-> inRooms[c].zone, position |-> inRooms[c].position]]_vars

(* "StartBattle requires InRoom, so the battle cannot start" between the    *)
(* room's join and the zone's leave: nobody who is still entering fights.   *)
NoBattleWhileEntering ==
    \A c \in Connections : roomEntries[c] # None =>
        ~(rooms[roomEntries[c].room].phase = "Running" /\ PlayerOf[c] \in rooms[roomEntries[c].room].seats)

Contract == INSTANCE SpaceContract WITH space <- [c \in Connections |->
    CASE handoffs[c] # None ->
           [is |-> "Transferring", zone |-> handoffs[c].source.zone, target |-> handoffs[c].target]
      [] roomEntries[c] # None ->
           [is |-> "Entering", zone |-> roomEntries[c].source.zone, room |-> roomEntries[c].room]
      [] inRooms[c] # None -> [is |-> "InRoom", zone |-> inRooms[c].zone, room |-> inRooms[c].room]
      [] roomReturns[c] # None ->
           [is |-> "Returning", zone |-> roomReturns[c].zone, room |-> roomReturns[c].room]
      [] routes[c] # None -> [is |-> "Stable", zone |-> routes[c].zone]
      [] OTHER -> [is |-> "Nowhere"]]

(* The coordinator's five maps implement the machine of the contract. *)
ImplementsContract == Contract!Spec

(* Actor workers run every ready actor and the repository answers.  The     *)
(* reactor is one thread: a channel's wake-up makes it drain the channels,   *)
(* the loops of drainTransitions and beginShutdown go on, each pass retries  *)
(* the closes and closes what the outbound channel reports, and a failure of *)
(* the runtime makes it abort.                                               *)
Fairness ==
    /\ \A z \in Zones : WF_vars(Actor(ZoneTurn(z)))
    /\ \A r \in Rooms : WF_vars(Actor(RoomTurn(r)))
    /\ \A p \in Players : WF_vars(Actor(PlayerTurn(p) \/ LoadCompletes(p) \/ SaveCompletes(p)))
    /\ WF_vars(\/ BeginDrain \/ DrainZone \/ DrainRoom \/ DrainReturn \/ DrainNext
               \/ \E c \in Connections : ShutdownClose(c))
    /\ \A c \in Connections : WF_vars(RetryClose(c) \/ (c \in reported /\ Disconnect(c)))
    /\ WF_vars(runtimeFailed # "no" /\ (BeginShutdown \/ Cancel))
FairSpec == Spec /\ Fairness

(* Every transition ends: it has no timeout, so each step must be answered. *)
(* The room entry whose join was dropped with a failed load (advance) is    *)
(* the exception: it lasts until cancel().                                  *)
TransitionsEnd == \A c \in Connections : InTransition(c) ~> ~InTransition(c) \/ Unanswered(c)

(* Every close that found a queue full or a transition under way, and every *)
(* connection reported to the reactor as failed, is finally closed, and the *)
(* player's session is then free for the next login.  Only the close of a   *)
(* connection whose room join was dropped with a failed load is retried     *)
(* until cancel().                                                          *)
ClosesEnd ==
    \A c \in Connections :
        conn[c] # "open" \/ c \in reported ~> session[c] = None \/ cancelled \/ Unanswered(c)
=============================================================================
