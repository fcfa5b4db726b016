---------------------------- MODULE SpaceActors ----------------------------
(***************************************************************************)
(* The actors a change of space involves, as the reactor sees them: each   *)
(* zone, room and player actor has a mailbox and handles one command per   *)
(* step (zone.cpp, room.cpp, player_actor_binding.cpp).  A command that    *)
(* belongs to a transition carries its correlation, and the actor's result *)
(* goes back to the reactor through the zone or the room transition        *)
(* channel (game_server.cpp, zone_transition_channel.cpp,                  *)
(* room_transition_channel.cpp).                                           *)
(*                                                                         *)
(* A battle is reduced to its end: a running room may end at any time, and *)
(* all its participants are then asked to return.  At most MaxFaults times *)
(* in all a mailbox refuses a command or the repository fails to load or   *)
(* to save a record.                                                       *)
(***************************************************************************)
EXTENDS RouteCoordinator, SequencesExt

CONSTANTS MaxParticipants,  \* RoomConfig::max_participants
          RoomCapacity,     \* capacity of the room transition channel
          MaxFaults         \* bound

ASSUME CapacityAssumption == MaxParticipants \in Nat \ {0} /\ RoomCapacity \in Nat \ {0}
ASSUME FaultsAssumption == MaxFaults \in Nat

VARIABLES
    zones,          \* Zone::_players
    zoneMail,       \* zone -> queued commands
    rooms,          \* Room::_phase and _participants
    roomMail,       \* room -> queued commands
    player,         \* player -> its actor
    playerMail,     \* player -> queued commands
    stored,         \* player -> last_location in the repository
    session,        \* PlayerSessionDirectory::_sessions_by_connection
    zoneReserved,   \* reservations of the zone transition channel
    zoneQueue,      \* its completions
    roomReserved,   \* reservations of the room transition channel
    roomQueue,      \* its completions
    returnQueue,    \* its return requests
    cancelled,      \* both channels are cancelled
    runtimeFailed,  \* notifyFailed: "result", an actor's result was not accepted, or "worker", an
                    \* actor threw and the runtime cancelled itself
    reported,       \* the outbound channel's _admission_failures: connections to be closed
    faults,         \* commands refused, loads and saves failed so far
    lost            \* history: the joins, seats and entities that the code gives up

zoneVars == <<zones, zoneMail>>
roomVars == <<rooms, roomMail>>
playerVars == <<player, playerMail, stored>>
channelVars == <<zoneReserved, zoneQueue, roomReserved, roomQueue, returnQueue, cancelled, runtimeFailed>>
faultVars == <<faults, reported, lost>>
actorVars == <<zoneVars, roomVars, playerVars, channelVars, session, faultVars>>

Location == [zone : Zones, position : Positions] \cup {None}
Correlation ==
    [kind : {"handoff"}, connection : Connections, id : Nat, step : HandoffSteps] \cup
    [kind : {"entry"}, connection : Connections, id : Nat, step : {"JoinRoom", "LeaveSource"}] \cup
    [kind : {"return"}, connection : Connections, id : Nat, step : {"ReturnZone"}] \cup {None}
ZoneCommand ==
    [cmd : {"Enter", "Move"}, player : Players, epoch : Nat, position : Positions, for : Correlation] \cup
    [cmd : {"Leave"}, player : Players, epoch : Nat, for : Correlation]
RoomCommand ==
    [cmd : {"Join"}, player : Players, for : Correlation] \cup
    [cmd : {"Leave"}, player : Players] \cup [cmd : {"StartBattle"}]
PlayerCommand ==
    [cmd : {"Authenticate"}, connection : Connections] \cup
    [cmd : {"JoinRoomRequest"}, connection : Connections, room : Rooms, for : Correlation] \cup
    [cmd : {"ConnectionClosed"}, connection : Connections, known : BOOLEAN, location : Location]
Statuses == {"Applied", "AlreadyPresent", "StaleRoute", "PlayerMissing",
             "WrongPhase", "AlreadyJoined", "RoomFull", "EntryFailed"}
Completion ==
    [for : Correlation, status : Statuses, zone : Zones \cup {None}, epoch : Nat,
     position : Positions \cup {None}]

(* A join whose record did not load, a seat whose LeaveRoom was refused, an *)
(* entity whose removal was refused or is never asked for.                  *)
Lost == ({"join"} \X Nat) \cup ({"seat"} \X Rooms \X Players) \cup
        ({"entity"} \X Zones \X Players \X Nat)

EmptyRoom == [phase |-> "Waiting", seats |-> {}]
NoActor == [stage |-> "missing", command |-> None, location |-> None]

ActorTypeOK ==
    /\ zones \in [Zones -> [Players -> [epoch : Nat, position : Positions] \cup {None}]]
    /\ zoneMail \in [Zones -> Seq(ZoneCommand)]
    /\ rooms \in [Rooms -> [phase : {"Waiting", "Running", "Over"}, seats : SUBSET Players]]
    /\ roomMail \in [Rooms -> Seq(RoomCommand)]
    /\ player \in [Players -> [stage : {"missing", "unloaded", "loading", "loaded", "saving"},
                               command : PlayerCommand \cup {None}, location : Location]]
    /\ playerMail \in [Players -> Seq(PlayerCommand)]
    /\ stored \in [Players -> Location]
    /\ session \in [Connections -> [state : {"Active", "Closing"}, known : BOOLEAN,
                                    location : Location, overwritten : BOOLEAN] \cup {None}]
    /\ zoneReserved \subseteq Nat /\ roomReserved \subseteq Nat
    /\ zoneQueue \in Seq(Completion) /\ roomQueue \in Seq(Completion)
    /\ returnQueue \in Seq([room : Rooms, player : Players])
    /\ cancelled \in BOOLEAN /\ runtimeFailed \in {"no", "result", "worker"}
    /\ faults \in 0 .. MaxFaults
    /\ reported \subseteq Connections
    /\ lost \subseteq Lost

ActorInit ==
    /\ zones = [z \in Zones |-> [p \in Players |-> None]]
    /\ zoneMail = [z \in Zones |-> << >>]
    /\ rooms = [r \in Rooms |-> EmptyRoom]
    /\ roomMail = [r \in Rooms |-> << >>]
    /\ player = [p \in Players |-> NoActor]
    /\ playerMail = [p \in Players |-> << >>]
    /\ stored = [p \in Players |-> None]
    /\ session = [c \in Connections |-> None]
    /\ zoneReserved = {} /\ zoneQueue = << >>
    /\ roomReserved = {} /\ roomQueue = << >> /\ returnQueue = << >>
    /\ cancelled = FALSE /\ runtimeFailed = "no"
    /\ faults = 0 /\ reported = {} /\ lost = {}
-----------------------------------------------------------------------------
(* n faults in a handler: what is given up by them, and which connections   *)
(* are reported.  A runtime that has cancelled itself refuses every command *)
(* (Closed).                                                                *)
RuntimeDown == runtimeFailed = "worker"
Fault(n, losses, reports) ==
    /\ faults' = IF RuntimeDown THEN faults ELSE faults + n
    /\ faults' <= MaxFaults
    /\ lost' = lost \cup losses
    /\ reported' = reported \cup reports
(* CommandRouter::tryPost and ActorContext::tryTell, accepted, or refused n  *)
(* times in a handler.                                                       *)
Posted(mail, target, message) ==
    ~RuntimeDown /\ mail' = [mail EXCEPT ![target] = Append(@, message)]
Refused(n) == Fault(n, {}, {})

CanPublish(reserved, queue, id, capacity) ==
    /\ ~cancelled /\ id \in reserved
    /\ \A i \in DOMAIN queue : queue[i].for.id # id
    /\ Len(queue) < capacity
PublishZone(completion) ==
    /\ IF CanPublish(zoneReserved, zoneQueue, completion.for.id, MaxTransitions)
       THEN zoneQueue' = Append(zoneQueue, completion) /\ UNCHANGED runtimeFailed
       ELSE runtimeFailed' = "result" /\ UNCHANGED zoneQueue
    /\ UNCHANGED <<zoneReserved, roomReserved, roomQueue, returnQueue, cancelled>>
PublishRoom(completion) ==
    /\ IF CanPublish(roomReserved, roomQueue, completion.for.id, RoomCapacity)
       THEN roomQueue' = Append(roomQueue, completion) /\ UNCHANGED runtimeFailed
       ELSE runtimeFailed' = "result" /\ UNCHANGED roomQueue
    /\ UNCHANGED <<zoneReserved, zoneQueue, roomReserved, returnQueue, cancelled>>

(* noteLocation; overwritten is history: the location of a loaded record    *)
(* took the place of one noted before.                                      *)
NotedLocation(s, location, overwritten) ==
    IF s = None THEN None
    ELSE [s EXCEPT !.known = TRUE, !.location = location, !.overwritten = overwritten]
NoteLocation(c, location) ==
    session' = [session EXCEPT ![c] = NotedLocation(@, location, FALSE)]
-----------------------------------------------------------------------------
(* What a zone makes of a command: the player's entity afterwards, the     *)
(* status and the position of the result.                                  *)
Admits(entity, m) ==
    IF m.cmd = "Enter" THEN entity = None \/ m.epoch > entity.epoch
                       ELSE entity # None /\ m.epoch = entity.epoch
ZoneStatus(entity, m) ==
    CASE Admits(entity, m) -> "Applied"
      [] entity = None -> "PlayerMissing"
      [] m.cmd = "Enter" /\ m.epoch = entity.epoch -> "AlreadyPresent"
      [] OTHER -> "StaleRoute"
ZoneEntity(entity, m) ==
    IF ~Admits(entity, m) THEN entity
    ELSE IF m.cmd = "Leave" THEN None ELSE [epoch |-> m.epoch, position |-> m.position]
ZoneResultPositionAfter(entity, m) ==     \* Mutant: the position is read after the entity was removed
    IF Admits(entity, m) /\ m.cmd = "Leave" THEN None
    ELSE IF entity = None THEN None ELSE entity.position
ZoneResultPosition(entity, m) ==
    IF Admits(entity, m) /\ m.cmd # "Leave" THEN m.position
    ELSE IF entity = None THEN None ELSE entity.position

ZoneTurn(z) ==
    /\ zoneMail[z] # << >>
    /\ LET m == Head(zoneMail[z])
           entity == zones[z][m.player]
           completion == [for |-> m.for, status |-> ZoneStatus(entity, m), zone |-> z,
                          epoch |-> m.epoch, position |-> ZoneResultPosition(entity, m)]
       IN /\ zones' = [zones EXCEPT ![z][m.player] = ZoneEntity(entity, m)]
          /\ IF m.for = None THEN UNCHANGED channelVars
             ELSE IF m.for.kind = "handoff" THEN PublishZone(completion)
             ELSE PublishRoom(completion)
    /\ zoneMail' = [zoneMail EXCEPT ![z] = Tail(@)]
    /\ UNCHANGED <<roomVars, playerVars, session, faultVars>>
-----------------------------------------------------------------------------
(* PassivateIfIdle: a finished or empty room without mail is destroyed. *)
Settled(room, mail) ==
    IF (room.phase = "Over" \/ room.seats = {}) /\ mail = << >> THEN EmptyRoom ELSE room

JoinStatus(room, p) ==
    CASE room.phase # "Waiting" -> "WrongPhase"
      [] p \in room.seats -> "AlreadyJoined"
      [] Cardinality(room.seats) >= MaxParticipants -> "RoomFull"
      [] OTHER -> "Applied"
RoomJoin(r, m) ==
    LET status == JoinStatus(rooms[r], m.player)
        seated == IF status = "Applied" THEN rooms[r].seats \cup {m.player} ELSE rooms[r].seats
    IN /\ rooms' = [rooms EXCEPT ![r] = Settled([@ EXCEPT !.seats = seated], Tail(roomMail[r]))]
       /\ PublishRoom([for |-> m.for, status |-> status, zone |-> None, epoch |-> 0,
                       position |-> None])
       /\ lost' = IF status = "Applied" THEN lost \ {<<"seat", r, m.player>>} ELSE lost

(* failBattle and clearBattle: the participants are the audience, and each  *)
(* is asked to return.                                                      *)
EndBattle(r, seats, mail) ==
    \E audience \in SetToSeqs(seats) :     \* in the order of the player ids
    LET requests == [i \in DOMAIN audience |-> [room |-> r, player |-> audience[i]]]
        room == RoomCapacity - Len(returnQueue)
    IN /\ rooms' = [rooms EXCEPT ![r] = Settled([phase |-> "Over", seats |-> seats], mail)]
       /\ IF cancelled THEN UNCHANGED returnQueue
          ELSE returnQueue' = returnQueue \o SubSeq(requests, 1, IF Len(requests) < room THEN Len(requests) ELSE room)
       /\ runtimeFailed' = IF cancelled \/ Len(requests) > room THEN "result" ELSE runtimeFailed
       /\ UNCHANGED <<zoneReserved, zoneQueue, roomReserved, roomQueue, cancelled>>

RoomLeave(r, m) ==
    LET room == rooms[r]
        left == room.seats \ {m.player}
    IN \/ /\ rooms' = [rooms EXCEPT ![r] =
                Settled(IF room.phase = "Over" THEN room ELSE [room EXCEPT !.seats = left],
                        Tail(roomMail[r]))]
          /\ UNCHANGED channelVars
       \/ \* allParticipantsDead()
          /\ room.phase = "Running" /\ m.player \in room.seats /\ left # {}
          /\ EndBattle(r, left, Tail(roomMail[r]))

(* Without a timer for its deadline the battle does not start. *)
StartBattle(r) ==
    /\ \/ rooms' = [rooms EXCEPT ![r] =
             Settled(IF @.phase = "Waiting" /\ @.seats # {}
                     THEN [@ EXCEPT !.phase = "Running"] ELSE @, Tail(roomMail[r]))]
       \/ rooms[r].phase = "Waiting" /\ rooms[r].seats # {} /\ UNCHANGED rooms
    /\ UNCHANGED channelVars

RoomTurn(r) ==
    /\ roomMail[r] # << >>
    /\ LET m == Head(roomMail[r])
       IN \/ m.cmd = "Join" /\ RoomJoin(r, m)
          \/ m.cmd = "Leave" /\ RoomLeave(r, m) /\ UNCHANGED lost
          \/ m.cmd = "StartBattle" /\ StartBattle(r) /\ UNCHANGED lost
    /\ roomMail' = [roomMail EXCEPT ![r] = Tail(@)]
    /\ UNCHANGED <<zoneVars, playerVars, session, faults, reported>>

(* The tick, the deadline or a skill that ends the battle. *)
BattleEnds(r) ==
    /\ rooms[r].phase = "Running" /\ rooms[r].seats # {}
    /\ EndBattle(r, rooms[r].seats, roomMail[r])
    /\ UNCHANGED <<zoneVars, roomMail, playerVars, session, faultVars>>
-----------------------------------------------------------------------------
RunHandlerUnanswered(m) ==      \* Mutant: a join the room's mailbox refused is dropped
    IF m.cmd = "Authenticate" THEN UNCHANGED <<roomMail, channelVars, faultVars>>
    ELSE \/ /\ Posted(roomMail, m.room, [cmd |-> "Join", player |-> PlayerOf[m.connection], for |-> m.for])
            /\ UNCHANGED <<channelVars, faultVars>>
         \/ Refused(1) /\ UNCHANGED <<roomMail, channelVars>>
(* runHandler: a room join is told to the room, or answered as failed. *)
RunHandler(m) ==
    IF m.cmd = "Authenticate" THEN UNCHANGED <<roomMail, channelVars, faultVars>>
    ELSE \/ /\ Posted(roomMail, m.room, [cmd |-> "Join", player |-> PlayerOf[m.connection], for |-> m.for])
            /\ UNCHANGED <<channelVars, faultVars>>
         \/ /\ Refused(1)
            /\ PublishRoom([for |-> m.for, status |-> "EntryFailed", zone |-> None, epoch |-> 0,
                            position |-> None])
            /\ UNCHANGED roomMail

Evicted(p, c) ==
    /\ player' = [player EXCEPT ![p] = NoActor]
    /\ session' = [session EXCEPT ![c] =
           IF @ # None /\ @.state = "Closing" THEN None ELSE @]

PlayerTurn(p) ==
    /\ playerMail[p] # << >>
    /\ player[p].stage \in {"missing", "unloaded", "loaded"}
    /\ playerMail' = [playerMail EXCEPT ![p] = Tail(@)]
    /\ LET m == Head(playerMail[p])
       IN \/ /\ m.cmd # "ConnectionClosed" /\ player[p].stage # "loaded"
             /\ player' = [player EXCEPT ![p].stage = "loading", ![p].command = m]
             /\ UNCHANGED <<roomMail, channelVars, session, faultVars>>
          \/ /\ m.cmd # "ConnectionClosed" /\ player[p].stage = "loaded"
             /\ RunHandler(m)
             /\ UNCHANGED <<player, session>>
          \/ /\ m.cmd = "ConnectionClosed" /\ player[p].stage = "unloaded"
             /\ Evicted(p, m.connection)
             /\ UNCHANGED <<roomMail, channelVars, faultVars>>
          \/ /\ m.cmd = "ConnectionClosed" /\ player[p].stage = "loaded"
             /\ player' = [player EXCEPT ![p].stage = "saving", ![p].command = m,
                                         ![p].location = IF m.known THEN m.location ELSE @]
             /\ UNCHANGED <<roomMail, channelVars, session, faultVars>>
    /\ UNCHANGED <<zoneVars, rooms, stored>>

(* The location of the record is noted whatever was noted before. *)
LoadCompletes(p) ==
    /\ player[p].stage = "loading"
    /\ LET m == player[p].command
       IN /\ player' = [player EXCEPT ![p] =
                 [stage |-> "loaded", command |-> None, location |-> stored[p]]]
          /\ session' = [session EXCEPT ![m.connection] =
                 NotedLocation(@, stored[p], @ # None /\ @.known)]
          /\ RunHandler(m)
    /\ UNCHANGED <<zoneVars, rooms, playerMail, stored>>

(* The command is dropped, a room join with it, and its connection reported. *)
LoadFails(p) ==
    LET m == player[p].command
    IN /\ player[p].stage = "loading"
       /\ player' = [player EXCEPT ![p].stage = "unloaded", ![p].command = None]
       /\ Fault(1, IF m.cmd = "JoinRoomRequest" THEN {<<"join", m.for.id>>} ELSE {}, {m.connection})
       /\ UNCHANGED <<zoneVars, roomVars, playerMail, stored, channelVars, session>>

SaveCompletes(p) ==
    /\ player[p].stage = "saving"
    /\ stored' = [stored EXCEPT ![p] = player[p].location]
    /\ Evicted(p, player[p].command.connection)
    /\ UNCHANGED <<zoneVars, roomVars, playerMail, channelVars, faultVars>>

(* A save that fails throws: its worker fails and cancels the runtime. *)
SaveFails(p) ==
    /\ player[p].stage = "saving"
    /\ Fault(1, {}, {})
    /\ runtimeFailed' = "worker"
    /\ UNCHANGED <<zoneVars, roomVars, player, playerMail, stored, zoneReserved, zoneQueue,
                   roomReserved, roomQueue, returnQueue, cancelled, session>>
=============================================================================
