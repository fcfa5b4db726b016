# A verification of SnF in TLA+

SnF is an asynchronous game server in C++20: an epoll reactor, sharded actor
workers, player persistence over MySQL, and sagas that move players between
zones and rooms. This directory keeps TLA+ specifications of its concurrent
parts beside the code, the TLC configurations that check them on small
instances, and theorems proved with TLAPS for every instance.

`PROJECT.json` is the index: for every definition of a module the lines it
models, for every run the properties it checks, for every property a mutated
definition under which it fails, and the list of the hazards of the code with
the properties that cover them.

## 1. The system and its parts

The repository holds two stacks. The server that is built and run is the first;
the second (`worker/`, `adapter/`) is the announced successor and has its own
event loop, inboxes, timers and database client. Both use the same game rules.

| part | state | operations | interacts with |
|---|---|---|---|
| TCP server (`tcp_server`, `net/session`) | sessions, pending closes, shutdown phase | accept, read, flush, remove session, retry closes, begin/complete/abort shutdown | gateway, outbound channel, runtime completion |
| Protocol gateway, dispatcher, router | none of its own | post a frame, post a close, drain transitions, close, cancel | directory, sagas, actor runtime |
| Actor runtime (`runtime/actor_runtime`) | ingress per worker, mailboxes, ready queue, timers, continuations, counters | post, tell, close, cancel, turn, suspend, resume, evict, fail, tear down | every actor |
| Player actor (`player_actor_binding`) | player state, stage, pending command, retry timer | load, handle, reserve, save, publish snapshot, passivate | persistence, outbound channel, rooms |
| Zone and room actors | participants, battle | enter, leave, move, tick; join, leave, start, skill, deadline | transition channels, sinks |
| Route coordinator | route of each player | enter, handoff, room entry, return, rollback, abandon | sagas |
| Zone handoff, room entry sagas | active handoffs, entries, returns | start, completions of each stage, disconnect, cancel | coordinator, channels, actors |
| Transition channels | reserved tickets, completions | reserve, publish, pop, release, cancel | room and zone workers, reactor |
| Session directory | player of a connection, location, closing flag | attach, close, passivate, note location | gateway, player actor |
| Outbound channel | queue, reservations, waiters, grant order, failures | reserve, wait, withdraw, commit, drain, grant, report, cancel | workers, reactor |
| Persistence service | queue, pending, saves under way, final requests | enqueue, final save, flush, stop, complete | player actors, repository |
| MySQL repository | job queue, connections | load, save | persistence, player actors |
| Game rules (`game/`) | room battle, arena, player economy and loadout, zone occupancy | the commands of each | actors |
| Frame codec | decode buffer | encode, append, decode | sessions |
| Unified worker (`worker/`) | actor table, timers, inbox, connections, database client, barrier | turns, effects, completion of queries, shutdown phases | adapters |
| Adapters (`adapter/`) | player, room and zone actors on the unified worker | authenticate, transitions, saves | unified worker |

What makes the parts hard, and what correctness means for them:

- **Persistence.** Worker threads enqueue while the service thread selects and
  repository threads complete. Saves of one player must not overlap or go back in
  time, a final save must be answered exactly once, and the shutdown must lose
  nothing it accepted.
- **Actor runtime.** Many producers, one consumer per worker, asynchronous
  completions, cancellation and eviction. An actor runs one command at a time in
  posting order, a suspended command is resumed exactly once, no wake-up is lost,
  every counter is exact, the end is reported once.
- **Outbound channel.** Workers reserve, the reactor drains and grants. The
  capacity must hold, no slot may leak, every waiter must be answered.
- **Sagas.** A player moves through several actors by messages, and may
  disconnect at every stage. A player is in one place or none, tickets and routes
  are released, every saga ends.
- **Connection lifecycle.** Closes that find a full queue must be retried, and a
  login must not race the passivation of the previous session.
- **Unified worker.** Quiescence must be detected only when nothing is under way;
  stale generations must not reach a reused slot; a database deadline races the
  answer.

## 2. The modules

Every action is one step between two points at which another thread can
interfere; where the code holds a mutex over a loop, the loop is a sequence of
steps during which the operations that need the mutex are disabled. Payloads,
metrics and log lines are left out. Mutated definitions (comments starting with
"Mutant") are not used by any specification; they are what the project replaces
a definition by to see that a property notices.

### PlayerPersistence (`server/player_persistence_service.cpp`)

A player's record is a version number, raised by every change. The state follows
the members of the class: `snapshots` is the bounded queue, `pending`,
`finalRequests` and `inFlight` are the maps under `_mutex`, `starts` the local
vector of `processOnce`, `jobs` what the repository has accepted, `repo` the
stored record. `pc` is the position of the service thread in `run`, `main` that
of the thread that calls `flush` and `stop` (`GameServer::joinActorRuntime`).

| code | actions |
|---|---|
| `tryEnqueue`, `asyncSave` | `TryEnqueue`, `RejectEnqueue`, `AsyncSave`, `RefuseSave` |
| the player's actor is activated again | `Reactivate` |
| `run`, `processOnce` | `WakeUp`, `DrainSnapshot`, `DrainEnd`, `SelectSaves`, `StartSave`, `StartSaveRefused`, `StartEnd`, `CheckFlush`, `LoopTest`, `StopCheck`, `StopWaitEnds`, `Finish` |
| `completeSave` on a repository thread | `RepositorySaves`, `RepositoryFails` (with or without effect on the database), then `NotifyCompletion`: the mutex is released before the completion of a final save is called, and `completing` holds the saves in between |
| `flush`, `stop` | `Flush`, `FlushReturns`, `Stop`, `CloseQueue`, `StopReturns` |

`orderly`, chosen at the start and never changed, says how the service is
stopped: after the actors have finished, by `flush` and then `stop`, as
`joinActorRuntime` does, or by `stop` at any time.

### ActorRuntime (`runtime/actor_runtime.cpp`, `async_operation.hpp`, `bounded_queue.hpp`)

Each worker has an ingress, a ready queue, timers and continuations; each actor
an execution state, a mailbox, an active command, and possibly an operation it
awaits. `pc[w]` is the worker's position: `pump` (cancel requests), `drain`
(continuations), `route` (ingress to mailboxes), `timers`, `test` (drained?),
`sleep`, `turn`, `take`, `handler`, and the failure and teardown steps. What a
handler does is a free choice among the calls of its context (schedule or cancel
a timer, begin or abort an operation) and the dispatch results (keep, suspend,
evict, stop, throw). Producers of operations run on threads of their own: they
claim the outcome (`ProducerClaims`) and publish the continuation
(`ProducerPublishes`) in two steps, between which the worker may cancel, evict or
tear down.

### OutboundChannel (`server/outbound_channel.cpp`, its use in `player_actor_binding.cpp` and `tcp_server.cpp`)

The fields of a connection's usage are variables of their own (`queued`,
`reserved`, `waiters`, and the sets `listed`, `kept`, `known` for the flags and
the key's presence). `reactor` is the position in `handleOutboundActions`; in
`taking` and `granting` the reactor holds `_mutex`. `step` is the position of an
actor between `tryReserve` and the end of its command. A waiting actor is
cancelled only by the teardown of a cancelled runtime: no production code calls
`requestActorOperationCancel`.

### SpaceTransitions, over SpaceActors and RouteCoordinator; SpaceContract

How a player changes space, in three layers. `RouteCoordinator` has the five maps
of `route_coordinator.cpp` and one operator per method. `SpaceActors` adds the
zone, room and player actors with their mailboxes and the two transition channels
through which their results return; a battle is reduced to its phases and its
end. `SpaceTransitions` is the reactor: the frames of `protocol_gateway.cpp` that
change the space of a player, the stages of `zone_handoff_service.cpp` and
`room_entry_service.cpp`, the close of a connection, shutdown and cancel.

| code | actions |
|---|---|
| `ProtocolGateway::tryPost` | `Authenticate`, `EnterZone`, `LeaveZone`, `Move`, `RoomLeaveRequest`, `BattleStart` |
| `ZoneHandoffService` | `StartHandoff`, `DrainZone` (with `SourceLeft`, `TargetEntered`, `SourceRestored`) |
| `RoomEntryService` | `RoomJoinRequest`, `DrainRoom` (with `RoomJoined`, `EntrySourceLeft`, `Returned`), `DrainReturn` |
| `drainTransitions` | `BeginDrain`, `DrainNext`, around the three above; no frame is served in between |
| `notifyConnectionClosed`, `retryPendingConnectionCloses` | `Disconnect`, `RetryClose` |
| `beginShutdown`, `abortShutdownAfterLogicRuntimeFailure`, `cancel` | `BeginShutdown` (for a stop or to abort), `ShutdownClose`, `Cancel` |
| actors | `ZoneTurn`, `RoomTurn`, `BattleEnds`, `PlayerTurn`, `LoadCompletes`, `LoadFails`, `SaveCompletes`, `SaveFails` |

The three id counters are one, so that an id names a transition. A frame is served
as soon as its connection has a session, whether or not the login has been
answered. A mailbox that refuses a command (`Full`), a load that fails and a save
that fails are choices, together at most `MaxFaults` in a behaviour:

- a failed load drops the command and reports the connection
  (`reportAdmissionFailure`); `reported` are the connections the reactor is to
  close for that or for a fatal end of a transition;
- a failed save throws, its worker fails and the runtime cancels itself
  (`runtimeFailed = "worker"`): actors stop, every further post is answered
  `Closed`, a close then abandons its session, and the reactor aborts.

Two history variables record what the code gives up, so that properties can name
it: `lost` (a join dropped with a failed load, a seat whose `LeaveRoom` was
refused, an entity whose removal was refused or never asked for) and the session
field `overwritten` (a load noted the stored location over a newer one). No action
reads them.

`SpaceContract` is the abstract machine (nowhere, stable, transferring, entering,
in a room, returning), and that a player enters from one connection at a time;
`ImplementsContract` is the refinement. Not modelled here: a connection without a
session, rewards, the retry `beginShutdown` makes at once (the next loop makes
it), and what happens after `cancel` beyond the last turns of the actors.

## 3. The runs

| run | instance | shows |
|---|---|---|
| `persistence` | 2 players, 4 versions, queue of 2, 1 failure, stopped either way | types; saves of a player never overlap (`OneSavePerPlayer`); a final save is answered at most once, and none is forgotten when the thread ends (`FinalAnsweredOnce`); background saves never go back (`BackgroundSavesInOrder`); the orderly stop loses nothing accepted (`OrderlyStopSavesAll`), final saves are answered, the shutdown ends |
| `persistence_final`, `persistence_pending` | 1 player, the smallest instances that show it | disagreements of code and README, section 4 |
| `runtime_turns` | 1 worker, 2 actors, 3 posts, 2 operations or 1 and a timer | ready queue and actor states agree, commands are not overtaken and run in posting order, the outstanding counter is exact, timers belong to live actors, a continuation always has a slot in its queue and matches the command that awaits it |
| `runtime_workers` | 2 workers | one notice of the end; a drain drops no accepted submission |
| `runtime_liveness` | 1 actor, 2 operations, 1 timer, ingress batch of 1 in an ingress of 2 | accepted submissions are routed, suspended commands resumed, shutdown ends, but for the case of `runtime_batch` |
| `runtime_batch` | the same | a submission that stays behind a sleeping worker, section 4 |
| `outbound` | 3 suspendable actors and a pusher on 2 connections, capacity 3, 2 slots per connection, 1 grant per pass | capacity, exact counters, usage kept while needed and erased after |
| `outbound_liveness` | 2 actors, 2 waiters at once, 1 grant per pass | waiters are answered, actions taken, connections with a refused frame closed |
| `spaces_faults` | 1 connection, 2 zones, 2 positions, 1 room, a handoff or an entry and its return, 1 fault, fair | exactly one answer of a transition is under way (`TransitionAnswered`), the location to be saved is right (`LocationAgrees`), transitions end, closes are completed |
| `spaces_players` | 2 zones, 1 room, and one of: 1 connection and 2 faults; a player who reconnects; 2 players who share the room | one transition at a time with its reservation (`TransitionExclusive`), recorded players are present (`RoutesPresent`), nobody and no seat is left behind (`NoGhosts`, `SeatOwned`), results find their reservation (`PublishAccepted`), the contract is implemented |
| `spaces_disconnect` | a player who reconnects, no fault | an entity that is left in a zone, section 4 |

Where the code gives something up, the property names exactly that as its
exception, and the instances reach it:

- `TransitionAnswered`, `TransitionsEnd`, `ClosesEnd`: the one room entry whose
  join was dropped because the record did not load (`advance`). It has no answer,
  lasts until `cancel`, and so does the close of its connection.
- `NoGhosts`: the entity, by zone and epoch, whose cleanup was refused
  (`beginDisconnectCleanup`), and the one entered for a player who disconnected
  during the return (`handleReturnZoneCompletion`).
- `SeatOwned`: the seat whose `LeaveRoom` was refused (`noteDisconnect` and the
  compensations ignore the result).
- `LocationAgrees`: a session whose record was loaded after its client had entered
  a zone, until the next change of place.
- `SubmissionsMove`, `ShutdownEnds` of the runtime: a full batch of dropped
  submissions in front of others (`pumpWorker`).

`NoGhosts` and `SeatOwned` say nothing once the channels are cancelled or the
runtime has cancelled itself: transitions are then given up where they are.
`PublishAccepted` needs room for a return request of every participant; the
configuration allows a smaller channel, on which the end of a battle stops the
server.

Bounds. Queues hold two entries and batches one or two, so that full, empty and
partly drained queues all occur; two players, actors or connections are enough
for every race between different ones, and two commands, saves or operations of
one for the races of a key with itself. The state of the code depends on the
identity of players and connections only through equality. The production limits
are larger (batches of 64, queues of 4096), and their proportions matter: a batch
is smaller than its queue there, and so it is in `runtime_liveness`.
`MCSpec` of the persistence lets one player alone change to the last version, or
one change twice and the other once; no fair action changes a player.
`MCSpec` of the runtime lets a behaviour that sets a timer begin one operation
only. `MCSpec` of the spaces keeps the three cases of `spaces_players` apart:
a player reconnects only in a behaviour that has had no fault (until the
shutdown), and for two players there is no fault and no shutdown, their records
are loaded before zone `z1` is entered, and each enters once. What it leaves out
is in `spaces_faults` and in the first case, for a player alone.

Fairness. Weak fairness of each thread's own step: the service thread, each
worker, the reactor and the repository threads keep running while they have
something to do. A timer that is due becomes due eventually (the clock), an
operation's producer eventually completes it, a repository job ends. Clients are
under no fairness: nobody has to post, commit a new command or close. `FairSpec`
of the outbound channel makes a running actor continue, because a worker returns
to a ready actor. That of the space transitions makes actors run, loads and saves
end, the reactor drain a channel that woke it, finish the loop of
`beginShutdown`, retry closes and close reported connections in each pass, and
abort after a failure of the runtime. No fairness makes a stop come, a battle end,
or the grace period of a stop run out.

Deadlock is checked where the model has a final state of its own; the outbound
channel and the space transitions rest when nobody sends, so their runs do not
check it.

## 4. What the runs found

- A snapshot queued after the drain of a pass, followed by the final save, is
  stored after and over the final record (`persistence_final`).
- `completeSave` puts a failed background record back with `insert_or_assign` over
  a newer pending snapshot, which is lost until the next change
  (`persistence_pending`).
- After a full ingress batch of `ExistingOnly` submissions to missing actors,
  `pumpWorker` waits for a wake-up that has been used up (`runtime_batch`).
- A disconnect during the return from a room leaves the entity in its zone, and
  the next login can put the player in a second one (`spaces_disconnect`).

TLC refutes the following as well. No run is kept for them; the last column gives
the instance on which to see each, with the property in place of those of the
file. Line numbers are of `docs/room-entry-handoff-contract.md`.

| disagreement | property | instance |
|---|---|---|
| a participant who is InRoom can start the battle while another is still leaving its zone (line 73 excludes it) | `NoBattleWhileEntering` | `MCSpacePlayers.cfg` |
| if that battle also ends first, the other's return request is dropped and the player stays in a room that is over (line 97: all are returned) | `InRoomSeated` | `MCSpacePlayers.cfg` |
| a refused `LeaveRoom` is not repeated, and the seat stays (lines 161 and 162: the seat is freed) | `DisconnectLeavesNothing` | `MCSpaceDisconnect.cfg` with `MaxFaults = 1` |
| a room join whose record fails to load is never answered, and the close of its connection is retried until shutdown (line 105 names another case as the only silent one) | `TransitionAnswered` without its exception | `MCSpaceFaults.cfg` |
| a disconnect in a room saves no location instead of the point of return (line 140) | `ReturnPointKept` | `MCSpaceFaults.cfg` |
| a load that completes after the client has entered a zone notes the stored location over the newer one; a disconnect then saves the old place | `LocationAgrees` without its exception | `MCSpaceFaults.cfg` |

## 5. What is proved

Three modules prove, for every finite set of players, every queue capacity, any
bound on changes and failures, and both ways to stop:

- `TypeCorrect` (`PlayerPersistenceProofs`): the type invariant, inductive by
  itself (`TypeStep`).
- `SavesDoNotOverlap` (`PlayerPersistenceProofs`): `OneSavePerPlayer`. It is not
  inductive: that `starts` and `jobs` hold at most one save of a player follows
  from `SaveInv` (each is the one that `inFlight` records, and none is in both) and
  from `ThreadInv` (`starts` is empty except while the thread starts saves).
  `IndInv` is their conjunction with the types.
- `FinalSavesAnswered` (`PlayerPersistenceFinals`): `FinalAnsweredOnce`, from the
  account `FinalInv` (asked = answered + queued + under way + completions still to
  run) and the part of `ThreadInv` that says what the stop loop has seen before it
  ends.
- `SnapshotsInOrder` (`PlayerPersistenceOrder`): the action property
  `BackgroundSavesInOrder`, from `OrderInv`: as long as no final save was asked
  for, the versions of a player do not decrease along stored record, save under
  way, pending, queue, live state.
  The case that needs care is a failed save put back over a newer pending
  snapshot: it loses the newer one and still does not break the order.

Assumptions: the named ASSUMEs of `PlayerPersistence`. Liveness under fairness
and everything about `ActorRuntime`, `OutboundChannel` and `SpaceTransitions` is
model-checked only.

## 6. What is not modelled

Nothing to check: result sinks and encoders, sockets, metrics, build information,
the load client and the Python client.

Left out of the models above: the composition of the player actor with
`PlayerPersistence` (dirty snapshots with their retry, a load that overtakes a
save), connections without a player, the TCP server beyond the closes and the
shutdown described in section 2, the rules of a battle (skills, movement,
deadline, rewards), the economy of a player and the frame decoder.

Not modelled: the successor stack (`worker/`, `adapter/`) with its inbox,
quiescence barrier, actor table, timers, database client and shutdown phases.
