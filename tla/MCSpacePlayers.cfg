SPECIFICATION MCSpec
CONSTANTS
  c1 = c1
  c2 = c2
  c3 = c3
  p1 = p1
  p2 = p2
  z1 = z1
  None = None
  Connections = {c1, c2, c3}
  Players = {p1, p2}
  PlayerOf <- TwoOwners
  Zones = {z1, z2}
  Rooms = {r1}
  Positions = {a}
  MaxTransitions = 2
  MaxParticipants = 2
  RoomCapacity = 2
  MaxCompletionsPerTurn = 1
  MaxFaults = 2
  MaxEpoch = 2
  MaxIds = 2
  MaxMail = 1
CHECK_DEADLOCK FALSE
SYMMETRY Reconnects
INVARIANTS
  TransitionExclusive
  RoutesPresent
  NoGhosts
  SeatOwned
  PublishAccepted
PROPERTIES
  ImplementsContract
