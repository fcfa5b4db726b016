SPECIFICATION Spec
CONSTANTS
  c1 = c1
  c2 = c2
  c3 = c3
  p1 = p1
  p2 = p2
  z1 = z1
  None = None
  Connections = {c1, c2}
  Players = {p1}
  PlayerOf <- OneOwner
  Zones = {z1, z2}
  Rooms = {r1}
  Positions = {a}
  MaxTransitions = 1
  MaxParticipants = 2
  RoomCapacity = 1
  MaxCompletionsPerTurn = 1
  MaxFaults = 0
  MaxEpoch = 3
  MaxIds = 1
  MaxMail = 1
CHECK_DEADLOCK FALSE
SYMMETRY Reconnects
INVARIANTS
  DisconnectLeavesNothing
