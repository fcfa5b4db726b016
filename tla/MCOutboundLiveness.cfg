SPECIFICATION FairSpec
CONSTANTS
  a1 = a1
  a2 = a2
  a3 = a3
  a4 = a4
  c1 = c1
  c2 = c2
  Actors = {a1, a2}
  Pushers = {}
  Connections = {c1, c2}
  ConnectionOf <- MCConnectionOf
  Capacity = 2
  MaxSlots = 2
  MaxGrants = 1
  MaxFailures = 1
  DrainBatch = 2
  Commands <- MCFewCommands
CHECK_DEADLOCK FALSE
PROPERTIES
  WaiterAnswered
  ActionsTaken
  FailureClosesConnection
