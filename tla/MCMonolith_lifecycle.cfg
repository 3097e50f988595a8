SPECIFICATION LiveSpec
CONSTANTS
  Replicas = {m1, m2}
  Environments <- SomeEnvironments
  Disturbed = {m1}
  MaxFaults = 1
  MaxSignals = 1
CHECK_DEADLOCK FALSE
INVARIANTS
  WorkFindsItsTables
  ReleasedInOrder
PROPERTIES
  OnePartStopsAll
  ReplicasComeUp
