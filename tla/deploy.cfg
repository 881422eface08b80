CONSTANTS
  o1 = o1 o2 = o2
  Operators = {o1, o2}
  MaxPods = 3
  MaxKeys = 2
  MaxTasks = 3
  MaxFaults = 2
  MaxStops = 1
  Failing <- Calls
SPECIFICATION Spec
SYMMETRY Symmetry
CONSTRAINT OneHolder
ACTION_CONSTRAINT AgesWhenSeen
CHECK_DEADLOCK FALSE
INVARIANTS OneTaskAtATime KeysAgree NothingIsStranded
PROPERTIES DeletesNoBoundPod FailureIsUndone
