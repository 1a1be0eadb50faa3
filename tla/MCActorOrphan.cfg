SPECIFICATION Spec
CONSTANTS
  p1 = p1
  p2 = p2
  i1 = i1
  i2 = i2
  r1 = r1
  Idle = Idle
  NoState = NoState
  NoRoom = NoRoom
  Pid = {p1}
  Incarnation = {i1}
  Room = {r1}
  MaxFifos = 1
  MaxControls = 3
  FifoDepth = 1
  SeqRange = 8
  MaxLife = 1
  MaxSlots = 1
  MaxSent = 1
  MaxActor = 2
  MaxVehicle = 1
  Faults = {"native", "acquire"}
INVARIANT ActorsAreHeld
CHECK_DEADLOCK FALSE
