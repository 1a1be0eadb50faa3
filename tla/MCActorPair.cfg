SPECIFICATION Spec
CONSTANTS
  p1 = p1
  p2 = p2
  i1 = i1
  i2 = i2
  r1 = r1
  Idle = Idle
  NoState = NoState
  NoRoom = NoRoom
  Pid = {p1, p2}
  Incarnation = {i1}
  Room = {r1}
  MaxFifos = 2
  MaxControls = 3
  FifoDepth = 1
  SeqRange = 8
  MaxLife = 1
  MaxSlots = 2
  MaxSent = 1
  MaxActor = 2
  MaxVehicle = 2
  Faults = {"native", "thread"}
SYMMETRY Symmetry
INVARIANT DetoursSeeSlots
PROPERTY ArmedVehiclesExist
CHECK_DEADLOCK FALSE
