SPECIFICATION FairSpec
CONSTANTS
  p1 = p1
  p2 = p2
  i1 = i1
  i2 = i2
  r1 = r1
  Idle = Idle
  NoState = NoState
  NoRoom = NoRoom
  Pid = {p1}
  Incarnation = {i1, i2}
  Room = {r1}
  MaxFifos = 1
  MaxControls = 3
  FifoDepth = 1
  SeqRange = 8
  MaxLife = 2
  MaxSlots = 1
  MaxSent = 2
  MaxActor = 2
  MaxVehicle = 0
  Faults = {"stop", "kill", "cleanup", "thread", "native"}
INVARIANTS
  TypeOK
  SlotsFollowCommands
  NoStateOfAnotherLife
  ActorsAreHeld
  SavesAreClean
PROPERTIES
  SafeModeEmpties
CHECK_DEADLOCK FALSE
