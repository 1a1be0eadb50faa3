SPECIFICATION Spec
CONSTANTS
  n1 = n1
  n2 = n2
  r = r
  p1 = p1
  p2 = p2
  p3 = p3
  n3 = n3
  NoState = NoState
  Conn = {r, p1, p2, p3}
  Watched = {r}
  Name = {n1, n2, n3}
  Incarnation = {1}
  MaxPlayers = 3
  RateLimit = 1
  Window = 1
  StaleAfter = 1
  SnapshotInterval = 1
  ChunkSize = 3
  SeqRange = 4
  StateRoom = 0
  PongRoom = 1
  MaxNow = 0
  MaxPlayerId = 3
  MaxSession = 2
SYMMETRY Symmetry
INVARIANTS
  TypeOK
  RosterConverges
  ReadersNeverConfused
CHECK_DEADLOCK FALSE
