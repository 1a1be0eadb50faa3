SPECIFICATION Spec
CONSTANTS
  n1 = n1
  n2 = n2
  w = w
  p = p
  NoState = NoState
  Conn = {w, p}
  Watched = {w}
  Name = {n1, n2}
  Incarnation = {1}
  MaxPlayers = 2
  RateLimit = 1
  Window = 2
  StaleAfter = 1
  SnapshotInterval = 1
  ChunkSize = 1
  SeqRange = 4
  StateRoom = 2
  PongRoom = 0
  MaxNow = 3
  MaxPlayerId = 2
  MaxSession = 1
INVARIANTS
  RateBound
  FeedOrdered
  SnapshotComplete
CHECK_DEADLOCK FALSE
