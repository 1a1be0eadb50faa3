SPECIFICATION Spec
CONSTANTS
  me = me
  a = a
  m1 = m1
  m2 = m2
  p1 = p1
  i1 = i1
  NoState = NoState
  NoConn = NoConn
  NoSeq = NoSeq
  Conn = {m1, m2, p1}
  Watched = {m1, m2}
  MyConn = {m1, m2}
  Name = {me, a}
  PeerName = {me, a}
  MyName = me
  MyFlaws = {"none"}
  Incarnation = {i1}
  MaxPlayers = 2
  MaxRemotes = 1
  MaxBatch = 2
  RateLimit = 1
  Window = 0
  StaleAfter = 1
  SnapshotInterval = 0
  ChunkSize = 3
  SeqRange = 8
  StateRoom = 1
  PongRoom = 0
  MaxNow = 0
  MaxPlayerId = 2
  MaxSession = 2
  MaxSeqNo = 1
  Reserved = 0
  Faults = {"stop"}
CONSTRAINT Followed
PROPERTY RestartIsReconnectable
CHECK_DEADLOCK FALSE
