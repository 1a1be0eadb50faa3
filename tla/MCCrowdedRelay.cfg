SPECIFICATION CrowdSpec
CONSTANTS
  me = me
  a = a
  b = b
  m1 = m1
  m2 = m2
  p1 = p1
  p2 = p2
  i1 = i1
  NoState = NoState
  NoConn = NoConn
  NoSeq = NoSeq
  Conn = {m1, p1, p2}
  Watched = {m1}
  MyConn = {m1}
  Name = {me, a, b}
  PeerName = {a, b}
  MyName = me
  MyFlaws = {"none"}
  Incarnation = {i1}
  MaxPlayers = 3
  MaxRemotes = 1
  MaxBatch = 2
  RateLimit = 1
  Window = 0
  StaleAfter = 1
  SnapshotInterval = 0
  ChunkSize = 3
  SeqRange = 8
  StateRoom = 0
  PongRoom = 0
  MaxNow = 0
  MaxPlayerId = 4
  MaxSession = 2
  MaxSeqNo = 1
  Reserved = 1
  Faults = {"crash", "lost"}
SYMMETRY PeerSymmetry
CONSTRAINT Followed
INVARIANTS
  NeverAccused
CHECK_DEADLOCK FALSE
