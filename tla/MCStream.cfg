SPECIFICATION StreamSpec
CONSTANTS
  r1 = r1
  r2 = r2
  None = None
  Room = {r1, r2}
  SeqRange = 16
  FirstSequence = 14
  Capacity = 2
  ClockBuckets = 2
  RecentSeconds = 1
  Second = 1
  MinDelay = 1
  MaxDelay = 2
  JitterMargin = 0
  MaxExtrapolation = 1
  SlowWarp = 3
  FastWarp = 1
  FastThreshold = 1
  ResyncThreshold = 2
  MaxNow = 4
  MaxJumps = 1
  ChannelRoom = 1
  InboxRoom = 1
  Skew = 2
  StampSpread = 1
  HeaderSize = 12
  MaxPacketSize = 1200
  MaxSnapshotPlayers = 3
  MaxPayload = 4096
INVARIANTS
  
  StreamIsCarried
  NeverAheadOfSender
PROPERTIES
  PlaybackNeverSlidesBack
SYMMETRY Rooms
CHECK_DEADLOCK FALSE
