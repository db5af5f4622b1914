SPECIFICATION FairSpec
CONSTANTS
  t0 = t0
  t1 = t1
  Threads = {t0, t1}
  Main = t0
  MaxChannels = 1
  MaxPosts = 2
  mMaxPackets = 2
INVARIANTS WorkerWoken AllStored
PROPERTIES StopEnds
CHECK_DEADLOCK FALSE
