SPECIFICATION FairSpec
CONSTANTS
  MaxFd = 5
  MaxAddr = 2
  MaxCalls = 2
INVARIANTS SocketUsable Released
PROPERTIES StrayOnlyIfNoneLeft CallAdvances CallEnds
CHECK_DEADLOCK FALSE
