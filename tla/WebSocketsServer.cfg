CONSTANTS
  fd1 = fd1
  fd2 = fd2
  NoFd = NoFd
  Fds <- TwoFds
  NumberCount = 2
  MaxArrivals = 3
  MaxMessages = 1
CHECK_DEADLOCK FALSE
SPECIFICATION FairSpec
INVARIANT NumberReachesClient
INVARIANT QuietAfterClose
PROPERTY CloseEnds
PROPERTY ImplementsClientSessions
