\* A blocking reader, other readers that do not block, an epoll on both ends, two
\* bytes, a table of two callbacks.
SPECIFICATION FairSpec
CONSTANTS
  Readers = {r1}
  Poller = p
  MaxBytes = 2
  MaxFds <- TwoWriters
  MaxCallbacks = 2
INVARIANT StreamThenEof
PROPERTIES ReadCompletes PollReports
