\* Two servers, two runs of the client, one frame per socket.
SPECIFICATION FairSpec
CONSTANTS
  s1 = s1
  s2 = s2
  Servers = {s1, s2}
  Addrs <- MCAddrs
  OfferOpts <- MCOfferOpts
  AckOpts <- MCAckOpts
  Anonymous <- MCAnonymous
  MaxRuns = 2
  MaxQueue = 1
  None = None
\* The program ends, and is not started again after the last run.
CHECK_DEADLOCK FALSE
PROPERTIES AppliesCommitted OneServer RunEnds
