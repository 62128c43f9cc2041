\* A client on endpoint 0 and a server on endpoint 1.
SPECIFICATION FairSpec
CONSTANTS
  c1 = c1  s1 = s1  m1 = m1  m2 = m2  m3 = m3
  None = None
  Ends = {0, 1}
  PeerOf <- MCPeerOf
  EpOf <- MCEpOf
  Threads = {c1, s1}
  Msgs = {m1, m2, m3}
  TxMod = 4
  FirstTx = 2
INVARIANTS EachMessageOnce ReadableExact ClosedMeansDrained
PROPERTY CallEndsWhenPeerCloses
CHECK_DEADLOCK FALSE
