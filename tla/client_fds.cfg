SPECIFICATION SSLFairSpec
CONSTANTS
  c1 = c1
  c2 = c2
  other = other
  Nobody = Nobody
  Clients <- TwoClients
  Slots <- TLSClient
  Others <- OneOther
  Owners <- Everyone
  MaxFd = 1
  MaxAddrs = 2
  MaxCtx = 2
  CarefulCaller = TRUE
INVARIANTS
  SSLClientTypeOK
  HoldsWhatItNeeds
  StatusTruthful
PROPERTIES
  SessionsAccounted
  OthersUntouched
  ContextsFreed
  ConnectReturns
