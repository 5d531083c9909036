SPECIFICATION Spec
CONSTANTS
  c1 = c1
  c2 = c2
  other = other
  Nobody = Nobody
  Clients <- TwoClients
  Others <- OneOther
  Owners <- Everyone
  MaxFd = 2
  MaxAddrs = 2
  CarefulCaller = FALSE
PROPERTY
  OthersUntouched
