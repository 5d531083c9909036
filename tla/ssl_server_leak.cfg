SPECIFICATION SSLSpec
CONSTANTS
  v1 = v1
  q1 = q1
  Nobody = Nobody
  App = App
  NoPort = NoPort
  AnyPort = AnyPort
  NoPeer = NoPeer
  NoSlot = NoSlot
  Servers <- OneServer
  Owners <- OneAndApp
  Ports <- OnePort
  Port <- ThePort
  Peers = {p1, p2}
  Waits <- Wait
  Slots = {s1, s2}
  MaxFd = 2
  MaxCtx = 2
  CarefulApp = TRUE
INVARIANT
  NothingLeaked
