SPECIFICATION Spec
CONSTANTS
  v1 = v1
  v2 = v2
  q1 = q1
  q2 = q2
  Nobody = Nobody
  App = App
  NoPort = NoPort
  AnyPort = AnyPort
  NoPeer = NoPeer
  Servers <- TwoServers
  Owners <- TwoAndApp
  Ports <- TwoPorts
  Port <- SamePort
  Peers = {p1}
  Waits <- Wait
  MaxFd = 3
INVARIANT
  ListensOnItsPort
