SPECIFICATION PartsSpec
CONSTANTS
  v1 = v1
  v2 = v2
  q1 = q1
  q2 = q2
  Nobody = Nobody
  App = App
  NoPort = NoPort
  AnyPort = AnyPort
  NoPeer = NoPeer
  Servers <- TwoServers
  Owners <- TwoAndApp
  Ports <- TwoPorts
  Port <- SamePort
  Peers = {p1, p2}
  Waits <- Wait
  MaxFd = 2
  NULL = NULL
  Sections = {"", "s"}
  Keys = {"k"}
  Settings <- TheSettings
  Files <- TheFiles
  FromTable = FALSE
  MaxCalls = 2
  Sources <- ManySources
  Rooms = {0, 1, 2, 3, 4}
INVARIANTS
  TypeOK
  DescriptorsAccounted
  IniTypeOK
  StringsLive
  RoundTrip
  ConvertTypeOK
  SameText
  ResultTruthful
PROPERTIES
  ListenReport
  NoConnectionLost
  KeepsItsPort
  KeepsDocument
CHECK_DEADLOCK FALSE
