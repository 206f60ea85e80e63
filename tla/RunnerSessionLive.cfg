SPECIFICATION FairSpec
CONSTANTS
  c1 = c1
  c2 = c2
  c3 = c3
  s1 = s1
  s2 = s2
  Conns <- TwoConns
  SocksConns <- TwoSocks
  NoConn = NoConn
  Modes <- AllModes
  TunTypes <- AllTunTypes
  NativePanics = FALSE
PROPERTY
  CallsReturn
CHECK_DEADLOCK FALSE
