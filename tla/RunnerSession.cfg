SPECIFICATION Spec
CONSTANTS
  c1 = c1
  c2 = c2
  c3 = c3
  s1 = s1
  s2 = s2
  Conns <- ThreeConns
  SocksConns <- TwoSocks
  NoConn = NoConn
  Modes <- AllModes
  TunTypes <- AllTunTypes
  NativePanics = TRUE
INVARIANTS
  FailedMeansReleased
  OlderClientStaysOff
PROPERTIES
  NoAddAfterZero
  ImplementsHandle
CHECK_DEADLOCK FALSE
