SPECIFICATION TunSpec
CONSTANTS
  Width = 8
  Addresses <- SomeAddresses
  DefaultAddr <- TheDefaultAddr
  DefaultSubnet <- TheDefaultSubnet
  None = None
  tun0 = tun0
  tun01 = tun01
  eth0 = eth0
  Names <- SomeNames
  TunName = tun0
  Containing <- NameContaining
INVARIANTS
  TunTypeOK
  ReturnIsTrue
  NoSelfConflict
  OnlyOwnInterface
CHECK_DEADLOCK FALSE
