---------------------------- MODULE MCNativeTun ----------------------------
(* Values for the constants of NativeTun: addresses of eight bits.         *)
EXTENDS NativeTun

CONSTANTS tun0, tun01, eth0

(* The defaults differ in the bits behind their common prefix; the other   *)
(* addresses share some of it, or are at an end of the range.              *)
SomeAddresses == {0, 180, 182, 255}
Default(a) == [form |-> "cidr", a |-> a, p |-> 6]
TheDefaultAddr == Default(182)
TheDefaultSubnet == Default(180)
SomeNames == {tun0, tun01, eth0}
NameContaining == {<<n, n>> : n \in SomeNames} \cup {<<tun01, tun0>>}
=============================================================================
