------------------------------ MODULE NativeTun ------------------------------
(***************************************************************************)
(* nativeFromCfg (device/native_linux.go, native_unix.go,                  *)
(* native_windows.go, native.go): make a TUN device and configure it with  *)
(* commands, one process after the other, each of which the system answers *)
(* from the state the ones before it have left.                            *)
(*                                                                         *)
(* An address is a number of Width bits, shown in four octets; a route is  *)
(* its first address and prefix length.  A text is an IPv4 address with a  *)
(* prefix (cidr) or without one (bare), or neither (other); None is the    *)
(* empty text.  ip and netsh are modelled from what the code expects of    *)
(* them: they refuse a route that is there, on an interface that is down,  *)
(* or with bits behind the prefix, and an address brings its own route.    *)
(***************************************************************************)
EXTENDS Integers, Sequences

CONSTANTS
  Width,          \* bits of an address: 32
  Addresses,      \* the addresses that texts are made of
  DefaultAddr, DefaultSubnet, None,
  Names, TunName, \* interface names, and the one that is asked for
  Containing      \* <<n, m>>: the name n contains the name m

Prefixes == 0 .. Width
Texts ==
  [form : {"cidr"}, a : Addresses, p : Prefixes]
    \cup [form : {"bare"}, a : Addresses, p : {Width}]
    \cup [form : {"other"}, a : {0}, p : {0}]

ASSUME NativeAssumption ==
  /\ Width \in Nat /\ Width % 4 = 0
  /\ Addresses \subseteq 0 .. 2^Width - 1
  /\ DefaultAddr \in Texts /\ DefaultSubnet \in Texts /\ None \notin Texts
  /\ TunName \in Names /\ None \notin Names
  /\ \A n \in Names : <<n, n>> \in Containing

(* What a power of two is, for provers that do not know it.                *)
ASSUME PowerAssumption == \A n \in 0 .. Width - 1 : 2^(n + 1) = 2 * 2^n

VARIABLES
  platform, addr, subnet,
  panics,   \* the logger's Panicln does panic
  existing, \* the interfaces of others
  pc,
  dev,      \* what the process holds: nothing, a descriptor, the device
  actual,   \* the interface's name
  used,     \* actualName, the name the commands use
  iface,    \* what the system knows of the interface
  cmds,     \* the commands still to run
  failed,   \* why a command, or a step before the commands, failed
  touched   \* the interfaces of others that a command has changed

inputs == <<platform, addr, subnet, panics, existing>>
tunVars == <<inputs, pc, dev, actual, used, iface, cmds, failed, touched>>

Prefix == [a : 0 .. 2^Width - 1, p : Prefixes]
Commands == {"up", "addr", "route"}

TunTypeOK ==
  /\ platform \in {"linux", "unix", "windows", "none"}
  /\ addr \in Texts /\ subnet \in Texts /\ panics \in BOOLEAN
  /\ existing \subseteq Names \ {TunName}
  /\ pc \in {"begin", "open", "bind", "create", "name", "waitUp", "plan", "index",
             "run", "error", "ok", "crash"}
  /\ dev \in {"none", "fd", "open", "closed"}
  /\ actual \in Names \cup {None} /\ used \in Names \cup {None}
  /\ iface \in [up : BOOLEAN, addrs : SUBSET Prefix, routes : SUBSET Prefix]
  /\ cmds \in Seq([does : Commands, to : Names])
  /\ failed \in {"no", "env", "text", "nodev", "exists", "down"}
  /\ touched \subseteq existing
-----------------------------------------------------------------------------
(* Addresses and masks.                                                    *)

Masked(a, p) == [a |-> a - (a % 2^(Width - p)), p |-> p]

Shown(number) == [i \in 1 .. 4 |->
  (number \div 2^((4 - i) * (Width \div 4))) % 2^(Width \div 4)]

(* The mutant: the shift is one short.                                     *)
cidrPrefixToMask_Short(p) ==
  Shown(IF p <= 0 THEN 0 ELSE IF p >= Width THEN 2^Width - 1
        ELSE ((2^Width - 1) * 2^(Width - p - 1)) % 2^Width)

cidrPrefixToMask(p) ==
  Shown(IF p <= 0 THEN 0 ELSE IF p >= Width THEN 2^Width - 1
        ELSE ((2^Width - 1) * 2^(Width - p)) % 2^Width)

(* The prefix that netsh makes of an address and a mask in octets.         *)
PrefixOf(a, mask) ==
  Masked(a, CHOOSE p \in Prefixes : mask = Shown(2^Width - 2^(Width - p)))

(* The mutant: prefixes are compared as they were written.                 *)
shouldAddNativeRoute_AsWritten ==
  addr.form = "cidr" /\ subnet.form = "cidr" => addr # subnet

shouldAddNativeRoute ==
  addr.form = "cidr" /\ subnet.form = "cidr" =>
    Masked(addr.a, addr.p) # Masked(subnet.a, subnet.p)
-----------------------------------------------------------------------------
TunInit ==
  /\ platform \in {"linux", "unix", "windows", "none"}
  /\ \E a \in Texts \cup {None} : addr = IF a = None THEN DefaultAddr ELSE a
  /\ \E s \in Texts \cup {None} : subnet = IF s = None THEN DefaultSubnet ELSE s
  /\ panics \in BOOLEAN
  /\ existing \in SUBSET (Names \ {TunName})
  /\ pc = "begin" /\ dev = "none"
  /\ actual = None /\ used = None
  /\ iface = [up |-> FALSE, addrs |-> {}, routes |-> {}]
  /\ cmds = <<>> /\ failed = "no" /\ touched = {}

Go(place) == pc' = place
Fail(place, why) == pc' = place /\ failed' = why

(* Windows reads the address before it makes a device; a platform without  *)
(* TUN devices returns an error at once.                                   *)
Begin ==
  /\ pc = "begin"
  /\ \/ platform = "none" /\ Fail("error", "env")
     \/ platform = "windows" /\ addr.form # "cidr" /\ Fail("error", "text")
     \/ platform = "linux" /\ Go("open") /\ UNCHANGED failed
     \/ /\ platform = "unix" \/ (platform = "windows" /\ addr.form = "cidr")
        /\ Go("create") /\ UNCHANGED failed
  /\ UNCHANGED <<inputs, dev, actual, used, iface, cmds, touched>>

(* createLinuxNativeTUN: the clone device, the interface, the file.        *)
Open ==
  /\ pc = "open"
  /\ \/ Fail("error", "env") /\ UNCHANGED dev
     \/ dev' = "fd" /\ Go("bind") /\ UNCHANGED failed
  /\ UNCHANGED <<inputs, actual, used, iface, cmds, touched>>

Bind ==
  /\ pc = "bind"
  /\ \/ dev' = "closed" /\ Fail("error", "env")
     \/ Go("create") /\ UNCHANGED <<dev, failed>>
  /\ UNCHANGED <<inputs, actual, used, iface, cmds, touched>>

(* CreateTUN and CreateTUNFromFile; only on the other unix systems may the *)
(* interface get a name that was not asked for.                            *)
Create ==
  /\ pc = "create"
  /\ \/ /\ dev' = IF dev = "fd" THEN "closed" ELSE dev
        /\ Fail("error", "env") /\ UNCHANGED actual
     \/ /\ dev' = "open"
        /\ \E n \in Names \ existing :
             actual' = n /\ (platform # "unix" => n = TunName)
        /\ Go("name") /\ UNCHANGED failed
  /\ UNCHANGED <<inputs, used, iface, cmds, touched>>

(* The mutant: a name that cannot be read leaves none.                     *)
Name_Unread ==
  /\ pc = "name"
  /\ \E n \in {actual, None} : used' = n
  /\ Go(IF platform = "windows" THEN "plan" ELSE "waitUp")
  /\ UNCHANGED <<inputs, dev, actual, iface, cmds, failed, touched>>

(* A name that cannot be read is taken to be the one asked for.            *)
Name ==
  /\ pc = "name"
  /\ \E n \in {actual, TunName} : used' = n
  /\ Go(IF platform = "windows" THEN "plan" ELSE "waitUp")
  /\ UNCHANGED <<inputs, dev, actual, iface, cmds, failed, touched>>

WaitUp ==
  /\ pc = "waitUp"
  /\ Go("plan")
  /\ UNCHANGED <<inputs, dev, actual, used, iface, cmds, failed, touched>>
-----------------------------------------------------------------------------
(* The list of commands.                                                   *)

Command(does, to) == [does |-> does, to |-> to]

Plan ==
  /\ pc = "plan"
  /\ cmds' = (IF platform = "windows"
              THEN <<Command("addr", used), Command("up", used)>>
              ELSE <<Command("up", used), Command("addr", used)>>)
             \o (IF shouldAddNativeRoute /\ platform # "windows"
                 THEN <<Command("route", used)>> ELSE <<>>)
  /\ Go(IF shouldAddNativeRoute /\ platform = "windows" THEN "index" ELSE "run")
  /\ UNCHANGED <<inputs, dev, actual, used, iface, failed, touched>>

(* The mutant: the first interface of the list is taken.                   *)
Index_First ==
  /\ pc = "index"
  /\ \E n \in existing \cup {actual} :
       cmds' = Append(cmds, Command("route", n)) /\ Go("run")
  /\ UNCHANGED <<inputs, dev, actual, used, iface, failed, touched>>

(* getInterfaceIndex takes the first line of netsh's list that contains    *)
(* the name, whatever the order of the list.                               *)
Index ==
  /\ pc = "index"
  /\ \/ \E n \in existing \cup {actual} :
          /\ <<n, used>> \in Containing
          /\ cmds' = Append(cmds, Command("route", n))
          /\ Go("run") /\ UNCHANGED <<dev, failed>>
     \/ dev' = "closed" /\ Fail("error", "env") /\ UNCHANGED cmds
  /\ UNCHANGED <<inputs, actual, used, iface, touched>>
-----------------------------------------------------------------------------
(* The system's answers.                                                   *)

AddrPrefix == IF platform = "windows"
              THEN PrefixOf(addr.a, cidrPrefixToMask(addr.p))
              ELSE Masked(addr.a, addr.p)

Target == Masked(subnet.a, subnet.p)

Unreadable(cmd) ==
  \/ cmd.does = "addr" /\ addr.form = "other"
  \/ cmd.does = "route" /\ (subnet.form = "other" \/ Target.a # subnet.a)

Refusal(cmd) ==
  IF Unreadable(cmd) THEN "text"
  ELSE IF cmd.to \notin existing \cup {actual} THEN "nodev"
  ELSE IF cmd.does # "route" \/ cmd.to # actual THEN "no"
  ELSE IF Target \in iface.routes THEN "exists"
  ELSE IF iface.up THEN "no" ELSE "down"

(* An address of an interface that is up brings a route to its prefix, if  *)
(* that is more than the address itself.                                   *)
Connected(i) ==
  IF i.up THEN [i EXCEPT !.routes = @ \cup {r \in i.addrs : r.p < Width}] ELSE i

Effect(does) ==
  CASE does = "up" -> Connected([iface EXCEPT !.up = TRUE])
    [] does = "addr" -> Connected([iface EXCEPT !.addrs = @ \cup {AddrPrefix}])
    [] does = "route" -> [iface EXCEPT !.routes = @ \cup {Target}]

Run ==
  /\ pc = "run" /\ cmds # <<>>
  /\ Refusal(Head(cmds)) = "no"
  /\ \/ /\ Head(cmds).to = actual
        /\ iface' = Effect(Head(cmds).does) /\ UNCHANGED touched
     \/ /\ Head(cmds).to # actual
        /\ touched' = touched \cup {Head(cmds).to} /\ UNCHANGED iface
  /\ cmds' = Tail(cmds)
  /\ UNCHANGED <<inputs, pc, dev, actual, used, failed>>

(* A command may fail for reasons of its own.  On unix Panicln comes       *)
(* before the lines that close the device.                                 *)
RunFails ==
  /\ pc = "run" /\ cmds # <<>>
  /\ \E why \in {"env", Refusal(Head(cmds))} :
       /\ why # "no"
       /\ \/ platform # "windows" /\ panics /\ Fail("crash", why) /\ UNCHANGED dev
          \/ (platform = "windows" \/ ~panics) /\ dev' = "closed" /\ Fail("error", why)
  /\ UNCHANGED <<inputs, actual, used, iface, cmds, touched>>

Return ==
  /\ pc = "run" /\ cmds = <<>>
  /\ Go("ok")
  /\ UNCHANGED <<inputs, dev, actual, used, iface, cmds, failed, touched>>

nativeFromCfg ==
  \/ Begin \/ Open \/ Bind \/ Create \/ Name \/ WaitUp
  \/ Plan \/ Index \/ Run \/ RunFails \/ Return

TunSpec == TunInit /\ [][nativeFromCfg]_tunVars
-----------------------------------------------------------------------------
NameFound == used = actual

Ambiguous == \E n \in existing : <<n, used>> \in Containing

(* A device that is handed over is up, has its address, and routes the     *)
(* subnet, whether the code or the system added that route; unless the     *)
(* list of interfaces named another one first.                             *)
OkMeansConfigured ==
  pc = "ok" /\ NameFound =>
    /\ dev = "open" /\ iface.up
    /\ Masked(addr.a, addr.p) \in iface.addrs
    /\ Target \in iface.routes \cup iface.addrs \/ (platform = "windows" /\ Ambiguous)

(* The commands never stand in each other's way: none fails because the    *)
(* route is there already or the interface is not up yet.                  *)
NoSelfConflict == failed \notin {"exists", "down"}

(* An error returns nothing open.                                          *)
ErrorMeansClosed == pc = "error" => dev \in {"none", "closed"}

(* What nativeFromCfg returns is what there is.                            *)
ReturnIsTrue == OkMeansConfigured /\ ErrorMeansClosed

(* No command changes an interface of another program, unless the name     *)
(* could not be read or is part of that interface's name.                  *)
OnlyOwnInterface ==
  touched # {} => ~NameFound \/ (platform = "windows" /\ Ambiguous)
=============================================================================
