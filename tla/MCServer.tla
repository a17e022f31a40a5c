------------------------------ MODULE MCServer ------------------------------
(* Small instances of Server.                                              *)
EXTENDS Server, Options, TLC

Svc(b, a) == [base |-> b, arg |-> a]
Opt(o, b, a) == [o |-> o, arg |-> Svc(b, a)]

MCNumeral == ("5" :> 5) @@ ("7" :> 7) @@ ("80" :> 80) @@ ("301" :> 301)
             @@ ("40000" :> 40000)
MCAtoi == MCNumeral @@ ("5s" :> 5) @@ ("s" :> 0) @@ ("-5" :> -5)
MCCmdOutput  == {Result(10, 2)}
MCExecutable == {Name("/bin/probe")}
MCRelative   == {Name("lbcd.pid")}

Flag(o) == Opt(o, "", "")
Cmd     == Opt("c", "/bin/probe", "")
Pid     == Opt("P", "/run/lbcd.pid", "")
RelPid  == Opt("P", "lbcd.pid", "")

(* The command lines that make a daemon.                                   *)
Parsed(lines) == {c \in {main(l) : l \in lines} : ~ c.died}

(* Command lines for the request-handling run: the default, a command with *)
(* "cmd" itself listed, constant weights, probed ports, -w default, -w tcp.*)
ProtocolConfigs == Parsed({
  << >>,
  <<Cmd, Opt("a", "cmd", ""), Opt("a", "cmd", "x"), Opt("a", "http", "80")>>,
  <<Opt("w", "5", "7"), Opt("a", "nosuch", ""), Flag("S")>>,
  <<Flag("R"), Opt("a", "http", "80"), Opt("a", "rr", "")>>,
  <<Opt("w", "default", ""), Opt("T", "5s", "")>>,
  <<Opt("T", "301", "")>>, <<Opt("T", "s", "5")>>, <<Opt("T", "-5", "")>>,
  <<Opt("w", "tcp", "80"), Opt("a", "tcp", "40000"), Opt("a", "tcp", "80")>>,
  <<Opt("a", "ntp", ""), Opt("a", "tcp", "80"), Opt("w", "load", "")>>})

LifecycleConfigs == Parsed({<< >>, <<Pid>>, <<Pid, Flag("Z")>>, <<RelPid>>})
PlainConfigs     == Parsed({<< >>})

D(size, v, op, n, names) ==
  [from |-> "client", size |-> size, version |-> v, id |-> 7, op |-> op,
   nservices |-> n, names |-> names]
V3(names) == D(8 + 32 * Len(names), 3, 1, Len(names), names)
V2 == D(8, 2, 1, 0, << >>)

ProtocolDatagrams ==
  { V2, V3(<< >>),
    D(0, 0, 0, 0, << >>), D(7, 0, 0, 0, << >>),        \* empty, short
    D(8, 1, 1, 0, << >>), D(8, 4, 1, 0, << >>),        \* old, new version
    D(8, 2, 9, 3, << >>),                              \* operation, ignored count
    D(40, 2, 1, 1, <<Name("rr")>>),                    \* version 2 with a list
    D(8, 3, 1, 1, << >>),                              \* list missing
    D(40, 3, 2, 1, <<DefaultService>>),
    D(200, 3, 1, 6, [i \in 1 .. 6 |-> DefaultService]),\* one too many
    V3([i \in 1 .. 5 |-> Name("rr")]),
    V3(<<Svc("http", "80"), DefaultService>>),
    V3(<<DefaultService, Name("cmd")>>), V3(<<Svc("cmd", "x")>>),
    V3(<<Name("nosuch"), Svc("5", "7")>>),
    V3(<<Name("ntp"), Svc("tcp", "80")>>),
    V3(<<Svc("tcp", "40000"), Svc("tcp", "80")>>) }

PlainDatagrams == {V2, V3(<< >>)}
NamedDatagrams == {V3(<<DefaultService>>)}

(* Load and users of a host, and the blocks of its /tmp: none; 95% used;   *)
(* more available than there are.                                          *)
H(l, t, u, blocks, bavail) ==
  [load |-> l, tot_users |-> t, uniq_users |-> u, blocks |-> blocks, bavail |-> bavail]
MCHosts == {H(100, 3, 2, 0, 0), H(65636, 1, 1, 100, 5)}
OneHost == {H(100, 3, 2, 10, 20)}
=============================================================================
