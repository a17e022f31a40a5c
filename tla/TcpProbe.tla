------------------------------ MODULE TcpProbe ------------------------------
(***************************************************************************)
(* The probes of local TCP services: probe_tcp with its callers (tcp, ftp, *)
(* nntp, pop, smtp), probe_imap and probe_http, with tcp_connect,          *)
(* network_connect and lbcd_check_reply.  One call is followed from start  *)
(* to end against a server that may refuse, hang, stall, answer in pieces, *)
(* close or reset the connection at any moment.                            *)
(***************************************************************************)
EXTENDS Integers, Sequences, FiniteSets

CONSTANTS
  Services,        \* probes to run: [kind, port] records, port 0 if not given
  AddressLists,  \* what getaddrinfo may return, as the behaviour of each
  Answers,       \* what a server may send first
  TokenLen,      \* how much of it the probe reads
  Timeout,       \* -T
  ConnectTime,   \* how long the kernel tries to connect
  MaxShort       \* largest short

(* tcp only connects; a greeting probe (ftp, nntp, pop, smtp, imap) reads  *)
(* a banner and says goodbye; http sends a query and reads the status.     *)
Kinds == {"tcp", "greeting", "http"}

(* The weight functions with a port and a token of their own.              *)
Greeting(p) == [kind |-> "greeting", port |-> p]
lbcd_ftp_weight  == Greeting(21)
lbcd_nntp_weight == Greeting(119)
lbcd_pop_weight  == Greeting(110)
lbcd_smtp_weight == Greeting(25)
lbcd_imap_weight == Greeting(143)

ASSUME ServicesAssumption ==
  Services \subseteq [kind : Kinds, port : Nat] /\ Services # {}
ASSUME AddressesAssumption ==
  /\ \A a \in AddressLists : a \in Seq({"accept", "refuse", "silent"})
  /\ AddressLists # {}
ASSUME AnswersAssumption ==
  \A a \in Answers : a \in Seq({"ok", "redirect", "other"})
ASSUME NumbersAssumption == /\ TokenLen \in Nat \ {0} /\ Timeout \in Nat
                            /\ ConnectTime \in Nat /\ MaxShort \in Nat

VARIABLES
  probe, ai, answer,   \* the probe, the addresses, what the server would say
  pc,         \* "idle" before the call
  i,          \* the address being tried
  fd,         \* local variable: the socket, 0 for INVALID_SOCKET
  sockets,    \* sockets the process has open
  target,     \* the port number connected to
  peer,       \* the server's side: "none", "open", "fin", "reset"
  sk_err,     \* error the kernel holds for the socket: "none", "reset", "pipe"
  arrived,    \* how much of the answer is in the socket buffer
  got,        \* how much of it socket_read returned
  left,       \* what is left of the current wait
  elapsed,    \* time since the call
  retval

call == <<probe, ai, answer>>
conn == <<peer, sk_err, arrived>>
vars == <<call, pc, i, fd, sockets, target, conn, got, left, elapsed, retval>>

Init ==
  /\ probe = CHOOSE p \in Services : TRUE
  /\ ai = CHOOSE a \in AddressLists : TRUE
  /\ answer = << >>
  /\ pc = "idle" /\ i = 1 /\ fd = 0 /\ sockets = {} /\ target = 0
  /\ peer = "none" /\ sk_err = "none" /\ arrived = 0 /\ got = 0
  /\ left = 0 /\ elapsed = 0 /\ retval = 0

(* (short) n for a non-negative int n.                                     *)
Short(n) == LET m == n % (2 * (MaxShort + 1)) IN
            IF m > MaxShort THEN m - 2 * (MaxShort + 1) ELSE m

(* probe_http falls back to port 80; the other probes pass theirs on.      *)
Port == IF probe.kind = "http" /\ Short(probe.port) < 1 THEN 80
        ELSE Short(probe.port)

Return(v) == pc' = "done" /\ retval' = v

(* lbcd_setweight calls one of the probes.                                 *)
CallProbe ==
  /\ pc = "idle"
  /\ probe' \in Services /\ ai' \in AddressLists /\ answer' \in Answers
  /\ pc' = "resolve"
  /\ UNCHANGED <<i, fd, sockets, target, conn, got, left, elapsed, retval>>

-----------------------------------------------------------------------------
(* tcp_connect and network_connect.                                        *)

tcp_connect ==
  /\ pc = "resolve"
  /\ \/ Return(-1) /\ UNCHANGED target
     \/ pc' = "socket" /\ target' = Port /\ UNCHANGED retval
  /\ UNCHANGED <<call, i, fd, sockets, conn, got, left, elapsed>>

(* Mutant: the socket of the previous address is not closed.               *)
CloseLast_not == sockets
CloseLast == sockets \ {fd}

(* The head of the loop: close the last socket, open the next.             *)
OpenSocket ==
  /\ pc = "socket" /\ i <= Len(ai)
  /\ \/ /\ fd' = 0 /\ sockets' = CloseLast
        /\ i' = i + 1
        /\ UNCHANGED <<pc, left>>
     \/ /\ fd' = i /\ sockets' = CloseLast \cup {i}
        /\ pc' = "connect" /\ left' = ConnectTime
        /\ UNCHANGED i
  /\ UNCHANGED <<call, target, conn, got, elapsed, retval>>

NoAddressLeft ==
  /\ pc = "socket" /\ i > Len(ai)
  /\ sockets' = CloseLast
  /\ Return(-1)
  /\ UNCHANGED <<call, i, fd, target, conn, got, left, elapsed>>

Connected ==
  /\ pc = "connect" /\ ai[i] = "accept"
  /\ peer' = "open"
  /\ pc' = CASE probe.kind = "tcp" -> "close"
             [] probe.kind = "greeting" -> "malloc"
             [] OTHER -> "query"
  /\ UNCHANGED <<call, i, fd, sockets, target, sk_err, arrived, got, left,
                 elapsed, retval>>

(* Refused, given up by the kernel, or interrupted by a signal.            *)
ConnectFails ==
  /\ pc = "connect"
  /\ ai[i] = "silent" => left = 0
  /\ pc' = "socket" /\ i' = i + 1
  /\ UNCHANGED <<call, fd, sockets, target, conn, got, left, elapsed, retval>>

ConnectInterrupted ==
  /\ pc = "connect" /\ ai[i] = "silent" /\ left > 0
  /\ pc' = "socket" /\ i' = i + 1
  /\ UNCHANGED <<call, fd, sockets, target, conn, got, left, elapsed, retval>>

-----------------------------------------------------------------------------
(* The exchange.  A write to a reset connection reports the pending error  *)
(* once; after that it raises SIGPIPE, which the daemon does not handle.   *)

Killed ==
  /\ pc \in {"query", "quit"}
  /\ sk_err = "pipe" \/ (peer = "reset" /\ sk_err = "none")
  /\ pc' = "killed" /\ sockets' = {}
  /\ UNCHANGED <<call, i, fd, target, conn, got, left, elapsed, retval>>

(* probe_http's write.                                                     *)
Query ==
  /\ pc = "query"
  /\ \/ /\ peer # "reset"
        /\ pc' = "select" /\ left' = Timeout
        /\ UNCHANGED <<sk_err, retval>>
     \/ /\ sk_err = "reset" /\ sk_err' = "none"
        /\ pc' = "close" /\ retval' = -1
        /\ UNCHANGED left
  /\ UNCHANGED <<call, i, fd, sockets, target, peer, arrived, got, elapsed>>

(* lbcd_check_reply's buffer.                                              *)
Malloc ==
  /\ pc = "malloc"
  /\ \/ pc' = "select" /\ left' = Timeout /\ UNCHANGED retval
     \/ pc' = "quit" /\ retval' = -1 /\ UNCHANGED left
  /\ UNCHANGED <<call, i, fd, sockets, target, conn, got, elapsed>>

Readable == arrived > 0 \/ peer # "open"
AfterReply == IF probe.kind = "http" THEN "close" ELSE "quit"

(* Mutant: select without a timeout.                                       *)
SelectTimedOut_null == FALSE /\ UNCHANGED vars

(* select timed out.                                                       *)
SelectTimedOut ==
  /\ pc = "select" /\ ~ Readable
  /\ left = 0
  /\ pc' = AfterReply /\ retval' = -1
  /\ UNCHANGED <<call, i, fd, sockets, target, conn, got, left, elapsed>>

(* Mutant: select is called again, with a full timeout.                    *)
SelectInterrupted_retry ==
  /\ pc = "select" /\ ~ Readable
  /\ left < Timeout /\ left' = Timeout
  /\ UNCHANGED <<call, pc, i, fd, sockets, target, conn, got, elapsed, retval>>

(* A signal interrupted select: the service counts as down.                *)
SelectInterrupted ==
  /\ pc = "select" /\ ~ Readable
  /\ left > 0
  /\ pc' = AfterReply /\ retval' = -1
  /\ UNCHANGED <<call, i, fd, sockets, target, conn, got, left, elapsed>>

(* Mutant: the bytes read are not compared.                                *)
Verdicts_none(n) == {0}

(* What the comparison can say of the n units that were read: the rest of  *)
(* the buffer is not initialised, so a short read that matches as far as   *)
(* it goes may turn out either way; strstr looks through the rest too.     *)
Verdicts(n) ==
  LET bad == \E k \in 1 .. n : answer[k] = "other"
  IN IF n < TokenLen
     THEN IF bad /\ probe.kind = "greeting" THEN {-1} ELSE {0, -1}
     ELSE {IF bad THEN -1 ELSE 0}

(* One socket_read: what has arrived, at most TokenLen; end of file or the *)
(* pending error otherwise.                                                *)
Read ==
  /\ pc = "select" /\ Readable
  /\ got' = IF arrived < TokenLen THEN arrived ELSE TokenLen
  /\ retval' \in IF arrived > 0 THEN Verdicts(got') ELSE {-1}
  /\ sk_err' = IF arrived = 0 THEN "none" ELSE sk_err
  /\ pc' = AfterReply
  /\ UNCHANGED <<call, i, fd, sockets, target, peer, arrived, left, elapsed>>

(* "quit" or "tag logout"; its failure is ignored.                         *)
Quit ==
  /\ pc = "quit"
  /\ peer # "reset" \/ sk_err = "reset"
  /\ sk_err' = "none"
  /\ pc' = "close"
  /\ UNCHANGED <<call, i, fd, sockets, target, peer, arrived, got, left,
                 elapsed, retval>>

Close ==
  /\ pc = "close"
  /\ sockets' = sockets \ {fd}
  /\ pc' = "done"
  /\ UNCHANGED <<call, i, fd, target, conn, got, left, elapsed, retval>>

-----------------------------------------------------------------------------
(* The server and the clock.                                               *)

Talking == peer = "open" /\ pc \notin {"done", "killed"}

Send == /\ Talking /\ arrived < Len(answer)
        /\ arrived' = arrived + 1
        /\ UNCHANGED <<call, pc, i, fd, sockets, target, peer, sk_err, got,
                       left, elapsed, retval>>

Fin == /\ Talking
       /\ peer' = "fin"
       /\ UNCHANGED <<call, pc, i, fd, sockets, target, sk_err, arrived, got,
                      left, elapsed, retval>>

Reset ==
  /\ peer \in {"open", "fin"} /\ pc \notin {"done", "killed"}
  /\ peer' = "reset" /\ sk_err' = IF peer = "open" THEN "reset" ELSE "pipe"
  /\ UNCHANGED <<call, pc, i, fd, sockets, target, arrived, got, left, elapsed,
                 retval>>

Tick ==
  /\ \/ pc = "connect" /\ ai[i] = "silent"
     \/ pc = "select" /\ ~ Readable
  /\ left > 0
  /\ left' = left - 1 /\ elapsed' = elapsed + 1
  /\ UNCHANGED <<call, pc, i, fd, sockets, target, conn, got, retval>>

Daemon == \/ tcp_connect \/ OpenSocket \/ NoAddressLeft \/ Connected
          \/ ConnectFails \/ Query \/ Malloc \/ Read \/ Quit \/ Close
          \/ Killed \/ SelectTimedOut

Next == \/ CallProbe \/ Daemon \/ SelectInterrupted \/ ConnectInterrupted
        \/ Send \/ Fin \/ Reset \/ Tick

(* The daemon is scheduled and time passes; the server owes us nothing.    *)
Fairness == WF_vars(Daemon) /\ WF_vars(Tick)
Spec == Init /\ [][Next]_vars /\ Fairness

-----------------------------------------------------------------------------
(* The probe has at most one socket open, the one fd names, and whichever  *)
(* way it ends (no address, all refused, query not sent, timeout, reset)   *)
(* none, so that a service that is down for days does not use up the       *)
(* daemon's descriptors.                                                   *)
NoSocketLeak == /\ sockets \subseteq {fd} \ {0}
                /\ pc \in {"done", "killed"} => sockets = {}

(* A service is reported up only if a connection to one of its addresses   *)
(* was made and what it sent agreed with the expected token as far as it   *)
(* was read, with at least one byte read.  For http that means a status of *)
(* 200 or a redirect, if the status was read whole; a part of it proves    *)
(* nothing.                                                                *)
UpIsUp ==
  pc = "done" /\ retval = 0 =>
    /\ fd # 0 /\ ai[fd] = "accept"
    /\ probe.kind # "tcp" => got > 0
    /\ (probe.kind = "greeting" \/ (probe.kind = "http" /\ got = TokenLen))
         => \A k \in 1 .. got : answer[k] # "other"

(* A probe ends or takes the daemon with it; it never hangs.               *)
Ends == pc = "resolve" ~> pc \in {"done", "killed"}

(* How long the single-threaded daemon can be kept from its other clients: *)
(* the kernel's connection timeout for each address and one -T timeout.    *)
BoundedTime == elapsed <= Len(ai) * ConnectTime + Timeout
=============================================================================
