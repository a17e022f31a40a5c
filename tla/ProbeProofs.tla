---------------------------- MODULE ProbeProofs -----------------------------
(***************************************************************************)
(* Proofs about the probes that leave the daemon: lbcd_cmd_weight with its *)
(* child, and the TCP probes with their server.                            *)
(***************************************************************************)
EXTENDS Probes, TLAPS

-----------------------------------------------------------------------------
(* The external command, for every command, every pipe capacity and any    *)
(* number of calls: what a reported weight is worth, and what the daemon   *)
(* can lose over its lifetime.                                             *)

(* The values the variables range over.                                    *)
CmdTyped ==
  /\ at \in {"idle", "pipe", "fork", "fdopen", "wait", "abandon", "fgets", "done"}
  /\ child \in {"none", "running", "zombie", "reaped"}
  /\ open \in Nat /\ lost \in Nat /\ zombies \in Nat
  /\ cmd \in Command
  /\ faults \in [fork : Nat, fdopen : Nat, cut : Nat]

(* What each point of the call knows of its descriptors and its child.     *)
CallState ==
  /\ at \in {"idle", "pipe"} => open = 0 /\ child = "none"
  /\ at = "fork" => open = 2 /\ child = "none"
  /\ at \in {"fdopen", "wait", "abandon"} =>
       open = 1 /\ child \in {"running", "zombie"}
  /\ at = "fgets" => open = 1 /\ child = "reaped" /\ Succeeded
  /\ at = "done" /\ result = "pair" =>
       child = "reaped" /\ Succeeded /\ cmd.line = "pair"

(* A command that has ended has written all it had to write.               *)
EndedIsComplete == child \in {"zombie", "reaped"} => written = cmd.size

Unwaited == IF child \in {"running", "zombie"} THEN 1 ELSE 0

(* The accounts, at every point of the call: a descriptor is lost to a     *)
(* failed fork or fdopen from the moment of the failure, a child to an     *)
(* interrupted wait only when the call returns.                            *)
Accounts ==
  /\ at \notin {"abandon", "done"} => lost = 2 * faults.fork + faults.fdopen
  /\ at = "abandon" => lost + 1 = 2 * faults.fork + faults.fdopen
  /\ at = "done" => lost + open = 2 * faults.fork + faults.fdopen
  /\ at # "done" => zombies <= faults.cut
  /\ at = "done" => zombies + Unwaited <= faults.cut

CmdInv == CmdTyped /\ CallState /\ EndedIsComplete /\ Accounts

(* A call starts with clean books.                                         *)
LEMMA InitCmdInv == CmdInit => CmdInv
PROOF
  BY CommandsAssumption
  DEF CmdInit, CmdInv, CmdTyped, CallState, EndedIsComplete, Accounts

(* Every step of the daemon, of the command and of the next query keeps    *)
(* them.                                                                   *)
LEMMA NextCmdInv == ASSUME CmdInv, [CmdNext]_cmdVars PROVE CmdInv'
PROOF
<1>. USE DEF CmdInv, CmdTyped, CallState, EndedIsComplete, Accounts, Unwaited
<1>. USE DEF own, kid, past, Returned, Goto, Fault, Succeeded
<1>1. CASE Pipe
  BY <1>1 DEF Pipe
<1>2. CASE Fork
  BY <1>2 DEF Fork
<1>3. CASE Fdopen
  BY <1>3 DEF Fdopen
<1>4. CASE Waitpid
  BY <1>4 DEF Waitpid, Waited
<1>5. CASE Abandon
  BY <1>5 DEF Abandon, Waited
<1>6. CASE Fgets
  BY <1>6 DEF Fgets
<1>7. CASE NextCall
  BY <1>7, CommandsAssumption DEF NextCall
<1>8. CASE Write
  BY <1>8 DEF Write
<1>9. CASE Exit
  BY <1>9 DEF Exit
<1>10. CASE UNCHANGED cmdVars
  BY <1>10 DEF cmdVars
<1>. QED
  BY <1>1, <1>2, <1>3, <1>4, <1>5, <1>6, <1>7, <1>8, <1>9, <1>10
  DEF CmdNext, Caller

(* The invariant holds in every state of every behaviour.                  *)
THEOREM CmdInvariant == CmdSpec => []CmdInv
PROOF
  BY InitCmdInv, NextCmdInv, PTL DEF CmdSpec

(* The weight of a service comes from a command that ended with status 0,  *)
(* had printed everything it prints, and printed two numbers.              *)
THEOREM ResultIsSound == CmdSpec => []ResultSound
PROOF
<1>1. CmdInv => ResultSound
  BY DEF CmdInv, CallState, EndedIsComplete, Succeeded, ResultSound
<1>. QED
  BY <1>1, CmdInvariant, PTL

(* The descriptors and the children the daemon has lost after any number   *)
(* of calls are those of failed forks, failed fdopens and cut waits.       *)
THEOREM LossesAreAccounted == CmdSpec => []LossesAccounted
PROOF
<1>1. CmdInv => LossesAccounted
  BY DEF CmdInv, Accounts, Unwaited, LossesAccounted
<1>. QED
  BY <1>1, CmdInvariant, PTL

-----------------------------------------------------------------------------
(* The TCP probes, for every probe, every list of addresses, every answer  *)
(* of a server and every timeout: the daemon loses no socket to a probe,   *)
(* believes only what it has read, and is kept from its other clients for  *)
(* a bounded time.                                                         *)

Exchanging == {"query", "malloc", "select", "quit", "close"}

(* The values the variables range over.                                    *)
TypeOK ==
  /\ pc \in {"idle", "resolve", "socket", "connect", "done", "killed"} \cup Exchanging
  /\ ai \in Seq({"accept", "refuse", "silent"})
  /\ i \in 1 .. Len(ai) + 1
  /\ arrived \in Nat /\ got \in Nat /\ left \in Nat /\ elapsed \in Nat

(* Only the socket of the address being tried is open; a probe that talks  *)
(* to a server does so over the socket of an address that accepted.        *)
Sockets ==
  /\ sockets \subseteq {fd} \ {0}
  /\ pc \in {"idle", "resolve", "done", "killed"} => sockets = {}
  /\ pc \in {"connect"} \cup Exchanging => fd = i /\ i <= Len(ai)
  /\ pc \in Exchanging => ai[i] = "accept"

(* What has to be true once the probe means to report the service as up.   *)
Verified ==
  /\ fd # 0 /\ ai[fd] = "accept"
  /\ probe.kind # "tcp" => got > 0
  /\ (probe.kind = "greeting" \/ (probe.kind = "http" /\ got = TokenLen))
       => \A k \in 1 .. got : answer[k] # "other"

Decided == pc \in {"quit", "close", "done"} /\ retval = 0 => Verified

(* The time the first n addresses may take.                                *)
Budget(n) == n * ConnectTime

(* The time used so far, with what is left of the current wait.            *)
Time ==
  /\ pc \in {"idle", "resolve"} => i = 1 /\ elapsed = 0
  /\ pc = "socket" => elapsed <= Budget(i - 1)
  /\ pc = "connect" => elapsed + left <= Budget(i)
  /\ pc \in {"query", "malloc"} => elapsed <= Budget(i)
  /\ pc = "select" => elapsed + left <= Budget(i) + Timeout
  /\ pc \in {"quit", "close", "done", "killed"} =>
       elapsed <= Budget(Len(ai)) + Timeout

IInv == TypeOK /\ Sockets /\ Decided /\ Time

(* One more address costs one more connection timeout, and more addresses  *)
(* never cost less.                                                        *)
LEMMA BudgetStep ==
  ASSUME NEW n \in Nat
  PROVE  Budget(n) \in Nat /\ Budget(n + 1) = Budget(n) + ConnectTime
PROOF
  BY NumbersAssumption DEF Budget

(* More addresses take no less time.                                       *)
LEMMA BudgetMonotone ==
  ASSUME NEW m \in Nat, NEW n \in Nat, m <= n
  PROVE  Budget(m) <= Budget(n)
PROOF
<1>1. PICK d \in Nat : n = m + d
  BY n - m \in Nat, n = m + (n - m)
<1>2. n * ConnectTime = m * ConnectTime + d * ConnectTime
  BY <1>1, NumbersAssumption
<1>3. d * ConnectTime \in Nat /\ m * ConnectTime \in Nat
  BY NumbersAssumption
<1>. QED
  BY <1>2, <1>3 DEF Budget

(* Before the call no socket is open and no time has passed.               *)
LEMMA InitIInv == Init => IInv
PROOF
<1>. SUFFICES ASSUME Init PROVE IInv
  OBVIOUS
<1>1. ai \in Seq({"accept", "refuse", "silent"}) /\ Len(ai) \in Nat
  BY AddressesAssumption DEF Init
<1>. QED
  BY <1>1 DEF Init, IInv, TypeOK, Sockets, Decided, Time, Exchanging

(* Every step keeps the types.                                             *)
LEMMA TypeNext == ASSUME IInv, [Next]_vars PROVE TypeOK'
PROOF
<1>. USE DEF TypeOK, Exchanging, call, conn, Return, AfterReply
<1>i. TypeOK /\ (pc \in {"connect"} \cup Exchanging => i <= Len(ai))
  BY DEF IInv, Sockets
<1>n. ConnectTime \in Nat /\ Timeout \in Nat /\ TokenLen \in Nat
  BY NumbersAssumption
<1>0. CASE CallProbe
  <2>1. /\ ai' \in Seq({"accept", "refuse", "silent"}) /\ pc' = "resolve"
        /\ i = 1 /\ UNCHANGED <<i, arrived, got, left, elapsed>>
    BY <1>0, AddressesAssumption DEF CallProbe, IInv, Time
  <2>2. 1 \in 1 .. Len(ai') + 1
    BY <2>1
  <2>. QED
    BY <1>i, <2>1, <2>2
<1>1. CASE tcp_connect
  BY <1>i, <1>n, <1>1 DEF tcp_connect
<1>2. CASE OpenSocket
  BY <1>i, <1>n, <1>2 DEF OpenSocket
<1>3. CASE NoAddressLeft
  BY <1>i, <1>n, <1>3 DEF NoAddressLeft
<1>4. CASE Connected
  BY <1>i, <1>n, <1>4 DEF Connected
<1>5. CASE ConnectFails
  BY <1>i, <1>n, <1>5 DEF ConnectFails
<1>6. CASE ConnectInterrupted
  BY <1>i, <1>n, <1>6 DEF ConnectInterrupted
<1>7. CASE Query
  BY <1>i, <1>n, <1>7 DEF Query
<1>8. CASE Malloc
  BY <1>i, <1>n, <1>8 DEF Malloc
<1>9. CASE Quit
  BY <1>i, <1>n, <1>9 DEF Quit
<1>10. CASE Close
  BY <1>i, <1>n, <1>10 DEF Close
<1>11. CASE Killed
  BY <1>i, <1>n, <1>11 DEF Killed
<1>12. CASE Read
  BY <1>i, <1>n, <1>12 DEF Read
<1>13. CASE SelectTimedOut
  BY <1>i, <1>n, <1>13 DEF SelectTimedOut
<1>14. CASE SelectInterrupted
  BY <1>i, <1>n, <1>14 DEF SelectInterrupted
<1>15. CASE Send
  BY <1>i, <1>n, <1>15 DEF Send
<1>16. CASE Fin
  BY <1>i, <1>n, <1>16 DEF Fin
<1>17. CASE Reset
  BY <1>i, <1>n, <1>17 DEF Reset
<1>18. CASE Tick
  BY <1>i, <1>n, <1>18 DEF Tick
<1>19. CASE UNCHANGED vars
  BY <1>i, <1>19 DEF vars
<1>. QED
  BY <1>0, <1>1, <1>2, <1>3, <1>4, <1>5, <1>6, <1>7, <1>8, <1>9, <1>10, <1>11,
     <1>12, <1>13, <1>14, <1>15, <1>16, <1>17, <1>18, <1>19
     DEF Next, Daemon

(* Every step accounts for the socket it opens or closes.                  *)
LEMMA SocketsNext == ASSUME IInv, [Next]_vars PROVE Sockets'
PROOF
<1>. USE DEF IInv, TypeOK, Sockets, Exchanging, call, conn, Return, AfterReply
<1>1. CASE CallProbe \/ tcp_connect \/ OpenSocket \/ NoAddressLeft
  BY <1>1 DEF CallProbe, tcp_connect, OpenSocket, NoAddressLeft, CloseLast
<1>2. CASE Connected \/ ConnectFails \/ ConnectInterrupted
  BY <1>2 DEF Connected, ConnectFails, ConnectInterrupted
<1>3. CASE Query \/ Malloc \/ Quit \/ Close \/ Killed
  BY <1>3 DEF Query, Malloc, Quit, Close, Killed
<1>4. CASE Read \/ SelectTimedOut \/ SelectInterrupted
  BY <1>4 DEF Read, SelectTimedOut, SelectInterrupted
<1>5. CASE Send \/ Fin \/ Reset \/ Tick \/ UNCHANGED vars
  BY <1>5 DEF Send, Fin, Reset, Tick, vars
<1>. QED
  BY <1>1, <1>2, <1>3, <1>4, <1>5 DEF Next, Daemon

(* A verdict of lbcd_check_reply or probe_http that lets the service pass  *)
(* rests on at least one byte, and on no byte that contradicts it.         *)
LEMMA ReadVerified == ASSUME IInv, Read, retval' = 0 PROVE Verified'
PROOF
<1>1. /\ fd' # 0 /\ ai'[fd'] = "accept"
      /\ UNCHANGED <<answer, probe>>
  BY DEF Read, IInv, TypeOK, Sockets, Exchanging, call
<1>2. arrived > 0
  BY NumbersAssumption DEF Read, IInv, TypeOK
<1>3. /\ got' \in Nat \ {0} /\ got' <= TokenLen
      /\ retval' \in Verdicts(got')
  BY <1>2, NumbersAssumption DEF Read, IInv, TypeOK
<1>4. CASE got' < TokenLen
  BY <1>1, <1>3, <1>4, NumbersAssumption DEF Verdicts, Verified
<1>5. CASE got' = TokenLen
  BY <1>1, <1>3, <1>5, NumbersAssumption DEF Verdicts, Verified
<1>. QED
  BY <1>3, <1>4, <1>5, NumbersAssumption

(* Every step that means to report the service as up has the evidence.     *)
LEMMA DecidedNext == ASSUME IInv, [Next]_vars PROVE Decided'
PROOF
<1>. USE DEF IInv, TypeOK, Sockets, Exchanging, Decided, call, conn, Return
<1>1. CASE CallProbe \/ tcp_connect \/ OpenSocket \/ NoAddressLeft
  BY <1>1 DEF CallProbe, tcp_connect, OpenSocket, NoAddressLeft
<1>2. CASE Connected \/ ConnectFails \/ ConnectInterrupted
  BY <1>2 DEF Connected, ConnectFails, ConnectInterrupted, Verified
<1>3. CASE Query \/ Malloc \/ Killed
  BY <1>3 DEF Query, Malloc, Killed
<1>4. CASE Quit \/ Close
  BY <1>4 DEF Quit, Close, Verified
<1>5. CASE Read
  BY <1>5, ReadVerified
<1>6. CASE SelectTimedOut \/ SelectInterrupted
  BY <1>6 DEF SelectTimedOut, SelectInterrupted
<1>7. CASE Send \/ Fin \/ Reset \/ Tick \/ UNCHANGED vars
  BY <1>7 DEF Send, Fin, Reset, Tick, vars, Verified
<1>. QED
  BY <1>1, <1>2, <1>3, <1>4, <1>5, <1>6, <1>7 DEF Next, Daemon

(* Every wait is paid for when it begins.                                  *)
LEMMA TimeNext == ASSUME IInv, [Next]_vars PROVE Time'
PROOF
<1>. DEFINE B == Budget(i) C == Budget(i - 1) D == Budget(Len(ai))
<1>t. /\ i \in Nat /\ i >= 1 /\ (i + 1) - 1 = i /\ Len(ai) \in Nat
      /\ elapsed \in Nat /\ left \in Nat
      /\ ConnectTime \in Nat /\ Timeout \in Nat
  BY NumbersAssumption DEF IInv, TypeOK
<1>b. /\ B \in Nat /\ C \in Nat /\ D \in Nat /\ B = C + ConnectTime
      /\ i <= Len(ai) => B <= D
      /\ C <= D
  <2>1. i - 1 \in Nat /\ (i - 1) + 1 = i /\ i - 1 <= Len(ai)
    BY <1>t DEF IInv, TypeOK
  <2>. QED
    BY <1>t, <2>1, BudgetStep, BudgetMonotone
<1>n. Budget(i - 1) = C /\ Budget(i) = B /\ Budget(Len(ai)) = D
  OBVIOUS
<1>e. pc \in {"connect"} \cup Exchanging => i <= Len(ai)
  BY DEF IInv, Sockets
<1>. HIDE DEF B, C, D
<1>. USE DEF IInv, Time, Exchanging, call, conn, Return, AfterReply
<1>0. CASE CallProbe
  BY <1>0 DEF CallProbe
<1>1. CASE tcp_connect
  BY <1>1, <1>t, <1>b, <1>n DEF tcp_connect
<1>2. CASE OpenSocket
  BY <1>2, <1>t, <1>b, <1>n DEF OpenSocket
<1>3. CASE NoAddressLeft
  BY <1>3, <1>t, <1>b, <1>n DEF NoAddressLeft
<1>4. CASE Connected
  <2>1. /\ pc = "connect" /\ pc' \in {"close", "malloc", "query"}
        /\ UNCHANGED <<ai, i, left, elapsed>>
    BY <1>4 DEF Connected
  <2>2. elapsed <= B /\ elapsed <= D + Timeout
    BY <2>1, <1>t, <1>b, <1>n, <1>e
  <2>. QED
    BY <2>1, <2>2, <1>n
<1>5. CASE ConnectFails \/ ConnectInterrupted
  <2>1. /\ pc = "connect" /\ pc' = "socket" /\ i' = i + 1
        /\ UNCHANGED <<ai, left, elapsed>>
    BY <1>5 DEF ConnectFails, ConnectInterrupted
  <2>2. elapsed <= B
    BY <2>1, <1>t, <1>b, <1>n
  <2>3. i' - 1 = i
    BY <2>1, <1>t
  <2>. QED
    BY <2>1, <2>2, <2>3, <1>n
<1>6. CASE Query \/ Malloc
  BY <1>6, <1>t, <1>b, <1>n, <1>e DEF Query, Malloc
<1>7. CASE Quit \/ Close \/ Killed
  BY <1>7, <1>t, <1>b, <1>n, <1>e DEF Quit, Close, Killed
<1>8. CASE Read
  BY <1>8, <1>t, <1>b, <1>n, <1>e DEF Read
<1>9. CASE SelectTimedOut \/ SelectInterrupted
  BY <1>9, <1>t, <1>b, <1>n, <1>e DEF SelectTimedOut, SelectInterrupted
<1>10. CASE Tick
  BY <1>10, <1>t, <1>b, <1>n DEF Tick
<1>11. CASE UNCHANGED <<pc, ai, i, left, elapsed>>
  BY <1>11, <1>t, <1>n
<1>12. CASE Send \/ Fin \/ Reset \/ UNCHANGED vars
  BY <1>11, <1>12 DEF Send, Fin, Reset, vars
<1>. QED
  BY <1>0, <1>1, <1>2, <1>3, <1>4, <1>5, <1>6, <1>7, <1>8, <1>9, <1>10, <1>12
     DEF Next, Daemon

(* The invariant holds in every state of every behaviour.                  *)
THEOREM Invariant == Spec => []IInv
PROOF
<1>1. ASSUME IInv, [Next]_vars PROVE IInv'
  BY <1>1, TypeNext, SocketsNext, DecidedNext, TimeNext DEF IInv
<1>. QED
  BY <1>1, InitIInv, PTL DEF Spec

(* However the probe ends, network_connect and the probe have closed every *)
(* socket they opened.                                                     *)
THEOREM NoSocketLeaks == Spec => []NoSocketLeak
PROOF
<1>1. IInv => NoSocketLeak
  BY DEF IInv, Sockets, NoSocketLeak
<1>. QED
  BY <1>1, Invariant, PTL

(* A service that is reported up accepted a connection and sent nothing    *)
(* that contradicts the expected token.                                    *)
THEOREM UpMeansUp == Spec => []UpIsUp
PROOF
<1>1. IInv => UpIsUp
  BY DEF IInv, Decided, Verified, UpIsUp
<1>. QED
  BY <1>1, Invariant, PTL

(* A probe keeps the daemon for at most one connection timeout for each    *)
(* address and one -T timeout, however often a signal interrupts it.       *)
THEOREM TimeIsBounded == Spec => []BoundedTime
PROOF
<1>1. ASSUME IInv PROVE BoundedTime
  <2>1. /\ Len(ai) \in Nat /\ i \in Nat /\ i - 1 \in Nat
        /\ elapsed \in Nat /\ left \in Nat
    BY <1>1 DEF IInv, TypeOK
  <2>2. /\ Budget(Len(ai)) \in Nat /\ Budget(i - 1) \in Nat /\ Budget(i) \in Nat
        /\ i - 1 <= Len(ai) => Budget(i - 1) <= Budget(Len(ai))
        /\ i <= Len(ai) => Budget(i) <= Budget(Len(ai))
    BY <2>1, BudgetStep, BudgetMonotone
  <2>3. elapsed <= Budget(Len(ai)) + Timeout
    BY <1>1, <2>1, <2>2, NumbersAssumption
    DEF IInv, TypeOK, Sockets, Exchanging, Time
  <2>. QED
    BY <2>3 DEF BoundedTime, Budget
<1>. QED
  BY <1>1, Invariant, PTL

-----------------------------------------------------------------------------
(* The probes together.                                                    *)

(* Whichever probe lbcd_setweight calls, each of the three sees only its   *)
(* own steps, so that what holds of one probe by itself holds of it in the *)
(* daemon.                                                                 *)
THEOREM ProbesAreIndependent == ProbesSpec => CmdSpec /\ Spec /\ NtpSpec
PROOF
<1>1. ProbesInit => CmdInit /\ Init /\ NtpInit
  BY DEF ProbesInit
<1>2. [ProbesNext]_probeVars => [CmdNext]_cmdVars
  BY DEF ProbesNext, CommandStep, TcpStep, NtpStep, probeVars
<1>3. [ProbesNext]_probeVars => [Next]_vars
  BY DEF ProbesNext, CommandStep, TcpStep, NtpStep, probeVars
<1>4. [ProbesNext]_probeVars => [NtpNext]_ntpVars
  BY DEF ProbesNext, CommandStep, TcpStep, NtpStep, probeVars
<1>. QED
  BY <1>1, <1>2, <1>3, <1>4, PTL DEF ProbesSpec, CmdSpec, Spec, NtpSpec
=============================================================================
