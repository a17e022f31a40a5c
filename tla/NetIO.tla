------------------------------- MODULE NetIO --------------------------------
(***************************************************************************)
(* One call into util/network.c or util/xwrite.c: network_read or          *)
(* network_write with socket_xread and xwrite, which do the work when      *)
(* there is no timeout, xpwrite, xwritev, network_connect with             *)
(* connect_wait, network_client_create or network_accept_any.  The other   *)
(* end is slow or gone, and signals interrupt the system calls.  SIGPIPE   *)
(* is taken to be ignored, as a caller of network_write has to arrange.    *)
(***************************************************************************)
EXTENDS Integers, Sequences, FiniteSets, SequencesExt

CONSTANTS
  Total,        \* bytes to transfer
  Timeouts,     \* values of the timeout argument, in seconds
  MaxTries,     \* attempts without progress: 100 in socket_xread, 10 in xwrite
  MaxSignals,   \* interruptions that are followed
  MaxAddrs,     \* addresses network_connect tries
  Vectors       \* lengths of the buffers xwritev is called with

ASSUME NumbersAssumption == /\ Total \in Nat \ {0} /\ Timeouts \subseteq Nat
                            /\ MaxTries \in Nat \ {0} /\ MaxSignals \in Nat
                            /\ MaxAddrs \in Nat
(* How many bytes buffers of these lengths hold.                           *)
Bytes(lengths) == FoldLeft(+, 0, lengths)

ASSUME VectorsAssumption == \A l \in Vectors : l \in Seq(Nat) /\ Bytes(l) = Total

VARIABLES
  op,         \* "read", "write", "pwrite", "writev", "connect", "create" or
              \* "accept"
  timeout,
  pc,         \* where the call is
  clock,      \* in half seconds; time() truncates it
  began,      \* the clock when the call was made
  start, now, \* local variables
  tv,         \* half seconds select still waits
  moved,      \* bytes transferred: got or sent
  ready,      \* bytes in the receive buffer, or room in the send buffer;
              \* while connecting, whether the connection is made
  peer,       \* "open", or "gone": end of file or an error
  mode,       \* "blocking", or "nonblocking": O_NONBLOCK is set
  ignored,    \* the modes that could not be set, unnoticed
  tries,
  signals,    \* interruptions so far
  result,     \* success, with a socket if the call returns one
  addrs,      \* addresses not tried yet
  open,       \* sockets that are open
  iov,        \* the buffers xwritev has not written yet: first byte, length
  out         \* where each byte has gone: <<position, byte>>

vars == <<op, timeout, pc, clock, began, start, now, tv, moved, ready, peer,
          mode, ignored, tries, signals, result, addrs, open, iov, out>>

flags == <<mode, ignored>>

Given == {"read", "write", "pwrite", "writev"}    \* the caller's socket is used

(* Buffers of these lengths, whose bytes are numbered from 1.              *)
Buffers(lengths) ==
  [k \in DOMAIN lengths |->
     [base |-> 1 + Bytes(SubSeq(lengths, 1, k - 1)), len |-> lengths[k]]]

Init ==
  /\ op \in Given \cup {"connect", "create", "accept"} /\ timeout \in Timeouts
  /\ op \in {"create", "accept", "pwrite", "writev"} => timeout = 0
  /\ pc = (CASE op \in {"read", "write"} -> "start" [] op = "pwrite" -> "xio"
             [] op = "writev" -> "wv" [] op = "connect" -> "next" [] OTHER -> op)
  /\ out = {}
  /\ IF op = "writev" THEN \E l \in Vectors : iov = Buffers(l) ELSE iov = << >>
  /\ open = (IF op \in Given THEN 1 ELSE 0)
  /\ addrs = (IF op = "connect" THEN MaxAddrs ELSE 0)
  /\ clock \in {0, 1} /\ began = clock /\ start = 0 /\ now = 0 /\ tv = 0
  /\ moved = 0 /\ ready = 0 /\ peer = "open" /\ mode = "blocking" /\ ignored = {}
  /\ tries = 0 /\ signals = 0 /\ result = FALSE

time == clock \div 2

(* fcntl sets the flag of a socket, or fails and leaves it as it was; what *)
(* fdflag_nonblocking returns is looked at nowhere.                        *)
SetMode(new, old, before) == \/ mode' = new /\ ignored' = before
                             \/ mode' = old /\ ignored' = before \cup {new}
fdflag_nonblocking(new) == SetMode(new, mode, ignored)

Return(r) == pc' = "done" /\ result' = r

(* network_write returns true.                                             *)
Succeed == /\ Return(TRUE)
           /\ IF op = "write" THEN fdflag_nonblocking("blocking") ELSE UNCHANGED flags

(* Mutant: the socket is left as it is.                                    *)
Fail_asis == Return(FALSE) /\ UNCHANGED flags

(* What follows the label fail of network_write; network_read returns.     *)
Fail == /\ Return(FALSE)
        /\ IF op = "write" THEN fdflag_nonblocking("blocking") ELSE UNCHANGED flags

Begin ==
  /\ pc = "start"
  /\ pc' = IF timeout = 0 THEN "xio" ELSE "loop"
  /\ start' = time /\ now' = time
  /\ IF op = "write" /\ timeout > 0 THEN fdflag_nonblocking("nonblocking")
     ELSE UNCHANGED flags
  /\ UNCHANGED <<op, timeout, clock, began, tv, moved, ready, peer, tries,
                 signals, result>>

(* Mutant: every wait gets the whole timeout.                              *)
Remaining_whole == timeout
Remaining == IF timeout - (now - start) < 1 THEN 1 ELSE timeout - (now - start)

EnterSelect ==
  /\ pc = "loop"
  /\ tv' = 2 * Remaining
  /\ pc' = "select"
  /\ UNCHANGED <<op, timeout, clock, began, start, now, moved, ready, peer,
                 flags, tries, signals, result>>

Ready == ready > 0 \/ peer = "gone"

SelectReady ==
  /\ pc = "select" /\ Ready
  /\ pc' = "io"
  /\ UNCHANGED <<op, timeout, clock, began, start, now, tv, moved, ready, peer,
                 flags, tries, signals, result>>

SelectTimedOut ==
  /\ pc = "select" /\ ~ Ready /\ tv = 0
  /\ Fail
  /\ UNCHANGED <<op, timeout, clock, began, start, now, tv, moved, ready, peer,
                 tries, signals>>

(* select reports an error other than EINTR.                               *)
SelectFails ==
  /\ pc = "select"
  /\ Fail
  /\ UNCHANGED <<op, timeout, clock, began, start, now, tv, moved, ready, peer,
                 tries, signals>>

(* The condition of the do loop.                                           *)
Again(t) == IF t - start < timeout THEN pc' = "loop" /\ UNCHANGED <<flags, result>>
            ELSE Fail

(* EINTR: "continue" tests the condition with the old value of now.        *)
Interrupted ==
  /\ pc \in {"select", "io"}
  /\ signals < MaxSignals
  /\ signals' = signals + 1
  /\ Again(now)
  /\ UNCHANGED <<op, timeout, clock, began, start, now, tv, moved, ready, peer,
                 tries>>

Finished(n) == n = Total

Room == Total - moved

(* Each call continues in the buffer where the last one ended, and pwrite  *)
(* also in the file; elsewhere the other side is a stream.                 *)
Stream(k) == Cardinality(out) + k
Place(n) ==
  out' = out \cup {CASE op = "read"  -> <<moved + k, Stream(k)>>
                     [] op = "write" -> <<Stream(k), moved + k>>
                     [] OTHER        -> <<moved + k, moved + k>> : k \in 1 .. n}

(* socket_read or socket_write has moved n bytes.                          *)
Transfer(n) ==
  /\ pc = "io" /\ n <= ready /\ n <= Room
  /\ Place(n) /\ UNCHANGED iov
  /\ moved' = moved + n /\ ready' = ready - n
  /\ IF Finished(moved') THEN Succeed /\ UNCHANGED now
     ELSE now' = time /\ Again(time)
  /\ UNCHANGED <<op, timeout, clock, began, start, tv, peer, tries, signals>>

(* Mutant: end of file is taken for an interruption.                       *)
TransferFails_retry ==
  /\ pc = "io" /\ peer = "gone"
  /\ Again(now)
  /\ UNCHANGED <<op, timeout, clock, began, start, now, tv, moved, ready, peer,
                 tries, signals>>

(* End of file, an error, or EAGAIN, which network_write takes for one.    *)
TransferFails ==
  /\ pc = "io" /\ (peer = "gone" \/ mode = "nonblocking")
  /\ Fail
  /\ UNCHANGED <<op, timeout, clock, began, start, now, tv, moved, ready, peer,
                 tries, signals>>

-----------------------------------------------------------------------------
(* Without a timeout: socket_xread, xwrite and xpwrite.                    *)

XTransfer(n) ==
  /\ pc = "xio" /\ tries < MaxTries
  /\ n <= ready /\ n <= Room
  /\ Place(n) /\ UNCHANGED iov
  /\ moved' = moved + n /\ ready' = ready - n /\ tries' = 0
  /\ IF moved' = Total THEN Return(TRUE) ELSE UNCHANGED <<pc, result>>
  /\ UNCHANGED flags
  /\ UNCHANGED <<op, timeout, clock, began, start, now, tv, peer, signals>>

XInterrupted ==
  /\ pc \in {"xio", "wv", "wvloop"} /\ tries < MaxTries
  /\ signals < MaxSignals
  /\ signals' = signals + 1 /\ tries' = tries + 1
  /\ UNCHANGED <<op, timeout, pc, clock, began, start, now, tv, moved, ready,
                 peer, flags, result>>

(* Too many attempts, end of file, or an error.                            *)
XGiveUp ==
  /\ pc \in {"xio", "wv", "wvloop"}
  /\ tries = MaxTries \/ (peer = "gone" /\ (op # "read" \/ ready = 0))
  /\ Return(FALSE)
  /\ UNCHANGED <<flags, op, timeout, clock, began, start, now, tv, moved, ready, peer,
                 tries, signals>>

-----------------------------------------------------------------------------
(* xwritev.                                                                *)

(* The bytes of the buffers, in order.                                     *)
Contents(v) == FlattenSeq([k \in DOMAIN v |-> [j \in 1 .. v[k].len |-> v[k].base + j - 1]])

(* How many bytes the first k buffers hold.                                *)
UpTo(v, k) == Bytes([j \in 1 .. k |-> v[j].len])

(* Mutant: the buffer that was written in part is written again whole.     *)
Skip_whole(v, n) ==
  LET rest == {k \in DOMAIN v : UpTo(v, k) > n} IN
  SelectSeq(v, LAMBDA b : \E k \in rest : v[k] = b)

(* What is left of the buffers after n bytes: whole buffers are skipped,   *)
(* empty ones too, and the first that remains is shortened.                *)
Skip(v, n) ==
  LET rest == {k \in DOMAIN v : UpTo(v, k) > n}
      i    == CHOOSE k \in rest : \A j \in rest : k <= j
      gone == n - UpTo(v, i - 1)
  IN IF rest = {} THEN << >>
     ELSE <<[base |-> v[i].base + gone, len |-> v[i].len - gone]>>
            \o SubSeq(v, i + 1, Len(v))

(* writev has written n bytes, perhaps none.                               *)
writev(n) ==
  /\ tries < MaxTries /\ n <= ready /\ n <= Len(Contents(iov))
  /\ out' = out \cup {<<Stream(k), Contents(iov)[k]>> : k \in 1 .. n}
  /\ moved' = moved + n /\ ready' = ready - n
  /\ tries' = IF n > 0 THEN 0 ELSE tries + 1
  /\ UNCHANGED <<op, timeout, clock, began, start, now, tv, peer, signals, flags>>

(* All at once, most of the time.                                          *)
WriteAll(n) ==
  /\ pc = "wv" /\ writev(n) /\ UNCHANGED iov
  /\ IF moved' = Total THEN Return(TRUE)
     ELSE pc' = "copy" /\ UNCHANGED result

(* The buffers are copied, so that the copy can be changed.                *)
CopyVector ==
  /\ pc = "copy"
  /\ \/ iov' = Skip(iov, moved) /\ pc' = "wvloop" /\ UNCHANGED result
     \/ Return(FALSE) /\ UNCHANGED iov
  /\ UNCHANGED <<op, timeout, clock, began, start, now, tv, moved, ready, peer,
                 tries, signals, out, flags>>

WriteRest(n) ==
  /\ pc = "wvloop" /\ writev(n)
  /\ iov' = Skip(iov, n)
  /\ IF moved' = Total THEN Return(TRUE) ELSE UNCHANGED <<pc, result>>

-----------------------------------------------------------------------------
(* Making a socket: network_connect, network_client_create and             *)
(* network_accept_any.                                                     *)

call == <<op, timeout, began, start, now, moved, tries>>

(* A new socket is blocking, and nothing has failed to make it so.         *)
Fresh == ignored \ {"blocking"}

(* The loop closes the last socket and makes one for the next address;     *)
(* socket or network_source may fail.                                      *)
NextAddress ==
  /\ pc = "next" /\ addrs > 0
  /\ addrs' = addrs - 1 /\ ready' = 0 /\ peer' = "open"
  /\ \/ open' \in {0, 1} /\ pc' = "next" /\ mode' = "blocking" /\ ignored' = Fresh
     \/ /\ open' = 1 /\ pc' = "connect"
        /\ IF timeout > 0 THEN SetMode("nonblocking", "blocking", Fresh)
           ELSE mode' = "blocking" /\ ignored' = Fresh
  /\ UNCHANGED <<call, clock, tv, signals, result>>

NoAddressLeft ==
  /\ pc = "next" /\ addrs = 0
  /\ open' = 0 /\ Return(FALSE)
  /\ UNCHANGED <<call, clock, tv, ready, peer, signals, addrs, flags>>

(* The socket is made blocking, and is returned if connected.              *)
Connected(ok) ==
  /\ IF timeout > 0 THEN fdflag_nonblocking("blocking") ELSE UNCHANGED flags
  /\ pc' = IF ok THEN "done" ELSE "next"
  /\ result' = ok
  /\ UNCHANGED <<call, clock, tv, ready, peer, addrs, open>>

(* connect has an answer, or is interrupted while it blocks.               *)
Connect ==
  /\ pc = "connect"
  /\ \/ Ready /\ Connected(peer = "open") /\ UNCHANGED signals
     \/ /\ mode = "blocking" /\ signals < MaxSignals
        /\ signals' = signals + 1 /\ Connected(FALSE)

InProgress ==
  /\ pc = "connect" /\ mode = "nonblocking"
  /\ tv' = 2 * timeout /\ pc' = "cwait"
  /\ UNCHANGED <<call, clock, flags, ready, peer, signals, result, addrs, open>>

(* connect_wait: the connection is made or refused, or the time is up.     *)
connect_wait ==
  /\ pc = "cwait" /\ (Ready \/ tv = 0)
  /\ Connected(Ready /\ peer = "open")
  /\ UNCHANGED signals

(* select reports another error, or getsockopt does.                       *)
WaitFails == pc = "cwait" /\ Connected(FALSE) /\ UNCHANGED signals

(* EINTR: wait again for the whole timeout.                                *)
WaitInterrupted ==
  /\ pc = "cwait" /\ signals < MaxSignals
  /\ signals' = signals + 1 /\ tv' = 2 * timeout
  /\ UNCHANGED <<call, pc, clock, ready, peer, flags, result, addrs, open>>

(* network_client_create closes the socket if network_source fails.        *)
network_client_create ==
  /\ pc = "create"
  /\ \E ok \in BOOLEAN : open' = (IF ok THEN 1 ELSE 0) /\ Return(ok)
  /\ UNCHANGED <<call, clock, tv, ready, peer, signals, addrs, flags>>

(* A connection is waiting and accept returns it or fails; or a signal     *)
(* ends the wait.                                                          *)
network_accept_any ==
  /\ pc = "accept"
  /\ \/ /\ ready > 0 /\ UNCHANGED signals
        /\ \E ok \in BOOLEAN : open' = (IF ok THEN 1 ELSE 0) /\ Return(ok)
     \/ /\ signals < MaxSignals /\ signals' = signals + 1
        /\ open' = 0 /\ Return(FALSE)
  /\ UNCHANGED <<call, clock, tv, ready, peer, addrs, flags>>

-----------------------------------------------------------------------------
(* The other end and the clock.                                            *)

Supply == /\ peer = "open" /\ pc # "done" /\ ready < Total
          /\ ready' = ready + 1
          /\ UNCHANGED <<op, timeout, pc, clock, began, start, now, tv, moved,
                         peer, flags, tries, signals, result>>

Leave == /\ peer = "open" /\ pc # "done"
         /\ peer' = "gone"
         /\ UNCHANGED <<op, timeout, pc, clock, began, start, now, tv, moved,
                        ready, flags, tries, signals, result>>

Tick == /\ pc \in {"select", "cwait"} /\ ~ Ready /\ tv > 0
        /\ clock' = clock + 1 /\ tv' = tv - 1
        /\ UNCHANGED <<op, timeout, pc, began, start, now, moved, ready, peer,
                       flags, tries, signals, result>>

Process == \/ Begin \/ EnterSelect \/ SelectReady \/ SelectTimedOut
           \/ TransferFails \/ XGiveUp

Moving == \/ \E n \in 1 .. Total : Transfer(n) \/ XTransfer(n)
          \/ \E n \in 0 .. Total : WriteAll(n) \/ WriteRest(n)
          \/ CopyVector

Connecting == \/ NextAddress \/ NoAddressLeft \/ Connect \/ InProgress
              \/ connect_wait

sockets == <<addrs, open>>
bytes   == <<iov, out>>

Transferring == Process \/ SelectFails \/ Interrupted \/ XInterrupted
                \/ Supply \/ Leave \/ Tick

Next == \/ Transferring /\ UNCHANGED <<sockets, bytes>>
        \/ Moving /\ UNCHANGED sockets
        \/ (Connecting \/ WaitFails \/ WaitInterrupted) /\ UNCHANGED bytes
        \/ (network_client_create \/ network_accept_any) /\ UNCHANGED bytes

(* The process runs and time passes; signals and data come as they like.   *)
Spec == /\ Init /\ [][Next]_vars
        /\ WF_vars(\/ Process /\ UNCHANGED <<sockets, bytes>>
                   \/ Moving /\ UNCHANGED sockets
                   \/ Connecting /\ UNCHANGED bytes)
        /\ WF_vars(Tick /\ UNCHANGED <<sockets, bytes>>)

-----------------------------------------------------------------------------
(* The call succeeds exactly when every byte was transferred.  However the *)
(* transfer was cut into pieces, every byte has come to its own place, and *)
(* nothing is written past the end of the caller's buffer.                 *)
AllOrFailure ==
  /\ pc = "done" /\ op \in Given => (result <=> moved = Total)
  /\ out = {<<k, k>> : k \in 1 .. moved} /\ moved <= Total

(* How far the timeout covers the whole call: up to the truncation of      *)
(* time(), and with one more timeout for each signal, since the loops go   *)
(* on after EINTR without looking at the clock.  connect_wait has a        *)
(* timeout for each address.  A socket that could not be made nonblocking  *)
(* may block in connect or write for as long as it likes.                  *)
Elapsed == clock - began
Waits == IF op = "connect" THEN MaxAddrs ELSE 1
BoundedBySignals ==
  timeout > 0 /\ "nonblocking" \notin ignored => Elapsed <= 2 * timeout * (signals + Waits) + 1

(* Whichever address, call or wait fails, the caller gets its socket back  *)
(* in blocking mode, unless the kernel refused to make that very socket    *)
(* blocking again; a call that makes a socket leaves it open only if it    *)
(* succeeds.                                                               *)
SocketReturned ==
  /\ open <= 1
  /\ pc = "done" => /\ mode = "nonblocking" => "blocking" \in ignored
                    /\ open = IF op \in Given \/ result THEN 1 ELSE 0

(* The call returns, when signals stop, if it has a timeout and a socket   *)
(* that has to be nonblocking was made so; without a timeout a transfer    *)
(* returns once the other end is gone.                                     *)
EventuallyReturns ==
  /\ timeout > 0 ~> (pc = "done" \/ "nonblocking" \in ignored)
  /\ (op \in Given /\ peer = "gone") ~> pc = "done"
=============================================================================
