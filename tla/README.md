# A TLA+ verification of lbcd

lbcd is the host-side daemon of a DNS load balancer. It answers UDP queries
(port 4330) with the load of its host and with the weights of the services the
host runs; the load balancer takes hosts in and out of its pool by these
weights. This directory models the daemon and the parts it is made of, checks
the models with TLC on small instances, and proves with TLAPS, for all
instances, every safety property that TLC checks.

All paths below are relative to `src/`.

## 1. Inventory

| component | source | state | operations |
|---|---|---|---|
| daemon | `server/lbcd.c` | `struct lbcd_config`, the flag `exit_signaled`, the bound sockets, the PID file, the working directory | `main`, `handle_requests`, `request_recv`, `service_allowed`, `send_status`, `handle_lb_request`, `exit_handler` |
| reply building | `server/server.c`, `server/tmp_full.c` | `struct lbcd_reply` being filled; `tmp_full` changes the working directory | `lbcd_pack_info`, `lbcd_set_load`, `lbcd_proto2_convert`, `tmp_full` |
| weights | `server/weight.c`, `server/load.c` | the globals set by `lbcd_weight_init` | `service_to_func`, `lbcd_setweight`, one weight function for each service |
| external command | `server/weight.c` | a child process and a pipe for each call | `lbcd_cmd_weight` |
| user counting | `server/get_user.c` | static cache keyed by the time of `utmp`, a hash table | `get_user_stats`, `uniq_add` |
| TCP probes | `modules/tcp.c`, `http.c`, `imap.c`, `ftp.c`, `nntp.c`, `pop.c`, `smtp.c`, `check_reply.c`, `tcp_socket.c` | one connection for each call | `probe_tcp`, `probe_http`, `probe_imap`, `lbcd_check_reply` |
| NTP probe | `modules/ntp.c`, `monlist.c`, `udp_socket.c` | packets seen of a numbered train | `lbcd_ntp_weight`, `sendrequest`, `getresponse` |
| listening sockets | `server/lbcd.c`, `util/network.c`, `util/fdflag.c` | a growing array of descriptors | `bind_sockets`, `network_bind_all` |
| network I/O | `util/network.c`, `util/xwrite.c`, `util/fdflag.c` | a socket and its blocking mode | `network_read`, `network_write`, `socket_xread`, `xwrite`, `xpwrite`, `xwritev`, `network_connect`, `connect_wait`, `network_client_create`, `network_accept_any` |
| client | `client/lbcdclient` | a socket, an alarm | `udp_socket`, `send_query`, `read_reply`, `print_reply` |
| vectors | `util/vector.c` | a table of strings and its size | `vector_add`, `vector_resize`, `vector_split`, `vector_split_multi`, `vector_join`, `vector_exec` and their like |
| addresses | `util/network.c`, `portable/inet_aton.c`, `inet_ntoa.c`, `inet_ntop.c` | none | `inet_aton`, `inet_ntoa`, `network_sockaddr_sprint`, `network_sockaddr_equal`, `network_addr_match`, `network_source` |
| name lookup | `portable/getaddrinfo.c`, `getnameinfo.c` | the list being built | `getaddrinfo`, `freeaddrinfo`, `getnameinfo`, `network_connect_host` |
| messages | `util/messages.c` | four lists of handlers, the cleanup function | `debug` to `sysdie`, `message_handlers_*`, `message_log_*` |
| memory wrappers | `util/xmalloc.c` | the error handler | `x_malloc` and its like, `xmalloc_fail` |
| libraries | the rest of `portable/`, `server/arch/` | | |

**How they interact.** The daemon is one thread. `handle_requests` installs
handlers for SIGINT and SIGTERM, binds the sockets, writes the PID file, tells
systemd or upstart that it is up, and then loops: test the flag, wait in
`select` (`network_wait_any`), read one datagram, validate it, build the reply
(which runs every probe and the external command in sequence), send it. The
probes call the network library; the load function uses the user counts and
the fullness of the temporary directory. Everything else that acts, acts from
outside: clients, the kernel, the probed servers, the external command, the
administrator (who creates a sentinel file to drain the host), the users who
log in and out, the init system that stops and restarts the daemon. The client
is a script that sends one query and waits for one packet, with an alarm.

**What is hard.** (The full list, with lines, is `hazards` in `PROJECT.json`.)

* signals against the loop: the flag is tested before `select` is entered;
* the working directory: `tmp_full` moves the process to `/tmp` and `P_tmpdir`
  during the first reply, after relative paths were accepted at start-up;
* order in `request_recv`: each check makes a later field safe to read;
* a reply takes as long as its slowest probes, one after the other, and the
  sentinel file, `utmp` and the services may change in between;
* partial failures: every call between `fork` and `waitpid`, between `socket`
  and `close`, may fail and must undo what came before;
* lost, repeated and reordered packets in the NTP probe;
* deadlock of the daemon with the command it waits for;
* caches keyed by a time in seconds; 16-bit and `short` conversions;
* clients that all use the id 0 on a network that delays and repeats packets;
* tables sized by one pass over a string and filled by another;
* vectors of buffers of which a write takes part of one;
* errors while an error is reported: `die` allocates, the allocator calls `die`;
* numbers in three bases, parsed with an overflow test before the operation;
* lists built with several allocations each, any of which may fail;
* crashes and restarts around the PID file.

**What makes each part correct.** The daemon: one answer for each well-formed
query, none for the others, only permitted services, the command never by
name; the PID file means a daemon that can be stopped by it; an exit signal
stops it; no socket is starved; a drained host is drained. The command and the
probes: "up" only if it was seen to be up, all descriptors and children given
back on every path, and the call returns. User counts: as of the file. Binding:
all or nothing with `-b`. Transfers: all bytes or failure, in bounded time.
The client: it asks nothing the daemon would ignore, prints a whole answer to a
query of its port, and ends. Vectors: nothing leaks, no write past the table,
splits and joins lose nothing. Messages: each handler of the list gets the
message once with the caller's `errno`, and a fatal one ends the process with
the status of the cleanup function, whatever fails on the way. Addresses: what
is read, printed and compared is the address the text denotes. Name lookup: an
entry for each address, whole names, no memory left behind by a failure.

## 2. Modules

| module | models | kind |
|---|---|---|
| `Protocol` | `server/protocol.h`: codes, sizes, packets | constants |
| `Weight` | `server/weight.c`, `server/load.c`, conversions of `server/server.c` | operators |
| `Options` | the `getopt` loop of `main` | operators |
| `QueryService` | what the daemon promises its clients | abstract state machine |
| `Server` | `handle_requests` and all it calls, signals, crashes, restarts | state machine |
| `CmdProbe` | `lbcd_cmd_weight` and its child | state machine |
| `TcpProbe` | one TCP probe and its server | state machine |
| `Monlist` | one NTP probe and its server | state machine |
| `Probes` | the three probes of one daemon, which calls one at a time | composition |
| `UserStats` | `get_user_stats` with users coming and going | state machine |
| `NetBind` | `bind_sockets` | state machine |
| `NetIO` | one call that transfers, connects or accepts | state machine |
| `Client` | `client/lbcdclient`, several instances | state machine |
| `System` | clients, an unreliable network and the daemon of `QueryService` | composition |
| `Vector` | `util/vector.c` on one vector or cvector | state machine |
| `Messages` | `util/messages.c` and `util/xmalloc.c` of one process | state machine |
| `Library` | a process that uses vectors or messages and the allocators | union of `Vector` and `Messages` |
| `Address` | reading, printing, comparing and masking addresses | operators |
| `Resolver` | one call of an address function, `getaddrinfo` or `getnameinfo` | state machine |
| `MC*` | constants for TLC | |
| `ServerProofs`, `SystemProofs`, `NetBindProofs`, `NetIOProofs`, `LibraryProofs`, `ResolverProofs` | theorems about the module each is named after, `LibraryProofs` with `Vector` and `Messages`, `ResolverProofs` with `Address` | proofs |
| `ProbeProofs`, `CountProofs` | theorems about `CmdProbe`, `TcpProbe` and `Probes`, and about `Monlist` and `UserStats` | proofs |

`Server` extends `Weight`, which extends `Protocol`; `MCServer` adds `Options`,
so that TLC starts the daemon with configurations that come out of the option
parser. `Server` takes the result of a probe as any value the probe can store;
`CmdProbe`, `TcpProbe` and `Monlist` look into the probes and show which
results, ends and delays those are. `Probes` is the three together:
`lbcd_setweight` calls one at a time and they share no state, so a behaviour
follows the probe that is called first. The death of the daemon in a probe
(`TcpProbe`'s `Killed`) is `Server`'s `BrokenPipe`. `System` puts the clients
together with the daemon; it needs no more of the daemon than the actions of
`QueryService`, which `Server` is proved to implement. `Resolver` extends
`Address`: `getaddrinfo` reads numbers with `inet_aton`, `getnameinfo` prints
with `inet_ntoa`, and `network_connect_host` is a call of `getaddrinfo`.
`Library` puts `Vector` and `Messages` into one process; `part` says which of
the two a behaviour uses: the vector functions allocate through the wrappers,
which return only with the memory, so a vector operation is one step. Modules
that are composed or share a proof module must not share names: hence
`CmdSpec`, `NtpSpec` and `UserSpec` for the specifications of `CmdProbe`,
`Monlist` and `UserStats`, and `at`, `pc` and `ntp` for the places in them.

### Server

`pc` is the place in the code; there is a value for each place where somebody
else can act.

| `pc` | code | action that leaves it |
|---|---|---|
| `main` | after `fork`/`setsid`, default signal actions | `InstallHandlers` |
| `bind` | `bind_sockets` | `bind_sockets`, `SysDie` |
| `pidfile` | writing the PID file, which may fail | `WritePidFile` |
| `notify`, `sigstop` | `sd_notify`, `raise(SIGSTOP)` under `-Z` | `Notify`, `Continue` |
| `check` | the test of `exit_signaled` | `CheckExit` |
| `wait`, `select` | before and in `select` | `EnterSelect`, `network_wait_any`, `SysDie` |
| `recv` | `request_recv` | `request_recv`, `RecvFails` |
| `dispatch` | the switch over the operation | `UnknownOp`, `lbcd_pack_info` |
| `default`, `sentinel`, `services` | `lbcd_set_load` | `DefaultWeight`, `CheckSentinel`, `ServiceWeight`, `FinishReply`, `NullFunction`, `BrokenPipe` |
| `send` | `sendto` | `handle_lb_request` |
| `cleanup` | `unlink`, `close` | `Shutdown` |

A datagram is a record of its size in bytes, its header fields and the service
names that fit into it; a service name is the pair of what is before and after
its first colon. The directory a relative PID file path is resolved in is part
of the state (`cwd`, `files`). How full `/tmp` is, is computed from the blocks
`statvfs` reports as the code does, in integers (twentieths of a block) where
the code has doubles. Logging is left out, and with it `-l` and `-d`. The argument of `-T` is what
`atoi` makes of it (`Atoi`): `5s` is 5, and 0, negative and large numbers are
refused.

`QueryService` has four variables and knows nothing of `pc`: it assigns a
verdict (silence, refusal, service) to each datagram, serves one request at a
time, sends at most one packet for it, with the header and size the protocol
demands, and may stop. `Server` implements it with `inbox <- queue`,
`serving <- request`.

### The other state machines

* `CmdProbe` follows a sequence of calls of `lbcd_cmd_weight`. Each step is a
  system call that may fail; `open` counts the descriptors of the call, `lost`
  those earlier calls left behind. The command is a record of how much it
  prints, whether the first line has two numbers, how it ends and whether it
  leaves a background process with the pipe open. `fgets` returns with a
  newline, at the end of the file or with a full buffer. `kill` with its arguments
  swapped (`server/weight.c:263`) kills nobody, so the model has no such step.
* `TcpProbe` follows one call against a server that accepts, refuses or is
  silent, then sends, closes or resets. The pending error of the socket
  (`sk_err`) decides between an error and SIGPIPE. ftp, nntp, pop, smtp and
  imap differ in port, token and farewell; `Greeting` is their common shape.
* `Monlist` follows one probe; the network delivers any packet of the answer
  any number of times in any order, and packets that are no answer. Time passes
  only while nothing is there to read: `select` reports a packet that waits even
  when nothing is left of the timeout.
* `UserStats` interleaves `stat`, the console devices, the opening of `utmp`,
  each entry that is read and the update of the cache with logins, logouts,
  rotation and the clock. A login takes the place of a dead entry or is
  appended; a file that is removed stays readable for the reader that has it
  open. A name is a pair of its first eight characters and the rest.
* `NetBind` follows `bind_sockets`; every call may fail.
* `NetIO` follows one call; the clock runs in half seconds, so that the
  truncation of `time()` is part of the model. `ready` and `peer` are what the
  other end has done: data or room, a connection made, a refusal. The two exits
  of `network_write` (`Succeed`, `Fail`) and that of one turn of
  `network_connect` (`Connected`) each call `fdflag_nonblocking`, which may fail;
  since no caller looks at its result, `ignored` keeps which mode could not be
  set. For
  `xwritev` the rest is a list of buffers, some of them empty; `out` records
  where each byte has gone, so that one skipped, repeated or misplaced shows.
* `Client` has a place (`cpc`), a port and a socket buffer for each instance. A
  weight is named by the service it is of, so that the model can tell whether
  it is printed next to the right name. `System` delivers any packet in flight
  any number of times, in any order or never, and hands out ports again.
* `Vector` keeps the strings, the size of the table, the last entry written
  (`top`) and the number of blocks of memory. Strings are sequences of
  characters here, since splitting is about characters.
* `Messages` keeps the four lists of handlers, whether each is static, on the
  heap or freed, and a stack of the message functions that have been called:
  the syslog handler reports its own failures with `warn`. A message carries
  the `errno` of its caller; its text is left out. `errno` itself is a variable,
  which the computation of the length and every handler may change, so that a
  value saved too late is a wrong one. `Allocate` is any of the
  allocators with a size that may succeed, is zero, or never can succeed.
* `Resolver` has a place for each allocation and each question to the name
  service, whose answer (error, addresses or addresses of another family) is
  part of the call, as is whether `bind` succeeds in `network_source`. `blocks`
  counts the memory held; `Undone` is what the two failure paths of
  `gai_addrinfo_new` free of an entry made in part. Texts are sequences of
  characters, since parsing is what is checked; the properties compare with
  reference definitions (`Denotes`, `Masked`, `Agree`) in integers without
  bounds: the value of digits by their places, the bits of a number, the
  quotient that is left of it. `strtol` and `strtoul` are those of the C
  library: white space, a sign, figures, and negative numbers modulo the width
  of a long. `MatchExact` is about masks that are a dotted address or a decimal
  number; those that only `strtoul` takes for one are `Lax`, and the run `mask`
  is about them.

## 3. Runs

Each run is one question. Bounds are the constants of the `.cfg` files.

| run | shows | bounds, and why they are enough |
|---|---|---|
| `protocol` | requests are validated, dispatched and answered as `QueryService` says; only permitted services are served, the command never by name; a sentinel file present since acceptance drains the host; a listed `tcp` service with a usable port is 0 or the maximum | 18 datagrams, one for each early return, order of checks and kind of service; ten command lines, three of which `-T` refuses; two hosts, one whose load exceeds 16 bits and whose `/tmp` is 95% full, one whose `/tmp` has no blocks; one socket with a queue of one: datagrams do not affect each other except through `cwd`, which the run has |
| `lifecycle` | `recvfrom` never blocks; the PID file means ready; a clean exit leaves nothing; an exit signal is acted upon, or the daemon is asleep with nothing to read; no socket is starved by those after it | three instances, so that a stale file meets two successors; two sockets, so that one precedes the other; four command lines: with an absolute and a relative PID file, without, and under upstart |
| `probes` | the external command: a weight only from a command that ended with 0; descriptors and children are lost only by the faults that lose them; the call returns for a cooperative command. TCP: no socket leaks; up is up; bounded time; the probe ends. NTP: success means the whole answer, each packet counted once; the probe sleeps no longer in all than its timeout, and ends unless packets never stop coming | three calls of the command, so that losses of two add up before the limit of four descriptors stops the third; a pipe of two blocks against commands of zero to three. Two addresses, answers of up to three units with a token of two, so that short, whole and long reads occur. NTP answers of one to five packets (any order, repetition and loss) with `MAXPACKETS` 4, so that the longest exceeds it; one packet of each kind that is no answer |
| `users` | never more unique users than sessions; none missed; exact counts while the table has room and names differ in eight characters; the cache agrees with the file, sessions on the console included, except in the second of the last change | two entries, so that one is read before and one after a change, of two users with a table of one; three seconds: before, in and after the second of a change |
| `binding` | listens on exactly what is open, within the array; all or nothing; sockets from `-b` and systemd are not inherited | five local addresses: the array grows twice |
| `transfer` | all or failure; the socket is given back blocking, and open only on success; bounded time; the call returns | three bytes in one buffer, in two, and in five of which three are empty; timeouts 0 to 2 s, two attempts of `xwrite` against three signals, two addresses: one to fail and one to go on to |
| `client` | no query is ignored by the daemon; what is printed is a whole answer to a query from that port, its own if the port is fresh; a client with a timeout ends | two clients, the second of which may reuse the port; nine command lines, one for each check and kind of query; one packet in each buffer, repetition and delay without bound |
| `library` | no write past the table; no leak; splits and joins are exact; every handler gets the message once, with the right `errno`, from memory that is not freed; `die`, `sysdie` and a failed allocation end the process with the right status | all texts of up to three characters, two of them separators: leading, trailing, repeated and mixed ones occur; tables of up to four entries; no handler, one and two; a message about a message |
| `addresses` | `inet_aton` reads what the text denotes; masks match the leading bits; addresses are equal if they print the same; `getaddrinfo` returns the whole list or nothing, and no memory is lost; `getnameinfo` returns whole names | addresses of one to five parts from numbers at every limit of every base; prefixes at 0, inside, at and past octets and widths, written with leading zeros, white space, a sign and as a negative number that wraps; dotted masks of leading and of other bits; hosts with no, one kind and another kind of address; buffers from zero to large enough. Octets have four bits: 2^16 and 2^32 leave the same remainders divided by 8, 10 and 16, so the overflow tests have the same edges |

Three runs show where the code does not do what its comments say; TLC finds a
counterexample to the documented property.

| run | what the code does |
|---|---|
| `lost_wakeup` | a signal between the test of the flag and `select` leaves the daemon asleep (`server/lbcd.c:468`); `lifecycle` checks the weaker property that does hold |
| `eight` | two users whose names agree in eight characters are counted as two (`server/get_user.c:203`), where the comment at line 143 says all characters after the first eight are ignored; `users` checks what holds of names that differ there |
| `mask` | `network_addr_match` takes an empty mask as a prefix of 0 bits, which matches every address (`util/network.c:973`), and, as `strtoul` does, leading space, a sign, and a negative number that wraps to a small one; the comment at line 939 promises false on syntax errors in the mask |

Other disagreements met while modelling. The models contain the behaviour and
the properties above are stated so that they hold with it:

* `-w tcp:80` reports an uninitialised word (`server/weight.c:190`, which looks
  for the port in the table's own name; `server/lbcd.pod:216` to `222` allows a
  service with a port); `TcpVerdict` is about the services a client lists;
* `-w default` makes the first query end the daemon (`server/weight.c:115`);
* `lbcd -t` prints the names of the services from an array it never fills
  (`server/server.c:205`);
* a relative `-P` file is not deleted at exit once a query has been answered,
  since the working directory has changed (`server/tmp_full.c:36`;
  `server/lbcd.pod:165` says it is deleted); `CleanExit` excepts it;
* `-T` does not apply to `-c`: a command that hangs stops the daemon
  (`server/weight.c:268`; `server/lbcd.pod:194` says it applies); `Returns`
  assumes a command that ends;
* the client uses the id 0 for every query (`client/lbcdclient:108`), where the
  protocol has the requestor's unique request id (`client/lbcdclient:72`); a
  late reply to an earlier client of the same port is accepted, and its weights
  are printed next to the wrong names. `-t 0` waits without end;
* `vector_split` makes one empty string of an empty text (`util/vector.c:240`;
  `util/vector.h:101` promises zero-length vectors);
* a version 3 client that lists `default` gets its normal weight from a drained
  host (`server/server.c:48`; `server/lbcd.pod:66` says the weight is forced);
* the `-c` command runs in the temporary directory (`server/tmp_full.c:36`;
  the comment at `server/lbcd.c:620` wants the starting directory kept);
* `-R` with `-c` runs the command (`server/weight.c:158`);
* a command that fills the pipe and the daemon wait for each other
  (`server/weight.c:268`);
* the farewell to a connection that was reset raises SIGPIPE
  (`modules/tcp.c:41`); a token may be compared with a buffer that was only
  partly read (`modules/check_reply.c:54`); connecting has no timeout
  (`modules/tcp_socket.c:52`);
* ports above 32767 become negative: http probes port 80 (`modules/http.c:46`);
  redirects count as success although the comment at `modules/http.c:33`
  excludes them;
* a session that begins in the second of the last count is missed until the
  next change; the console is looked at only when `utmp` changes
  (`server/get_user.c:167`);
* sockets bound without `-b` are not close-on-exec (`server/lbcd.c:385`);
* after EINTR `network_read` and `network_write` wait for the whole timeout
  again (`util/network.c:731`), as does `connect_wait`, whose comment says so;
  `BoundedBySignals` is the bound that is left. A socket that `fcntl` fails to
  make nonblocking is used all the same and may block for longer, and one it
  fails to make blocking again is returned as it is (`util/network.c:817`);
* an NTP probe reads a packet that waits even when its timeout is over, and
  ignores it without looking at the clock: packets that never stop keep it for
  ever (`modules/monlist.c:84`); `Terminates` says that only this does;
* with longs of 32 bits `inet_aton` accepts some decimal parts above the
  maximum, which wrap (`portable/inet_aton.c:90`; the comment at line 84 says
  overflow is detected), and it accepts a bare `0x` at the end (the comment at
  line 73 wants a digit); `ParseExact` excepts both;
* `getnameinfo` loses the last digit of a port whose digits fill the buffer
  (`portable/getnameinfo.c:156`, `>` for `>=`); `NamesWhole` excepts it;
* `message_handlers_*` free the old list before the new one is allocated; if
  that fails, the fatal message walks the freed list (`util/messages.c:133`).
  It takes a second replacement of the same list, which lbcd never makes;
* without memory the syslog handler ends the process even for a notice
  (`util/messages.c:238`);
* a size that overflows fails every time: with an error handler that returns,
  `x_calloc` and its like loop for ever (`util/xmalloc.c:137`).

### Fairness

* `Server`: weak fairness of the start-up and of the loop as a whole (a runnable
  process is scheduled; the loop has one thread, so at most one of its actions
  is enabled but for the nondeterminism of one step), of `Continue` (upstart
  answers SIGSTOP with SIGCONT), and strong fairness of `request_recv`
  (`recvfrom` does not fail for ever on a socket with data). Signals, crashes,
  failures, clients and the administrator have none.
* `CmdProbe`: the daemon and the command are scheduled. A command that writes
  to a full pipe or never ends is not enabled, so nothing is assumed of it.
* `TcpProbe`, `NetIO`, `Monlist`: the process is scheduled and time passes while
  it waits. The other end has no fairness. In `Monlist` time is not assumed to
  pass while packets are there to read; a network that always has one is an
  alternative of `Terminates`, not excluded by fairness. `Probes` has the
  fairness of its three parts.
* `System`: each client is scheduled and its alarm, if set, goes off. Nothing
  is assumed of the network and the daemon.
* `Library`: a message function that has been called goes on. Calls, and
  allocations that a returning handler repeats, have no fairness. `Resolver`
  has none.

`CHECK_DEADLOCK FALSE` is used where the module follows a bounded number of
calls, which end. `Server` is checked for deadlock.

### Mutants

Each property of a passing run has a mutant, an operator `<definition>_<change>`
next to the definition it changes, with a plausible mistake; the property is
violated when the mutant takes the definition's place.

## 4. Proofs

Assumptions are the `ASSUME`s of the modules: constants are of their type,
`Max16 <= Max32`, a datagram has the names it has room for and is no larger
than `LBCD_MAXMESG`, an answer to an NTP probe has at most 128 packets, `-b`
addresses are no Unix sockets, the buffers of a vector hold the bytes to be
written. Of the address functions (`CallsAssumption`, `ServicesAssumption`):
texts are strings, an IPv6 address has more than six octets, a long is at least
as wide as an IPv4 address and wider than a port, as C guarantees; the services
database has no name that could be read as a number and one port for each name
and protocol, which is the format of `/etc/services`. Nothing is assumed of the
number of sockets, queue length, restarts, configurations, datagrams, hosts,
calls, sessions, addresses, signals, timeouts, clients, handlers, strings or
separators, nor of the width of an octet. TLC evaluates every assumption on the
runs' instances. The inductive invariants hold on the runs' instances too, as
TLC finds when they are added to the runs; the exception is `Tallied`, which TLC
cannot evaluate.

In each module the theorem `Invariant` (or a lemma) is `Spec => []IInv`; the
listed theorems follow from it.

**`ServerProofs`**

* `TypeCorrect`: `Spec => []TypeOK`. `TypeOK` is not inductive: that `lb` has a
  first weight when the sentinel file overwrites it, and a request exists when
  it is served, depends on `pc`. `Shape` says how `request` and `lb` follow
  `pc`, and `Typed == TypeOK /\ Shape` is inductive. `Casts`, `GlobType` and
  `SetWeightType` show that everything stored in a reply has its width,
  `PackInfoType` that the fullness of a file system, whatever `statvfs`
  reports, stays within 0 to 100 and so within the table of penalties.
* `RecvReady`: `[]RecvNeverBlocks`, inductive together with `Typed`.
* `RequestsSanitized`: `[]RequestSane`; `AcceptedSane` is the core: what passes
  the checks of `request_recv` is sane.
* `PidFileReady`: `[]PidFileMeansReady`, and `ExitsClean`: `[]CleanExit`. Both
  rest on `PidInv`: a file never names a future instance, is where the kind of
  path says, and is gone after a clean exit.
* `SentinelDrains`: `[]Drained` from `DrainInv`: while `drained` holds after the
  test, the first weight is the maximum, up to the conversion to version 2.
* `TcpIsProbed`: `[]TcpVerdict` from `TcpInv`: the weights stored so far are
  those of the first services, one place behind the default's, and the default
  function is not NULL once it has been called.
* `Refinement`: `Spec => Implements`. `VerdictMatches` shows that the order of
  the early returns amounts to the verdict of `QueryService`; `StepSimulation`
  maps each action to an abstract step or a stutter.

**`SystemProofs`** (any number of clients, command lines and permissions)

* `AlwaysAnAnswer`: `[]NeverSilent`. The invariant says that every query on
  record passed the client's checks (`Checked`), and `CheckedIsAnswered` that
  the daemon's verdict on such a query is service or an error.
* `PrintsRightAnswers`: `[]PrintsAnswers`. `Wire` follows a query through the
  network, the daemon's inbox and its request into a reply that belongs to it
  (`Answers`), `Buffers` and `Stages` follow the reply into the client,
  `Explained` is what is printed. No induction over deliveries is needed since
  sets of packets only have to stay within `sent` and `Answers`: repetition,
  loss and reordering are covered at once.

**`ProbeProofs`: the external command** (`CmdInv`)

* `ResultIsSound`: `[]ResultSound`. `CallState` ties descriptors and child to
  the place in the call; `EndedIsComplete`: a command that has ended has
  written all its output.
* `LossesAreAccounted`: `[]LossesAccounted`, for any number of calls.
  `Accounts` is the same sum at every place in a call, not only at its end.

**`ProbeProofs`: the TCP probes** (`IInv`)

* `NoSocketLeaks`: `[]NoSocketLeak` from `Sockets`: at each place exactly the
  socket in hand is open.
* `UpMeansUp`: `[]UpIsUp` from `Decided`: what has been compared when the verdict
  is fixed.
* `TimeIsBounded`: `[]BoundedTime` from `Time`: at each place the time spent is
  within `Budget` of the addresses tried, and what is left of the current wait
  is still covered.

**`CountProofs`: the NTP probe** (every answer of up to 128 packets, every `MAXPACKETS`)

* `CompleteAnswer`: `[]Complete`. `Counting` says that `numrecv` is the
  cardinality of `seenpacket` and `lastseq` is known exactly when the last
  packet has been seen; a success then has as many distinct numbers as the
  answer has packets.
* `SleepIsBounded`: `[]Sleeps`, the safety part of `Terminates`: what was slept
  and what is left of the timeout add up to it.
* `WholeCount`: `[]CountsEachPacketOnce`. `Tallied` says that the sum so far is
  the sum of the items of the packets seen; `SumAdds` is what one more packet
  does to that sum, and with `Complete` the packets seen are all of them.

**`CountProofs`: user counting** (`UserInv`)

* `CacheIsCoherent`: `[]CacheCoherent`. `Times` orders the clock, the file's time
  and the cached one; `Fresh` says that the counts are those of the entries read so
  far, as long as the file has not changed since it was examined, and `Cached`
  the same of the counts that were saved.
* `UniqueUsersAreCounted`: `[]UniqExact`, for files and hash tables of every size.
  `Counts` says that the counters are those of the sessions read; `Tallies`
  that the count is between the number of distinct names and the number of
  sessions, and exact while the names fit.

**`NetBindProofs`**

* `ListensOnAllOfThem`: `[]ListensOnAll`, and `NoneInherited`: `[]NotInherited`.
  `Made` says which sockets are open (those stored and the one in hand), `Room`
  that the array has room for the next one, `Marked` which are close-on-exec.

**`NetIOProofs`** (every length, vector of buffers, timeout and number of signals)

* `NothingLostOrMisplaced`: `[]AllOrFailure`. `BytesState` says that the bytes
  moved are the first `moved`, each in its place, and that the buffers that
  remain are a `Chain`: each begins where the one before ends, and together
  they hold what has not been moved, empty ones included. `writev` takes a
  prefix of the chain's bytes, `Skip` leaves a chain.
* `SocketIsReturned`: `[]SocketReturned` from `SocketState`, the open sockets at
  each place, and `FlagState`: between the two calls of `fdflag_nonblocking`, and
  nowhere else unless the second failed, the socket is nonblocking.
* `TimeIsBounded`: `[]BoundedBySignals`. `TimeState` bounds at each place the time
  spent plus what the current wait may still take by `Allowed`, one timeout for
  each interruption and each address, plus the half second `time()` truncates.

**`LibraryProofs`** (every list of handlers, depth of messages, text and
sequence of operations)

* `MessagesAreDelivered`: `[]Delivered`, from `MessageInv`. `AllSent` says of each
  message function on the stack that it has sent to exactly the handlers before
  its next one, with the `errno` its caller had, which is fixed at entry although
  `errno` changes; lists change only while the stack is
  empty. `FreedOnce` says that the only freed list is the one being replaced,
  `FatalBottom` that a message sent while memory is asked for is the fatal one.
* `FatalNeverReturns`: `NoReturn`, the action part of `FatalExits`. It needs that
  a fatal frame is left only by the exit, whatever frames are on top of it.
* `MemoryIsExact`: `[]MemoryExact`, from `VectorInv`: one `Sound` struct, with the
  blocks of its strings, its entries within the table. Each operation is shown
  to take a sound struct to a sound one (the size of the table after each
  resize is the point), so a sequence of operations needs nothing more.
* `SplitIsExact`: `[]SplitExact`, from `SplitInv`, which adds what the vector
  holds after a split. `vector_split` is shown to return the parts between the
  separators, whose join is the text; `vector_split_multi` the maximal runs of
  other characters; the size `vector_join` computes in its first pass is the
  number of characters its second pass writes.

**`ResolverProofs`** (every text, answer of the name service, failing
allocation, and width of octets, ports and longs)

`Answered` says that a call that has returned has the result of its function,
so the theorems about functions follow from lemmas about operators; only
`getaddrinfo` takes several steps, with `ListInv`.

* `ListsAreWhole`: `[]AddressList`. `Building` says that the list consists of the
  entries of the first addresses and the others are left; the memory held is
  that of the list at each place. `gai_service` of the figures of a port is that
  port, since reading undoes printing (`ReadBack`).
* `EqualIsPrintedEqual`: `[]SameAddress`. A printed address is taken apart again
  at its last separator, which no figure is; so equal texts have equal octets.
  IPv4 addresses begin with a figure and IPv6 addresses do not, and a mapped
  address is printed as its last four octets.
* `NamesAreWhole`: `[]NamesWhole`. `inet_aton` of a printed address: the text is
  split into the figures it was joined from, each is read back, and the octets
  of the sum are those of the address (its digits to the base 2^octet).
* `AddressesAreParsed`: `[]ParseExact`. The number is built from its digits from
  the left (`Horner`), `Denotes` adds them by their places; the two are equal
  for every base. `OctetRight` is the core: as long as the number is within
  32 bits the loop has it exactly, and once it is not, the loop fails, has a
  number that is too large, or has wrapped, which takes a decimal number and
  longs of 32 bits. These are the exceptions of the property; no other exist.
* `MatchesAreExact`: `[]MatchExact`. `BitsAre` says that the bits of the octets
  are those of the number; a prefix of bits agrees if the numbers agree after
  a shift (`LeadIs`), the mask of n leading bits is 2^w - 2^(w-n)
  (`LeadingMask`), and the loop over the octets of an IPv6 address, whole ones
  and then part of one, compares just the first bits (`Match6Is`).

**Induction over data.** The prover cannot use the library's induction
theorems, which take an operator. Where a recursive function or a fold has to be
reasoned about (powers, decimal numerals, sums, splits, joins, readings), the
proof modules do the induction with sets: the set of numbers at which the claim
fails is a subset of `Nat`; if it is not empty it has a least element
(`LeastElement`, from the well-foundedness of `<`), which is neither 0 nor a
successor. A recursive function is shown to exist by joining its initial pieces,
and a fold is tied to a function on an interval of numbers by its recursive
definition; the induction is about that function. Where the provers would have
to compare folds over different operators, the operators are given codes
(`Apply`), so that one lemma serves all of them.

Only model-checked: everything under fairness (`SignalExitsOrIdle`,
`SocketServed`, `Terminates`, `Returns`, `Ends`, `EventuallyReturns`,
`ClientEnds`, and of `FatalExits` that a dying process ends), which is beyond the
prover. Every invariant, the refinement and the action property are proved.

## 5. Not modelled

* `modules/ldap.c` is not in the service table and not compiled.
* `server/arch/*`: one reading of kernel statistics each; `Server` takes any
  value.
* The rest of `portable/`: `snprintf.c`, `asprintf.c`, `mkstemp.c`,
  `reallocarray.c`, `strndup.c` and the like are compiled only where the C
  library lacks them and do nothing but that library function; formatting is
  text, and no property here is about it beyond the lengths `getnameinfo` and
  `vector_join` depend on. `daemon.c` is the `fork` and `setsid` before the
  first step of `Server`.
* Windows (`portable/winsock.c`, the parts under `_WIN32`), and the text of
  messages with `message_program_name`.
* The system's IPv6 conversions: `V6Addrs` are what they read and print.
* `lbcd_test` (`-t`), usage and logging: output only, no state.
* Time in `Server`: a probe takes one step there; its duration is in the
  modules of the probes.
* The bytes of a packet: byte order and layout are left out, sizes are kept.

## 6. Plan

Done: every component of section 1 that keeps state is modelled and checked,
and every safety property of the runs is proved for all instances.

What could be added:

1. An abstract probe (one verdict, everything given back, bounded time) that
   `Monlist`, `TcpProbe` and `CmdProbe` implement.
2. The time a whole reply takes (the sum over its probes) against the client's
   alarm, and clients that ask again.
