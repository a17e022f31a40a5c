------------------------------- MODULE Server -------------------------------
(***************************************************************************)
(* The lbcd daemon (server/lbcd.c, server/server.c, server/tmp_full.c):    *)
(* start-up, the request loop, the building of a reply, signals, shutdown, *)
(* and restarts of the whole process.  Each place where another process,   *)
(* the kernel or a signal can act between two steps of the code is a value *)
(* of pc.                                                                  *)
(***************************************************************************)
EXTENDS Weight

CONSTANTS
  Configs,      \* parsed command lines, one of which the host uses
  Datagrams,    \* what clients may send
  Hosts,        \* what the kernel, utmp and statvfs may report
  NSocks,       \* number of bound sockets
  QueueCap,     \* datagrams a socket buffer holds before the kernel drops
  MaxPid        \* how many times the daemon may be started

(* struct lbcd_config and the two start-up variables of main().  pid_file  *)
(* is all that matters of the -P path, bindaddrs counts the -b options,    *)
(* died records that main() exited instead of becoming a daemon.           *)
Config == [services  : SUBSET Service, command : BOOLEAN, weight : Service,
           simple    : BOOLEAN, pid_file : {"none", "absolute", "relative"},
           bindaddrs : Nat, upstart : BOOLEAN, died : BOOLEAN]

Host == [load : Nat, tot_users : Nat, uniq_users : Nat, blocks : Nat, bavail : Nat]

ASSUME ConfigsAssumption   == Configs \subseteq Config
ASSUME DatagramsAssumption == Datagrams \subseteq {d \in Datagram : DatagramOK(d)}
ASSUME HostsAssumption     == Hosts \subseteq Host
ASSUME BoundsAssumption    == /\ NSocks \in Nat \ {0}
                              /\ QueueCap \in Nat \ {0}
                              /\ MaxPid \in Nat \ {0}

VARIABLES
  cfg,             \* struct lbcd_config of the running command line
  pc,              \* where the daemon is
  exit_signaled,   \* the flag exit_handler sets
  queue,           \* receive buffer of each socket
  fd,              \* the socket network_wait_any returned
  request,         \* the struct request being served, or NoRequest
  lb,              \* the struct lbcd_reply being filled in
  out,             \* the packet last passed to sendto, or NoReply
  files,           \* directory -> PID in the PID file there, 0 if no file
  cwd,             \* the daemon's working directory
  sentinel,        \* whether the sentinel file exists
  nologin,         \* whether /etc/nologin exists
  pid,             \* PID of the current instance
  drained          \* history: sentinel has existed since request was accepted

daemon == <<cfg, pc, exit_signaled, fd, request, lb, out>>
host   == <<sentinel, nologin>>
vars   == <<daemon, queue, files, cwd, host, pid, drained>>

Socks     == 1 .. NSocks
NoRequest == [from |-> "none"]
NoReply   == [to |-> "none"]
NoLb      == [l1 |-> 0, tot_users |-> 0, uniq_users |-> 0, tmp |-> 0,
              weights |-> << >>]
EmptyQueues == [i \in Socks |-> << >>]

glob == lbcd_weight_init(cfg.command, cfg.weight)

Stopped == {"exited", "dead"}
Bound   == {"pidfile", "notify", "sigstop", "check", "wait", "select", "recv",
            "dispatch", "default", "sentinel", "services", "send", "cleanup"}
Alive   == {"main", "bind"} \cup Bound

(* Where the PID file is: -P is opened and unlinked as given, so a         *)
(* relative path is resolved against the working directory of that moment. *)
PidDir == IF cfg.pid_file = "absolute" THEN "root" ELSE cwd

-----------------------------------------------------------------------------
(* Request validation (service_allowed, request_recv).                     *)

(* Mutant: the cmd service is not refused.                                 *)
service_allowed_cmd(s) == s = DefaultService \/ s \in cfg.services

service_allowed(s) ==
  \/ s = DefaultService
  \/ s.base # "cmd" /\ s \in cfg.services

(* Mutant: the list is counted for every protocol version.                 *)
Expected_anyVersion(d) == HeaderSize + d.nservices * NameSize

Expected(d) == HeaderSize + (IF d.version = 3 THEN d.nservices * NameSize ELSE 0)

(* The early returns that drop a datagram without an answer.               *)
Malformed(d) ==
  \/ d.size = 0
  \/ d.size < HeaderSize
  \/ d.version = 3 /\ d.nservices > LBCD_MAX_SERVICES
  \/ d.size # Expected(d)

VersionUnsupported(d) == d.version \notin {2, 3}

Disallowed(d) ==
  d.version = 3 /\ \E i \in 1 .. d.nservices : ~ service_allowed(d.names[i])

ToRequest(d) ==
  [from |-> d.from, protocol |-> d.version, id |-> d.id, operation |-> d.op,
   services |-> IF d.version = 3 THEN d.names ELSE << >>]

send_status(to, id, op, status) ==
  Header(to, LBCD_VERSION, id, op, status)

-----------------------------------------------------------------------------
(* Start-up (handle_requests before its loop, bind_sockets).               *)

Init ==
  /\ cfg \in Configs
  /\ pc = "main"
  /\ exit_signaled = FALSE
  /\ queue = EmptyQueues
  /\ fd = 1
  /\ request = NoRequest
  /\ lb = NoLb
  /\ out = NoReply
  /\ files = [d \in {"root", "start", "tmp"} |-> 0]
  /\ cwd = "start"
  /\ sentinel \in BOOLEAN
  /\ nologin \in BOOLEAN
  /\ pid = 1
  /\ drained = FALSE

(* Mutant: the PID file is written before the process can be stopped.      *)
InstallHandlers_pidFirst ==
  /\ pc = "main"
  /\ pc' = "bind"
  /\ files' = IF cfg.pid_file # "none" THEN [files EXCEPT ![PidDir] = pid]
              ELSE files
  /\ UNCHANGED <<cfg, exit_signaled, queue, fd, request, lb, out, cwd, host,
                 pid, drained>>

InstallHandlers ==
  /\ pc = "main"
  /\ pc' = "bind"
  /\ UNCHANGED <<cfg, exit_signaled, queue, fd, request, lb, out, files, cwd,
                 host, pid, drained>>

bind_sockets ==
  /\ pc = "bind"
  /\ pc' = "pidfile"
  /\ UNCHANGED <<cfg, exit_signaled, queue, fd, request, lb, out, files, cwd,
                 host, pid, drained>>

(* fopen may fail; the daemon only warns and goes on.                      *)
WritePidFile ==
  /\ pc = "pidfile"
  /\ pc' = "notify"
  /\ \/ cfg.pid_file # "none" /\ files' = [files EXCEPT ![PidDir] = pid]
     \/ UNCHANGED files
  /\ UNCHANGED <<cfg, exit_signaled, queue, fd, request, lb, out, cwd, host,
                 pid, drained>>

(* sd_notify, then raise(SIGSTOP) under -Z.                                *)
Notify ==
  /\ pc = "notify"
  /\ pc' = IF cfg.upstart THEN "sigstop" ELSE "check"
  /\ UNCHANGED <<cfg, exit_signaled, queue, fd, request, lb, out, files, cwd,
                 host, pid, drained>>

Continue ==
  /\ pc = "sigstop"
  /\ pc' = "check"
  /\ UNCHANGED <<cfg, exit_signaled, queue, fd, request, lb, out, files, cwd,
                 host, pid, drained>>

-----------------------------------------------------------------------------
(* The loop of handle_requests.                                            *)

(* Mutants: the flag is never tested; the function returns from the loop.  *)
CheckExit_never ==
  /\ pc = "check"
  /\ pc' = "wait"
  /\ out' = NoReply
  /\ UNCHANGED <<cfg, exit_signaled, queue, fd, request, lb, files, cwd, host,
                 pid, drained>>
CheckExit_returns ==
  /\ pc = "check"
  /\ pc' = IF exit_signaled THEN "exited" ELSE "wait"
  /\ out' = NoReply
  /\ queue' = IF exit_signaled THEN EmptyQueues ELSE queue
  /\ UNCHANGED <<cfg, exit_signaled, fd, request, lb, files, cwd, host, pid,
                 drained>>

(* The flag is tested here; select is entered only in the next step.       *)
CheckExit ==
  /\ pc = "check"
  /\ pc' = IF exit_signaled THEN "cleanup" ELSE "wait"
  /\ out' = NoReply
  /\ UNCHANGED <<cfg, exit_signaled, queue, fd, request, lb, files, cwd, host,
                 pid, drained>>

EnterSelect ==
  /\ pc = "wait"
  /\ pc' = "select"
  /\ UNCHANGED <<cfg, exit_signaled, queue, fd, request, lb, out, files, cwd,
                 host, pid, drained>>

(* Mutants: any socket once one is ready; the last ready one.              *)
WaitAny(Ready(_)) ==
  /\ pc = "select"
  /\ \E i \in Socks : Ready(i) /\ fd' = i
  /\ pc' = "recv"
  /\ UNCHANGED <<cfg, exit_signaled, queue, request, lb, out, files, cwd, host,
                 pid, drained>>
network_wait_any_unchecked == WaitAny(LAMBDA i : queue # EmptyQueues)
network_wait_any_last ==
  WaitAny(LAMBDA i : /\ queue[i] # << >>
                     /\ \A j \in Socks : j > i => queue[j] = << >>)

(* network_wait_any returns the ready socket that comes first in its array.*)
network_wait_any ==
  /\ pc = "select"
  /\ \E i \in Socks :
       /\ queue[i] # << >>
       /\ \A j \in Socks : j < i => queue[j] = << >>
       /\ fd' = i
  /\ pc' = "recv"
  /\ UNCHANGED <<cfg, exit_signaled, queue, request, lb, out, files, cwd, host,
                 pid, drained>>

(* request_recv: take one datagram and drop it, refuse it, or accept it.   *)
request_recv ==
  /\ pc = "recv"
  /\ queue[fd] # << >>
  /\ queue' = [queue EXCEPT ![fd] = Tail(@)]
  /\ LET d == Head(queue[fd]) IN
     \/ /\ Malformed(d)
        /\ pc' = "check"
        /\ UNCHANGED <<request, out, drained>>
     \/ /\ ~ Malformed(d)
        /\ VersionUnsupported(d)
        /\ out' = send_status(d.from, d.id, d.op, LBCD_STATUS_VERSION)
        /\ pc' = "check"
        /\ UNCHANGED <<request, drained>>
     \/ /\ ~ Malformed(d)
        /\ ~ VersionUnsupported(d)
        /\ Disallowed(d)
        /\ out' = send_status(d.from, d.id, d.op, LBCD_STATUS_ERROR)
        /\ pc' = "check"
        /\ UNCHANGED <<request, drained>>
     \/ /\ ~ Malformed(d)
        /\ ~ VersionUnsupported(d)
        /\ ~ Disallowed(d)
        /\ request' = ToRequest(d)
        /\ drained' = sentinel
        /\ pc' = "dispatch"
        /\ UNCHANGED out
  /\ UNCHANGED <<cfg, exit_signaled, fd, lb, files, cwd, host, pid>>

(* recvfrom fails: a warning, and back to the loop.                        *)
RecvFails ==
  /\ pc = "recv"
  /\ pc' = "check"
  /\ UNCHANGED <<cfg, exit_signaled, queue, fd, request, lb, out, files, cwd,
                 host, pid, drained>>

UnknownOp ==
  /\ pc = "dispatch"
  /\ request.operation # LBCD_OP_LBINFO
  /\ out' = send_status(request.from, request.id, request.operation,
                        LBCD_STATUS_UNKNOWN_OP)
  /\ request' = NoRequest
  /\ pc' = "check"
  /\ UNCHANGED <<cfg, exit_signaled, queue, fd, lb, files, cwd, host, pid,
                 drained>>

(* How much of h's file system is used, of the 95% of it that users can    *)
(* have; total is in twentieths of a block.  Without blocks the quotient   *)
(* is no number, and its conversion to int gives either end of the range   *)
(* on some processor.  Rounding of the doubles is left out.                *)
Percents(h) ==
  LET total   == (IF 20 * h.bavail > 19 * h.blocks THEN 20 ELSE 19) * h.blocks
      percent == ((total - 20 * h.bavail) * 200 + total) \div (2 * total)
  IN  IF total = 0 THEN {0, 100}
      ELSE {IF percent < 0 THEN 0 ELSE IF percent > 100 THEN 100 ELSE percent}

(* tmp_full changes to the directory it measures and stays in it.  It      *)
(* returns 0 if chdir or statvfs fails.                                    *)
tmp_full(dir, h) == IF dir = "tmp" THEN {0} \cup Percents(h) ELSE {0}

(* The first half of lbcd_pack_info.                                       *)
lbcd_pack_info ==
  /\ pc = "dispatch"
  /\ request.operation = LBCD_OP_LBINFO
  /\ cwd' \in {cwd, "tmp"}
  /\ \E h \in Hosts : \E full \in tmp_full(cwd', h) : lb' = PackInfo(h, full)
  /\ pc' = "default"
  /\ UNCHANGED <<cfg, exit_signaled, queue, fd, request, out, files, host, pid,
                 drained>>

(* lbcd_set_load: the default service, the sentinel file, then every       *)
(* requested service, one probe after another.                             *)
DefaultWeight ==
  /\ pc = "default"
  /\ glob.functab # NoFunc
  /\ \E r \in lbcd_setweight(DefaultService, glob, lb, nologin) :
       lb' = [lb EXCEPT !.weights = <<r>>]
  /\ pc' = "sentinel"
  /\ UNCHANGED <<cfg, exit_signaled, queue, fd, request, out, files, cwd, host,
                 pid, drained>>

(* Mutant: the increment is raised instead of the weight.                  *)
CheckSentinel_incr ==
  /\ pc = "sentinel"
  /\ lb' = IF sentinel THEN [lb EXCEPT !.weights[1].incr = Max32] ELSE lb
  /\ pc' = "services"
  /\ UNCHANGED <<cfg, exit_signaled, queue, fd, request, out, files, cwd, host,
                 pid, drained>>

CheckSentinel ==
  /\ pc = "sentinel"
  /\ lb' = IF sentinel THEN [lb EXCEPT !.weights[1].weight = Max32] ELSE lb
  /\ pc' = "services"
  /\ UNCHANGED <<cfg, exit_signaled, queue, fd, request, out, files, cwd, host,
                 pid, drained>>

NextService == request.services[Len(lb.weights)]

ServiceWeight ==
  /\ pc = "services"
  /\ Len(lb.weights) <= Len(request.services)
  /\ ~ (NextService = DefaultService /\ glob.functab = NoFunc)
  /\ \E r \in lbcd_setweight(NextService, glob, lb, nologin) :
       lb' = [lb EXCEPT !.weights = Append(@, r)]
  /\ UNCHANGED <<cfg, pc, exit_signaled, queue, fd, request, out, files, cwd,
                 host, pid, drained>>

(* The end of lbcd_pack_info.                                              *)
FinishReply ==
  /\ pc = "services"
  /\ Len(lb.weights) > Len(request.services)
  /\ lb' = IF ~ cfg.simple /\ request.protocol < 3
           THEN lbcd_proto2_convert(lb) ELSE lb
  /\ pc' = "send"
  /\ UNCHANGED <<cfg, exit_signaled, queue, fd, request, out, files, cwd, host,
                 pid, drained>>

Unused == LBCD_MAX_SERVICES - Len(request.services)

handle_lb_request ==
  /\ pc = "send"
  /\ out' = [to |-> request.from, version |-> request.protocol,
             id |-> request.id, op |-> request.operation,
             status |-> LBCD_STATUS_OK,
             size |-> ReplySize - Unused * ServiceSize,
             lb |-> lb]
  /\ request' = NoRequest
  /\ lb' = NoLb
  /\ pc' = "check"
  /\ UNCHANGED <<cfg, exit_signaled, queue, fd, files, cwd, host, pid, drained>>

(* After the loop: unlink the PID file, close the sockets, leave main.     *)
Shutdown ==
  /\ pc = "cleanup"
  /\ pc' = "exited"
  /\ files' = IF cfg.pid_file # "none" THEN [files EXCEPT ![PidDir] = 0]
              ELSE files
  /\ queue' = EmptyQueues
  /\ UNCHANGED <<cfg, exit_signaled, fd, request, lb, out, cwd, host, pid,
                 drained>>

-----------------------------------------------------------------------------
(* The ways the process ends without cleaning up.                          *)

Die ==
  /\ pc' = "dead"
  /\ queue' = EmptyQueues
  /\ request' = NoRequest
  /\ lb' = NoLb
  /\ out' = NoReply
  /\ UNCHANGED <<cfg, exit_signaled, fd, files, cwd, host, pid, drained>>

(* sysdie: no socket could be bound, or select failed.                     *)
SysDie == pc \in {"bind", "select"} /\ Die

(* lbcd_default_functab is NULL and is dereferenced.                       *)
NullFunction ==
  /\ glob.functab = NoFunc
  /\ \/ pc = "default"
     \/ /\ pc = "services"
        /\ Len(lb.weights) <= Len(request.services)
        /\ NextService = DefaultService
  /\ Die

(* The service being probed.                                               *)
Probed == IF pc = "default" THEN glob.functab
          ELSE service_to_func(NextService, glob.functab)

(* A greeting probe writes to a connection its server has reset; SIGPIPE   *)
(* has its default action.                                                 *)
BrokenPipe ==
  /\ \/ pc = "default"
     \/ pc = "services" /\ Len(lb.weights) <= Len(request.services)
  /\ Probed \in ProbeTable
  /\ Die

(* SIGKILL, the out-of-memory killer, a power cut.                         *)
Kill == pc \in Alive /\ Die

(* SIGINT or SIGTERM: the default action before the handlers are set, an   *)
(* interrupted select, or only the flag.                                   *)
Signal ==
  \/ pc = "main" /\ Die
  \/ /\ pc \in Alive \ {"main"}
     /\ ~ exit_signaled
     /\ exit_signaled' = TRUE
     /\ pc' = IF pc = "select" THEN "check" ELSE pc
     /\ UNCHANGED <<cfg, queue, fd, request, lb, out, files, cwd, host, pid,
                    drained>>

-----------------------------------------------------------------------------
(* The environment: clients, the administrator, the init system.           *)

Arrive(i, d) ==
  /\ pc \in Bound
  /\ Len(queue[i]) < QueueCap
  /\ queue' = [queue EXCEPT ![i] = Append(@, d)]
  /\ UNCHANGED <<daemon, files, cwd, host, pid, drained>>

ToggleSentinel ==
  /\ sentinel' = ~ sentinel
  /\ drained' = (drained /\ sentinel')
  /\ UNCHANGED <<daemon, queue, files, cwd, nologin, pid>>

ToggleNologin ==
  /\ nologin' = ~ nologin
  /\ UNCHANGED <<daemon, queue, files, cwd, sentinel, pid, drained>>

Restart ==
  /\ pc \in Stopped
  /\ pid < MaxPid
  /\ pid' = pid + 1
  /\ pc' = "main"
  /\ exit_signaled' = FALSE
  /\ cwd' = "start"
  /\ fd' = 1
  /\ UNCHANGED <<cfg, queue, request, lb, out, files, host, drained>>

-----------------------------------------------------------------------------
Startup == InstallHandlers \/ bind_sockets \/ WritePidFile \/ Notify

Loop == \/ CheckExit \/ EnterSelect \/ network_wait_any \/ request_recv
        \/ UnknownOp \/ lbcd_pack_info \/ DefaultWeight \/ CheckSentinel
        \/ ServiceWeight \/ FinishReply \/ handle_lb_request \/ Shutdown

Failure == SysDie \/ NullFunction \/ BrokenPipe \/ Kill \/ RecvFails

Environment == \/ Continue \/ Signal \/ Restart
               \/ ToggleSentinel \/ ToggleNologin
               \/ \E i \in Socks, d \in Datagrams : Arrive(i, d)

Next == Startup \/ Loop \/ Failure \/ Environment

Spec == Init /\ [][Next]_vars

(* The scheduler runs a runnable daemon, upstart answers SIGSTOP, and      *)
(* recvfrom does not fail for ever on a socket that has data.              *)
FairSpec == /\ Spec
            /\ WF_vars(Startup) /\ WF_vars(Loop) /\ WF_vars(Continue)
            /\ SF_vars(request_recv)

-----------------------------------------------------------------------------
(* Properties.                                                             *)

Request == [from : STRING, protocol : {2, 3}, id : Nat, operation : Nat,
            services : Seq(Service)]

Reply == [l1 : 0 .. Max16, tot_users : 0 .. Max16, uniq_users : 0 .. Max16,
          tmp : 0 .. 100, weights : Seq(WeightPair)]

(* What sendto is given: a bare header, or a header and a reply.           *)
StatusPacket == [to : STRING, version : {2, 3}, id : Nat, op : Nat,
                 status : 1 .. 5]
ReplyPacket  == [to : STRING, version : {2, 3}, id : Nat, op : Nat,
                 status : 1 .. 5, size : Nat, lb : Reply]

(* Every variable has its type: in particular the load, the user counts,   *)
(* the fullness and the weights, in the reply being built and in the one   *)
(* that is sent, fit the fields of struct lbcd_reply.                      *)
TypeOK ==
  /\ cfg \in Configs
  /\ pc \in Alive \cup Stopped
  /\ exit_signaled \in BOOLEAN
  /\ queue \in [Socks -> Seq(Datagrams)]
  /\ fd \in Socks
  /\ request \in Request \cup {NoRequest}
  /\ lb \in Reply
  /\ out \in StatusPacket \cup ReplyPacket \cup {NoReply}
  /\ files \in [{"root", "start", "tmp"} -> 0 .. MaxPid]
  /\ cwd \in {"start", "tmp"}
  /\ sentinel \in BOOLEAN
  /\ nologin \in BOOLEAN
  /\ pid \in 1 .. MaxPid
  /\ drained \in BOOLEAN

(* handle_requests calls request_recv only on a socket that still has a    *)
(* datagram, so the blocking recvfrom cannot stop the daemon: between      *)
(* select and recvfrom nothing else empties the buffer.                    *)
RecvNeverBlocks == pc = "recv" => queue[fd] # << >>

(* "This routine is REQUIRED to sanitize the request packet": whatever     *)
(* arrives, a request that is being served has as many services as the     *)
(* reply has room for, every one of them permitted by the command line,    *)
(* and the external command runs only as the default service.              *)
Serving == {"dispatch", "default", "sentinel", "services", "send"}
RequestSane ==
  pc \in Serving =>
    /\ Len(request.services) <= LBCD_MAX_SERVICES
    /\ \A i \in 1 .. Len(request.services) :
         LET s == request.services[i] IN
         /\ s # DefaultService => s \in cfg.services
         /\ service_to_func(s, glob.functab) = "cmd" => s = DefaultService

(* The PID file names an instance only while it can be stopped cleanly by  *)
(* that PID: after its handlers are set and its sockets bound, and never   *)
(* after it has exited.  Only a crash leaves the file behind.              *)
PidFileMeansReady ==
  files["root"] = pid => pc \in Bound \cup {"dead"}

(* A daemon that exits on a signal leaves no half-served request, no open  *)
(* socket and no PID file of its own anywhere (server/lbcd.pod: the file   *)
(* "will be deleted when lbcd exits normally"), unless -P was relative:    *)
(* then the file is looked for where tmp_full went in the meantime.        *)
CleanExit ==
  pc = "exited" =>
    /\ cfg.pid_file # "relative" => \A d \in DOMAIN files : files[d] # pid
    /\ request = NoRequest
    /\ queue = EmptyQueues

(* If the sentinel file existed from the moment the request was accepted,  *)
(* the reply takes the host out of the pool, in the version 2 form too.    *)
Drained ==
  pc = "send" /\ drained =>
    /\ lb.weights[1].weight = Max32
    /\ request.protocol = 2 /\ ~ cfg.simple => lb.l1 = Max16

(* A tcp service with a port that a short can hold reports whether a       *)
(* connection could be made, 0 or Max32, next to its own name.  Without    *)
(* such a port, which a default of tcp never has, its weight is whatever   *)
(* was on the stack.  No reply is built with a default function of NULL:   *)
(* after -w default each query ends the daemon.                            *)
TcpVerdict ==
  pc = "send" =>
    /\ glob.functab # NoFunc
    /\ \A i \in 1 .. Len(request.services) :
         LET s == request.services[i] IN
         s.base = "tcp" /\ ~ TcpUnset(s.arg) => lb.weights[i + 1].weight \in {0, Max32}

(* The daemon implements the query service.                                *)
Abstract == INSTANCE QueryService WITH inbox <- queue, serving <- request
Implements == Abstract!Spec

(* An exit signal ends the daemon.                                         *)
SignalExits == exit_signaled ~> pc \in Stopped

(* What the loop does guarantee: after an exit signal the daemon stops, or *)
(* it sleeps in select with nothing to read until a datagram comes.        *)
SignalExitsOrIdle ==
  exit_signaled ~> \/ pc \in Stopped
                   \/ pc = "select" /\ queue = EmptyQueues

(* No socket is starved by those after it: a datagram reaches request_recv *)
(* once the sockets before its own fall silent, so on the first socket in  *)
(* any case, unless the daemon stops.                                      *)
SocketServed ==
  \A i \in Socks :
    (queue[i] # << >> /\ [](\A j \in Socks : j < i => queue[j] = << >>))
      ~> (pc \in Stopped \/ (pc = "recv" /\ fd = i))
=============================================================================
