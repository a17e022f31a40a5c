------------------------------ MODULE NetBind -------------------------------
(***************************************************************************)
(* Creating the listening sockets: bind_sockets (server/lbcd.c) with       *)
(* network_bind_ipv4, network_bind_ipv6 and network_bind_all               *)
(* (util/network.c) and fdflag_close_exec (util/fdflag.c), against a       *)
(* kernel in which every one of the calls may fail.                        *)
(***************************************************************************)
EXTENDS Integers, Sequences, FiniteSets, SequencesExt

CONSTANTS
  BindAddrs,    \* possible lists of -b arguments
  LocalAddrs,   \* possible answers of getaddrinfo for the local addresses
  SystemdFds    \* how many sockets systemd may pass

(* What matters of an address: its family, and whether it parses as an     *)
(* address of that family (what is_ipv6 refuses is tried as IPv4).         *)
Address == [family : {"inet", "inet6", "unix"}, valid : BOOLEAN]

ASSUME BindAddrsAssumption ==
  \A l \in BindAddrs : l \in Seq({a \in Address : a.family # "unix"})
ASSUME LocalAddrsAssumption ==
  \A l \in LocalAddrs : l \in Seq({a \in Address : a.valid})
ASSUME SystemdAssumption == SystemdFds \subseteq Nat

VARIABLES
  given,     \* sockets passed by systemd
  addrs,     \* the addresses to bind
  all,       \* whether they are the local ones (network_bind_all)
  pc,        \* "start", "socket", "bind", "store", "exec", "ready" or "died"
  i,         \* the address being bound
  size,      \* allocated length of the array
  fds,       \* the array *fds, up to *count
  sock,      \* the socket of this address, 0 for INVALID_SOCKET
  next,      \* the next descriptor the kernel hands out
  opened,    \* descriptors of sockets open in the process
  cloexec    \* those with FD_CLOEXEC

vars == <<given, addrs, all, pc, i, size, fds, sock, next, opened, cloexec>>

SD_LISTEN_FDS_START == 3

Init ==
  /\ given \in SystemdFds
  /\ \/ all = FALSE /\ addrs \in BindAddrs \ {<< >>}
     \/ all = TRUE /\ addrs \in LocalAddrs
  /\ pc = "start" /\ i = 1 /\ size = 0 /\ fds = << >> /\ sock = 0
  /\ next = SD_LISTEN_FDS_START + given
  /\ opened = SD_LISTEN_FDS_START .. (SD_LISTEN_FDS_START + given - 1)
  /\ cloexec = {}

(* sd_listen_fds(true) sets FD_CLOEXEC on the sockets it finds; otherwise  *)
(* the array is allocated: two entries for network_bind_all, which starts  *)
(* with a guess, and one for each -b.                                      *)
Start ==
  /\ pc = "start"
  /\ IF given > 0
     THEN /\ fds' = [k \in 1 .. given |-> SD_LISTEN_FDS_START + k - 1]
          /\ size' = given
          /\ cloexec' = opened
          /\ pc' = "ready"
     ELSE /\ size' = IF all THEN 2 ELSE Len(addrs)
          /\ pc' = "socket"
          /\ UNCHANGED <<fds, cloexec>>
  /\ UNCHANGED <<given, addrs, all, i, sock, next, opened>>

sd_listen_fds_fails == /\ pc = "start" /\ pc' = "died"
                       /\ UNCHANGED <<given, addrs, all, i, size, fds, sock,
                                      next, opened, cloexec>>

(* The socket() call of network_bind_ipv4 and network_bind_ipv6; other     *)
(* families are skipped.                                                   *)
Socket ==
  /\ pc = "socket" /\ i <= Len(addrs)
  /\ IF addrs[i].family = "unix"
     THEN i' = i + 1 /\ UNCHANGED <<pc, sock, next, opened>>
     ELSE /\ \/ sock' = 0 /\ UNCHANGED <<next, opened>> /\ pc' = "store"
             \/ /\ sock' = next /\ next' = next + 1
                /\ opened' = opened \cup {next}
                /\ pc' = "bind"
          /\ UNCHANGED i
  /\ UNCHANGED <<given, addrs, all, size, fds, cloexec>>

(* The rest of them.  An address that does not parse leaves the socket     *)
(* open; a bind that fails closes it.                                      *)
Bind ==
  /\ pc = "bind"
  /\ \/ ~ addrs[i].valid /\ sock' = 0 /\ UNCHANGED opened
     \/ addrs[i].valid /\ sock' = 0 /\ opened' = opened \ {sock}
     \/ addrs[i].valid /\ UNCHANGED <<sock, opened>>
  /\ pc' = "store"
  /\ UNCHANGED <<given, addrs, all, i, size, fds, next, cloexec>>

(* Mutant: the array is not grown.                                         *)
Grow_never(n) == size
Grow(n) == IF n >= size THEN size + 2 ELSE size

(* network_bind_all keeps the sockets it could bind and grows the array by *)
(* two when it is full; bind_sockets dies on the first -b it cannot bind.  *)
Store ==
  /\ pc = "store"
  /\ \/ /\ sock = 0 /\ ~ all
        /\ pc' = "died" /\ UNCHANGED <<i, size, fds>>
     \/ /\ sock = 0 /\ all
        /\ pc' = "socket" /\ i' = i + 1 /\ UNCHANGED <<size, fds>>
     \/ /\ sock # 0 /\ all
        /\ size' = Grow(Len(fds)) /\ fds' = Append(fds, sock)
        /\ pc' = "socket" /\ i' = i + 1
     \/ /\ sock # 0 /\ ~ all
        /\ fds' = Append(fds, sock)
        /\ pc' = "exec" /\ UNCHANGED <<i, size>>
  /\ UNCHANGED <<given, addrs, all, sock, next, opened, cloexec>>

(* Mutant: the first socket is marked each time.                           *)
SetCloseExec_first ==
  /\ pc = "exec"
  /\ cloexec' = cloexec \cup {fds[1]}
  /\ pc' = "socket" /\ i' = i + 1
  /\ UNCHANGED <<given, addrs, all, size, fds, sock, next, opened>>

(* fdflag_close_exec, called for the -b sockets.                           *)
SetCloseExec ==
  /\ pc = "exec"
  /\ \/ /\ cloexec' = cloexec \cup {sock}
        /\ pc' = "socket" /\ i' = i + 1
     \/ pc' = "died" /\ UNCHANGED <<i, cloexec>>
  /\ UNCHANGED <<given, addrs, all, size, fds, sock, next, opened>>

(* All addresses have been tried.                                          *)
Finish ==
  /\ pc = "socket" /\ i > Len(addrs)
  /\ pc' = IF all /\ fds = << >> THEN "died" ELSE "ready"
  /\ UNCHANGED <<given, addrs, all, i, size, fds, sock, next, opened, cloexec>>

Next == \/ Start \/ sd_listen_fds_fails \/ Socket \/ Bind \/ Store
        \/ SetCloseExec \/ Finish

Spec == Init /\ [][Next]_vars

-----------------------------------------------------------------------------
(* When the daemon starts to serve, the sockets it listens on are exactly  *)
(* the ones it has open: no socket of an address that failed is left, none *)
(* is listed twice and none that was closed is still listed.  If it was    *)
(* told which addresses to serve it serves all of them or does not start;  *)
(* without -b it starts if it could bind any of them.  The array never     *)
(* holds more sockets than it was allocated for.                           *)
ListensOnAll ==
  /\ Len(fds) <= size
  /\ pc = "ready" => /\ ToSet(fds) = opened /\ Cardinality(opened) = Len(fds)
                     /\ Len(fds) > 0
                     /\ (given = 0 /\ ~ all) => Len(fds) = Len(addrs)

(* The weight command inherits no listening socket, whether they came from *)
(* systemd or from -b options; the sockets of network_bind_all are not     *)
(* marked.                                                                 *)
NotInherited ==
  pc = "ready" /\ (given > 0 \/ ~ all) => opened \subseteq cloexec
=============================================================================
