------------------------------- MODULE Client -------------------------------
(***************************************************************************)
(* client/lbcdclient: a Perl script that sends one query, waits for one    *)
(* packet and prints it.  Several instances run, one after the other or at *)
(* the same time; each has a connected UDP socket on a port of its own     *)
(* while it lives, and a later one may get the port of an earlier one.     *)
(***************************************************************************)
EXTENDS Protocol

CONSTANTS
  Clients,      \* instances of the script
  CommandLines, \* -2, the services of -s and -t for each instance
  LongNames,    \* service names of more than 31 octets
  Ports,        \* ports the kernel hands out
  BufCap        \* packets a client's socket buffer holds

Args == [v2 : BOOLEAN, services : Seq(Service), timeout : Nat]

ASSUME CommandLinesAssumption == CommandLines \subseteq [Clients -> Args]

VARIABLES
  cpc,        \* "start", "send", "wait", "got" or "done" for each client
  args,       \* its command line
  port,       \* the port of its socket, kept after its end as a history
  buffer,     \* packets received on that socket
  result,     \* how it ended, and what it printed
  queries,    \* datagrams on their way to the daemon
  sent        \* history: every query that was sent

client == <<cpc, args, port, buffer, result, queries, sent>>

Ended(e) == [end |-> e, version |-> 0, lines |-> << >>]
Undef    == [base |-> "undef", arg |-> "undef"]
Live(c)  == cpc[c] \in {"send", "wait", "got"}
Printed(c) == result[c].end = "printed"

ClientInit ==
  /\ cpc = [c \in Clients |-> "start"]
  /\ args \in CommandLines
  /\ port \in [Clients -> {"none"}]
  /\ buffer = [c \in Clients |-> << >>]
  /\ result = [c \in Clients |-> Ended("none")]
  /\ queries = {} /\ sent = {}

(* The end of the process, which closes its socket.                        *)
Exit(c, r) ==
  /\ cpc' = [cpc EXCEPT ![c] = "done"]
  /\ result' = [result EXCEPT ![c] = r]
  /\ buffer' = [buffer EXCEPT ![c] = << >>]
  /\ UNCHANGED <<args, port>>

udp_socket(c) ==
  /\ cpc[c] = "start"
  /\ \E p \in Ports :
       /\ \A d \in Clients : Live(d) => port[d] # p
       /\ port' = [port EXCEPT ![c] = p]
  /\ cpc' = [cpc EXCEPT ![c] = "send"]
  /\ UNCHANGED <<args, buffer, result, queries, sent>>

(* The name does not resolve, or there is no socket.                       *)
SocketFails(c) ==
  /\ cpc[c] = "start"
  /\ Exit(c, Ended("died"))
  /\ UNCHANGED <<queries, sent>>

(* Mutant: the number of services is not limited.                          *)
Invalid_anyNumber(a) ==
  \/ a.v2 /\ a.services # << >>
  \/ \E i \in DOMAIN a.services : a.services[i] \in LongNames

(* The sanity checks of send_query.                                        *)
Invalid(a) ==
  \/ a.v2 /\ a.services # << >>
  \/ Len(a.services) > 5
  \/ \E i \in DOMAIN a.services : a.services[i] \in LongNames

(* The query packet: the id is always 0.                                   *)
Packet(a, p) ==
  [from |-> p, size |-> HeaderSize + NameSize * Len(a.services),
   version |-> IF a.v2 THEN 2 ELSE 3, id |-> 0, op |-> 1,
   nservices |-> Len(a.services), names |-> a.services]
Query(c) == Packet(args[c], port[c])

send_query(c) ==
  /\ cpc[c] = "send"
  /\ \/ /\ ~ Invalid(args[c])
        /\ queries' = queries \cup {Query(c)}
        /\ sent' = sent \cup {Query(c)}
        /\ cpc' = [cpc EXCEPT ![c] = "wait"]
        /\ UNCHANGED <<args, port, buffer, result>>
     \/ Exit(c, Ended("died")) /\ UNCHANGED <<queries, sent>>  \* a check or send fails

(* recv returns the first packet of the buffer.                            *)
Recv(c) ==
  /\ cpc[c] = "wait" /\ buffer[c] # << >>
  /\ cpc' = [cpc EXCEPT ![c] = "got"]
  /\ UNCHANGED <<args, port, buffer, result, queries, sent>>

(* An ICMP error, as when no daemon runs.                                  *)
RecvFails(c) ==
  /\ cpc[c] = "wait"
  /\ Exit(c, Ended("died"))
  /\ UNCHANGED <<queries, sent>>

(* Mutant: the alarm is not set.                                           *)
Alarm_unset(c) == FALSE /\ UNCHANGED client

(* SIGALRM: until alarm(0) it ends the client even if recv has returned.   *)
(* A timeout of 0 sets no alarm.                                           *)
Alarm(c) ==
  /\ cpc[c] \in {"wait", "got"} /\ args[c].timeout > 0
  /\ Exit(c, Ended("timeout"))
  /\ UNCHANGED <<queries, sent>>

Refused(p) == p.id # 0 \/ p.op # 1 \/ p.status # 1

RecvSize == 256

(* The weights of a version 3 reply, one more than its services field.     *)
(* unpack finds nothing beyond the end of what recv returned.              *)
Weights(p) ==
  IF p.version # 3 \/ p.status # 1 THEN << >>
  ELSE [i \in DOMAIN p.lb.weights |->
          IF 36 + ServiceSize * i <= RecvSize THEN p.lb.weights[i] ELSE Undef]

(* Mutant: the first weight is taken for the first service's.              *)
Labels_noDefault(c) == args[c].services
Labels(c) == <<DefaultService>> \o args[c].services

print_reply(c, weights) ==
  [i \in DOMAIN weights |->
     [name   |-> IF i \in DOMAIN Labels(c) THEN Labels(c)[i] ELSE Undef,
      weight |-> weights[i]]]

read_reply(c) ==
  /\ cpc[c] = "got"
  /\ LET p == Head(buffer[c]) IN
     IF Refused(p) THEN Exit(c, Ended("died"))
     ELSE Exit(c, [end |-> "printed", version |-> p.version,
                  lines |-> print_reply(c, Weights(p))])
  /\ UNCHANGED <<queries, sent>>

Run(c) == udp_socket(c) \/ send_query(c) \/ Recv(c) \/ read_reply(c) \/ Alarm(c)

ClientStep == \E c \in Clients : Run(c) \/ SocketFails(c) \/ RecvFails(c)
=============================================================================
