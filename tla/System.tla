------------------------------- MODULE System -------------------------------
(***************************************************************************)
(* The clients and the daemon, of which only the promises of QueryService  *)
(* are used, over a network that loses, repeats and reorders.              *)
(***************************************************************************)
EXTENDS Client

CONSTANTS
  DaemonConfigs,   \* what the daemon's command line permits
  InboxCap         \* datagrams the daemon's socket holds

VARIABLES
  cfg, inbox, serving, out,   \* the daemon
  replies                     \* packets on their way to the clients

daemon == <<cfg, inbox, serving, out>>
vars   == <<client, daemon, replies>>

Daemon == INSTANCE QueryService WITH NSocks <- 1,
  Datagrams <- {Packet(l[c], p) : l \in CommandLines, c \in Clients, p \in Ports}

Init == ClientInit /\ Daemon!Init /\ cfg \in DaemonConfigs /\ replies = {}

(* Every packet may be delivered now or later, again, or never.            *)
DeliverQuery(keep) ==
  /\ Len(inbox[1]) < InboxCap
  /\ \E q \in queries :
       /\ inbox' = [inbox EXCEPT ![1] = Append(@, q)]
       /\ queries' = IF keep THEN queries ELSE queries \ {q}
  /\ UNCHANGED <<cpc, args, port, buffer, result, sent, cfg, serving, out, replies>>

(* To the live client on that port, or to nobody.                          *)
DeliverReply(keep) ==
  \E p \in replies :
    /\ \/ \E c \in Clients :
            /\ Live(c) /\ port[c] = p.to /\ Len(buffer[c]) < BufCap
            /\ buffer' = [buffer EXCEPT ![c] = Append(@, p)]
       \/ ~ keep /\ UNCHANGED buffer
    /\ replies' = IF keep THEN replies ELSE replies \ {p}
    /\ UNCHANGED <<cpc, args, port, result, queries, sent, daemon>>

LoseQuery == /\ \E q \in queries : queries' = queries \ {q}
             /\ UNCHANGED <<cpc, args, port, buffer, result, sent, daemon, replies>>

(* A weight stands for itself: it is named by the service it is of.        *)
Answer ==
  /\ serving # Daemon!NoRequest
  /\ out' = [to |-> serving.from, version |-> serving.protocol,
             id |-> serving.id, op |-> serving.operation,
             status |-> LBCD_STATUS_OK, size |-> 44 + 8 * Len(serving.services),
             lb |-> [weights |-> <<DefaultService>> \o serving.services]]
  /\ Daemon!Answer
  /\ UNCHANGED <<client, replies>>

Take == out = Daemon!NoReply /\ Daemon!Take /\ UNCHANGED <<client, replies>>

Transmit == /\ out # Daemon!NoReply /\ Daemon!Sent
            /\ replies' = replies \cup {out}
            /\ UNCHANGED client

Stop == Daemon!Stop /\ UNCHANGED <<client, replies>>

Next == \/ ClientStep /\ UNCHANGED <<daemon, replies>>
        \/ \E keep \in BOOLEAN : DeliverQuery(keep) \/ DeliverReply(keep)
        \/ LoseQuery \/ Take \/ Answer \/ Transmit \/ Stop

(* Each client is scheduled and its alarm goes off; nothing is assumed of  *)
(* the network or of the daemon.                                           *)
Spec == /\ Init /\ [][Next]_vars
        /\ \A c \in Clients : WF_vars(Run(c) /\ UNCHANGED <<daemon, replies>>)

-----------------------------------------------------------------------------
(* What passes the client's checks passes the daemon's: no query is        *)
(* dropped without an answer or refused for its version, only for what it  *)
(* asks.                                                                   *)
NeverSilent == \A q \in sent : Daemon!Verdict(q) \in {"serve", "error"}

(* With every loss, repetition, timeout and restart, and although every    *)
(* query has the id 0, a client prints the whole answer to a query that    *)
(* was sent from its port and that the daemon permits.  If its port has    *)
(* carried no other query, that is its own, and each weight is printed     *)
(* next to the name of its service.                                        *)
Lines(c, field) == [i \in DOMAIN result[c].lines |-> result[c].lines[i][field]]
PrintsAnswers ==
  \A c \in Clients : Printed(c) =>
    /\ \E q \in sent :
         /\ q.from = port[c] /\ q.version = result[c].version
         /\ Daemon!Verdict(q) = "serve"
         /\ Lines(c, "weight") =
              IF q.version = 3 THEN <<DefaultService>> \o q.names ELSE << >>
    /\ (\A q \in sent : q.from = port[c] => q = Query(c)) =>
         Lines(c, "name") = Lines(c, "weight")

(* A client with a timeout ends, whatever becomes of its packets, once it  *)
(* has a socket.                                                           *)
ClientEnds ==
  \A c \in Clients : (args[c].timeout > 0 /\ Live(c)) ~> cpc[c] = "done"
=============================================================================
