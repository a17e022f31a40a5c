---------------------------- MODULE SystemProofs ----------------------------
(***************************************************************************)
(* Proofs about the clients and the daemon together, for any number of     *)
(* clients, command lines, ports and permitted services, and any network   *)
(* that loses, repeats and reorders: no query is met with silence, and     *)
(* what a client prints answers a query that was sent from its port.       *)
(***************************************************************************)
EXTENDS System, TLAPS

(* A query that has passed the checks of send_query.                       *)
Checked(q) ==
  /\ q.version \in {2, 3} /\ q.id = 0 /\ q.op = 1
  /\ q.names \in Seq(Service) /\ Len(q.names) \in 0 .. 5
  /\ q.nservices = Len(q.names) /\ q.size = 8 + 32 * Len(q.names)
  /\ q.version = 2 => q.names = << >>

(* What the daemon makes of a query it serves, and its answer.             *)
Request(q) == [from |-> q.from, protocol |-> q.version, id |-> q.id,
               operation |-> q.op, services |-> Daemon!Asked(q)]
Reply(q) == [to |-> q.from, version |-> q.version, id |-> q.id, op |-> q.op,
             status |-> LBCD_STATUS_OK, size |-> 44 + 8 * Len(Daemon!Asked(q)),
             lb |-> [weights |-> <<DefaultService>> \o Daemon!Asked(q)]]

(* The queries to be served, and every packet the daemon may have sent.    *)
Served  == {q \in sent : Daemon!Verdict(q) = "serve"}
Replies == {Reply(q) : q \in Served}
Answers == Replies \cup {Daemon!Refusal(q, LBCD_STATUS_VERSION) : q \in sent}
                   \cup {Daemon!Refusal(q, LBCD_STATUS_ERROR) : q \in sent}

(* What is on its way, in the daemon's hands or in a client's buffer goes  *)
(* back to a query that was sent.                                          *)
Wire ==
  /\ queries \subseteq sent /\ inbox \in [1 .. 1 -> Seq(sent)]
  /\ serving \in {Daemon!NoRequest} \cup {Request(q) : q \in Served}
  /\ out \in {Daemon!NoReply} \cup Answers
  /\ replies \subseteq Answers

For(c) == {p \in Answers : p.to = port[c]}
Buffers ==
  /\ DOMAIN buffer = Clients
  /\ \A c \in Clients : buffer[c] \in Seq(For(c))

(* How far each client has come.                                           *)
Stages ==
  /\ args \in [Clients -> Args]
  /\ DOMAIN cpc = Clients /\ DOMAIN port = Clients /\ DOMAIN result = Clients
  /\ \A c \in Clients :
       /\ cpc[c] \notin {"send", "wait", "got"} => buffer[c] = << >>
       /\ cpc[c] = "got" => buffer[c] # << >>
       /\ cpc[c] # "done" => ~ Printed(c)

Explained(c) ==
  Printed(c) =>
    /\ \E q \in sent :
         /\ q.from = port[c] /\ q.version = result[c].version
         /\ Daemon!Verdict(q) = "serve"
         /\ Lines(c, "weight") =
              IF q.version = 3 THEN <<DefaultService>> \o q.names ELSE << >>
    /\ (\A q \in sent : q.from = port[c] => q = Query(c)) =>
         Lines(c, "name") = Lines(c, "weight")

IInv == /\ \A q \in sent : Checked(q)
        /\ Wire /\ Buffers /\ Stages
        /\ \A c \in Clients : Explained(c)

-----------------------------------------------------------------------------
(* The daemon has an answer for every query that passes the checks.        *)
LEMMA CheckedIsAnswered ==
  ASSUME NEW q, Checked(q)
  PROVE  Daemon!Verdict(q) \in {"serve", "error"}
PROOF
<1>1. Daemon!WellFormed(q)
  BY DEF Daemon!WellFormed, Checked
<1>. QED
  BY <1>1 DEF Daemon!Verdict, Checked

(* The checks of send_query, on the packet that it builds.                 *)
LEMMA QueriesChecked ==
  ASSUME NEW a \in Args, ~ Invalid(a), NEW p
  PROVE  Checked(Packet(a, p))
PROOF
<1>1. /\ a.services \in Seq(Service) /\ a.v2 \in BOOLEAN
      /\ Len(a.services) \in Nat /\ ~ (Len(a.services) > 5)
      /\ a.v2 => a.services = << >>
  BY DEF Args, Invalid
<1>2. /\ Packet(a, p).id = 0 /\ Packet(a, p).op = 1
      /\ Packet(a, p).names = a.services /\ Packet(a, p).nservices = Len(a.services)
      /\ Packet(a, p).size = 8 + 32 * Len(a.services)
  BY DEF Packet, HeaderSize, NameSize
<1>3. Packet(a, p).version = IF a.v2 THEN 2 ELSE 3
  BY DEF Packet
<1>4. /\ Packet(a, p).version \in {2, 3}
      /\ Packet(a, p).version = 2 => a.services = << >>
  <2>1. CASE a.v2
    BY <1>1, <1>3, <2>1
  <2>2. CASE ~ a.v2
    BY <1>3, <2>2
  <2>. QED
    BY <2>1, <2>2
<1>5. Len(a.services) \in 0 .. 5
  <2>1. ASSUME NEW n \in Nat, ~ (n > 5) PROVE n \in 0 .. 5
    BY <2>1
  <2>. QED
    BY <1>1, <2>1, Zenon
<1>. QED
  BY <1>1, <1>2, <1>4, <1>5 DEF Checked

(* Everything that goes back to a query still does when more were sent.    *)
LEMMA AnswersStay ==
  ASSUME sent \subseteq sent', cfg' = cfg
  PROVE  Served \subseteq Served' /\ Answers \subseteq Answers'
PROOF
<1>1. \A q : Daemon!Verdict(q)' = Daemon!Verdict(q)
  BY DEF Daemon!Verdict, Daemon!WellFormed, Daemon!Asked, Daemon!Permitted
<1>2. Served \subseteq Served'
  BY <1>1 DEF Served
<1>. QED
  BY <1>2 DEF Answers, Replies

(* A longer history explains what was printed as well as before.           *)
LEMMA StaysExplained ==
  ASSUME NEW c \in Clients, Explained(c), sent \subseteq sent', cfg' = cfg,
         result'[c] = result[c], port'[c] = port[c], args' = args
  PROVE  Explained(c)'
PROOF
<1>1. \A q : Daemon!Verdict(q)' = Daemon!Verdict(q)
  BY DEF Daemon!Verdict, Daemon!WellFormed, Daemon!Asked, Daemon!Permitted
<1>2. /\ Printed(c)' = Printed(c) /\ Query(c)' = Query(c)
      /\ Lines(c, "weight")' = Lines(c, "weight")
      /\ Lines(c, "name")' = Lines(c, "name")
  BY DEF Printed, Query, Lines
<1>. QED
  BY <1>1, <1>2 DEF Explained

(* A client that ends keeps the invariant, if what it prints is explained. *)
LEMMA ExitKeeps ==
  ASSUME IInv, NEW c \in Clients, NEW r, Exit(c, r),
         UNCHANGED <<queries, sent, daemon, replies>>,
         r.end = "printed" => Explained(c)'
  PROVE  IInv'
PROOF
<1>0. UNCHANGED <<queries, sent, cfg, inbox, serving, out, replies, args, port>>
  BY DEF Exit, daemon
<1>1. Served' = Served /\ Answers' = Answers
  BY <1>0 DEF Served, Answers, Replies, Daemon!Verdict, Daemon!WellFormed,
              Daemon!Asked, Daemon!Permitted, Daemon!Refusal
<1>2. Wire'
  BY <1>0, <1>1 DEF IInv, Wire
<1>3. \A d \in Clients : For(d)' = For(d)
  BY <1>0, <1>1 DEF For
<1>4. /\ DOMAIN cpc = Clients /\ DOMAIN result = Clients /\ DOMAIN buffer = Clients
      /\ cpc' = [cpc EXCEPT ![c] = "done"] /\ result' = [result EXCEPT ![c] = r]
      /\ buffer' = [buffer EXCEPT ![c] = << >>]
  BY DEF IInv, Stages, Buffers, Exit
<1>5. Buffers'
  BY <1>3, <1>4 DEF IInv, Buffers
<1>6. Stages'
  BY <1>0, <1>4 DEF IInv, Stages, Printed
<1>7. ASSUME NEW d \in Clients PROVE Explained(d)'
  <2>1. CASE d # c
    <3>1. result'[d] = result[d] /\ port'[d] = port[d]
      BY <1>0, <1>4, <2>1
    <3>. QED
      BY <1>0, <3>1, StaysExplained DEF IInv
  <2>2. CASE d = c /\ r.end = "printed"
    BY <2>2
  <2>3. CASE d = c /\ r.end # "printed"
    <3>1. ~ Printed(d)'
      BY <1>4, <2>3 DEF Printed
    <3>. QED
      BY <3>1 DEF Explained
  <2>. QED
    BY <2>1, <2>2, <2>3
<1>. QED
  BY <1>0, <1>2, <1>5, <1>6, <1>7 DEF IInv

(* A client that got no answer prints nothing.                             *)
LEMMA EndedKeeps ==
  ASSUME IInv, NEW c \in Clients, NEW e, e # "printed", Exit(c, Ended(e)),
         UNCHANGED <<queries, sent, daemon, replies>>
  PROVE  IInv'
PROOF
BY ExitKeeps DEF Ended

(* A new socket gets a port and an empty buffer.                           *)
LEMMA SocketKeeps ==
  ASSUME IInv, NEW c \in Clients, udp_socket(c), UNCHANGED <<daemon, replies>>
  PROVE  IInv'
PROOF
<1>0. UNCHANGED <<queries, sent, cfg, inbox, serving, out, replies, args, buffer, result>>
  BY DEF udp_socket, daemon
<1>1. PICK p \in Ports : port' = [port EXCEPT ![c] = p]
  BY DEF udp_socket
<1>2. /\ DOMAIN cpc = Clients /\ DOMAIN port = Clients /\ cpc[c] = "start"
      /\ cpc' = [cpc EXCEPT ![c] = "send"] /\ buffer[c] = << >> /\ ~ Printed(c)
  BY DEF IInv, Stages, udp_socket
<1>3. Served' = Served /\ Answers' = Answers
  BY <1>0 DEF Served, Answers, Replies, Daemon!Verdict, Daemon!WellFormed,
              Daemon!Asked, Daemon!Permitted, Daemon!Refusal
<1>4. Wire'
  BY <1>0, <1>3 DEF IInv, Wire
<1>5. \A d \in Clients \ {c} : For(d)' = For(d)
  BY <1>1, <1>2, <1>3 DEF For
<1>6. Buffers'
  BY <1>0, <1>2, <1>5 DEF IInv, Buffers
<1>7. Stages'
  BY <1>0, <1>1, <1>2 DEF IInv, Stages, Printed
<1>8. ASSUME NEW d \in Clients PROVE Explained(d)'
  <2>1. CASE d # c
    <3>1. result'[d] = result[d] /\ port'[d] = port[d]
      BY <1>0, <1>1, <1>2, <2>1
    <3>. QED
      BY <1>0, <3>1, StaysExplained DEF IInv
  <2>2. CASE d = c
    <3>1. ~ Printed(d)'
      BY <1>0, <1>2, <2>2 DEF Printed
    <3>. QED
      BY <3>1 DEF Explained
  <2>. QED
    BY <2>1, <2>2
<1>. QED
  BY <1>0, <1>4, <1>6, <1>7, <1>8 DEF IInv

(* A query that is sent has passed the checks.                             *)
LEMMA QueryKeeps ==
  ASSUME IInv, NEW c \in Clients, send_query(c), UNCHANGED <<daemon, replies>>
  PROVE  IInv'
PROOF
<1>1. CASE Exit(c, Ended("died")) /\ UNCHANGED <<queries, sent>>
  BY <1>1, EndedKeeps
<1>2. CASE /\ ~ Invalid(args[c])
           /\ queries' = queries \cup {Query(c)} /\ sent' = sent \cup {Query(c)}
           /\ cpc' = [cpc EXCEPT ![c] = "wait"]
           /\ UNCHANGED <<args, port, buffer, result>>
  <2>0. UNCHANGED <<cfg, inbox, serving, out, replies>> /\ sent \subseteq sent'
    BY <1>2 DEF daemon
  <2>1. \A q \in sent' : Checked(q)
    <3>1. args[c] \in Args
      BY DEF IInv, Stages
    <3>2. Checked(Query(c))
      BY <1>2, <3>1, QueriesChecked DEF Query
    <3>. QED
      BY <1>2, <3>2 DEF IInv
  <2>2. Served \subseteq Served' /\ Answers \subseteq Answers'
    BY <2>0, AnswersStay
  <2>3. Wire'
    <3>1. queries' \subseteq sent' /\ replies' \subseteq Answers'
          /\ out' \in {Daemon!NoReply} \cup Answers'
      BY <1>2, <2>0, <2>2 DEF IInv, Wire
    <3>2. inbox' \in [1 .. 1 -> Seq(sent')]
      BY <2>0 DEF IInv, Wire
    <3>3. serving' \in {Daemon!NoRequest} \cup {Request(q) : q \in Served'}
      BY <2>0, <2>2 DEF IInv, Wire
    <3>. QED
      BY <3>1, <3>2, <3>3 DEF Wire, Request
  <2>4. \A d \in Clients : For(d) \subseteq For(d)'
    BY <1>2, <2>2 DEF For
  <2>5. Buffers'
    BY <1>2, <2>4 DEF IInv, Buffers
  <2>6. Stages'
    BY <1>2 DEF IInv, Stages, send_query, Printed
  <2>7. \A d \in Clients : Explained(d)'
    BY <1>2, <2>0, StaysExplained DEF IInv
  <2>. QED
    BY <2>1, <2>3, <2>5, <2>6, <2>7 DEF IInv
<1>. QED
  BY <1>1, <1>2 DEF send_query

(* A client that has a packet looks at it.                                 *)
LEMMA RecvKeeps ==
  ASSUME IInv, NEW c \in Clients, Recv(c), UNCHANGED <<daemon, replies>>
  PROVE  IInv'
PROOF
<1>0. /\ UNCHANGED <<queries, sent, cfg, inbox, serving, out, replies, args, port,
                     buffer, result>>
      /\ cpc[c] = "wait" /\ buffer[c] # << >> /\ cpc' = [cpc EXCEPT ![c] = "got"]
  BY DEF Recv, daemon
<1>1. Served' = Served /\ Answers' = Answers
  BY <1>0 DEF Served, Answers, Replies, Daemon!Verdict, Daemon!WellFormed,
              Daemon!Asked, Daemon!Permitted, Daemon!Refusal
<1>2. Wire' /\ Buffers'
  BY <1>0, <1>1 DEF IInv, Wire, Buffers, For
<1>3. Stages'
  BY <1>0 DEF IInv, Stages, Printed
<1>4. \A d \in Clients : Explained(d)'
  BY <1>0, StaysExplained DEF IInv
<1>. QED
  BY <1>0, <1>2, <1>3, <1>4 DEF IInv

(* A packet that the client does not refuse is the whole answer to a query *)
(* from its port.                                                          *)
LEMMA AcceptedIsReply ==
  ASSUME IInv, NEW c \in Clients, cpc[c] = "got", ~ Refused(Head(buffer[c]))
  PROVE  \E q \in Served : /\ q.from = port[c] /\ Checked(q)
                           /\ Head(buffer[c]) = Reply(q)
PROOF
<1>1. buffer[c] \in Seq(For(c)) /\ buffer[c] # << >>
  BY DEF IInv, Buffers, Stages
<1>. DEFINE p == Head(buffer[c])
<1>2. p \in Answers /\ p.to = port[c]
  BY <1>1 DEF For
<1>. HIDE DEF p
<1>3. p.status = 1
  BY DEF Refused, p
<1>4. ASSUME NEW q
      PROVE  /\ Daemon!Refusal(q, LBCD_STATUS_VERSION).status = 3
             /\ Daemon!Refusal(q, LBCD_STATUS_ERROR).status = 2
  BY DEF Daemon!Refusal, Daemon!Header, LBCD_STATUS_VERSION, LBCD_STATUS_ERROR
<1>5. PICK q \in Served : p = Reply(q)
  BY <1>2, <1>3, <1>4 DEF Answers, Replies
<1>6. Checked(q) /\ Reply(q).to = q.from
  BY DEF IInv, Served, Reply
<1>. QED
  BY <1>2, <1>5, <1>6 DEF p

(* No answer is longer than what recv returns.                             *)
LEMMA WholeAnswer ==
  ASSUME NEW q, Checked(q)
  PROVE  Weights(Reply(q)) = IF q.version = 3 THEN <<DefaultService>> \o q.names
                             ELSE << >>
PROOF
<1>. DEFINE w == <<DefaultService>> \o q.names
<1>1. q.names \in Seq(Service) /\ Len(q.names) \in 0 .. 5 /\ q.version \in {2, 3}
  BY DEF Checked
<1>2. q.names \in Seq(Service \cup {DefaultService})
  BY <1>1
<1>3. w \in Seq(Service \cup {DefaultService}) /\ DOMAIN w = 1 .. 1 + Len(q.names)
  BY <1>2
<1>. HIDE DEF w
<1>4. Reply(q).version = q.version /\ Reply(q).status = 1
  BY DEF Reply, LBCD_STATUS_OK
<1>5. CASE q.version = 3
  <2>1. Reply(q).lb.weights = w
    BY <1>5 DEF Reply, Daemon!Asked, w
  <2>2. ASSUME NEW i \in DOMAIN w PROVE 36 + ServiceSize * i <= RecvSize
    <3>1. ASSUME NEW n \in 0 .. 5, i \in 1 .. 1 + n PROVE i \in 1 .. 6
      BY <3>1
    <3>2. i \in 1 .. 6
      BY <1>1, <1>3, <3>1, Zenon
    <3>. QED
      BY <3>2 DEF ServiceSize, RecvSize
  <2>3. Weights(Reply(q)) = [i \in DOMAIN w |-> w[i]]
    BY <1>4, <1>5, <2>1, <2>2 DEF Weights
  <2>4. w = [i \in DOMAIN w |-> w[i]]
    BY <1>3
  <2>. QED
    BY <1>5, <2>3, <2>4 DEF w
<1>6. CASE q.version = 2
  BY <1>4, <1>6 DEF Weights
<1>. QED
  BY <1>1, <1>5, <1>6

(* What is printed is explained by the query that the packet answers.      *)
LEMMA PrintKeeps ==
  ASSUME IInv, NEW c \in Clients, read_reply(c), UNCHANGED <<daemon, replies>>
  PROVE  IInv'
PROOF
<1>. DEFINE p == Head(buffer[c])
            r == [end |-> "printed", version |-> p.version,
                  lines |-> print_reply(c, Weights(p))]
<1>1. CASE Refused(p)
  BY <1>1, EndedKeeps DEF read_reply
<1>2. CASE ~ Refused(p)
  <2>1. /\ cpc[c] = "got" /\ Exit(c, r) /\ UNCHANGED <<queries, sent>>
        /\ UNCHANGED <<args, port, cfg>>
    BY <1>2 DEF read_reply, Exit, daemon
  <2>2. PICK q \in Served : q.from = port[c] /\ Checked(q) /\ p = Reply(q)
    BY <1>2, <2>1, AcceptedIsReply
  <2>. DEFINE w == IF q.version = 3 THEN <<DefaultService>> \o q.names ELSE << >>
  <2>. HIDE DEF p
  <2>3. Weights(p) = w /\ p.version = q.version
    <3>1. Weights(Reply(q)) = w
      BY <2>2, WholeAnswer
    <3>2. Reply(q).version = q.version
      BY DEF Reply
    <3>. QED
      BY <2>2, <3>1, <3>2
  <2>. HIDE DEF w
  <2>4. result'[c] = r
    BY <2>1 DEF Exit, IInv, Stages
  <2>5. /\ DOMAIN r.lines = DOMAIN w
        /\ \A i \in DOMAIN w :
             /\ r.lines[i].weight = w[i]
             /\ r.lines[i].name = IF i \in DOMAIN Labels(c) THEN Labels(c)[i] ELSE Undef
    BY <2>3 DEF print_reply
  <2>6. /\ Lines(c, "weight")' = [i \in DOMAIN w |-> w[i]]
        /\ Lines(c, "name")' = [i \in DOMAIN w |-> IF i \in DOMAIN Labels(c)
                                                   THEN Labels(c)[i] ELSE Undef]
    BY <2>4, <2>5 DEF Lines
  <2>7. w = [i \in DOMAIN w |-> w[i]]
    <3>1. q.names \in Seq(Service \cup {DefaultService})
      BY <2>2 DEF Checked
    <3>2. /\ <<DefaultService>> \o q.names \in Seq(Service \cup {DefaultService})
          /\ << >> \in Seq(Service \cup {DefaultService})
      BY <3>1
    <3>3. w \in Seq(Service \cup {DefaultService})
      BY <3>2 DEF w
    <3>. QED
      BY <3>3
  <2>8. \A x : Daemon!Verdict(x)' = Daemon!Verdict(x)
    BY <2>1 DEF Daemon!Verdict, Daemon!WellFormed, Daemon!Asked, Daemon!Permitted
  <2>9. /\ q \in sent' /\ q.from = port'[c] /\ q.version = result'[c].version
        /\ Daemon!Verdict(q)' = "serve" /\ Lines(c, "weight")' = w
    <3>1. q \in sent /\ Daemon!Verdict(q) = "serve"
      BY DEF Served
    <3>2. r.version = q.version
      BY <2>3
    <3>. QED
      BY <2>1, <2>2, <2>4, <2>6, <2>7, <2>8, <3>1, <3>2
  <2>10. ASSUME \A x \in sent' : x.from = port'[c] => x = Query(c)'
         PROVE  Lines(c, "name")' = Lines(c, "weight")'
    <3>1. q = Query(c)
      BY <2>1, <2>9, <2>10 DEF Query
    <3>2. q.names = args[c].services
      BY <3>1 DEF Query, Packet
    <3>3. w = Labels(c) \/ w = << >>
      BY <3>2 DEF w, Labels
    <3>4. Lines(c, "name")' = [i \in DOMAIN w |-> w[i]]
      <4>1. CASE w = Labels(c)
        BY <2>6, <4>1
      <4>2. CASE w = << >>
        BY <2>6, <4>2
      <4>. QED
        BY <3>3, <4>1, <4>2
    <3>. QED
      BY <2>6, <3>4
  <2>11. Explained(c)'
    BY <2>9, <2>10 DEF Explained, w
  <2>. QED
    BY <2>1, <2>11, ExitKeeps
<1>. QED
  BY <1>1, <1>2

(* Every step of a client.                                                 *)
LEMMA ClientKeeps ==
  ASSUME IInv, ClientStep, UNCHANGED <<daemon, replies>> PROVE IInv'
PROOF
<1>1. PICK c \in Clients : Run(c) \/ SocketFails(c) \/ RecvFails(c)
  BY DEF ClientStep
<1>2. CASE SocketFails(c) \/ RecvFails(c) \/ Alarm(c)
  BY <1>2, EndedKeeps DEF SocketFails, RecvFails, Alarm
<1>. QED
  BY <1>1, <1>2, SocketKeeps, QueryKeeps, RecvKeeps, PrintKeeps DEF Run

-----------------------------------------------------------------------------
(* The network and the daemon.                                             *)

(* A step that leaves the clients and what was sent alone keeps what has   *)
(* been printed, and only its packets are to be looked at.                 *)
LEMMA DaemonKeeps ==
  ASSUME IInv, UNCHANGED <<cpc, args, port, result, sent, cfg>>,
         Wire', Buffers', Stages'
  PROVE  IInv'
PROOF
<1>1. \A d \in Clients : Explained(d)'
  BY StaysExplained DEF IInv
<1>. QED
  BY <1>1 DEF IInv

(* Without new queries the answers are the same.                           *)
LEMMA AnswersSame ==
  ASSUME UNCHANGED <<sent, cfg>>
  PROVE  /\ Served' = Served /\ Answers' = Answers
         /\ \A d : port' = port => For(d)' = For(d)
PROOF
<1>1. Served' = Served /\ Answers' = Answers
  BY DEF Served, Answers, Replies, Daemon!Verdict, Daemon!WellFormed,
         Daemon!Asked, Daemon!Permitted, Daemon!Refusal
<1>. QED
  BY <1>1 DEF For

(* A query that arrives was sent.                                          *)
LEMMA QueryArrives ==
  ASSUME IInv, NEW keep \in BOOLEAN, DeliverQuery(keep) PROVE IInv'
PROOF
<1>1. PICK q \in queries : /\ inbox' = [inbox EXCEPT ![1] = Append(@, q)]
                           /\ queries' = IF keep THEN queries ELSE queries \ {q}
  BY DEF DeliverQuery
<1>2. UNCHANGED <<cpc, args, port, buffer, result, sent, cfg, serving, out, replies>>
  BY DEF DeliverQuery
<1>3. /\ Served' = Served /\ Answers' = Answers
      /\ \A d : port' = port => For(d)' = For(d)
  BY <1>2, AnswersSame
<1>4. queries' \subseteq sent' /\ q \in sent
  <2>1. queries' \subseteq queries
    BY <1>1
  <2>. QED
    BY <1>2, <2>1 DEF IInv, Wire
<1>5. inbox' \in [1 .. 1 -> Seq(sent')]
  BY <1>1, <1>2, <1>4 DEF IInv, Wire
<1>6. Wire'
  BY <1>2, <1>3, <1>4, <1>5 DEF IInv, Wire
<1>7. Buffers' /\ Stages'
  BY <1>2, <1>3 DEF IInv, Buffers, Stages, Printed
<1>. QED
  BY <1>2, <1>6, <1>7, DaemonKeeps

(* A packet that reaches a client is an answer to its port.                *)
LEMMA ReplyArrives ==
  ASSUME IInv, NEW keep \in BOOLEAN, DeliverReply(keep) PROVE IInv'
PROOF
<1>1. PICK p \in replies :
        /\ \/ \E c \in Clients :
                /\ Live(c) /\ port[c] = p.to /\ Len(buffer[c]) < BufCap
                /\ buffer' = [buffer EXCEPT ![c] = Append(@, p)]
           \/ ~ keep /\ UNCHANGED buffer
        /\ replies' = IF keep THEN replies ELSE replies \ {p}
        /\ UNCHANGED <<cpc, args, port, result, queries, sent, daemon>>
  BY DEF DeliverReply
<1>2. UNCHANGED <<cpc, args, port, result, queries, sent, cfg, inbox, serving, out>>
  BY <1>1 DEF daemon
<1>3. /\ Served' = Served /\ Answers' = Answers
      /\ \A d : port' = port => For(d)' = For(d)
  BY <1>2, AnswersSame
<1>4. replies' \subseteq Answers' /\ p \in Answers
  <2>1. replies' \subseteq replies
    BY <1>1
  <2>. QED
    BY <1>3, <2>1 DEF IInv, Wire
<1>5. Wire'
  BY <1>2, <1>3, <1>4 DEF IInv, Wire
<1>6. CASE UNCHANGED buffer
  BY <1>2, <1>3, <1>5, <1>6, DaemonKeeps DEF IInv, Buffers, Stages, Printed
<1>7. ASSUME NEW c \in Clients, Live(c), port[c] = p.to,
             buffer' = [buffer EXCEPT ![c] = Append(@, p)]
      PROVE  IInv'
  <2>1. p \in For(c) /\ buffer[c] \in Seq(For(c)) /\ DOMAIN buffer = Clients
    BY <1>4, <1>7 DEF For, IInv, Buffers
  <2>2. buffer'[c] \in Seq(For(c)) /\ buffer'[c] # << >>
    <3>1. buffer'[c] = Append(buffer[c], p)
      BY <1>7, <2>1
    <3>. QED
      BY <2>1, <3>1
  <2>3. \A d \in Clients \ {c} : buffer'[d] = buffer[d]
    BY <1>7, <2>1
  <2>4. Buffers'
    BY <1>2, <1>3, <1>7, <2>1, <2>2, <2>3 DEF IInv, Buffers
  <2>5. Stages'
    BY <1>2, <1>7, <2>2, <2>3 DEF IInv, Stages, Printed, Live
  <2>. QED
    BY <1>2, <1>5, <2>4, <2>5, DaemonKeeps
<1>. QED
  BY <1>1, <1>6, <1>7

(* The daemon takes a query and refuses it or goes on to serve it.         *)
LEMMA TakeKeeps == ASSUME IInv, Take PROVE IInv'
PROOF
<1>1. PICK i \in Daemon!Socks :
        /\ inbox[i] # << >>
        /\ inbox' = [inbox EXCEPT ![i] = Tail(@)]
        /\ LET d == Head(inbox[i]) IN
           \/ UNCHANGED <<serving, out>>
           \/ out' = Daemon!Refusal(d, LBCD_STATUS_VERSION) /\ UNCHANGED serving
           \/ out' = Daemon!Refusal(d, LBCD_STATUS_ERROR) /\ UNCHANGED serving
           \/ Daemon!Verdict(d) = "serve" /\ serving' = Request(d) /\ UNCHANGED out
  BY Zenon DEF Take, Daemon!Take, Request, Daemon!LBCD_STATUS_VERSION,
               Daemon!LBCD_STATUS_ERROR, LBCD_STATUS_VERSION, LBCD_STATUS_ERROR
<1>2. UNCHANGED <<cpc, args, port, buffer, result, queries, sent, cfg, replies>>
  BY DEF Take, Daemon!Take, client
<1>3. /\ Served' = Served /\ Answers' = Answers
      /\ \A d : port' = port => For(d)' = For(d)
  BY <1>2, AnswersSame
<1>4. i \in 1 .. 1 /\ inbox \in [1 .. 1 -> Seq(sent)]
  BY DEF Daemon!Socks, IInv, Wire
<1>. DEFINE d == Head(inbox[i])
<1>5. d \in sent /\ inbox' \in [1 .. 1 -> Seq(sent)]
  BY <1>1, <1>4
<1>6. \/ UNCHANGED <<serving, out>>
      \/ out' \in Answers /\ UNCHANGED serving
      \/ serving' \in {Request(q) : q \in Served} /\ UNCHANGED out
  <2>. HIDE DEF d
  <2>1. \/ UNCHANGED <<serving, out>>
        \/ out' = Daemon!Refusal(d, LBCD_STATUS_VERSION) /\ UNCHANGED serving
        \/ out' = Daemon!Refusal(d, LBCD_STATUS_ERROR) /\ UNCHANGED serving
        \/ Daemon!Verdict(d) = "serve" /\ serving' = Request(d) /\ UNCHANGED out
    BY <1>1, Zenon DEF d
  <2>. QED
    BY <1>5, <2>1 DEF Answers, Served
<1>7. Wire'
  BY <1>2, <1>3, <1>5, <1>6 DEF IInv, Wire
<1>8. Buffers' /\ Stages'
  BY <1>2, <1>3 DEF IInv, Buffers, Stages, Printed
<1>. QED
  BY <1>2, <1>7, <1>8, DaemonKeeps

(* The answer is to the query that is being served.                        *)
LEMMA AnswerKeeps == ASSUME IInv, Answer PROVE IInv'
PROOF
<1>1. /\ serving # Daemon!NoRequest /\ serving' = Daemon!NoRequest
      /\ UNCHANGED <<cpc, args, port, buffer, result, queries, sent, cfg, inbox,
                     replies>>
      /\ out' = [to |-> serving.from, version |-> serving.protocol,
                 id |-> serving.id, op |-> serving.operation,
                 status |-> LBCD_STATUS_OK, size |-> 44 + 8 * Len(serving.services),
                 lb |-> [weights |-> <<DefaultService>> \o serving.services]]
  BY DEF Answer, Daemon!Answer, client
<1>2. /\ Served' = Served /\ Answers' = Answers
      /\ \A d : port' = port => For(d)' = For(d)
  BY <1>1, AnswersSame
<1>3. PICK q \in Served : serving = Request(q)
  BY <1>1 DEF IInv, Wire
<1>4. /\ serving.from = q.from /\ serving.protocol = q.version /\ serving.id = q.id
      /\ serving.operation = q.op /\ serving.services = Daemon!Asked(q)
  BY <1>3 DEF Request
<1>5. out' = Reply(q)
  BY <1>1, <1>4, Zenon DEF Reply
<1>6. out' \in Answers
  BY <1>5 DEF Answers, Replies
<1>7. Wire'
  BY <1>1, <1>2, <1>6 DEF IInv, Wire
<1>8. Buffers' /\ Stages'
  BY <1>1, <1>2 DEF IInv, Buffers, Stages, Printed
<1>. QED
  BY <1>1, <1>7, <1>8, DaemonKeeps

(* Transmission, losses and the end of the daemon.                         *)
LEMMA OthersKeep == ASSUME IInv, LoseQuery \/ Transmit \/ Stop PROVE IInv'
PROOF
<1>1. UNCHANGED <<cpc, args, port, buffer, result, sent, cfg>>
  BY DEF LoseQuery, Transmit, Stop, Daemon!Sent, Daemon!Stop, client, daemon
<1>2. /\ Served' = Served /\ Answers' = Answers
      /\ \A d : port' = port => For(d)' = For(d)
  BY <1>1, AnswersSame
<1>3. Wire'
  <2>1. CASE LoseQuery
    BY <1>1, <1>2, <2>1 DEF LoseQuery, daemon, IInv, Wire
  <2>2. CASE Transmit
    BY <1>1, <1>2, <2>2 DEF Transmit, Daemon!Sent, client, IInv, Wire
  <2>3. CASE Stop
    <3>1. inbox' \in [1 .. 1 -> Seq(sent')]
      BY <2>3 DEF Stop, Daemon!Stop, Daemon!Socks
    <3>. QED
      BY <1>1, <1>2, <2>3, <3>1 DEF Stop, Daemon!Stop, client, IInv, Wire
  <2>. QED
    BY <2>1, <2>2, <2>3
<1>4. Buffers' /\ Stages'
  BY <1>1, <1>2 DEF IInv, Buffers, Stages, Printed
<1>. QED
  BY <1>1, <1>3, <1>4, DaemonKeeps

-----------------------------------------------------------------------------
(* The theorems.                                                           *)

(* Every packet, and every printed answer, goes back to a query that was   *)
(* sent and that passed the client's checks.                               *)
THEOREM Invariant == Spec => []IInv
PROOF
<1>1. Init => IInv
  <2>. SUFFICES ASSUME Init PROVE IInv
    OBVIOUS
  <2>1. /\ queries = {} /\ sent = {} /\ replies = {} /\ inbox = [i \in 1 .. 1 |-> << >>]
        /\ serving = Daemon!NoRequest /\ out = Daemon!NoReply
        /\ buffer = [c \in Clients |-> << >>] /\ cpc = [c \in Clients |-> "start"]
        /\ port \in [Clients -> {"none"}]
        /\ result = [c \in Clients |-> Ended("none")] /\ args \in [Clients -> Args]
    BY CommandLinesAssumption DEF Init, ClientInit, Daemon!Init, Daemon!Socks
  <2>2. Wire /\ Buffers
    BY <2>1 DEF Wire, Buffers
  <2>3. \A c \in Clients : ~ Printed(c)
    BY <2>1 DEF Printed, Ended
  <2>4. Stages
    BY <2>1, <2>3 DEF Stages
  <2>. QED
    BY <2>1, <2>2, <2>3, <2>4 DEF IInv, Explained
<1>2. IInv /\ [Next]_vars => IInv'
  <2>. SUFFICES ASSUME IInv, [Next]_vars PROVE IInv'
    OBVIOUS
  <2>1. CASE UNCHANGED vars
    <3>1. UNCHANGED <<cpc, args, port, buffer, result, queries, sent, cfg, inbox,
                      serving, out, replies>>
      BY <2>1 DEF vars, client, daemon
    <3>2. /\ Served' = Served /\ Answers' = Answers
          /\ \A d : port' = port => For(d)' = For(d)
      BY <3>1, AnswersSame
    <3>. QED
      BY <3>1, <3>2, DaemonKeeps DEF IInv, Wire, Buffers, Stages, Printed
  <2>. QED
    BY <2>1, ClientKeeps, QueryArrives, ReplyArrives, TakeKeeps, AnswerKeeps,
       OthersKeep DEF Next
<1>. QED
  BY <1>1, <1>2, PTL DEF Spec

(* Whatever the command lines and the daemon's permissions, a query that a *)
(* client sends is served or refused, never dropped and never taken for    *)
(* one of a version the daemon does not know.                              *)
THEOREM AlwaysAnAnswer == Spec => []NeverSilent
PROOF
<1>1. IInv => NeverSilent
  BY CheckedIsAnswered DEF IInv, NeverSilent
<1>. QED
  BY <1>1, Invariant, PTL

(* What a client prints is the whole answer to a query from its port, and  *)
(* is labelled rightly if no other client has used the port.               *)
THEOREM PrintsRightAnswers == Spec => []PrintsAnswers
PROOF
<1>1. IInv => PrintsAnswers
  BY DEF IInv, Explained, PrintsAnswers
<1>. QED
  BY <1>1, Invariant, PTL
=============================================================================
