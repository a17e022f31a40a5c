---------------------------- MODULE ServerProofs ----------------------------
(***************************************************************************)
(* Proofs about Server, for every set of command lines, datagrams and host *)
(* states and every number of sockets, queue length and restarts.          *)
(***************************************************************************)
EXTENDS Server, TLAPS

(* The remainder by a positive divisor, for casts to fixed-width integers. *)
LEMMA ModRange ==
  ASSUME NEW n \in Int, NEW m \in Nat, m > 0
  PROVE  n % m \in 0 .. (m - 1)
OBVIOUS

(* Storing into the first element of a sequence.                           *)
LEMMA SetFirst ==
  ASSUME NEW S, NEW s \in Seq(S), NEW e \in S, 1 \in 1 .. Len(s)
  PROVE  /\ [s EXCEPT ![1] = e] \in Seq(S)
         /\ Len([s EXCEPT ![1] = e]) = Len(s)
OBVIOUS

(* A cast to uint16_t or uint32_t fits its type.                           *)
LEMMA Casts ==
  ASSUME NEW n \in Int
  PROVE  U16(n) \in 0 .. Max16 /\ U32(n) \in 0 .. Max32
BY ModRange, WordsAssumption DEF U16, U32

(* The round-robin globals have values of their type.                      *)
GlobOK(g) == g.weight \in 0 .. Max32 /\ g.incr \in 0 .. Max32

(* lbcd_weight_init sets them so.                                          *)
LEMMA GlobType ==
  ASSUME NEW c, NEW s \in Service
  PROVE  GlobOK(lbcd_weight_init(c, s))
PROOF
<1>1. CASE s # NoService /\ is_weights(s)
  <2>1. Numeral[s.base] \in Int /\ Numeral[s.arg] \in Int
    BY <1>1, NumeralAssumption DEF is_weights, IsDigits
  <2>. QED
    BY <1>1, <2>1, Casts DEF lbcd_weight_init, GlobOK
<1>2. CASE ~ (s # NoService /\ is_weights(s)) /\ c
  BY <1>2, WordsAssumption DEF lbcd_weight_init, GlobOK
<1>3. CASE ~ (s # NoService /\ is_weights(s)) /\ ~ c
  BY <1>3, WordsAssumption DEF lbcd_weight_init, GlobOK
<1>. QED
  BY <1>1, <1>2, <1>3

(* Whatever service is probed, the two words stored are uint32_t values.   *)
LEMMA SetWeightType ==
  ASSUME NEW s, NEW g, GlobOK(g), NEW l \in Reply, NEW n,
         NEW r \in lbcd_setweight(s, g, l, n)
  PROVE  r \in WeightPair
PROOF
<1>. DEFINE f == service_to_func(s, g.functab)
            a == PortArg(s)
<1>0. r \in WeightResults(f, a, g, l, n)
  BY DEF lbcd_setweight
<1>1. g.weight \in 0 .. Max32 /\ g.incr \in 0 .. Max32
  BY DEF GlobOK
<1>2. Result(Max32, 0) \in WeightPair
  BY WordsAssumption DEF Result, WeightPair
<1>3. lbcd_load_weight(l, n) \in WeightPair
  <2>. DEFINE fudge  == (l.tot_users - l.uniq_users) * 20
              weight == l.uniq_users * 100 + 3 * l.l1 + fudge
              loaded == CASE l.tmp < 90  -> weight
                          [] l.tmp > 100 -> -1
                          [] OTHER       -> weight * penalty(l.tmp)
  <2>0. /\ l.tot_users \in Int /\ l.uniq_users \in Int
        /\ l.l1 \in Int /\ l.tmp \in Int
    <3>1. /\ l.tot_users \in 0 .. Max16 /\ l.uniq_users \in 0 .. Max16
          /\ l.l1 \in 0 .. Max16 /\ l.tmp \in 0 .. 100
      BY DEF Reply
    <3>. QED
      BY <3>1
  <2>1. weight \in Int /\ l.tmp \in Int
    BY <2>0
  <2>2. penalty(l.tmp) \in Int
    BY DEF penalty
  <2>3. weight * penalty(l.tmp) \in Int
    BY <2>1, <2>2
  <2>. HIDE DEF weight
  <2>4. loaded \in Int
    BY <2>1, <2>3
  <2>. HIDE DEF loaded
  <2>5. U32(IF n THEN -1 ELSE loaded) \in 0 .. Max32
    BY <2>4, Casts
  <2>6. lbcd_load_weight(l, n) = Result(U32(IF n THEN -1 ELSE loaded), 200)
    BY DEF lbcd_load_weight, loaded, weight
  <2>. QED
    BY <2>5, <2>6, WordsAssumption DEF Result, WeightPair
<1>. HIDE DEF f, a
<1>4. CASE f = "load"
  BY <1>0, <1>3, <1>4 DEF WeightResults
<1>5. CASE f = "cmd"
  BY <1>0, <1>2, <1>5, OutputsAssumption DEF WeightResults, lbcd_unknown_weight
<1>6. CASE f = "rr"
  BY <1>0, <1>1, <1>6 DEF WeightResults, Result, WeightPair
<1>7. CASE f = "unknown"
  BY <1>0, <1>2, <1>7 DEF WeightResults, lbcd_unknown_weight
<1>8. CASE f = "ntp"
  <2>1. PICK p \in Peers \cup {Max32} : r = Result(p, g.incr)
    BY <1>0, <1>8 DEF WeightResults
  <2>2. p \in 0 .. Max32
    BY OutputsAssumption, WordsAssumption
  <2>. QED
    BY <2>1, <2>2, <1>1 DEF Result, WeightPair
<1>9. CASE f = "tcp" /\ TcpUnset(a)
  <2>1. PICK v \in Garbage : r = Result(v, g.incr)
    BY <1>0, <1>9 DEF WeightResults
  <2>. QED
    BY <2>1, <1>1, OutputsAssumption DEF Result, WeightPair
<1>10. CASE /\ f \notin {"load", "cmd", "rr", "unknown", "ntp"}
            /\ ~ (f = "tcp" /\ TcpUnset(a))
  <2>1. PICK ok \in BOOLEAN : r = Result(ProbeResult(ok), g.incr)
    BY <1>0, <1>10 DEF WeightResults
  <2>. QED
    BY <2>1, <1>1, WordsAssumption DEF Result, WeightPair, ProbeResult
<1>. QED
  BY <1>4, <1>5, <1>6, <1>7, <1>8, <1>9, <1>10

-----------------------------------------------------------------------------
(* Type correctness needs to know how far the reply has been filled in at  *)
(* each point of the code, that a request is held exactly while it is      *)
(* being served, and that only the one operation gets past the dispatch.   *)
Shape ==
  /\ request # NoRequest <=> pc \in Serving
  /\ pc = "sentinel" => Len(lb.weights) = 1
  /\ pc = "services" => Len(lb.weights) \in 1 .. (Len(request.services) + 1)
  /\ pc = "send" => Len(lb.weights) = Len(request.services) + 1
  /\ pc \in Serving \ {"dispatch"} => request.operation = LBCD_OP_LBINFO

Typed == TypeOK /\ Shape

(* An accepted datagram becomes a well-typed request.                      *)
LEMMA ToRequestType ==
  ASSUME NEW d \in Datagrams, ~ VersionUnsupported(d)
  PROVE  ToRequest(d) \in Request /\ ToRequest(d) # NoRequest
PROOF
<1>1. /\ d.from \in STRING /\ d.version \in {2, 3} /\ d.id \in Nat
      /\ d.op \in Nat /\ d.names \in Seq(Service)
  BY DatagramsAssumption DEF Datagram, VersionUnsupported
<1>2. (IF d.version = 3 THEN d.names ELSE << >>) \in Seq(Service)
  BY <1>1
<1>3. ToRequest(d) \in Request
  BY <1>1, <1>2 DEF ToRequest, Request
<1>4. "id" \in DOMAIN ToRequest(d) /\ "id" \notin DOMAIN NoRequest
  BY DEF ToRequest, NoRequest
<1>. QED
  BY <1>3, <1>4

(* Every refusal is a well-typed packet.                                   *)
LEMMA StatusType ==
  ASSUME NEW to \in STRING, NEW id \in Nat, NEW op \in Nat, NEW status \in 1 .. 5
  PROVE  send_status(to, id, op, status) \in StatusPacket
BY DEF send_status, Header, LBCD_VERSION, StatusPacket

(* A quotient of integers, clamped to 0 .. 100 as tmp_full does.           *)
LEMMA Clamped ==
  ASSUME NEW n \in Int, NEW d \in Nat \ {0}
  PROVE  (IF n \div d < 0 THEN 0 ELSE IF n \div d > 100 THEN 100 ELSE n \div d)
           \in 0 .. 100
PROOF
<1>1. n \div d \in Int
  OBVIOUS
<1>. QED
  BY <1>1

(* What the kernel reports is packed into fields of their type.            *)
LEMMA PackInfoType ==
  ASSUME NEW h \in Hosts, NEW dir, NEW full \in tmp_full(dir, h)
  PROVE  PackInfo(h, full) \in Reply
PROOF
<1>1. /\ h.load \in Int /\ h.tot_users \in Int /\ h.uniq_users \in Int
      /\ h.blocks \in Nat /\ h.bavail \in Nat
  BY HostsAssumption DEF Host
<1>2. Percents(h) \subseteq 0 .. 100
  <2>. DEFINE unit    == IF 20 * h.bavail > 19 * h.blocks THEN 20 ELSE 19
              total   == unit * h.blocks
              num     == (total - 20 * h.bavail) * 200 + total
              percent == num \div (2 * total)
  <2>1. Percents(h) = IF total = 0 THEN {0, 100}
                      ELSE {IF percent < 0 THEN 0 ELSE IF percent > 100 THEN 100
                            ELSE percent}
    BY DEF Percents
  <2>2. unit \in Nat
    OBVIOUS
  <2>3. total \in Nat
    <3>. HIDE DEF unit
    <3>. QED
      BY <2>2, <1>1
  <2>. HIDE DEF total
  <2>4. num \in Int
    BY <2>3, <1>1
  <2>. HIDE DEF num
  <2>5. CASE total = 0
    BY <2>1, <2>5
  <2>6. CASE total # 0
    <3>1. 2 * total \in Nat \ {0}
      BY <2>3, <2>6
    <3>2. (IF percent < 0 THEN 0 ELSE IF percent > 100 THEN 100 ELSE percent)
            \in 0 .. 100
      BY <3>1, <2>4, Clamped
    <3>. QED
      BY <3>2, <2>1, <2>6
  <2>. QED
    BY <2>5, <2>6
<1>3. full \in 0 .. 100
  BY <1>2 DEF tmp_full
<1>. QED
  BY <1>1, <1>3, Casts DEF PackInfo, Reply

(* The globals of the current command line.                                *)
LEMMA GlobNow ==
  ASSUME TypeOK
  PROVE  GlobOK(glob)
BY GlobType, ConfigsAssumption DEF TypeOK, Config, glob

(* The version 2 form of a reply is still a reply.                         *)
LEMMA ConvertType ==
  ASSUME NEW l \in Reply, Len(l.weights) >= 1
  PROVE  /\ lbcd_proto2_convert(l) \in Reply
         /\ lbcd_proto2_convert(l).weights = l.weights
PROOF
<1>1. l.weights \in Seq(WeightPair)
  BY DEF Reply
<1>2. l.weights[1] \in WeightPair
  BY <1>1
<1>3. l.weights[1].weight \in Nat
  BY <1>2, WordsAssumption DEF WeightPair
<1>. DEFINE v == IF l.weights[1].weight > Max16 THEN Max16
                 ELSE l.weights[1].weight
<1>4. v \in 0 .. Max16
  BY <1>3, WordsAssumption
<1>. HIDE DEF v
<1>5. lbcd_proto2_convert(l)
        = [l EXCEPT !.l1 = v, !.tot_users = 0, !.uniq_users = 0]
  BY DEF lbcd_proto2_convert, v
<1>6. 0 \in 0 .. Max16
  BY WordsAssumption
<1>7. [l EXCEPT !.l1 = v, !.tot_users = 0, !.uniq_users = 0] \in Reply
  BY <1>4, <1>6 DEF Reply
<1>8. [l EXCEPT !.l1 = v, !.tot_users = 0, !.uniq_users = 0].weights
        = l.weights
  BY DEF Reply
<1>. QED
  BY <1>5, <1>7, <1>8

(* Type correctness of the initial states and of every step.               *)
LEMMA TypedInit == Init => Typed
PROOF
<1>. SUFFICES ASSUME Init PROVE Typed
  OBVIOUS
<1>1. lb \in Reply
  <2>1. 0 \in 0 .. Max16 /\ 0 \in 0 .. 100 /\ << >> \in Seq(WeightPair)
    BY WordsAssumption
  <2>. QED
    BY <2>1 DEF Init, NoLb, Reply
<1>2. queue \in [Socks -> Seq(Datagrams)] /\ fd \in Socks
  BY BoundsAssumption DEF Init, EmptyQueues, Socks
<1>3. files \in [{"root", "start", "tmp"} -> 0 .. MaxPid] /\ pid \in 1 .. MaxPid
  BY BoundsAssumption DEF Init
<1>4. TypeOK
  BY <1>1, <1>2, <1>3 DEF Init, TypeOK, Alive
<1>. QED
  BY <1>4 DEF Init, Typed, Shape, Serving

(* The process may end anywhere without cleaning up.                       *)
LEMMA DiePreserves == ASSUME Typed, Die PROVE Typed'
PROOF
<1>1. lb' \in Reply
  <2>1. 0 \in 0 .. Max16 /\ 0 \in 0 .. 100 /\ << >> \in Seq(WeightPair)
    BY WordsAssumption
  <2>. QED
    BY <2>1 DEF Die, NoLb, Reply
<1>2. queue' \in [Socks -> Seq(Datagrams)]
  BY DEF Die, EmptyQueues
<1>. QED
  BY <1>1, <1>2 DEF Die, Typed, TypeOK, Shape, Serving, Stopped, host

(* Every action keeps the types and the shape of the work in progress.     *)
LEMMA TypedNext == ASSUME Typed, [Next]_vars PROVE Typed'
PROOF
<1>. USE DEF Typed
<1>1. CASE InstallHandlers
  BY <1>1 DEF InstallHandlers, TypeOK, Shape, Serving, Alive, host
<1>2. CASE bind_sockets
  BY <1>2 DEF bind_sockets, TypeOK, Shape, Serving, Alive, Bound, host
<1>3. CASE WritePidFile
  <2>1. PidDir \in {"root", "start", "tmp"} /\ pid \in 0 .. MaxPid
    BY DEF TypeOK, PidDir
  <2>2. files' \in [{"root", "start", "tmp"} -> 0 .. MaxPid]
    BY <1>3, <2>1 DEF WritePidFile, TypeOK
  <2>. QED
    BY <1>3, <2>2 DEF WritePidFile, TypeOK, Shape, Serving, Alive, Bound, host
<1>4. CASE Notify
  BY <1>4 DEF Notify, TypeOK, Shape, Serving, Alive, Bound, host
<1>5. CASE Continue
  BY <1>5 DEF Continue, TypeOK, Shape, Serving, Alive, Bound, host
<1>6. CASE CheckExit
  BY <1>6 DEF CheckExit, TypeOK, Shape, Serving, Alive, Bound, host
<1>7. CASE EnterSelect
  BY <1>7 DEF EnterSelect, TypeOK, Shape, Serving, Alive, Bound, host
<1>8. CASE network_wait_any
  BY <1>8 DEF network_wait_any, TypeOK, Shape, Serving, Alive, Bound, host
<1>9. CASE request_recv
  <2>. DEFINE d == Head(queue[fd])
  <2>1. queue[fd] \in Seq(Datagrams) /\ queue[fd] # << >>
    BY <1>9 DEF request_recv, TypeOK
  <2>2. d \in Datagrams /\ Tail(queue[fd]) \in Seq(Datagrams)
    BY <2>1
  <2>3. queue' \in [Socks -> Seq(Datagrams)]
    BY <1>9, <2>2 DEF request_recv, TypeOK
  <2>0. out' \in StatusPacket \cup ReplyPacket \cup {NoReply}
    <3>1. d.from \in STRING /\ d.id \in Nat /\ d.op \in Nat
      BY <2>2, DatagramsAssumption DEF Datagram
    <3>a. LBCD_STATUS_VERSION \in 1 .. 5 /\ LBCD_STATUS_ERROR \in 1 .. 5
      BY DEF LBCD_STATUS_VERSION, LBCD_STATUS_ERROR
    <3>2. /\ send_status(d.from, d.id, d.op, LBCD_STATUS_VERSION) \in StatusPacket
          /\ send_status(d.from, d.id, d.op, LBCD_STATUS_ERROR) \in StatusPacket
      <4>. HIDE DEF d
      <4>. QED
        BY <3>1, <3>a, StatusType
    <3>3. \/ out' = out
          \/ out' = send_status(d.from, d.id, d.op, LBCD_STATUS_VERSION)
          \/ out' = send_status(d.from, d.id, d.op, LBCD_STATUS_ERROR)
      BY <1>9 DEF request_recv
    <3>4. out \in StatusPacket \cup ReplyPacket \cup {NoReply}
      BY DEF TypeOK
    <3>. QED
      BY <3>2, <3>3, <3>4
  <2>4. CASE request' = request /\ pc' = "check" /\ drained' = drained
    BY <1>9, <2>0, <2>3, <2>4
       DEF request_recv, TypeOK, Shape, Serving, Alive, Bound, host
  <2>5. CASE /\ ~ VersionUnsupported(d) /\ request' = ToRequest(d)
             /\ pc' = "dispatch" /\ drained' = sentinel
    <3>1. request' \in Request /\ request' # NoRequest
      BY <2>2, <2>5, ToRequestType
    <3>. QED
      BY <1>9, <2>0, <2>3, <2>5, <3>1
         DEF request_recv, TypeOK, Shape, Serving, Alive, Bound, host
  <2>. QED
    BY <1>9, <2>4, <2>5 DEF request_recv
<1>10. CASE RecvFails
  BY <1>10 DEF RecvFails, TypeOK, Shape, Serving, Alive, Bound, host
<1>11. CASE UnknownOp
  <2>1. request \in Request
    BY <1>11 DEF UnknownOp, TypeOK, Shape, Serving
  <2>2. out' \in StatusPacket
    <3>1. /\ request.from \in STRING /\ request.id \in Nat
          /\ request.operation \in Nat
      BY <2>1 DEF Request
    <3>2. LBCD_STATUS_UNKNOWN_OP \in 1 .. 5
      BY DEF LBCD_STATUS_UNKNOWN_OP
    <3>. QED
      BY <1>11, <3>1, <3>2, StatusType DEF UnknownOp
  <2>. QED
    BY <1>11, <2>2 DEF UnknownOp, TypeOK, Shape, Serving, Alive, Bound, host
<1>12. CASE lbcd_pack_info
  <2>1. lb' \in Reply
    BY <1>12, PackInfoType DEF lbcd_pack_info
  <2>. QED
    BY <1>12, <2>1
       DEF lbcd_pack_info, TypeOK, Shape, Serving, Alive, Bound, host
<1>13. CASE DefaultWeight
  <2>1. PICK r \in lbcd_setweight(DefaultService, glob, lb, nologin) :
           lb' = [lb EXCEPT !.weights = <<r>>]
    BY <1>13 DEF DefaultWeight
  <2>2. r \in WeightPair
    BY GlobNow, SetWeightType DEF TypeOK
  <2>3. <<r>> \in Seq(WeightPair) /\ Len(<<r>>) = 1
    BY <2>2
  <2>4. lb' \in Reply /\ lb'.weights = <<r>>
    BY <2>1, <2>3 DEF TypeOK, Reply
  <2>. QED
    BY <1>13, <2>3, <2>4
       DEF DefaultWeight, TypeOK, Shape, Serving, Alive, Bound, host
<1>14. CASE CheckSentinel
  <2>1. lb \in Reply /\ lb.weights \in Seq(WeightPair) /\ Len(lb.weights) = 1
    BY <1>14 DEF CheckSentinel, TypeOK, Shape, Reply
  <2>2. Max32 \in 0 .. Max32
    BY WordsAssumption
  <2>. DEFINE top == [lb.weights[1] EXCEPT !.weight = Max32]
              raised == [lb.weights EXCEPT ![1] = top]
  <2>a. lb.weights[1] \in WeightPair
    BY <2>1
  <2>b. top \in WeightPair
    BY <2>a, <2>2 DEF WeightPair
  <2>. HIDE DEF top
  <2>d. 1 \in 1 .. Len(lb.weights)
    BY <2>1
  <2>e. /\ [lb.weights EXCEPT ![1] = top] \in Seq(WeightPair)
        /\ Len([lb.weights EXCEPT ![1] = top]) = Len(lb.weights)
    BY <2>1, <2>b, <2>d, SetFirst
  <2>3. raised \in Seq(WeightPair) /\ Len(raised) = 1
    BY <2>1, <2>e
  <2>c. lb' = IF sentinel THEN [lb EXCEPT !.weights = raised] ELSE lb
    BY <1>14 DEF CheckSentinel, top
  <2>. HIDE DEF raised
  <2>4. lb' \in Reply /\ Len(lb'.weights) = 1
    BY <2>c, <2>1, <2>3 DEF Reply
  <2>5. request \in Request
    BY <1>14 DEF CheckSentinel, TypeOK, Shape, Serving
  <2>6. Len(request.services) \in Nat
    BY <2>5 DEF Request
  <2>7. Len(lb'.weights) \in 1 .. (Len(request.services) + 1)
    BY <2>4, <2>6
  <2>. QED
    BY <1>14, <2>4, <2>7
       DEF CheckSentinel, TypeOK, Shape, Serving, Alive, Bound, host
<1>15. CASE ServiceWeight
  <2>1. /\ request \in Request /\ request.services \in Seq(Service)
        /\ Len(lb.weights) \in 1 .. Len(request.services)
        /\ lb.weights \in Seq(WeightPair)
    BY <1>15 DEF ServiceWeight, TypeOK, Shape, Serving, Request, Reply
  <2>2. NextService \in Service
    BY <2>1 DEF NextService
  <2>3. PICK r \in lbcd_setweight(NextService, glob, lb, nologin) :
           lb' = [lb EXCEPT !.weights = Append(@, r)]
    BY <1>15 DEF ServiceWeight
  <2>4. r \in WeightPair
    BY <2>2, GlobNow, SetWeightType DEF TypeOK
  <2>5. /\ Append(lb.weights, r) \in Seq(WeightPair)
        /\ Len(Append(lb.weights, r)) = Len(lb.weights) + 1
    BY <2>1, <2>4
  <2>6. lb' \in Reply /\ lb'.weights = Append(lb.weights, r)
    BY <2>3, <2>5 DEF TypeOK, Reply
  <2>7. Len(lb'.weights) \in 1 .. (Len(request.services) + 1)
    BY <2>1, <2>5, <2>6
  <2>. QED
    BY <1>15, <2>6, <2>7 DEF ServiceWeight, TypeOK, Shape, Serving, host
<1>16. CASE FinishReply
  <2>1. /\ lb \in Reply /\ request \in Request
        /\ Len(lb.weights) = Len(request.services) + 1
        /\ Len(lb.weights) >= 1
    <3>1. request \in Request /\ Len(request.services) \in Nat
      BY <1>16 DEF FinishReply, TypeOK, Shape, Serving, Request
    <3>. QED
      BY <1>16, <3>1 DEF FinishReply, TypeOK, Shape
  <2>2. lb' \in Reply /\ lb'.weights = lb.weights
    BY <1>16, <2>1, ConvertType DEF FinishReply
  <2>. QED
    BY <1>16, <2>1, <2>2
       DEF FinishReply, TypeOK, Shape, Serving, Alive, Bound, host
<1>17. CASE handle_lb_request
  <2>1. lb' \in Reply
    <3>1. 0 \in 0 .. Max16 /\ 0 \in 0 .. 100 /\ << >> \in Seq(WeightPair)
      BY WordsAssumption
    <3>. QED
      BY <1>17, <3>1 DEF handle_lb_request, NoLb, Reply
  <2>2. /\ lb \in Reply /\ request \in Request
        /\ Len(request.services) \in Nat
    BY <1>17 DEF handle_lb_request, TypeOK, Shape, Serving, Request
  <2>. DEFINE size == ReplySize - Unused * ServiceSize
  <2>3. size \in Nat
    BY <2>2 DEF ReplySize, Unused, ServiceSize, LBCD_MAX_SERVICES
  <2>4. LBCD_STATUS_OK \in 1 .. 5
    BY DEF LBCD_STATUS_OK
  <2>. HIDE DEF size
  <2>5. out' = [to |-> request.from, version |-> request.protocol,
                id |-> request.id, op |-> request.operation,
                status |-> LBCD_STATUS_OK, size |-> size, lb |-> lb]
    BY <1>17 DEF handle_lb_request, size
  <2>6. out' \in ReplyPacket
    BY <2>2, <2>3, <2>4, <2>5 DEF ReplyPacket, Request
  <2>. QED
    BY <1>17, <2>1, <2>6
       DEF handle_lb_request, TypeOK, Shape, Serving, Alive, Bound, host
<1>18. CASE Shutdown
  <2>1. PidDir \in {"root", "start", "tmp"} /\ 0 \in 0 .. MaxPid
    BY BoundsAssumption DEF TypeOK, PidDir
  <2>2. files' \in [{"root", "start", "tmp"} -> 0 .. MaxPid]
    BY <1>18, <2>1 DEF Shutdown, TypeOK
  <2>3. queue' \in [Socks -> Seq(Datagrams)]
    BY <1>18 DEF Shutdown, EmptyQueues
  <2>. QED
    BY <1>18, <2>2, <2>3
       DEF Shutdown, TypeOK, Shape, Serving, Stopped, host
<1>19. CASE SysDie \/ NullFunction \/ BrokenPipe \/ Kill
  BY <1>19, DiePreserves DEF SysDie, NullFunction, BrokenPipe, Kill
<1>20. CASE Signal
  <2>1. CASE pc = "main" /\ Die
    BY <2>1, DiePreserves
  <2>2. CASE ~ (pc = "main" /\ Die)
    BY <1>20, <2>2 DEF Signal, TypeOK, Shape, Serving, Alive, Bound, host
  <2>. QED
    BY <2>1, <2>2
<1>21. CASE Restart
  <2>1. pid' \in 1 .. MaxPid /\ fd' \in Socks
    BY <1>21, BoundsAssumption DEF Restart, TypeOK, Socks
  <2>. QED
    BY <1>21, <2>1 DEF Restart, TypeOK, Shape, Serving, Stopped, Alive, host
<1>22. CASE ToggleSentinel
  BY <1>22 DEF ToggleSentinel, TypeOK, Shape, daemon
<1>23. CASE ToggleNologin
  BY <1>23 DEF ToggleNologin, TypeOK, Shape, daemon
<1>24. ASSUME NEW i \in Socks, NEW d \in Datagrams, Arrive(i, d)
       PROVE  Typed'
  <2>1. queue' \in [Socks -> Seq(Datagrams)]
    BY <1>24 DEF Arrive, TypeOK
  <2>. QED
    BY <1>24, <2>1 DEF Arrive, TypeOK, Shape, daemon, host
<1>25. CASE UNCHANGED vars
  BY <1>25 DEF vars, daemon, host, TypeOK, Shape
<1>. QED
  BY <1>1, <1>2, <1>3, <1>4, <1>5, <1>6, <1>7, <1>8, <1>9, <1>10, <1>11,
     <1>12, <1>13, <1>14, <1>15, <1>16, <1>17, <1>18, <1>19, <1>20, <1>21,
     <1>22, <1>23, <1>24, <1>25
     DEF Next, Startup, Loop, Failure, Environment

(* Every variable of the daemon keeps its type in every reachable state,   *)
(* whatever the command line and whatever clients send: in particular no   *)
(* weight, load or user count in a reply is wider than its field.          *)
THEOREM TypeCorrect == Spec => []TypeOK
PROOF
<1>1. Init => Typed
  BY TypedInit
<1>2. Typed /\ [Next]_vars => Typed'
  BY TypedNext
<1>3. Typed => TypeOK
  BY DEF Typed
<1>. QED
  BY <1>1, <1>2, <1>3, PTL DEF Spec

-----------------------------------------------------------------------------
(* The socket select chose keeps its datagram until recvfrom takes it.     *)

(* No action takes the datagram away between select and recvfrom.          *)
LEMMA RecvNeverBlocksNext ==
  ASSUME Typed, RecvNeverBlocks, [Next]_vars
  PROVE  RecvNeverBlocks'
PROOF
<1>. USE DEF RecvNeverBlocks, Typed, TypeOK
<1>1. CASE Startup
  BY <1>1 DEF Startup, InstallHandlers, bind_sockets, WritePidFile, Notify
<1>2. CASE network_wait_any
  BY <1>2 DEF network_wait_any
<1>3. CASE Loop /\ ~ network_wait_any
  BY <1>3 DEF Loop, CheckExit, EnterSelect, request_recv, UnknownOp,
              lbcd_pack_info, DefaultWeight, CheckSentinel, ServiceWeight,
              FinishReply, handle_lb_request, Shutdown
<1>4. CASE Failure
  BY <1>4 DEF Failure, SysDie, NullFunction, BrokenPipe, Kill, RecvFails, Die
<1>5. CASE Continue \/ Signal \/ Restart \/ ToggleSentinel \/ ToggleNologin
  BY <1>5 DEF Continue, Signal, Restart, ToggleSentinel, ToggleNologin, Die,
              daemon
<1>6. ASSUME NEW i \in Socks, NEW d \in Datagrams, Arrive(i, d)
      PROVE  RecvNeverBlocks'
  <2>1. queue[i] \in Seq(Datagrams)
    OBVIOUS
  <2>a. Len(queue[i]) \in Nat /\ Len(Append(queue[i], d)) = Len(queue[i]) + 1
    BY <2>1
  <2>2. Append(queue[i], d) # << >>
    <3>. SUFFICES ASSUME Append(queue[i], d) = << >> PROVE FALSE
      OBVIOUS
    <3>1. Len(Append(queue[i], d)) = 0
      OBVIOUS
    <3>. QED
      BY <2>a, <3>1
  <2>. QED
    BY <1>6, <2>2 DEF Arrive, daemon
<1>7. CASE UNCHANGED vars
  BY <1>7 DEF vars, daemon
<1>. QED
  BY <1>1, <1>2, <1>3, <1>4, <1>5, <1>6, <1>7 DEF Next, Environment

(* The blocking recvfrom of request_recv is only reached with a datagram   *)
(* waiting, for any number of sockets and clients.                         *)
THEOREM RecvReady == Spec => []RecvNeverBlocks
PROOF
<1>1. Init => Typed /\ RecvNeverBlocks
  BY TypedInit DEF Init, RecvNeverBlocks
<1>2. Typed /\ RecvNeverBlocks /\ [Next]_vars => (Typed /\ RecvNeverBlocks)'
  BY TypedNext, RecvNeverBlocksNext
<1>. QED
  BY <1>1, <1>2, PTL DEF Spec

-----------------------------------------------------------------------------
(* Request validation.                                                     *)

(* A datagram that passes every test of request_recv carries as many names *)
(* as its header announces.                                                *)
LEMMA NamesAnnounced ==
  ASSUME NEW d \in Datagrams, ~ Malformed(d), d.version = 3
  PROVE  /\ d.nservices \in 0 .. LBCD_MAX_SERVICES
         /\ d.names \in Seq(Service)
         /\ Len(d.names) = d.nservices
PROOF
<1>. DEFINE room == (d.size - 8) \div 32
<1>1. /\ d.size \in Nat /\ d.nservices \in Nat /\ d.names \in Seq(Service)
      /\ d.size >= 8 => Len(d.names) = room
  BY DatagramsAssumption DEF Datagram, DatagramOK, HeaderSize, NameSize
<1>2. d.size = 8 + d.nservices * 32 /\ d.nservices <= LBCD_MAX_SERVICES
  BY <1>1 DEF Malformed, Expected, HeaderSize, NameSize, LBCD_MAX_SERVICES
<1>3. room = d.nservices /\ d.size >= 8
  BY <1>1, <1>2
<1>. HIDE DEF room
<1>4. Len(d.names) = d.nservices
  BY <1>1, <1>3
<1>5. \A n \in Nat : n <= LBCD_MAX_SERVICES => n \in 0 .. LBCD_MAX_SERVICES
  BY DEF LBCD_MAX_SERVICES
<1>. QED
  BY <1>1, <1>2, <1>4, <1>5, Zenon

(* An accepted request is sane.                                            *)
LEMMA AcceptedSane ==
  ASSUME NEW d \in Datagrams, ~ Malformed(d), ~ Disallowed(d)
  PROVE  LET r == ToRequest(d) IN
         /\ Len(r.services) <= LBCD_MAX_SERVICES
         /\ \A i \in 1 .. Len(r.services) :
              LET s == r.services[i] IN
              /\ s # DefaultService => s \in cfg.services
              /\ service_to_func(s, glob.functab) = "cmd" => s = DefaultService
PROOF
<1>1. CASE d.version = 3
  <2>1. /\ d.nservices \in 0 .. LBCD_MAX_SERVICES
        /\ Len(d.names) = d.nservices
        /\ ToRequest(d).services = d.names
    BY <1>1, NamesAnnounced DEF ToRequest
  <2>2. ASSUME NEW i \in 1 .. d.nservices
        PROVE  /\ d.names[i] # DefaultService => d.names[i] \in cfg.services
               /\ service_to_func(d.names[i], glob.functab) = "cmd"
                    => d.names[i] = DefaultService
    <3>1. service_allowed(d.names[i])
      BY <1>1, <2>2 DEF Disallowed
    <3>. QED
      BY <3>1 DEF service_allowed, service_to_func
  <2>. QED
    BY <2>1, <2>2 DEF LBCD_MAX_SERVICES
<1>2. CASE d.version # 3
  BY <1>2 DEF ToRequest, LBCD_MAX_SERVICES
<1>. QED
  BY <1>1, <1>2

(* A request being served is never changed, only accepted and dropped.     *)
LEMMA RequestSaneNext ==
  ASSUME Typed, RequestSane, [Next]_vars
  PROVE  RequestSane'
PROOF
<1>. USE DEF Serving, host
<1>0. CASE /\ cfg' = cfg
           /\ \/ pc' \notin Serving
              \/ request' = request /\ pc \in Serving
  BY <1>0 DEF RequestSane, glob
<1>1. CASE Startup
  BY <1>0, <1>1 DEF Startup, InstallHandlers, bind_sockets, WritePidFile, Notify
<1>2. CASE request_recv
  <2>. DEFINE d == Head(queue[fd])
  <2>1. d \in Datagrams
    BY <1>2 DEF request_recv, Typed, TypeOK
  <2>2. CASE pc' = "dispatch" /\ ~ Malformed(d) /\ ~ Disallowed(d)
              /\ request' = ToRequest(d)
    <3>1. cfg' = cfg
      BY <1>2 DEF request_recv
    <3>. QED
      BY <2>1, <2>2, <3>1, AcceptedSane DEF RequestSane, glob
  <2>3. CASE pc' = "check"
    BY <1>0, <1>2, <2>3 DEF request_recv
  <2>. QED
    BY <1>2, <2>2, <2>3 DEF request_recv
<1>3. CASE Loop /\ ~ request_recv
  BY <1>0, <1>3 DEF Loop, CheckExit, EnterSelect, network_wait_any, UnknownOp,
              lbcd_pack_info, DefaultWeight, CheckSentinel, ServiceWeight,
              FinishReply, handle_lb_request, Shutdown
<1>4. CASE Failure
  BY <1>0, <1>4 DEF Failure, SysDie, NullFunction, BrokenPipe, Kill, RecvFails,
              Die
<1>5. CASE Continue \/ Signal \/ Restart \/ ToggleSentinel \/ ToggleNologin
  BY <1>0, <1>5 DEF Continue, Signal, Restart, ToggleSentinel, ToggleNologin,
              Die, daemon
<1>6. ASSUME NEW i \in Socks, NEW d \in Datagrams, Arrive(i, d)
      PROVE  RequestSane'
  BY <1>0, <1>6 DEF Arrive, daemon
<1>7. CASE UNCHANGED vars
  BY <1>0, <1>7 DEF vars, daemon
<1>. QED
  BY <1>1, <1>2, <1>3, <1>4, <1>5, <1>6, <1>7 DEF Next, Environment

(* Whatever clients send, the daemon never works on a request for more     *)
(* services than the reply has room for, for a service the command line    *)
(* does not list, or for the external command by name.                     *)
THEOREM RequestsSanitized == Spec => []RequestSane
PROOF
<1>1. Init => Typed /\ RequestSane
  BY TypedInit DEF Init, RequestSane, Serving
<1>2. Typed /\ RequestSane /\ [Next]_vars => (Typed /\ RequestSane)'
  BY TypedNext, RequestSaneNext
<1>. QED
  BY <1>1, <1>2, PTL DEF Spec

-----------------------------------------------------------------------------
(* The PID file.  No file names a later instance, an instance that has not *)
(* yet written its file is named by none, and only the directory the -P    *)
(* option selects ever holds one.                                          *)
PidInv ==
  /\ \A d \in DOMAIN files : files[d] <= pid
  /\ pc \in {"main", "bind", "pidfile"} => \A d \in DOMAIN files : files[d] # pid
  /\ \A d \in DOMAIN files :
       files[d] # 0 => cfg.pid_file = IF d = "root" THEN "absolute" ELSE "relative"
  /\ pc = "exited" /\ cfg.pid_file # "relative"
       => \A d \in DOMAIN files : files[d] # pid

(* The PID file and the instance it names, step by step.                   *)
LEMMA PidInvNext == ASSUME Typed, PidInv, [Next]_vars PROVE PidInv'
PROOF
<1>. USE DEF host
<1>t. /\ files \in [{"root", "start", "tmp"} -> 0 .. MaxPid]
      /\ pid \in 1 .. MaxPid /\ cwd \in {"start", "tmp"}
      /\ MaxPid \in Nat
  BY BoundsAssumption DEF Typed, TypeOK
<1>p. cfg.pid_file \in {"none", "absolute", "relative"}
  BY ConfigsAssumption DEF Typed, TypeOK, Config
<1>0. CASE /\ UNCHANGED <<cfg, files, pid>>
           /\ pc' \in {"main", "bind", "pidfile"}
                => pc \in {"main", "bind", "pidfile"}
           /\ pc' = "exited" => pc = "exited"
  BY <1>0 DEF PidInv
<1>1. CASE InstallHandlers \/ bind_sockets \/ Notify
  BY <1>0, <1>1 DEF InstallHandlers, bind_sockets, Notify
<1>2. CASE WritePidFile
  <2>1. CASE UNCHANGED files
    BY <1>0, <1>2, <2>1 DEF WritePidFile
  <2>2. CASE cfg.pid_file # "none" /\ files' = [files EXCEPT ![PidDir] = pid]
    <3>1. /\ PidDir \in {"root", "start", "tmp"}
          /\ cfg.pid_file = IF PidDir = "root" THEN "absolute" ELSE "relative"
      BY <1>t, <1>p, <2>2 DEF PidDir
    <3>. QED
      BY <1>2, <1>t, <2>2, <3>1 DEF WritePidFile, PidInv
  <2>. QED
    BY <1>2, <2>1, <2>2 DEF WritePidFile
<1>3. CASE Loop /\ ~ Shutdown
  BY <1>0, <1>3 DEF Loop, CheckExit, EnterSelect, network_wait_any,
              request_recv, UnknownOp, lbcd_pack_info, DefaultWeight,
              CheckSentinel, ServiceWeight, FinishReply, handle_lb_request
<1>4. CASE Shutdown
  <2>1. CASE cfg.pid_file = "none"
    BY <1>4, <1>t, <2>1 DEF Shutdown, PidInv
  <2>2. CASE cfg.pid_file # "none"
    <3>1. /\ PidDir \in {"root", "start", "tmp"}
          /\ cfg.pid_file = "absolute" => PidDir = "root"
      BY <1>t, <1>p, <2>2 DEF PidDir
    <3>2. /\ files' = [files EXCEPT ![PidDir] = 0]
          /\ pc' = "exited" /\ UNCHANGED <<cfg, pid>>
      BY <1>4, <2>2 DEF Shutdown
    <3>3. \A d \in DOMAIN files : files'[d] = IF d = PidDir THEN 0 ELSE files[d]
      BY <1>t, <3>1, <3>2
    <3>4. DOMAIN files' = DOMAIN files /\ pid # 0 /\ 0 <= pid
      BY <1>t, <3>2
    <3>5. ASSUME cfg.pid_file # "relative", NEW d \in DOMAIN files
          PROVE  files'[d] # pid
      <4>1. CASE d = "root"
        BY <1>p, <2>2, <3>1, <3>3, <3>4, <3>5, <4>1
      <4>2. CASE d # "root"
        BY <3>3, <3>4, <3>5, <4>2 DEF PidInv
      <4>. QED
        BY <4>1, <4>2
    <3>. QED
      BY <3>2, <3>3, <3>4, <3>5 DEF PidInv
  <2>. QED
    BY <2>1, <2>2
<1>5. CASE Failure
  BY <1>0, <1>5 DEF Failure, SysDie, NullFunction, BrokenPipe, Kill, RecvFails,
              Die
<1>6. CASE Continue \/ Signal \/ ToggleSentinel \/ ToggleNologin
  BY <1>0, <1>6 DEF Continue, Signal, ToggleSentinel, ToggleNologin, Die,
              daemon
<1>7. CASE Restart
  BY <1>7, <1>t DEF Restart, PidInv
<1>8. ASSUME NEW i \in Socks, NEW d \in Datagrams, Arrive(i, d)
      PROVE  PidInv'
  BY <1>0, <1>8 DEF Arrive, daemon
<1>9. CASE UNCHANGED vars
  BY <1>0, <1>9 DEF vars, daemon
<1>. QED
  BY <1>1, <1>2, <1>3, <1>4, <1>5, <1>6, <1>7, <1>8, <1>9
     DEF Next, Startup, Environment

(* The two invariants together.                                            *)
LEMMA PidInvariant == Spec => [](Typed /\ PidInv)
PROOF
<1>1. Init => Typed /\ PidInv
  <2>. SUFFICES ASSUME Init PROVE PidInv
    BY TypedInit
  <2>. QED
    BY DEF Init, PidInv
<1>2. Typed /\ PidInv /\ [Next]_vars => (Typed /\ PidInv)'
  BY TypedNext, PidInvNext
<1>. QED
  BY <1>1, <1>2, PTL DEF Spec

(* Through any number of signals, crashes and restarts, a PID file at an   *)
(* absolute path names a running instance only once that instance has set  *)
(* its handlers and bound its sockets, and no instance that exited.        *)
THEOREM PidFileReady == Spec => []PidFileMeansReady
PROOF
<1>1. Typed /\ PidInv => PidFileMeansReady
  <2>. SUFFICES ASSUME Typed, PidInv, files["root"] = pid
                PROVE  pc \in Bound \cup {"dead"}
    BY DEF PidFileMeansReady
  <2>1. pid # 0 /\ "root" \in DOMAIN files /\ pc \in Alive \cup Stopped
    BY BoundsAssumption DEF Typed, TypeOK
  <2>2. cfg.pid_file = "absolute"
    BY <2>1 DEF PidInv
  <2>3. pc # "exited" /\ pc \notin {"main", "bind"}
    BY <2>1, <2>2 DEF PidInv
  <2>. QED
    BY <2>1, <2>3 DEF Alive, Stopped
<1>. QED
  BY <1>1, PidInvariant, PTL

(* An instance that exits on a signal leaves no request half served, no    *)
(* datagram and, unless its -P path is relative, no PID file behind.       *)
THEOREM ExitsClean == Spec => []CleanExit
PROOF
<1>. DEFINE Closed == pc \in Stopped => queue = EmptyQueues
<1>1. Init => Closed
  BY DEF Init, Stopped
<1>2. Typed /\ Closed /\ [Next]_vars => Closed'
  <2>. SUFFICES ASSUME Typed, Closed, [Next]_vars PROVE Closed'
    OBVIOUS
  <2>. USE DEF Stopped, EmptyQueues
  <2>0. CASE pc' \notin Stopped \/ queue' = EmptyQueues
             \/ UNCHANGED <<pc, queue>>
    BY <2>0
  <2>1. CASE Startup
    BY <2>0, <2>1
       DEF Startup, InstallHandlers, bind_sockets, WritePidFile, Notify
  <2>2. CASE Loop
    BY <2>0, <2>2 DEF Loop, CheckExit, EnterSelect, network_wait_any,
                request_recv, UnknownOp, lbcd_pack_info, DefaultWeight,
                CheckSentinel, ServiceWeight, FinishReply, handle_lb_request,
                Shutdown
  <2>3. CASE Failure
    BY <2>0, <2>3 DEF Failure, SysDie, NullFunction, BrokenPipe, Kill,
                RecvFails, Die
  <2>4. CASE Continue \/ Restart \/ ToggleSentinel \/ ToggleNologin
    BY <2>0, <2>4 DEF Continue, Restart, ToggleSentinel, ToggleNologin, daemon
  <2>5. CASE Signal
    BY <2>0, <2>5 DEF Signal, Die, Alive, Bound
  <2>6. ASSUME NEW i \in Socks, NEW d \in Datagrams, Arrive(i, d)
        PROVE  Closed'
    BY <2>6 DEF Arrive, daemon, Bound
  <2>7. CASE UNCHANGED vars
    BY <2>0, <2>7 DEF vars, daemon
  <2>. QED
    BY <2>1, <2>2, <2>3, <2>4, <2>5, <2>6, <2>7 DEF Next, Environment
<1>3. Typed /\ PidInv /\ Closed => CleanExit
  <2>. SUFFICES ASSUME Typed, PidInv, Closed, pc = "exited"
                PROVE  /\ cfg.pid_file # "relative" =>
                             \A d \in DOMAIN files : files[d] # pid
                       /\ request = NoRequest /\ queue = EmptyQueues
    BY DEF CleanExit
  <2>2. cfg.pid_file # "relative" => \A d \in DOMAIN files : files[d] # pid
    BY DEF PidInv
  <2>3. request = NoRequest
    BY DEF Typed, Shape, Serving
  <2>. QED
    BY <2>2, <2>3 DEF Stopped
<1>. HIDE DEF Closed
<1>. QED
  BY <1>1, <1>2, <1>3, PidInvariant, PTL DEF Spec

-----------------------------------------------------------------------------
(* The sentinel file.  history is right, and the override survives until   *)
(* the reply is sent.                                                      *)
DrainInv ==
  /\ drained => sentinel
  /\ pc = "services" /\ drained => lb.weights[1].weight = Max32
  /\ Drained

(* The sentinel's effect on the reply, step by step.                       *)
LEMMA DrainInvNext == ASSUME Typed, DrainInv, [Next]_vars PROVE DrainInv'
PROOF
<1>. USE DEF host
<1>t. sentinel \in BOOLEAN /\ drained \in BOOLEAN
  BY DEF Typed, TypeOK
<1>0. CASE /\ drained' => drained /\ sentinel'
           /\ pc' # "services" /\ pc' # "send"
  BY <1>0 DEF DrainInv, Drained
<1>k. CASE /\ drained' => drained /\ sentinel'
           /\ UNCHANGED <<pc, lb, request, cfg>>
  BY <1>k DEF DrainInv, Drained
<1>1. CASE Startup
  BY <1>0, <1>1 DEF Startup, InstallHandlers, bind_sockets, WritePidFile,
              Notify, DrainInv
<1>2. CASE request_recv
  BY <1>2, <1>t DEF request_recv, DrainInv, Drained
<1>3. CASE \/ CheckExit \/ EnterSelect \/ network_wait_any \/ UnknownOp
           \/ lbcd_pack_info \/ DefaultWeight \/ handle_lb_request \/ Shutdown
  BY <1>0, <1>3 DEF CheckExit, EnterSelect, network_wait_any, UnknownOp,
              lbcd_pack_info, DefaultWeight, handle_lb_request, Shutdown,
              DrainInv
<1>4. CASE CheckSentinel
  <2>1. lb \in Reply /\ lb.weights \in Seq(WeightPair) /\ Len(lb.weights) = 1
    BY <1>4 DEF CheckSentinel, Typed, TypeOK, Shape, Reply
  <2>2. drained' => lb'.weights[1].weight = Max32
    BY <1>4, <2>1 DEF CheckSentinel, DrainInv, Reply, WeightPair
  <2>. QED
    BY <1>4, <2>2 DEF CheckSentinel, DrainInv, Drained
<1>5. CASE ServiceWeight
  <2>1. /\ lb.weights \in Seq(WeightPair) /\ 1 <= Len(lb.weights)
        /\ lb \in Reply /\ pc = "services"
    BY <1>5 DEF ServiceWeight, Typed, TypeOK, Shape, Reply
  <2>2. PICK r : lb' = [lb EXCEPT !.weights = Append(@, r)]
    BY <1>5 DEF ServiceWeight
  <2>3. lb'.weights[1] = lb.weights[1]
    BY <2>1, <2>2 DEF Reply
  <2>. QED
    BY <1>5, <2>1, <2>3 DEF ServiceWeight, DrainInv, Drained
<1>6. CASE FinishReply
  <2>1. /\ lb \in Reply /\ pc = "services"
        /\ request \in Request /\ Len(lb.weights) >= 1
    <3>1. request \in Request /\ Len(request.services) \in Nat
      BY <1>6 DEF FinishReply, Typed, TypeOK, Shape, Serving, Request
    <3>. QED
      BY <1>6, <3>1 DEF FinishReply, Typed, TypeOK, Shape
  <2>2. lb'.weights = lb.weights
    BY <1>6, <2>1, ConvertType DEF FinishReply
  <2>3. ASSUME drained, request.protocol = 2, ~ cfg.simple
        PROVE  lb'.l1 = Max16
    <3>1. lb' = lbcd_proto2_convert(lb)
      BY <1>6, <2>3 DEF FinishReply
    <3>2. lb.weights[1].weight = Max32
      BY <2>1, <2>3 DEF DrainInv
    <3>. QED
      BY <2>1, <3>1, <3>2, WordsAssumption DEF lbcd_proto2_convert, Reply
  <2>. QED
    BY <1>6, <2>1, <2>2, <2>3 DEF FinishReply, DrainInv, Drained
<1>7. CASE Failure
  BY <1>0, <1>7 DEF Failure, SysDie, NullFunction, BrokenPipe, Kill, RecvFails,
              Die, DrainInv
<1>8. CASE Continue \/ Restart
  BY <1>0, <1>8 DEF Continue, Restart, DrainInv
<1>9. CASE Signal
  BY <1>0, <1>k, <1>9 DEF Signal, Die, DrainInv
<1>10. CASE ToggleSentinel \/ ToggleNologin
  BY <1>k, <1>10, <1>t DEF ToggleSentinel, ToggleNologin, daemon, DrainInv
<1>11. ASSUME NEW i \in Socks, NEW d \in Datagrams, Arrive(i, d)
       PROVE  DrainInv'
  BY <1>k, <1>11 DEF Arrive, daemon, DrainInv
<1>12. CASE UNCHANGED vars
  BY <1>k, <1>12 DEF vars, daemon, DrainInv
<1>. QED
  BY <1>1, <1>2, <1>3, <1>4, <1>5, <1>6, <1>7, <1>8, <1>9, <1>10, <1>11, <1>12
     DEF Next, Loop, Environment

(* A host whose sentinel file was there when the request was accepted, and *)
(* stayed, reports the maximum weight for the default service, and the     *)
(* maximum load to a version 2 client, whichever service is configured.    *)
THEOREM SentinelDrains == Spec => []Drained
PROOF
<1>1. Init => Typed /\ DrainInv
  BY TypedInit DEF Init, DrainInv, Drained
<1>2. Typed /\ DrainInv /\ [Next]_vars => (Typed /\ DrainInv)'
  BY TypedNext, DrainInvNext
<1>3. DrainInv => Drained
  BY DEF DrainInv
<1>. QED
  BY <1>1, <1>2, <1>3, PTL DEF Spec

-----------------------------------------------------------------------------
(* The weights of tcp services.  A probe that is made stores one of its    *)
(* two results, whichever service is the default.                          *)
LEMMA TcpStores ==
  ASSUME NEW s \in Service, s.base = "tcp", ~ TcpUnset(s.arg),
         NEW g, NEW l, NEW n, NEW r \in lbcd_setweight(s, g, l, n)
  PROVE  r.weight \in {0, Max32}
PROOF
<1>1. s # DefaultService
  <2>1. DefaultService.base = "default"
    BY DEF DefaultService, Name
  <2>2. "tcp" # "default"
    OBVIOUS
  <2>. QED
    BY <2>1, <2>2, Zenon
<1>2. service_to_func(s, g.functab) = "tcp" /\ PortArg(s) = s.arg
  BY <1>1 DEF service_to_func, service_table, PortArg
<1>. DEFINE f == service_to_func(s, g.functab)
            a == PortArg(s)
<1>3. r \in WeightResults(f, a, g, l, n)
  BY DEF lbcd_setweight
<1>4. f = "tcp" /\ ~ TcpUnset(a)
  BY <1>2
<1>. HIDE DEF f, a
<1>5. PICK ok \in BOOLEAN : r = Result(ProbeResult(ok), g.incr)
  BY <1>3, <1>4 DEF WeightResults
<1>. QED
  BY <1>5 DEF Result, ProbeResult

(* The answers stored so far are those of the first services, each one     *)
(* place behind the default's; and the default function, which the first   *)
(* of them went through, is still not NULL.                                *)
TcpInv ==
  /\ pc \in {"sentinel", "services", "send"} => glob.functab # NoFunc
  /\ pc \in {"services", "send"} =>
       \A i \in 1 .. Len(request.services) :
         /\ i < Len(lb.weights)
         /\ request.services[i].base = "tcp"
         /\ ~ TcpUnset(request.services[i].arg)
         => lb.weights[i + 1].weight \in {0, Max32}

(* Each step of lbcd_set_load stores the answer at its service's place.    *)
LEMMA TcpInvNext == ASSUME Typed, TcpInv, [Next]_vars PROVE TcpInv'
PROOF
<1>. USE DEF host
<1>0. CASE pc' \notin {"sentinel", "services", "send"}
  BY <1>0 DEF TcpInv
<1>k. CASE UNCHANGED <<pc, lb, request, cfg>>
  BY <1>k DEF TcpInv, glob
<1>1. CASE Startup
  BY <1>0, <1>1 DEF Startup, InstallHandlers, bind_sockets, WritePidFile,
              Notify
<1>2. CASE \/ CheckExit \/ EnterSelect \/ network_wait_any \/ request_recv
           \/ UnknownOp \/ lbcd_pack_info \/ handle_lb_request \/ Shutdown
  BY <1>0, <1>2 DEF CheckExit, EnterSelect, network_wait_any, request_recv,
              UnknownOp, lbcd_pack_info, handle_lb_request, Shutdown
<1>3. CASE DefaultWeight
  <2>1. pc' = "sentinel" /\ cfg' = cfg /\ glob.functab # NoFunc
    BY <1>3 DEF DefaultWeight
  <2>. QED
    BY <2>1 DEF TcpInv, glob
<1>4. CASE CheckSentinel
  <2>1. /\ pc = "sentinel" /\ pc' = "services"
        /\ cfg' = cfg /\ request' = request
    BY <1>4 DEF CheckSentinel
  <2>2. Typed'
    BY TypedNext
  <2>3. lb \in Reply /\ lb.weights \in Seq(WeightPair) /\ Len(lb.weights) = 1
    BY <2>1 DEF Typed, TypeOK, Shape, Reply
  <2>4. Len(lb'.weights) = 1
    BY <1>4, <2>3 DEF CheckSentinel, Reply
  <2>5. glob'.functab # NoFunc
    BY <2>1 DEF TcpInv, glob
  <2>6. \A i \in 1 .. Len(request'.services) : ~ (i < Len(lb'.weights))
    BY <2>4
  <2>. QED
    BY <2>1, <2>5, <2>6 DEF TcpInv
<1>5. CASE ServiceWeight
  <2>1. /\ pc = "services" /\ pc' = pc /\ cfg' = cfg /\ request' = request
        /\ request.services \in Seq(Service)
        /\ Len(lb.weights) \in 1 .. Len(request.services)
        /\ lb \in Reply /\ lb.weights \in Seq(WeightPair)
    BY <1>5 DEF ServiceWeight, Typed, TypeOK, Shape, Serving, Request, Reply
  <2>2. PICK r \in lbcd_setweight(NextService, glob, lb, nologin) :
           lb' = [lb EXCEPT !.weights = Append(@, r)]
    BY <1>5 DEF ServiceWeight
  <2>3. lb'.weights = Append(lb.weights, r)
    BY <2>1, <2>2 DEF Reply
  <2>4. glob'.functab # NoFunc
    BY <2>1 DEF TcpInv, glob
  <2>5. ASSUME NEW i \in 1 .. Len(request.services), i < Len(lb'.weights),
               request.services[i].base = "tcp",
               ~ TcpUnset(request.services[i].arg)
        PROVE  lb'.weights[i + 1].weight \in {0, Max32}
    <3>1. CASE i < Len(lb.weights)
      <4>1. lb'.weights[i + 1] = lb.weights[i + 1]
        BY <2>1, <2>3, <3>1
      <4>2. lb.weights[i + 1].weight \in {0, Max32}
        BY <2>1, <2>5, <3>1 DEF TcpInv
      <4>. QED
        BY <4>1, <4>2
    <3>2. CASE i = Len(lb.weights)
      <4>1. lb'.weights[i + 1] = r
        BY <2>1, <2>3, <3>2
      <4>2. NextService = request.services[i] /\ NextService \in Service
        BY <2>1, <3>2 DEF NextService
      <4>3. r.weight \in {0, Max32}
        BY <2>5, <4>2, TcpStores
      <4>. QED
        BY <4>1, <4>3
    <3>3. Len(lb'.weights) = Len(lb.weights) + 1
      BY <2>1, <2>3
    <3>4. i < Len(lb.weights) \/ i = Len(lb.weights)
      BY <2>1, <2>5, <3>3
    <3>. QED
      BY <3>1, <3>2, <3>4
  <2>. QED
    BY <2>1, <2>4, <2>5 DEF TcpInv
<1>6. CASE FinishReply
  <2>1. /\ lb \in Reply /\ pc = "services" /\ pc' = "send"
        /\ cfg' = cfg /\ request' = request
        /\ request \in Request /\ Len(lb.weights) >= 1
    BY <1>6 DEF FinishReply, Typed, TypeOK, Shape, Serving
  <2>2. lb'.weights = lb.weights
    BY <1>6, <2>1, ConvertType DEF FinishReply
  <2>. QED
    BY <2>1, <2>2 DEF TcpInv, glob
<1>7. CASE Failure
  BY <1>0, <1>7 DEF Failure, SysDie, NullFunction, BrokenPipe, Kill, RecvFails,
              Die
<1>8. CASE Continue \/ Restart
  BY <1>0, <1>8 DEF Continue, Restart
<1>9. CASE Signal
  BY <1>0, <1>k, <1>9 DEF Signal, Die
<1>10. CASE ToggleSentinel \/ ToggleNologin
  BY <1>k, <1>10 DEF ToggleSentinel, ToggleNologin, daemon
<1>11. ASSUME NEW i \in Socks, NEW d \in Datagrams, Arrive(i, d)
       PROVE  TcpInv'
  BY <1>k, <1>11 DEF Arrive, daemon
<1>12. CASE UNCHANGED vars
  BY <1>k, <1>12 DEF vars, daemon
<1>. QED
  BY <1>1, <1>2, <1>3, <1>4, <1>5, <1>6, <1>7, <1>8, <1>9, <1>10, <1>11, <1>12
     DEF Next, Loop, Environment

(* Every reply gives a tcp service with a usable port the verdict of its   *)
(* own probe, at the place of its own name; and none is built through a    *)
(* default function of NULL.                                               *)
THEOREM TcpIsProbed == Spec => []TcpVerdict
PROOF
<1>1. Init => Typed /\ TcpInv
  BY TypedInit DEF Init, TcpInv
<1>2. Typed /\ TcpInv /\ [Next]_vars => (Typed /\ TcpInv)'
  BY TypedNext, TcpInvNext
<1>3. Typed /\ TcpInv => TcpVerdict
  <2>. SUFFICES ASSUME Typed, TcpInv, pc = "send"
                PROVE  TcpVerdict
    BY DEF TcpVerdict
  <2>1. Len(lb.weights) = Len(request.services) + 1
        /\ request \in Request /\ Len(request.services) \in Nat
    BY DEF Typed, TypeOK, Shape, Serving, Request
  <2>2. \A i \in 1 .. Len(request.services) : i < Len(lb.weights)
    BY <2>1
  <2>. QED
    BY <2>2 DEF TcpInv, TcpVerdict
<1>. QED
  BY <1>1, <1>2, <1>3, PTL DEF Spec

-----------------------------------------------------------------------------
(* Refinement: the daemon implements QueryService, with its socket buffers *)
(* as the inboxes and its request as the request being served.             *)

(* The chain of tests in request_recv comes to the verdict of the abstract *)
(* specification.                                                          *)
LEMMA VerdictMatches ==
  ASSUME NEW d \in Datagrams
  PROVE  /\ Malformed(d) => Abstract!Verdict(d) = "silence"
         /\ ~ Malformed(d) /\ VersionUnsupported(d)
              => Abstract!Verdict(d) = "version"
         /\ ~ Malformed(d) /\ ~ VersionUnsupported(d) /\ Disallowed(d)
              => Abstract!Verdict(d) = "error"
         /\ ~ Malformed(d) /\ ~ VersionUnsupported(d) /\ ~ Disallowed(d)
              => Abstract!Verdict(d) = "serve"
PROOF
<1>1. d.size \in Nat /\ d.nservices \in Nat /\ d.version \in Nat
  BY DatagramsAssumption DEF Datagram
<1>2. Malformed(d) <=> ~ Abstract!WellFormed(d)
  BY <1>1 DEF Malformed, Expected, Abstract!WellFormed, HeaderSize, NameSize,
              LBCD_MAX_SERVICES
<1>3. ASSUME ~ Malformed(d), ~ VersionUnsupported(d)
      PROVE  Disallowed(d) <=>
             ~ \A i \in DOMAIN Abstract!Asked(d) :
                 Abstract!Asked(d)[i] \in Abstract!Permitted
  <2>1. CASE d.version = 3
    <3>1. DOMAIN Abstract!Asked(d) = 1 .. d.nservices
      BY <1>3, <2>1, NamesAnnounced DEF Abstract!Asked
    <3>2. \A s : service_allowed(s) <=> s \in Abstract!Permitted
      BY DEF service_allowed, Abstract!Permitted, DefaultService,
             Abstract!DefaultService, Name, Abstract!Name
    <3>. QED
      BY <2>1, <3>1, <3>2 DEF Disallowed, Abstract!Asked
  <2>2. CASE d.version # 3
    BY <2>2 DEF Disallowed, Abstract!Asked
  <2>. QED
    BY <2>1, <2>2
<1>4. VersionUnsupported(d) <=> d.version \notin {2, 3}
  BY DEF VersionUnsupported
<1>. QED
  BY <1>2, <1>3, <1>4 DEF Abstract!Verdict

(* Every step of the daemon is a step of the query service or invisible.   *)
LEMMA StepSimulation ==
  ASSUME Typed, [Next]_vars
  PROVE  [Abstract!Next]_<<cfg, queue, request, out>>
PROOF
<1>. USE DEF host
<1>0. CASE UNCHANGED <<cfg, queue, request, out>>
  BY <1>0
<1>1. CASE Startup
  BY <1>0, <1>1 DEF Startup, InstallHandlers, bind_sockets, WritePidFile, Notify
<1>2. CASE CheckExit
  BY <1>2 DEF CheckExit, Abstract!Next, Abstract!Sent, Abstract!NoReply, NoReply
<1>3. CASE request_recv
  <2>. DEFINE d == Head(queue[fd])
  <2>1. /\ fd \in Socks /\ queue[fd] \in Seq(Datagrams) /\ queue[fd] # << >>
        /\ queue' = [queue EXCEPT ![fd] = Tail(@)]
        /\ cfg' = cfg /\ request = NoRequest
    BY <1>3 DEF request_recv, Typed, TypeOK, Shape, Serving
  <2>2. d \in Datagrams
    BY <2>1
  <2>3. \/ Abstract!Verdict(d) = "silence" /\ UNCHANGED <<request, out>>
        \/ /\ Abstract!Verdict(d) = "version"
           /\ out' = Abstract!Refusal(d, LBCD_STATUS_VERSION)
           /\ UNCHANGED request
        \/ /\ Abstract!Verdict(d) = "error"
           /\ out' = Abstract!Refusal(d, LBCD_STATUS_ERROR)
           /\ UNCHANGED request
        \/ /\ Abstract!Verdict(d) = "serve"
           /\ request' = [from |-> d.from, protocol |-> d.version,
                          id |-> d.id, operation |-> d.op,
                          services |-> Abstract!Asked(d)]
           /\ UNCHANGED out
    BY <1>3, <2>2, VerdictMatches
       DEF request_recv, send_status, Abstract!Refusal, ToRequest, Abstract!Asked,
           Header, Abstract!Header, LBCD_VERSION, Abstract!LBCD_VERSION
  <2>4. Abstract!Take
    BY <2>1, <2>3 DEF Abstract!Take, Abstract!Socks, Socks, Abstract!NoRequest,
         NoRequest, LBCD_STATUS_VERSION, Abstract!LBCD_STATUS_VERSION,
         LBCD_STATUS_ERROR, Abstract!LBCD_STATUS_ERROR
  <2>. QED
    BY <2>4 DEF Abstract!Next
<1>4. CASE \/ EnterSelect \/ network_wait_any \/ lbcd_pack_info
           \/ DefaultWeight \/ CheckSentinel \/ ServiceWeight \/ FinishReply
  BY <1>0, <1>4 DEF EnterSelect, network_wait_any, lbcd_pack_info,
              DefaultWeight, CheckSentinel, ServiceWeight, FinishReply
<1>5. CASE UnknownOp
  <2>1. Abstract!AnswersTo(out', request)
    BY <1>5 DEF UnknownOp, Abstract!AnswersTo, send_status, Header,
         Abstract!Header, LBCD_VERSION, Abstract!LBCD_VERSION,
         LBCD_STATUS_UNKNOWN_OP, Abstract!LBCD_STATUS_UNKNOWN_OP,
         LBCD_OP_LBINFO, Abstract!LBCD_OP_LBINFO
  <2>2. request # NoRequest
    BY <1>5 DEF UnknownOp, Typed, Shape, Serving
  <2>. QED
    BY <1>5, <2>1, <2>2 DEF UnknownOp, Abstract!Next, Abstract!Answer,
                            Abstract!NoRequest, NoRequest
<1>6. CASE handle_lb_request
  <2>1. request # NoRequest /\ request \in Request
        /\ Len(lb.weights) = Len(request.services) + 1
        /\ Len(request.services) \in Nat
    BY <1>6 DEF handle_lb_request, Typed, TypeOK, Shape, Serving, Request
  <2>2. out'.size = 36 + 8 * Len(out'.lb.weights)
        /\ Len(out'.lb.weights) = Len(request.services) + 1
    BY <1>6, <2>1 DEF handle_lb_request, ReplySize, Unused, ServiceSize,
                      LBCD_MAX_SERVICES
  <2>3. DOMAIN out' = {"to", "version", "id", "op", "status", "size", "lb"}
        /\ [to |-> out'.to, version |-> out'.version, id |-> out'.id,
            op |-> out'.op, status |-> out'.status]
             = Header(request.from, request.protocol, request.id,
                      request.operation, LBCD_STATUS_OK)
    BY <1>6 DEF handle_lb_request, Header
  <2>4. request.operation = LBCD_OP_LBINFO
    BY <1>6 DEF handle_lb_request, Typed, Shape, Serving
  <2>5. Abstract!AnswersTo(out', request)
    BY <2>2, <2>3, <2>4 DEF Abstract!AnswersTo, Header, Abstract!Header,
         LBCD_OP_LBINFO, Abstract!LBCD_OP_LBINFO, LBCD_STATUS_OK,
         Abstract!LBCD_STATUS_OK
  <2>. QED
    BY <1>6, <2>1, <2>5 DEF handle_lb_request, Abstract!Next, Abstract!Answer,
         Abstract!NoRequest, NoRequest
<1>7. CASE Shutdown
  BY <1>7 DEF Shutdown, Abstract!Next, Abstract!Stop, EmptyQueues, Socks,
              Abstract!Socks, Typed, Shape, Serving, Abstract!NoRequest, NoRequest
<1>8. CASE Die
  BY <1>8 DEF Die, Abstract!Next, Abstract!Stop, EmptyQueues, Socks,
              Abstract!Socks, Abstract!NoRequest, NoRequest, NoReply,
              Abstract!NoReply
<1>9. CASE Failure
  BY <1>0, <1>8, <1>9 DEF Failure, SysDie, NullFunction, BrokenPipe, Kill,
              RecvFails
<1>10. CASE Continue \/ Signal \/ Restart \/ ToggleSentinel \/ ToggleNologin
  BY <1>0, <1>8, <1>10 DEF Continue, Signal, Restart, ToggleSentinel,
              ToggleNologin, daemon
<1>11. ASSUME NEW i \in Socks, NEW d \in Datagrams, Arrive(i, d)
       PROVE  Abstract!Next
  BY <1>11 DEF Arrive, daemon, Abstract!Next, Abstract!Arrive, Socks,
               Abstract!Socks
<1>12. CASE UNCHANGED vars
  BY <1>0, <1>12 DEF vars, daemon
<1>. QED
  BY <1>1, <1>2, <1>3, <1>4, <1>5, <1>6, <1>7, <1>9, <1>10, <1>11, <1>12
     DEF Next, Loop, Environment

(* The daemon implements the query service for every set of command lines  *)
(* and datagrams: each datagram it takes gets the one verdict and at most  *)
(* one answer, correctly addressed, sized and numbered, through signals,   *)
(* crashes and restarts.                                                   *)
THEOREM Refinement == Spec => Implements
PROOF
<1>1. Init => Abstract!Init
  BY DEF Init, Abstract!Init, EmptyQueues, Socks, Abstract!Socks,
         Abstract!NoRequest, NoRequest, Abstract!NoReply, NoReply
<1>2. Typed /\ [Next]_vars => [Abstract!Next]_<<cfg, queue, request, out>>
  BY StepSimulation
<1>3. Spec => []Typed
  <2>1. Init => Typed
    BY TypedInit
  <2>2. Typed /\ [Next]_vars => Typed'
    BY TypedNext
  <2>. QED
    BY <2>1, <2>2, PTL DEF Spec
<1>. QED
  BY <1>1, <1>2, <1>3, PTL DEF Spec, Implements, Abstract!Spec
=============================================================================
