------------------------------ MODULE Monlist -------------------------------
(***************************************************************************)
(* The NTP probe: modules/ntp.c, modules/udp_socket.c and                  *)
(* modules/monlist.c.  The server answers one request with a numbered      *)
(* train of packets, all but the last flagged "more"; the network may      *)
(* lose, duplicate and reorder them and slip other packets in.             *)
(***************************************************************************)
EXTENDS Integers, Sequences, FiniteSets, FiniteSetsExt

CONSTANTS
  Responses,    \* answers a server may give: the items of each packet
  Junk,         \* other packets that may arrive
  MAXPACKETS,   \* packets getresponse can keep track of
  NtpTimeout    \* units of time the probe may wait in all

NoSeq == 999    \* lastseq before the last packet is known

(* A packet as getresponse looks at it: whether the header has the format  *)
(* of a response, whether implementation and request codes are those asked *)
(* for, the error code, the sequence number, the "more" bit, the items.    *)
Packet == [format : BOOLEAN, codes : BOOLEAN, err : Nat, seq : Nat,
           more : BOOLEAN, items : Nat]

ASSUME ResponsesAssumption ==
  /\ \A r \in Responses : r \in Seq(Nat) /\ Len(r) \in 1 .. 128
  /\ Responses # {}
ASSUME JunkAssumption ==
  Junk \subseteq {p \in Packet : ~ p.format \/ ~ p.codes \/ p.err # 0}
ASSUME NtpAssumption == MAXPACKETS \in 1 .. NoSeq /\ NtpTimeout \in Nat \ {0}

VARIABLES
  resp,         \* the answer of the server this time
  ntp,          \* "idle" before the call, "connect", "send", "select", "done"
  inbuf,        \* the packet at the head of the socket buffer, or << >>
  tv,           \* what select has left of the timeout
  seenpacket,   \* sequence numbers already counted
  lastseq,
  numrecv,
  ritems,
  peers,        \* what the probe returns, -1 for failure
  waited        \* history: the time spent in select

books   == <<seenpacket, lastseq, numrecv, ritems>>
ntpVars == <<resp, ntp, inbuf, tv, books, peers, waited>>

Genuine(q) == [format |-> TRUE, codes |-> TRUE, err |-> 0, seq |-> q,
               more |-> q + 1 # Len(resp), items |-> resp[q + 1]]

Train == {Genuine(q) : q \in 0 .. (Len(resp) - 1)}

NtpInit ==
  /\ resp = CHOOSE r \in Responses : TRUE
  /\ ntp = "idle"
  /\ inbuf = << >>
  /\ tv = NtpTimeout /\ waited = 0
  /\ seenpacket = {} /\ lastseq = NoSeq /\ numrecv = 0 /\ ritems = 0
  /\ peers = 0

lbcd_ntp_weight ==
  /\ ntp = "idle"
  /\ resp' \in Responses
  /\ ntp' = "connect"
  /\ UNCHANGED <<inbuf, tv, books, peers, waited>>

(* Every way out closes the socket.                                        *)
Finish(v) == /\ ntp' = "done" /\ peers' = v /\ inbuf' = << >>
             /\ UNCHANGED <<resp, tv, books, waited>>
Advance(where) == ntp' = where /\ UNCHANGED <<resp, inbuf, tv, books, peers, waited>>

udp_connect == ntp = "connect" /\ (Finish(-1) \/ Advance("send"))
sendrequest == ntp = "send"    /\ (Finish(-1) \/ Advance("select"))

(* Mutant: duplicates are counted again.                                   *)
Ignored_notSeen(p) == ~ p.format \/ ~ p.codes \/ (p.err = 0 /\ p.seq >= MAXPACKETS)

(* The tests that make getresponse go back to select.                      *)
Ignored(p) == \/ ~ p.format
              \/ ~ p.codes
              \/ p.err = 0 /\ p.seq >= MAXPACKETS
              \/ p.err = 0 /\ p.seq \in seenpacket

Ignore(p) == Ignored(p) /\ inbuf' = << >>
             /\ UNCHANGED <<resp, ntp, tv, books, peers, waited>>

Error(p) == /\ p.format /\ p.codes /\ p.err # 0
            /\ Finish(-1)

(* Mutant: the loop ends as soon as the last packet has been seen.         *)
Enough_last(n, last) == last # NoSeq
Enough(n, last) == n > last

(* A second packet without the "more" bit is added to ritems but not to    *)
(* numrecv.                                                                *)
Collect(p) ==
  /\ p.format /\ p.codes /\ p.err = 0
  /\ ~ Ignored(p)
  /\ inbuf' = << >>
  /\ seenpacket' = seenpacket \cup {p.seq}
  /\ ritems' = ritems + p.items
  /\ IF ~ p.more /\ lastseq # NoSeq
     THEN UNCHANGED <<ntp, lastseq, numrecv, peers>>
     ELSE /\ lastseq' = IF p.more THEN lastseq ELSE p.seq
          /\ numrecv' = numrecv + 1
          /\ IF Enough(numrecv', lastseq')
             THEN ntp' = "done" /\ peers' = ritems'
             ELSE UNCHANGED <<ntp, peers>>
  /\ UNCHANGED <<resp, tv, waited>>

(* One turn of the loop: select reports a packet that is there whatever is *)
(* left of the timeout, even nothing.                                      *)
getresponse ==
  /\ ntp = "select" /\ inbuf # << >>
  /\ LET p == inbuf[1] IN Ignore(p) \/ Error(p) \/ Collect(p)

(* Nothing to read: select waits, and Linux leaves the rest of the timeout *)
(* in tv.                                                                  *)
Wait == /\ ntp = "select" /\ inbuf = << >>
        /\ tv > 0
        /\ tv' = tv - 1 /\ waited' = waited + 1
        /\ UNCHANGED <<resp, ntp, inbuf, books, peers>>

(* Mutant: 0 ready descriptors are not told from 1, and recv blocks.       *)
TimedOut_recv == FALSE /\ Finish(-1)

(* The timeout is over.                                                    *)
TimedOut == ntp = "select" /\ inbuf = << >> /\ tv = 0 /\ Finish(-1)

(* A signal interrupts select, or recv reports an error of the connected   *)
(* socket.                                                                 *)
Interrupted == ntp = "select" /\ Finish(-1)

(* The network puts any packet of the answer, again or for the first time, *)
(* or one that is none, before the probe.                                  *)
Deliver(p) == /\ ntp = "select" /\ inbuf = << >>
              /\ inbuf' = <<p>>
              /\ UNCHANGED <<resp, ntp, tv, books, peers, waited>>

NtpNext == \/ lbcd_ntp_weight \/ udp_connect \/ sendrequest \/ getresponse
           \/ Wait \/ TimedOut \/ Interrupted
           \/ \E p \in Train \cup Junk : Deliver(p)

(* Time passes while the daemon sleeps, and the daemon runs; nothing is    *)
(* assumed of the network.                                                 *)
NtpFairness == /\ WF_ntpVars(udp_connect \/ sendrequest) /\ WF_ntpVars(getresponse)
               /\ WF_ntpVars(Wait) /\ WF_ntpVars(TimedOut)
NtpSpec == NtpInit /\ [][NtpNext]_ntpVars /\ NtpFairness

-----------------------------------------------------------------------------
Seqs == 0 .. (Len(resp) - 1)

(* A probe that succeeds has received the whole answer, however the        *)
(* packets were lost, repeated or reordered: every sequence number exactly *)
(* once, up to the one without the "more" bit.                             *)
Complete == ntp = "done" /\ peers # -1 => seenpacket = Seqs

(* Its weight is the number of peers in the whole answer, each packet      *)
(* counted once.  However long the answer, no packet is entered past the   *)
(* end of the array seenpacket.                                            *)
CountsEachPacketOnce ==
  /\ seenpacket \subseteq 0 .. (MAXPACKETS - 1)
  /\ ntp = "done" /\ peers # -1 =>
       peers = MapThenSumSet(LAMBDA q : resp[q + 1], Seqs)

(* The timeout of getresponse covers the whole exchange and not each       *)
(* packet.  After any number of duplicates and strays the probe ends, and  *)
(* has slept no longer in all.  Only if they never stop coming it does not *)
(* end: a packet that is there is read even when the timeout is over.      *)
Sleeps == waited <= NtpTimeout
Terminates == \/ ntp = "connect" ~> (ntp = "done" /\ Sleeps)
              \/ []<>(inbuf # << >>) /\ []Sleeps
=============================================================================
