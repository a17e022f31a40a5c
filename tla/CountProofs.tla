---------------------------- MODULE CountProofs -----------------------------
(***************************************************************************)
(* Proofs about what counts users.  The NTP probe: a successful one has    *)
(* seen the whole answer and has counted each of its packets once, for     *)
(* every answer a server can give and every set of stray packets.          *)
(* get_user_stats, for every set of sessions, every size of the hash table *)
(* and any number of logins, logouts and calls: when the cached counts may *)
(* be used, and what the loop over the file counts.                        *)
(***************************************************************************)
EXTENDS Monlist, UserStats, FiniteSetTheorems, WellFoundedInduction, TLAPS

-----------------------------------------------------------------------------
(* Induction.  A statement about all natural numbers is proved by showing  *)
(* that the set of the numbers it holds for is closed; that rests on the   *)
(* well-foundedness of <.                                                  *)

(* A set of natural numbers has a least element.                           *)
LEMMA LeastElement ==
  ASSUME NEW T, T \subseteq Nat, T # {}
  PROVE  \E m \in T : \A k \in T : m <= k
PROOF
<1>. DEFINE R == OpToRel(<, Nat)
<1>1. IsWellFoundedOn(R, Nat)
  BY NatLessThanWellFounded
<1>2. \A k, m \in Nat : <<k, m>> \in R <=> k < m
  BY DEF OpToRel
<1>. HIDE DEF R
<1>3. PICK m \in T : \A k \in T : ~ (<<k, m>> \in R)
  BY <1>1, WFMin
<1>4. \A k \in T : k \in Nat /\ m \in Nat /\ ~ (k < m)
  BY <1>2, <1>3, Zenon
<1>5. \A k \in T : m <= k
  BY <1>4
<1>. QED
  BY <1>5

(* A set that contains 0, and with a number its successor, has them all.   *)
LEMMA Induction ==
  ASSUME NEW T, T \subseteq Nat, 0 \in T, \A n \in T : n + 1 \in T
  PROVE  \A n \in Nat : n \in T
PROOF
<1>. SUFFICES ASSUME ~ (\A n \in Nat : n \in T) PROVE FALSE
  OBVIOUS
<1>1. PICK m \in Nat \ T : \A k \in Nat \ T : m <= k
  BY LeastElement
<1>2. m # 0 /\ m - 1 \in Nat /\ ~ (m <= m - 1)
  BY <1>1
<1>3. m - 1 \in T /\ (m - 1) + 1 = m
  BY <1>1, <1>2
<1>. QED
  BY <1>1, <1>3

-----------------------------------------------------------------------------
(* The sum over a set of sequence numbers.                                 *)

(* The element that is added next, and the function that MapThenSumSet     *)
(* uses to add up the items of r over the subsets of U.                    *)
Pick(s) == CHOOSE x \in s : TRUE
Sums(g, r, U) ==
  g = [s \in SUBSET U |-> IF s = {} THEN 0 ELSE r[Pick(s) + 1] + g[s \ {Pick(s)}]]
Summer(r, U) == CHOOSE g : Sums(g, r, U)

(* The picked element is one of the set, which has one fewer without it.   *)
LEMMA PickOne ==
  ASSUME NEW s, IsFiniteSet(s), s # {}
  PROVE  /\ Pick(s) \in s /\ IsFiniteSet(s \ {Pick(s)})
         /\ Cardinality(s) \in Nat /\ Cardinality(s \ {Pick(s)}) \in Nat
         /\ Cardinality(s) = Cardinality(s \ {Pick(s)}) + 1
PROOF
<1>1. Pick(s) \in s
  BY DEF Pick
<1>. DEFINE t == s \ {Pick(s)}
<1>2. IsFiniteSet(t) /\ s = t \cup {Pick(s)} /\ Pick(s) \notin t
  BY <1>1, FS_Subset
<1>. HIDE DEF t
<1>3. Cardinality(t \cup {Pick(s)}) = Cardinality(t) + 1
  BY <1>2, FS_AddElement
<1>4. Cardinality(s) \in Nat /\ Cardinality(t) \in Nat
  BY <1>2, FS_CardinalityType
<1>. QED
  BY <1>1, <1>2, <1>3, <1>4 DEF t

(* That function exists: it is built for larger and larger subsets.        *)
LEMMA SummerExists ==
  ASSUME NEW U, IsFiniteSet(U), NEW r
  PROVE  \E g : Sums(g, r, U)
PROOF
<1>. DEFINE Body(g, s) == IF s = {} THEN 0 ELSE r[Pick(s) + 1] + g[s \ {Pick(s)}]
            D(n) == {s \in SUBSET U : Cardinality(s) <= n}
            T == {n \in Nat : \E g : g = [s \in D(n) |-> Body(g, s)]}
<1>f. \A s \in SUBSET U : IsFiniteSet(s) /\ Cardinality(s) \in Nat
                          /\ Cardinality(s) <= Cardinality(U)
  BY FS_Subset, FS_CardinalityType
<1>1. 0 \in T
  <2>. DEFINE g == [s \in D(0) |-> 0]
  <2>1. \A s \in D(0) : s = {}
    BY <1>f, FS_EmptySet
  <2>2. g = [s \in D(0) |-> Body(g, s)]
    BY <2>1
  <2>. QED
    BY <2>2
<1>2. ASSUME NEW n \in T PROVE n + 1 \in T
  <2>0. n \in Nat /\ n + 1 \in Nat
    OBVIOUS
  <2>1. PICK g : g = [s \in D(n) |-> Body(g, s)]
    OBVIOUS
  <2>. DEFINE h == [s \in D(n + 1) |-> Body(g, s)]
  <2>2. D(n) \subseteq D(n + 1)
    BY <1>f, <2>0
  <2>3. \A s \in D(n) : h[s] = g[s]
    <3>. HIDE DEF Body, D
    <3>. QED
      BY <2>1, <2>2
  <2>4. ASSUME NEW s \in D(n + 1) PROVE Body(g, s) = Body(h, s)
    <3>1. CASE s = {}
      BY <3>1
    <3>2. CASE s # {}
      <4>1. s \ {Pick(s)} \in D(n)
        <5>1. s \ {Pick(s)} \in SUBSET U
          OBVIOUS
        <5>2. Cardinality(s) <= n + 1 /\ IsFiniteSet(s)
          BY <1>f
        <5>. DEFINE a == Cardinality(s)
                    b == Cardinality(s \ {Pick(s)})
        <5>p. a \in Nat /\ b \in Nat /\ a = b + 1
          BY <3>2, <5>2, PickOne, Zenon
        <5>a. a <= n + 1
          BY <5>2
        <5>b. b <= n
          <6>. HIDE DEF a, b
          <6>. QED
            BY <2>0, <5>p, <5>a
        <5>3. Cardinality(s \ {Pick(s)}) <= n
          BY <5>b
        <5>. QED
          BY <5>1, <5>3
      <4>2. h[s \ {Pick(s)}] = g[s \ {Pick(s)}]
        BY <2>3, <4>1
      <4>. HIDE DEF h
      <4>. QED
        BY <3>2, <4>2
    <3>. QED
      BY <3>1, <3>2
  <2>5. h = [s \in D(n + 1) |-> Body(h, s)]
    <3>1. h = [s \in D(n + 1) |-> Body(g, s)]
      OBVIOUS
    <3>. HIDE DEF h, Body, D
    <3>. QED
      BY <2>4, <3>1
  <2>. QED
    BY <2>0, <2>5
<1>3. Cardinality(U) \in T
  <2>1. T \subseteq Nat /\ \A n \in T : n + 1 \in T
    BY <1>2
  <2>2. Cardinality(U) \in Nat
    BY <1>f
  <2>. HIDE DEF T
  <2>. QED
    BY <1>1, <2>1, <2>2, Induction
<1>4. D(Cardinality(U)) = SUBSET U
  BY <1>f
<1>5. PICK g : g = [s \in D(Cardinality(U)) |-> Body(g, s)]
  BY <1>3
<1>6. Sums(g, r, U)
  <2>. HIDE DEF D
  <2>. QED
    BY <1>4, <1>5 DEF Sums
<1>. QED
  BY <1>6

(* Adding an element to the set adds its items to the sum, in whatever     *)
(* order the elements are picked.                                          *)
LEMMA SumAdds ==
  ASSUME NEW U, IsFiniteSet(U), NEW r, \A x \in U : r[x + 1] \in Nat,
         NEW g, Sums(g, r, U)
  PROVE  \A V \in SUBSET U :
           g[V] \in Nat /\ \A x \in U \ V : g[V \cup {x}] = g[V] + r[x + 1]
PROOF
<1>. DEFINE Adds(V) == g[V] \in Nat /\ \A x \in U \ V : g[V \cup {x}] = g[V] + r[x + 1]
            T == {n \in Nat : \A V \in SUBSET U : Cardinality(V) = n => Adds(V)}
<1>f. \A V \in SUBSET U : IsFiniteSet(V) /\ Cardinality(V) \in Nat
  BY FS_Subset, FS_CardinalityType
<1>g. \A V \in SUBSET U : g[V] = IF V = {} THEN 0 ELSE r[Pick(V) + 1] + g[V \ {Pick(V)}]
  BY DEF Sums
<1>0. Adds({})
  <2>1. g[{}] = 0
    BY <1>g
  <2>2. ASSUME NEW x \in U PROVE g[{} \cup {x}] = 0 + r[x + 1]
    <3>1. Pick({x}) = x /\ {x} \ {x} = {} /\ {x} # {} /\ {x} \in SUBSET U
      BY DEF Pick
    <3>2. g[{x}] = r[x + 1] + g[{}]
      BY <1>g, <3>1
    <3>3. r[x + 1] \in Nat /\ {} \cup {x} = {x}
      OBVIOUS
    <3>. QED
      BY <2>1, <3>2, <3>3
  <2>. QED
    BY <2>1, <2>2
<1>1. 0 \in T
  <2>1. \A V \in SUBSET U : Cardinality(V) = 0 => V = {}
    BY <1>f, FS_EmptySet
  <2>. HIDE DEF Adds
  <2>. QED
    BY <1>0, <2>1
<1>2. ASSUME NEW n \in T PROVE n + 1 \in T
  <2>0. n \in Nat /\ n + 1 \in Nat
    OBVIOUS
  <2>h. \A V \in SUBSET U : Cardinality(V) = n => Adds(V)
    OBVIOUS
  <2>1. ASSUME NEW V \in SUBSET U, Cardinality(V) = n + 1
        PROVE  Adds(V)
    <3>1. V # {} /\ IsFiniteSet(V)
      BY <1>f, <2>0, <2>1, FS_EmptySet
    <3>2. ASSUME NEW y \in V
          PROVE  Adds(V \ {y}) /\ g[V] = g[V \ {y}] + r[y + 1]
      <4>1. IsFiniteSet(V \ {y}) /\ (V \ {y}) \cup {y} = V /\ y \in U \ (V \ {y})
        BY <3>1, FS_Subset
      <4>2. /\ Cardinality(V \ {y}) \in Nat
            /\ Cardinality((V \ {y}) \cup {y}) = Cardinality(V \ {y}) + 1
        BY <4>1, FS_AddElement, FS_CardinalityType
      <4>3. Cardinality(V \ {y}) = n
        <5>. DEFINE a == Cardinality(V \ {y})
        <5>1. a \in Nat /\ a + 1 = n + 1
          BY <2>1, <4>1, <4>2, Zenon
        <5>. HIDE DEF a
        <5>2. a = n
          BY <2>0, <5>1
        <5>. QED
          BY <5>2 DEF a
      <4>4. Adds(V \ {y})
        <5>. HIDE DEF Adds
        <5>. QED
          BY <2>h, <4>3
      <4>. QED
        BY <4>1, <4>4
    <3>3. g[V] \in Nat
      <4>1. PICK y \in V : TRUE
        BY <3>1
      <4>. DEFINE p == g[V \ {y}]
                  b == r[y + 1]
      <4>2. p \in Nat /\ b \in Nat /\ g[V] = p + b
        BY <3>2
      <4>. HIDE DEF p, b
      <4>. QED
        BY <4>2
    <3>4. ASSUME NEW x \in U \ V PROVE g[V \cup {x}] = g[V] + r[x + 1]
      <4>. DEFINE W == V \cup {x}
                  y == Pick(W)
      <4>1. W \in SUBSET U /\ W # {} /\ y \in W
        BY DEF Pick
      <4>2. g[W] = r[y + 1] + g[W \ {y}]
        BY <1>g, <4>1
      <4>. HIDE DEF y
      <4>3. CASE y = x
        <5>1. W \ {y} = V
          BY <4>3
        <5>. DEFINE a == r[x + 1]
        <5>2. a \in Nat /\ g[W] = a + g[V]
          BY <4>2, <4>3, <5>1
        <5>. HIDE DEF a, W
        <5>3. g[W] = g[V] + a
          BY <3>3, <5>2
        <5>. QED
          BY <5>3 DEF a, W
      <4>4. CASE y \in V
        <5>1. W \ {y} = (V \ {y}) \cup {x} /\ x \in U \ (V \ {y})
          BY <4>4
        <5>2. g[W \ {y}] = g[V \ {y}] + r[x + 1] /\ g[V \ {y}] \in Nat
          BY <3>2, <4>4, <5>1
        <5>3. g[V] = g[V \ {y}] + r[y + 1]
          BY <3>2, <4>4
        <5>4. r[x + 1] \in Nat /\ r[y + 1] \in Nat
          BY <4>4
        <5>. DEFINE p == g[V \ {y}]
                    a == r[x + 1]
                    b == r[y + 1]
        <5>5. p \in Nat /\ a \in Nat /\ b \in Nat /\ g[V] = p + b /\ g[W] = b + (p + a)
          BY <4>2, <5>2, <5>3, <5>4
        <5>. HIDE DEF p, a, b
        <5>6. g[W] = g[V] + a
          BY <5>5
        <5>. QED
          BY <5>6 DEF a
      <4>. QED
        BY <4>1, <4>3, <4>4
    <3>. QED
      BY <3>3, <3>4
  <2>. HIDE DEF Adds
  <2>. QED
    BY <2>0, <2>1
<1>. HIDE DEF Adds
<1>3. \A n \in Nat : n \in T
  <2>1. T \subseteq Nat /\ \A n \in T : n + 1 \in T
    BY <1>2
  <2>. HIDE DEF T
  <2>. QED
    BY <1>1, <2>1, Induction
<1>4. \A V \in SUBSET U : Adds(V)
  BY <1>3, <1>f
<1>. QED
  BY <1>4 DEF Adds

-----------------------------------------------------------------------------
(* The book-keeping of the probe.                                          *)

(* The book-keeping: numrecv counts the packets seen, lastseq is known     *)
(* exactly when the packet without the "more" bit has been seen, and the   *)
(* loop ends with success only when enough packets were counted.           *)
Counting ==
  /\ resp \in Responses
  /\ seenpacket \subseteq Seqs
  /\ numrecv = Cardinality(seenpacket)
  /\ lastseq = IF Len(resp) - 1 \in seenpacket THEN Len(resp) - 1 ELSE NoSeq
  /\ ntp = "done" /\ peers # -1 => numrecv > lastseq
  /\ ntp = "idle" => seenpacket = {} /\ inbuf = << >>
  /\ inbuf # << >> => inbuf[1] \in Train \cup Junk

(* The sequence numbers of an answer, and any set of them, are finite.     *)
LEMMA SeqsFinite ==
  ASSUME resp \in Responses
  PROVE  /\ Len(resp) \in 1 .. 128
         /\ IsFiniteSet(Seqs) /\ Cardinality(Seqs) = Len(resp)
PROOF
<1>1. Len(resp) \in 1 .. 128
  BY ResponsesAssumption
<1>2. 0 \in Int /\ Len(resp) - 1 \in Int
  BY <1>1
<1>3. /\ IsFiniteSet(0 .. (Len(resp) - 1))
      /\ Cardinality(0 .. (Len(resp) - 1))
           = IF 0 > Len(resp) - 1 THEN 0 ELSE (Len(resp) - 1) - 0 + 1
  BY <1>2, FS_Interval
<1>. QED
  BY <1>1, <1>3 DEF Seqs

(* Every step of the probe and of the network keeps the books right.      *)
LEMMA CountingNext == ASSUME Counting, [NtpNext]_ntpVars PROVE Counting'
PROOF
<1>f. /\ Len(resp) \in 1 .. 128 /\ IsFiniteSet(Seqs)
      /\ Cardinality(Seqs) = Len(resp) /\ IsFiniteSet(seenpacket)
      /\ Cardinality(seenpacket) \in Nat
  BY SeqsFinite, FS_Subset, FS_CardinalityType DEF Counting
<1>t. ASSUME resp' = resp PROVE Seqs' = Seqs /\ Train' = Train
  BY <1>t DEF Seqs, Train, Genuine
<1>r. ASSUME Finish(-1) PROVE Counting'
  BY <1>r, <1>t DEF Finish, books, Counting
<1>0. CASE lbcd_ntp_weight
  <2>1. /\ resp' \in Responses /\ seenpacket' = {} /\ inbuf' = << >>
        /\ lastseq' = NoSeq /\ numrecv' = Cardinality({}) /\ ntp' = "connect"
    BY <1>0, FS_EmptySet DEF lbcd_ntp_weight, books, Counting
  <2>. QED
    BY <2>1 DEF Counting
<1>1. CASE udp_connect \/ sendrequest
  BY <1>1, <1>r, <1>t DEF udp_connect, sendrequest, Advance, books, Counting
<1>2. CASE Wait
  BY <1>2, <1>t DEF Wait, books, Counting
<1>3. CASE TimedOut \/ Interrupted
  BY <1>3, <1>r DEF TimedOut, Interrupted
<1>6. ASSUME NEW p \in Train \cup Junk, Deliver(p) PROVE Counting'
  BY <1>6, <1>t DEF Deliver, books, Counting
<1>4. CASE getresponse
  <2>. DEFINE p == inbuf[1]
  <2>p. p \in Train \cup Junk
    BY <1>4 DEF getresponse, Counting
  <2>d. Ignore(p) \/ Error(p) \/ Collect(p)
    BY <1>4 DEF getresponse
  <2>. HIDE DEF p
  <2>1. CASE Ignore(p)
    BY <2>1, <1>t DEF Ignore, books, Counting
  <2>2. CASE Error(p)
    BY <2>2, <1>r DEF Error
  <2>3. CASE Collect(p)
    <3>1. p \in Train
      BY <2>p, <2>3, JunkAssumption DEF Collect
    <3>2. PICK q \in Seqs : p = Genuine(q)
      BY <3>1 DEF Train, Seqs
    <3>a. q \in Int /\ Len(resp) \in Int
      BY <1>f DEF Seqs
    <3>b. q + 1 # Len(resp) <=> q # Len(resp) - 1
      BY <3>a
    <3>c. /\ p.seq = q
          /\ p.err = 0
          /\ p.more = (q + 1 # Len(resp))
      BY <3>2, Zenon DEF Genuine
    <3>3. /\ p.seq = q /\ p.err = 0 /\ q \in Int
          /\ p.more <=> q # Len(resp) - 1
      BY <3>a, <3>b, <3>c, Zenon
    <3>4. q \notin seenpacket
      BY <2>3, <3>3 DEF Collect, Ignored
    <3>5. /\ seenpacket' = seenpacket \cup {q} /\ resp' = resp
          /\ seenpacket' \subseteq Seqs
          /\ Cardinality(seenpacket') = Cardinality(seenpacket) + 1
      BY <2>3, <3>3, <3>4, <1>f, FS_AddElement DEF Collect, Counting
    <3>6. ~ p.more => lastseq = NoSeq
      BY <3>3, <3>4, <1>f DEF Counting
    <3>7. /\ lastseq' = IF p.more THEN lastseq ELSE q
          /\ numrecv' = numrecv + 1
          /\ ntp' = "done" => numrecv' > lastseq'
          /\ ntp' # "idle" /\ inbuf' = << >>
      BY <1>4, <2>3, <3>3, <3>6 DEF Collect, getresponse, Enough
    <3>8. lastseq' = IF Len(resp) - 1 \in seenpacket' THEN Len(resp) - 1
                     ELSE NoSeq
      BY <3>3, <3>4, <3>5, <3>7 DEF Counting
    <3>. QED
      BY <1>t, <3>5, <3>7, <3>8 DEF Counting
  <2>. QED
    BY <2>d, <2>1, <2>2, <2>3
<1>5. CASE UNCHANGED ntpVars
  BY <1>5, <1>t DEF ntpVars, books, Counting
<1>. QED
  BY <1>0, <1>1, <1>2, <1>3, <1>4, <1>5, <1>6 DEF NtpNext

(* The books are right in every state.                                     *)
LEMMA CountingAlways == NtpSpec => []Counting
PROOF
<1>1. NtpInit => Counting
  <2>. SUFFICES ASSUME NtpInit PROVE Counting
    OBVIOUS
  <2>1. resp \in Responses
    BY ResponsesAssumption DEF NtpInit
  <2>. QED
    BY <2>1, FS_EmptySet DEF NtpInit, Counting
<1>2. Counting /\ [NtpNext]_ntpVars => Counting'
  BY CountingNext
<1>. QED
  BY <1>1, <1>2, PTL DEF NtpSpec

(* A probe that reports a number of peers has received every packet of the *)
(* server's answer, whatever was lost, repeated, reordered or injected on  *)
(* the way: getresponse cannot stop early.                                 *)
THEOREM CompleteAnswer == NtpSpec => []Complete
PROOF
<1>1. Counting => Complete
  <2>s. SUFFICES ASSUME Counting, ntp = "done", peers # -1
                 PROVE  seenpacket = Seqs
    BY DEF Complete
  <2>a. Len(resp) \in 1 .. 128
    BY <2>s, SeqsFinite DEF Counting
  <2>b. \A n \in 1 .. 128 : n \in Int /\ n <= 128
    OBVIOUS
  <2>1. /\ Len(resp) \in 1 .. 128 /\ IsFiniteSet(Seqs)
        /\ Cardinality(Seqs) = Len(resp) /\ seenpacket \subseteq Seqs
    BY <2>s, SeqsFinite DEF Counting
  <2>2. /\ Cardinality(seenpacket) \in Nat
        /\ Cardinality(seenpacket) <= Cardinality(Seqs)
        /\ Cardinality(seenpacket) = Cardinality(Seqs) => seenpacket = Seqs
    BY <2>1, FS_Subset, FS_CardinalityType
  <2>3. Cardinality(seenpacket) > lastseq
    BY <2>s DEF Counting
  <2>4. CASE Len(resp) - 1 \in seenpacket
    <3>1. lastseq = Len(resp) - 1
      BY <2>s, <2>4 DEF Counting
    <3>2. Cardinality(seenpacket) = Cardinality(Seqs)
      BY <2>1, <2>2, <2>3, <3>1
    <3>. QED
      BY <2>2, <3>2
  <2>5. CASE Len(resp) - 1 \notin seenpacket
    <3>1. lastseq = 999
      BY <2>s, <2>5 DEF Counting, NoSeq
    <3>2. Cardinality(Seqs) \in Int /\ Cardinality(Seqs) <= 128
      BY <2>a, <2>b, <2>1, Zenon
    <3>3. FALSE
      BY <2>2, <2>3, <3>1, <3>2
    <3>. QED
      BY <3>3
  <2>. QED
    BY <2>4, <2>5
<1>. QED
  BY <1>1, CountingAlways, PTL

-----------------------------------------------------------------------------
(* The number of peers.                                                    *)

(* ritems is the number of peers in the packets that were counted, all of  *)
(* which fit into the array.                                               *)
Tallied ==
  /\ seenpacket \subseteq 0 .. (MAXPACKETS - 1)
  /\ ritems = Summer(resp, Seqs)[seenpacket]
  /\ ntp = "done" /\ peers # -1 => peers = ritems
  /\ ntp = "idle" => ritems = 0

(* Before the first packet nothing is added up.                            *)
LEMMA EmptySum ==
  ASSUME NEW r \in Responses
  PROVE  Summer(r, 0 .. (Len(r) - 1))[{}] = 0
PROOF
<1>. DEFINE U == 0 .. (Len(r) - 1)
<1>1. IsFiniteSet(U)
  <2>1. 0 \in Int /\ Len(r) - 1 \in Int
    BY ResponsesAssumption
  <2>. QED
    BY <2>1, FS_Interval
<1>. HIDE DEF U
<1>2. Sums(Summer(r, U), r, U)
  BY <1>1, SummerExists DEF Summer
<1>3. Summer(r, U)[{}] = 0
  BY <1>2 DEF Sums
<1>. QED
  BY <1>3 DEF U

(* A new packet adds its peers to the sum.                                 *)
LEMMA PacketAdds ==
  ASSUME Counting, NEW q \in Seqs, q \notin seenpacket
  PROVE  Summer(resp, Seqs)[seenpacket \cup {q}]
           = Summer(resp, Seqs)[seenpacket] + resp[q + 1]
PROOF
<1>1. IsFiniteSet(Seqs) /\ Len(resp) \in 1 .. 128 /\ resp \in Seq(Nat)
  BY SeqsFinite, ResponsesAssumption DEF Counting
<1>2. \A x \in Seqs : resp[x + 1] \in Nat
  <2>1. \A x \in Seqs : x + 1 \in 1 .. Len(resp)
    BY <1>1 DEF Seqs
  <2>. QED
    BY <1>1, <2>1
<1>3. Sums(Summer(resp, Seqs), resp, Seqs)
  BY <1>1, SummerExists DEF Summer
<1>. DEFINE g == Summer(resp, Seqs)
<1>. HIDE DEF g
<1>4. \A V \in SUBSET Seqs :
        g[V] \in Nat /\ \A x \in Seqs \ V : g[V \cup {x}] = g[V] + resp[x + 1]
  <2>1. Sums(g, resp, Seqs)
    BY <1>3 DEF g
  <2>. QED
    BY <1>1, <1>2, <2>1, SumAdds
<1>5. seenpacket \in SUBSET Seqs /\ q \in Seqs \ seenpacket
  BY DEF Counting
<1>. QED
  BY <1>4, <1>5, Zenon DEF g

(* Every step keeps the sum.                                               *)
LEMMA TalliedNext == ASSUME Counting, Tallied, [NtpNext]_ntpVars PROVE Tallied'
PROOF
<1>s. ASSUME resp' = resp PROVE Seqs' = Seqs
  BY <1>s DEF Seqs
<1>r. ASSUME Finish(-1) PROVE Tallied'
  BY <1>r, <1>s DEF Finish, books, Tallied
<1>0. CASE lbcd_ntp_weight
  <2>1. /\ resp' \in Responses /\ seenpacket' = {} /\ ritems' = 0 /\ ntp' = "connect"
    BY <1>0 DEF lbcd_ntp_weight, books, Counting, Tallied
  <2>2. Summer(resp', Seqs')[{}] = 0
    BY <2>1, EmptySum DEF Seqs
  <2>. QED
    BY <2>1, <2>2 DEF Tallied
<1>1. CASE udp_connect \/ sendrequest
  BY <1>1, <1>r, <1>s DEF udp_connect, sendrequest, Advance, books, Tallied
<1>2. CASE Wait
  BY <1>2, <1>s DEF Wait, books, Tallied
<1>3. CASE TimedOut \/ Interrupted
  BY <1>3, <1>r DEF TimedOut, Interrupted
<1>6. ASSUME NEW p \in Train \cup Junk, Deliver(p) PROVE Tallied'
  BY <1>6, <1>s DEF Deliver, books, Tallied
<1>4. CASE getresponse
  <2>. DEFINE p == inbuf[1]
  <2>p. p \in Train \cup Junk
    BY <1>4 DEF getresponse, Counting
  <2>d. Ignore(p) \/ Error(p) \/ Collect(p)
    BY <1>4 DEF getresponse
  <2>. HIDE DEF p
  <2>1. CASE Ignore(p)
    BY <2>1, <1>s DEF Ignore, books, Tallied
  <2>2. CASE Error(p)
    BY <2>2, <1>r DEF Error
  <2>3. CASE Collect(p)
    <3>1. p \in Train
      BY <2>p, <2>3, JunkAssumption DEF Collect
    <3>2. PICK q \in Seqs : p = Genuine(q)
      BY <3>1 DEF Train, Seqs
    <3>3. p.seq = q /\ p.err = 0 /\ p.items = resp[q + 1]
      BY <3>2, Zenon DEF Genuine
    <3>4. q \notin seenpacket /\ ~ (q >= MAXPACKETS)
      BY <2>3, <3>3 DEF Collect, Ignored
    <3>5. q \in 0 .. (MAXPACKETS - 1)
      <4>1. Len(resp) \in Nat
        BY SeqsFinite DEF Counting
      <4>2. q \in Nat /\ MAXPACKETS \in Nat
        BY <4>1, NtpAssumption DEF Seqs, NoSeq
      <4>. QED
        BY <3>4, <4>2
    <3>6. /\ resp' = resp /\ seenpacket' = seenpacket \cup {q}
          /\ ritems' = ritems + resp[q + 1] /\ ntp = "select"
          /\ ntp' = ntp \/ (ntp' = "done" /\ peers' = ritems')
      BY <1>4, <2>3, <3>3, Zenon DEF Collect, getresponse
    <3>7. ritems' = Summer(resp, Seqs)[seenpacket']
      BY <3>4, <3>6, PacketAdds DEF Tallied
    <3>. QED
      BY <1>s, <3>5, <3>6, <3>7 DEF Tallied
  <2>. QED
    BY <2>d, <2>1, <2>2, <2>3
<1>5. CASE UNCHANGED ntpVars
  BY <1>5, <1>s DEF ntpVars, books, Tallied
<1>. QED
  BY <1>0, <1>1, <1>2, <1>3, <1>4, <1>5, <1>6 DEF NtpNext

(* What a successful probe returns is the number of peers in the whole     *)
(* answer of the server, each packet of which was counted once and within  *)
(* the array, for answers of every length the protocol allows.             *)
THEOREM WholeCount == NtpSpec => []CountsEachPacketOnce
PROOF
<1>1. NtpInit => Tallied
  <2>. SUFFICES ASSUME NtpInit PROVE Tallied
    OBVIOUS
  <2>1. Summer(resp, Seqs)[{}] = 0
    BY ResponsesAssumption, EmptySum DEF NtpInit, Seqs
  <2>. QED
    BY <2>1 DEF NtpInit, Tallied
<1>2. Counting /\ Tallied /\ [NtpNext]_ntpVars => Tallied'
  BY TalliedNext
<1>3. Tallied /\ Complete => CountsEachPacketOnce
  <2>1. MapThenSumSet(LAMBDA q : resp[q + 1], Seqs) = Summer(resp, Seqs)[Seqs]
    BY Zenon DEF MapThenSumSet, MapThenFoldSet, Summer, Sums, Pick
  <2>. QED
    BY <2>1 DEF Tallied, Complete, CountsEachPacketOnce
<1>. QED
  BY <1>1, <1>2, <1>3, CountingAlways, CompleteAnswer, PTL DEF NtpSpec

-----------------------------------------------------------------------------
(* The time.                                                               *)

(* The probe never sleeps longer than its timeout, however many packets    *)
(* arrive in between: what select leaves in tv is used up, never restored. *)
THEOREM SleepIsBounded == NtpSpec => []Sleeps
PROOF
<1>. DEFINE Paid == tv \in Nat /\ waited \in Nat /\ waited + tv = NtpTimeout
<1>1. NtpInit => Paid
  BY NtpAssumption DEF NtpInit
<1>2. Paid /\ [NtpNext]_ntpVars => Paid'
  <2>. SUFFICES ASSUME Paid, [NtpNext]_ntpVars PROVE Paid'
    OBVIOUS
  <2>1. CASE Wait
    BY <2>1 DEF Wait
  <2>2. CASE UNCHANGED <<tv, waited>>
    BY <2>2
  <2>3. Wait \/ UNCHANGED <<tv, waited>>
    BY Zenon DEF NtpNext, ntpVars, lbcd_ntp_weight, udp_connect, sendrequest, getresponse,
       Ignore, Error, Collect, TimedOut, Interrupted, Deliver, Finish, Advance
  <2>. QED
    BY <2>1, <2>2, <2>3
<1>3. Paid => Sleeps
  BY NtpAssumption DEF Sleeps
<1>. HIDE DEF Paid
<1>. QED
  BY <1>1, <1>2, <1>3, PTL DEF NtpSpec

-----------------------------------------------------------------------------
(* The table of names.                                                     *)

(* What the hash table and the vector hold of the names M that have come   *)
(* in n sessions: no name is missed, none is invented, and while they fit  *)
(* into the table each is counted once.                                    *)
Tallies(u, M, n) ==
  /\ IsFiniteSet(M)
  /\ u.table \subseteq M
  /\ u.count \in Nat /\ u.count <= n
  /\ Cardinality(M) <= u.count
  /\ Cardinality(M) <= HashSize => u.table = M /\ u.count = Cardinality(M)

(* uniq_add keeps the table right.                                         *)
LEMMA AddTallies ==
  ASSUME NEW u, NEW M, NEW n \in Nat, NEW x, Tallies(u, M, n)
  PROVE  Tallies(uniq_add(u, x), M \cup {x}, n + 1)
PROOF
<1>1. /\ IsFiniteSet(M) /\ u.table \subseteq M /\ u.count \in Nat /\ u.count <= n
      /\ Cardinality(M) <= u.count
      /\ Cardinality(M) <= HashSize => u.table = M /\ u.count = Cardinality(M)
  BY DEF Tallies
<1>2. /\ IsFiniteSet(M \cup {x}) /\ Cardinality(M) \in Nat
      /\ Cardinality(M \cup {x}) =
           IF x \in M THEN Cardinality(M) ELSE Cardinality(M) + 1
  BY <1>1, FS_AddElement, FS_CardinalityType
<1>3. CASE x \in u.table
  <2>1. uniq_add(u, x) = u /\ M \cup {x} = M
    BY <1>1, <1>3 DEF uniq_add
  <2>2. u.count <= n + 1
    BY <1>1
  <2>. QED
    BY <1>1, <2>1, <2>2 DEF Tallies
<1>4. CASE x \notin u.table
  <2>. DEFINE b == uniq_add(u, x)
  <2>1. /\ b.count = u.count + 1
        /\ b.table = IF Cardinality(u.table) < HashSize
                     THEN u.table \cup {x} ELSE u.table
    BY <1>4 DEF uniq_add
  <2>. HIDE DEF b
  <2>2. b.table \subseteq M \cup {x}
    BY <1>1, <2>1
  <2>3. ASSUME Cardinality(M \cup {x}) <= HashSize
        PROVE  b.table = M \cup {x} /\ b.count = Cardinality(M \cup {x})
    <3>1. Cardinality(M) <= HashSize
      BY <1>2, <2>3, SizesAssumption
    <3>2. u.table = M /\ u.count = Cardinality(M) /\ x \notin M
      BY <1>1, <1>4, <3>1
    <3>3. Cardinality(M \cup {x}) = Cardinality(M) + 1
      BY <1>2, <3>2
    <3>4. Cardinality(u.table) < HashSize
      BY <1>2, <2>3, <3>2, <3>3, SizesAssumption
    <3>. QED
      BY <2>1, <3>2, <3>3, <3>4
  <2>4. b.count \in Nat /\ b.count <= n + 1 /\ Cardinality(M \cup {x}) <= b.count
    BY <1>1, <1>2, <2>1
  <2>5. Tallies(b, M \cup {x}, n + 1)
    BY <1>2, <2>2, <2>3, <2>4 DEF Tallies
  <2>. QED
    BY <2>5 DEF b
<1>. QED
  BY <1>3, <1>4

(* The names after one more session.                                       *)
LEMMA NamesAppend ==
  ASSUME NEW l \in Seq(Sessions), NEW e \in Sessions
  PROVE  Names(Append(l, e)) = Names(l) \cup {e.name}
PROOF
<1>. DEFINE L == Append(l, e)
            n == Len(l)
<1>1. /\ n \in Nat /\ DOMAIN l = 1 .. n /\ DOMAIN L = 1 .. (n + 1)
      /\ L[n + 1] = e /\ \A j \in 1 .. n : L[j] = l[j]
  OBVIOUS
<1>. HIDE DEF L, n
<1>2. \A j \in 1 .. (n + 1) : j \in 1 .. n \/ j = n + 1
  BY <1>1
<1>3. \A j \in 1 .. n : j \in 1 .. (n + 1)
  BY <1>1
<1>4. n + 1 \in 1 .. (n + 1)
  BY <1>1
<1>5. ToSet(L) = ToSet(l) \cup {e}
  BY <1>1, <1>2, <1>3, <1>4 DEF ToSet
<1>6. Names(L) = Names(l) \cup {e.name}
  BY <1>5 DEF Names
<1>. QED
  BY <1>6 DEF L

(* No more beginnings of names than names.                                 *)
LEMMA EightsBound ==
  ASSUME NEW l, IsFiniteSet(Names(l))
  PROVE  /\ Cardinality(Eights(l)) \in Nat
         /\ Cardinality(Eights(l)) <= Cardinality(Names(l))
PROOF
<1>. DEFINE S == Names(l)
            T == Eights(l)
            f == [x \in S |-> x[1]]
<1>1. T = {x[1] : x \in S}
  BY DEF Eights
<1>. HIDE DEF S, T
<1>2. f \in [S -> T] /\ \A y \in T : \E x \in S : f[x] = y
  BY <1>1
<1>3. f \in Surjection(S, T)
  <2>. HIDE DEF f
  <2>. QED
    BY <1>2 DEF Surjection
<1>4. IsFiniteSet(T) /\ Cardinality(T) <= Cardinality(S)
  <2>1. IsFiniteSet(S)
    BY DEF S
  <2>. HIDE DEF f
  <2>. QED
    BY <1>3, <2>1, FS_Surjection
<1>. QED
  BY <1>4, FS_CardinalityType DEF S, T

-----------------------------------------------------------------------------
(* The counts.                                                             *)

(* The counts are never more unique users than sessions, in the answer and *)
(* in the cache; while the file is read and until the result is stored,    *)
(* they are those of the sessions that were seen.                          *)
Counts ==
  /\ utmp \in Seq(Entries) /\ seen \in Seq(Sessions)
  /\ orphan # << >> => orphan[1] \in Seq(Entries)
  /\ pos \in Nat
  /\ total \in Nat /\ uniq \in Nat /\ uniq <= total
  /\ last_total \in Nat /\ last_uniq \in Nat /\ last_uniq <= last_total
  /\ at \in {"idle", "console", "open"} => seen = << >>
  /\ at \in {"console", "open"} => total = 0
  /\ at \in {"console", "open", "read"} => uniq = 0
  /\ at = "read" => total = Len(seen) /\ Tallies(users, Names(seen), Len(seen))
  /\ at = "save" => \E u : u.count = uniq /\ Tallies(u, Names(seen), Len(seen))

(* Before the first session.                                               *)
LEMMA StartTallies == Tallies(uniq_start, Names(<< >>), 0)
PROOF
<1>1. ToSet(<< >>) = {}
  BY DEF ToSet
<1>2. Names(<< >>) = {}
  BY <1>1 DEF Names
<1>. QED
  BY <1>2, FS_EmptySet DEF Tallies, uniq_start

(* Every step keeps the counts consistent with each other.                 *)
LEMMA NextCounts == ASSUME Counts, [UserNext]_userVars PROVE Counts'
PROOF
<1>. USE DEF file, stream, answer, cache, history
<1>1. CASE Stat
  <2>1. /\ UNCHANGED <<utmp, orphan, pos, seen, last_total, last_uniq>>
        /\ at = "idle" /\ at' \in {"idle", "console"}
        /\ \/ total' = last_total /\ uniq' = last_uniq /\ at' = "idle"
           \/ total' = 0 /\ uniq' = 0
    BY <1>1 DEF Stat
  <2>. QED
    BY <2>1 DEF Counts
<1>2. CASE Console
  BY <1>2 DEF Console, Counts
<1>3. CASE Open
  <2>1. /\ UNCHANGED <<utmp, total, uniq, last_total, last_uniq, seen>>
        /\ at = "open" /\ at' = "read" /\ pos' = 0 /\ orphan' = << >>
        /\ users' = uniq_start
    BY <1>3 DEF Open
  <2>2. seen' = << >> /\ total' = 0 /\ Len(seen') = 0
    BY <2>1 DEF Counts
  <2>3. Tallies(users', Names(seen'), Len(seen'))
    BY <2>1, <2>2, StartTallies
  <2>4. (Tallies(users, Names(seen), Len(seen)))'
    BY <2>3
  <2>. QED
    BY <2>1, <2>2, <2>4 DEF Counts
<1>4. CASE ReadEntry
  <2>1. /\ UNCHANGED <<utmp, orphan, uniq, last_total, last_uniq, at>>
        /\ at = "read" /\ pos' = pos + 1
    BY <1>4 DEF ReadEntry
  <2>2. Source \in Seq(Entries)
    BY DEF Counts, Source
  <2>. DEFINE e == Source[pos + 1]
  <2>3. e \in Entries
    BY <1>4, <2>2 DEF ReadEntry, Counts
  <2>4. CASE e = Dead
    <3>1. UNCHANGED <<users, total, seen>>
      BY <1>4, <2>4 DEF ReadEntry
    <3>. QED
      BY <2>1, <3>1 DEF Counts
  <2>5. CASE e # Dead
    <3>1. /\ total' = total + 1 /\ users' = uniq_add(users, e.name)
          /\ seen' = Append(seen, e)
      BY <1>4, <2>5 DEF ReadEntry
    <3>2. e \in Sessions /\ seen \in Seq(Sessions)
      BY <2>3, <2>5 DEF Entries, Counts
    <3>. HIDE DEF e
    <3>3. /\ seen' \in Seq(Sessions) /\ Len(seen') = Len(seen) + 1
          /\ Len(seen) \in Nat /\ Names(seen') = Names(seen) \cup {e.name}
      BY <3>1, <3>2, NamesAppend
    <3>4. Tallies(users, Names(seen), Len(seen)) /\ total = Len(seen)
      BY <2>1 DEF Counts
    <3>5. Tallies(users', Names(seen'), Len(seen'))
      BY <3>1, <3>3, <3>4, AddTallies
    <3>6. (Tallies(users, Names(seen), Len(seen)))'
      BY <3>5
    <3>7. total' = Len(seen') /\ total' \in Nat /\ uniq' <= total'
      BY <2>1, <3>1, <3>3, <3>4 DEF Counts
    <3>. QED
      BY <2>1, <3>3, <3>6, <3>7 DEF Counts
  <2>. QED
    BY <2>4, <2>5
<1>5. CASE EndOfFile
  <2>1. /\ UNCHANGED <<utmp, total, last_total, last_uniq, seen>>
        /\ at = "read" /\ at' = "save" /\ pos' = 0 /\ orphan' = << >>
        /\ uniq' = users.count
    BY <1>5 DEF EndOfFile
  <2>2. Tallies(users, Names(seen), Len(seen)) /\ total = Len(seen)
    BY <2>1 DEF Counts
  <2>3. uniq' \in Nat /\ uniq' <= total'
    BY <2>1, <2>2 DEF Tallies
  <2>4. Names(seen') = Names(seen)
    BY <2>1
  <2>5. (\E u : u.count = uniq /\ Tallies(u, Names(seen), Len(seen)))'
    BY <2>1, <2>2, <2>4
  <2>. QED
    BY <2>1, <2>3, <2>5 DEF Counts
<1>6. CASE Save
  <2>1. /\ UNCHANGED <<utmp, orphan, pos, total, uniq>> /\ at' = "idle"
        /\ seen' = << >> /\ last_total' = total /\ last_uniq' = uniq
    BY <1>6 DEF Save
  <2>. QED
    BY <2>1 DEF Counts
<1>7. CASE /\ UNCHANGED <<at, users, total, uniq, last_total, last_uniq, seen, pos>>
           /\ utmp' \in Seq(Entries)
           /\ orphan' # << >> => orphan'[1] \in Seq(Entries)
  <2>1. Names(seen') = Names(seen)
    BY <1>7
  <2>. QED
    BY <1>7, <2>1 DEF Counts
<1>8. ASSUME NEW e \in Sessions, Login(e) PROVE Counts'
  <2>1. utmp' \in Seq(Entries)
    <3>1. utmp \in Seq(Entries) /\ e \in Entries
      BY DEF Counts, Entries
    <3>2. CASE utmp' = Append(utmp, e)
      BY <3>1, <3>2
    <3>3. CASE \E k \in 1 .. Len(utmp) : utmp' = [utmp EXCEPT ![k] = e]
      BY <3>1, <3>3
    <3>. QED
      BY <1>8, <3>2, <3>3 DEF Login
  <2>. QED
    BY <1>7, <1>8, <2>1 DEF Login, Changed, Counts
<1>9. ASSUME NEW k \in 1 .. Len(utmp), Logout(k) PROVE Counts'
  <2>1. utmp' \in Seq(Entries)
    BY <1>9 DEF Logout, Counts, Entries
  <2>. QED
    BY <1>7, <1>9, <2>1 DEF Logout, Changed, Counts
<1>10. CASE Rotate
  <2>1. Source \in Seq(Entries) /\ << >> \in Seq(Entries)
    BY DEF Counts, Source
  <2>. HIDE DEF Source
  <2>. QED
    BY <1>7, <1>10, <2>1 DEF Rotate, Counts
<1>11. CASE Chown \/ Create \/ Tick \/ UNCHANGED userVars
  <2>1. UNCHANGED <<utmp, orphan, at, users, total, uniq, last_total, last_uniq, seen, pos>>
    BY <1>11, Zenon DEF Chown, Create, Changed, Tick, userVars
  <2>. QED
    BY <1>7, <2>1 DEF Counts
<1>. QED
  BY <1>1, <1>2, <1>3, <1>4, <1>5, <1>6, <1>8, <1>9, <1>10, <1>11 DEF UserNext

(* The counts are consistent in every state.                               *)
LEMMA CountsAlways == UserSpec => []Counts
PROOF
<1>1. UserInit => Counts
  BY DEF UserInit, Counts
<1>2. Counts /\ [UserNext]_userVars => Counts'
  BY NextCounts
<1>. QED
  BY <1>1, <1>2, PTL DEF UserSpec

(* Whatever the size of the table and of the file, and however the file    *)
(* changes while it is read, no user is missed, the count is exact while   *)
(* the names fit, and there are never more unique users than sessions.     *)
THEOREM UniqueUsersAreCounted == UserSpec => []UniqExact
PROOF
<1>1. Counts => UniqExact
  <2>. SUFFICES ASSUME Counts PROVE UniqExact
    OBVIOUS
  <2>1. ASSUME at = "save"
        PROVE  /\ uniq >= Cardinality(Eights(seen))
               /\ Fits => uniq = Cardinality(Names(seen))
    <3>1. PICK u : u.count = uniq /\ Tallies(u, Names(seen), Len(seen))
      BY <2>1 DEF Counts
    <3>2. /\ uniq \in Nat /\ IsFiniteSet(Names(seen))
          /\ Cardinality(Names(seen)) <= uniq
          /\ Fits => uniq = Cardinality(Names(seen))
      BY <3>1 DEF Tallies, Fits
    <3>3. /\ Cardinality(Eights(seen)) \in Nat /\ Cardinality(Names(seen)) \in Nat
          /\ Cardinality(Eights(seen)) <= Cardinality(Names(seen))
      BY <3>2, EightsBound, FS_CardinalityType
    <3>. QED
      BY <3>2, <3>3
  <2>2. uniq <= total /\ last_uniq <= last_total
    BY DEF Counts
  <2>. QED
    BY <2>1, <2>2 DEF UniqExact
<1>. QED
  BY <1>1, CountsAlways, PTL

-----------------------------------------------------------------------------
(* The cache.                                                              *)

(* The clock and the times taken from it.                                  *)
Times ==
  /\ now \in Nat \ {0} /\ mtime \in Nat /\ user_mtime \in Nat
  /\ counted \in Nat /\ last_user_mtime \in Nat
  /\ mtime <= now /\ user_mtime <= now /\ counted <= now

(* Counts t and c tell the sessions among the first k entries.             *)
Tells(t, c, k) == /\ t = Cardinality(Live(k))
                  /\ (\E j \in Live(k) : utmp[j].console) => c

(* What is in the cache: it is filed under a time not later than that of   *)
(* the read, and a change of the file since then has given the file a      *)
(* later time, unless it came in the same second.                          *)
Cached ==
  at \in {"idle", "console", "open"} =>
    /\ last_user_mtime <= counted
    /\ CacheHit /\ counted # mtime => Tells(last_total, last_on_console, Len(utmp))

(* The same of the counts while the file is read, for what was read of it, *)
(* and until they are stored.                                              *)
Fresh ==
  at \in {"read", "save"} =>
    /\ user_mtime <= counted
    /\ mtime > 0 /\ mtime = user_mtime /\ counted # mtime =>
         /\ at = "read" => /\ orphan = << >> /\ pos \in 0 .. Len(utmp)
                           /\ Tells(total, on_console, pos)
         /\ at = "save" => Tells(total, on_console, Len(utmp))

UserInv == Times /\ Cached /\ Fresh

(* A change of the file at this moment leaves no way for the cache, or for *)
(* what will be stored in it, to pass for current.                         *)
LEMMA ChangeNoticed ==
  ASSUME UserInv, mtime' \in {now, 0}, now' = now,
         UNCHANGED <<at, user_mtime, last_user_mtime, counted>>
  PROVE  UserInv'
PROOF
<1>1. Times'
  BY DEF UserInv, Times
<1>2. /\ at \in {"idle", "console", "open"} => last_user_mtime <= counted
      /\ at \in {"read", "save"} => user_mtime <= counted
  BY DEF UserInv, Cached, Fresh
<1>3. at \in {"idle", "console", "open"} =>
        ~ (mtime' > 0 /\ mtime' = last_user_mtime' /\ counted' # mtime')
  BY <1>2 DEF UserInv, Times
<1>4. at \in {"read", "save"} =>
        ~ (mtime' > 0 /\ mtime' = user_mtime' /\ counted' # mtime')
  BY <1>2 DEF UserInv, Times
<1>. QED
  BY <1>1, <1>2, <1>3, <1>4 DEF UserInv, Cached, Fresh, CacheHit

(* The entry that is read next is counted if it is a session.              *)
LEMMA LiveStep ==
  ASSUME NEW k \in Nat
  PROVE  /\ IsFiniteSet(Live(k)) /\ Cardinality(Live(k)) \in Nat
         /\ utmp[k + 1] = Dead => Live(k + 1) = Live(k)
         /\ utmp[k + 1] # Dead =>
              /\ Live(k + 1) = Live(k) \cup {k + 1}
              /\ Cardinality(Live(k + 1)) = Cardinality(Live(k)) + 1
PROOF
<1>1. IsFiniteSet(1 .. k)
  BY FS_Interval
<1>2. IsFiniteSet(Live(k)) /\ Cardinality(Live(k)) \in Nat
  BY <1>1, FS_Subset, FS_CardinalityType DEF Live
<1>3. /\ k + 1 \in 1 .. (k + 1) /\ k + 1 \notin 1 .. k
      /\ \A j : j \in 1 .. (k + 1) <=> (j \in 1 .. k \/ j = k + 1)
  OBVIOUS
<1>4. utmp[k + 1] = Dead => Live(k + 1) = Live(k)
  BY <1>3 DEF Live
<1>5. utmp[k + 1] # Dead => Live(k + 1) = Live(k) \cup {k + 1}
  BY <1>3 DEF Live
<1>6. k + 1 \notin Live(k)
  BY <1>3 DEF Live
<1>. QED
  BY <1>2, <1>4, <1>5, <1>6, FS_AddElement

(* Every step of the call, of the users and of the clock keeps the cache   *)
(* usable.                                                                 *)
LEMMA NextUserInv == ASSUME UserInv, Counts, [UserNext]_userVars PROVE UserInv'
PROOF
<1>. USE DEF file, stream, answer, cache, history
<1>0. ASSUME utmp' = utmp PROVE \A k : Live(k)' = Live(k)
  BY <1>0 DEF Live
<1>t. ASSUME utmp' = utmp
      PROVE  \A t, c, k : Tells(t, c, k) <=> (/\ t = Cardinality(Live(k)')
                                              /\ (\E j \in Live(k)' : utmp'[j].console) => c)
  BY <1>t, <1>0 DEF Tells
<1>1. CASE Stat
  <2>1. /\ UNCHANGED <<now, mtime, utmp, counted, last_user_mtime, last_total,
                       last_on_console>>
        /\ at = "idle" /\ at' \in {"idle", "console"} /\ user_mtime' = mtime
    BY <1>1 DEF Stat
  <2>. QED
    BY <2>1, <1>t DEF UserInv, Times, Cached, Fresh, CacheHit, Tells
<1>2. CASE Console
  <2>1. /\ UNCHANGED <<now, mtime, utmp, counted, last_user_mtime, last_total,
                       last_on_console, user_mtime>>
        /\ at = "console" /\ at' = "open"
    BY <1>2 DEF Console
  <2>. QED
    BY <2>1, <1>t DEF UserInv, Times, Cached, Fresh, CacheHit, Tells
<1>3. CASE Open
  <2>1. /\ UNCHANGED <<now, mtime, utmp, last_user_mtime, user_mtime, total, on_console>>
        /\ at = "open" /\ at' = "read" /\ pos' = 0 /\ orphan' = << >>
        /\ counted' = now /\ total' = 0 /\ Len(utmp) \in Nat
    BY <1>3 DEF Open, Counts
  <2>2. Live(0) = {}
    BY DEF Live
  <2>3. Tells(0, on_console, 0)
    BY <2>2, FS_EmptySet DEF Tells
  <2>4. (Tells(total, on_console, pos))'
    BY <2>1, <2>3, <1>t DEF Tells
  <2>5. pos' \in 0 .. Len(utmp')
    BY <2>1
  <2>. QED
    BY <2>1, <2>4, <2>5 DEF UserInv, Times, Cached, Fresh
<1>4. CASE ReadEntry
  <2>1. /\ UNCHANGED <<now, mtime, utmp, last_user_mtime, user_mtime, counted, orphan>>
        /\ at = "read" /\ at' = "read" /\ pos' = pos + 1 /\ pos < Len(Source)
        /\ pos \in Nat /\ Len(utmp) \in Nat
    BY <1>4 DEF ReadEntry, Counts
  <2>2. Times' /\ Cached'
    BY <2>1 DEF UserInv, Times, Cached
  <2>3. ASSUME mtime > 0, mtime = user_mtime, counted # mtime
        PROVE  pos' \in 0 .. Len(utmp') /\ orphan' = << >>
               /\ (Tells(total, on_console, pos))'
    <3>1. orphan = << >> /\ Tells(total, on_console, pos) /\ Source = utmp
      BY <2>1, <2>3 DEF UserInv, Fresh, Source
    <3>2. pos + 1 \in 0 .. Len(utmp)
      BY <2>1, <3>1
    <3>3. CASE utmp[pos + 1] = Dead
      <4>1. UNCHANGED <<total, on_console>> /\ Live(pos + 1) = Live(pos)
        BY <1>4, <2>1, <3>1, <3>3, LiveStep DEF ReadEntry
      <4>2. Tells(total', on_console', pos')
        BY <2>1, <3>1, <4>1 DEF Tells
      <4>3. (Tells(total, on_console, pos))'
        BY <2>1, <4>2, <1>t DEF Tells
      <4>. QED
        BY <2>1, <3>1, <3>2, <4>3
    <3>4. CASE utmp[pos + 1] # Dead
      <4>1. /\ total' = total + 1
            /\ on_console' = (on_console \/ utmp[pos + 1].console)
        BY <1>4, <3>1, <3>4 DEF ReadEntry
      <4>2. /\ Live(pos + 1) = Live(pos) \cup {pos + 1}
            /\ Cardinality(Live(pos + 1)) = Cardinality(Live(pos)) + 1
        BY <2>1, <3>4, LiveStep
      <4>3. total' = Cardinality(Live(pos'))
        BY <2>1, <3>1, <4>1, <4>2 DEF Tells
      <4>4. (\E j \in Live(pos') : utmp[j].console) => on_console'
        BY <2>1, <3>1, <4>1, <4>2, Zenon DEF Tells
      <4>5. (Tells(total, on_console, pos))'
        BY <2>1, <4>3, <4>4, <1>t DEF Tells
      <4>. QED
        BY <2>1, <3>1, <3>2, <4>5
    <3>. QED
      BY <3>3, <3>4
  <2>4. Fresh'
    BY <2>1, <2>3 DEF UserInv, Fresh
  <2>. QED
    BY <2>2, <2>4 DEF UserInv
<1>5. CASE EndOfFile
  <2>1. /\ UNCHANGED <<now, mtime, utmp, last_user_mtime, user_mtime, counted, total,
                       on_console>>
        /\ at = "read" /\ at' = "save" /\ pos >= Len(Source)
        /\ pos \in Nat /\ Len(utmp) \in Nat
    BY <1>5 DEF EndOfFile, Counts
  <2>2. Times' /\ Cached'
    BY <2>1 DEF UserInv, Times, Cached
  <2>3. ASSUME mtime > 0, mtime = user_mtime, counted # mtime
        PROVE  (Tells(total, on_console, Len(utmp)))'
    <3>1. orphan = << >> /\ Tells(total, on_console, pos) /\ Source = utmp
          /\ pos \in 0 .. Len(utmp)
      BY <2>1, <2>3 DEF UserInv, Fresh, Source
    <3>2. pos = Len(utmp)
      BY <2>1, <3>1
    <3>3. Tells(total, on_console, Len(utmp))
      BY <3>1, <3>2
    <3>. QED
      BY <2>1, <3>3, <1>t DEF Tells
  <2>4. Fresh'
    BY <2>1, <2>3 DEF UserInv, Fresh
  <2>. QED
    BY <2>2, <2>4 DEF UserInv
<1>6. CASE Save
  <2>1. /\ UNCHANGED <<now, mtime, utmp, user_mtime, counted>>
        /\ at = "save" /\ at' = "idle" /\ last_total' = total
        /\ last_on_console' = on_console /\ last_user_mtime' = user_mtime
    BY <1>6 DEF Save
  <2>. QED
    BY <2>1, <1>t DEF UserInv, Times, Cached, Fresh, CacheHit, Tells
<1>7. ASSUME NEW e \in Sessions, Login(e) PROVE UserInv'
  BY <1>7, ChangeNoticed DEF Login, Changed
<1>8. ASSUME NEW k \in 1 .. Len(utmp), Logout(k) PROVE UserInv'
  BY <1>8, ChangeNoticed DEF Logout, Changed
<1>9. CASE Rotate \/ Create
  BY <1>9, ChangeNoticed DEF Rotate, Create, Changed
<1>10. CASE Chown \/ Tick \/ UNCHANGED userVars
  <2>1. /\ UNCHANGED <<utmp, mtime, at, pos, orphan, user_mtime, on_console, total,
                       last_total, last_on_console, last_user_mtime, counted>>
        /\ now' = now \/ now' = now + 1
    BY <1>10, Zenon DEF Chown, Tick, userVars
  <2>2. /\ Tells(last_total, last_on_console, Len(utmp))
             <=> Tells(last_total, last_on_console, Len(utmp))'
        /\ Tells(total, on_console, pos) <=> Tells(total, on_console, pos)'
        /\ Tells(total, on_console, Len(utmp))
             <=> Tells(total, on_console, Len(utmp))'
    BY <2>1, Zenon DEF Tells, Live
  <2>3. Times'
    BY <2>1 DEF UserInv, Times
  <2>4. Cached'
    BY <2>1, <2>2 DEF UserInv, Cached, CacheHit
  <2>5. Fresh'
    BY <2>1, <2>2 DEF UserInv, Fresh
  <2>. QED
    BY <2>3, <2>4, <2>5 DEF UserInv
<1>. QED
  BY <1>1, <1>2, <1>3, <1>4, <1>5, <1>6, <1>7, <1>8, <1>9, <1>10 DEF UserNext

(* A cache hit tells the sessions of the file as it is, up to changes in   *)
(* the very second in which it was opened.                                 *)
THEOREM CacheIsCoherent == UserSpec => []CacheCoherent
PROOF
<1>1. UserInit => UserInv
  BY DEF UserInit, UserInv, Times, Cached, Fresh, CacheHit
<1>2. UserInv /\ Counts /\ [UserNext]_userVars => UserInv'
  BY NextUserInv
<1>3. UserInv => CacheCoherent
  BY DEF UserInv, Cached, CacheCoherent, Tells
<1>. QED
  BY <1>1, <1>2, <1>3, CountsAlways, PTL DEF UserSpec
=============================================================================
