---------------------------- MODULE NetIOProofs -----------------------------
(***************************************************************************)
(* Proofs about one call into util/network.c or util/xwrite.c, for every   *)
(* amount of data, every timeout, every vector of buffers and any number   *)
(* of signals.                                                             *)
(***************************************************************************)
EXTENDS NetIO, FiniteSetTheorems, SequenceTheorems, WellFoundedInduction, TLAPS

-----------------------------------------------------------------------------
(* Induction.  A statement about all natural numbers is proved by showing  *)
(* that the set of the numbers it holds for is closed; that rests on the   *)
(* well-foundedness of <.                                                  *)

(* A set of natural numbers has a least element.                           *)
LEMMA LeastElement ==
  ASSUME NEW T, T \subseteq Nat, T # {}
  PROVE  \E m \in T : \A k \in T : m <= k
PROOF
<1>. DEFINE R == OpToRel(<, Nat)
<1>1. IsWellFoundedOn(R, Nat)
  BY NatLessThanWellFounded
<1>2. \A k, m \in Nat : <<k, m>> \in R <=> k < m
  BY DEF OpToRel
<1>. HIDE DEF R
<1>3. PICK m \in T : \A k \in T : ~ (<<k, m>> \in R)
  BY <1>1, WFMin
<1>4. \A k \in T : k \in Nat /\ m \in Nat /\ ~ (k < m)
  BY <1>2, <1>3, Zenon
<1>5. \A k \in T : m <= k
  BY <1>4
<1>. QED
  BY <1>5

(* A set that contains 0, and with a number its successor, has them all.   *)
LEMMA Induction ==
  ASSUME NEW T, T \subseteq Nat, 0 \in T, \A n \in T : n + 1 \in T
  PROVE  \A n \in Nat : n \in T
PROOF
<1>. SUFFICES ASSUME ~ (\A n \in Nat : n \in T) PROVE FALSE
  OBVIOUS
<1>1. PICK m \in Nat \ T : \A k \in Nat \ T : m <= k
  BY LeastElement
<1>2. m # 0 /\ m - 1 \in Nat /\ ~ (m <= m - 1)
  BY <1>1
<1>3. m - 1 \in T /\ (m - 1) + 1 = m
  BY <1>1, <1>2
<1>. QED
  BY <1>1, <1>3

-----------------------------------------------------------------------------
(* The number of bytes in some buffers.                                    *)

(* An interval without its last number.                                    *)
LEMMA IntervalStep == ASSUME NEW k \in Nat PROVE (1 .. k + 1) \ {k + 1} = 1 .. k
PROOF
<1>1. \A x : x \in (1 .. k + 1) \ {k + 1} <=> x \in 1 .. k
  OBVIOUS
<1>. QED
  BY <1>1

(* The greatest element of an interval that begins with 1.                 *)
LEMMA MaxElement ==
  ASSUME NEW n \in Nat, NEW s \in SUBSET (1 .. n + 1), n + 1 \in s
  PROVE  Max(s) = n + 1
PROOF
<1>1. \A y \in s : n + 1 >= y
  OBVIOUS
<1>2. \A x \in s : (\A y \in s : x >= y) => x = n + 1
  OBVIOUS
<1>. QED
  BY <1>1, <1>2 DEF Max

(* The function by which FoldLeft adds up a sequence exists.               *)
LEMMA AdderExists ==
  ASSUME NEW l
  PROVE  \A n \in Nat : \E g :
           g = [s \in SUBSET (1 .. n) |->
                  IF s = {} THEN 0 ELSE g[s \ {Max(s)}] + l[Max(s)]]
PROOF
<1>. DEFINE Body(g, s) == IF s = {} THEN 0 ELSE g[s \ {Max(s)}] + l[Max(s)]
            T == {n \in Nat : \E g : g = [s \in SUBSET (1 .. n) |-> Body(g, s)]}
<1>1. 0 \in T
  <2>. DEFINE g == [s \in SUBSET (1 .. 0) |-> 0]
  <2>1. \A s \in SUBSET (1 .. 0) : s = {}
    OBVIOUS
  <2>2. g = [s \in SUBSET (1 .. 0) |-> Body(g, s)]
    BY <2>1
  <2>. QED
    BY <2>2
<1>2. ASSUME NEW n \in T PROVE n + 1 \in T
  <2>1. PICK g : g = [s \in SUBSET (1 .. n) |-> Body(g, s)]
    OBVIOUS
  <2>. DEFINE h == [s \in SUBSET (1 .. n + 1) |->
                      IF n + 1 \in s THEN g[s \ {n + 1}] + l[n + 1] ELSE g[s]]
  <2>2. ASSUME NEW s \in SUBSET (1 .. n + 1) PROVE h[s] = Body(h, s)
    <3>1. CASE n + 1 \in s
      <4>1. Max(s) = n + 1 /\ s # {}
        BY <3>1, MaxElement
      <4>2. s \ {n + 1} \in SUBSET (1 .. n + 1) /\ n + 1 \notin s \ {n + 1}
        OBVIOUS
      <4>. QED
        BY <3>1, <4>1, <4>2
    <3>2. CASE n + 1 \notin s
      <4>1. s \in SUBSET (1 .. n) /\ n + 1 \notin s \ {Max(s)}
        BY <3>2
      <4>2. s \ {Max(s)} \in SUBSET (1 .. n + 1)
        OBVIOUS
      <4>3. g[s] = Body(g, s) /\ h[s] = g[s] /\ h[s \ {Max(s)}] = g[s \ {Max(s)}]
        BY <2>1, <3>2, <4>1, <4>2
      <4>. QED
        BY <4>3
    <3>. QED
      BY <3>1, <3>2
  <2>. HIDE DEF Body
  <2>3. h = [s \in SUBSET (1 .. n + 1) |-> Body(h, s)]
    BY <2>2
  <2>4. n + 1 \in Nat
    OBVIOUS
  <2>. QED
    BY <2>3, <2>4
<1>. HIDE DEF Body, T
<1>3. \A n \in Nat : n \in T
  <2>1. T \subseteq Nat /\ \A n \in T : n + 1 \in T
    BY <1>2 DEF T
  <2>. QED
    BY <1>1, <2>1, Induction
<1>. QED
  BY <1>3 DEF T, Body

(* A function of the prefixes that grows by each length is the number of   *)
(* bytes.                                                                  *)
LEMMA BytesAre ==
  ASSUME NEW n \in Nat, NEW l \in [1 .. n -> Nat], NEW P,
         P[0] = 0, \A k \in 1 .. n : P[k] = P[k - 1] + l[k]
  PROVE  Bytes(l) = P[n]
PROOF
<1>. DEFINE Adds(g) == g = [s \in SUBSET (DOMAIN l) |->
                   IF s = {} THEN 0 ELSE g[s \ {Max(s)}] + l[Max(s)]]
            g == CHOOSE g : Adds(g)
<1>1. Bytes(l) = g[DOMAIN l]
  BY Zenon DEF Bytes, FoldLeft, MapThenFoldSet
<1>2. DOMAIN l = 1 .. n
  OBVIOUS
<1>3. g = [s \in SUBSET (1 .. n) |->
             IF s = {} THEN 0 ELSE g[s \ {Max(s)}] + l[Max(s)]]
  <2>0. PICK f : f = [s \in SUBSET (1 .. n) |->
                        IF s = {} THEN 0 ELSE f[s \ {Max(s)}] + l[Max(s)]]
    BY AdderExists
  <2>1. Adds(f)
    BY <1>2, <2>0
  <2>. HIDE DEF Adds
  <2>2. Adds(g)
    BY <2>1
  <2>. HIDE DEF g
  <2>. QED
    BY <1>2, <2>2 DEF Adds
<1>. HIDE DEF g
<1>. DEFINE T == {k \in Nat : k <= n => g[1 .. k] = P[k]}
<1>4. 0 \in T
  <2>1. 1 .. 0 = {} /\ {} \in SUBSET (1 .. n)
    OBVIOUS
  <2>. QED
    BY <1>3, <2>1
<1>5. ASSUME NEW k \in T, k + 1 <= n PROVE k + 1 \in T
  <2>0. k \in Nat
    OBVIOUS
  <2>1. k + 1 \in 1 .. k + 1 /\ 1 .. k + 1 \subseteq 1 .. n
    <3>1. k + 1 \in 1 .. k + 1
      BY <2>0
    <3>2. \A x \in 1 .. k + 1 : x \in 1 .. n
      BY <1>5, <2>0
    <3>. QED
      BY <3>1, <3>2
  <2>2. Max(1 .. k + 1) = k + 1
    BY <2>0, <2>1, MaxElement
  <2>3. (1 .. k + 1) \ {k + 1} = 1 .. k
    BY <2>0, IntervalStep
  <2>. DEFINE s == 1 .. k + 1
  <2>s. s \in SUBSET (1 .. n) /\ s # {} /\ s \ {Max(s)} = 1 .. k /\ Max(s) = k + 1
    BY <2>1, <2>2, <2>3
  <2>. HIDE DEF s
  <2>4. g[s] = g[1 .. k] + l[k + 1]
    BY <1>3, <2>s
  <2>5. g[1 .. k] = P[k] /\ k + 1 \in 1 .. n /\ (k + 1) - 1 = k
    BY <1>5
  <2>. QED
    BY <2>0, <2>4, <2>5 DEF s
<1>6. \A k \in Nat : k \in T
  <2>1. T \subseteq Nat
    OBVIOUS
  <2>2. ASSUME NEW k \in T PROVE k + 1 \in T
    <3>1. CASE k + 1 <= n
      BY <1>5, <3>1
    <3>2. CASE ~ (k + 1 <= n)
      BY <3>2
    <3>. QED
      BY <3>1, <3>2
  <2>. HIDE DEF T
  <2>. QED
    BY <1>4, <2>1, <2>2, Induction
<1>. QED
  BY <1>1, <1>2, <1>6

-----------------------------------------------------------------------------
(* The bytes of a vector of buffers.                                       *)

(* The function by which FlattenSeq joins sequences exists.                *)
LEMMA JoinerExists ==
  ASSUME NEW q
  PROVE  \A n \in Nat : \E g :
           g = [i \in 1 .. n |-> IF i = 1 THEN q[i] ELSE g[i-1] \o q[i]]
PROOF
<1>. DEFINE Body(g, k) == IF k = 1 THEN q[k] ELSE g[k-1] \o q[k]
            T == {n \in Nat : \E g : g = [k \in 1 .. n |-> Body(g, k)]}
<1>1. 0 \in T
  <2>. DEFINE g == [k \in 1 .. 0 |-> 0]
  <2>1. g = [k \in 1 .. 0 |-> Body(g, k)]
    OBVIOUS
  <2>. QED
    BY <2>1
<1>2. ASSUME NEW n \in T PROVE n + 1 \in T
  <2>1. PICK g : g = [k \in 1 .. n |-> Body(g, k)]
    OBVIOUS
  <2>. DEFINE h == [k \in 1 .. n + 1 |-> IF k = n + 1 THEN Body(g, k) ELSE g[k]]
  <2>0. n \in Nat /\ n + 1 \in Nat
    OBVIOUS
  <2>2. ASSUME NEW k \in 1 .. n + 1 PROVE h[k] = Body(h, k)
    <3>1. k = 1 \/ (k - 1 \in 1 .. n + 1 /\ k - 1 # n + 1 /\ h[k - 1] = g[k - 1])
      BY <2>0
    <3>2. Body(h, k) = Body(g, k)
      BY <3>1
    <3>3. k # n + 1 => g[k] = Body(g, k)
      <4>1. k # n + 1 => k \in 1 .. n
        BY <2>0
      <4>. HIDE DEF Body
      <4>. QED
        BY <2>1, <4>1
    <3>. HIDE DEF Body
    <3>. QED
      BY <3>2, <3>3
  <2>. HIDE DEF Body
  <2>3. h = [k \in 1 .. n + 1 |-> Body(h, k)]
    BY <2>2
  <2>. HIDE DEF h
  <2>. QED
    BY <2>0, <2>3
<1>. HIDE DEF Body, T
<1>3. \A n \in Nat : n \in T
  <2>1. T \subseteq Nat /\ \A n \in T : n + 1 \in T
    BY <1>2 DEF T
  <2>. QED
    BY <1>1, <2>1, Induction
<1>. QED
  BY <1>3 DEF T, Body

(* FlattenSeq appends the sequences one after the other.                   *)
LEMMA Flattened ==
  ASSUME NEW q, Len(q) \in Nat, Len(q) # 0
  PROVE  \E g : /\ g = [i \in 1 .. Len(q) |->
                          IF i = 1 THEN q[i] ELSE g[i-1] \o q[i]]
                /\ FlattenSeq(q) = g[Len(q)]
PROOF
<1>. DEFINE g == CHOOSE g : g = [i \in 1 .. Len(q) |->
                                   IF i = 1 THEN q[i] ELSE g[i-1] \o q[i]]
<1>1. FlattenSeq(q) = g[Len(q)]
  BY DEF FlattenSeq
<1>2. g = [i \in 1 .. Len(q) |-> IF i = 1 THEN q[i] ELSE g[i-1] \o q[i]]
  BY JoinerExists
<1>. HIDE DEF g
<1>. QED
  BY <1>1, <1>2

Buffer == [base : Nat, len : Nat]

(* The number of the byte after the first k buffers, if m bytes come       *)
(* before them.                                                            *)
After(v, m, k) == IF k = 0 THEN m + 1 ELSE v[k].base + v[k].len

(* The buffers hold the bytes from m + 1 to the last, without a gap.       *)
Chain(v, m) ==
  /\ v \in Seq(Buffer)
  /\ \A k \in 1 .. Len(v) : v[k].base = After(v, m, k - 1)
  /\ After(v, m, Len(v)) = Total + 1

(* Each buffer of a chain moves the end by its length.                     *)
LEMMA ChainStep ==
  ASSUME NEW v, NEW m \in Nat, Chain(v, m), NEW k \in 1 .. Len(v)
  PROVE  /\ v[k] \in Buffer /\ v[k].base \in Nat /\ v[k].len \in Nat
         /\ After(v, m, k) = After(v, m, k - 1) + v[k].len
PROOF
<1>1. v[k] \in Buffer
  BY DEF Chain
<1>. QED
  BY <1>1 DEF Chain, After, Buffer

(* How many bytes the first k buffers of a chain hold.                     *)
LEMMA UpToChain ==
  ASSUME NEW v, NEW m \in Nat, Chain(v, m), NEW k \in 0 .. Len(v)
  PROVE  UpTo(v, k) = After(v, m, k) - (m + 1)
PROOF
<1>. DEFINE l == [j \in 1 .. k |-> v[j].len]
            P == [j \in 0 .. k |-> After(v, m, j) - (m + 1)]
<1>1. Len(v) \in Nat /\ k \in Nat
  BY DEF Chain
<1>2. l \in [1 .. k -> Nat]
  BY <1>1, ChainStep
<1>3. P[0] = 0
  BY <1>1 DEF After
<1>4. ASSUME NEW j \in 1 .. k PROVE P[j] = P[j - 1] + l[j]
  <2>1. j \in 1 .. Len(v) /\ j \in 0 .. k /\ j - 1 \in 0 .. k
    BY <1>1
  <2>2. /\ v[j].len \in Nat
        /\ After(v, m, j) = After(v, m, j - 1) + v[j].len
        /\ After(v, m, j - 1) \in Nat
    BY <2>1, ChainStep DEF Chain
  <2>. QED
    BY <2>1, <2>2
<1>. HIDE DEF l, P
<1>5. Bytes(l) = P[k]
  BY <1>1, <1>2, <1>3, <1>4, BytesAre
<1>. QED
  BY <1>1, <1>5 DEF l, P, UpTo

(* Numbers from a + 1 on, joined with those that follow.                   *)
LEMMA JoinRuns ==
  ASSUME NEW m \in Nat, NEW a \in Nat, NEW b \in Nat
  PROVE  [j \in 1 .. a |-> m + j] \o [j \in 1 .. b |-> (m + a + 1) + j - 1]
           = [j \in 1 .. a + b |-> m + j]
PROOF
<1>. DEFINE s == [j \in 1 .. a |-> m + j]
            t == [j \in 1 .. b |-> (m + a + 1) + j - 1]
            u == [j \in 1 .. a + b |-> m + j]
<1>1. s \in Seq(Nat) /\ t \in Seq(Nat) /\ Len(s) = a /\ Len(t) = b
  OBVIOUS
<1>2. s \o t \in Seq(Nat) /\ Len(s \o t) = a + b /\ DOMAIN (s \o t) = 1 .. a + b
  BY <1>1
<1>3. ASSUME NEW j \in 1 .. a + b PROVE (s \o t)[j] = u[j]
  <2>1. CASE j <= a
    <3>1. (s \o t)[j] = s[j]
      BY <1>1, <2>1
    <3>. QED
      BY <2>1, <3>1
  <2>2. CASE ~ (j <= a)
    <3>1. (s \o t)[j] = t[j - a] /\ j - a \in 1 .. b
      BY <1>1, <2>2
    <3>. QED
      BY <2>2, <3>1
  <2>. QED
    BY <2>1, <2>2
<1>4. u \in [1 .. a + b -> Nat]
  OBVIOUS
<1>5. s \o t = [j \in 1 .. a + b |-> (s \o t)[j]]
  BY <1>2
<1>6. u = [j \in 1 .. a + b |-> u[j]]
  BY <1>4
<1>. HIDE DEF s, t, u
<1>7. s \o t = u
  BY <1>3, <1>5, <1>6
<1>. QED
  BY <1>7 DEF s, t, u

(* A chain after m bytes holds the bytes m + 1, m + 2, ... up to the last. *)
LEMMA ContentsChain ==
  ASSUME NEW v, NEW m \in Nat, Chain(v, m)
  PROVE  /\ Total - m \in Nat
         /\ Contents(v) = [j \in 1 .. Total - m |-> m + j]
PROOF
<1>. DEFINE q == [k \in DOMAIN v |-> [j \in 1 .. v[k].len |-> v[k].base + j - 1]]
            D(k) == After(v, m, k) - (m + 1)
<1>1. Len(v) \in Nat /\ DOMAIN v = 1 .. Len(v) /\ Total \in Nat
  BY NumbersAssumption DEF Chain
<1>2. DOMAIN q = 1 .. Len(v) /\ Len(q) = Len(v)
  BY <1>1
<1>3. Contents(v) = FlattenSeq(q)
  BY DEF Contents
<1>4. CASE Len(v) = 0
  <2>1. m = Total
    BY <1>1, <1>4 DEF Chain, After
  <2>2. Contents(v) = q
    BY <1>2, <1>3, <1>4 DEF FlattenSeq
  <2>3. 1 .. Len(v) = {} /\ 1 .. Total - m = {} /\ Total - m = 0
    BY <1>1, <1>4, <2>1
  <2>4. q = [j \in 1 .. Total - m |-> m + j]
    BY <1>1, <2>3
  <2>. QED
    BY <2>2, <2>3, <2>4
<1>5. CASE Len(v) # 0
  <2>. HIDE DEF q
  <2>1. PICK g : /\ g = [i \in 1 .. Len(q) |->
                          IF i = 1 THEN q[i] ELSE g[i-1] \o q[i]]
                 /\ FlattenSeq(q) = g[Len(q)]
    BY <1>1, <1>2, <1>5, Flattened
  <2>. DEFINE T == {n \in Nat : n + 1 <= Len(v) =>
                      /\ D(n + 1) \in Nat
                      /\ g[n + 1] = [j \in 1 .. D(n + 1) |-> m + j]}
  <2>2. ASSUME NEW k \in 1 .. Len(v)
        PROVE  /\ v[k].len \in Nat
               /\ D(k) = D(k - 1) + v[k].len
               /\ q[k] = [j \in 1 .. v[k].len |-> (m + D(k - 1) + 1) + j - 1]
    <3>1. /\ v[k].base \in Nat /\ v[k].len \in Nat
          /\ v[k].base = After(v, m, k - 1)
          /\ After(v, m, k) = v[k].base + v[k].len
      BY <1>1, ChainStep DEF Chain
    <3>2. m + D(k - 1) + 1 = v[k].base
      BY <3>1
    <3>3. q[k] = [j \in 1 .. v[k].len |-> v[k].base + j - 1]
      BY <1>1 DEF q
    <3>4. D(k) = D(k - 1) + v[k].len
      BY <3>1
    <3>. HIDE DEF D
    <3>. QED
      BY <3>1, <3>2, <3>3, <3>4, Zenon
  <2>3. D(0) = 0
    BY DEF After
  <2>4. 0 \in T
    <3>1. 1 \in 1 .. Len(v) /\ 1 - 1 = 0 /\ 0 + 1 = 1
      BY <1>1, <1>5
    <3>2. g[1] = q[1]
      BY <1>2, <2>1, <3>1
    <3>3. /\ v[1].len \in Nat /\ D(1) = v[1].len
          /\ q[1] = [j \in 1 .. v[1].len |-> (m + 0 + 1) + j - 1]
      BY <2>2, <2>3, <3>1
    <3>4. q[1] = [j \in 1 .. D(1) |-> m + j]
      BY <3>3
    <3>. QED
      BY <3>1, <3>2, <3>3, <3>4
  <2>5. ASSUME NEW n \in T, n + 2 <= Len(v) PROVE n + 1 \in T
    <3>. DEFINE k == n + 2
    <3>1. /\ n \in Nat /\ k \in 1 .. Len(v) /\ k - 1 = n + 1 /\ k # 1
          /\ (n + 1) + 1 = k
      BY <2>5
    <3>2. D(n + 1) \in Nat /\ g[n + 1] = [j \in 1 .. D(n + 1) |-> m + j]
      BY <1>1, <2>5
    <3>. HIDE DEF k, D
    <3>3. g[k] = g[n + 1] \o q[k]
      BY <1>2, <2>1, <3>1
    <3>4. /\ v[k].len \in Nat
          /\ D(k) = D(n + 1) + v[k].len
          /\ q[k] = [j \in 1 .. v[k].len |-> (m + D(n + 1) + 1) + j - 1]
      BY <2>2, <3>1
    <3>5. [j \in 1 .. D(n + 1) |-> m + j]
            \o [j \in 1 .. v[k].len |-> (m + D(n + 1) + 1) + j - 1]
            = [j \in 1 .. D(n + 1) + v[k].len |-> m + j]
      BY <3>2, <3>4, JoinRuns
    <3>6. D(k) \in Nat
      BY <3>2, <3>4
    <3>7. g[k] = [j \in 1 .. D(k) |-> m + j]
      BY <3>2, <3>3, <3>4, <3>5, Zenon
    <3>8. n + 1 \in Nat
      BY <3>1
    <3>. QED
      BY <3>1, <3>6, <3>7, <3>8, Zenon
  <2>6. \A n \in Nat : n \in T
    <3>1. T \subseteq Nat /\ \A n \in T : n + 1 \in T
      BY <1>1, <2>5
    <3>. HIDE DEF T
    <3>. QED
      BY <2>4, <3>1, Induction
  <2>7. D(Len(v)) \in Nat /\ g[Len(v)] = [j \in 1 .. D(Len(v)) |-> m + j]
    <3>1. Len(v) - 1 \in Nat /\ (Len(v) - 1) + 1 = Len(v)
      BY <1>1, <1>5
    <3>. HIDE DEF D
    <3>. QED
      BY <1>1, <2>6, <3>1
  <2>8. D(Len(v)) = Total - m
    BY <1>1 DEF Chain
  <2>. QED
    BY <1>2, <1>3, <2>1, <2>7, <2>8
<1>. QED
  BY <1>4, <1>5

(* An element before the end of a sequence.                                *)
LEMMA ConsRest ==
  ASSUME NEW S, NEW v \in Seq(S), NEW h \in S, NEW i \in 1 .. Len(v),
         NEW w, w = <<h>> \o SubSeq(v, i + 1, Len(v))
  PROVE  /\ w \in Seq(S) /\ Len(w) = Len(v) - i + 1 /\ w[1] = h
         /\ \A k \in 2 .. Len(w) : w[k] = v[i + k - 1]
PROOF
<1>. DEFINE t == SubSeq(v, i + 1, Len(v))
<1>1. /\ Len(v) \in Nat /\ i \in Nat
      /\ \A k \in i + 1 .. Len(v) : v[k] \in S
  OBVIOUS
<1>2. t \in Seq(S)
  BY <1>1, SubSeqProperties
<1>3. Len(t) = IF i + 1 <= Len(v) THEN Len(v) - (i + 1) + 1 ELSE 0
  BY <1>1, SubSeqProperties
<1>4. \A k \in 1 .. Len(v) - (i + 1) + 1 : t[k] = v[(i + 1) + k - 1]
  BY <1>1, SubSeqProperties
<1>5. Len(t) = Len(v) - i /\ \A k \in 1 .. Len(t) : t[k] = v[i + k]
  BY <1>1, <1>3, <1>4
<1>6. <<h>> \in Seq(S) /\ Len(<<h>>) = 1 /\ <<h>>[1] = h
  OBVIOUS
<1>w. w = <<h>> \o t
  OBVIOUS
<1>. HIDE DEF t
<1>7. /\ <<h>> \o t \in Seq(S) /\ Len(<<h>> \o t) = 1 + Len(t)
      /\ \A k \in 1 .. 1 + Len(t) : (<<h>> \o t)[k] = IF k <= 1 THEN <<h>>[k] ELSE t[k - 1]
  BY <1>2, <1>6, ConcatProperties
<1>8. /\ w \in Seq(S) /\ Len(w) = 1 + Len(t)
      /\ \A k \in 1 .. 1 + Len(t) : w[k] = IF k <= 1 THEN <<h>>[k] ELSE t[k - 1]
  BY <1>7, <1>w
<1>9. w[1] = h /\ Len(w) = Len(v) - i + 1
  BY <1>1, <1>5, <1>6, <1>8
<1>10. ASSUME NEW k \in 2 .. Len(w) PROVE w[k] = v[i + k - 1]
  <2>1. k \in 1 .. 1 + Len(t) /\ ~ (k <= 1) /\ k - 1 \in 1 .. Len(t)
        /\ i + (k - 1) = i + k - 1
    BY <1>1, <1>5, <1>8
  <2>. QED
    BY <1>5, <1>8, <2>1
<1>. QED
  BY <1>8, <1>9, <1>10

(* Skipping n bytes of a chain leaves the chain of the rest.               *)
LEMMA SkipChain ==
  ASSUME NEW v, NEW m \in Nat, Chain(v, m), NEW n \in Nat, m + n <= Total
  PROVE  Chain(Skip(v, n), m + n)
PROOF
<1>. DEFINE rest == {k \in DOMAIN v : UpTo(v, k) > n}
            i == CHOOSE k \in rest : \A j \in rest : k <= j
            gone == n - UpTo(v, i - 1)
            head == [base |-> v[i].base + gone, len |-> v[i].len - gone]
            w == <<head>> \o SubSeq(v, i + 1, Len(v))
<1>1. /\ v \in Seq(Buffer) /\ Len(v) \in Nat /\ DOMAIN v = 1 .. Len(v)
      /\ Total \in Nat /\ m + n \in Nat
  BY NumbersAssumption DEF Chain
<1>2. CASE rest = {}
  <2>1. Skip(v, n) = << >>
    BY <1>2 DEF Skip
  <2>2. m + n = Total
    <3>1. CASE Len(v) = 0
      BY <1>1, <3>1 DEF Chain, After
    <3>2. CASE Len(v) # 0
      <4>1. Len(v) \in DOMAIN v /\ Len(v) \in 0 .. Len(v)
        BY <1>1, <3>2
      <4>2. ~ (UpTo(v, Len(v)) > n)
        BY <1>2, <4>1
      <4>3. UpTo(v, Len(v)) = (Total + 1) - (m + 1)
        <5>1. UpTo(v, Len(v)) = After(v, m, Len(v)) - (m + 1)
          BY <4>1, UpToChain
        <5>2. After(v, m, Len(v)) = Total + 1
          BY DEF Chain
        <5>. QED
          BY <5>1, <5>2, Zenon
      <4>. QED
        BY <1>1, <4>2, <4>3
    <3>. QED
      BY <3>1, <3>2
  <2>. QED
    BY <1>1, <2>1, <2>2 DEF Chain, After
<1>3. CASE rest # {}
  <2>1. Skip(v, n) = w
    BY <1>3 DEF Skip
  <2>2. i \in rest /\ \A j \in rest : i <= j
    <3>1. rest \subseteq Nat
      BY <1>1
    <3>. HIDE DEF rest
    <3>2. \E k \in rest : \A j \in rest : k <= j
      BY <1>3, <3>1, LeastElement
    <3>. QED
      BY <3>2
  <2>. HIDE DEF i
  <2>3. /\ i \in 1 .. Len(v) /\ i \in Nat /\ i - 1 \in 0 .. Len(v)
        /\ i - 1 \notin rest
    BY <1>1, <2>2
  <2>4. /\ v[i].base \in Nat /\ v[i].len \in Nat
        /\ v[i].base = After(v, m, i - 1)
        /\ UpTo(v, i) = After(v, m, i) - (m + 1)
        /\ UpTo(v, i - 1) = After(v, m, i - 1) - (m + 1)
        /\ After(v, m, i) = v[i].base + v[i].len
        /\ UpTo(v, i) > n
    BY <2>2, <2>3, ChainStep, UpToChain DEF Chain
  <2>5. UpTo(v, i - 1) <= n
    <3>1. CASE i = 1
      BY <2>3, <2>4, <3>1 DEF After
    <3>2. CASE i # 1
      BY <1>1, <2>3, <2>4, <3>2
    <3>. QED
      BY <3>1, <3>2
  <2>6. /\ v[i].base + gone = m + n + 1 /\ v[i].base + gone \in Nat
        /\ v[i].len - gone \in Nat
        /\ (v[i].base + gone) + (v[i].len - gone) = After(v, m, i)
    BY <2>4, <2>5
  <2>7. /\ head \in Buffer /\ head.base = m + n + 1
        /\ head.base + head.len = After(v, m, i)
    BY <2>6 DEF Buffer
  <2>. HIDE DEF head
  <2>8. /\ w \in Seq(Buffer) /\ Len(w) = Len(v) - i + 1 /\ w[1] = head
        /\ \A k \in 2 .. Len(w) : w[k] = v[i + k - 1]
    <3>1. v \in Seq(Buffer) /\ head \in Buffer /\ i \in 1 .. Len(v)
      BY <1>1, <2>3, <2>7
    <3>2. w = <<head>> \o SubSeq(v, i + 1, Len(v))
      OBVIOUS
    <3>. HIDE DEF w, rest, gone
    <3>3. w \in Seq(Buffer) /\ Len(w) = Len(v) - i + 1 /\ w[1] = head
      BY <3>1, <3>2, ConsRest
    <3>4. \A k \in 2 .. Len(w) : w[k] = v[i + k - 1]
      BY <3>1, <3>2, ConsRest
    <3>. QED
      BY <3>3, <3>4
  <2>. HIDE DEF w, rest
  <2>9. ASSUME NEW k \in 1 .. Len(w)
        PROVE  After(w, m + n, k) = After(v, m, i + k - 1)
    <3>1. CASE k = 1
      BY <2>3, <2>7, <2>8, <3>1 DEF After
    <3>2. CASE k # 1
      BY <1>1, <2>3, <2>8, <3>2 DEF After
    <3>. QED
      BY <3>1, <3>2
  <2>10. ASSUME NEW k \in 1 .. Len(w)
         PROVE  w[k].base = After(w, m + n, k - 1)
    <3>1. CASE k = 1
      BY <2>7, <2>8, <3>1 DEF After
    <3>2. CASE k # 1
      <4>1. /\ k - 1 \in 1 .. Len(w) /\ i + k - 1 \in 1 .. Len(v)
            /\ i + (k - 1) - 1 = (i + k - 1) - 1 /\ k \in 2 .. Len(w)
        BY <1>1, <2>3, <2>8, <3>2
      <4>2. w[k].base = After(v, m, (i + k - 1) - 1)
        BY <2>8, <4>1 DEF Chain
      <4>. QED
        BY <2>9, <4>1, <4>2
    <3>. QED
      BY <3>1, <3>2
  <2>11. After(w, m + n, Len(w)) = Total + 1
    <3>1. Len(w) \in 1 .. Len(w) /\ i + Len(w) - 1 = Len(v)
      BY <1>1, <2>3, <2>8
    <3>. QED
      BY <2>9, <3>1 DEF Chain
  <2>. QED
    BY <2>1, <2>8, <2>10, <2>11 DEF Chain
<1>. QED
  BY <1>2, <1>3

(* The lengths of the prefixes of a vector exist.                          *)
LEMMA PrefixesExist ==
  ASSUME NEW l \in Seq(Nat)
  PROVE  \E P \in [0 .. Len(l) -> Nat] :
           P[0] = 0 /\ \A k \in 1 .. Len(l) : P[k] = P[k - 1] + l[k]
PROOF
<1>. DEFINE Good(P, n) == P[0] = 0 /\ \A k \in 1 .. n : P[k] = P[k - 1] + l[k]
            T == {n \in Nat : n <= Len(l) => \E P \in [0 .. n -> Nat] : Good(P, n)}
<1>0. Len(l) \in Nat /\ \A k \in 1 .. Len(l) : l[k] \in Nat
  OBVIOUS
<1>1. 0 \in T
  <2>. DEFINE P == [k \in 0 .. 0 |-> 0]
  <2>1. P \in [0 .. 0 -> Nat] /\ Good(P, 0)
    OBVIOUS
  <2>. QED
    BY <2>1
<1>2. ASSUME NEW n \in T, n + 1 <= Len(l) PROVE n + 1 \in T
  <2>0. n \in Nat /\ n + 1 \in Nat /\ n <= Len(l) /\ l[n + 1] \in Nat
    BY <1>0, <1>2
  <2>1. PICK P \in [0 .. n -> Nat] : Good(P, n)
    BY <2>0
  <2>. DEFINE Q == [k \in 0 .. n + 1 |-> IF k = n + 1 THEN P[n] + l[n + 1] ELSE P[k]]
  <2>2. P[n] \in Nat /\ \A k \in 0 .. n + 1 : k # n + 1 => k \in 0 .. n /\ P[k] \in Nat
    BY <2>0
  <2>3. Q \in [0 .. n + 1 -> Nat]
    BY <2>0, <2>2
  <2>4. Q[0] = 0
    BY <2>0, <2>1
  <2>5. ASSUME NEW k \in 1 .. n + 1 PROVE Q[k] = Q[k - 1] + l[k]
    <3>1. CASE k = n + 1
      <4>1. Q[k] = P[n] + l[n + 1] /\ Q[n] = P[n] /\ k - 1 = n
        BY <2>0, <3>1
      <4>. QED
        BY <3>1, <4>1
    <3>2. CASE k # n + 1
      <4>1. k \in 1 .. n /\ Q[k] = P[k] /\ Q[k - 1] = P[k - 1]
        BY <2>0, <3>2
      <4>. QED
        BY <2>1, <4>1
    <3>. QED
      BY <3>1, <3>2
  <2>6. Good(Q, n + 1)
    BY <2>4, <2>5
  <2>. HIDE DEF Good, Q
  <2>. QED
    BY <2>0, <2>3, <2>6
<1>3. \A n \in Nat : n \in T
  <2>1. T \subseteq Nat /\ \A n \in T : n + 1 \in T
    <3>. HIDE DEF Good
    <3>1. \A n \in T : n \in Nat /\ (~ (n + 1 <= Len(l)) => n + 1 \in T)
      BY <1>0
    <3>. QED
      BY <1>2, <3>1
  <2>. HIDE DEF T
  <2>. QED
    BY <1>1, <2>1, Induction
<1>4. Len(l) \in T
  <2>. HIDE DEF T
  <2>. QED
    BY <1>0, <1>3
<1>5. Len(l) <= Len(l)
  BY <1>0
<1>. QED
  BY <1>4, <1>5

(* The buffers xwritev is called with are a chain of all the bytes.        *)
LEMMA BuffersChain == ASSUME NEW l \in Vectors PROVE Chain(Buffers(l), 0)
PROOF
<1>1. /\ l \in Seq(Nat) /\ Bytes(l) = Total /\ Len(l) \in Nat
      /\ DOMAIN l = 1 .. Len(l) /\ \A k \in 1 .. Len(l) : l[k] \in Nat
      /\ l \in [1 .. Len(l) -> Nat]
  BY VectorsAssumption
<1>2. PICK P \in [0 .. Len(l) -> Nat] :
        P[0] = 0 /\ \A k \in 1 .. Len(l) : P[k] = P[k - 1] + l[k]
  BY <1>1, PrefixesExist
<1>3. P[Len(l)] = Total
  BY <1>1, <1>2, BytesAre
<1>4. ASSUME NEW k \in 1 .. Len(l) PROVE Bytes(SubSeq(l, 1, k - 1)) = P[k - 1]
  <2>. DEFINE s == SubSeq(l, 1, k - 1)
  <2>0. k - 1 \in Nat /\ \A j \in 1 .. k - 1 : j \in 1 .. Len(l)
    BY <1>1
  <2>1. s \in [1 .. k - 1 -> Nat] /\ \A j \in 1 .. k - 1 : s[j] = l[j]
    <3>1. \A j \in 1 .. k - 1 : l[j] \in Nat
      BY <1>1, <2>0
    <3>2. s \in Seq(Nat)
      BY <2>0, <3>1, SubSeqProperties
    <3>3. Len(s) = IF 1 <= k - 1 THEN (k - 1) - 1 + 1 ELSE 0
      BY <2>0, <3>1, SubSeqProperties
    <3>4. \A j \in 1 .. (k - 1) - 1 + 1 : s[j] = l[1 + j - 1]
      BY <2>0, <3>1, SubSeqProperties
    <3>5. Len(s) = k - 1 /\ (k - 1) - 1 + 1 = k - 1
      BY <2>0, <3>3
    <3>6. \A j \in 1 .. k - 1 : 1 + j - 1 = j
      BY <2>0
    <3>. HIDE DEF s
    <3>. QED
      BY <3>2, <3>4, <3>5, <3>6
  <2>. HIDE DEF s
  <2>2. \A j \in 1 .. k - 1 : P[j] = P[j - 1] + s[j]
    BY <1>2, <2>0, <2>1
  <2>3. Bytes(s) = P[k - 1]
    BY <1>2, <2>0, <2>1, <2>2, BytesAre
  <2>. QED
    BY <2>3 DEF s
<1>. DEFINE v == Buffers(l)
<1>5. /\ v = [k \in 1 .. Len(l) |-> [base |-> 1 + P[k - 1], len |-> l[k]]]
  BY <1>1, <1>4 DEF Buffers
<1>. HIDE DEF v
<1>6. ASSUME NEW k \in 1 .. Len(l)
      PROVE  /\ v[k] = [base |-> 1 + P[k - 1], len |-> l[k]]
             /\ v[k].base = 1 + P[k - 1] /\ v[k].len = l[k]
             /\ P[k - 1] \in Nat /\ v[k] \in Buffer
  BY <1>1, <1>2, <1>5 DEF Buffer
<1>7. v \in Seq(Buffer) /\ Len(v) = Len(l)
  BY <1>1, <1>5, <1>6
<1>8. ASSUME NEW k \in 0 .. Len(l) PROVE After(v, 0, k) = 1 + P[k]
  <2>1. CASE k = 0
    BY <1>2, <2>1 DEF After
  <2>2. CASE k # 0
    <3>1. k \in 1 .. Len(l)
      BY <1>1, <2>2
    <3>2. P[k] = P[k - 1] + l[k] /\ l[k] \in Nat
      BY <1>1, <1>2, <3>1
    <3>3. /\ After(v, 0, k) = v[k].base + v[k].len
          /\ v[k].base = 1 + P[k - 1] /\ v[k].len = l[k] /\ P[k - 1] \in Nat
      BY <1>6, <2>2, <3>1 DEF After
    <3>. QED
      BY <3>2, <3>3
  <2>. QED
    BY <2>1, <2>2
<1>9. \A k \in 1 .. Len(l) : k - 1 \in 0 .. Len(l)
  BY <1>1
<1>10. \A k \in 1 .. Len(v) : v[k].base = After(v, 0, k - 1)
  BY <1>6, <1>7, <1>8, <1>9
<1>11. After(v, 0, Len(v)) = Total + 1
  BY <1>1, <1>3, <1>7, <1>8, NumbersAssumption
<1>. QED
  BY <1>7, <1>10, <1>11 DEF Chain, v

-----------------------------------------------------------------------------
(* The inductive invariant.                                                *)

(* The values the variables range over.                                    *)
TypeOK ==
  /\ timeout \in Nat
  /\ clock \in Nat /\ began \in Nat /\ start \in Nat /\ now \in Nat /\ tv \in Nat
  /\ moved \in Nat /\ ready \in Nat /\ signals \in Nat
  /\ addrs \in 0 .. MaxAddrs

(* The points each of the functions passes through, and which of them take *)
(* a timeout.                                                              *)
Points ==
  /\ pc \in {"start", "loop", "select", "io", "xio", "wv", "copy", "wvloop",
             "next", "connect", "cwait", "create", "accept", "done"}
  /\ pc \in {"start", "loop", "select", "io"} => op \in {"read", "write"}
  /\ pc = "xio" => op \in {"read", "write", "pwrite"} /\ timeout = 0
  /\ pc \in {"wv", "copy", "wvloop"} => op = "writev" /\ timeout = 0
  /\ pc \in {"next", "connect", "cwait"} => op = "connect"
  /\ pc \in {"create", "accept"} => op = pc /\ timeout = 0

(* The caller's socket stays open; one that is made is open while it is    *)
(* being connected, and after that if it is returned.                      *)
SocketState ==
  /\ open \in {0, 1}
  /\ op \in Given => open = 1
  /\ pc \in {"connect", "cwait"} => open = 1
  /\ pc = "done" => open = IF op \in Given \/ result THEN 1 ELSE 0

(* O_NONBLOCK is set only between the two calls of fdflag_nonblocking of   *)
(* network_write, or those of network_connect for one address, or after    *)
(* the second of them failed.                                              *)
FlagState ==
  /\ mode = "nonblocking" => op \in {"write", "connect"} /\ timeout > 0
  /\ mode = "nonblocking" /\ pc \in {"done", "next"} => "blocking" \in ignored
  /\ mode = "nonblocking" =>
       pc \in {"loop", "select", "io", "next", "connect", "cwait", "done"}
  /\ pc = "cwait" => timeout > 0

(* Where the bytes are: the first ones have been moved, each to its place, *)
(* and xwritev still has the chain of the rest.                            *)
BytesState ==
  /\ out = {<<k, k>> : k \in 1 .. moved} /\ moved <= Total
  /\ op \in Given /\ pc # "done" => moved < Total
  /\ op \in Given /\ pc = "done" => (result <=> moved = Total)
  /\ pc = "wv" => moved = 0
  /\ pc \in {"wv", "copy"} => Chain(iov, 0)
  /\ pc = "wvloop" => Chain(iov, moved)

(* The half seconds that n waits of t seconds and one truncation allow.    *)
Allowed(t, n) == 2 * t * n + 1

(* Every signal and every address adds one timeout.  A loop that goes on   *)
(* has its remaining time within the allowance.                            *)
TimeState ==
  timeout > 0 =>
    /\ began <= clock
    /\ pc = "start" => clock = began
    /\ pc \in {"loop", "select", "io"} =>
         2 * start <= began /\ start <= now /\ now - start < timeout
    /\ pc = "loop" =>
         Elapsed + 2 * (timeout - (now - start)) <= Allowed(timeout, signals + 1)
    /\ pc = "select" => Elapsed + tv <= Allowed(timeout, signals + 1)
    /\ pc = "io" => Elapsed <= Allowed(timeout, signals + 1)
    /\ pc = "next" => Elapsed <= Allowed(timeout, signals + (MaxAddrs - addrs))
    /\ pc = "connect" =>
         Elapsed + 2 * timeout <= Allowed(timeout, signals + (MaxAddrs - addrs))
    /\ pc = "cwait" => Elapsed + tv <= Allowed(timeout, signals + (MaxAddrs - addrs))
    /\ pc = "done" => Elapsed <= Allowed(timeout, signals + Waits)

IInv == TypeOK /\ Points /\ SocketState /\ FlagState /\ BytesState /\ TimeState

(* Before the call nothing has been moved and no time has passed.          *)
LEMMA InitIInv == ASSUME Init PROVE IInv
PROOF
<1>1. TypeOK
  BY NumbersAssumption DEF Init, TypeOK
<1>p. Points /\ SocketState /\ FlagState
  BY NumbersAssumption DEF Init, Points, SocketState, FlagState, Given
<1>2. pc # "done" /\ (pc \in {"wv", "copy", "wvloop"} => pc = "wv" /\ op = "writev")
  BY DEF Init, Given
<1>3. BytesState
  <2>1. pc = "wv" => Chain(iov, 0)
    BY <1>2, BuffersChain DEF Init
  <2>2. {<<k, k>> : k \in 1 .. 0} = {}
    OBVIOUS
  <2>. QED
    BY <1>2, <2>1, <2>2, NumbersAssumption DEF Init, BytesState
<1>4. TimeState
  <2>1. /\ clock = began /\ began \in Nat /\ signals = 0
        /\ pc \notin {"loop", "select", "io", "connect", "cwait", "done"}
        /\ pc = "next" => addrs = MaxAddrs
    BY DEF Init, Given
  <2>2. Elapsed = 0 /\ Allowed(timeout, 0 + (MaxAddrs - MaxAddrs)) = 1
    BY <1>1, <2>1, NumbersAssumption DEF Elapsed, Allowed, TypeOK
  <2>. QED
    BY <1>1, <2>1, <2>2 DEF TimeState, TypeOK
<1>. QED
  BY <1>1, <1>p, <1>3, <1>4 DEF IInv

(* Every step keeps the types.                                             *)
LEMMA TypeNext == ASSUME IInv, [Next]_vars PROVE TypeOK'
PROOF
<1>t. time \in Nat
  BY DEF IInv, TypeOK, time
<1>. USE NumbersAssumption
     DEF IInv, TypeOK, Return, Succeed, Fail, Again, sockets, call, Connected
<1>1. CASE Begin /\ UNCHANGED sockets
  BY <1>1, <1>t DEF Begin
<1>2. CASE (EnterSelect \/ SelectReady) /\ UNCHANGED sockets
  BY <1>2 DEF EnterSelect, SelectReady, Remaining
<1>3. CASE (SelectTimedOut \/ SelectFails \/ TransferFails \/ XGiveUp)
           /\ UNCHANGED sockets
  BY <1>3 DEF SelectTimedOut, SelectFails, TransferFails, XGiveUp
<1>4. CASE (Interrupted \/ XInterrupted) /\ UNCHANGED sockets
  BY <1>4 DEF Interrupted, XInterrupted
<1>5. CASE (Supply \/ Leave \/ Tick) /\ UNCHANGED sockets
  BY <1>5 DEF Supply, Leave, Tick
<1>6. ASSUME NEW n \in 1 .. Total, Transfer(n) \/ XTransfer(n), UNCHANGED sockets
      PROVE  TypeOK'
  BY <1>6, <1>t DEF Transfer, XTransfer, Room
<1>7. ASSUME NEW n \in 0 .. Total, WriteAll(n) \/ WriteRest(n), UNCHANGED sockets
      PROVE  TypeOK'
  <2>1. /\ n <= ready /\ moved' = moved + n /\ ready' = ready - n
        /\ UNCHANGED <<op, timeout, clock, began, start, now, tv, signals>>
    BY <1>7, Zenon DEF WriteAll, WriteRest, writev
  <2>. QED
    BY <1>7, <2>1
<1>8. CASE CopyVector /\ UNCHANGED sockets
  BY <1>8 DEF CopyVector
<1>9. CASE NextAddress \/ NoAddressLeft
  BY <1>9 DEF NextAddress, NoAddressLeft
<1>10. CASE Connect \/ InProgress
  BY <1>10 DEF Connect, InProgress
<1>11. CASE connect_wait \/ WaitFails \/ WaitInterrupted
  BY <1>11 DEF connect_wait, WaitFails, WaitInterrupted
<1>12. CASE network_client_create \/ network_accept_any
  BY <1>12 DEF network_client_create, network_accept_any
<1>13. CASE UNCHANGED vars
  BY <1>13 DEF vars
<1>. QED
  BY <1>1, <1>2, <1>3, <1>4, <1>5, <1>6, <1>7, <1>8, <1>9, <1>10, <1>11, <1>12,
     <1>13 DEF Next, Transferring, Process, Moving, Connecting

(* Every function keeps to its own points.                                 *)
LEMMA PointsNext == ASSUME IInv, [Next]_vars PROVE Points'
PROOF
<1>. USE DEF IInv, TypeOK, Points, Return, Succeed, Fail, Again, sockets, call, Connected
<1>1. CASE Begin /\ UNCHANGED sockets
  BY <1>1 DEF Begin
<1>2. CASE (EnterSelect \/ SelectReady) /\ UNCHANGED sockets
  BY <1>2 DEF EnterSelect, SelectReady
<1>3. CASE (SelectTimedOut \/ SelectFails \/ TransferFails \/ XGiveUp)
           /\ UNCHANGED sockets
  BY <1>3 DEF SelectTimedOut, SelectFails, TransferFails, XGiveUp
<1>4. CASE (Interrupted \/ XInterrupted) /\ UNCHANGED sockets
  BY <1>4 DEF Interrupted, XInterrupted
<1>5. CASE (Supply \/ Leave \/ Tick) /\ UNCHANGED sockets
  BY <1>5 DEF Supply, Leave, Tick
<1>6. ASSUME NEW n \in 1 .. Total, Transfer(n) \/ XTransfer(n), UNCHANGED sockets
      PROVE  Points'
  BY <1>6 DEF Transfer, XTransfer
<1>7. ASSUME NEW n \in 0 .. Total, WriteAll(n) \/ WriteRest(n), UNCHANGED sockets
      PROVE  Points'
  BY <1>7 DEF WriteAll, WriteRest, writev
<1>8. CASE CopyVector /\ UNCHANGED sockets
  BY <1>8 DEF CopyVector
<1>9. CASE NextAddress \/ NoAddressLeft
  BY <1>9 DEF NextAddress, NoAddressLeft
<1>10. CASE Connect \/ InProgress
  BY <1>10 DEF Connect, InProgress
<1>11. CASE connect_wait \/ WaitFails \/ WaitInterrupted
  BY <1>11 DEF connect_wait, WaitFails, WaitInterrupted
<1>12. CASE network_client_create \/ network_accept_any
  BY <1>12 DEF network_client_create, network_accept_any
<1>13. CASE UNCHANGED vars
  BY <1>13 DEF vars
<1>. QED
  BY <1>1, <1>2, <1>3, <1>4, <1>5, <1>6, <1>7, <1>8, <1>9, <1>10, <1>11, <1>12,
     <1>13 DEF Next, Transferring, Process, Moving, Connecting

(* Every step accounts for the socket.                                     *)
LEMMA SocketNext == ASSUME IInv, [Next]_vars PROVE SocketState'
PROOF
<1>. USE DEF IInv, TypeOK, Points, SocketState, Given, Return, Succeed, Fail, Again, sockets, call,
             Connected
<1>1. CASE Begin /\ UNCHANGED sockets
  BY <1>1 DEF Begin
<1>2. CASE (EnterSelect \/ SelectReady) /\ UNCHANGED sockets
  BY <1>2 DEF EnterSelect, SelectReady
<1>3. CASE (SelectTimedOut \/ SelectFails \/ TransferFails \/ XGiveUp)
           /\ UNCHANGED sockets
  BY <1>3 DEF SelectTimedOut, SelectFails, TransferFails, XGiveUp
<1>4. CASE (Interrupted \/ XInterrupted) /\ UNCHANGED sockets
  BY <1>4 DEF Interrupted, XInterrupted
<1>5. CASE (Supply \/ Leave \/ Tick) /\ UNCHANGED sockets
  BY <1>5 DEF Supply, Leave, Tick
<1>6. ASSUME NEW n \in 1 .. Total, Transfer(n) \/ XTransfer(n), UNCHANGED sockets
      PROVE  SocketState'
  BY <1>6 DEF Transfer, XTransfer
<1>7. ASSUME NEW n \in 0 .. Total, WriteAll(n) \/ WriteRest(n), UNCHANGED sockets
      PROVE  SocketState'
  BY <1>7 DEF WriteAll, WriteRest, writev
<1>8. CASE CopyVector /\ UNCHANGED sockets
  BY <1>8 DEF CopyVector
<1>9. CASE NextAddress \/ NoAddressLeft
  BY <1>9 DEF NextAddress, NoAddressLeft
<1>10. CASE Connect \/ InProgress
  BY <1>10 DEF Connect, InProgress
<1>11. CASE connect_wait \/ WaitFails \/ WaitInterrupted
  BY <1>11 DEF connect_wait, WaitFails, WaitInterrupted
<1>12. CASE network_client_create \/ network_accept_any
  BY <1>12 DEF network_client_create, network_accept_any
<1>13. CASE UNCHANGED vars
  BY <1>13 DEF vars
<1>. QED
  BY <1>1, <1>2, <1>3, <1>4, <1>5, <1>6, <1>7, <1>8, <1>9, <1>10, <1>11, <1>12,
     <1>13 DEF Next, Transferring, Process, Moving, Connecting

(* Every step keeps account of O_NONBLOCK.                                 *)
LEMMA FlagsNext == ASSUME IInv, [Next]_vars PROVE FlagState'
PROOF
<1>. USE DEF IInv, TypeOK, Points, FlagState, Return, Succeed, Fail, SetMode, fdflag_nonblocking,
             flags, Again, call, Connected
<1>1. CASE Begin
  BY <1>1 DEF Begin
<1>2. CASE EnterSelect \/ SelectReady
  BY <1>2 DEF EnterSelect, SelectReady
<1>3. CASE SelectTimedOut \/ SelectFails \/ TransferFails \/ XGiveUp
  BY <1>3 DEF SelectTimedOut, SelectFails, TransferFails, XGiveUp
<1>4. CASE Interrupted \/ XInterrupted
  BY <1>4 DEF Interrupted, XInterrupted
<1>5. CASE Supply \/ Leave \/ Tick
  BY <1>5 DEF Supply, Leave, Tick
<1>6. ASSUME NEW n \in 1 .. Total, Transfer(n) \/ XTransfer(n)
      PROVE  FlagState'
  BY <1>6 DEF Transfer, XTransfer
<1>7. ASSUME NEW n \in 0 .. Total, WriteAll(n) \/ WriteRest(n)
      PROVE  FlagState'
  BY <1>7 DEF WriteAll, WriteRest, writev
<1>8. CASE CopyVector
  BY <1>8 DEF CopyVector
<1>9. CASE NextAddress \/ NoAddressLeft
  BY <1>9 DEF NextAddress, NoAddressLeft, Fresh
<1>10. CASE Connect \/ InProgress
  BY <1>10 DEF Connect, InProgress
<1>11. CASE connect_wait \/ WaitFails \/ WaitInterrupted
  BY <1>11 DEF connect_wait, WaitFails, WaitInterrupted
<1>12. CASE network_client_create \/ network_accept_any
  BY <1>12 DEF network_client_create, network_accept_any
<1>13. CASE UNCHANGED vars
  BY <1>13 DEF vars
<1>. QED
  BY <1>1, <1>2, <1>3, <1>4, <1>5, <1>6, <1>7, <1>8, <1>9, <1>10, <1>11, <1>12,
     <1>13 DEF Next, Transferring, Process, Moving, Connecting

-----------------------------------------------------------------------------
(* Where the bytes go.                                                     *)

(* n more bytes, placed after the first m.                                 *)
LEMMA Extended ==
  ASSUME NEW m \in Nat, NEW n \in Nat
  PROVE  {<<k, k>> : k \in 1 .. m} \cup {<<m + k, m + k>> : k \in 1 .. n}
           = {<<k, k>> : k \in 1 .. m + n}
PROOF
<1>1. \A k \in 1 .. m : k \in 1 .. m + n
  OBVIOUS
<1>2. \A k \in 1 .. n : m + k \in 1 .. m + n
  OBVIOUS
<1>3. ASSUME NEW k \in 1 .. m + n
      PROVE  k \in 1 .. m \/ \E j \in 1 .. n : k = m + j
  <2>1. CASE k <= m
    BY <2>1
  <2>2. CASE k > m
    <3>1. k - m \in 1 .. n /\ k = m + (k - m)
      BY <2>2
    <3>. QED
      BY <3>1
  <2>. QED
    BY <2>1, <2>2
<1>4. ASSUME NEW x PROVE x \in {<<k, k>> : k \in 1 .. m} => x \in {<<k, k>> : k \in 1 .. m + n}
  BY <1>1
<1>5. ASSUME NEW x PROVE x \in {<<m + k, m + k>> : k \in 1 .. n}
                           => x \in {<<k, k>> : k \in 1 .. m + n}
  BY <1>2
<1>6. ASSUME NEW x, x \in {<<k, k>> : k \in 1 .. m + n}
      PROVE  x \in {<<k, k>> : k \in 1 .. m} \/ x \in {<<m + k, m + k>> : k \in 1 .. n}
  <2>1. PICK k \in 1 .. m + n : x = <<k, k>>
    BY <1>6
  <2>2. CASE k \in 1 .. m
    BY <2>1, <2>2
  <2>3. CASE \E j \in 1 .. n : k = m + j
    BY <2>1, <2>3
  <2>. QED
    BY <1>3, <2>2, <2>3
<1>. QED
  BY <1>4, <1>5, <1>6

(* The place of the next byte of a stream is found from how many came      *)
(* before it.                                                              *)
LEMMA HowMany ==
  ASSUME NEW m \in Nat PROVE Cardinality({<<k, k>> : k \in 1 .. m}) = m
PROOF
<1>. DEFINE T == {<<k, k>> : k \in 1 .. m}
            f == [k \in 1 .. m |-> <<k, k>>]
<1>1. f \in Bijection(1 .. m, T)
  <2>1. f \in Injection(1 .. m, T)
    BY DEF Injection, IsInjective
  <2>2. f \in Surjection(1 .. m, T)
    BY DEF Surjection
  <2>. QED
    BY <2>1, <2>2 DEF Bijection
<1>. HIDE DEF T, f
<1>2. Cardinality(T) = m
  BY <1>1, FS_CountingElements DEF ExistsBijection
<1>. QED
  BY <1>2 DEF T

(* Whichever call moves them, n bytes go where they belong.                *)
LEMMA Placed ==
  ASSUME IInv, NEW n \in 1 .. Total, Place(n), op \in Given
  PROVE  out' = {<<k, k>> : k \in 1 .. moved + n}
PROOF
<1>1. moved \in Nat /\ n \in Nat /\ out = {<<k, k>> : k \in 1 .. moved}
  BY NumbersAssumption DEF IInv, TypeOK, BytesState
<1>2. Cardinality(out) = moved
  BY <1>1, HowMany
<1>3. \A k \in 1 .. n : Stream(k) = moved + k
  BY <1>2 DEF Stream
<1>4. \A k \in 1 .. n : (CASE op = "read"  -> <<moved + k, Stream(k)>>
                           [] op = "write" -> <<Stream(k), moved + k>>
                           [] OTHER        -> <<moved + k, moved + k>>)
                        = <<moved + k, moved + k>>
  BY <1>3
<1>5. out' = out \cup {<<moved + k, moved + k>> : k \in 1 .. n}
  BY <1>4 DEF Place
<1>. QED
  BY <1>1, <1>5, Extended

(* What writev writes are the next bytes.                                  *)
LEMMA Gathered ==
  ASSUME IInv, NEW n \in 0 .. Total, writev(n), Chain(iov, moved)
  PROVE  moved + n <= Total /\ out' = {<<k, k>> : k \in 1 .. moved + n}
PROOF
<1>1. moved \in Nat /\ n \in Nat /\ Total \in Nat /\ out = {<<k, k>> : k \in 1 .. moved}
  BY NumbersAssumption DEF IInv, TypeOK, BytesState
<1>2. Cardinality(out) = moved
  BY <1>1, HowMany
<1>3. /\ Total - moved \in Nat
      /\ Contents(iov) = [j \in 1 .. Total - moved |-> moved + j]
  BY <1>1, ContentsChain
<1>4. Len(Contents(iov)) = Total - moved
  BY <1>3
<1>5. n <= Len(Contents(iov))
      /\ out' = out \cup {<<Stream(k), Contents(iov)[k]>> : k \in 1 .. n}
  BY DEF writev
<1>6. n <= Total - moved
  BY <1>4, <1>5
<1>7. \A k \in 1 .. n : Stream(k) = moved + k /\ Contents(iov)[k] = moved + k
  <2>. SUFFICES ASSUME NEW k \in 1 .. n
                PROVE Stream(k) = moved + k /\ Contents(iov)[k] = moved + k
    OBVIOUS
  <2>1. k \in 1 .. Total - moved
    BY <1>1, <1>3, <1>6
  <2>. QED
    BY <1>2, <1>3, <2>1 DEF Stream
<1>8. {<<Stream(k), Contents(iov)[k]>> : k \in 1 .. n} = {<<moved + k, moved + k>> : k \in 1 .. n}
  BY <1>7
<1>9. out' = {<<k, k>> : k \in 1 .. moved + n}
  BY <1>1, <1>5, <1>8, Extended
<1>. QED
  BY <1>1, <1>6, <1>9

(* Every step leaves the bytes that have moved in their places.            *)
LEMMA BytesNext == ASSUME IInv, [Next]_vars PROVE BytesState'
PROOF
<1>n. moved \in Nat /\ Total \in Nat \ {0}
  BY NumbersAssumption DEF IInv, TypeOK
<1>1. CASE (Begin \/ EnterSelect \/ SelectReady) /\ UNCHANGED bytes
  <2>1. /\ UNCHANGED <<op, moved, out>> /\ pc # "done" /\ op \in Given
        /\ pc' \notin {"done", "wv", "copy", "wvloop"}
    BY <1>1 DEF Begin, EnterSelect, SelectReady, bytes, IInv, Points, Given
  <2>. QED
    BY <2>1 DEF IInv, BytesState
<1>2. CASE (SelectTimedOut \/ SelectFails \/ TransferFails \/ XGiveUp)
           /\ UNCHANGED bytes
  <2>1. /\ UNCHANGED <<op, moved, out>> /\ pc # "done" /\ op \in Given
        /\ pc' = "done" /\ result' = FALSE
    BY <1>2 DEF SelectTimedOut, SelectFails, TransferFails, XGiveUp, Fail, Return, bytes,
                IInv, Points, Given
  <2>2. moved' # Total
    BY <1>n, <2>1 DEF IInv, BytesState
  <2>. QED
    BY <2>1, <2>2 DEF IInv, BytesState
<1>3. CASE Interrupted /\ UNCHANGED bytes
  <2>1. /\ UNCHANGED <<op, moved, out>> /\ pc # "done" /\ op \in Given
        /\ pc' = "loop" \/ (pc' = "done" /\ result' = FALSE)
    BY <1>3 DEF Interrupted, Again, Fail, Return, bytes, IInv, Points, Given
  <2>2. moved' # Total /\ moved' < Total
    BY <1>n, <2>1 DEF IInv, BytesState
  <2>. QED
    BY <2>1, <2>2 DEF IInv, BytesState
<1>4. CASE (XInterrupted \/ Supply \/ Leave \/ Tick) /\ UNCHANGED bytes
  BY <1>4 DEF XInterrupted, Supply, Leave, Tick, bytes, IInv, BytesState
<1>5. ASSUME NEW n \in 1 .. Total, Transfer(n) \/ XTransfer(n)
      PROVE  BytesState'
  <2>1. /\ op \in Given /\ op' = op /\ Place(n) /\ moved' = moved + n
        /\ n <= Room
        /\ \/ moved' = Total /\ pc' = "done" /\ result' = TRUE
           \/ moved' # Total /\ pc' = "done" /\ result' = FALSE
           \/ moved' # Total /\ pc' \in {"loop", "xio"}
    BY <1>5 DEF Transfer, XTransfer, Finished, Again, Succeed, Fail, Return, IInv, Points, Given
  <2>2. out' = {<<k, k>> : k \in 1 .. moved'}
    BY <2>1, Placed
  <2>3. moved' <= Total
    BY <1>n, <2>1 DEF Room
  <2>4. moved' # Total => moved' < Total
    BY <1>n, <2>1, <2>3
  <2>. QED
    BY <2>1, <2>2, <2>3, <2>4 DEF BytesState
<1>6. ASSUME NEW n \in 0 .. Total, WriteAll(n)
      PROVE  BytesState'
  <2>1. /\ pc = "wv" /\ op \in Given /\ op' = op /\ writev(n) /\ moved' = moved + n
        /\ iov' = iov
        /\ \/ moved' = Total /\ pc' = "done" /\ result' = TRUE
           \/ moved' # Total /\ pc' = "copy"
    BY <1>6, Zenon DEF WriteAll, writev, Return, IInv, Points, Given
  <2>2. moved = 0 /\ Chain(iov, 0)
    BY <2>1 DEF IInv, BytesState
  <2>3. moved' <= Total /\ out' = {<<k, k>> : k \in 1 .. moved'}
    BY <2>1, <2>2, Gathered
  <2>4. moved' # Total => moved' < Total
    BY <1>n, <2>1, <2>3
  <2>. QED
    BY <2>1, <2>2, <2>3, <2>4 DEF BytesState
<1>7. CASE CopyVector
  <2>1. /\ UNCHANGED <<op, moved, out>> /\ pc = "copy" /\ op \in Given
        /\ \/ pc' = "done" /\ result' = FALSE
           \/ pc' = "wvloop" /\ iov' = Skip(iov, moved)
    BY <1>7, Zenon DEF CopyVector, Return, IInv, Points, Given
  <2>2. Chain(iov, 0) /\ moved < Total
    BY <2>1 DEF IInv, BytesState
  <2>3. 0 + moved = moved /\ moved <= Total /\ moved # Total
    BY <1>n, <2>2
  <2>4. Chain(Skip(iov, moved), moved)
    BY <1>n, <2>2, <2>3, SkipChain
  <2>. QED
    BY <2>1, <2>2, <2>3, <2>4 DEF IInv, BytesState
<1>8. ASSUME NEW n \in 0 .. Total, WriteRest(n)
      PROVE  BytesState'
  <2>1. /\ pc = "wvloop" /\ op \in Given /\ op' = op /\ writev(n) /\ moved' = moved + n
        /\ iov' = Skip(iov, n)
        /\ \/ moved' = Total /\ pc' = "done" /\ result' = TRUE
           \/ moved' # Total /\ pc' = "wvloop"
    BY <1>8, Zenon DEF WriteRest, writev, Return, IInv, Points, Given
  <2>2. Chain(iov, moved)
    BY <2>1 DEF IInv, BytesState
  <2>3. moved' <= Total /\ out' = {<<k, k>> : k \in 1 .. moved'}
    BY <2>1, <2>2, Gathered
  <2>4. Chain(iov', moved')
    BY <1>n, <2>1, <2>2, <2>3, SkipChain
  <2>5. moved' # Total => moved' < Total
    BY <1>n, <2>1, <2>3
  <2>. QED
    BY <2>1, <2>3, <2>4, <2>5 DEF BytesState
<1>9. CASE (Connecting \/ WaitFails \/ WaitInterrupted \/ network_client_create
            \/ network_accept_any) /\ UNCHANGED bytes
  <2>1. /\ UNCHANGED <<op, moved, out>> /\ op \notin Given
        /\ pc' \notin {"wv", "copy", "wvloop"}
    BY <1>9 DEF Connecting, NextAddress, NoAddressLeft, Connect, InProgress,
                connect_wait, WaitFails, WaitInterrupted, network_client_create,
                network_accept_any, Connected, Return, call, bytes, IInv, Points, Given
  <2>. QED
    BY <2>1 DEF IInv, BytesState
<1>10. CASE UNCHANGED vars
  BY <1>10 DEF vars, IInv, BytesState
<1>. QED
  BY <1>1, <1>2, <1>3, <1>4, <1>5, <1>6, <1>7, <1>8, <1>9, <1>10
     DEF Next, Transferring, Process, Moving

-----------------------------------------------------------------------------
(* How long the call takes.                                                *)

(* One more wait adds one timeout.                                         *)
LEMMA AllowedMore ==
  ASSUME NEW t \in Nat, NEW n \in Nat
  PROVE  /\ Allowed(t, n) \in Nat /\ Allowed(t, n) >= 1
         /\ Allowed(t, n + 1) = Allowed(t, n) + 2 * t
         /\ Allowed(t, n + 1) >= 2 * t + 1
PROOF
<1>1. /\ 2 * t * n \in Nat
      /\ 2 * t * (n + 1) = 2 * t * n + 2 * t
  OBVIOUS
<1>. QED
  BY <1>1 DEF Allowed

(* More waits allow no less.                                               *)
LEMMA AllowedUp ==
  ASSUME NEW t \in Nat, NEW n \in Nat, NEW k \in Nat
  PROVE  Allowed(t, n) <= Allowed(t, n + k)
PROOF
<1>1. /\ 2 * t * n \in Nat /\ 2 * t * k \in Nat
      /\ 2 * t * (n + k) = 2 * t * n + 2 * t * k
  OBVIOUS
<1>. QED
  BY <1>1 DEF Allowed

(* time() drops at most half a second.                                     *)
LEMMA Truncated ==
  ASSUME NEW c \in Nat PROVE c \div 2 \in Nat /\ 2 * (c \div 2) <= c /\ c <= 2 * (c \div 2) + 1
PROOF
OBVIOUS

(* The transfers with a timeout: the clock is looked at after each piece,  *)
(* and a signal costs at most one timeout more.                            *)
LEMMA TimeTransfer ==
  ASSUME IInv, TypeOK', Points',
         \/ Transferring /\ UNCHANGED <<sockets, bytes>>
         \/ Moving /\ UNCHANGED sockets
  PROVE  TimeState'
PROOF
<1>. SUFFICES ASSUME timeout > 0 PROVE TimeState'
  <2>1. timeout' = timeout
    BY Zenon DEF Transferring, Process, Moving, Begin, EnterSelect, SelectReady,
       SelectTimedOut, SelectFails, TransferFails, XGiveUp, Interrupted, XInterrupted,
       Supply, Leave, Tick, Transfer, XTransfer, WriteAll, WriteRest, writev, CopyVector
  <2>. QED
    BY <2>1 DEF TimeState
<1>. DEFINE A == Allowed(timeout, signals + 1)
<1>t. /\ timeout \in Nat /\ clock \in Nat /\ began \in Nat /\ start \in Nat
      /\ now \in Nat /\ tv \in Nat /\ signals \in Nat /\ timeout > 0
      /\ began <= clock
  BY DEF IInv, TypeOK, TimeState
<1>a. /\ A \in Nat /\ A >= 2 * timeout + 1
      /\ Allowed(timeout, (signals + 1) + 1) = A + 2 * timeout
  <2>1. signals \in Nat /\ signals + 1 \in Nat /\ timeout \in Nat
    BY <1>t
  <2>2. A >= 2 * timeout + 1
    BY <2>1, AllowedMore
  <2>. HIDE DEF A
  <2>3. A \in Nat /\ Allowed(timeout, (signals + 1) + 1) = A + 2 * timeout
    BY <2>1, AllowedMore DEF A
  <2>. QED
    BY <2>2, <2>3
<1>c. /\ time \in Nat /\ 2 * time <= clock /\ clock <= 2 * time + 1
  BY <1>t, Truncated DEF time
<1>w. op \in {"read", "write"} => Waits = 1
  BY DEF Waits
<1>x. pc \notin {"xio", "wv", "copy", "wvloop"}
  BY <1>t DEF IInv, Points
<1>s. pc \in {"start", "loop", "select", "io"} => op \in {"read", "write"}
  BY DEF IInv, Points
<1>i. /\ pc = "start" => clock = began
      /\ pc \in {"loop", "select", "io"} =>
           2 * start <= began /\ start <= now /\ now - start < timeout
      /\ pc = "loop" => (clock - began) + 2 * (timeout - (now - start)) <= A
      /\ pc = "select" => (clock - began) + tv <= A
      /\ pc = "io" => clock - began <= A
  BY <1>t DEF IInv, TimeState, Elapsed
<1>. HIDE DEF A
<1>1. CASE Begin
  <2>1. /\ UNCHANGED <<timeout, clock, began, signals>> /\ pc' = "loop" /\ start' = time
        /\ now' = time /\ clock = began
    BY <1>1, <1>t, <1>i DEF Begin
  <2>2. /\ 2 * start' <= began' /\ start' <= now' /\ now' - start' < timeout'
        /\ (clock' - began') + 2 * (timeout' - (now' - start')) <= A
    BY <1>t, <1>a, <1>c, <2>1
  <2>. QED
    BY <1>t, <2>1, <2>2 DEF TimeState, Elapsed, A
<1>2. CASE EnterSelect
  <2>1. /\ UNCHANGED <<timeout, clock, began, start, now, signals>>
        /\ pc = "loop" /\ pc' = "select" /\ tv' = 2 * Remaining
    BY <1>2 DEF EnterSelect
  <2>2. Remaining = timeout - (now - start)
    BY <1>t, <1>i, <2>1 DEF Remaining
  <2>3. (clock - began) + tv' <= A
    BY <1>i, <2>1, <2>2
  <2>. QED
    BY <1>t, <1>i, <2>1, <2>3 DEF TimeState, Elapsed, A
<1>3. CASE SelectReady
  <2>1. /\ UNCHANGED <<timeout, clock, began, start, now, signals>>
        /\ pc = "select" /\ pc' = "io"
    BY <1>3 DEF SelectReady
  <2>2. clock - began <= A
    BY <1>t, <1>a, <1>i, <2>1
  <2>. QED
    BY <1>t, <1>i, <2>1, <2>2 DEF TimeState, Elapsed, A
<1>4. CASE SelectTimedOut \/ SelectFails \/ TransferFails \/ XGiveUp
  <2>1. /\ UNCHANGED <<op, timeout, clock, began, signals>>
        /\ pc \in {"select", "io"} /\ pc' = "done"
    BY <1>4, <1>x DEF SelectTimedOut, SelectFails, TransferFails, XGiveUp, Fail, Return
  <2>2. clock - began <= A
    BY <1>t, <1>a, <1>i, <2>1
  <2>3. Waits' = 1
    BY <1>s, <2>1 DEF Waits
  <2>. QED
    BY <1>t, <2>1, <2>2, <2>3 DEF TimeState, Elapsed, A
<1>5. CASE Interrupted
  <2>1. /\ UNCHANGED <<op, timeout, clock, began, start, now>> /\ signals' = signals + 1
        /\ pc \in {"select", "io"} /\ pc' = "loop"
    BY <1>5, <1>t, <1>i DEF Interrupted, Again
  <2>2. (clock - began) + 2 * (timeout - (now - start)) <= A + 2 * timeout
    BY <1>t, <1>a, <1>i, <2>1
  <2>3. Allowed(timeout', signals' + 1) = A + 2 * timeout
    BY <1>a, <2>1
  <2>. QED
    BY <1>t, <1>i, <2>1, <2>2, <2>3 DEF TimeState, Elapsed
<1>6. ASSUME NEW n \in 1 .. Total, Transfer(n)
      PROVE  TimeState'
  <2>1. /\ UNCHANGED <<op, timeout, clock, began, start, signals>> /\ pc = "io"
        /\ \/ pc' = "done"
           \/ pc' = "loop" /\ now' = time /\ time - start < timeout
    BY <1>6 DEF Transfer, Again, Succeed, Fail, Return
  <2>2. CASE pc' = "done"
    <3>1. Waits' = 1
      BY <1>s, <2>1 DEF Waits
    <3>. QED
      BY <1>t, <1>i, <2>1, <2>2, <3>1 DEF TimeState, Elapsed, A
  <2>3. CASE pc' = "loop" /\ now' = time /\ time - start < timeout
    <3>1. start <= time
      BY <1>t, <1>c, <1>i, <2>1
    <3>2. (clock - began) + 2 * (timeout - (time - start)) <= A
      BY <1>t, <1>a, <1>c, <1>i, <2>1
    <3>. QED
      BY <1>t, <1>i, <2>1, <2>3, <3>1, <3>2 DEF TimeState, Elapsed, A
  <2>. QED
    BY <2>1, <2>2, <2>3
<1>7. CASE Supply \/ Leave \/ XInterrupted
  <2>1. /\ UNCHANGED <<op, timeout, pc, clock, began, start, now, tv, signals>>
        /\ pc # "done"
    BY <1>7, <1>x DEF Supply, Leave, XInterrupted
  <2>2. addrs' = addrs
    BY DEF sockets
  <2>. QED
    BY <2>1, <2>2 DEF IInv, TimeState, Elapsed
<1>8. CASE Tick
  <2>1. /\ UNCHANGED <<op, timeout, pc, began, start, now, signals>>
        /\ pc \in {"select", "cwait"} /\ tv > 0 /\ clock' = clock + 1 /\ tv' = tv - 1
    BY <1>8 DEF Tick
  <2>2. addrs' = addrs
    BY DEF sockets
  <2>3. began' <= clock' /\ (clock' - began') + tv' = (clock - began) + tv
    BY <1>t, <2>1
  <2>. QED
    BY <1>t, <2>1, <2>2, <2>3 DEF IInv, TimeState, Elapsed
<1>9. ~ \E n \in 1 .. Total : XTransfer(n)
  BY <1>x DEF XTransfer
<1>10. ~ \E n \in 0 .. Total : WriteAll(n) \/ WriteRest(n)
  BY <1>x, Zenon DEF WriteAll, WriteRest
<1>11. ~ CopyVector
  BY <1>x, Zenon DEF CopyVector
<1>. QED
  BY <1>1, <1>2, <1>3, <1>4, <1>5, <1>6, <1>7, <1>8, <1>9, <1>10, <1>11
     DEF Transferring, Process, Moving

(* Making a connection: each address has a timeout of its own.             *)
LEMMA TimeConnect ==
  ASSUME IInv, TypeOK',
         Connecting \/ WaitFails \/ WaitInterrupted \/ network_client_create
         \/ network_accept_any
  PROVE  TimeState'
PROOF
<1>. SUFFICES ASSUME timeout > 0 PROVE TimeState'
  <2>1. timeout' = timeout
    BY DEF Connecting, NextAddress, NoAddressLeft, Connect, InProgress, connect_wait,
       WaitFails, WaitInterrupted, network_client_create, network_accept_any,
       Connected, call
  <2>. QED
    BY <2>1 DEF TimeState
<1>. DEFINE d == MaxAddrs - addrs
            A == Allowed(timeout, signals + d)
<1>t. /\ timeout \in Nat /\ clock \in Nat /\ began \in Nat /\ tv \in Nat
      /\ signals \in Nat /\ addrs \in Nat /\ MaxAddrs \in Nat /\ d \in Nat
      /\ timeout > 0 /\ began <= clock
  BY NumbersAssumption DEF IInv, TypeOK, TimeState
<1>a. A \in Nat /\ Allowed(timeout, (signals + d) + 1) = A + 2 * timeout
  BY <1>t, AllowedMore
<1>b. A <= Allowed(timeout, signals + MaxAddrs)
  <2>1. /\ signals + d \in Nat /\ (signals + d) + addrs = signals + MaxAddrs
    BY <1>t
  <2>2. A <= Allowed(timeout, (signals + d) + addrs)
    BY <1>t, <2>1, AllowedUp
  <2>. QED
    BY <2>1, <2>2
<1>x. pc \notin {"create", "accept"}
  BY <1>t DEF IInv, Points
<1>s. pc \in {"next", "connect", "cwait"} => op = "connect"
  BY DEF IInv, Points
<1>i. /\ pc = "next" => clock - began <= A
      /\ pc = "connect" => (clock - began) + 2 * timeout <= A
      /\ pc = "cwait" => (clock - began) + tv <= A
  BY <1>t DEF IInv, TimeState, Elapsed
<1>. HIDE DEF A
<1>1. CASE NextAddress
  <2>1. /\ UNCHANGED <<timeout, clock, began, signals>> /\ pc = "next"
        /\ pc' \in {"next", "connect"} /\ addrs' = addrs - 1
    BY <1>1 DEF NextAddress, call
  <2>2. /\ signals' + (MaxAddrs - addrs') = (signals + d) + 1
        /\ (clock - began) + 2 * timeout <= A + 2 * timeout
    BY <1>t, <1>a, <1>i, <2>1
  <2>3. Allowed(timeout', signals' + (MaxAddrs - addrs')) = A + 2 * timeout
    BY <1>a, <2>1, <2>2
  <2>4. clock - began <= A + 2 * timeout
    BY <1>t, <1>a, <1>i, <2>1
  <2>. QED
    BY <1>t, <2>1, <2>2, <2>3, <2>4 DEF TimeState, Elapsed
<1>2. CASE NoAddressLeft
  <2>1. /\ UNCHANGED <<op, timeout, clock, began, signals>> /\ pc = "next"
        /\ pc' = "done"
    BY <1>2 DEF NoAddressLeft, Return, call
  <2>2. clock - began <= Allowed(timeout, signals + MaxAddrs) /\ Waits' = MaxAddrs
    <3>1. signals + MaxAddrs \in Nat
      BY <1>t
    <3>2. Allowed(timeout, signals + MaxAddrs) \in Nat
      BY <1>t, <3>1, AllowedMore
    <3>. QED
      BY <1>t, <1>a, <1>b, <1>s, <1>i, <2>1, <3>2 DEF Waits
  <2>. QED
    BY <1>t, <2>1, <2>2 DEF TimeState, Elapsed
<1>3. ASSUME UNCHANGED <<op, timeout, clock, began, addrs>>, pc \in {"connect", "cwait"},
             pc' \in {"done", "next"}, signals' \in {signals, signals + 1}
      PROVE  TimeState'
  <2>1. clock - began <= A
    BY <1>t, <1>a, <1>i, <1>3
  <2>w. op' = "connect"
    BY <1>s, <1>3
  <2>n. signals' \in Nat
    BY <1>t, <1>3
  <2>m. Waits' = MaxAddrs
    BY <2>w DEF Waits
  <2>d. MaxAddrs - addrs' = d
    BY <1>3
  <2>o. d \in Nat /\ MaxAddrs \in Nat
    BY <1>t
  <2>2. signals' + MaxAddrs \in Nat /\ signals' + d \in Nat
    <3>. HIDE DEF d
    <3>1. ASSUME NEW a \in Nat, NEW b \in Nat PROVE a + b \in Nat
      OBVIOUS
    <3>. QED
      BY <2>n, <2>o, <3>1, Zenon
  <2>3. A <= Allowed(timeout, signals' + d)
    BY <1>t, <1>a, <1>3, AllowedUp DEF A
  <2>4. Allowed(timeout, signals' + d) <= Allowed(timeout, (signals' + d) + addrs)
    BY <1>t, <2>2, AllowedUp
  <2>5. (signals' + d) + addrs = signals' + MaxAddrs
    BY <1>t, <2>n
  <2>6. Allowed(timeout, signals' + d) \in Nat /\ Allowed(timeout, signals' + MaxAddrs) \in Nat
    BY <1>t, <2>2, AllowedMore
  <2>7. /\ clock - began <= Allowed(timeout, signals' + d)
        /\ clock - began <= Allowed(timeout, signals' + MaxAddrs)
    BY <1>t, <1>a, <2>1, <2>3, <2>4, <2>5, <2>6
  <2>. QED
    BY <1>t, <1>3, <2>m, <2>d, <2>7 DEF TimeState, Elapsed
<1>4. CASE Connect \/ connect_wait \/ WaitFails
  <2>1. /\ UNCHANGED <<op, timeout, clock, began, addrs>> /\ pc \in {"connect", "cwait"}
        /\ pc' \in {"done", "next"} /\ signals' \in {signals, signals + 1}
    BY <1>4 DEF Connect, connect_wait, WaitFails, Connected, call
  <2>. QED
    BY <1>3, <2>1
<1>5. CASE InProgress
  <2>1. /\ UNCHANGED <<timeout, clock, began, signals, addrs>> /\ pc = "connect"
        /\ pc' = "cwait" /\ tv' = 2 * timeout
    BY <1>5 DEF InProgress, call
  <2>. QED
    BY <1>t, <1>i, <2>1 DEF TimeState, Elapsed, A
<1>6. CASE WaitInterrupted
  <2>1. /\ UNCHANGED <<timeout, clock, began, addrs, pc>> /\ pc = "cwait"
        /\ signals' = signals + 1 /\ tv' = 2 * timeout
    BY <1>6 DEF WaitInterrupted, call
  <2>2. (clock - began) + tv' <= A + 2 * timeout
    BY <1>t, <1>a, <1>i, <2>1
  <2>3. signals' + (MaxAddrs - addrs') = (signals + d) + 1
    BY <1>t, <2>1
  <2>4. Allowed(timeout', signals' + (MaxAddrs - addrs')) = A + 2 * timeout
    BY <1>a, <2>1, <2>3
  <2>. QED
    BY <1>t, <2>1, <2>2, <2>4 DEF TimeState, Elapsed
<1>7. ~ network_client_create /\ ~ network_accept_any
  BY <1>x DEF network_client_create, network_accept_any
<1>. QED
  BY <1>1, <1>2, <1>4, <1>5, <1>6, <1>7 DEF Connecting

-----------------------------------------------------------------------------
(* The theorems.                                                           *)

(* A call stays within its invariant: of its points, of its socket, of the *)
(* bytes that were moved and of the time.                                  *)
THEOREM Invariant == Spec => []IInv
PROOF
<1>1. Init => IInv
  BY InitIInv
<1>2. IInv /\ [Next]_vars => IInv'
  <2>. SUFFICES ASSUME IInv, [Next]_vars PROVE IInv'
    OBVIOUS
  <2>1. TypeOK' /\ Points' /\ SocketState' /\ FlagState' /\ BytesState'
    BY TypeNext, PointsNext, SocketNext, FlagsNext, BytesNext
  <2>2. ASSUME UNCHANGED vars PROVE TimeState'
    BY <2>2 DEF vars, IInv, TimeState, Elapsed, Waits
  <2>3. ASSUME Next PROVE TimeState'
    BY <2>1, <2>3, TimeTransfer, TimeConnect DEF Next
  <2>4. TimeState'
    BY <2>2, <2>3 DEF IInv
  <2>. QED
    BY <2>1, <2>4 DEF IInv
<1>. QED
  BY <1>1, <1>2, PTL DEF Spec

(* A transfer succeeds exactly when every byte was moved, and each byte is *)
(* in its own place, whatever the buffers and however the transfer was     *)
(* cut into pieces.                                                        *)
THEOREM NothingLostOrMisplaced == Spec => []AllOrFailure
PROOF
<1>1. IInv => AllOrFailure
  BY DEF IInv, BytesState, AllOrFailure
<1>. QED
  BY <1>1, Invariant, PTL

(* The caller's socket is blocking again when the call returns, unless     *)
(* fcntl refused just that and nobody looked at its result, and a socket   *)
(* that was made is open only if it is returned.                           *)
THEOREM SocketIsReturned == Spec => []SocketReturned
PROOF
<1>1. IInv => SocketReturned
  BY DEF IInv, SocketState, FlagState, SocketReturned
<1>. QED
  BY <1>1, Invariant, PTL

(* The timeout bounds the call, with one more for every signal and every   *)
(* address.                                                                *)
THEOREM TimeIsBounded == Spec => []BoundedBySignals
PROOF
<1>1. IInv => BoundedBySignals
  <2>. SUFFICES ASSUME IInv, timeout > 0
                PROVE  Elapsed <= Allowed(timeout, signals + Waits)
    BY DEF BoundedBySignals, Allowed
  <2>. DEFINE d == MaxAddrs - addrs
  <2>t. /\ timeout \in Nat /\ clock \in Nat /\ began \in Nat /\ start \in Nat
        /\ now \in Nat /\ tv \in Nat /\ signals \in Nat /\ addrs \in Nat
        /\ MaxAddrs \in Nat /\ d \in Nat
    BY NumbersAssumption DEF IInv, TypeOK
  <2>a. ASSUME NEW n \in Nat
        PROVE  Allowed(timeout, signals + n) \in Nat /\ Allowed(timeout, signals + n) >= 1
    <3>1. signals + n \in Nat
      BY <2>t
    <3>. QED
      BY <2>t, <3>1, AllowedMore
  <2>1. /\ Allowed(timeout, signals + 1) \in Nat /\ Allowed(timeout, signals + 1) >= 1
        /\ Allowed(timeout, signals + d) \in Nat
        /\ Allowed(timeout, signals + MaxAddrs) \in Nat
    BY <2>t, <2>a
  <2>2. Allowed(timeout, signals + d) <= Allowed(timeout, signals + MaxAddrs)
    <3>1. signals + d \in Nat /\ (signals + d) + addrs = signals + MaxAddrs
      BY <2>t
    <3>2. Allowed(timeout, signals + d) <= Allowed(timeout, (signals + d) + addrs)
      BY <2>t, <3>1, AllowedUp
    <3>. QED
      BY <3>1, <3>2
  <2>3. CASE pc \in {"start", "loop", "select", "io"}
    <3>1. Waits = 1
      BY <2>3 DEF IInv, Points, Waits
    <3>2. Elapsed <= Allowed(timeout, signals + 1)
      BY <2>t, <2>1, <2>3 DEF IInv, TimeState, Elapsed
    <3>. QED
      BY <3>1, <3>2
  <2>4. CASE pc \in {"next", "connect", "cwait"}
    <3>1. Waits = MaxAddrs
      BY <2>4 DEF IInv, Points, Waits
    <3>2. Elapsed <= Allowed(timeout, signals + d)
      BY <2>t, <2>1, <2>4 DEF IInv, TimeState, Elapsed
    <3>. QED
      BY <2>t, <2>1, <2>2, <3>1, <3>2 DEF Elapsed
  <2>5. CASE pc = "done"
    BY <2>5 DEF IInv, TimeState
  <2>6. pc \in {"start", "loop", "select", "io", "next", "connect", "cwait", "done"}
    BY DEF IInv, Points
  <2>. QED
    BY <2>3, <2>4, <2>5, <2>6
<1>. QED
  BY <1>1, Invariant, PTL
=============================================================================
