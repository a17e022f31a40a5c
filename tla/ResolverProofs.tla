--------------------------- MODULE ResolverProofs ---------------------------
(***************************************************************************)
(* Proofs about the address functions, for octets, ports and longs of      *)
(* every width, for every answer of the name service, every failure of an  *)
(* allocation and addresses of both families: the list getaddrinfo builds  *)
(* and the memory it holds, the comparison of socket addresses, what       *)
(* getnameinfo returns, what inet_aton makes of a text, and which          *)
(* addresses network_addr_match takes for equal under a mask.              *)
(***************************************************************************)
EXTENDS Resolver, SequenceTheorems, WellFoundedInduction, TLAPS

-----------------------------------------------------------------------------
(* Induction.  A statement about all natural numbers is proved by showing  *)
(* that the set of the numbers it holds for is closed; that rests on the   *)
(* well-foundedness of <.                                                  *)

(* A set of natural numbers has a least element.                           *)
LEMMA LeastElement ==
  ASSUME NEW T, T \subseteq Nat, T # {}
  PROVE  \E m \in T : \A k \in T : m <= k
PROOF
<1>. DEFINE R == OpToRel(<, Nat)
<1>1. IsWellFoundedOn(R, Nat)
  BY NatLessThanWellFounded
<1>2. \A k, m \in Nat : <<k, m>> \in R <=> k < m
  BY DEF OpToRel
<1>. HIDE DEF R
<1>3. PICK m \in T : \A k \in T : ~ (<<k, m>> \in R)
  BY <1>1, WFMin
<1>4. \A k \in T : k \in Nat /\ m \in Nat /\ ~ (k < m)
  BY <1>2, <1>3, Zenon
<1>5. \A k \in T : m <= k
  BY <1>4
<1>. QED
  BY <1>5

(* A set that contains 0, and with a number its successor, has them all.   *)
LEMMA Induction ==
  ASSUME NEW T, T \subseteq Nat, 0 \in T, \A n \in T : n + 1 \in T
  PROVE  \A n \in Nat : n \in T
PROOF
<1>. SUFFICES ASSUME ~ (\A n \in Nat : n \in T) PROVE FALSE
  OBVIOUS
<1>1. PICK m \in Nat \ T : \A k \in Nat \ T : m <= k
  BY LeastElement
<1>2. m # 0 /\ m - 1 \in Nat /\ ~ (m <= m - 1)
  BY <1>1
<1>3. m - 1 \in T /\ (m - 1) + 1 = m
  BY <1>1, <1>2
<1>. QED
  BY <1>1, <1>3

(* An interval without its last number.                                    *)
LEMMA IntervalStep == ASSUME NEW k \in Nat PROVE (1 .. k + 1) \ {k + 1} = 1 .. k
PROOF
<1>1. \A x : x \in (1 .. k + 1) \ {k + 1} <=> x \in 1 .. k
  OBVIOUS
<1>. QED
  BY <1>1

(* The greatest element of an interval that begins with 1.                 *)
LEMMA MaxElement ==
  ASSUME NEW n \in Nat, NEW s \in SUBSET (1 .. n + 1), n + 1 \in s
  PROVE  Max(s) = n + 1
PROOF
<1>1. \A y \in s : n + 1 >= y
  OBVIOUS
<1>2. \A x \in s : (\A y \in s : x >= y) => x = n + 1
  OBVIOUS
<1>. QED
  BY <1>1, <1>2 DEF Max
-----------------------------------------------------------------------------
(* Recursive functions of numbers.                                         *)

(* What the definitions of Power and Decimal make of g at n.               *)
Unfold(what, g, n) ==
  CASE what[1] = "power"   -> IF n = 0 THEN 1 ELSE what[2] * g[n - 1]
    [] what[1] = "decimal" -> IF n < 10 THEN Numeral1(n) ELSE g[n \div 10] \o Numeral1(n % 10)
(* The recursive functions the model has.                                  *)
Kinds == {<<"decimal">>} \cup {<<"power", b>> : b \in Nat}

(* Only smaller numbers are used.                                          *)
LEMMA Local ==
  ASSUME NEW what \in Kinds, NEW n \in Nat, NEW g, NEW h,
         \A k \in 0 .. n - 1 : g[k] = h[k]
  PROVE  Unfold(what, g, n) = Unfold(what, h, n)
PROOF
<1>1. n # 0 => g[n - 1] = h[n - 1]
  OBVIOUS
<1>2. ~ (n < 10) => n \div 10 \in 0 .. n - 1
  OBVIOUS
<1>3. ~ (n < 10) => g[n \div 10] = h[n \div 10]
  BY <1>2
<1>4. "power" # "decimal"
  OBVIOUS
<1>5. what[1] = "power" \/ what[1] = "decimal"
  BY DEF Kinds
<1>. QED
  BY <1>1, <1>3, <1>4, <1>5 DEF Unfold

(* The definition holds up to n.                                           *)
UpTo(what, n, g) == \A k \in 0 .. n : g[k] = Unfold(what, g, k)

(* There is such a function for every n.                                   *)
LEMMA UpToExists ==
  ASSUME NEW what \in Kinds
  PROVE  \A n \in Nat : \E g : UpTo(what, n, g)
PROOF
<1>. DEFINE T == {n \in Nat : \E g : UpTo(what, n, g)}
<1>1. ASSUME NEW n \in Nat, NEW g, \A k \in 0 .. n - 1 : g[k] = Unfold(what, g, k)
      PROVE  \E h : UpTo(what, n, h)
  <2>. DEFINE u == Unfold(what, g, n)
              h == [k \in 0 .. n |-> IF k = n THEN u ELSE g[k]]
  <2>1. \A k \in 0 .. n - 1 : k \in 0 .. n /\ k # n
    OBVIOUS
  <2>2. \A k \in 0 .. n - 1 : h[k] = g[k]
    BY <2>1
  <2>3. h[n] = u
    OBVIOUS
  <2>. HIDE DEF h
  <2>4. ASSUME NEW k \in 0 .. n PROVE h[k] = Unfold(what, h, k)
    <3>1. \A i \in 0 .. k - 1 : h[i] = g[i]
      <4>1. \A i \in 0 .. k - 1 : i \in 0 .. n - 1
        OBVIOUS
      <4>. QED
        BY <2>2, <4>1
    <3>2. Unfold(what, h, k) = Unfold(what, g, k)
      BY <3>1, k \in Nat, Local
    <3>3. k = n \/ k \in 0 .. n - 1
      OBVIOUS
    <3>. QED
      BY <1>1, <2>2, <2>3, <3>2, <3>3
  <2>. QED
    BY <2>4 DEF UpTo
<1>2. 0 \in T
  BY <1>1
<1>3. ASSUME NEW n \in T PROVE n + 1 \in T
  <2>1. PICK g : UpTo(what, n, g)
    OBVIOUS
  <2>2. n + 1 \in Nat /\ (n + 1) - 1 = n
    OBVIOUS
  <2>. QED
    BY <1>1, <2>1, <2>2 DEF UpTo
<1>. HIDE DEF T
<1>4. \A n \in Nat : n \in T
  <2>1. T \subseteq Nat
    BY DEF T
  <2>. QED
    BY <1>2, <1>3, <2>1, Induction
<1>. QED
  BY <1>4 DEF T

(* It is the same for every n.                                             *)
LEMMA UpToSame ==
  ASSUME NEW what \in Kinds, NEW n \in Nat, NEW m \in Nat, n <= m,
         NEW g, UpTo(what, n, g), NEW h, UpTo(what, m, h)
  PROVE  \A k \in 0 .. n : g[k] = h[k]
PROOF
<1>. DEFINE T == {k \in 0 .. n : g[k] # h[k]}
<1>. SUFFICES ASSUME T # {} PROVE FALSE
  OBVIOUS
<1>1. T \subseteq Nat
  OBVIOUS
<1>2. PICK k \in T : \A i \in T : k <= i
  BY <1>1, LeastElement
<1>3. k \in 0 .. n /\ k \in 0 .. m /\ k \in Nat
  OBVIOUS
<1>4. \A i \in 0 .. k - 1 : i \in 0 .. n /\ ~ (k <= i)
  BY <1>3
<1>5. \A i \in 0 .. k - 1 : g[i] = h[i]
  BY <1>2, <1>4
<1>6. Unfold(what, g, k) = Unfold(what, h, k)
  BY <1>3, <1>5, Local
<1>. QED
  BY <1>3, <1>6 DEF UpTo

(* So the definition has a solution.                                       *)
LEMMA Recursion ==
  ASSUME NEW what \in Kinds
  PROVE  \E f : f = [n \in Nat |-> Unfold(what, f, n)]
PROOF
<1>. DEFINE G(n) == CHOOSE g : UpTo(what, n, g)
            f == [n \in Nat |-> G(n)[n]]
<1>1. \A n \in Nat : UpTo(what, n, G(n))
  BY UpToExists
<1>. HIDE DEF G
<1>2. ASSUME NEW n \in Nat PROVE f[n] = Unfold(what, f, n)
  <2>. DEFINE g == G(n)
  <2>1. UpTo(what, n, g)
    BY <1>1
  <2>2. ASSUME NEW k \in 0 .. n - 1 PROVE f[k] = g[k]
    <3>1. k \in Nat /\ k <= n /\ k \in 0 .. k
      OBVIOUS
    <3>2. UpTo(what, k, G(k))
      BY <1>1, <3>1
    <3>3. G(k)[k] = g[k]
      <4>. HIDE DEF g
      <4>. QED
        BY <2>1, <3>1, <3>2, UpToSame
    <3>. QED
      BY <3>1, <3>3
  <2>3. f[n] = g[n]
    OBVIOUS
  <2>. HIDE DEF f, g
  <2>4. Unfold(what, f, n) = Unfold(what, g, n)
    BY <2>2, Local
  <2>. QED
    BY <2>1, <2>3, <2>4 DEF UpTo
<1>3. f = [n \in Nat |-> f[n]]
  OBVIOUS
<1>. HIDE DEF f
<1>4. f = [n \in Nat |-> Unfold(what, f, n)]
  BY <1>2, <1>3
<1>. QED
  BY <1>4

(* Powers.                                                                 *)
PowerOf(b, f) == /\ f[0] = 1
                 /\ \A n \in Nat : f[n + 1] = b * f[n]

(* The recursive function computes them.                                   *)
LEMMA PowerIs == ASSUME NEW b \in Nat PROVE PowerOf(b, Power(b))
PROOF
<1>. DEFINE what == <<"power", b>>
            P(g) == g = [n \in Nat |-> IF n = 0 THEN 1 ELSE b * g[n - 1]]
            p == Power(b)
<1>1. what \in Kinds
  BY DEF Kinds
<1>3. \A g : \A n \in Nat : Unfold(what, g, n) = IF n = 0 THEN 1 ELSE b * g[n - 1]
  <2>1. what[1] = "power" /\ what[2] = b
    OBVIOUS
  <2>. HIDE DEF what
  <2>. QED
    BY <2>1 DEF Unfold
<1>4. p = CHOOSE g : P(g)
  BY DEF Power
<1>. HIDE DEF what, p
<1>2. PICK f : f = [n \in Nat |-> Unfold(what, f, n)]
  BY <1>1, Recursion
<1>5. P(f)
  BY <1>2, <1>3
<1>. HIDE DEF P
<1>6. P(p)
  BY <1>4, <1>5
<1>7. \A n \in Nat : n + 1 \in Nat /\ n + 1 # 0 /\ (n + 1) - 1 = n
  OBVIOUS
<1>8. p[0] = 1 /\ \A n \in Nat : p[n + 1] = b * p[n]
  BY <1>6, <1>7 DEF P
<1>. QED
  BY <1>8, Zenon DEF PowerOf, p

(* Powers of two.                                                          *)
LEMMA Pow2Is ==
  /\ Pow2[0] = 1
  /\ \A n \in Nat : Pow2[n + 1] = 2 * Pow2[n]
PROOF
<1>. DEFINE b == 2
<1>1. b \in Nat
  OBVIOUS
<1>2. PowerOf(b, Power(b))
  <2>. HIDE DEF b
  <2>. QED
    BY <1>1, PowerIs
<1>. QED
  BY <1>2, Zenon DEF PowerOf, Pow2

(* They are numbers and grow.                                              *)
LEMMA Pow2Nat == \A n \in Nat : Pow2[n] \in Nat \ {0}
PROOF
<1>. DEFINE T == {n \in Nat : Pow2[n] \in Nat \ {0}}
<1>1. 0 \in T
  BY Pow2Is
<1>2. ASSUME NEW n \in T PROVE n + 1 \in T
  <2>. DEFINE p == Pow2[n]
  <2>1. p \in Nat \ {0} /\ Pow2[n + 1] = 2 * p
    BY Pow2Is
  <2>. HIDE DEF p
  <2>2. 2 * p \in Nat \ {0}
    BY <2>1
  <2>. QED
    BY <2>1, <2>2
<1>3. T \subseteq Nat
  OBVIOUS
<1>. HIDE DEF T
<1>4. \A n \in Nat : n \in T
  BY <1>1, <1>2, <1>3, Induction
<1>. QED
  BY <1>4 DEF T

(* It grows with the exponent.                                             *)
LEMMA Pow2Grows ==
  ASSUME NEW n \in Nat, NEW m \in Nat, n <= m
  PROVE  Pow2[n] <= Pow2[m]
PROOF
<1>. DEFINE T == {k \in Nat : Pow2[n] <= Pow2[n + k]}
<1>1. 0 \in T
  <2>1. n + 0 = n /\ Pow2[n] <= Pow2[n]
    BY Pow2Nat
  <2>. QED
    BY <2>1
<1>2. ASSUME NEW k \in T PROVE k + 1 \in T
  <2>. DEFINE p == Pow2[n + k]
              o == Pow2[n]
  <2>1. n + k \in Nat /\ n + (k + 1) = (n + k) + 1
    OBVIOUS
  <2>2. p \in Nat /\ o \in Nat /\ o <= p /\ Pow2[(n + k) + 1] = 2 * p
    BY <2>1, Pow2Is, Pow2Nat
  <2>. HIDE DEF p, o
  <2>3. o <= 2 * p
    BY <2>2
  <2>4. Pow2[n + (k + 1)] = 2 * p
    BY <2>1, <2>2
  <2>. QED
    BY <2>3, <2>4 DEF o
<1>3. T \subseteq Nat
  OBVIOUS
<1>. HIDE DEF T
<1>4. m - n \in Nat /\ n + (m - n) = m
  OBVIOUS
<1>5. m - n \in T
  BY <1>1, <1>2, <1>3, <1>4, Induction
<1>. QED
  BY <1>4, <1>5 DEF T

-----------------------------------------------------------------------------
(* Folds.  The loops the model writes with FoldLeft.                       *)

(* The bits that the k-th of n parts of an address stands for.             *)
Room(n, k) == IF k < n THEN OctetBits ELSE (5 - n) * OctetBits

(* What each of them does with an element.                                 *)
Apply(op, acc, x) ==
  CASE op[1] = "held"  -> acc + Held(x)
    [] op[1] = "read"  -> 10 * acc + Value(x)
    [] op[1] = "split" -> Split(acc, x)
    [] op[1] = "take"  -> Take(acc, x, op[2], op[3])
    [] op[1] = "add"   -> acc + op[2][x] * Pow2[(4 - x) * OctetBits]
    [] op[1] = "horner" -> op[2] * acc + Value(x)
    [] op[1] = "place" -> acc + Value(op[2][x]) * Power(op[3])[Len(op[2]) - x]
    [] op[1] = "weigh" -> acc + Number(op[2][x]) * Pow2[AddrBits - (x - 1) * OctetBits - Room(Len(op[2]), x)]
    [] op[1] = "shift" -> acc * Pow2[OctetBits] + x

(* The function by which FoldLeft walks over n elements of q.              *)
Folded(op, base, q, n, g) ==
  g = [t \in SUBSET (1 .. n) |->
         IF t = {} THEN base ELSE Apply(op, g[t \ {Max(t)}], q[Max(t)])]

(* It exists.                                                              *)
LEMMA FoldedExists ==
  ASSUME NEW op, NEW base, NEW q
  PROVE  \A n \in Nat : \E g : Folded(op, base, q, n, g)
PROOF
<1>. DEFINE Body(g, t) == IF t = {} THEN base ELSE Apply(op, g[t \ {Max(t)}], q[Max(t)])
            T == {n \in Nat : \E g : g = [t \in SUBSET (1 .. n) |-> Body(g, t)]}
<1>1. 0 \in T
  <2>. DEFINE g == [t \in SUBSET (1 .. 0) |-> base]
  <2>1. \A t \in SUBSET (1 .. 0) : t = {}
    OBVIOUS
  <2>2. g = [t \in SUBSET (1 .. 0) |-> Body(g, t)]
    BY <2>1
  <2>. QED
    BY <2>2
<1>2. ASSUME NEW n \in T PROVE n + 1 \in T
  <2>1. PICK g : g = [t \in SUBSET (1 .. n) |-> Body(g, t)]
    OBVIOUS
  <2>. DEFINE h == [t \in SUBSET (1 .. n + 1) |->
                      IF n + 1 \in t THEN Apply(op, g[t \ {n + 1}], q[n + 1]) ELSE g[t]]
  <2>2. ASSUME NEW t \in SUBSET (1 .. n + 1) PROVE h[t] = Body(h, t)
    <3>1. CASE n + 1 \in t
      <4>1. Max(t) = n + 1 /\ t # {}
        BY <3>1, MaxElement
      <4>2. t \ {n + 1} \in SUBSET (1 .. n + 1) /\ n + 1 \notin t \ {n + 1}
        OBVIOUS
      <4>. QED
        BY <3>1, <4>1, <4>2
    <3>2. CASE n + 1 \notin t
      <4>1. t \in SUBSET (1 .. n) /\ n + 1 \notin t \ {Max(t)}
        BY <3>2
      <4>2. t \ {Max(t)} \in SUBSET (1 .. n + 1)
        OBVIOUS
      <4>3. g[t] = Body(g, t) /\ h[t] = g[t] /\ h[t \ {Max(t)}] = g[t \ {Max(t)}]
        BY <2>1, <3>2, <4>1, <4>2
      <4>. QED
        BY <4>3
    <3>. QED
      BY <3>1, <3>2
  <2>. HIDE DEF Body
  <2>3. h = [t \in SUBSET (1 .. n + 1) |-> Body(h, t)]
    BY <2>2
  <2>4. n + 1 \in Nat
    OBVIOUS
  <2>. QED
    BY <2>3, <2>4
<1>. HIDE DEF Body, T
<1>3. \A n \in Nat : n \in T
  <2>1. T \subseteq Nat /\ \A n \in T : n + 1 \in T
    BY <1>2 DEF T
  <2>. QED
    BY <1>1, <2>1, Induction
<1>. QED
  BY <1>3 DEF T, Body, Folded

(* The walk, element by element.                                           *)
Walk(op, base, q, n, W) ==
  W[0] = base /\ \A k \in 1 .. n : W[k] = Apply(op, W[k - 1], q[k])

(* A fold is the end of a walk.                                            *)
LEMMA FoldedWalks ==
  ASSUME NEW op, NEW base, NEW q, NEW n \in Nat, NEW g, Folded(op, base, q, n, g)
  PROVE  \E W : Walk(op, base, q, n, W) /\ W[n] = g[1 .. n]
PROOF
<1>. DEFINE W == [k \in 0 .. n |-> g[1 .. k]]
<1>2. g = [t \in SUBSET (1 .. n) |->
             IF t = {} THEN base ELSE Apply(op, g[t \ {Max(t)}], q[Max(t)])]
  BY DEF Folded
<1>3. W[0] = base
  <2>1. 1 .. 0 = {} /\ {} \in SUBSET (1 .. n) /\ 0 \in 0 .. n
    OBVIOUS
  <2>. QED
    BY <1>2, <2>1
<1>4. ASSUME NEW k \in 1 .. n PROVE W[k] = Apply(op, W[k - 1], q[k])
  <2>0. k - 1 \in Nat /\ (k - 1) + 1 = k
    OBVIOUS
  <2>1. k \in 1 .. k /\ 1 .. k \subseteq 1 .. n /\ k \in 0 .. n /\ k - 1 \in 0 .. n
    OBVIOUS
  <2>2. Max(1 .. k) = k
    BY <2>0, <2>1, MaxElement
  <2>3. (1 .. k) \ {k} = 1 .. k - 1
    BY <2>0, IntervalStep
  <2>. DEFINE t == 1 .. k
  <2>4. t \in SUBSET (1 .. n) /\ t # {} /\ t \ {Max(t)} = 1 .. k - 1 /\ Max(t) = k
    BY <2>1, <2>2, <2>3
  <2>5. W[k] = g[t] /\ W[k - 1] = g[1 .. k - 1]
    BY <2>1
  <2>. HIDE DEF t, W
  <2>. QED
    BY <1>2, <2>4, <2>5
<1>5. W[n] = g[1 .. n]
  OBVIOUS
<1>. HIDE DEF W
<1>. QED
  BY <1>3, <1>4, <1>5 DEF Walk

(* The walk over q ends with v.                                            *)
Ends(op, base, q, v) == \E W : Walk(op, base, q, Len(q), W) /\ W[Len(q)] = v

(* There is one end.                                                       *)
LEMMA OneEnd ==
  ASSUME NEW op, NEW base, NEW q, Len(q) \in Nat,
         NEW v, Ends(op, base, q, v), NEW w, Ends(op, base, q, w)
  PROVE  v = w
PROOF
<1>. DEFINE n == Len(q)
<1>1. PICK V : Walk(op, base, q, n, V) /\ V[n] = v
  BY DEF Ends
<1>2. PICK W : Walk(op, base, q, n, W) /\ W[n] = w
  BY DEF Ends
<1>. DEFINE T == {k \in Nat : k <= n => V[k] = W[k]}
<1>. HIDE DEF n
<1>3. 0 \in T
  BY <1>1, <1>2 DEF Walk
<1>4. ASSUME NEW k \in T PROVE k + 1 \in T
  <2>1. k + 1 \in Nat /\ (k + 1) - 1 = k
    OBVIOUS
  <2>2. ASSUME k + 1 <= n PROVE V[k + 1] = W[k + 1]
    <3>1. k + 1 \in 1 .. n /\ k <= n
      BY <2>2, n \in Nat DEF n
    <3>2. V[k] = W[k]
      BY <3>1
    <3>. DEFINE K == k + 1
    <3>3. V[K] = Apply(op, V[K - 1], q[K]) /\ W[K] = Apply(op, W[K - 1], q[K])
      BY <1>1, <1>2, <3>1 DEF Walk
    <3>. QED
      BY <2>1, <3>2, <3>3
  <2>. QED
    BY <2>1, <2>2
<1>5. T \subseteq Nat /\ n \in Nat
  BY DEF n
<1>. HIDE DEF T
<1>6. n \in T
  BY <1>3, <1>4, <1>5, Induction
<1>. QED
  BY <1>1, <1>2, <1>5, <1>6 DEF T

(* The walk over nothing, and over one more element.                       *)
LEMMA EndsEmpty == ASSUME NEW op, NEW base PROVE Ends(op, base, << >>, base)
PROOF
<1>. DEFINE W == [k \in {0} |-> base]
<1>1. Len(<< >>) = 0 /\ W[0] = base /\ 1 .. 0 = {}
  OBVIOUS
<1>2. Walk(op, base, << >>, 0, W)
  BY <1>1 DEF Walk
<1>. QED
  BY <1>1, <1>2 DEF Ends

(* One more element is one more step.                                      *)
LEMMA EndsAppend ==
  ASSUME NEW op, NEW base, NEW S, NEW q \in Seq(S), NEW x \in S, NEW v, Ends(op, base, q, v)
  PROVE  Ends(op, base, Append(q, x), Apply(op, v, x))
PROOF
<1>. DEFINE n == Len(q)
            r == Append(q, x)
            u == Apply(op, v, x)
<1>0. n \in Nat /\ Len(r) = n + 1 /\ r[n + 1] = x /\ \A k \in 1 .. n : r[k] = q[k]
  BY AppendProperties
<1>1. PICK W : Walk(op, base, q, n, W) /\ W[n] = v
  BY DEF Ends
<1>. HIDE DEF n, r, u
<1>. DEFINE V == [k \in 0 .. n + 1 |-> IF k = n + 1 THEN u ELSE W[k]]
<1>2. \A k \in 0 .. n : k \in 0 .. n + 1 /\ k # n + 1
  BY <1>0
<1>3. (\A k \in 0 .. n : V[k] = W[k]) /\ V[n + 1] = u
  BY <1>0, <1>2
<1>. HIDE DEF V
<1>4. V[0] = base
  BY <1>0, <1>1, <1>3 DEF Walk
<1>5. ASSUME NEW k \in 1 .. n + 1 PROVE V[k] = Apply(op, V[k - 1], r[k])
  <2>1. CASE k \in 1 .. n
    <3>1. k \in 0 .. n /\ k - 1 \in 0 .. n
      BY <1>0, <2>1
    <3>2. W[k] = Apply(op, W[k - 1], q[k])
      BY <1>1, <2>1 DEF Walk
    <3>. QED
      BY <1>0, <1>3, <2>1, <3>1, <3>2
  <2>2. CASE k = n + 1
    <3>1. k - 1 = n /\ n \in 0 .. n
      BY <1>0, <2>2
    <3>2. V[k - 1] = v /\ V[k] = u /\ r[k] = x
      BY <1>0, <1>1, <1>3, <2>2, <3>1
    <3>. QED
      BY <3>2 DEF u
  <2>. QED
    BY <1>0, <2>1, <2>2
<1>6. Walk(op, base, r, n + 1, V)
  BY <1>4, <1>5 DEF Walk
<1>7. Walk(op, base, r, Len(r), V) /\ V[Len(r)] = u
  BY <1>0, <1>3, <1>6
<1>8. Ends(op, base, r, u)
  BY <1>7 DEF Ends
<1>. QED
  BY <1>8 DEF r, u

(* A fold is the end of the walk.                                          *)
LEMMA FoldEnds ==
  ASSUME NEW op, NEW base, NEW S, NEW q \in Seq(S),
         NEW g, g = CHOOSE f : Folded(op, base, q, Len(q), f)
  PROVE  Ends(op, base, q, g[1 .. Len(q)])
PROOF
<1>. DEFINE n == Len(q)
<1>0. n \in Nat
  OBVIOUS
<1>. HIDE DEF n
<1>1. \E f : Folded(op, base, q, n, f)
  BY <1>0, FoldedExists
<1>2. Folded(op, base, q, n, g)
  BY <1>1 DEF n
<1>3. ASSUME NEW f, Folded(op, base, q, n, f) PROVE Ends(op, base, q, f[1 .. n])
  <2>1. \E W : Walk(op, base, q, n, W) /\ W[n] = f[1 .. n]
    BY <1>0, <1>3, FoldedWalks
  <2>. QED
    BY <2>1 DEF Ends, n
<1>. QED
  BY <1>2, <1>3 DEF n

(* The number that a text of digits is read as.                            *)
Reading(t) == FoldLeft(LAMBDA v, c : 10 * v + Value(c), 0, t)

(* strto's loop over the digits is a walk.                                 *)
LEMMA ReadingEnds == ASSUME NEW S, NEW t \in Seq(S) PROVE Ends(<<"read">>, 0, t, Reading(t))
PROOF
<1>. DEFINE n == Len(t)
            op == <<"read">>
            Folds(g) == g = [s \in SUBSET (DOMAIN t) |->
                               IF s = {} THEN 0 ELSE 10 * g[s \ {Max(s)}] + Value(t[Max(s)])]
            g == CHOOSE g : Folds(g)
<1>0. DOMAIN t = 1 .. n
  OBVIOUS
<1>1. Reading(t) = g[DOMAIN t]
  BY Zenon DEF Reading, FoldLeft, MapThenFoldSet
<1>2. \A a, x : Apply(op, a, x) = 10 * a + Value(x)
  BY DEF Apply
<1>. HIDE DEF op
<1>3. \A f : Folded(op, 0, t, n, f) <=> Folds(f)
  BY <1>0, <1>2 DEF Folded
<1>. HIDE DEF Folds
<1>4. g = CHOOSE f : Folded(op, 0, t, n, f)
  BY <1>3, Zenon
<1>. HIDE DEF g
<1>5. Ends(op, 0, t, g[1 .. n])
  BY <1>4, FoldEnds
<1>. QED
  BY <1>0, <1>1, <1>5 DEF op

(* Another digit is read.                                                  *)
LEMMA ReadAppend ==
  ASSUME NEW S, NEW t \in Seq(S), NEW c \in S
  PROVE  Reading(Append(t, c)) = 10 * Reading(t) + Value(c)
PROOF
<1>. DEFINE op == <<"read">>
            r == Append(t, c)
            v == Reading(t)
<1>1. r \in Seq(S) /\ Len(r) \in Nat
  OBVIOUS
<1>2. Ends(op, 0, r, Reading(r)) /\ Ends(op, 0, t, v)
  BY <1>1, ReadingEnds
<1>3. Apply(op, v, c) = 10 * v + Value(c)
  BY DEF Apply
<1>. HIDE DEF op, v
<1>4. Ends(op, 0, r, Apply(op, v, c))
  BY <1>2, EndsAppend
<1>. HIDE DEF r
<1>5. Reading(r) = Apply(op, v, c)
  BY <1>1, <1>2, <1>4, OneEnd
<1>. QED
  BY <1>3, <1>5 DEF r, v

(* No digits are read as 0.                                                *)
LEMMA ReadEmpty == Reading(<< >>) = 0
PROOF
<1>. DEFINE e == << >>
            op == <<"read">>
<1>1. e \in Seq({}) /\ Len(e) \in Nat
  OBVIOUS
<1>. HIDE DEF op
<1>2. Ends(op, 0, e, 0)
  BY EndsEmpty
<1>3. Ends(op, 0, e, Reading(e))
  <2>. HIDE DEF e
  <2>. QED
    BY <1>1, ReadingEnds DEF op
<1>. HIDE DEF e
<1>4. Reading(e) = 0
  BY <1>1, <1>2, <1>3, OneEnd
<1>. QED
  BY <1>4 DEF e

-----------------------------------------------------------------------------
(* Decimal numbers.                                                        *)

(* The decimal digits as characters.                                       *)
Figures == {"0", "1", "2", "3", "4", "5", "6", "7", "8", "9"}

(* Each digit is of one numeral.                                           *)
LEMMA NumeralIs ==
  /\ \A i \in 1 .. 16 : "0" \in Numeral[i] <=> i = 1
  /\ \A i \in 1 .. 16 : "1" \in Numeral[i] <=> i = 2
  /\ \A i \in 1 .. 16 : "2" \in Numeral[i] <=> i = 3
  /\ \A i \in 1 .. 16 : "3" \in Numeral[i] <=> i = 4
  /\ \A i \in 1 .. 16 : "4" \in Numeral[i] <=> i = 5
  /\ \A i \in 1 .. 16 : "5" \in Numeral[i] <=> i = 6
  /\ \A i \in 1 .. 16 : "6" \in Numeral[i] <=> i = 7
  /\ \A i \in 1 .. 16 : "7" \in Numeral[i] <=> i = 8
  /\ \A i \in 1 .. 16 : "8" \in Numeral[i] <=> i = 9
  /\ \A i \in 1 .. 16 : "9" \in Numeral[i] <=> i = 10
PROOF
  BY DEF Numeral

(* The values of the digits.                                               *)
LEMMA ValueIs ==
  /\ Value("0") = 0 /\ Value("1") = 1 /\ Value("2") = 2 /\ Value("3") = 3
  /\ Value("4") = 4 /\ Value("5") = 5 /\ Value("6") = 6 /\ Value("7") = 7
  /\ Value("8") = 8 /\ Value("9") = 9
PROOF
<1>1. ASSUME NEW c, NEW n \in 1 .. 16, \A i \in 1 .. 16 : c \in Numeral[i] <=> i = n
      PROVE  Value(c) = n - 1
  <2>1. (CHOOSE i \in 1 .. 16 : c \in Numeral[i]) = n
    BY <1>1
  <2>. QED
    BY <2>1 DEF Value
<1>. QED
  BY <1>1, NumeralIs

(* The digit of a number below ten.                                        *)
LEMMA FigureIs ==
  ASSUME NEW d \in 0 .. 9
  PROVE  \E c \in Figures : Numeral1(d) = <<c>> /\ Value(c) = d /\ (d # 0 => c # "0")
PROOF
<1>1. ASSUME NEW c, Numeral[d + 1] = {c} PROVE Numeral1(d) = <<c>>
  BY <1>1 DEF Numeral1
<1>2. d = 0 \/ d = 1 \/ d = 2 \/ d = 3 \/ d = 4 \/ d = 5 \/ d = 6 \/ d = 7 \/ d = 8 \/ d = 9
  OBVIOUS
<1>3. /\ d = 0 => Numeral[d + 1] = {"0"}
      /\ d = 1 => Numeral[d + 1] = {"1"}
      /\ d = 2 => Numeral[d + 1] = {"2"}
      /\ d = 3 => Numeral[d + 1] = {"3"}
      /\ d = 4 => Numeral[d + 1] = {"4"}
      /\ d = 5 => Numeral[d + 1] = {"5"}
      /\ d = 6 => Numeral[d + 1] = {"6"}
      /\ d = 7 => Numeral[d + 1] = {"7"}
      /\ d = 8 => Numeral[d + 1] = {"8"}
      /\ d = 9 => Numeral[d + 1] = {"9"}
  BY DEF Numeral
<1>. QED
  BY <1>1, <1>2, <1>3, ValueIs DEF Figures

(* What is known of a digit.                                               *)
LEMMA FigureValue ==
  ASSUME NEW c \in Figures
  PROVE  /\ Digit(c, 10) /\ Value(c) \in 0 .. 9
         /\ c # "." /\ c # ":" /\ c # "-" /\ c # "NULL" /\ (c # "0" => Value(c) # 0)
PROOF
<1>1. Digit(c, 10)
  BY NumeralIs DEF Digit, Figures
<1>2. Value(c) \in 0 .. 9 /\ (c # "0" => Value(c) # 0)
  BY ValueIs DEF Figures
<1>3. c # "." /\ c # ":" /\ c # "-" /\ c # "NULL"
  BY DEF Figures
<1>. QED
  BY <1>1, <1>2, <1>3

(* Decimal as it is defined.                                               *)
LEMMA DecimalIs ==
  ASSUME NEW n \in Nat
  PROVE  Decimal[n] = IF n < 10 THEN Numeral1(n) ELSE Decimal[n \div 10] \o Numeral1(n % 10)
PROOF
<1>. DEFINE what == <<"decimal">>
            Body(g, k) == IF k < 10 THEN Numeral1(k) ELSE g[k \div 10] \o Numeral1(k % 10)
            P(g) == g = [k \in Nat |-> Body(g, k)]
<1>1. what \in Kinds
  BY DEF Kinds
<1>3. \A g : \A k \in Nat : Unfold(what, g, k) = Body(g, k)
  <2>1. what[1] # "power" /\ what[1] = "decimal"
    OBVIOUS
  <2>. HIDE DEF what
  <2>. QED
    BY <2>1 DEF Unfold
<1>4. Decimal = CHOOSE g : P(g)
  BY DEF Decimal
<1>. HIDE DEF what, Body
<1>2. PICK f : f = [k \in Nat |-> Unfold(what, f, k)]
  BY <1>1, Recursion
<1>5. P(f)
  BY <1>2, <1>3
<1>. HIDE DEF P
<1>6. P(Decimal)
  BY <1>4, <1>5
<1>7. Decimal[n] = Body(Decimal, n)
  <2>. DEFINE D == Decimal
  <2>1. P(D)
    BY <1>6
  <2>. HIDE DEF D
  <2>2. D[n] = Body(D, n)
    BY <2>1 DEF P
  <2>. QED
    BY <2>2 DEF D
<1>. QED
  BY <1>7 DEF Body

(* A number is printed with digits that are read as the number, without a  *)
(* leading zero.                                                           *)
Printed(n, t) ==
  /\ t \in Seq(Figures) /\ Len(t) >= 1 /\ Reading(t) = n
  /\ n # 0 => t[1] # "0"
  /\ n = 0 => t = <<"0">>

(* Every number is printed so, and thus read back.                         *)
LEMMA DecimalPrints == \A n \in Nat : Printed(n, Decimal[n])
PROOF
<1>. DEFINE T == {n \in Nat : ~ Printed(n, Decimal[n])}
<1>. SUFFICES ASSUME T # {} PROVE FALSE
  OBVIOUS
<1>1. T \subseteq Nat
  OBVIOUS
<1>2. PICK n \in T : \A k \in T : n <= k
  BY <1>1, LeastElement
<1>3. n \in Nat /\ ~ Printed(n, Decimal[n]) /\ \A k \in Nat : k < n => Printed(k, Decimal[k])
  BY <1>2
<1>. HIDE DEF T
<1>4. CASE n < 10
  <2>1. n \in 0 .. 9
    BY <1>3, <1>4
  <2>2. PICK c \in Figures : Numeral1(n) = <<c>> /\ Value(c) = n /\ (n # 0 => c # "0")
    BY <2>1, FigureIs
  <2>3. Decimal[n] = <<c>>
    BY <1>3, <1>4, <2>2, DecimalIs
  <2>4. Reading(<<c>>) = n
    <3>1. << >> \in Seq(Figures) /\ Append(<< >>, c) = <<c>>
      OBVIOUS
    <3>2. Reading(Append(<< >>, c)) = 10 * Reading(<< >>) + Value(c)
      BY <3>1, ReadAppend
    <3>. QED
      BY <1>3, <2>2, <3>1, <3>2, ReadEmpty
  <2>5. n = 0 => c = "0"
    BY <2>2, FigureValue
  <2>6. <<c>> \in Seq(Figures) /\ Len(<<c>>) = 1 /\ <<c>>[1] = c
    OBVIOUS
  <2>. QED
    BY <1>3, <2>2, <2>3, <2>4, <2>5, <2>6 DEF Printed
<1>5. CASE ~ (n < 10)
  <2>. DEFINE m == n \div 10
              d == n % 10
              t == Decimal[m]
  <2>1. m \in Nat /\ m < n /\ m # 0 /\ d \in 0 .. 9 /\ n = 10 * m + d
    BY <1>3, <1>5
  <2>2. PICK c \in Figures : Numeral1(d) = <<c>> /\ Value(c) = d
    BY <2>1, FigureIs
  <2>3. Printed(m, t)
    BY <1>3, <2>1
  <2>4. Decimal[n] = t \o <<c>>
    BY <1>3, <1>5, <2>2, DecimalIs
  <2>. HIDE DEF m, d, t
  <2>5. t \in Seq(Figures) /\ Len(t) >= 1 /\ Reading(t) = m /\ t[1] # "0"
    BY <2>1, <2>3 DEF Printed
  <2>6. t \o <<c>> = Append(t, c)
    BY <2>5
  <2>. DEFINE r == Append(t, c)
  <2>7. r \in Seq(Figures) /\ Len(r) = Len(t) + 1 /\ Len(r) >= 1 /\ r[1] = t[1]
    BY <2>5, AppendProperties
  <2>8. Reading(r) = 10 * m + d
    BY <2>2, <2>5, ReadAppend
  <2>. HIDE DEF r
  <2>9. Printed(n, r)
    BY <1>3, <1>5, <2>1, <2>5, <2>7, <2>8 DEF Printed
  <2>. QED
    BY <1>3, <2>4, <2>6, <2>9 DEF r
<1>. QED
  BY <1>3, <1>4, <1>5

(* So no two numbers are printed alike.                                    *)
LEMMA DecimalDiffers ==
  ASSUME NEW n \in Nat, NEW m \in Nat, Decimal[n] = Decimal[m]
  PROVE  n = m
PROOF
  BY DecimalPrints DEF Printed

(* The leading characters of a kind are what its definition says.          *)
LEMMA LeadingIs ==
  ASSUME NEW S, NEW t \in Seq(S), NEW chars
  PROVE  /\ Leading(t, chars) \in 0 .. Len(t)
         /\ \A k \in 1 .. Leading(t, chars) : t[k] \in chars
         /\ Leading(t, chars) < Len(t) => t[Leading(t, chars) + 1] \notin chars
PROOF
<1>. DEFINE l == Len(t)
            P(m) == /\ \A k \in 1 .. m : t[k] \in chars
                    /\ m < l => t[m + 1] \notin chars
            B == {j \in 1 .. l : t[j] \notin chars}
            n == Leading(t, chars)
<1>0. l \in Nat
  OBVIOUS
<1>. HIDE DEF l
<1>1. \E m \in 0 .. l : P(m)
  <2>1. CASE B = {}
    <3>1. l \in 0 .. l /\ P(l)
      BY <1>0, <2>1
    <3>. QED
      BY <3>1
  <2>2. CASE B # {}
    <3>1. B \subseteq Nat
      BY <1>0
    <3>2. PICK j \in B : \A k \in B : j <= k
      BY <2>2, <3>1, LeastElement
    <3>3. j - 1 \in 0 .. l /\ (j - 1) + 1 = j
      BY <1>0
    <3>4. \A k \in 1 .. j - 1 : k \in 1 .. l /\ ~ (j <= k)
      BY <1>0
    <3>5. \A k \in 1 .. j - 1 : t[k] \in chars
      BY <3>2, <3>4
    <3>6. P(j - 1)
      BY <3>3, <3>5
    <3>. QED
      BY <3>3, <3>6
  <2>. QED
    BY <2>1, <2>2
<1>2. n = CHOOSE m \in 0 .. l : P(m)
  BY DEF Leading, l
<1>. HIDE DEF P, n
<1>3. n \in 0 .. l /\ P(n)
  BY <1>1, <1>2
<1>. QED
  BY <1>3 DEF P, n, l

(* strtol reads a number as it was printed, up to its end.                 *)
LEMMA ReadBack ==
  ASSUME NEW n \in Nat
  PROVE  strto(Decimal[n]).value = n /\ strto(Decimal[n]).end = << >>
PROOF
<1>. DEFINE s == Decimal[n]
            l == Len(s)
            white == {" "}
            u == After(s, Leading(s, white))
            t == IF u # << >> /\ u[1] \in {"+", "-"} THEN Tail(u) ELSE u
            d == Leading(t, Decimals)
<1>1. s \in Seq(Figures) /\ l \in Nat /\ l >= 1 /\ Reading(s) = n
  BY DecimalPrints DEF Printed
<1>. HIDE DEF s
<1>2. \A k \in 1 .. l : s[k] \in Figures
  BY <1>1, ElementOfSeq
<1>3. \A k \in 1 .. l : s[k] \in Decimals /\ s[k] # " " /\ s[k] # "-" /\ s[k] # "+"
  <2>1. \A c \in Figures : c # " " /\ c # "-" /\ c # "+"
    BY DEF Figures
  <2>2. \A c \in Figures : Digit(c, 10)
    BY FigureValue
  <2>3. \A c \in Figures : c \in Decimals
    BY <2>2 DEF Digit, Decimals
  <2>. QED
    BY <1>2, <2>1, <2>3
<1>4. SubSeq(s, 1, l) = s /\ SubSeq(s, l + 1, l) = << >>
  <2>1. SubSeq(s, 1, l) = s
    BY <1>1, SubSeqFull
  <2>2. SubSeq(s, l + 1, l) = << >>
    <3>. HIDE DEF l
    <3>. QED
      BY <1>1, SubSeqEmpty
  <2>. QED
    BY <2>1, <2>2
<1>5. s # << >>
  BY <1>1, EmptySeq
<1>6. Leading(s, white) = 0
  <2>. DEFINE m == Leading(s, white)
  <2>. HIDE DEF white
  <2>1. m \in 0 .. l /\ \A k \in 1 .. m : s[k] \in white
    BY <1>1, LeadingIs
  <2>. HIDE DEF m, l
  <2>2. m # 0 => 1 \in 1 .. m /\ 1 \in 1 .. l
    BY <1>1, <2>1
  <2>3. m = 0
    BY <1>3, <2>1, <2>2 DEF white
  <2>. QED
    BY <2>3 DEF m
<1>7. u = s
  <2>. HIDE DEF white
  <2>1. 0 + 1 = 1
    OBVIOUS
  <2>2. u = SubSeq(s, 0 + 1, l)
    BY <1>6, Zenon DEF After
  <2>. QED
    BY <1>4, <2>1, <2>2, Zenon
<1>. HIDE DEF u
<1>8. t = s /\ u[1] # "-"
  <2>1. 1 \in 1 .. l
    BY <1>1
  <2>2. s[1] # "-" /\ s[1] # "+"
    BY <1>3, <2>1
  <2>. QED
    BY <1>7, <2>2
<1>. HIDE DEF t
<1>9. d = l
  <2>1. /\ d \in 0 .. l
        /\ d < l => s[d + 1] \notin Decimals
    BY <1>1, <1>8, LeadingIs
  <2>. HIDE DEF d, l
  <2>2. d < l => d + 1 \in 1 .. l
    BY <1>1, <2>1
  <2>3. ~ (d < l)
    BY <1>3, <2>1, <2>2, Zenon
  <2>. QED
    BY <1>1, <2>1, <2>3
<1>10. strto(s) = IF d = 0 THEN [value |-> 0, end |-> s]
                  ELSE [value |-> IF u[1] = "-" THEN - Reading(SubSeq(t, 1, d))
                                  ELSE Reading(SubSeq(t, 1, d)),
                        end |-> After(t, d)]
  BY Zenon DEF strto, Reading, t, u, white
<1>11. d # 0 /\ SubSeq(t, 1, d) = s /\ After(t, d) = << >>
  <2>1. d # 0
    BY <1>1, <1>9
  <2>. HIDE DEF d
  <2>2. After(t, d) = SubSeq(s, l + 1, l)
    BY <1>8, <1>9 DEF After
  <2>. QED
    BY <1>4, <1>8, <1>9, <2>1, <2>2
<1>. HIDE DEF d
<1>12. strto(s) = [value |-> n, end |-> << >>]
  BY <1>1, <1>8, <1>10, <1>11, Zenon
<1>. QED
  BY <1>12 DEF s

-----------------------------------------------------------------------------
(* The memory a list holds.                                                *)

(* A sequence is one of its own elements.                                  *)
LEMMA Own == ASSUME NEW S, NEW s \in Seq(S) PROVE s \in Seq(ToSet(s))
PROOF
<1>1. DOMAIN s = 1 .. Len(s) /\ \A k \in 1 .. Len(s) : s[k] \in ToSet(s)
  BY DEF ToSet
<1>. QED
  BY <1>1

(* One more element.                                                       *)
LEMMA OwnAppend ==
  ASSUME NEW s, s \in Seq(ToSet(s)), NEW e
  PROVE  Append(s, e) \in Seq(ToSet(Append(s, e)))
PROOF
<1>. DEFINE S == ToSet(s)
            R == S \cup {e}
<1>1. s \in Seq(S)
  OBVIOUS
<1>. HIDE DEF S
<1>2. s \in Seq(R)
  <2>1. \A k \in 1 .. Len(s) : s[k] \in R
    BY <1>1, ElementOfSeq
  <2>. QED
    BY <1>1, <2>1
<1>3. Append(s, e) \in Seq(R)
  BY <1>2, AppendProperties
<1>. QED
  BY <1>3, Own

(* The sum of freeaddrinfo is the end of a walk over the list.             *)
LEMMA HeldEnds == ASSUME NEW S, NEW l \in Seq(S) PROVE Ends(<<"held">>, 0, l, freeaddrinfo(l))
PROOF
<1>. DEFINE n == Len(l)
            op == <<"held">>
            Folds(g) == g = [s \in SUBSET (DOMAIN l) |->
                               IF s = {} THEN 0 ELSE g[s \ {Max(s)}] + Held(l[Max(s)])]
            g == CHOOSE g : Folds(g)
<1>0. DOMAIN l = 1 .. n
  OBVIOUS
<1>1. freeaddrinfo(l) = g[DOMAIN l]
  BY Zenon DEF freeaddrinfo, FoldLeft, MapThenFoldSet
<1>2. \A a, x : Apply(op, a, x) = a + Held(x)
  BY DEF Apply
<1>. HIDE DEF op
<1>3. \A f : Folded(op, 0, l, n, f) <=> Folds(f)
  BY <1>0, <1>2 DEF Folded
<1>. HIDE DEF Folds
<1>4. g = CHOOSE f : Folded(op, 0, l, n, f)
  BY <1>3, Zenon
<1>. HIDE DEF g
<1>5. Ends(op, 0, l, g[1 .. n])
  BY <1>4, FoldEnds
<1>. QED
  BY <1>0, <1>1, <1>5 DEF op

(* Another entry adds its blocks.                                          *)
LEMMA HeldAppend ==
  ASSUME NEW l, l \in Seq(ToSet(l)), NEW e
  PROVE  freeaddrinfo(Append(l, e)) = freeaddrinfo(l) + Held(e)
PROOF
<1>. DEFINE op == <<"held">>
            r == Append(l, e)
            v == freeaddrinfo(l)
            R == ToSet(l) \cup {e}
<1>1. l \in Seq(R) /\ e \in R
  <2>1. \A k \in 1 .. Len(l) : l[k] \in R
    BY DEF ToSet
  <2>. QED
    BY <2>1
<1>. HIDE DEF R
<1>2. r \in Seq(R) /\ Len(r) \in Nat
  BY <1>1
<1>3. Ends(op, 0, r, freeaddrinfo(r)) /\ Ends(op, 0, l, v)
  BY <1>1, <1>2, HeldEnds
<1>4. Apply(op, v, e) = v + Held(e)
  BY DEF Apply
<1>. HIDE DEF op, v
<1>5. Ends(op, 0, r, Apply(op, v, e))
  BY <1>1, <1>3, EndsAppend
<1>. HIDE DEF r
<1>6. freeaddrinfo(r) = Apply(op, v, e)
  BY <1>2, <1>3, <1>5, OneEnd
<1>. QED
  BY <1>4, <1>6 DEF r, v

(* An empty list holds nothing.                                            *)
LEMMA HeldEmpty == freeaddrinfo(<< >>) = 0
PROOF
<1>. DEFINE e == << >>
            op == <<"held">>
<1>1. e \in Seq({}) /\ Len(e) \in Nat
  OBVIOUS
<1>. HIDE DEF op
<1>2. Ends(op, 0, e, 0)
  BY EndsEmpty
<1>3. Ends(op, 0, e, freeaddrinfo(e))
  <2>. HIDE DEF e
  <2>. QED
    BY <1>1, HeldEnds DEF op
<1>. HIDE DEF e
<1>4. freeaddrinfo(e) = 0
  BY <1>1, <1>2, <1>3, OneEnd
<1>. QED
  BY <1>4 DEF e

(* A single entry holds its own blocks.                                    *)
LEMMA HeldOne == ASSUME NEW e PROVE freeaddrinfo(<<e>>) = Held(e)
PROOF
<1>1. << >> \in Seq(ToSet(<< >>)) /\ Append(<< >>, e) = <<e>>
  OBVIOUS
<1>2. freeaddrinfo(Append(<< >>, e)) = freeaddrinfo(<< >>) + Held(e)
  BY <1>1, HeldAppend
<1>3. Held(e) \in Nat
  BY DEF Held
<1>. QED
  BY <1>1, <1>2, <1>3, HeldEmpty

-----------------------------------------------------------------------------
(* getaddrinfo.                                                            *)

(* The call is one of getaddrinfo, and the addresses it finds.             *)
Asked == call.fn = "getaddrinfo"
These == Found(call.node, call.hints.flags, call.host).addrs

(* The type and the port are those that were asked for.                    *)
Settled ==
  /\ call.hints.type \in {"0", type}
  /\ \A n \in 0 .. MaxPort : call.service = Decimal[n] => port = n

(* The list is that of the first addresses, the others are left.           *)
Building ==
  /\ left \in Seq(ToSet(left)) /\ Len(These) \in Nat \ {0}
  /\ These = [k \in 1 .. Len(These) |-> These[k]]
  /\ Len(list) + Len(left) = Len(These)
  /\ \A k \in 1 .. Len(list) : list[k] = Entry(These[k])
  /\ \A k \in 1 .. Len(left) : left[k] = These[Len(list) + k]

(* The list is being built, or has been returned.                          *)
Built == pc = "entry" \/ (pc = "done" /\ Asked /\ result = "ok")

(* The inductive invariant of getaddrinfo.                                 *)
ListInv ==
  /\ call \in Calls
  /\ pc \in {"call", "hints", "service", "lookup", "entry", "done", "freed"}
  /\ pc = "call" => ~ Asked
  /\ pc \in {"hints", "service", "lookup", "entry"} => Asked
  /\ list \in Seq(ToSet(list)) /\ blocks = freeaddrinfo(list) /\ blocks \in Nat
  /\ ~ Built => list = << >>
  /\ pc = "service" => type = call.hints.type /\ HintError(call.hints) = "ok"
  /\ pc = "lookup" => Settled
  /\ Built => Settled /\ Building
  /\ Built /\ pc = "done" => left = << >>

(* A printed number is a text.                                             *)
LEMMA DecimalText == ASSUME NEW n \in Nat PROVE Decimal[n] # NoText /\ Decimal[n] # << >>
PROOF
<1>. DEFINE t == Decimal[n]
<1>1. t \in Seq(Figures) /\ Len(t) >= 1
  BY DecimalPrints DEF Printed
<1>. HIDE DEF t
<1>2. 1 \in 1 .. Len(t)
  BY <1>1
<1>3. t[1] \in Figures
  BY <1>1, <1>2, ElementOfSeq
<1>4. t[1] # "NULL"
  BY <1>3, FigureValue
<1>5. t # << >>
  BY <1>1
<1>. QED
  BY <1>4, <1>5 DEF NoText, t

(* Every port is smaller than the largest long.                            *)
LEMMA PortsFit ==
  ASSUME NEW l \in Nat, PortBits < l
  PROVE  MaxPort \in Nat /\ \A n \in 0 .. MaxPort : n \in Nat /\ n < Pow2[l - 1]
PROOF
<1>. DEFINE p == Pow2[PortBits]
            q == Pow2[l - 1]
<1>1. PortBits \in Nat /\ l - 1 \in Nat /\ PortBits <= l - 1
  BY PortAssumption
<1>2. p \in Nat \ {0} /\ q \in Nat /\ p <= q /\ MaxPort = p - 1
  BY <1>1, Pow2Nat, Pow2Grows DEF MaxPort
<1>. HIDE DEF p, q
<1>3. MaxPort \in Nat /\ \A n \in 0 .. MaxPort : n \in Nat /\ n < q
  BY <1>2
<1>. QED
  BY <1>3 DEF q

(* The first of the services that were found is one of them.               *)
LEMMA FirstFound ==
  ASSUME NEW found, found \subseteq DOMAIN Services, found # {}
  PROVE  Min(found) \in found
PROOF
<1>1. DOMAIN Services \subseteq Nat
  <2>. DEFINE R == [name : Seq(STRING), proto : STRING, port : Nat]
  <2>1. Services \in Seq(R)
    BY ServicesAssumption, Zenon
  <2>. HIDE DEF R
  <2>. QED
    BY <2>1
<1>2. \E m \in found : \A k \in found : m <= k
  BY <1>1, LeastElement
<1>. QED
  BY <1>2 DEF Min

(* gai_service keeps to the type it is given, and reads a port.            *)
LEMMA ServiceIs ==
  ASSUME call \in Calls, Asked, NEW t \in {"0", "stream", "dgram"}, NEW flags,
         NEW s, s = gai_service(call.service, flags, t), s.status = "ok"
  PROVE  /\ t \in {"0", s.type}
         /\ \A n \in 0 .. MaxPort : call.service = Decimal[n] => s.port = n
PROOF
<1>. DEFINE name == call.service
            m == strto(name).value
            proto == CASE t = "0" -> "NULL" [] t = "dgram" -> "udp" [] OTHER -> "tcp"
            found == getservbyname(name, proto)
            error(e) == [status |-> e, type |-> t, port |-> 0]
            f == First(found)
<1>1. s = IF convert_service(name)
          THEN IF m > MaxPort THEN error("EAI_SERVICE")
               ELSE [status |-> "ok", type |-> t, port |-> m]
          ELSE IF "AI_NUMERICSERV" \in flags \/ found = {} THEN error("EAI_NONAME")
          ELSE IF f.proto \notin {"udp", "tcp"} THEN error("EAI_SERVICE")
          ELSE [status |-> "ok", port |-> f.port,
                type |-> IF f.proto = "udp" THEN "dgram" ELSE "stream"]
  BY Zenon DEF gai_service
<1>2. found # {} => proto \in {"NULL", f.proto}
  <2>1. found \subseteq DOMAIN Services
    BY DEF getservbyname
  <2>2. found # {} => Min(found) \in found
    BY <2>1, FirstFound
  <2>. HIDE DEF proto
  <2>3. \A k \in found : proto \in {"NULL", Services[k].proto}
    BY DEF getservbyname
  <2>. QED
    BY <2>2, <2>3 DEF First
<1>3. proto = "NULL" => t = "0"
  <2>1. "udp" # "NULL" /\ "tcp" # "NULL"
    OBVIOUS
  <2>. QED
    BY <2>1
<1>4. (proto = "udp" => t = "dgram") /\ (proto = "tcp" => t = "stream")
  <2>1. "udp" # "NULL" /\ "tcp" # "NULL" /\ "tcp" # "udp"
    OBVIOUS
  <2>. QED
    BY <2>1
<1>5. proto \in {"NULL", "udp", "tcp"}
  OBVIOUS
<1>6. ASSUME NEW n \in 0 .. MaxPort, name = Decimal[n] PROVE convert_service(name) /\ m = n
  <2>1. call.long \in Nat /\ PortBits < call.long
    BY CallsAssumption DEF Asked
  <2>2. n \in Nat /\ n < Pow2[call.long - 1]
    BY <2>1, PortsFit
  <2>3. strto(name).value = n /\ strto(name).end = << >> /\ name # << >>
    BY <1>6, <2>2, ReadBack, DecimalText
  <2>. QED
    BY <2>2, <2>3 DEF convert_service
<1>7. CASE convert_service(name)
  <2>1. s = [status |-> "ok", type |-> t, port |-> m]
    <3>1. ~ (m > MaxPort)
      <4>. HIDE DEF m
      <4>. QED
        BY <1>1, <1>7
    <3>. QED
      BY <1>1, <1>7, <3>1
  <2>. HIDE DEF m, name
  <2>2. s.type = t /\ s.port = m
    BY <2>1
  <2>. QED
    BY <1>6, <2>2 DEF name
<1>8. CASE ~ convert_service(name)
  <2>. HIDE DEF proto, found, f, m
  <2>1. /\ found # {} /\ f.proto \in {"udp", "tcp"}
        /\ s = [status |-> "ok", port |-> f.port,
                type |-> IF f.proto = "udp" THEN "dgram" ELSE "stream"]
    BY <1>1, <1>8
  <2>2. s.type = IF f.proto = "udp" THEN "dgram" ELSE "stream"
    BY <2>1
  <2>3. t \in {"0", s.type}
    <3>1. "udp" # "tcp" /\ "NULL" # "udp" /\ "NULL" # "tcp"
      OBVIOUS
    <3>. HIDE DEF name
    <3>. QED
      BY <1>2, <1>3, <1>4, <1>5, <2>1, <2>2, <3>1
  <2>4. \A n \in 0 .. MaxPort : name # Decimal[n]
    BY <1>6, <1>8
  <2>. QED
    BY <2>3, <2>4
<1>. QED
  BY <1>7, <1>8

(* gai_lookup fails or has addresses.                                      *)
LEMMA FoundIs ==
  ASSUME call \in Calls, Asked, NEW F, F = Found(call.node, call.hints.flags, call.host),
         F.status = "ok"
  PROVE  F.addrs \in Seq(ToSet(F.addrs)) /\ F.addrs # << >>
PROOF
<1>. DEFINE node == call.node
            flags == call.hints.flags
            host == call.host
            number == inet_aton(node, call.long)
            Lists == {l \in Seq(In_addr \cup {htonl(number), INADDR_ANY, INADDR_LOOPBACK}) : l # << >>}
            error(e) == [status |-> e, addrs |-> << >>]
            these(l) == [status |-> "ok", addrs |-> l]
<1>1. \A e : HostError(e) # "ok"
  BY DEF HostError
<1>2. host.addrs # << >> => host.addrs \in Lists
  <2>1. host.addrs \in Seq(In_addr)
    BY CallsAssumption DEF Asked
  <2>. DEFINE l == host.addrs
              S == In_addr \cup {htonl(number), INADDR_ANY, INADDR_LOOPBACK}
  <2>. HIDE DEF l
  <2>2. \A k \in 1 .. Len(l) : l[k] \in S
    BY <2>1, ElementOfSeq DEF l
  <2>. HIDE DEF S
  <2>3. l \in Seq(S)
    BY <2>1, <2>2 DEF l
  <2>. QED
    BY <2>3 DEF l, S
<1>3. /\ <<htonl(number)>> \in Lists /\ <<INADDR_ANY>> \in Lists /\ <<INADDR_LOOPBACK>> \in Lists
  OBVIOUS
<1>. HIDE DEF Lists, number
<1>4. \E l \in Lists : F = these(l)
  <2>1. CASE node = NoText /\ call.service = NoText
    <3>1. F = error("EAI_NONAME")
      BY <2>1 DEF Found
    <3>. QED
      BY <3>1
  <2>2. CASE node = NoText /\ call.service # NoText
    <3>1. F = these(<<IF "AI_PASSIVE" \in flags THEN INADDR_ANY ELSE INADDR_LOOPBACK>>)
      BY <2>2 DEF Found
    <3>. QED
      BY <1>3, <3>1
  <2>3. CASE node # NoText /\ number # Invalid
    <3>1. F = these(<<htonl(number)>>)
      BY <2>3 DEF Found, number
    <3>. QED
      BY <1>3, <3>1
  <2>4. CASE node # NoText /\ number = Invalid
    <3>1. F = IF "AI_NUMERICHOST" \in flags THEN error("EAI_NONAME")
              ELSE IF host.h_errno # "0" THEN error(HostError(host.h_errno))
              ELSE IF host.addrs = << >> \/ ~ host.in4 THEN error("EAI_FAIL")
              ELSE these(host.addrs)
      BY <2>4 DEF Found, number
    <3>. HIDE DEF flags, host
    <3>. QED
      BY <1>1, <1>2, <3>1
  <2>. QED
    BY <2>1, <2>2, <2>3, <2>4
<1>5. F.addrs \in Lists
  BY <1>4
<1>. QED
  BY <1>5, Own DEF Lists


(* Nothing that has been settled changes while entries are made.           *)
LEMMA SameCall ==
  ASSUME UNCHANGED <<call, type, port>>
  PROVE  /\ (Asked' <=> Asked) /\ These' = These /\ (Settled' <=> Settled)
         /\ \A a : Entry(a)' = Entry(a)
PROOF
<1>1. call' = call /\ type' = type /\ port' = port
  OBVIOUS
<1>2. Asked' <=> Asked
  BY <1>1 DEF Asked
<1>3. Settled' <=> Settled
  BY <1>1 DEF Settled
<1>4. \A a : Entry(a)' = Entry(a)
  BY <1>1 DEF Entry, Canonical
<1>5. These' = These
  BY <1>1, Zenon DEF These, Found
<1>. QED
  BY <1>2, <1>3, <1>4, <1>5

(* An error leaves no list.                                                *)
LEMMA FailInv ==
  ASSUME ListInv, pc \in {"hints", "service", "lookup"}, NEW e, e # "ok", Fail(e)
  PROVE  ListInv'
PROOF
<1>1. ~ Built /\ list = << >>
  BY DEF ListInv, Built
<1>2. pc' = "done" /\ result' = e /\ UNCHANGED <<call, list, blocks>>
  BY DEF Fail
<1>3. ~ Built'
  BY <1>2 DEF Built
<1>. QED
  BY <1>1, <1>2, <1>3 DEF ListInv

(* One step of the function.                                               *)
LEMMA HintsInv == ASSUME ListInv, CheckHints PROVE ListInv'
PROOF
<1>. DEFINE e == HintError(call.hints)
<1>0. pc = "hints" /\ Asked /\ list = << >>
  BY DEF CheckHints, ListInv, Built
<1>1. CASE e # "ok" /\ Fail(e)
  <2>. HIDE DEF e
  <2>. QED
    BY <1>0, <1>1, FailInv
<1>2. CASE /\ e = "ok" /\ type' = call.hints.type
           /\ pc' = IF call.service = NoText THEN "lookup" ELSE "service"
           /\ UNCHANGED <<call, result, port, left, list, blocks>>
  <2>1. (Asked' <=> Asked) /\ ~ Built'
    BY <1>2 DEF Asked, Built
  <2>2. pc' = "lookup" => Settled'
    <3>1. \A n \in 0 .. MaxPort : n \in Nat
      OBVIOUS
    <3>. QED
      BY <1>2, <3>1, DecimalText DEF Settled
  <2>. QED
    BY <1>0, <1>2, <2>1, <2>2 DEF ListInv
<1>. QED
  BY <1>1, <1>2 DEF CheckHints

(* The service is looked up.                                               *)
LEMMA ServiceInv == ASSUME ListInv, LookUpService PROVE ListInv'
PROOF
<1>. DEFINE s == gai_service(call.service, call.hints.flags, type)
<1>0. /\ pc = "service" /\ Asked /\ list = << >> /\ call \in Calls
      /\ type = call.hints.type /\ HintError(call.hints) = "ok"
  BY DEF LookUpService, ListInv, Built
<1>1. CASE s.status # "ok" /\ Fail(s.status)
  <2>. DEFINE e == s.status
  <2>. HIDE DEF e
  <2>. QED
    BY <1>0, <1>1, FailInv DEF e
<1>2. CASE /\ s.status = "ok" /\ type' = s.type /\ port' = s.port /\ pc' = "lookup"
           /\ UNCHANGED <<call, result, left, list, blocks>>
  <2>1. (Asked' <=> Asked) /\ ~ Built'
    BY <1>2 DEF Asked, Built
  <2>2. type \in {"0", "stream", "dgram"}
    BY <1>0 DEF HintError
  <2>3. /\ type \in {"0", s.type}
        /\ \A n \in 0 .. MaxPort : call.service = Decimal[n] => s.port = n
    <3>. DEFINE t == type
                f == call.hints.flags
    <3>1. t \in {"0", "stream", "dgram"} /\ s = gai_service(call.service, f, t)
      BY <2>2
    <3>. HIDE DEF t, f, s
    <3>. QED
      BY <1>0, <1>2, <3>1, ServiceIs DEF t
  <2>. HIDE DEF s
  <2>4. Settled'
    BY <1>0, <1>2, <2>3 DEF Settled
  <2>. QED
    BY <1>0, <1>2, <2>1, <2>4 DEF ListInv
<1>. QED
  BY <1>1, <1>2 DEF LookUpService

(* The host is looked up.                                                  *)
LEMMA LookUpInv == ASSUME ListInv, LookUp PROVE ListInv'
PROOF
<1>. DEFINE f == Found(call.node, call.hints.flags, call.host)
<1>0. pc = "lookup" /\ Asked /\ list = << >> /\ call \in Calls /\ Settled
  BY DEF LookUp, ListInv, Built
<1>1. CASE f.status # "ok" /\ Fail(f.status)
  <2>. DEFINE e == f.status
  <2>. HIDE DEF e
  <2>. QED
    BY <1>0, <1>1, FailInv DEF e
<1>2. CASE /\ f.status = "ok" /\ left' = f.addrs /\ pc' = "entry"
           /\ UNCHANGED <<call, result, type, port, list, blocks>>
  <2>1. (Asked' <=> Asked) /\ These' = These /\ Settled'
    BY <1>0, <1>2, SameCall
  <2>2. These \in Seq(ToSet(These)) /\ These # << >> /\ left' = These
    <3>1. f.addrs \in Seq(ToSet(f.addrs)) /\ f.addrs # << >>
      <4>1. f = Found(call.node, call.hints.flags, call.host)
        OBVIOUS
      <4>. HIDE DEF f
      <4>. QED
        BY <1>0, <1>2, <4>1, FoundIs
    <3>. QED
      BY <1>2, <3>1 DEF These
  <2>3. Building'
    <3>. DEFINE t == These
    <3>1. t \in Seq(ToSet(t)) /\ t # << >> /\ left' = t /\ These' = t /\ list' = << >>
      BY <1>0, <1>2, <2>1, <2>2
    <3>. HIDE DEF t
    <3>2. Len(t) \in Nat \ {0} /\ t = [k \in 1 .. Len(t) |-> t[k]]
      BY <3>1
    <3>3. Len(<< >>) = 0 /\ 0 + Len(t) = Len(t) /\ \A k \in 1 .. Len(t) : 0 + k = k
      BY <3>2
    <3>. QED
      BY <3>1, <3>2, <3>3 DEF Building
  <2>. QED
    BY <1>0, <1>2, <2>1, <2>3 DEF ListInv, Built
<1>. QED
  BY <1>1, <1>2 DEF LookUp

(* An entry is made, or everything is freed.                               *)
LEMMA NewInv == ASSUME ListInv, gai_addrinfo_new PROVE ListInv'
PROOF
<1>. DEFINE e == Entry(Head(left))
            n == Len(list)
            l == Len(left)
<1>0. /\ pc = "entry" /\ Asked /\ Built /\ Settled /\ Building /\ left # << >> /\ call \in Calls
      /\ list \in Seq(ToSet(list)) /\ blocks = freeaddrinfo(list) /\ blocks \in Nat
  BY DEF gai_addrinfo_new, ListInv, Built
<1>s. (Asked' <=> Asked) /\ These' = These /\ Settled' /\ \A a : Entry(a)' = Entry(a)
  BY <1>0, SameCall DEF gai_addrinfo_new
<1>1. CASE /\ list' = Append(list, e) /\ blocks' = blocks + Held(e)
           /\ left' = Tail(left) /\ UNCHANGED <<pc, result>>
  <2>1. list' \in Seq(ToSet(list'))
    <3>. HIDE DEF e
    <3>. QED
      BY <1>0, <1>1, OwnAppend
  <2>2. blocks' = freeaddrinfo(list') /\ blocks' \in Nat
    <3>1. freeaddrinfo(list') = freeaddrinfo(list) + Held(e)
      <4>. HIDE DEF e
      <4>. QED
        BY <1>0, <1>1, HeldAppend
    <3>. DEFINE h == Held(e)
    <3>2. h \in Nat
      BY DEF Held
    <3>. HIDE DEF h
    <3>. QED
      BY <1>0, <1>1, <3>1, <3>2 DEF h
  <2>3. Building'
    <3>0. left \in Seq(ToSet(left))
      BY <1>0 DEF Building
    <3>n. n \in Nat /\ l \in Nat \ {0}
      BY <1>0, <3>0, EmptySeq
    <3>1. /\ n \in Nat /\ l \in Nat \ {0} /\ n + l = Len(These) /\ Len(These) \in Nat \ {0}
          /\ left \in Seq(ToSet(left)) /\ These = [k \in 1 .. Len(These) |-> These[k]]
          /\ \A k \in 1 .. n : list[k] = Entry(These[k])
          /\ \A k \in 1 .. l : left[k] = These[n + k]
      BY <1>0, <3>0, <3>n, Zenon DEF Building
    <3>2. /\ Len(list') = n + 1 /\ list'[n + 1] = e
          /\ \A k \in 1 .. n : list'[k] = list[k]
      <4>. HIDE DEF e
      <4>. QED
        BY <1>0, <1>1, AppendProperties
    <3>3. /\ left' \in Seq(ToSet(left')) /\ Len(left') = l - 1 /\ Head(left) = left[1]
          /\ \A k \in 1 .. l - 1 : left'[k] = left[k + 1]
      <4>1. left' \in Seq(ToSet(left)) /\ Len(left') = l - 1 /\ Head(left) = left[1]
        BY <1>0, <1>1, <3>1, HeadTailProperties
      <4>2. \A k \in 1 .. l - 1 : left'[k] = left[k + 1]
        BY <1>0, <1>1, <3>1, HeadTailProperties
      <4>. QED
        BY <4>1, <4>2, Own
    <3>4. e = Entry(These[n + 1])
      BY <3>1, <3>3
    <3>. HIDE DEF n, l, e
    <3>5. \A k \in 1 .. n + 1 : list'[k] = Entry(These[k])
      <4>1. \A k \in 1 .. n + 1 : k \in 1 .. n \/ k = n + 1
        BY <3>1
      <4>. QED
        BY <3>1, <3>2, <3>4, <4>1
    <3>6. \A k \in 1 .. l - 1 : left'[k] = These[(n + 1) + k]
      <4>1. \A k \in 1 .. l - 1 : k + 1 \in 1 .. l /\ n + (k + 1) = (n + 1) + k
        BY <3>1
      <4>. QED
        BY <3>1, <3>3, <4>1
    <3>7. (n + 1) + (l - 1) = Len(These)
      BY <3>1
    <3>8. \A k \in 1 .. Len(list') : list'[k] = Entry(These[k])'
      BY <1>s, <3>2, <3>5
    <3>. QED
      BY <1>s, <3>1, <3>2, <3>3, <3>6, <3>7, <3>8 DEF Building
  <2>4. pc' = "entry" /\ call' = call
    BY <1>0, <1>1 DEF gai_addrinfo_new
  <2>5. Built'
    BY <2>4 DEF Built
  <2>. HIDE DEF e
  <2>. QED
    BY <1>0, <1>s, <2>1, <2>2, <2>3, <2>4, <2>5 DEF ListInv
<1>2. ASSUME NEW got \in 0 .. (Held(e) - 1),
             blocks' = (blocks + got) - Undone(got, e) - freeaddrinfo(list),
             list' = << >>, left' = << >>, pc' = "done", result' = "EAI_MEMORY"
      PROVE  ListInv'
  <2>1. blocks' = 0
    <3>. DEFINE b == freeaddrinfo(list)
    <3>1. b \in Nat /\ blocks = b /\ got \in Int
      BY <1>0
    <3>2. Undone(got, e) = got
      <4>. DEFINE d == [e EXCEPT !.canon = FALSE]
      <4>1. d.canon = FALSE
        BY DEF Entry
      <4>2. freeaddrinfo(<<d>>) = 2
        BY <4>1, HeldOne DEF Held
      <4>3. got \in {0, 1, 2}
        BY DEF Held
      <4>. HIDE DEF d
      <4>. QED
        BY <4>2, <4>3 DEF Undone, d
    <3>. HIDE DEF b, e
    <3>. QED
      BY <1>2, <3>1, <3>2 DEF b
  <2>2. ~ Built' /\ call' = call
    BY <1>2 DEF Built, gai_addrinfo_new
  <2>3. << >> \in Seq(ToSet(<< >>))
    OBVIOUS
  <2>. HIDE DEF e
  <2>. QED
    BY <1>0, <1>2, <2>1, <2>2, <2>3, HeldEmpty DEF ListInv
<1>. QED
  BY <1>1, <1>2 DEF gai_addrinfo_new

(* The invariant holds at the start,                                       *)
LEMMA InitListInv == Init => ListInv
PROOF
<1>. SUFFICES ASSUME Init PROVE ListInv
  OBVIOUS
<1>1. ~ Built
  BY DEF Init, Built
<1>2. << >> \in Seq(ToSet(<< >>))
  OBVIOUS
<1>. QED
  BY <1>1, <1>2, HeldEmpty DEF Init, ListInv, Asked

(* every step preserves it,                                                *)
LEMMA NextListInv == ASSUME ListInv, [Next]_vars PROVE ListInv'
PROOF
<1>1. CASE Call
  <2>1. ~ Asked /\ (Asked' <=> Asked)
    BY <1>1 DEF Call, ListInv, Asked
  <2>2. ~ Built' /\ ~ Built
    BY <1>1, <2>1 DEF Built, Call
  <2>3. pc' = "done" /\ UNCHANGED <<call, type, port, left, list, blocks>>
    BY <1>1 DEF Call
  <2>. QED
    BY <2>1, <2>2, <2>3 DEF ListInv
<1>2. CASE Success
  <2>1. /\ Built /\ Building /\ Settled /\ left = << >> /\ pc' = "done" /\ result' = "ok"
        /\ UNCHANGED <<call, type, port, left, list, blocks>> /\ Asked
    BY <1>2 DEF Success, ListInv, Built
  <2>2. (Asked' <=> Asked) /\ These' = These /\ Settled' /\ \A a : Entry(a)' = Entry(a)
    BY <2>1, SameCall
  <2>3. Building'
    <3>1. \A k \in 1 .. Len(list) : Entry(These[k])' = Entry(These[k])
      BY <2>2
    <3>. QED
      BY <2>1, <2>2, <3>1 DEF Building
  <2>. QED
    BY <2>1, <2>2, <2>3 DEF ListInv, Built
<1>3. CASE Release
  <2>1. /\ blocks' = blocks - freeaddrinfo(list) /\ list' = << >> /\ pc' = "freed" /\ call' = call
        /\ blocks = freeaddrinfo(list) /\ blocks \in Nat
    BY <1>3 DEF Release, ListInv
  <2>2. blocks' = 0
    BY <2>1
  <2>3. ~ Built'
    BY <2>1 DEF Built
  <2>4. << >> \in Seq(ToSet(<< >>))
    OBVIOUS
  <2>. QED
    BY <2>1, <2>2, <2>3, <2>4, HeldEmpty DEF ListInv
<1>4. CASE UNCHANGED vars
  <2>1. UNCHANGED <<call, type, port>> /\ UNCHANGED <<pc, result, left, list, blocks>>
    BY <1>4 DEF vars
  <2>2. /\ (Asked' <=> Asked) /\ These' = These /\ (Settled' <=> Settled)
        /\ \A a : Entry(a)' = Entry(a)
    BY <2>1, SameCall
  <2>3. Building => Building'
    <3>1. \A k \in 1 .. Len(list) : Entry(These[k])' = Entry(These[k])
      BY <2>2
    <3>. QED
      BY <2>1, <2>2, <3>1 DEF Building
  <2>. QED
    BY <2>1, <2>2, <2>3 DEF ListInv, Built
<1>. QED
  BY <1>1, <1>2, <1>3, <1>4, HintsInv, ServiceInv, LookUpInv, NewInv DEF Next

(* and so it holds always.                                                 *)
LEMMA ListInvariant == Spec => []ListInv
PROOF
<1>1. ListInv /\ [Next]_vars => ListInv'
  BY NextListInv
<1>. QED
  BY <1>1, InitListInv, PTL DEF Spec

(* getaddrinfo returns the whole list or none, with the memory it holds.   *)
THEOREM ListsAreWhole == Spec => []AddressList
PROOF
<1>1. ListInv => AddressList
  <2>. SUFFICES ASSUME ListInv PROVE AddressList
    OBVIOUS
  <2>1. blocks = FoldLeft(LAMBDA n, e : n + Held(e), 0, list)
    BY Zenon DEF ListInv, freeaddrinfo
  <2>2. ASSUME pc = "done", Asked PROVE result = "ok" <=> list # << >>
    <3>1. result # "ok" => list = << >>
      BY <2>2 DEF ListInv, Built
    <3>2. result = "ok" => list # << >>
      BY <2>2 DEF ListInv, Built, Building
    <3>. QED
      BY <3>1, <3>2
  <2>3. ASSUME pc = "done", Asked, result = "ok"
        PROVE  /\ [k \in DOMAIN list |-> list[k].addr] = These
               /\ \A k \in DOMAIN list :
                    /\ call.hints.type \in {"0", list[k].type}
                    /\ list[k].protocol = "udp" <=> list[k].type = "dgram"
                    /\ \A n \in 0 .. MaxPort : call.service = Decimal[n] => list[k].port = n
    <3>1. Settled /\ Building /\ left = << >> /\ list \in Seq(ToSet(list))
      BY <2>3 DEF ListInv, Built
    <3>2. Len(list) \in Nat /\ DOMAIN list = 1 .. Len(list) /\ Len(list) = Len(These)
      BY <3>1 DEF Building
    <3>3. ASSUME NEW k \in DOMAIN list
          PROVE  /\ list[k].addr = These[k] /\ list[k].type = type /\ list[k].port = port
                 /\ list[k].protocol = IF type = "dgram" THEN "udp" ELSE "tcp"
      <4>1. list[k] = Entry(These[k])
        BY <3>1, <3>2 DEF Building
      <4>. QED
        BY <4>1 DEF Entry
    <3>4. [k \in DOMAIN list |-> list[k].addr] = [k \in 1 .. Len(These) |-> These[k]]
      BY <3>2, <3>3
    <3>5. These = [k \in 1 .. Len(These) |-> These[k]]
      BY <3>1 DEF Building
    <3>6. "udp" # "tcp"
      OBVIOUS
    <3>7. [k \in DOMAIN list |-> list[k].addr] = These
      BY <3>4, <3>5
    <3>. QED
      BY <3>1, <3>3, <3>6, <3>7 DEF Settled
  <2>. QED
    BY <2>1, <2>2, <2>3 DEF AddressList, Asked, These
<1>. QED
  BY <1>1, ListInvariant, PTL

-----------------------------------------------------------------------------
(* Printed addresses.                                                      *)

(* The function by which FlattenSeq joins sequences exists.                *)
LEMMA FlattenerExists ==
  ASSUME NEW q
  PROVE  \A n \in Nat : \E g :
           g = [i \in 1 .. n |-> IF i = 1 THEN q[i] ELSE g[i-1] \o q[i]]
PROOF
<1>. DEFINE Body(g, k) == IF k = 1 THEN q[k] ELSE g[k-1] \o q[k]
            T == {n \in Nat : \E g : g = [k \in 1 .. n |-> Body(g, k)]}
<1>1. 0 \in T
  <2>. DEFINE g == [k \in 1 .. 0 |-> 0]
  <2>1. g = [k \in 1 .. 0 |-> Body(g, k)]
    OBVIOUS
  <2>. QED
    BY <2>1
<1>2. ASSUME NEW n \in T PROVE n + 1 \in T
  <2>1. PICK g : g = [k \in 1 .. n |-> Body(g, k)]
    OBVIOUS
  <2>. DEFINE h == [k \in 1 .. n + 1 |-> IF k = n + 1 THEN Body(g, k) ELSE g[k]]
  <2>0. n \in Nat /\ n + 1 \in Nat
    OBVIOUS
  <2>2. ASSUME NEW k \in 1 .. n + 1 PROVE h[k] = Body(h, k)
    <3>1. k = 1 \/ (k - 1 \in 1 .. n + 1 /\ k - 1 # n + 1 /\ h[k - 1] = g[k - 1])
      BY <2>0
    <3>2. Body(h, k) = Body(g, k)
      BY <3>1
    <3>3. k # n + 1 => g[k] = Body(g, k)
      <4>1. k # n + 1 => k \in 1 .. n
        BY <2>0
      <4>. HIDE DEF Body
      <4>. QED
        BY <2>1, <4>1
    <3>. HIDE DEF Body
    <3>. QED
      BY <3>2, <3>3
  <2>. HIDE DEF Body
  <2>3. h = [k \in 1 .. n + 1 |-> Body(h, k)]
    BY <2>2
  <2>. HIDE DEF h
  <2>. QED
    BY <2>0, <2>3
<1>. HIDE DEF Body, T
<1>3. \A n \in Nat : n \in T
  <2>1. T \subseteq Nat /\ \A n \in T : n + 1 \in T
    BY <1>2 DEF T
  <2>. QED
    BY <1>1, <2>1, Induction
<1>. QED
  BY <1>3 DEF T, Body

(* The strings one after the other.                                        *)
Flattens(q, g) ==
  /\ g[1] = q[1]
  /\ \A k \in 2 .. Len(q) : g[k] = g[k - 1] \o q[k]
  /\ FlattenSeq(q) = g[Len(q)]

(* FlattenSeq puts them so.                                                *)
LEMMA FlattenWalk ==
  ASSUME NEW S, NEW q \in Seq(S), q # << >>
  PROVE  \E g : Flattens(q, g)
PROOF
<1>. DEFINE n == Len(q)
            g == CHOOSE g : g = [i \in 1 .. n |->
                                   IF i = 1 THEN q[i] ELSE g[i-1] \o q[i]]
<1>0. n \in Nat /\ n # 0
  BY EmptySeq
<1>1. FlattenSeq(q) = g[n]
  BY <1>0 DEF FlattenSeq
<1>2. g = [i \in 1 .. n |-> IF i = 1 THEN q[i] ELSE g[i-1] \o q[i]]
  BY <1>0, FlattenerExists
<1>. HIDE DEF g, n
<1>3. g[1] = q[1]
  <2>1. 1 \in 1 .. n
    BY <1>0
  <2>. QED
    BY <1>2, <2>1
<1>4. \A k \in 2 .. n : g[k] = g[k - 1] \o q[k]
  <2>1. \A k \in 2 .. n : k \in 1 .. n /\ k # 1
    BY <1>0
  <2>. QED
    BY <1>2, <2>1
<1>. QED
  BY <1>1, <1>3, <1>4 DEF Flattens, n

(* One text after another.                                                 *)
Follows(S, x, y, z) ==
  /\ z \in Seq(S) /\ Len(x) \in Nat /\ Len(y) \in Nat /\ Len(z) = Len(x) + Len(y)
  /\ \A k \in 1 .. Len(x) : z[k] = x[k]
  /\ \A k \in 1 .. Len(y) : z[Len(x) + k] = y[k]

(* The concatenation does.                                                 *)
LEMMA Cat ==
  ASSUME NEW S, NEW x \in Seq(S), NEW y \in Seq(S)
  PROVE  Follows(S, x, y, x \o y)
PROOF
<1>. DEFINE n == Len(x)
            m == Len(y)
            z == x \o y
<1>1. /\ x \o y \in Seq(S)
      /\ Len(x \o y) = Len(x) + Len(y)
      /\ \A i \in 1 .. Len(x) + Len(y) : (x \o y)[i] =
                     IF i <= Len(x) THEN x[i] ELSE y[i - Len(x)]
  BY ConcatProperties, Zenon
<1>2. /\ z \in Seq(S) /\ Len(z) = n + m
      /\ \A i \in 1 .. n + m : z[i] = IF i <= n THEN x[i] ELSE y[i - n]
  BY <1>1, Zenon
<1>3. n \in Nat /\ m \in Nat
  OBVIOUS
<1>. HIDE DEF n, m, z
<1>4. \A k \in 1 .. n : k \in 1 .. n + m /\ k <= n
  BY <1>3
<1>5. \A k \in 1 .. m : n + k \in 1 .. n + m /\ ~ (n + k <= n) /\ (n + k) - n = k
  BY <1>3
<1>6. \A k \in 1 .. n : z[k] = x[k]
  BY <1>2, <1>4
<1>7. \A k \in 1 .. m : z[n + k] = y[k]
  BY <1>2, <1>5
<1>. QED
  BY <1>2, <1>3, <1>6, <1>7 DEF n, m, z, Follows

(* The characters of a printed address.                                    *)
Marks == {".", ":"}
Chars == Figures \cup Marks

(* A number and the separator before it.                                   *)
Part(sep, n) == <<sep>> \o Decimal[n]

(* A mark and a printed number.                                            *)
LEMMA PartIs ==
  ASSUME NEW sep \in Marks, NEW n \in Nat
  PROVE  /\ Part(sep, n) \in Seq(Chars) /\ Len(Part(sep, n)) = Len(Decimal[n]) + 1
         /\ Part(sep, n)[1] = sep
         /\ Decimal[n] \in Seq(Figures) /\ Decimal[n] \in Seq(Chars) /\ Len(Decimal[n]) \in Nat \ {0}
         /\ \A k \in 1 .. Len(Decimal[n]) : /\ Part(sep, n)[k + 1] = Decimal[n][k]
                                            /\ Decimal[n][k] # sep
PROOF
<1>. DEFINE t == Decimal[n]
            h == <<sep>>
            p == h \o t
<1>1. t \in Seq(Figures) /\ Len(t) \in Nat \ {0}
  BY DecimalPrints DEF Printed
<1>2. p = Part(sep, n)
  BY DEF Part
<1>. HIDE DEF t
<1>3. t \in Seq(Chars)
  BY <1>1, SeqMonotonic DEF Chars
<1>4. h \in Seq(Chars) /\ Len(h) = 1 /\ h[1] = sep
  <2>1. sep \in Chars
    BY DEF Chars
  <2>. QED
    BY <2>1
<1>5. \A k \in 1 .. Len(t) : t[k] # sep
  <2>1. \A k \in 1 .. Len(t) : t[k] \in Figures
    BY <1>1, ElementOfSeq
  <2>. QED
    BY <2>1, FigureValue DEF Marks
<1>p. p = h \o t
  OBVIOUS
<1>. HIDE DEF h, p
<1>6. /\ p \in Seq(Chars) /\ Len(p) = Len(h) + Len(t)
      /\ \A k \in 1 .. Len(h) : p[k] = h[k]
      /\ \A k \in 1 .. Len(t) : p[Len(h) + k] = t[k]
  <2>1. Follows(Chars, h, t, p)
    BY <1>3, <1>4, <1>p, Cat
  <2>. QED
    BY <2>1 DEF Follows
<1>7. p[1] = sep /\ \A k \in 1 .. Len(t) : p[k + 1] = t[k]
  <2>1. 1 \in 1 .. 1 /\ \A k \in 1 .. Len(t) : 1 + k = k + 1
    BY <1>1
  <2>. QED
    BY <1>4, <1>6, <2>1
<1>8. Len(p) = Len(t) + 1
  BY <1>1, <1>4, <1>6
<1>. QED
  BY <1>1, <1>2, <1>3, <1>5, <1>6, <1>7, <1>8 DEF t

(* The last separator of a text is before its last number.                 *)
OneEnding(sep, X, n, Y, m) ==
  X \o Part(sep, n) = Y \o Part(sep, m) => X = Y /\ n = m

(* So equal texts have equal last numbers.                                 *)
LEMMA LastPart ==
  ASSUME NEW sep \in Marks, NEW X \in Seq(Chars), NEW Y \in Seq(Chars),
         NEW n \in Nat, NEW m \in Nat
  PROVE  OneEnding(sep, X, n, Y, m)
PROOF
<1>. SUFFICES ASSUME X \o Part(sep, n) = Y \o Part(sep, m) PROVE X = Y /\ n = m
  BY DEF OneEnding
<1>. DEFINE d == Decimal[n]
            e == Decimal[m]
            p == Part(sep, n)
            q == Part(sep, m)
            T == X \o p
            U == Y \o q
            a == Len(X)
            b == Len(Y)
            i == Len(d)
            j == Len(e)
<1>1. /\ p \in Seq(Chars) /\ Len(p) = i + 1 /\ p[1] = sep /\ d \in Seq(Chars) /\ i \in Nat
      /\ \A k \in 1 .. i : p[k + 1] = d[k] /\ d[k] # sep
  BY PartIs
<1>2. /\ q \in Seq(Chars) /\ Len(q) = j + 1 /\ q[1] = sep /\ e \in Seq(Chars) /\ j \in Nat
      /\ \A k \in 1 .. j : q[k + 1] = e[k] /\ e[k] # sep
  BY PartIs
<1>0. a \in Nat /\ b \in Nat /\ T = U /\ T = X \o p /\ U = Y \o q
  OBVIOUS
<1>. HIDE DEF d, e, p, q, i, j, T, U
<1>3. /\ Len(T) = a + (i + 1) /\ \A k \in 1 .. a : T[k] = X[k]
      /\ \A k \in 1 .. i + 1 : T[a + k] = p[k]
  <2>1. Follows(Chars, X, p, T)
    BY <1>0, <1>1, Cat
  <2>. QED
    BY <1>1, <2>1 DEF Follows
<1>4. /\ Len(U) = b + (j + 1) /\ \A k \in 1 .. b : U[k] = Y[k]
      /\ \A k \in 1 .. j + 1 : U[b + k] = q[k]
  <2>1. Follows(Chars, Y, q, U)
    BY <1>0, <1>2, Cat
  <2>. QED
    BY <1>2, <2>1 DEF Follows
<1>. HIDE DEF a, b
<1>5. a + (i + 1) = b + (j + 1)
  BY <1>0, <1>3, <1>4
<1>6. T[a + 1] = sep /\ \A k \in 1 .. i : T[a + (k + 1)] = d[k]
  <2>1. 1 \in 1 .. i + 1
    BY <1>1
  <2>2. \A k \in 1 .. i : k + 1 \in 1 .. i + 1
    BY <1>1
  <2>. QED
    BY <1>1, <1>3, <2>1, <2>2
<1>7. U[b + 1] = sep /\ \A k \in 1 .. j : U[b + (k + 1)] = e[k]
  <2>1. 1 \in 1 .. j + 1
    BY <1>2
  <2>2. \A k \in 1 .. j : k + 1 \in 1 .. j + 1
    BY <1>2
  <2>. QED
    BY <1>2, <1>4, <2>1, <2>2
<1>8. ~ (a < b)
  <2>. SUFFICES ASSUME a < b PROVE FALSE
    OBVIOUS
  <2>. DEFINE c == b - a
  <2>1. c \in 1 .. i /\ a + (c + 1) = b + 1
    BY <1>0, <1>1, <1>2, <1>5
  <2>. HIDE DEF c
  <2>2. T[b + 1] = d[c] /\ d[c] # sep
    BY <1>1, <1>6, <2>1
  <2>. QED
    BY <1>0, <1>7, <2>2
<1>9. ~ (b < a)
  <2>. SUFFICES ASSUME b < a PROVE FALSE
    OBVIOUS
  <2>. DEFINE c == a - b
  <2>1. c \in 1 .. j /\ b + (c + 1) = a + 1
    BY <1>0, <1>1, <1>2, <1>5
  <2>. HIDE DEF c
  <2>2. U[a + 1] = e[c] /\ e[c] # sep
    BY <1>2, <1>7, <2>1
  <2>. QED
    BY <1>0, <1>6, <2>2
<1>10. a = b /\ i = j
  BY <1>0, <1>1, <1>2, <1>5, <1>8, <1>9
<1>11. X = Y
  <2>2. \A k \in 1 .. a : X[k] = Y[k]
    BY <1>0, <1>3, <1>4, <1>10
  <2>. QED
    BY <1>10, <2>2, SeqEqual DEF a, b
<1>12. d = e
  <2>1. \A k \in 1 .. i : d[k] = e[k]
    BY <1>0, <1>6, <1>7, <1>10
  <2>. QED
    BY <1>1, <1>2, <1>10, <2>1, SeqEqual DEF i, j
<1>. QED
  BY <1>11, <1>12, DecimalDiffers DEF d, e

(* Numbers joined by a separator, one after the other.                     *)
Joined(sep, a, n, g) ==
  /\ g[1] \in Seq(Chars) /\ Len(g[1]) >= 1
  /\ \A k \in 2 .. n : g[k] = g[k - 1] \o Part(sep, a[k])

(* Joined parts are a text that begins as the first one does.              *)
LEMMA JoinedText ==
  ASSUME NEW sep \in Marks, NEW n \in Nat, NEW a \in [1 .. n -> Nat], NEW g,
         Joined(sep, a, n, g)
  PROVE  \A k \in 1 .. n : g[k] \in Seq(Chars) /\ Len(g[k]) >= 1 /\ g[k][1] = g[1][1]
PROOF
<1>. DEFINE Right(k) == g[k] \in Seq(Chars) /\ Len(g[k]) >= 1 /\ g[k][1] = g[1][1]
            T == {k \in Nat : k + 1 <= n => Right(k + 1)}
<1>1. Right(1)
  BY DEF Joined
<1>2. ASSUME NEW k \in Nat, k + 2 <= n, Right(k + 1) PROVE Right(k + 2)
  <2>. DEFINE K == k + 2
              x == g[K - 1]
              p == Part(sep, a[K])
  <2>1. K - 1 = k + 1 /\ K \in 2 .. n /\ K \in 1 .. n
    BY <1>2
  <2>2. a[K] \in Nat
    BY <2>1
  <2>3. x \in Seq(Chars) /\ Len(x) >= 1 /\ x[1] = g[1][1] /\ g[K] = x \o p
    <3>1. Right(K - 1)
      BY <1>2, <2>1
    <3>2. \A k_1 \in 2 .. n : g[k_1] = g[k_1 - 1] \o Part(sep, a[k_1])
      BY DEF Joined
    <3>. HIDE DEF K
    <3>3. g[K] = x \o p
      BY <2>1, <3>2, Zenon
    <3>. QED
      BY <3>1, <3>3
  <2>4. p \in Seq(Chars) /\ Len(p) \in Nat
    <3>1. p \in Seq(Chars)
      BY <2>2, PartIs, Zenon
    <3>. HIDE DEF p
    <3>. QED
      BY <3>1
  <2>. DEFINE z == g[K]
  <2>z. z = x \o p
    BY <2>3
  <2>. HIDE DEF K, x, p, z
  <2>5. Follows(Chars, x, p, z)
    BY <2>3, <2>4, <2>z, Cat
  <2>6. 1 \in 1 .. Len(x) /\ Len(x) + Len(p) >= 1
    BY <2>3, <2>4
  <2>7. Right(K)
    BY <2>3, <2>5, <2>6 DEF z, Follows
  <2>. QED
    BY <2>7 DEF K
<1>. HIDE DEF Right
<1>3. 0 \in T
  <2>1. 0 + 1 = 1
    OBVIOUS
  <2>. QED
    BY <1>1, <2>1
<1>4. ASSUME NEW k \in T PROVE k + 1 \in T
  <2>1. k \in Nat /\ k + 1 \in Nat /\ (k + 1) + 1 = k + 2 /\ (k + 2 <= n => k + 1 <= n)
    OBVIOUS
  <2>. QED
    BY <1>2, <2>1
<1>5. T \subseteq Nat
  OBVIOUS
<1>. HIDE DEF T
<1>6. \A k \in Nat : k \in T
  BY <1>3, <1>4, <1>5, Induction
<1>7. ASSUME NEW k \in 1 .. n PROVE Right(k)
  <2>1. k - 1 \in Nat /\ (k - 1) + 1 = k /\ k <= n
    OBVIOUS
  <2>2. k - 1 \in T
    BY <1>6, <2>1
  <2>. QED
    BY <2>1, <2>2 DEF T
<1>. QED
  BY <1>7 DEF Right

(* They can be told apart.                                                 *)
ToldApart(a, g, b, h, n) ==
  g[n] = h[n] => g[1] = h[1] /\ \A k \in 2 .. n : a[k] = b[k]

(* From the text every number can be told.                                 *)
LEMMA Unjoin ==
  ASSUME NEW sep \in Marks, NEW n \in Nat \ {0},
         NEW a \in [1 .. n -> Nat], NEW g, Joined(sep, a, n, g),
         NEW b \in [1 .. n -> Nat], NEW h, Joined(sep, b, n, h)
  PROVE  ToldApart(a, g, b, h, n)
PROOF
<1>. SUFFICES ASSUME g[n] = h[n] PROVE g[1] = h[1] /\ \A k \in 2 .. n : a[k] = b[k]
  BY DEF ToldApart
<1>1. \A k \in 1 .. n : g[k] \in Seq(Chars) /\ h[k] \in Seq(Chars)
  BY JoinedText
<1>2. ASSUME NEW k \in 2 .. n, g[k] = h[k] PROVE g[k - 1] = h[k - 1] /\ a[k] = b[k]
  <2>. DEFINE X == g[k - 1]
              Y == h[k - 1]
              i == a[k]
              j == b[k]
  <2>1. k \in 1 .. n /\ k - 1 \in 1 .. n
    OBVIOUS
  <2>2. X \in Seq(Chars) /\ Y \in Seq(Chars) /\ i \in Nat /\ j \in Nat
    BY <1>1, <2>1
  <2>3. X \o Part(sep, i) = Y \o Part(sep, j)
    BY <1>2 DEF Joined
  <2>. HIDE DEF X, Y, i, j
  <2>4. OneEnding(sep, X, i, Y, j)
    BY <2>2, LastPart
  <2>5. X = Y /\ i = j
    BY <2>3, <2>4, Zenon DEF OneEnding
  <2>. QED
    BY <2>5 DEF X, Y, i, j
<1>. DEFINE T == {i \in Nat : i < n => g[n - i] = h[n - i]}
<1>3. 0 \in T
  <2>1. n - 0 = n
    OBVIOUS
  <2>. QED
    BY <2>1
<1>4. ASSUME NEW i \in T PROVE i + 1 \in T
  <2>1. i + 1 \in Nat
    OBVIOUS
  <2>2. ASSUME i + 1 < n PROVE g[n - (i + 1)] = h[n - (i + 1)]
    <3>. DEFINE K == n - i
    <3>1. i < n /\ K \in 2 .. n /\ n - (i + 1) = K - 1
      BY <2>2
    <3>2. g[K] = h[K]
      BY <3>1
    <3>. HIDE DEF K
    <3>. QED
      BY <1>2, <3>1, <3>2
  <2>. QED
    BY <2>1, <2>2
<1>5. T \subseteq Nat
  OBVIOUS
<1>. HIDE DEF T
<1>6. \A i \in Nat : i \in T
  BY <1>3, <1>4, <1>5, Induction
<1>7. \A k \in 1 .. n : g[k] = h[k]
  <2>. TAKE k \in 1 .. n
  <2>1. n - k \in Nat /\ n - k < n /\ n - (n - k) = k
    OBVIOUS
  <2>2. n - k \in T
    BY <1>6, <2>1
  <2>3. n - k < n => g[n - (n - k)] = h[n - (n - k)]
    BY <2>2 DEF T
  <2>. QED
    BY <2>1, <2>3
<1>8. 1 \in 1 .. n /\ \A k \in 2 .. n : k \in 1 .. n
  OBVIOUS
<1>. QED
  BY <1>2, <1>7, <1>8

(* Octets are numbers.                                                     *)
LEMMA OctetNat == MaxOctet \in Nat /\ Octet \subseteq Nat
PROOF
<1>1. Pow2[OctetBits] \in Nat \ {0}
  BY WidthAssumption, Pow2Nat
<1>2. MaxOctet \in Nat
  BY <1>1 DEF MaxOctet
<1>. QED
  BY <1>2 DEF Octet

(* The text of an IPv4 address, octet by octet.                            *)
LEMMA NtoaJoined ==
  ASSUME NEW a \in [1 .. 4 -> Nat]
  PROVE  \E g : Joined(".", a, 4, g) /\ g[1] = Decimal[a[1]] /\ inet_ntoa(a) = g[4]
PROOF
<1>. DEFINE q == [k \in 1 .. 4 |-> (IF k = 1 THEN << >> ELSE <<".">>) \o Decimal[a[k]]]
            sep == "."
<1>0. a[1] \in Nat /\ Decimal[a[1]] \in Seq(Chars) /\ Len(Decimal[a[1]]) \in Nat \ {0}
  <2>1. sep \in Marks /\ a[1] \in Nat
    BY DEF Marks
  <2>. QED
    BY <2>1, PartIs
<1>1. q[1] = Decimal[a[1]]
  <2>1. q[1] = << >> \o Decimal[a[1]]
    OBVIOUS
  <2>. QED
    BY <1>0, <2>1, ConcatEmptySeq
<1>2. \A k \in 2 .. 4 : q[k] = Part(sep, a[k])
  <2>1. \A k \in 2 .. 4 : k \in 1 .. 4 /\ k # 1
    OBVIOUS
  <2>2. \A k \in 1 .. 4 : q[k] = (IF k = 1 THEN << >> ELSE <<".">>) \o Decimal[a[k]]
    BY Zenon
  <2>. HIDE DEF q
  <2>. QED
    BY <2>1, <2>2, Zenon DEF Part
<1>3. inet_ntoa(a) = FlattenSeq(q)
  BY DEF inet_ntoa
<1>4. Len(q) = 4 /\ q \in Seq({q[k] : k \in 1 .. 4}) /\ q # << >>
  OBVIOUS
<1>. HIDE DEF q
<1>5. PICK g : Flattens(q, g)
  BY <1>4, FlattenWalk
<1>6. g[1] = q[1] /\ (\A k \in 2 .. 4 : g[k] = g[k - 1] \o q[k]) /\ FlattenSeq(q) = g[4]
  BY <1>4, <1>5 DEF Flattens
<1>7. \A k \in 2 .. 4 : g[k] = g[k - 1] \o Part(sep, a[k])
  BY <1>2, <1>6
<1>9. g[1] \in Seq(Chars) /\ Len(g[1]) >= 1
  BY <1>0, <1>1, <1>6
<1>8. Joined(sep, a, 4, g)
  BY <1>7, <1>9, Zenon DEF Joined
<1>. QED
  BY <1>1, <1>3, <1>6, <1>8

(* The text of an IPv6 address.                                            *)
LEMMA Ntop6Joined ==
  ASSUME NEW n \in Nat \ {0}, NEW a \in [1 .. n -> Nat]
  PROVE  \E g : Joined(":", a, n, g) /\ g[1] = Part(":", a[1]) /\ inet_ntop6(a) = g[n]
PROOF
<1>. DEFINE q == [k \in DOMAIN a |-> <<":">> \o Decimal[a[k]]]
            sep == ":"
            first == Part(sep, a[1])
<1>0. first \in Seq(Chars) /\ Len(first) >= 1
  <2>1. sep \in Marks /\ a[1] \in Nat
    BY DEF Marks
  <2>2. first \in Seq(Chars) /\ Len(first) = Len(Decimal[a[1]]) + 1 /\ Len(Decimal[a[1]]) \in Nat \ {0}
    BY <2>1, PartIs
  <2>. HIDE DEF first
  <2>. QED
    BY <2>2
<1>2. \A k \in 1 .. n : q[k] = Part(sep, a[k])
  BY DEF Part
<1>3. inet_ntop6(a) = FlattenSeq(q)
  BY DEF inet_ntop6
<1>4. Len(q) = n /\ q \in Seq({q[k] : k \in 1 .. n})
  <2>1. DOMAIN a = 1 .. n
    OBVIOUS
  <2>2. q = [k \in 1 .. n |-> q[k]]
    BY <2>1, Zenon
  <2>. HIDE DEF q
  <2>. QED
    BY <2>2
<1>. HIDE DEF q
<1>q. q # << >>
  BY <1>4
<1>5. PICK g : Flattens(q, g)
  BY <1>4, <1>q, FlattenWalk
<1>6. g[1] = q[1] /\ (\A k \in 2 .. n : g[k] = g[k - 1] \o q[k]) /\ FlattenSeq(q) = g[n]
  BY <1>4, <1>5 DEF Flattens
<1>7. \A k \in 2 .. n : g[k] = g[k - 1] \o Part(sep, a[k])
  <2>1. \A k \in 2 .. n : k \in 1 .. n
    OBVIOUS
  <2>. QED
    BY <1>2, <1>6, <2>1
<1>1. q[1] = first
  BY <1>2
<1>. HIDE DEF first
<1>8. Joined(sep, a, n, g)
  BY <1>0, <1>1, <1>6, <1>7 DEF Joined
<1>. QED
  BY <1>1, <1>3, <1>6, <1>8 DEF first

(* Addresses that print the same text are the same.                        *)
LEMMA NtoaDiffers ==
  ASSUME NEW a \in [1 .. 4 -> Nat], NEW b \in [1 .. 4 -> Nat], inet_ntoa(a) = inet_ntoa(b)
  PROVE  a = b
PROOF
<1>. DEFINE sep == "."
<1>0. sep \in Marks
  BY DEF Marks
<1>1. PICK g : Joined(sep, a, 4, g) /\ g[1] = Decimal[a[1]] /\ inet_ntoa(a) = g[4]
  BY NtoaJoined
<1>2. PICK h : Joined(sep, b, 4, h) /\ h[1] = Decimal[b[1]] /\ inet_ntoa(b) = h[4]
  BY NtoaJoined
<1>. DEFINE n == 4
<1>a. n \in Nat \ {0} /\ a \in [1 .. n -> Nat] /\ b \in [1 .. n -> Nat]
  OBVIOUS
<1>b. Joined(sep, a, n, g) /\ Joined(sep, b, n, h)
  BY <1>1, <1>2, Zenon
<1>c. g[n] = h[n]
  BY <1>1, <1>2, Zenon
<1>n. /\ n \in Nat \ {0} /\ a \in [1 .. n -> Nat] /\ b \in [1 .. n -> Nat]
      /\ Joined(sep, a, n, g) /\ Joined(sep, b, n, h) /\ g[n] = h[n]
  BY <1>a, <1>b, <1>c, Zenon
<1>. HIDE DEF sep, n
<1>u. ToldApart(a, g, b, h, n)
  BY <1>0, <1>n, Unjoin
<1>3. g[1] = h[1] /\ \A k \in 2 .. 4 : a[k] = b[k]
  BY <1>n, <1>u, Zenon DEF ToldApart, n
<1>4. a[1] = b[1]
  <2>. DEFINE i == a[1]
              j == b[1]
  <2>1. i \in Nat /\ j \in Nat /\ Decimal[i] = Decimal[j]
    BY <1>1, <1>2, <1>3
  <2>. HIDE DEF i, j
  <2>2. i = j
    BY <2>1, DecimalDiffers
  <2>. QED
    BY <2>2 DEF i, j
<1>5. \A k \in 1 .. 4 : a[k] = b[k]
  BY <1>3, <1>4
<1>. QED
  BY <1>5

(* Different IPv6 addresses are printed differently.                       *)
LEMMA Ntop6Differs ==
  ASSUME NEW n \in Nat \ {0}, NEW a \in [1 .. n -> Nat], NEW b \in [1 .. n -> Nat],
         inet_ntop6(a) = inet_ntop6(b)
  PROVE  a = b
PROOF
<1>. DEFINE sep == ":"
<1>0. sep \in Marks
  BY DEF Marks
<1>1. PICK g : Joined(sep, a, n, g) /\ g[1] = Part(sep, a[1]) /\ inet_ntop6(a) = g[n]
  BY Ntop6Joined
<1>2. PICK h : Joined(sep, b, n, h) /\ h[1] = Part(sep, b[1]) /\ inet_ntop6(b) = h[n]
  BY Ntop6Joined
<1>. HIDE DEF sep
<1>u. ToldApart(a, g, b, h, n)
  BY <1>0, <1>1, <1>2, Unjoin
<1>3. g[1] = h[1] /\ \A k \in 2 .. n : a[k] = b[k]
  BY <1>1, <1>2, <1>u, Zenon DEF ToldApart
<1>4. a[1] = b[1]
  <2>. DEFINE i == a[1]
              j == b[1]
              e == << >>
  <2>1. i \in Nat /\ j \in Nat /\ e \in Seq(Chars) /\ Part(sep, i) = Part(sep, j)
    BY <1>1, <1>2, <1>3
  <2>. HIDE DEF i, j, e
  <2>2. OneEnding(sep, e, i, e, j)
    BY <1>0, <2>1, LastPart
  <2>3. i = j
    BY <2>1, <2>2, Zenon DEF OneEnding
  <2>. QED
    BY <2>3 DEF i, j
<1>5. \A k \in 1 .. n : a[k] = b[k]
  BY <1>3, <1>4
<1>. QED
  BY <1>5

(* The first characters tell the families apart, and a text from none.     *)
LEMMA NtoaBegins == ASSUME NEW a \in [1 .. 4 -> Nat] PROVE inet_ntoa(a)[1] \in Figures
PROOF
<1>. DEFINE sep == "."
<1>0. sep \in Marks /\ a[1] \in Nat
  BY DEF Marks
<1>1. PICK g : Joined(sep, a, 4, g) /\ g[1] = Decimal[a[1]] /\ inet_ntoa(a) = g[4]
  BY NtoaJoined
<1>. DEFINE n == 4
<1>n. n \in Nat /\ a \in [1 .. n -> Nat] /\ Joined(sep, a, n, g) /\ n \in 1 .. n
  BY <1>1
<1>. HIDE DEF sep, n
<1>t. g[n][1] = g[1][1]
  BY <1>0, <1>n, JoinedText
<1>2. g[4][1] = g[1][1]
  BY <1>t DEF n
<1>3. Decimal[a[1]][1] \in Figures
  <2>. DEFINE t == Decimal[a[1]]
  <2>1. t \in Seq(Figures) /\ Len(t) \in Nat \ {0}
    BY <1>0, PartIs
  <2>. HIDE DEF t
  <2>2. 1 \in 1 .. Len(t)
    BY <2>1
  <2>3. t[1] \in Figures
    BY <2>1, <2>2, ElementOfSeq
  <2>. QED
    BY <2>3 DEF t
<1>. QED
  BY <1>1, <1>2, <1>3

(* An IPv6 address is printed with a colon first.                          *)
LEMMA Ntop6Begins ==
  ASSUME NEW n \in Nat \ {0}, NEW a \in [1 .. n -> Nat]
  PROVE  inet_ntop6(a)[1] = ":"
PROOF
<1>. DEFINE sep == ":"
<1>0. sep \in Marks /\ a[1] \in Nat /\ n \in 1 .. n
  BY DEF Marks
<1>1. PICK g : Joined(sep, a, n, g) /\ g[1] = Part(sep, a[1]) /\ inet_ntop6(a) = g[n]
  BY Ntop6Joined
<1>. HIDE DEF sep
<1>2. g[n][1] = g[1][1]
  BY <1>0, <1>1, JoinedText
<1>3. Part(sep, a[1])[1] = sep
  BY <1>0, PartIs
<1>. QED
  BY <1>1, <1>2, <1>3 DEF sep

-----------------------------------------------------------------------------
(* Socket addresses.                                                       *)

(* What network_sockaddr_sprint prints.                                    *)
Text(s) == network_sockaddr_sprint(INET_ADDRSTRLEN, s)

(* A socket address with an address of its family.                         *)
WellFormed(s) ==
  /\ s.family = "inet" => s.addr \in In_addr
  /\ s.family = "inet6" => s.addr \in [1 .. V6Octets -> Octet]

(* The family a socket address is printed in.                              *)
Mapped(s) == s.family = "inet6" /\ IN6_IS_ADDR_V4MAPPED(s.addr)
IsV4(s) == s.family = "inet" \/ Mapped(s)
IsV6(s) == s.family = "inet6" /\ ~ Mapped(s)
V4(s) == IF s.family = "inet" THEN s.addr ELSE Low4(s.addr)

(* The last four octets of an IPv6 address.                                *)
LEMMA Low4Is ==
  ASSUME NEW a \in [1 .. V6Octets -> Octet]
  PROVE  Low4(a) \in In_addr /\ \A k \in 1 .. 4 : Low4(a)[k] = a[(V6Octets - 4) + k]
PROOF
<1>. DEFINE v == V6Octets
            s == SubSeq(a, v - 3, v)
<1>1. v \in Nat /\ v > 6 /\ v - 3 \in Int /\ v \in Int
  BY WidthAssumption
<1>2. \A i \in (v - 3) .. v : i \in 1 .. v
  BY <1>1
<1>3. \A i \in (v - 3) .. v : a[i] \in Octet
  BY <1>2
<1>. HIDE DEF v
<1>. DEFINE m == v - 3
<1>4. /\ SubSeq(a, m, v) \in Seq(Octet)
      /\ Len(SubSeq(a, m, v)) = IF m <= v THEN v - m + 1 ELSE 0
      /\ \A i \in 1 .. v - m + 1 : SubSeq(a, m, v)[i] = a[m + i - 1]
  <2>1. m \in Int /\ v \in Int /\ \A i \in m .. v : a[i] \in Octet
    BY <1>1, <1>3
  <2>. HIDE DEF m
  <2>. QED
    BY <2>1, SubSeqProperties
<1>5. m <= v /\ v - m + 1 = 4 /\ \A k \in 1 .. 4 : m + k - 1 = (v - 4) + k
  BY <1>1
<1>6. s \in Seq(Octet) /\ Len(s) = 4 /\ \A k \in 1 .. 4 : s[k] = a[(v - 4) + k]
  <2>. DEFINE c == v - m + 1
              b == m <= v
  <2>1. /\ s \in Seq(Octet) /\ Len(s) = (IF b THEN c ELSE 0)
        /\ \A i \in 1 .. c : s[i] = a[m + i - 1]
    BY <1>4
  <2>2. b /\ c = 4
    BY <1>5
  <2>. HIDE DEF c, s, b
  <2>3. s \in Seq(Octet) /\ Len(s) = 4 /\ \A i \in 1 .. 4 : s[i] = a[m + i - 1]
    BY <2>1, <2>2
  <2>. QED
    BY <1>5, <2>3
<1>. HIDE DEF s
<1>7. s \in In_addr
  <2>1. s \in [1 .. Len(s) -> Octet]
    BY <1>6, LenProperties
  <2>. QED
    BY <1>6, <2>1, Zenon DEF In_addr
<1>. QED
  BY <1>6, <1>7 DEF Low4, s, v

(* A mapped address is known by them.                                      *)
LEMMA MappedSame ==
  ASSUME NEW a \in [1 .. V6Octets -> Octet], IN6_IS_ADDR_V4MAPPED(a),
         NEW b \in [1 .. V6Octets -> Octet], IN6_IS_ADDR_V4MAPPED(b), Low4(a) = Low4(b)
  PROVE  a = b
PROOF
<1>0. V6Octets \in Nat /\ V6Octets > 6
  BY WidthAssumption
<1>1. ASSUME NEW k \in 1 .. V6Octets PROVE a[k] = b[k]
  <2>1. \/ k \in 1 .. (V6Octets - 6)
        \/ k \in (V6Octets - 5) .. (V6Octets - 4)
        \/ (k - (V6Octets - 4) \in 1 .. 4 /\ (V6Octets - 4) + (k - (V6Octets - 4)) = k)
    BY <1>0
  <2>2. CASE k \in 1 .. (V6Octets - 6)
    BY <2>2 DEF IN6_IS_ADDR_V4MAPPED
  <2>3. CASE k \in (V6Octets - 5) .. (V6Octets - 4)
    BY <2>3 DEF IN6_IS_ADDR_V4MAPPED
  <2>4. CASE k - (V6Octets - 4) \in 1 .. 4 /\ (V6Octets - 4) + (k - (V6Octets - 4)) = k
    <3>. DEFINE i == k - (V6Octets - 4)
    <3>1. i \in 1 .. 4 /\ (V6Octets - 4) + i = k
      BY <2>4
    <3>. HIDE DEF i
    <3>2. Low4(a)[i] = a[k] /\ Low4(b)[i] = b[k]
      BY <3>1, Low4Is
    <3>. QED
      BY <3>2
  <2>. QED
    BY <2>1, <2>2, <2>3, <2>4
<1>2. a = [k \in 1 .. V6Octets |-> a[k]] /\ b = [k \in 1 .. V6Octets |-> b[k]]
  OBVIOUS
<1>. QED
  BY <1>1, <1>2, Zenon

(* What is printed.                                                        *)
LEMMA TextIs ==
  ASSUME NEW s, WellFormed(s)
  PROVE  /\ IsV4(s) => V4(s) \in In_addr /\ Text(s) = inet_ntoa(V4(s))
         /\ IsV6(s) => Text(s) = inet_ntop6(s.addr) /\ s.addr \in [1 .. V6Octets -> Octet]
         /\ ~ IsV4(s) /\ ~ IsV6(s) => Text(s) = NoText
PROOF
<1>1. \A a : inet_ntop(a, INET_ADDRSTRLEN) = inet_ntoa(a)
  <2>. DEFINE t == Decimal[MaxOctet]
  <2>1. t \in Seq(Figures)
    BY OctetNat, DecimalPrints DEF Printed
  <2>. HIDE DEF t
  <2>2. Len(t) \in Nat
    BY <2>1
  <2>3. ~ (INET_ADDRSTRLEN < INET_ADDRSTRLEN)
    BY <2>2 DEF INET_ADDRSTRLEN, t
  <2>. QED
    BY <2>3 DEF inet_ntop
<1>2. "inet" # "inet6"
  OBVIOUS
<1>3. CASE s.family = "inet"
  <2>1. IsV4(s) /\ ~ IsV6(s) /\ V4(s) = s.addr /\ s.addr \in In_addr
    BY <1>2, <1>3 DEF IsV4, IsV6, V4, WellFormed
  <2>2. Text(s) = inet_ntop(s.addr, INET_ADDRSTRLEN)
    BY <1>2, <1>3 DEF Text, network_sockaddr_sprint
  <2>. QED
    BY <1>1, <2>1, <2>2
<1>4. CASE Mapped(s)
  <2>1. /\ IsV4(s) /\ ~ IsV6(s) /\ V4(s) = Low4(s.addr) /\ s.addr \in [1 .. V6Octets -> Octet]
        /\ s.family = "inet6" /\ IN6_IS_ADDR_V4MAPPED(s.addr)
    BY <1>2, <1>4 DEF IsV4, IsV6, V4, WellFormed, Mapped
  <2>2. Text(s) = inet_ntop(Low4(s.addr), INET_ADDRSTRLEN)
    BY <2>1 DEF Text, network_sockaddr_sprint
  <2>. QED
    BY <1>1, <2>1, <2>2, Low4Is
<1>5. CASE IsV6(s)
  <2>1. /\ ~ IsV4(s) /\ s.addr \in [1 .. V6Octets -> Octet]
        /\ s.family = "inet6" /\ ~ IN6_IS_ADDR_V4MAPPED(s.addr)
    BY <1>2, <1>5 DEF IsV4, IsV6, WellFormed, Mapped
  <2>2. Text(s) = inet_ntop6(s.addr)
    <3>1. Text(s) = IF IN6_IS_ADDR_V4MAPPED(s.addr) THEN inet_ntop(Low4(s.addr), INET_ADDRSTRLEN)
                    ELSE inet_ntop6(s.addr)
      BY <2>1 DEF Text, network_sockaddr_sprint
    <3>. DEFINE c == IN6_IS_ADDR_V4MAPPED(s.addr)
                p == inet_ntop(Low4(s.addr), INET_ADDRSTRLEN)
                q == inet_ntop6(s.addr)
    <3>2. Text(s) = (IF c THEN p ELSE q) /\ ~ c
      BY <2>1, <3>1
    <3>. HIDE DEF c, p, q
    <3>3. Text(s) = q
      BY <3>2
    <3>. QED
      BY <3>3 DEF q
  <2>. QED
    BY <1>5, <2>1, <2>2, Zenon
<1>6. CASE ~ IsV4(s) /\ ~ IsV6(s)
  <2>1. s.family # "inet" /\ s.family # "inet6"
    BY <1>6 DEF IsV4, IsV6
  <2>2. Text(s) = NoText
    BY <2>1 DEF Text, network_sockaddr_sprint
  <2>. QED
    BY <1>6, <2>2
<1>. QED
  BY <1>3, <1>4, <1>5, <1>6 DEF IsV4

(* What network_sockaddr_equal compares.                                   *)
LEMMA EqualIs ==
  ASSUME NEW x, WellFormed(x), NEW y, WellFormed(y)
  PROVE  network_sockaddr_equal(x, y) <=>
           \/ IsV4(x) /\ IsV4(y) /\ V4(x) = V4(y)
           \/ IsV6(x) /\ IsV6(y) /\ x.addr = y.addr
PROOF
<1>0. "inet" # "inet6"
  OBVIOUS
<1>1. CASE x.family = "inet" /\ y.family = "inet"
  <2>1. network_sockaddr_equal(x, y) <=> x.addr = y.addr
    BY <1>0, <1>1 DEF network_sockaddr_equal
  <2>. QED
    BY <1>0, <1>1, <2>1 DEF IsV4, IsV6, V4
<1>2. CASE x.family = "inet" /\ y.family = "inet6"
  <2>1. network_sockaddr_equal(x, y) <=> IN6_IS_ADDR_V4MAPPED(y.addr) /\ Low4(y.addr) = x.addr
    BY <1>0, <1>2 DEF network_sockaddr_equal
  <2>. QED
    BY <1>0, <1>2, <2>1 DEF IsV4, IsV6, V4, Mapped
<1>3. CASE x.family = "inet6" /\ y.family = "inet"
  <2>1. network_sockaddr_equal(x, y) <=> IN6_IS_ADDR_V4MAPPED(x.addr) /\ Low4(x.addr) = y.addr
    BY <1>0, <1>3 DEF network_sockaddr_equal
  <2>. QED
    BY <1>0, <1>3, <2>1 DEF IsV4, IsV6, V4, Mapped
<1>4. CASE x.family = "inet6" /\ y.family = "inet6"
  <2>1. network_sockaddr_equal(x, y) <=> x.addr = y.addr
    BY <1>0, <1>4 DEF network_sockaddr_equal
  <2>2. x.addr \in [1 .. V6Octets -> Octet] /\ y.addr \in [1 .. V6Octets -> Octet]
    BY <1>4 DEF WellFormed
  <2>3. Mapped(x) /\ Mapped(y) => (x.addr = y.addr <=> V4(x) = V4(y))
    <3>1. V4(x) = Low4(x.addr) /\ V4(y) = Low4(y.addr)
      BY <1>0, <1>4 DEF V4
    <3>. QED
      BY <2>2, <3>1, MappedSame DEF Mapped
  <2>4. x.addr = y.addr => (Mapped(x) <=> Mapped(y))
    BY <1>4 DEF Mapped
  <2>. QED
    BY <1>0, <1>4, <2>1, <2>3, <2>4 DEF IsV4, IsV6
<1>5. CASE x.family \notin {"inet", "inet6"} \/ y.family \notin {"inet", "inet6"}
  <2>1. ~ network_sockaddr_equal(x, y)
    BY <1>0, <1>5 DEF network_sockaddr_equal
  <2>. QED
    BY <1>5, <2>1 DEF IsV4, IsV6, Mapped
<1>. QED
  BY <1>1, <1>2, <1>3, <1>4, <1>5

(* So the comparison is that of the texts.                                 *)
LEMMA EqualTexts ==
  ASSUME NEW x, WellFormed(x), NEW y, WellFormed(y)
  PROVE  network_sockaddr_equal(x, y) <=> Text(x) = Text(y) /\ Text(x) # NoText
PROOF
<1>0. Octet \subseteq Nat /\ V6Octets \in Nat \ {0}
  BY OctetNat, WidthAssumption
<1>1. In_addr \subseteq [1 .. 4 -> Nat] /\ [1 .. V6Octets -> Octet] \subseteq [1 .. V6Octets -> Nat]
  BY <1>0 DEF In_addr
<1>2. ASSUME NEW s, WellFormed(s), IsV4(s)
      PROVE  V4(s) \in [1 .. 4 -> Nat] /\ Text(s) = inet_ntoa(V4(s)) /\ Text(s)[1] \in Figures
  <2>1. V4(s) \in [1 .. 4 -> Nat] /\ Text(s) = inet_ntoa(V4(s))
    BY <1>1, <1>2, TextIs
  <2>. QED
    BY <2>1, NtoaBegins
<1>3. ASSUME NEW s, WellFormed(s), IsV6(s)
      PROVE  /\ s.addr \in [1 .. V6Octets -> Nat] /\ Text(s) = inet_ntop6(s.addr)
             /\ Text(s)[1] = ":"
  <2>1. s.addr \in [1 .. V6Octets -> Nat] /\ Text(s) = inet_ntop6(s.addr)
    BY <1>1, <1>3, TextIs
  <2>. QED
    BY <1>0, <2>1, Ntop6Begins
<1>4. ASSUME NEW s, WellFormed(s), ~ IsV4(s), ~ IsV6(s) PROVE Text(s) = NoText
  BY <1>4, TextIs
<1>5. NoText[1] = "NULL" /\ "NULL" \notin Figures /\ ":" \notin Figures /\ "NULL" # ":"
  <2>1. NoText[1] = "NULL" /\ "NULL" # ":"
    BY DEF NoText
  <2>. QED
    BY <2>1, FigureValue
<1>6. \A s : ~ (IsV4(s) /\ IsV6(s))
  BY DEF IsV4, IsV6
<1>7. CASE IsV4(x) /\ IsV4(y)
  <2>1. Text(x) = Text(y) <=> V4(x) = V4(y)
    BY <1>2, <1>7, NtoaDiffers
  <2>2. Text(x) # NoText
    BY <1>2, <1>5, <1>7
  <2>. QED
    BY <1>6, <1>7, <2>1, <2>2, EqualIs
<1>8. CASE IsV6(x) /\ IsV6(y)
  <2>1. Text(x) = Text(y) <=> x.addr = y.addr
    BY <1>0, <1>3, <1>8, Ntop6Differs
  <2>2. Text(x) # NoText
    BY <1>3, <1>5, <1>8
  <2>. QED
    BY <1>6, <1>8, <2>1, <2>2, EqualIs
<1>9. CASE (IsV4(x) /\ IsV6(y)) \/ (IsV6(x) /\ IsV4(y))
  <2>1. Text(x) # Text(y)
    BY <1>2, <1>3, <1>5, <1>9
  <2>. QED
    BY <1>6, <1>9, <2>1, EqualIs
<1>10. CASE (~ IsV4(x) /\ ~ IsV6(x)) \/ (~ IsV4(y) /\ ~ IsV6(y))
  <2>1. ~ (Text(x) = Text(y) /\ Text(x) # NoText)
    BY <1>4, <1>10
  <2>. QED
    BY <1>10, <2>1, EqualIs
<1>. QED
  BY <1>7, <1>8, <1>9, <1>10

(* A function of one step has returned its answer.                         *)
Answered == /\ call \in Calls /\ (pc = "call" => ~ Asked)
            /\ pc \in {"hints", "service", "lookup", "entry"} => Asked
            /\ pc = "done" /\ ~ Asked => result = Answer(call)

(* That is so in every reachable state.                                    *)
LEMMA AnsweredAlways == Spec => []Answered
PROOF
<1>1. Init => Answered
  BY DEF Init, Answered, Asked
<1>2. ASSUME Answered, [Next]_vars PROVE Answered'
  <2>1. CASE Call
    BY <1>2, <2>1 DEF Call, Answered, Asked
  <2>2. CASE CheckHints
    <3>1. Asked' /\ call' = call /\ pc' # "call"
      BY <1>2, <2>2 DEF CheckHints, Fail, Answered, Asked
    <3>. QED
      BY <1>2, <3>1 DEF Answered
  <2>3. CASE LookUpService
    <3>1. Asked' /\ call' = call /\ pc' # "call"
      BY <1>2, <2>3 DEF LookUpService, Fail, Answered, Asked
    <3>. QED
      BY <1>2, <3>1 DEF Answered
  <2>4. CASE LookUp
    <3>1. Asked' /\ call' = call /\ pc' # "call"
      BY <1>2, <2>4 DEF LookUp, Fail, Answered, Asked
    <3>. QED
      BY <1>2, <3>1 DEF Answered
  <2>5. CASE gai_addrinfo_new
    <3>1. Asked' /\ call' = call /\ pc' # "call"
      BY <1>2, <2>5 DEF gai_addrinfo_new, Answered, Asked
    <3>. QED
      BY <1>2, <3>1 DEF Answered
  <2>6. CASE Success
    <3>1. Asked' /\ call' = call /\ pc' # "call"
      BY <1>2, <2>6 DEF Success, Answered, Asked
    <3>. QED
      BY <1>2, <3>1 DEF Answered
  <2>7. CASE Release
    <3>1. Asked' /\ call' = call /\ pc' # "call"
      BY <1>2, <2>7 DEF Release, Answered, Asked
    <3>. QED
      BY <1>2, <3>1 DEF Answered
  <2>8. CASE UNCHANGED vars
    BY <1>2, <2>8 DEF vars, Answered, Asked
  <2>. QED
    BY <1>2, <2>1, <2>2, <2>3, <2>4, <2>5, <2>6, <2>7, <2>8 DEF Next
<1>3. Answered /\ [Next]_vars => Answered'
  BY <1>2
<1>. QED
  BY <1>1, <1>3, PTL DEF Spec

(* Two socket addresses compare equal exactly if they print alike.         *)
THEOREM EqualIsPrintedEqual == Spec => []SameAddress
PROOF
<1>1. Answered => SameAddress
  <2>. SUFFICES ASSUME Answered, pc = "done", call.fn = "sockaddr"
                PROVE  /\ result.equal <=> Text(call.a) = Text(call.b) /\ Text(call.a) # NoText
                       /\ result.equal <=> network_sockaddr_equal(call.b, call.a)
    BY DEF SameAddress, Text
  <2>1. result = Answer(call) /\ call \in Calls
    BY DEF Answered, Asked
  <2>2. result = [equal |-> network_sockaddr_equal(call.a, call.b),
                  ports |-> <<network_sockaddr_port(call.a), network_sockaddr_port(call.b)>>]
    BY <2>1 DEF Answer
  <2>3. result.equal = network_sockaddr_equal(call.a, call.b)
    BY <2>2
  <2>4. WellFormed(call.a) /\ WellFormed(call.b)
    BY <2>1, CallsAssumption DEF WellFormed
  <2>. QED
    BY <2>3, <2>4, EqualTexts
<1>. QED
  BY <1>1, AnsweredAlways, PTL

-----------------------------------------------------------------------------
(* Reading an address as it was printed, and getnameinfo.                  *)

(* The parts of a text are the end of a walk.                              *)
LEMMA PartsEnds ==
  ASSUME NEW S, NEW s \in Seq(S)
  PROVE  Ends(<<"split">>, << << >> >>, s, Parts(s))
PROOF
<1>. DEFINE n == Len(s)
            op == <<"split">>
            one == << << >> >>
            Folds(g) == g = [t \in SUBSET (DOMAIN s) |->
                               IF t = {} THEN one ELSE Split(g[t \ {Max(t)}], s[Max(t)])]
            g == CHOOSE g : Folds(g)
<1>0. DOMAIN s = 1 .. n
  OBVIOUS
<1>1. Parts(s) = g[DOMAIN s]
  BY Zenon DEF Parts, FoldLeft, MapThenFoldSet
<1>2. \A a, x : Apply(op, a, x) = Split(a, x)
  BY DEF Apply
<1>. HIDE DEF op, one
<1>3. \A f : Folded(op, one, s, n, f) <=> Folds(f)
  BY <1>0, <1>2 DEF Folded
<1>. HIDE DEF Folds
<1>4. g = CHOOSE f : Folded(op, one, s, n, f)
  BY <1>3, Zenon
<1>. HIDE DEF g
<1>5. Ends(op, one, s, g[1 .. n])
  BY <1>4, FoldEnds
<1>. QED
  BY <1>0, <1>1, <1>5 DEF op, one

(* A text that has been split into the parts p and, after the last period, *)
(* u.                                                                      *)
SplitInto(x, p, u) == Ends(<<"split">>, << << >> >>, x, Append(p, u))

(* A digit belongs to the last part.                                       *)
LEMMA SplitFigure ==
  ASSUME NEW x \in Seq(Chars), NEW p \in Seq(Seq(Figures)), NEW u \in Seq(Figures),
         SplitInto(x, p, u), NEW c \in Figures
  PROVE  SplitInto(Append(x, c), p, Append(u, c))
PROOF
<1>. DEFINE op == <<"split">>
            one == << << >> >>
            q == Append(p, u)
            l == Len(p) + 1
<1>1. q \in Seq(Seq(Figures)) /\ Len(q) = l /\ q[l] = u /\ \A k \in 1 .. l - 1 : q[k] = p[k]
  BY AppendProperties
<1>2. c # "." /\ c \in Chars
  BY FigureValue DEF Chars
<1>3. Apply(op, q, c) = [q EXCEPT ![Len(q)] = Append(@, c)]
  BY <1>2 DEF Apply, Split
<1>4. [q EXCEPT ![Len(q)] = Append(@, c)] = Append(p, Append(u, c))
  <2>. DEFINE v == Append(u, c)
              r == Append(p, v)
              e == [q EXCEPT ![l] = v]
  <2>1. v \in Seq(Figures)
    OBVIOUS
  <2>. HIDE DEF v
  <2>2. r \in Seq(Seq(Figures)) /\ Len(r) = l /\ r[l] = v /\ \A k \in 1 .. l - 1 : r[k] = p[k]
    BY <2>1, AppendProperties
  <2>3. l \in Nat \ {0}
    OBVIOUS
  <2>. HIDE DEF l, r, q
  <2>4. DOMAIN q = 1 .. l /\ DOMAIN r = 1 .. l
    BY <1>1, <2>2
  <2>5. e \in Seq(Seq(Figures)) /\ Len(e) = l
    BY <1>1, <2>1, <2>3, <2>4
  <2>6. \A k \in 1 .. l : e[k] = r[k]
    <3>1. \A k \in 1 .. l : k = l \/ (k \in 1 .. l - 1 /\ k # l)
      BY <2>3
    <3>. QED
      BY <1>1, <2>2, <2>4, <3>1
  <2>. HIDE DEF e
  <2>7. e = r
    BY <2>2, <2>5, <2>6, SeqEqual
  <2>8. [q EXCEPT ![Len(q)] = Append(@, c)] = e
    BY <1>1 DEF e, v
  <2>. QED
    BY <2>7, <2>8 DEF r, v
<1>5. Ends(op, one, x, q)
  BY DEF SplitInto
<1>. HIDE DEF op, one, q
<1>6. Ends(op, one, Append(x, c), Apply(op, q, c))
  BY <1>2, <1>5, EndsAppend
<1>. QED
  BY <1>3, <1>4, <1>6 DEF SplitInto, op, one

(* A period begins another part.                                           *)
LEMMA SplitPeriod ==
  ASSUME NEW x \in Seq(Chars), NEW p \in Seq(Seq(Figures)), NEW u \in Seq(Figures),
         SplitInto(x, p, u)
  PROVE  SplitInto(Append(x, "."), Append(p, u), << >>)
PROOF
<1>. DEFINE op == <<"split">>
            one == << << >> >>
            q == Append(p, u)
            c == "."
<1>1. Apply(op, q, c) = Append(q, << >>) /\ c \in Chars
  BY DEF Apply, Split, Chars, Marks
<1>2. Ends(op, one, x, q)
  BY DEF SplitInto
<1>. HIDE DEF op, one, q, c
<1>3. Ends(op, one, Append(x, c), Apply(op, q, c))
  BY <1>1, <1>2, EndsAppend
<1>. QED
  BY <1>1, <1>3 DEF SplitInto, op, one, q, c

(* Digits belong to the last part.                                         *)
LEMMA SplitFigures ==
  ASSUME NEW x \in Seq(Chars), NEW p \in Seq(Seq(Figures)), NEW u \in Seq(Figures),
         SplitInto(x, p, u)
  PROVE  \A t \in Seq(Figures) : SplitInto(x \o t, p, u \o t)
PROOF
<1>. DEFINE T == {n \in Nat : \A t \in Seq(Figures) : Len(t) = n => SplitInto(x \o t, p, u \o t)}
<1>1. 0 \in T
  <2>1. ASSUME NEW t \in Seq(Figures), Len(t) = 0 PROVE SplitInto(x \o t, p, u \o t)
    <3>1. t = << >>
      BY <2>1, EmptySeq
    <3>2. x \o t = x /\ u \o t = u
      BY <3>1, ConcatEmptySeq
    <3>. QED
      BY <3>2
  <2>. QED
    BY <2>1
<1>2. ASSUME NEW n \in T PROVE n + 1 \in T
  <2>1. ASSUME NEW t \in Seq(Figures), Len(t) = n + 1 PROVE SplitInto(x \o t, p, u \o t)
    <3>1. t # << >>
      BY <2>1
    <3>2. PICK s \in Seq(Figures), c \in Figures : t = Append(s, c)
      BY <3>1, SequenceEmptyOrAppend
    <3>3. Len(s) = n
      BY <2>1, <3>2
    <3>4. SplitInto(x \o s, p, u \o s)
      BY <3>3
    <3>5. x \o t = Append(x \o s, c) /\ u \o t = Append(u \o s, c)
      BY <3>2
    <3>6. s \in Seq(Chars)
      BY DEF Chars
    <3>7. x \o s \in Seq(Chars) /\ u \o s \in Seq(Figures)
      BY <3>6, ConcatProperties
    <3>. HIDE DEF T
    <3>8. SplitInto(Append(x \o s, c), p, Append(u \o s, c))
      BY <3>4, <3>7, SplitFigure
    <3>. QED
      BY <3>5, <3>8
  <2>. QED
    BY <2>1
<1>3. T \subseteq Nat
  OBVIOUS
<1>. HIDE DEF T
<1>4. \A n \in Nat : n \in T
  BY <1>1, <1>2, <1>3, Induction
<1>. QED
  BY <1>4 DEF T

(* So a number that follows a period is a part.                            *)
LEMMA SplitPart ==
  ASSUME NEW x \in Seq(Chars), NEW p \in Seq(Seq(Figures)), NEW u \in Seq(Figures),
         SplitInto(x, p, u), NEW n \in Nat
  PROVE  SplitInto(x \o Part(".", n), Append(p, u), Decimal[n])
PROOF
<1>. DEFINE d == Decimal[n]
            y == Append(x, ".")
            q == Append(p, u)
            e == << >>
<1>1. d \in Seq(Figures)
  BY DecimalPrints DEF Printed
<1>. HIDE DEF d
<1>2. y \in Seq(Chars) /\ q \in Seq(Seq(Figures)) /\ e \in Seq(Figures)
  BY DEF Chars, Marks
<1>3. SplitInto(y, q, e)
  BY SplitPeriod
<1>. HIDE DEF y, q, e
<1>4. SplitInto(y \o d, q, e \o d)
  BY <1>1, <1>2, <1>3, SplitFigures
<1>5. e \o d = d
  BY <1>1, ConcatEmptySeq DEF e
<1>6. y \o d = x \o (<<".">> \o d)
  BY <1>1 DEF y
<1>. QED
  BY <1>4, <1>5, <1>6 DEF d, q, Part

(* Four parts in a row.                                                    *)
LEMMA FourParts ==
  ASSUME NEW S, NEW a \in S, NEW b \in S, NEW c \in S, NEW d \in S
  PROVE  Append(Append(Append(Append(<< >>, a), b), c), d) = <<a, b, c, d>>
PROOF
<1>0. ASSUME NEW x \in Seq(S), NEW z \in Seq(S), NEW e \in S, Len(z) = Len(x) + 1,
             \A k \in 1 .. Len(x) : z[k] = x[k], z[Len(x) + 1] = e
      PROVE  Append(x, e) = z
  <2>. DEFINE y == Append(x, e)
  <2>1. /\ y \in Seq(S) /\ Len(y) = Len(x) + 1 /\ y[Len(x) + 1] = e
        /\ \A k \in 1 .. Len(x) : y[k] = x[k]
    BY AppendProperties
  <2>2. \A k \in 1 .. Len(z) : k \in 1 .. Len(x) \/ k = Len(x) + 1
    BY <1>0
  <2>. HIDE DEF y
  <2>3. y = z
    BY <1>0, <2>1, <2>2, SeqEqual
  <2>. QED
    BY <2>3 DEF y
<1>. DEFINE x0 == << >>
            x1 == <<a>>
            x2 == <<a, b>>
            x3 == <<a, b, c>>
            x4 == <<a, b, c, d>>
<1>1. /\ x0 \in Seq(S) /\ x1 \in Seq(S) /\ x2 \in Seq(S) /\ x3 \in Seq(S) /\ x4 \in Seq(S)
      /\ Len(x0) = 0 /\ Len(x1) = 1 /\ Len(x2) = 2 /\ Len(x3) = 3 /\ Len(x4) = 4
  OBVIOUS
<1>2. /\ x1[1] = a /\ x2[1] = a /\ x3[1] = a /\ x4[1] = a
      /\ x2[2] = b /\ x3[2] = b /\ x4[2] = b /\ x3[3] = c /\ x4[3] = c /\ x4[4] = d
  OBVIOUS
<1>. HIDE DEF x0, x1, x2, x3, x4
<1>3. Append(x0, a) = x1
  BY <1>0, <1>1, <1>2
<1>4. Append(x1, b) = x2
  <2>1. Len(x2) = Len(x1) + 1
    BY <1>1
  <2>2. \A k \in 1 .. Len(x1) : x2[k] = x1[k]
    BY <1>1, <1>2
  <2>3. x2[Len(x1) + 1] = b
    BY <1>1, <1>2
  <2>. QED
    BY <1>0, <1>1, <2>1, <2>2, <2>3
<1>5. Append(x2, c) = x3
  <2>1. Len(x3) = Len(x2) + 1
    BY <1>1
  <2>2. \A k \in 1 .. Len(x2) : x3[k] = x2[k]
    BY <1>1, <1>2
  <2>3. x3[Len(x2) + 1] = c
    BY <1>1, <1>2
  <2>. QED
    BY <1>0, <1>1, <2>1, <2>2, <2>3
<1>6. Append(x3, d) = x4
  <2>1. Len(x4) = Len(x3) + 1
    BY <1>1
  <2>2. \A k \in 1 .. Len(x3) : x4[k] = x3[k]
    BY <1>1, <1>2
  <2>3. x4[Len(x3) + 1] = d
    BY <1>1, <1>2
  <2>. QED
    BY <1>0, <1>1, <2>1, <2>2, <2>3
<1>. QED
  BY <1>3, <1>4, <1>5, <1>6, Zenon DEF x0, x4

(* The parts of a printed address are its octets.                          *)
LEMMA PartsOfNtoa ==
  ASSUME NEW a \in [1 .. 4 -> Nat]
  PROVE  Parts(inet_ntoa(a)) = <<Decimal[a[1]], Decimal[a[2]], Decimal[a[3]], Decimal[a[4]]>>
PROOF
<1>. DEFINE d1 == Decimal[a[1]]
            d2 == Decimal[a[2]]
            d3 == Decimal[a[3]]
            d4 == Decimal[a[4]]
            e == << >>
            one == << << >> >>
            op == <<"split">>
<1>1. PICK g : Joined(".", a, 4, g) /\ g[1] = d1 /\ inet_ntoa(a) = g[4]
  BY NtoaJoined, Zenon
<1>2. /\ g[2] = g[1] \o Part(".", a[2])
      /\ g[3] = g[2] \o Part(".", a[3])
      /\ g[4] = g[3] \o Part(".", a[4])
  <2>1. \A k \in 2 .. 4 : g[k] = g[k - 1] \o Part(".", a[k])
    BY <1>1 DEF Joined
  <2>2. 2 \in 2 .. 4 /\ 3 \in 2 .. 4 /\ 4 \in 2 .. 4 /\ 2 - 1 = 1 /\ 3 - 1 = 2 /\ 4 - 1 = 3
    OBVIOUS
  <2>3. g[2] = g[2 - 1] \o Part(".", a[2]) /\ g[3] = g[3 - 1] \o Part(".", a[3])
          /\ g[4] = g[4 - 1] \o Part(".", a[4])
    BY <2>1, <2>2, Zenon
  <2>. QED
    BY <2>2, <2>3, Zenon
<1>3. g[1] \in Seq(Chars) /\ g[2] \in Seq(Chars) /\ g[3] \in Seq(Chars) /\ g[4] \in Seq(Chars)
  <2>. DEFINE sep == "."
              n == 4
  <2>1. sep \in Marks /\ n \in Nat /\ a \in [1 .. n -> Nat]
    BY DEF Marks
  <2>2. Joined(sep, a, n, g)
    BY <1>1
  <2>3. 1 \in 1 .. n /\ 2 \in 1 .. n /\ 3 \in 1 .. n /\ 4 \in 1 .. n
    OBVIOUS
  <2>. HIDE DEF sep, n
  <2>4. \A k \in 1 .. n : g[k] \in Seq(Chars)
    BY <2>1, <2>2, JoinedText
  <2>. QED
    BY <2>3, <2>4
<1>4. /\ a[1] \in Nat /\ a[2] \in Nat /\ a[3] \in Nat /\ a[4] \in Nat
      /\ d1 \in Seq(Figures) /\ d2 \in Seq(Figures) /\ d3 \in Seq(Figures) /\ d4 \in Seq(Figures)
  <2>1. a[1] \in Nat /\ a[2] \in Nat /\ a[3] \in Nat /\ a[4] \in Nat
    OBVIOUS
  <2>. QED
    BY <2>1, DecimalPrints DEF Printed
<1>. HIDE DEF d1, d2, d3, d4
<1>5. SplitInto(e, e, e)
  <2>1. Append(e, e) = one
    OBVIOUS
  <2>2. Ends(op, one, e, one)
    <3>. HIDE DEF op, one
    <3>. QED
      BY EndsEmpty
  <2>. QED
    BY <2>1, <2>2 DEF SplitInto
<1>6. e \in Seq(Chars) /\ e \in Seq(Seq(Figures)) /\ e \in Seq(Figures)
  OBVIOUS
<1>. HIDE DEF e
<1>7. SplitInto(g[1], e, d1)
  <2>1. SplitInto(e \o d1, e, e \o d1)
    BY <1>4, <1>5, <1>6, SplitFigures
  <2>2. e \o d1 = d1
    BY <1>4, ConcatEmptySeq DEF e
  <2>. QED
    BY <1>1, <2>1, <2>2
<1>. DEFINE p1 == Append(e, d1)
            p2 == Append(p1, d2)
            p3 == Append(p2, d3)
            p4 == Append(p3, d4)
<1>8. p1 \in Seq(Seq(Figures)) /\ p2 \in Seq(Seq(Figures)) /\ p3 \in Seq(Seq(Figures))
  BY <1>4, <1>6
<1>. HIDE DEF p1
<1>9. SplitInto(g[2], p1, d2)
  BY <1>2, <1>3, <1>4, <1>6, <1>7, SplitPart DEF d2, p1
<1>. HIDE DEF p2
<1>10. SplitInto(g[3], p2, d3)
  BY <1>2, <1>3, <1>4, <1>8, <1>9, SplitPart DEF d3, p2
<1>. HIDE DEF p3
<1>11. SplitInto(g[4], p3, d4)
  BY <1>2, <1>3, <1>4, <1>8, <1>10, SplitPart DEF d4, p3
<1>12. Parts(g[4]) = p4
  <2>1. Ends(op, one, g[4], Parts(g[4]))
    BY <1>3, PartsEnds
  <2>2. Ends(op, one, g[4], p4)
    BY <1>11 DEF SplitInto
  <2>3. Len(g[4]) \in Nat
    BY <1>3
  <2>. HIDE DEF op, one, p4
  <2>. QED
    BY <2>1, <2>2, <2>3, OneEnd
<1>13. p4 = <<d1, d2, d3, d4>>
  BY <1>4, FourParts DEF p1, p2, p3, e
<1>. QED
  BY <1>1, <1>12, <1>13 DEF d1, d2, d3, d4

(* One part of an address is read by a walk.                               *)
Taken(t, base, long) == FoldLeft(LAMBDA n, c : Take(n, c, base, long), 0, t)

(* inet_aton's loop over the digits is a walk.                             *)
LEMMA TakenEnds ==
  ASSUME NEW S, NEW t \in Seq(S), NEW base, NEW long
  PROVE  Ends(<<"take", base, long>>, 0, t, Taken(t, base, long))
PROOF
<1>. DEFINE n == Len(t)
            op == <<"take", base, long>>
            Folds(g) == g = [s \in SUBSET (DOMAIN t) |->
                               IF s = {} THEN 0 ELSE Take(g[s \ {Max(s)}], t[Max(s)], base, long)]
            g == CHOOSE g : Folds(g)
<1>0. DOMAIN t = 1 .. n
  OBVIOUS
<1>1. Taken(t, base, long) = g[DOMAIN t]
  BY Zenon DEF Taken, FoldLeft, MapThenFoldSet
<1>2. \A a, x : Apply(op, a, x) = Take(a, x, base, long)
  <2>1. op[1] = "take" /\ op[2] = base /\ op[3] = long
    OBVIOUS
  <2>2. op[1] # "held" /\ op[1] # "read" /\ op[1] # "split"
    BY <2>1
  <2>. HIDE DEF op
  <2>. QED
    BY <2>1, <2>2 DEF Apply
<1>. HIDE DEF op
<1>3. \A f : Folded(op, 0, t, n, f) <=> Folds(f)
  BY <1>0, <1>2 DEF Folded
<1>. HIDE DEF Folds
<1>4. g = CHOOSE f : Folded(op, 0, t, n, f)
  BY <1>3, Zenon
<1>. HIDE DEF g
<1>5. Ends(op, 0, t, g[1 .. n])
  BY <1>4, FoldEnds
<1>. QED
  BY <1>0, <1>1, <1>5 DEF op

(* The largest octet is a number that an address and a long can hold.      *)
LEMMA OctetsFit ==
  ASSUME NEW long \in Nat, AddrBits <= long
  PROVE  MaxOctet \in Nat /\ MaxAddr \in Nat /\ MaxOctet <= MaxAddr
         /\ Pow2[long] \in Nat \ {0} /\ MaxAddr < Pow2[long]
PROOF
<1>. DEFINE p == Pow2[OctetBits]
            q == Pow2[AddrBits]
            r == Pow2[long]
<1>1. OctetBits \in Nat /\ AddrBits \in Nat /\ OctetBits <= AddrBits
  BY WidthAssumption DEF AddrBits
<1>2. p \in Nat \ {0} /\ q \in Nat \ {0} /\ r \in Nat \ {0} /\ p <= q /\ q <= r
  BY <1>1, Pow2Nat, Pow2Grows
<1>3. MaxOctet = p - 1 /\ MaxAddr = q - 1
  BY DEF MaxOctet, MaxAddr
<1>. HIDE DEF p, q, r
<1>4. MaxOctet \in Nat /\ MaxAddr \in Nat /\ MaxOctet <= MaxAddr /\ MaxAddr < r
  BY <1>2, <1>3
<1>. QED
  BY <1>2, <1>4 DEF r

(* A digit more, of a number an address can hold.                          *)
LEMMA TakeMore ==
  ASSUME NEW long \in Nat, AddrBits <= long, NEW m \in Nat, NEW c \in Figures,
         10 * m + Value(c) <= MaxAddr
  PROVE  Take(m, c, 10, long) = 10 * m + Value(c)
PROOF
<1>. DEFINE v == Value(c)
            r == Pow2[long]
            q == MaxAddr
            b == Digit(c, 10)
<1>1. v \in 0 .. 9 /\ b
  BY FigureValue
<1>2. q \in Nat /\ r \in Nat \ {0} /\ q < r
  BY OctetsFit
<1>3. Take(m, c, 10, long) = IF m = Invalid \/ m > q \div 10 \/ ~ b THEN Invalid ELSE (m * 10 + v) % r
  BY DEF Take, TooLarge
<1>4. 10 * m + v <= q
  OBVIOUS
<1>. HIDE DEF v, r, q, b
<1>5. ~ (m > q \div 10) /\ m # Invalid
  BY <1>1, <1>2, <1>4 DEF Invalid
<1>6. (m * 10 + v) \in Nat /\ m * 10 + v < r /\ m * 10 + v = 10 * m + v
  BY <1>1, <1>2, <1>4
<1>7. (m * 10 + v) % r = m * 10 + v
  <2>. DEFINE x == m * 10 + v
  <2>1. x \in Nat /\ x < r
    BY <1>6
  <2>. HIDE DEF x
  <2>2. x % r = x
    BY <1>2, <2>1
  <2>. QED
    BY <2>2 DEF x
<1>8. Take(m, c, 10, long) = m * 10 + v
  BY <1>1, <1>3, <1>5, <1>7
<1>. QED
  BY <1>6, <1>8 DEF v

(* An octet is read as it was printed.                                     *)
LEMMA DecimalTaken ==
  ASSUME NEW long \in Nat, AddrBits <= long
  PROVE  \A n \in 0 .. MaxAddr : Ends(<<"take", 10, long>>, 0, Decimal[n], n)
PROOF
<1>. DEFINE op == <<"take", 10, long>>
            T == {n \in 0 .. MaxAddr : ~ Ends(op, 0, Decimal[n], n)}
<1>. SUFFICES ASSUME T # {} PROVE FALSE
  OBVIOUS
<1>0. MaxAddr \in Nat
  BY OctetsFit
<1>1. T \subseteq Nat
  BY <1>0
<1>2. PICK n \in T : \A k \in T : n <= k
  BY <1>1, LeastElement
<1>3. /\ n \in Nat /\ n <= MaxAddr /\ ~ Ends(op, 0, Decimal[n], n)
      /\ \A k \in Nat : k < n => Ends(op, 0, Decimal[k], k)
  BY <1>0, <1>2
<1>. HIDE DEF T
<1>t. ASSUME NEW m \in Nat, NEW c \in Figures, 10 * m + Value(c) = n
      PROVE  Apply(op, m, c) = n
  <2>1. Apply(op, m, c) = Take(m, c, 10, long)
    <3>1. op[1] = "take" /\ op[2] = 10 /\ op[3] = long
      OBVIOUS
    <3>2. op[1] # "held" /\ op[1] # "read" /\ op[1] # "split"
      BY <3>1
    <3>. HIDE DEF op
    <3>. QED
      BY <3>1, <3>2 DEF Apply
  <2>2. Take(m, c, 10, long) = 10 * m + Value(c)
    BY <1>3, <1>t, TakeMore
  <2>. QED
    BY <1>t, <2>1, <2>2
<1>. HIDE DEF op
<1>4. CASE n < 10
  <2>1. n \in 0 .. 9
    BY <1>3, <1>4
  <2>2. PICK c \in Figures : Numeral1(n) = <<c>> /\ Value(c) = n
    BY <2>1, FigureIs
  <2>3. Decimal[n] = <<c>>
    BY <1>3, <1>4, <2>2, DecimalIs
  <2>. DEFINE e == << >>
  <2>4. e \in Seq(Figures) /\ Append(e, c) = <<c>>
    OBVIOUS
  <2>5. Ends(op, 0, e, 0)
    BY EndsEmpty
  <2>6. 10 * 0 + Value(c) = n /\ 0 \in Nat
    BY <2>1, <2>2
  <2>. HIDE DEF e
  <2>7. Ends(op, 0, Append(e, c), Apply(op, 0, c))
    BY <2>4, <2>5, EndsAppend
  <2>8. Apply(op, 0, c) = n
    BY <1>t, <2>6
  <2>. QED
    BY <1>3, <2>3, <2>4, <2>7, <2>8
<1>5. CASE ~ (n < 10)
  <2>. DEFINE m == n \div 10
              d == n % 10
              t == Decimal[m]
  <2>1. m \in Nat /\ m < n /\ d \in 0 .. 9 /\ n = 10 * m + d
    BY <1>3, <1>5
  <2>2. PICK c \in Figures : Numeral1(d) = <<c>> /\ Value(c) = d
    BY <2>1, FigureIs
  <2>3. Ends(op, 0, t, m)
    BY <1>3, <2>1
  <2>4. Decimal[n] = t \o <<c>>
    BY <1>3, <1>5, <2>2, DecimalIs
  <2>5. t \in Seq(Figures)
    BY <2>1, DecimalPrints DEF Printed
  <2>. HIDE DEF m, d, t
  <2>6. t \o <<c>> = Append(t, c)
    BY <2>5
  <2>7. Ends(op, 0, Append(t, c), Apply(op, m, c))
    BY <2>3, <2>5, EndsAppend
  <2>8. Apply(op, m, c) = n
    BY <1>t, <2>1, <2>2
  <2>. QED
    BY <1>3, <2>4, <2>6, <2>7, <2>8
<1>. QED
  BY <1>3, <1>4, <1>5

(* A printed number is read back as an octet.                              *)
LEMMA OctetBack ==
  ASSUME NEW long \in Nat, AddrBits <= long, NEW n \in 0 .. MaxAddr, NEW last
  PROVE  octet(Decimal[n], last, long) = n
PROOF
<1>. DEFINE t == Decimal[n]
            b == Base(t)
            d == Digits(t)
<1>0. MaxAddr \in Nat /\ n \in Nat
  BY OctetsFit
<1>1. octet(t, last, long) = IF d = << >> /\ ~ (b = 8 \/ (b = 16 /\ last)) THEN Invalid
                             ELSE Taken(d, b, long)
  BY Zenon DEF octet, Taken
<1>2. Printed(n, t)
  BY <1>0, DecimalPrints
<1>3. CASE n = 0
  <2>1. t = <<"0">>
    BY <1>2, <1>3 DEF Printed
  <2>. HIDE DEF t
  <2>2. b = 8
    BY <2>1 DEF Base
  <2>3. d = << >>
    <3>1. d = SubSeq(t, 2, 1)
      BY <2>1, <2>2 DEF Digits
    <3>. QED
      BY <2>1, <3>1, SubSeqEmpty
  <2>. DEFINE e == << >>
              op == <<"take", b, long>>
  <2>4. e \in Seq({}) /\ Len(e) \in Nat
    OBVIOUS
  <2>. HIDE DEF e, b, d
  <2>5. Ends(op, 0, e, Taken(e, b, long))
    BY <2>4, TakenEnds
  <2>. HIDE DEF op
  <2>6. Ends(op, 0, e, 0)
    BY EndsEmpty DEF e
  <2>7. Taken(e, b, long) = 0
    BY <2>4, <2>5, <2>6, OneEnd
  <2>. QED
    BY <1>1, <1>3, <2>2, <2>3, <2>7 DEF e, t
<1>4. CASE n # 0
  <2>1. t \in Seq(Figures) /\ Len(t) >= 1 /\ t[1] # "0"
    BY <1>2, <1>4 DEF Printed
  <2>2. Ends(<<"take", 10, long>>, 0, t, n)
    BY DecimalTaken
  <2>. HIDE DEF t
  <2>3. b = 10
    BY <2>1 DEF Base
  <2>4. d = t
    <3>1. d = SubSeq(t, 1, Len(t))
      BY <2>3 DEF Digits
    <3>. QED
      BY <2>1, <3>1, SubSeqFull
  <2>5. d # << >>
    BY <2>1, <2>4
  <2>. DEFINE op == <<"take", 10, long>>
              base == 10
  <2>6. Ends(op, 0, t, Taken(t, 10, long))
    <3>1. Ends(<<"take", base, long>>, 0, t, Taken(t, base, long))
      <4>. HIDE DEF base
      <4>. QED
        BY <2>1, TakenEnds
    <3>. QED
      BY <3>1
  <2>7. Ends(op, 0, t, n) /\ Len(t) \in Nat
    BY <2>1, <2>2
  <2>. HIDE DEF op
  <2>8. Taken(t, 10, long) = n
    <3>. DEFINE v == Taken(t, 10, long)
    <3>. HIDE DEF v
    <3>1. Ends(op, 0, t, v)
      BY <2>6 DEF v
    <3>2. v = n
      BY <2>7, <3>1, OneEnd
    <3>. QED
      BY <3>2 DEF v
  <2>. HIDE DEF d, b
  <2>. QED
    BY <1>1, <2>3, <2>4, <2>5, <2>8 DEF t
<1>. QED
  BY <1>3, <1>4

(* Powers multiply.                                                        *)
LEMMA Pow2Adds == \A n, m \in Nat : Pow2[n + m] = Pow2[n] * Pow2[m]
PROOF
<1>. SUFFICES ASSUME NEW n \in Nat PROVE \A m \in Nat : Pow2[n + m] = Pow2[n] * Pow2[m]
  OBVIOUS
<1>. DEFINE p == Pow2[n]
            T == {m \in Nat : Pow2[n + m] = p * Pow2[m]}
<1>0. p \in Nat
  BY Pow2Nat
<1>. HIDE DEF p
<1>1. 0 \in T
  BY <1>0, Pow2Is DEF p
<1>2. ASSUME NEW m \in T PROVE m + 1 \in T
  <2>. DEFINE q == Pow2[m]
              r == Pow2[n + m]
  <2>1. n + m \in Nat /\ m \in Nat /\ n + (m + 1) = (n + m) + 1
    OBVIOUS
  <2>2. q \in Nat /\ r = p * q /\ Pow2[m + 1] = 2 * q /\ Pow2[(n + m) + 1] = 2 * r
    BY <2>1, Pow2Nat, Pow2Is
  <2>. HIDE DEF q, r
  <2>3. 2 * (p * q) = p * (2 * q)
    BY <1>0, <2>2
  <2>4. Pow2[n + (m + 1)] = p * Pow2[m + 1]
    BY <2>1, <2>2, <2>3
  <2>. QED
    BY <2>4
<1>3. T \subseteq Nat
  OBVIOUS
<1>. HIDE DEF T
<1>4. \A m \in Nat : m \in T
  BY <1>1, <1>2, <1>3, Induction
<1>. QED
  BY <1>4 DEF T, p

(* Quotient and remainder are unique.                                      *)
LEMMA DivIs ==
  ASSUME NEW p \in Nat \ {0}, NEW q \in Nat, NEW r \in 0 .. p - 1
  PROVE  (q * p + r) \div p = q /\ (q * p + r) % p = r
PROOF
<1>. DEFINE x == q * p + r
            d == x \div p
            m == x % p
<1>1. x \in Nat
  OBVIOUS
<1>. HIDE DEF x
<1>2. d \in Nat /\ m \in 0 .. p - 1 /\ x = p * d + m
  BY <1>1
<1>. HIDE DEF d, m
<1>3. q * p + r = p * d + m
  BY <1>2 DEF x
<1>4. ~ (d >= q + 1)
  <2>. SUFFICES ASSUME d >= q + 1 PROVE FALSE
    OBVIOUS
  <2>1. p * d >= p * (q + 1)
    BY <1>2
  <2>2. p * (q + 1) = q * p + p
    OBVIOUS
  <2>. DEFINE u == q * p
              v == p * d
  <2>3. u \in Nat /\ v \in Nat /\ v >= u + p /\ u + r = v + m
    BY <1>2, <1>3, <2>1, <2>2
  <2>. HIDE DEF u, v
  <2>. QED
    BY <1>2, <2>3
<1>5. ~ (q >= d + 1)
  <2>. SUFFICES ASSUME q >= d + 1 PROVE FALSE
    OBVIOUS
  <2>1. p * q >= p * (d + 1)
    BY <1>2
  <2>2. p * (d + 1) = p * d + p /\ p * q = q * p
    BY <1>2
  <2>. DEFINE u == q * p
              v == p * d
  <2>3. u \in Nat /\ v \in Nat /\ u >= v + p /\ u + r = v + m
    BY <1>2, <1>3, <2>1, <2>2
  <2>. HIDE DEF u, v
  <2>. QED
    BY <1>2, <2>3
<1>6. d = q
  BY <1>2, <1>4, <1>5
<1>7. m = r
  <2>. DEFINE u == q * p
  <2>1. u \in Nat /\ p * d = u /\ u + r = p * d + m
    BY <1>3, <1>6
  <2>. HIDE DEF u
  <2>. QED
    BY <1>2, <2>1
<1>. QED
  BY <1>6, <1>7 DEF d, m, x

(* The digits of a number in base p.                                       *)
InBase(p, a, b, c, d, n) ==
  n = ((a * p + b) * p + c) * p + d =>
    /\ n \in Nat /\ n % p = d
    /\ (n \div p) % p = c
    /\ (n \div (p * p)) % p = b
    /\ (n \div (p * p * p)) % p = a

(* They are found by division.                                             *)
LEMMA Octets ==
  ASSUME NEW p \in Nat \ {0}, NEW a \in 0 .. p - 1, NEW b \in 0 .. p - 1,
         NEW c \in 0 .. p - 1, NEW d \in 0 .. p - 1, NEW n
  PROVE  InBase(p, a, b, c, d, n)
PROOF
<1>. SUFFICES ASSUME n = ((a * p + b) * p + c) * p + d
              PROVE  /\ n \in Nat /\ n % p = d
                     /\ (n \div p) % p = c
                     /\ (n \div (p * p)) % p = b
                     /\ (n \div (p * p * p)) % p = a
  BY DEF InBase
<1>. DEFINE e == a * p + b
            f == e * p + c
            pp == p * p
            ppp == p * p * p
<1>0. a \in Nat /\ b \in Nat /\ c \in Nat /\ d \in Nat
  OBVIOUS
<1>1. e \in Nat
  BY <1>0
<1>2. f \in Nat
  BY <1>0, <1>1
<1>3. e % p = b /\ e \div p = a
  BY <1>0, DivIs
<1>e. e = a * p + b
  OBVIOUS
<1>. HIDE DEF e
<1>4. f % p = c /\ f \div p = e
  BY <1>1, DivIs
<1>f. f = e * p + c
  OBVIOUS
<1>. HIDE DEF f
<1>5. n = f * p + d
  BY <1>e, <1>f
<1>6. n \in Nat /\ n % p = d /\ n \div p = f
  <2>1. f * p + d \in Nat
    BY <1>0, <1>2
  <2>. QED
    BY <1>2, <1>5, <2>1, DivIs
<1>7. n \div pp = e
  <2>. DEFINE r == c * p + d
  <2>1. pp \in Nat \ {0} /\ r \in Nat
    BY <1>0
  <2>2. r <= pp - 1
    <3>1. c * p <= (p - 1) * p
      BY <1>0
    <3>2. (p - 1) * p = pp - p
      OBVIOUS
    <3>. DEFINE u == c * p
    <3>3. u \in Nat /\ u <= pp - p
      BY <1>0, <3>1, <3>2
    <3>. HIDE DEF u, pp
    <3>. QED
      BY <1>0, <2>1, <3>3 DEF u
  <2>3. n = e * pp + r
    <3>1. (e * p + c) * p = e * (p * p) + c * p
      BY <1>0, <1>1
    <3>. QED
      BY <1>5, <1>f, <3>1, <1>0, <1>1
  <2>. HIDE DEF pp, r
  <2>4. r \in 0 .. pp - 1
    BY <2>1, <2>2
  <2>. QED
    BY <1>1, <2>1, <2>3, <2>4, DivIs
<1>8. n \div ppp = a
  <2>. DEFINE r == (b * p + c) * p + d
  <2>1. ppp \in Nat \ {0} /\ r \in Nat
    BY <1>0
  <2>2. r <= ppp - 1
    <3>. DEFINE s == b * p + c
                q == p * p
    <3>1. s \in Nat /\ q \in Nat
      BY <1>0
    <3>2. s <= q - 1
      <4>1. b * p <= (p - 1) * p
        BY <1>0
      <4>2. (p - 1) * p = q - p
        OBVIOUS
      <4>. DEFINE u == b * p
      <4>3. u \in Nat /\ u <= q - p
        BY <1>0, <4>1, <4>2
      <4>. HIDE DEF u, q
      <4>. QED
        BY <1>0, <3>1, <4>3 DEF u
    <3>3. ppp = q * p /\ r = s * p + d
      OBVIOUS
    <3>. HIDE DEF s, q, ppp, r
    <3>4. s * p <= (q - 1) * p
      BY <3>1, <3>2
    <3>5. (q - 1) * p = q * p - p
      BY <3>1
    <3>. DEFINE u == s * p
                v == q * p
    <3>6. u \in Nat /\ v \in Nat /\ u <= v - p
      BY <3>1, <3>4, <3>5
    <3>. HIDE DEF u, v
    <3>. QED
      BY <1>0, <3>3, <3>6 DEF u, v
  <2>3. n = a * ppp + r
    <3>1. e * p = a * (p * p) + b * p
      BY <1>0, <1>e
    <3>2. f * p = (a * (p * p) + b * p + c) * p
      BY <1>f, <3>1
    <3>3. (a * (p * p) + b * p + c) * p = a * (p * p * p) + (b * p + c) * p
      BY <1>0
    <3>. QED
      BY <1>0, <1>5, <3>2, <3>3
  <2>. HIDE DEF ppp, r
  <2>4. r \in 0 .. ppp - 1
    BY <2>1, <2>2
  <2>. QED
    BY <1>0, <2>1, <2>3, <2>4, DivIs
<1>9. a % p = a
  BY <1>0
<1>. QED
  BY <1>3, <1>4, <1>6, <1>7, <1>8, <1>9

(* The weights of the octets.                                              *)
LEMMA Weights ==
  ASSUME NEW p, p = Pow2[OctetBits]
  PROVE  /\ p \in Nat \ {0} /\ Pow2[(4 - 4) * OctetBits] = 1
         /\ Pow2[(4 - 3) * OctetBits] = p /\ Pow2[(4 - 2) * OctetBits] = p * p
         /\ Pow2[(4 - 1) * OctetBits] = p * p * p
         /\ MaxOctet = p - 1 /\ MaxAddr = p * p * p * p - 1
PROOF
<1>. DEFINE w == OctetBits
            w2 == w + w
            w3 == w2 + w
            w4 == w3 + w
<1>0. w \in Nat /\ w2 \in Nat /\ w3 \in Nat /\ w4 \in Nat
  BY WidthAssumption
<1>1. /\ (4 - 4) * w = 0 /\ (4 - 3) * w = w /\ (4 - 2) * w = w2 /\ (4 - 1) * w = w3
      /\ AddrBits = w4
  BY <1>0 DEF AddrBits
<1>2. p \in Nat \ {0} /\ Pow2[0] = 1
  BY <1>0, Pow2Nat, Pow2Is
<1>. HIDE DEF w
<1>3. Pow2[w2] = p * p
  BY <1>0, Pow2Adds DEF w
<1>. HIDE DEF w2
<1>4. Pow2[w3] = p * p * p
  BY <1>0, <1>3, Pow2Adds DEF w
<1>. HIDE DEF w3
<1>5. Pow2[w4] = p * p * p * p
  BY <1>0, <1>4, Pow2Adds DEF w
<1>6. MaxOctet = p - 1 /\ MaxAddr = p * p * p * p - 1
  <2>1. MaxAddr = Pow2[w4] - 1
    BY <1>1 DEF MaxAddr
  <2>. QED
    BY <1>5, <2>1 DEF MaxOctet
<1>7. /\ Pow2[(4 - 4) * w] = 1 /\ Pow2[(4 - 3) * w] = p
      /\ Pow2[(4 - 2) * w] = p * p /\ Pow2[(4 - 1) * w] = p * p * p
  BY <1>1, <1>2, <1>3, <1>4, Zenon DEF w
<1>. QED
  BY <1>2, <1>6, <1>7 DEF w

(* What the octets before the last add.                                    *)
Added(o, n) == FoldLeft(LAMBDA sum, k : sum + o[k] * Pow2[(4 - k) * OctetBits],
                        o[n], [k \in 1 .. (n - 1) |-> k])

(* The sum of four parts.                                                  *)
LEMMA AddedIs ==
  ASSUME NEW o
  PROVE  Added(o, 4) = ((o[4] + o[1] * Pow2[(4 - 1) * OctetBits])
                              + o[2] * Pow2[(4 - 2) * OctetBits])
                              + o[3] * Pow2[(4 - 3) * OctetBits]
PROOF
<1>. DEFINE q == [k \in 1 .. (4 - 1) |-> k]
            n == Len(q)
            op == <<"add", o>>
            base == o[4]
            Plus(sum, k) == sum + o[k] * Pow2[(4 - k) * OctetBits]
            Folds(g) == g = [s \in SUBSET (DOMAIN q) |->
                               IF s = {} THEN base ELSE Plus(g[s \ {Max(s)}], q[Max(s)])]
            g == CHOOSE g : Folds(g)
<1>q. q \in Seq(Nat) /\ n = 3 /\ DOMAIN q = 1 .. n /\ q[1] = 1 /\ q[2] = 2 /\ q[3] = 3
  OBVIOUS
<1>d. DOMAIN q = 1 .. n
  BY <1>q
<1>1. Added(o, 4) = g[DOMAIN q]
  BY Zenon DEF Added, FoldLeft, MapThenFoldSet
<1>2. \A a, x : Apply(op, a, x) = Plus(a, x)
  <2>1. op[1] = "add" /\ op[2] = o
    OBVIOUS
  <2>2. op[1] # "held" /\ op[1] # "read" /\ op[1] # "split" /\ op[1] # "take"
    BY <2>1
  <2>. HIDE DEF op
  <2>. QED
    BY <2>1, <2>2 DEF Apply
<1>. HIDE DEF op, q, base, Plus, n
<1>3. \A f : Folded(op, base, q, n, f) <=> Folds(f)
  BY <1>d, <1>2 DEF Folded
<1>. HIDE DEF Folds
<1>4. g = CHOOSE f : Folded(op, base, q, n, f)
  BY <1>3, Zenon
<1>. HIDE DEF g
<1>5. Ends(op, base, q, g[1 .. n])
  BY <1>q, <1>4, FoldEnds DEF n
<1>6. PICK W : Walk(op, base, q, n, W) /\ W[n] = g[1 .. n]
  BY <1>5 DEF Ends, n
<1>7. /\ W[0] = base /\ W[1] = Apply(op, W[0], q[1])
      /\ W[2] = Apply(op, W[1], q[2]) /\ W[3] = Apply(op, W[2], q[3])
  <2>. HIDE DEF n
  <2>1. W[0] = base /\ \A k \in 1 .. n : W[k] = Apply(op, W[k - 1], q[k])
    BY <1>6 DEF Walk
  <2>2. 1 \in 1 .. n /\ 2 \in 1 .. n /\ 3 \in 1 .. n /\ 1 - 1 = 0 /\ 2 - 1 = 1 /\ 3 - 1 = 2
    BY <1>q
  <2>3. W[1] = Apply(op, W[1 - 1], q[1]) /\ W[2] = Apply(op, W[2 - 1], q[2])
          /\ W[3] = Apply(op, W[3 - 1], q[3])
    BY <2>1, <2>2, Zenon
  <2>. QED
    BY <2>1, <2>2, <2>3, Zenon
<1>8. /\ W[1] = base + o[1] * Pow2[(4 - 1) * OctetBits]
      /\ W[2] = W[1] + o[2] * Pow2[(4 - 2) * OctetBits]
      /\ W[3] = W[2] + o[3] * Pow2[(4 - 3) * OctetBits]
  BY <1>2, <1>7, <1>q, Zenon DEF Plus
<1>9. Added(o, 4) = W[3]
  BY <1>1, <1>6, <1>q, Zenon
<1>. QED
  BY <1>8, <1>9, Zenon DEF base

(* inet_aton reads an address as inet_ntoa prints it.                      *)
LEMMA AtonNtoa ==
  ASSUME NEW long \in Nat, AddrBits <= long, NEW a \in In_addr
  PROVE  /\ inet_aton(inet_ntoa(a), long) # Invalid
         /\ htonl(inet_aton(inet_ntoa(a), long)) = a
PROOF
<1>. DEFINE p == Pow2[OctetBits]
            t == Parts(inet_ntoa(a))
            n == Len(t)
            o == [k \in 1 .. n |-> octet(t[k], k = n, long)]
            v == inet_aton(inet_ntoa(a), long)
<1>1. /\ p \in Nat \ {0} /\ Pow2[(4 - 4) * OctetBits] = 1
      /\ Pow2[(4 - 3) * OctetBits] = p /\ Pow2[(4 - 2) * OctetBits] = p * p
      /\ Pow2[(4 - 1) * OctetBits] = p * p * p
      /\ MaxOctet = p - 1 /\ MaxAddr = p * p * p * p - 1
  BY Weights
<1>2. MaxOctet \in Nat /\ MaxAddr \in Nat /\ MaxOctet <= MaxAddr
  BY OctetsFit
<1>3. \A k \in 1 .. 4 : a[k] \in Nat /\ a[k] \in 0 .. MaxOctet /\ a[k] \in 0 .. MaxAddr
  BY <1>2 DEF In_addr, Octet
<1>4. a \in [1 .. 4 -> Nat]
  BY OctetNat DEF In_addr
<1>5. t = <<Decimal[a[1]], Decimal[a[2]], Decimal[a[3]], Decimal[a[4]]>>
  BY <1>4, PartsOfNtoa
<1>6. n = 4 /\ \A k \in 1 .. 4 : t[k] = Decimal[a[k]]
  BY <1>5
<1>7. v = IF \/ n > 4
             \/ \E k \in 1 .. n : o[k] = Invalid
             \/ \E k \in 1 .. (n - 1) : o[k] > MaxOctet
             \/ o[n] > MaxAddr \div Pow2[(n - 1) * OctetBits]
          THEN Invalid
          ELSE Added(o, n)
  BY Zenon DEF inet_aton, Added
<1>8. \A k \in 1 .. 4 : o[k] = a[k]
  <2>. HIDE DEF t, n
  <2>1. ASSUME NEW k \in 1 .. 4 PROVE o[k] = a[k]
    <3>1. k \in 1 .. n
      BY <1>6
    <3>2. o[k] = octet(Decimal[a[k]], k = n, long)
      BY <1>6, <3>1
    <3>. DEFINE l == k = n
                i == a[k]
    <3>3. i \in 0 .. MaxAddr
      BY <1>3
    <3>. HIDE DEF l, i
    <3>4. octet(Decimal[i], l, long) = i
      BY <3>3, OctetBack
    <3>. QED
      BY <3>2, <3>4 DEF l, i
  <2>. QED
    BY <2>1
<1>. HIDE DEF t, n, o, p, v
<1>9. MaxAddr \div Pow2[(n - 1) * OctetBits] = p - 1
  <2>. DEFINE q == p * p * p
  <2>1. q \in Nat \ {0} /\ p - 1 \in Nat
    BY <1>1
  <2>2. MaxAddr = (p - 1) * q + (q - 1)
    BY <1>1
  <2>3. Pow2[(n - 1) * OctetBits] = q
    BY <1>1, <1>6
  <2>. HIDE DEF q
  <2>4. q - 1 \in 0 .. q - 1
    BY <2>1
  <2>5. ((p - 1) * q + (q - 1)) \div q = p - 1
    <3>. DEFINE x == p - 1
                y == q - 1
    <3>1. x \in Nat /\ y \in 0 .. q - 1
      BY <2>1, <2>4
    <3>. HIDE DEF x, y
    <3>2. (x * q + y) \div q = x
      BY <2>1, <3>1, DivIs
    <3>. QED
      BY <3>2 DEF x, y
  <2>. QED
    BY <2>2, <2>3, <2>5
<1>10. v = Added(o, n)
  <2>1. ~ (n > 4) /\ ~ (\E k \in 1 .. n : o[k] = Invalid)
    BY <1>3, <1>6, <1>8 DEF Invalid
  <2>2. ~ (\E k \in 1 .. (n - 1) : o[k] > MaxOctet)
    BY <1>2, <1>3, <1>6, <1>8
  <2>3. ~ (o[n] > MaxAddr \div Pow2[(n - 1) * OctetBits])
    BY <1>1, <1>3, <1>6, <1>8, <1>9
  <2>. QED
    BY <1>7, <2>1, <2>2, <2>3
<1>11. v = ((a[4] + a[1] * (p * p * p)) + a[2] * (p * p)) + a[3] * p
  <2>1. o[1] = a[1] /\ o[2] = a[2] /\ o[3] = a[3] /\ o[4] = a[4]
    BY <1>8
  <2>2. v = Added(o, 4)
    BY <1>6, <1>10
  <2>3. v = ((o[4] + o[1] * Pow2[(4 - 1) * OctetBits])
                   + o[2] * Pow2[(4 - 2) * OctetBits])
                   + o[3] * Pow2[(4 - 3) * OctetBits]
    BY <2>2, AddedIs, Zenon
  <2>. QED
    BY <1>1, <2>1, <2>3, Zenon
<1>. DEFINE w == a[1]
            x == a[2]
            y == a[3]
            z == a[4]
<1>12. w \in 0 .. p - 1 /\ x \in 0 .. p - 1 /\ y \in 0 .. p - 1 /\ z \in 0 .. p - 1
  BY <1>1, <1>3
<1>13. v = ((z + w * (p * p * p)) + x * (p * p)) + y * p
  BY <1>11
<1>. HIDE DEF w, x, y, z
<1>14. v = ((w * p + x) * p + y) * p + z
  <2>1. (w * p + x) * p = w * (p * p) + x * p
    BY <1>1, <1>12
  <2>2. (w * (p * p) + x * p + y) * p = w * (p * p * p) + x * (p * p) + y * p
    BY <1>1, <1>12
  <2>. QED
    BY <1>1, <1>12, <1>13, <2>1, <2>2
<1>15. /\ v \in Nat /\ v % p = z /\ (v \div p) % p = y
       /\ (v \div (p * p)) % p = x /\ (v \div (p * p * p)) % p = w
  <2>1. InBase(p, w, x, y, z, v)
    BY <1>1, <1>12, Octets
  <2>. QED
    BY <1>14, <2>1 DEF InBase
<1>16. v \div 1 = v
  BY <1>15
<1>17. \A k \in 1 .. 4 : htonl(v)[k] = (v \div Pow2[(4 - k) * OctetBits]) % p
  BY Zenon DEF htonl, p
<1>18. htonl(v)[1] = w /\ htonl(v)[2] = x /\ htonl(v)[3] = y /\ htonl(v)[4] = z
  <2>1. 1 \in 1 .. 4 /\ 2 \in 1 .. 4 /\ 3 \in 1 .. 4 /\ 4 \in 1 .. 4
    OBVIOUS
  <2>2. /\ htonl(v)[1] = (v \div Pow2[(4 - 1) * OctetBits]) % p
        /\ htonl(v)[2] = (v \div Pow2[(4 - 2) * OctetBits]) % p
        /\ htonl(v)[3] = (v \div Pow2[(4 - 3) * OctetBits]) % p
        /\ htonl(v)[4] = (v \div Pow2[(4 - 4) * OctetBits]) % p
    BY <1>17, <2>1, Zenon
  <2>. QED
    BY <1>1, <1>15, <1>16, <2>2, Zenon
<1>19. htonl(v) = a
  <2>1. DOMAIN htonl(v) = 1 .. 4 /\ htonl(v) = [k \in 1 .. 4 |-> htonl(v)[k]]
    BY DEF htonl
  <2>2. a = [k \in 1 .. 4 |-> a[k]]
    BY <1>4
  <2>3. \A k \in 1 .. 4 : htonl(v)[k] = a[k]
    BY <1>18 DEF w, x, y, z
  <2>. QED
    BY <2>1, <2>2, <2>3, Zenon
<1>. QED
  BY <1>15, <1>19 DEF v, Invalid

(* What follows the first n characters.                                    *)
LEMMA AfterIs ==
  ASSUME NEW S, NEW t \in Seq(S), NEW n \in 0 .. Len(t)
  PROVE  /\ After(t, n) \in Seq(S) /\ Len(After(t, n)) = Len(t) - n
         /\ \A k \in 1 .. Len(t) - n : After(t, n)[k] = t[n + k]
PROOF
<1>. DEFINE m == n + 1
            l == Len(t)
            x == SubSeq(t, m, l)
<1>1. m \in Int /\ l \in Nat /\ m <= l + 1 /\ \A k \in m .. l : t[k] \in S
  OBVIOUS
<1>. HIDE DEF m, l
<1>2. /\ x \in Seq(S)
      /\ Len(x) = IF m <= l THEN l - m + 1 ELSE 0
      /\ \A k \in 1 .. l - m + 1 : x[k] = t[m + k - 1]
  BY <1>1, SubSeqProperties
<1>3. x = After(t, n)
  BY DEF After, m, l
<1>. HIDE DEF x
<1>4. Len(x) = l - n /\ \A k \in 1 .. l - n : x[k] = t[n + k]
  <2>1. l - m + 1 = l - n /\ n \in Nat /\ n <= l /\ (m <= l \/ l = n)
    BY <1>1 DEF m, l
  <2>2. Len(x) = l - n
    BY <1>1, <1>2, <2>1
  <2>3. ASSUME NEW k \in 1 .. l - n PROVE x[k] = t[n + k]
    <3>1. k \in 1 .. l - m + 1 /\ m + k - 1 = n + k
      BY <1>1, <2>1 DEF m
    <3>. QED
      BY <1>2, <3>1
  <2>. QED
    BY <2>2, <2>3
<1>. QED
  BY <1>2, <1>3, <1>4 DEF l

(* strto stops before a character that is no digit, sign or space.         *)
LEMMA NameUnread ==
  ASSUME NEW s \in Seq(STRING), NEW i \in 1 .. Len(s),
         s[i] \notin Numeric
  PROVE  strto(s).end # << >>
PROOF
<1>. DEFINE C == STRING
            white == {" "}
            m == Leading(s, white)
            u == After(s, m)
            t == IF u # << >> /\ u[1] \in {"+", "-"} THEN Tail(u) ELSE u
            d == Leading(t, Decimals)
            c == s[i]
<1>1. c \notin Decimals /\ c \notin white /\ c # "+" /\ c # "-"
  BY Zenon DEF Numeric
<1>. HIDE DEF c
<1>s. s \in Seq(C) /\ Len(s) \in Nat
  OBVIOUS
<1>. HIDE DEF C, white
<1>e. s # << >>
  BY <1>s, EmptySeq
<1>2. m \in 0 .. Len(s) /\ \A k \in 1 .. m : s[k] \in white
  BY <1>s, LeadingIs
<1>. HIDE DEF m
<1>3. i - m \in 1 .. Len(s) - m /\ m + (i - m) = i
  <2>1. ~ (i \in 1 .. m)
    BY <1>1, <1>2 DEF c
  <2>. QED
    BY <1>s, <1>2, <2>1
<1>4. /\ u \in Seq(C) /\ Len(u) = Len(s) - m
      /\ \A k \in 1 .. Len(s) - m : u[k] = s[m + k]
  BY <1>s, <1>2, AfterIs
<1>5. i - m \in 1 .. Len(u) /\ u[i - m] = c
  BY <1>3, <1>4 DEF c
<1>. HIDE DEF u
<1>6. t \in Seq(C) /\ \E j \in 1 .. Len(t) : t[j] = c
  <2>. DEFINE j == i - m
  <2>1. j \in 1 .. Len(u) /\ u[j] = c
    BY <1>5
  <2>. HIDE DEF j
  <2>2. CASE u # << >> /\ u[1] \in {"+", "-"}
    <3>1. j # 1
      BY <1>1, <2>1, <2>2
    <3>2. Tail(u) \in Seq(C) /\ j - 1 \in 1 .. Len(Tail(u)) /\ Tail(u)[j - 1] = u[(j - 1) + 1]
            /\ (j - 1) + 1 = j
      BY <1>4, <2>1, <2>2, <3>1
    <3>3. t = Tail(u)
      BY <2>2
    <3>. QED
      BY <2>1, <3>2, <3>3
  <2>3. CASE ~ (u # << >> /\ u[1] \in {"+", "-"})
    <3>1. t = u
      BY <2>3
    <3>. QED
      BY <1>4, <2>1, <3>1
  <2>. QED
    BY <2>2, <2>3
<1>. HIDE DEF t
<1>7. d \in 0 .. Len(t) /\ \A k \in 1 .. d : t[k] \in Decimals
  BY <1>6, LeadingIs
<1>. HIDE DEF d
<1>8. /\ After(t, d) \in Seq(C) /\ Len(After(t, d)) = Len(t) - d
  BY <1>6, <1>7, AfterIs
<1>9. After(t, d) # << >>
  <2>. DEFINE x == After(t, d)
              l == Len(t)
  <2>1. x \in Seq(C) /\ Len(x) = l - d /\ l \in Nat
    BY <1>6, <1>8
  <2>2. d # l
    BY <1>1, <1>6, <1>7
  <2>. HIDE DEF x, l
  <2>3. Len(x) # 0
    BY <1>7, <2>1, <2>2 DEF l
  <2>4. x # << >>
    BY <2>1, <2>3
  <2>. QED
    BY <2>4 DEF x
<1>10. strto(s).end = IF d = 0 THEN s ELSE After(t, d)
  <2>. DEFINE v == IF u[1] = "-" THEN - Reading(SubSeq(t, 1, d)) ELSE Reading(SubSeq(t, 1, d))
              e == After(t, d)
  <2>1. strto(s) = IF d = 0 THEN [value |-> 0, end |-> s] ELSE [value |-> v, end |-> e]
    BY Zenon DEF strto, Reading, d, t, u, m, white
  <2>. HIDE DEF v, e
  <2>. QED
    BY <2>1 DEF e
<1>. QED
  BY <1>e, <1>9, <1>10

(* The first of what was found is one of it.                               *)
LEMMA MinFound ==
  ASSUME NEW B, B \subseteq Nat, B # {}
  PROVE  Min(B) \in B
PROOF
<1>1. \E m \in B : \A k \in B : m <= k
  BY LeastElement
<1>. QED
  BY <1>1 DEF Min

(* Copy fits the text and its nul into the buffer or fails.                *)
LEMMA CopyIs ==
  ASSUME NEW S, NEW name \in Seq(S), NEW size \in Nat, Copy(name, size).status = "ok"
  PROVE  Copy(name, size).text = name /\ Len(name) < size
PROOF
<1>. DEFINE b == Len(name) + 1 > size
<1>1. Len(name) \in Nat
  OBVIOUS
<1>2. Copy(name, size) = IF b THEN [status |-> "EAI_OVERFLOW", text |-> << >>]
                         ELSE [status |-> "ok", text |-> name]
  BY DEF Copy
<1>3. "EAI_OVERFLOW" # "ok"
  OBVIOUS
<1>4. ~ b
  <2>. HIDE DEF b
  <2>. QED
    BY <1>2, <1>3
<1>5. Copy(name, size).text = name
  <2>. HIDE DEF b
  <2>. QED
    BY <1>2, <1>4
<1>. QED
  BY <1>1, <1>4, <1>5

(* The address as lookup_name prints it is a text.                         *)
LEMMA NtoaText == ASSUME NEW a \in In_addr PROVE inet_ntoa(a) \in Seq(Chars)
PROOF
<1>1. a \in [1 .. 4 -> Nat]
  BY OctetNat DEF In_addr
<1>2. PICK g : Joined(".", a, 4, g) /\ inet_ntoa(a) = g[4]
  BY <1>1, NtoaJoined, Zenon
<1>. DEFINE sep == "."
            n == 4
<1>3. sep \in Marks /\ n \in Nat /\ a \in [1 .. n -> Nat] /\ n \in 1 .. n
  BY <1>1 DEF Marks
<1>4. Joined(sep, a, n, g) /\ inet_ntoa(a) = g[n]
  BY <1>2, Zenon
<1>. HIDE DEF sep, n
<1>5. g[n] \in Seq(Chars)
  BY <1>3, <1>4, JoinedText
<1>. QED
  BY <1>4, <1>5

(* The node: a name of the host that fits, or the address.                 *)
NodeRight(a, size, flags, names) ==
  LET r == lookup_name(a, size, flags, names)
  IN r.status = "ok" => Len(r.text) < size /\ (r.text \in ToSet(names) \/ r.text = inet_ntoa(a))

(* lookup_name fills it in.                                                *)
LEMMA NodeIs ==
  ASSUME NEW a \in In_addr, NEW size \in Nat, NEW flags, NEW names \in Seq(Seq(STRING))
  PROVE  NodeRight(a, size, flags, names)
PROOF
<1>. SUFFICES ASSUME lookup_name(a, size, flags, names).status = "ok"
              PROVE  LET x == lookup_name(a, size, flags, names).text
                     IN Len(x) < size /\ (x \in ToSet(names) \/ x = inet_ntoa(a))
  BY Zenon DEF NodeRight
<1>. DEFINE tried == {k \in DOMAIN names : "NI_NUMERICHOST" \notin flags /\ Qualified(names[k])}
            r == lookup_name(a, size, flags, names)
            b == "NI_NAMEREQD" \in flags /\ "NI_NUMERICHOST" \notin flags
            first == names[Min(tried)]
            text == inet_ntoa(a)
<1>1. r = IF tried # {} THEN Copy(first, size)
          ELSE IF b THEN [status |-> "EAI_NONAME", text |-> << >>]
          ELSE Copy(text, size)
  BY Zenon DEF lookup_name
<1>2. tried # {} => first \in ToSet(names) /\ first \in Seq(STRING)
  <2>1. tried \subseteq DOMAIN names /\ DOMAIN names \subseteq Nat
    OBVIOUS
  <2>. HIDE DEF tried
  <2>2. tried # {} => Min(tried) \in DOMAIN names
    BY <2>1, MinFound
  <2>. QED
    BY <2>2 DEF ToSet
<1>3. text \in Seq(Chars)
  BY NtoaText
<1>4. "EAI_NONAME" # "ok"
  OBVIOUS
<1>. HIDE DEF tried, b, first, text, r
<1>5. r.status = "ok"
  BY DEF r
<1>6. CASE tried # {}
  <2>1. r = Copy(first, size)
    BY <1>1, <1>6
  <2>2. r.text = first /\ Len(first) < size
    BY <1>2, <1>5, <1>6, <2>1, CopyIs
  <2>. QED
    BY <1>2, <1>6, <2>2 DEF r
<1>7. CASE tried = {} /\ ~ b
  <2>1. r = Copy(text, size)
    BY <1>1, <1>7
  <2>2. r.text = text /\ Len(text) < size
    BY <1>3, <1>5, <2>1, CopyIs
  <2>. QED
    BY <2>2 DEF r, text
<1>8. CASE tried = {} /\ b
  <2>1. r = [status |-> "EAI_NONAME", text |-> << >>]
    BY <1>1, <1>8
  <2>. QED
    BY <1>4, <1>5, <2>1
<1>. QED
  BY <1>6, <1>7, <1>8

(* The port is not clipped.                                                *)
Fills(number, size, flags) ==
  ~ /\ Len(Decimal[number]) = size
    /\ "NI_NUMERICSERV" \in flags
       \/ getservbyport(number, IF "NI_DGRAM" \in flags THEN "udp" ELSE "tcp") = {}
(* The service: its name or its port, unless that is clipped, fits and is  *)
(* read back as the port.                                                  *)
ServiceRight(number, size, flags) ==
  LET r == lookup_service(number, size, flags)
  IN r.status = "ok" =>
       /\ Len(r.text) < size
       /\ gai_service(r.text, {}, IF "NI_DGRAM" \in flags THEN "dgram" ELSE "stream").port = number

(* lookup_service fills it in.                                             *)
LEMMA ServiceBack ==
  ASSUME NEW number \in 0 .. MaxPort, NEW size \in Nat, NEW flags,
         call.long \in Nat, PortBits < call.long, Fills(number, size, flags)
  PROVE  ServiceRight(number, size, flags)
PROOF
<1>. SUFFICES ASSUME lookup_service(number, size, flags).status = "ok"
              PROVE  LET x == lookup_service(number, size, flags).text
                     IN /\ Len(x) < size
                        /\ gai_service(x, {}, IF "NI_DGRAM" \in flags THEN "dgram" ELSE "stream").port
                             = number
  BY Zenon DEF ServiceRight
<1>. DEFINE udp == "NI_DGRAM" \in flags
            numeric == "NI_NUMERICSERV" \in flags
            proto == IF udp THEN "udp" ELSE "tcp"
            t == IF udp THEN "dgram" ELSE "stream"
            these == getservbyport(number, proto)
            found == IF numeric THEN {} ELSE these
            r == lookup_service(number, size, flags)
            d == Decimal[number]
            f == First(found)
<1>1. r = IF found # {} THEN Copy(f.name, size)
          ELSE IF Len(d) > size THEN [status |-> "EAI_OVERFLOW", text |-> << >>]
          ELSE [status |-> "ok", text |-> IF Len(d) < size THEN d ELSE Front(d)]
  BY Zenon DEF lookup_service
<1>2. r.status = "ok" /\ ~ (Len(d) = size /\ (numeric \/ these = {}))
  BY Zenon DEF Fills
<1>3. number \in Nat /\ MaxPort \in Nat /\ number < Pow2[call.long - 1]
  BY PortsFit
<1>4. d \in Seq(Figures) /\ Len(d) \in Nat
  BY <1>3, DecimalPrints DEF Printed
<1>5. \A x : LET p == CASE t = "0" -> "NULL" [] t = "dgram" -> "udp" [] OTHER -> "tcp"
                 g == getservbyname(x, p)
             IN gai_service(x, {}, t).port =
                  IF convert_service(x)
                  THEN IF strto(x).value > MaxPort THEN 0 ELSE strto(x).value
                  ELSE IF g = {} THEN 0
                  ELSE IF First(g).proto \notin {"udp", "tcp"} THEN 0
                  ELSE First(g).port
  <2>. TAKE x
  <2>. DEFINE p == CASE t = "0" -> "NULL" [] t = "dgram" -> "udp" [] OTHER -> "tcp"
              g == getservbyname(x, p)
              c == convert_service(x)
              v == strto(x).value
              error(e) == [status |-> e, type |-> t, port |-> 0]
              h == First(g)
  <2>1. gai_service(x, {}, t) =
          IF c THEN IF v > MaxPort THEN error("EAI_SERVICE")
                    ELSE [status |-> "ok", type |-> t, port |-> v]
          ELSE IF "AI_NUMERICSERV" \in {} \/ g = {} THEN error("EAI_NONAME")
          ELSE IF h.proto \notin {"udp", "tcp"} THEN error("EAI_SERVICE")
          ELSE [status |-> "ok", port |-> h.port,
                type |-> IF h.proto = "udp" THEN "dgram" ELSE "stream"]
    BY Zenon DEF gai_service
  <2>2. gai_service(x, {}, t).port = IF c THEN IF v > MaxPort THEN 0 ELSE v
                                     ELSE IF g = {} THEN 0
                                     ELSE IF h.proto \notin {"udp", "tcp"} THEN 0
                                     ELSE h.port
    <3>. HIDE DEF g, c, v, h, t
    <3>. QED
      BY <2>1
  <2>. QED
    BY <2>2, Zenon
<1>6. (CASE t = "0" -> "NULL" [] t = "dgram" -> "udp" [] OTHER -> "tcp") = proto
  <2>1. "dgram" # "0" /\ "stream" # "0" /\ "stream" # "dgram"
    OBVIOUS
  <2>. QED
    BY <2>1
<1>7. proto \in {"udp", "tcp"}
  OBVIOUS
<1>8. \A x : LET g == getservbyname(x, proto)
             IN gai_service(x, {}, t).port =
                  IF convert_service(x)
                  THEN IF strto(x).value > MaxPort THEN 0 ELSE strto(x).value
                  ELSE IF g = {} THEN 0
                  ELSE IF First(g).proto \notin {"udp", "tcp"} THEN 0
                  ELSE First(g).port
  BY <1>5, <1>6, Zenon
<1>. SUFFICES Len(r.text) < size /\ gai_service(r.text, {}, t).port = number
  BY Zenon
<1>. HIDE DEF r, t, proto, numeric, udp
<1>9. CASE found # {}
  <2>1. found \subseteq DOMAIN Services /\ Min(found) \in found
    <3>1. found \subseteq DOMAIN Services
      BY DEF getservbyport
    <3>. HIDE DEF found
    <3>. QED
      BY <1>9, <3>1, FirstFound
  <2>. DEFINE k == Min(found)
  <2>2. k \in DOMAIN Services /\ f = Services[k] /\ f.port = number /\ f.proto = proto
    <3>1. k \in these
      BY <2>1
    <3>2. f = Services[k]
      BY DEF First
    <3>. HIDE DEF k, f, found
    <3>. QED
      BY <3>1, <3>2 DEF getservbyport
  <2>. HIDE DEF k, f, found
  <2>. DEFINE x == f.name
  <2>3. x \in Seq(STRING) /\ \E i \in DOMAIN x : x[i] \notin Numeric
    <3>1. f \in [name : Seq(STRING), proto : STRING, port : Nat]
      <4>. DEFINE R == [name : Seq(STRING), proto : STRING, port : Nat]
      <4>1. Services \in Seq(R)
        BY ServicesAssumption, Zenon
      <4>. HIDE DEF R
      <4>2. f \in R
        BY <2>2, <4>1
      <4>. QED
        BY <4>2 DEF R
    <3>2. \E i \in DOMAIN f.name : f.name[i] \notin Numeric
      BY <2>2, ServicesAssumption, Zenon
    <3>. QED
      BY <3>1, <3>2
  <2>4. r.text = x /\ Len(x) < size
    <3>1. r = Copy(x, size)
      BY <1>1, <1>9
    <3>. QED
      BY <1>2, <2>3, <3>1, CopyIs
  <2>5. ~ convert_service(x)
    <3>. HIDE DEF x
    <3>1. PICK i \in DOMAIN x : x[i] \notin Numeric
      BY <2>3
    <3>2. i \in 1 .. Len(x)
      BY <2>3, LenProperties
    <3>3. strto(x).end # << >>
      BY <2>3, <3>1, <3>2, NameUnread
    <3>. QED
      BY <3>3 DEF convert_service
  <2>. DEFINE g == getservbyname(x, proto)
              j == Min(g)
  <2>6. k \in g /\ g \subseteq DOMAIN Services
    BY <2>2 DEF getservbyname
  <2>7. j \in DOMAIN Services /\ Services[j].name = x /\ Services[j].proto = proto
    <3>1. j \in g
      <4>. HIDE DEF g
      <4>. QED
        BY <2>6, FirstFound
    <3>2. proto # "NULL"
      BY <1>7
    <3>3. \A m \in g : m \in DOMAIN Services /\ Services[m].name = x /\ proto \in {"NULL", Services[m].proto}
      BY DEF getservbyname
    <3>. HIDE DEF j, g
    <3>. QED
      BY <3>1, <3>2, <3>3
  <2>8. Services[j].port = number
    <3>. HIDE DEF j, g
    <3>. QED
      BY <2>2, <2>7, ServicesAssumption
  <2>9. First(g).proto \in {"udp", "tcp"} /\ First(g).port = number
    <3>1. First(g) = Services[j]
      BY DEF First
    <3>. HIDE DEF j, g
    <3>. QED
      BY <1>7, <2>7, <2>8, <3>1
  <2>10. gai_service(x, {}, t).port = number
    <3>1. g # {}
      BY <2>6
    <3>. HIDE DEF x
    <3>2. gai_service(x, {}, t).port =
            IF convert_service(x)
            THEN IF strto(x).value > MaxPort THEN 0 ELSE strto(x).value
            ELSE IF g = {} THEN 0
            ELSE IF First(g).proto \notin {"udp", "tcp"} THEN 0
            ELSE First(g).port
      BY <1>8, Zenon
    <3>. HIDE DEF g
    <3>. QED
      BY <2>5, <2>9, <3>1, <3>2
  <2>. QED
    BY <2>4, <2>10
<1>10. CASE found = {}
  <2>1. numeric \/ these = {}
    BY <1>10
  <2>2. r.text = d /\ Len(d) < size
    <3>. DEFINE l == Len(d)
                fr == Front(d)
    <3>1. r = IF l > size THEN [status |-> "EAI_OVERFLOW", text |-> << >>]
              ELSE [status |-> "ok", text |-> IF l < size THEN d ELSE fr]
      BY <1>1, <1>10, Zenon
    <3>2. l # size /\ l \in Nat
      BY <1>2, <1>4, <2>1
    <3>3. "EAI_OVERFLOW" # "ok"
      OBVIOUS
    <3>. HIDE DEF l, fr, d, found, these
    <3>4. ~ (l > size)
      BY <1>2, <3>1, <3>3
    <3>5. l < size
      BY <3>2, <3>4
    <3>6. r.text = d
      BY <3>1, <3>4, <3>5
    <3>. QED
      BY <3>5, <3>6 DEF l
  <2>3. convert_service(d) /\ strto(d).value = number
    <3>1. strto(d).value = number /\ strto(d).end = << >> /\ d # << >>
      BY <1>3, ReadBack, DecimalText
    <3>. QED
      BY <1>3, <3>1 DEF convert_service
  <2>. HIDE DEF d
  <2>4. gai_service(d, {}, t).port = number
    <3>. DEFINE g == getservbyname(d, proto)
                z == IF g = {} THEN 0
                     ELSE IF First(g).proto \notin {"udp", "tcp"} THEN 0
                     ELSE First(g).port
                v == strto(d).value
    <3>1. gai_service(d, {}, t).port = IF convert_service(d) THEN IF v > MaxPort THEN 0 ELSE v
                                       ELSE z
      BY <1>8, Zenon
    <3>2. v = number /\ ~ (number > MaxPort)
      BY <1>3, <2>3
    <3>. HIDE DEF z, v, g
    <3>. QED
      BY <2>3, <3>1, <3>2
  <2>. QED
    BY <2>2, <2>4
<1>. QED
  BY <1>9, <1>10

(* getnameinfo is right about what it fills in.                            *)
LEMMA NamesRight ==
  ASSUME call \in Calls, call.fn = "getnameinfo", getnameinfo(call).status = "ok"
  PROVE  LET r == getnameinfo(call) IN
         /\ call.nodelen > 0 =>
              /\ Len(r.node) < call.nodelen
              /\ \/ inet_aton(r.node, call.long) # Invalid
                    /\ htonl(inet_aton(r.node, call.long)) = call.sa.addr
                 \/ r.node \in ToSet(call.names)
         /\ call.servicelen > 0 /\ ~ Clipped =>
              /\ Len(r.service) < call.servicelen
              /\ gai_service(r.service, {},
                   IF "NI_DGRAM" \in call.flags THEN "dgram" ELSE "stream").port = call.sa.port
PROOF
<1>. DEFINE c == call
            none == [status |-> "ok", text |-> << >>]
            nl == c.nodelen
            sl == c.servicelen
            ln == lookup_name(c.sa.addr, nl, c.flags, c.names)
            ls == lookup_service(c.sa.port, sl, c.flags)
            n == IF nl = 0 THEN none ELSE ln
            s == IF sl = 0 THEN none ELSE ls
            other == c.sa.family # "inet"
            status == CASE nl = 0 /\ sl = 0 -> "EAI_NONAME"
                        [] other -> "EAI_FAMILY"
                        [] n.status # "ok" -> n.status
                        [] OTHER -> s.status
            r == getnameinfo(c)
<1>1. r = [status |-> status, node |-> n.text, service |-> s.text]
  BY Zenon DEF getnameinfo
<1>2. r.status = status /\ r.node = n.text /\ r.service = s.text
  <2>. HIDE DEF status, n, s, r
  <2>. QED
    BY <1>1
<1>3. /\ c.names \in Seq(Seq(STRING)) /\ nl \in Nat /\ sl \in Nat
      /\ c.long \in Nat /\ PortBits < c.long /\ AddrBits <= c.long
      /\ ~ other => c.sa.addr \in In_addr /\ c.sa.port \in 0 .. MaxPort
  BY CallsAssumption, Zenon DEF MaxPort
<1>4. ~ other /\ n.status = "ok" /\ s.status = "ok"
  <2>1. status = "ok"
    BY <1>2, Zenon
  <2>2. "EAI_NONAME" # "ok" /\ "EAI_FAMILY" # "ok"
    OBVIOUS
  <2>. HIDE DEF other, n, s, nl, sl
  <2>3. ~ (nl = 0 /\ sl = 0) /\ ~ other
    BY <2>1, <2>2
  <2>4. n.status = "ok"
    BY <2>1, <2>3
  <2>. QED
    BY <2>1, <2>3, <2>4
<1>. HIDE DEF r
<1>5. ASSUME nl > 0
      PROVE  /\ Len(r.node) < nl
             /\ \/ inet_aton(r.node, c.long) # Invalid /\ htonl(inet_aton(r.node, c.long)) = c.sa.addr
                \/ r.node \in ToSet(c.names)
  <2>1. n = ln
    <3>. HIDE DEF ln, nl, none
    <3>. QED
      BY <1>3, <1>5
  <2>2. ln.status = "ok" /\ r.node = ln.text
    BY <1>2, <1>4, <2>1, Zenon
  <2>. DEFINE a == c.sa.addr
              fl == c.flags
              names == c.names
              x == ln.text
  <2>3. a \in In_addr /\ names \in Seq(Seq(STRING)) /\ nl \in Nat
    BY <1>3, <1>4, Zenon
  <2>4. Len(x) < nl /\ (x \in ToSet(names) \/ x = inet_ntoa(a))
    <3>. HIDE DEF a, fl, names, nl
    <3>1. NodeRight(a, nl, fl, names)
      BY <2>3, NodeIs
    <3>. QED
      BY <2>2, <3>1, Zenon DEF NodeRight, a, fl, names
  <2>. DEFINE l == c.long
  <2>5. x = inet_ntoa(a) => inet_aton(x, l) # Invalid /\ htonl(inet_aton(x, l)) = a
    <3>1. l \in Nat /\ AddrBits <= l
      BY <1>3, Zenon
    <3>. HIDE DEF a, l, x
    <3>. QED
      BY <2>3, <3>1, AtonNtoa
  <2>. QED
    BY <2>2, <2>4, <2>5, Zenon
<1>6. ASSUME sl > 0, ~ Clipped
      PROVE  /\ Len(r.service) < sl
             /\ gai_service(r.service, {},
                  IF "NI_DGRAM" \in c.flags THEN "dgram" ELSE "stream").port = c.sa.port
  <2>1. s = ls
    <3>. HIDE DEF ls, sl, none
    <3>. QED
      BY <1>3, <1>6
  <2>2. ls.status = "ok" /\ r.service = ls.text
    BY <1>2, <1>4, <2>1, Zenon
  <2>. DEFINE number == c.sa.port
              fl == c.flags
              x == ls.text
  <2>3. number \in 0 .. MaxPort /\ sl \in Nat /\ call.long \in Nat /\ PortBits < call.long
    BY <1>3, <1>4, Zenon
  <2>4. Fills(number, sl, fl)
    BY <1>6, Zenon DEF Clipped, Fills
  <2>5. /\ Len(x) < sl
        /\ gai_service(x, {}, IF "NI_DGRAM" \in fl THEN "dgram" ELSE "stream").port = number
    <3>. HIDE DEF number, fl, sl
    <3>1. ServiceRight(number, sl, fl)
      BY <2>3, <2>4, ServiceBack
    <3>. QED
      BY <2>2, <3>1, Zenon DEF ServiceRight, number, fl
  <2>. QED
    BY <2>2, <2>5, Zenon
<1>. QED
  BY <1>5, <1>6, Zenon DEF r

(* getnameinfo fills each buffer with a whole name and its nul or reports  *)
(* an error, but for a clipped port, and a numeric answer is read back as  *)
(* the same address and port.                                              *)
THEOREM NamesAreWhole == Spec => []NamesWhole
PROOF
<1>1. Answered => NamesWhole
  <2>. SUFFICES ASSUME Answered, pc = "done", call.fn = "getnameinfo", result.status = "ok"
                PROVE  NamesWhole
    BY DEF NamesWhole
  <2>1. result = getnameinfo(call) /\ call \in Calls
    BY DEF Answered, Asked, Answer
  <2>2. getnameinfo(call).status = "ok"
    BY <2>1, Zenon
  <2>. QED
    BY <2>1, <2>2, NamesRight, Zenon DEF NamesWhole
<1>. QED
  BY <1>1, AnsweredAlways, PTL

-----------------------------------------------------------------------------
(* Reading every form of an address.                                       *)

(* The digits above nine.                                                  *)
Letters == {"A", "a", "B", "b", "C", "c", "D", "d", "E", "e", "F", "f"}

(* Each letter is of one numeral, too.                                     *)
LEMMA LetterIs ==
  /\ \A i \in 1 .. 16 : "A" \in Numeral[i] <=> i = 11
  /\ \A i \in 1 .. 16 : "a" \in Numeral[i] <=> i = 11
  /\ \A i \in 1 .. 16 : "B" \in Numeral[i] <=> i = 12
  /\ \A i \in 1 .. 16 : "b" \in Numeral[i] <=> i = 12
  /\ \A i \in 1 .. 16 : "C" \in Numeral[i] <=> i = 13
  /\ \A i \in 1 .. 16 : "c" \in Numeral[i] <=> i = 13
  /\ \A i \in 1 .. 16 : "D" \in Numeral[i] <=> i = 14
  /\ \A i \in 1 .. 16 : "d" \in Numeral[i] <=> i = 14
  /\ \A i \in 1 .. 16 : "E" \in Numeral[i] <=> i = 15
  /\ \A i \in 1 .. 16 : "e" \in Numeral[i] <=> i = 15
  /\ \A i \in 1 .. 16 : "F" \in Numeral[i] <=> i = 16
  /\ \A i \in 1 .. 16 : "f" \in Numeral[i] <=> i = 16
PROOF
  BY DEF Numeral

(* A digit of a base has a value below it.                                 *)
LEMMA DigitValue ==
  ASSUME NEW base \in 1 .. 16, NEW c, Digit(c, base)
  PROVE  Value(c) \in 0 .. base - 1
PROOF
<1>1. PICK i \in 1 .. base : c \in Numeral[i]
  BY DEF Digit
<1>2. i \in 1 .. 16
  OBVIOUS
<1>3. c \in Figures \cup Letters
  <2>1. \A k \in 1 .. 16 : Numeral[k] \subseteq Figures \cup Letters
    BY DEF Numeral, Figures, Letters
  <2>. QED
    BY <1>1, <1>2, <2>1
<1>4. \E n \in 1 .. 16 : \A k \in 1 .. 16 : c \in Numeral[k] <=> k = n
  <2>1. CASE c \in Figures
    BY <2>1, NumeralIs DEF Figures
  <2>2. CASE c \in Letters
    BY <2>2, LetterIs DEF Letters
  <2>. QED
    BY <1>3, <2>1, <2>2
<1>5. (CHOOSE k \in 1 .. 16 : c \in Numeral[k]) = i
  BY <1>1, <1>2, <1>4
<1>6. Value(c) = i - 1
  BY <1>5, Zenon DEF Value
<1>. QED
  BY <1>6

(* The number of the first digits of d, digit by digit.                    *)
Horner(d, b, H) == H[0] = 0 /\ \A k \in 1 .. Len(d) : H[k] = b * H[k - 1] + Value(d[k])

(* The digits up to j are digits of the base.                              *)
Valid(d, b, j) == \A k \in 1 .. j : Digit(d[k], b)

(* There is one.                                                           *)
LEMMA HornerExists ==
  ASSUME NEW S, NEW d \in Seq(S), NEW b
  PROVE  \E H : Horner(d, b, H)
PROOF
<1>. DEFINE op == <<"horner", b>>
            n == Len(d)
<1>1. \A a, x : Apply(op, a, x) = b * a + Value(x)
  <2>1. op[1] = "horner" /\ op[2] = b
    OBVIOUS
  <2>2. op[1] # "held" /\ op[1] # "read" /\ op[1] # "split" /\ op[1] # "take" /\ op[1] # "add"
    BY <2>1
  <2>. HIDE DEF op
  <2>. QED
    BY <2>1, <2>2 DEF Apply
<1>0. n \in Nat
  OBVIOUS
<1>. HIDE DEF op, n
<1>2. PICK g : Folded(op, 0, d, n, g)
  BY <1>0, FoldedExists
<1>3. PICK H : Walk(op, 0, d, n, H)
  BY <1>0, <1>2, FoldedWalks
<1>4. Horner(d, b, H)
  BY <1>1, <1>3 DEF Walk, Horner, n
<1>. QED
  BY <1>4

(* Its numbers, as long as the digits are valid.                           *)
LEMMA HornerNat ==
  ASSUME NEW S, NEW d \in Seq(S), NEW b \in 1 .. 16, NEW H, Horner(d, b, H)
  PROVE  \A j \in 0 .. Len(d) : Valid(d, b, j) => H[j] \in Nat
PROOF
<1>. DEFINE n == Len(d)
            T == {j \in Nat : j <= n /\ Valid(d, b, j) => H[j] \in Nat}
<1>0. n \in Nat
  OBVIOUS
<1>h. H[0] = 0 /\ \A k \in 1 .. n : H[k] = b * H[k - 1] + Value(d[k])
  BY DEF Horner
<1>. HIDE DEF n
<1>1. 0 \in T
  BY <1>h
<1>2. ASSUME NEW j \in T PROVE j + 1 \in T
  <2>1. ASSUME j + 1 <= n, Valid(d, b, j + 1) PROVE H[j + 1] \in Nat
    <3>1. j \in Nat /\ j <= n /\ j + 1 \in 1 .. n /\ (j + 1) - 1 = j /\ j + 1 \in 1 .. j + 1
      BY <1>0, <2>1
    <3>2. Valid(d, b, j) /\ Digit(d[j + 1], b)
      BY <2>1, <3>1 DEF Valid
    <3>. DEFINE h == H[j]
                v == Value(d[j + 1])
    <3>3. h \in Nat
      BY <3>1, <3>2
    <3>4. v \in 0 .. b - 1
      BY <3>2, DigitValue
    <3>5. H[j + 1] = b * h + v
      BY <1>h, <3>1
    <3>. HIDE DEF h, v
    <3>6. b * h + v \in Nat
      BY <3>3, <3>4
    <3>. QED
      BY <3>5, <3>6
  <2>. QED
    BY <2>1
<1>3. T \subseteq Nat
  OBVIOUS
<1>. HIDE DEF T
<1>4. \A j \in Nat : j \in T
  BY <1>1, <1>2, <1>3, Induction
<1>. QED
  BY <1>0, <1>4 DEF T, n

(* The positional number of a text is its Horner number.                   *)
Placed(d, b) == FoldLeftDomain(LAMBDA sum, k : sum + Value(d[k]) * Power(b)[Len(d) - k], 0, d)

(* Both ways of reading digits give the same number.                       *)
LEMMA PlacedHorner ==
  ASSUME NEW S, NEW d \in Seq(S), NEW b \in 1 .. 16, NEW H, Horner(d, b, H), Valid(d, b, Len(d))
  PROVE  Placed(d, b) = H[Len(d)]
PROOF
<1>. DEFINE n == Len(d)
            q == [i \in DOMAIN d |-> i]
            op == <<"place", d, b>>
            P == Power(b)
            Plus(sum, k) == sum + Value(d[k]) * P[n - k]
            Folds(g) == g = [s \in SUBSET (DOMAIN q) |->
                               IF s = {} THEN 0 ELSE Plus(g[s \ {Max(s)}], q[Max(s)])]
            g == CHOOSE g : Folds(g)
<1>q. q \in Seq(Nat) /\ n \in Nat /\ Len(q) = n /\ \A k \in 1 .. n : q[k] = k
  OBVIOUS
<1>d. DOMAIN q = 1 .. n
  OBVIOUS
<1>1. Placed(d, b) = g[DOMAIN q]
  BY Zenon DEF Placed, FoldLeftDomain, FoldLeft, MapThenFoldSet
<1>2. \A a, x : Apply(op, a, x) = Plus(a, x)
  <2>1. op[1] = "place" /\ op[2] = d /\ op[3] = b
    OBVIOUS
  <2>2. /\ op[1] # "held" /\ op[1] # "read" /\ op[1] # "split" /\ op[1] # "take" /\ op[1] # "add"
        /\ op[1] # "horner"
    BY <2>1
  <2>3. \A a, x : Apply(op, a, x) = a + Value(op[2][x]) * Power(op[3])[Len(op[2]) - x]
    <3>. HIDE DEF op
    <3>. QED
      BY <2>1, <2>2 DEF Apply
  <2>. QED
    BY <2>1, <2>3, Zenon
<1>p. P[0] = 1 /\ \A m \in Nat : P[m + 1] = b * P[m]
  <2>1. b \in Nat
    OBVIOUS
  <2>2. PowerOf(b, Power(b))
    BY <2>1, PowerIs
  <2>. QED
    BY <2>2, Zenon DEF PowerOf
<1>n. \A m \in Nat : P[m] \in Nat
  <2>. DEFINE T == {m \in Nat : P[m] \in Nat}
  <2>. HIDE DEF P
  <2>1. 0 \in T
    BY <1>p
  <2>2. ASSUME NEW m \in T PROVE m + 1 \in T
    <3>. DEFINE x == P[m]
    <3>1. x \in Nat /\ m + 1 \in Nat /\ P[m + 1] = b * x
      BY <1>p
    <3>. HIDE DEF x
    <3>2. b * x \in Nat
      BY <3>1
    <3>. QED
      BY <3>1, <3>2
  <2>3. T \subseteq Nat
    OBVIOUS
  <2>. HIDE DEF T
  <2>4. \A m \in Nat : m \in T
    BY <2>1, <2>2, <2>3, Induction
  <2>. QED
    BY <2>4 DEF T
<1>. HIDE DEF op, q, Plus, n, P
<1>3. \A f : Folded(op, 0, q, n, f) <=> Folds(f)
  BY <1>d, <1>2 DEF Folded
<1>. HIDE DEF Folds
<1>4. g = CHOOSE f : Folded(op, 0, q, n, f)
  BY <1>3, Zenon
<1>. HIDE DEF g
<1>5. Ends(op, 0, q, g[1 .. n])
  BY <1>q, <1>4, FoldEnds
<1>6. PICK W : Walk(op, 0, q, n, W) /\ W[n] = g[1 .. n]
  BY <1>5, <1>q DEF Ends
<1>7. W[0] = 0 /\ \A k \in 1 .. n : W[k] = W[k - 1] + Value(d[k]) * P[n - k]
  <2>1. W[0] = 0 /\ \A k \in 1 .. n : W[k] = Apply(op, W[k - 1], q[k])
    BY <1>6, Zenon DEF Walk
  <2>2. \A k \in 1 .. n : W[k] = Plus(W[k - 1], k)
    BY <1>2, <1>q, <2>1
  <2>. QED
    BY <2>1, <2>2 DEF Plus
<1>h. H[0] = 0 /\ \A k \in 1 .. n : H[k] = b * H[k - 1] + Value(d[k])
  BY DEF Horner, n
<1>8. \A j \in 0 .. n : H[j] \in Nat
  <2>1. \A j \in 0 .. n : Valid(d, b, j)
    BY <1>q DEF Valid, n
  <2>. QED
    BY <2>1, HornerNat DEF n
<1>9. \A k \in 1 .. n : Value(d[k]) \in Nat
  <2>1. ASSUME NEW k \in 1 .. n PROVE Value(d[k]) \in Nat
    <3>1. Digit(d[k], b)
      BY DEF Valid, n
    <3>2. Value(d[k]) \in 0 .. b - 1
      BY <3>1, DigitValue
    <3>. QED
      BY <3>2
  <2>. QED
    BY <2>1
<1>. DEFINE T == {j \in Nat : j <= n => W[j] = P[n - j] * H[j]}
<1>10. 0 \in T
  BY <1>7, <1>h, <1>n, <1>q
<1>11. ASSUME NEW j \in T PROVE j + 1 \in T
  <2>1. ASSUME j + 1 <= n PROVE W[j + 1] = P[n - (j + 1)] * H[j + 1]
    <3>. DEFINE m == n - (j + 1)
                i == j + 1
                x == P[m]
                v == Value(d[i])
                h == H[j]
    <3>1. /\ j \in Nat /\ j <= n /\ i \in 1 .. n /\ i - 1 = j /\ j \in 0 .. n
          /\ m \in Nat /\ n - j = m + 1 /\ n - i = m
      BY <1>q, <2>1
    <3>2. W[j] = P[m + 1] * h /\ P[m + 1] = b * x
      BY <1>p, <3>1
    <3>3. x \in Nat /\ v \in Nat /\ h \in Nat
      BY <1>8, <1>9, <1>n, <3>1
    <3>4. W[i] = W[j] + v * x /\ H[i] = b * h + v
      BY <1>7, <1>h, <3>1
    <3>. HIDE DEF m, i, x, v, h
    <3>5. (b * x) * h + v * x = x * (b * h + v)
      BY <3>3
    <3>6. W[i] = x * H[i]
      BY <3>2, <3>4, <3>5
    <3>. QED
      BY <3>6 DEF i, x, m
  <2>. QED
    BY <2>1
<1>12. T \subseteq Nat
  OBVIOUS
<1>. HIDE DEF T
<1>13. n \in T
  BY <1>10, <1>11, <1>12, <1>q, Induction
<1>14. W[n] = H[n]
  <2>1. W[n] = P[n - n] * H[n] /\ n - n = 0 /\ H[n] \in Nat
    BY <1>8, <1>13, <1>q DEF T
  <2>. DEFINE h == H[n]
  <2>2. W[n] = 1 * h /\ h \in Nat
    BY <1>p, <2>1
  <2>. HIDE DEF h
  <2>3. W[n] = h
    BY <2>2
  <2>. QED
    BY <2>3 DEF h
<1>. QED
  BY <1>1, <1>6, <1>14, <1>d DEF n

(* The bases numbers are written in.                                       *)
Bases == {8, 10, 16}

(* The bases of powers of two divide the number of addresses.              *)
LEMMA AddrsOf16 == \E m \in Nat \ {0} : MaxAddr = 16 * m - 1
PROOF
<1>. DEFINE w == AddrBits - 4
            m == Pow2[w]
<1>1. w \in Nat /\ AddrBits = (((w + 1) + 1) + 1) + 1
  BY WidthAssumption DEF AddrBits
<1>2. m \in Nat \ {0}
  BY <1>1, Pow2Nat
<1>. HIDE DEF w
<1>3. Pow2[w + 1] = 2 * m
  BY <1>1, Pow2Is
<1>4. Pow2[(w + 1) + 1] = 2 * (2 * m)
  <2>1. w + 1 \in Nat
    BY <1>1
  <2>. QED
    BY <1>3, <2>1, Pow2Is
<1>5. Pow2[((w + 1) + 1) + 1] = 2 * (2 * (2 * m))
  <2>1. (w + 1) + 1 \in Nat
    BY <1>1
  <2>. QED
    BY <1>4, <2>1, Pow2Is
<1>6. Pow2[(((w + 1) + 1) + 1) + 1] = 2 * (2 * (2 * (2 * m)))
  <2>1. ((w + 1) + 1) + 1 \in Nat
    BY <1>1
  <2>. QED
    BY <1>5, <2>1, Pow2Is
<1>. HIDE DEF m
<1>7. MaxAddr = 2 * (2 * (2 * (2 * m))) - 1
  BY <1>1, <1>6, Zenon DEF MaxAddr
<1>8. 2 * (2 * (2 * (2 * m))) = 16 * m
  BY <1>2
<1>. QED
  BY <1>2, <1>7, <1>8

(* Longs that are wider than an address have room for one more digit.      *)
LEMMA WiderLong ==
  ASSUME NEW long \in Nat, AddrBits < long
  PROVE  MaxAddr + 9 < Pow2[long]
PROOF
<1>. DEFINE p == Pow2[AddrBits]
            q == Pow2[AddrBits + 1]
            r == Pow2[long]
<1>1. AddrBits \in Nat /\ AddrBits + 1 \in Nat /\ AddrBits + 1 <= long
  BY WidthAssumption DEF AddrBits
<1>2. p \in Nat /\ q = 2 * p /\ q <= r /\ r \in Nat /\ MaxAddr = p - 1
  BY <1>1, Pow2Nat, Pow2Is, Pow2Grows DEF MaxAddr
<1>3. PICK m \in Nat \ {0} : MaxAddr = 16 * m - 1
  BY AddrsOf16
<1>. HIDE DEF p, q, r
<1>4. MaxAddr + 9 < r
  BY <1>2, <1>3
<1>. QED
  BY <1>4 DEF r

(* Taking one more digit of a number that an address can hold.             *)
TakeRight(h, c, b, long) ==
  LET x == b * h + Value(c)
      t == Take(h, c, b, long)
  IN \/ x <= MaxAddr /\ t = x
     \/ x > MaxAddr /\ (t = Invalid \/ (t \in Nat /\ t > MaxAddr) \/ (b = 10 /\ long = AddrBits))

(* It is right unless a long of 32 bits wraps around.                      *)
LEMMA TakeIs ==
  ASSUME NEW long \in Nat, AddrBits <= long, NEW b \in Bases, NEW h \in 0 .. MaxAddr,
         NEW c, Digit(c, b)
  PROVE  TakeRight(h, c, b, long)
PROOF
<1>. DEFINE v == Value(c)
            r == Pow2[long]
            q == MaxAddr
            x == b * h + v
            t == Take(h, c, b, long)
            y == h * b + v
<1>1. b \in 1 .. 16 /\ b \in Nat
  BY DEF Bases
<1>2. v \in 0 .. b - 1
  BY <1>1, DigitValue
<1>3. q \in Nat /\ r \in Nat \ {0} /\ q < r
  BY OctetsFit
<1>4. t = IF h = Invalid \/ h > q \div b \/ ~ Digit(c, b) THEN Invalid ELSE (h * b + v) % r
  BY DEF Take, TooLarge
<1>5. PICK m \in Nat \ {0} : q = 16 * m - 1
  BY AddrsOf16
<1>6. AddrBits < long => q + 9 < r
  BY WiderLong
<1>7. AddrBits \in Nat
  BY WidthAssumption DEF AddrBits
<1>8. h \in Nat /\ h # Invalid
  BY <1>3 DEF Invalid
<1>. HIDE DEF v, r, q
<1>9. x \in Nat /\ y = x
  BY <1>1, <1>2, <1>8
<1>. HIDE DEF t
<1>10. CASE h > q \div b
  <2>1. t = Invalid
    BY <1>4, <1>10
  <2>2. b * h > q
    BY <1>1, <1>3, <1>8, <1>10 DEF Bases
  <2>3. x > q
    BY <1>1, <1>2, <1>3, <1>8, <2>2 DEF Bases
  <2>. QED
    BY <2>1, <2>3 DEF TakeRight, t, v, q
<1>11. CASE ~ (h > q \div b)
  <2>1. t = y % r
    BY <1>4, <1>8, <1>11
  <2>2. b * h <= q
    BY <1>1, <1>3, <1>8, <1>11 DEF Bases
  <2>3. x <= q + b - 1
    BY <1>1, <1>2, <1>3, <1>8, <2>2 DEF Bases
  <2>4. x < r => t = x
    <3>. HIDE DEF x, y
    <3>. QED
      BY <1>3, <1>9, <2>1
  <2>5. CASE x <= q
    <3>1. x < r
      BY <1>3, <1>9, <2>5
    <3>2. t = x
      BY <2>4, <3>1
    <3>. QED
      BY <2>5, <3>2 DEF TakeRight, t, v, q
  <2>6. CASE x > q
    <3>1. b = 10
      BY <1>2, <1>3, <1>5, <1>8, <2>2, <2>6 DEF Bases
    <3>2. CASE long = AddrBits
      BY <2>6, <3>1, <3>2 DEF TakeRight, t, v, q
    <3>3. CASE AddrBits < long
      <4>1. x < r
        BY <1>3, <1>6, <1>9, <2>3, <3>1, <3>3
      <4>2. t \in Nat /\ t > q
        BY <1>9, <2>4, <2>6, <4>1
      <4>. QED
        BY <2>6, <4>2 DEF TakeRight, t, v, q
    <3>. QED
      BY <1>7, <3>2, <3>3
  <2>. QED
    BY <1>3, <1>9, <2>5, <2>6
<1>. QED
  BY <1>10, <1>11

(* What has been read after j digits: their number, or no number of an     *)
(* address; but a long of 32 bits may have wrapped around.                 *)
Reads(d, b, long, H, T, j) ==
  \/ Valid(d, b, j) /\ H[j] <= MaxAddr /\ T[j] = H[j]
  \/ /\ ~ (Valid(d, b, j) /\ H[j] <= MaxAddr)
     /\ T[j] = Invalid \/ (T[j] \in Nat /\ T[j] > MaxAddr)
  \/ Valid(d, b, j) /\ H[j] > MaxAddr /\ b = 10 /\ long = AddrBits

(* It remains so.                                                          *)
LEMMA ReadsNext ==
  ASSUME NEW S, NEW d \in Seq(S), NEW b \in Bases, NEW long \in Nat, AddrBits <= long,
         NEW H, Horner(d, b, H), NEW T, NEW j \in 1 .. Len(d), Reads(d, b, long, H, T, j - 1),
         T[j] = Take(T[j - 1], d[j], b, long)
  PROVE  Reads(d, b, long, H, T, j)
PROOF
<1>. DEFINE i == j - 1
            c == d[j]
            h == H[i]
            t == T[i]
            v == Value(c)
            x == b * h + v
            ok == Digit(c, b)
            u == Take(t, c, b, long)
            was == Valid(d, b, i)
            is == Valid(d, b, j)
<1>0. i \in 0 .. Len(d) /\ i \in Nat /\ b \in 1 .. 16 /\ b \in Nat /\ MaxAddr \in Nat
  BY OctetsFit DEF Bases
<1>1. is <=> was /\ ok
  <2>1. \A k \in 1 .. j : k \in 1 .. i \/ k = j
    OBVIOUS
  <2>2. j \in 1 .. j /\ \A k \in 1 .. i : k \in 1 .. j
    OBVIOUS
  <2>. HIDE DEF i
  <2>. QED
    BY <2>1, <2>2 DEF Valid
<1>2. was => h \in Nat
  BY <1>0, HornerNat
<1>3. H[j] = x
  BY DEF Horner
<1>4. T[j] = u
  OBVIOUS
<1>5. ok => v \in 0 .. b - 1
  BY <1>0, DigitValue
<1>6. \/ was /\ h <= MaxAddr /\ t = h
      \/ ~ (was /\ h <= MaxAddr) /\ (t = Invalid \/ (t \in Nat /\ t > MaxAddr))
      \/ was /\ h > MaxAddr /\ b = 10 /\ long = AddrBits
  BY DEF Reads
<1>7. u = Invalid \/ (ok /\ t # Invalid /\ ~ TooLarge(t, b))
  BY DEF Take
<1>8. was /\ ok => x \in Nat /\ x >= h
  <2>. HIDE DEF h, v
  <2>1. ASSUME h \in Nat, v \in Nat PROVE b * h + v \in Nat /\ b * h + v >= h
    BY <2>1 DEF Bases
  <2>. QED
    BY <1>0, <1>2, <1>5, <2>1
<1>. HIDE DEF is, was, ok, x, u, i, t, h
<1>9. SUFFICES \/ is /\ x <= MaxAddr /\ u = x
               \/ ~ (is /\ x <= MaxAddr) /\ (u = Invalid \/ (u \in Nat /\ u > MaxAddr))
               \/ is /\ x > MaxAddr /\ b = 10 /\ long = AddrBits
  BY <1>3, <1>4 DEF Reads, is
<1>10. CASE was /\ h <= MaxAddr /\ t = h
  <2>1. CASE ok
    <3>1. h \in 0 .. MaxAddr
      BY <1>0, <1>2, <1>10
    <3>2. TakeRight(h, c, b, long)
      BY <2>1, <3>1, TakeIs DEF ok
    <3>3. \/ x <= MaxAddr /\ u = x
          \/ x > MaxAddr /\ (u = Invalid \/ (u \in Nat /\ u > MaxAddr) \/ (b = 10 /\ long = AddrBits))
      BY <1>10, <3>2, Zenon DEF TakeRight, u, x
    <3>. QED
      BY <1>0, <1>1, <1>8, <1>10, <2>1, <3>3
  <2>2. CASE ~ ok
    BY <1>1, <1>7, <2>2
  <2>. QED
    BY <2>1, <2>2
<1>11. CASE ~ (was /\ h <= MaxAddr) /\ (t = Invalid \/ (t \in Nat /\ t > MaxAddr))
  <2>1. u = Invalid
    <3>1. ASSUME t \in Nat, t > MaxAddr PROVE TooLarge(t, b)
      BY <1>0, <3>1 DEF TooLarge, Bases
    <3>. QED
      BY <1>7, <1>11, <3>1
  <2>2. ~ (is /\ x <= MaxAddr)
    BY <1>0, <1>1, <1>2, <1>8, <1>11
  <2>. QED
    BY <2>1, <2>2
<1>12. CASE was /\ h > MaxAddr /\ b = 10 /\ long = AddrBits
  <2>1. CASE ok
    BY <1>0, <1>1, <1>2, <1>8, <1>12, <2>1
  <2>2. CASE ~ ok
    BY <1>1, <1>7, <2>2
  <2>. QED
    BY <2>1, <2>2
<1>. QED
  BY <1>6, <1>10, <1>11, <1>12

(* What a part of an address is read as.                                   *)
LEMMA TakenReads ==
  ASSUME NEW S, NEW d \in Seq(S), NEW b \in Bases, NEW long \in Nat, AddrBits <= long,
         NEW H, Horner(d, b, H)
  PROVE  \E T : T[Len(d)] = Taken(d, b, long) /\ Reads(d, b, long, H, T, Len(d))
PROOF
<1>. DEFINE op == <<"take", b, long>>
            n == Len(d)
            v == Taken(d, b, long)
<1>0. n \in Nat /\ MaxAddr \in Nat
  BY OctetsFit
<1>1. Ends(op, 0, d, v)
  BY TakenEnds
<1>2. \A a, x : Apply(op, a, x) = Take(a, x, b, long)
  <2>1. op[1] = "take" /\ op[2] = b /\ op[3] = long
    OBVIOUS
  <2>2. op[1] # "held" /\ op[1] # "read" /\ op[1] # "split"
    BY <2>1
  <2>. HIDE DEF op
  <2>. QED
    BY <2>1, <2>2 DEF Apply
<1>. HIDE DEF op, v
<1>3. PICK T : Walk(op, 0, d, n, T) /\ T[n] = v
  BY <1>1 DEF Ends
<1>4. T[0] = 0 /\ \A k \in 1 .. n : T[k] = Take(T[k - 1], d[k], b, long)
  BY <1>2, <1>3 DEF Walk
<1>. DEFINE G == {j \in Nat : j <= n => Reads(d, b, long, H, T, j)}
<1>5. 0 \in G
  <2>1. Valid(d, b, 0) /\ H[0] = 0
    BY DEF Valid, Horner
  <2>. QED
    BY <1>0, <1>4, <2>1 DEF Reads
<1>6. ASSUME NEW j \in G PROVE j + 1 \in G
  <2>1. ASSUME j + 1 <= n PROVE Reads(d, b, long, H, T, j + 1)
    <3>. DEFINE i == j + 1
    <3>1. i \in 1 .. n /\ i - 1 = j /\ j <= n
      BY <1>0, <2>1
    <3>2. Reads(d, b, long, H, T, i - 1)
      BY <3>1
    <3>. HIDE DEF i, G
    <3>3. Reads(d, b, long, H, T, i)
      BY <1>4, <3>1, <3>2, ReadsNext
    <3>. QED
      BY <3>3 DEF i
  <2>. QED
    BY <2>1
<1>7. G \subseteq Nat
  OBVIOUS
<1>. HIDE DEF G
<1>8. n \in G
  BY <1>0, <1>5, <1>6, <1>7, Induction
<1>. QED
  BY <1>0, <1>3, <1>8 DEF G, v

(* Texts of one and of two characters.                                     *)
LEMMA ShortTexts ==
  ASSUME NEW S, NEW c \in S, NEW e \in S
  PROVE  /\ <<c>> \in Seq(S) /\ Len(<<c>>) = 1 /\ <<c>>[1] = c
         /\ <<c, e>> \in Seq(S) /\ Len(<<c, e>>) = 2 /\ <<c, e>>[1] = c /\ <<c, e>>[2] = e
PROOF
  OBVIOUS

(* The forms of a part.                                                    *)
LEMMA PartForms ==
  ASSUME NEW t \in Seq(STRING)
  PROVE  /\ Base(t) \in Bases /\ Digits(t) \in Seq(STRING)
         /\ Digits(t) = << >> => \/ Base(t) = 10 /\ t = << >>
                                 \/ Base(t) = 8 /\ t = <<"0">>
                                 \/ Base(t) = 16 /\ t = <<"0", "x">>
PROOF
<1>. DEFINE b == Base(t)
            l == Len(t)
            from == CASE b = 16 -> 3 [] b = 8 -> 2 [] OTHER -> 1
            d == Digits(t)
<1>1. l \in Nat /\ \A k \in 1 .. l : t[k] \in STRING
  BY ElementOfSeq
<1>2. b \in Bases /\ from \in 1 .. 3
  BY DEF Base, Bases
<1>3. d = SubSeq(t, from, l)
  BY DEF Digits
<1>4. (t = << >> <=> l = 0)
  BY EmptySeq
<1>5. /\ b = 16 => l > 1 /\ t[1] = "0" /\ t[2] = "x"
      /\ b = 8 => l >= 1 /\ t[1] = "0"
      /\ b = 16 => from = 3
      /\ b = 8 => from = 2
      /\ b = 10 => from = 1
  <2>1. /\ b = 16 => t # << >> /\ l > 1 /\ t[1] = "0" /\ t[2] = "x"
        /\ b = 8 => t # << >> /\ t[1] = "0"
    BY DEF Base
  <2>2. /\ b = 16 => from = 3
        /\ b = 8 => from = 2
        /\ b = 10 => from = 1
    OBVIOUS
  <2>. QED
    BY <1>1, <1>4, <2>1, <2>2
<1>. HIDE DEF b, l, from, d
<1>6. /\ d \in Seq(STRING)
      /\ Len(d) = IF from <= l THEN l - from + 1 ELSE 0
  <2>1. from \in Int /\ l \in Int /\ \A k \in from .. l : t[k] \in STRING
    BY <1>1, <1>2
  <2>2. /\ SubSeq(t, from, l) \in Seq(STRING)
        /\ Len(SubSeq(t, from, l)) = IF from <= l THEN l - from + 1 ELSE 0
    BY <2>1, SubSeqProperties
  <2>. QED
    BY <1>3, <2>2, Zenon
<1>7. ASSUME d = << >>
      PROVE  \/ b = 10 /\ t = << >>
             \/ b = 8 /\ t = <<"0">>
             \/ b = 16 /\ t = <<"0", "x">>
  <2>1. Len(d) = 0
    BY <1>7
  <2>2. l < from
    BY <1>1, <1>2, <1>6, <2>1
  <2>3. CASE b = 10
    BY <1>1, <1>4, <1>5, <2>2, <2>3
  <2>4. CASE b = 8
    <3>1. l = 1 /\ t[1] = "0"
      BY <1>1, <1>5, <2>2, <2>4
    <3>. DEFINE c == "0"
                z == <<c>>
    <3>2. t[1] = c /\ c \in STRING
      BY <1>1, <3>1
    <3>. HIDE DEF c
    <3>3. z \in Seq(STRING) /\ Len(z) = 1 /\ z[1] = c
      BY <3>2, ShortTexts, Zenon
    <3>. HIDE DEF z
    <3>4. t = z
      BY <3>1, <3>2, <3>3, SeqEqual DEF l
    <3>. QED
      BY <2>4, <3>4 DEF z, c
  <2>5. CASE b = 16
    <3>1. l = 2 /\ t[1] = "0" /\ t[2] = "x"
      BY <1>1, <1>5, <2>2, <2>5
    <3>. DEFINE c == "0"
                e == "x"
                z == <<c, e>>
    <3>2. t[1] = c /\ t[2] = e /\ c \in STRING /\ e \in STRING
      BY <1>1, <3>1
    <3>. HIDE DEF c, e
    <3>3. z \in Seq(STRING) /\ Len(z) = 2 /\ z[1] = c /\ z[2] = e
      BY <3>2, ShortTexts, Zenon
    <3>. HIDE DEF z
    <3>4. t = z
      BY <3>1, <3>2, <3>3, SeqEqual DEF l
    <3>. QED
      BY <2>5, <3>4 DEF z, c, e
  <2>. QED
    BY <1>2, <2>3, <2>4, <2>5 DEF Bases
<1>. QED
  BY <1>2, <1>6, <1>7 DEF b, d

(* A part denotes a number that an address can hold, or a larger one in    *)
(* base 10.                                                                *)
Fits(t) == IsNumber(t) /\ Number(t) <= MaxAddr
Wide(t) == Base(t) = 10 /\ IsNumber(t) /\ Number(t) > MaxAddr

(* octet reads it, and no other part but the exceptions.                   *)
OctetRight(t, last, long) ==
  LET o == octet(t, last, long)
  IN /\ IsNumber(t) => Number(t) \in Nat
     /\ \/ Fits(t) /\ o = Number(t)
        \/ ~ Fits(t) /\ (o = Invalid \/ (o \in Nat /\ o > MaxAddr))
        \/ last /\ t = <<"0", "x">> /\ ~ IsNumber(t)
        \/ long = AddrBits /\ Wide(t)

(* So it does.                                                             *)
LEMMA OctetIs ==
  ASSUME NEW t \in Seq(STRING), NEW last \in BOOLEAN, NEW long \in Nat, AddrBits <= long
  PROVE  OctetRight(t, last, long)
PROOF
<1>. DEFINE b == Base(t)
            d == Digits(t)
            n == Len(d)
            o == octet(t, last, long)
            v == Taken(d, b, long)
            N == Number(t)
            num == IsNumber(t)
            ok == Valid(d, b, n)
            zero == <<"0">>
            bare == <<"0", "x">>
<1>1. /\ b \in Bases /\ d \in Seq(STRING) /\ n \in Nat
      /\ d = << >> => \/ b = 10 /\ t = << >>
                      \/ b = 8 /\ t = zero
                      \/ b = 16 /\ t = bare
  BY PartForms
<1>2. o = IF d = << >> /\ ~ (b = 8 \/ (b = 16 /\ last)) THEN Invalid ELSE v
  BY Zenon DEF octet, Taken
<1>3. N = Placed(d, b)
  BY Zenon DEF Number, Placed
<1>4. num <=> (d # << >> \/ t = zero) /\ ok
  <2>1. DOMAIN d = 1 .. n
    BY <1>1
  <2>2. num <=> (d # << >> \/ t = zero) /\ \A k \in DOMAIN d : Digit(d[k], b)
    BY Zenon DEF IsNumber
  <2>. QED
    BY <2>1, <2>2, Zenon DEF Valid
<1>z. zero # << >> /\ bare # << >> /\ zero # bare /\ 8 # 10 /\ 8 # 16 /\ 10 # 16
  OBVIOUS
<1>m. MaxAddr \in Nat
  BY OctetsFit
<1>. HIDE DEF b, d, zero, bare, n, N, num, v, o
<1>5. PICK H : Horner(d, b, H)
  BY <1>1, HornerExists
<1>6. PICK T : T[n] = v /\ Reads(d, b, long, H, T, n)
  BY <1>1, <1>5, TakenReads DEF v, n
<1>7. ok => H[n] \in Nat /\ N = H[n]
  <2>1. b \in 1 .. 16 /\ n \in 0 .. n
    BY <1>1 DEF Bases
  <2>2. ok => H[n] \in Nat
    BY <1>1, <1>5, <2>1, HornerNat DEF n
  <2>3. ok => Placed(d, b) = H[n]
    BY <1>1, <1>5, <2>1, PlacedHorner DEF n
  <2>. QED
    BY <1>3, <2>2, <2>3
<1>8. \/ ok /\ H[n] <= MaxAddr /\ v = H[n]
      \/ ~ (ok /\ H[n] <= MaxAddr) /\ (v = Invalid \/ (v \in Nat /\ v > MaxAddr))
      \/ ok /\ H[n] > MaxAddr /\ b = 10 /\ long = AddrBits
  BY <1>6 DEF Reads
<1>. HIDE DEF ok
<1>9. num => N \in Nat
  BY <1>4, <1>7
<1>10. \/ num /\ N <= MaxAddr /\ o = N
       \/ ~ (num /\ N <= MaxAddr) /\ (o = Invalid \/ (o \in Nat /\ o > MaxAddr))
       \/ last /\ t = bare /\ ~ num
       \/ long = AddrBits /\ b = 10 /\ num /\ N > MaxAddr
  <2>1. CASE d # << >> \/ t = zero
    <3>1. o = v
      <4>1. d = << >> => b = 8
        BY <1>1, <1>z, <2>1
      <4>. QED
        BY <1>2, <4>1
    <3>2. num <=> ok
      BY <1>4, <2>1
    <3>. QED
      BY <1>7, <1>8, <3>1, <3>2
  <2>2. CASE d = << >> /\ t # zero
    <3>1. ~ num
      BY <1>4, <2>2
    <3>2. CASE b = 10
      BY <1>2, <1>z, <2>2, <3>1, <3>2
    <3>3. CASE b = 16 /\ t = bare
      BY <1>2, <1>z, <2>2, <3>1, <3>3
    <3>. QED
      BY <1>1, <2>2, <3>2, <3>3
  <2>. QED
    BY <2>1, <2>2
<1>. QED
  BY <1>9, <1>10, Zenon DEF OctetRight, Fits, Wide, b, N, num, o, bare

(* The parts of a text are texts, and there is one at least.               *)
LEMMA PartsAre ==
  ASSUME NEW s \in Seq(STRING)
  PROVE  Parts(s) \in Seq(Seq(STRING)) /\ Len(Parts(s)) \in Nat \ {0}
PROOF
<1>. DEFINE op == <<"split">>
            one == << << >> >>
            n == Len(s)
            C == STRING
            R == {p \in Seq(Seq(C)) : Len(p) # 0}
<1>0. n \in Nat /\ \A k \in 1 .. n : s[k] \in C
  BY ElementOfSeq
<1>1. Ends(op, one, s, Parts(s))
  BY PartsEnds
<1>2. \A a, x : Apply(op, a, x) = Split(a, x)
  BY DEF Apply
<1>3. PICK W : Walk(op, one, s, n, W) /\ W[n] = Parts(s)
  BY <1>1 DEF Ends
<1>4. W[0] = one /\ \A k \in 1 .. n : W[k] = Split(W[k - 1], s[k])
  BY <1>2, <1>3 DEF Walk
<1>. HIDE DEF C
<1>5. one \in R
  OBVIOUS
<1>6. ASSUME NEW p \in R, NEW c \in C PROVE Split(p, c) \in R
  <2>. DEFINE l == Len(p)
  <2>1. p \in Seq(Seq(C)) /\ l \in Nat /\ l # 0
    OBVIOUS
  <2>2. CASE c = "."
    <3>1. Split(p, c) = Append(p, << >>)
      BY <2>2 DEF Split
    <3>. DEFINE e == << >>
                Q == Seq(C)
    <3>2. e \in Q /\ p \in Seq(Q)
      BY <2>1
    <3>. HIDE DEF e, Q
    <3>3. Append(p, e) \in Seq(Q) /\ Len(Append(p, e)) = Len(p) + 1
      BY <3>2, AppendProperties
    <3>4. Append(p, e) \in Seq(Q) /\ Len(Append(p, e)) # 0
      BY <2>1, <3>3
    <3>. QED
      BY <3>1, <3>4 DEF e, Q
  <2>3. CASE c # "."
    <3>. DEFINE u == Append(p[l], c)
    <3>1. Split(p, c) = [p EXCEPT ![l] = u]
      BY <2>3 DEF Split
    <3>2. l \in 1 .. l
      BY <2>1
    <3>3. p[l] \in Seq(C)
      BY <2>1, <3>2, ElementOfSeq
    <3>4. u \in Seq(C)
      BY <3>3
    <3>. HIDE DEF u
    <3>5. DOMAIN p = 1 .. l
      BY <2>1
    <3>. DEFINE e == [p EXCEPT ![l] = u]
                Q == Seq(C)
    <3>6. p \in Seq(Q) /\ u \in Q
      BY <2>1, <3>4
    <3>. HIDE DEF Q, l
    <3>7. e \in Seq(Q) /\ Len(e) = Len(p)
      BY <3>2, <3>5, <3>6
    <3>. HIDE DEF e
    <3>. QED
      BY <2>1, <3>1, <3>7 DEF e, Q, l
  <2>. QED
    BY <2>2, <2>3
<1>. DEFINE G == {k \in Nat : k <= n => W[k] \in R}
<1>. HIDE DEF R, n
<1>7. 0 \in G
  BY <1>4, <1>5
<1>8. ASSUME NEW k \in G PROVE k + 1 \in G
  <2>1. ASSUME k + 1 <= n PROVE W[k + 1] \in R
    <3>1. k + 1 \in 1 .. n /\ (k + 1) - 1 = k /\ k <= n
      BY <1>0, <2>1
    <3>2. W[k + 1] = Split(W[k], s[k + 1])
      BY <1>4, <3>1
    <3>. QED
      BY <1>0, <1>6, <3>1, <3>2
  <2>. QED
    BY <2>1
<1>9. G \subseteq Nat
  OBVIOUS
<1>. HIDE DEF G
<1>10. n \in G
  BY <1>0, <1>7, <1>8, <1>9, Induction
<1>11. Parts(s) \in R
  BY <1>0, <1>3, <1>10 DEF G
<1>. QED
  BY <1>11 DEF R, C

(* What the octets before the last add, one after the other.               *)
LEMMA AddedWalk ==
  ASSUME NEW o, NEW n \in Nat \ {0}
  PROVE  \E A : /\ A[0] = o[n] /\ Added(o, n) = A[n - 1]
                /\ \A k \in 1 .. n - 1 : A[k] = A[k - 1] + o[k] * Pow2[(4 - k) * OctetBits]
PROOF
<1>. DEFINE q == [k \in 1 .. (n - 1) |-> k]
            m == Len(q)
            op == <<"add", o>>
            base == o[n]
            Plus(sum, k) == sum + o[k] * Pow2[(4 - k) * OctetBits]
            Folds(g) == g = [s \in SUBSET (DOMAIN q) |->
                               IF s = {} THEN base ELSE Plus(g[s \ {Max(s)}], q[Max(s)])]
            g == CHOOSE g : Folds(g)
<1>q. q \in Seq(Nat) /\ m = n - 1 /\ m \in Nat /\ \A k \in 1 .. m : q[k] = k
  OBVIOUS
<1>d. DOMAIN q = 1 .. m
  BY <1>q
<1>1. Added(o, n) = g[DOMAIN q]
  BY Zenon DEF Added, FoldLeft, MapThenFoldSet
<1>2. \A a, x : Apply(op, a, x) = Plus(a, x)
  <2>1. op[1] = "add" /\ op[2] = o
    OBVIOUS
  <2>2. op[1] # "held" /\ op[1] # "read" /\ op[1] # "split" /\ op[1] # "take"
    BY <2>1
  <2>. HIDE DEF op
  <2>. QED
    BY <2>1, <2>2 DEF Apply
<1>. HIDE DEF op, q, base, Plus, m
<1>3. \A f : Folded(op, base, q, m, f) <=> Folds(f)
  BY <1>d, <1>2 DEF Folded
<1>. HIDE DEF Folds
<1>4. g = CHOOSE f : Folded(op, base, q, m, f)
  BY <1>3, Zenon
<1>. HIDE DEF g
<1>5. Ends(op, base, q, g[1 .. m])
  BY <1>q, <1>4, FoldEnds DEF m
<1>6. PICK W : Walk(op, base, q, m, W) /\ W[m] = g[1 .. m]
  BY <1>5 DEF Ends, m
<1>7. W[0] = base /\ \A k \in 1 .. m : W[k] = Plus(W[k - 1], k)
  <2>1. W[0] = base /\ \A k \in 1 .. m : W[k] = Apply(op, W[k - 1], q[k])
    BY <1>6, Zenon DEF Walk
  <2>. QED
    BY <1>2, <1>q, <2>1
<1>8. Added(o, n) = W[m]
  BY <1>1, <1>6, <1>d, Zenon
<1>9. /\ W[0] = o[n] /\ Added(o, n) = W[n - 1]
      /\ \A k \in 1 .. n - 1 : W[k] = W[k - 1] + o[k] * Pow2[(4 - k) * OctetBits]
  BY <1>7, <1>8, <1>q DEF Plus, base
<1>. QED
  BY <1>9

(* What a text denotes is a sum, too.                                      *)
Weighed(t) ==
  FoldLeftDomain(LAMBDA sum, k : sum + Number(t[k]) * Pow2[AddrBits - (k - 1) * OctetBits - Room(Len(t), k)],
                 0, t)

(* One part after the other.                                               *)
LEMMA WeighedWalk ==
  ASSUME NEW S, NEW t \in Seq(S), NEW n, n = Len(t)
  PROVE  \E A : /\ A[0] = 0 /\ Weighed(t) = A[n]
                /\ \A k \in 1 .. n :
                     A[k] = A[k - 1] + Number(t[k]) * Pow2[AddrBits - (k - 1) * OctetBits - Room(n, k)]
PROOF
<1>. DEFINE q == [i \in DOMAIN t |-> i]
            op == <<"weigh", t>>
            Plus(sum, k) == sum + Number(t[k]) * Pow2[AddrBits - (k - 1) * OctetBits - Room(Len(t), k)]
            Folds(g) == g = [s \in SUBSET (DOMAIN q) |->
                               IF s = {} THEN 0 ELSE Plus(g[s \ {Max(s)}], q[Max(s)])]
            g == CHOOSE g : Folds(g)
<1>q. q \in Seq(Nat) /\ n \in Nat /\ Len(q) = n /\ \A k \in 1 .. n : q[k] = k
  OBVIOUS
<1>d. DOMAIN q = 1 .. n
  OBVIOUS
<1>1. Weighed(t) = g[DOMAIN q]
  BY Zenon DEF Weighed, FoldLeftDomain, FoldLeft, MapThenFoldSet
<1>2. \A a, x : Apply(op, a, x) = Plus(a, x)
  <2>1. op[1] = "weigh" /\ op[2] = t
    OBVIOUS
  <2>2. /\ op[1] # "held" /\ op[1] # "read" /\ op[1] # "split" /\ op[1] # "take" /\ op[1] # "add"
        /\ op[1] # "horner" /\ op[1] # "place"
    BY <2>1
  <2>3. \A a, x : Apply(op, a, x) =
          a + Number(op[2][x]) * Pow2[AddrBits - (x - 1) * OctetBits - Room(Len(op[2]), x)]
    <3>. HIDE DEF op
    <3>. QED
      BY <2>1, <2>2 DEF Apply
  <2>. QED
    BY <2>1, <2>3, Zenon
<1>. HIDE DEF op, q, Plus
<1>3. \A f : Folded(op, 0, q, n, f) <=> Folds(f)
  BY <1>d, <1>2 DEF Folded
<1>. HIDE DEF Folds
<1>4. g = CHOOSE f : Folded(op, 0, q, n, f)
  BY <1>3, Zenon
<1>. HIDE DEF g
<1>5. Ends(op, 0, q, g[1 .. n])
  BY <1>q, <1>4, FoldEnds
<1>6. PICK W : Walk(op, 0, q, n, W) /\ W[n] = g[1 .. n]
  BY <1>5, <1>q DEF Ends
<1>7. W[0] = 0 /\ \A k \in 1 .. n : W[k] = Plus(W[k - 1], k)
  <2>1. W[0] = 0 /\ \A k \in 1 .. n : W[k] = Apply(op, W[k - 1], q[k])
    BY <1>6, Zenon DEF Walk
  <2>. QED
    BY <1>2, <1>q, <2>1
<1>8. Weighed(t) = W[n]
  BY <1>1, <1>6, <1>d, Zenon
<1>9. \A k \in 1 .. n :
        W[k] = W[k - 1] + Number(t[k]) * Pow2[AddrBits - (k - 1) * OctetBits - Room(n, k)]
  BY <1>7, Zenon DEF Plus
<1>. QED
  BY <1>7, <1>8, <1>9

(* The largest number the last of n parts can hold, as inet_aton computes  *)
(* it and as the width of the octets the part stands for.                  *)
Holds(n) ==
  LET q == Pow2[(5 - n) * OctetBits]
  IN /\ q \in Nat /\ q > 0 /\ MaxAddr \in Nat /\ q - 1 <= MaxAddr
     /\ MaxAddr \div Pow2[(n - 1) * OctetBits] = q - 1

(* They are the same.                                                      *)
LEMMA Rooms == ASSUME NEW n \in 1 .. 4 PROVE Holds(n)
PROOF
<1>. DEFINE w == OctetBits
            u == (n - 1) * w
            v == (5 - n) * w
            p == Pow2[u]
            q == Pow2[v]
            x == q - 1
            y == p - 1
<1>1. w \in Nat
  BY WidthAssumption
<1>2. u \in Nat /\ v \in Nat /\ v + u = 4 * w
  <2>1. n = 1 \/ n = 2 \/ n = 3 \/ n = 4
    OBVIOUS
  <2>. HIDE DEF w
  <2>. QED
    BY <1>1, <2>1
<1>3. 4 * w = AddrBits
  BY DEF AddrBits
<1>. HIDE DEF u, v, w
<1>4. p \in Nat \ {0} /\ q \in Nat \ {0}
  BY <1>2, Pow2Nat
<1>5. Pow2[v + u] = q * p
  BY <1>2, Pow2Adds
<1>6. MaxAddr = q * p - 1
  BY <1>2, <1>3, <1>5 DEF MaxAddr
<1>7. x \in Nat /\ y \in 0 .. p - 1
  BY <1>4
<1>. HIDE DEF p, q
<1>8. q * p - 1 = x * p + y
  BY <1>4
<1>9. x * p \in Nat /\ x <= x * p
  BY <1>4, <1>7
<1>. HIDE DEF x, y
<1>10. (x * p + y) \div p = x
  BY <1>4, <1>7, DivIs
<1>11. MaxAddr \in Nat /\ x <= MaxAddr
  <2>. DEFINE z == x * p
  <2>1. MaxAddr = z + y
    BY <1>6, <1>8
  <2>. HIDE DEF z
  <2>. QED
    BY <1>4, <1>7, <1>9, <2>1 DEF z
<1>12. MaxAddr \div p = x
  BY <1>6, <1>8, <1>10
<1>13. q \in Nat /\ q > 0 /\ q - 1 = x
  BY <1>4 DEF x
<1>. QED
  BY <1>11, <1>12, <1>13, Zenon DEF Holds, p, q, u, v, w

(* The position of each part.                                              *)
LEMMA Positions ==
  ASSUME NEW n \in 1 .. 4
  PROVE  /\ \A k \in 1 .. n - 1 :
              AddrBits - (k - 1) * OctetBits - Room(n, k) = (4 - k) * OctetBits
         /\ AddrBits - (n - 1) * OctetBits - Room(n, n) = 0
PROOF
<1>. DEFINE w == OctetBits
<1>1. w \in Nat /\ AddrBits = 4 * w
  BY WidthAssumption DEF AddrBits
<1>2. ASSUME NEW k \in 1 .. n - 1
      PROVE  AddrBits - (k - 1) * w - Room(n, k) = (4 - k) * w
  <2>1. Room(n, k) = w /\ (k = 1 \/ k = 2 \/ k = 3)
    BY DEF Room
  <2>. HIDE DEF w
  <2>. QED
    BY <1>1, <2>1
<1>3. AddrBits - (n - 1) * w - Room(n, n) = 0
  <2>1. Room(n, n) = (5 - n) * w
    BY DEF Room
  <2>2. n = 1 \/ n = 2 \/ n = 3 \/ n = 4
    OBVIOUS
  <2>. HIDE DEF w
  <2>. QED
    BY <1>1, <2>1, <2>2
<1>. QED
  BY <1>2, <1>3

(* inet_aton starts with the last part; the sum is the same.               *)
LEMMA SumsAgree ==
  ASSUME NEW S, NEW t \in Seq(S), NEW n \in 1 .. 4, n = Len(t), NEW o,
         \A k \in 1 .. n : o[k] = Number(t[k]) /\ Number(t[k]) \in Nat
  PROVE  Weighed(t) = Added(o, n)
PROOF
<1>. DEFINE z == o[n]
            P(k) == Pow2[(4 - k) * OctetBits]
<1>1. PICK A : /\ A[0] = z /\ Added(o, n) = A[n - 1]
               /\ \A k \in 1 .. n - 1 : A[k] = A[k - 1] + o[k] * P(k)
  <2>1. n \in Nat \ {0}
    OBVIOUS
  <2>. QED
    BY <2>1, AddedWalk
<1>2. PICK D : /\ D[0] = 0 /\ Weighed(t) = D[n]
               /\ \A k \in 1 .. n :
                    D[k] = D[k - 1] + Number(t[k]) * Pow2[AddrBits - (k - 1) * OctetBits - Room(n, k)]
  BY WeighedWalk
<1>3. \A k \in 1 .. n - 1 : D[k] = D[k - 1] + o[k] * P(k)
  <2>1. \A k \in 1 .. n - 1 : AddrBits - (k - 1) * OctetBits - Room(n, k) = (4 - k) * OctetBits
    BY Positions
  <2>2. \A k \in 1 .. n - 1 : k \in 1 .. n
    OBVIOUS
  <2>. QED
    BY <1>2, <2>1, <2>2, Zenon
<1>4. D[n] = D[n - 1] + z
  <2>1. AddrBits - (n - 1) * OctetBits - Room(n, n) = 0
    BY Positions
  <2>2. n \in 1 .. n
    OBVIOUS
  <2>3. D[n] = D[n - 1] + z * Pow2[0]
    BY <1>2, <2>1, <2>2, Zenon
  <2>4. z * 1 = z
    <3>1. z \in Nat
      BY <2>2
    <3>. HIDE DEF z
    <3>. QED
      BY <3>1
  <2>. QED
    BY <2>3, <2>4, Pow2Is
<1>z. z \in Nat
  <2>1. n \in 1 .. n
    OBVIOUS
  <2>. QED
    BY <2>1
<1>5. \A k \in 1 .. n - 1 : o[k] * P(k) \in Nat
  <2>1. ASSUME NEW k \in 1 .. n - 1 PROVE o[k] * P(k) \in Nat
    <3>. DEFINE w == OctetBits
                r == (4 - k) * w
                a == o[k]
                b == Pow2[r]
    <3>1. w \in Nat /\ k \in 1 .. n /\ (k = 1 \/ k = 2 \/ k = 3)
      BY WidthAssumption
    <3>2. r \in Nat
      <4>. HIDE DEF w
      <4>. QED
        BY <3>1
    <3>3. a \in Nat
      BY <3>1
    <3>. HIDE DEF r, a
    <3>4. b \in Nat
      BY <3>2, Pow2Nat
    <3>. HIDE DEF b
    <3>5. a * b \in Nat
      BY <3>3, <3>4
    <3>. QED
      BY <3>5 DEF a, b, r, w
  <2>. QED
    BY <2>1
<1>. DEFINE G == {j \in Nat : j <= n - 1 => D[j] \in Nat /\ A[j] = z + D[j]}
<1>. HIDE DEF P, z
<1>6. 0 \in G
  BY <1>1, <1>2, <1>z
<1>7. ASSUME NEW j \in G PROVE j + 1 \in G
  <2>1. ASSUME j + 1 <= n - 1 PROVE D[j + 1] \in Nat /\ A[j + 1] = z + D[j + 1]
    <3>. DEFINE i == j + 1
                x == o[i] * P(i)
    <3>1. i \in 1 .. n - 1 /\ i - 1 = j /\ j <= n - 1 /\ j \in Nat
      BY <2>1
    <3>2. D[j] \in Nat /\ A[j] = z + D[j]
      BY <3>1
    <3>. HIDE DEF i
    <3>3. D[i] = D[j] + x /\ A[i] = A[j] + x /\ x \in Nat
      BY <1>1, <1>3, <1>5, <3>1
    <3>. HIDE DEF x
    <3>4. D[i] \in Nat /\ A[i] = z + D[i]
      BY <1>z, <3>2, <3>3
    <3>. QED
      BY <3>4 DEF i
  <2>. QED
    BY <2>1
<1>8. G \subseteq Nat
  OBVIOUS
<1>9. n - 1 \in Nat /\ n - 1 <= n - 1
  OBVIOUS
<1>. HIDE DEF G
<1>10. n - 1 \in G
  BY <1>6, <1>7, <1>8, <1>9, Induction
<1>11. D[n - 1] \in Nat /\ A[n - 1] = z + D[n - 1]
  BY <1>9, <1>10 DEF G
<1>. QED
  BY <1>1, <1>2, <1>4, <1>11, <1>z

(* The largest number a part may be.                                       *)
LEMMA Limits ==
  ASSUME NEW n \in 1 .. 4, NEW k \in 1 .. n
  PROVE  /\ Pow2[Room(n, k)] \in Nat /\ MaxAddr \in Nat /\ MaxOctet \in Nat
         /\ Pow2[Room(n, k)] - 1 <= MaxAddr
         /\ k < n => Pow2[Room(n, k)] - 1 = MaxOctet
         /\ k = n => MaxAddr \div Pow2[(n - 1) * OctetBits] = Pow2[Room(n, k)] - 1
PROOF
<1>1. MaxOctet \in Nat /\ MaxAddr \in Nat /\ MaxOctet <= MaxAddr
  <2>1. AddrBits \in Nat /\ AddrBits <= AddrBits
    BY WidthAssumption DEF AddrBits
  <2>. QED
    BY <2>1, OctetsFit
<1>2. Pow2[OctetBits] \in Nat
  BY WidthAssumption, Pow2Nat
<1>3. CASE k < n
  <2>1. Room(n, k) = OctetBits /\ k # n
    BY <1>3 DEF Room
  <2>. QED
    BY <1>1, <1>2, <2>1 DEF MaxOctet
<1>4. CASE k = n
  <2>1. Room(n, k) = (5 - n) * OctetBits
    BY <1>4 DEF Room
  <2>2. Holds(n)
    BY Rooms
  <2>3. /\ Pow2[Room(n, k)] \in Nat
        /\ Pow2[Room(n, k)] - 1 <= MaxAddr
        /\ MaxAddr \div Pow2[(n - 1) * OctetBits] = Pow2[Room(n, k)] - 1
    BY <2>1, <2>2, Zenon DEF Holds
  <2>4. ~ (k < n)
    BY <1>4
  <2>. QED
    BY <1>1, <2>3, <2>4, Zenon
<1>. QED
  BY <1>3, <1>4

(* inet_aton reads what a text denotes, and no other text but the          *)
(* exceptions.                                                             *)
AtonRight(s, long) ==
  \/ inet_aton(s, long) = Denotes(s)
  \/ Denotes(s) = Invalid /\ (BareHex(s) \/ Wraps(s, long))

(* So it does.                                                             *)
LEMMA AtonIs ==
  ASSUME NEW s \in Seq(STRING), NEW long \in Nat, AddrBits <= long
  PROVE  AtonRight(s, long)
PROOF
<1>. DEFINE t == Parts(s)
            n == Len(t)
            o == [k \in 1 .. n |-> octet(t[k], k = n, long)]
            v == inet_aton(s, long)
            w == Denotes(s)
            lim(k) == Pow2[Room(n, k)]
            low(k) == IsNumber(t[k]) /\ Number(t[k]) < lim(k)
            good == n <= 4 /\ \A k \in 1 .. n : low(k)
            bad == \/ n > 4
                   \/ \E k \in 1 .. n : o[k] = Invalid
                   \/ \E k \in 1 .. (n - 1) : o[k] > MaxOctet
                   \/ o[n] > MaxAddr \div Pow2[(n - 1) * OctetBits]
<1>1. v = IF bad THEN Invalid ELSE Added(o, n)
  BY Zenon DEF inet_aton, Added
<1>2. w = IF good THEN Weighed(t) ELSE Invalid
  BY Zenon DEF Denotes, Weighed, Room
<1>3. t \in Seq(Seq(STRING)) /\ n \in Nat \ {0}
  BY PartsAre
<1>4. \A k \in 1 .. n : t[k] \in Seq(STRING)
  BY <1>3, ElementOfSeq
<1>5. \A k \in 1 .. n : OctetRight(t[k], k = n, long) /\ o[k] = octet(t[k], k = n, long)
  <2>1. ASSUME NEW k \in 1 .. n PROVE OctetRight(t[k], k = n, long)
    <3>. DEFINE l == k = n
                p == t[k]
    <3>1. l \in BOOLEAN /\ p \in Seq(STRING)
      BY <1>4
    <3>. HIDE DEF l, p
    <3>2. OctetRight(p, l, long)
      BY <3>1, OctetIs
    <3>. QED
      BY <3>2 DEF l, p
  <2>. QED
    BY <2>1
<1>6. BareHex(s) <=> t[n] = <<"0", "x">>
  BY Zenon DEF BareHex
<1>7. Wraps(s, long) <=> long = AddrBits /\ \E k \in 1 .. n : Wide(t[k])
  <2>1. DOMAIN t = 1 .. n
    BY <1>3
  <2>2. Wraps(s, long) <=>
          long = AddrBits /\ \E k \in DOMAIN t : Wide(t[k])
    BY Zenon DEF Wraps, Wide
  <2>. QED
    BY <2>1, <2>2, Zenon
<1>. DEFINE AsRead(k) ==
              /\ IsNumber(t[k]) => Number(t[k]) \in Nat
              /\ \/ Fits(t[k]) /\ o[k] = Number(t[k])
                 \/ ~ Fits(t[k]) /\ (o[k] = Invalid \/ (o[k] \in Nat /\ o[k] > MaxAddr))
                 \/ k = n /\ BareHex(s) /\ ~ IsNumber(t[k])
                 \/ Wraps(s, long) /\ Wide(t[k])
<1>8. \A k \in 1 .. n : AsRead(k)
  BY <1>5, <1>6, <1>7, Zenon DEF OctetRight
<1>. HIDE DEF t, n, o, v, w
<1>9. CASE n > 4
  <2>1. bad /\ ~ good
    BY <1>3, <1>9
  <2>. HIDE DEF bad, good
  <2>. QED
    BY <1>1, <1>2, <2>1 DEF AtonRight, v, w
<1>10. CASE n <= 4
  <2>0. n \in 1 .. 4
    BY <1>3, <1>10
  <2>1. /\ MaxAddr \in Nat /\ MaxOctet \in Nat
        /\ \A k \in 1 .. n : lim(k) \in Nat /\ lim(k) - 1 <= MaxAddr
        /\ \A k \in 1 .. n - 1 : lim(k) - 1 = MaxOctet
        /\ MaxAddr \div Pow2[(n - 1) * OctetBits] = lim(n) - 1
    <3>1. \A k \in 1 .. n - 1 : k \in 1 .. n /\ k < n
      BY <2>0
    <3>2. n \in 1 .. n
      BY <2>0
    <3>. HIDE DEF n
    <3>. QED
      BY <2>0, <3>1, <3>2, Limits
  <2>. HIDE DEF lim
  <2>2. CASE good
    <3>1. \A k \in 1 .. n : o[k] = Number(t[k]) /\ Number(t[k]) \in Nat /\ Number(t[k]) < lim(k)
      <4>1. ASSUME NEW k \in 1 .. n
            PROVE  o[k] = Number(t[k]) /\ Number(t[k]) \in Nat /\ Number(t[k]) < lim(k)
        <5>1. IsNumber(t[k]) /\ Number(t[k]) < lim(k) /\ Number(t[k]) \in Nat
          BY <1>8, <2>2
        <5>2. Number(t[k]) <= MaxAddr
          BY <2>1, <5>1
        <5>3. Fits(t[k]) /\ ~ Wide(t[k])
          BY <2>1, <5>1, <5>2 DEF Fits, Wide
        <5>. QED
          BY <1>8, <5>1, <5>3
      <4>. QED
        BY <4>1
    <3>2. ~ bad
      <4>1. \A k \in 1 .. n : o[k] # Invalid
        BY <3>1 DEF Invalid
      <4>2. ASSUME NEW k \in 1 .. n - 1 PROVE ~ (o[k] > MaxOctet)
        <5>1. k \in 1 .. n
          BY <2>0
        <5>. QED
          BY <2>1, <3>1, <5>1
      <4>3. ~ (o[n] > MaxAddr \div Pow2[(n - 1) * OctetBits])
        <5>. DEFINE x == MaxAddr \div Pow2[(n - 1) * OctetBits]
        <5>1. n \in 1 .. n /\ x = lim(n) - 1
          BY <2>0, <2>1
        <5>. HIDE DEF x
        <5>2. ~ (o[n] > x)
          BY <2>1, <3>1, <5>1
        <5>. QED
          BY <5>2 DEF x
      <4>4. ~ (n > 4)
        BY <2>0
      <4>. QED
        BY <4>1, <4>2, <4>3, <4>4, Zenon
    <3>3. Weighed(t) = Added(o, n)
      <4>1. n = Len(t)
        BY DEF n
      <4>. QED
        BY <1>3, <2>0, <3>1, <4>1, SumsAgree
    <3>. HIDE DEF bad, good
    <3>. QED
      BY <1>1, <1>2, <2>2, <3>2, <3>3 DEF AtonRight, v, w
  <2>3. CASE ~ good
    <3>1. PICK k \in 1 .. n : ~ low(k)
      BY <1>10, <2>3
    <3>2. CASE BareHex(s) \/ Wraps(s, long)
      <4>. HIDE DEF good
      <4>. QED
        BY <1>2, <2>3, <3>2 DEF AtonRight, w
    <3>3. CASE ~ (BareHex(s) \/ Wraps(s, long))
      <4>1. \/ Fits(t[k]) /\ o[k] = Number(t[k]) /\ Number(t[k]) \in Nat
            \/ o[k] = Invalid \/ (o[k] \in Nat /\ o[k] > MaxAddr)
        BY <1>8, <3>3 DEF Fits
      <4>2. o[k] = Invalid \/ (o[k] \in Nat /\ o[k] > lim(k) - 1)
        <5>1. CASE Fits(t[k]) /\ o[k] = Number(t[k]) /\ Number(t[k]) \in Nat
          <6>1. ~ (Number(t[k]) < lim(k))
            BY <3>1, <5>1 DEF Fits
          <6>. QED
            BY <2>1, <5>1, <6>1
        <5>2. CASE o[k] \in Nat /\ o[k] > MaxAddr
          BY <2>1, <5>2
        <5>. QED
          BY <4>1, <5>1, <5>2
      <4>3. bad
        <5>1. CASE o[k] = Invalid
          BY <5>1
        <5>2. CASE o[k] \in Nat /\ o[k] > lim(k) - 1 /\ k # n
          <6>1. k \in 1 .. n - 1
            BY <2>0, <5>2
          <6>2. o[k] > MaxOctet
            BY <2>1, <5>2, <6>1
          <6>. QED
            BY <6>1, <6>2
        <5>3. CASE o[k] \in Nat /\ o[k] > lim(k) - 1 /\ k = n
          <6>1. o[n] > MaxAddr \div Pow2[(n - 1) * OctetBits]
            BY <2>1, <5>3, Zenon
          <6>. QED
            BY <6>1, Zenon
        <5>. QED
          BY <4>2, <5>1, <5>2, <5>3
      <4>. HIDE DEF bad, good
      <4>. QED
        BY <1>1, <1>2, <2>3, <4>3 DEF AtonRight, v, w
    <3>. QED
      BY <3>2, <3>3
  <2>. QED
    BY <2>2, <2>3
<1>. QED
  BY <1>3, <1>9, <1>10

(* inet_aton reads every form of an address and no other text, and bind is *)
(* called with the source address that is meant and decides the result,    *)
(* with the exceptions the property names.                                 *)
THEOREM AddressesAreParsed == Spec => []ParseExact
PROOF
<1>1. Answered => ParseExact
  <2>. SUFFICES ASSUME Answered, pc = "done" PROVE ParseExact
    BY DEF ParseExact
  <2>1. CASE call.fn = "inet_aton"
    <3>1. result = inet_aton(call.text, call.long) /\ call \in Calls
      BY <2>1 DEF Answered, Asked, Answer
    <3>2. call.text \in Seq(STRING) /\ call.long \in Nat /\ AddrBits <= call.long
      BY <2>1, <3>1, CallsAssumption
    <3>3. AtonRight(call.text, call.long)
      BY <3>2, AtonIs
    <3>4. call.fn # "source"
      BY <2>1
    <3>. QED
      BY <3>1, <3>3, <3>4, Zenon DEF ParseExact, AtonRight, Excepted
  <2>2. CASE call.fn = "source"
    <3>. SUFFICES ASSUME call.family = "inet", ~ AnySource(call.source) PROVE ParseExact
      <4>1. call.fn # "inet_aton"
        BY <2>2
      <4>. QED
        BY <4>1, Zenon DEF ParseExact
    <3>. DEFINE v == inet_aton(call.source, call.long)
                n == Denotes(call.source)
                bound == [ok |-> call.binds, bind |-> htonl(v)]
                none == [ok |-> FALSE, bind |-> << >>]
    <3>1. result = network_source(call.family, call.source, call.long, call.binds) /\ call \in Calls
      BY <2>2 DEF Answered, Asked, Answer
    <3>2. call.source \in Seq(STRING) /\ call.long \in Nat /\ AddrBits <= call.long
      BY <2>2, <3>1, CallsAssumption
    <3>3. AtonRight(call.source, call.long)
      BY <3>2, AtonIs
    <3>4. v = n \/ (n = Invalid /\ Excepted(call.source))
      BY <3>3, Zenon DEF AtonRight, Excepted
    <3>5. "inet" # "inet6"
      OBVIOUS
    <3>6. result = IF v # Invalid THEN bound ELSE none
      BY <3>1, <3>5 DEF network_source
    <3>8. call.fn # "inet_aton"
      BY <2>2
    <3>9. \/ n # Invalid /\ result = [ok |-> call.binds, bind |-> htonl(n)]
          \/ n = Invalid /\ result = [ok |-> FALSE, bind |-> << >>]
          \/ n = Invalid /\ Excepted(call.source)
      <4>. HIDE DEF v, n
      <4>1. CASE n # Invalid
        BY <3>4, <3>6, <4>1, Zenon
      <4>2. CASE n = Invalid
        BY <3>4, <3>6, <4>2, Zenon
      <4>. QED
        BY <4>1, <4>2
    <3>. QED
      BY <3>8, <3>9, Zenon DEF ParseExact
  <2>. QED
    BY <2>1, <2>2, Zenon DEF ParseExact
<1>. QED
  BY <1>1, AnsweredAlways, PTL

-----------------------------------------------------------------------------
(* Comparing addresses under a mask.                                       *)

(* Dividing twice.                                                         *)
LEMMA DivDiv ==
  ASSUME NEW x \in Nat, NEW p \in Nat \ {0}, NEW q \in Nat \ {0}
  PROVE  (x \div p) \div q = x \div (p * q)
PROOF
<1>. DEFINE a == x \div p
            r == x % p
            b == a \div q
            s == a % q
            u == p * q
            v == s * p + r
<1>1. a \in Nat /\ r \in 0 .. p - 1 /\ x = a * p + r
  OBVIOUS
<1>. HIDE DEF a, r
<1>2. b \in Nat /\ s \in 0 .. q - 1 /\ a = b * q + s
  BY <1>1
<1>. HIDE DEF b, s
<1>3. u \in Nat \ {0}
  OBVIOUS
<1>4. v \in 0 .. u - 1
  <2>1. s * p \in Nat /\ s * p <= (q - 1) * p
    BY <1>2
  <2>2. (q - 1) * p = u - p
    OBVIOUS
  <2>. DEFINE y == s * p
  <2>. HIDE DEF u, y
  <2>. QED
    BY <1>1, <1>3, <2>1, <2>2 DEF y
<1>5. x = b * u + v
  <2>1. a * p = (b * q) * p + s * p
    BY <1>2
  <2>2. (b * q) * p = b * u
    BY <1>2
  <2>. DEFINE y == s * p
              z == b * u
  <2>3. y \in Nat /\ z \in Nat
    BY <1>2, <1>3
  <2>. HIDE DEF u
  <2>4. x = (z + y) + r
    BY <1>1, <2>1, <2>2
  <2>. HIDE DEF y, z
  <2>5. x = z + (y + r)
    BY <1>1, <2>3, <2>4
  <2>. QED
    BY <2>5 DEF y, z
<1>. HIDE DEF u, v
<1>6. (b * u + v) \div u = b
  BY <1>2, <1>3, <1>4, DivIs
<1>. QED
  BY <1>5, <1>6 DEF a, b, u

(* The low bits of a number are those of its remainder.                    *)
LEMMA LowBit ==
  ASSUME NEW x \in Nat, NEW c \in Nat, NEW d \in Nat, d < c
  PROVE  ((x % Pow2[c]) \div Pow2[d]) % 2 = (x \div Pow2[d]) % 2
PROOF
<1>. DEFINE D == Pow2[d]
            g == c - d - 1
            M == Pow2[g]
            C == Pow2[c]
            q == x \div C
            r == x % C
            e == r \div D
            f == r % D
            y == q * M
<1>0. g \in Nat /\ c = d + (g + 1)
  OBVIOUS
<1>. HIDE DEF g
<1>1. D \in Nat \ {0} /\ M \in Nat \ {0} /\ C \in Nat \ {0}
  BY <1>0, Pow2Nat
<1>2. C = D * (2 * M)
  <2>1. Pow2[g + 1] = 2 * M /\ g + 1 \in Nat
    BY <1>0, Pow2Is
  <2>. DEFINE h == g + 1
  <2>. HIDE DEF h
  <2>2. Pow2[d + h] = Pow2[d] * Pow2[h]
    BY <2>1, Pow2Adds DEF h
  <2>. QED
    BY <1>0, <2>1, <2>2 DEF h
<1>. HIDE DEF D, M, C
<1>3. q \in Nat /\ r \in Nat /\ x = q * C + r
  BY <1>1
<1>. HIDE DEF q, r
<1>4. e \in Nat /\ f \in 0 .. D - 1 /\ r = e * D + f
  BY <1>1, <1>3
<1>. HIDE DEF e, f
<1>5. y \in Nat
  BY <1>1, <1>3
<1>6. q * C = (2 * y) * D
  BY <1>1, <1>2, <1>3
<1>. HIDE DEF y
<1>. DEFINE z == 2 * y + e
<1>7. z \in Nat
  BY <1>4, <1>5
<1>8. x = z * D + f
  <2>1. z * D = (2 * y) * D + e * D
    BY <1>1, <1>4, <1>5
  <2>. DEFINE m == (2 * y) * D
              n == e * D
  <2>2. m \in Nat /\ n \in Nat
    BY <1>1, <1>4, <1>5
  <2>. HIDE DEF z
  <2>3. x = m + (n + f) /\ z * D = m + n
    BY <1>3, <1>4, <1>6, <2>1
  <2>. HIDE DEF m, n
  <2>. QED
    BY <1>4, <2>2, <2>3
<1>9. x \div D = z
  <2>. HIDE DEF z
  <2>1. (z * D + f) \div D = z
    BY <1>1, <1>4, <1>7, DivIs
  <2>. QED
    BY <1>8, <2>1
<1>10. z % 2 = e % 2
  BY <1>4, <1>5
<1>. HIDE DEF z
<1>. QED
  BY <1>9, <1>10 DEF D, C, e, r

(* The bits of octets are those of the number they are the octets of.      *)
LEMMA BitsAre ==
  ASSUME NEW V \in Nat \ {0}, NEW x \in Nat, NEW S, NEW a \in Seq(S), Len(a) = V,
         \A k \in 1 .. V : a[k] = (x \div Pow2[(V - k) * OctetBits]) % Pow2[OctetBits]
  PROVE  \A i \in 0 .. (V * OctetBits - 1) : i \in Bits(a) <=> Bit(x, V * OctetBits - 1 - i)
PROOF
<1>. DEFINE w == OctetBits
<1>w. w \in Nat \ {0}
  BY WidthAssumption
<1>. SUFFICES ASSUME NEW i \in 0 .. (V * w - 1)
              PROVE  i \in Bits(a) <=> Bit(x, V * w - 1 - i)
  OBVIOUS
<1>. DEFINE j == i \div w
            r == i % w
            k == j + 1
            e == (V - k) * w
            d == w - 1 - r
            n == x \div Pow2[e]
<1>1. i \in Bits(a) <=> (a[k] \div Pow2[d]) % 2 = 1
  BY Zenon DEF Bits
<1>. HIDE DEF w
<1>2. i \in Nat /\ i < V * w
  BY <1>w
<1>3. j \in Nat /\ r \in 0 .. w - 1 /\ i = j * w + r
  BY <1>2, <1>w
<1>. HIDE DEF j, r
<1>4. j < V
  <2>1. ASSUME V <= j PROVE FALSE
    <3>1. V * w <= j * w
      BY <1>3, <1>w, <2>1
    <3>. DEFINE A == V * w
                B == j * w
    <3>2. A \in Nat /\ B \in Nat
      BY <1>3, <1>w
    <3>. HIDE DEF A, B
    <3>. QED
      BY <1>2, <1>3, <3>1, <3>2 DEF A, B
  <2>. QED
    BY <1>3, <2>1
<1>5. k \in 1 .. V /\ d \in Nat /\ d < w
  BY <1>3, <1>4, <1>w
<1>6. e \in Nat /\ e + d = V * w - 1 - i
  <2>1. e = V * w - j * w - w
    BY <1>3, <1>w
  <2>2. V - k \in Nat
    BY <1>5
  <2>3. e \in Nat
    <3>. DEFINE m == V - k
    <3>. HIDE DEF k, m
    <3>1. m * w \in Nat
      BY <1>w, <2>2 DEF m
    <3>. QED
      BY <3>1 DEF m
  <2>. DEFINE A == V * w
              B == j * w
  <2>4. A \in Nat /\ B \in Nat
    BY <1>3, <1>w
  <2>. HIDE DEF A, B, e
  <2>. QED
    BY <1>3, <1>w, <2>1, <2>3, <2>4 DEF A, B
<1>. HIDE DEF k, e, d
<1>7. a[k] = n % Pow2[w]
  BY <1>5 DEF e, w
<1>8. Pow2[e] \in Nat \ {0} /\ Pow2[d] \in Nat \ {0} /\ Pow2[e + d] = Pow2[e] * Pow2[d]
  BY <1>5, <1>6, Pow2Nat, Pow2Adds
<1>9. n \in Nat
  BY <1>8
<1>10. n \div Pow2[d] = x \div Pow2[e + d]
  <2>. DEFINE A == Pow2[e]
              B == Pow2[d]
  <2>1. A \in Nat \ {0} /\ B \in Nat \ {0}
    BY <1>8
  <2>. HIDE DEF A, B
  <2>2. (x \div A) \div B = x \div (A * B)
    BY <2>1, DivDiv
  <2>. QED
    BY <1>8, <2>2 DEF A, B
<1>. HIDE DEF n
<1>11. ((n % Pow2[w]) \div Pow2[d]) % 2 = (n \div Pow2[d]) % 2
  BY <1>5, <1>9, <1>w, LowBit
<1>12. (a[k] \div Pow2[d]) % 2 = (x \div Pow2[e + d]) % 2
  BY <1>7, <1>10, <1>11, Zenon
<1>. QED
  BY <1>1, <1>6, <1>12, Zenon DEF Bit

(* Numbers agree in their leading bits.                                    *)
LeadingSame(x, y, W, n) ==
  (\A i \in 0 .. n - 1 : Bit(x, W - 1 - i) <=> Bit(y, W - 1 - i)) <=> Agree(x, y, W, n)

(* That is so exactly if they agree when the other bits are shifted out.   *)
LEMMA LeadIs ==
  ASSUME NEW W \in Nat, NEW x \in 0 .. Pow2[W] - 1, NEW y \in 0 .. Pow2[W] - 1
  PROVE  \A n \in 0 .. W : LeadingSame(x, y, W, n)
PROOF
<1>. DEFINE G == {n \in Nat : n <= W => LeadingSame(x, y, W, n)}
<1>p. Pow2[W] \in Nat \ {0}
  BY Pow2Nat
<1>x. x \in Nat /\ y \in Nat
  BY <1>p
<1>1. 0 \in G
  <2>1. W - 0 = W
    OBVIOUS
  <2>2. x \div Pow2[W] = 0 /\ y \div Pow2[W] = 0
    <3>. DEFINE P == Pow2[W]
    <3>. HIDE DEF P
    <3>1. x \in 0 .. P - 1 /\ y \in 0 .. P - 1 /\ P \in Nat \ {0}
      BY <1>p DEF P
    <3>2. x \div P = 0 /\ y \div P = 0
      BY <3>1
    <3>. QED
      BY <3>2 DEF P
  <2>3. Agree(x, y, W, 0)
    BY <2>1, <2>2, Zenon DEF Agree
  <2>4. 0 .. 0 - 1 = {}
    OBVIOUS
  <2>5. LeadingSame(x, y, W, 0)
    BY <2>3, <2>4, Zenon DEF LeadingSame
  <2>. QED
    BY <2>5
<1>2. ASSUME NEW n \in G PROVE n + 1 \in G
  <2>1. ASSUME n + 1 <= W PROVE LeadingSame(x, y, W, n + 1)
    <3>. DEFINE B(i) == Bit(x, W - 1 - i) <=> Bit(y, W - 1 - i)
                m == W - (n + 1)
                p == Pow2[m]
                u == x \div p
                v == y \div p
    <3>1. n \in Nat /\ m \in Nat /\ W - n = m + 1 /\ W - 1 - n = m
      BY <2>1
    <3>2. (\A i \in 0 .. n - 1 : B(i)) <=> Agree(x, y, W, n)
      BY <2>1, <3>1 DEF LeadingSame
    <3>3. p \in Nat \ {0} /\ Pow2[W - n] = p * 2
      <4>1. Pow2[m + 1] = 2 * p /\ p \in Nat \ {0}
        BY <3>1, Pow2Is, Pow2Nat
      <4>. HIDE DEF p
      <4>. QED
        BY <3>1, <4>1
    <3>. HIDE DEF p
    <3>4. u \in Nat /\ v \in Nat
      BY <1>x, <3>3
    <3>5. u \div 2 = x \div (p * 2) /\ v \div 2 = y \div (p * 2)
      <4>. DEFINE b == 2
      <4>1. b \in Nat \ {0}
        OBVIOUS
      <4>. HIDE DEF b
      <4>2. u \div b = x \div (p * b) /\ v \div b = y \div (p * b)
        BY <1>x, <3>3, <4>1, DivDiv
      <4>. QED
        BY <4>2 DEF b
    <3>6. Agree(x, y, W, n) <=> u \div 2 = v \div 2
      BY <3>3, <3>5, Zenon DEF Agree
    <3>7. Agree(x, y, W, n + 1) <=> u = v
      BY Zenon DEF Agree, p
    <3>8. B(n) <=> (u % 2 = 1 <=> v % 2 = 1)
      BY <3>1, Zenon DEF Bit, p
    <3>. HIDE DEF u, v
    <3>9. u = v <=> u \div 2 = v \div 2 /\ (u % 2 = 1 <=> v % 2 = 1)
      BY <3>4
    <3>. HIDE DEF B
    <3>10. (\A i \in 0 .. (n + 1) - 1 : B(i)) <=> (\A i \in 0 .. n - 1 : B(i)) /\ B(n)
      <4>1. \A i : i \in 0 .. (n + 1) - 1 <=> i \in 0 .. n - 1 \/ i = n
        BY <3>1
      <4>. QED
        BY <4>1, Zenon
    <3>11. (\A i \in 0 .. (n + 1) - 1 : B(i)) <=> Agree(x, y, W, n + 1)
      BY <3>2, <3>6, <3>7, <3>8, <3>9, <3>10, Zenon
    <3>. QED
      BY <3>11, Zenon DEF LeadingSame, B
  <2>. QED
    BY <2>1
<1>3. G \subseteq Nat
  OBVIOUS
<1>. HIDE DEF G
<1>4. \A n \in Nat : n \in G
  BY <1>1, <1>2, <1>3, Induction
<1>. QED
  BY <1>4 DEF G

(* The sum of parts that are not too large is an address.                  *)
LEMMA SumFits ==
  ASSUME NEW S, NEW t \in Seq(S), NEW n \in 1 .. 4, n = Len(t),
         \A k \in 1 .. n : Number(t[k]) \in Nat /\ Number(t[k]) < Pow2[Room(n, k)]
  PROVE  Weighed(t) \in 0 .. MaxAddr
PROOF
<1>. DEFINE w == OctetBits
            P(j) == Pow2[(4 - j) * w]
            N(k) == Number(t[k])
<1>w. w \in Nat
  BY WidthAssumption
<1>1. PICK D : /\ D[0] = 0 /\ Weighed(t) = D[n]
               /\ \A k \in 1 .. n : D[k] = D[k - 1] + N(k) * Pow2[AddrBits - (k - 1) * w - Room(n, k)]
  BY WeighedWalk
<1>2. \A k \in 1 .. n - 1 : D[k] = D[k - 1] + N(k) * P(k)
  <2>1. \A k \in 1 .. n - 1 : AddrBits - (k - 1) * w - Room(n, k) = (4 - k) * w
    BY Positions
  <2>2. \A k \in 1 .. n - 1 : k \in 1 .. n
    OBVIOUS
  <2>. QED
    BY <1>1, <2>1, <2>2, Zenon
<1>3. D[n] = D[n - 1] + N(n)
  <2>1. AddrBits - (n - 1) * w - Room(n, n) = 0
    BY Positions
  <2>2. n \in 1 .. n
    OBVIOUS
  <2>3. D[n] = D[n - 1] + N(n) * Pow2[0]
    BY <1>1, <2>1, <2>2, Zenon
  <2>4. N(n) \in Nat
    BY <2>2
  <2>. HIDE DEF N
  <2>5. N(n) * 1 = N(n)
    BY <2>4
  <2>. QED
    BY <2>3, <2>5, Pow2Is
<1>4. \A k \in 1 .. n - 1 : N(k) \in Nat /\ N(k) < Pow2[w]
  <2>1. \A k \in 1 .. n - 1 : k \in 1 .. n /\ Room(n, k) = w
    BY DEF Room
  <2>. QED
    BY <2>1
<1>5. N(n) \in Nat /\ N(n) < P(n - 1)
  <2>1. n \in 1 .. n /\ Room(n, n) = (5 - n) * w /\ 5 - n = 4 - (n - 1)
    BY DEF Room
  <2>2. N(n) \in Nat /\ N(n) < Pow2[Room(n, n)]
    BY <2>1
  <2>3. Room(n, n) = (4 - (n - 1)) * w
    BY <2>1
  <2>. HIDE DEF N
  <2>. QED
    BY <2>2, <2>3
<1>6. \A j \in 0 .. 3 : (4 - j) * w \in Nat
  <2>1. \A j \in 0 .. 3 : j = 0 \/ j = 1 \/ j = 2 \/ j = 3
    OBVIOUS
  <2>. HIDE DEF w
  <2>. QED
    BY <1>w, <2>1
<1>7. \A j \in 0 .. 3 : P(j) \in Nat
  <2>1. ASSUME NEW j \in 0 .. 3 PROVE P(j) \in Nat
    <3>. DEFINE e == (4 - j) * w
    <3>1. e \in Nat
      BY <1>6
    <3>. HIDE DEF e
    <3>2. Pow2[e] \in Nat
      BY <3>1, Pow2Nat
    <3>. QED
      BY <3>2 DEF e
  <2>. QED
    BY <2>1
<1>8. \A j \in 1 .. 3 : P(j - 1) = Pow2[w] * P(j)
  <2>1. ASSUME NEW j \in 1 .. 3 PROVE P(j - 1) = Pow2[w] * P(j)
    <3>. DEFINE e == (4 - j) * w
    <3>1. e \in Nat
      BY <1>6
    <3>2. (4 - (j - 1)) * w = w + e
      <4>1. j = 1 \/ j = 2 \/ j = 3
        OBVIOUS
      <4>. HIDE DEF w
      <4>. QED
        BY <1>w, <4>1
    <3>. HIDE DEF e, w
    <3>3. Pow2[w + e] = Pow2[w] * Pow2[e]
      BY <1>w, <3>1, Pow2Adds
    <3>. QED
      BY <3>2, <3>3 DEF e
  <2>. QED
    BY <2>1
<1>9. Pow2[w] \in Nat /\ P(0) = MaxAddr + 1 /\ MaxAddr \in Nat
  <2>1. Pow2[w] \in Nat
    BY <1>w, Pow2Nat
  <2>2. P(0) \in Nat /\ (4 - 0) * w = AddrBits
    BY <1>7, <1>w DEF AddrBits
  <2>3. AddrBits \in Nat
    BY <1>w DEF AddrBits
  <2>4. Pow2[AddrBits] \in Nat \ {0}
    BY <2>3, Pow2Nat
  <2>. QED
    BY <2>1, <2>2, <2>4 DEF MaxAddr
<1>. DEFINE T == P(0)
            G == {j \in Nat : j <= n - 1 => D[j] \in Nat /\ D[j] + P(j) <= T}
<1>. HIDE DEF P, N
<1>10. 0 \in G
  <2>1. P(0) \in Nat
    BY <1>7
  <2>. QED
    BY <1>1, <2>1
<1>11. ASSUME NEW j \in G PROVE j + 1 \in G
  <2>n. j \in Nat
    OBVIOUS
  <2>0. j <= n - 1 => D[j] \in Nat /\ D[j] + P(j) <= T
    OBVIOUS
  <2>1. ASSUME j + 1 <= n - 1 PROVE D[j + 1] \in Nat /\ D[j + 1] + P(j + 1) <= T
    <3>. DEFINE i == j + 1
                x == N(i)
                p == P(i)
                q == Pow2[w]
                d == D[j]
    <3>1. /\ i \in 1 .. n - 1 /\ i - 1 = j /\ j <= n - 1
          /\ i \in 1 .. 3 /\ i \in 0 .. 3 /\ j \in 0 .. 3
      <4>. HIDE DEF G, P, T
      <4>1. n \in Nat /\ n <= 4
        OBVIOUS
      <4>2. i \in 1 .. n - 1 /\ i - 1 = j /\ j <= n - 1
        BY <2>1, <2>n, <4>1
      <4>. QED
        BY <2>1, <2>n, <4>1
    <3>2. d \in Nat /\ d + P(j) <= T
      BY <2>0, <3>1
    <3>. HIDE DEF i
    <3>3. D[i] = d + x * p
      BY <1>2, <3>1
    <3>4. x \in Nat /\ x < q
      BY <1>4, <3>1
    <3>5. P(j) = q * p
      BY <1>8, <3>1
    <3>6. p \in Nat /\ q \in Nat /\ T \in Nat /\ P(j) \in Nat
      <4>1. 0 \in 0 .. 3
        OBVIOUS
      <4>. QED
        BY <1>7, <1>9, <3>1, <4>1
    <3>. HIDE DEF x, p, q, d, T
    <3>7. x * p \in Nat /\ x * p + p <= q * p
      <4>1. (x + 1) * p <= q * p
        BY <3>4, <3>6
      <4>2. (x + 1) * p = x * p + p
        BY <3>4, <3>6
      <4>. QED
        BY <3>4, <3>6, <4>1, <4>2
    <3>. DEFINE u == x * p
                v == q * p
    <3>8. u \in Nat /\ v \in Nat /\ u + p <= v /\ D[i] = d + u /\ d + v <= T
      BY <3>2, <3>3, <3>4, <3>5, <3>6, <3>7
    <3>. HIDE DEF u, v
    <3>9. D[i] \in Nat /\ D[i] + p <= T
      BY <3>2, <3>6, <3>8
    <3>. QED
      BY <3>9 DEF i, p
  <2>. QED
    BY <2>1
<1>12. G \subseteq Nat
  OBVIOUS
<1>13. n - 1 \in Nat /\ n - 1 <= n - 1 /\ n - 1 \in 0 .. 3
  OBVIOUS
<1>. HIDE DEF G
<1>14. n - 1 \in G
  BY <1>10, <1>11, <1>12, <1>13, Induction
<1>15. D[n - 1] \in Nat /\ D[n - 1] + P(n - 1) <= T
  BY <1>13, <1>14 DEF G
<1>16. P(n - 1) \in Nat
  BY <1>7, <1>13
<1>. QED
  BY <1>1, <1>3, <1>5, <1>9, <1>15, <1>16

(* What a text denotes is an address.                                      *)
LEMMA DenotesAddress ==
  ASSUME NEW s \in Seq(STRING), Denotes(s) # Invalid
  PROVE  Denotes(s) \in 0 .. MaxAddr
PROOF
<1>. DEFINE t == Parts(s)
            n == Len(t)
            low(k) == IsNumber(t[k]) /\ Number(t[k]) < Pow2[Room(n, k)]
            good == n <= 4 /\ \A k \in 1 .. n : low(k)
<1>1. Denotes(s) = IF good THEN Weighed(t) ELSE Invalid
  BY Zenon DEF Denotes, Weighed, Room
<1>2. good /\ Denotes(s) = Weighed(t)
  <2>. HIDE DEF good
  <2>. QED
    BY <1>1
<1>3. t \in Seq(Seq(STRING)) /\ n \in Nat \ {0}
  BY PartsAre
<1>4. n \in 1 .. 4
  <2>1. n <= 4
    BY <1>2
  <2>. HIDE DEF n, t
  <2>. QED
    BY <1>3, <2>1
<1>5. \A k \in 1 .. n : Number(t[k]) \in Nat /\ Number(t[k]) < Pow2[Room(n, k)]
  <2>1. ASSUME NEW k \in 1 .. n PROVE Number(t[k]) \in Nat
    <3>. DEFINE p == t[k]
                b == TRUE
    <3>1. p \in Seq(STRING) /\ b \in BOOLEAN /\ AddrBits \in Nat /\ AddrBits <= AddrBits
      <4>1. p \in Seq(STRING)
        BY <1>3, ElementOfSeq
      <4>2. AddrBits \in Nat
        BY WidthAssumption DEF AddrBits
      <4>. QED
        BY <4>1, <4>2
    <3>2. IsNumber(p)
      BY <1>2
    <3>. HIDE DEF p, b
    <3>3. OctetRight(p, b, AddrBits)
      BY <3>1, OctetIs
    <3>4. Number(p) \in Nat
      BY <3>2, <3>3 DEF OctetRight
    <3>. QED
      BY <3>4 DEF p
  <2>. QED
    BY <1>2, <2>1
<1>. HIDE DEF t, n, good
<1>6. n = Len(t)
  BY DEF n
<1>7. Weighed(t) \in 0 .. MaxAddr
  BY <1>3, <1>4, <1>5, <1>6, SumFits
<1>. QED
  BY <1>2, <1>7

(* The bits of a number of W bits, counted from the first.                 *)
BitSet(x, W) == {i \in 0 .. (W - 1) : Bit(x, W - 1 - i)}

(* Those of an address.                                                    *)
LEMMA HtonlBits == ASSUME NEW x \in Nat PROVE Bits(htonl(x)) = BitSet(x, AddrBits)
PROOF
<1>. DEFINE V == 4
            a == htonl(x)
            w == OctetBits
<1>1. V \in Nat \ {0} /\ w \in Nat
  BY WidthAssumption
<1>2. a \in Seq(Nat) /\ Len(a) = V
  <2>. DEFINE f(k) == (x \div Pow2[(4 - k) * w]) % Pow2[w]
  <2>1. a = [k \in 1 .. 4 |-> f(k)]
    BY DEF htonl
  <2>2. \A k \in 1 .. 4 : f(k) \in Nat
    <3>1. ASSUME NEW k \in 1 .. 4 PROVE f(k) \in Nat
      <4>. DEFINE e == (4 - k) * w
                  p == Pow2[e]
                  q == Pow2[w]
      <4>1. e \in Nat
        <5>1. k = 1 \/ k = 2 \/ k = 3 \/ k = 4
          OBVIOUS
        <5>. HIDE DEF w
        <5>. QED
          BY <1>1, <5>1
      <4>. HIDE DEF e
      <4>2. p \in Nat \ {0} /\ q \in Nat \ {0}
        BY <1>1, <4>1, Pow2Nat
      <4>. HIDE DEF p, q
      <4>3. (x \div p) % q \in Nat
        BY <4>2
      <4>. QED
        BY <4>3 DEF p, q, e
    <3>. QED
      BY <3>1
  <2>. HIDE DEF f, a
  <2>. QED
    BY <2>1, <2>2
<1>3. \A k \in 1 .. V : a[k] = (x \div Pow2[(V - k) * w]) % Pow2[w]
  BY DEF htonl
<1>. HIDE DEF V, a
<1>4. \A i \in 0 .. (V * w - 1) : i \in Bits(a) <=> Bit(x, V * w - 1 - i)
  BY <1>1, <1>2, <1>3, BitsAre
<1>5. Bits(a) \subseteq 0 .. (V * w - 1)
  BY <1>2 DEF Bits
<1>6. Bits(a) = BitSet(x, V * w)
  BY <1>4, <1>5, Zenon DEF BitSet
<1>. QED
  BY <1>6 DEF AddrBits, V, a

(* Two numbers are compared by so many of their first bits.                *)
SamePrefix(x, y, W, n) ==
  BitSet(x, W) \cap Prefix(n) = BitSet(y, W) \cap Prefix(n) <=> Agree(x, y, W, n)

(* They are compared so.                                                   *)
LEMMA PrefixIs ==
  ASSUME NEW W \in Nat, NEW x \in 0 .. Pow2[W] - 1, NEW y \in 0 .. Pow2[W] - 1,
         NEW n \in 0 .. W
  PROVE  SamePrefix(x, y, W, n)
PROOF
<1>. DEFINE A == BitSet(x, W)
            B == BitSet(y, W)
            E(i) == Bit(x, W - 1 - i) <=> Bit(y, W - 1 - i)
<1>1. \A i \in 0 .. n - 1 : i \in 0 .. (W - 1)
  OBVIOUS
<1>2. (\A i \in 0 .. n - 1 : E(i)) <=> Agree(x, y, W, n)
  <2>1. LeadingSame(x, y, W, n)
    BY LeadIs
  <2>. QED
    BY <2>1, Zenon DEF LeadingSame
<1>3. \A i \in 0 .. n - 1 : (i \in A <=> Bit(x, W - 1 - i)) /\ (i \in B <=> Bit(y, W - 1 - i))
  BY <1>1, Zenon DEF BitSet
<1>4. (\A i \in 0 .. n - 1 : E(i)) <=> \A i \in 0 .. n - 1 : i \in A <=> i \in B
  BY <1>3, Zenon
<1>. HIDE DEF A, B
<1>5. (A \cap Prefix(n) = B \cap Prefix(n)) <=> \A i \in 0 .. n - 1 : i \in A <=> i \in B
  <2>. DEFINE Q == 0 .. n - 1
  <2>1. Prefix(n) = Q
    BY DEF Prefix
  <2>. HIDE DEF Q
  <2>2. (A \cap Q = B \cap Q) <=> \A i \in Q : i \in A <=> i \in B
    OBVIOUS
  <2>. QED
    BY <2>1, <2>2, Zenon DEF Q
<1>. QED
  BY <1>2, <1>4, <1>5, Zenon DEF SamePrefix, A, B

(* Two numbers are compared under a mask.                                  *)
SameMasked(x, y, m) ==
  BitSet(x, AddrBits) \cap BitSet(m, AddrBits) = BitSet(y, AddrBits) \cap BitSet(m, AddrBits)
    <=> Masked(x, y, m)

(* They are compared so.                                                   *)
LEMMA MaskIs == ASSUME NEW x, NEW y, NEW m PROVE SameMasked(x, y, m)
PROOF
<1>. DEFINE W == AddrBits
            A == BitSet(x, W)
            B == BitSet(y, W)
            M == BitSet(m, W)
            R == 0 .. (W - 1)
            E(i) == Bit(m, i) => (Bit(x, i) <=> Bit(y, i))
<1>0. W \in Nat
  BY WidthAssumption DEF AddrBits
<1>. HIDE DEF W
<1>1. \A i \in R : W - 1 - i \in R /\ W - 1 - (W - 1 - i) = i
  BY <1>0
<1>2. A \subseteq R /\ B \subseteq R /\ M \subseteq R
  BY DEF BitSet
<1>3. \A i \in R : /\ i \in A <=> Bit(x, W - 1 - i)
                   /\ i \in B <=> Bit(y, W - 1 - i)
                   /\ i \in M <=> Bit(m, W - 1 - i)
  BY Zenon DEF BitSet
<1>. HIDE DEF A, B, M, R
<1>4. (A \cap M = B \cap M) <=> \A i \in R : i \in M => (i \in A <=> i \in B)
  BY <1>2
<1>5. (\A i \in R : i \in M => (i \in A <=> i \in B)) <=> \A i \in R : E(W - 1 - i)
  BY <1>3, Zenon
<1>6. (\A i \in R : E(W - 1 - i)) <=> \A i \in R : E(i)
  <2>. HIDE DEF E
  <2>1. ASSUME \A i \in R : E(W - 1 - i), NEW i \in R PROVE E(i)
    <3>. DEFINE j == W - 1 - i
    <3>1. j \in R /\ W - 1 - j = i
      BY <1>1
    <3>. HIDE DEF j
    <3>2. E(W - 1 - j)
      BY <2>1, <3>1, Zenon
    <3>. QED
      BY <3>1, <3>2, Zenon
  <2>2. ASSUME \A i \in R : E(i), NEW i \in R PROVE E(W - 1 - i)
    BY <1>1, <2>2, Zenon
  <2>. QED
    BY <2>1, <2>2
<1>7. Masked(x, y, m) <=> \A i \in R : E(i)
  BY Zenon DEF Masked, R, W
<1>. QED
  BY <1>4, <1>5, <1>6, <1>7, Zenon DEF SameMasked, A, B, M, W

(* A mask of n leading bits has those bits.                                *)
LEMMA LeadingMask ==
  ASSUME NEW W \in Nat, NEW n \in 0 .. W
  PROVE  BitSet(Pow2[W] - Pow2[W - n], W) = Prefix(n)
PROOF
<1>. DEFINE c == W - n
            N == Pow2[n]
            C == Pow2[c]
            m == Pow2[W] - C
            x == N - 1
<1>1. c \in Nat /\ W = n + c
  OBVIOUS
<1>2. N \in Nat \ {0} /\ C \in Nat \ {0} /\ Pow2[W] = N * C
  <2>1. n \in Nat
    OBVIOUS
  <2>. HIDE DEF c
  <2>. QED
    BY <1>1, <2>1, Pow2Nat, Pow2Adds
<1>3. m = x * C /\ x \in Nat
  <2>. HIDE DEF N, C
  <2>. QED
    BY <1>2
<1>. HIDE DEF c, N, C, m, x
<1>4. ASSUME NEW i \in 0 .. (W - 1), i < n PROVE Bit(m, W - 1 - i)
  <2>. DEFINE e == n - 1 - i
              j == i + 1
              D == Pow2[e]
              J == Pow2[j]
              y == J - 1
              u == C * D
  <2>1. e \in Nat /\ j \in Nat /\ n = j + e /\ W - 1 - i = c + e
    BY <1>1, <1>4
  <2>. HIDE DEF e, j
  <2>2. D \in Nat \ {0} /\ J \in Nat \ {0} /\ N = J * D /\ Pow2[c + e] = u
    BY <1>1, <2>1, Pow2Nat, Pow2Adds DEF N, C
  <2>. HIDE DEF D, J
  <2>3. y \in Nat /\ D - 1 \in 0 .. D - 1 /\ x = y * D + (D - 1)
    BY <2>2 DEF x
  <2>4. x \div D = y
    <3>. DEFINE f == D - 1
    <3>1. f \in 0 .. D - 1 /\ x = y * D + f
      BY <2>3
    <3>. HIDE DEF f, y
    <3>2. (y * D + f) \div D = y
      BY <2>2, <2>3, <3>1, DivIs
    <3>. QED
      BY <3>1, <3>2
  <2>5. m \div C = x
    <3>. DEFINE z == 0
    <3>1. z \in 0 .. C - 1 /\ x * C + z = m
      BY <1>2, <1>3
    <3>. HIDE DEF z
    <3>2. (x * C + z) \div C = x
      BY <1>2, <1>3, <3>1, DivIs
    <3>. QED
      BY <3>1, <3>2
  <2>6. m \in Nat
    BY <1>2, <1>3
  <2>7. (m \div C) \div D = m \div (C * D)
    BY <1>2, <2>2, <2>6, DivDiv
  <2>8. m \div Pow2[W - 1 - i] = y
    BY <2>1, <2>2, <2>4, <2>5, <2>7, Zenon
  <2>9. J = 2 * Pow2[i] /\ Pow2[i] \in Nat
    <3>1. i \in Nat
      BY <1>4
    <3>. QED
      BY <3>1, Pow2Is, Pow2Nat DEF J, j
  <2>10. y % 2 = 1
    <3>. DEFINE p == Pow2[i]
    <3>. HIDE DEF p
    <3>1. p \in Nat /\ y = 2 * p - 1 /\ p # 0
      BY <2>2, <2>9 DEF p
    <3>. HIDE DEF y
    <3>. QED
      BY <3>1
  <2>. QED
    BY <2>8, <2>10, Zenon DEF Bit
<1>5. ASSUME NEW i \in 0 .. (W - 1), ~ (i < n) PROVE ~ Bit(m, W - 1 - i)
  <2>. DEFINE e == W - 1 - i
              j == i - n
              D == Pow2[e]
              J == Pow2[j]
              y == x * J
  <2>1. e \in Nat /\ j \in Nat /\ c = (j + 1) + e
    BY <1>1, <1>5
  <2>. HIDE DEF e, j
  <2>2. D \in Nat \ {0} /\ J \in Nat \ {0} /\ C = (2 * J) * D
    <3>. DEFINE k == j + 1
    <3>1. k \in Nat /\ Pow2[k] = 2 * J
      BY <2>1, Pow2Is
    <3>. HIDE DEF k
    <3>2. Pow2[k + e] = Pow2[k] * D
      BY <2>1, <3>1, Pow2Adds
    <3>3. D \in Nat \ {0} /\ J \in Nat \ {0}
      BY <2>1, Pow2Nat
    <3>. QED
      BY <2>1, <3>1, <3>2, <3>3 DEF C, k
  <2>. HIDE DEF D, J
  <2>3. y \in Nat /\ m = (2 * y) * D
    BY <1>3, <2>2
  <2>. HIDE DEF y
  <2>4. m \div D = 2 * y
    <3>. DEFINE z == 0
                v == 2 * y
    <3>1. z \in 0 .. D - 1 /\ v \in Nat /\ v * D + z = m
      BY <2>2, <2>3
    <3>. HIDE DEF z, v
    <3>2. (v * D + z) \div D = v
      BY <2>2, <3>1, DivIs
    <3>. QED
      BY <3>1, <3>2 DEF v
  <2>5. (2 * y) % 2 # 1
    BY <2>3
  <2>. QED
    BY <2>4, <2>5, Zenon DEF Bit, D, e
<1>6. \A i \in 0 .. (W - 1) : i < n <=> i \in Prefix(n)
  BY DEF Prefix
<1>7. Prefix(n) \subseteq 0 .. (W - 1)
  BY DEF Prefix
<1>8. \A i : i \in BitSet(m, W) <=> i \in Prefix(n)
  BY <1>4, <1>5, <1>6, <1>7, Zenon DEF BitSet
<1>9. BitSet(m, W) = Prefix(n)
  BY <1>8
<1>. QED
  BY <1>9 DEF m, C, c

(* The number of an IPv6 address, one octet after the other.               *)
LEMMA Number6Walk ==
  ASSUME NEW S, NEW a \in Seq(S), NEW n, n = Len(a)
  PROVE  \E N : /\ N[0] = 0 /\ Number6(a) = N[n]
                /\ \A k \in 1 .. n : N[k] = N[k - 1] * Pow2[OctetBits] + a[k]
PROOF
<1>. DEFINE op == <<"shift">>
            Plus(m, o) == m * Pow2[OctetBits] + o
            Folds(g) == g = [s \in SUBSET (DOMAIN a) |->
                               IF s = {} THEN 0 ELSE Plus(g[s \ {Max(s)}], a[Max(s)])]
            g == CHOOSE g : Folds(g)
<1>0. n \in Nat
  OBVIOUS
<1>d. DOMAIN a = 1 .. n
  OBVIOUS
<1>1. Number6(a) = g[DOMAIN a]
  BY Zenon DEF Number6, FoldLeft, MapThenFoldSet
<1>2. \A m, x : Apply(op, m, x) = Plus(m, x)
  <2>1. op[1] = "shift"
    OBVIOUS
  <2>2. /\ op[1] # "held" /\ op[1] # "read" /\ op[1] # "split" /\ op[1] # "take" /\ op[1] # "add"
        /\ op[1] # "horner" /\ op[1] # "place" /\ op[1] # "weigh"
    BY <2>1
  <2>. HIDE DEF op
  <2>. QED
    BY <2>1, <2>2 DEF Apply
<1>. HIDE DEF op, Plus
<1>3. \A f : Folded(op, 0, a, n, f) <=> Folds(f)
  BY <1>d, <1>2 DEF Folded
<1>. HIDE DEF Folds
<1>4. g = CHOOSE f : Folded(op, 0, a, n, f)
  BY <1>3, Zenon
<1>. HIDE DEF g
<1>5. Ends(op, 0, a, g[1 .. n])
  BY <1>0, <1>4, FoldEnds
<1>6. PICK W : Walk(op, 0, a, n, W) /\ W[n] = g[1 .. n]
  BY <1>5 DEF Ends
<1>7. W[0] = 0 /\ \A k \in 1 .. n : W[k] = Apply(op, W[k - 1], a[k])
  BY <1>6, Zenon DEF Walk
<1>8. Number6(a) = W[n]
  BY <1>1, <1>6, <1>d, Zenon
<1>9. \A k \in 1 .. n : W[k] = W[k - 1] * Pow2[OctetBits] + a[k]
  BY <1>2, <1>7, Zenon DEF Plus
<1>. QED
  BY <1>7, <1>8, <1>9

(* It has V octets, and they are those of the address.                     *)
OctetsOf(x, V, a) ==
  /\ x \in 0 .. Pow2[V * OctetBits] - 1
  /\ \A k \in 1 .. V : a[k] = (x \div Pow2[(V - k) * OctetBits]) % Pow2[OctetBits]

(* That is so for every address.                                           *)
LEMMA Number6Is ==
  ASSUME NEW V \in Nat, NEW a \in [1 .. V -> Octet]
  PROVE  OctetsOf(Number6(a), V, a)
PROOF
<1>. DEFINE w == OctetBits
            p == Pow2[w]
<1>w. w \in Nat /\ p \in Nat \ {0}
  BY WidthAssumption, Pow2Nat
<1>o. Octet = 0 .. p - 1
  BY DEF Octet, MaxOctet
<1>. HIDE DEF w, p
<1>1. a \in Seq(Octet) /\ Len(a) = V /\ \A k \in 1 .. V : a[k] \in 0 .. p - 1
  <2>1. a \in Seq(Octet) /\ Len(a) = V
    OBVIOUS
  <2>2. \A k \in 1 .. V : a[k] \in Octet
    OBVIOUS
  <2>. QED
    BY <1>o, <2>1, <2>2
<1>2. PICK N : /\ N[0] = 0 /\ Number6(a) = N[V]
               /\ \A k \in 1 .. V : N[k] = N[k - 1] * p + a[k]
  <2>1. \E N : /\ N[0] = 0 /\ Number6(a) = N[V]
               /\ \A k \in 1 .. V : N[k] = N[k - 1] * Pow2[OctetBits] + a[k]
    BY <1>1, Number6Walk
  <2>. QED
    BY <2>1 DEF p, w
<1>. DEFINE Fit(k) == N[k] \in Nat /\ N[k] < Pow2[k * w]
            Tops(k) == \A j \in 0 .. k : N[k] \div Pow2[(k - j) * w] = N[j]
            G == {k \in Nat : k <= V => Fit(k) /\ Tops(k)}
<1>3. 0 \in G
  <2>1. 0 * w = 0 /\ (0 - 0) * w = 0
    BY <1>w
  <2>2. Fit(0)
    BY <1>2, <2>1, Pow2Is
  <2>3. ASSUME NEW j \in 0 .. 0 PROVE N[0] \div Pow2[(0 - j) * w] = N[j]
    <3>1. j = 0 /\ 0 \div 1 = 0
      OBVIOUS
    <3>2. Pow2[(0 - j) * w] = 1
      BY <2>1, <3>1, Pow2Is
    <3>. QED
      BY <1>2, <3>1, <3>2
  <2>. HIDE DEF Fit
  <2>. QED
    BY <2>2, <2>3
<1>4. ASSUME NEW k \in G PROVE k + 1 \in G
  <2>n. k \in Nat
    OBVIOUS
  <2>0. k <= V => Fit(k) /\ Tops(k)
    OBVIOUS
  <2>1. ASSUME k + 1 <= V PROVE Fit(k + 1) /\ Tops(k + 1)
    <3>. DEFINE i == k + 1
                c == a[i]
                x == N[k]
                q == Pow2[k * w]
    <3>. HIDE DEF G, Fit, Tops
    <3>1. i \in 1 .. V /\ i - 1 = k /\ k <= V /\ i \in Nat
      BY <2>1, <2>n
    <3>2. Fit(k) /\ Tops(k)
      BY <2>0, <3>1
    <3>3. N[i] = x * p + c /\ c \in 0 .. p - 1
      <4>. HIDE DEF i
      <4>. QED
        BY <1>1, <1>2, <3>1
    <3>4. x \in Nat /\ x < q
      BY <3>2 DEF Fit
    <3>5. k * w \in Nat /\ i * w = k * w + w
      BY <1>w, <2>n
    <3>6. q \in Nat /\ Pow2[i * w] = q * p
      <4>. DEFINE e == k * w
      <4>. HIDE DEF e, i
      <4>1. Pow2[e] \in Nat /\ Pow2[e + w] = Pow2[e] * Pow2[w]
        BY <1>w, <3>5, Pow2Nat, Pow2Adds DEF e
      <4>. QED
        BY <3>5, <4>1 DEF e, p
    <3>. HIDE DEF c, x, q
    <3>7. x * p + c \in Nat /\ x * p + c < q * p
      <4>1. x * p \in Nat /\ (x + 1) * p <= q * p /\ (x + 1) * p = x * p + p /\ q * p \in Nat
        BY <1>w, <3>4, <3>6
      <4>. DEFINE u == x * p
                  v == q * p
      <4>2. u \in Nat /\ v \in Nat /\ u + p <= v
        BY <4>1
      <4>. HIDE DEF u, v
      <4>3. u + c \in Nat /\ u + c < v
        BY <1>w, <3>3, <4>2
      <4>. QED
        BY <4>3 DEF u, v
    <3>8. Fit(i)
      BY <3>3, <3>6, <3>7 DEF Fit
    <3>9. N[i] \div p = x
      <4>1. (x * p + c) \div p = x
        BY <1>w, <3>3, <3>4, DivIs
      <4>. QED
        BY <3>3, <4>1
    <3>. HIDE DEF i
    <3>10. ASSUME NEW j \in 0 .. i PROVE N[i] \div Pow2[(i - j) * w] = N[j]
      <4>1. CASE j = i
        <5>1. (i - j) * w = 0
          BY <1>w, <3>1, <4>1
        <5>2. N[i] \in Nat
          BY <3>8 DEF Fit
        <5>3. N[i] \div 1 = N[i]
          BY <5>2
        <5>. QED
          BY <4>1, <5>1, <5>3, Pow2Is
      <4>2. CASE j # i
        <5>. DEFINE e == (k - j) * w
                    E == Pow2[e]
                    y == N[i]
        <5>1. j \in 0 .. k /\ k - j \in Nat /\ i - j = (k - j) + 1
          BY <2>n, <3>1, <4>2 DEF i
        <5>2. e \in Nat /\ (i - j) * w = w + e
          <6>. DEFINE d == k - j
          <6>1. d \in Nat /\ i - j = d + 1
            BY <5>1
          <6>. HIDE DEF d
          <6>2. d * w \in Nat /\ (d + 1) * w = w + d * w
            BY <1>w, <6>1
          <6>. QED
            BY <6>1, <6>2 DEF d
        <5>3. x \div E = N[j]
          BY <3>2, <5>1 DEF Tops, x
        <5>. HIDE DEF e
        <5>4. E \in Nat \ {0} /\ Pow2[w + e] = p * E
          BY <1>w, <5>2, Pow2Nat, Pow2Adds DEF p
        <5>5. y \in Nat
          BY <3>8 DEF Fit
        <5>. HIDE DEF E, y
        <5>6. (y \div p) \div E = y \div (p * E)
          BY <1>w, <5>4, <5>5, DivDiv
        <5>. QED
          BY <3>9, <5>2, <5>3, <5>4, <5>6, Zenon DEF y
      <4>. QED
        BY <4>1, <4>2
    <3>. QED
      BY <3>8, <3>10, Zenon DEF Tops, i
  <2>. HIDE DEF Fit, Tops
  <2>. QED
    BY <2>1, <2>n
<1>5. G \subseteq Nat
  OBVIOUS
<1>. HIDE DEF G, Fit, Tops
<1>6. \A k \in Nat : k \in G
  BY <1>3, <1>4, <1>5, Induction
<1>7. \A k \in 0 .. V : Fit(k) /\ Tops(k)
  <2>1. \A k \in 0 .. V : k \in Nat /\ k <= V
    OBVIOUS
  <2>. QED
    BY <1>6, <2>1 DEF G
<1>8. Number6(a) \in 0 .. Pow2[V * w] - 1
  <2>. DEFINE x == N[V]
              q == Pow2[V * w]
  <2>1. V \in 0 .. V /\ V * w \in Nat
    BY <1>w
  <2>2. q \in Nat
    BY <2>1, Pow2Nat
  <2>3. x \in Nat /\ x < q
    BY <1>7, <2>1 DEF Fit
  <2>. HIDE DEF x, q
  <2>4. x \in 0 .. q - 1
    BY <2>2, <2>3
  <2>. QED
    BY <1>2, <2>4 DEF x, q
<1>9. ASSUME NEW k \in 1 .. V PROVE a[k] = (Number6(a) \div Pow2[(V - k) * w]) % p
  <2>1. V \in 0 .. V /\ k \in 0 .. V /\ k - 1 \in 0 .. V
    OBVIOUS
  <2>2. N[V] \div Pow2[(V - k) * w] = N[k]
    BY <1>7, <2>1 DEF Tops
  <2>. DEFINE x == N[k - 1]
              c == a[k]
  <2>3. N[k] = x * p + c /\ c \in 0 .. p - 1
    BY <1>1, <1>2
  <2>4. x \in Nat
    BY <1>7, <2>1 DEF Fit
  <2>. HIDE DEF x, c
  <2>5. (x * p + c) % p = c
    BY <1>w, <2>3, <2>4, DivIs
  <2>. QED
    BY <1>2, <2>2, <2>3, <2>5 DEF c
<1>. QED
  BY <1>8, <1>9 DEF OctetsOf, w, p

(* The bits of an IPv6 address are those of its number.                    *)
LEMMA Bits6 ==
  ASSUME NEW V \in Nat \ {0}, NEW a \in [1 .. V -> Octet]
  PROVE  Bits(a) = BitSet(Number6(a), V * OctetBits)
PROOF
<1>. DEFINE x == Number6(a)
            W == V * OctetBits
<1>1. OctetsOf(x, V, a)
  BY Number6Is
<1>. HIDE DEF x
<1>2. a \in Seq(Octet) /\ Len(a) = V
  OBVIOUS
<1>3. W \in Nat
  BY WidthAssumption
<1>4. x \in Nat
  <2>1. Pow2[W] \in Nat
    BY <1>3, Pow2Nat
  <2>2. x \in 0 .. Pow2[W] - 1
    BY <1>1, Zenon DEF OctetsOf
  <2>. QED
    BY <2>1, <2>2
<1>5. \A k \in 1 .. V : a[k] = (x \div Pow2[(V - k) * OctetBits]) % Pow2[OctetBits]
  BY <1>1, Zenon DEF OctetsOf
<1>6. \A i \in 0 .. (V * OctetBits - 1) : i \in Bits(a) <=> Bit(x, V * OctetBits - 1 - i)
  BY <1>2, <1>4, <1>5, BitsAre
<1>7. Bits(a) \subseteq 0 .. (V * OctetBits - 1)
  BY <1>2 DEF Bits
<1>8. Bits(a) = BitSet(x, V * OctetBits)
  BY <1>6, <1>7, Zenon DEF BitSet
<1>. QED
  BY <1>8 DEF x

(* Each bit of an address is one of an octet.                              *)
LEMMA OctetBit ==
  ASSUME NEW V \in Nat, NEW a \in [1 .. V -> Octet], NEW i \in 0 .. V - 1,
         NEW r \in 0 .. OctetBits - 1
  PROVE  i * OctetBits + r \in Bits(a) <=> Bit(a[i + 1], OctetBits - 1 - r)
PROOF
<1>. DEFINE w == OctetBits
            n == i * w + r
<1>w. w \in Nat \ {0} /\ i \in Nat
  BY WidthAssumption
<1>1. n \div w = i /\ n % w = r
  BY <1>w, DivIs
<1>2. n \in 0 .. (V * w - 1)
  <2>. HIDE DEF w
  <2>1. i * w \in Nat /\ (i + 1) * w <= V * w /\ (i + 1) * w = i * w + w /\ V * w \in Nat
    BY <1>w
  <2>. DEFINE u == i * w
              v == V * w
  <2>2. u \in Nat /\ v \in Nat /\ u + w <= v /\ r \in 0 .. w - 1
    BY <2>1 DEF w
  <2>. HIDE DEF u, v
  <2>3. u + r \in 0 .. (v - 1)
    BY <1>w, <2>2
  <2>. QED
    BY <2>3 DEF u, v
<1>3. Len(a) = V
  OBVIOUS
<1>. HIDE DEF n
<1>4. n \in Bits(a) <=> n \in 0 .. (Len(a) * w - 1)
                          /\ (a[n \div w + 1] \div Pow2[w - 1 - (n % w)]) % 2 = 1
  BY Zenon DEF Bits
<1>5. n \in Bits(a) <=> (a[i + 1] \div Pow2[w - 1 - r]) % 2 = 1
  BY <1>1, <1>2, <1>3, <1>4, Zenon
<1>. QED
  BY <1>5, Zenon DEF Bit, n

(* The bits of a single octet.                                             *)
LEMMA SingleBits == ASSUME NEW o \in Octet PROVE Bits(<<o>>) = BitSet(o, OctetBits)
PROOF
<1>. DEFINE V == 1
            a == <<o>>
            w == OctetBits
<1>w. w \in Nat \ {0}
  BY WidthAssumption
<1>1. V \in Nat /\ a \in [1 .. V -> Octet]
  OBVIOUS
<1>. HIDE DEF w
<1>2. V * w = w /\ 0 \in 0 .. V - 1 /\ a[0 + 1] = o /\ \A r \in 0 .. w - 1 : 0 * w + r = r
  BY <1>w
<1>3. Len(a) = V
  OBVIOUS
<1>. HIDE DEF V, a
<1>. DEFINE z == 0
<1>4. z \in 0 .. V - 1
  BY <1>2
<1>. HIDE DEF z
<1>5. \A r \in 0 .. w - 1 : z * w + r \in Bits(a) <=> Bit(a[z + 1], w - 1 - r)
  BY <1>1, <1>4, OctetBit DEF w
<1>6. \A r \in 0 .. w - 1 : r \in Bits(a) <=> Bit(o, w - 1 - r)
  BY <1>2, <1>5, Zenon DEF z
<1>7. Bits(a) \subseteq 0 .. w - 1
  BY <1>2, <1>3 DEF Bits, w
<1>8. Bits(a) = BitSet(o, w)
  BY <1>6, <1>7, Zenon DEF BitSet
<1>. QED
  BY <1>8 DEF a, w

(* Octets with the same bits are the same.                                 *)
LEMMA SameOctets ==
  ASSUME NEW x \in Octet, NEW y \in Octet
  PROVE  x = y <=> \A r \in 0 .. OctetBits - 1 :
                     Bit(x, OctetBits - 1 - r) <=> Bit(y, OctetBits - 1 - r)
PROOF
<1>. DEFINE w == OctetBits
<1>1. w \in Nat /\ w \in 0 .. w
  BY WidthAssumption
<1>2. x \in 0 .. Pow2[w] - 1 /\ y \in 0 .. Pow2[w] - 1
  BY DEF Octet, MaxOctet
<1>3. LeadingSame(x, y, w, w)
  BY <1>1, <1>2, LeadIs
<1>4. Agree(x, y, w, w) <=> x = y
  <2>1. w - w = 0
    BY <1>1
  <2>2. x \in Nat /\ y \in Nat
    BY OctetNat
  <2>3. x \div 1 = x /\ y \div 1 = y
    BY <2>2
  <2>. QED
    BY <2>1, <2>3, Pow2Is DEF Agree
<1>. QED
  BY <1>3, <1>4, Zenon DEF LeadingSame

(* One octet of the comparison of IPv6 addresses.                          *)
SameOctet(a, b, cidr, i) ==
  i * OctetBits < cidr =>
    IF (i + 1) * OctetBits <= cidr THEN a[i + 1] = b[i + 1]
    ELSE Bits(<<a[i + 1]>>) \cap Prefix(cidr % OctetBits)
           = Bits(<<b[i + 1]>>) \cap Prefix(cidr % OctetBits)

(* Its bits.                                                               *)
SameBits(a, b, cidr, i) ==
  \A r \in 0 .. OctetBits - 1 :
    i * OctetBits + r < cidr => (i * OctetBits + r \in Bits(a) <=> i * OctetBits + r \in Bits(b))

(* The octet is compared as far as the prefix reaches.                     *)
LEMMA OctetCompared ==
  ASSUME NEW V \in Nat, NEW a \in [1 .. V -> Octet], NEW b \in [1 .. V -> Octet],
         NEW c \in Nat, NEW i \in 0 .. V - 1
  PROVE  SameOctet(a, b, c, i) <=> SameBits(a, b, c, i)
PROOF
<1>. DEFINE w == OctetBits
            u == i * w
            x == a[i + 1]
            y == b[i + 1]
            E(r) == Bit(x, w - 1 - r) <=> Bit(y, w - 1 - r)
<1>w. w \in Nat \ {0} /\ i \in Nat /\ i + 1 \in 1 .. V
  BY WidthAssumption
<1>o. x \in Octet /\ y \in Octet
  BY <1>w
<1>1. \A r \in 0 .. w - 1 : (u + r \in Bits(a) <=> u + r \in Bits(b)) <=> E(r)
  <2>1. \A r \in 0 .. w - 1 : /\ u + r \in Bits(a) <=> Bit(x, w - 1 - r)
                              /\ u + r \in Bits(b) <=> Bit(y, w - 1 - r)
    BY OctetBit
  <2>. QED
    BY <2>1, Zenon
<1>2. SameBits(a, b, c, i) <=> \A r \in 0 .. w - 1 : u + r < c => E(r)
  BY <1>1, Zenon DEF SameBits
<1>3. SameOctet(a, b, c, i) <=>
        (u < c => IF (i + 1) * w <= c THEN x = y
                  ELSE Bits(<<x>>) \cap Prefix(c % w) = Bits(<<y>>) \cap Prefix(c % w))
  BY Zenon DEF SameOctet
<1>4. u \in Nat /\ (i + 1) * w = u + w
  <2>. HIDE DEF w
  <2>. QED
    BY <1>w
<1>5. x = y <=> \A r \in 0 .. w - 1 : E(r)
  BY <1>o, SameOctets
<1>6. Bits(<<x>>) = BitSet(x, w) /\ Bits(<<y>>) = BitSet(y, w)
  BY <1>o, SingleBits
<1>. HIDE DEF u, x, y, E
<1>7. CASE ~ (u < c)
  <2>. HIDE DEF w
  <2>1. \A r \in 0 .. w - 1 : ~ (u + r < c)
    BY <1>4, <1>7, <1>w
  <2>. QED
    BY <1>2, <1>3, <1>7, <2>1
<1>8. CASE u + w <= c
  <2>1. \A r \in 0 .. w - 1 : u + r < c
    <3>. HIDE DEF w
    <3>. QED
      BY <1>4, <1>8, <1>w
  <2>2. u < c
    BY <1>4, <1>8, <1>w
  <2>. QED
    BY <1>2, <1>3, <1>4, <1>5, <1>8, <2>1, <2>2, Zenon
<1>9. CASE u < c /\ ~ (u + w <= c)
  <2>. DEFINE d == c - u
              X == BitSet(x, w)
              Y == BitSet(y, w)
              R == 0 .. w - 1
  <2>. HIDE DEF w
  <2>1. d \in 0 .. w - 1 /\ c = u + d
    BY <1>4, <1>9, <1>w
  <2>. HIDE DEF d
  <2>2. c % w = d
    <3>1. (i * w + d) % w = d
      BY <1>w, <2>1, DivIs
    <3>. QED
      BY <2>1, <3>1 DEF u
  <2>3. Prefix(d) \subseteq R /\ \A r \in R : r \in Prefix(d) <=> u + r < c
    BY <1>4, <1>w, <2>1 DEF Prefix
  <2>4. \A r \in R : (r \in X <=> r \in Y) <=> E(r)
    BY Zenon DEF BitSet, E
  <2>. HIDE DEF X, Y, R
  <2>5. (X \cap Prefix(d) = Y \cap Prefix(d)) <=> \A r \in Prefix(d) : r \in X <=> r \in Y
    OBVIOUS
  <2>6. (X \cap Prefix(d) = Y \cap Prefix(d)) <=> \A r \in R : u + r < c => E(r)
    BY <2>3, <2>4, <2>5, Zenon
  <2>7. ~ ((i + 1) * w <= c)
    BY <1>4, <1>9
  <2>. QED
    BY <1>2, <1>3, <1>6, <1>9, <2>2, <2>6, <2>7, Zenon DEF X, Y, R
<1>. QED
  BY <1>7, <1>8, <1>9

(* Two IPv6 addresses are compared by their numbers.                       *)
LEMMA Match6Is ==
  ASSUME NEW a \in [1 .. V6Octets -> Octet], NEW b \in [1 .. V6Octets -> Octet],
         NEW c \in 0 .. V6Octets * OctetBits
  PROVE  Match6(a, b, c) <=> Agree(Number6(a), Number6(b), V6Octets * OctetBits, c)
PROOF
<1>. DEFINE w == OctetBits
            V == V6Octets
            W == V * w
            A == Bits(a)
            B == Bits(b)
            E(n) == n \in A <=> n \in B
<1>w. w \in Nat \ {0} /\ V \in Nat \ {0}
  BY WidthAssumption
<1>W. W \in Nat /\ c \in Nat /\ c <= W
  <2>1. W \in Nat
    <3>. HIDE DEF w, V
    <3>. QED
      BY <1>w
  <2>. HIDE DEF W
  <2>. QED
    BY <2>1 DEF W
<1>1. Match6(a, b, c) <=> \A i \in 0 .. V - 1 : SameOctet(a, b, c, i)
  BY Zenon DEF Match6, SameOctet
<1>2. \A i \in 0 .. V - 1 : SameOctet(a, b, c, i) <=> SameBits(a, b, c, i)
  BY <1>w, <1>W, OctetCompared
<1>3. (\A i \in 0 .. V - 1 : SameBits(a, b, c, i)) <=> \A n \in 0 .. c - 1 : E(n)
  <2>. HIDE DEF A, B, w, V, W
  <2>1. ASSUME \A i \in 0 .. V - 1 : SameBits(a, b, c, i), NEW n \in 0 .. c - 1 PROVE E(n)
    <3>. DEFINE i == n \div w
                r == n % w
    <3>1. n \in Nat /\ n < c
      BY <1>W
    <3>2. i \in Nat /\ r \in 0 .. w - 1 /\ n = i * w + r
      BY <1>w, <3>1
    <3>. HIDE DEF i, r
    <3>3. i < V
      <4>1. ASSUME V <= i PROVE FALSE
        <5>1. V * w <= i * w
          BY <1>w, <3>2, <4>1
        <5>. DEFINE u == i * w
        <5>2. u \in Nat
          BY <1>w, <3>2
        <5>. HIDE DEF u
        <5>3. W <= u
          BY <5>1 DEF u, W
        <5>. QED
          BY <1>W, <3>1, <3>2, <5>2, <5>3 DEF u
      <4>. QED
        BY <1>w, <3>2, <4>1
    <3>4. i \in 0 .. V - 1
      BY <1>w, <3>2, <3>3
    <3>5. \A q \in 0 .. w - 1 : i * w + q < c => E(i * w + q)
      BY <2>1, <3>4, Zenon DEF SameBits, A, B, w
    <3>. QED
      BY <3>1, <3>2, <3>5, Zenon
  <2>2. ASSUME \A n \in 0 .. c - 1 : E(n), NEW i \in 0 .. V - 1 PROVE SameBits(a, b, c, i)
    <3>1. ASSUME NEW r \in 0 .. w - 1, i * w + r < c PROVE E(i * w + r)
      <4>. DEFINE u == i * w
      <4>1. u \in Nat /\ r \in Nat
        BY <1>w
      <4>. HIDE DEF u
      <4>2. u + r \in 0 .. c - 1
        BY <1>W, <3>1, <4>1 DEF u
      <4>. HIDE DEF E
      <4>. QED
        BY <2>2, <4>2 DEF u
    <3>. QED
      BY <3>1, Zenon DEF SameBits, A, B, w
  <2>. QED
    BY <2>1, <2>2
<1>4. (A \cap Prefix(c) = B \cap Prefix(c)) <=> \A n \in 0 .. c - 1 : E(n)
  <2>. DEFINE Q == 0 .. c - 1
  <2>1. Prefix(c) = Q
    BY DEF Prefix
  <2>. HIDE DEF Q, A, B
  <2>2. (A \cap Q = B \cap Q) <=> \A n \in Q : n \in A <=> n \in B
    OBVIOUS
  <2>. QED
    BY <2>1, <2>2, Zenon DEF Q
<1>5. A = BitSet(Number6(a), W) /\ B = BitSet(Number6(b), W)
  BY <1>w, Bits6
<1>6. SamePrefix(Number6(a), Number6(b), W, c)
  <2>. DEFINE x == Number6(a)
              y == Number6(b)
  <2>1. OctetsOf(x, V, a) /\ OctetsOf(y, V, b)
    BY <1>w, Number6Is
  <2>. HIDE DEF x, y
  <2>2. x \in 0 .. Pow2[W] - 1 /\ y \in 0 .. Pow2[W] - 1
    BY <2>1, Zenon DEF OctetsOf
  <2>3. c \in 0 .. W
    OBVIOUS
  <2>. HIDE DEF W
  <2>4. SamePrefix(x, y, W, c)
    BY <1>W, <2>2, <2>3, PrefixIs
  <2>. QED
    BY <2>4 DEF x, y
<1>. HIDE DEF A, B, E
<1>7. (A \cap Prefix(c) = B \cap Prefix(c)) <=> Agree(Number6(a), Number6(b), W, c)
  BY <1>5, <1>6, Zenon DEF SamePrefix
<1>. QED
  BY <1>1, <1>2, <1>3, <1>4, <1>7, Zenon

(* strtol returns an integer.                                              *)
LEMMA StrtoInt == ASSUME NEW s \in Seq(STRING) PROVE strto(s).value \in Int
PROOF
<1>. DEFINE C == STRING
            white == {" "}
            m == Leading(s, white)
            u == After(s, m)
            t == IF u # << >> /\ u[1] \in {"+", "-"} THEN Tail(u) ELSE u
            d == Leading(t, Decimals)
            x == SubSeq(t, 1, d)
<1>s. s \in Seq(C)
  OBVIOUS
<1>. HIDE DEF C, white
<1>2. m \in 0 .. Len(s)
  BY <1>s, LeadingIs
<1>. HIDE DEF m
<1>4. u \in Seq(C)
  BY <1>s, <1>2, AfterIs
<1>. HIDE DEF u
<1>6. t \in Seq(C)
  <2>1. u # << >> => Tail(u) \in Seq(C)
    BY <1>4
  <2>. QED
    BY <1>4, <2>1
<1>. HIDE DEF t
<1>7. d \in 0 .. Len(t) /\ \A k \in 1 .. d : t[k] \in Decimals
  BY <1>6, LeadingIs
<1>. HIDE DEF d
<1>8. x \in Seq(C) /\ Len(x) = d /\ \A k \in 1 .. d : x[k] = t[k]
  <2>. DEFINE one == 1
              l == Len(t)
  <2>1. one \in Int /\ d \in Int /\ l \in Nat /\ d <= l
    BY <1>6, <1>7
  <2>2. \A k \in one .. d : t[k] \in C
    <3>1. \A k \in one .. d : k \in 1 .. l
      BY <2>1
    <3>. QED
      BY <1>6, <3>1, ElementOfSeq
  <2>. HIDE DEF one, l
  <2>3. /\ SubSeq(t, one, d) \in Seq(C)
        /\ Len(SubSeq(t, one, d)) = IF one <= d THEN d - one + 1 ELSE 0
        /\ \A k \in 1 .. d - one + 1 : SubSeq(t, one, d)[k] = t[one + k - 1]
    BY <2>1, <2>2, SubSeqProperties
  <2>4. x = SubSeq(t, one, d)
    BY DEF one
  <2>. HIDE DEF x
  <2>5. Len(x) = d /\ d - one + 1 = d
    BY <1>7, <2>3, <2>4 DEF one
  <2>6. ASSUME NEW k \in 1 .. d PROVE x[k] = t[k]
    <3>1. one + k - 1 = k
      BY DEF one
    <3>. QED
      BY <2>3, <2>4, <2>5, <3>1
  <2>. QED
    BY <2>3, <2>4, <2>5, <2>6
<1>. HIDE DEF x
<1>9. Reading(x) \in Nat
  <2>. DEFINE op == <<"read">>
  <2>1. Ends(op, 0, x, Reading(x))
    BY <1>8, ReadingEnds
  <2>2. \A a, c : Apply(op, a, c) = 10 * a + Value(c)
    BY DEF Apply
  <2>. HIDE DEF op
  <2>3. PICK H : Walk(op, 0, x, d, H) /\ H[d] = Reading(x)
    BY <1>8, <2>1 DEF Ends
  <2>. DEFINE b == 10
  <2>4. Horner(x, b, H)
    BY <1>8, <2>2, <2>3 DEF Walk, Horner
  <2>5. Valid(x, b, d)
    <3>1. \A k \in 1 .. d : x[k] \in Decimals
      BY <1>7, <1>8
    <3>2. \A k \in 1 .. d : Digit(x[k], 10)
      BY <3>1 DEF Decimals, Digit
    <3>. QED
      BY <3>2 DEF Valid
  <2>6. b \in 1 .. 16 /\ d \in 0 .. d
    BY <1>7
  <2>. HIDE DEF b
  <2>7. H[d] \in Nat
    BY <1>8, <2>4, <2>5, <2>6, HornerNat
  <2>. QED
    BY <2>3, <2>7
<1>10. strto(s).value = IF d = 0 THEN 0 ELSE IF u[1] = "-" THEN - Reading(x) ELSE Reading(x)
  <2>. DEFINE v == IF u[1] = "-" THEN - Reading(x) ELSE Reading(x)
              e == After(t, d)
  <2>1. strto(s) = IF d = 0 THEN [value |-> 0, end |-> s] ELSE [value |-> v, end |-> e]
    BY Zenon DEF strto, Reading, d, t, u, m, white, x
  <2>. HIDE DEF v, e
  <2>. QED
    BY <2>1 DEF v
<1>. QED
  BY <1>9, <1>10

(* The length of a prefix as it is read.                                   *)
LengthRead(mask, width, long, c) ==
  \/ c = Invalid /\ Lengths(mask, width, long) = {}
  \/ c \in 0 .. width /\ Lengths(mask, width, long) = {c}

(* Without a mask it is the width.                                         *)
LEMMA CidrIs ==
  ASSUME NEW mask \in Seq(STRING), NEW width \in Nat, NEW long \in Nat
  PROVE  LengthRead(mask, width, long,
                    IF mask = NoText THEN width ELSE Cidr(mask, width, long))
PROOF
<1>1. CASE mask = NoText
  BY <1>1 DEF LengthRead, Lengths
<1>2. CASE mask # NoText
  <2>. DEFINE n == strto(mask).value
              m == Pow2[long]
              v == strtoul(mask, long)
              whole == strto(mask).end = << >>
              L == Lengths(mask, width, long)
  <2>1. n \in Int /\ m \in Nat \ {0}
    BY StrtoInt, Pow2Nat
  <2>2. v = IF n >= m \/ n <= -m THEN m - 1 ELSE IF n < 0 THEN n + m ELSE n
    BY DEF strtoul
  <2>3. Cidr(mask, width, long) = IF ~ whole \/ v > width THEN Invalid ELSE v
    BY DEF Cidr
  <2>4. L = {k \in 0 .. width : whole /\ v = k}
    BY <1>2 DEF Lengths
  <2>. HIDE DEF n, m, v, whole, L
  <2>5. v \in Nat
    BY <2>1, <2>2
  <2>6. CASE ~ whole \/ v > width
    <3>1. L = {}
      BY <2>4, <2>5, <2>6
    <3>. QED
      BY <1>2, <2>3, <2>6, <3>1 DEF LengthRead, L
  <2>7. CASE whole /\ ~ (v > width)
    <3>1. v \in 0 .. width
      BY <2>5, <2>7
    <3>2. L = {v}
      BY <2>4, <2>7, <3>1
    <3>. QED
      BY <1>2, <2>3, <2>7, <3>1, <3>2 DEF LengthRead, L
  <2>. QED
    BY <2>6, <2>7
<1>. QED
  BY <1>1, <1>2

(* The empty text is no address of either family.                          *)
LEMMA EmptyText == Denotes(<< >>) = Invalid /\ inet_pton6(<< >>) = {}
PROOF
<1>. DEFINE e == << >>
            one == <<e>>
            op == <<"split">>
<1>0. e \in Seq(STRING)
  OBVIOUS
<1>1. Parts(e) = one
  <2>1. Ends(op, one, e, Parts(e))
    BY <1>0, PartsEnds
  <2>. HIDE DEF op, one
  <2>2. Ends(op, one, e, one)
    BY EndsEmpty
  <2>3. Len(e) \in Nat
    OBVIOUS
  <2>. HIDE DEF e
  <2>. QED
    BY <2>1, <2>2, <2>3, OneEnd
<1>2. Len(one) = 1 /\ one[1] = e
  OBVIOUS
<1>3. ~ IsNumber(e)
  <2>1. Base(e) = 10
    BY DEF Base
  <2>2. Digits(e) = << >>
    <3>1. Digits(e) = SubSeq(e, 1, 0)
      BY <2>1 DEF Digits
    <3>. QED
      BY <3>1
  <2>3. e # <<"0">>
    OBVIOUS
  <2>. HIDE DEF e
  <2>. QED
    BY <2>2, <2>3 DEF IsNumber
<1>. HIDE DEF one, e
<1>4. 1 \in 1 .. Len(one)
  BY <1>2
<1>5. Denotes(e) = Invalid
  BY <1>1, <1>2, <1>3, <1>4, Zenon DEF Denotes
<1>6. ASSUME NEW x \in V6Addrs PROVE inet_ntop6(x) # e
  <2>. DEFINE V == V6Octets
              sep == ":"
  <2>1. x \in [1 .. V -> Octet] /\ V \in Nat \ {0} /\ sep \in Marks
    BY V6Assumption, WidthAssumption DEF Marks
  <2>2. x \in [1 .. V -> Nat]
    BY <2>1, OctetNat
  <2>3. PICK g : Joined(sep, x, V, g) /\ inet_ntop6(x) = g[V]
    BY <2>1, <2>2, Ntop6Joined
  <2>. HIDE DEF sep, V
  <2>4. V \in 1 .. V /\ V \in Nat
    BY <2>1
  <2>5. Len(g[V]) >= 1
    BY <2>1, <2>2, <2>3, <2>4, JoinedText
  <2>6. Len(e) = 0
    BY DEF e
  <2>. QED
    BY <2>3, <2>5, <2>6
<1>. QED
  BY <1>5, <1>6, Zenon DEF inet_pton6, e

(* No mask is the one that stands for an unreadable mask.                  *)
LEMMA MaskRead ==
  /\ \A n \in Nat : Prefix(n) # NoMask
  /\ \A x, W : BitSet(x, W) # NoMask
PROOF
<1>1. -1 \in NoMask
  BY DEF NoMask
<1>2. \A n \in Nat : -1 \notin Prefix(n)
  BY DEF Prefix
<1>3. \A x, W : -1 \notin BitSet(x, W)
  <2>1. \A x, W : \A i \in BitSet(x, W) : i \in 0 .. (W - 1)
    BY DEF BitSet
  <2>2. \A m : -1 \notin 0 .. m
    OBVIOUS
  <2>. QED
    BY <2>1, <2>2, Zenon
<1>. QED
  BY <1>1, <1>2, <1>3, Zenon

(* IPv4 addresses x and y under a mask that is not dotted,                 *)
Compared4(x, y, mask, long) ==
  LET m4 == Mask4(mask, long)
  IN m4 # NoMask /\ Bits(htonl(x)) \cap m4 = Bits(htonl(y)) \cap m4

(* are compared by the leading bits;                                       *)
PlainRight(x, y, mask, long) ==
  Compared4(x, y, mask, long) <=>
    \E n \in Lengths(mask, AddrBits, long) : Agree(x, y, AddrBits, n)

(* under a dotted mask, by the bits of the mask.                           *)
DottedRight(x, y, mask, long) ==
  /\ Compared4(x, y, mask, long) <=> inet_aton(mask, long) # Invalid
                                       /\ Masked(x, y, inet_aton(mask, long))
  /\ \A n \in 0 .. AddrBits : inet_aton(mask, long) = Pow2[AddrBits] - Pow2[AddrBits - n]
       => (Compared4(x, y, mask, long) <=> Agree(x, y, AddrBits, n))

(* A mask that is not dotted.                                              *)
LEMMA Plain4 ==
  ASSUME NEW x \in 0 .. MaxAddr, NEW y \in 0 .. MaxAddr, NEW mask \in Seq(STRING),
         NEW long \in Nat, "." \notin ToSet(mask)
  PROVE  PlainRight(x, y, mask, long)
PROOF
<1>. DEFINE W == AddrBits
            c == IF mask = NoText THEN W ELSE Cidr(mask, W, long)
            m4 == Mask4(mask, long)
            L == Lengths(mask, W, long)
<1>0. W \in Nat
  BY WidthAssumption DEF AddrBits
<1>1. m4 = IF c = Invalid THEN NoMask ELSE Prefix(c)
  <2>1. W # Invalid
    BY <1>0 DEF Invalid
  <2>2. CASE mask = NoText
    BY <2>1, <2>2 DEF Mask4
  <2>3. CASE mask # NoText
    BY <2>3 DEF Mask4
  <2>. QED
    BY <2>2, <2>3
<1>2. LengthRead(mask, W, long, c)
  <2>. HIDE DEF W
  <2>. QED
    BY <1>0, CidrIs
<1>3. x \in Nat /\ y \in Nat /\ x \in 0 .. Pow2[W] - 1 /\ y \in 0 .. Pow2[W] - 1
  <2>1. MaxAddr \in Nat /\ MaxAddr = Pow2[W] - 1
    BY <1>0, OctetsFit DEF MaxAddr
  <2>. QED
    BY <2>1
<1>4. Bits(htonl(x)) = BitSet(x, W) /\ Bits(htonl(y)) = BitSet(y, W)
  BY <1>3, HtonlBits
<1>5. Compared4(x, y, mask, long) <=> m4 # NoMask /\ BitSet(x, W) \cap m4 = BitSet(y, W) \cap m4
  BY <1>4, Zenon DEF Compared4
<1>. HIDE DEF W, c, m4, L
<1>6. CASE c = Invalid /\ L = {}
  BY <1>1, <1>5, <1>6 DEF PlainRight, L, W
<1>7. CASE c \in 0 .. W /\ L = {c}
  <2>1. c \in Nat /\ c # Invalid
    BY <1>0, <1>7 DEF Invalid
  <2>2. SamePrefix(x, y, W, c)
    BY <1>0, <1>3, <1>7, PrefixIs
  <2>3. m4 = Prefix(c) /\ m4 # NoMask
    BY <1>1, <2>1, MaskRead
  <2>4. Compared4(x, y, mask, long) <=> Agree(x, y, W, c)
    BY <1>5, <2>2, <2>3, Zenon DEF SamePrefix
  <2>5. (\E n \in L : Agree(x, y, W, n)) <=> Agree(x, y, W, c)
    BY <1>7, Zenon
  <2>. QED
    BY <2>4, <2>5, Zenon DEF PlainRight, L, W
<1>. QED
  BY <1>2, <1>6, <1>7, Zenon DEF LengthRead, L

(* A dotted mask.                                                          *)
LEMMA Dotted4 ==
  ASSUME NEW x \in 0 .. MaxAddr, NEW y \in 0 .. MaxAddr, NEW mask \in Seq(STRING),
         NEW long \in Nat, "." \in ToSet(mask),
         NEW m, m = inet_aton(mask, long), m = Invalid \/ m \in 0 .. MaxAddr
  PROVE  DottedRight(x, y, mask, long)
PROOF
<1>. DEFINE W == AddrBits
            m4 == Mask4(mask, long)
<1>0. W \in Nat /\ MaxAddr \in Nat /\ MaxAddr = Pow2[W] - 1
  <2>1. W \in Nat
    BY WidthAssumption DEF AddrBits
  <2>. QED
    BY <2>1, OctetsFit DEF MaxAddr
<1>1. mask # NoText
  <2>1. "." \notin ToSet(NoText)
    BY DEF NoText, ToSet
  <2>. QED
    BY <2>1, Zenon
<1>2. m4 = IF m = Invalid THEN NoMask ELSE Bits(htonl(m))
  BY <1>1 DEF Mask4
<1>3. x \in Nat /\ y \in Nat /\ x \in 0 .. Pow2[W] - 1 /\ y \in 0 .. Pow2[W] - 1
  BY <1>0
<1>4. Bits(htonl(x)) = BitSet(x, W) /\ Bits(htonl(y)) = BitSet(y, W)
  BY <1>3, HtonlBits
<1>5. Compared4(x, y, mask, long) <=> m4 # NoMask /\ BitSet(x, W) \cap m4 = BitSet(y, W) \cap m4
  BY <1>4, Zenon DEF Compared4
<1>6. m # Invalid => m4 = BitSet(m, W) /\ m4 # NoMask
  <2>. SUFFICES ASSUME m # Invalid PROVE m4 = BitSet(m, W) /\ m4 # NoMask
    OBVIOUS
  <2>1. m \in Nat
    BY <1>0
  <2>2. Bits(htonl(m)) = BitSet(m, W)
    BY <2>1, HtonlBits
  <2>. HIDE DEF m4
  <2>3. m4 = BitSet(m, W)
    BY <1>2, <2>2
  <2>. QED
    BY <2>3, MaskRead
<1>. HIDE DEF m4
<1>7. Compared4(x, y, mask, long) <=> m # Invalid /\ Masked(x, y, m)
  <2>1. SameMasked(x, y, m)
    BY MaskIs
  <2>2. CASE m = Invalid
    BY <1>2, <1>5, <2>2, Zenon
  <2>3. CASE m # Invalid
    BY <1>5, <1>6, <2>1, <2>3, Zenon DEF SameMasked
  <2>. QED
    BY <2>2, <2>3
<1>8. ASSUME NEW n \in 0 .. W, m = Pow2[W] - Pow2[W - n]
      PROVE  Compared4(x, y, mask, long) <=> Agree(x, y, W, n)
  <2>. HIDE DEF W
  <2>1. BitSet(m, W) = Prefix(n)
    <3>1. BitSet(Pow2[W] - Pow2[W - n], W) = Prefix(n)
      BY <1>0, LeadingMask
    <3>. QED
      BY <1>8, <3>1, Zenon
  <2>2. m # Invalid
    <3>. DEFINE e == W - n
                p == Pow2[e]
                q == Pow2[W]
    <3>1. e \in Nat /\ e <= W
      BY <1>0
    <3>. HIDE DEF e
    <3>2. p \in Nat /\ q \in Nat /\ p <= q
      BY <1>0, <3>1, Pow2Nat, Pow2Grows
    <3>3. m = q - p
      BY <1>8 DEF e
    <3>. HIDE DEF p, q
    <3>. QED
      BY <3>2, <3>3 DEF Invalid
  <2>3. SamePrefix(x, y, W, n)
    BY <1>0, <1>3, PrefixIs
  <2>. QED
    BY <1>5, <1>6, <2>1, <2>2, <2>3, Zenon DEF SamePrefix
<1>. QED
  BY <1>7, <1>8, Zenon DEF DottedRight

(* IPv6 addresses are compared by their leading bits.                      *)
LEMMA Compared6 ==
  ASSUME NEW a, NEW b, NEW mask \in Seq(STRING), NEW long \in Nat,
         NEW w, w = V6Octets * OctetBits,
         NEW c, c = IF mask = NoText THEN w ELSE Cidr(mask, w, long)
  PROVE  (\E x \in inet_pton6(a), y \in inet_pton6(b) : c # Invalid /\ Match6(x, y, c))
           <=> (\E x \in inet_pton6(a), y \in inet_pton6(b), n \in Lengths(mask, w, long) :
                  Agree(Number6(x), Number6(y), w, n))
PROOF
<1>. DEFINE L == Lengths(mask, w, long)
<1>0. w \in Nat
  BY WidthAssumption
<1>1. LengthRead(mask, w, long, c)
  BY <1>0, CidrIs
<1>2. \A x \in inet_pton6(a) : x \in [1 .. V6Octets -> Octet]
  BY V6Assumption DEF inet_pton6
<1>3. \A y \in inet_pton6(b) : y \in [1 .. V6Octets -> Octet]
  BY V6Assumption DEF inet_pton6
<1>. HIDE DEF L
<1>4. CASE c = Invalid /\ L = {}
  BY <1>4, Zenon DEF L
<1>5. CASE c \in 0 .. w /\ L = {c}
  <2>1. c # Invalid
    BY <1>0, <1>5 DEF Invalid
  <2>2. \A x \in inet_pton6(a), y \in inet_pton6(b) :
          Match6(x, y, c) <=> Agree(Number6(x), Number6(y), w, c)
    BY <1>2, <1>3, <1>5, Match6Is
  <2>. QED
    BY <1>5, <2>1, <2>2, Zenon DEF L
<1>. QED
  BY <1>1, <1>4, <1>5, Zenon DEF LengthRead, L

(* network_addr_match compares the bits its mask asks for, and only those, *)
(* for all addresses and masks of both families, lax masks excepted.       *)
THEOREM MatchesAreExact == Spec => []MatchExact
PROOF
<1>1. Answered => MatchExact
  <2>. SUFFICES ASSUME Answered, pc = "done", call.fn = "addr_match" PROVE MatchExact
    BY DEF MatchExact
  <2>. DEFINE sa == call.a
              sb == call.b
              mask == call.mask
              long == call.long
              a == Denotes(sa)
              b == Denotes(sb)
              m == Denotes(mask)
              w == V6Octets * OctetBits
              dotted == "." \in ToSet(mask)
              a4 == inet_aton(sa, long)
              b4 == inet_aton(sb, long)
              c == IF mask = NoText THEN w ELSE Cidr(mask, w, long)
              e == << >>
  <2>1. result = network_addr_match(sa, sb, mask, long) /\ call \in Calls
    BY DEF Answered, Asked, Answer
  <2>2. /\ sa \in Seq(STRING) /\ sb \in Seq(STRING) /\ mask \in Seq(STRING)
        /\ long \in Nat /\ AddrBits <= long
    BY <2>1, CallsAssumption
  <2>. DEFINE fine == ~ (Excepted(sa) \/ Excepted(sb) \/ (dotted /\ Excepted(mask))
                           \/ Lax(mask))
              first == result <=>
               IF a # Invalid /\ b # Invalid
               THEN \/ dotted /\ m # Invalid /\ Masked(a, b, m)
                    \/ ~ dotted /\ \E n \in Lengths(mask, AddrBits, long) :
                         Agree(a, b, AddrBits, n)
               ELSE \E x \in inet_pton6(sa), y \in inet_pton6(sb),
                       n \in Lengths(mask, w, long) :
                      Agree(Number6(x), Number6(y), w, n)
              second == \A n \in 0 .. AddrBits :
               a # Invalid /\ b # Invalid /\ dotted /\ m = Pow2[AddrBits] - Pow2[AddrBits - n]
                 => (result <=> Agree(a, b, AddrBits, n))
  <2>3. MatchExact <=> (fine => first /\ second)
    BY Zenon DEF MatchExact
  <2>4. result <=> /\ sa # e /\ sb # e
                   /\ IF a4 # Invalid /\ b4 # Invalid
                      THEN Compared4(a4, b4, mask, long)
                      ELSE \E x \in inet_pton6(sa), y \in inet_pton6(sb) :
                             c # Invalid /\ Match6(x, y, c)
    BY <2>1, Zenon DEF network_addr_match, Compared4
  <2>. HIDE DEF sa, sb, mask, long
  <2>5. ASSUME fine PROVE first /\ second
    <3>1. a4 = a /\ b4 = b /\ (dotted => inet_aton(mask, long) = m)
      <4>1. AtonRight(sa, long) /\ AtonRight(sb, long) /\ AtonRight(mask, long)
        BY <2>2, AtonIs
      <4>2. /\ ~ (BareHex(sa) \/ Wraps(sa, long)) /\ ~ (BareHex(sb) \/ Wraps(sb, long))
            /\ dotted => ~ (BareHex(mask) \/ Wraps(mask, long))
        BY <2>5, Zenon DEF Excepted, long
      <4>. QED
        BY <4>1, <4>2, Zenon DEF AtonRight
    <3>2. /\ a # Invalid => a \in 0 .. MaxAddr
          /\ b # Invalid => b \in 0 .. MaxAddr
          /\ m # Invalid => m \in 0 .. MaxAddr
      BY <2>2, DenotesAddress
    <3>. HIDE DEF a, b, m, a4, b4, dotted, w, c, e
    <3>3. CASE a # Invalid /\ b # Invalid
      <4>1. sa # e /\ sb # e
        BY <3>3, EmptyText, Zenon DEF a, b, e
      <4>2. result <=> Compared4(a, b, mask, long)
        BY <2>4, <3>1, <3>3, <4>1, Zenon
      <4>3. CASE dotted
        <5>1. DottedRight(a, b, mask, long)
          BY <2>2, <3>1, <3>2, <3>3, <4>3, Dotted4 DEF dotted
        <5>. QED
          BY <3>1, <3>3, <4>2, <4>3, <5>1, Zenon DEF DottedRight
      <4>4. CASE ~ dotted
        <5>1. PlainRight(a, b, mask, long)
          BY <2>2, <3>2, <3>3, <4>4, Plain4 DEF dotted
        <5>. QED
          BY <3>3, <4>2, <4>4, <5>1, Zenon DEF PlainRight
      <4>. QED
        BY <4>3, <4>4
    <3>4. CASE ~ (a # Invalid /\ b # Invalid)
      <4>. DEFINE six == \E x \in inet_pton6(sa), y \in inet_pton6(sb) :
                           c # Invalid /\ Match6(x, y, c)
                  seven == \E x \in inet_pton6(sa), y \in inet_pton6(sb),
                              n \in Lengths(mask, w, long) : Agree(Number6(x), Number6(y), w, n)
      <4>1. six <=> seven
        <5>1. w = V6Octets * OctetBits /\ c = IF mask = NoText THEN w ELSE Cidr(mask, w, long)
          BY DEF w, c
        <5>. QED
          BY <2>2, <5>1, Compared6
      <4>2. six => sa # e /\ sb # e
        BY EmptyText, Zenon DEF e
      <4>. HIDE DEF six, seven
      <4>3. result <=> sa # e /\ sb # e /\ six
        BY <2>4, <3>1, <3>4, Zenon DEF six
      <4>4. result <=> seven
        BY <4>1, <4>2, <4>3, Zenon
      <4>5. first
        BY <3>4, <4>4, Zenon DEF seven
      <4>6. second
        BY <3>4, Zenon
      <4>. QED
        BY <4>5, <4>6
    <3>. QED
      BY <3>3, <3>4
  <2>. QED
    BY <2>3, <2>5
<1>. QED
  BY <1>1, AnsweredAlways, PTL
=============================================================================
