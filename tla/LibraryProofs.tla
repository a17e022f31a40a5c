--------------------------- MODULE LibraryProofs ----------------------------
(***************************************************************************)
(* Proofs about the library. Messages, for every list of handlers, every   *)
(* cleanup function and any depth of messages about messages: what is      *)
(* reported is delivered, and a fatal message ends the process. Vectors,   *)
(* for strings and texts of every length and any sequence of operations:   *)
(* the memory they hold, and what splitting and joining do to a text.      *)
(***************************************************************************)
EXTENDS Library, FiniteSetTheorems, SequenceTheorems, WellFoundedInduction, TLAPS

-----------------------------------------------------------------------------
(* Induction.  A statement about all natural numbers is proved by showing  *)
(* that the set of the numbers it holds for is closed; that rests on the   *)
(* well-foundedness of <.                                                  *)

(* A set of natural numbers has a least element.                           *)
LEMMA LeastElement ==
  ASSUME NEW T, T \subseteq Nat, T # {}
  PROVE  \E m \in T : \A k \in T : m <= k
PROOF
<1>. DEFINE R == OpToRel(<, Nat)
<1>1. IsWellFoundedOn(R, Nat)
  BY NatLessThanWellFounded
<1>2. \A k, m \in Nat : <<k, m>> \in R <=> k < m
  BY DEF OpToRel
<1>. HIDE DEF R
<1>3. PICK m \in T : \A k \in T : ~ (<<k, m>> \in R)
  BY <1>1, WFMin
<1>4. \A k \in T : k \in Nat /\ m \in Nat /\ ~ (k < m)
  BY <1>2, <1>3, Zenon
<1>5. \A k \in T : m <= k
  BY <1>4
<1>. QED
  BY <1>5

(* A set that contains 0, and with a number its successor, has them all.   *)
LEMMA Induction ==
  ASSUME NEW T, T \subseteq Nat, 0 \in T, \A n \in T : n + 1 \in T
  PROVE  \A n \in Nat : n \in T
PROOF
<1>. SUFFICES ASSUME ~ (\A n \in Nat : n \in T) PROVE FALSE
  OBVIOUS
<1>1. PICK m \in Nat \ T : \A k \in Nat \ T : m <= k
  BY LeastElement
<1>2. m # 0 /\ m - 1 \in Nat /\ ~ (m <= m - 1)
  BY <1>1
<1>3. m - 1 \in T /\ (m - 1) + 1 = m
  BY <1>1, <1>2
<1>. QED
  BY <1>1, <1>3

(* An interval without its last number.                                    *)
LEMMA IntervalStep == ASSUME NEW k \in Nat PROVE (1 .. k + 1) \ {k + 1} = 1 .. k
PROOF
<1>1. \A x : x \in (1 .. k + 1) \ {k + 1} <=> x \in 1 .. k
  OBVIOUS
<1>. QED
  BY <1>1

(* The greatest element of an interval that begins with 1.                 *)
LEMMA MaxElement ==
  ASSUME NEW n \in Nat, NEW s \in SUBSET (1 .. n + 1), n + 1 \in s
  PROVE  Max(s) = n + 1
PROOF
<1>1. \A y \in s : n + 1 >= y
  OBVIOUS
<1>2. \A x \in s : (\A y \in s : x >= y) => x = n + 1
  OBVIOUS
<1>. QED
  BY <1>1, <1>2 DEF Max

-----------------------------------------------------------------------------
(* Sequences.                                                              *)

(* A sequence without its last element.                                    *)
LEMMA WithoutLast ==
  ASSUME NEW S, NEW s \in Seq(S), s # << >>, NEW t, t = SubSeq(s, 1, Len(s) - 1)
  PROVE  /\ Len(s) \in Nat \ {0} /\ t \in Seq(S) /\ Len(t) = Len(s) - 1
         /\ \A k \in 1 .. Len(t) : t[k] = s[k]
PROOF
<1>. DEFINE n == Len(s)
<1>1. n \in Nat \ {0}
  BY EmptySeq
<1>2. n - 1 \in Int /\ 1 \in Int /\ \A k \in 1 .. n - 1 : s[k] \in S
  BY <1>1, ElementOfSeq
<1>. HIDE DEF n
<1>3. /\ t \in Seq(S) /\ Len(t) = IF 1 <= n - 1 THEN (n - 1) - 1 + 1 ELSE 0
      /\ \A k \in 1 .. (n - 1) - 1 + 1 : t[k] = s[1 + k - 1]
  BY <1>2, SubSeqProperties DEF n
<1>4. Len(t) = n - 1 /\ \A k \in 1 .. n - 1 : t[k] = s[k]
  BY <1>1, <1>3
<1>. QED
  BY <1>1, <1>3, <1>4 DEF n

(* The values of f at 1 .. m, one more.                                    *)
LEMMA OneMore ==
  ASSUME NEW f, NEW m \in Nat \ {0}, NEW x, x = [k \in 1 .. m - 1 |-> f[k]]
  PROVE  x \o <<f[m]>> = [k \in 1 .. m |-> f[k]]
PROOF
<1>. DEFINE S == {f[k] : k \in 1 .. m}
            e == f[m]
<1>1. e \in S /\ \A k \in 1 .. m - 1 : f[k] \in S
  OBVIOUS
<1>. HIDE DEF S, e
<1>2. x \in Seq(S) /\ Len(x) = m - 1
  BY <1>1, m - 1 \in Nat
<1>3. x \o <<e>> = Append(x, e)
  BY <1>1, <1>2
<1>4. /\ Append(x, e) \in Seq(S) /\ Len(Append(x, e)) = m
      /\ \A k \in 1 .. m : Append(x, e)[k] = f[k]
  BY <1>1, <1>2 DEF e
<1>. DEFINE y == Append(x, e)
<1>5. y = [k \in 1 .. Len(y) |-> y[k]]
  <2>. HIDE DEF y
  <2>. QED
    BY <1>4 DEF y
<1>. HIDE DEF y
<1>6. y = [k \in 1 .. m |-> f[k]]
  BY <1>4, <1>5 DEF y
<1>. QED
  BY <1>3, <1>6 DEF y, e

-----------------------------------------------------------------------------
(* Messages.                                                               *)

Handlers == {"stdout", "stderr", "syslog"}
Errnos == {"0", "error", ENOMEM}
Frame == [fn : MessageFunctions, error : Errnos, entry : Errnos, next : Nat,
          sent : Seq([to : Handlers, error : Errnos]), ok : BOOLEAN]

(* The values the variables of Messages range over.                        *)
MessageType ==
  /\ lists \in [Lists -> Seq(Handlers)]
  /\ memory \in [Lists -> {"static", "heap", "freed"}]
  /\ stack \in Seq(Frame)
  /\ alloc \in [list : Lists \cup {"none", "other"}, was : {"none", "static", "heap", "freed"},
                want : Seq(Handlers), size : {"none", "some", "zero", "never"}]
  /\ cleanup \in Cleanups /\ retry \in BOOLEAN
  /\ ended \in {Running, Undefined} \cup Nat

(* What a message function has sent: to each handler before the next one,  *)
(* in order, with the errno of its caller or none.                         *)
Sent(ls, f) ==
  /\ f.error = Saved(f.fn, f.entry)
  /\ f.next <= Len(ls[list_of[f.fn]]) + 1
  /\ f.ok => f.sent = [k \in 1 .. f.next - 1 |->
                         [to |-> ls[list_of[f.fn]][k], error |-> f.error]]
AllSent(ls, frames) == \A k \in 1 .. Len(frames) : Sent(ls, frames[k])

(* The last report is about the lists in effect.                           *)
Reported ==
  report.ok => /\ report \in Frame /\ Sent(lists, report)
               /\ report.next = Len(lists[list_of[report.fn]]) + 1

(* Only the list that is being replaced is freed, and it was on the heap.  *)
FreedOnce ==
  /\ \A l \in Lists : memory[l] = "freed" => alloc.list = l /\ alloc.was = "heap"
  /\ alloc.list \in Lists => alloc.size = "some"
  /\ ended = Undefined => alloc.was = "heap"

(* While memory is asked for, no message has been reported, or the fatal   *)
(* one is.                                                                 *)
FatalBottom ==
  alloc # NoAlloc /\ ended = Running =>
    IF stack = << >> THEN ~ report.ok ELSE Fatal(stack[1].fn)

MessageInv == /\ MessageType /\ AllSent(lists, stack)
              /\ Reported /\ FreedOnce /\ FatalBottom

(* Every message function has one of the four lists.                       *)
LEMMA ListOf == ASSUME NEW f \in MessageFunctions PROVE list_of[f] \in Lists
PROOF
  BY DEF list_of, MessageFunctions, Lists

(* The static lists name handlers.                                         *)
LEMMA DefaultType == DefaultHandlers \in [Lists -> Seq(Handlers)]
PROOF
<1>1. /\ << >> \in Seq(Handlers) /\ <<"stdout">> \in Seq(Handlers)
      /\ <<"stderr">> \in Seq(Handlers)
  BY DEF Handlers
<1>2. \A l \in Lists : (CASE l = "debug" -> << >> [] l = "notice" -> <<"stdout">>
                           [] OTHER -> <<"stderr">>) \in Seq(Handlers)
  BY <1>1
<1>. QED
  BY <1>2 DEF DefaultHandlers

(* The process ends with a status that is not one of the marks.            *)
LEMMA ExitStatusIs ==
  ASSUME cleanup \in Cleanups
  PROVE  ExitStatus \in Nat /\ ExitStatus # Running /\ ExitStatus # Undefined
PROOF
  BY CleanupsAssumption DEF ExitStatus, NoCleanup, Running, Undefined

(* The innermost function and those below it.                              *)
LEMMA TopIs ==
  ASSUME NEW ls, stack \in Seq(Frame), AllSent(ls, stack), stack # << >>
  PROVE  /\ Len(stack) \in Nat \ {0} /\ Top \in Frame /\ Sent(ls, Top)
         /\ Below \in Seq(Frame) /\ Len(Below) = Len(stack) - 1
         /\ \A k \in 1 .. Len(Below) : Below[k] = stack[k]
         /\ AllSent(ls, Below)
PROOF
<1>1. Len(stack) \in Nat \ {0} /\ Len(stack) \in 1 .. Len(stack)
  BY EmptySeq
<1>2. Top \in Frame /\ Sent(ls, Top)
  BY <1>1, ElementOfSeq DEF Top, AllSent
<1>3. /\ Below \in Seq(Frame) /\ Len(Below) = Len(stack) - 1
      /\ \A k \in 1 .. Len(Below) : Below[k] = stack[k]
  BY WithoutLast DEF Below
<1>4. \A k \in 1 .. Len(Below) : k \in 1 .. Len(stack)
  BY <1>1, <1>3
<1>. QED
  BY <1>1, <1>2, <1>3, <1>4 DEF AllSent

(* A function that is called has sent nothing yet.                         *)
LEMMA Pushed ==
  ASSUME NEW ls \in [Lists -> Seq(Handlers)], NEW st \in Seq(Frame), AllSent(ls, st),
         NEW f \in MessageFunctions, NEW e \in Errnos
  PROVE  /\ Append(st, Entered(f, e)) \in Seq(Frame)
         /\ AllSent(ls, Append(st, Entered(f, e)))
PROOF
<1>. DEFINE E == Entered(f, e)
            n == Len(ls[list_of[f]])
<1>1. E \in Frame
  BY DEF Entered, Saved, Frame, Errnos
<1>2. n \in Nat
  BY ListOf
<1>3. Sent(ls, E)
  <2>1. /\ E.error = Saved(f, e) /\ E.entry = e /\ E.fn = f
        /\ E.next = 0 /\ E.sent = << >>
    BY DEF Entered
  <2>2. [k \in 1 .. E.next - 1 |-> [to |-> ls[list_of[f]][k], error |-> E.error]] = << >>
    BY <2>1
  <2>. HIDE DEF E
  <2>3. E.next <= n + 1
    BY <1>2, <2>1
  <2>. QED
    BY <2>1, <2>2, <2>3 DEF Sent
<1>. HIDE DEF E
<1>. DEFINE w == Append(st, E)
<1>4. w \in Seq(Frame) /\ Len(w) = Len(st) + 1 /\ Len(st) \in Nat
  BY <1>1
<1>5. \A k \in 1 .. Len(w) : w[k] = IF k \in 1 .. Len(st) THEN st[k] ELSE E
  BY <1>1, <1>4
<1>. HIDE DEF w
<1>6. AllSent(ls, w)
  BY <1>3, <1>5 DEF AllSent
<1>. QED
  BY <1>4, <1>6 DEF w, E

(* The innermost function goes on to the next handler of its list; if it   *)
(* reported nothing to this one, it is not ok any more.                    *)
LEMMA Advanced ==
  ASSUME NEW ls \in [Lists -> Seq(Handlers)], stack \in Seq(Frame), AllSent(ls, stack),
         stack # << >>, Top.next \in 1 .. Len(ls[list_of[Top.fn]]),
         NEW r, r = << >> \/ r = <<[to |-> ls[list_of[Top.fn]][Top.next], error |-> Top.error]>>
  PROVE  /\ Advance(r) \in Seq(Frame) /\ AllSent(ls, Advance(r))
         /\ Len(Advance(r)) = Len(stack)
         /\ \A k \in 1 .. Len(stack) : Advance(r)[k].fn = stack[k].fn
PROOF
<1>. DEFINE n == Len(stack)
            A == [Top EXCEPT !.next = Top.next + 1, !.sent = Top.sent \o r, !.ok = Top.ok /\ r # << >>]
            l == ls[list_of[Top.fn]]
<1>1. /\ n \in Nat \ {0} /\ Top \in Frame /\ Sent(ls, Top) /\ n \in 1 .. n
      /\ stack = [k \in 1 .. n |-> stack[k]]
  BY TopIs
<1>2. l \in Seq(Handlers)
  BY <1>1, ListOf DEF Frame
<1>3. Advance(r) = [k \in 1 .. n |-> IF k = n THEN A ELSE stack[k]]
  BY <1>1 DEF Advance, Top, Frame
<1>4. /\ Top.next \in Nat /\ Top.fn \in MessageFunctions /\ Top.ok \in BOOLEAN
      /\ Top.error \in Errnos /\ Top.sent \in Seq([to : Handlers, error : Errnos])
  BY <1>1 DEF Frame
<1>. DEFINE R == [to |-> l[Top.next], error |-> Top.error]
<1>5. Top.next \in 1 .. Len(l) /\ l[Top.next] \in Handlers /\ Top.next \in Nat \ {0}
  BY <1>2, <1>4
<1>6. R \in [to : Handlers, error : Errnos] /\ (r = << >> \/ r = <<R>>)
  BY <1>4, <1>5
<1>7. Top.sent \o r \in Seq([to : Handlers, error : Errnos])
  <2>. DEFINE S == [to : Handlers, error : Errnos]
              x == Top.sent
  <2>. HIDE DEF R, S, x
  <2>1. x \in Seq(S) /\ R \in S /\ (r = << >> \/ r = <<R>>)
    BY <1>4, <1>6 DEF S, x
  <2>2. r \in Seq(S)
    <3>1. << >> \in Seq(S) /\ <<R>> \in Seq(S)
      BY <2>1
    <3>. QED
      BY <2>1, <3>1, Zenon
  <2>3. x \o r \in Seq(S)
    BY <2>1, <2>2, ConcatProperties
  <2>. QED
    BY <2>3 DEF S, x
<1>8. A \in Frame
  <2>. DEFINE ok == Top.ok /\ r # << >>
              sent == Top.sent \o r
              next == Top.next + 1
  <2>1. ok \in BOOLEAN /\ next \in Nat
    BY <1>4
  <2>. HIDE DEF ok, sent, next
  <2>2. [Top EXCEPT !.next = next, !.sent = sent, !.ok = ok] \in Frame
    BY <1>1, <1>7, <2>1 DEF Frame, sent
  <2>. QED
    BY <2>2 DEF ok, sent, next
<1>9. /\ A.fn = Top.fn /\ A.error = Top.error /\ A.entry = Top.entry /\ A.next = Top.next + 1
      /\ A.ok = (Top.ok /\ r # << >>) /\ A.sent = Top.sent \o r
  BY <1>1 DEF Frame
<1>10. Sent(ls, A)
  <2>1. A.next <= Len(l) + 1
    BY <1>2, <1>4, <1>5, <1>9
  <2>2. ASSUME A.ok
        PROVE  A.sent = [k \in 1 .. A.next - 1 |-> [to |-> l[k], error |-> A.error]]
    <3>1. Top.ok /\ r # << >>
      BY <1>9, <2>2
    <3>2. r = <<R>>
      BY <1>6, <3>1
    <3>. DEFINE m == Top.next
                F(k) == [to |-> l[k], error |-> Top.error]
    <3>3. Top.sent = [k \in 1 .. m - 1 |-> F(k)] /\ m \in Nat \ {0} /\ R = F(m)
      BY <1>1, <1>5, <3>1 DEF Sent
    <3>4. A.next = m + 1 /\ A.error = Top.error /\ A.sent = Top.sent \o <<R>>
      BY <1>9, <3>2
    <3>. HIDE DEF A, R, m, F, l
    <3>5. [k \in 1 .. m - 1 |-> F(k)] \o <<F(m)>> = [k \in 1 .. m |-> F(k)]
      <4>. DEFINE f == [k \in 1 .. m |-> F(k)]
      <4>1. /\ [k \in 1 .. m - 1 |-> F(k)] = [k \in 1 .. m - 1 |-> f[k]]
            /\ [k \in 1 .. m |-> F(k)] = [k \in 1 .. m |-> f[k]] /\ F(m) = f[m]
        BY <3>3
      <4>. HIDE DEF f
      <4>. QED
        BY <3>3, <4>1, OneMore
    <3>6. A.sent = [k \in 1 .. m |-> F(k)] /\ A.next - 1 = m
      BY <3>3, <3>4, <3>5
    <3>. QED
      BY <3>4, <3>6 DEF F
  <2>. HIDE DEF A
  <2>. QED
    BY <1>1, <1>9, <2>1, <2>2 DEF Sent
<1>. HIDE DEF A, l
<1>11. \A k \in 1 .. n : stack[k] \in Frame
  BY <1>1
<1>. DEFINE w == Advance(r)
<1>12. w \in Seq(Frame) /\ Len(w) = n /\ \A k \in 1 .. n : w[k] = IF k = n THEN A ELSE stack[k]
  BY <1>1, <1>3, <1>8, <1>11
<1>. HIDE DEF w
<1>13. AllSent(ls, w)
  BY <1>10, <1>12 DEF AllSent
<1>14. \A k \in 1 .. n : w[k].fn = stack[k].fn
  BY <1>9, <1>12 DEF Top
<1>. QED
  BY <1>12, <1>13, <1>14 DEF w

(* The length is known, and the innermost function comes to its first      *)
(* handler.                                                                *)
LEMMA Begun ==
  ASSUME NEW ls \in [Lists -> Seq(Handlers)], stack \in Seq(Frame), AllSent(ls, stack),
         stack # << >>, Top.next = 0
  PROVE  /\ Started \in Seq(Frame) /\ AllSent(ls, Started) /\ Len(Started) = Len(stack)
         /\ \A k \in 1 .. Len(stack) : Started[k].fn = stack[k].fn
PROOF
<1>. DEFINE n == Len(stack)
            A == [Top EXCEPT !.next = 1]
            l == ls[list_of[Top.fn]]
<1>1. /\ n \in Nat \ {0} /\ Top \in Frame /\ Sent(ls, Top) /\ n \in 1 .. n
      /\ stack = [k \in 1 .. n |-> stack[k]]
  BY TopIs
<1>2. l \in Seq(Handlers) /\ Len(l) \in Nat
  BY <1>1, ListOf DEF Frame
<1>3. Started = [k \in 1 .. n |-> IF k = n THEN A ELSE stack[k]]
  BY <1>1 DEF Started, Top, Frame
<1>4. A \in Frame
  BY <1>1 DEF Frame
<1>5. /\ A.fn = Top.fn /\ A.error = Top.error /\ A.entry = Top.entry /\ A.next = 1
      /\ A.ok = Top.ok /\ A.sent = Top.sent
  BY <1>1 DEF Frame
<1>6. Sent(ls, A)
  <2>1. 1 .. Top.next - 1 = {} /\ 1 .. A.next - 1 = {}
    BY <1>5
  <2>2. A.next <= Len(l) + 1
    BY <1>2, <1>5
  <2>. HIDE DEF A, l
  <2>3. A.ok => A.sent = [k \in 1 .. A.next - 1 |-> [to |-> l[k], error |-> A.error]]
    BY <1>1, <1>5, <2>1 DEF Sent, l
  <2>. QED
    BY <1>1, <1>5, <2>2, <2>3 DEF Sent, l
<1>. HIDE DEF A, l
<1>7. \A k \in 1 .. n : stack[k] \in Frame
  BY <1>1
<1>. DEFINE w == Started
<1>8. w \in Seq(Frame) /\ Len(w) = n /\ \A k \in 1 .. n : w[k] = IF k = n THEN A ELSE stack[k]
  BY <1>1, <1>3, <1>4, <1>7
<1>. HIDE DEF w
<1>9. AllSent(ls, w)
  BY <1>6, <1>8 DEF AllSent
<1>10. \A k \in 1 .. n : w[k].fn = stack[k].fn
  BY <1>5, <1>8 DEF Top
<1>. QED
  BY <1>8, <1>9, <1>10 DEF w

(* The actions of Messages keep the invariant: first the ones of a message *)
(* that has been begun.                                                    *)
LEMMA MessageStepsInv ==
  ASSUME MessageInv, MessageSteps, errno' \in Errnos PROVE MessageInv'
PROOF
<1>0. /\ lists \in [Lists -> Seq(Handlers)] /\ stack \in Seq(Frame)
      /\ AllSent(lists, stack) /\ cleanup \in Cleanups
  BY DEF MessageInv, MessageType
<1>e. ExitStatus \in Nat /\ ExitStatus # Running /\ ExitStatus # Undefined
  BY <1>0, ExitStatusIs
<1>t. ASSUME stack # << >>
      PROVE  /\ Len(stack) \in Nat \ {0} /\ Top \in Frame /\ Sent(lists, Top)
             /\ Below \in Seq(Frame) /\ Len(Below) = Len(stack) - 1
             /\ \A k \in 1 .. Len(Below) : Below[k] = stack[k]
             /\ AllSent(lists, Below)
  BY <1>0, <1>t, TopIs
<1>b. ASSUME ended = Running, stack # << >>, alloc # NoAlloc
      PROVE  /\ Fatal(stack[1].fn)
             /\ Below = << >> => Fatal(Top.fn)
             /\ Below # << >> => Fatal(Below[1].fn)
  <2>1. Fatal(stack[1].fn)
    BY <1>b DEF MessageInv, FatalBottom
  <2>2. Below = << >> => Len(stack) = 1
    BY <1>t, <1>b
  <2>3. Below # << >> => 1 \in 1 .. Len(Below)
    BY <1>t, <1>b, EmptySeq
  <2>. QED
    BY <1>t, <1>b, <2>1, <2>2, <2>3 DEF Top
<1>1. CASE NoLength
  <2>1. /\ ended = Running /\ stack # << >> /\ stack' = Below
        /\ report' = [Top EXCEPT !.ok = FALSE]
        /\ ended' = (IF Fatal(Top.fn) THEN ExitStatus ELSE Running)
        /\ UNCHANGED <<lists, memory, alloc, cleanup, retry>>
    BY <1>1 DEF NoLength, Formatting
  <2>2. MessageType'
    BY <1>t, <1>e, <2>1 DEF MessageInv, MessageType
  <2>3. AllSent(lists, stack)'
    BY <1>t, <2>1
  <2>4. ~ report'.ok
    BY <1>t, <2>1 DEF Frame
  <2>5. FreedOnce'
    BY <1>e, <2>1 DEF MessageInv, FreedOnce, Running, Undefined
  <2>6. FatalBottom'
    BY <1>b, <1>e, <2>1, <2>4 DEF FatalBottom
  <2>. QED
    BY <2>2, <2>3, <2>4, <2>5, <2>6 DEF MessageInv, Reported
<1>2. CASE SyslogNoMemory
  <2>1. /\ stack # << >> /\ report' = [Top EXCEPT !.ok = FALSE] /\ ended' = ExitStatus
        /\ UNCHANGED <<lists, memory, stack, alloc, cleanup, retry>>
    BY <1>2 DEF SyslogNoMemory, AtHandler
  <2>2. MessageType'
    BY <1>e, <2>1 DEF MessageInv, MessageType
  <2>3. AllSent(lists, stack)'
    BY <1>0, <2>1
  <2>4. ~ report'.ok
    BY <1>t, <2>1 DEF Frame
  <2>5. FreedOnce'
    BY <1>e, <2>1 DEF MessageInv, FreedOnce
  <2>6. FatalBottom'
    BY <1>e, <2>1 DEF FatalBottom
  <2>. QED
    BY <2>2, <2>3, <2>4, <2>5, <2>6 DEF MessageInv, Reported
<1>3. CASE SyslogNoFormat
  <2>. DEFINE a == Advance(<< >>)
  <2>1. /\ ended = Running /\ stack # << >> /\ Top.next \in 1 .. Len(lists[list_of[Top.fn]])
        /\ stack' = Append(a, Entered("warn", errno'))
        /\ UNCHANGED <<lists, memory, alloc, cleanup, retry, ended, report>>
    BY <1>3 DEF SyslogNoFormat, AtHandler, List
  <2>2. /\ a \in Seq(Frame) /\ AllSent(lists, a) /\ Len(a) = Len(stack)
        /\ \A k \in 1 .. Len(stack) : a[k].fn = stack[k].fn
    <3>1. stack # << >> /\ Top.next \in 1 .. Len(lists[list_of[Top.fn]])
      BY <2>1
    <3>. QED
      BY <1>0, <3>1, Advanced
  <2>. HIDE DEF a
  <2>3. "warn" \in MessageFunctions
    BY DEF MessageFunctions, Lists
  <2>4. stack' \in Seq(Frame) /\ AllSent(lists, stack')
    BY <1>0, <2>1, <2>2, <2>3, Pushed
  <2>5. stack' # << >> /\ stack'[1].fn = stack[1].fn
    <3>. DEFINE E == Entered("warn", errno')
    <3>. HIDE DEF E
    <3>1. 1 \in 1 .. Len(a) /\ 1 \in 1 .. Len(stack)
      BY <1>t, <2>1, <2>2
    <3>2. stack' = Append(a, E) /\ stack'[1] = a[1] /\ stack' # << >>
      BY <2>1, <2>2, <3>1 DEF E
    <3>. QED
      BY <2>2, <3>1, <3>2
  <2>. QED
    BY <2>1, <2>4, <2>5
    DEF MessageInv, MessageType, Reported, FreedOnce, FatalBottom
<1>4. CASE UseFreed
  <2>1. /\ stack # << >> /\ memory[List] = "freed" /\ ended' = Undefined
        /\ UNCHANGED <<lists, memory, stack, alloc, cleanup, retry, report>>
    BY <1>4 DEF UseFreed
  <2>2. List \in Lists
    BY <1>t, <2>1, ListOf DEF List, Frame
  <2>3. FreedOnce'
    BY <2>1, <2>2 DEF MessageInv, FreedOnce
  <2>4. Undefined # Running
    BY DEF Undefined, Running
  <2>. QED
    BY <2>1, <2>3, <2>4
    DEF MessageInv, MessageType, Reported, FatalBottom
<1>5. CASE Finish
  <2>1. /\ ended = Running /\ stack # << >> /\ stack' = Below /\ report' = Top
        /\ Top.next > Len(lists[list_of[Top.fn]])
        /\ ended' = (IF Fatal(Top.fn) THEN ExitStatus ELSE Running)
        /\ UNCHANGED <<lists, memory, alloc, cleanup, retry>>
    BY <1>5 DEF Finish, List
  <2>2. MessageType'
    BY <1>t, <1>e, <2>1 DEF MessageInv, MessageType
  <2>3. AllSent(lists, stack)'
    BY <1>t, <2>1
  <2>4. Reported'
    <3>1. Top.fn \in MessageFunctions /\ Top.next \in Nat
      BY <1>t, <2>1 DEF Frame
    <3>2. Len(lists[list_of[Top.fn]]) \in Nat
      BY <1>0, <3>1, ListOf
    <3>3. Top.next <= Len(lists[list_of[Top.fn]]) + 1
      BY <1>t, <2>1 DEF Sent
    <3>4. Top.next = Len(lists[list_of[Top.fn]]) + 1
      BY <2>1, <3>1, <3>2, <3>3
    <3>. QED
      BY <1>t, <2>1, <3>4 DEF Reported
  <2>5. FreedOnce'
    BY <1>e, <2>1 DEF MessageInv, FreedOnce, Running, Undefined
  <2>6. FatalBottom'
    BY <1>b, <1>e, <2>1 DEF FatalBottom
  <2>. QED
    BY <2>2, <2>3, <2>4, <2>5, <2>6 DEF MessageInv
<1>6. ASSUME NEW h \in Handlers, Log(h) PROVE MessageInv'
  <2>. DEFINE r == <<[to |-> h, error |-> Top.error]>>
              a == Advance(r)
  <2>1. /\ stack # << >> /\ Top.next \in 1 .. Len(lists[list_of[Top.fn]])
        /\ lists[list_of[Top.fn]][Top.next] = h /\ stack' = a
        /\ UNCHANGED <<lists, memory, alloc, cleanup, retry, ended, report>>
    BY <1>6 DEF Log, AtHandler, List
  <2>2. r = <<[to |-> lists[list_of[Top.fn]][Top.next], error |-> Top.error]>>
    BY <2>1
  <2>. HIDE DEF r
  <2>3. /\ a \in Seq(Frame) /\ AllSent(lists, a) /\ Len(a) = Len(stack)
        /\ \A k \in 1 .. Len(stack) : a[k].fn = stack[k].fn
    BY <1>0, <2>1, <2>2, Advanced
  <2>. HIDE DEF a
  <2>4. stack' # << >> /\ stack'[1].fn = stack[1].fn
    <3>1. Len(stack) \in Nat \ {0} /\ 1 \in 1 .. Len(stack)
      BY <1>t, <2>1
    <3>. QED
      BY <2>1, <2>3, <3>1
  <2>. QED
    BY <2>1, <2>3, <2>4
    DEF MessageInv, MessageType, Reported, FreedOnce, FatalBottom
<1>7. CASE Length
  <2>1. /\ stack # << >> /\ Top.next = 0
        /\ stack' = Started
        /\ UNCHANGED <<lists, memory, alloc, cleanup, retry, ended, report>>
    BY <1>7 DEF Length, Formatting
  <2>2. /\ stack' \in Seq(Frame) /\ AllSent(lists, stack') /\ Len(stack') = Len(stack)
        /\ \A k \in 1 .. Len(stack) : stack'[k].fn = stack[k].fn
    BY <1>0, <2>1, Begun
  <2>3. stack' # << >> /\ stack'[1].fn = stack[1].fn
    <3>1. Len(stack) \in Nat \ {0} /\ 1 \in 1 .. Len(stack)
      BY <1>t, <2>1
    <3>. QED
      BY <2>2, <3>1
  <2>. QED
    BY <2>1, <2>2, <2>3
    DEF MessageInv, MessageType, Reported, FreedOnce, FatalBottom
<1>. QED
  BY <1>1, <1>2, <1>3, <1>4, <1>5, <1>6, <1>7 DEF MessageSteps, Handlers

(* A call of a message function from the program.                          *)
LEMMA SayInv ==
  ASSUME MessageInv, NEW f \in MessageFunctions, NEW e \in {"0", "error"}, Say(f, e)
  PROVE  MessageInv'
PROOF
<1>1. /\ ended = Running /\ stack = << >> /\ alloc = NoAlloc /\ report' = NoReport
      /\ stack' = Append(stack, Entered(f, e))
      /\ UNCHANGED <<lists, memory, alloc, cleanup, retry, ended>>
  BY DEF Say, Idle, Call
<1>2. e \in Errnos
  BY DEF Errnos
<1>3. stack' \in Seq(Frame) /\ AllSent(lists, stack')
  BY <1>1, <1>2, Pushed DEF MessageInv, MessageType
<1>4. ~ report'.ok
  BY <1>1 DEF NoReport
<1>. QED
  BY <1>1, <1>3, <1>4
  DEF MessageInv, MessageType, Reported, FreedOnce, FatalBottom

(* Nothing is in progress: no list is freed, no function on the stack.     *)
LEMMA IdleIs ==
  ASSUME MessageInv, Idle
  PROVE  stack = << >> /\ ended = Running /\ alloc = NoAlloc
         /\ \A l \in Lists : memory[l] \in {"static", "heap"}
PROOF
<1>1. alloc.list \notin Lists
  BY DEF Idle, NoAlloc, Lists
<1>. QED
  BY <1>1 DEF MessageInv, MessageType, FreedOnce, Idle

(* A list is replaced, or all of them are.                                 *)
LEMMA HandlersInv ==
  ASSUME MessageInv, NEW l \in Lists, NEW funcs \in HandlerLists, message_handlers(l, funcs)
  PROVE  MessageInv'
PROOF
<1>1. /\ Idle /\ memory' = [memory EXCEPT ![l] = Freed(memory[l])]
      /\ alloc' = [list |-> l, was |-> memory[l], want |-> funcs, size |-> "some"]
      /\ report' = NoReport /\ UNCHANGED <<lists, stack, cleanup, retry, ended>>
  BY DEF message_handlers
<1>2. /\ stack = << >> /\ ended = Running /\ alloc = NoAlloc
      /\ \A k \in Lists : memory[k] \in {"static", "heap"}
  BY <1>1, IdleIs
<1>3. funcs \in Seq(Handlers)
  BY HandlerListsAssumption DEF Handlers
<1>4. MessageType'
  BY <1>1, <1>2, <1>3 DEF MessageInv, MessageType, Freed
<1>5. ~ report'.ok
  BY <1>1 DEF NoReport
<1>6. FreedOnce'
  <2>1. ended' # Undefined
    BY <1>1, <1>2 DEF Running, Undefined
  <2>2. memory \in [Lists -> {"static", "heap", "freed"}]
    BY DEF MessageInv, MessageType
  <2>. QED
    BY <1>1, <1>2, <2>1, <2>2 DEF FreedOnce, Freed
<1>7. FatalBottom'
  BY <1>1, <1>2, <1>5 DEF FatalBottom
<1>8. AllSent(lists, stack)' /\ Reported'
  BY <1>1, <1>5 DEF MessageInv, Reported
<1>. QED
  BY <1>4, <1>6, <1>7, <1>8 DEF MessageInv

(* The static lists are in effect again.                                   *)
LEMMA ResetInv == ASSUME MessageInv, message_handlers_reset PROVE MessageInv'
PROOF
<1>1. /\ Idle /\ memory' = [l \in Lists |-> "static"] /\ lists' = DefaultHandlers
      /\ report' = NoReport /\ UNCHANGED <<stack, alloc, cleanup, retry, ended>>
  BY DEF message_handlers_reset
<1>2. stack = << >> /\ ended = Running /\ alloc = NoAlloc
  BY <1>1, IdleIs
<1>3. DefaultHandlers \in [Lists -> Seq(Handlers)]
  BY DefaultType
<1>4. MessageType'
  BY <1>1, <1>2, <1>3 DEF MessageInv, MessageType
<1>5. ~ report'.ok
  BY <1>1 DEF NoReport
<1>6. FreedOnce'
  <2>1. ended' # Undefined
    BY <1>1, <1>2 DEF Running, Undefined
  <2>. QED
    BY <1>1, <2>1 DEF MessageInv, FreedOnce
<1>7. AllSent(lists, stack)'
  <2>1. stack' = << >>
    BY <1>1, <1>2
  <2>2. 1 .. Len(stack') = {}
    BY <2>1
  <2>. QED
    BY <2>2 DEF AllSent
<1>. QED
  BY <1>1, <1>2, <1>4, <1>5, <1>6, <1>7 DEF MessageInv, Reported, FatalBottom

(* The allocators.                                                         *)
LEMMA AllocateInv ==
  ASSUME MessageInv, NEW size \in {"some", "zero", "never"}, Allocate(size)
  PROVE  MessageInv'
PROOF
<1>1. /\ Idle /\ alloc' = [list |-> "other", was |-> "none", want |-> << >>, size |-> size]
      /\ report' = NoReport /\ UNCHANGED <<lists, memory, stack, cleanup, retry, ended>>
  BY DEF Allocate
<1>2. /\ stack = << >> /\ ended = Running /\ alloc = NoAlloc
      /\ \A k \in Lists : memory[k] \in {"static", "heap"}
  BY <1>1, IdleIs
<1>3. MessageType'
  BY <1>1 DEF MessageInv, MessageType
<1>4. ~ report'.ok
  BY <1>1 DEF NoReport
<1>5. FreedOnce'
  <2>1. ended' # Undefined
    BY <1>1, <1>2 DEF Running, Undefined
  <2>. QED
    BY <1>1, <1>2, <2>1 DEF FreedOnce, Lists
<1>. QED
  BY <1>1, <1>2, <1>3, <1>4, <1>5 DEF MessageInv, Reported, FatalBottom

(* An allocation that returns memory keeps the invariant.                  *)
LEMMA AllocatedInv == ASSUME MessageInv, Allocated PROVE MessageInv'
PROOF
<1>1. /\ ended = Running /\ stack = << >> /\ alloc # NoAlloc /\ alloc' = NoAlloc
      /\ UNCHANGED <<stack, cleanup, retry, ended, report>>
  BY DEF Allocated, Allocating
<1>2. ~ report.ok
  BY <1>1 DEF MessageInv, FatalBottom
<1>3. /\ lists \in [Lists -> Seq(Handlers)] /\ alloc.want \in Seq(Handlers)
      /\ memory \in [Lists -> {"static", "heap", "freed"}]
      /\ alloc.list \in Lists \cup {"none", "other"}
      /\ \A l \in Lists : memory[l] = "freed" => alloc.list = l
  BY DEF MessageInv, MessageType, FreedOnce
<1>4. /\ lists' \in [Lists -> Seq(Handlers)]
      /\ memory' \in [Lists -> {"static", "heap", "freed"}]
      /\ \A l \in Lists : memory'[l] # "freed"
  <2>1. CASE alloc.list = "other"
    <3>1. UNCHANGED <<lists, memory>> /\ "other" \notin Lists
      BY <2>1 DEF Allocated, Lists
    <3>. QED
      BY <1>3, <2>1, <3>1
  <2>2. CASE alloc.list # "other"
    <3>1. /\ lists' = [lists EXCEPT ![alloc.list] = alloc.want]
          /\ memory' = [memory EXCEPT ![alloc.list] = "heap"]
      BY <2>2 DEF Allocated
    <3>. QED
      BY <1>3, <2>2, <3>1
  <2>. QED
    BY <2>1, <2>2
<1>5. NoAlloc \in [list : Lists \cup {"none", "other"}, was : {"none", "static", "heap", "freed"},
                   want : Seq(Handlers), size : {"none", "some", "zero", "never"}]
  BY DEF NoAlloc
<1>6. MessageType'
  BY <1>1, <1>4, <1>5 DEF MessageInv, MessageType
<1>7. FreedOnce'
  <2>1. ended' # Undefined
    BY <1>1 DEF Running, Undefined
  <2>2. alloc'.list \notin Lists
    BY <1>1 DEF NoAlloc, Lists
  <2>. QED
    BY <1>4, <2>1, <2>2 DEF FreedOnce
<1>8. AllSent(lists, stack)'
  <2>1. 1 .. Len(stack') = {}
    BY <1>1
  <2>. QED
    BY <2>1 DEF AllSent
<1>. QED
  BY <1>1, <1>2, <1>6, <1>7, <1>8 DEF MessageInv, Reported, FatalBottom

(* So does x_realloc to a size of 0, which may return nothing.             *)
LEMMA AllocatedNothingInv == ASSUME MessageInv, AllocatedNothing PROVE MessageInv'
PROOF
<1>1. /\ ended = Running /\ stack = << >> /\ alloc # NoAlloc /\ alloc' = NoAlloc
      /\ alloc.size = "zero"
      /\ UNCHANGED <<lists, memory, stack, cleanup, retry, ended, report>>
  BY DEF AllocatedNothing, Allocating
<1>2. ~ report.ok
  BY <1>1 DEF MessageInv, FatalBottom
<1>3. NoAlloc \in [list : Lists \cup {"none", "other"}, was : {"none", "static", "heap", "freed"},
                   want : Seq(Handlers), size : {"none", "some", "zero", "never"}]
  BY DEF NoAlloc
<1>4. MessageType'
  BY <1>1, <1>3 DEF MessageInv, MessageType
<1>5. FreedOnce'
  <2>1. ended' # Undefined
    BY <1>1 DEF Running, Undefined
  <2>2. alloc'.list \notin Lists
    BY <1>1 DEF NoAlloc, Lists
  <2>3. \A l \in Lists : memory[l] # "freed"
    BY <1>1 DEF MessageInv, FreedOnce
  <2>. QED
    BY <1>1, <2>1, <2>2, <2>3 DEF FreedOnce
<1>. QED
  BY <1>1, <1>2, <1>4, <1>5 DEF MessageInv, Reported, FatalBottom

(* And one that fails, whose fatal message is put on the stack.            *)
LEMMA AllocationFailsInv == ASSUME MessageInv, AllocationFails PROVE MessageInv'
PROOF
<1>1. /\ ended = Running /\ stack = << >> /\ alloc # NoAlloc
      /\ stack' = stack \/ stack' = Append(stack, Entered("sysdie", ENOMEM))
      /\ UNCHANGED <<lists, memory, alloc, cleanup, retry, ended, report>>
  BY DEF AllocationFails, Allocating, Call
<1>2. CASE stack' = stack
  BY <1>1, <1>2 DEF MessageInv, MessageType, Reported, FreedOnce, FatalBottom
<1>3. CASE stack' = Append(stack, Entered("sysdie", ENOMEM))
  <2>1. "sysdie" \in MessageFunctions /\ ENOMEM \in Errnos
    BY DEF MessageFunctions, Errnos
  <2>2. stack' \in Seq(Frame) /\ AllSent(lists, stack')
    BY <1>3, <2>1, Pushed DEF MessageInv, MessageType
  <2>3. stack' # << >> /\ stack'[1] = Entered("sysdie", ENOMEM)
    BY <1>1, <1>3
  <2>4. Fatal(stack'[1].fn)
    BY <2>3 DEF Entered, Fatal
  <2>. QED
    BY <1>1, <2>2, <2>3, <2>4
    DEF MessageInv, MessageType, Reported, FreedOnce, FatalBottom
<1>. QED
  BY <1>1, <1>2, <1>3

(* The start of the program.                                               *)
LEMMA InitMessageInv == LibraryInit => MessageInv
PROOF
<1>. SUFFICES ASSUME MessagesInit PROVE MessageInv
  BY DEF LibraryInit
<1>1. DefaultHandlers \in [Lists -> Seq(Handlers)]
  BY DefaultType
<1>2. NoAlloc \in [list : Lists \cup {"none", "other"}, was : {"none", "static", "heap", "freed"},
                   want : Seq(Handlers), size : {"none", "some", "zero", "never"}]
  BY DEF NoAlloc
<1>3. MessageType
  BY <1>1, <1>2 DEF MessagesInit, MessageType
<1>4. AllSent(lists, stack)
  <2>1. 1 .. Len(stack) = {}
    BY DEF MessagesInit
  <2>. QED
    BY <2>1 DEF AllSent
<1>5. FreedOnce
  BY DEF MessagesInit, FreedOnce, NoAlloc, Lists, Running, Undefined
<1>6. Reported /\ FatalBottom
  BY DEF MessagesInit, Reported, FatalBottom, NoReport
<1>. QED
  BY <1>3, <1>4, <1>5, <1>6 DEF MessageInv

(* errno is 0, what a caller found, or what a step has set it to.          *)
ErrnoType == errno \in Errnos

(* Every step keeps it so.                                                 *)
LEMMA ErrnoNext == ASSUME ErrnoType, [LibraryNext]_libraryVars PROVE ErrnoType'
PROOF
<1>. USE DEF MaySetErrno, Errnos, ErrnoType
<1>1. CASE MessageSteps
  BY <1>1 DEF MessageSteps, Length, NoLength, SyslogNoMemory, SyslogNoFormat, UseFreed,
     Finish, Log
<1>2. CASE MessagesNext /\ ~ MessageSteps
  BY <1>2 DEF MessagesNext, Allocated, AllocatedNothing, AllocationFails, Call,
     message_handlers_reset, Say, message_handlers, Allocate
<1>3. CASE UNCHANGED messageVars
  BY <1>3 DEF messageVars
<1>. QED
  BY <1>1, <1>2, <1>3 DEF LibraryNext, libraryVars

(* Every step of either program keeps it.                                  *)
LEMMA NextMessageInv ==
  ASSUME MessageInv, ErrnoType, [LibraryNext]_libraryVars PROVE MessageInv'
PROOF
<1>1. CASE MessagesNext
  BY <1>1, ErrnoNext, MessageStepsInv, SayInv, HandlersInv, ResetInv, AllocateInv, AllocatedInv,
     AllocatedNothingInv, AllocationFailsInv DEF MessagesNext, ErrnoType
<1>2. CASE UNCHANGED messageVars
  <2>1. MessageType' /\ AllSent(lists, stack)' /\ Reported'
    BY <1>2 DEF messageVars, MessageInv, MessageType, Reported
  <2>2. FreedOnce' /\ FatalBottom'
    BY <1>2 DEF messageVars, MessageInv, FreedOnce, FatalBottom
  <2>. QED
    BY <2>1, <2>2 DEF MessageInv
<1>. QED
  BY <1>1, <1>2 DEF LibraryNext, libraryVars

(* The invariant holds in every state of every behaviour.                  *)
LEMMA MessageInvariant == LibrarySpec => []MessageInv
PROOF
<1>1. LibraryInit => ErrnoType
  BY DEF LibraryInit, MessagesInit, Errnos, ErrnoType
<1>. QED
  BY <1>1, ErrnoNext, InitMessageInv, NextMessageInv, PTL DEF LibrarySpec

(* A message reaches every handler of its list once, in order, with the    *)
(* errno of its caller or none; a list that has been freed is walked only  *)
(* when a list is replaced for the second time.                            *)
THEOREM MessagesAreDelivered == LibrarySpec => []Delivered
PROOF
<1>1. MessageInv => Delivered
  <2>. SUFFICES ASSUME MessageInv PROVE Delivered
    OBVIOUS
  <2>. DEFINE all == lists[list_of[report.fn]]
              error == Saved(report.fn, report.entry)
  <2>1. ended = Undefined => alloc.was = "heap"
    BY DEF MessageInv, FreedOnce
  <2>2. ASSUME report.ok
        PROVE  report.sent = [k \in DOMAIN all |-> [to |-> all[k], error |-> error]]
    <3>1. report \in Frame /\ Sent(lists, report) /\ report.next = Len(all) + 1
      BY <2>2 DEF MessageInv, Reported
    <3>2. all \in Seq(Handlers)
      BY <3>1, ListOf DEF MessageInv, MessageType, Frame
    <3>3. DOMAIN all = 1 .. report.next - 1
      BY <3>1, <3>2
    <3>. QED
      BY <2>2, <3>1, <3>3 DEF Sent
  <2>. QED
    BY <2>1, <2>2 DEF Delivered
<1>. QED
  BY <1>1, MessageInvariant, PTL

(* No step returns from a fatal message function.                          *)
FatalStays ==
  \A k \in DOMAIN stack : Fatal(stack[k].fn) =>
    \/ k \in DOMAIN stack' /\ stack'[k].fn = stack[k].fn
    \/ ended' = ExitStatus

(* The step of each action that changes the stack.                         *)
LEMMA FatalStaysStep == ASSUME MessageInv, [LibraryNext]_libraryVars PROVE FatalStays
PROOF
<1>0. /\ lists \in [Lists -> Seq(Handlers)] /\ stack \in Seq(Frame)
      /\ AllSent(lists, stack) /\ DOMAIN stack = 1 .. Len(stack) /\ Len(stack) \in Nat
  BY DEF MessageInv, MessageType
<1>1. CASE stack' = stack
  BY <1>1 DEF FatalStays
<1>2. CASE stack = << >>
  <2>1. DOMAIN stack = {}
    BY <1>2
  <2>. QED
    BY <2>1 DEF FatalStays
<1>3. ASSUME stack # << >>, stack' = Below,
             ended' = IF Fatal(Top.fn) THEN ExitStatus ELSE Running
      PROVE  FatalStays
  <2>. SUFFICES ASSUME NEW k \in 1 .. Len(stack), Fatal(stack[k].fn)
                PROVE  \/ k \in DOMAIN stack' /\ stack'[k].fn = stack[k].fn
                       \/ ended' = ExitStatus
    BY <1>0 DEF FatalStays
  <2>1. /\ Below \in Seq(Frame) /\ Len(Below) = Len(stack) - 1
        /\ \A j \in 1 .. Len(Below) : Below[j] = stack[j]
    BY <1>0, <1>3, TopIs
  <2>2. DOMAIN Below = 1 .. Len(Below)
    BY <2>1
  <2>3. CASE k = Len(stack)
    BY <1>3, <2>3 DEF Top
  <2>4. CASE k # Len(stack)
    <3>1. k \in 1 .. Len(Below)
      BY <1>0, <2>1, <2>4
    <3>. QED
      BY <1>3, <2>1, <2>2, <3>1
  <2>. QED
    BY <2>3, <2>4
<1>4. ASSUME NEW a \in Seq(Frame), Len(a) = Len(stack),
             \A k \in 1 .. Len(stack) : a[k].fn = stack[k].fn,
             stack' = a \/ \E e : stack' = Append(a, e)
      PROVE  FatalStays
  <2>1. \A k \in 1 .. Len(stack) : k \in DOMAIN stack' /\ stack'[k] = a[k]
    <3>1. CASE stack' = a
      BY <1>4, <3>1
    <3>2. ASSUME NEW e, stack' = Append(a, e)
          PROVE  \A k \in 1 .. Len(stack) : k \in DOMAIN stack' /\ stack'[k] = a[k]
      <4>1. a \in Seq(Frame \cup {e}) /\ e \in Frame \cup {e}
        BY <1>4
      <4>2. /\ stack' \in Seq(Frame \cup {e}) /\ Len(stack') = Len(a) + 1
            /\ \A k \in 1 .. Len(a) : stack'[k] = a[k]
        BY <3>2, <4>1, AppendProperties
      <4>3. DOMAIN stack' = 1 .. Len(a) + 1
        BY <4>2
      <4>. QED
        BY <1>0, <1>4, <4>2, <4>3
    <3>. QED
      BY <1>4, <3>1, <3>2
  <2>. QED
    BY <1>0, <1>4, <2>1 DEF FatalStays
<1>5. CASE NoLength \/ Length
  <2>1. CASE NoLength
    BY <1>3, <2>1 DEF NoLength, Formatting
  <2>2. CASE Length
    <3>1. stack # << >> /\ Top.next = 0 /\ stack' = Started
      BY <2>2 DEF Length, Formatting
    <3>2. /\ stack' \in Seq(Frame) /\ Len(stack') = Len(stack)
          /\ \A k \in 1 .. Len(stack) : stack'[k].fn = stack[k].fn
      BY <1>0, <3>1, Begun
    <3>. QED
      BY <1>4, <3>2
  <2>. QED
    BY <1>5, <2>1, <2>2
<1>6. CASE SyslogNoMemory
  BY <1>1, <1>6 DEF SyslogNoMemory
<1>7. CASE SyslogNoFormat
  <2>. DEFINE a == Advance(<< >>)
  <2>1. /\ stack # << >> /\ Top.next \in 1 .. Len(lists[list_of[Top.fn]])
        /\ stack' = Append(a, Entered("warn", errno'))
    BY <1>7 DEF SyslogNoFormat, AtHandler, List
  <2>2. /\ a \in Seq(Frame) /\ Len(a) = Len(stack)
        /\ \A k \in 1 .. Len(stack) : a[k].fn = stack[k].fn
    BY <1>0, <2>1, Advanced
  <2>. HIDE DEF a
  <2>. QED
    BY <1>4, <2>1, <2>2
<1>8. CASE UseFreed
  BY <1>1, <1>8 DEF UseFreed
<1>9. CASE Finish
  BY <1>3, <1>9 DEF Finish
<1>10. ASSUME NEW h \in Handlers, Log(h) PROVE FatalStays
  <2>. DEFINE r == <<[to |-> h, error |-> Top.error]>>
              a == Advance(r)
  <2>1. /\ stack # << >> /\ Top.next \in 1 .. Len(lists[list_of[Top.fn]])
        /\ lists[list_of[Top.fn]][Top.next] = h /\ stack' = a
    BY <1>10 DEF Log, AtHandler, List
  <2>2. r = <<[to |-> lists[list_of[Top.fn]][Top.next], error |-> Top.error]>>
    BY <2>1
  <2>. HIDE DEF r
  <2>3. /\ a \in Seq(Frame) /\ Len(a) = Len(stack)
        /\ \A k \in 1 .. Len(stack) : a[k].fn = stack[k].fn
    BY <1>0, <2>1, <2>2, Advanced
  <2>. HIDE DEF a
  <2>. QED
    BY <1>4, <2>1, <2>3
<1>11. CASE MessageSteps
  BY <1>5, <1>6, <1>7, <1>8, <1>9, <1>10, <1>11 DEF MessageSteps, Handlers
<1>12. CASE MessagesNext /\ ~ MessageSteps
  <2>1. stack = << >>
    BY <1>12 DEF MessagesNext, Allocated, AllocatedNothing, AllocationFails, Allocating,
       message_handlers_reset, Say, message_handlers, Allocate, Idle
  <2>. QED
    BY <1>2, <2>1
<1>13. CASE UNCHANGED messageVars
  BY <1>1, <1>13 DEF messageVars
<1>. QED
  BY <1>11, <1>12, <1>13 DEF LibraryNext, libraryVars

(* die, sysdie and the allocators never return without success: the        *)
(* process ends with the status of the cleanup function.                   *)
THEOREM FatalNeverReturns == LibrarySpec => NoReturn
PROOF
<1>1. MessageInv /\ [LibraryNext]_libraryVars => [FatalStays]_messageVars
  BY FatalStaysStep
<1>. QED
  BY <1>1, MessageInvariant, PTL DEF LibrarySpec, NoReturn, FatalStays

-----------------------------------------------------------------------------
(* Folds.  The loops of util/vector.c that the model writes with FoldLeft. *)

Apply(op, acc, x) ==
  CASE op.kind = "split"   -> Step(op.s, op.seps, op.empty, acc, x)
    [] op.kind = "total"   -> acc + Len(x)
    [] op.kind = "join"    -> strlcat(strlcat(acc, op.sep, op.size), x, op.size)
    [] op.kind = "without" -> IF x \in op.seps THEN acc ELSE Append(acc, x)

(* The function by which FoldLeft walks over n elements of q.              *)
Folded(op, base, q, n, g) ==
  g = [t \in SUBSET (1 .. n) |->
         IF t = {} THEN base ELSE Apply(op, g[t \ {Max(t)}], q[Max(t)])]

(* It exists.                                                              *)
LEMMA FoldedExists ==
  ASSUME NEW op, NEW base, NEW q
  PROVE  \A n \in Nat : \E g : Folded(op, base, q, n, g)
PROOF
<1>. DEFINE Body(g, t) == IF t = {} THEN base ELSE Apply(op, g[t \ {Max(t)}], q[Max(t)])
            T == {n \in Nat : \E g : g = [t \in SUBSET (1 .. n) |-> Body(g, t)]}
<1>1. 0 \in T
  <2>. DEFINE g == [t \in SUBSET (1 .. 0) |-> base]
  <2>1. \A t \in SUBSET (1 .. 0) : t = {}
    OBVIOUS
  <2>2. g = [t \in SUBSET (1 .. 0) |-> Body(g, t)]
    BY <2>1
  <2>. QED
    BY <2>2
<1>2. ASSUME NEW n \in T PROVE n + 1 \in T
  <2>1. PICK g : g = [t \in SUBSET (1 .. n) |-> Body(g, t)]
    OBVIOUS
  <2>. DEFINE h == [t \in SUBSET (1 .. n + 1) |->
                      IF n + 1 \in t THEN Apply(op, g[t \ {n + 1}], q[n + 1]) ELSE g[t]]
  <2>2. ASSUME NEW t \in SUBSET (1 .. n + 1) PROVE h[t] = Body(h, t)
    <3>1. CASE n + 1 \in t
      <4>1. Max(t) = n + 1 /\ t # {}
        BY <3>1, MaxElement
      <4>2. t \ {n + 1} \in SUBSET (1 .. n + 1) /\ n + 1 \notin t \ {n + 1}
        OBVIOUS
      <4>. QED
        BY <3>1, <4>1, <4>2
    <3>2. CASE n + 1 \notin t
      <4>1. t \in SUBSET (1 .. n) /\ n + 1 \notin t \ {Max(t)}
        BY <3>2
      <4>2. t \ {Max(t)} \in SUBSET (1 .. n + 1)
        OBVIOUS
      <4>3. g[t] = Body(g, t) /\ h[t] = g[t] /\ h[t \ {Max(t)}] = g[t \ {Max(t)}]
        BY <2>1, <3>2, <4>1, <4>2
      <4>. QED
        BY <4>3
    <3>. QED
      BY <3>1, <3>2
  <2>. HIDE DEF Body
  <2>3. h = [t \in SUBSET (1 .. n + 1) |-> Body(h, t)]
    BY <2>2
  <2>4. n + 1 \in Nat
    OBVIOUS
  <2>. QED
    BY <2>3, <2>4
<1>. HIDE DEF Body, T
<1>3. \A n \in Nat : n \in T
  <2>1. T \subseteq Nat /\ \A n \in T : n + 1 \in T
    BY <1>2 DEF T
  <2>. QED
    BY <1>1, <2>1, Induction
<1>. QED
  BY <1>3 DEF T, Body, Folded

(* The walk, element by element.                                           *)
Walk(op, base, q, n, W) ==
  W[0] = base /\ \A k \in 1 .. n : W[k] = Apply(op, W[k - 1], q[k])

(* A fold is the end of a walk.                                            *)
LEMMA FoldedWalks ==
  ASSUME NEW op, NEW base, NEW q, NEW n \in Nat, NEW g, Folded(op, base, q, n, g)
  PROVE  \E W : Walk(op, base, q, n, W) /\ W[n] = g[1 .. n]
PROOF
<1>. DEFINE W == [k \in 0 .. n |-> g[1 .. k]]
<1>2. g = [t \in SUBSET (1 .. n) |->
             IF t = {} THEN base ELSE Apply(op, g[t \ {Max(t)}], q[Max(t)])]
  BY DEF Folded
<1>3. W[0] = base
  <2>1. 1 .. 0 = {} /\ {} \in SUBSET (1 .. n) /\ 0 \in 0 .. n
    OBVIOUS
  <2>. QED
    BY <1>2, <2>1
<1>4. ASSUME NEW k \in 1 .. n PROVE W[k] = Apply(op, W[k - 1], q[k])
  <2>0. k - 1 \in Nat /\ (k - 1) + 1 = k
    OBVIOUS
  <2>1. k \in 1 .. k /\ 1 .. k \subseteq 1 .. n /\ k \in 0 .. n /\ k - 1 \in 0 .. n
    OBVIOUS
  <2>2. Max(1 .. k) = k
    BY <2>0, <2>1, MaxElement
  <2>3. (1 .. k) \ {k} = 1 .. k - 1
    BY <2>0, IntervalStep
  <2>. DEFINE t == 1 .. k
  <2>4. t \in SUBSET (1 .. n) /\ t # {} /\ t \ {Max(t)} = 1 .. k - 1 /\ Max(t) = k
    BY <2>1, <2>2, <2>3
  <2>5. W[k] = g[t] /\ W[k - 1] = g[1 .. k - 1]
    BY <2>1
  <2>. HIDE DEF t, W
  <2>. QED
    BY <1>2, <2>4, <2>5
<1>5. W[n] = g[1 .. n]
  OBVIOUS
<1>. HIDE DEF W
<1>. QED
  BY <1>3, <1>4, <1>5 DEF Walk

-----------------------------------------------------------------------------
(* Splitting.                                                              *)

(* The walk, character by character.                                       *)
Walks(s, seps, empty, W) ==
  /\ W[0] = Start
  /\ \A k \in 1 .. Len(s) : W[k] = Step(s, seps, empty, W[k - 1], k)
  /\ Pieces(s, seps, empty) = EndPiece(s, empty, W[Len(s)], Len(s) + 1)

(* Every string has one.                                                   *)
LEMMA PiecesWalk ==
  ASSUME NEW s, NEW seps, NEW empty, Len(s) \in Nat
  PROVE  \E W : Walks(s, seps, empty, W)
PROOF
<1>. DEFINE n == Len(s)
            q == [p \in 1 .. n |-> p]
            op == [kind |-> "split", s |-> s, seps |-> seps, empty |-> empty]
            Op(a, x) == Step(s, seps, empty, a, x)
            Folds(g) == g = [t \in SUBSET (DOMAIN q) |->
                               IF t = {} THEN Start ELSE Op(g[t \ {Max(t)}], q[Max(t)])]
            g == CHOOSE g : Folds(g)
<1>0. n \in Nat /\ DOMAIN q = 1 .. n /\ \A k \in 1 .. n : q[k] = k
  OBVIOUS
<1>1. Pieces(s, seps, empty) = EndPiece(s, empty, g[DOMAIN q], n + 1)
  BY Zenon DEF Pieces, FoldLeft, MapThenFoldSet
<1>2. \A a, x : Apply(op, a, x) = Op(a, x)
  <2>1. op.kind = "split" /\ op.s = s /\ op.seps = seps /\ op.empty = empty
    OBVIOUS
  <2>. HIDE DEF op
  <2>. QED
    BY <2>1 DEF Apply
<1>d. DOMAIN q = 1 .. n
  BY <1>0
<1>. HIDE DEF Op, op, q
<1>. HIDE DEF n
<1>3. \A f : Folded(op, Start, q, n, f) <=> Folds(f)
  BY <1>d, <1>2 DEF Folded
<1>. HIDE DEF Folds
<1>4. PICK f : Folded(op, Start, q, n, f)
  BY <1>0, FoldedExists
<1>5. Folds(g)
  BY <1>3, <1>4
<1>. HIDE DEF g
<1>6. PICK W : Walk(op, Start, q, n, W) /\ W[n] = g[1 .. n]
  BY <1>0, <1>3, <1>5, FoldedWalks
<1>7. Walks(s, seps, empty, W)
  BY <1>0, <1>1, <1>2, <1>6 DEF Walks, Walk, n, Op
<1>. QED
  BY <1>7

(* A set of positions up to k + 1, from the one up to k.                   *)
LEMMA OnePosition ==
  ASSUME NEW A, IsFiniteSet(A), NEW p, p \notin A, NEW B, B = A \cup {p} \/ B = A
  PROVE  /\ IsFiniteSet(B) /\ Cardinality(A) \in Nat
         /\ B # A => Cardinality(B) = Cardinality(A) + 1
PROOF
  BY FS_AddElement, FS_CardinalityType

(* What the walk knows of its position: the current piece has begun where  *)
(* it says, after a separator, and has none.                               *)
At(s, seps, acc, k) ==
  /\ acc.start \in 1 .. k + 1
  /\ acc.start # 1 => s[acc.start - 1] \in seps
  /\ \A p \in acc.start .. k : s[p] \notin seps

(* The piece that ends at position k.                                      *)
Piece(s, acc, k) == SubSeq(s, acc.start, k)

(* Its length.                                                             *)
LEMMA PieceLen ==
  ASSUME NEW C, NEW s \in Seq(C), NEW seps, NEW k \in 0 .. Len(s), NEW acc, At(s, seps, acc, k)
  PROVE  Piece(s, acc, k) \in Seq(C) /\ Len(Piece(s, acc, k)) = k - acc.start + 1
PROOF
<1>. DEFINE a == acc.start
            n == Len(s)
            t == Piece(s, acc, k)
<1>1. n \in Nat /\ k \in Int /\ a \in Int /\ a >= 1 /\ a <= k + 1 /\ k <= n
  BY DEF At
<1>2. \A i \in a .. k : s[i] \in C
  BY <1>1, ElementOfSeq
<1>. HIDE DEF a, n
<1>3. t \in Seq(C) /\ Len(t) = IF a <= k THEN k - a + 1 ELSE 0
  BY <1>1, <1>2, SubSeqProperties DEF a, Piece
<1>. HIDE DEF t
<1>4. Len(t) = k - a + 1
  BY <1>1, <1>3
<1>. QED
  BY <1>3, <1>4 DEF a, t

(* Its characters, which are not separators.                               *)
LEMMA PieceChars ==
  ASSUME NEW C, NEW s \in Seq(C), NEW seps, NEW k \in 0 .. Len(s), NEW acc, At(s, seps, acc, k)
  PROVE  \A i \in 1 .. Len(Piece(s, acc, k)) : Piece(s, acc, k)[i] \notin seps
PROOF
<1>. DEFINE a == acc.start
            n == Len(s)
            t == Piece(s, acc, k)
<1>1. n \in Nat /\ k \in Int /\ a \in Int /\ a >= 1 /\ a <= k + 1 /\ k <= n
  BY DEF At
<1>2. \A i \in a .. k : s[i] \in C
  BY <1>1, ElementOfSeq
<1>3. Len(t) = k - a + 1
  BY PieceLen
<1>. HIDE DEF a, n
<1>4. \A i \in 1 .. k - a + 1 : t[i] = s[a + i - 1]
  BY <1>1, <1>2, SubSeqProperties DEF a, Piece
<1>. HIDE DEF t
<1>5. \A i \in 1 .. Len(t) : a + i - 1 \in a .. k
  BY <1>1, <1>3
<1>6. \A i \in 1 .. Len(t) : t[i] \notin seps
  BY <1>3, <1>4, <1>5 DEF At, a
<1>. QED
  BY <1>6 DEF t

(* The walk of Pieces comes to its end in such a state.                    *)
LEMMA AtStep ==
  ASSUME NEW s, Len(s) \in Nat, NEW seps, NEW empty, NEW k \in 1 .. Len(s), NEW acc,
         At(s, seps, acc, k - 1), NEW new, new = Step(s, seps, empty, acc, k)
  PROVE  At(s, seps, new, k)
PROOF
<1>1. CASE s[k] \in seps
  <2>1. new.start = k + 1
    BY <1>1 DEF Step
  <2>2. (k + 1) - 1 = k /\ k + 1 \in 1 .. k + 1 /\ (k + 1) .. k = {}
    OBVIOUS
  <2>. QED
    BY <1>1, <2>1, <2>2 DEF At
<1>2. CASE s[k] \notin seps
  <2>1. new = acc
    BY <1>2 DEF Step
  <2>2. acc.start \in 1 .. k
    BY DEF At
  <2>3. acc.start \in 1 .. k + 1 /\ \A p \in acc.start .. k : p \in acc.start .. k - 1 \/ p = k
    BY <2>2
  <2>. QED
    BY <1>2, <2>1, <2>3 DEF At
<1>. QED
  BY <1>1, <1>2

(* Where every walk begins.                                                *)
LEMMA AtStart == ASSUME NEW s, NEW seps PROVE At(s, seps, Start, 0)
PROOF
<1>1. Start.start = 1
  BY DEF Start
<1>. HIDE DEF Start
<1>2. 1 \in 1 .. 0 + 1 /\ 1 .. 0 = {}
  OBVIOUS
<1>. QED
  BY <1>1, <1>2 DEF At

(* vector_split fills as many entries as it has counted, with strings that *)
(* have no separator.                                                      *)
LEMMA SplitCount ==
  ASSUME NEW C, NEW s \in Seq(C)
  PROVE  /\ split_pieces(s) \in Seq(Seq(C))
         /\ Len(split_pieces(s)) = split_count(s) /\ split_count(s) \in Nat \ {0}
         /\ \A i \in 1 .. Len(split_pieces(s)) :
              \A j \in 1 .. Len(split_pieces(s)[i]) : split_pieces(s)[i][j] # Sep
PROOF
<1>. DEFINE n == Len(s)
            Clean(t) == \A j \in 1 .. Len(t) : t[j] # Sep
            Good(out) == /\ out \in Seq(Seq(C))
                         /\ \A i \in 1 .. Len(out) : Clean(out[i])
            N(k) == {p \in 1 .. k : s[p] = Sep}
            seps == {Sep}
<1>0. n \in Nat /\ \A x : x \in seps <=> x = Sep
  OBVIOUS
<1>. HIDE DEF seps
<1>w. PICK W : Walks(s, seps, TRUE, W)
  BY <1>0, PiecesWalk, Zenon
<1>1. /\ W[0] = Start
      /\ \A k \in 1 .. n : W[k] = Step(s, seps, TRUE, W[k - 1], k)
      /\ Pieces(s, seps, TRUE) = EndPiece(s, TRUE, W[n], n + 1)
  BY <1>w, Zenon DEF Walks
<1>2. ASSUME NEW k \in 0 .. n, NEW acc, At(s, seps, acc, k), Good(acc.out)
      PROVE  /\ Good(EndPiece(s, TRUE, acc, k + 1))
             /\ Len(EndPiece(s, TRUE, acc, k + 1)) = Len(acc.out) + 1
  <2>. DEFINE t == Piece(s, acc, k)
              new == Append(acc.out, t)
  <2>1. EndPiece(s, TRUE, acc, k + 1) = new
    <3>1. (k + 1) - 1 = k
      OBVIOUS
    <3>. QED
      BY <3>1 DEF EndPiece, Piece
  <2>2. t \in Seq(C) /\ \A i \in 1 .. Len(t) : t[i] \notin seps
    BY <1>2, PieceLen, PieceChars
  <2>3. Clean(t)
    BY <1>0, <2>2
  <2>. HIDE DEF t, Clean
  <2>4. /\ new \in Seq(Seq(C)) /\ Len(new) = Len(acc.out) + 1 /\ Len(acc.out) \in Nat
        /\ \A i \in 1 .. Len(acc.out) : new[i] = acc.out[i]
        /\ new[Len(acc.out) + 1] = t
    BY <1>2, <2>2, AppendProperties
  <2>. HIDE DEF new
  <2>5. \A i \in 1 .. Len(new) : i \in 1 .. Len(acc.out) \/ i = Len(acc.out) + 1
    BY <2>4
  <2>6. Good(new)
    BY <1>2, <2>3, <2>4, <2>5
  <2>. QED
    BY <2>1, <2>4, <2>6
<1>. DEFINE Right(k) == /\ At(s, seps, W[k], k) /\ Good(W[k].out)
                        /\ IsFiniteSet(N(k)) /\ Len(W[k].out) = Cardinality(N(k))
            T == {k \in Nat : k <= n => Right(k)}
<1>3. Right(0)
  <2>1. W[0].out = << >> /\ At(s, seps, W[0], 0)
    BY <1>1, AtStart DEF Start
  <2>2. N(0) = {}
    OBVIOUS
  <2>3. << >> \in Seq(Seq(C)) /\ 1 .. Len(<< >>) = {} /\ Len(<< >>) = 0
    OBVIOUS
  <2>4. Good(W[0].out)
    BY <2>1, <2>3
  <2>. HIDE DEF N, Good
  <2>. QED
    BY <2>1, <2>2, <2>3, <2>4, FS_EmptySet
<1>4. ASSUME NEW k \in Nat, k + 1 <= n, Right(k) PROVE Right(k + 1)
  <2>. DEFINE K == k + 1
              acc == W[k]
              new == W[K]
  <2>0. K \in 1 .. n /\ K - 1 = k /\ k \in 0 .. n /\ K \in Nat
    BY <1>0, <1>4
  <2>1. new = Step(s, seps, TRUE, acc, K)
    BY <1>1, <2>0
  <2>2. At(s, seps, new, K)
    BY <1>0, <1>4, <2>0, <2>1, AtStep
  <2>3. N(K) = (IF s[K] = Sep THEN N(k) \cup {K} ELSE N(k)) /\ K \notin N(k)
    <3>1. \A p : p \in 1 .. K <=> p \in 1 .. k \/ p = K
      BY <2>0
    <3>2. K \notin 1 .. k
      BY <2>0
    <3>. HIDE DEF K
    <3>. QED
      BY <3>1, <3>2
  <2>. DEFINE A == N(k)
              B == N(K)
  <2>. HIDE DEF N, K, acc, new, A, B
  <2>4. IsFiniteSet(B) /\ Cardinality(A) \in Nat /\ (B # A => Cardinality(B) = Cardinality(A) + 1)
        /\ (s[K] = Sep => B # A) /\ (s[K] # Sep => B = A)
    <3>1. IsFiniteSet(A) /\ K \notin A /\ (B = A \cup {K} \/ B = A)
      BY <1>4, <2>3 DEF A, B
    <3>2. (s[K] = Sep => B = A \cup {K}) /\ (s[K] # Sep => B = A)
      BY <2>3 DEF A, B
    <3>. QED
      BY <3>1, <3>2, OnePosition
  <2>5. Good(acc.out) /\ Len(acc.out) = Cardinality(A) /\ At(s, seps, acc, k)
    BY <1>4 DEF acc, A
  <2>. HIDE DEF Good
  <2>6. CASE s[K] = Sep
    <3>1. new.out = EndPiece(s, TRUE, acc, K)
      BY <1>0, <2>1, <2>6 DEF Step
    <3>2. Good(EndPiece(s, TRUE, acc, k + 1)) /\ Len(EndPiece(s, TRUE, acc, k + 1)) = Len(acc.out) + 1
      BY <1>2, <2>0, <2>5
    <3>3. Good(new.out) /\ Len(new.out) = Len(acc.out) + 1
      BY <3>1, <3>2 DEF K
    <3>. QED
      BY <2>2, <2>4, <2>5, <2>6, <3>3 DEF new, B, K
  <2>7. CASE s[K] # Sep
    <3>1. new = acc
      BY <1>0, <2>1, <2>7 DEF Step
    <3>. QED
      BY <2>2, <2>4, <2>5, <2>7, <3>1 DEF new, B, K
  <2>. QED
    BY <2>6, <2>7
<1>. HIDE DEF Right, Good
<1>5. n \in T
  <2>1. T \subseteq Nat /\ 0 \in T
    BY <1>3
  <2>2. ASSUME NEW k \in T PROVE k + 1 \in T
    <3>1. k \in Nat /\ k + 1 \in Nat /\ (k + 1 <= n => k <= n)
      BY <1>0
    <3>. QED
      BY <1>4, <3>1
  <2>. HIDE DEF T
  <2>. QED
    BY <1>0, <2>1, <2>2, Induction
<1>6. Right(n)
  BY <1>0, <1>5
<1>7. At(s, seps, W[n], n) /\ Good(W[n].out) /\ Len(W[n].out) = Cardinality(N(n))
      /\ Cardinality(N(n)) \in Nat
  BY <1>6, FS_CardinalityType DEF Right
<1>. DEFINE out == EndPiece(s, TRUE, W[n], n + 1)
<1>8. Good(out) /\ Len(out) = Len(W[n].out) + 1
  <2>1. n \in 0 .. n
    BY <1>0
  <2>. HIDE DEF n
  <2>. QED
    BY <1>2, <1>7, <2>1, Zenon
<1>9. split_pieces(s) = out
  BY <1>1 DEF split_pieces, seps
<1>. HIDE DEF out
<1>10. split_count(s) = 1 + Cardinality(N(n))
  BY DEF split_count
<1>. HIDE DEF N
<1>11. Len(out) = split_count(s) /\ split_count(s) \in Nat \ {0}
  BY <1>7, <1>8, <1>10
<1>. QED
  BY <1>8, <1>9, <1>11 DEF Good

(* Between pieces is just after a separator, or at the beginning.          *)
LEMMA StartIs ==
  ASSUME NEW s, NEW seps, NEW k \in Nat, NEW acc, At(s, seps, acc, k)
  PROVE  /\ acc.start = k + 1 <=> k = 0 \/ s[k] \in seps
         /\ acc.start \in Nat /\ (acc.start <= k <=> acc.start # k + 1)
PROOF
<1>1. acc.start \in 1 .. k + 1
  BY DEF At
<1>2. CASE acc.start = k + 1
  <2>1. k = 0 \/ (acc.start # 1 /\ acc.start - 1 = k)
    BY <1>2
  <2>. QED
    BY <1>2, <2>1 DEF At
<1>3. CASE acc.start # k + 1
  <2>1. k \in acc.start .. k /\ k # 0
    BY <1>1, <1>3
  <2>. QED
    BY <1>1, <1>3, <2>1 DEF At
<1>. QED
  BY <1>2, <1>3

(* vector_split_multi fills as many entries as it has counted, none of     *)
(* them empty: one for each run of other characters.                       *)
LEMMA MultiCount ==
  ASSUME NEW C, NEW s \in Seq(C)
  PROVE  /\ multi_pieces(s) \in Seq(Seq(C))
         /\ Len(multi_pieces(s)) = split_multi_count(s) /\ split_multi_count(s) \in Nat
         /\ \A i \in 1 .. Len(multi_pieces(s)) : multi_pieces(s)[i] # << >>
         /\ Len(multi_pieces(s)) = Cardinality(Begins(s))
PROOF
<1>. DEFINE n == Len(s)
            Good(out) == /\ out \in Seq(Seq(C))
                         /\ \A i \in 1 .. Len(out) : out[i] # << >>
            E(k) == {p \in 2 .. k : s[p] \in Seps /\ s[p - 1] \notin Seps}
            B(k) == {p \in 1 .. k : s[p] \notin Seps /\ (p = 1 \/ s[p - 1] \in Seps)}
            One(a, k) == IF a = k + 1 THEN 0 ELSE 1
<1>0. n \in Nat /\ DOMAIN s = 1 .. n
  OBVIOUS
<1>w. PICK W : Walks(s, Seps, FALSE, W)
  BY <1>0, PiecesWalk, Zenon
<1>1. /\ W[0] = Start
      /\ \A k \in 1 .. n : W[k] = Step(s, Seps, FALSE, W[k - 1], k)
      /\ Pieces(s, Seps, FALSE) = EndPiece(s, FALSE, W[n], n + 1)
  BY <1>w, Zenon DEF Walks
<1>2. ASSUME NEW k \in 0 .. n, NEW acc, At(s, Seps, acc, k), Good(acc.out)
      PROVE  /\ Good(EndPiece(s, FALSE, acc, k + 1)) /\ Len(acc.out) \in Nat
             /\ Len(EndPiece(s, FALSE, acc, k + 1)) = Len(acc.out) + One(acc.start, k)
  <2>0. Len(acc.out) \in Nat
    BY <1>2
  <2>1. CASE acc.start = k + 1
    <3>1. EndPiece(s, FALSE, acc, k + 1) = acc.out
      BY <2>1 DEF EndPiece
    <3>2. One(acc.start, k) = 0
      BY <2>1
    <3>. HIDE DEF Good, One
    <3>3. Len(acc.out) + 0 = Len(acc.out)
      BY <2>0
    <3>. QED
      BY <1>2, <2>0, <3>1, <3>2, <3>3
  <2>2. CASE acc.start # k + 1
    <3>. DEFINE t == Piece(s, acc, k)
                new == Append(acc.out, t)
    <3>1. EndPiece(s, FALSE, acc, k + 1) = new
      <4>1. (k + 1) - 1 = k
        OBVIOUS
      <4>. QED
        BY <2>2, <4>1 DEF EndPiece, Piece
    <3>2. t \in Seq(C) /\ t # << >>
      <4>1. t \in Seq(C) /\ Len(t) = k - acc.start + 1
        BY <1>2, PieceLen
      <4>2. acc.start \in Int /\ k \in Int
        BY <1>2 DEF At
      <4>. HIDE DEF t
      <4>3. Len(t) # 0 /\ Len(<< >>) = 0
        BY <2>2, <4>1, <4>2
      <4>. QED
        BY <4>1, <4>3
    <3>. HIDE DEF t
    <3>3. /\ new \in Seq(Seq(C)) /\ Len(new) = Len(acc.out) + 1
          /\ \A i \in 1 .. Len(acc.out) : new[i] = acc.out[i]
          /\ new[Len(acc.out) + 1] = t
      BY <1>2, <3>2, AppendProperties
    <3>. HIDE DEF new
    <3>4. \A i \in 1 .. Len(new) : i \in 1 .. Len(acc.out) \/ i = Len(acc.out) + 1
      BY <2>0, <3>3
    <3>5. Good(new)
      BY <1>2, <3>2, <3>3, <3>4
    <3>. QED
      BY <2>0, <2>2, <3>1, <3>3, <3>5
  <2>. QED
    BY <2>1, <2>2
<1>. DEFINE Right(k) == /\ At(s, Seps, W[k], k) /\ Good(W[k].out)
                        /\ IsFiniteSet(E(k)) /\ Len(W[k].out) = Cardinality(E(k))
                        /\ IsFiniteSet(B(k))
                        /\ Cardinality(B(k)) = Len(W[k].out) + One(W[k].start, k)
            T == {k \in Nat : k <= n => Right(k)}
<1>3. Right(0)
  <2>1. W[0].out = << >> /\ At(s, Seps, W[0], 0) /\ W[0].start = 1
    BY <1>1, AtStart DEF Start
  <2>2. E(0) = {} /\ B(0) = {} /\ One(1, 0) = 0
    OBVIOUS
  <2>3. << >> \in Seq(Seq(C)) /\ 1 .. Len(<< >>) = {} /\ Len(<< >>) = 0
    OBVIOUS
  <2>4. Good(W[0].out)
    BY <2>1, <2>3
  <2>5. Cardinality({}) = 0 + 0 /\ Cardinality({}) = 0 /\ IsFiniteSet({})
    BY FS_EmptySet
  <2>. HIDE DEF E, B, Good, One
  <2>. QED
    BY <2>1, <2>2, <2>3, <2>4, <2>5
<1>4. ASSUME NEW k \in Nat, k + 1 <= n, Right(k) PROVE Right(k + 1)
  <2>. DEFINE K == k + 1
              acc == W[k]
              new == W[K]
  <2>0. K \in 1 .. n /\ K - 1 = k /\ k \in 0 .. n /\ K \in Nat /\ (K = 1 <=> k = 0)
    BY <1>0, <1>4
  <2>1. new = Step(s, Seps, FALSE, acc, K)
    BY <1>1, <2>0
  <2>2. At(s, Seps, new, K)
    BY <1>0, <1>4, <2>0, <2>1, AtStep
  <2>a. /\ acc.start = K <=> k = 0 \/ s[k] \in Seps
        /\ acc.start \in Nat
    BY <1>4, StartIs
  <2>3. /\ E(K) = (IF s[K] \in Seps /\ acc.start # K THEN E(k) \cup {K} ELSE E(k))
        /\ B(K) = (IF s[K] \notin Seps /\ acc.start = K THEN B(k) \cup {K} ELSE B(k))
        /\ K \notin E(k) /\ K \notin B(k)
    <3>1. \A p : p \in 1 .. K <=> p \in 1 .. k \/ p = K
      BY <2>0
    <3>2. \A p : p \in 2 .. K <=> p \in 2 .. k \/ (p = K /\ k # 0)
      BY <2>0
    <3>3. K \notin 1 .. k /\ K \notin 2 .. k
      BY <2>0
    <3>. DEFINE a == acc.start
    <3>4. a = K <=> k = 0 \/ s[k] \in Seps
      BY <2>a
    <3>. HIDE DEF K, a
    <3>5. E(K) = (IF s[K] \in Seps /\ a # K THEN E(k) \cup {K} ELSE E(k))
      BY <2>0, <3>2, <3>4
    <3>6. B(K) = (IF s[K] \notin Seps /\ a = K THEN B(k) \cup {K} ELSE B(k))
      BY <2>0, <3>1, <3>4
    <3>. QED
      BY <3>3, <3>5, <3>6 DEF a
  <2>. DEFINE A == E(k)
              A1 == E(K)
              D == B(k)
              D1 == B(K)
              a == acc.start
              o == acc.out
  <2>5. /\ Good(o) /\ Len(o) = Cardinality(A) /\ At(s, Seps, acc, k)
        /\ Cardinality(D) = Len(o) + (IF a = K THEN 0 ELSE 1)
        /\ IsFiniteSet(A) /\ IsFiniteSet(D)
    BY <1>4
  <2>. HIDE DEF E, B, K, acc, new, A, A1, D, D1, a, o, Good
  <2>6. /\ A1 = (IF s[K] \in Seps /\ a # K THEN A \cup {K} ELSE A)
        /\ D1 = (IF s[K] \notin Seps /\ a = K THEN D \cup {K} ELSE D)
        /\ K \notin A /\ K \notin D
    BY <2>3 DEF A, A1, D, D1, a
  <2>7. /\ IsFiniteSet(A1) /\ Cardinality(A) \in Nat
        /\ A1 # A => Cardinality(A1) = Cardinality(A) + 1
    BY <2>5, <2>6, OnePosition
  <2>8. /\ IsFiniteSet(D1) /\ Cardinality(D) \in Nat
        /\ D1 # D => Cardinality(D1) = Cardinality(D) + 1
    BY <2>5, <2>6, OnePosition
  <2>9. CASE s[K] \in Seps
    <3>1. new.start = K + 1 /\ new.out = EndPiece(s, FALSE, acc, k + 1)
      BY <2>1, <2>9 DEF Step, K
    <3>2. /\ Good(EndPiece(s, FALSE, acc, k + 1)) /\ Len(o) \in Nat
          /\ Len(EndPiece(s, FALSE, acc, k + 1)) = Len(o) + (IF a = K THEN 0 ELSE 1)
      BY <1>2, <2>0, <2>5 DEF a, o, K
    <3>3. Good(new.out) /\ Len(new.out) = Len(o) + (IF a = K THEN 0 ELSE 1)
      BY <3>1, <3>2
    <3>4. D1 = D /\ (a = K => A1 = A) /\ (a # K => A1 # A)
      BY <2>6, <2>9
    <3>5. Len(new.out) = Cardinality(A1)
      BY <2>5, <2>7, <3>2, <3>3, <3>4
    <3>6. One(new.start, K) = 0
      BY <3>1
    <3>7. Cardinality(D1) = Len(new.out) + 0
      BY <2>5, <3>2, <3>3, <3>4
    <3>. QED
      BY <2>2, <2>7, <2>8, <3>3, <3>5, <3>6, <3>7 DEF new, A1, D1, K
  <2>10. CASE s[K] \notin Seps
    <3>1. new = acc
      BY <2>1, <2>10 DEF Step
    <3>2. A1 = A /\ (a = K => D1 # D) /\ (a # K => D1 = D)
      BY <2>6, <2>10
    <3>3. One(a, K) = 1
      <4>1. a # K + 1
        <5>1. a \in 1 .. k + 1
          BY <2>5 DEF At, a
        <5>. QED
          BY <5>1 DEF K
      <4>. QED
        BY <4>1
    <3>4. Cardinality(D1) = Len(o) + 1
      BY <2>5, <2>7, <2>8, <3>2
    <3>5. Len(o) = Cardinality(A1)
      BY <2>5, <3>2
    <3>6. new.start = a /\ new.out = o
      BY <3>1 DEF a, o
    <3>. HIDE DEF One
    <3>. QED
      BY <2>2, <2>5, <2>7, <2>8, <3>3, <3>4, <3>5, <3>6 DEF new, A1, D1, K
  <2>. QED
    BY <2>9, <2>10
<1>. HIDE DEF Right, Good
<1>5. n \in T
  <2>1. T \subseteq Nat /\ 0 \in T
    BY <1>3
  <2>2. ASSUME NEW k \in T PROVE k + 1 \in T
    <3>1. k \in Nat /\ k + 1 \in Nat /\ (k + 1 <= n => k <= n)
      BY <1>0
    <3>. QED
      BY <1>4, <3>1
  <2>. HIDE DEF T
  <2>. QED
    BY <1>0, <2>1, <2>2, Induction
<1>6. Right(n)
  BY <1>0, <1>5
<1>. DEFINE acc == W[n]
            out == EndPiece(s, FALSE, acc, n + 1)
            e == Cardinality(E(n))
<1>7. /\ At(s, Seps, acc, n) /\ Good(acc.out) /\ Len(acc.out) = e /\ e \in Nat
      /\ Cardinality(B(n)) = Len(acc.out) + One(acc.start, n)
  BY <1>6, FS_CardinalityType DEF Right
<1>8. Good(out) /\ Len(out) = Len(acc.out) + One(acc.start, n)
  <2>1. n \in 0 .. n
    BY <1>0
  <2>. HIDE DEF n, acc, One
  <2>. QED
    BY <1>2, <1>7, <2>1, Zenon
<1>9. multi_pieces(s) = out
  BY <1>1 DEF multi_pieces
<1>10. Begins(s) = B(n)
  BY <1>0 DEF Begins
<1>11. split_multi_count(s) = IF n = 0 THEN 0
                              ELSE 1 + e - (IF s[n] \in Seps THEN 1 ELSE 0)
  <2>1. s = << >> <=> n = 0
    BY <1>0
  <2>. QED
    BY <2>1 DEF split_multi_count
<1>12. acc.start = n + 1 <=> n = 0 \/ s[n] \in Seps
  BY <1>0, <1>7, StartIs
<1>13. n = 0 => e = 0
  <2>1. E(0) = {} /\ Cardinality({}) = 0
    BY FS_EmptySet
  <2>. QED
    BY <2>1
<1>14. Len(out) = split_multi_count(s) /\ split_multi_count(s) \in Nat
  <2>. DEFINE a == acc.start
              sep == s[n] \in Seps
  <2>1. Len(out) = e + (IF a = n + 1 THEN 0 ELSE 1)
    BY <1>7, <1>8
  <2>2. a = n + 1 <=> n = 0 \/ sep
    BY <1>12
  <2>3. split_multi_count(s) = IF n = 0 THEN 0 ELSE 1 + e - (IF sep THEN 1 ELSE 0)
    BY <1>11
  <2>4. e \in Nat /\ (n = 0 => e = 0)
    BY <1>7, <1>13
  <2>. HIDE DEF a, sep, e, out, n
  <2>. QED
    BY <2>1, <2>2, <2>3, <2>4
<1>. HIDE DEF out, acc, One, B
<1>15. Len(out) = Cardinality(Begins(s))
  BY <1>7, <1>8, <1>10
<1>. QED
  BY <1>8, <1>9, <1>14, <1>15 DEF Good

-----------------------------------------------------------------------------
(* Joining.                                                                *)

(* The sum of the lengths of strings, string by string.                    *)
Total(q) == FoldLeft(LAMBDA n, s : n + Len(s), 0, q)
Totals(q, W) ==
  /\ W[0] = 0 /\ \A k \in 1 .. Len(q) : W[k] = W[k - 1] + Len(q[k])
  /\ Total(q) = W[Len(q)]

(* The first loop of vector_join adds up the lengths.                      *)
LEMMA TotalWalk ==
  ASSUME NEW S, NEW q \in Seq(S)
  PROVE  \E W : Totals(q, W)
PROOF
<1>. DEFINE n == Len(q)
            op == [kind |-> "total"]
            Folds(g) == g = [t \in SUBSET (DOMAIN q) |->
                               IF t = {} THEN 0 ELSE g[t \ {Max(t)}] + Len(q[Max(t)])]
            g == CHOOSE g : Folds(g)
<1>0. n \in Nat /\ DOMAIN q = 1 .. n
  OBVIOUS
<1>1. Total(q) = g[DOMAIN q]
  BY Zenon DEF Total, FoldLeft, MapThenFoldSet
<1>2. \A a, x : Apply(op, a, x) = a + Len(x)
  BY DEF Apply
<1>3. \A f : Folded(op, 0, q, n, f) <=> Folds(f)
  BY <1>0, <1>2 DEF Folded
<1>. HIDE DEF Folds, n
<1>4. PICK f : Folded(op, 0, q, n, f)
  BY <1>0, FoldedExists
<1>5. Folds(g)
  BY <1>3, <1>4
<1>. HIDE DEF g, op
<1>6. PICK W : Walk(op, 0, q, n, W) /\ W[n] = g[1 .. n]
  BY <1>0, <1>3, <1>5, FoldedWalks
<1>7. Totals(q, W)
  BY <1>0, <1>1, <1>2, <1>6 DEF Totals, Walk, n
<1>. QED
  BY <1>7

(* What Without keeps, character by character.                             *)
Keeps(q, seps, W) ==
  /\ W[0] = << >>
  /\ \A k \in 1 .. Len(q) : W[k] = IF q[k] \in seps THEN W[k - 1] ELSE Append(W[k - 1], q[k])
  /\ Without(q, seps) = W[Len(q)]

(* Every string has such a walk.                                           *)
LEMMA WithoutWalk ==
  ASSUME NEW S, NEW q \in Seq(S), NEW seps
  PROVE  \E W : Keeps(q, seps, W)
PROOF
<1>. DEFINE n == Len(q)
            op == [kind |-> "without", seps |-> seps]
            Op(a, x) == IF x \in seps THEN a ELSE Append(a, x)
            Folds(g) == g = [t \in SUBSET (DOMAIN q) |->
                               IF t = {} THEN << >> ELSE Op(g[t \ {Max(t)}], q[Max(t)])]
            g == CHOOSE g : Folds(g)
<1>0. n \in Nat /\ DOMAIN q = 1 .. n
  OBVIOUS
<1>1. Without(q, seps) = g[DOMAIN q]
  BY Zenon DEF Without, FoldLeft, MapThenFoldSet
<1>2. \A a, x : Apply(op, a, x) = Op(a, x)
  <2>1. op.kind = "without" /\ op.seps = seps
    OBVIOUS
  <2>2. "without" # "split" /\ "without" # "total" /\ "without" # "join"
    OBVIOUS
  <2>. HIDE DEF op
  <2>. QED
    BY <2>1, <2>2 DEF Apply
<1>. HIDE DEF Op, op
<1>3. \A f : Folded(op, << >>, q, n, f) <=> Folds(f)
  BY <1>0, <1>2 DEF Folded
<1>. HIDE DEF Folds, n
<1>4. PICK f : Folded(op, << >>, q, n, f)
  BY <1>0, FoldedExists
<1>5. Folds(g)
  BY <1>3, <1>4
<1>. HIDE DEF g
<1>6. PICK W : Walk(op, << >>, q, n, W) /\ W[n] = g[1 .. n]
  BY <1>0, <1>3, <1>5, FoldedWalks
<1>7. Keeps(q, seps, W)
  BY <1>0, <1>1, <1>2, <1>6 DEF Keeps, Walk, n, Op
<1>. QED
  BY <1>7

(* The joined string, string by string.                                    *)
Join2(out, s, sep, size) == strlcat(strlcat(out, sep, size), s, size)
Joins(q, sep, W) ==
  LET size == join_size(q, sep) IN
  /\ W[0] = strlcpy(Head(q), size)
  /\ \A k \in 1 .. Len(q) - 1 : W[k] = Join2(W[k - 1], q[k + 1], sep, size)
  /\ vector_join(q, sep) = W[Len(q) - 1]

(* The second loop of vector_join.                                         *)
LEMMA JoinWalk ==
  ASSUME NEW S, NEW q \in Seq(S), q # << >>, NEW sep
  PROVE  \E W : Joins(q, sep, W)
PROOF
<1>. DEFINE r == Tail(q)
            n == Len(r)
            size == join_size(q, sep)
            base == strlcpy(Head(q), size)
            op == [kind |-> "join", sep |-> sep, size |-> size]
            Op(a, x) == strlcat(strlcat(a, sep, size), x, size)
            Folds(g) == g = [t \in SUBSET (DOMAIN r) |->
                               IF t = {} THEN base ELSE Op(g[t \ {Max(t)}], r[Max(t)])]
            g == CHOOSE g : Folds(g)
<1>. HIDE DEF size
<1>0. /\ n \in Nat /\ n = Len(q) - 1 /\ DOMAIN r = 1 .. n
      /\ \A k \in 1 .. n : r[k] = q[k + 1]
  <2>1. r \in Seq(S) /\ n = Len(q) - 1 /\ \A k \in 1 .. n : r[k] = q[k + 1]
    BY HeadTailProperties
  <2>. HIDE DEF r
  <2>. QED
    BY <2>1
<1>1. vector_join(q, sep) = g[DOMAIN r]
  BY Zenon DEF vector_join, FoldLeft, MapThenFoldSet, size
<1>2. \A a, x : Apply(op, a, x) = Op(a, x)
  <2>1. op.kind = "join" /\ op.sep = sep /\ op.size = size
    OBVIOUS
  <2>2. "join" # "split" /\ "join" # "total" /\ "join" # "without"
    OBVIOUS
  <2>. HIDE DEF op
  <2>. QED
    BY <2>1, <2>2 DEF Apply
<1>d. DOMAIN r = 1 .. n
  BY <1>0
<1>. HIDE DEF Op, op, base, r
<1>. HIDE DEF n
<1>3. \A f : Folded(op, base, r, n, f) <=> Folds(f)
  BY <1>d, <1>2 DEF Folded
<1>. HIDE DEF Folds
<1>4. PICK f : Folded(op, base, r, n, f)
  BY <1>0, FoldedExists
<1>5. Folds(g)
  BY <1>3, <1>4
<1>. HIDE DEF g
<1>6. PICK W : Walk(op, base, r, n, W) /\ W[n] = g[1 .. n]
  BY <1>0, <1>3, <1>5, FoldedWalks
<1>7. \A k \in 1 .. n : W[k] = Op(W[k - 1], q[k + 1])
  BY <1>0, <1>2, <1>6 DEF Walk
<1>8. Joins(q, sep, W)
  <2>1. W[0] = strlcpy(Head(q), size)
    BY <1>6 DEF Walk, base
  <2>2. \A k \in 1 .. Len(q) - 1 : W[k] = Join2(W[k - 1], q[k + 1], sep, size)
    BY <1>0, <1>7 DEF Join2, Op
  <2>3. vector_join(q, sep) = W[Len(q) - 1]
    BY <1>0, <1>1, <1>6
  <2>. QED
    BY <2>1, <2>2, <2>3, Zenon DEF Joins, size
<1>. QED
  BY <1>8

(* strlcpy and strlcat copy everything if there is room.                   *)
LEMMA Roomy ==
  ASSUME NEW C, NEW a \in Seq(C), NEW b \in Seq(C), NEW size \in Int
  PROVE  /\ Len(b) <= size - 1 => strlcpy(b, size) = b
         /\ Len(a) + Len(b) <= size - 1 => strlcat(a, b, size) = a \o b
PROOF
<1>. DEFINE m == Len(b)
            l == Len(a)
<1>0. m \in Nat /\ l \in Nat
  OBVIOUS
<1>1. SubSeq(b, 1, m) = b
  BY SubSeqFull
<1>. HIDE DEF m, l
<1>2. m <= size - 1 => MinLen(m, size - 1) = m
  BY <1>0 DEF MinLen
<1>3. l + m <= size - 1 => MinLen(m, size - 1 - l) = m
  BY <1>0 DEF MinLen
<1>. QED
  BY <1>1, <1>2, <1>3 DEF strlcpy, strlcat, m, l

(* Lengths add up to natural numbers, and never less than before.          *)
LEMMA TotalsGrow ==
  ASSUME NEW C, NEW q \in Seq(Seq(C)), NEW W, Totals(q, W)
  PROVE  /\ \A k \in 0 .. Len(q) : W[k] \in Nat
         /\ \A k \in 0 .. Len(q) : W[k] <= W[Len(q)]
PROOF
<1>. DEFINE n == Len(q)
            T == {k \in Nat : k <= n => W[k] \in Nat}
            D == {k \in Nat : k <= n => W[n - k] <= W[n]}
<1>0. n \in Nat
  OBVIOUS
<1>1. \A k \in 1 .. n : Len(q[k]) \in Nat /\ W[k] = W[k - 1] + Len(q[k])
  <2>1. \A k \in 1 .. n : q[k] \in Seq(C)
    BY ElementOfSeq
  <2>. QED
    BY <2>1 DEF Totals
<1>2. \A k \in Nat : k \in T
  <2>1. 0 \in T
    BY DEF Totals
  <2>2. ASSUME NEW k \in T PROVE k + 1 \in T
    <3>1. k + 1 \in Nat /\ (k + 1 <= n => k + 1 \in 1 .. n /\ (k + 1) - 1 = k /\ k <= n)
      BY <1>0
    <3>2. ASSUME k + 1 <= n PROVE W[k + 1] \in Nat
      <4>1. W[k] \in Nat /\ Len(q[k + 1]) \in Nat /\ W[k + 1] = W[k] + Len(q[k + 1])
        BY <1>1, <3>1, <3>2
      <4>. QED
        BY <4>1
    <3>. QED
      BY <3>1, <3>2
  <2>. HIDE DEF T
  <2>. QED
    BY <2>1, <2>2, Induction DEF T
<1>3. \A k \in 0 .. n : W[k] \in Nat
  BY <1>0, <1>2
<1>4. \A k \in Nat : k \in D
  <2>1. 0 \in D
    <3>1. n - 0 = n /\ W[n] \in Nat
      BY <1>0, <1>3
    <3>. QED
      BY <3>1
  <2>2. ASSUME NEW k \in D PROVE k + 1 \in D
    <3>1. k + 1 \in Nat
      OBVIOUS
    <3>2. ASSUME k + 1 <= n PROVE W[n - (k + 1)] <= W[n]
      <4>. DEFINE j == n - k
      <4>1. /\ j \in 1 .. n /\ j \in 0 .. n /\ n \in 0 .. n /\ k <= n
            /\ j - 1 = n - (k + 1) /\ j - 1 \in 0 .. n
        BY <1>0, <3>2
      <4>2. W[j] <= W[n]
        BY <4>1
      <4>. HIDE DEF j, n
      <4>3. /\ W[j] = W[j - 1] + Len(q[j]) /\ Len(q[j]) \in Nat
            /\ W[j] \in Nat /\ W[n] \in Nat /\ W[j - 1] \in Nat
        BY <1>1, <1>3, <4>1
      <4>4. W[j - 1] <= W[n]
        BY <4>2, <4>3
      <4>. QED
        BY <4>1, <4>4
    <3>. QED
      BY <3>1, <3>2
  <2>. HIDE DEF D
  <2>. QED
    BY <2>1, <2>2, Induction DEF D
<1>5. ASSUME NEW k \in 0 .. n PROVE W[k] <= W[n]
  <2>1. n - k \in Nat /\ n - k <= n /\ n - (n - k) = k
    BY <1>0
  <2>2. n - k \in D
    BY <1>4, <2>1
  <2>. QED
    BY <2>1, <2>2
<1>. QED
  BY <1>3, <1>5

(* Multiples.                                                              *)
LEMMA Multiples ==
  ASSUME NEW l \in Nat
  PROVE  /\ \A k \in Nat : k * l \in Nat /\ (k + 1) * l = k * l + l
         /\ \A k, m \in Nat : k <= m => k * l <= m * l
         /\ 0 * l = 0
PROOF
<1>1. \A k \in Nat : k * l \in Nat /\ (k + 1) * l = k * l + l
  OBVIOUS
<1>2. ASSUME NEW k \in Nat, NEW m \in Nat, k <= m PROVE k * l <= m * l
  <2>. DEFINE d == m - k
  <2>1. d \in Nat /\ m = k + d
    BY <1>2
  <2>. HIDE DEF d
  <2>2. m * l = k * l + d * l /\ d * l \in Nat /\ k * l \in Nat
    BY <2>1
  <2>. DEFINE a == m * l
              b == k * l
              c == d * l
  <2>3. a = b + c /\ c \in Nat /\ b \in Nat
    BY <2>2
  <2>. HIDE DEF a, b, c
  <2>4. b <= a
    BY <2>3
  <2>. QED
    BY <2>4 DEF a, b
<1>3. 0 * l = 0
  OBVIOUS
<1>. QED
  BY <1>1, <1>2, <1>3

(* A string joined from others, with nothing cut off.                      *)
Parts(q, sep, J) ==
  /\ J[0] = q[1]
  /\ \A k \in 1 .. Len(q) - 1 : J[k] = (J[k - 1] \o sep) \o q[k + 1]
  /\ vector_join(q, sep) = J[Len(q) - 1]

(* The size that vector_join computes in its first loop is large enough    *)
(* for every string the second one appends.                                *)
LEMMA JoinParts ==
  ASSUME NEW C, NEW q \in Seq(Seq(C)), q # << >>, NEW sep \in Seq(C)
  PROVE  /\ \E J : Parts(q, sep, J)
         /\ Len(vector_join(q, sep)) = Total(q) + (Len(q) - 1) * Len(sep)
PROOF
<1>. DEFINE n == Len(q)
            l == Len(sep)
            size == join_size(q, sep)
<1>0. n \in Nat /\ n - 1 \in Nat /\ n >= 1 /\ l \in Nat /\ \A k \in 1 .. n : q[k] \in Seq(C)
  BY EmptySeq, ElementOfSeq
<1>1. PICK W : Totals(q, W)
  BY TotalWalk
<1>2. PICK J : Joins(q, sep, J)
  BY JoinWalk
<1>3. \A k \in 0 .. n : W[k] \in Nat /\ W[k] <= W[n]
  BY <1>1, TotalsGrow
<1>4. size = W[n] + (n - 1) * l + 1
  BY <1>1 DEF join_size, Totals, Total
<1>5. \A k \in 1 .. n : W[k] = W[k - 1] + Len(q[k])
  BY <1>1 DEF Totals
<1>6. /\ J[0] = strlcpy(Head(q), size)
      /\ \A k \in 1 .. n - 1 : J[k] = strlcat(strlcat(J[k - 1], sep, size), q[k + 1], size)
      /\ vector_join(q, sep) = J[n - 1]
  BY <1>2 DEF Joins, Join2
<1>. HIDE DEF size, n, l
<1>. DEFINE M(k) == k * l
<1>7. /\ \A k \in Nat : M(k) \in Nat /\ M(k + 1) = M(k) + l
      /\ \A k, m \in Nat : k <= m => M(k) <= M(m)
      /\ M(0) = 0
  BY <1>0, Multiples
<1>8. size = W[n] + M(n - 1) + 1
  BY <1>4
<1>. HIDE DEF M
<1>9. size \in Int
  BY <1>0, <1>3, <1>7, <1>8
<1>. DEFINE Right(k) == /\ J[k] \in Seq(C) /\ Len(J[k]) = W[k + 1] + M(k)
                        /\ IF k = 0 THEN J[k] = q[1] ELSE J[k] = (J[k - 1] \o sep) \o q[k + 1]
            T == {k \in Nat : k <= n - 1 => Right(k)}
<1>10. Right(0)
  <2>1. Head(q) = q[1] /\ q[1] \in Seq(C) /\ 1 \in 1 .. n /\ 1 \in 0 .. n /\ n \in 0 .. n
    BY <1>0
  <2>2. W[0] = 0 /\ W[1] = W[0] + Len(q[1])
    BY <1>1, <1>5, <2>1 DEF Totals
  <2>. DEFINE a == q[1]
              w == W[1]
              z == W[n]
              m == M(n - 1)
  <2>3. a \in Seq(C) /\ Len(a) \in Nat /\ 1 - 1 = 0
    BY <2>1
  <2>. HIDE DEF a
  <2>4. w = Len(a) /\ w + M(0) = Len(a) /\ 0 + 1 = 1
    <3>1. w = 0 + Len(a) /\ M(0) = 0
      BY <1>7, <2>2 DEF a
    <3>. HIDE DEF w
    <3>. QED
      BY <2>3, <3>1
  <2>5. w <= z /\ z \in Nat /\ m \in Nat /\ size = z + m + 1
    BY <1>0, <1>3, <1>7, <1>8, <2>1
  <2>. HIDE DEF w, z, m
  <2>6. Len(a) <= size - 1
    BY <2>3, <2>4, <2>5
  <2>7. strlcpy(a, size) = a
    BY <1>9, <2>3, <2>6, Roomy
  <2>8. J[0] = a
    BY <1>6, <2>1, <2>7 DEF a
  <2>. QED
    BY <2>3, <2>4, <2>8 DEF w, a
<1>11. ASSUME NEW k \in Nat, k + 1 <= n - 1, Right(k) PROVE Right(k + 1)
  <2>. DEFINE K == k + 1
              a == J[k]
              b == q[K + 1]
              w == W[K]
              x == W[K + 1]
              z == W[n]
              m == M(n - 1)
              c == M(k)
              d == M(K)
  <2>0. /\ K \in 1 .. n - 1 /\ K - 1 = k /\ K + 1 \in 1 .. n /\ K \in Nat /\ K # 0
        /\ K \in 0 .. n /\ K + 1 \in 0 .. n /\ n \in 0 .. n /\ (K + 1) - 1 = K
    BY <1>0, <1>11
  <2>1. a \in Seq(C) /\ Len(a) = w + c /\ b \in Seq(C) /\ Len(b) \in Nat
    BY <1>0, <1>11, <2>0
  <2>2. x = w + Len(b) /\ w \in Nat /\ x \in Nat /\ z \in Nat /\ x <= z
    BY <1>3, <1>5, <2>0
  <2>3. c \in Nat /\ d = c + l /\ d <= m /\ m \in Nat /\ size = z + m + 1
    BY <1>0, <1>7, <1>8, <1>11, <2>0
  <2>. DEFINE y == a \o sep
  <2>4. J[K] = strlcat(strlcat(a, sep, size), b, size)
    BY <1>6, <2>0
  <2>. HIDE DEF K, a, b, w, x, z, m, c, d
  <2>5. y \in Seq(C) /\ Len(y) = Len(a) + l
    BY <2>1, ConcatProperties DEF l
  <2>. HIDE DEF y
  <2>6. Len(a) + l <= size - 1 /\ Len(y) + Len(b) <= size - 1 /\ Len(y) + Len(b) = x + d
    BY <1>0, <2>1, <2>2, <2>3, <2>5
  <2>7. strlcat(a, sep, size) = y /\ strlcat(y, b, size) = y \o b
    BY <1>9, <2>1, <2>5, <2>6, Roomy DEF l, y
  <2>8. y \o b \in Seq(C) /\ Len(y \o b) = Len(y) + Len(b)
    BY <2>1, <2>5, ConcatProperties
  <2>9. J[K] = y \o b
    BY <2>4, <2>7
  <2>10. J[K] \in Seq(C) /\ Len(J[K]) = W[K + 1] + M(K) /\ J[K] = (J[K - 1] \o sep) \o q[K + 1]
    BY <2>0, <2>6, <2>8, <2>9 DEF x, d, y, a, b
  <2>. QED
    BY <2>0, <2>10 DEF K
<1>. HIDE DEF Right
<1>12. \A k \in Nat : k \in T
  <2>1. T \subseteq Nat /\ 0 \in T
    BY <1>10
  <2>2. ASSUME NEW k \in T PROVE k + 1 \in T
    <3>1. k \in Nat /\ k + 1 \in Nat /\ (k + 1 <= n - 1 => k <= n - 1)
      BY <1>0
    <3>. QED
      BY <1>11, <3>1
  <2>. HIDE DEF T
  <2>. QED
    BY <2>1, <2>2, Induction
<1>13. \A k \in 0 .. n - 1 : Right(k)
  BY <1>0, <1>12
<1>14. Parts(q, sep, J)
  <2>1. 0 \in 0 .. n - 1
    BY <1>0
  <2>2. J[0] = q[1]
    BY <1>13, <2>1 DEF Right
  <2>3. \A k \in 1 .. n - 1 : J[k] = (J[k - 1] \o sep) \o q[k + 1]
    <3>1. \A k \in 1 .. n - 1 : k \in 0 .. n - 1 /\ k # 0
      BY <1>0
    <3>. QED
      BY <1>13, <3>1 DEF Right
  <2>. QED
    BY <1>6, <2>2, <2>3 DEF Parts, n
<1>15. Len(vector_join(q, sep)) = Total(q) + (n - 1) * l
  <2>1. n - 1 \in 0 .. n - 1 /\ (n - 1) + 1 = n
    BY <1>0
  <2>2. Len(J[n - 1]) = W[n] + M(n - 1)
    BY <1>13, <2>1 DEF Right
  <2>. QED
    BY <1>1, <1>6, <2>2 DEF Totals, n, M
<1>. QED
  BY <1>14, <1>15 DEF n, l

(* The function by which FlattenSeq joins sequences exists.                *)
LEMMA FlattenerExists ==
  ASSUME NEW q
  PROVE  \A n \in Nat : \E g :
           g = [i \in 1 .. n |-> IF i = 1 THEN q[i] ELSE g[i-1] \o q[i]]
PROOF
<1>. DEFINE Body(g, k) == IF k = 1 THEN q[k] ELSE g[k-1] \o q[k]
            T == {n \in Nat : \E g : g = [k \in 1 .. n |-> Body(g, k)]}
<1>1. 0 \in T
  <2>. DEFINE g == [k \in 1 .. 0 |-> 0]
  <2>1. g = [k \in 1 .. 0 |-> Body(g, k)]
    OBVIOUS
  <2>. QED
    BY <2>1
<1>2. ASSUME NEW n \in T PROVE n + 1 \in T
  <2>1. PICK g : g = [k \in 1 .. n |-> Body(g, k)]
    OBVIOUS
  <2>. DEFINE h == [k \in 1 .. n + 1 |-> IF k = n + 1 THEN Body(g, k) ELSE g[k]]
  <2>0. n \in Nat /\ n + 1 \in Nat
    OBVIOUS
  <2>2. ASSUME NEW k \in 1 .. n + 1 PROVE h[k] = Body(h, k)
    <3>1. k = 1 \/ (k - 1 \in 1 .. n + 1 /\ k - 1 # n + 1 /\ h[k - 1] = g[k - 1])
      BY <2>0
    <3>2. Body(h, k) = Body(g, k)
      BY <3>1
    <3>3. k # n + 1 => g[k] = Body(g, k)
      <4>1. k # n + 1 => k \in 1 .. n
        BY <2>0
      <4>. HIDE DEF Body
      <4>. QED
        BY <2>1, <4>1
    <3>. HIDE DEF Body
    <3>. QED
      BY <3>2, <3>3
  <2>. HIDE DEF Body
  <2>3. h = [k \in 1 .. n + 1 |-> Body(h, k)]
    BY <2>2
  <2>. HIDE DEF h
  <2>. QED
    BY <2>0, <2>3
<1>. HIDE DEF Body, T
<1>3. \A n \in Nat : n \in T
  <2>1. T \subseteq Nat /\ \A n \in T : n + 1 \in T
    BY <1>2 DEF T
  <2>. QED
    BY <1>1, <2>1, Induction
<1>. QED
  BY <1>3 DEF T, Body

(* The strings one after the other.                                        *)
Flattens(q, g) ==
  /\ g[1] = q[1]
  /\ \A k \in 2 .. Len(q) : g[k] = g[k - 1] \o q[k]
  /\ FlattenSeq(q) = g[Len(q)]

(* FlattenSeq puts them so.                                                *)
LEMMA FlattenWalk ==
  ASSUME NEW S, NEW q \in Seq(S), q # << >>
  PROVE  \E g : Flattens(q, g)
PROOF
<1>. DEFINE n == Len(q)
            g == CHOOSE g : g = [i \in 1 .. n |->
                                   IF i = 1 THEN q[i] ELSE g[i-1] \o q[i]]
<1>0. n \in Nat /\ n # 0
  BY EmptySeq
<1>1. FlattenSeq(q) = g[n]
  BY <1>0 DEF FlattenSeq
<1>2. g = [i \in 1 .. n |-> IF i = 1 THEN q[i] ELSE g[i-1] \o q[i]]
  BY <1>0, FlattenerExists
<1>. HIDE DEF g, n
<1>3. g[1] = q[1]
  <2>1. 1 \in 1 .. n
    BY <1>0
  <2>. QED
    BY <1>2, <2>1
<1>4. \A k \in 2 .. n : g[k] = g[k - 1] \o q[k]
  <2>1. \A k \in 2 .. n : k \in 1 .. n /\ k # 1
    BY <1>0
  <2>. QED
    BY <1>2, <2>1
<1>. QED
  BY <1>1, <1>3, <1>4 DEF Flattens, n

(* Nothing is lost by flattening, and another string goes to the end.      *)
LEMMA FlattenLen ==
  ASSUME NEW C, NEW q \in Seq(Seq(C))
  PROVE  FlattenSeq(q) \in Seq(C) /\ Len(FlattenSeq(q)) = Total(q)
PROOF
<1>. DEFINE n == Len(q)
<1>0. n \in Nat /\ \A k \in 1 .. n : q[k] \in Seq(C)
  BY ElementOfSeq
<1>1. PICK W : Totals(q, W)
  BY TotalWalk
<1>2. W[0] = 0 /\ Total(q) = W[n] /\ \A k \in 1 .. n : W[k] = W[k - 1] + Len(q[k])
  BY <1>1 DEF Totals
<1>3. CASE q = << >>
  <2>1. n = 0 /\ FlattenSeq(q) = << >> /\ << >> \in Seq(C) /\ Len(<< >>) = 0
    BY <1>3, EmptySeq DEF FlattenSeq
  <2>. QED
    BY <1>2, <2>1
<1>4. CASE q # << >>
  <2>0. n >= 1
    BY <1>0, <1>4, EmptySeq
  <2>1. PICK g : Flattens(q, g)
    BY <1>4, FlattenWalk
  <2>2. g[1] = q[1] /\ FlattenSeq(q) = g[n] /\ \A k \in 2 .. n : g[k] = g[k - 1] \o q[k]
    BY <2>1 DEF Flattens
  <2>. HIDE DEF n
  <2>. DEFINE Right(k) == g[k] \in Seq(C) /\ Len(g[k]) = W[k]
              T == {k \in Nat : k + 1 <= n => Right(k + 1)}
  <2>3. Right(1)
    <3>. DEFINE a == q[1]
    <3>1. a \in Seq(C) /\ W[1] = W[0] + Len(a) /\ g[1] = a
      <4>1. 1 \in 1 .. n /\ 1 - 1 = 0
        BY <1>0, <2>0
      <4>. QED
        BY <1>0, <1>2, <2>2, <4>1
    <3>. HIDE DEF a
    <3>2. Len(a) \in Nat
      BY <3>1
    <3>3. W[1] = Len(a)
      BY <1>2, <3>1, <3>2
    <3>. QED
      BY <3>1, <3>3
  <2>4. ASSUME NEW k \in Nat, k + 2 <= n, Right(k + 1) PROVE Right(k + 2)
    <3>. DEFINE K == k + 2
                a == g[K - 1]
                b == q[K]
    <3>0. K - 1 = k + 1 /\ K \in 2 .. n /\ K \in 1 .. n
      BY <1>0, <2>4
    <3>1. a \in Seq(C) /\ Len(a) = W[K - 1] /\ b \in Seq(C) /\ g[K] = a \o b /\ W[K] = W[K - 1] + Len(b)
      <4>1. Right(K - 1)
        BY <2>4, <3>0
      <4>. HIDE DEF K
      <4>. QED
        BY <1>0, <1>2, <2>2, <3>0, <4>1
    <3>. HIDE DEF K, a, b
    <3>2. a \o b \in Seq(C) /\ Len(a \o b) = Len(a) + Len(b)
      BY <3>1, ConcatProperties
    <3>3. Right(K)
      BY <3>1, <3>2
    <3>. QED
      BY <3>3 DEF K
  <2>. HIDE DEF Right
  <2>5. \A k \in Nat : k \in T
    <3>1. T \subseteq Nat /\ 0 \in T
      <4>1. 0 + 1 = 1
        OBVIOUS
      <4>. QED
        BY <2>3, <4>1
    <3>2. ASSUME NEW k \in T PROVE k + 1 \in T
      <4>1. k \in Nat /\ k + 1 \in Nat /\ (k + 1) + 1 = k + 2 /\ (k + 2 <= n => k + 1 <= n)
        BY <1>0
      <4>. QED
        BY <2>4, <4>1
    <3>. HIDE DEF T
    <3>. QED
      BY <3>1, <3>2, Induction
  <2>6. Right(n)
    <3>1. n - 1 \in Nat /\ (n - 1) + 1 = n /\ n <= n
      BY <1>0, <2>0
    <3>. QED
      BY <2>5, <3>1
  <2>. QED
    BY <1>2, <2>2, <2>6 DEF Right
<1>. QED
  BY <1>3, <1>4

(* Another string goes to the end.                                         *)
LEMMA FlattenAppend ==
  ASSUME NEW C, NEW q \in Seq(Seq(C)), NEW s \in Seq(C)
  PROVE  FlattenSeq(Append(q, s)) = FlattenSeq(q) \o s
PROOF
<1>. DEFINE n == Len(q)
            r == Append(q, s)
            m == Len(r)
<1>0. /\ n \in Nat /\ r \in Seq(Seq(C)) /\ r # << >> /\ m = n + 1
      /\ \A k \in 1 .. n : r[k] = q[k]
      /\ r[n + 1] = s
  BY AppendProperties
<1>. HIDE DEF r
<1>1. PICK h : Flattens(r, h)
  BY <1>0, FlattenWalk
<1>2. h[1] = r[1] /\ FlattenSeq(r) = h[m] /\ \A k \in 2 .. m : h[k] = h[k - 1] \o r[k]
  BY <1>1 DEF Flattens
<1>. HIDE DEF m
<1>3. CASE q = << >>
  <2>1. n = 0 /\ FlattenSeq(q) = << >> /\ << >> \o s = s
    BY <1>3, EmptySeq, ConcatEmptySeq DEF FlattenSeq
  <2>. QED
    BY <1>0, <1>2, <2>1 DEF r
<1>4. CASE q # << >>
  <2>0. n >= 1
    BY <1>0, <1>4, EmptySeq
  <2>1. PICK g : Flattens(q, g)
    BY <1>4, FlattenWalk
  <2>2. g[1] = q[1] /\ FlattenSeq(q) = g[n] /\ \A k \in 2 .. n : g[k] = g[k - 1] \o q[k]
    BY <2>1 DEF Flattens
  <2>. HIDE DEF n
  <2>. DEFINE T == {k \in Nat : k + 1 <= n => h[k + 1] = g[k + 1]}
  <2>3. 0 \in T
    <3>1. 0 + 1 = 1 /\ 1 \in 1 .. n
      BY <1>0, <2>0
    <3>. QED
      BY <1>0, <1>2, <2>2, <3>1
  <2>4. ASSUME NEW k \in T PROVE k + 1 \in T
    <3>. DEFINE K == (k + 1) + 1
    <3>1. k + 1 \in Nat
      OBVIOUS
    <3>2. ASSUME K <= n PROVE h[K] = g[K]
      <4>1. K \in 2 .. n /\ K \in 2 .. m /\ K \in 1 .. n /\ K - 1 = k + 1 /\ k + 1 <= n
        BY <1>0, <3>2
      <4>2. h[K - 1] = g[K - 1]
        BY <4>1
      <4>. HIDE DEF K
      <4>. QED
        BY <1>0, <1>2, <2>2, <4>1, <4>2
    <3>. QED
      BY <3>1, <3>2
  <2>5. n - 1 \in T
    <3>1. T \subseteq Nat /\ n - 1 \in Nat
      BY <1>0, <2>0
    <3>. HIDE DEF T
    <3>. QED
      BY <2>3, <2>4, <3>1, Induction
  <2>6. h[n] = g[n]
    <3>1. (n - 1) + 1 = n /\ n <= n
      BY <1>0
    <3>. QED
      BY <2>5, <3>1
  <2>7. h[m] = h[n] \o s
    <3>1. m \in 2 .. m /\ m - 1 = n
      BY <1>0, <2>0
    <3>. QED
      BY <1>0, <1>2, <3>1
  <2>. QED
    BY <1>2, <2>2, <2>6, <2>7 DEF r
<1>. QED
  BY <1>3, <1>4

(* The pieces of vector_split_multi are the text without the separators.   *)
LEMMA MultiFlat ==
  ASSUME NEW C, NEW s \in Seq(C)
  PROVE  FlattenSeq(multi_pieces(s)) = Without(s, Seps)
PROOF
<1>. DEFINE n == Len(s)
            F(out) == FlattenSeq(out)
<1>0. n \in Nat /\ \A k \in 1 .. n : s[k] \in C
  BY ElementOfSeq
<1>w. PICK W : Walks(s, Seps, FALSE, W)
  BY <1>0, PiecesWalk, Zenon
<1>v. PICK V : Keeps(s, Seps, V)
  BY WithoutWalk
<1>1. /\ W[0] = Start
      /\ \A k \in 1 .. n : W[k] = Step(s, Seps, FALSE, W[k - 1], k)
      /\ Pieces(s, Seps, FALSE) = EndPiece(s, FALSE, W[n], n + 1)
  BY <1>w, Zenon DEF Walks
<1>2. /\ V[0] = << >>
      /\ \A k \in 1 .. n : V[k] = IF s[k] \in Seps THEN V[k - 1] ELSE Append(V[k - 1], s[k])
      /\ Without(s, Seps) = V[n]
  BY <1>v DEF Keeps
<1>. HIDE DEF F
<1>3. ASSUME NEW k \in 0 .. n, NEW acc, At(s, Seps, acc, k), acc.out \in Seq(Seq(C))
      PROVE  /\ EndPiece(s, FALSE, acc, k + 1) \in Seq(Seq(C))
             /\ F(EndPiece(s, FALSE, acc, k + 1)) = F(acc.out) \o Piece(s, acc, k)
  <2>. DEFINE t == Piece(s, acc, k)
              o == acc.out
  <2>0. F(o) \in Seq(C)
    BY <1>3, FlattenLen DEF F
  <2>1. CASE acc.start = k + 1
    <3>1. EndPiece(s, FALSE, acc, k + 1) = o
      BY <2>1 DEF EndPiece
    <3>2. t = << >>
      <4>1. k \in Int /\ k + 1 \in Int /\ k < k + 1
        OBVIOUS
      <4>. QED
        BY <2>1, <4>1, SubSeqEmpty DEF Piece
    <3>3. F(o) \o << >> = F(o)
      BY <2>0, ConcatEmptySeq
    <3>. QED
      BY <1>3, <3>1, <3>2, <3>3
  <2>2. CASE acc.start # k + 1
    <3>1. EndPiece(s, FALSE, acc, k + 1) = Append(o, t)
      <4>1. (k + 1) - 1 = k
        OBVIOUS
      <4>. QED
        BY <2>2, <4>1 DEF EndPiece, Piece
    <3>2. t \in Seq(C)
      BY <1>3, PieceLen
    <3>. HIDE DEF t, o
    <3>3. o \in Seq(Seq(C))
      BY <1>3 DEF o
    <3>4. Append(o, t) \in Seq(Seq(C)) /\ F(Append(o, t)) = F(o) \o t
      BY <3>2, <3>3, AppendProperties, FlattenAppend DEF F
    <3>. QED
      BY <3>1, <3>4 DEF t, o
  <2>. QED
    BY <2>1, <2>2
<1>. DEFINE Right(k) == /\ At(s, Seps, W[k], k) /\ W[k].out \in Seq(Seq(C))
                        /\ F(W[k].out) \o Piece(s, W[k], k) = V[k]
            T == {k \in Nat : k <= n => Right(k)}
<1>4. Right(0)
  <2>1. W[0].out = << >> /\ At(s, Seps, W[0], 0) /\ W[0].start = 1
    BY <1>1, AtStart DEF Start
  <2>2. << >> \in Seq(Seq(C)) /\ F(<< >>) = << >>
    BY EmptySeq DEF F, FlattenSeq
  <2>3. Piece(s, W[0], 0) = << >>
    <3>1. SubSeq(s, 1, 0) = << >>
      BY SubSeqEmpty
    <3>. QED
      BY <2>1, <3>1 DEF Piece
  <2>4. << >> \o << >> = << >>
    BY EmptySeq, ConcatEmptySeq
  <2>. QED
    BY <1>2, <2>1, <2>2, <2>3, <2>4
<1>5. ASSUME NEW k \in Nat, k + 1 <= n, Right(k) PROVE Right(k + 1)
  <2>. DEFINE K == k + 1
              acc == W[k]
              new == W[K]
              c == s[K]
              P == Piece(s, acc, k)
  <2>0. K \in 1 .. n /\ K - 1 = k /\ k \in 0 .. n /\ K \in Nat
    BY <1>0, <1>5
  <2>1. new = Step(s, Seps, FALSE, acc, K)
    BY <1>1, <2>0
  <2>2. At(s, Seps, new, K)
    BY <1>0, <1>5, <2>0, <2>1, AtStep
  <2>3. V[K] = IF c \in Seps THEN V[k] ELSE Append(V[k], c)
    BY <1>2, <2>0
  <2>4. At(s, Seps, acc, k) /\ acc.out \in Seq(Seq(C)) /\ F(acc.out) \o P = V[k]
    BY <1>5
  <2>5. F(acc.out) \in Seq(C) /\ P \in Seq(C) /\ c \in C
    <3>1. F(acc.out) \in Seq(C)
      BY <2>4, FlattenLen DEF F
    <3>2. P \in Seq(C)
      BY <2>0, <2>4, PieceLen
    <3>. QED
      BY <1>0, <2>0, <3>1, <3>2
  <2>. DEFINE f == F(acc.out)
  <2>. HIDE DEF acc, new, c, P, f
  <2>6. V[k] \in Seq(C) /\ V[k] = f \o P
    BY <2>4, <2>5, ConcatProperties DEF f
  <2>7. CASE c \in Seps
    <3>1. new.start = K + 1 /\ new.out = EndPiece(s, FALSE, acc, k + 1)
      BY <2>1, <2>7 DEF Step, c
    <3>2. new.out \in Seq(Seq(C)) /\ F(new.out) = f \o P
      BY <1>3, <2>0, <2>4, <3>1 DEF f, P
    <3>3. Piece(s, new, K) = << >>
      <4>1. K \in Int /\ K + 1 \in Int /\ K < K + 1
        OBVIOUS
      <4>. QED
        BY <3>1, <4>1, SubSeqEmpty DEF Piece
    <3>4. V[k] \o << >> = V[k]
      BY <2>6, ConcatEmptySeq
    <3>5. F(new.out) \o Piece(s, new, K) = V[K]
      BY <2>3, <2>6, <2>7, <3>2, <3>3, <3>4
    <3>. HIDE DEF K
    <3>. QED
      BY <2>2, <3>2, <3>5 DEF new, K
  <2>8. CASE c \notin Seps
    <3>1. new = acc
      BY <2>1, <2>8 DEF Step, c
    <3>2. Piece(s, acc, K) = P \o <<c>>
      <4>1. acc.start \in 1 .. k + 1
        BY <2>4 DEF At
      <4>. DEFINE a == acc.start
      <4>2. a \in 1 .. n /\ K \in a .. n
        BY <1>0, <2>0, <4>1
      <4>. HIDE DEF a, K
      <4>3. SubSeq(s, a, K) = SubSeq(s, a, K - 1) \o <<s[K]>>
        BY <4>2, SubSeqRecursiveSecond
      <4>. QED
        BY <2>0, <4>3 DEF Piece, a, P, c
    <3>3. <<c>> \in Seq(C)
      BY <2>5
    <3>4. V[K] = (f \o P) \o <<c>>
      BY <2>3, <2>5, <2>6, <2>8, AppendIsConcat
    <3>5. (f \o P) \o <<c>> = f \o (P \o <<c>>)
      BY <2>5, <3>3, ConcatAssociative DEF f
    <3>6. F(new.out) \o Piece(s, new, K) = V[K]
      BY <3>1, <3>2, <3>4, <3>5 DEF f
    <3>. HIDE DEF K
    <3>. QED
      BY <2>2, <2>4, <3>1, <3>6 DEF new, K
  <2>. QED
    BY <2>7, <2>8
<1>. HIDE DEF Right
<1>6. n \in T
  <2>1. T \subseteq Nat /\ 0 \in T
    BY <1>4
  <2>2. ASSUME NEW k \in T PROVE k + 1 \in T
    <3>1. k \in Nat /\ k + 1 \in Nat /\ (k + 1 <= n => k <= n)
      BY <1>0
    <3>. QED
      BY <1>5, <3>1
  <2>. HIDE DEF T
  <2>. QED
    BY <1>0, <2>1, <2>2, Induction
<1>7. Right(n)
  BY <1>0, <1>6
<1>8. F(EndPiece(s, FALSE, W[n], n + 1)) = V[n]
  <2>1. n \in 0 .. n
    BY <1>0
  <2>2. At(s, Seps, W[n], n) /\ W[n].out \in Seq(Seq(C)) /\ F(W[n].out) \o Piece(s, W[n], n) = V[n]
    BY <1>7 DEF Right
  <2>. HIDE DEF n
  <2>. QED
    BY <1>3, <2>1, <2>2
<1>. QED
  BY <1>1, <1>2, <1>8 DEF multi_pieces, F

(* A text up to a separator, from its parts.                               *)
LEMMA CutStep ==
  ASSUME NEW C, NEW s \in Seq(C), NEW a \in 1 .. Len(s) + 1, NEW b \in a + 1 .. Len(s) + 1
  PROVE  (SubSeq(s, 1, a - 1) \o SubSeq(s, a, b - 2)) \o <<s[b - 1]>> = SubSeq(s, 1, b - 1)
PROOF
<1>. DEFINE n == Len(s)
            m == a - 1
            e == b - 2
            d == b - 1
<1>0. n \in Nat
  OBVIOUS
<1>1. /\ m \in 1 - 1 .. n /\ e \in m .. n /\ m + 1 = a /\ d \in 1 .. n /\ d - 1 = e
      /\ 1 \in 1 .. n + 1 /\ 1 \in 1 .. n
  BY <1>0
<1>. HIDE DEF m, e, d
<1>2. SubSeq(s, 1, m) \o SubSeq(s, m + 1, e) = SubSeq(s, 1, e)
  BY <1>1, ConcatAdjacentSubSeq
<1>3. SubSeq(s, 1, d) = SubSeq(s, 1, d - 1) \o <<s[d]>>
  BY <1>1, SubSeqRecursiveSecond
<1>. QED
  BY <1>1, <1>2, <1>3 DEF m, e, d

(* Where the pieces of a text begin: after the separators.                 *)
Cuts(s, out, x) ==
  /\ x[0] = 1
  /\ \A i \in 1 .. Len(out) : /\ x[i] \in x[i - 1] + 1 .. Len(s) + 1
                              /\ s[x[i] - 1] = Sep
                              /\ out[i] = SubSeq(s, x[i - 1], x[i] - 2)

(* vector_split cuts at every separator.                                   *)
LEMMA SplitCuts ==
  ASSUME NEW C, NEW s \in Seq(C)
  PROVE  \E out, x : /\ out \in Seq(Seq(C)) /\ Cuts(s, out, x)
                     /\ x[Len(out)] \in 1 .. Len(s) + 1
                     /\ split_pieces(s) = Append(out, SubSeq(s, x[Len(out)], Len(s)))
PROOF
<1>. DEFINE n == Len(s)
            seps == {Sep}
<1>0. n \in Nat /\ \A x : x \in seps <=> x = Sep
  OBVIOUS
<1>. HIDE DEF seps
<1>w. PICK W : Walks(s, seps, TRUE, W)
  BY <1>0, PiecesWalk, Zenon
<1>1. /\ W[0] = Start
      /\ \A k \in 1 .. n : W[k] = Step(s, seps, TRUE, W[k - 1], k)
      /\ Pieces(s, seps, TRUE) = EndPiece(s, TRUE, W[n], n + 1)
  BY <1>w, Zenon DEF Walks
<1>. DEFINE Cut(acc) == \E x : Cuts(s, acc.out, x) /\ x[Len(acc.out)] = acc.start
            Right(k) == At(s, seps, W[k], k) /\ W[k].out \in Seq(Seq(C)) /\ Cut(W[k])
            T == {k \in Nat : k <= n => Right(k)}
<1>2. Right(0)
  <2>1. W[0].out = << >> /\ At(s, seps, W[0], 0) /\ W[0].start = 1
    BY <1>1, AtStart DEF Start
  <2>2. << >> \in Seq(Seq(C)) /\ Len(<< >>) = 0 /\ 1 .. 0 = {}
    BY EmptySeq
  <2>. DEFINE x == [i \in {0} |-> 1]
  <2>3. x[0] = 1
    OBVIOUS
  <2>. HIDE DEF x
  <2>4. Cuts(s, W[0].out, x) /\ x[Len(W[0].out)] = W[0].start
    BY <2>1, <2>2, <2>3 DEF Cuts
  <2>. QED
    BY <2>1, <2>2, <2>4
<1>3. ASSUME NEW k \in Nat, k + 1 <= n, Right(k) PROVE Right(k + 1)
  <2>. DEFINE K == k + 1
              acc == W[k]
              new == W[K]
              o == acc.out
              m == Len(o)
              P == Piece(s, acc, k)
  <2>0. K \in 1 .. n /\ K - 1 = k /\ k \in 0 .. n /\ K \in Nat
    BY <1>0, <1>3
  <2>1. new = Step(s, seps, TRUE, acc, K)
    BY <1>1, <2>0
  <2>2. At(s, seps, new, K)
    BY <1>0, <1>3, <2>0, <2>1, AtStep
  <2>3. At(s, seps, acc, k) /\ o \in Seq(Seq(C)) /\ Cut(acc)
    BY <1>3
  <2>4. P \in Seq(C)
    BY <2>0, <2>3, PieceLen
  <2>5. acc.start \in 1 .. K
    BY <2>3 DEF At
  <2>6. CASE s[K] = Sep
    <3>1. new.start = K + 1 /\ new.out = Append(o, P)
      <4>1. new = [start |-> K + 1, out |-> EndPiece(s, TRUE, acc, K)]
        BY <1>0, <2>1, <2>6 DEF Step
      <4>2. EndPiece(s, TRUE, acc, K) = Append(o, P)
        BY <2>0 DEF EndPiece, Piece
      <4>. HIDE DEF K, acc, new, o, P
      <4>. QED
        BY <4>1, <4>2
    <3>. HIDE DEF K, acc, new, o, P
    <3>2. /\ Append(o, P) \in Seq(Seq(C)) /\ Len(Append(o, P)) = m + 1 /\ m \in Nat
          /\ \A i \in 1 .. m : Append(o, P)[i] = o[i]
          /\ Append(o, P)[m + 1] = P
      BY <2>3, <2>4, AppendProperties
    <3>. HIDE DEF m
    <3>3. PICK x : Cuts(s, o, x) /\ x[m] = acc.start
      BY <2>3 DEF o, m
    <3>. DEFINE y == [i \in 0 .. m + 1 |-> IF i = m + 1 THEN K + 1 ELSE x[i]]
    <3>4. y[0] = 1 /\ y[m + 1] = K + 1 /\ \A i \in 0 .. m : y[i] = x[i]
      <4>1. /\ 0 \in 0 .. m + 1 /\ 0 # m + 1 /\ m + 1 \in 0 .. m + 1
            /\ \A i \in 0 .. m : i \in 0 .. m + 1 /\ i # m + 1
        BY <3>2
      <4>2. x[0] = 1
        BY <3>3 DEF Cuts
      <4>. QED
        BY <4>1, <4>2
    <3>. HIDE DEF y
    <3>. DEFINE r == Append(o, P)
    <3>5. ASSUME NEW i \in 1 .. m + 1
          PROVE  /\ y[i] \in y[i - 1] + 1 .. n + 1
                 /\ s[y[i] - 1] = Sep
                 /\ r[i] = SubSeq(s, y[i - 1], y[i] - 2)
      <4>1. CASE i \in 1 .. m
        <5>1. i \in 0 .. m /\ i - 1 \in 0 .. m
          BY <3>2, <4>1
        <5>2. y[i] = x[i] /\ y[i - 1] = x[i - 1] /\ r[i] = o[i]
          BY <3>2, <3>4, <4>1, <5>1
        <5>3. /\ x[i] \in x[i - 1] + 1 .. n + 1
              /\ s[x[i] - 1] = Sep
              /\ o[i] = SubSeq(s, x[i - 1], x[i] - 2)
          BY <3>3, <4>1 DEF Cuts, m
        <5>. HIDE DEF r
        <5>. QED
          BY <5>2, <5>3
      <4>2. CASE i = m + 1
        <5>1. i - 1 = m /\ m \in 0 .. m
          BY <3>2, <4>2
        <5>2. y[i] = K + 1 /\ y[i - 1] = acc.start
          BY <3>3, <3>4, <4>2, <5>1
        <5>3. (K + 1) - 1 = K /\ (K + 1) - 2 = k /\ K + 1 \in acc.start + 1 .. n + 1
          BY <1>0, <2>0, <2>5
        <5>4. r[i] = SubSeq(s, acc.start, k)
          BY <3>2, <4>2 DEF P, Piece
        <5>. HIDE DEF r
        <5>. QED
          BY <2>6, <5>2, <5>3, <5>4
      <4>3. i \in 1 .. m \/ i = m + 1
        BY <3>2
      <4>. QED
        BY <4>1, <4>2, <4>3
    <3>6. Cuts(s, r, y) /\ y[Len(r)] = K + 1
      BY <3>2, <3>4, <3>5 DEF Cuts
    <3>. HIDE DEF r
    <3>7. Cut(new) /\ new.out \in Seq(Seq(C))
      BY <3>1, <3>2, <3>6 DEF r
    <3>. HIDE DEF Cut
    <3>. QED
      BY <2>2, <3>7 DEF new, K
  <2>7. CASE s[K] # Sep
    <3>1. new = acc
      BY <1>0, <2>1, <2>7 DEF Step
    <3>. HIDE DEF Cut
    <3>. QED
      BY <2>2, <2>3, <3>1
  <2>. QED
    BY <2>6, <2>7
<1>. HIDE DEF Right
<1>4. n \in T
  <2>1. T \subseteq Nat /\ 0 \in T
    BY <1>2
  <2>2. ASSUME NEW k \in T PROVE k + 1 \in T
    <3>1. k \in Nat /\ k + 1 \in Nat /\ (k + 1 <= n => k <= n)
      BY <1>0
    <3>. QED
      BY <1>3, <3>1
  <2>. HIDE DEF T
  <2>. QED
    BY <1>0, <2>1, <2>2, Induction
<1>5. Right(n)
  BY <1>0, <1>4
<1>. DEFINE acc == W[n]
            out == acc.out
<1>6. At(s, seps, acc, n) /\ out \in Seq(Seq(C)) /\ Cut(acc)
  BY <1>5 DEF Right
<1>7. PICK x : Cuts(s, out, x) /\ x[Len(out)] = acc.start
  BY <1>6
<1>8. acc.start \in 1 .. n + 1
  BY <1>6 DEF At
<1>9. split_pieces(s) = Append(out, SubSeq(s, acc.start, n))
  <2>1. (n + 1) - 1 = n
    BY <1>0
  <2>2. split_pieces(s) = EndPiece(s, TRUE, acc, n + 1)
    BY <1>1 DEF split_pieces, seps
  <2>. QED
    BY <2>1, <2>2 DEF EndPiece
<1>. HIDE DEF out, acc
<1>. QED
  BY <1>6, <1>7, <1>8, <1>9

(* vector_join puts together again what vector_split has cut.              *)
LEMMA SplitJoin ==
  ASSUME NEW C, NEW s \in Seq(C), Sep \in C
  PROVE  vector_join(split_pieces(s), <<Sep>>) = s
PROOF
<1>. DEFINE n == Len(s)
<1>0. n \in Nat
  OBVIOUS
<1>1. PICK out, x : /\ out \in Seq(Seq(C)) /\ Cuts(s, out, x)
                    /\ x[Len(out)] \in 1 .. n + 1
                    /\ split_pieces(s) = Append(out, SubSeq(s, x[Len(out)], n))
  BY SplitCuts
<1>. DEFINE m == Len(out)
            last == SubSeq(s, x[m], n)
            q == Append(out, last)
<1>2. m \in Nat
  BY <1>1
<1>3. last \in Seq(C)
  <2>1. \A i \in x[m] .. n : s[i] \in C
    BY <1>0, <1>1, ElementOfSeq
  <2>2. x[m] \in Int /\ n \in Int
    BY <1>0, <1>1
  <2>. QED
    BY <2>1, <2>2, SubSeqProperties
<1>. HIDE DEF last
<1>4. /\ q \in Seq(Seq(C)) /\ q # << >> /\ Len(q) = m + 1
      /\ \A i \in 1 .. m : q[i] = out[i]
      /\ q[m + 1] = last
  BY <1>1, <1>3, AppendProperties
<1>. HIDE DEF q
<1>5. <<Sep>> \in Seq(C)
  OBVIOUS
<1>6. PICK J : Parts(q, <<Sep>>, J)
  BY <1>4, <1>5, JoinParts
<1>7. /\ J[0] = q[1]
      /\ \A k \in 1 .. m : J[k] = (J[k - 1] \o <<Sep>>) \o q[k + 1]
      /\ vector_join(q, <<Sep>>) = J[m]
  <2>1. Len(q) - 1 = m
    BY <1>2, <1>4
  <2>. QED
    BY <1>6, <2>1 DEF Parts
<1>8. x[0] = 1 /\ \A i \in 1 .. m : /\ x[i] \in x[i - 1] + 1 .. n + 1
                                    /\ s[x[i] - 1] = Sep
                                    /\ q[i] = SubSeq(s, x[i - 1], x[i] - 2)
  BY <1>1, <1>4 DEF Cuts
<1>. HIDE DEF m, n
<1>. DEFINE Right(k) == /\ x[k] \in 1 .. n + 1
                        /\ J[k] = SubSeq(s, 1, x[k] - 1) \o q[k + 1]
            T == {k \in Nat : k <= m => Right(k)}
<1>9. Right(0)
  <2>1. 1 \in 1 .. n + 1 /\ 1 - 1 = 0 /\ 0 + 1 = 1 /\ 1 \in 1 .. m + 1
    BY <1>0, <1>2
  <2>2. SubSeq(s, 1, 0) = << >>
    BY SubSeqEmpty
  <2>3. q[1] \in Seq(C)
    BY <1>4, <2>1, ElementOfSeq
  <2>4. << >> \o q[1] = q[1]
    BY <2>3, ConcatEmptySeq
  <2>. QED
    BY <1>7, <1>8, <2>1, <2>2, <2>4
<1>10. ASSUME NEW k \in Nat, k + 1 <= m, Right(k) PROVE Right(k + 1)
  <2>. DEFINE K == k + 1
              a == x[k]
              b == x[K]
  <2>0. K \in 1 .. m /\ K - 1 = k
    BY <1>2, <1>10
  <2>1. /\ b \in a + 1 .. n + 1 /\ s[b - 1] = Sep /\ q[K] = SubSeq(s, a, b - 2)
        /\ a \in 1 .. n + 1
    BY <1>8, <1>10, <2>0
  <2>2. J[k] = SubSeq(s, 1, a - 1) \o q[K]
    BY <1>10
  <2>3. J[K] = (J[k] \o <<Sep>>) \o q[K + 1]
    BY <1>7, <2>0
  <2>. HIDE DEF a, b
  <2>4. (SubSeq(s, 1, a - 1) \o SubSeq(s, a, b - 2)) \o <<s[b - 1]>> = SubSeq(s, 1, b - 1)
    BY <2>1, CutStep DEF n
  <2>5. b \in 1 .. n + 1
    BY <1>0, <2>1
  <2>. HIDE DEF K
  <2>6. J[k] \o <<Sep>> = SubSeq(s, 1, b - 1)
    BY <2>1, <2>2, <2>4
  <2>7. J[K] = SubSeq(s, 1, x[K] - 1) \o q[K + 1]
    BY <2>3, <2>6 DEF b
  <2>. QED
    BY <2>5, <2>7 DEF b, K
<1>. HIDE DEF Right
<1>11. m \in T
  <2>1. T \subseteq Nat /\ 0 \in T
    BY <1>9
  <2>2. ASSUME NEW k \in T PROVE k + 1 \in T
    <3>1. k \in Nat /\ k + 1 \in Nat /\ (k + 1 <= m => k <= m)
      BY <1>2
    <3>. QED
      BY <1>10, <3>1
  <2>. HIDE DEF T
  <2>. QED
    BY <1>2, <2>1, <2>2, Induction
<1>12. Right(m)
  BY <1>2, <1>11
<1>13. J[m] = SubSeq(s, 1, x[m] - 1) \o SubSeq(s, x[m], n)
  BY <1>4, <1>12 DEF Right, last
<1>14. SubSeq(s, 1, x[m] - 1) \o SubSeq(s, x[m], n) = s
  <2>. DEFINE a == x[m]
              d == a - 1
  <2>1. a \in 1 .. n + 1
    BY <1>12 DEF Right
  <2>. HIDE DEF a
  <2>2. 1 \in 1 .. n + 1 /\ d \in 1 - 1 .. n /\ n \in d .. n /\ d + 1 = a
    BY <1>0, <2>1
  <2>. HIDE DEF d
  <2>3. SubSeq(s, 1, d) \o SubSeq(s, d + 1, n) = SubSeq(s, 1, n)
    BY <2>2, ConcatAdjacentSubSeq DEF n
  <2>4. SubSeq(s, 1, n) = s
    BY SubSeqFull DEF n
  <2>. QED
    BY <2>2, <2>3, <2>4 DEF d, a
<1>. QED
  BY <1>1, <1>7, <1>13, <1>14 DEF q, last, m, n

-----------------------------------------------------------------------------
(* The memory of a vector.                                                 *)

Char == STRING \cup {Sep}
Text == Seq(Char)
Vec == [strings : Seq(Text), allocated : Nat, top : Nat]

(* A struct that is not NULL, with the blocks it holds.                    *)
Sound(r) ==
  /\ r \in [vec : Vec, blocks : Int]
  /\ r.vec.allocated >= 1 /\ Count(r.vec) <= r.vec.allocated /\ r.vec.top <= r.vec.allocated
  /\ r.blocks = 2 + Copies(Count(r.vec))

(* The invariant: the struct, if there is one, is sound.                   *)
VectorInv == (v = NULL /\ heap = 0) \/ Sound(Now)

(* Copies count.                                                           *)
LEMMA CopiesAre ==
  /\ \A a \in Nat : Copies(a) \in Nat
  /\ \A a, b \in Nat : Copies(a + b) = Copies(a) + Copies(b)
  /\ \A a, b \in Nat : a <= b => Copies(b - a) = Copies(b) - Copies(a)
  /\ Copies(0) = 0
PROOF
  BY DEF Copies

(* The parts of a sound struct.                                            *)
LEMMA SoundParts ==
  ASSUME NEW r, Sound(r)
  PROVE  /\ r.vec \in Vec /\ r.blocks \in Int /\ r.vec.strings \in Seq(Text)
         /\ Count(r.vec) = Len(r.vec.strings) /\ Count(r.vec) \in Nat
         /\ r.vec.allocated \in Nat \ {0} /\ r.vec.top \in Nat /\ r.vec # NULL
PROOF
<1>1. r.vec \in Vec /\ r.blocks \in Int /\ r.vec.allocated >= 1
  BY DEF Sound
<1>2. r.vec.strings \in Seq(Text) /\ r.vec.allocated \in Nat /\ r.vec.top \in Nat
  BY <1>1 DEF Vec
<1>3. r.vec.allocated # 0 /\ NULL.allocated = 0
  BY <1>1, <1>2 DEF NULL
<1>. QED
  BY <1>1, <1>2, <1>3 DEF Count

(* A sound struct from its parts.                                          *)
LEMMA SoundFrom ==
  ASSUME NEW st \in Seq(Text), NEW al \in Nat, NEW tp \in Nat, NEW b,
         al >= 1, Len(st) <= al, tp <= al, b = 2 + Copies(Len(st)),
         NEW r, r = [vec |-> [strings |-> st, allocated |-> al, top |-> tp], blocks |-> b]
  PROVE  Sound(r)
PROOF
<1>1. b \in Int
  BY CopiesAre
<1>2. [strings |-> st, allocated |-> al, top |-> tp] \in Vec
  BY DEF Vec
<1>3. r \in [vec : Vec, blocks : Int]
  BY <1>1, <1>2
<1>4. /\ r.vec.strings = st /\ r.vec.allocated = al /\ r.vec.top = tp /\ r.blocks = b
      /\ Count(r.vec) = Len(st)
  BY DEF Count
<1>. QED
  BY <1>3, <1>4 DEF Sound

(* A struct whose strings have been replaced.                              *)
LEMMA Restrung ==
  ASSUME NEW x \in Vec, NEW st \in Seq(Text), NEW tp \in Nat
  PROVE  [x EXCEPT !.strings = st, !.top = tp]
           = [strings |-> st, allocated |-> x.allocated, top |-> tp]
PROOF
<1>. DEFINE y == [x EXCEPT !.strings = st, !.top = tp]
<1>1. y \in Vec /\ y.strings = st /\ y.allocated = x.allocated /\ y.top = tp
  BY DEF Vec
<1>. HIDE DEF y
<1>2. y = [strings |-> y.strings, allocated |-> y.allocated, top |-> y.top]
  BY <1>1 DEF Vec
<1>. QED
  BY <1>1, <1>2 DEF y

(* A new vector.                                                           *)
LEMMA NewSound == Sound(vector_new) /\ vector_new.vec.strings = << >>
PROOF
<1>1. << >> \in Seq(Text) /\ Len(<< >>) = 0
  OBVIOUS
<1>2. 2 = 2 + Copies(0)
  BY CopiesAre
<1>3. vector_new = [vec |-> [strings |-> << >>, allocated |-> 1, top |-> 0], blocks |-> 2]
  BY DEF vector_new
<1>. DEFINE e == << >>
            w == vector_new
<1>. HIDE DEF e, w
<1>4. /\ w = [vec |-> [strings |-> e, allocated |-> 1, top |-> 0], blocks |-> 2]
      /\ e \in Seq(Text) /\ Len(e) = 0 /\ 0 \in Nat /\ 1 \in Nat /\ 0 <= 1 /\ 1 >= 1
  BY <1>1, <1>3 DEF e, w
<1>5. Sound(w)
  BY <1>2, <1>4, SoundFrom
<1>. QED
  BY <1>3, <1>5 DEF w

(* Making the table larger or smaller frees the strings that are cut off.  *)
LEMMA ResizeSound ==
  ASSUME NEW r, Sound(r), NEW size \in Nat
  PROVE  /\ Sound(vector_resize(r, size))
         /\ vector_resize(r, size).vec.allocated = (IF size = 0 THEN 1 ELSE size)
         /\ Count(r.vec) <= size => vector_resize(r, size).vec.strings = r.vec.strings
PROOF
<1>. DEFINE st == r.vec.strings
            c == Len(st)
            m == MinLen(c, size)
            kept == SubSeq(st, 1, m)
            al == IF size = 0 THEN 1 ELSE size
            b == r.blocks - Copies(c - Len(kept))
            new == vector_resize(r, size)
<1>1. st \in Seq(Text) /\ Count(r.vec) = c /\ c \in Nat /\ r.blocks \in Int
  BY SoundParts
<1>2. m \in Nat /\ m <= c /\ m <= size /\ (c <= size => m = c)
  BY <1>1 DEF MinLen
<1>3. kept \in Seq(Text) /\ Len(kept) = m /\ (m = c => kept = st)
  <2>1. \A i \in 1 .. m : st[i] \in Text
    BY <1>1, <1>2
  <2>. HIDE DEF m, c, st
  <2>2. m \in Int /\ 1 \in Int
    BY <1>2
  <2>3. kept \in Seq(Text) /\ Len(kept) = IF 1 <= m THEN m - 1 + 1 ELSE 0
    BY <2>1, <2>2, SubSeqProperties
  <2>4. m = c => kept = st
    BY <1>1, SubSeqFull DEF c
  <2>5. Len(kept) = m
    BY <1>2, <2>3
  <2>. QED
    BY <2>3, <2>4, <2>5
<1>4. new = [vec |-> [strings |-> kept, allocated |-> al, top |-> 0], blocks |-> b]
  BY <1>1 DEF vector_resize
<1>5. r.blocks = 2 + Copies(c)
  BY <1>1 DEF Sound
<1>6. b = 2 + Copies(Len(kept))
  <2>1. Copies(c - m) = Copies(c) - Copies(m) /\ Copies(c) \in Nat /\ Copies(m) \in Nat
    BY <1>1, <1>2, CopiesAre
  <2>. HIDE DEF kept, m, c
  <2>. QED
    BY <1>3, <1>5, <2>1
<1>7. al \in Nat /\ al >= 1 /\ m <= al
  BY <1>2
<1>. HIDE DEF kept, al, b, new, m, c, st
<1>8. Sound(new)
  BY <1>3, <1>4, <1>6, <1>7, SoundFrom
<1>9. new.vec.allocated = al /\ new.vec.strings = kept
  BY <1>4
<1>10. c <= size => new.vec.strings = st
  BY <1>2, <1>3, <1>9
<1>. QED
  BY <1>1, <1>8, <1>9, <1>10 DEF new, al, st

(* There is room for one more string.                                      *)
LEMMA RoomSound ==
  ASSUME NEW r, Sound(r)
  PROVE  /\ Sound(MakeRoom(r)) /\ Count(MakeRoom(r).vec) < MakeRoom(r).vec.allocated
PROOF
<1>1. /\ Count(r.vec) \in Nat /\ r.vec.allocated \in Nat \ {0}
      /\ Count(r.vec) <= r.vec.allocated
  BY SoundParts DEF Sound
<1>2. CASE Count(r.vec) = r.vec.allocated
  <2>. DEFINE size == r.vec.allocated + 1
              new == vector_resize(r, size)
  <2>1. size \in Nat /\ size # 0 /\ Count(r.vec) <= size /\ Count(r.vec) < size
    BY <1>1, <1>2
  <2>2. MakeRoom(r) = new
    BY <1>2 DEF MakeRoom
  <2>. HIDE DEF size
  <2>3. Sound(new) /\ new.vec.allocated = size /\ new.vec.strings = r.vec.strings
    BY <2>1, ResizeSound
  <2>. HIDE DEF new
  <2>4. Count(new.vec) = Count(r.vec)
    BY <2>3 DEF Count
  <2>. QED
    BY <2>1, <2>2, <2>3, <2>4
<1>3. CASE Count(r.vec) # r.vec.allocated
  <2>1. MakeRoom(r) = r
    BY <1>3 DEF MakeRoom
  <2>. QED
    BY <1>1, <1>3, <2>1
<1>. QED
  BY <1>2, <1>3

(* One more string.                                                        *)
LEMMA AppendSound ==
  ASSUME NEW r, Sound(r), Count(r.vec) < r.vec.allocated, NEW t \in Text
  PROVE  Sound(Append1(r, t))
PROOF
<1>. DEFINE st == r.vec.strings
            c == Len(st)
            new == Append(st, t)
            al == r.vec.allocated
<1>1. /\ st \in Seq(Text) /\ Count(r.vec) = c /\ c \in Nat /\ al \in Nat \ {0}
      /\ r.blocks = 2 + Copies(c) /\ r.vec \in Vec
  BY SoundParts DEF Sound
<1>2. new \in Seq(Text) /\ Len(new) = c + 1
  BY <1>1, AppendProperties
<1>3. Append1(r, t) = [vec |-> [strings |-> new, allocated |-> al, top |-> c + 1],
                       blocks |-> r.blocks + Copies(1)]
  <2>1. [r.vec EXCEPT !.strings = new, !.top = c + 1]
          = [strings |-> new, allocated |-> al, top |-> c + 1]
    BY <1>1, <1>2, c + 1 \in Nat, Restrung
  <2>. QED
    BY <1>1, <2>1 DEF Append1
<1>4. r.blocks + Copies(1) = 2 + Copies(c + 1)
  <2>1. Copies(c + 1) = Copies(c) + Copies(1) /\ Copies(c) \in Nat /\ Copies(1) \in Nat
    BY <1>1, CopiesAre
  <2>. HIDE DEF c
  <2>. QED
    BY <1>1, <2>1
<1>5. c + 1 \in Nat /\ c + 1 <= al /\ al >= 1 /\ al \in Nat
  BY <1>1
<1>. DEFINE b == r.blocks + Copies(1)
            w == Append1(r, t)
            d == c + 1
<1>. HIDE DEF new, al, b, c, st, w, d
<1>6. /\ w = [vec |-> [strings |-> new, allocated |-> al, top |-> d], blocks |-> b]
      /\ Len(new) = d /\ b = 2 + Copies(d) /\ d \in Nat /\ d <= al
  BY <1>2, <1>3, <1>4, <1>5 DEF b, w, d
<1>7. Sound(w)
  BY <1>2, <1>5, <1>6, SoundFrom
<1>. QED
  BY <1>7 DEF w

(* The strings are freed and forgotten.                                    *)
LEMMA ClearSound ==
  ASSUME NEW r, Sound(r)
  PROVE  /\ Sound(vector_clear(r)) /\ vector_clear(r).vec.strings = << >>
         /\ vector_clear(r).blocks = 2
PROOF
<1>. DEFINE st == r.vec.strings
            c == Len(st)
            al == r.vec.allocated
            b == r.blocks - Copies(c)
            w == vector_clear(r)
            e == << >>
<1>1. /\ st \in Seq(Text) /\ Count(r.vec) = c /\ c \in Nat /\ al \in Nat \ {0}
      /\ r.blocks = 2 + Copies(c) /\ r.vec \in Vec
  BY SoundParts DEF Sound
<1>2. w = [vec |-> [strings |-> e, allocated |-> al, top |-> 0], blocks |-> b]
  <2>1. [r.vec EXCEPT !.strings = e, !.top = 0]
          = [strings |-> e, allocated |-> al, top |-> 0]
    BY <1>1, e \in Seq(Text), 0 \in Nat, Restrung
  <2>. QED
    BY <1>1, <2>1 DEF vector_clear
<1>3. b = 2 /\ 2 = 2 + Copies(0)
  <2>1. Copies(c) \in Nat /\ Copies(0) = 0
    BY <1>1, CopiesAre
  <2>. HIDE DEF c
  <2>. QED
    BY <1>1, <2>1
<1>4. e \in Seq(Text) /\ Len(e) = 0
  OBVIOUS
<1>5. al \in Nat /\ al >= 1 /\ 0 <= al /\ 0 \in Nat
  BY <1>1
<1>6. w.vec.strings = e /\ w.blocks = b
  BY <1>2
<1>. HIDE DEF al, b, w, e
<1>7. Sound(w)
  BY <1>2, <1>3, <1>4, <1>5, SoundFrom
<1>. QED
  BY <1>3, <1>6, <1>7 DEF w, e

(* A vector that is used again, or a new one, is empty.                    *)
LEMMA ReuseSound ==
  ASSUME VectorInv
  PROVE  Sound(vector_reuse(Now)) /\ vector_reuse(Now).vec.strings = << >>
PROOF
<1>1. Now.vec = v
  BY DEF Now
<1>2. CASE v = NULL
  BY <1>1, <1>2, NewSound DEF vector_reuse
<1>3. CASE v # NULL
  <2>1. Sound(Now)
    BY <1>3 DEF VectorInv
  <2>. QED
    BY <1>1, <1>3, <2>1, ClearSound DEF vector_reuse
<1>. QED
  BY <1>2, <1>3

(* An empty vector is filled with as many strings as it was sized for.     *)
LEMMA FillSound ==
  ASSUME NEW r, Sound(r), r.vec.strings = << >>, NEW pieces \in Seq(Text),
         NEW n \in Nat, Len(pieces) = n
  PROVE  Sound(Fill(r, n, pieces)) /\ Fill(r, n, pieces).vec.strings = pieces
PROOF
<1>. DEFINE sized == IF r.vec.allocated < n THEN vector_resize(r, n) ELSE r
            al == sized.vec.allocated
            b == sized.blocks + Copies(Len(pieces))
            w == Fill(r, n, pieces)
<1>0. r.vec.allocated \in Nat \ {0} /\ Count(r.vec) = 0
  BY SoundParts DEF Count
<1>1. Sound(sized) /\ sized.vec.strings = << >> /\ n <= sized.vec.allocated
  <2>1. CASE r.vec.allocated < n
    <3>. DEFINE new == vector_resize(r, n)
    <3>1. sized = new
      BY <2>1
    <3>2. Count(r.vec) <= n /\ n # 0
      BY <1>0, <2>1
    <3>3. /\ Sound(new) /\ new.vec.allocated = (IF n = 0 THEN 1 ELSE n)
          /\ Count(r.vec) <= n => new.vec.strings = r.vec.strings
      BY ResizeSound
    <3>. HIDE DEF new, sized
    <3>. QED
      BY <3>1, <3>2, <3>3
  <2>2. CASE ~ (r.vec.allocated < n)
    <3>1. sized = r
      BY <2>2
    <3>. HIDE DEF sized
    <3>. QED
      BY <1>0, <2>2, <3>1
  <2>. QED
    BY <2>1, <2>2
<1>2. w = [vec |-> [sized.vec EXCEPT !.strings = pieces, !.top = Len(pieces)], blocks |-> b]
  BY DEF Fill
<1>. HIDE DEF sized
<1>3. /\ sized.vec \in Vec /\ al \in Nat \ {0}
      /\ sized.blocks = 2 + Copies(0)
  <2>1. Count(sized.vec) = 0
    BY <1>1 DEF Count
  <2>. QED
    BY <1>1, <2>1, SoundParts DEF Sound
<1>4. w = [vec |-> [strings |-> pieces, allocated |-> al, top |-> n], blocks |-> b]
  <2>1. [sized.vec EXCEPT !.strings = pieces, !.top = n]
          = [strings |-> pieces, allocated |-> al, top |-> n]
    BY <1>3, Restrung
  <2>. QED
    BY <1>2, <2>1
<1>5. b = 2 + Copies(Len(pieces)) /\ al >= 1 /\ n <= al /\ al \in Nat
  <2>1. Copies(0) = 0 /\ Copies(n) \in Nat
    BY CopiesAre
  <2>. QED
    BY <1>1, <1>3, <2>1
<1>6. w.vec.strings = pieces
  BY <1>4
<1>. HIDE DEF al, b, w
<1>7. Sound(w)
  BY <1>4, <1>5, SoundFrom
<1>. QED
  BY <1>6, <1>7 DEF w

(* Every operation on the vector keeps it sound.                           *)
LEMMA NextVectorInv == ASSUME VectorInv, Next PROVE VectorInv'
PROOF
<1>n. ASSUME v # NULL PROVE Sound(Now) /\ Now.vec = v /\ Now.blocks = heap
  BY <1>n DEF VectorInv, Now
<1>s. ASSUME NEW r, Sound(r), Become(r) PROVE VectorInv'
  <2>1. v' = r.vec /\ heap' = r.blocks /\ owned' = owned
    BY <1>s DEF Become
  <2>2. r \in [vec : Vec, blocks : Int]
    BY <1>s DEF Sound
  <2>3. r = [vec |-> r.vec, blocks |-> r.blocks]
    BY <2>2
  <2>4. Now' = r
    BY <2>1, <2>3 DEF Now
  <2>5. Sound(Now)'
    BY <1>s, <2>1, <2>4 DEF Sound, Copies, Count
  <2>. QED
    BY <2>5 DEF VectorInv
<1>1. CASE New
  BY <1>1, <1>s, NewSound DEF New
<1>2. CASE Clear
  BY <1>2, <1>n, <1>s, ClearSound DEF Clear
<1>3. CASE Free
  <2>1. v # NULL /\ v' = NULL /\ heap' = vector_clear(Now).blocks - 2
    BY <1>3 DEF Free, Become
  <2>2. heap' = 0
    BY <1>n, <2>1, ClearSound
  <2>. QED
    BY <2>1, <2>2 DEF VectorInv
<1>4. CASE Exec
  <2>. DEFINE c == Count(v)
              r == IF v.allocated = c THEN vector_resize(Now, c + 1) ELSE Now
              x == [r EXCEPT !.vec.top = c + 1]
  <2>1. v # NULL /\ Become(x)
    BY <1>4 DEF Exec
  <2>2. Sound(Now) /\ Now.vec = v
    BY <1>n, <2>1
  <2>3. c \in Nat /\ v.allocated \in Nat \ {0} /\ c <= v.allocated
    BY <2>2, SoundParts DEF Sound
  <2>4. Sound(r) /\ c + 1 <= r.vec.allocated /\ r.vec.strings = v.strings
    <3>1. CASE v.allocated = c
      <4>. DEFINE new == vector_resize(Now, c + 1)
      <4>1. r = new
        BY <3>1
      <4>. DEFINE d == c + 1
      <4>2. d \in Nat /\ d # 0 /\ c <= d
        BY <2>3
      <4>3. Count(Now.vec) = c
        BY <2>2
      <4>. HIDE DEF d, c
      <4>4. Sound(vector_resize(Now, d)) /\ vector_resize(Now, d).vec.allocated = d
            /\ vector_resize(Now, d).vec.strings = v.strings
        BY <2>2, <4>2, <4>3, ResizeSound
      <4>5. d <= d
        BY <4>2
      <4>. QED
        BY <4>1, <4>4, <4>5 DEF d
    <3>2. CASE v.allocated # c
      <4>1. r = Now
        BY <3>2
      <4>2. c + 1 <= v.allocated
        BY <2>3, <3>2
      <4>. QED
        BY <2>2, <4>1, <4>2
    <3>. QED
      BY <3>1, <3>2
  <2>. HIDE DEF r
  <2>5. /\ r.vec \in Vec /\ r.blocks \in Int /\ r.vec.strings \in Seq(Text)
        /\ r.vec.allocated \in Nat \ {0} /\ r \in [vec : Vec, blocks : Int]
        /\ r.blocks = 2 + Copies(Count(r.vec)) /\ Count(r.vec) <= r.vec.allocated
    BY <2>4, SoundParts DEF Sound
  <2>6. Sound(x)
    <3>. DEFINE d == c + 1
    <3>1. d \in Nat /\ d <= r.vec.allocated
      BY <2>3, <2>4
    <3>2. x = [r EXCEPT !.vec.top = d]
      OBVIOUS
    <3>. HIDE DEF c, d, x
    <3>3. /\ x \in [vec : Vec, blocks : Int] /\ x.blocks = r.blocks /\ x.vec.top = d
          /\ x.vec.strings = r.vec.strings /\ x.vec.allocated = r.vec.allocated
      BY <2>5, <3>1, <3>2 DEF Vec
    <3>4. Count(x.vec) = Count(r.vec)
      BY <3>3 DEF Count
    <3>5. r.vec.allocated >= 1
      BY <2>5
    <3>. QED
      BY <2>5, <3>1, <3>3, <3>4, <3>5 DEF Sound
  <2>. HIDE DEF x
  <2>. QED
    BY <1>s, <2>1, <2>6
<1>5. ASSUME NEW t \in Text, v # NULL, Become(Append1(MakeRoom(Now), t)) PROVE VectorInv'
  <2>. DEFINE r == MakeRoom(Now)
  <2>1. Sound(r) /\ Count(r.vec) < r.vec.allocated
    BY <1>5, <1>n, RoomSound
  <2>. HIDE DEF r
  <2>2. Sound(Append1(r, t))
    BY <2>1, AppendSound
  <2>. QED
    BY <1>5, <1>s, <2>2 DEF r
<1>t. \A t \in Words \cup Texts : t \in Text
  <2>1. \A t : t \in Seq(STRING) => t \in Text
    BY DEF Text, Char
  <2>. QED
    BY <2>1, TextsAssumption
<1>6. ASSUME NEW t \in Words, Add(t) PROVE VectorInv'
  BY <1>5, <1>6, <1>t DEF Add
<1>7. ASSUME NEW t \in Words, NEW n \in 0 .. 2, Addn(t, n) PROVE VectorInv'
  <2>1. x_strndup(t, n) \in Text
    <3>. DEFINE m == MinLen(Len(t), n)
    <3>1. t \in Seq(Char) /\ Len(t) \in Nat
      BY <1>t DEF Text
    <3>2. m \in Int /\ 1 \in Int /\ m <= Len(t)
      BY <3>1 DEF MinLen
    <3>3. \A i \in 1 .. m : t[i] \in Char
      BY <3>1, <3>2
    <3>. HIDE DEF m
    <3>4. SubSeq(t, 1, m) \in Seq(Char)
      BY <3>2, <3>3, SubSeqProperties
    <3>. QED
      BY <3>4 DEF x_strndup, Text, m
  <2>. QED
    BY <1>5, <1>7, <2>1 DEF Addn
<1>8. ASSUME NEW size \in 0 .. (MaxCount + 1), Resize(size) PROVE VectorInv'
  <2>1. size \in Nat
    BY CountAssumption
  <2>2. v # NULL /\ Become(vector_resize(Now, size))
    BY <1>8 DEF Resize
  <2>. QED
    BY <1>n, <1>s, <2>1, <2>2, ResizeSound
<1>9. ASSUME NEW t \in Texts, Split(t) PROVE VectorInv'
  <2>. DEFINE r == vector_reuse(Now)
              n == split_count(t)
              q == split_pieces(t)
  <2>1. t \in Seq(Char)
    BY <1>t DEF Text
  <2>2. q \in Seq(Text) /\ Len(q) = n /\ n \in Nat
    BY <2>1, SplitCount DEF Text
  <2>3. Sound(r) /\ r.vec.strings = << >>
    BY ReuseSound
  <2>4. Become(Fill(r, n, q))
    BY <1>9 DEF Split
  <2>. HIDE DEF r, n, q
  <2>5. Sound(Fill(r, n, q))
    BY <2>2, <2>3, FillSound
  <2>. QED
    BY <1>s, <2>4, <2>5
<1>10. ASSUME NEW t \in Texts, SplitMulti(t) PROVE VectorInv'
  <2>. DEFINE r == vector_reuse(Now)
              n == split_multi_count(t)
              q == multi_pieces(t)
  <2>1. t \in Seq(Char)
    BY <1>t DEF Text
  <2>2. q \in Seq(Text) /\ Len(q) = n /\ n \in Nat
    BY <2>1, MultiCount DEF Text
  <2>3. Sound(r) /\ r.vec.strings = << >>
    BY ReuseSound
  <2>4. Become(Fill(r, n, q))
    BY <1>10 DEF SplitMulti
  <2>. HIDE DEF r, n, q
  <2>5. Sound(Fill(r, n, q))
    BY <2>2, <2>3, FillSound
  <2>. QED
    BY <1>s, <2>4, <2>5
<1>. QED
  BY <1>1, <1>2, <1>3, <1>4, <1>6, <1>7, <1>8, <1>9, <1>10 DEF Next

(* The invariant holds in every state of every behaviour.                  *)
LEMMA VectorInvariant == LibrarySpec => []VectorInv
PROOF
<1>1. LibraryInit => VectorInv
  BY DEF LibraryInit, Init, VectorInv
<1>2. VectorInv /\ [LibraryNext]_libraryVars => VectorInv'
  <2>. SUFFICES ASSUME VectorInv, [LibraryNext]_libraryVars PROVE VectorInv'
    OBVIOUS
  <2>1. CASE Next
    BY <2>1, NextVectorInv
  <2>2. CASE UNCHANGED vars
    BY <2>2 DEF vars, VectorInv, Sound, Copies, Count, Now
  <2>. QED
    BY <2>1, <2>2 DEF LibraryNext, libraryVars
<1>. QED
  BY <1>1, <1>2, PTL DEF LibrarySpec

(* The memory a vector holds is its struct, its table and its copies, and  *)
(* no entry is written past the end of the table.                          *)
THEOREM MemoryIsExact == LibrarySpec => []MemoryExact
PROOF
<1>1. VectorInv => MemoryExact
  <2>1. ASSUME v = NULL, heap = 0 PROVE MemoryExact
    BY <2>1 DEF MemoryExact
  <2>2. ASSUME Sound(Now) PROVE MemoryExact
    <3>1. Now.vec = v /\ Now.blocks = heap
      BY DEF Now
    <3>. QED
      BY <2>2, <3>1, SoundParts DEF MemoryExact, Sound
  <2>. QED
    BY <2>1, <2>2 DEF VectorInv
<1>. QED
  BY <1>1, VectorInvariant, PTL

-----------------------------------------------------------------------------
(* What a vector holds after a split.                                      *)

(* After a split the vector holds the pieces of the text that was split.   *)
Source ==
  /\ source.op = "split" => source.text \in Texts /\ v.strings = split_pieces(source.text)
  /\ source.op = "multi" => source.text \in Texts /\ v.strings = multi_pieces(source.text)

SplitInv == VectorInv /\ Source

(* The texts are strings of characters.                                    *)
LEMMA TextsAre == \A t \in Texts : t \in Seq(Char) /\ Sep \in Char
PROOF
<1>1. \A t : t \in Seq(STRING) => t \in Seq(Char)
  BY DEF Char
<1>. QED
  BY <1>1, TextsAssumption DEF Char

(* Every other operation forgets the text.                                 *)
LEMMA NextSource == ASSUME VectorInv, Next PROVE Source'
PROOF
<1>0. None.op # "split" /\ None.op # "multi" /\ "split" # "multi"
  BY DEF None
<1>1. CASE source' = None
  BY <1>0, <1>1 DEF Source
<1>2. ASSUME NEW t \in Texts, Split(t) PROVE Source'
  <2>. DEFINE r == vector_reuse(Now)
              n == split_count(t)
              q == split_pieces(t)
  <2>1. q \in Seq(Text) /\ Len(q) = n /\ n \in Nat
    BY TextsAre, SplitCount DEF Text
  <2>2. Sound(r) /\ r.vec.strings = << >>
    BY ReuseSound
  <2>3. v' = Fill(r, n, q).vec /\ source' = [op |-> "split", text |-> t]
    BY <1>2 DEF Split, Become, Because
  <2>. HIDE DEF r, n, q
  <2>4. v'.strings = q
    BY <2>1, <2>2, <2>3, FillSound
  <2>5. source'.op = "split" /\ source'.text = t
    BY <2>3
  <2>. QED
    BY <1>0, <2>4, <2>5 DEF Source, q
<1>3. ASSUME NEW t \in Texts, SplitMulti(t) PROVE Source'
  <2>. DEFINE r == vector_reuse(Now)
              n == split_multi_count(t)
              q == multi_pieces(t)
  <2>1. q \in Seq(Text) /\ Len(q) = n /\ n \in Nat
    BY TextsAre, MultiCount DEF Text
  <2>2. Sound(r) /\ r.vec.strings = << >>
    BY ReuseSound
  <2>3. v' = Fill(r, n, q).vec /\ source' = [op |-> "multi", text |-> t]
    BY <1>3 DEF SplitMulti, Become, Because
  <2>. HIDE DEF r, n, q
  <2>4. v'.strings = q
    BY <2>1, <2>2, <2>3, FillSound
  <2>5. source'.op = "multi" /\ source'.text = t
    BY <2>3
  <2>. QED
    BY <1>0, <2>4, <2>5 DEF Source, q
<1>. QED
  BY <1>1, <1>2, <1>3 DEF Next, New, Clear, Free, Exec, Add, Addn, Resize

(* The invariant holds in every state of every behaviour.                  *)
LEMMA SplitInvariant == LibrarySpec => []SplitInv
PROOF
<1>1. LibraryInit => Source
  BY DEF LibraryInit, Init, Source, None
<1>2. VectorInv /\ Source /\ [LibraryNext]_libraryVars => Source'
  <2>. SUFFICES ASSUME VectorInv, Source, [LibraryNext]_libraryVars PROVE Source'
    OBVIOUS
  <2>1. CASE Next
    BY <2>1, NextSource
  <2>2. CASE UNCHANGED vars
    BY <2>2 DEF vars, Source
  <2>. QED
    BY <2>1, <2>2 DEF LibraryNext, libraryVars
<1>. QED
  BY <1>1, <1>2, VectorInvariant, PTL DEF LibrarySpec, SplitInv

(* vector_join loses nothing of what a vector holds, whatever separator    *)
(* comes between the strings.                                              *)
LEMMA JoinLen ==
  ASSUME NEW C, NEW q \in Seq(Seq(C)), NEW sep \in Seq(C)
  PROVE  Len(vector_join(q, sep)) = Joined(q, sep)
PROOF
<1>. DEFINE n == Len(q)
            l == Len(sep)
            t == Total(q)
            f == Len(FlattenSeq(q))
            p == (n - 1) * l
<1>0. n \in Nat /\ l \in Nat /\ f = t
  BY FlattenLen
<1>1. Joined(q, sep) = f + (IF n > 1 THEN p ELSE 0)
  BY DEF Joined
<1>2. CASE q = << >>
  <2>1. vector_join(q, sep) = << >> /\ FlattenSeq(q) = << >> /\ n = 0 /\ Len(<< >>) = 0
    BY <1>2, EmptySeq DEF vector_join, FlattenSeq
  <2>. QED
    BY <1>1, <2>1
<1>3. CASE q # << >>
  <2>1. Len(vector_join(q, sep)) = t + p
    BY <1>3, JoinParts
  <2>2. n >= 1
    BY <1>0, <1>3, EmptySeq
  <2>3. n = 1 => p = 0
    BY <1>0
  <2>4. f \in Nat
    BY FlattenLen
  <2>. HIDE DEF f, t, p, n
  <2>. QED
    BY <1>0, <1>1, <2>1, <2>2, <2>3, <2>4
<1>. QED
  BY <1>2, <1>3

(* Splitting and joining are exact: vector_join undoes vector_split,       *)
(* vector_split_multi finds every run of other characters and no empty     *)
(* string, and the size vector_join computes is never too small.           *)
THEOREM SplitIsExact == LibrarySpec => []SplitExact
PROOF
<1>1. SplitInv => SplitExact
  <2>. SUFFICES ASSUME SplitInv PROVE SplitExact
    OBVIOUS
  <2>. DEFINE q == v.strings
  <2>0. q \in Seq(Seq(Char))
    <3>1. CASE v = NULL
      <4>1. q = << >>
        BY <3>1 DEF NULL
      <4>. QED
        BY <4>1, EmptySeq
    <3>2. CASE Sound(Now)
      <4>1. Now.vec.strings \in Seq(Text) /\ Now.vec = v
        BY <3>2, SoundParts DEF Now
      <4>. QED
        BY <4>1 DEF Text
    <3>. QED
      BY <3>1, <3>2 DEF SplitInv, VectorInv
  <2>d. DOMAIN q = 1 .. Len(q)
    BY <2>0
  <2>1. ASSUME source.op = "split"
        PROVE  /\ vector_join(q, <<Sep>>) = source.text
               /\ \A i \in DOMAIN q : Sep \notin ToSet(q[i])
    <3>. DEFINE s == source.text
    <3>1. s \in Texts /\ q = split_pieces(s)
      BY <2>1 DEF SplitInv, Source
    <3>2. s \in Seq(Char) /\ Sep \in Char
      BY <3>1, TextsAre
    <3>. HIDE DEF s, q
    <3>3. vector_join(q, <<Sep>>) = s
      BY <3>1, <3>2, SplitJoin
    <3>4. \A i \in 1 .. Len(q) : \A j \in 1 .. Len(q[i]) : q[i][j] # Sep
      BY <3>1, <3>2, SplitCount
    <3>5. ASSUME NEW i \in DOMAIN q PROVE Sep \notin ToSet(q[i])
      <4>. DEFINE t == q[i]
      <4>1. t \in Seq(Char)
        BY <2>0, <2>d
      <4>2. \A j \in 1 .. Len(t) : t[j] # Sep
        BY <2>d, <3>4
      <4>. HIDE DEF t
      <4>3. DOMAIN t = 1 .. Len(t)
        BY <4>1
      <4>4. Sep \notin ToSet(t)
        BY <4>2, <4>3 DEF ToSet
      <4>. QED
        BY <4>4 DEF t
    <3>. QED
      BY <3>3, <3>5 DEF s
  <2>2. ASSUME source.op = "multi"
        PROVE  /\ Count(v) = Cardinality(Begins(source.text))
               /\ << >> \notin ToSet(q)
               /\ FlattenSeq(q) = Without(source.text, Seps)
    <3>. DEFINE s == source.text
    <3>1. s \in Texts /\ q = multi_pieces(s)
      BY <2>2 DEF SplitInv, Source
    <3>2. s \in Seq(Char)
      BY <3>1, TextsAre
    <3>3. Count(v) = Len(q)
      BY DEF Count
    <3>. HIDE DEF s, q
    <3>4. Len(q) = Cardinality(Begins(s)) /\ \A i \in 1 .. Len(q) : q[i] # << >>
      BY <3>1, <3>2, MultiCount
    <3>5. FlattenSeq(q) = Without(s, Seps)
      BY <3>1, <3>2, MultiFlat
    <3>6. << >> \notin ToSet(q)
      BY <2>d, <3>4 DEF ToSet
    <3>. QED
      BY <3>3, <3>4, <3>5, <3>6 DEF s
  <2>3. ASSUME NEW sep \in {<< >>, <<Sep>>, <<Sep, Sep>>}
        PROVE  Len(vector_join(q, sep)) = Joined(q, sep)
    <3>1. sep \in Seq(Char)
      <4>1. Sep \in Char
        BY DEF Char
      <4>2. << >> \in Seq(Char) /\ <<Sep>> \in Seq(Char) /\ <<Sep, Sep>> \in Seq(Char)
        BY <4>1
      <4>. QED
        BY <4>2
    <3>. HIDE DEF q
    <3>. QED
      BY <2>0, <3>1, JoinLen
  <2>. QED
    BY <2>1, <2>2, <2>3 DEF SplitExact
<1>. QED
  BY <1>1, SplitInvariant, PTL
=============================================================================
