------------------------------- MODULE Vector -------------------------------
(***************************************************************************)
(* util/vector.c: growing arrays of strings, which hold the daemon's       *)
(* services, bind addresses and user names.  A struct vector owns copies   *)
(* of its strings, a struct cvector only points to them.  Any sequence of  *)
(* the operations is followed on one vector, with the bounds of its table  *)
(* and the blocks of memory it holds.                                      *)
(***************************************************************************)
EXTENDS Integers, Sequences, FiniteSets, SequencesExt

CONSTANTS
  Words,      \* strings that are added
  Texts,      \* strings that are split
  Sep,        \* separator of vector_split
  Seps,       \* separators of vector_split_multi
  MaxCount    \* strings before no more are added

ASSUME TextsAssumption == Sep \in Seps /\ \A t \in Words \cup Texts : t \in Seq(STRING)
ASSUME CountAssumption == MaxCount \in Nat \ {0}

VARIABLES
  owned,    \* TRUE for a vector, FALSE for a cvector
  v,        \* the struct, or NULL
  heap,     \* blocks of memory it holds
  source    \* history: the last operation, if it was a split, and its text

vars == <<owned, v, heap, source>>

(* strings are the count strings in the table, top is the last entry of    *)
(* the table that was written.                                             *)
NULL == [strings |-> << >>, allocated |-> 0, top |-> 0]
None == [op |-> "none", text |-> << >>]

MinLen(a, b) == IF a < b THEN a ELSE b
Copies(n) == IF owned THEN n ELSE 0
Count(vec) == Len(vec.strings)

-----------------------------------------------------------------------------
(* The helpers take and return the struct with the blocks it holds.        *)

vector_new == [vec |-> [strings |-> << >>, allocated |-> 1, top |-> 0],
               blocks |-> 2]

vector_resize(r, size) ==
  LET kept == SubSeq(r.vec.strings, 1, MinLen(Count(r.vec), size)) IN
  [vec    |-> [strings |-> kept, top |-> 0,
               allocated |-> IF size = 0 THEN 1 ELSE size],
   blocks |-> r.blocks - Copies(Count(r.vec) - Len(kept))]

MakeRoom(r) == IF Count(r.vec) = r.vec.allocated
               THEN vector_resize(r, r.vec.allocated + 1) ELSE r

Append1(r, s) ==
  [vec    |-> [r.vec EXCEPT !.strings = Append(@, s), !.top = Count(r.vec) + 1],
   blocks |-> r.blocks + Copies(1)]

vector_clear(r) == [vec    |-> [r.vec EXCEPT !.strings = << >>, !.top = 0],
                    blocks |-> r.blocks - Copies(Count(r.vec))]

vector_reuse(r) == IF r.vec = NULL THEN vector_new ELSE vector_clear(r)

-----------------------------------------------------------------------------
(* Splitting and joining.                                                  *)

split_count(s) == 1 + Cardinality({p \in 1 .. Len(s) : s[p] = Sep})

split_multi_count(s) ==
  IF s = << >> THEN 0
  ELSE 1 + Cardinality({p \in 2 .. Len(s) : s[p] \in Seps /\ s[p - 1] \notin Seps})
         - (IF s[Len(s)] \in Seps THEN 1 ELSE 0)

(* The walk over the string: start is where the current piece begins, out  *)
(* what has been found.                                                    *)
Start == [start |-> 1, out |-> << >>]
EndPiece(s, empty, acc, p) ==
  IF empty \/ acc.start # p THEN Append(acc.out, SubSeq(s, acc.start, p - 1))
  ELSE acc.out
Step(s, seps, empty, acc, p) ==
  IF s[p] \in seps THEN [start |-> p + 1, out |-> EndPiece(s, empty, acc, p)] ELSE acc
Pieces(s, seps, empty) ==
  EndPiece(s, empty,
           FoldLeft(LAMBDA acc, p : Step(s, seps, empty, acc, p), Start,
                    [p \in 1 .. Len(s) |-> p]),
           Len(s) + 1)

split_pieces(s) == Pieces(s, {Sep}, TRUE)

(* Mutant: empty pieces are kept.                                          *)
multi_pieces_empty(s) == Pieces(s, Seps, TRUE)
multi_pieces(s) == Pieces(s, Seps, FALSE)

(* Sized by a first pass over the string, filled by a second.              *)
Fill(r, n, pieces) ==
  LET sized == IF r.vec.allocated < n THEN vector_resize(r, n) ELSE r
  IN [vec    |-> [sized.vec EXCEPT !.strings = pieces, !.top = Len(pieces)],
      blocks |-> sized.blocks + Copies(Len(pieces))]

(* strlcpy and strlcat leave room for the nul in size bytes.               *)
strlcpy(src, size) == SubSeq(src, 1, MinLen(Len(src), size - 1))
strlcat(dst, src, size) ==
  dst \o SubSeq(src, 1, MinLen(Len(src), size - 1 - Len(dst)))

join_size(strings, sep) ==
  FoldLeft(LAMBDA n, s : n + Len(s), 0, strings) + (Len(strings) - 1) * Len(sep) + 1

vector_join(strings, sep) ==
  IF strings = << >> THEN << >>
  ELSE LET size == join_size(strings, sep) IN
       FoldLeft(LAMBDA out, s : strlcat(strlcat(out, sep, size), s, size),
                strlcpy(Head(strings), size), Tail(strings))

-----------------------------------------------------------------------------
(* The operations.                                                         *)

Now == [vec |-> v, blocks |-> heap]
Become(r) == v' = r.vec /\ heap' = r.blocks /\ UNCHANGED owned
Because(op, text) == source' = [op |-> op, text |-> text]

Init == owned \in BOOLEAN /\ v = NULL /\ heap = 0 /\ source = None

New == v = NULL /\ Become(vector_new) /\ source' = None

Add(s) == /\ v # NULL /\ Count(v) < MaxCount
          /\ Become(Append1(MakeRoom(Now), s))
          /\ source' = None

(* At most n characters are copied.                                        *)
x_strndup(s, n) == SubSeq(s, 1, MinLen(Len(s), n))

(* cvectors have no vector_addn.                                           *)
Addn(s, n) == /\ owned /\ v # NULL /\ Count(v) < MaxCount
              /\ Become(Append1(MakeRoom(Now), x_strndup(s, n)))
              /\ source' = None

Resize(size) == v # NULL /\ Become(vector_resize(Now, size)) /\ source' = None

Clear == v # NULL /\ Become(vector_clear(Now)) /\ source' = None

(* Mutant: the strings are forgotten.                                      *)
Free_shallow == v # NULL /\ Become([vec |-> NULL, blocks |-> heap - 2])
                /\ source' = None

Free == /\ v # NULL
        /\ Become([vec |-> NULL, blocks |-> vector_clear(Now).blocks - 2])
        /\ source' = None

Split(s) == /\ Become(Fill(vector_reuse(Now), split_count(s), split_pieces(s)))
            /\ Because("split", s)

SplitMulti(s) ==
  /\ Become(Fill(vector_reuse(Now), split_multi_count(s), multi_pieces(s)))
  /\ Because("multi", s)

(* vector_exec stores a NULL after the strings; execv has failed.          *)
Exec == /\ v # NULL
        /\ LET r == IF v.allocated = Count(v) THEN vector_resize(Now, Count(v) + 1)
                    ELSE Now
           IN Become([r EXCEPT !.vec.top = Count(v) + 1])
        /\ source' = None

Next == \/ New \/ Clear \/ Free \/ Exec
        \/ \E s \in Words : Add(s) \/ (\E n \in 0 .. 2 : Addn(s, n))
        \/ \E size \in 0 .. (MaxCount + 1) : Resize(size)
        \/ \E s \in Texts : Split(s) \/ SplitMulti(s)

Spec == Init /\ [][Next]_vars

-----------------------------------------------------------------------------
(* The memory held is the struct, the table and, for a vector, one copy of *)
(* each string: nothing leaks through reuse, shrinking or freeing.  No     *)
(* entry is written past the end of the table, which is never empty; a     *)
(* split relies on its two passes to agree.                                *)
MemoryExact ==
  /\ heap = IF v = NULL THEN 0 ELSE 2 + Copies(Count(v))
  /\ v # NULL => /\ v.allocated >= 1
                 /\ Count(v) <= v.allocated
                 /\ v.top <= v.allocated

(* vector_split and vector_join are inverse: no character is lost, and no  *)
(* piece contains the separator.  vector_split_multi finds every maximal   *)
(* run of other characters, in order, and no empty string.  Whatever the   *)
(* separator, the size vector_join computes has room for every string, so  *)
(* that strlcat never cuts one off.                                        *)
Begins(s) == {p \in DOMAIN s : s[p] \notin Seps /\ (p = 1 \/ s[p - 1] \in Seps)}
Joined(strings, sep) ==
  Len(FlattenSeq(strings))
    + (IF Len(strings) > 1 THEN (Len(strings) - 1) * Len(sep) ELSE 0)
Without(s, seps) == FoldLeft(LAMBDA out, c : IF c \in seps THEN out ELSE Append(out, c),
                             << >>, s)
SplitExact ==
  /\ source.op = "split" =>
       /\ vector_join(v.strings, <<Sep>>) = source.text
       /\ \A i \in DOMAIN v.strings : Sep \notin ToSet(v.strings[i])
  /\ source.op = "multi" =>
       /\ Count(v) = Cardinality(Begins(source.text))
       /\ << >> \notin ToSet(v.strings)
       /\ FlattenSeq(v.strings) = Without(source.text, Seps)
  /\ \A sep \in {<< >>, <<Sep>>, <<Sep, Sep>>} :
       Len(vector_join(v.strings, sep)) = Joined(v.strings, sep)
=============================================================================
