------------------------------ MODULE Evector ------------------------------
(***************************************************************************)
(* evector_base of Lilu's kern_util.hpp: an array that grows by realloc.   *)
(* A vector is a record: mem is the block ptr refers to, as a sequence of  *)
(* cells (empty when ptr is null), cnt the elements in use, rsvd what the  *)
(* code believes the block has room for.  Indices are from 0, as in C.     *)
(* Cells past cnt hold leftovers; a cell never written holds Junk.         *)
(***************************************************************************)
EXTENDS Integers, Sequences

CONSTANT Junk    \* the content of a cell that realloc added

\* A vector whose ptr is null.
EmptyVector == [mem |-> <<>>, cnt |-> 0, rsvd |-> 0]

Vectors(Elem) == [mem : Seq(Elem \cup {Junk}), cnt : Nat, rsvd : Nat]

\* kern_os_realloc, when it succeeds: the cells that fit are kept.
Realloc(mem, n) == [i \in 1..n |-> IF i <= Len(mem) THEN mem[i] ELSE Junk]

\* reserve asks for memory only when what it has is too little.
NeedsMemory(v, num) == v.rsvd < num

\* Mutant: the new size is noted before the allocation is known to succeed.
ReserveEarly(v, mul, num, ok) ==
  IF NeedsMemory(v, num)
  THEN [v EXCEPT !.mem = IF ok THEN Realloc(v.mem, mul * num) ELSE v.mem,
                 !.rsvd = mul * num]
  ELSE v

\* reserve<mul>; ok says whether the allocation succeeds.  A failed one changes nothing.
Reserve(v, mul, num, ok) ==
  IF NeedsMemory(v, num) /\ ok
  THEN [v EXCEPT !.mem = Realloc(v.mem, mul * num), !.rsvd = mul * num]
  ELSE v

\* push_back<mul> returns false, and stores nothing, when reserve returned null.
Refuses(v, ok) == NeedsMemory(v, v.cnt + 1) /\ ~ok

PushBack(v, mul, e, ok) ==
  LET r == Reserve(v, mul, v.cnt + 1, ok)
  IN  IF Refuses(v, ok)
      THEN r
      ELSE [r EXCEPT !.mem = [r.mem EXCEPT ![v.cnt + 1] = e], !.cnt = v.cnt + 1]

\* Mutant: the elements behind are not moved.
EraseInPlace(v, index, free) ==
  IF free /\ v.cnt = 1 THEN EmptyVector ELSE [v EXCEPT !.cnt = v.cnt - 1]

\* erase: the elements behind index move down; the block goes with its last element
\* if free says so.  The caller has called the deleter on element index.
Erase(v, index, free) ==
  LET left == v.cnt - 1
  IN  IF free /\ left = 0
      THEN EmptyVector
      ELSE [v EXCEPT !.cnt = left,
                     !.mem = [j \in 1..Len(v.mem) |->
                                IF index < j /\ j <= left THEN v.mem[j + 1] ELSE v.mem[j]]]

\* last(): the index of the last element of a vector that has one.
LastId(v) == v.cnt - 1

\* operator []
Get(v, index) == v.mem[index + 1]

\* deinit: a null ptr is left alone.
Deinit(v) == IF v.mem = <<>> THEN v ELSE EmptyVector

-----------------------------------------------------------------------------

\* The elements of a vector.
Items(v) == SubSeq(v.mem, 1, v.cnt)

\* The block is as large as the code believes and every element is inside it.
WithinBlock(v) == v.cnt <= v.rsvd /\ v.rsvd = Len(v.mem)
=============================================================================
