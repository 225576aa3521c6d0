--------------------------- MODULE EvectorProofs ---------------------------
(***************************************************************************)
(* What the operations of an evector do to the sequence it stands for, for *)
(* every element type, growth factor and outcome of the allocations.       *)
(***************************************************************************)
EXTENDS Evector, SequencesExt, SequenceTheorems, TLAPS

\* A vector of elements of S that is what the code believes it is: the elements are inside
\* the block, and none of them is a leftover.
Sound(v, S) ==
  /\ v \in Vectors(S)
  /\ WithinBlock(v)
  /\ \A i \in 1..v.cnt : v.mem[i] \in S

-----------------------------------------------------------------------------

\* The constructor and deinit leave a sound vector.
LEMMA EmptyIsSound == ASSUME NEW S PROVE Sound(EmptyVector, S) /\ Items(EmptyVector) = <<>>
<1>1. <<>> \in Seq(S \cup {Junk}) /\ Len(<<>>) = 0
  BY EmptySeq
<1>2. SubSeq(<<>>, 1, 0) = <<>>
  BY SubSeqEmpty
<1>3. QED
  BY <1>1, <1>2 DEF Sound, EmptyVector, Vectors, WithinBlock, Items

\* The elements of a sound vector are a sequence over S, one per cell in use.
LEMMA ItemsOfSound ==
  ASSUME NEW S, NEW v, Sound(v, S)
  PROVE  /\ Items(v) \in Seq(S)
         /\ Len(Items(v)) = v.cnt
         /\ \A i \in 1..v.cnt : Items(v)[i] = v.mem[i]
<1>1. v.cnt \in Nat /\ \A i \in 1..v.cnt : v.mem[i] \in S
  BY DEF Sound, Vectors
<1>2. /\ SubSeq(v.mem, 1, v.cnt) \in Seq(S)
      /\ Len(SubSeq(v.mem, 1, v.cnt)) = IF 1 <= v.cnt THEN v.cnt - 1 + 1 ELSE 0
      /\ \A i \in 1..(v.cnt - 1 + 1) : SubSeq(v.mem, 1, v.cnt)[i] = v.mem[1 + i - 1]
  BY <1>1, SubSeqProperties
<1>3. QED
  BY <1>1, <1>2 DEF Items

\* A larger block is not smaller than what was asked for.
LEMMA TimesAtLeast ==
  ASSUME NEW m \in Nat \ {0}, NEW n \in Nat PROVE m * n \in Nat /\ m * n >= n
<1>1. (m - 1) * n >= 0 /\ (m - 1) * n \in Int
  OBVIOUS
<1>2. m * n = (m - 1) * n + n
  OBVIOUS
<1>3. QED
  BY <1>1, <1>2

\* realloc keeps the cells that fit.
LEMMA ReallocKeeps ==
  ASSUME NEW S, NEW mem \in Seq(S \cup {Junk}), NEW n \in Nat
  PROVE  /\ Realloc(mem, n) \in Seq(S \cup {Junk})
         /\ Len(Realloc(mem, n)) = n
         /\ \A i \in 1..n : i <= Len(mem) => Realloc(mem, n)[i] = mem[i]
<1>1. \A i \in 1..n : i <= Len(mem) => mem[i] \in S \cup {Junk}
  BY ElementOfSeq
<1>2. QED
  BY <1>1 DEF Realloc

\* reserve changes no element, and succeeds or finds enough room.
LEMMA ReserveIsSound ==
  ASSUME NEW S, NEW v, Sound(v, S), NEW mul \in Nat \ {0}, NEW num \in Nat, NEW ok \in BOOLEAN
  PROVE  /\ Sound(Reserve(v, mul, num, ok), S)
         /\ Reserve(v, mul, num, ok).cnt = v.cnt
         /\ \A i \in 1..v.cnt : Reserve(v, mul, num, ok).mem[i] = v.mem[i]
         /\ (NeedsMemory(v, num) => ok) => Reserve(v, mul, num, ok).rsvd >= num
<1> DEFINE r == Reserve(v, mul, num, ok)
<1>1. CASE NeedsMemory(v, num) /\ ok
  <2>1. mul * num \in Nat /\ mul * num >= num
    BY TimesAtLeast
  <2>2. /\ v.mem \in Seq(S \cup {Junk}) /\ v.cnt \in Nat /\ v.rsvd \in Nat
        /\ v.cnt <= v.rsvd /\ v.rsvd = Len(v.mem) /\ v.rsvd < num
    BY <1>1 DEF Sound, Vectors, WithinBlock, NeedsMemory
  <2>3. r = [mem |-> Realloc(v.mem, mul * num), cnt |-> v.cnt, rsvd |-> mul * num]
    BY <1>1 DEF Reserve, Sound, Vectors
  <2>4. /\ Realloc(v.mem, mul * num) \in Seq(S \cup {Junk})
        /\ Len(Realloc(v.mem, mul * num)) = mul * num
        /\ \A i \in 1..(mul * num) :
             i <= Len(v.mem) => Realloc(v.mem, mul * num)[i] = v.mem[i]
    BY <2>1, <2>2, ReallocKeeps
  <2> HIDE DEF r
  <2>5. \A i \in 1..v.cnt : r.mem[i] = v.mem[i]
    <3>1. \A i \in 1..v.cnt : i \in 1..(mul * num) /\ i <= Len(v.mem)
      BY <2>1, <2>2
    <3>2. r.mem = Realloc(v.mem, mul * num)
      BY <2>3
    <3>3. QED
      BY <3>1, <3>2, <2>4
  <2>6. r \in Vectors(S) /\ r.cnt = v.cnt
    BY <2>1, <2>2, <2>3, <2>4 DEF Vectors
  <2>7. WithinBlock(r) /\ r.rsvd >= num
    BY <2>1, <2>2, <2>3, <2>4 DEF WithinBlock
  <2>8. Sound(r, S)
    BY <2>5, <2>6, <2>7 DEF Sound
  <2>9. QED
    BY <2>5, <2>6, <2>7, <2>8 DEF r
<1>2. CASE ~(NeedsMemory(v, num) /\ ok)
  <2>1. r = v
    BY <1>2 DEF Reserve
  <2>2. (NeedsMemory(v, num) => ok) => v.rsvd >= num
    BY <1>2 DEF NeedsMemory, Sound, Vectors
  <2>3. QED
    BY <2>1, <2>2
<1>3. QED
  BY <1>1, <1>2

\* push_back appends the element, or refuses it and leaves the sequence as it is.
THEOREM PushBackAppends ==
  ASSUME NEW S, NEW v, Sound(v, S), NEW mul \in Nat \ {0}, NEW e \in S, NEW ok \in BOOLEAN
  PROVE  /\ Sound(PushBack(v, mul, e, ok), S)
         /\ Items(PushBack(v, mul, e, ok)) =
              IF Refuses(v, ok) THEN Items(v) ELSE Append(Items(v), e)
<1> DEFINE r == Reserve(v, mul, v.cnt + 1, ok)
           w == PushBack(v, mul, e, ok)
<1>1. v.cnt \in Nat /\ v.cnt + 1 \in Nat
  BY DEF Sound, Vectors
<1>2. /\ Sound(r, S) /\ r.cnt = v.cnt
      /\ \A i \in 1..v.cnt : r.mem[i] = v.mem[i]
      /\ (NeedsMemory(v, v.cnt + 1) => ok) => r.rsvd >= v.cnt + 1
  <2>1. ASSUME NEW n \in Nat
        PROVE  /\ Sound(Reserve(v, mul, n, ok), S) /\ Reserve(v, mul, n, ok).cnt = v.cnt
               /\ \A i \in 1..v.cnt : Reserve(v, mul, n, ok).mem[i] = v.mem[i]
               /\ (NeedsMemory(v, n) => ok) => Reserve(v, mul, n, ok).rsvd >= n
    BY ReserveIsSound
  <2>2. QED
    BY <1>1, <2>1
<1>3. Sound(r, S) /\ Items(r) = Items(v)
  <2>1. /\ Items(r) \in Seq(S) /\ Len(Items(r)) = v.cnt
        /\ \A i \in 1..v.cnt : Items(r)[i] = r.mem[i]
    BY <1>2, ItemsOfSound
  <2>2. /\ Items(v) \in Seq(S) /\ Len(Items(v)) = v.cnt
        /\ \A i \in 1..v.cnt : Items(v)[i] = v.mem[i]
    BY ItemsOfSound
  <2> HIDE DEF r
  <2>3. \A i \in 1..Len(Items(r)) : Items(r)[i] = Items(v)[i]
    BY <1>2, <2>1, <2>2
  <2>4. QED
    BY <1>2, <2>1, <2>2, <2>3, SeqEqual
<1>4. CASE Refuses(v, ok)
  BY <1>3, <1>4 DEF PushBack
<1>5. CASE ~Refuses(v, ok)
  <2>1. r.rsvd >= v.cnt + 1
    BY <1>2, <1>5 DEF Refuses
  <2>2. w = [r EXCEPT !.mem = [r.mem EXCEPT ![v.cnt + 1] = e], !.cnt = v.cnt + 1]
    BY <1>5 DEF PushBack
  <2> HIDE DEF r, w
  <2>3. /\ r.mem \in Seq(S \cup {Junk}) /\ r.rsvd \in Nat /\ r.rsvd = Len(r.mem)
        /\ r = [mem |-> r.mem, cnt |-> r.cnt, rsvd |-> r.rsvd]
        /\ \A i \in 1..v.cnt : r.mem[i] \in S
    BY <1>2 DEF Sound, Vectors, WithinBlock
  <2>4. v.cnt + 1 \in 1..Len(r.mem)
    BY <1>1, <2>1, <2>3
  <2>5. w = [mem |-> [r.mem EXCEPT ![v.cnt + 1] = e], cnt |-> v.cnt + 1, rsvd |-> r.rsvd]
    BY <2>2, <2>3
  <2>6. /\ w.mem \in Seq(S \cup {Junk}) /\ Len(w.mem) = Len(r.mem)
        /\ \A j \in 1..Len(r.mem) : w.mem[j] = IF j = v.cnt + 1 THEN e ELSE r.mem[j]
    BY <2>3, <2>4, <2>5, ExceptSeq
  <2>7. w.cnt = v.cnt + 1 /\ w.rsvd = r.rsvd
    BY <2>5
  <2>8. \A i \in 1..(v.cnt + 1) : w.mem[i] = IF i = v.cnt + 1 THEN e ELSE r.mem[i]
    BY <1>1, <2>4, <2>6
  <2>9. \A i \in 1..w.cnt : w.mem[i] \in S
    BY <1>1, <2>3, <2>7, <2>8
  <2>10. w \in Vectors(S)
    BY <1>1, <2>3, <2>5, <2>6, <2>7 DEF Vectors
  <2>11. WithinBlock(w)
    BY <2>1, <2>3, <2>6, <2>7 DEF WithinBlock
  <2>12. Sound(w, S)
    BY <2>9, <2>10, <2>11 DEF Sound
  <2>13. Items(w) = Append(Items(v), e)
    <3>1. /\ Items(w) \in Seq(S) /\ Len(Items(w)) = v.cnt + 1
          /\ \A i \in 1..(v.cnt + 1) : Items(w)[i] = w.mem[i]
      BY <2>7, <2>12, ItemsOfSound
    <3>2. /\ Items(v) \in Seq(S) /\ Len(Items(v)) = v.cnt
          /\ \A i \in 1..v.cnt : Items(v)[i] = v.mem[i]
      BY ItemsOfSound
    <3>3. /\ Append(Items(v), e) \in Seq(S) /\ Len(Append(Items(v), e)) = v.cnt + 1
          /\ \A i \in 1..v.cnt : Append(Items(v), e)[i] = Items(v)[i]
          /\ Append(Items(v), e)[v.cnt + 1] = e
      BY <3>2, AppendProperties
    <3>4. \A i \in 1..Len(Items(w)) : Items(w)[i] = Append(Items(v), e)[i]
      BY <1>1, <1>2, <2>8, <3>1, <3>2, <3>3
    <3>5. QED
      BY <3>1, <3>3, <3>4, SeqEqual
  <2>14. QED
    BY <1>5, <2>12, <2>13 DEF w
<1>6. QED
  BY <1>4, <1>5

\* Removing an element of a sequence closes the gap.
LEMMA RemoveAtCloses ==
  ASSUME NEW S, NEW s \in Seq(S), NEW k \in 1..Len(s)
  PROVE  /\ RemoveAt(s, k) \in Seq(S)
         /\ Len(RemoveAt(s, k)) = Len(s) - 1
         /\ \A i \in 1..(Len(s) - 1) : RemoveAt(s, k)[i] = IF i < k THEN s[i] ELSE s[i + 1]
<1> DEFINE a == SubSeq(s, 1, k - 1)
           b == SubSeq(s, k + 1, Len(s))
<1>1. Len(s) \in Nat /\ k \in Int /\ 1 <= k /\ k <= Len(s) /\ \A i \in 1..Len(s) : s[i] \in S
  BY ElementOfSeq, LenProperties
<1>2. /\ a \in Seq(S) /\ Len(a) = k - 1
      /\ \A i \in 1..(k - 1) : a[i] = s[i]
  <2>1. /\ SubSeq(s, 1, k - 1) \in Seq(S)
        /\ Len(SubSeq(s, 1, k - 1)) = IF 1 <= k - 1 THEN k - 1 - 1 + 1 ELSE 0
        /\ \A i \in 1..(k - 1 - 1 + 1) : SubSeq(s, 1, k - 1)[i] = s[1 + i - 1]
    <3>1. k - 1 \in Int /\ 1 \in Int /\ \A i \in 1..(k - 1) : s[i] \in S
      BY <1>1
    <3> HIDE DEF a, b
    <3>2. QED
      BY <3>1, SubSeqProperties
  <2>2. QED
    BY <1>1, <2>1
<1>3. /\ b \in Seq(S) /\ Len(b) = Len(s) - k
      /\ \A i \in 1..(Len(s) - k) : b[i] = s[k + i]
  <2>1. /\ SubSeq(s, k + 1, Len(s)) \in Seq(S)
        /\ Len(SubSeq(s, k + 1, Len(s))) =
             IF k + 1 <= Len(s) THEN Len(s) - (k + 1) + 1 ELSE 0
        /\ \A i \in 1..(Len(s) - (k + 1) + 1) :
             SubSeq(s, k + 1, Len(s))[i] = s[(k + 1) + i - 1]
    <3>1. k + 1 \in Int /\ Len(s) \in Int /\ \A i \in (k + 1)..Len(s) : s[i] \in S
      BY <1>1
    <3> HIDE DEF a, b
    <3>2. QED
      BY <3>1, SubSeqProperties
  <2>2. QED
    BY <1>1, <2>1
<1>4. RemoveAt(s, k) = a \o b
  BY DEF RemoveAt
<1> HIDE DEF a, b
<1>5. /\ a \o b \in Seq(S) /\ Len(a \o b) = Len(s) - 1
      /\ \A i \in 1..(Len(s) - 1) : (a \o b)[i] = IF i <= k - 1 THEN a[i] ELSE b[i - (k - 1)]
  BY <1>1, <1>2, <1>3, ConcatProperties
<1>6. \A i \in 1..(Len(s) - 1) : (a \o b)[i] = IF i < k THEN s[i] ELSE s[i + 1]
  <2> SUFFICES ASSUME NEW i \in 1..(Len(s) - 1)
               PROVE  (a \o b)[i] = IF i < k THEN s[i] ELSE s[i + 1]
    OBVIOUS
  <2>1. CASE i < k
    BY <2>1, <1>1, <1>2, <1>5
  <2>2. CASE ~(i < k)
    <3>1. i - (k - 1) \in 1..(Len(s) - k) /\ k + (i - (k - 1)) = i + 1
      BY <2>2, <1>1
    <3>2. b[i - (k - 1)] = s[i + 1]
      BY <3>1, <1>3
    <3>3. QED
      BY <2>2, <3>2, <1>1, <1>5
  <2>3. QED
    BY <2>1, <2>2
<1>7. QED
  BY <1>4, <1>5, <1>6

\* erase removes the element at the index, whether or not it frees the block.
THEOREM EraseRemoves ==
  ASSUME NEW S, NEW v, Sound(v, S), NEW index \in 0..LastId(v), NEW free \in BOOLEAN
  PROVE  /\ Sound(Erase(v, index, free), S)
         /\ Items(Erase(v, index, free)) = RemoveAt(Items(v), index + 1)
<1> DEFINE w == Erase(v, index, free)
           s == Items(v)
<1>1. /\ v.cnt \in Nat /\ index \in Nat /\ index <= v.cnt - 1 /\ index + 1 \in 1..v.cnt
      /\ v.mem \in Seq(S \cup {Junk}) /\ v.rsvd \in Nat /\ v.cnt <= v.rsvd
      /\ v.rsvd = Len(v.mem)
      /\ \A i \in 1..v.cnt : v.mem[i] \in S
  BY DEF Sound, Vectors, WithinBlock, LastId
<1>2. /\ s \in Seq(S) /\ Len(s) = v.cnt
      /\ \A i \in 1..v.cnt : s[i] = v.mem[i]
  BY ItemsOfSound
<1>3. /\ RemoveAt(s, index + 1) \in Seq(S)
      /\ Len(RemoveAt(s, index + 1)) = v.cnt - 1
      /\ \A i \in 1..(v.cnt - 1) :
           RemoveAt(s, index + 1)[i] = IF i < index + 1 THEN s[i] ELSE s[i + 1]
  <2> HIDE DEF s
  <2>1. ASSUME NEW k \in 1..Len(s)
        PROVE  /\ RemoveAt(s, k) \in Seq(S)
               /\ Len(RemoveAt(s, k)) = Len(s) - 1
               /\ \A i \in 1..(Len(s) - 1) : RemoveAt(s, k)[i] = IF i < k THEN s[i] ELSE s[i + 1]
    BY <1>2, RemoveAtCloses
  <2>2. QED
    BY <1>1, <1>2, <2>1
<1>4. Sound(w, S) /\ w.cnt = v.cnt - 1
      /\ \A i \in 1..w.cnt : w.mem[i] = IF i < index + 1 THEN v.mem[i] ELSE v.mem[i + 1]
  <2>1. CASE free /\ v.cnt - 1 = 0
    <3>1. w = EmptyVector
      BY <2>1 DEF Erase
    <3>2. Sound(w, S) /\ w.cnt = 0
      BY <3>1, EmptyIsSound DEF EmptyVector
    <3> HIDE DEF w
    <3>3. \A i \in 1..w.cnt : FALSE
      BY <3>2
    <3>4. QED
      BY <1>1, <2>1, <3>2, <3>3
  <2>2. CASE ~(free /\ v.cnt - 1 = 0)
    <3> DEFINE cells == [j \in 1..Len(v.mem) |->
                           IF index < j /\ j <= v.cnt - 1 THEN v.mem[j + 1] ELSE v.mem[j]]
    <3>1. w = [v EXCEPT !.cnt = v.cnt - 1, !.mem = cells]
      BY <2>2 DEF Erase
    <3>2. v = [mem |-> v.mem, cnt |-> v.cnt, rsvd |-> v.rsvd]
      BY DEF Sound, Vectors
    <3>3. \A j \in 1..Len(v.mem) :
            (IF index < j /\ j <= v.cnt - 1 THEN v.mem[j + 1] ELSE v.mem[j]) \in S \cup {Junk}
      <4>1. \A j \in 1..Len(v.mem) : v.mem[j] \in S \cup {Junk}
        BY <1>1, ElementOfSeq
      <4>2. \A j \in 1..Len(v.mem) : j <= v.cnt - 1 => j + 1 \in 1..Len(v.mem)
        BY <1>1
      <4>3. QED
        BY <4>1, <4>2
    <3>4. /\ cells \in Seq(S \cup {Junk}) /\ Len(cells) = Len(v.mem)
          /\ \A j \in 1..Len(v.mem) :
               cells[j] = IF index < j /\ j <= v.cnt - 1 THEN v.mem[j + 1] ELSE v.mem[j]
      BY <1>1, <3>3
    <3> HIDE DEF cells
    <3>5. w.mem = cells /\ w.cnt = v.cnt - 1 /\ w.rsvd = v.rsvd
          /\ w = [mem |-> cells, cnt |-> v.cnt - 1, rsvd |-> v.rsvd]
      BY <3>1, <3>2
    <3> HIDE DEF w
    <3>6. v.cnt - 1 \in Nat /\ \A i \in 1..(v.cnt - 1) : i \in 1..Len(v.mem) /\ i <= v.cnt - 1
      BY <1>1
    <3>7. \A i \in 1..w.cnt : w.mem[i] = IF i < index + 1 THEN v.mem[i] ELSE v.mem[i + 1]
      BY <1>1, <3>4, <3>5, <3>6
    <3>8. \A i \in 1..w.cnt : w.mem[i] \in S
      BY <1>1, <3>5, <3>7
    <3>9. w \in Vectors(S)
      BY <1>1, <3>4, <3>5, <3>6 DEF Vectors
    <3>10. WithinBlock(w)
      BY <1>1, <3>4, <3>5 DEF WithinBlock
    <3>11. QED
      BY <3>5, <3>7, <3>8, <3>9, <3>10 DEF Sound
  <2>3. QED
    BY <2>1, <2>2
<1>5. /\ Items(w) \in Seq(S) /\ Len(Items(w)) = w.cnt
      /\ \A i \in 1..w.cnt : Items(w)[i] = w.mem[i]
  BY <1>4, ItemsOfSound
<1> HIDE DEF w, s
<1>6. \A i \in 1..Len(Items(w)) : Items(w)[i] = RemoveAt(s, index + 1)[i]
  BY <1>1, <1>2, <1>3, <1>4, <1>5
<1>7. Items(w) = RemoveAt(s, index + 1)
  BY <1>3, <1>4, <1>5, <1>6, SeqEqual
<1>8. QED
  BY <1>4, <1>7 DEF w, s

\* deinit leaves no element, also when there is no block.
THEOREM DeinitEmpties ==
  ASSUME NEW S, NEW v, Sound(v, S)
  PROVE  Sound(Deinit(v), S) /\ Items(Deinit(v)) = <<>>
<1>1. CASE v.mem = <<>>
  <2>1. Len(v.mem) = 0
    BY <1>1, EmptySeq
  <2>2. v.cnt = 0
    BY <2>1 DEF Sound, Vectors, WithinBlock
  <2>3. Items(v) = <<>>
    BY <1>1, <2>2, SubSeqEmpty DEF Items
  <2>4. QED
    BY <1>1, <2>3 DEF Deinit
<1>2. CASE v.mem # <<>>
  BY <1>2, EmptyIsSound DEF Deinit
<1>3. QED
  BY <1>1, <1>2

\* What the operator [] reads at an index in use is the element there.
LEMMA GetIsItem ==
  ASSUME NEW S, NEW v, Sound(v, S), NEW index \in 0..LastId(v)
  PROVE  /\ Get(v, index) \in S /\ index + 1 \in 1..Len(Items(v))
         /\ Get(v, index) = Items(v)[index + 1]
<1>1. v.cnt \in Nat /\ index + 1 \in 1..v.cnt
  BY DEF Sound, Vectors, LastId
<1>2. QED
  BY <1>1, ItemsOfSound DEF Get, Sound
=============================================================================
