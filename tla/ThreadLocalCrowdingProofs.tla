--------------------- MODULE ThreadLocalCrowdingProofs ---------------------
(***************************************************************************)
(* A set of ThreadLocal is refused only under crowding, for every number   *)
(* of threads and slots and whatever the others do meanwhile, deinit in    *)
(* the middle of calls included.                                           *)
(*                                                                         *)
(* The scan is no snapshot: an owner it has met may give its slot up and   *)
(* claim another one further on, and be met twice.  But to claim that one  *)
(* the owner has made a scan of its own and met others before it.          *)
(***************************************************************************)
EXTENDS MCThreadLocal, ThreadLocalProofs

\* The owners of the slots a scan that stands at slot i has still before it.
Ahead(i) == {threads[j] : j \in i..N} \ {NoThread}

\* A scan that stands at slot i has at least i - 1 rivals that are not before it.
Crowd(t) ==
  pc[t] = "null" =>
    /\ IsFiniteSet(rivals[t]) /\ Owners \subseteq rivals[t] /\ t \notin rivals[t]
    /\ Cardinality(rivals[t] \ Ahead(idx[t])) >= idx[t] - 1

\* A rival that scans began to scan later, so it met only rivals.
Later ==
  \A t, u \in Threads :
    pc[t] = "null" /\ pc[u] = "null" /\ u \in rivals[t] => rivals[u] \subseteq rivals[t]

CrowdInv ==
  /\ rivals \in [Threads -> SUBSET Threads]
  /\ (\A t \in Threads : Crowd(t)) /\ Later

-----------------------------------------------------------------------------
(* Owners and their numbers.                                               *)

\* Slots from i to j have at most j - i + 1 owners.
LEMMA SegmentOwners ==
  ASSUME NEW i \in Nat, NEW j \in Nat, i <= j + 1
  PROVE  /\ IsFiniteSet({threads[k] : k \in i..j})
         /\ Cardinality({threads[k] : k \in i..j}) \in Nat
         /\ Cardinality({threads[k] : k \in i..j}) <= j - i + 1
<1> DEFINE T == {threads[k] : k \in i..j}
           g == [k \in i..j |-> threads[k]]
<1>1. IsFiniteSet(i..j) /\ Cardinality(i..j) = j - i + 1
  <2>1. i \in Int /\ j \in Int
    OBVIOUS
  <2>2. IsFiniteSet(i..j) /\ Cardinality(i..j) = IF i > j THEN 0 ELSE j - i + 1
    BY <2>1, FS_Interval
  <2>3. QED
    BY <2>2
<1>2. g \in Surjection(i..j, T)
  BY DEF Surjection
<1> HIDE DEF g, T
<1>3. IsFiniteSet(T) /\ Cardinality(T) <= Cardinality(i..j)
  BY <1>1, <1>2, FS_Surjection
<1>4. Cardinality(T) \in Nat
  BY <1>3, FS_CardinalityType
<1>5. QED
  BY <1>1, <1>3, <1>4 DEF T

\* There are finitely many owners.
LEMMA OwnersFinite == IsFiniteSet(Owners)
<1>1. 1 \in Nat /\ N \in Nat /\ 1 <= N + 1
  BY SlotsAssumption
<1>2. IsFiniteSet({threads[k] : k \in 1..N})
  BY <1>1, SegmentOwners
<1>3. QED
  BY <1>2, FS_Subset DEF Owners, Slots

\* A larger set has no fewer elements.
LEMMA MoreOf ==
  ASSUME NEW A, NEW B, IsFiniteSet(B), A \subseteq B
  PROVE  /\ Cardinality(A) \in Nat /\ Cardinality(B) \in Nat
         /\ Cardinality(A) <= Cardinality(B) /\ IsFiniteSet(A)
BY FS_Subset, FS_CardinalityType

\* Taking a set of at most n elements away leaves all but n.
LEMMA AllBut ==
  ASSUME NEW A, NEW B, IsFiniteSet(A), IsFiniteSet(B), NEW n \in Nat, Cardinality(B) <= n
  PROVE  /\ IsFiniteSet(A \ B) /\ Cardinality(A \ B) \in Nat
         /\ Cardinality(A \ B) >= Cardinality(A) - n
<1>1. /\ Cardinality(A) \in Nat /\ Cardinality(B) \in Nat
      /\ Cardinality(A \cap B) \in Nat /\ Cardinality(A \cap B) <= Cardinality(B)
  BY MoreOf
<1>2. /\ IsFiniteSet(A \ B)
      /\ Cardinality(A \ B) = Cardinality(A) - Cardinality(A \cap B)
  BY FS_Difference
<1>3. Cardinality(A \ B) \in Nat
  BY <1>2, FS_CardinalityType
<1>4. QED
  BY <1>1, <1>2, <1>3

\* Who scans for a free slot owns none.
LEMMA ScannerOwnsNone ==
  ASSUME UniqueInv, NEW t \in Threads, pc[t] = "null"
  PROVE  t \notin Owners
BY DEF UniqueInv, SearchedInVain, Owners

-----------------------------------------------------------------------------
(* What a step does to the owners: nothing, a claim, or slots given up.    *)

\* Thread u claims the free slot that its scan stands at.
Claims(u) ==
  /\ pc[u] = "null" /\ pc'[u] = "insert" /\ idx[u] \in Slots
  /\ threads[idx[u]] = NoThread /\ threads' = [threads EXCEPT ![idx[u]] = u]

\* A step either lets a scanning thread claim a free slot or only gives slots up; a scan
\* begins at the first slot, stays where it is, or passes a taken slot.
LEMMA OwnersAfter ==
  ASSUME TypeOK, [Next]_vars
  PROVE  /\ \/ \A j \in Slots : threads'[j] \in {threads[j], NoThread}
            \/ \E u \in Threads : Claims(u)
         /\ \A t \in Threads : pc'[t] = "null" =>
              \/ pc[t] # "null" /\ idx'[t] = 1 /\ threads' = threads
              \/ pc[t] = "null" /\ idx'[t] = idx[t]
              \/ /\ pc[t] = "null" /\ threads' = threads
                 /\ idx[t] < N /\ idx'[t] = idx[t] + 1 /\ threads[idx[t]] # NoThread
<1> USE DEF TypeOK
<1>1. ASSUME NEW t \in Threads, Begin(t)
      PROVE  threads' = threads /\ \A u \in Threads : pc'[u] = "null" => pc[u] = "null" /\ idx'[u] = idx[u]
  BY <1>1 DEF Begin, SetBegin, GetBegin, Deref, EraseBegin, MayCall, Goto
<1>2. ASSUME NEW t \in Threads, SetOwn(t)
      PROVE  threads' = threads /\ \A u \in Threads : pc'[u] = "null" =>
               (pc[u] # "null" /\ idx'[u] = 1) \/ (pc[u] = "null" /\ idx'[u] = idx[u])
  BY <1>2 DEF SetOwn, Goto
<1>3. ASSUME NEW t \in Threads, SetNull(t)
      PROVE  /\ threads' = threads \/ Claims(t)
             /\ \A u \in Threads : pc'[u] = "null" =>
                  \/ pc[u] = "null" /\ idx'[u] = idx[u]
                  \/ /\ pc[u] = "null" /\ threads' = threads
                     /\ idx[u] < N /\ idx'[u] = idx[u] + 1 /\ threads[idx[u]] # NoThread
  BY <1>3 DEF SetNull, Goto, Return, Claims
<1>4. ASSUME NEW t \in Threads, SetInsert(t) \/ GetScan(t) \/ EraseScan(t) \/ EraseClear(t)
      PROVE  threads' = threads /\ \A u \in Threads : pc'[u] = "null" => pc[u] = "null" /\ idx'[u] = idx[u]
  BY <1>4 DEF SetInsert, GetScan, EraseScan, EraseClear, Goto, Return
<1>5. ASSUME NEW t \in Threads, EraseRelease(t)
      PROVE  /\ \A j \in Slots : threads'[j] \in {threads[j], NoThread}
             /\ \A u \in Threads : pc'[u] = "null" => pc[u] = "null" /\ idx'[u] = idx[u]
  BY <1>5 DEF EraseRelease, Goto, Return
<1>6. CASE Deinit \/ UNCHANGED vars
  BY <1>6 DEF Deinit, DeinitBegin, DeinitOwner, DeinitValue, vars
<1>7. QED
  BY <1>1, <1>2, <1>3, <1>4, <1>5, <1>6 DEF Next, Step

-----------------------------------------------------------------------------
(* The three ways a scan goes on while its thread is in it.                *)

\* A scan that is not moved, while slots are given up or nothing happens to them.
LEMMA CrowdWhenFreed ==
  ASSUME TypeOK, NEW t \in Threads, Crowd(t), rivals[t] \subseteq rivals'[t], IsFiniteSet(rivals'[t]),
         pc[t] = "null", idx'[t] = idx[t],
         \A j \in Slots : threads'[j] \in {threads[j], NoThread}
  PROVE  Cardinality(rivals'[t] \ Ahead(idx[t])') >= idx'[t] - 1
<1>1. idx[t] \in Slots /\ idx[t] \in Nat /\ idx[t] >= 1
  BY SlotsAssumption DEF TypeOK, Slots
<1>2. \A j \in idx[t]..N : j \in Slots
  BY <1>1, SlotsAssumption DEF Slots
<1>3. {threads'[j] : j \in idx'[t]..N} \ {NoThread} \subseteq Ahead(idx[t])
  BY <1>2 DEF Ahead
<1>4. rivals[t] \ Ahead(idx[t]) \subseteq rivals'[t] \ Ahead(idx[t])'
  BY <1>3 DEF Ahead
<1>5. IsFiniteSet(rivals'[t] \ Ahead(idx[t])')
  BY FS_Subset
<1>6. /\ Cardinality(rivals[t] \ Ahead(idx[t])) <= Cardinality(rivals'[t] \ Ahead(idx[t])')
      /\ Cardinality(rivals[t] \ Ahead(idx[t])) \in Nat
      /\ Cardinality(rivals'[t] \ Ahead(idx[t])') \in Nat
  BY <1>4, <1>5, MoreOf
<1>7. Cardinality(rivals[t] \ Ahead(idx[t])) >= idx[t] - 1
  BY DEF Crowd
<1>8. QED
  BY <1>1, <1>6, <1>7

\* The scan passes a taken slot: the owner is one rival more that is not before it.
LEMMA CrowdWhenPassed ==
  ASSUME UniqueInv, NEW t \in Threads, Crowd(t), pc[t] = "null", threads[idx[t]] # NoThread
  PROVE  Cardinality(rivals[t] \ Ahead(idx[t] + 1)) >= idx[t]
<1> DEFINE i == idx[t]
           o == threads[i]
<1>1. i \in Slots /\ i \in Nat /\ i >= 1 /\ i <= N /\ N \in Nat
  BY SlotsAssumption DEF UniqueInv, TypeOK, Slots
<1>2. o \in Owners
  BY <1>1 DEF Owners
<1>3. o \in rivals[t] /\ o \in Ahead(i)
  BY <1>1, <1>2 DEF Crowd, Ahead
<1>4. o \notin Ahead(i + 1)
  <2>1. \A j \in (i + 1)..N : j \in Slots /\ j # i
    BY <1>1 DEF Slots
  <2>2. QED
    BY <1>1, <2>1 DEF UniqueInv, SlotUnique, Ahead
<1>5. Ahead(i + 1) \subseteq Ahead(i)
  <2>1. \A j \in (i + 1)..N : j \in i..N
    BY <1>1
  <2>2. QED
    BY <2>1 DEF Ahead
<1> HIDE DEF i, o
<1> DEFINE A == rivals[t] \ Ahead(i)
           B == rivals[t] \ Ahead(i + 1)
<1>6. IsFiniteSet(rivals[t]) /\ Cardinality(A) >= i - 1
  BY DEF Crowd, i
<1>7. IsFiniteSet(A) /\ IsFiniteSet(B) /\ A \cup {o} \subseteq B /\ o \notin A
  BY <1>3, <1>4, <1>5, <1>6, FS_Subset
<1> HIDE DEF A, B
<1>8. Cardinality(A \cup {o}) = Cardinality(A) + 1 /\ Cardinality(A) \in Nat
  BY <1>7, FS_AddElement, FS_CardinalityType
<1>9. Cardinality(A \cup {o}) <= Cardinality(B) /\ Cardinality(B) \in Nat
  BY <1>7, MoreOf
<1>10. Cardinality(B) >= i
  BY <1>1, <1>6, <1>8, <1>9
<1>11. QED
  BY <1>10 DEF B, i

\* Another thread claims slot k.  Behind the scan this changes nothing before it.  Before
\* the scan the claimer either is a new rival, or it has met k - 1 rivals that it left behind
\* slot k, of which at most k - i own a slot between.
LEMMA CrowdWhenClaimed ==
  ASSUME UniqueInv, CrowdInv, NEW t \in Threads, NEW u \in Threads, t # u, Claims(u),
         pc[t] = "null", idx'[t] = idx[t],
         rivals'[t] = rivals[t] \cup Owners', IsFiniteSet(rivals'[t])
  PROVE  Cardinality(rivals'[t] \ Ahead(idx[t])') >= idx'[t] - 1
<1> DEFINE i == idx[t]
           k == idx[u]
           F == {threads'[j] : j \in i..N} \ {NoThread}
           R == rivals'[t]
<1>1. /\ i \in Slots /\ i \in Nat /\ i >= 1 /\ i <= N /\ N \in Nat
      /\ k \in Slots /\ k \in Nat /\ k >= 1 /\ k <= N
      /\ threads \in [Slots -> Threads \cup {NoThread}]
  BY SlotsAssumption DEF UniqueInv, TypeOK, Slots, Claims
<1>2. /\ pc[u] = "null" /\ threads[k] = NoThread /\ threads' = [threads EXCEPT ![k] = u]
  BY DEF Claims
<1>3. Ahead(idx[t])' = F /\ idx'[t] = i
  BY DEF Ahead
<1>4. u \in Owners' /\ u \notin Owners
  <2>1. threads'[k] = u /\ u # NoThread
    BY <1>1, <1>2, ThreadsAssumption
  <2>2. QED
    BY <1>1, <1>2, <2>1, ScannerOwnsNone DEF Owners
<1>5. /\ IsFiniteSet(rivals[t]) /\ Cardinality(rivals[t] \ Ahead(i)) >= i - 1
      /\ IsFiniteSet(rivals[u]) /\ Cardinality(rivals[u] \ Ahead(k)) >= k - 1
      /\ u \notin rivals[u]
  BY <1>2 DEF CrowdInv, Crowd
<1>6. \A j \in Slots : threads'[j] = IF j = k THEN u ELSE threads[j]
  BY <1>1, <1>2
<1>7. \A j : j \in i..N \/ j \in k..N => j \in Slots
  BY <1>1 DEF Slots
<1>8. u \in R /\ rivals[t] \subseteq R /\ IsFiniteSet(R \ F)
  BY <1>4, FS_Subset
<1> HIDE DEF i, k, F, R
<1>9. F \subseteq Ahead(i) \cup {u}
  BY <1>6, <1>7 DEF F, Ahead
<1>10. CASE u \notin rivals[t]
  <2>1. rivals[t] \ Ahead(i) \subseteq R \ F
    BY <1>8, <1>9, <1>10
  <2>2. /\ Cardinality(rivals[t] \ Ahead(i)) <= Cardinality(R \ F)
        /\ Cardinality(rivals[t] \ Ahead(i)) \in Nat /\ Cardinality(R \ F) \in Nat
    BY <1>8, <2>1, MoreOf
  <2>3. QED
    BY <1>1, <1>3, <1>5, <2>2 DEF R
<1>11. CASE u \in rivals[t] /\ k < i
  <2>1. F \subseteq Ahead(i)
    <3>1. \A j \in i..N : j # k
      BY <1>1, <1>11
    <3>2. QED
      BY <1>6, <1>7, <3>1 DEF F, Ahead
  <2>2. rivals[t] \ Ahead(i) \subseteq R \ F
    BY <1>8, <2>1
  <2>3. /\ Cardinality(rivals[t] \ Ahead(i)) <= Cardinality(R \ F)
        /\ Cardinality(rivals[t] \ Ahead(i)) \in Nat /\ Cardinality(R \ F) \in Nat
    BY <1>8, <2>2, MoreOf
  <2>4. QED
    BY <1>1, <1>3, <1>5, <2>3 DEF R
<1>12. CASE u \in rivals[t] /\ k >= i
  <2> DEFINE X == rivals[u] \ Ahead(k)
             S == {threads[j] : j \in i..(k - 1)}
  <2>1. k - 1 \in Nat /\ k - i \in Nat /\ i <= (k - 1) + 1 /\ (k - 1) - i + 1 = k - i
    BY <1>1, <1>12
  <2>2. IsFiniteSet(S) /\ Cardinality(S) <= k - i
    BY <1>1, <2>1, SegmentOwners
  <2>3. IsFiniteSet(X) /\ Cardinality(X) >= k - 1
    BY <1>5, FS_Subset
  <2>4. X \ S \subseteq R \ F
    <3>1. rivals[u] \subseteq rivals[t]
      BY <1>2, <1>12 DEF CrowdInv, Later
    <3>2. \A j \in i..N : j \in i..(k - 1) \/ j = k \/ j \in k..N
      BY <1>1, <1>12
    <3>3. F \subseteq S \cup {u} \cup Ahead(k)
      BY <1>6, <1>7, <3>2 DEF F, Ahead
    <3>4. QED
      BY <1>5, <1>8, <3>1, <3>3
  <2> HIDE DEF X, S
  <2>5. IsFiniteSet(X \ S) /\ Cardinality(X \ S) \in Nat /\ Cardinality(X \ S) >= Cardinality(X) - (k - i)
    BY <2>1, <2>2, <2>3, AllBut
  <2>6. Cardinality(X \ S) <= Cardinality(R \ F) /\ Cardinality(R \ F) \in Nat
    BY <1>8, <2>4, MoreOf
  <2>7. Cardinality(X) \in Nat
    BY <2>3, FS_CardinalityType
  <2>8. Cardinality(R \ F) >= i - 1
    BY <1>1, <2>3, <2>5, <2>6, <2>7
  <2>9. QED
    BY <1>3, <2>8 DEF R
<1>13. QED
  BY <1>1, <1>10, <1>11, <1>12

-----------------------------------------------------------------------------
(* The invariant and the theorem.                                          *)

\* Every step keeps the invariant.
LEMMA CrowdStep ==
  ASSUME UniqueInv, UniqueInv', CrowdInv, MCNext
  PROVE  CrowdInv'
<1>1. TypeOK /\ TypeOK' /\ [Next]_vars
  BY DEF UniqueInv, MCNext
<1>2. /\ Owners \subseteq Threads /\ Owners' \subseteq Threads
      /\ threads' = threads => Owners' = Owners
  BY <1>1 DEF TypeOK, Owners
<1>3. rivals \in [Threads -> SUBSET Threads]
  BY DEF CrowdInv
<1>4. \A t \in Threads :
        /\ rivals'[t] \subseteq Threads
        /\ pc'[t] = "null" =>
             /\ pc[t] = "null" => rivals'[t] = rivals[t] \cup Owners'
             /\ pc[t] # "null" => rivals'[t] = Owners \cup Owners'
  BY <1>2, <1>3 DEF MCNext, Observe
<1>5. rivals' \in [Threads -> SUBSET Threads]
  BY <1>2, <1>3, <1>4 DEF MCNext, Observe
<1>6. IsFiniteSet(Owners) /\ IsFiniteSet(Owners')
  <2>1. IsFiniteSet(Owners)
    BY OwnersFinite
  <2>2. IsFiniteSet(Owners)'
    BY OwnersFinite, PTL
  <2>3. QED
    BY <2>1, <2>2
<1>7. \A t \in Threads : pc'[t] = "null" => t \notin Owners'
  BY DEF UniqueInv, SearchedInVain, Owners
<1>8. /\ \/ \A j \in Slots : threads'[j] \in {threads[j], NoThread}
         \/ \E u \in Threads : Claims(u)
      /\ \A t \in Threads : pc'[t] = "null" =>
           \/ pc[t] # "null" /\ idx'[t] = 1 /\ threads' = threads
           \/ pc[t] = "null" /\ idx'[t] = idx[t]
           \/ /\ pc[t] = "null" /\ threads' = threads
              /\ idx[t] < N /\ idx'[t] = idx[t] + 1 /\ threads[idx[t]] # NoThread
  BY <1>1, OwnersAfter
<1>9. ASSUME NEW t \in Threads, pc'[t] = "null"
      PROVE  /\ IsFiniteSet(rivals'[t]) /\ Owners' \subseteq rivals'[t] /\ t \notin rivals'[t]
             /\ pc[t] = "null" => Crowd(t) /\ Owners \subseteq rivals[t]
  <2>1. pc[t] = "null" => /\ Crowd(t) /\ IsFiniteSet(rivals[t])
                          /\ Owners \subseteq rivals[t] /\ t \notin rivals[t]
    BY DEF CrowdInv, Crowd
  <2>2. pc[t] # "null" => Owners' = Owners
    BY <1>2, <1>8, <1>9
  <2>3. IsFiniteSet(rivals'[t])
    BY <1>4, <1>6, <1>9, <2>1, FS_Union
  <2>4. QED
    BY <1>4, <1>7, <1>9, <2>1, <2>2, <2>3
<1>10. ASSUME NEW t \in Threads, pc'[t] = "null"
       PROVE  Cardinality(rivals'[t] \ Ahead(idx[t])') >= idx'[t] - 1
  <2>1. CASE pc[t] # "null" /\ idx'[t] = 1
    <3>1. Cardinality(rivals'[t] \ Ahead(idx[t])') \in Nat
      BY <1>9, <1>10, FS_Subset, FS_CardinalityType
    <3>2. QED
      BY <2>1, <3>1
  <2>2. CASE pc[t] = "null" /\ idx'[t] = idx[t]
    <3>1. rivals'[t] = rivals[t] \cup Owners' /\ rivals[t] \subseteq rivals'[t]
      BY <1>4, <1>10, <2>2
    <3>2. CASE \A j \in Slots : threads'[j] \in {threads[j], NoThread}
      BY <1>1, <1>9, <1>10, <2>2, <3>1, <3>2, CrowdWhenFreed
    <3>3. ASSUME NEW u \in Threads, Claims(u)
          PROVE  Cardinality(rivals'[t] \ Ahead(idx[t])') >= idx'[t] - 1
      <4>1. t # u
        BY <1>10, <3>3 DEF Claims
      <4>2. QED
        BY <1>9, <1>10, <2>2, <3>1, <3>3, <4>1, CrowdWhenClaimed
    <3>4. QED
      BY <1>8, <3>2, <3>3
  <2>3. CASE /\ pc[t] = "null" /\ threads' = threads
             /\ idx[t] < N /\ idx'[t] = idx[t] + 1 /\ threads[idx[t]] # NoThread
    <3>1. rivals'[t] = rivals[t]
      BY <1>2, <1>4, <1>9, <1>10, <2>3
    <3>2. Ahead(idx[t])' = Ahead(idx[t] + 1)
      BY <2>3 DEF Ahead
    <3>3. Cardinality(rivals[t] \ Ahead(idx[t] + 1)) >= idx[t]
      BY <1>9, <1>10, <2>3, CrowdWhenPassed
    <3>4. idx[t] \in Nat
      BY <1>1, SlotsAssumption DEF TypeOK, Slots
    <3>5. idx'[t] - 1 = idx[t]
      BY <2>3, <3>4
    <3>6. QED
      BY <3>1, <3>2, <3>3, <3>5
  <2>4. QED
    BY <1>8, <1>10, <2>1, <2>2, <2>3
<1>11. \A t \in Threads : Crowd(t)'
  BY <1>9, <1>10 DEF Crowd
<1>12. ASSUME NEW t \in Threads, NEW u \in Threads,
              pc'[t] = "null", pc'[u] = "null", u \in rivals'[t]
       PROVE  rivals'[u] \subseteq rivals'[t]
  <2>1. u \notin Owners'
    BY <1>7, <1>12
  <2>2. pc[t] = "null"
    BY <1>2, <1>4, <1>8, <1>12, <2>1
  <2>3. rivals'[t] = rivals[t] \cup Owners' /\ Owners \subseteq rivals[t]
    BY <1>4, <1>9, <1>12, <2>2
  <2>4. CASE pc[u] = "null"
    <3>1. rivals[u] \subseteq rivals[t]
      BY <1>12, <2>1, <2>2, <2>3, <2>4 DEF CrowdInv, Later
    <3>2. rivals'[u] = rivals[u] \cup Owners'
      BY <1>4, <1>12, <2>4
    <3>3. QED
      BY <2>3, <3>1, <3>2
  <2>5. CASE pc[u] # "null"
    BY <1>4, <1>12, <2>3, <2>5
  <2>6. QED
    BY <2>4, <2>5
<1>13. Later'
  BY <1>12 DEF Later
<1>14. QED
  BY <1>5, <1>11, <1>13 DEF CrowdInv

\* A set is refused at the last slot, when that one is taken too.
LEMMA RefusedAtLast ==
  ASSUME TypeOK, Next, NEW t \in Threads, pc[t] = "null", pc'[t] = "idle"
  PROVE  idx[t] = N /\ threads[idx[t]] # NoThread
<1> USE DEF TypeOK
<1>1. ASSUME NEW u \in Threads, Begin(u)
      PROVE  FALSE
  BY <1>1 DEF Begin, SetBegin, GetBegin, Deref, EraseBegin, MayCall, Goto
<1>2. ASSUME NEW u \in Threads, SetOwn(u) \/ SetInsert(u) \/ GetScan(u)
      PROVE  FALSE
  BY <1>2 DEF SetOwn, SetInsert, GetScan, Goto, Return
<1>3. ASSUME NEW u \in Threads, EraseScan(u) \/ EraseClear(u) \/ EraseRelease(u)
      PROVE  FALSE
  BY <1>3 DEF EraseScan, EraseClear, EraseRelease, Goto, Return
<1>4. ASSUME NEW u \in Threads, SetNull(u)
      PROVE  idx[t] = N /\ threads[idx[t]] # NoThread
  BY <1>4 DEF SetNull, Goto, Return
<1>5. CASE Deinit
  BY <1>5 DEF Deinit, DeinitBegin, DeinitOwner, DeinitValue
<1>6. QED
  BY <1>1, <1>2, <1>3, <1>4, <1>5 DEF Next, Step

\* Then all the N slots lie behind the scan.
LEMMA RefusedCrowd ==
  ASSUME UniqueInv, NEW t \in Threads, Crowd(t), pc[t] = "null",
         idx[t] = N, threads[idx[t]] # NoThread
  PROVE  Cardinality(rivals[t]) >= N
<1>1. Cardinality(rivals[t] \ Ahead(N + 1)) >= N
  BY CrowdWhenPassed
<1>2. IsFiniteSet(rivals[t]) /\ rivals[t] \ Ahead(N + 1) \subseteq rivals[t]
  BY DEF Crowd
<1>3. /\ Cardinality(rivals[t] \ Ahead(N + 1)) <= Cardinality(rivals[t])
      /\ Cardinality(rivals[t] \ Ahead(N + 1)) \in Nat /\ Cardinality(rivals[t]) \in Nat
  BY <1>2, MoreOf
<1>4. QED
  BY <1>1, <1>3, SlotsAssumption

\* One step of the property.
RefusalStep ==
  \A t \in Threads : pc[t] = "null" /\ pc'[t] = "idle" => Cardinality(rivals[t]) >= N

\* A set that finds no slot has met at least N other threads that owned one while it
\* looked: it is never refused while slots were free for it all along.
THEOREM RefusedUnderCrowding == MCSpec => RefusedOnlyUnderCrowding
<1>1. MCInit => CrowdInv
  BY DEF MCInit, Init, CrowdInv, Crowd, Later
<1>2. UniqueInv /\ UniqueInv' /\ CrowdInv /\ [MCNext]_<<vars, rivals>> => CrowdInv'
  <2> SUFFICES ASSUME UniqueInv, UniqueInv', CrowdInv, [MCNext]_<<vars, rivals>>
               PROVE  CrowdInv'
    OBVIOUS
  <2>1. CASE MCNext
    BY <2>1, CrowdStep
  <2>2. CASE UNCHANGED <<vars, rivals>>
    BY <2>2 DEF vars, CrowdInv, Crowd, Later, Ahead, Owners
  <2>3. QED
    BY <2>1, <2>2
<1>3. UniqueInv /\ CrowdInv /\ [MCNext]_<<vars, rivals>> => [RefusalStep]_<<vars, rivals>>
  <2> SUFFICES ASSUME UniqueInv, CrowdInv, MCNext, NEW t \in Threads,
                      pc[t] = "null", pc'[t] = "idle"
               PROVE  Cardinality(rivals[t]) >= N
    BY DEF RefusalStep
  <2>1. idx[t] = N /\ threads[idx[t]] # NoThread
    BY RefusedAtLast DEF UniqueInv, MCNext
  <2>2. Crowd(t)
    BY DEF CrowdInv
  <2>3. QED
    BY <2>1, <2>2, RefusedCrowd
<1>4. MCInit => Init
  BY DEF MCInit
<1>5. [MCNext]_<<vars, rivals>> => [Next]_vars
  BY DEF MCNext
<1>6. MCSpec => []UniqueInv
  BY <1>4, <1>5, UniqueInvariant, PTL DEF MCSpec, Spec
<1>7. MCSpec => [][RefusalStep]_<<vars, rivals>>
  BY <1>1, <1>2, <1>3, <1>6, PTL DEF MCSpec
<1>8. QED
  BY <1>7 DEF RefusedOnlyUnderCrowding, RefusalStep

=============================================================================
