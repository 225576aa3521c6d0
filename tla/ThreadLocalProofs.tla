------------------------- MODULE ThreadLocalProofs -------------------------
(***************************************************************************)
(* The safety properties of ThreadLocal, for every set of threads, every   *)
(* value set and every number of slots.                                    *)
(***************************************************************************)
EXTENDS ThreadLocal, FiniteSetTheorems, FunctionTheorems, TLAPS

\* The loops start at a slot, advance to a slot, and have no slot between two others.
LEMMA SlotFacts ==
  /\ 1 \in Slots
  /\ \A i \in Slots : i # N => i + 1 \in Slots
  /\ \A i \in Slots : i < N => i + 1 \in Slots
  /\ \A i, j \in Slots : j < i + 1 => j < i \/ j = i
  /\ \A i \in Slots : i # 0 /\ ~(i < 1) /\ (i = N \/ i < N)
BY SlotsAssumption DEF Slots

\* Entering a loop, or advancing it, keeps the labels and the loop variables typed.
LEMMA GotoTyped ==
  ASSUME NEW t \in Threads, NEW label \in Labels, NEW i \in Slots,
         pc \in [Threads -> Labels], idx \in [Threads -> Slots], Goto(t, label, i)
  PROVE  pc' \in [Threads -> Labels] /\ idx' \in [Threads -> Slots]
BY DEF Goto

\* So does returning, which also keeps the replies typed.
LEMMA ReturnTyped ==
  ASSUME NEW t \in Threads, NEW r \in Replies, TypeOK, Return(t, r)
  PROVE  /\ pc' \in [Threads -> Labels] /\ idx' \in [Threads -> Slots]
         /\ reply' \in [Threads -> Replies]
<1>1. "idle" \in Labels
  BY DEF Labels
<1>2. pc' \in [Threads -> Labels] /\ idx' \in [Threads -> Slots]
  BY <1>1, SlotFacts, GotoTyped DEF Return, TypeOK
<1>3. QED
  BY <1>2 DEF Return, TypeOK

\* Every variable of a ThreadLocal keeps its type: the loop variables of set, get, erase
\* and deinit never leave the arrays.
THEOREM TypeCorrect == Spec => []TypeOK
<1> USE SlotFacts
<1>0. /\ {"none", "ok", "refused", "found"} \subseteq Replies
      /\ \A v \in Values \cup {Empty} : v \in Replies
      /\ {"idle", "own", "null", "insert", "get", "erase", "clear", "release"} \subseteq Labels
  BY DEF Replies, Labels
<1>1. Init => TypeOK
  BY DEF Init, TypeOK, Labels, Replies
<1>2. TypeOK /\ [Next]_vars => TypeOK'
  <2> SUFFICES ASSUME TypeOK, [Next]_vars
               PROVE  TypeOK'
    OBVIOUS
  <2> USE <1>0, GotoTyped, ReturnTyped DEF TypeOK
  <2>1. ASSUME NEW t \in Threads, NEW v \in Values, SetBegin(t, v)
        PROVE  TypeOK'
    BY <2>1 DEF SetBegin
  <2>2. ASSUME NEW t \in Threads, GetBegin(t) \/ EraseBegin(t)
        PROVE  TypeOK'
    BY <2>2 DEF GetBegin, EraseBegin
  <2>3. ASSUME NEW t \in Threads, Deref(t)
        PROVE  TypeOK'
    BY <2>3 DEF Deref
  <2>4. ASSUME NEW t \in Threads, SetOwn(t)
        PROVE  TypeOK'
    BY <2>4 DEF SetOwn
  <2>5. ASSUME NEW t \in Threads, SetNull(t)
        PROVE  TypeOK'
    BY <2>5 DEF SetNull
  <2>6. ASSUME NEW t \in Threads, SetInsert(t)
        PROVE  TypeOK'
    BY <2>6 DEF SetInsert
  <2>7. ASSUME NEW t \in Threads, GetScan(t)
        PROVE  TypeOK'
    BY <2>7 DEF GetScan
  <2>8. ASSUME NEW t \in Threads, EraseScan(t)
        PROVE  TypeOK'
    BY <2>8 DEF EraseScan
  <2>9. ASSUME NEW t \in Threads, EraseClear(t)
        PROVE  TypeOK'
    BY <2>9 DEF EraseClear
  <2>10. ASSUME NEW t \in Threads, EraseRelease(t)
        PROVE  TypeOK'
    BY <2>10 DEF EraseRelease
  <2>11. CASE Deinit
    BY <2>11 DEF Deinit, DeinitBegin, DeinitOwner, DeinitValue
  <2>12. CASE UNCHANGED vars
    BY <2>12 DEF vars
  <2>13. QED
    BY <2>1, <2>2, <2>3, <2>4, <2>5, <2>6, <2>7, <2>8, <2>9, <2>10, <2>11, <2>12
       DEF Next, Begin, Step
<1>3. QED
  BY <1>1, <1>2, PTL DEF Spec

-----------------------------------------------------------------------------
(* Slot uniqueness.  It is not inductive by itself: a thread that claims a slot must  *)
(* be known to own none, which is what its finished search has established.           *)

\* What a thread inside set has found out: the slots it has passed are not its own.
SearchedInVain(t) ==
  /\ pc[t] = "own" => \A j \in Slots : j < idx[t] => threads[j] # t
  /\ pc[t] = "null" => \A j \in Slots : threads[j] # t

UniqueInv == TypeOK /\ SlotUnique /\ \A t \in Threads : SearchedInVain(t)

\* A step of thread t leaves what another thread u has found out: only t's own identity
\* is ever stored.
LEMMA OthersUndisturbed ==
  ASSUME NEW t \in Threads, NEW u \in Threads, t # u, TypeOK, SearchedInVain(u),
         pc'[u] = pc[u], idx'[u] = idx[u],
         \A i \in Slots : threads'[i] \in {threads[i], t, NoThread}
  PROVE  SearchedInVain(u)'
BY ThreadsAssumption DEF SearchedInVain, TypeOK

\* UniqueInv holds whatever the calls and deinit interleave.
LEMMA UniqueInvariant == Spec => []UniqueInv
<1> USE SlotFacts, ThreadsAssumption
<1>1. Init => UniqueInv
  BY DEF Init, UniqueInv, TypeOK, SlotUnique, SearchedInVain, Labels, Replies
<1>2. UniqueInv /\ TypeOK' /\ [Next]_vars => UniqueInv'
  <2> SUFFICES ASSUME UniqueInv, TypeOK', [Next]_vars
               PROVE  UniqueInv'
    OBVIOUS
  <2> USE DEF UniqueInv
  <2>1. ASSUME NEW t \in Threads, Begin(t) \/ Step(t)
        PROVE  /\ SlotUnique'
               /\ SearchedInVain(t)'
               /\ \A i \in Slots : threads'[i] \in {threads[i], t, NoThread}
               /\ \A u \in Threads \ {t} : pc'[u] = pc[u] /\ idx'[u] = idx[u]
    <3> USE DEF TypeOK, SlotUnique, SearchedInVain, Goto, Return
    <3>1. CASE Begin(t)
      BY <3>1 DEF Begin, SetBegin, GetBegin, Deref, EraseBegin, MayCall
    <3>2. CASE SetOwn(t)
      BY <3>2 DEF SetOwn
    <3>3. CASE SetNull(t)
      BY <3>3 DEF SetNull
    <3>4. CASE SetInsert(t)
      BY <3>4 DEF SetInsert
    <3>5. CASE GetScan(t)
      BY <3>5 DEF GetScan
    <3>6. CASE EraseScan(t)
      BY <3>6 DEF EraseScan
    <3>7. CASE EraseClear(t)
      BY <3>7 DEF EraseClear
    <3>8. CASE EraseRelease(t)
      BY <3>8 DEF EraseRelease
    <3>9. QED
      BY <2>1, <3>1, <3>2, <3>3, <3>4, <3>5, <3>6, <3>7, <3>8 DEF Step
  <2>2. CASE \E t \in Threads : Begin(t) \/ Step(t)
    <3>1. PICK t \in Threads : Begin(t) \/ Step(t)
      BY <2>2
    <3>2. \A u \in Threads \ {t} : SearchedInVain(u)'
      BY <2>1, <3>1, OthersUndisturbed
    <3>3. QED
      BY <2>1, <3>1, <3>2
  <2>3. CASE Deinit
    BY <2>3 DEF Deinit, DeinitBegin, DeinitOwner, DeinitValue, TypeOK, SlotUnique,
                SearchedInVain
  <2>4. CASE UNCHANGED vars
    BY <2>4 DEF vars, SlotUnique, SearchedInVain
  <2>5. QED
    BY <2>2, <2>3, <2>4 DEF Next
<1>3. QED
  BY <1>1, <1>2, TypeCorrect, PTL DEF Spec

\* No thread ever owns two slots, whatever the calls and deinit interleave.
THEOREM SlotsAreUnique == Spec => []SlotUnique
<1>1. UniqueInv => SlotUnique
  BY DEF UniqueInv
<1>2. QED
  BY <1>1, UniqueInvariant, PTL

-----------------------------------------------------------------------------
(* Isolation, when deinit is kept apart from the calls.  The invariant adds that the  *)
(* pointer is gone before the slot is given up, that a slot about to be freed is      *)
(* empty already, and that nobody is inside a call while deinit runs.                 *)

Access(t) ==
  /\ pc[t] \in {"insert", "clear", "release"} => Owns(t, idx[t])
  /\ gotPtr[t] # 0 => Owns(t, gotPtr[t])
  /\ pc[t] \in {"erase", "clear", "release"} => gotPtr[t] = 0
  /\ pc[t] = "release" => values[idx[t]] = Empty

DeinitRunsAlone ==
  dslot # 0 => \A t \in Threads : pc[t] = "idle" /\ gotPtr[t] = 0

FreeAndEmpty ==
  \A i \in Slots :
    threads[i] = NoThread => values[i] = Empty \/ (dslot = i /\ dnext = "value")

AccessInv ==
  TypeOK /\ (DeinitAlone => (\A t \in Threads : Access(t)) /\ DeinitRunsAlone /\ FreeAndEmpty)

\* A step of thread t that touches only free slots and slots t owns leaves the access of
\* another thread u alone.
LEMMA AccessUndisturbed ==
  ASSUME NEW t \in Threads, NEW u \in Threads, t # u, TypeOK, Access(u),
         pc'[u] = pc[u], idx'[u] = idx[u], gotPtr'[u] = gotPtr[u],
         \A i \in Slots : threads[i] = u => threads'[i] = u /\ values'[i] = values[i]
  PROVE  Access(u)'
BY DEF Access, Owns, TypeOK

\* With deinit kept apart, AccessInv holds in every reachable state.
LEMMA AccessInvariant == Spec => []AccessInv
<1> USE SlotFacts, ThreadsAssumption
<1>1. Init => AccessInv
  <2>1. Init => TypeOK
    BY DEF Init, TypeOK, Labels, Replies
  <2>2. QED
    BY <2>1 DEF Init, AccessInv, TypeOK, Access, DeinitRunsAlone, FreeAndEmpty
<1>2. AccessInv /\ TypeOK' /\ [Next]_vars => AccessInv'
  <2> SUFFICES ASSUME AccessInv, TypeOK', [Next]_vars, DeinitAlone
               PROVE  (\A t \in Threads : Access(t)') /\ DeinitRunsAlone' /\ FreeAndEmpty'
    BY DEF AccessInv
  <2> USE DEF AccessInv
  <2>1. ASSUME NEW t \in Threads, Begin(t) \/ Step(t)
        PROVE  /\ Access(t)' /\ DeinitRunsAlone' /\ FreeAndEmpty'
               /\ \A u \in Threads \ {t} :
                    /\ pc'[u] = pc[u] /\ idx'[u] = idx[u] /\ gotPtr'[u] = gotPtr[u]
                    /\ \A i \in Slots :
                         threads[i] = u => threads'[i] = u /\ values'[i] = values[i]
    <3> USE DEF TypeOK, Access, Owns, DeinitRunsAlone, FreeAndEmpty, Goto, Return
    <3>1. CASE Begin(t)
      BY <3>1 DEF Begin, SetBegin, GetBegin, Deref, EraseBegin, MayCall
    <3>2. CASE SetOwn(t)
      BY <3>2 DEF SetOwn
    <3>3. CASE SetNull(t)
      BY <3>3 DEF SetNull
    <3>4. CASE SetInsert(t)
      BY <3>4 DEF SetInsert
    <3>5. CASE GetScan(t)
      BY <3>5 DEF GetScan
    <3>6. CASE EraseScan(t)
      BY <3>6 DEF EraseScan
    <3>7. CASE EraseClear(t)
      BY <3>7 DEF EraseClear
    <3>8. CASE EraseRelease(t)
      BY <3>8 DEF EraseRelease
    <3>9. QED
      BY <2>1, <3>1, <3>2, <3>3, <3>4, <3>5, <3>6, <3>7, <3>8 DEF Step
  <2>2. CASE \E t \in Threads : Begin(t) \/ Step(t)
    <3>1. PICK t \in Threads : Begin(t) \/ Step(t)
      BY <2>2
    <3>2. \A u \in Threads \ {t} : Access(u)'
      BY <2>1, <3>1, AccessUndisturbed
    <3>3. QED
      BY <2>1, <3>1, <3>2
  <2>3. CASE DeinitBegin
    BY <2>3 DEF DeinitBegin, TypeOK, Access, Owns, DeinitRunsAlone, FreeAndEmpty
  <2>4. CASE DeinitOwner
    BY <2>4 DEF DeinitOwner, TypeOK, Access, Owns, DeinitRunsAlone, FreeAndEmpty
  <2>5. CASE DeinitValue
    BY <2>5 DEF DeinitValue, TypeOK, Access, Owns, DeinitRunsAlone, FreeAndEmpty
  <2>6. CASE UNCHANGED vars
    BY <2>6 DEF vars, Access, Owns, DeinitRunsAlone, FreeAndEmpty
  <2>7. QED
    BY <2>2, <2>3, <2>4, <2>5, <2>6 DEF Next, Deinit
<1>3. QED
  BY <1>1, <1>2, TypeCorrect, PTL DEF Spec

\* A thread stores in, empties and reads its own slot only.
THEOREM AccessIsOwn == Spec => []OwnAccess
<1>1. AccessInv => OwnAccess
  BY DEF AccessInv, Access, OwnAccess
<1>2. QED
  BY <1>1, AccessInvariant, PTL

\* A slot that changes hands carries nothing from its last owner to the next.
THEOREM FreeSlotsAreEmpty == Spec => []FreeSlotEmpty
<1>1. AccessInv => FreeSlotEmpty
  BY DEF AccessInv, FreeAndEmpty, FreeSlotEmpty
<1>2. QED
  BY <1>1, AccessInvariant, PTL

\* Only the owner's erase, or deinit, takes a slot from a thread, deinit in the middle of
\* calls included.
THEOREM NobodyEvicts == Spec => NoEviction
<1>1. ASSUME TypeOK, [Next]_vars, NEW i \in Slots,
             threads[i] # NoThread, threads'[i] # threads[i]
      PROVE  \/ DeinitOwner /\ dslot = i
             \/ \E t \in Threads : Owns(t, i) /\ EraseRelease(t) /\ idx[t] = i
  <2> USE <1>1 DEF TypeOK
  <2>1. ~ UNCHANGED threads
    OBVIOUS
  <2>2. CASE Deinit
    BY <2>1, <2>2 DEF Deinit, DeinitBegin, DeinitOwner, DeinitValue
  <2>3. ASSUME NEW t \in Threads, Begin(t) \/ Step(t)
        PROVE  Owns(t, i) /\ EraseRelease(t) /\ idx[t] = i
    <3>1. SetNull(t) \/ EraseRelease(t)
      BY <2>1, <2>3 DEF Begin, Step, SetBegin, GetBegin, Deref, EraseBegin, SetOwn,
                        SetInsert, GetScan, EraseScan, EraseClear
    <3>2. ~ SetNull(t)
      BY DEF SetNull
    <3>3. QED
      BY <3>1, <3>2 DEF EraseRelease, Owns
  <2>4. QED
    BY <2>1, <2>2, <2>3 DEF Next, vars
<1>2. TypeOK /\ [Next]_vars =>
        [\A i \in Slots : threads[i] # NoThread /\ threads'[i] # threads[i] =>
           \/ DeinitOwner /\ dslot = i
           \/ \E t \in Threads : Owns(t, i) /\ EraseRelease(t) /\ idx[t] = i]_vars
  BY <1>1
<1>3. QED
  BY <1>2, TypeCorrect, PTL DEF Spec, NoEviction

-----------------------------------------------------------------------------
(* Wait-freedom, the safety half of CallsReturn: what is left of a call is bounded    *)
(* from its beginning, whatever the other threads and deinit do meanwhile.            *)

\* The most steps that a thread at a label still has to take, with its loop at slot i.
Left(label, i) ==
  CASE label = "own" -> 2 * N + 2 - i
    [] label = "null" -> N + 2 - i
    [] label = "get" -> N + 1 - i
    [] label = "erase" -> N + 3 - i
    [] label = "clear" -> 2
    [] label \in {"insert", "release"} -> 1
    [] OTHER -> 0

StepsLeft(t) == Left(pc[t], idx[t])

\* The guards of Step(t): whatever is in the slot that t looks at, one of them holds.
CanStep(t) ==
  \/ pc[t] \in {"own", "get", "erase"} /\ (threads[idx[t]] = t \/ idx[t] < N \/ idx[t] = N)
  \/ pc[t] = "null" /\ (threads[idx[t]] = NoThread \/ idx[t] < N \/ idx[t] = N)
  \/ pc[t] \in {"insert", "clear", "release"}

Bounded ==
  \A t \in Threads :
    /\ StepsLeft(t) \in 0..(2 * N + 1)
    /\ pc[t] = "idle" <=> StepsLeft(t) = 0
    /\ pc[t] # "idle" => CanStep(t)

\* A thread in a call comes closer to its end by each step of its own, and no step of
\* another thread or of deinit throws it back.
Closer ==
  \A t \in Threads :
    pc[t] # "idle" => IF Step(t) THEN StepsLeft(t)' < StepsLeft(t)
                                 ELSE StepsLeft(t)' = StepsLeft(t)

\* What is left, label by label.
LEMMA LeftAt ==
  ASSUME NEW i
  PROVE  /\ Left("own", i) = 2 * N + 2 - i /\ Left("null", i) = N + 2 - i
         /\ Left("get", i) = N + 1 - i /\ Left("erase", i) = N + 3 - i
         /\ Left("clear", i) = 2 /\ Left("insert", i) = 1 /\ Left("release", i) = 1
         /\ Left("idle", i) = 0
BY DEF Left

\* A call of set takes at most 2N + 1 steps of its thread, one of get N and one of erase
\* N + 2; and a thread in a call can always take the next.
THEOREM CallsAreBounded == Spec => []Bounded
<1>1. TypeOK => Bounded
  <2> SUFFICES ASSUME TypeOK, NEW t \in Threads
               PROVE  /\ StepsLeft(t) \in 0..(2 * N + 1)
                      /\ pc[t] = "idle" <=> StepsLeft(t) = 0
                      /\ pc[t] # "idle" => CanStep(t)
    BY DEF Bounded
  <2>1. idx[t] \in 1..N /\ pc[t] \in Labels /\ N \in Nat \ {0}
    BY SlotsAssumption DEF TypeOK, Slots
  <2>2. QED
    BY <2>1, LeftAt DEF Labels, CanStep, StepsLeft
<1>2. QED
  BY <1>1, TypeCorrect, PTL

\* No call ever waits for another one, with deinit in the middle of calls too.
THEOREM CallsAreWaitFree == Spec => [][Closer]_vars
<1>1. TypeOK /\ [Next]_vars => [Closer]_vars
  <2> SUFFICES ASSUME TypeOK, Next, NEW t \in Threads, pc[t] # "idle"
               PROVE  IF Step(t) THEN StepsLeft(t)' < StepsLeft(t)
                                 ELSE StepsLeft(t)' = StepsLeft(t)
    BY DEF Closer
  <2>1. /\ idx[t] \in 1..N /\ N \in Nat \ {0} /\ t # NoThread
        /\ DOMAIN pc = Threads /\ DOMAIN idx = Threads
    BY SlotsAssumption, ThreadsAssumption DEF TypeOK, Slots
  <2>2. CASE Step(t)
    <3>1. ASSUME NEW label, NEW i, Goto(t, label, i)
          PROVE  StepsLeft(t)' = Left(label, i)
      BY <2>1, <3>1 DEF Goto, StepsLeft
    <3>2. ASSUME NEW r, Return(t, r)
          PROVE  StepsLeft(t)' = 0
      BY <3>1, <3>2, LeftAt DEF Return
    <3>3. StepsLeft(t)' < StepsLeft(t)
      <4> USE <2>1, <3>1, <3>2, LeftAt DEF StepsLeft
      <4>1. CASE SetOwn(t)
        BY <4>1 DEF SetOwn
      <4>2. CASE SetNull(t)
        BY <4>2 DEF SetNull
      <4>3. CASE SetInsert(t)
        BY <4>3 DEF SetInsert
      <4>4. CASE GetScan(t)
        BY <4>4 DEF GetScan
      <4>5. CASE EraseScan(t)
        BY <4>5 DEF EraseScan
      <4>6. CASE EraseClear(t)
        BY <4>6 DEF EraseClear
      <4>7. CASE EraseRelease(t)
        BY <4>7 DEF EraseRelease
      <4>8. QED
        BY <2>2, <4>1, <4>2, <4>3, <4>4, <4>5, <4>6, <4>7 DEF Step
    <3>4. QED
      BY <2>2, <3>3
  <2>3. CASE ~Step(t)
    <3>1. pc'[t] = pc[t] /\ idx'[t] = idx[t]
      <4>1. CASE Deinit
        BY <4>1 DEF Deinit, DeinitBegin, DeinitOwner, DeinitValue
      <4>2. ASSUME NEW u \in Threads, Begin(u) \/ Step(u)
            PROVE  pc'[t] = pc[t] /\ idx'[t] = idx[t]
        <5>1. Begin(u) => u # t
          BY DEF Begin, SetBegin, GetBegin, Deref, EraseBegin, MayCall
        <5>2. u # t
          BY <2>3, <4>2, <5>1
        <5>3. QED
          BY <4>2, <5>2 DEF Begin, Step, SetBegin, GetBegin, Deref, EraseBegin, SetOwn, SetNull,
                            SetInsert, GetScan, EraseScan, EraseClear, EraseRelease,
                            Goto, Return, TypeOK
      <4>3. QED
        BY <4>1, <4>2 DEF Next
    <3>2. QED
      BY <2>3, <3>1 DEF StepsLeft
  <2>4. QED
    BY <2>2, <2>3
<1>2. QED
  BY <1>1, TypeCorrect, PTL DEF Spec

-----------------------------------------------------------------------------
(* Refinement.  The slots of a thread stand for its binding in ThreadMap.  The        *)
(* invariant adds what a search has established and what an owned slot contains.      *)

\* What the map needs of its callers: deinit apart from the calls, and the value T{} of an
\* empty slot never stored, as UserPatcher's pointers are never null.
CallersKeepContract ==
  DeinitAlone /\ Empty \notin Values /\ "absent" \notin Values \cup {Empty}

Progress(t) ==
  /\ pc[t] \in {"get", "erase"} => \A j \in Slots : j < idx[t] => threads[j] # t
  /\ pc[t] \in {"own", "null", "insert"} => arg[t] \in Values
  /\ \A i \in Slots : Owns(t, i) /\ pc[t] \notin {"insert", "release"} => values[i] # Empty

DeinitFrees ==
  dslot # 0 =>
    /\ \A j \in Slots : j < dslot => threads[j] = NoThread
    /\ dnext = "value" => threads[dslot] = NoThread

MapInv == UniqueInv /\ AccessInv /\ (\A t \in Threads : Progress(t)) /\ DeinitFrees

\* A step of thread t that leaves the slots of u alone leaves what u knows alone.
LEMMA ProgressUndisturbed ==
  ASSUME NEW t \in Threads, NEW u \in Threads, t # u, TypeOK, Progress(u),
         pc'[u] = pc[u], idx'[u] = idx[u], arg'[u] = arg[u],
         \A i \in Slots : (threads[i] = u <=> threads'[i] = u)
                          /\ (threads[i] = u => values'[i] = values[i])
  PROVE  Progress(u)'
BY DEF Progress, Owns, TypeOK

\* A step of a thread changes neither the slots of the others nor what they are doing.
LEMMA FrameOfThread ==
  ASSUME MapInv, CallersKeepContract, NEW t \in Threads, Begin(t) \/ Step(t)
  PROVE  /\ dslot = 0 /\ dslot' = 0
         /\ \A u \in Threads \ {t} :
              /\ pc'[u] = pc[u] /\ idx'[u] = idx[u] /\ arg'[u] = arg[u] /\ reply'[u] = reply[u]
              /\ \A i \in Slots : (threads[i] = u <=> threads'[i] = u)
                                  /\ (threads[i] = u => values'[i] = values[i])
<1> USE ThreadsAssumption
    DEF MapInv, AccessInv, CallersKeepContract, TypeOK, Access, Owns, FreeAndEmpty,
        DeinitRunsAlone, Goto, Return
<1>1. CASE Begin(t)
  BY <1>1 DEF Begin, SetBegin, GetBegin, Deref, EraseBegin, MayCall
<1>2. CASE SetOwn(t)
  BY <1>2 DEF SetOwn
<1>3. CASE SetNull(t)
  BY <1>3 DEF SetNull
<1>4. CASE SetInsert(t)
  BY <1>4 DEF SetInsert
<1>5. CASE GetScan(t)
  BY <1>5 DEF GetScan
<1>6. CASE EraseScan(t)
  BY <1>6 DEF EraseScan
<1>7. CASE EraseClear(t)
  BY <1>7 DEF EraseClear
<1>8. CASE EraseRelease(t)
  BY <1>8 DEF EraseRelease
<1>9. QED
  BY <1>1, <1>2, <1>3, <1>4, <1>5, <1>6, <1>7, <1>8 DEF Step

\* What a thread knows of its own search, argument and slot.
LEMMA ProgressOfThread ==
  ASSUME MapInv, CallersKeepContract, NEW t \in Threads, Begin(t) \/ Step(t)
  PROVE  Progress(t)'
<1> USE SlotFacts, ThreadsAssumption
    DEF MapInv, UniqueInv, AccessInv, CallersKeepContract, TypeOK, Access, Progress, Owns,
        SlotUnique, Goto, Return
<1>1. CASE Begin(t)
  BY <1>1 DEF Begin, SetBegin, GetBegin, Deref, EraseBegin, MayCall
<1>2. CASE SetOwn(t)
  BY <1>2 DEF SetOwn
<1>3. CASE SetNull(t)
  BY <1>3 DEF SetNull, SearchedInVain
<1>4. CASE SetInsert(t)
  BY <1>4 DEF SetInsert
<1>5. CASE GetScan(t)
  BY <1>5 DEF GetScan
<1>6. CASE EraseScan(t)
  BY <1>6 DEF EraseScan
<1>7. CASE EraseClear(t)
  BY <1>7 DEF EraseClear
<1>8. CASE EraseRelease(t)
  BY <1>8 DEF EraseRelease
<1>9. QED
  BY <1>1, <1>2, <1>3, <1>4, <1>5, <1>6, <1>7, <1>8 DEF Step

\* The invariant of the refinement.
LEMMA MapInvariant == CallersKeepContract => (Spec => []MapInv)
<1> SUFFICES ASSUME CallersKeepContract
             PROVE  Spec => []MapInv
  OBVIOUS
<1>1. Init => (\A t \in Threads : Progress(t)) /\ DeinitFrees
  BY ThreadsAssumption DEF Init, Progress, DeinitFrees, Owns
<1>2. MapInv /\ UniqueInv' /\ AccessInv' /\ [Next]_vars => MapInv'
  <2> SUFFICES ASSUME MapInv, [Next]_vars
               PROVE  (\A t \in Threads : Progress(t)') /\ DeinitFrees'
    BY DEF MapInv
  <2>1. CASE \E t \in Threads : Begin(t) \/ Step(t)
    <3>1. PICK t \in Threads : Begin(t) \/ Step(t)
      BY <2>1
    <3>2. Progress(t)' /\ dslot' = 0
      BY <3>1, ProgressOfThread, FrameOfThread
    <3>3. \A u \in Threads \ {t} : Progress(u)'
      <4> SUFFICES ASSUME NEW u \in Threads \ {t} PROVE Progress(u)'
        OBVIOUS
      <4>1. /\ pc'[u] = pc[u] /\ idx'[u] = idx[u] /\ arg'[u] = arg[u]
            /\ \A i \in Slots : (threads[i] = u <=> threads'[i] = u)
                                /\ (threads[i] = u => values'[i] = values[i])
        BY <3>1, FrameOfThread
      <4>2. TypeOK /\ Progress(u)
        BY DEF MapInv, UniqueInv
      <4>3. QED
        BY <4>1, <4>2, ProgressUndisturbed
    <3>4. QED
      BY <3>2, <3>3 DEF DeinitFrees
  <2>2. CASE DeinitBegin
    BY <2>2, SlotFacts DEF DeinitBegin, MapInv, Progress, DeinitFrees, Owns, CallersKeepContract
  <2>3. CASE DeinitOwner
    <3>1. \A t \in Threads : pc[t] = "idle"
      BY <2>3 DEF DeinitOwner, MapInv, AccessInv, DeinitRunsAlone, CallersKeepContract
    <3>2. dslot \in Slots /\ threads \in [Slots -> Threads \cup {NoThread}]
      BY <2>3 DEF DeinitOwner, MapInv, UniqueInv, TypeOK
    <3>3. DeinitFrees'
      BY <2>3, <3>2 DEF DeinitOwner, MapInv, DeinitFrees
    <3>4. QED
      BY <2>3, <3>1, <3>2, <3>3, ThreadsAssumption DEF DeinitOwner, MapInv, Progress, Owns
  <2>4. CASE DeinitValue
    <3>1. \A t \in Threads : pc[t] = "idle"
      BY <2>4 DEF DeinitValue, MapInv, AccessInv, DeinitRunsAlone, CallersKeepContract
    <3>2. /\ dslot \in Slots /\ values \in [Slots -> Values \cup {Empty}]
          /\ threads[dslot] = NoThread /\ \A j \in Slots : j < dslot => threads[j] = NoThread
      BY <2>4 DEF DeinitValue, MapInv, UniqueInv, TypeOK, DeinitFrees
    <3>3. DeinitFrees'
      BY <2>4, <3>2, SlotFacts DEF DeinitValue, DeinitFrees
    <3>4. QED
      BY <2>4, <3>1, <3>2, <3>3, ThreadsAssumption DEF DeinitValue, MapInv, Progress, Owns
  <2>5. CASE UNCHANGED vars
    BY <2>5 DEF vars, MapInv, Progress, DeinitFrees, Owns
  <2>6. QED
    BY <2>1, <2>2, <2>3, <2>4, <2>5 DEF Next, Deinit
<1>3. UniqueInv /\ AccessInv /\ (\A t \in Threads : Progress(t)) /\ DeinitFrees => MapInv
  BY DEF MapInv
<1>4. Init /\ [](UniqueInv /\ AccessInv) /\ [][Next]_vars => []MapInv
  BY <1>1, <1>2, <1>3, PTL
<1>5. QED
  BY <1>4, UniqueInvariant, AccessInvariant, PTL DEF Spec

\* A thread that owns a slot owns one, so its binding is that slot's value or none.
LEMMA BindingOfOwner ==
  ASSUME MapInv, NEW t \in Threads, NEW i \in Slots, Owns(t, i)
  PROVE  Bindings(t) =
           IF pc[t] # "release" /\ ~(pc[t] = "insert" /\ values[i] = Empty) THEN {i} ELSE {}
<1>1. \A j \in Slots : Owns(t, j) <=> j = i
  BY ThreadsAssumption DEF MapInv, UniqueInv, SlotUnique, Owns
<1>2. QED
  BY <1>1 DEF Bindings

\* The binding of a thread, read off its slot.
LEMMA MapOfThread ==
  ASSUME NEW t \in Threads
  PROVE  /\ \A i \in Slots : Bindings(t) = {i} => mapBar[t] = values[i]
         /\ Bindings(t) = {} => mapBar[t] = "absent"
         /\ (\A i \in Slots : ~Owns(t, i)) => Bindings(t) = {}
BY DEF mapBar, Bindings

\* A thread that nobody disturbs keeps its binding.
LEMMA BindingUndisturbed ==
  ASSUME MapInv, NEW u \in Threads, pc'[u] = pc[u],
         \A i \in Slots : (threads[i] = u <=> threads'[i] = u)
                          /\ (threads[i] = u => values'[i] = values[i])
  PROVE  mapBar'[u] = mapBar[u]
<1>1. Bindings(u)' = Bindings(u)
  BY DEF Bindings, Owns
<1>2. CASE Bindings(u) = {}
  BY <1>1, <1>2 DEF mapBar
<1>3. CASE Bindings(u) # {}
  <2> DEFINE i == CHOOSE i \in Bindings(u) : TRUE
  <2>1. i \in Bindings(u)
    BY <1>3
  <2>2. i \in Slots /\ threads[i] = u
    BY <2>1 DEF Bindings, Owns
  <2>3. mapBar[u] = values[i] /\ mapBar'[u] = values'[i]
    BY <1>1, <1>3 DEF mapBar
  <2>4. QED
    BY <2>2, <2>3
<1>4. QED
  BY <1>2, <1>3

\* A step of thread t that leaves its slots alone, outside set's store and erase's end.
LEMMA BindingKept ==
  ASSUME NEW t \in Threads, threads' = threads, values' = values,
         pc[t] \notin {"insert", "release"}, pc'[t] \notin {"insert", "release"}
  PROVE  mapBar'[t] = mapBar[t]
<1>1. Bindings(t)' = Bindings(t)
  BY DEF Bindings, Owns
<1>2. QED
  BY <1>1 DEF mapBar

\* MapOfThread and BindingOfOwner, in the state after a step.
LEMMA MapAfter ==
  ASSUME MapInv', NEW t \in Threads
  PROVE  /\ \A i \in Slots : Owns(t, i)' /\ pc'[t] # "release"
                              /\ ~(pc'[t] = "insert" /\ values'[i] = Empty)
                           => mapBar'[t] = values'[i]
         /\ \A i \in Slots : Owns(t, i)' /\ (pc'[t] = "release" \/ (pc'[t] = "insert" /\ values'[i] = Empty))
                           => mapBar'[t] = "absent"
         /\ (\A i \in Slots : ~Owns(t, i)') => mapBar'[t] = "absent"
<1>1. \A i \in Slots : Owns(t, i)' => \A j \in Slots : Owns(t, j)' <=> j = i
  BY ThreadsAssumption DEF MapInv, UniqueInv, SlotUnique, Owns
<1>2. ASSUME NEW i \in Slots, Owns(t, i)', pc'[t] # "release",
             ~(pc'[t] = "insert" /\ values'[i] = Empty)
      PROVE  mapBar'[t] = values'[i]
  <2>1. Bindings(t)' = {i}
    BY <1>1, <1>2 DEF Bindings
  <2>2. QED
    BY <2>1 DEF mapBar
<1>3. ASSUME NEW i \in Slots, Owns(t, i)',
             pc'[t] = "release" \/ (pc'[t] = "insert" /\ values'[i] = Empty)
      PROVE  mapBar'[t] = "absent"
  <2>1. Bindings(t)' = {}
    BY <1>1, <1>3 DEF Bindings
  <2>2. QED
    BY <2>1 DEF mapBar
<1>4. ASSUME \A i \in Slots : ~Owns(t, i)'
      PROVE  mapBar'[t] = "absent"
  <2>1. Bindings(t)' = {}
    BY <1>4 DEF Bindings
  <2>2. QED
    BY <2>1 DEF mapBar
<1>5. QED
  BY <1>2, <1>3, <1>4

\* A thread that owns a slot without a binding leaves room for its own: the threads with a
\* binding own one slot each of the others.
LEMMA RoomForOwner ==
  ASSUME MapInv, NEW t \in Threads, NEW k \in Slots, Owns(t, k), mapBar[t] = "absent"
  PROVE  Cardinality(Map!Bound) < N
<1> DEFINE Used == {i \in Slots : threads[i] \in Map!Bound}
           f == [i \in Used |-> threads[i]]
<1>1. \A u \in Map!Bound : \E i \in Used : threads[i] = u
  <2> SUFFICES ASSUME NEW u \in Map!Bound PROVE \E i \in Used : threads[i] = u
    OBVIOUS
  <2>1. u \in Threads /\ mapBar[u] # "absent"
    BY DEF Map!Bound
  <2>2. Bindings(u) # {}
    BY <2>1, MapOfThread
  <2>3. PICK i \in Slots : threads[i] = u
    BY <2>2 DEF Bindings, Owns
  <2>4. QED
    BY <2>3
<1>2. f \in Surjection(Used, Map!Bound)
  BY <1>1 DEF Surjection
<1>3. IsFiniteSet(Slots) /\ Cardinality(Slots) = N
  <2>1. 1 \in Int /\ N \in Int /\ N \in Nat /\ ~(1 > N)
    BY SlotsAssumption
  <2>2. IsFiniteSet(1..N) /\ Cardinality(1..N) = N - 1 + 1
    BY <2>1, FS_Interval
  <2>3. QED
    BY <2>1, <2>2 DEF Slots
<1>4. IsFiniteSet(Slots \ {k}) /\ Cardinality(Slots \ {k}) = N - 1
  BY <1>3, FS_RemoveElement
<1>5. Used \subseteq Slots \ {k}
  BY DEF Owns, Map!Bound
<1>6. IsFiniteSet(Used) /\ Cardinality(Used) <= N - 1
  BY <1>4, <1>5, FS_Subset
<1>7. Cardinality(Map!Bound) <= Cardinality(Used) /\ IsFiniteSet(Map!Bound)
  <2> HIDE DEF f, Used
  <2>1. \A g \in Surjection(Used, Map!Bound) :
          IsFiniteSet(Map!Bound) /\ Cardinality(Map!Bound) <= Cardinality(Used)
    BY <1>6, FS_Surjection
  <2>2. QED
    BY <1>2, <2>1
<1>8. Cardinality(Used) \in Nat /\ Cardinality(Map!Bound) \in Nat
  BY <1>6, <1>7, FS_CardinalityType
<1>9. QED
  BY <1>6, <1>7, <1>8, SlotsAssumption

\* A thread's step, seen in the map: nothing, or one operation on its own binding.
OwnEffect(t) ==
  \/ mapBar'[t] = mapBar[t] /\ replyBar'[t] = replyBar[t]
  \/ /\ mapBar[t] # "absent" \/ Cardinality(Map!Bound) < N
     /\ mapBar'[t] \in Values /\ replyBar'[t] = "ok"
  \/ mapBar[t] = "absent" /\ mapBar'[t] = "absent" /\ replyBar'[t] = "refused"
  \/ mapBar[t] # "absent" /\ mapBar'[t] = "absent" /\ replyBar'[t] = "ok"
  \/ mapBar'[t] = mapBar[t] /\ mapBar[t] = "absent" /\ replyBar'[t] = "none"
  \/ mapBar'[t] = mapBar[t] /\ mapBar[t] # "absent" /\ replyBar'[t] = "found"
  \/ mapBar'[t] = mapBar[t] /\ mapBar[t] # "absent" /\ replyBar'[t] = mapBar[t]

\* What a thread finds in its own slot, and what a finished search tells it.
LEMMA OwnBinding ==
  ASSUME MapInv, CallersKeepContract, NEW t \in Threads
  PROVE  /\ \A i \in Slots : Owns(t, i) /\ pc[t] \notin {"insert", "release"}
                           => mapBar[t] = values[i] /\ mapBar[t] # "absent"
         /\ \A i \in Slots : Owns(t, i) /\ pc[t] = "insert" /\ values[i] # Empty
                           => mapBar[t] # "absent"
         /\ \A i \in Slots : Owns(t, i) /\ pc[t] = "release" => mapBar[t] = "absent"
         /\ (\A i \in Slots : ~Owns(t, i)) => mapBar[t] = "absent"
<1>1. \A i \in Slots : values[i] # "absent"
  BY DEF MapInv, UniqueInv, TypeOK, CallersKeepContract
<1>2. ASSUME NEW i \in Slots, Owns(t, i), pc[t] \notin {"insert", "release"}
      PROVE  mapBar[t] = values[i] /\ mapBar[t] # "absent"
  <2>1. Bindings(t) = {i}
    BY <1>2, BindingOfOwner
  <2>2. QED
    BY <1>1, <2>1, MapOfThread
<1>3. ASSUME NEW i \in Slots, Owns(t, i), pc[t] = "insert", values[i] # Empty
      PROVE  mapBar[t] # "absent"
  <2>1. Bindings(t) = {i}
    BY <1>3, BindingOfOwner
  <2>2. QED
    BY <1>1, <2>1, MapOfThread
<1>4. ASSUME NEW i \in Slots, Owns(t, i), pc[t] = "release"
      PROVE  mapBar[t] = "absent"
  <2>1. Bindings(t) = {}
    BY <1>4, BindingOfOwner
  <2>2. QED
    BY <2>1, MapOfThread
<1>5. QED
  BY <1>2, <1>3, <1>4, MapOfThread

\* The step of a thread has one of these effects on its binding.
LEMMA StepHasEffect ==
  ASSUME MapInv, MapInv', CallersKeepContract, NEW t \in Threads, Begin(t) \/ Step(t)
  PROVE  OwnEffect(t)
<1>0. TypeOK /\ Access(t) /\ Progress(t) /\ SearchedInVain(t)
  BY DEF MapInv, UniqueInv, AccessInv, CallersKeepContract
<1>1. CASE Begin(t)
  <2>1. CASE \/ \E v \in Values : SetBegin(t, v)
             \/ GetBegin(t) \/ EraseBegin(t)
    <3>1. /\ threads' = threads /\ values' = values /\ reply' = reply
          /\ pc[t] = "idle" /\ pc'[t] \in {"own", "get", "erase"}
      BY <1>0, <2>1 DEF SetBegin, GetBegin, EraseBegin, MayCall, Goto, TypeOK
    <3>2. replyBar'[t] = replyBar[t]
      BY <3>1 DEF replyBar
    <3>3. QED
      BY <3>1, <3>2, BindingKept DEF OwnEffect
  <2>2. CASE Deref(t)
    <3>1. /\ threads' = threads /\ values' = values /\ pc' = pc /\ pc[t] = "idle"
          /\ gotPtr[t] \in Slots /\ reply'[t] = values[gotPtr[t]] /\ Owns(t, gotPtr[t])
      BY <1>0, <2>2 DEF Deref, MayCall, TypeOK, Access
    <3>2. mapBar'[t] = mapBar[t]
      BY <3>1, BindingKept
    <3>3. mapBar[t] = values[gotPtr[t]] /\ mapBar[t] # "absent"
      BY <3>1, OwnBinding
    <3>4. replyBar'[t] = reply'[t]
      BY <3>1 DEF replyBar
    <3>5. QED
      BY <3>1, <3>2, <3>3, <3>4 DEF OwnEffect
  <2>3. QED
    BY <1>1, <2>1, <2>2 DEF Begin
<1>2. CASE SetOwn(t)
  <2>1. /\ threads' = threads /\ values' = values /\ reply' = reply
        /\ pc[t] = "own" /\ pc'[t] \in {"own", "null", "insert"} /\ idx[t] \in Slots
        /\ pc'[t] = "insert" => Owns(t, idx[t])
    BY <1>0, <1>2 DEF SetOwn, Goto, TypeOK, Owns
  <2>2. replyBar'[t] = replyBar[t]
    BY <2>1 DEF replyBar
  <2>3. CASE pc'[t] = "insert"
    <3>1. values[idx[t]] # Empty
      BY <1>0, <2>1, <2>3 DEF Progress
    <3>2. mapBar[t] = values[idx[t]]
      BY <2>1, <2>3, OwnBinding
    <3>3. mapBar'[t] = values'[idx[t]]
      BY <2>1, <2>3, <3>1, MapAfter DEF Owns
    <3>4. QED
      BY <2>1, <2>2, <3>2, <3>3 DEF OwnEffect
  <2>4. CASE pc'[t] # "insert"
    BY <2>1, <2>2, <2>4, BindingKept DEF OwnEffect
  <2>5. QED
    BY <2>3, <2>4
<1>3. CASE SetNull(t)
  <2>1. \A i \in Slots : ~Owns(t, i)
    BY <1>0, <1>3 DEF SetNull, SearchedInVain, Owns
  <2>2. mapBar[t] = "absent" /\ replyBar[t] = reply[t]
    BY <1>3, <2>1, OwnBinding DEF SetNull, replyBar
  <2>3. CASE threads[idx[t]] = NoThread
    <3>1. /\ idx[t] \in Slots /\ threads'[idx[t]] = t /\ values' = values /\ reply' = reply
          /\ pc'[t] = "insert"
      BY <1>0, <1>3, <2>3 DEF SetNull, Goto, TypeOK
    <3>2. dslot = 0
      BY <1>3, FrameOfThread DEF Step
    <3>3. values[idx[t]] = Empty
      BY <2>3, <3>1, <3>2, SlotFacts DEF MapInv, AccessInv, FreeAndEmpty, CallersKeepContract
    <3>4. values'[idx[t]] = Empty
      BY <3>1, <3>3
    <3>5. mapBar'[t] = "absent"
      BY <3>1, <3>4, MapAfter DEF Owns
    <3>6. replyBar'[t] = replyBar[t]
      BY <2>2, <3>1 DEF replyBar
    <3>7. QED
      BY <2>2, <3>5, <3>6 DEF OwnEffect
  <2>4. CASE threads[idx[t]] # NoThread
    <3>1. /\ threads' = threads
          /\ \/ pc'[t] = "null" /\ reply' = reply
             \/ pc'[t] = "idle" /\ reply'[t] = "refused"
      BY <1>0, <1>3, <2>4 DEF SetNull, Goto, Return, TypeOK
    <3>2. mapBar'[t] = "absent"
      BY <2>1, <3>1, MapAfter DEF Owns
    <3>3. replyBar'[t] = reply'[t]
      BY <3>1 DEF replyBar
    <3>4. QED
      BY <2>2, <3>1, <3>2, <3>3 DEF OwnEffect
  <2>5. QED
    BY <2>3, <2>4
<1>4. CASE SetInsert(t)
  <2>1. /\ pc[t] = "insert" /\ idx[t] \in Slots /\ Owns(t, idx[t]) /\ arg[t] \in Values
        /\ threads' = threads /\ values'[idx[t]] = arg[t]
        /\ pc'[t] = "idle" /\ reply'[t] = "ok"
    BY <1>0, <1>4 DEF SetInsert, Goto, Return, TypeOK, Access, Progress
  <2>2. mapBar'[t] = arg[t]
    BY <2>1, MapAfter DEF Owns
  <2>3. replyBar'[t] = "ok"
    BY <2>1 DEF replyBar
  <2>4. mapBar[t] # "absent" \/ Cardinality(Map!Bound) < N
    BY <2>1, RoomForOwner
  <2>5. QED
    BY <2>1, <2>2, <2>3, <2>4 DEF OwnEffect
<1>5. CASE GetScan(t)
  <2>1. /\ pc[t] = "get" /\ idx[t] \in Slots /\ threads' = threads /\ values' = values
        /\ pc'[t] \in {"get", "idle"}
        /\ \/ Owns(t, idx[t]) /\ reply'[t] = "found"
           \/ reply' = reply
           \/ ~Owns(t, idx[t]) /\ idx[t] = N /\ reply'[t] = "none"
    BY <1>0, <1>5 DEF GetScan, Goto, Return, TypeOK, Owns
  <2>2. mapBar'[t] = mapBar[t] /\ replyBar'[t] = reply'[t] /\ replyBar[t] = reply[t]
    BY <2>1, BindingKept DEF replyBar
  <2>3. Owns(t, idx[t]) => mapBar[t] # "absent"
    BY <2>1, OwnBinding
  <2>4. ~Owns(t, idx[t]) /\ idx[t] = N => mapBar[t] = "absent"
    BY <1>0, <2>1, SlotFacts, OwnBinding DEF Progress, Owns
  <2>5. QED
    BY <2>1, <2>2, <2>3, <2>4 DEF OwnEffect
<1>6. CASE EraseScan(t)
  <2>1. /\ pc[t] = "erase" /\ idx[t] \in Slots /\ threads' = threads /\ values' = values
        /\ pc'[t] \in {"erase", "clear", "idle"}
        /\ \/ reply' = reply
           \/ ~Owns(t, idx[t]) /\ idx[t] = N /\ reply'[t] = "none"
    BY <1>0, <1>6 DEF EraseScan, Goto, Return, TypeOK, Owns
  <2>2. mapBar'[t] = mapBar[t] /\ replyBar'[t] = reply'[t] /\ replyBar[t] = reply[t]
    BY <2>1, BindingKept DEF replyBar
  <2>3. ~Owns(t, idx[t]) /\ idx[t] = N => mapBar[t] = "absent"
    BY <1>0, <2>1, SlotFacts, OwnBinding DEF Progress, Owns
  <2>4. QED
    BY <2>1, <2>2, <2>3 DEF OwnEffect
<1>7. CASE EraseClear(t)
  <2>1. /\ pc[t] = "clear" /\ idx[t] \in Slots /\ Owns(t, idx[t])
        /\ threads' = threads /\ pc'[t] = "release"
    BY <1>0, <1>7 DEF EraseClear, Goto, TypeOK, Access
  <2>2. mapBar[t] # "absent" /\ mapBar'[t] = "absent" /\ replyBar'[t] = "ok"
    BY <2>1, OwnBinding, MapAfter DEF Owns, replyBar
  <2>3. QED
    BY <2>2 DEF OwnEffect
<1>8. CASE EraseRelease(t)
  <2>1. /\ pc[t] = "release" /\ idx[t] \in Slots /\ Owns(t, idx[t])
        /\ threads' = [threads EXCEPT ![idx[t]] = NoThread]
        /\ pc'[t] = "idle" /\ reply'[t] = "ok"
    BY <1>0, <1>8 DEF EraseRelease, Goto, Return, TypeOK, Access, Owns
  <2>2. \A i \in Slots : ~Owns(t, i)'
    BY <2>1, ThreadsAssumption DEF MapInv, UniqueInv, SlotUnique, TypeOK, Owns
  <2>3. mapBar[t] = "absent" /\ mapBar'[t] = "absent"
    BY <2>1, <2>2, OwnBinding, MapAfter
  <2>4. replyBar[t] = "ok" /\ replyBar'[t] = "ok"
    BY <2>1 DEF replyBar
  <2>5. QED
    BY <2>3, <2>4 DEF OwnEffect
<1>9. QED
  BY <1>1, <1>2, <1>3, <1>4, <1>5, <1>6, <1>7, <1>8 DEF Step

\* The other threads' bindings and replies stay, so the map changes at one thread at most.
LEMMA OthersKeepBinding ==
  ASSUME MapInv, CallersKeepContract, NEW t \in Threads, Begin(t) \/ Step(t)
  PROVE  /\ mapBar' = [mapBar EXCEPT ![t] = mapBar'[t]]
         /\ replyBar' = [replyBar EXCEPT ![t] = replyBar'[t]]
         /\ dslot = 0 /\ dslot' = 0
<1>1. mapBar = [u \in Threads |-> mapBar[u]] /\ mapBar' = [u \in Threads |-> mapBar'[u]]
  BY DEF mapBar
<1>2. replyBar = [u \in Threads |-> replyBar[u]] /\ replyBar' = [u \in Threads |-> replyBar'[u]]
  BY DEF replyBar
<1>3. \A u \in Threads \ {t} : mapBar'[u] = mapBar[u] /\ replyBar'[u] = replyBar[u]
  <2> SUFFICES ASSUME NEW u \in Threads \ {t}
               PROVE  mapBar'[u] = mapBar[u] /\ replyBar'[u] = replyBar[u]
    OBVIOUS
  <2>1. /\ pc'[u] = pc[u] /\ reply'[u] = reply[u]
        /\ \A i \in Slots : (threads[i] = u <=> threads'[i] = u)
                            /\ (threads[i] = u => values'[i] = values[i])
    BY FrameOfThread
  <2>2. mapBar'[u] = mapBar[u]
    BY <2>1, BindingUndisturbed
  <2>3. replyBar'[u] = replyBar[u]
    BY <2>1 DEF replyBar
  <2>4. QED
    BY <2>2, <2>3
<1>4. mapBar' = [mapBar EXCEPT ![t] = mapBar'[t]]
  BY <1>1, <1>3
<1>5. replyBar' = [replyBar EXCEPT ![t] = replyBar'[t]]
  BY <1>2, <1>3
<1>6. QED
  BY <1>4, <1>5, FrameOfThread

\* A thread's step is a step of the map, or leaves it alone.
LEMMA ThreadStepRefines ==
  ASSUME MapInv, MapInv', CallersKeepContract, NEW t \in Threads, Begin(t) \/ Step(t)
  PROVE  [Map!Next]_(Map!vars)
<1>1. /\ mapBar' = [mapBar EXCEPT ![t] = mapBar'[t]]
      /\ replyBar' = [replyBar EXCEPT ![t] = replyBar'[t]]
      /\ dslot = 0 /\ dslot' = 0
  BY OthersKeepBinding
<1>2. mapBar = [mapBar EXCEPT ![t] = mapBar[t]] /\ replyBar = [replyBar EXCEPT ![t] = replyBar[t]]
  <2>1. mapBar = [u \in Threads |-> mapBar[u]] /\ replyBar = [u \in Threads |-> replyBar[u]]
    BY DEF mapBar, replyBar
  <2>2. QED
    BY <2>1
<1>3. ~(dslot # 0) /\ ((dslot # 0)' <=> (dslot # 0))
  BY <1>1
<1>4. OwnEffect(t)
  BY StepHasEffect
<1> USE <1>1, <1>2
<1>5. CASE mapBar'[t] = mapBar[t] /\ replyBar'[t] = replyBar[t]
  <2>1. mapBar' = mapBar /\ replyBar' = replyBar
    BY <1>5
  <2>2. QED
    BY <1>3, <2>1 DEF Map!vars
<1>6. CASE /\ mapBar[t] # "absent" \/ Cardinality(Map!Bound) < N
           /\ mapBar'[t] \in Values /\ replyBar'[t] = "ok"
  <2>1. Map!Bind(t, mapBar'[t])
    BY <1>3, <1>6 DEF Map!Bind, Map!Answer, Map!Cardinality, Cardinality
  <2>2. QED
    BY <1>6, <2>1 DEF Map!Next
<1>7. CASE mapBar[t] = "absent" /\ mapBar'[t] = "absent" /\ replyBar'[t] = "refused"
  <2>1. mapBar' = mapBar
    BY <1>7
  <2>2. Map!Refuse(t)
    BY <1>3, <1>7, <2>1 DEF Map!Refuse, Map!Answer
  <2>3. QED
    BY <2>2 DEF Map!Next
<1>8. CASE mapBar[t] # "absent" /\ mapBar'[t] = "absent" /\ replyBar'[t] = "ok"
  <2>1. Map!Unbind(t)
    BY <1>3, <1>8 DEF Map!Unbind, Map!Answer
  <2>2. QED
    BY <2>1 DEF Map!Next
<1>9. CASE /\ mapBar'[t] = mapBar[t]
           /\ \/ mapBar[t] = "absent" /\ replyBar'[t] = "none"
              \/ mapBar[t] # "absent" /\ replyBar'[t] = "found"
  <2>1. mapBar' = mapBar
    BY <1>9
  <2>2. Map!Find(t)
    BY <1>3, <1>9, <2>1 DEF Map!Find, Map!Answer
  <2>3. QED
    BY <2>2 DEF Map!Next
<1>10. CASE mapBar'[t] = mapBar[t] /\ mapBar[t] # "absent" /\ replyBar'[t] = mapBar[t]
  <2>1. mapBar' = mapBar
    BY <1>10
  <2>2. Map!Read(t)
    BY <1>3, <1>10, <2>1 DEF Map!Read, Map!Answer
  <2>3. QED
    BY <2>2 DEF Map!Next
<1>11. QED
  BY <1>4, <1>5, <1>6, <1>7, <1>8, <1>9, <1>10 DEF OwnEffect

\* A step of deinit drops at most the binding of the slot it stands at.
LEMMA DeinitRefines ==
  ASSUME MapInv, MapInv', CallersKeepContract, Deinit
  PROVE  Map!Reset
<1>1. TypeOK /\ TypeOK' /\ SlotUnique /\ \A t \in Threads : pc[t] = "idle" /\ pc'[t] = "idle"
  <2>1. TypeOK /\ TypeOK' /\ SlotUnique
    BY DEF MapInv, UniqueInv
  <2>2. \A t \in Threads : pc[t] = "idle"
    BY DEF MapInv, AccessInv, DeinitRunsAlone, CallersKeepContract,
           Deinit, DeinitBegin, DeinitOwner, DeinitValue
  <2>3. QED
    BY <2>1, <2>2 DEF Deinit, DeinitBegin, DeinitOwner, DeinitValue
<1>2. replyBar' = replyBar
  BY DEF replyBar, Deinit, DeinitBegin, DeinitOwner, DeinitValue
<1>3. mapBar = [u \in Threads |-> mapBar[u]] /\ mapBar' = [u \in Threads |-> mapBar'[u]]
  BY DEF mapBar
<1>4. ASSUME NEW u \in Threads,
             \A i \in Slots : (threads[i] = u <=> threads'[i] = u)
                              /\ (threads[i] = u => values'[i] = values[i])
      PROVE  mapBar'[u] = mapBar[u]
  <2>1. pc'[u] = pc[u]
    BY <1>1
  <2>2. QED
    BY <1>4, <2>1, BindingUndisturbed
<1>5. CASE DeinitBegin
  <2>1. \A u \in Threads : mapBar'[u] = mapBar[u]
    BY <1>4, <1>5 DEF DeinitBegin
  <2>2. mapBar' = mapBar
    BY <1>3, <2>1
  <2>3. ~(dslot # 0) /\ (dslot # 0)'
    BY <1>5 DEF DeinitBegin
  <2>4. QED
    BY <1>2, <2>2, <2>3 DEF Map!Reset
<1>6. CASE DeinitOwner
  <2>1. /\ dslot \in Slots /\ dslot # 0 /\ (dslot # 0)' /\ values' = values
        /\ threads' = [threads EXCEPT ![dslot] = NoThread]
        /\ threads \in [Slots -> Threads \cup {NoThread}]
    BY <1>1, <1>6 DEF DeinitOwner, TypeOK
  <2>2. \A u \in Threads : u # threads[dslot] => mapBar'[u] = mapBar[u]
    BY <1>4, <2>1, ThreadsAssumption
  <2>3. mapBar' \in {mapBar} \cup {[mapBar EXCEPT ![t] = "absent"] : t \in Threads}
    <3>1. CASE threads[dslot] = NoThread
      <4>1. mapBar' = mapBar
        BY <1>3, <2>2, <3>1, ThreadsAssumption
      <4>2. QED
        BY <4>1
    <3>2. CASE threads[dslot] \in Threads
      <4>0. PICK u \in Threads : u = threads[dslot]
        BY <3>2
      <4>1. \A i \in Slots : ~Owns(u, i)'
        BY <1>1, <2>1, <4>0, ThreadsAssumption DEF SlotUnique, Owns
      <4>2. mapBar'[u] = "absent"
        BY <4>1, MapAfter
      <4>3. mapBar' = [mapBar EXCEPT ![u] = "absent"]
        BY <1>3, <2>2, <4>0, <4>2
      <4>4. QED
        BY <4>3
    <3>3. QED
      BY <2>1, <3>1, <3>2
  <2>4. QED
    BY <1>2, <2>1, <2>3 DEF Map!Reset
<1>7. CASE DeinitValue
  <2>1. /\ dslot \in Slots /\ dslot # 0 /\ threads' = threads /\ threads[dslot] = NoThread
        /\ values' = [values EXCEPT ![dslot] = Empty]
        /\ dslot' = IF dslot < N THEN dslot + 1 ELSE 0
        /\ \A j \in Slots : j < dslot => threads[j] = NoThread
        /\ values \in [Slots -> Values \cup {Empty}]
    BY <1>1, <1>7 DEF DeinitValue, TypeOK, MapInv, DeinitFrees
  <2>2. \A u \in Threads : mapBar'[u] = mapBar[u]
    BY <1>4, <2>1, ThreadsAssumption
  <2>3. mapBar' = mapBar
    BY <1>3, <2>2
  <2>4. (dslot # 0)' \/ \A u \in Threads : mapBar'[u] = "absent"
    <3>1. CASE dslot < N
      BY <2>1, <3>1, SlotsAssumption DEF Slots
    <3>2. CASE dslot = N
      <4>1. \A j \in Slots : threads'[j] = NoThread
        BY <2>1, <3>2, SlotFacts
      <4>2. QED
        BY <4>1, ThreadsAssumption, MapAfter DEF Owns
    <3>3. QED
      BY <2>1, <3>1, <3>2, SlotFacts
  <2>5. QED
    BY <1>2, <2>1, <2>3, <2>4 DEF Map!Reset
<1>8. QED
  BY <1>5, <1>6, <1>7 DEF Deinit

\* The slots implement the map: every access of set, get, erase and deinit is one
\* operation of ThreadMap on the caller's own binding, or invisible to it.
THEOREM SlotsImplementMap == CallersKeepContract => (Spec => ImplementsThreadMap)
<1> SUFFICES ASSUME CallersKeepContract
             PROVE  Spec => ImplementsThreadMap
  OBVIOUS
<1>1. Init => Map!Init
  <2>1. Init => \A t \in Threads : Bindings(t) = {}
    BY ThreadsAssumption DEF Init, Bindings, Owns
  <2>2. Init => mapBar = [t \in Threads |-> "absent"]
    BY <2>1 DEF mapBar
  <2>3. Init => replyBar = [t \in Threads |-> "none"]
    BY DEF Init, replyBar
  <2>4. Init => ((dslot # 0) = FALSE)
    BY DEF Init
  <2>5. QED
    BY <2>2, <2>3, <2>4 DEF Map!Init
<1>2. MapInv /\ MapInv' /\ [Next]_vars => [Map!Next]_(Map!vars)
  <2> SUFFICES ASSUME MapInv, MapInv', [Next]_vars
               PROVE  [Map!Next]_(Map!vars)
    OBVIOUS
  <2>1. CASE \E t \in Threads : Begin(t) \/ Step(t)
    BY <2>1, ThreadStepRefines
  <2>2. CASE Deinit
    BY <2>2, DeinitRefines DEF Map!Next
  <2>3. CASE UNCHANGED vars
    <3>1. mapBar' = mapBar /\ replyBar' = replyBar
      BY <2>3 DEF vars, mapBar, replyBar, Bindings, Owns
    <3>2. dslot' = dslot
      BY <2>3 DEF vars
    <3>3. QED
      BY <3>1, <3>2 DEF Map!vars
  <2>4. QED
    BY <2>1, <2>2, <2>3 DEF Next
<1>3. Spec => []MapInv
  BY MapInvariant
<1>4. QED
  BY <1>1, <1>2, <1>3, PTL DEF Spec, ImplementsThreadMap, Map!Spec

=============================================================================
