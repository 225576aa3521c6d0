----------------------- MODULE CircularBufferProofs -----------------------
(***************************************************************************)
(* The safety properties of CircularBuffer, for every set of threads and   *)
(* every capacity, when a buffer object is not initialised twice.          *)
(***************************************************************************)
EXTENDS CircularBuffer, SequenceTheorems, TLAPS

-----------------------------------------------------------------------------
(* Arithmetic of the indices. *)

\* An index and the number of elements behind it determine the other index.
Agree(r, c, w) == w = r + c \/ w + size = r + c

\* The update of lines 1122-1123 and 1142-1143 steps to the next cell, or to cell 0.
LEMMA NextIndex ==
  ASSUME NEW s \in Nat \ {0}, NEW i \in Nat, i < s
  PROVE  (i + 1) % s = IF i + 1 = s THEN 0 ELSE i + 1
OBVIOUS

\* Agreement in the form the runs check it.
LEMMA AgreeIsModulo ==
  ASSUME NEW s \in Nat \ {0}, NEW r \in Nat, NEW c \in Nat, NEW w \in Nat,
         r < s, w < s, c <= s, w = r + c \/ w + s = r + c
  PROVE  w = (r + c) % s
<1>1. CASE w = r + c
  BY <1>1
<1>2. CASE w + s = r + c
  <2>1. r + c \in Nat /\ r + c >= s /\ r + c < 2 * s
    BY <1>2
  <2>2. \A a \in Nat : a >= s /\ a < 2 * s => a % s = a - s
    OBVIOUS
  <2>3. QED
    BY <1>2, <2>1, <2>2
<1>3. QED
  BY <1>1, <1>2

-----------------------------------------------------------------------------
(* The inductive invariant.  The type of the fields, the balance of the lock and the  *)
(* agreement of the counters depend on each other: pop reads inside the storage       *)
(* because its test still holds, and it still holds because the lock keeps the other  *)
(* threads out in between.                                                            *)

InRing(t) == pc[t] \in {"transfer", "advance", "tally"}

\* What a thread inside the lock may rely on.
CallInv(t) ==
  /\ pc[t] \in {"enter", "transfer", "advance", "tally", "leave"} => Transfers(t)
  /\ pc[t] = "testLeave" /\ ~Refused(t) =>
       (op[t] = "push" => ~Full) /\ (op[t] = "pop" => ~Empty)
  /\ InRing(t) => (op[t] = "push" => count < size) /\ (op[t] = "pop" => count > 0)

RingInv ==
  /\ IF size = 0 THEN indexr = 0 /\ indexw = 0 /\ count = 0
     ELSE indexr < size /\ indexw < size /\ count <= size
  /\ \A t \in Threads : pc[t] = "tally" =>
       IF op[t] = "push" THEN Agree(indexr, count + 1, indexw)
                         ELSE Agree(indexr, count - 1, indexw)
  /\ (\A t \in Threads : pc[t] # "tally") => Agree(indexr, count, indexw)

\* What exists in which phase of the buffer's life, and that calls are under way in one
\* phase only.
HeapInv ==
  /\ (\E t \in Threads : pc[t] # "idle") => life = "live"
  /\ life = "none" => heap = {}
  /\ life = "array" => heap = {"array"}
  /\ life = "object" => heap = {"array", "object"}
  /\ life = "live" => heap = {"mutex"} \/ heap = {"array", "object", "mutex"}
  /\ life = "freed" => heap = {"object", "mutex"}
  /\ life = "unlocked" => heap = {"object"}

LifeInv ==
  /\ life \in {"none", "array", "object"} => indexr = 0 /\ indexw = 0 /\ count = 0
  /\ HeapInv

BufferInv ==
  /\ TypeOK /\ LockBalanced /\ LifeInv
  /\ \A t \in Threads : CallInv(t)
  /\ life = "live" => RingInv

\* The invariant says what the runs check: the counters agree whenever the lock is free.
LEMMA InvImpliesCountersAgree == BufferInv => CountersAgree
<1> SUFFICES ASSUME BufferInv, life = "live", owner = NoThread, size > 0
             PROVE  /\ indexr < size /\ indexw < size /\ count <= size
                    /\ indexw = (indexr + count) % size
  BY DEF CountersAgree
<1> USE DEF BufferInv
<1>1. \A t \in Threads : pc[t] # "tally"
  BY NoThreadAssumption DEF LockBalanced, HoldsOuter, CallInv
<1>2. indexr < size /\ indexw < size /\ count <= size /\ Agree(indexr, count, indexw)
  BY <1>1 DEF RingInv, TypeOK
<1>3. size \in Nat \ {0} /\ indexr \in Nat /\ indexw \in Nat /\ count \in Nat
  BY DEF TypeOK
<1>4. QED
  BY <1>2, <1>3, AgreeIsModulo DEF Agree

Outside(t) == ~HoldsOuter(t) /\ ~HoldsInner(t)

\* A thread inside the lock is alone there.
LEMMA InsideAlone ==
  ASSUME LockBalanced, NEW t \in Threads, ~Outside(t)
  PROVE  owner = t /\ \A u \in Threads \ {t} : Outside(u)
BY DEF LockBalanced, Outside

-----------------------------------------------------------------------------
(* One lemma per group of steps: each preserves the whole invariant. *)

\* A step of one thread that leaves the fields alone does not disturb the others.
LEMMA CallUndisturbed ==
  ASSUME NEW u \in Threads, CallInv(u), UNCHANGED fields,
         pc'[u] = pc[u], op'[u] = op[u], reply'[u] = reply[u]
  PROVE  CallInv(u)'
BY DEF CallInv, fields, Transfers, Refused, Full, Empty, InRing

\* Nor does a step inside the ring: the others are outside the lock.
LEMMA OutsideUndisturbed ==
  ASSUME NEW u \in Threads, CallInv(u), Outside(u),
         pc'[u] = pc[u], op'[u] = op[u]
  PROVE  CallInv(u)'
<1>1. pc[u] \notin {"testLeave", "transfer", "advance", "tally", "leave"}
  BY DEF CallInv, Outside, HoldsOuter, HoldsInner
<1>2. QED
  BY <1>1 DEF CallInv, InRing, Transfers

\* Fresh storage has the type of storage.
LEMMA BlankTyped == \A n \in Nat : Blank(n) \in [0..(n - 1) -> Nat]
BY DEF Blank

\* Initially there is no buffer and no call.
LEMMA InitInv == Init => BufferInv
<1> SUFFICES ASSUME Init PROVE BufferInv
  OBVIOUS
<1> USE DEF Init
<1>1. TypeOK
  <2>1. storage \in [0..(size - 1) -> Nat] /\ size \in Nat
    BY BlankTyped
  <2>2. reply \in [Threads -> Tags \X Nat]
    BY DEF Tags
  <2>3. pc \in [Threads -> Labels] /\ op \in [Threads -> Ops]
    BY DEF Labels, Ops
  <2>4. QED
    BY <2>1, <2>2, <2>3 DEF TypeOK
<1>2. LockBalanced
  BY NoThreadAssumption DEF LockBalanced, HoldsOuter, HoldsInner
<1>3. LifeInv /\ \A t \in Threads : CallInv(t)
  BY DEF LifeInv, HeapInv, CallInv, InRing
<1>4. QED
  BY <1>1, <1>2, <1>3 DEF BufferInv

\* Creation and destruction: the owner works while nobody is inside a call.
LEMMA LifecycleInv ==
  ASSUME BufferInv, ~Reuse, Lifecycle
  PROVE  BufferInv'
<1> USE SizesAssumption DEF BufferInv
<1>1. UNCHANGED <<lock, calls>> /\ \A t \in Threads : pc[t] = "idle"
  BY DEF Lifecycle, CreateStorage, CreateInstance, CreateLock, InitEmbedded, DeinitEmbedded,
         Unused, DeleteStorage, DeleteLock, DeleteInstance, LifeInv, HeapInv
<1>2. TypeOK'
  <2>1. UNCHANGED <<owner, depth, pc, op, element, reply>>
    BY <1>1 DEF lock, calls
  <2>2. /\ life' \in {"none", "array", "object", "live", "freed", "unlocked"}
        /\ heap' \subseteq {"array", "object", "mutex"}
    BY DEF Lifecycle, CreateStorage, CreateInstance, CreateLock, InitEmbedded, DeinitEmbedded,
           DeleteStorage, DeleteLock, DeleteInstance, TypeOK
  <2>3. size' \in Nat /\ indexr' \in Nat /\ indexw' \in Nat /\ count' \in Nat
    BY DEF Lifecycle, CreateStorage, CreateInstance, CreateLock, InitEmbedded, DeinitEmbedded,
           DeleteStorage, DeleteLock, DeleteInstance, ClearFields, fields, TypeOK
  <2>4. storage' \in [0..(size' - 1) -> Nat]
    BY BlankTyped DEF Lifecycle, CreateStorage, CreateInstance, CreateLock, InitEmbedded,
       DeinitEmbedded, DeleteStorage, DeleteLock, DeleteInstance, ClearFields, fields, TypeOK
  <2>5. QED
    BY <2>1, <2>2, <2>3, <2>4 DEF TypeOK
<1>3. LockBalanced' /\ \A t \in Threads : CallInv(t)'
  BY <1>1 DEF lock, calls, LockBalanced, HoldsOuter, HoldsInner, CallInv, InRing, Transfers
<1>4. LifeInv'
  <2> USE <1>1 DEF calls, LifeInv, HeapInv
  <2>1. CASE CreateStorage
    BY <2>1 DEF CreateStorage, fields
  <2>2. CASE CreateInstance
    BY <2>2 DEF CreateInstance, ClearFields, fields
  <2>3. CASE \E c \in Sizes : CreateLock(c) \/ InitEmbedded(c)
    BY <2>3 DEF CreateLock, InitEmbedded, fields
  <2>4. CASE DeinitEmbedded
    BY <2>4 DEF DeinitEmbedded, ClearFields, fields
  <2>5. CASE DeleteStorage
    <3>1. life = "live" /\ heap = {"array", "object", "mutex"}
      BY <2>5 DEF DeleteStorage, Unused
    <3>2. heap \ {"array"} = {"object", "mutex"}
      BY <3>1
    <3>3. QED
      BY <2>5, <3>1, <3>2 DEF DeleteStorage, fields
  <2>6. CASE DeleteLock
    BY <2>6 DEF DeleteLock, fields
  <2>7. CASE DeleteInstance
    BY <2>7 DEF DeleteInstance, ClearFields, fields
  <2>8. QED
    BY <2>1, <2>2, <2>3, <2>4, <2>5, <2>6, <2>7 DEF Lifecycle
<1>5. life' = "live" => RingInv'
  BY <1>1 DEF Lifecycle, CreateStorage, CreateInstance, CreateLock, InitEmbedded, DeinitEmbedded,
         DeleteStorage, DeleteLock, DeleteInstance, calls, LifeInv, HeapInv, RingInv, Agree, TypeOK
<1>6. QED
  BY <1>2, <1>3, <1>4, <1>5

-----------------------------------------------------------------------------
(* The steps of a call.  While thread t moves, the others keep their place. *)

OthersKeep(t) ==
  \A u \in Threads \ {t} : pc'[u] = pc[u] /\ op'[u] = op[u] /\ reply'[u] = reply[u]

\* Only the thread in the ring matters to RingInv, and a call's other steps leave it alone.
LEMMA RingUndisturbed ==
  ASSUME NEW t \in Threads, RingInv, UNCHANGED fields, OthersKeep(t),
         pc[t] # "tally", pc'[t] # "tally"
  PROVE  RingInv'
<1>1. \A u \in Threads : pc'[u] = "tally" <=> pc[u] = "tally"
  BY DEF OthersKeep
<1>2. \A u \in Threads : pc[u] = "tally" => op'[u] = op[u]
  BY DEF OthersKeep
<1>3. QED
  BY <1>1, <1>2 DEF RingInv, fields, Agree

\* The balance of the lock, from what the step does to it and to the moving thread.
LEMMA LockSteps ==
  ASSUME LockBalanced, NEW t \in Threads, OthersKeep(t), depth \in Nat,
         \/ UNCHANGED lock /\ (HoldsOuter(t)' <=> HoldsOuter(t)) /\ (HoldsInner(t)' <=> HoldsInner(t))
         \/ /\ Acquire(t)
            /\ \/ ~HoldsOuter(t) /\ HoldsOuter(t)' /\ ~HoldsInner(t) /\ ~HoldsInner(t)'
               \/ (HoldsOuter(t)' <=> HoldsOuter(t)) /\ ~HoldsInner(t) /\ HoldsInner(t)'
         \/ /\ Release(t)
            /\ \/ HoldsOuter(t) /\ ~HoldsOuter(t)' /\ ~HoldsInner(t) /\ ~HoldsInner(t)'
               \/ (HoldsOuter(t)' <=> HoldsOuter(t)) /\ HoldsInner(t) /\ ~HoldsInner(t)'
  PROVE  LockBalanced'
<1>1. \A u \in Threads \ {t} :
        (HoldsOuter(u)' <=> HoldsOuter(u)) /\ (HoldsInner(u)' <=> HoldsInner(u))
  BY DEF OthersKeep, HoldsOuter, HoldsInner, Transfers
<1>2. CASE UNCHANGED lock /\ (HoldsOuter(t)' <=> HoldsOuter(t)) /\ (HoldsInner(t)' <=> HoldsInner(t))
  BY <1>1, <1>2 DEF LockBalanced, lock
<1>3. CASE /\ Acquire(t)
          /\ ~HoldsOuter(t) /\ HoldsOuter(t)' /\ ~HoldsInner(t) /\ ~HoldsInner(t)'
  BY <1>1, <1>3, NoThreadAssumption DEF LockBalanced, Acquire
<1>4. CASE /\ Acquire(t)
          /\ (HoldsOuter(t)' <=> HoldsOuter(t)) /\ ~HoldsInner(t) /\ HoldsInner(t)'
  BY <1>1, <1>4, NoThreadAssumption DEF LockBalanced, Acquire
<1>5. CASE /\ Release(t)
          /\ HoldsOuter(t) /\ ~HoldsOuter(t)' /\ ~HoldsInner(t) /\ ~HoldsInner(t)'
  BY <1>1, <1>5, NoThreadAssumption DEF LockBalanced, Release
<1>6. CASE /\ Release(t)
          /\ (HoldsOuter(t)' <=> HoldsOuter(t)) /\ HoldsInner(t) /\ ~HoldsInner(t)'
  BY <1>1, <1>6, NoThreadAssumption DEF LockBalanced, Release
<1>7. QED
  BY <1>2, <1>3, <1>4, <1>5, <1>6

\* A step of a call outside the ring preserves the invariant, given the moving thread's part.
LEMMA QuietStep ==
  ASSUME BufferInv, NEW t \in Threads, life = "live", UNCHANGED <<life, heap>>,
         UNCHANGED fields, OthersKeep(t), pc[t] # "tally", pc'[t] # "tally",
         CallInv(t)', LockBalanced', TypeOK'
  PROVE  BufferInv'
<1>1. \A u \in Threads \ {t} : CallInv(u)'
  BY CallUndisturbed DEF BufferInv, OthersKeep
<1>2. RingInv'
  BY RingUndisturbed DEF BufferInv
<1>3. LifeInv'
  BY DEF BufferInv, LifeInv, HeapInv, fields
<1>4. QED
  BY <1>1, <1>2, <1>3 DEF BufferInv

\* The depth stays within the two levels of nesting.
LEMMA DepthTyped ==
  ASSUME LockBalanced', owner' \in Threads \cup {NoThread}
  PROVE  depth' \in 0..2
<1>1. CASE owner' = NoThread
  BY <1>1 DEF LockBalanced
<1>2. CASE owner' \in Threads
  BY <1>2 DEF LockBalanced
<1>3. QED
  BY <1>1, <1>2

\* Starting a call.
LEMMA CallStep ==
  ASSUME BufferInv, NEW t \in Threads, NEW o \in Ops, NEW v \in Elements, Call(t, o, v)
  PROVE  BufferInv'
<1> USE ElementsAssumption DEF BufferInv
<1>1. OthersKeep(t) /\ pc'[t] \in {"enter", "testEnter"} /\ op'[t] = o /\ pc' \in [Threads -> Labels]
      /\ (pc'[t] = "enter" => o \in {"push", "pop"})
      /\ (pc'[t] = "testEnter" => o \notin {"push", "pop"})
  BY DEF Call, Goto, TypeOK, OthersKeep, Labels
<1>2. LockBalanced'
  <2>1. ~HoldsOuter(t) /\ ~HoldsOuter(t)' /\ ~HoldsInner(t) /\ ~HoldsInner(t)'
    BY <1>1 DEF Call, HoldsOuter, HoldsInner, Transfers
  <2>2. UNCHANGED lock
    BY DEF Call
  <2>3. depth \in Nat
    BY DEF TypeOK
  <2>4. QED
    BY <1>1, <2>1, <2>2, <2>3, LockSteps
<1>3. CallInv(t)'
  BY <1>1 DEF CallInv, InRing, Transfers
<1>4. TypeOK'
  BY <1>1 DEF Call, TypeOK, fields, lock
<1>5. QED
  BY <1>1, <1>2, <1>3, <1>4, QuietStep DEF Call

\* Taking the lock, once or a second time.
LEMMA AcquireStep ==
  ASSUME BufferInv, NEW t \in Threads, Enter(t) \/ TestEnter(t)
  PROVE  BufferInv'
<1> USE DEF BufferInv
<1>1. /\ OthersKeep(t) /\ pc' \in [Threads -> Labels] /\ UNCHANGED op /\ Acquire(t)
      /\ \/ pc[t] = "enter" /\ pc'[t] = "testEnter"
         \/ pc[t] = "testEnter" /\ pc'[t] = "test"
  BY DEF Enter, TestEnter, Goto, TypeOK, OthersKeep, Labels
<1>2. LockBalanced'
  <2>1. Transfers(t)' <=> Transfers(t)
    BY <1>1 DEF Transfers
  <2>2. pc[t] = "enter" => Transfers(t)
    BY DEF CallInv
  <2>3. \/ ~HoldsOuter(t) /\ HoldsOuter(t)' /\ ~HoldsInner(t) /\ ~HoldsInner(t)'
        \/ (HoldsOuter(t)' <=> HoldsOuter(t)) /\ ~HoldsInner(t) /\ HoldsInner(t)'
    BY <1>1, <2>1, <2>2 DEF HoldsOuter, HoldsInner
  <2>4. depth \in Nat
    BY DEF TypeOK
  <2>5. QED
    BY <1>1, <2>3, <2>4, LockSteps
<1>3. CallInv(t)'
  BY <1>1 DEF CallInv, InRing, Transfers
<1>4. TypeOK'
  <2>1. depth' \in 0..2 /\ owner' \in Threads
    BY <1>1, <1>2, DepthTyped DEF Acquire
  <2>2. QED
    BY <1>1, <2>1 DEF Enter, TestEnter, TypeOK, fields
<1>5. UNCHANGED fields /\ UNCHANGED <<life, heap>> /\ life = "live"
  BY <1>1 DEF Enter, TestEnter, LifeInv, HeapInv
<1>6. QED
  BY <1>1, <1>2, <1>3, <1>4, <1>5, QuietStep

\* The verdict of isEmpty, isFull or getCount, under the lock.
LEMMA TestStep ==
  ASSUME BufferInv, NEW t \in Threads, Test(t)
  PROVE  BufferInv'
<1> USE DEF BufferInv
<1>1. /\ OthersKeep(t) /\ pc' \in [Threads -> Labels] /\ UNCHANGED <<op, owner, depth>>
      /\ pc[t] = "test" /\ pc'[t] = "testLeave"
      /\ op \in [Threads -> Ops]
  BY DEF Test, Goto, TypeOK, OthersKeep, Labels, lock
<1>2. Verdict(t) \in Tags \X Nat
  BY <1>1 DEF Verdict, Tags, Ops, TypeOK
<1>3. reply'[t] = Verdict(t) /\ reply' \in [Threads -> Tags \X Nat]
  BY <1>2 DEF Test, TypeOK
<1>4. LockBalanced'
  <2>1. (HoldsOuter(t)' <=> HoldsOuter(t)) /\ (HoldsInner(t)' <=> HoldsInner(t))
    BY <1>1 DEF HoldsOuter, HoldsInner, Transfers
  <2>2. UNCHANGED lock
    BY <1>1 DEF lock
  <2>3. depth \in Nat
    BY DEF TypeOK
  <2>4. QED
    BY <1>1, <2>1, <2>2, <2>3, LockSteps
<1>5. UNCHANGED fields /\ UNCHANGED <<life, heap>> /\ life = "live"
  BY <1>1 DEF Test, LifeInv, HeapInv
<1>6. CallInv(t)'
  <2>1. ~Refused(t)' => (op[t] = "push" => ~Full) /\ (op[t] = "pop" => ~Empty)
    <3>1. op[t] = "push" /\ Full => reply'[t][1] = "full"
      BY <1>3 DEF Verdict
    <3>2. op[t] = "pop" /\ Empty => reply'[t][1] = "empty"
      BY <1>3 DEF Verdict
    <3>3. QED
      BY <3>1, <3>2 DEF Refused
  <2>2. Full' = Full /\ Empty' = Empty
    BY <1>5 DEF fields, Full, Empty
  <2>3. QED
    BY <1>1, <2>1, <2>2 DEF CallInv, InRing
<1>7. TypeOK'
  BY <1>1, <1>3, <1>5 DEF Test, TypeOK, fields
<1>8. QED
  BY <1>1, <1>4, <1>5, <1>6, <1>7, QuietStep

\* What is left of the test once a push or a pop acts on it: there is room, or something.
LEMMA RoomOrElement ==
  ASSUME RingInv, TypeOK, \A t \in Threads : pc[t] # "tally"
  PROVE  (~Full => count < size) /\ (~Empty => count > 0)
BY DEF RingInv, TypeOK, Agree, Full, Empty

\* Releasing the lock: the nested one, or the outer one at the end.
LEMMA ReleaseStep ==
  ASSUME BufferInv, NEW t \in Threads, TestLeave(t) \/ Leave(t)
  PROVE  BufferInv'
<1> USE DEF BufferInv
<1>1. /\ OthersKeep(t) /\ pc' \in [Threads -> Labels] /\ Release(t) /\ UNCHANGED reply
      /\ op' \in [Threads -> Ops] /\ element' \in [Threads -> Nat]
      /\ \/ /\ pc[t] = "testLeave" /\ Transfers(t) /\ op'[t] = op[t]
            /\ pc'[t] = IF Refused(t) THEN "leave" ELSE "transfer"
         \/ pc[t] = "testLeave" /\ ~Transfers(t) /\ pc'[t] = "idle"
         \/ pc[t] = "leave" /\ pc'[t] = "idle"
  <2>1. {"idle", "leave", "transfer"} \subseteq Labels /\ "push" \in Ops /\ 0 \in Nat
    BY DEF Labels, Ops
  <2>2. CASE TestLeave(t) /\ Transfers(t)
    BY <2>1, <2>2 DEF TestLeave, Goto, TypeOK, OthersKeep
  <2>3. CASE TestLeave(t) /\ ~Transfers(t)
    BY <2>1, <2>3 DEF TestLeave, Finish, Goto, TypeOK, OthersKeep
  <2>4. CASE Leave(t)
    BY <2>1, <2>4 DEF Leave, Finish, Goto, TypeOK, OthersKeep
  <2>5. QED
    BY <2>2, <2>3, <2>4
<1>2. LockBalanced'
  <2>1. \/ HoldsOuter(t) /\ ~HoldsOuter(t)' /\ ~HoldsInner(t) /\ ~HoldsInner(t)'
        \/ (HoldsOuter(t)' <=> HoldsOuter(t)) /\ HoldsInner(t) /\ ~HoldsInner(t)'
    <3>1. CASE pc[t] = "testLeave" /\ Transfers(t)
      BY <1>1, <3>1 DEF HoldsOuter, HoldsInner, Transfers
    <3>2. CASE pc[t] = "testLeave" /\ ~Transfers(t)
      BY <1>1, <3>2 DEF HoldsOuter, HoldsInner
    <3>3. CASE pc[t] = "leave"
      BY <1>1, <3>3 DEF HoldsOuter, HoldsInner, CallInv
    <3>4. QED
      BY <1>1, <3>1, <3>2, <3>3
  <2>2. depth \in Nat
    BY DEF TypeOK
  <2>3. QED
    BY <1>1, <2>1, <2>2, LockSteps
<1>3. UNCHANGED fields /\ UNCHANGED <<life, heap>> /\ life = "live"
  BY <1>1 DEF TestLeave, Leave, LifeInv, HeapInv
<1>4. CallInv(t)'
  <2>1. CASE pc'[t] = "transfer"
    <3>1. pc[t] = "testLeave" /\ Transfers(t) /\ ~Refused(t) /\ op'[t] = op[t]
      BY <1>1, <2>1
    <3>2. \A u \in Threads : pc[u] # "tally"
      <4>1. HoldsInner(t)
        BY <3>1 DEF HoldsInner
      <4>2. \A u \in Threads \ {t} : ~HoldsOuter(u)
        BY <4>1, InsideAlone DEF Outside
      <4>3. QED
        BY <3>1, <4>2 DEF HoldsOuter, CallInv
    <3>3. (op[t] = "push" => count < size) /\ (op[t] = "pop" => count > 0)
      BY <1>3, <3>1, <3>2, RoomOrElement DEF CallInv
    <3>4. QED
      BY <1>3, <2>1, <3>1, <3>3 DEF CallInv, InRing, Transfers, fields
  <2>2. CASE pc'[t] # "transfer"
    BY <1>1, <2>2 DEF CallInv, InRing, Transfers
  <2>3. QED
    BY <2>1, <2>2
<1>5. TypeOK'
  <2>1. owner' \in Threads \cup {NoThread}
    BY <1>1 DEF Release
  <2>2. depth' \in 0..2
    BY <1>2, <2>1, DepthTyped
  <2>3. QED
    BY <1>1, <1>3, <2>1, <2>2 DEF TypeOK, fields
<1>6. QED
  BY <1>1, <1>2, <1>3, <1>4, <1>5, QuietStep

\* A thread in the ring is alone there, and everybody else is far from it.
LEMMA AloneInRing ==
  ASSUME BufferInv, NEW t \in Threads, InRing(t)
  PROVE  /\ life = "live" /\ RingInv /\ op[t] \in {"push", "pop"}
         /\ HoldsOuter(t) /\ ~HoldsInner(t)
         /\ \A u \in Threads \ {t} : Outside(u) /\ pc[u] # "tally"
         /\ size \in Nat \ {0} /\ indexr < size /\ indexw < size /\ count <= size
<1> USE DEF BufferInv
<1>1. life = "live" /\ RingInv
  BY DEF InRing, LifeInv, HeapInv
<1>2. Transfers(t) /\ HoldsOuter(t) /\ ~HoldsInner(t)
  BY DEF InRing, CallInv, HoldsOuter, HoldsInner
<1>3. \A u \in Threads \ {t} : Outside(u)
  BY <1>2, InsideAlone DEF Outside
<1>4. \A u \in Threads \ {t} : pc[u] # "tally"
  BY <1>3 DEF Outside, HoldsOuter, CallInv
<1>5. size \in Nat \ {0}
  <2>1. (op[t] = "push" => count < size) /\ (op[t] = "pop" => count > 0)
    BY DEF CallInv
  <2>2. op[t] \in {"push", "pop"}
    BY <1>2 DEF Transfers
  <2>3. size = 0 => count = 0
    BY <1>1 DEF RingInv
  <2>4. size \in Nat
    BY DEF TypeOK
  <2>5. QED
    BY <2>1, <2>2, <2>3, <2>4
<1>6. QED
  BY <1>1, <1>2, <1>3, <1>4, <1>5 DEF RingInv, Transfers

\* A step inside the ring preserves the invariant, given its effect on the ring.
LEMMA RingStep ==
  ASSUME BufferInv, NEW t \in Threads, InRing(t), OthersKeep(t),
         pc'[t] \in {"advance", "tally", "leave"}, UNCHANGED <<life, heap, lock, op>>,
         TypeOK', RingInv', InRing(t)' => CallInv(t)'
  PROVE  BufferInv'
<1>1. LockBalanced'
  <2>1. (HoldsOuter(t)' <=> HoldsOuter(t)) /\ (HoldsInner(t)' <=> HoldsInner(t))
    BY AloneInRing DEF HoldsOuter, HoldsInner, Transfers
  <2>2. depth \in Nat
    BY DEF BufferInv, TypeOK
  <2>3. QED
    BY <2>1, <2>2, LockSteps DEF BufferInv
<1>2. \A u \in Threads \ {t} : CallInv(u)'
  BY AloneInRing, OutsideUndisturbed DEF BufferInv, OthersKeep
<1>3. CallInv(t)'
  BY AloneInRing DEF CallInv, InRing, Transfers
<1>4. LifeInv'
  BY AloneInRing DEF BufferInv, LifeInv, HeapInv
<1>5. QED
  BY <1>1, <1>2, <1>3, <1>4 DEF BufferInv

\* Storing or fetching the element.
LEMMA TransferStep ==
  ASSUME BufferInv, NEW t \in Threads, Transfer(t)
  PROVE  BufferInv'
<1> USE DEF BufferInv
<1>1. /\ InRing(t) /\ InRing(t)' /\ OthersKeep(t) /\ pc' \in [Threads -> Labels]
      /\ pc[t] = "transfer" /\ pc'[t] = "advance"
      /\ UNCHANGED <<life, heap, size, indexr, indexw, count, owner, depth, op, reply>>
  BY DEF Transfer, Goto, TypeOK, OthersKeep, Labels, InRing, lock
<1>2. TypeOK'
  <2>1. indexr \in 0..(size - 1)
    BY <1>1, AloneInRing DEF TypeOK
  <2>2. storage' \in [0..(size - 1) -> Nat] /\ element' \in [Threads -> Nat]
    BY <2>1 DEF Transfer, TypeOK
  <2>3. QED
    BY <1>1, <2>2 DEF TypeOK
<1>3. RingInv'
  <2>1. \A u \in Threads : pc[u] # "tally" /\ pc'[u] # "tally"
    BY <1>1, AloneInRing DEF OthersKeep
  <2>2. QED
    BY <1>1, <2>1, AloneInRing DEF RingInv, Agree
<1>4. CallInv(t)'
  BY <1>1 DEF CallInv, InRing, Transfers
<1>5. QED
  BY <1>1, <1>2, <1>3, <1>4, RingStep DEF lock

\* Moving the index to the next cell.
LEMMA AdvanceStep ==
  ASSUME BufferInv, NEW t \in Threads, Advance(t)
  PROVE  BufferInv'
<1> USE DEF BufferInv
<1>1. /\ InRing(t) /\ InRing(t)' /\ OthersKeep(t) /\ pc' \in [Threads -> Labels]
      /\ pc[t] = "advance" /\ pc'[t] = "tally"
      /\ UNCHANGED <<life, heap, size, storage, count, owner, depth, op, element, reply>>
  BY DEF Advance, Goto, TypeOK, OthersKeep, Labels, InRing, lock
<1>2. /\ size \in Nat \ {0} /\ indexr \in Nat /\ indexw \in Nat /\ count \in Nat
      /\ indexr < size /\ indexw < size /\ count <= size
      /\ Agree(indexr, count, indexw)
  BY <1>1, AloneInRing DEF RingInv, TypeOK
<1>3. CASE op[t] = "push"
  <2>1. /\ indexw' = IF indexw + 1 = size THEN 0 ELSE indexw + 1
        /\ indexr' = indexr
    BY <1>2, <1>3, NextIndex DEF Advance
  <2>2. count < size
    BY <1>1, <1>3 DEF CallInv
  <2>3. indexw' \in Nat /\ indexw' < size /\ Agree(indexr, count + 1, indexw')
    <3>1. CASE indexw + 1 = size
      BY <1>2, <2>1, <2>2, <3>1 DEF Agree
    <3>2. CASE indexw + 1 # size
      BY <1>2, <2>1, <2>2, <3>2 DEF Agree
    <3>3. QED
      BY <3>1, <3>2
  <2>4. RingInv'
    BY <1>1, <1>2, <1>3, <2>1, <2>3, AloneInRing DEF RingInv, Agree, OthersKeep
  <2>5. TypeOK'
    BY <1>1, <2>1, <2>3 DEF TypeOK
  <2>6. CallInv(t)'
    BY <1>1, <1>3, <2>2 DEF CallInv, InRing, Transfers
  <2>7. QED
    BY <1>1, <2>4, <2>5, <2>6, RingStep DEF lock
<1>4. CASE op[t] = "pop"
  <2>1. /\ indexr' = IF indexr + 1 = size THEN 0 ELSE indexr + 1
        /\ indexw' = indexw
    BY <1>2, <1>4, NextIndex DEF Advance
  <2>2. count > 0
    BY <1>1, <1>4 DEF CallInv
  <2>3. indexr' \in Nat /\ indexr' < size /\ Agree(indexr', count - 1, indexw)
    BY <1>2, <2>1, <2>2 DEF Agree
  <2>4. RingInv'
    BY <1>1, <1>2, <1>4, <2>1, <2>3, AloneInRing DEF RingInv, Agree, OthersKeep
  <2>5. TypeOK'
    BY <1>1, <2>1, <2>3 DEF TypeOK
  <2>6. CallInv(t)'
    BY <1>1, <1>4, <2>2 DEF CallInv, InRing, Transfers
  <2>7. QED
    BY <1>1, <2>4, <2>5, <2>6, RingStep DEF lock
<1>5. QED
  BY <1>3, <1>4 DEF Advance

\* Counting the element in or out.
LEMMA TallyStep ==
  ASSUME BufferInv, NEW t \in Threads, CountStep(t)
  PROVE  BufferInv'
<1> USE DEF BufferInv
<1>1. /\ InRing(t) /\ ~InRing(t)' /\ OthersKeep(t) /\ pc' \in [Threads -> Labels]
      /\ pc[t] = "tally" /\ pc'[t] = "leave"
      /\ UNCHANGED <<life, heap, size, storage, indexr, indexw, owner, depth, op, element>>
  BY DEF CountStep, Answer, Goto, TypeOK, OthersKeep, Labels, InRing, lock
<1>2. /\ size \in Nat \ {0} /\ indexr \in Nat /\ indexw \in Nat /\ count \in Nat
      /\ indexr < size /\ indexw < size /\ count <= size
  BY <1>1, AloneInRing DEF TypeOK
<1>3. reply' \in [Threads -> Tags \X Nat]
  <2>1. element[t] \in Nat /\ "ok" \in Tags
    BY DEF TypeOK, Tags
  <2>2. QED
    BY <2>1 DEF CountStep, Answer, TypeOK
<1>4. /\ count' \in Nat /\ count' <= size /\ Agree(indexr, count', indexw)
  <2>1. CASE op[t] = "push"
    <3>1. count < size
      BY <1>1, <2>1 DEF CallInv
    <3>2. Agree(indexr, count + 1, indexw)
      BY <1>1, <2>1, AloneInRing DEF RingInv
    <3>3. count' = count + 1
      BY <2>1 DEF CountStep
    <3>4. count' \in Nat /\ count' <= size
      BY <1>2, <3>1, <3>3
    <3>5. QED
      BY <3>2, <3>3, <3>4
  <2>2. CASE op[t] = "pop"
    <3>1. count > 0
      BY <1>1, <2>2 DEF CallInv
    <3>2. Agree(indexr, count - 1, indexw)
      BY <1>1, <2>2, AloneInRing DEF RingInv
    <3>3. count' = count - 1
      BY <2>2 DEF CountStep
    <3>4. count' \in Nat /\ count' <= size
      BY <1>2, <3>1, <3>3
    <3>5. QED
      BY <3>2, <3>3, <3>4
  <2>3. QED
    BY <2>1, <2>2 DEF CountStep
<1>5. RingInv'
  <2>1. \A u \in Threads : pc'[u] # "tally"
    BY <1>1, AloneInRing DEF OthersKeep
  <2>2. QED
    BY <1>1, <1>2, <1>4, <2>1 DEF RingInv, Agree
<1>6. TypeOK'
  BY <1>1, <1>3, <1>4 DEF TypeOK
<1>7. QED
  BY <1>1, <1>5, <1>6, RingStep DEF lock

-----------------------------------------------------------------------------
\* BufferInv is an invariant of every buffer that is not initialised twice.
LEMMA BufferInvariant == ~Reuse => (Spec => []BufferInv)
<1> SUFFICES ASSUME ~Reuse PROVE Spec => []BufferInv
  OBVIOUS
<1>1. BufferInv /\ [Next]_vars => BufferInv'
  <2> SUFFICES ASSUME BufferInv, [Next]_vars PROVE BufferInv'
    OBVIOUS
  <2>1. CASE Lifecycle
    BY <2>1, LifecycleInv
  <2>2. ASSUME NEW t \in Threads, Step(t) PROVE BufferInv'
    BY <2>2, AcquireStep, TestStep, ReleaseStep, TransferStep, AdvanceStep, TallyStep DEF Step
  <2>3. ASSUME NEW t \in Threads, NEW o \in Ops, NEW v \in Elements, Call(t, o, v)
        PROVE  BufferInv'
    BY <2>3, CallStep
  <2>4. CASE UNCHANGED vars
    BY <2>4 DEF vars, fields, lock, calls, BufferInv, TypeOK, LockBalanced, HoldsOuter, HoldsInner,
                LifeInv, HeapInv, CallInv, InRing, Transfers, Refused, Full, Empty, RingInv, Agree
  <2>5. QED
    BY <2>1, <2>2, <2>3, <2>4 DEF Next
<1>2. QED
  BY <1>1, InitInv, PTL DEF Spec

\* Every field keeps its type: in particular the counters never underflow and no access
\* leaves the storage.
THEOREM BufferTypeCorrect == ~Reuse => (Spec => []TypeOK)
<1>1. BufferInv => TypeOK
  BY DEF BufferInv
<1>2. QED
  BY <1>1, BufferInvariant, PTL

\* Whenever the lock is free, the indices and the count describe the same contents.
THEOREM CountersAlwaysAgree == ~Reuse => (Spec => []CountersAgree)
BY InvImpliesCountersAgree, BufferInvariant, PTL

-----------------------------------------------------------------------------
(* The lock and the buffer's life do not depend on the ring: what follows holds with   *)
(* Reuse too, when a second init finds stale indices and RingInv is lost.              *)

PassageInv ==
  /\ owner \in Threads \cup {NoThread} /\ depth \in Nat
  /\ op \in [Threads -> Ops] /\ pc \in [Threads -> Labels] /\ DOMAIN reply = Threads
  /\ LockBalanced /\ HeapInv
  /\ \A t \in Threads : pc[t] \in {"enter", "transfer", "advance", "tally", "leave"} => Transfers(t)

\* Each step of a call, by the place it leaves, the place it reaches and the lock.
Passage(t) ==
  \/ pc[t] = "enter" /\ pc'[t] = "testEnter" /\ op'[t] = op[t] /\ Acquire(t)
  \/ pc[t] = "testEnter" /\ pc'[t] = "test" /\ op'[t] = op[t] /\ Acquire(t)
  \/ pc[t] = "test" /\ pc'[t] = "testLeave" /\ op'[t] = op[t] /\ UNCHANGED lock
  \/ /\ pc[t] = "testLeave" /\ pc'[t] \in {"transfer", "leave"} /\ op'[t] = op[t]
     /\ Transfers(t) /\ Release(t)
  \/ pc[t] = "testLeave" /\ pc'[t] = "idle" /\ ~Transfers(t) /\ Release(t)
  \/ pc[t] = "transfer" /\ pc'[t] = "advance" /\ op'[t] = op[t] /\ UNCHANGED lock
  \/ pc[t] = "advance" /\ pc'[t] = "tally" /\ op'[t] = op[t] /\ UNCHANGED lock
  \/ pc[t] = "tally" /\ pc'[t] = "leave" /\ op'[t] = op[t] /\ UNCHANGED lock
  \/ pc[t] = "leave" /\ pc'[t] = "idle" /\ Release(t)

\* The eight actions of a call are such passages, and touch no other thread.
LEMMA StepIsPassage ==
  ASSUME PassageInv, NEW t \in Threads, Step(t)
  PROVE  /\ Passage(t) /\ OthersKeep(t) /\ UNCHANGED <<life, heap>>
         /\ op' \in [Threads -> Ops] /\ pc' \in [Threads -> Labels] /\ DOMAIN reply' = Threads
<1> USE DEF PassageInv, Passage, OthersKeep
<1>1. ASSUME NEW label \in Labels, Goto(t, label)
      PROVE  /\ pc'[t] = label /\ pc' \in [Threads -> Labels]
             /\ \A u \in Threads \ {t} : pc'[u] = pc[u]
  BY <1>1 DEF Goto
<1>2. {"idle", "testEnter", "test", "testLeave", "transfer", "advance", "tally", "leave"}
        \subseteq Labels /\ "push" \in Ops
  BY DEF Labels, Ops
<1>3. CASE Enter(t)
  BY <1>1, <1>2, <1>3 DEF Enter
<1>4. CASE TestEnter(t)
  BY <1>1, <1>2, <1>4 DEF TestEnter
<1>5. CASE Test(t)
  BY <1>1, <1>2, <1>5 DEF Test
<1>6. CASE TestLeave(t)
  BY <1>1, <1>2, <1>6 DEF TestLeave, Finish
<1>7. CASE Transfer(t)
  BY <1>1, <1>2, <1>7 DEF Transfer
<1>8. CASE Advance(t)
  BY <1>1, <1>2, <1>8 DEF Advance
<1>9. CASE CountStep(t)
  BY <1>1, <1>2, <1>9 DEF CountStep, Answer
<1>10. CASE Leave(t)
  BY <1>1, <1>2, <1>10 DEF Leave, Finish
<1>11. QED
  BY <1>3, <1>4, <1>5, <1>6, <1>7, <1>8, <1>9, <1>10 DEF Step

\* A passage takes and gives the lock in the order in which the places hold it.
LEMMA PassageBalanced ==
  ASSUME PassageInv, NEW t \in Threads, Passage(t), OthersKeep(t)
  PROVE  LockBalanced'
<1>1. op'[t] = op[t] => (Transfers(t)' <=> Transfers(t))
  BY DEF Transfers
<1>2. pc[t] \in {"enter", "transfer", "advance", "tally", "leave"} => Transfers(t)
  BY DEF PassageInv
<1>3. \/ UNCHANGED lock /\ (HoldsOuter(t)' <=> HoldsOuter(t)) /\ (HoldsInner(t)' <=> HoldsInner(t))
      \/ /\ Acquire(t)
         /\ \/ ~HoldsOuter(t) /\ HoldsOuter(t)' /\ ~HoldsInner(t) /\ ~HoldsInner(t)'
            \/ (HoldsOuter(t)' <=> HoldsOuter(t)) /\ ~HoldsInner(t) /\ HoldsInner(t)'
      \/ /\ Release(t)
         /\ \/ HoldsOuter(t) /\ ~HoldsOuter(t)' /\ ~HoldsInner(t) /\ ~HoldsInner(t)'
            \/ (HoldsOuter(t)' <=> HoldsOuter(t)) /\ HoldsInner(t) /\ ~HoldsInner(t)'
  BY <1>1, <1>2 DEF Passage, HoldsOuter, HoldsInner
<1>4. QED
  BY <1>3, LockSteps DEF PassageInv

\* The owner's steps leave the lock and the calls alone, and give back what they took.
LEMMA LifecyclePassage ==
  ASSUME PassageInv, Lifecycle
  PROVE  UNCHANGED <<owner, depth, op, pc, reply>> /\ HeapInv'
<1>1. UNCHANGED <<owner, depth, op, pc, reply>>
  BY DEF Lifecycle, CreateStorage, CreateInstance, CreateLock, InitEmbedded, DeinitEmbedded,
         DeleteStorage, DeleteLock, DeleteInstance, lock, calls
<1> USE <1>1 DEF PassageInv, HeapInv
<1>2. CASE CreateStorage
  BY <1>2 DEF CreateStorage
<1>3. CASE CreateInstance
  BY <1>3 DEF CreateInstance
<1>4. CASE \E c \in Sizes : CreateLock(c) \/ InitEmbedded(c)
  BY <1>4 DEF CreateLock, InitEmbedded
<1>5. CASE DeinitEmbedded
  BY <1>5 DEF DeinitEmbedded, Unused
<1>6. CASE DeleteStorage
  <2>1. life = "live" /\ heap = {"array", "object", "mutex"} /\ \A t \in Threads : pc[t] = "idle"
    BY <1>6 DEF DeleteStorage, Unused
  <2>2. heap \ {"array"} = {"object", "mutex"}
    BY <2>1
  <2>3. QED
    BY <1>6, <2>1, <2>2 DEF DeleteStorage
<1>7. CASE DeleteLock
  BY <1>7 DEF DeleteLock
<1>8. CASE DeleteInstance
  BY <1>8 DEF DeleteInstance
<1>9. QED
  BY <1>1, <1>2, <1>3, <1>4, <1>5, <1>6, <1>7, <1>8 DEF Lifecycle

\* PassageInv is an invariant of every buffer, initialised again or not.
LEMMA PassageInvariant == Spec => []PassageInv
<1>1. Init => PassageInv
  BY NoThreadAssumption DEF Init, PassageInv, HeapInv, LockBalanced, HoldsOuter, HoldsInner,
                            Ops, Labels
<1>2. PassageInv /\ [Next]_vars => PassageInv'
  <2> SUFFICES ASSUME PassageInv, [Next]_vars PROVE PassageInv'
    OBVIOUS
  <2>1. CASE Lifecycle
    BY <2>1, LifecyclePassage DEF PassageInv, LockBalanced, HoldsOuter, HoldsInner, Transfers
  <2>2. ASSUME NEW t \in Threads, Step(t)
        PROVE  PassageInv'
    <3>1. /\ Passage(t) /\ OthersKeep(t) /\ UNCHANGED <<life, heap>>
          /\ op' \in [Threads -> Ops] /\ pc' \in [Threads -> Labels] /\ DOMAIN reply' = Threads
      BY <2>2, StepIsPassage
    <3>2. LockBalanced'
      BY <3>1, PassageBalanced
    <3>3. owner' \in Threads \cup {NoThread}
      BY <3>1 DEF Passage, Acquire, Release, lock, PassageInv
    <3>4. depth' \in 0..2
      BY <3>2, <3>3, DepthTyped
    <3>5. HeapInv'
      <4>1. pc[t] # "idle"
        BY <3>1 DEF Passage
      <4>2. QED
        BY <3>1, <4>1 DEF PassageInv, HeapInv
    <3>6. \A u \in Threads :
            pc'[u] \in {"enter", "transfer", "advance", "tally", "leave"} => Transfers(u)'
      <4>1. pc'[t] \in {"enter", "transfer", "advance", "tally", "leave"} => Transfers(t)'
        BY <3>1 DEF Passage, Transfers, PassageInv
      <4>2. QED
        BY <3>1, <4>1 DEF OthersKeep, Transfers, PassageInv
    <3>7. QED
      BY <3>1, <3>2, <3>3, <3>4, <3>5, <3>6 DEF PassageInv
  <2>3. ASSUME NEW t \in Threads, NEW o \in Ops, NEW v \in Elements, Call(t, o, v)
        PROVE  PassageInv'
    <3>1. /\ OthersKeep(t) /\ UNCHANGED <<life, heap, owner, depth, reply>> /\ life = "live"
          /\ pc[t] = "idle" /\ op'[t] = o
          /\ pc'[t] = IF o \in {"push", "pop"} THEN "enter" ELSE "testEnter"
          /\ op' \in [Threads -> Ops] /\ pc' \in [Threads -> Labels]
      BY <2>3 DEF Call, Goto, lock, OthersKeep, PassageInv, Labels
    <3>2. LockBalanced'
      <4>1. ~HoldsOuter(t) /\ ~HoldsOuter(t)' /\ ~HoldsInner(t) /\ ~HoldsInner(t)'
        BY <3>1 DEF HoldsOuter, HoldsInner, Transfers
      <4>2. QED
        BY <3>1, <4>1, LockSteps DEF PassageInv, lock
    <3>3. QED
      BY <3>1, <3>2 DEF PassageInv, HeapInv, OthersKeep, Transfers
  <2>4. CASE UNCHANGED vars
    BY <2>4 DEF vars, lock, calls, PassageInv, HeapInv, LockBalanced, HoldsOuter, HoldsInner,
                Transfers
  <2>5. QED
    BY <2>1, <2>2, <2>3, <2>4 DEF Next
<1>3. QED
  BY <1>1, <1>2, PTL DEF Spec

\* The recursive lock is balanced on every path through every method.
THEOREM LockIsBalanced == Spec => []LockBalanced
<1>1. PassageInv => LockBalanced
  BY DEF PassageInv
<1>2. QED
  BY <1>1, PassageInvariant, PTL

\* No path through creation and destruction leaves an allocation behind.
THEOREM BufferNeverLeaks == Spec => []NothingLeaks
<1>1. PassageInv => NothingLeaks
  BY DEF PassageInv, HeapInv, NothingLeaks
<1>2. QED
  BY <1>1, PassageInvariant, PTL

-----------------------------------------------------------------------------
(* Progress, the safety half of SomeCallReturns: no deadlock on the lock, and calls   *)
(* that only come closer to their end.                                                *)

\* The steps of a call from each of its places to the end, those skipped by isEmpty,
\* isFull and getCount included.
Left(label) ==
  CASE label = "enter" -> 8
    [] label = "testEnter" -> 7
    [] label = "test" -> 6
    [] label = "testLeave" -> 5
    [] label = "transfer" -> 4
    [] label = "advance" -> 3
    [] label = "tally" -> 2
    [] label = "leave" -> 1
    [] OTHER -> 0

\* The guards of Step(t).
CanStep(t) ==
  \/ pc[t] \in {"enter", "testEnter"} /\ owner \in {NoThread, t}
  \/ pc[t] = "test"
  \/ pc[t] \in {"testLeave", "leave"} /\ owner = t
  \/ pc[t] \in {"transfer", "advance", "tally"} /\ Transfers(t)

\* A thread in a call waits at the two doors only, and then for a thread that waits for
\* nobody.
NoDeadlock ==
  \A t \in Threads :
    pc[t] # "idle" /\ ~CanStep(t) =>
      /\ pc[t] \in {"enter", "testEnter"}
      /\ owner \in Threads \ {t} /\ pc[owner] # "idle" /\ CanStep(owner)

\* A thread in a call comes closer to its end by each step of its own, and nobody else
\* throws it back.
Closer ==
  \A t \in Threads :
    pc[t] # "idle" => IF Step(t) THEN Left(pc'[t]) < Left(pc[t]) ELSE pc'[t] = pc[t]

\* The lock's holder is never behind a door that somebody else keeps shut, so a nested
\* lock cannot block its own thread nor two threads each other.
THEOREM LockNeverDeadlocks == Spec => []NoDeadlock
<1>1. PassageInv => NoDeadlock
  <2> SUFFICES ASSUME PassageInv
               PROVE  NoDeadlock
    OBVIOUS
  <2>1. owner \in Threads \cup {NoThread} /\ \A t \in Threads : pc[t] \in Labels
    BY DEF PassageInv
  <2>2. \A t \in Threads : owner = t <=> HoldsOuter(t) \/ HoldsInner(t)
    BY DEF PassageInv, LockBalanced
  <2>3. \A t \in Threads : pc[t] \in {"enter", "transfer", "advance", "tally", "leave"} => Transfers(t)
    BY DEF PassageInv
  <2>4. ASSUME NEW t \in Threads, owner = t
        PROVE  pc[t] # "idle" /\ CanStep(t)
    BY <2>1, <2>2, <2>3, <2>4 DEF HoldsOuter, HoldsInner, CanStep, Labels
  <2>5. ASSUME NEW t \in Threads, pc[t] # "idle", ~CanStep(t)
        PROVE  pc[t] \in {"enter", "testEnter"} /\ owner \in Threads \ {t}
    BY <2>1, <2>2, <2>3, <2>5 DEF HoldsOuter, HoldsInner, CanStep, Labels
  <2>6. QED
    BY <2>4, <2>5 DEF NoDeadlock
<1>2. QED
  BY <1>1, PassageInvariant, PTL

\* The places in the order in which a call passes them.
LEMMA FewerLeft ==
  ASSUME NEW a, NEW b,
         \/ a = "enter" /\ b = "testEnter"
         \/ a = "testEnter" /\ b = "test"
         \/ a = "test" /\ b = "testLeave"
         \/ a = "testLeave" /\ b \in {"transfer", "leave", "idle"}
         \/ a = "transfer" /\ b = "advance"
         \/ a = "advance" /\ b = "tally"
         \/ a = "tally" /\ b = "leave"
         \/ a = "leave" /\ b = "idle"
  PROVE  Left(b) < Left(a)
<1>1. ASSUME NEW c
      PROVE  /\ c = "enter" => Left(c) = 8
             /\ c = "testEnter" => Left(c) = 7
             /\ c = "test" => Left(c) = 6
             /\ c = "testLeave" => Left(c) = 5
             /\ c = "transfer" => Left(c) = 4
             /\ c = "advance" => Left(c) = 3
             /\ c = "tally" => Left(c) = 2
             /\ c = "leave" => Left(c) = 1
             /\ c = "idle" => Left(c) = 0
  BY DEF Left
<1>2. QED
  BY <1>1

\* A call takes at most eight steps of its thread, however the calls interleave.
THEOREM CallsOnlyAdvance == Spec => [][Closer]_vars
<1>1. PassageInv /\ [Next]_vars => [Closer]_vars
  <2> SUFFICES ASSUME PassageInv, Next, NEW t \in Threads, pc[t] # "idle"
               PROVE  IF Step(t) THEN Left(pc'[t]) < Left(pc[t]) ELSE pc'[t] = pc[t]
    BY DEF Closer
  <2>1. DOMAIN pc = Threads
    BY DEF PassageInv
  <2>2. CASE Step(t)
    <3>1. Passage(t)
      BY <2>2, StepIsPassage
    <3>2. Left(pc'[t]) < Left(pc[t])
      BY <3>1, FewerLeft DEF Passage
    <3>3. QED
      BY <2>2, <3>2
  <2>3. ASSUME ~Step(t)
        PROVE  pc'[t] = pc[t]
    <3>1. CASE Lifecycle
      BY <3>1, LifecyclePassage
    <3>2. ASSUME NEW u \in Threads, NEW o \in Ops, NEW v \in Elements, Call(u, o, v)
          PROVE  pc'[t] = pc[t]
      BY <2>1, <3>2 DEF Call, Goto
    <3>3. ASSUME NEW u \in Threads, Step(u)
          PROVE  pc'[t] = pc[t]
      <4>1. u # t
        BY <2>3, <3>3
      <4>2. QED
        BY <3>3, <4>1, StepIsPassage DEF OthersKeep
    <3>4. QED
      BY <3>1, <3>2, <3>3 DEF Next
  <2>4. QED
    BY <2>2, <2>3
<1>2. QED
  BY <1>1, PassageInvariant, PTL DEF Spec

-----------------------------------------------------------------------------
(* Refinement.  The ring is read as a queue through a modulo; the view below says the *)
(* same in a linear form, and Holding what the moving thread knows of its element.    *)

Wrap(a) == IF a < size THEN a ELSE a - size
Before == IF indexr = 0 THEN size - 1 ELSE indexr - 1
Start == IF \E t \in Threads : op[t] = "pop" /\ pc[t] = "tally" THEN Before ELSE indexr

QueueView ==
  IF life = "live"
  THEN /\ queueBar \in Seq(Nat) /\ Len(queueBar) = count
       /\ count > 0 => Start \in 0..(size - 1)
       /\ \A k \in 1..count : /\ Wrap(Start + k - 1) \in 0..(size - 1)
                              /\ queueBar[k] = storage[Wrap(Start + k - 1)]
  ELSE queueBar = <<>>

Holding(t) ==
  /\ pc[t] # "idle" /\ op[t] = "push" => element[t] \in Elements
  /\ pc[t] = "advance" =>
       element[t] = IF op[t] = "push" THEN storage[indexw] ELSE storage[indexr]
  /\ pc[t] = "tally" =>
       element[t] = IF op[t] = "push" THEN storage[Wrap(indexr + count)] ELSE storage[Before]

AllHolding == \A t \in Threads : Holding(t)

ViewInv == BufferInv /\ QueueView /\ AllHolding

\* The modulo of the code, below twice the size.
LEMMA WrapIsModulo ==
  ASSUME NEW s \in Nat \ {0}, NEW a \in Nat, a < 2 * s
  PROVE  a % s = IF a < s THEN a ELSE a - s
<1>1. \A b \in Nat : b < s => b % s = b
  OBVIOUS
<1>2. \A b \in Nat : b >= s /\ b < 2 * s => b % s = b - s
  OBVIOUS
<1>3. QED
  BY <1>1, <1>2

\* The queue is the ring from its first element on.
LEMMA RingIsQueue == BufferInv => QueueView
<1> SUFFICES ASSUME BufferInv PROVE QueueView
  OBVIOUS
<1>1. CASE life # "live"
  BY <1>1 DEF QueueView, queueBar
<1>2. CASE life = "live"
  <2>1. /\ size \in Nat /\ indexr \in Nat /\ count \in Nat /\ storage \in [0..(size - 1) -> Nat]
        /\ IF size = 0 THEN count = 0 ELSE indexr < size /\ count <= size
    BY <1>2 DEF BufferInv, TypeOK, RingInv
  <2>2. size # 0 => First = Start /\ Start \in 0..(size - 1)
    <3> SUFFICES ASSUME size # 0 PROVE First = Start /\ Start \in 0..(size - 1)
      OBVIOUS
    <3>1. /\ indexr + size - 1 \in Nat /\ indexr + size - 1 < 2 * size
          /\ size \in Nat \ {0} /\ indexr \in Nat
      BY <2>1
    <3>2. (indexr + size - 1) % size = IF indexr + size - 1 < size THEN indexr + size - 1
                                                               ELSE indexr + size - 1 - size
      <4>1. \A a \in Nat : a < 2 * size => a % size = IF a < size THEN a ELSE a - size
        BY <3>1, WrapIsModulo
      <4> DEFINE a == indexr + size - 1
      <4>2. a \in Nat /\ a < 2 * size
        BY <3>1
      <4> HIDE DEF a
      <4>3. a % size = IF a < size THEN a ELSE a - size
        BY <4>1, <4>2
      <4>4. QED
        BY <3>1, <4>3 DEF a
    <3>3. (indexr + size - 1) % size = Before
      BY <2>1, <3>2 DEF Before
    <3>4. Before \in 0..(size - 1) /\ indexr \in 0..(size - 1)
      BY <2>1 DEF Before
    <3>5. QED
      BY <3>3, <3>4 DEF First, Start
  <2>3. ASSUME NEW k \in 1..count
        PROVE  /\ (First + k - 1) % size = Wrap(Start + k - 1)
               /\ Wrap(Start + k - 1) \in 0..(size - 1)
    <3>1. size \in Nat \ {0} /\ k \in Nat /\ k >= 1 /\ k <= size
      BY <2>1
    <3>2. First = Start /\ Start \in Nat /\ Start < size
      BY <2>2, <3>1
    <3>3. Start + k - 1 \in Nat /\ Start + k - 1 < 2 * size
      BY <3>1, <3>2
    <3>4. (Start + k - 1) % size = Wrap(Start + k - 1)
      BY <3>1, <3>3, WrapIsModulo DEF Wrap
    <3>5. QED
      BY <3>1, <3>2, <3>3, <3>4 DEF Wrap
  <2>4. queueBar = [k \in 1..count |-> storage[Wrap(Start + k - 1)]]
    BY <1>2, <2>3 DEF queueBar
  <2>5. \A k \in 1..count : storage[Wrap(Start + k - 1)] \in Nat
    BY <2>1, <2>3
  <2>6. queueBar \in Seq(Nat) /\ Len(queueBar) = count
    BY <2>1, <2>4, <2>5
  <2>7. QED
    BY <1>2, <2>1, <2>2, <2>3, <2>4, <2>6 DEF QueueView
<1>3. QED
  BY <1>1, <1>2

\* What a thread knows of its element stays while others move: in the ring it is alone.
LEMMA HoldingUndisturbed ==
  ASSUME NEW u \in Threads, Holding(u),
         pc'[u] = pc[u], op'[u] = op[u], element'[u] = element[u],
         UNCHANGED fields \/ pc[u] \notin {"advance", "tally"}
  PROVE  Holding(u)'
BY DEF Holding, fields, Wrap, Before

\* The element stored is the one counted, and the one fetched was the first.
LEMMA RingHolding ==
  ASSUME BufferInv, NEW t \in Threads, Holding(t), Transfer(t) \/ Advance(t) \/ CountStep(t)
  PROVE  Holding(t)'
<1>1. InRing(t)
  BY DEF InRing, Transfer, Advance, CountStep
<1>2. /\ RingInv /\ op[t] \in {"push", "pop"} /\ CallInv(t)
      /\ size \in Nat \ {0} /\ indexr \in Nat /\ indexw \in Nat /\ count \in Nat
      /\ indexr < size /\ indexw < size /\ count <= size
      /\ storage \in [0..(size - 1) -> Nat]
      /\ \A u \in Threads \ {t} : pc[u] # "tally"
  BY <1>1, AloneInRing DEF BufferInv, TypeOK
<1>3. pc \in [Threads -> Labels] /\ element \in [Threads -> Nat]
  BY DEF BufferInv, TypeOK
<1>4. CASE Transfer(t)
  BY <1>2, <1>3, <1>4 DEF Transfer, Goto, Holding
<1>5. CASE Advance(t) /\ op[t] = "push"
  <2>1. /\ storage' = storage /\ element' = element /\ op' = op /\ pc'[t] = "tally"
        /\ UNCHANGED <<size, indexr, count>> /\ pc[t] = "advance"
    BY <1>3, <1>5 DEF Advance, Goto
  <2>2. Agree(indexr, count, indexw)
    BY <1>2, <2>1 DEF RingInv
  <2>3. Wrap(indexr + count) = indexw
    BY <1>2, <2>2 DEF Wrap, Agree
  <2>4. element[t] = storage[indexw] /\ element[t] \in Elements
    BY <1>5, <2>1 DEF Holding
  <2>5. QED
    BY <1>5, <2>1, <2>3, <2>4 DEF Holding, Wrap
<1>6. CASE Advance(t) /\ op[t] = "pop"
  <2>1. /\ storage' = storage /\ element' = element /\ op' = op /\ pc'[t] = "tally"
        /\ UNCHANGED size /\ pc[t] = "advance" /\ indexr' = (indexr + 1) % size
    BY <1>3, <1>6 DEF Advance, Goto
  <2>2. indexr' = IF indexr + 1 = size THEN 0 ELSE indexr + 1
    BY <1>2, <2>1, NextIndex
  <2>3. Before' = indexr
    BY <1>2, <2>1, <2>2 DEF Before
  <2>4. element[t] = storage[indexr]
    BY <1>6, <2>1 DEF Holding
  <2>5. QED
    BY <1>6, <2>1, <2>3, <2>4 DEF Holding
<1>7. CASE CountStep(t)
  BY <1>3, <1>7 DEF CountStep, Goto, Holding
<1>8. QED
  BY <1>2, <1>4, <1>5, <1>6, <1>7

\* The other steps of a call bring no element, but for the argument of push.
LEMMA CallHolding ==
  ASSUME BufferInv, NEW t \in Threads, Holding(t),
         \/ \E o \in Ops, v \in Elements : Call(t, o, v)
         \/ Enter(t) \/ TestEnter(t) \/ Test(t) \/ TestLeave(t) \/ Leave(t)
  PROVE  Holding(t)'
<1>1. pc \in [Threads -> Labels] /\ element \in [Threads -> Nat] /\ op \in [Threads -> Ops]
  BY DEF BufferInv, TypeOK
<1>2. CASE \E o \in Ops, v \in Elements : Call(t, o, v)
  BY <1>1, <1>2 DEF Call, Goto, Holding
<1>3. CASE Enter(t) \/ TestEnter(t) \/ Test(t)
  BY <1>1, <1>3 DEF Enter, TestEnter, Test, Goto, Holding
<1>4. CASE TestLeave(t) \/ Leave(t)
  BY <1>1, <1>4 DEF TestLeave, Leave, Finish, Goto, Holding
<1>5. QED
  BY <1>2, <1>3, <1>4

\* The view is kept by a step that moves neither its start nor a cell it covers.
LEMMA QueueKept ==
  ASSUME QueueView, QueueView', life' = life, count \in Nat,
         life = "live" =>
           /\ UNCHANGED <<size, count>> /\ Start' = Start
           /\ \A k \in 1..count : storage'[Wrap(Start + k - 1)] = storage[Wrap(Start + k - 1)]
  PROVE  queueBar' = queueBar
<1>1. CASE life # "live"
  BY <1>1 DEF QueueView
<1>2. CASE life = "live"
  <2>1. /\ queueBar \in Seq(Nat) /\ Len(queueBar) = count
        /\ queueBar' \in Seq(Nat) /\ Len(queueBar') = count
    BY <1>2 DEF QueueView
  <2>2. \A k \in 1..count : queueBar'[k] = queueBar[k]
    BY <1>2 DEF QueueView, Wrap
  <2>3. QED
    BY <2>1, <2>2, SeqEqual
<1>3. QED
  BY <1>1, <1>2

\* So it is by a step that only moves a thread to another place outside the tally.
LEMMA QuietQueue ==
  ASSUME ViewInv, ViewInv', NEW t \in Threads, UNCHANGED <<life, fields>>, OthersKeep(t),
         pc[t] # "tally", pc'[t] # "tally"
  PROVE  queueBar' = queueBar
<1>1. \A u \in Threads : (op'[u] = "pop" /\ pc'[u] = "tally") <=> (op[u] = "pop" /\ pc[u] = "tally")
  BY DEF OthersKeep
<1>2. Start' = Start
  BY <1>1 DEF Start, Before, fields
<1>3. count \in Nat /\ QueueView /\ QueueView'
  BY DEF ViewInv, BufferInv, TypeOK
<1>4. QED
  BY <1>2, <1>3, QueueKept DEF fields

\* Entering and leaving are invisible to the queue.
LEMMA QuietRefines ==
  ASSUME ViewInv, ViewInv', NEW t \in Threads,
         \/ \E o \in Ops, v \in Elements : Call(t, o, v)
         \/ Enter(t) \/ TestEnter(t) \/ TestLeave(t) \/ Leave(t)
  PROVE  UNCHANGED Queue!vars
<1>1. pc \in [Threads -> Labels] /\ op \in [Threads -> Ops]
  BY DEF ViewInv, BufferInv, TypeOK
<1>2. /\ UNCHANGED <<life, fields, reply>> /\ OthersKeep(t) /\ pc[t] # "tally" /\ pc'[t] # "tally"
  <2>1. CASE \E o \in Ops, v \in Elements : Call(t, o, v)
    BY <1>1, <2>1 DEF Call, Goto, OthersKeep
  <2>2. CASE Enter(t) \/ TestEnter(t)
    BY <1>1, <2>2 DEF Enter, TestEnter, Goto, OthersKeep
  <2>3. CASE TestLeave(t) /\ Transfers(t)
    BY <1>1, <2>3 DEF TestLeave, Goto, OthersKeep
  <2>4. CASE TestLeave(t) /\ ~Transfers(t)
    BY <1>1, <2>4 DEF TestLeave, Finish, Goto, OthersKeep
  <2>5. CASE Leave(t)
    BY <1>1, <2>5 DEF Leave, Finish, Goto, OthersKeep
  <2>6. QED
    BY <2>1, <2>2, <2>3, <2>4, <2>5
<1>3. queueBar' = queueBar
  BY <1>2, QuietQueue
<1>4. QED
  BY <1>2, <1>3 DEF Queue!vars, fields

\* Under the lock, count decides whether the ring is full or empty: the code's further
\* comparison of the indices adds nothing.
LEMMA CountDecides ==
  ASSUME BufferInv, NEW t \in Threads, pc[t] = "test"
  PROVE  /\ life = "live" /\ (Full <=> count = size) /\ (Empty <=> count = 0)
<1>1. \A u \in Threads : pc[u] # "tally"
  <2>1. HoldsInner(t)
    BY DEF HoldsInner
  <2>2. \A u \in Threads \ {t} : ~HoldsOuter(u)
    BY <2>1, InsideAlone DEF Outside, BufferInv
  <2>3. QED
    BY <2>2 DEF HoldsOuter, CallInv, BufferInv
<1>2. life = "live" /\ RingInv /\ TypeOK
  BY DEF BufferInv, LifeInv, HeapInv
<1>3. Agree(indexr, count, indexw)
  BY <1>1, <1>2 DEF RingInv
<1>4. QED
  BY <1>2, <1>3 DEF RingInv, TypeOK, Agree, Full, Empty

\* The nested test answers what the queue would.
LEMMA TestRefines ==
  ASSUME ViewInv, ViewInv', NEW t \in Threads, Test(t)
  PROVE  Queue!Next
<1>1. /\ pc \in [Threads -> Labels] /\ reply \in [Threads -> Tags \X Nat]
      /\ op[t] \in Ops /\ BufferInv /\ count \in Nat /\ size \in Nat
  BY DEF ViewInv, BufferInv, TypeOK
<1>2. pc[t] = "test" /\ UNCHANGED <<life, fields, op>> /\ reply' = [reply EXCEPT ![t] = Verdict(t)]
  BY DEF Test
<1>3. life = "live" /\ (Full <=> count = size) /\ (Empty <=> count = 0)
  BY <1>1, <1>2, CountDecides
<1>4. queueBar' = queueBar
  <2>1. /\ \A u \in Threads \ {t} : pc'[u] = pc[u] /\ op'[u] = op[u] /\ reply'[u] = reply[u]
        /\ pc'[t] = "testLeave"
    BY <1>1, <1>2 DEF Test, Goto
  <2>2. OthersKeep(t)
    BY <2>1 DEF OthersKeep
  <2>3. QED
    BY <1>2, <2>1, <2>2, QuietQueue
<1>5. queueBar \in Seq(Nat) /\ Len(queueBar) = count
  BY <1>3 DEF ViewInv, QueueView
<1>6. queueBar = <<>> <=> count = 0
  BY <1>5
<1>7. /\ (life = "live")' <=> (life = "live")
      /\ (IF life = "live" THEN size ELSE 0)' = (IF life = "live" THEN size ELSE 0)
      /\ (IF life = "live" THEN size ELSE 0) = size
  BY <1>2, <1>3 DEF fields
<1> USE <1>3, <1>4, <1>5, <1>6, <1>7
<1>8. CASE op[t] \in {"push", "isFull"}
  <2>1. Verdict(t) = <<IF Full THEN "full" ELSE "notFull", 0>>
    BY <1>8 DEF Verdict
  <2>2. Queue!Full(t) \/ Queue!NotFull(t)
    BY <1>2, <2>1 DEF Queue!Full, Queue!NotFull, Queue!Answer
  <2>3. QED
    BY <2>2 DEF Queue!Next
<1>9. CASE op[t] \in {"pop", "isEmpty"}
  <2>1. Verdict(t) = <<IF Empty THEN "empty" ELSE "notEmpty", 0>>
    BY <1>9 DEF Verdict
  <2>2. Queue!IsEmpty(t) \/ Queue!NotEmpty(t)
    BY <1>2, <2>1 DEF Queue!IsEmpty, Queue!NotEmpty, Queue!Answer
  <2>3. QED
    BY <2>2 DEF Queue!Next
<1>10. CASE op[t] = "getCount"
  <2>1. Verdict(t) = <<"number", count>>
    BY <1>10 DEF Verdict
  <2>2. Queue!Count(t)
    BY <1>2, <2>1 DEF Queue!Count, Queue!Answer
  <2>3. QED
    BY <2>2 DEF Queue!Next
<1>11. QED
  BY <1>1, <1>8, <1>9, <1>10 DEF Ops

\* In the ring, the place the thread will count from, and the linear form of the counters.
LEMMA InsideRing ==
  ASSUME ViewInv, NEW t \in Threads, InRing(t)
  PROVE  /\ life = "live" /\ op[t] \in {"push", "pop"} /\ QueueView
         /\ size \in Nat \ {0} /\ indexr \in Nat /\ indexw \in Nat /\ count \in Nat
         /\ indexr < size /\ indexw < size /\ count <= size
         /\ storage \in [0..(size - 1) -> Nat] /\ element[t] \in Nat
         /\ (op[t] = "push" => count < size) /\ (op[t] = "pop" => count > 0)
         /\ pc[t] # "tally" => Agree(indexr, count, indexw)
         /\ Start = IF op[t] = "pop" /\ pc[t] = "tally" THEN Before ELSE indexr
<1>1. /\ life = "live" /\ RingInv /\ op[t] \in {"push", "pop"}
      /\ \A u \in Threads \ {t} : pc[u] # "tally"
      /\ size \in Nat \ {0} /\ indexr < size /\ indexw < size /\ count <= size
  BY AloneInRing DEF ViewInv
<1>2. TypeOK /\ CallInv(t) /\ QueueView
  BY DEF ViewInv, BufferInv
<1>3. pc[t] # "tally" => Agree(indexr, count, indexw)
  BY <1>1 DEF RingInv
<1>4. Start = IF op[t] = "pop" /\ pc[t] = "tally" THEN Before ELSE indexr
  BY <1>1 DEF Start
<1>5. QED
  BY <1>1, <1>2, <1>3, <1>4 DEF TypeOK, CallInv

\* The place the thread counts from, after a step that keeps it in the ring or ends there.
LEMMA StartAfter ==
  ASSUME ViewInv, NEW t \in Threads, InRing(t), OthersKeep(t)
  PROVE  Start' = IF op'[t] = "pop" /\ pc'[t] = "tally" THEN Before' ELSE indexr'
<1>1. \A u \in Threads \ {t} : pc'[u] # "tally"
  BY AloneInRing DEF ViewInv, OthersKeep
<1>2. QED
  BY <1>1 DEF Start

\* Storing, fetching and moving an index are invisible: the cell written is a free one,
\* and the view starts at the same cell until the element is counted out.
LEMMA RingQuietRefines ==
  ASSUME ViewInv, ViewInv', NEW t \in Threads, Transfer(t) \/ Advance(t)
  PROVE  UNCHANGED Queue!vars
<1>1. InRing(t)
  BY DEF InRing, Transfer, Advance
<1>2. pc \in [Threads -> Labels] /\ QueueView /\ QueueView'
  BY DEF ViewInv, BufferInv, TypeOK
<1>3. /\ UNCHANGED <<life, size, count, op, reply>> /\ OthersKeep(t)
      /\ pc[t] \in {"transfer", "advance"}
  BY <1>2 DEF Transfer, Advance, Goto, OthersKeep
<1>4. Start' = IF op[t] = "pop" /\ pc'[t] = "tally" THEN Before' ELSE indexr'
  BY <1>1, <1>3, StartAfter
<1>5. Start = indexr /\ Agree(indexr, count, indexw)
  BY <1>1, <1>3, InsideRing
<1>6. CASE Transfer(t)
  <2>1. UNCHANGED <<indexr, indexw>> /\ pc'[t] = "advance"
    BY <1>2, <1>6 DEF Transfer, Goto
  <2>2. Start' = Start
    BY <1>4, <1>5, <2>1
  <2>3. \A k \in 1..count : storage'[Wrap(indexr + k - 1)] = storage[Wrap(indexr + k - 1)]
    <3>1. CASE op[t] = "pop"
      BY <1>6, <3>1 DEF Transfer
    <3>2. CASE op[t] = "push"
      <4>1. \A k \in 1..count : /\ Wrap(indexr + k - 1) # indexw
                               /\ Wrap(indexr + k - 1) \in 0..(size - 1)
        BY <1>1, <1>5, <3>2, InsideRing DEF Wrap, Agree
      <4>2. storage' = [storage EXCEPT ![indexw] = element[t]]
        BY <1>6, <3>2 DEF Transfer
      <4>3. QED
        BY <1>1, <4>1, <4>2, InsideRing
    <3>3. QED
      BY <1>1, <3>1, <3>2, InsideRing
  <2>4. queueBar' = queueBar
    BY <1>1, <1>2, <1>3, <1>5, <2>2, <2>3, InsideRing, QueueKept
  <2>5. QED
    BY <1>3, <2>4 DEF Queue!vars
<1>7. CASE Advance(t)
  <2>1. UNCHANGED storage /\ pc'[t] = "tally"
    BY <1>2, <1>7 DEF Advance, Goto
  <2>2. Start' = Start
    <3>1. CASE op[t] = "push"
      BY <1>4, <1>5, <1>7, <3>1 DEF Advance
    <3>2. CASE op[t] = "pop"
      <4>1. indexr' = IF indexr + 1 = size THEN 0 ELSE indexr + 1
        BY <1>1, <1>7, <3>2, InsideRing, NextIndex DEF Advance
      <4>2. Before' = indexr
        BY <1>1, <1>3, <4>1, InsideRing DEF Before
      <4>3. QED
        BY <1>4, <1>5, <2>1, <3>2, <4>2
    <3>3. QED
      BY <1>1, <3>1, <3>2, InsideRing
  <2>3. queueBar' = queueBar
    BY <1>1, <1>2, <1>3, <2>1, <2>2, InsideRing, QueueKept
  <2>4. QED
    BY <1>3, <2>3 DEF Queue!vars
<1>8. QED
  BY <1>6, <1>7

\* Counting is the moment at which the element enters or leaves the queue.
LEMMA CountRefines ==
  ASSUME ViewInv, ViewInv', NEW t \in Threads, CountStep(t)
  PROVE  Queue!Next
<1>1. InRing(t) /\ pc[t] = "tally"
  BY DEF InRing, CountStep
<1>2. /\ pc \in [Threads -> Labels] /\ QueueView /\ QueueView' /\ Holding(t)
      /\ reply \in [Threads -> Tags \X Nat]
  BY DEF ViewInv, AllHolding, BufferInv, TypeOK
<1>3. /\ UNCHANGED <<life, size, storage, indexr, indexw, op, element>> /\ OthersKeep(t)
      /\ pc'[t] = "leave" /\ reply' = [reply EXCEPT ![t] = <<"ok", element[t]>>]
  BY <1>2 DEF CountStep, Answer, Goto, OthersKeep
<1>4. Start' = indexr
  BY <1>1, <1>3, StartAfter
<1>5. /\ life = "live" /\ size \in Nat \ {0} /\ indexr \in Nat /\ count \in Nat
      /\ indexr < size /\ count <= size /\ storage \in [0..(size - 1) -> Nat] /\ element[t] \in Nat
  BY <1>1, InsideRing
<1>6. /\ queueBar \in Seq(Nat) /\ Len(queueBar) = count
      /\ queueBar' \in Seq(Nat) /\ Len(queueBar') = count'
      /\ \A k \in 1..count : queueBar[k] = storage[Wrap(Start + k - 1)]
      /\ \A k \in 1..count' : queueBar'[k] = storage[Wrap(indexr + k - 1)]
  BY <1>2, <1>3, <1>4, <1>5 DEF QueueView, Wrap
<1>7. /\ (life = "live")' <=> (life = "live")
      /\ (IF life = "live" THEN size ELSE 0)' = (IF life = "live" THEN size ELSE 0)
      /\ (IF life = "live" THEN size ELSE 0) = size
  BY <1>3, <1>5
<1>8. CASE op[t] = "push"
  <2>1. Start = indexr /\ count < size /\ count' = count + 1
    BY <1>1, <1>8, InsideRing DEF CountStep
  <2>2. element[t] \in Elements /\ element[t] = storage[Wrap(indexr + count)]
    BY <1>1, <1>2, <1>8 DEF Holding
  <2>3. queueBar' = Append(queueBar, element[t])
    <3>1. /\ Append(queueBar, element[t]) \in Seq(Nat)
          /\ Len(Append(queueBar, element[t])) = count + 1
          /\ \A k \in 1..count : Append(queueBar, element[t])[k] = queueBar[k]
          /\ Append(queueBar, element[t])[count + 1] = element[t]
      BY <1>5, <1>6, AppendProperties
    <3>2. indexr + (count + 1) - 1 = indexr + count
      BY <1>5
    <3>3. queueBar'[count + 1] = element[t]
      BY <1>5, <1>6, <2>1, <2>2, <3>2
    <3>4. \A k \in 1..count : queueBar'[k] = queueBar[k]
      <4>1. \A k \in 1..count : k \in 1..count'
        BY <1>5, <2>1
      <4>2. QED
        BY <1>6, <2>1, <4>1
    <3>5. \A k \in 1..(count + 1) : queueBar'[k] = Append(queueBar, element[t])[k]
      BY <1>5, <3>1, <3>3, <3>4
    <3>6. QED
      BY <1>6, <2>1, <3>1, <3>5, SeqEqual
  <2>4. Queue!Push(t, element[t])
    BY <1>3, <1>5, <1>6, <1>7, <2>1, <2>3 DEF Queue!Push, Queue!Answer
  <2>5. QED
    BY <2>2, <2>4 DEF Queue!Next
<1>9. CASE op[t] = "pop"
  <2>1. Start = Before /\ count > 0 /\ count' = count - 1
    BY <1>1, <1>9, InsideRing DEF CountStep
  <2>2. element[t] = storage[Before]
    BY <1>1, <1>2, <1>9 DEF Holding
  <2>3. Wrap(Before + 1 - 1) = Before
    BY <1>5 DEF Wrap, Before
  <2>4. Head(queueBar) = element[t] /\ queueBar # <<>>
    BY <1>5, <1>6, <2>1, <2>2, <2>3
  <2>5. queueBar' = Tail(queueBar)
    <3>1. /\ Tail(queueBar) \in Seq(Nat) /\ Len(Tail(queueBar)) = count - 1
          /\ \A k \in 1..(count - 1) : Tail(queueBar)[k] = queueBar[k + 1]
      BY <1>6, <2>4, HeadTailProperties
    <3>2. \A k \in 1..(count - 1) : Wrap(Before + (k + 1) - 1) = Wrap(indexr + k - 1)
      BY <1>5 DEF Wrap, Before
    <3>3. \A k \in 1..(count - 1) : k \in 1..count' /\ k + 1 \in 1..count
      BY <1>5, <2>1
    <3>4. \A k \in 1..(count - 1) : queueBar'[k] = queueBar[k + 1]
      BY <1>6, <2>1, <3>2, <3>3
    <3>5. QED
      BY <1>6, <2>1, <3>1, <3>4, SeqEqual
  <2>6. Queue!Pop(t)
    BY <1>3, <1>5, <1>7, <2>4, <2>5 DEF Queue!Pop, Queue!Answer
  <2>7. QED
    BY <2>6 DEF Queue!Next
<1>10. QED
  BY <1>1, <1>8, <1>9, InsideRing

\* A life begins and ends in one step of the queue, with nothing in it.
LEMMA LifecycleRefines ==
  ASSUME ViewInv, ViewInv', ~Reuse, Lifecycle
  PROVE  [Queue!Next]_(Queue!vars)
<1>1. QueueView /\ QueueView' /\ LifeInv
  BY DEF ViewInv, BufferInv
<1>2. UNCHANGED reply
  BY DEF Lifecycle, CreateStorage, CreateInstance, CreateLock, InitEmbedded, DeinitEmbedded,
         DeleteStorage, DeleteLock, DeleteInstance, calls
<1>3. CASE life # "live" /\ life' # "live"
  <2>1. queueBar = <<>> /\ queueBar' = <<>>
    BY <1>1, <1>3 DEF QueueView
  <2>2. QED
    BY <1>2, <1>3, <2>1 DEF Queue!vars
<1>4. ASSUME NEW c \in Sizes, CreateLock(c) \/ InitEmbedded(c), life' = "live"
      PROVE  Queue!Next
  <2>1. life # "live" /\ count' = 0 /\ size' = c
    BY <1>1, <1>4 DEF CreateLock, InitEmbedded, LifeInv, HeapInv
  <2>2. queueBar' = <<>>
    BY <1>1, <1>4, <2>1 DEF QueueView
  <2>3. Queue!Create(c)
    BY <1>2, <1>4, <2>1, <2>2 DEF Queue!Create
  <2>4. QED
    BY <2>3 DEF Queue!Next
<1>5. CASE DeinitEmbedded \/ DeleteStorage
  <2>1. life = "live" /\ life' # "live"
    BY <1>5 DEF DeinitEmbedded, DeleteStorage, Unused
  <2>2. queueBar' = <<>>
    BY <1>1, <2>1 DEF QueueView
  <2>3. Queue!Destroy
    BY <1>2, <2>1, <2>2 DEF Queue!Destroy
  <2>4. QED
    BY <2>3 DEF Queue!Next
<1>6. CASE CreateStorage \/ CreateInstance \/ DeleteLock \/ DeleteInstance
  <2>1. life # "live" /\ life' # "live"
    BY <1>6 DEF CreateStorage, CreateInstance, DeleteLock, DeleteInstance
  <2>2. QED
    BY <1>3, <2>1
<1>7. ASSUME NEW c \in Sizes, CreateLock(c) \/ InitEmbedded(c), life' # "live"
      PROVE  [Queue!Next]_(Queue!vars)
  <2>1. life # "live"
    BY <1>7 DEF CreateLock, InitEmbedded
  <2>2. QED
    BY <1>3, <1>7, <2>1
<1>8. QED
  BY <1>4, <1>5, <1>6, <1>7 DEF Lifecycle

\* The buffer implements the bounded queue: push and pop take effect when they count, the
\* tests when they read, and what the lock, the indices and the storage do is invisible.
THEOREM BufferImplementsQueue == ~Reuse => (Spec => ImplementsQueue)
<1> SUFFICES ASSUME ~Reuse PROVE Spec => ImplementsQueue
  OBVIOUS
<1>1. Init => Queue!Init /\ AllHolding
  <2>1. Init => queueBar = <<>>
    BY DEF Init, queueBar
  <2>2. Init => AllHolding
    BY DEF Init, Holding, AllHolding
  <2>3. QED
    BY <2>1, <2>2 DEF Init, Queue!Init
<1>2. BufferInv /\ AllHolding /\ [Next]_vars => AllHolding'
  <2> SUFFICES ASSUME BufferInv, \A t \in Threads : Holding(t), [Next]_vars
               PROVE  \A t \in Threads : Holding(t)'
    BY DEF AllHolding
  <2>1. CASE Lifecycle
    <3>1. \A t \in Threads : pc'[t] = "idle"
      BY <2>1 DEF BufferInv, LifeInv, HeapInv, calls, Lifecycle, CreateStorage, CreateInstance,
         CreateLock, InitEmbedded, DeinitEmbedded, Unused, DeleteStorage, DeleteLock, DeleteInstance
    <3>2. QED
      BY <3>1 DEF Holding
  <2>2. ASSUME NEW t \in Threads, Transfer(t) \/ Advance(t) \/ CountStep(t)
        PROVE  \A u \in Threads : Holding(u)'
    <3>1. Holding(t)'
      BY <2>2, RingHolding
    <3>2. \A u \in Threads \ {t} : pc[u] \notin {"advance", "tally"}
      <4>1. InRing(t)
        BY <2>2 DEF InRing, Transfer, Advance, CountStep
      <4>2. \A u \in Threads \ {t} : Outside(u)
        BY <4>1, AloneInRing
      <4>3. QED
        BY <4>2 DEF Outside, HoldsOuter, CallInv, BufferInv
    <3>3. \A u \in Threads \ {t} : pc'[u] = pc[u] /\ op'[u] = op[u] /\ element'[u] = element[u]
      BY <2>2 DEF BufferInv, TypeOK, Transfer, Advance, CountStep, Goto
    <3>4. QED
      BY <3>1, <3>2, <3>3, HoldingUndisturbed
  <2>3. ASSUME NEW t \in Threads,
               \/ \E o \in Ops, v \in Elements : Call(t, o, v)
               \/ Enter(t) \/ TestEnter(t) \/ Test(t) \/ TestLeave(t) \/ Leave(t)
        PROVE  \A u \in Threads : Holding(u)'
    <3>1. Holding(t)'
      BY <2>3, CallHolding
    <3>2. \A u \in Threads \ {t} : pc'[u] = pc[u] /\ op'[u] = op[u] /\ element'[u] = element[u]
      BY <2>3 DEF BufferInv, TypeOK, Call, Enter, TestEnter, Test, TestLeave, Leave, Finish, Goto
    <3>3. UNCHANGED fields
      BY <2>3 DEF Call, Enter, TestEnter, Test, TestLeave, Leave
    <3>4. QED
      BY <3>1, <3>2, <3>3, HoldingUndisturbed
  <2>4. CASE UNCHANGED vars
    BY <2>4, HoldingUndisturbed DEF vars, calls
  <2>5. QED
    BY <2>1, <2>2, <2>3, <2>4 DEF Next, Step
<1>3. ViewInv /\ ViewInv' /\ [Next]_vars => [Queue!Next]_(Queue!vars)
  <2> SUFFICES ASSUME ViewInv, ViewInv', [Next]_vars
               PROVE  [Queue!Next]_(Queue!vars)
    OBVIOUS
  <2>1. CASE Lifecycle
    BY <2>1, LifecycleRefines
  <2>2. ASSUME NEW t \in Threads,
               \/ \E o \in Ops, v \in Elements : Call(t, o, v)
               \/ Enter(t) \/ TestEnter(t) \/ TestLeave(t) \/ Leave(t)
        PROVE  UNCHANGED Queue!vars
    BY <2>2, QuietRefines
  <2>3. ASSUME NEW t \in Threads, Test(t) \/ CountStep(t)
        PROVE  Queue!Next
    BY <2>3, TestRefines, CountRefines
  <2>4. ASSUME NEW t \in Threads, Transfer(t) \/ Advance(t)
        PROVE  UNCHANGED Queue!vars
    BY <2>4, RingQuietRefines
  <2>5. CASE UNCHANGED vars
    <3>1. Start' = Start /\ UNCHANGED <<life, fields, reply>>
      BY <2>5 DEF vars, fields, calls, Start, Before
    <3>2. QueueView /\ QueueView' /\ count \in Nat
      BY DEF ViewInv, BufferInv, TypeOK
    <3>3. queueBar' = queueBar
      BY <3>1, <3>2, QueueKept DEF fields
    <3>4. QED
      BY <3>1, <3>3 DEF Queue!vars, fields
  <2>6. QED
    BY <2>1, <2>2, <2>3, <2>4, <2>5 DEF Next, Step
<1>4. BufferInv /\ QueueView /\ AllHolding => ViewInv
  BY DEF ViewInv
<1>5. Init /\ []BufferInv /\ [][Next]_vars => []ViewInv
  BY <1>1, <1>2, <1>4, RingIsQueue, PTL
<1>6. Spec => []BufferInv
  BY BufferInvariant
<1>7. QED
  BY <1>1, <1>3, <1>5, <1>6, PTL DEF Spec, ImplementsQueue, Queue!Spec

=============================================================================
