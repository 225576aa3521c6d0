--------------------------- MODULE CircularBuffer ---------------------------
(***************************************************************************)
(* CircularBuffer<T> of Lilu's kern_util.hpp, lines 954-1148: a ring of    *)
(* size elements behind an IORecursiveLock.  push and pop take the lock    *)
(* and then call isFull or isEmpty, which take it a second time.           *)
(*                                                                         *)
(* One action is one allocation, one lock operation, or one access of the  *)
(* object's fields, so what the lock keeps apart and what it does not is   *)
(* visible; the increment of an index and its wrap (1122-1123, 1142-1143)  *)
(* are one action, both under the lock.  push and pop run the same eight   *)
(* steps in the code and share them here.                                  *)
(***************************************************************************)
EXTENDS Naturals, Sequences, FiniteSets

CONSTANTS
  Threads,   \* the kernel threads that use the buffer
  Elements,  \* what they push, a set of numbers
  Sizes,     \* the capacities it may be created with
  NoThread,  \* the owner of a free lock
  Reuse      \* TRUE: an embedded buffer is initialised again after deinit

ASSUME SizesAssumption == Sizes \subseteq Nat
ASSUME ElementsAssumption == Elements \subseteq Nat
ASSUME NoThreadAssumption == NoThread \notin Threads
ASSUME ReuseAssumption == Reuse \in BOOLEAN

VARIABLES
  life,      \* how far the buffer's creation or destruction has come
  heap,      \* which of its three allocations exist
  size, storage, indexr, indexw, count,  \* the fields of the same names
  owner, depth,                          \* the recursive lock
  op,        \* the method each thread is in, "push" when it is in none
  pc,        \* where in it
  element,   \* the argument of push, the out-parameter of pop
  reply      \* what the last call returned

fields == <<size, storage, indexr, indexw, count>>
lock == <<owner, depth>>
calls == <<op, pc, element, reply>>
vars == <<life, heap, fields, lock, calls>>

Ops == {"push", "pop", "isEmpty", "isFull", "getCount"}
Labels == {"idle", "enter", "testEnter", "test", "testLeave",
           "transfer", "advance", "tally", "leave"}
Tags == {"none", "ok", "full", "notFull", "empty", "notEmpty", "number"}

TypeOK ==
  /\ life \in {"none", "array", "object", "live", "freed", "unlocked"}
  /\ heap \subseteq {"array", "object", "mutex"}
  /\ size \in Nat
  /\ storage \in [0..(size - 1) -> Nat]
  /\ indexr \in Nat /\ indexw \in Nat /\ count \in Nat
  /\ owner \in Threads \cup {NoThread} /\ depth \in 0..2
  /\ op \in [Threads -> Ops] /\ pc \in [Threads -> Labels]
  /\ element \in [Threads -> Nat]
  /\ reply \in [Threads -> Tags \X Nat]

Blank(n) == [i \in 0..(n - 1) |-> 0]

Init ==
  /\ life = "none" /\ heap = {}
  /\ size = 0 /\ storage = Blank(0) /\ indexr = 0 /\ indexw = 0 /\ count = 0
  /\ owner = NoThread /\ depth = 0
  /\ op = [t \in Threads |-> "push"] /\ pc = [t \in Threads |-> "idle"]
  /\ element = [t \in Threads |-> 0]
  /\ reply = [t \in Threads |-> <<"none", 0>>]

-----------------------------------------------------------------------------
(* Creation and destruction, by the owner of the buffer. *)

\* The fields of a default-constructed or deleted object.
ClearFields ==
  /\ size' = 0 /\ storage' = Blank(0) /\ indexr' = 0 /\ indexw' = 0 /\ count' = 0

\* withCapacity: each allocation may fail, and what is there already is given back.
CreateStorage ==
  /\ life = "none" /\ heap = {}
  /\ life' = "array" /\ heap' = {"array"}
  /\ UNCHANGED <<fields, lock, calls>>

CreateInstance ==
  /\ life = "array"
  /\ \/ life' = "object" /\ heap' = heap \cup {"object"} /\ ClearFields
     \/ life' = "none" /\ heap' = heap \ {"array"} /\ UNCHANGED fields
  /\ UNCHANGED <<lock, calls>>

\* Mutant: a failing init does not give the storage back.
CreateLockLeaks(c) ==
  /\ life = "object"
  /\ life' = "none" /\ heap' = heap \ {"object"}
  /\ UNCHANGED <<fields, lock, calls>>

CreateLock(c) ==
  /\ life = "object"
  /\ \/ /\ life' = "live" /\ heap' = heap \cup {"mutex"}
        /\ size' = c /\ storage' = Blank(c)
     \/ /\ life' = "none" /\ heap' = heap \ {"object", "array"}
        /\ UNCHANGED <<size, storage>>
  /\ UNCHANGED <<indexr, indexw, count, lock, calls>>

\* init on an embedded object and a buffer of the caller's: no index is reset.  Without a
\* lock it fails, with the storage and the size already set.
InitEmbedded(c) ==
  /\ life = "none" /\ heap = {}
  /\ size' = c /\ storage' = Blank(c)
  /\ \/ life' = "live" /\ heap' = {"mutex"}
     \/ UNCHANGED <<life, heap>>
  /\ UNCHANGED <<indexr, indexw, count, lock, calls>>

\* The owner's contract: nobody uses the buffer any more.
Unused == life = "live" /\ \A t \in Threads : pc[t] = "idle"

DeinitEmbedded ==
  /\ Unused /\ heap = {"mutex"}
  /\ life' = "none" /\ heap' = {}
  /\ IF Reuse THEN UNCHANGED fields ELSE ClearFields
  /\ UNCHANGED <<lock, calls>>

\* deleter, and safeDeleter with it: storage, then lock, then the object.
DeleteStorage ==
  /\ Unused /\ "object" \in heap
  /\ life' = "freed" /\ heap' = heap \ {"array"}
  /\ UNCHANGED <<fields, lock, calls>>

DeleteLock ==
  /\ life = "freed"
  /\ life' = "unlocked" /\ heap' = heap \ {"mutex"}
  /\ UNCHANGED <<fields, lock, calls>>

DeleteInstance ==
  /\ life = "unlocked"
  /\ life' = "none" /\ heap' = heap \ {"object"}
  /\ ClearFields
  /\ UNCHANGED <<lock, calls>>

-----------------------------------------------------------------------------
(* The recursive lock and the control flow of a call. *)

Goto(t, label) == pc' = [pc EXCEPT ![t] = label]

\* Mutant: a lock that is not recursive.
AcquirePlain(t) == owner = NoThread /\ owner' = t /\ depth' = depth + 1

Acquire(t) ==
  /\ owner \in {NoThread, t}
  /\ owner' = t /\ depth' = depth + 1

\* Mutant: an unlock of a nested lock is lost.
ReleaseLost(t) ==
  owner = t /\ UNCHANGED depth /\ owner' = IF depth = 1 THEN NoThread ELSE t

Release(t) ==
  /\ owner = t
  /\ depth' = depth - 1
  /\ owner' = IF depth = 1 THEN NoThread ELSE t

Answer(t, tag, v) == reply' = [reply EXCEPT ![t] = <<tag, v>>]

\* The call is over, and its locals with it.
Finish(t) ==
  /\ Goto(t, "idle")
  /\ op' = [op EXCEPT ![t] = "push"]
  /\ element' = [element EXCEPT ![t] = 0]

\* push and pop test with isFull and isEmpty before they touch the ring.
Transfers(t) == op[t] \in {"push", "pop"}

Call(t, o, v) ==
  /\ life = "live" /\ pc[t] = "idle"
  /\ op' = [op EXCEPT ![t] = o]
  /\ element' = [element EXCEPT ![t] = IF o = "push" THEN v ELSE 0]
  /\ Goto(t, IF o \in {"push", "pop"} THEN "enter" ELSE "testEnter")
  /\ UNCHANGED <<life, heap, fields, lock, reply>>

Enter(t) ==
  /\ pc[t] = "enter"
  /\ Acquire(t) /\ Goto(t, "testEnter")
  /\ UNCHANGED <<life, heap, fields, op, element, reply>>

TestEnter(t) ==
  /\ pc[t] = "testEnter"
  /\ Acquire(t) /\ Goto(t, "test")
  /\ UNCHANGED <<life, heap, fields, op, element, reply>>

\* Mutant: isFull compares the indices only.
FullByIndices == indexr = indexw

Full == count = size /\ indexr = indexw
Empty == count = 0 /\ indexr = indexw

\* What isFull, isEmpty or getCount found, as the method's answer.
Verdict(t) ==
  CASE op[t] \in {"push", "isFull"} -> <<IF Full THEN "full" ELSE "notFull", 0>>
    [] op[t] \in {"pop", "isEmpty"} -> <<IF Empty THEN "empty" ELSE "notEmpty", 0>>
    [] op[t] = "getCount" -> <<"number", count>>

Test(t) ==
  /\ pc[t] = "test"
  /\ reply' = [reply EXCEPT ![t] = Verdict(t)]
  /\ Goto(t, "testLeave")
  /\ UNCHANGED <<life, heap, fields, lock, op, element>>

Refused(t) == reply[t][1] \in {"full", "empty"}

\* Mutant: push and pop return from the refusal without unlocking.
TestLeaveLocked(t) ==
  /\ pc[t] = "testLeave"
  /\ IF Transfers(t) /\ ~Refused(t)
     THEN Release(t) /\ Goto(t, "transfer") /\ UNCHANGED <<op, element>>
     ELSE /\ IF Transfers(t) THEN depth' = 1 /\ UNCHANGED owner ELSE Release(t)
          /\ Finish(t)
  /\ UNCHANGED <<life, heap, fields, reply>>

TestLeave(t) ==
  /\ pc[t] = "testLeave"
  /\ Release(t)
  /\ IF Transfers(t)
     THEN Goto(t, IF Refused(t) THEN "leave" ELSE "transfer") /\ UNCHANGED <<op, element>>
     ELSE Finish(t)
  /\ UNCHANGED <<life, heap, fields, reply>>

-----------------------------------------------------------------------------
(* The ring, under the lock. *)

Transfer(t) ==
  /\ pc[t] = "transfer"
  /\ \/ /\ op[t] = "push"
        /\ storage' = [storage EXCEPT ![indexw] = element[t]]
        /\ UNCHANGED element
     \/ /\ op[t] = "pop"
        /\ element' = [element EXCEPT ![t] = storage[indexr]]
        /\ UNCHANGED storage
  /\ Goto(t, "advance")
  /\ UNCHANGED <<life, heap, size, indexr, indexw, count, lock, op, reply>>

Advance(t) ==
  /\ pc[t] = "advance"
  /\ \/ op[t] = "push" /\ indexw' = (indexw + 1) % size /\ UNCHANGED indexr
     \/ op[t] = "pop" /\ indexr' = (indexr + 1) % size /\ UNCHANGED indexw
  /\ Goto(t, "tally")
  /\ UNCHANGED <<life, heap, size, storage, count, lock, op, element, reply>>

\* Mutant: pop counts up like push.
CountStepUp(t) ==
  /\ pc[t] = "tally"
  /\ count' = count + 1
  /\ Answer(t, "ok", element[t])
  /\ Goto(t, "leave")
  /\ UNCHANGED <<life, heap, size, storage, indexr, indexw, lock, op, element>>

CountStep(t) ==
  /\ pc[t] = "tally"
  /\ \/ op[t] = "push" /\ count' = count + 1
     \/ op[t] = "pop" /\ count' = count - 1
  /\ Answer(t, "ok", element[t])
  /\ Goto(t, "leave")
  /\ UNCHANGED <<life, heap, size, storage, indexr, indexw, lock, op, element>>

Leave(t) ==
  /\ pc[t] = "leave"
  /\ Release(t) /\ Finish(t)
  /\ UNCHANGED <<life, heap, fields, reply>>

-----------------------------------------------------------------------------
Lifecycle ==
  \/ CreateStorage \/ CreateInstance
  \/ \E c \in Sizes : CreateLock(c) \/ InitEmbedded(c)
  \/ DeinitEmbedded
  \/ DeleteStorage \/ DeleteLock \/ DeleteInstance

Step(t) ==
  \/ Enter(t) \/ TestEnter(t) \/ Test(t) \/ TestLeave(t)
  \/ Transfer(t) \/ Advance(t) \/ CountStep(t) \/ Leave(t)

Next ==
  \/ Lifecycle
  \/ \E t \in Threads : Step(t) \/ \E o \in Ops, v \in Elements : Call(t, o, v)

Spec == Init /\ [][Next]_vars

\* A thread inside a call is scheduled whenever it can go on; which of several waiting
\* threads the lock lets in is left open.
FairSpec == Spec /\ \A t \in Threads : WF_vars(Step(t))

-----------------------------------------------------------------------------
(* What must hold. *)

\* The outer lock of push and pop, and the lock of isEmpty, isFull and getCount.
HoldsOuter(t) == Transfers(t) /\ pc[t] \notin {"idle", "enter"}
HoldsInner(t) == pc[t] \in {"test", "testLeave"}

\* The nested calls lock and unlock in pairs on every path: the lock belongs to the one
\* thread that is between its two halves, as deep as that thread nests, and to nobody
\* once every call has returned, a refused push or an empty pop included.
LockBalanced ==
  /\ \A t \in Threads : owner = t <=> HoldsOuter(t) \/ HoldsInner(t)
  /\ \A t \in Threads : owner = t => depth = IF HoldsOuter(t) /\ HoldsInner(t) THEN 2 ELSE 1
  /\ owner = NoThread => depth = 0

\* Between two operations the three counters agree, which is what lets isFull and isEmpty
\* tell a full ring from an empty one when the indices coincide (lines 1080 and 1092).
CountersAgree ==
  life = "live" /\ owner = NoThread /\ size > 0 =>
    /\ indexr < size /\ indexw < size /\ count <= size
    /\ indexw = (indexr + count) % size

\* An allocation that fails half way, and destruction, leave nothing behind; a usable
\* buffer always has its lock.
NothingLeaks ==
  /\ life = "none" => heap = {}
  /\ life = "live" => "mutex" \in heap

First ==
  IF \E t \in Threads : op[t] = "pop" /\ pc[t] = "tally"
  THEN (indexr + size - 1) % size ELSE indexr

queueBar ==
  IF life = "live" THEN [k \in 1..count |-> storage[(First + k - 1) % size]] ELSE <<>>

Queue == INSTANCE BoundedQueue WITH
           queue <- queueBar, capacity <- IF life = "live" THEN size ELSE 0,
           alive <- life = "live"

\* The ring implements a bounded first-in first-out queue: nothing is lost, duplicated or
\* reordered, push is refused only when full and pop only when empty, for every
\* interleaving of the threads and every capacity, zero included.
ImplementsQueue == Queue!Spec

\* The threads never block each other for good: as long as calls are under way, some call
\* returns.
SomeCallReturns ==
  \/ []<>(\A t \in Threads : pc[t] = "idle")
  \/ []<><<\E t \in Threads : pc[t] # "idle" /\ pc'[t] = "idle">>_vars

\* A freshly initialised buffer is empty.
InitialisedEmpty == [][life' = "live" /\ life # "live" => count' = 0 /\ indexr' = indexw']_vars

=============================================================================
