---------------------------- MODULE ThreadLocal ----------------------------
(***************************************************************************)
(* ThreadLocal<T, N> of Lilu's kern_util.hpp, lines 665-757: N slots, each *)
(* an atomic owner (threads[i]) and a plain value (values[i]), used by     *)
(* several kernel threads without a lock.  UserPatcher keeps its pending   *)
(* binaries in one with N = 32 (kern_user.hpp line 366).                   *)
(*                                                                         *)
(* One action is one atomic access of the owner array or one plain access  *)
(* of the value array, so calls of different threads interleave between    *)
(* any two of them.  The code's slots 0 .. N-1 are 1 .. N here.            *)
(***************************************************************************)
EXTENDS Naturals, FiniteSets

CONSTANTS
  Threads,      \* the kernel threads, each with one thread_t for its whole life
  Values,       \* what callers store
  Empty,        \* the value-initialised T{}
  NoThread,     \* nullptr in threads[i]
  N,            \* the number of slots
  DeinitAlone   \* TRUE: the owner runs deinit only while no call is in progress

ASSUME SlotsAssumption == N \in Nat \ {0}
ASSUME ThreadsAssumption == NoThread \notin Threads
ASSUME DeinitAssumption == DeinitAlone \in BOOLEAN

VARIABLES
  threads,  \* owner of each slot
  values,   \* value of each slot
  pc,       \* where each thread is in set, get or erase
  idx,      \* its loop variable i
  arg,      \* the value it passed to set, Empty outside set
  gotPtr,   \* the slot whose address get returned to it, 0 for none
  reply,    \* what its last call returned
  dslot,    \* the loop variable of deinit, 0 when deinit is not running
  dnext     \* which of deinit's two stores comes next: "owner" or "value"

vars == <<threads, values, pc, idx, arg, gotPtr, reply, dslot, dnext>>

Slots == 1..N
Labels == {"idle", "own", "null", "insert", "get", "erase", "clear", "release"}
Replies == {"none", "ok", "refused", "found"} \cup Values \cup {Empty}

TypeOK ==
  /\ threads \in [Slots -> Threads \cup {NoThread}]
  /\ values \in [Slots -> Values \cup {Empty}]
  /\ pc \in [Threads -> Labels]
  /\ idx \in [Threads -> Slots]
  /\ arg \in [Threads -> Values \cup {Empty}]
  /\ gotPtr \in [Threads -> Slots \cup {0}]
  /\ reply \in [Threads -> Replies]
  /\ dslot \in Slots \cup {0}
  /\ dnext \in {"owner", "value"}

Init ==
  /\ threads = [i \in Slots |-> NoThread]
  /\ values = [i \in Slots |-> Empty]
  /\ pc = [t \in Threads |-> "idle"]
  /\ idx = [t \in Threads |-> 1]
  /\ arg = [t \in Threads |-> Empty]
  /\ gotPtr = [t \in Threads |-> 0]
  /\ reply = [t \in Threads |-> "none"]
  /\ dslot = 0
  /\ dnext = "owner"

-----------------------------------------------------------------------------
(* Control: a thread enters a loop, advances it, or leaves it. *)

Goto(t, label, i) ==
  /\ pc' = [pc EXCEPT ![t] = label]
  /\ idx' = [idx EXCEPT ![t] = i]

Return(t, r) ==
  /\ Goto(t, "idle", 1)
  /\ reply' = [reply EXCEPT ![t] = r]

\* A thread may start a call; the owner's contract keeps calls out of deinit.
MayCall(t) == pc[t] = "idle" /\ (DeinitAlone => dslot = 0)

-----------------------------------------------------------------------------
(* set: look for the own slot, else claim a free one, then store. *)

SetBegin(t, v) ==
  /\ MayCall(t)
  /\ Goto(t, "own", 1)
  /\ arg' = [arg EXCEPT ![t] = v]
  /\ UNCHANGED <<threads, values, gotPtr, reply, dslot, dnext>>

\* Mutant: the search for the own slot is skipped.
SetOwnSkipped(t) ==
  /\ pc[t] = "own"
  /\ Goto(t, "null", 1)
  /\ UNCHANGED <<threads, values, arg, gotPtr, reply, dslot, dnext>>

SetOwn(t) ==
  /\ pc[t] = "own"
  /\ \/ threads[idx[t]] = t /\ Goto(t, "insert", idx[t])
     \/ threads[idx[t]] # t /\ idx[t] < N /\ Goto(t, "own", idx[t] + 1)
     \/ threads[idx[t]] # t /\ idx[t] = N /\ Goto(t, "null", 1)
  /\ UNCHANGED <<threads, values, arg, gotPtr, reply, dslot, dnext>>

\* Mutant: the owner is stored without comparing.
SetNullBlind(t) ==
  /\ pc[t] = "null"
  /\ threads' = [threads EXCEPT ![idx[t]] = t]
  /\ Goto(t, "insert", idx[t])
  /\ UNCHANGED <<values, arg, gotPtr, reply, dslot, dnext>>

\* Mutant: a taken slot ends the search.
SetNullGivesUp(t) ==
  /\ pc[t] = "null"
  /\ \/ threads[idx[t]] = NoThread /\ Goto(t, "insert", idx[t])
        /\ threads' = [threads EXCEPT ![idx[t]] = t] /\ UNCHANGED reply
     \/ threads[idx[t]] # NoThread /\ Return(t, "refused") /\ UNCHANGED threads
  /\ UNCHANGED <<values, arg, gotPtr, dslot, dnext>>

\* Mutant: a taken slot is retried until it is free.
SetNullSpins(t) ==
  /\ pc[t] = "null"
  /\ threads[idx[t]] = NoThread
  /\ threads' = [threads EXCEPT ![idx[t]] = t]
  /\ Goto(t, "insert", idx[t])
  /\ UNCHANGED <<values, arg, gotPtr, reply, dslot, dnext>>

SetNull(t) ==
  /\ pc[t] = "null"
  /\ \/ /\ threads[idx[t]] = NoThread
        /\ threads' = [threads EXCEPT ![idx[t]] = t]
        /\ Goto(t, "insert", idx[t])
        /\ UNCHANGED <<arg, reply>>
     \/ /\ threads[idx[t]] # NoThread /\ idx[t] < N
        /\ Goto(t, "null", idx[t] + 1)
        /\ UNCHANGED <<threads, arg, reply>>
     \/ /\ threads[idx[t]] # NoThread /\ idx[t] = N
        /\ arg' = [arg EXCEPT ![t] = Empty]
        /\ Return(t, "refused")
        /\ UNCHANGED threads
  /\ UNCHANGED <<values, gotPtr, dslot, dnext>>

SetInsert(t) ==
  /\ pc[t] = "insert"
  /\ values' = [values EXCEPT ![idx[t]] = arg[t]]
  /\ arg' = [arg EXCEPT ![t] = Empty]
  /\ Return(t, "ok")
  /\ UNCHANGED <<threads, gotPtr, dslot, dnext>>

-----------------------------------------------------------------------------
(* get returns the address of the own slot's value; the caller reads it later. *)

GetBegin(t) ==
  /\ MayCall(t)
  /\ Goto(t, "get", 1)
  /\ UNCHANGED <<threads, values, arg, gotPtr, reply, dslot, dnext>>

\* Mutant: any taken slot is taken for the own one.
GetScanAny(t) ==
  /\ pc[t] = "get"
  /\ threads[idx[t]] # NoThread
  /\ gotPtr' = [gotPtr EXCEPT ![t] = idx[t]]
  /\ Return(t, "found")
  /\ UNCHANGED <<threads, values, arg, dslot, dnext>>

GetScan(t) ==
  /\ pc[t] = "get"
  /\ \/ /\ threads[idx[t]] = t
        /\ gotPtr' = [gotPtr EXCEPT ![t] = idx[t]]
        /\ Return(t, "found")
     \/ /\ threads[idx[t]] # t /\ idx[t] < N
        /\ Goto(t, "get", idx[t] + 1)
        /\ UNCHANGED <<gotPtr, reply>>
     \/ /\ threads[idx[t]] # t /\ idx[t] = N
        /\ gotPtr' = [gotPtr EXCEPT ![t] = 0]
        /\ Return(t, "none")
  /\ UNCHANGED <<threads, values, arg, dslot, dnext>>

Deref(t) ==
  /\ MayCall(t)
  /\ gotPtr[t] # 0
  /\ reply' = [reply EXCEPT ![t] = values[gotPtr[t]]]
  /\ UNCHANGED <<threads, values, pc, idx, arg, gotPtr, dslot, dnext>>

-----------------------------------------------------------------------------
(* erase empties the own slot before it gives the slot up. *)

\* The caller drops the pointer it got: erase invalidates it.
EraseBegin(t) ==
  /\ MayCall(t)
  /\ Goto(t, "erase", 1)
  /\ gotPtr' = [gotPtr EXCEPT ![t] = 0]
  /\ UNCHANGED <<threads, values, arg, reply, dslot, dnext>>

\* Mutant: the value is left in the slot.
EraseScanKeeps(t) ==
  /\ pc[t] = "erase"
  /\ \/ threads[idx[t]] = t /\ Goto(t, "release", idx[t])
     \/ threads[idx[t]] # t /\ idx[t] < N /\ Goto(t, "erase", idx[t] + 1)
  /\ UNCHANGED <<threads, values, arg, gotPtr, reply, dslot, dnext>>

EraseScan(t) ==
  /\ pc[t] = "erase"
  /\ \/ /\ threads[idx[t]] = t
        /\ Goto(t, "clear", idx[t])
        /\ UNCHANGED reply
     \/ /\ threads[idx[t]] # t /\ idx[t] < N
        /\ Goto(t, "erase", idx[t] + 1)
        /\ UNCHANGED reply
     \/ /\ threads[idx[t]] # t /\ idx[t] = N
        /\ Return(t, "none")
  /\ UNCHANGED <<threads, values, arg, gotPtr, dslot, dnext>>

EraseClear(t) ==
  /\ pc[t] = "clear"
  /\ values' = [values EXCEPT ![idx[t]] = Empty]
  /\ Goto(t, "release", idx[t])
  /\ UNCHANGED <<threads, arg, gotPtr, reply, dslot, dnext>>

\* Mutant: the owner is overwritten without comparing.
EraseReleaseBlind(t) ==
  /\ pc[t] = "release"
  /\ threads' = [threads EXCEPT ![idx[t]] = NoThread]
  /\ Return(t, "ok")
  /\ UNCHANGED <<values, arg, gotPtr, dslot, dnext>>

EraseRelease(t) ==
  /\ pc[t] = "release"
  /\ \/ /\ threads[idx[t]] = t
        /\ threads' = [threads EXCEPT ![idx[t]] = NoThread]
        /\ Return(t, "ok")
     \/ /\ threads[idx[t]] # t
        /\ Return(t, "none")
        /\ UNCHANGED threads
  /\ UNCHANGED <<values, arg, gotPtr, dslot, dnext>>

-----------------------------------------------------------------------------
(* deinit frees slot after slot: the owner first, then the value. *)

DeinitBegin ==
  /\ dslot = 0
  /\ DeinitAlone => \A t \in Threads : pc[t] = "idle"
  /\ dslot' = 1
  /\ dnext' = "owner"
  /\ gotPtr' = [t \in Threads |-> 0]
  /\ UNCHANGED <<threads, values, pc, idx, arg, reply>>

DeinitOwner ==
  /\ dslot # 0 /\ dnext = "owner"
  /\ threads' = [threads EXCEPT ![dslot] = NoThread]
  /\ dnext' = "value"
  /\ UNCHANGED <<values, pc, idx, arg, gotPtr, reply, dslot>>

\* Mutant: the loop runs to i <= N.
DeinitValuePastEnd ==
  /\ dslot # 0 /\ dnext = "value"
  /\ values' = [values EXCEPT ![dslot] = Empty]
  /\ dnext' = "owner"
  /\ dslot' = IF dslot <= N THEN dslot + 1 ELSE 0
  /\ UNCHANGED <<threads, pc, idx, arg, gotPtr, reply>>

DeinitValue ==
  /\ dslot # 0 /\ dnext = "value"
  /\ values' = [values EXCEPT ![dslot] = Empty]
  /\ dnext' = "owner"
  /\ dslot' = IF dslot < N THEN dslot + 1 ELSE 0
  /\ UNCHANGED <<threads, pc, idx, arg, gotPtr, reply>>

-----------------------------------------------------------------------------
Begin(t) ==
  \/ \E v \in Values : SetBegin(t, v)
  \/ GetBegin(t) \/ Deref(t) \/ EraseBegin(t)

Step(t) ==
  \/ SetOwn(t) \/ SetNull(t) \/ SetInsert(t)
  \/ GetScan(t)
  \/ EraseScan(t) \/ EraseClear(t) \/ EraseRelease(t)

Deinit == DeinitBegin \/ DeinitOwner \/ DeinitValue

Next == Deinit \/ \E t \in Threads : Begin(t) \/ Step(t)

Spec == Init /\ [][Next]_vars

\* The kernel keeps running a thread that is inside a call.
FairSpec == Spec /\ \A t \in Threads : WF_vars(Step(t))

-----------------------------------------------------------------------------
(* What must hold. *)

Owns(t, i) == threads[i] = t

\* No thread owns two slots: set claims a slot only when the caller has none, though
\* it looks (lines 705-707) and claims (710-715) in separate steps.
SlotUnique ==
  \A i, j \in Slots : threads[i] = threads[j] /\ threads[i] # NoThread => i = j

\* With deinit kept apart from the calls, a thread reaches only its own value: the slot
\* it is about to store in or to empty, and the slot behind the pointer get gave it.
OwnAccess ==
  DeinitAlone =>
    \A t \in Threads :
      /\ pc[t] \in {"insert", "clear", "release"} => Owns(t, idx[t])
      /\ gotPtr[t] # 0 => Owns(t, gotPtr[t])

\* A free slot carries no value of its last owner, so the next one never meets it:
\* erase and deinit empty the value, and erase does so before it frees the slot.
FreeSlotEmpty ==
  DeinitAlone =>
    \A i \in Slots :
      threads[i] = NoThread => values[i] = Empty \/ (dslot = i /\ dnext = "value")

\* A slot leaves its owner only by the owner's own erase or by deinit, even when
\* deinit runs in the middle of calls: erase frees with a compare-and-swap on itself.
NoEviction ==
  [][\A i \in Slots : threads[i] # NoThread /\ threads'[i] # threads[i] =>
       \/ DeinitOwner /\ dslot = i
       \/ \E t \in Threads : Owns(t, i) /\ EraseRelease(t) /\ idx[t] = i]_vars

\* Every call returns: no thread waits for another one, since no loop retries a slot.
CallsReturn == \A t \in Threads : pc[t] # "idle" ~> pc[t] = "idle"

\* A claimed slot counts as a binding once set has stored, and until erase empties it.
Bindings(t) ==
  {i \in Slots : Owns(t, i) /\ pc[t] # "release" /\ ~(pc[t] = "insert" /\ values[i] = Empty)}

mapBar ==
  [t \in Threads |->
     IF Bindings(t) = {} THEN "absent" ELSE values[CHOOSE i \in Bindings(t) : TRUE]]

replyBar == [t \in Threads |-> IF pc[t] = "release" THEN "ok" ELSE reply[t]]

Map == INSTANCE ThreadMap WITH
         Absent <- "absent", map <- mapBar, reply <- replyBar, resetting <- dslot # 0

\* The slots implement a map private to each thread: set, get and erase take effect in
\* one step on the caller's binding and no step of another thread changes it.
ImplementsThreadMap == Map!Spec

=============================================================================
