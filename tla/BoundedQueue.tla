---------------------------- MODULE BoundedQueue ----------------------------
(***************************************************************************)
(* What CircularBuffer of kern_util.hpp promises: a first-in first-out     *)
(* queue of bounded length whose operations take effect in one step each.  *)
(***************************************************************************)
EXTENDS Naturals, Sequences

CONSTANTS
  Threads,   \* the callers
  Elements,  \* what they push
  Sizes      \* the capacities a queue may be created with

VARIABLES
  queue,     \* the elements, oldest first
  capacity,  \* the bound given at creation
  alive,     \* FALSE before creation and after destruction
  reply      \* the answer to the last call of each thread

vars == <<queue, capacity, alive, reply>>

Init ==
  /\ queue = <<>>
  /\ capacity = 0
  /\ alive = FALSE
  /\ reply = [t \in Threads |-> <<"none", 0>>]

Create(c) ==
  /\ ~alive
  /\ alive' = TRUE /\ capacity' = c /\ queue' = <<>>
  /\ UNCHANGED reply

Destroy ==
  /\ alive
  /\ alive' = FALSE /\ capacity' = 0 /\ queue' = <<>>
  /\ UNCHANGED reply

Answer(t, tag, v) ==
  /\ alive
  /\ reply' = [reply EXCEPT ![t] = <<tag, v>>]
  /\ UNCHANGED <<capacity, alive>>

Push(t, v) ==
  /\ Len(queue) < capacity
  /\ queue' = Append(queue, v)
  /\ Answer(t, "ok", v)

Pop(t) ==
  /\ queue # <<>>
  /\ queue' = Tail(queue)
  /\ Answer(t, "ok", Head(queue))

Full(t) == Len(queue) = capacity /\ Answer(t, "full", 0) /\ UNCHANGED queue
NotFull(t) == Len(queue) # capacity /\ Answer(t, "notFull", 0) /\ UNCHANGED queue
IsEmpty(t) == queue = <<>> /\ Answer(t, "empty", 0) /\ UNCHANGED queue
NotEmpty(t) == queue # <<>> /\ Answer(t, "notEmpty", 0) /\ UNCHANGED queue
Count(t) == Answer(t, "number", Len(queue)) /\ UNCHANGED queue

Next ==
  \/ \E c \in Sizes : Create(c)
  \/ Destroy
  \/ \E t \in Threads :
       \/ \E v \in Elements : Push(t, v)
       \/ Pop(t) \/ Full(t) \/ NotFull(t) \/ IsEmpty(t) \/ NotEmpty(t) \/ Count(t)

Spec == Init /\ [][Next]_vars
=============================================================================
