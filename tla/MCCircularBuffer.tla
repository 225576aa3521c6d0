-------------------------- MODULE MCCircularBuffer --------------------------
(* TLC instance of CircularBuffer. *)
EXTENDS CircularBuffer

\* Bound: the buffer holds at most two elements, and zero is a legal capacity.
MCSizes == 0..2

\* Bound: two distinct elements tell order and duplication apart.
MCElements == 1..2
=============================================================================
