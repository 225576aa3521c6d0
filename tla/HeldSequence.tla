---------------------------- MODULE HeldSequence ----------------------------
(***************************************************************************)
(* What an evector promises: a sequence that owns its elements.  An        *)
(* element is appended, removed at a position, or given up with all the    *)
(* others; whatever leaves the sequence is deleted, and deleted once.      *)
(***************************************************************************)
EXTENDS Naturals, Sequences, SequencesExt

CONSTANT Elem

VARIABLES items, deleted

Held == Range(items)

Init == items = <<>> /\ deleted = {}

Add ==
  \E e \in Elem \ (Held \cup deleted) :
    items' = Append(items, e) /\ UNCHANGED deleted

Drop ==
  \E i \in DOMAIN items :
    /\ items' = RemoveAt(items, i)
    /\ deleted' = deleted \cup {items[i]}

Clear == items' = <<>> /\ deleted' = deleted \cup Held

Next == Add \/ Drop \/ Clear

Spec == Init /\ [][Next]_<<items, deleted>>
=============================================================================
