--------------------------- MODULE MCThreadLocal ---------------------------
(***************************************************************************)
(* TLC instance of ThreadLocal, with a history variable: rivals[t] is the  *)
(* set of the other threads that owned a slot at some moment since t began *)
(* to look for a free one.                                                 *)
(***************************************************************************)
EXTENDS ThreadLocal, TLC

VARIABLE rivals

Owners == {threads[i] : i \in Slots} \ {NoThread}

MCInit == Init /\ rivals = [t \in Threads |-> {}]

Observe ==
  rivals' = [t \in Threads |->
               IF pc'[t] # "null" THEN {}
               ELSE Owners' \cup (IF pc[t] = "null" THEN rivals[t] ELSE Owners)]

MCNext == Next /\ Observe

Symmetry == Permutations(Threads)

MCSpec == MCInit /\ [][MCNext]_<<vars, rivals>>

MCFairSpec ==
  /\ MCInit
  /\ [][MCNext]_<<vars, rivals>>
  /\ \A t \in Threads : WF_vars(Step(t))

\* A set is refused only if at least N other threads owned a slot while it looked: the
\* scan of lines 710-715 is no snapshot, but two slots it found taken had different owners.
RefusedOnlyUnderCrowding ==
  [][\A t \in Threads :
       pc[t] = "null" /\ pc'[t] = "idle" => Cardinality(rivals[t]) >= N]_<<vars, rivals>>
=============================================================================
