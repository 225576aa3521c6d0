-------------------------- MODULE MCBatteryCombine --------------------------
(***************************************************************************)
(* TLC instance of BatteryCombine.  The history variables: during[i] is    *)
(* what slot i held since the running call began, fresh[m] the last answer *)
(* of m if it was computed from the batteries that are still there.        *)
(***************************************************************************)
EXTENDS BatteryCombine, FiniteSets

CONSTANTS CellNames   \* which of the cells below take part

VARIABLES during, fresh

MCUnknown == 1023
WideOnes == 65535

Cell(n, full, remaining, state) ==
  [unit |-> 1, design |-> 60, full |-> full, technology |-> 1, voltage |-> 12,
   warning |-> 5, low |-> 3, granularity |-> 1, names |-> <<n>>,
   revision |-> 0, cycles |-> full, accuracy |-> 90, sampling |-> MCUnknown,
   averaging |-> 2, swapping |-> 0,
   state |-> state, rate |-> 7, remaining |-> remaining, present |-> 11]

AllCells ==
  {Cell("charging", 50, 40, 2), Cell("discharging", 40, 40, 1), Cell("empty", 40, 0, 5),
   [Cell("unsure", 30, MCUnknown, 0) EXCEPT !.granularity = MCUnknown],
   Cell("low", 40, 2, 6), Cell("both", 45, 40, 3), Cell("unsized", MCUnknown, 40, 4)}
MCCells == {c \in AllCells : c.names[1] \in CellNames}
MCNoCell ==
  [f \in DOMAIN Cell("none", 0, 0, 0) |->
     IF f = "names" THEN <<>> ELSE IF f = "state" THEN 0 ELSE MCUnknown]

Stale == [m \in Methods |-> NoCell]
MCInit == Init /\ during = [i \in Slots |-> {}] /\ fresh = Stale

\* A slot changes between MaxHeld readings within one call.
MaxHeld == 2

Observe ==
  /\ during' = [i \in Slots |->
                  IF pc' = "idle" THEN {}
                  ELSE IF pc = "idle" /\ pc' # "idle" THEN {slot[i]}
                  ELSE during[i] \cup {slot'[i]}]
  /\ \A i \in Slots : Cardinality(during'[i]) <= MaxHeld
  /\ fresh' = IF slot' # slot THEN Stale
              ELSE IF pc = "combine" /\ \A i \in Slots : during[i] = {slot[i]}
                   THEN [fresh EXCEPT ![method] = answer'] ELSE fresh

MCNext == Next /\ Observe
MCVars == <<vars, during, fresh>>
MCSpec == MCInit /\ [][MCNext]_MCVars

\* Once a battery has passed the checks, the remaining capacity of _BST is the capacity one
\* battery had during the call, or the sum of the two: a battery that is inserted or pulled
\* between the reading of its data and of its status adds nothing that was not there.  And
\* _STA reports a battery only if a slot held one during the call, and none only if each
\* slot was empty at some moment of it.
AnswerIsReal ==
  [][/\ Combining /\ Present \in {status[0], status[1]} =>
          LET held(i) == {c.remaining : c \in during[i] \ {NoCell}} \ {Unknown}
              got == answer'.remaining
          IN  \/ got \in held(0) \cup held(1)
              \/ \E a \in held(0), b \in held(1) : got = a + b
     /\ pc = "sta" /\ pc' = "idle" =>
          IF present' = Present THEN \E i \in Slots : during[i] # {NoCell}
          ELSE \A i \in Slots : NoCell \in during[i]]_MCVars

\* The two descriptions of the combined battery agree on every field they share, the
\* batteries being the same.
BixMatchesBif ==
  NoCell \notin {fresh["BIF"], fresh["BIX"]} =>
    \A f \in DOMAIN BifRules : fresh["BIF"][f] = fresh["BIX"][f]

\* The combined battery is never charged beyond its combined full capacity.
RemainingWithinFull ==
  /\ NoCell \notin {fresh["BIF"], fresh["BST"]}
  /\ \E i \in Slots : slot[i].remaining \notin {0, Unknown}
  => fresh["BST"].remaining <= fresh["BIF"].full

\* Nor is it, though _BIF and _BST decide separately, by different checks, which batteries
\* count, as long as _BIF accepts the data of those that _BST adds.  The other slot may hold a
\* battery that only _BIF counts (it is empty, or does not know its charge), or none.
FullCoversCharge ==
  /\ NoCell \notin {fresh["BIF"], fresh["BST"]}
  /\ \E i \in Slots : slot[i].remaining \notin {0, Unknown}
  /\ \A i \in Slots : slot[i].remaining \notin {0, Unknown} =>
       {slot[i].design, slot[i].full, slot[i].voltage} \cap {0, Ones} = {}
  => fresh["BST"].remaining <= fresh["BIF"].full
=============================================================================
