--------------------------- MODULE BatteryCombine ---------------------------
(***************************************************************************)
(* The BATC device of SSDT-BATC.dsl: one battery made of BAT0 and BAT1.    *)
(* _STA, _BIF, _BIX and _BST evaluate the methods of both batteries one    *)
(* after the other; a battery may be pulled, inserted or change in         *)
(* between.  The methods keep everything in locals, so one caller is       *)
(* enough.  The system is Darwin; elsewhere _STA returns 0 and BATC does   *)
(* not exist.                                                              *)
(*                                                                         *)
(* BAT0 and BAT1 are devices of the firmware, not of this repository: a    *)
(* slot answers with what it holds, or with NoCell when it is empty.       *)
(***************************************************************************)
EXTENDS Integers, Sequences

CONSTANTS
  Cells,    \* what a battery may report, a set of records with all fields
  NoCell,   \* what the methods of an empty slot report
  Unknown,  \* 0xFFFFFFFF
  Ones      \* the integer Ones: 0xFFFFFFFF, or 64 bits wide

Slots == {0, 1}
Methods == {"BIF", "BIX", "BST"}

ASSUME NoCellAssumption == NoCell \notin Cells
ASSUME OnesAssumption == Unknown \in Nat /\ Ones \in Nat /\ Ones >= Unknown

VARIABLES
  slot,    \* what the two slots hold
  present, \* what its _STA has returned last, 0 before the first time
  hidden,  \* whether _INI has taken BAT0 and BAT1 away from the system
  pc,      \* where the running method is
  method,  \* which one it is
  data,    \* its Local0 and Local1
  status,  \* its Local2 and Local3
  answer   \* what it returned, NoCell while it runs

vars == <<slot, present, hidden, pc, method, data, status, answer>>

-----------------------------------------------------------------------------
(* How a field of the two packages becomes one. *)

BifRules ==
  [unit |-> "keep", design |-> "sum known", full |-> "sum known", technology |-> "keep",
   voltage |-> "mean known", warning |-> "sum", low |-> "sum",
   granularity |-> "sum known", names |-> "join"]

BixRules ==
  [revision |-> "keep", unit |-> "keep", design |-> "sum known", full |-> "sum known",
   technology |-> "keep", voltage |-> "mean known", warning |-> "sum", low |-> "sum",
   cycles |-> "mean known", accuracy |-> "mean", sampling |-> "mean known",
   averaging |-> "mean", granularity |-> "sum known", names |-> "join",
   swapping |-> "keep"]

BstRules ==
  [state |-> "state", rate |-> "sum", remaining |-> "sum", present |-> "mean"]

\* Mutant: the fields of _BIX are taken for those of _BIF one place earlier.
RulesShifted(m) ==
  CASE m = "BIF" -> BifRules [] m = "BST" -> BstRules
    [] m = "BIX" -> [BixRules EXCEPT !.voltage = BixRules.warning]

\* Mutant: the last full charge capacity of _BIF is averaged.
RulesMean(m) ==
  CASE m = "BIX" -> BixRules [] m = "BST" -> BstRules
    [] m = "BIF" -> [BifRules EXCEPT !.full = "mean known"]

Rules(m) == CASE m = "BIF" -> BifRules [] m = "BIX" -> BixRules [] m = "BST" -> BstRules

Add(a, b) == (a + b) % (Ones + 1)

\* Mutant: discharging wins over charging.
DischargingFirst(a, b) ==
  LET listed == {a, b} \cap 1..5 IN
  IF listed = {} THEN a ELSE CHOOSE s \in listed : \A u \in listed : s <= u

\* Two different states: 2 wins, then 1, 3, 4 and 5; any other leaves BAT0's.
StateOf(a, b) ==
  LET Rank == <<2, 1, 3, 4, 5>>
      listed == {a, b} \cap 1..5 IN
  IF a = b \/ listed = {} THEN a ELSE CHOOSE s \in listed : \A u \in listed : Rank[s] <= Rank[u]

Merge(rule, a, b) ==
  CASE rule = "keep" -> a
    [] rule = "sum" -> Add(a, b)
    [] rule = "mean" -> Add(a, b) \div 2
    [] rule = "sum known" -> IF Unknown \in {a, b} THEN a ELSE Add(a, b)
    [] rule = "mean known" -> IF Unknown \in {a, b} THEN a ELSE Add(a, b) \div 2
    [] rule = "join" -> a \o b
    [] rule = "state" -> StateOf(a, b)

\* Mutant: _BIX evaluates the _BIF of the batteries.
PackageBif(m, c) == [f \in DOMAIN Rules(IF m = "BIX" THEN "BIF" ELSE m) |-> c[f]]

Package(m, c) == [f \in DOMAIN Rules(m) |-> c[f]]
Combined(m, p, q) == [f \in DOMAIN Rules(m) |-> Merge(Rules(m)[f], p[f], q[f])]

-----------------------------------------------------------------------------
(* The methods. *)

\* What _STA of a slot returns, and the value of one that is present.
Present == \h1F
StatusOf(i) == IF slot[i] = NoCell THEN \h0F ELSE Present

\* The bitwise OR of two such values.
Or(a, b) == IF Present \in {a, b} THEN Present ELSE \h0F

TypeOK ==
  /\ slot \in [Slots -> Cells \cup {NoCell}]
  /\ present \in {0, \h0F, Present} /\ hidden \in BOOLEAN
  /\ pc \in {"idle", "sta", "data 0", "status 0", "data 1", "status 1", "combine"}
  /\ method \in Methods
  /\ \A i \in Slots : data[i] = NoCell \/ DOMAIN data[i] = DOMAIN Rules(method)
  /\ status \in [Slots -> {0, \h0F, Present}]
  /\ answer = NoCell \/ DOMAIN answer = DOMAIN Rules(method)

Init ==
  /\ slot \in [Slots -> Cells \cup {NoCell}]
  /\ present = 0 /\ hidden = FALSE /\ pc = "idle" /\ method = "BST"
  /\ data = [i \in Slots |-> NoCell]
  /\ status = [i \in Slots |-> 0]
  /\ answer = NoCell

\* A battery is pulled, inserted, or reports something else.
Change(i, c) ==
  /\ slot[i] # c
  /\ slot' = [slot EXCEPT ![i] = c]
  /\ UNCHANGED <<present, hidden, pc, method, data, status, answer>>

\* _STA evaluates that of BAT0, then that of BAT1, at any time.
StaFirst ==
  /\ pc = "idle"
  /\ status' = [status EXCEPT ![0] = StatusOf(0)]
  /\ pc' = "sta" /\ answer' = NoCell
  /\ UNCHANGED <<slot, present, hidden, method, data>>

StaSecond ==
  /\ pc = "sta"
  /\ present' = Or(status[0], StatusOf(1))
  /\ status' = [i \in Slots |-> 0]
  /\ pc' = "idle"
  /\ UNCHANGED <<slot, hidden, method, data, answer>>

\* _INI, which the system runs once _STA has reported BATC.
Initialise ==
  /\ ~hidden /\ pc = "idle" /\ present # 0
  /\ hidden' = TRUE
  /\ UNCHANGED <<slot, present, pc, method, data, status, answer>>

Call(m) ==
  /\ hidden /\ pc = "idle"
  /\ method' = m /\ pc' = "data 0"
  /\ answer' = NoCell
  /\ UNCHANGED <<slot, present, hidden, data, status>>

Read(i, from, to) ==
  /\ pc = from
  /\ data' = [data EXCEPT ![i] = Package(method, slot[i])]
  /\ pc' = to
  /\ UNCHANGED <<slot, present, hidden, method, status, answer>>

\* The fields that must be neither 0 nor Ones for a present battery to count.
Checked == IF method = "BST" THEN {"remaining"} ELSE {"design", "full", "voltage"}

\* Mutant: only a capacity of 0 is invalid.
ValidIfNonZero(p) == \A f \in Checked : p[f] # 0

Valid(p) == \A f \in Checked : p[f] \notin {0, Ones}

Check(i, from, to) ==
  /\ pc = from
  /\ status' = [status EXCEPT ![i] =
                  IF StatusOf(i) = Present /\ ~Valid(data[i]) THEN 0 ELSE StatusOf(i)]
  /\ pc' = to
  /\ UNCHANGED <<slot, present, hidden, method, data, answer>>

\* BAT1 stands in for BAT0; both are combined; or BAT0's data is all there is.
Result ==
  IF status[1] # Present THEN data[0]
  ELSE IF status[0] # Present THEN data[1] ELSE Combined(method, data[0], data[1])

Return ==
  /\ pc = "combine"
  /\ answer' = Result
  /\ pc' = "idle"
  /\ data' = [i \in Slots |-> NoCell] /\ status' = [i \in Slots |-> 0]
  /\ UNCHANGED <<slot, present, hidden, method>>

Evaluate ==
  \/ Read(0, "data 0", "status 0") \/ Check(0, "status 0", "data 1")
  \/ Read(1, "data 1", "status 1") \/ Check(1, "status 1", "combine")
  \/ Return

Next ==
  \/ \E i \in Slots, c \in Cells \cup {NoCell} : Change(i, c)
  \/ StaFirst \/ StaSecond
  \/ Initialise
  \/ \E m \in Methods : Call(m)
  \/ Evaluate

Spec == Init /\ [][Next]_vars

-----------------------------------------------------------------------------
(* What must hold. *)

\* The charging bit of _BST 0.
Charging(s) == (s \div 2) % 2 = 1

\* The states of the batteries _BST counts.
Counted == {data[i].state : i \in {j \in Slots : status[j] = Present}}
Combining == pc = "combine" /\ pc' = "idle" /\ method = "BST"

\* "If one battery is charging, then charging, else discharging" (line 356), of all states.
ChargingAlwaysReported ==
  [][Combining /\ (\E s \in Counted : Charging(s)) => Charging(answer'.state)]_vars

\* What the branches of lines 361-385 make of that claim: a charging battery is reported
\* unless it is in state 3 beside one in state 1, or one of them is in no branch.
ChargingReported ==
  [][Combining /\ Counted \subseteq 0..5 /\ ~({1, 3} \subseteq Counted)
       /\ (\E s \in Counted : Charging(s))
     => Charging(answer'.state)]_vars

=============================================================================
