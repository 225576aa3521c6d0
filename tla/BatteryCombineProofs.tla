------------------------ MODULE BatteryCombineProofs ------------------------
(***************************************************************************)
(* Proofs about BatteryCombine with the history of MCBatteryCombine, for   *)
(* any batteries that change at any moment.  What a theorem needs of the   *)
(* batteries themselves it assumes.                                        *)
(***************************************************************************)
EXTENDS MCBatteryCombine, TLAPS

After0 == {"status 0", "data 1", "status 1", "combine"}
After1 == {"status 1", "combine"}

\* Between two calls the methods keep nothing.
Control ==
  /\ DOMAIN data = Slots
  /\ pc \in {"idle", "sta", "data 0"} => \A i \in Slots : data[i] = NoCell

\* A call neither changes its method nor keeps anything when it ends.
LEMMA TypeStep ==
  ASSUME TypeOK, Control, [Next]_vars
  PROVE  TypeOK' /\ Control'
<1>1. \A m \in Methods : \A c : DOMAIN Package(m, c) = DOMAIN Rules(m)
  BY DEF Package
<1>2. \A p, q : DOMAIN Combined(method, p, q) = DOMAIN Rules(method)
  BY DEF Combined
<1>3. CASE \E i \in Slots, c \in Cells \cup {NoCell} : Change(i, c)
  BY <1>3 DEF Change, TypeOK, Control
<1>4. CASE Initialise \/ StaFirst \/ StaSecond
  <2>1. \A i : StatusOf(i) \in {0, \h0F, Present}
    BY DEF StatusOf
  <2>2. \A a, b : Or(a, b) \in {0, \h0F, Present}
    BY DEF Or
  <2>3. CASE Initialise
    BY <2>3 DEF Initialise, TypeOK, Control
  <2>4. CASE StaFirst
    <3>1. status' \in [Slots -> {0, \h0F, Present}]
      BY <2>1, <2>4 DEF StaFirst, TypeOK
    <3>2. QED
      BY <2>4, <3>1 DEF StaFirst, TypeOK, Control
  <2>5. CASE StaSecond
    <3>1. status' \in [Slots -> {0, \h0F, Present}] /\ present' \in {0, \h0F, Present}
      BY <2>2, <2>5 DEF StaSecond
    <3>2. QED
      BY <2>5, <3>1 DEF StaSecond, TypeOK, Control
  <2>6. QED
    BY <1>4, <2>3, <2>4, <2>5
<1>5. CASE \E m \in Methods : Call(m)
  BY <1>5 DEF Call, TypeOK, Control
<1>6. ASSUME NEW i \in Slots, Read(i, "data 0", "status 0") \/ Read(i, "data 1", "status 1")
      PROVE  TypeOK' /\ Control'
  <2>1. /\ data' = [data EXCEPT ![i] = Package(method, slot[i])]
        /\ pc' \in {"status 0", "status 1"} /\ UNCHANGED <<slot, present, hidden, method, status, answer>>
    BY <1>6 DEF Read
  <2>2. DOMAIN data' = Slots /\ data'[i] = Package(method, slot[i])
    BY <2>1 DEF Control
  <2>3. \A j \in Slots \ {i} : data'[j] = data[j]
    BY <2>1 DEF Control
  <2>4. DOMAIN data'[i] = DOMAIN Rules(method)
    BY <1>1, <2>2 DEF TypeOK
  <2>5. \A j \in Slots : data'[j] = NoCell \/ DOMAIN data'[j] = DOMAIN Rules(method)
    BY <2>3, <2>4 DEF TypeOK
  <2>6. TypeOK'
    BY <2>1, <2>5 DEF TypeOK
  <2>7. Control'
    BY <2>1, <2>2 DEF Control
  <2>8. QED
    BY <2>6, <2>7
<1>7. ASSUME NEW i \in Slots, Check(i, "status 0", "data 1") \/ Check(i, "status 1", "combine")
      PROVE  TypeOK' /\ Control'
  <2>1. StatusOf(i) \in {\h0F, Present}
    BY DEF StatusOf
  <2>2. status' \in [Slots -> {0, \h0F, Present}]
    BY <1>7, <2>1 DEF Check, TypeOK
  <2>3. QED
    BY <1>7, <2>2 DEF Check, TypeOK, Control
<1>8. CASE Return
  <2>1. Result = NoCell \/ DOMAIN Result = DOMAIN Rules(method)
    BY <1>2 DEF Result, TypeOK, Slots
  <2>2. status' \in [Slots -> {0, \h0F, Present}]
    BY <1>8 DEF Return
  <2>3. QED
    BY <1>8, <2>1, <2>2 DEF Return, TypeOK, Control
<1>9. CASE UNCHANGED vars
  BY <1>9 DEF vars, TypeOK, Control
<1>10. QED
  BY <1>3, <1>4, <1>5, <1>6, <1>7, <1>8, <1>9 DEF Next, Evaluate, Slots

\* Every answer and every intermediate package has the fields of its method.
THEOREM BatteryTypeCorrect == Spec => []TypeOK
<1>1. Init => TypeOK /\ Control
  BY DEF Init, TypeOK, Control, Methods
<1>2. TypeOK /\ Control /\ [Next]_vars => TypeOK' /\ Control'
  BY TypeStep
<1>3. QED
  BY <1>1, <1>2, PTL DEF Spec

\* The check a method makes of a package (line 116 and its counterparts), the method named.
CheckedBy(m) == IF m = "BST" THEN {"remaining"} ELSE {"design", "full", "voltage"}
ValidFor(m, p) == \A f \in CheckedBy(m) : p[f] \notin {0, Ones}

\* The status a method arrives at for a slot that holds c throughout.
StatusFor(m, c) ==
  IF c = NoCell THEN \h0F ELSE IF ValidFor(m, Package(m, c)) THEN Present ELSE 0

\* What a method answers when the slots hold s throughout.
AnswerFor(m, s) ==
  IF StatusFor(m, s[1]) # Present THEN Package(m, s[0])
  ELSE IF StatusFor(m, s[0]) # Present THEN Package(m, s[1])
  ELSE Combined(m, Package(m, s[0]), Package(m, s[1]))

Undisturbed(i) == during[i] = {slot[i]}

\* What a running call knows of the batteries.
Reading ==
  /\ pc # "idle" => \A i \in Slots : slot[i] \in during[i]
  /\ pc \in After0 /\ Undisturbed(0) => data[0] = Package(method, slot[0])
  /\ pc \in After0 \ {"status 0"} /\ Undisturbed(0) => status[0] = StatusFor(method, slot[0])
  /\ pc \in After1 /\ Undisturbed(1) => data[1] = Package(method, slot[1])
  /\ pc = "combine" /\ Undisturbed(1) => status[1] = StatusFor(method, slot[1])

\* An answer that is still fresh is the answer to the batteries that are there.
Fresh ==
  /\ DOMAIN fresh = Methods
  /\ \A m \in Methods : fresh[m] # NoCell => fresh[m] = AnswerFor(m, slot)

\* What is read is one of the readings the slot gave during the call.
Real ==
  /\ pc \in After0 => \E c \in during[0] : data[0] = Package(method, c)
  /\ pc \in After1 => \E c \in during[1] : data[1] = Package(method, c)
  /\ pc \in After0 \ {"status 0"} => (status[0] = Present => ValidFor(method, data[0]))
  /\ pc = "combine" => (status[1] = Present => ValidFor(method, data[1]))

\* What _STA has read of BAT0 is what a slot that held c during the call answers.
StaReal ==
  pc = "sta" => \E c \in during[0] : status[0] = IF c = NoCell THEN \h0F ELSE Present

Collected == \A i \in Slots : during[i] \subseteq Cells \cup {NoCell}

HistoryInv == TypeOK /\ Control /\ Reading /\ Fresh /\ Real /\ StaReal /\ Collected

\* A slot is undisturbed only if it was so before, and has not changed in the step.
LEMMA StillUndisturbed ==
  ASSUME HistoryInv, Observe, pc # "idle", pc' # "idle"
  PROVE  \A i \in Slots : /\ during'[i] = during[i] \cup {slot'[i]}
                          /\ slot'[i] \in during'[i]
                          /\ Undisturbed(i)' => Undisturbed(i) /\ slot'[i] = slot[i]
<1>1. \A i \in Slots : during'[i] = during[i] \cup {slot'[i]}
  BY DEF Observe
<1>2. \A i \in Slots : slot[i] \in during[i]
  BY DEF HistoryInv, Reading
<1>3. ASSUME NEW i \in Slots, Undisturbed(i)' PROVE Undisturbed(i) /\ slot'[i] = slot[i]
  <2>1. during[i] \cup {slot'[i]} = {slot'[i]} /\ slot[i] \in during[i]
    BY <1>1, <1>2, <1>3 DEF Undisturbed
  <2>2. slot'[i] = slot[i]
    BY <2>1
  <2>3. during[i] = {slot[i]}
    BY <2>1, <2>2
  <2>4. QED
    BY <2>2, <2>3 DEF Undisturbed
<1>4. QED
  BY <1>1, <1>3

\* The status a method gives a slot that is the same as when its data was read.
LEMMA StatusIsOfSlot ==
  ASSUME NEW i \in Slots, data[i] = Package(method, slot[i])
  PROVE  (IF StatusOf(i) = Present /\ ~Valid(data[i]) THEN 0 ELSE StatusOf(i))
           = StatusFor(method, slot[i])
BY DEF StatusFor, StatusOf, Valid, ValidFor, Checked, CheckedBy, Present

\* A slot counts as present only if its data passed the check.
LEMMA StatusPresent ==
  \A i : (IF StatusOf(i) = Present /\ ~Valid(data[i]) THEN 0 ELSE StatusOf(i)) = Present
           => Valid(data[i])
<1> SUFFICES ASSUME NEW i, ~Valid(data[i]),
                    (IF StatusOf(i) = Present /\ ~Valid(data[i]) THEN 0 ELSE StatusOf(i)) = Present
             PROVE  FALSE
  OBVIOUS
<1>1. 0 # Present
  BY DEF Present
<1>2. CASE StatusOf(i) = Present
  BY <1>1, <1>2, Zenon
<1>3. CASE StatusOf(i) # Present
  BY <1>3, Zenon
<1>4. QED
  BY <1>2, <1>3

\* A fresh answer stays fresh: a change of a slot makes every answer stale, and an answer
\* is recorded only when both slots were undisturbed while it was computed.
LEMMA FreshStep ==
  ASSUME HistoryInv, MCNext
  PROVE  Fresh'
<1> USE DEF HistoryInv
<1>1. CASE slot' # slot
  <2>1. fresh' = Stale
    BY <1>1 DEF MCNext, Observe
  <2>2. QED
    BY <2>1 DEF Fresh, Stale
<1>2. CASE slot' = slot /\ pc = "combine" /\ (\A i \in Slots : Undisturbed(i))
  <2>1. fresh' = [fresh EXCEPT ![method] = answer']
    BY <1>2 DEF MCNext, Observe, Undisturbed
  <2>2. CASE Return
    <3>1. /\ data[0] = Package(method, slot[0]) /\ status[0] = StatusFor(method, slot[0])
          /\ data[1] = Package(method, slot[1]) /\ status[1] = StatusFor(method, slot[1])
      BY <1>2 DEF Reading, After0, After1, Slots
    <3>2. answer' = AnswerFor(method, slot)
      BY <2>2, <3>1 DEF Return, Result, AnswerFor
    <3>3. QED
      BY <1>2, <2>1, <3>2 DEF Fresh, TypeOK
  <2>3. Return
    <3>1. ~(\E i \in Slots, c \in Cells \cup {NoCell} : Change(i, c))
      BY <1>2 DEF Change, TypeOK
    <3>2. ~Initialise /\ ~StaFirst /\ ~StaSecond /\ ~(\E m \in Methods : Call(m))
      BY <1>2 DEF Initialise, StaFirst, StaSecond, Call
    <3>3. QED
      BY <1>2, <3>1, <3>2 DEF MCNext, Next, Evaluate, Read, Check
  <2>4. QED
    BY <2>2, <2>3
<1>3. CASE slot' = slot /\ ~(pc = "combine" /\ (\A i \in Slots : Undisturbed(i)))
  <2>1. fresh' = fresh
    BY <1>3 DEF MCNext, Observe, Undisturbed
  <2>2. QED
    BY <1>3, <2>1 DEF Fresh
<1>4. QED
  BY <1>1, <1>2, <1>3

\* A method reads a slot once: what it has read is the slot's, as long as the slot rests.
LEMMA ReadingStep ==
  ASSUME HistoryInv, MCNext
  PROVE  Reading' /\ Real'
<1> USE DEF HistoryInv
<1>1. Next /\ Observe
  BY DEF MCNext
<1>2. CASE pc' = "idle"
  BY <1>2 DEF Reading, Real, After0, After1
<1>3. CASE pc = "idle" /\ pc' # "idle"
  <2>1. (\E m \in Methods : Call(m)) \/ StaFirst
    BY <1>1, <1>3 DEF Next, Change, Initialise, StaSecond, Evaluate, Read, Check, Return
  <2>2. pc' \in {"data 0", "sta"} /\ \A i \in Slots : during'[i] = {slot[i]} /\ slot'[i] = slot[i]
    BY <1>1, <1>3, <2>1 DEF Call, StaFirst, Observe
  <2>3. QED
    BY <2>2 DEF Reading, Real, After0, After1
<1>4. CASE pc # "idle" /\ pc' # "idle"
  <2>1. \A i \in Slots : /\ during'[i] = during[i] \cup {slot'[i]}
                         /\ slot'[i] \in during'[i]
                         /\ Undisturbed(i)' => Undisturbed(i) /\ slot'[i] = slot[i]
    BY <1>1, <1>4, StillUndisturbed
  <2>2. 0 \in Slots /\ 1 \in Slots /\ 0 # 1
    BY DEF Slots
  <2>3. CASE UNCHANGED <<pc, method, data, status>>
    <3>1. Reading'
      BY <2>1, <2>2, <2>3 DEF Reading
    <3>2. Real'
      BY <2>1, <2>2, <2>3 DEF Real, ValidFor
    <3>3. QED
      BY <3>1, <3>2
  <2>4. CASE Read(0, "data 0", "status 0")
    <3>1. data'[0] = Package(method', slot'[0]) /\ slot'[0] = slot[0] /\ pc' = "status 0"
      BY <2>2, <2>4 DEF Read, Control
    <3>2. QED
      BY <2>1, <2>2, <3>1 DEF Reading, Real, After0, After1
  <2>5. CASE Check(0, "status 0", "data 1")
    <3>1. /\ UNCHANGED <<method, data, slot>> /\ pc = "status 0" /\ pc' = "data 1"
          /\ status'[0] = IF StatusOf(0) = Present /\ ~Valid(data[0]) THEN 0 ELSE StatusOf(0)
      BY <2>2, <2>5 DEF Check, TypeOK
    <3>2. Undisturbed(0)' => status'[0] = StatusFor(method', slot'[0]) /\ data'[0] = Package(method', slot'[0])
      BY <2>1, <2>2, <3>1, StatusIsOfSlot DEF Reading, After0
    <3>3. status'[0] = Present => ValidFor(method', data'[0])
      <4>1. status'[0] = Present => Valid(data[0])
        BY <3>1, StatusPresent
      <4>2. Valid(data[0]) => ValidFor(method, data[0])
        BY DEF Valid, ValidFor, Checked, CheckedBy
      <4>3. QED
        BY <3>1, <4>1, <4>2
    <3>4. Reading'
      BY <2>1, <2>2, <3>1, <3>2 DEF Reading, After0, After1
    <3>5. Real'
      BY <2>1, <2>2, <3>1, <3>3 DEF Real, After0, After1
    <3>6. QED
      BY <3>4, <3>5
  <2>6. CASE Read(1, "data 1", "status 1")
    <3>1. /\ data'[1] = Package(method', slot'[1]) /\ slot' = slot /\ pc' = "status 1"
          /\ data'[0] = data[0] /\ pc = "data 1" /\ UNCHANGED <<method, status>>
      BY <2>2, <2>6 DEF Read, Control
    <3>2. Reading'
      BY <2>1, <2>2, <3>1 DEF Reading, After0, After1
    <3>3. Real'
      BY <2>1, <2>2, <3>1 DEF Real, After0, After1, ValidFor
    <3>4. QED
      BY <3>2, <3>3
  <2>7. CASE Check(1, "status 1", "combine")
    <3>1. /\ UNCHANGED <<method, data, slot>> /\ pc = "status 1" /\ pc' = "combine"
          /\ status'[1] = IF StatusOf(1) = Present /\ ~Valid(data[1]) THEN 0 ELSE StatusOf(1)
          /\ status'[0] = status[0]
      BY <2>2, <2>7 DEF Check, TypeOK
    <3>2. Undisturbed(1)' => status'[1] = StatusFor(method', slot'[1]) /\ data'[1] = Package(method', slot'[1])
      BY <2>1, <2>2, <3>1, StatusIsOfSlot DEF Reading, After1
    <3>3. status'[1] = Present => ValidFor(method', data'[1])
      <4>1. status'[1] = Present => Valid(data[1])
        BY <3>1, StatusPresent
      <4>2. Valid(data[1]) => ValidFor(method, data[1])
        BY DEF Valid, ValidFor, Checked, CheckedBy
      <4>3. QED
        BY <3>1, <4>1, <4>2
    <3>4. Reading'
      BY <2>1, <2>2, <3>1, <3>2 DEF Reading, After0, After1
    <3>5. Real'
      BY <2>1, <2>2, <3>1, <3>3 DEF Real, After0, After1, ValidFor
    <3>6. QED
      BY <3>4, <3>5
  <2>8. QED
    BY <1>1, <1>4, <2>3, <2>4, <2>5, <2>6, <2>7
       DEF Next, Change, Initialise, StaFirst, StaSecond, Call, Evaluate, Return
<1>5. QED
  BY <1>2, <1>3, <1>4

\* BAT0's answer to _STA stays that of a moment of the call.
LEMMA StaRealStep ==
  ASSUME HistoryInv, MCNext
  PROVE  StaReal'
<1> SUFFICES ASSUME pc' = "sta"
             PROVE  \E c \in during'[0] : status'[0] = IF c = NoCell THEN \h0F ELSE Present
  BY DEF StaReal
<1>1. Next /\ Observe /\ DOMAIN status = Slots /\ 0 \in Slots
  BY DEF MCNext, HistoryInv, TypeOK, Slots
<1>2. CASE StaFirst
  <2>1. during'[0] = {slot[0]} /\ status'[0] = StatusOf(0)
    BY <1>1, <1>2 DEF StaFirst, Observe
  <2>2. QED
    BY <2>1 DEF StatusOf
<1>3. CASE ~StaFirst
  <2>1. pc = "sta" /\ status' = status
    BY <1>1, <1>3 DEF Next, Change, Initialise, StaSecond, Call, Evaluate, Read, Check, Return
  <2>2. during[0] \subseteq during'[0]
    BY <1>1, <2>1 DEF Observe
  <2>3. QED
    BY <2>1, <2>2 DEF HistoryInv, StaReal
<1>4. QED
  BY <1>2, <1>3

\* The invariant of the model with its history.
LEMMA HistoryInvariant == MCSpec => []HistoryInv
<1>1. MCInit => HistoryInv
  <2>1. Init => TypeOK /\ Control
    BY DEF Init, TypeOK, Control, Methods
  <2>2. MCInit => Reading /\ Fresh /\ Real /\ StaReal /\ Collected
    BY DEF MCInit, Init, Reading, Fresh, Real, StaReal, Collected, Stale, After0, After1
  <2>3. QED
    BY <2>1, <2>2 DEF MCInit, HistoryInv
<1>2. HistoryInv /\ [MCNext]_MCVars => HistoryInv'
  <2> SUFFICES ASSUME HistoryInv, [MCNext]_MCVars PROVE HistoryInv'
    OBVIOUS
  <2>1. CASE MCNext
    <3>1. TypeOK' /\ Control'
      BY <2>1, TypeStep DEF HistoryInv, MCNext
    <3>2. Collected'
      <4>1. \A i \in Slots : during'[i] \subseteq during[i] \cup {slot[i], slot'[i]}
        BY <2>1 DEF MCNext, Observe
      <4>2. QED
        BY <3>1, <4>1 DEF HistoryInv, TypeOK, Collected
    <3>3. QED
      BY <2>1, <3>1, <3>2, ReadingStep, StaRealStep, FreshStep DEF HistoryInv
  <2>2. CASE UNCHANGED MCVars
    <3>1. UNCHANGED <<slot, present, hidden, pc, method, data, status, answer, during, fresh>>
      BY <2>2 DEF MCVars, vars
    <3>2. TypeOK' /\ Control' /\ Collected'
      BY <3>1 DEF HistoryInv, TypeOK, Control, Collected
    <3>3. Reading' /\ Fresh'
      BY <3>1 DEF HistoryInv, Reading, Undisturbed, Fresh
    <3>4. Real' /\ StaReal'
      BY <3>1 DEF HistoryInv, Real, StaReal, ValidFor
    <3>5. QED
      BY <3>2, <3>3, <3>4 DEF HistoryInv
  <2>3. QED
    BY <2>1, <2>2
<1>3. QED
  BY <1>1, <1>2, PTL DEF MCSpec

\* The fields _BIX shares with _BIF are combined by the same rule, and the checked ones are
\* among them.
LEMMA SharedRules ==
  /\ \A f \in DOMAIN BifRules : f \in DOMAIN BixRules /\ BixRules[f] = BifRules[f]
  /\ {"design", "full", "voltage"} \subseteq DOMAIN BifRules
  /\ Rules("BIF") = BifRules /\ Rules("BIX") = BixRules
<1>1. DOMAIN BifRules =
        {"unit", "design", "full", "technology", "voltage", "warning",
         "low", "granularity", "names"}
  BY DEF BifRules
<1>2. DOMAIN BixRules =
        {"revision", "unit", "design", "full", "technology", "voltage",
         "warning", "low", "cycles", "accuracy", "sampling", "averaging",
         "granularity", "names", "swapping"}
  BY DEF BixRules
<1>3. ASSUME NEW f \in DOMAIN BifRules PROVE BixRules[f] = BifRules[f]
  <2>1. BixRules["unit"] = BifRules["unit"]
    BY DEF BifRules, BixRules
  <2>2. BixRules["design"] = BifRules["design"]
    BY DEF BifRules, BixRules
  <2>3. BixRules["full"] = BifRules["full"]
    BY DEF BifRules, BixRules
  <2>4. BixRules["technology"] = BifRules["technology"]
    BY DEF BifRules, BixRules
  <2>5. BixRules["voltage"] = BifRules["voltage"]
    BY DEF BifRules, BixRules
  <2>6. BixRules["warning"] = BifRules["warning"]
    BY DEF BifRules, BixRules
  <2>7. BixRules["low"] = BifRules["low"]
    BY DEF BifRules, BixRules
  <2>8. BixRules["granularity"] = BifRules["granularity"]
    BY DEF BifRules, BixRules
  <2>9. BixRules["names"] = BifRules["names"]
    BY DEF BifRules, BixRules
  <2>10. QED
    BY <1>1, <1>3, <2>1, <2>2, <2>3, <2>4, <2>5, <2>6, <2>7, <2>8, <2>9
<1>4. Rules("BIF") = BifRules /\ Rules("BIX") = BixRules
  BY DEF Rules
<1>5. QED
  BY <1>1, <1>2, <1>3, <1>4

\* _BIF and _BIX answer alike for the same batteries, field by field.
LEMMA AnswersAgree ==
  ASSUME NEW s, NEW f \in DOMAIN BifRules
  PROVE  AnswerFor("BIF", s)[f] = AnswerFor("BIX", s)[f]
<1>1. \A c, g : g \in DOMAIN BifRules => Package("BIF", c)[g] = Package("BIX", c)[g]
  BY SharedRules DEF Package
<1>2. \A c : StatusFor("BIF", c) = StatusFor("BIX", c)
  <2>1. CheckedBy("BIF") = {"design", "full", "voltage"} /\ CheckedBy("BIX") = CheckedBy("BIF")
    BY DEF CheckedBy
  <2>2. \A c : \A g \in CheckedBy("BIF") : Package("BIF", c)[g] = Package("BIX", c)[g]
    BY <1>1, <2>1, SharedRules
  <2>3. \A c : ValidFor("BIF", Package("BIF", c)) <=> ValidFor("BIX", Package("BIX", c))
    BY <2>1, <2>2 DEF ValidFor
  <2>4. QED
    BY <2>3 DEF StatusFor
<1>3. \A p, q, u, v : p[f] = u[f] /\ q[f] = v[f]
                        => Combined("BIF", p, q)[f] = Combined("BIX", u, v)[f]
  BY SharedRules DEF Combined
<1>4. QED
  BY <1>1, <1>2, <1>3 DEF AnswerFor

\* Software that reads _BIX and software that reads _BIF see the same battery.
THEOREM BixAgreesWithBif == MCSpec => []BixMatchesBif
<1>1. HistoryInv => BixMatchesBif
  BY AnswersAgree DEF HistoryInv, Fresh, BixMatchesBif, Methods
<1>2. QED
  BY HistoryInvariant, <1>1, PTL

\* What the provers need of BAT0 and BAT1 to add their capacities: integers of 32 bits, and
\* capacities whose sum is below the value that means "unknown".
CapacitiesFit ==
  /\ Ones = Unknown /\ NoCell.remaining = Unknown
  /\ \A c \in Cells : c.remaining \in Nat
  /\ \A c, d \in Cells :
       Unknown \notin {c.remaining, d.remaining} => c.remaining + d.remaining < Unknown

\* A package that passed the check of _BST holds a capacity the slot had during the call.
LEMMA CapacityIsReal ==
  ASSUME CapacitiesFit, HistoryInv, pc = "combine", method = "BST",
         NEW i \in Slots, status[i] = Present
  PROVE  \E c \in during[i] \ {NoCell} :
           c \in Cells /\ c.remaining # Unknown /\ data[i].remaining = c.remaining
<1> USE DEF HistoryInv
<1>1. PICK c \in during[i] : data[i] = Package("BST", c)
  BY DEF Real, After0, After1, Slots
<1>2. data[i].remaining = c.remaining
  BY <1>1 DEF Package, Rules, BstRules
<1>3. ValidFor("BST", data[i])
  BY DEF Real, After0, Slots
<1>4. data[i].remaining # Ones
  BY <1>3 DEF ValidFor, CheckedBy
<1>5. QED
  BY <1>1, <1>2, <1>4 DEF CapacitiesFit, Collected

\* A sum that stays below the largest integer is not cut.
LEMMA AddFits ==
  ASSUME NEW a \in Nat, NEW b \in Nat, a + b < Ones + 1
  PROVE  Add(a, b) = a + b
BY OnesAssumption DEF Add

\* The only step that ends a call returns its result.
LEMMA EndsWithReturn ==
  ASSUME [MCNext]_MCVars, pc = "combine", pc' = "idle"
  PROVE  Return
<1>1. MCNext
  BY DEF MCVars, vars
<1>2. QED
  BY <1>1 DEF MCNext, Next, Change, Initialise, StaFirst, StaSecond, Call, Evaluate, Read, Check

\* _STA ends with what it has read of BAT0 and reads of BAT1.
LEMMA EndsWithStaSecond ==
  ASSUME [MCNext]_MCVars, pc = "sta", pc' = "idle"
  PROVE  StaSecond
<1>1. MCNext
  BY DEF MCVars, vars
<1>2. QED
  BY <1>1 DEF MCNext, Next, Change, Initialise, StaFirst, Call, Evaluate, Read, Check, Return

\* A battery that comes or goes between two readings adds no capacity of its own making, and
\* makes _STA report neither a battery nor two empty slots that never were.
THEOREM RemainingIsReal ==
  ASSUME CapacitiesFit
  PROVE  MCSpec => AnswerIsReal
<1> DEFINE held(i) == {c.remaining : c \in during[i] \ {NoCell}} \ {Unknown}
           got == answer'.remaining
           Goal == \/ got \in held(0) \cup held(1)
                   \/ \E a \in held(0), b \in held(1) : got = a + b
           StaGoal == IF present' = Present THEN \E i \in Slots : during[i] # {NoCell}
                      ELSE \A i \in Slots : NoCell \in during[i]
<1>1. ASSUME HistoryInv, [MCNext]_MCVars, pc = "combine", pc' = "idle", method = "BST",
             Present \in {status[0], status[1]}
      PROVE  Goal
  <2>1. Return
    BY <1>1, EndsWithReturn
  <2>2. ASSUME NEW i \in Slots, status[i] = Present
        PROVE  data[i].remaining \in held(i) /\ data[i].remaining \in Nat
    <3>1. PICK c \in during[i] \ {NoCell} :
            c \in Cells /\ c.remaining # Unknown /\ data[i].remaining = c.remaining
      BY <1>1, <2>2, CapacityIsReal
    <3>2. QED
      BY <3>1 DEF CapacitiesFit
  <2>3. 0 \in Slots /\ 1 \in Slots
    BY DEF Slots
  <2>4. CASE status[1] # Present
    <3>1. status[0] = Present /\ answer' = data[0]
      BY <1>1, <2>1, <2>4 DEF Return, Result
    <3>2. QED
      BY <2>2, <2>3, <3>1
  <2>5. CASE status[1] = Present /\ status[0] # Present
    <3>1. answer' = data[1]
      BY <2>1, <2>5 DEF Return, Result
    <3>2. QED
      BY <2>2, <2>3, <2>5, <3>1
  <2>6. CASE status[1] = Present /\ status[0] = Present
    <3> DEFINE a == data[0].remaining
               b == data[1].remaining
    <3>1. a \in held(0) /\ b \in held(1) /\ a \in Nat /\ b \in Nat
      BY <2>2, <2>3, <2>6
    <3>2. a + b < Ones + 1
      <4>1. PICK c \in Cells : c.remaining = a /\ a # Unknown
        BY <1>1, <2>3, <2>6, CapacityIsReal
      <4>2. PICK d \in Cells : d.remaining = b /\ b # Unknown
        BY <1>1, <2>3, <2>6, CapacityIsReal
      <4>3. a + b < Unknown
        BY <4>1, <4>2 DEF CapacitiesFit
      <4>4. QED
        BY <3>1, <4>3, OnesAssumption DEF CapacitiesFit
    <3>3. answer' = Combined("BST", data[0], data[1])
      BY <1>1, <2>1, <2>6 DEF Return, Result
    <3>4. got = Merge("sum", a, b)
      BY <3>3 DEF Combined, Rules, BstRules
    <3>5. got = a + b
      BY <3>1, <3>2, <3>4, AddFits DEF Merge
    <3>6. QED
      BY <3>1, <3>5
  <2>7. QED
    BY <2>4, <2>5, <2>6
<1>2. ASSUME HistoryInv, [MCNext]_MCVars, pc = "sta", pc' = "idle"
      PROVE  StaGoal
  <2>1. present' = Or(status[0], StatusOf(1))
    BY <1>2, EndsWithStaSecond DEF StaSecond
  <2>2. PICK c \in during[0] : status[0] = IF c = NoCell THEN \h0F ELSE Present
    BY <1>2 DEF HistoryInv, StaReal
  <2>3. slot[1] \in during[1] /\ Slots = {0, 1}
    BY <1>2 DEF HistoryInv, Reading, Slots
  <2>4. \h0F # Present
    BY DEF Present
  <2>5. QED
    BY <2>1, <2>2, <2>3, <2>4 DEF Or, StatusOf
<1>3. HistoryInv /\ [MCNext]_MCVars =>
        [/\ Combining /\ Present \in {status[0], status[1]} => Goal
         /\ pc = "sta" /\ pc' = "idle" => StaGoal]_MCVars
  BY <1>1, <1>2 DEF Combining
<1>4. QED
  BY HistoryInvariant, <1>3, PTL DEF MCSpec, AnswerIsReal

\* Of two listed states 2 comes first, and 3 before all but 1.
LEMMA ChargingWins ==
  ASSUME NEW a \in 0..5, NEW b \in 0..5, {1, 3} # {a, b}
  PROVE  /\ 2 \in {a, b} => StateOf(a, b) = 2
         /\ 2 \notin {a, b} /\ 3 \in {a, b} => StateOf(a, b) = 3
<1>1. CASE a = b
  BY <1>1 DEF StateOf
<1>2. CASE a # b
  <2> DEFINE Rank == <<2, 1, 3, 4, 5>>
             listed == {a, b} \cap 1..5
             Best(s) == \A u \in listed : Rank[s] <= Rank[u]
  <2>1. /\ \A s \in listed : s \in {1, 2, 3, 4, 5} /\ s \in {a, b}
        /\ \A s \in {1, 2, 3, 4, 5} : s \in {a, b} => s \in listed
    <3>1. 1..5 = {1, 2, 3, 4, 5}
      OBVIOUS
    <3>2. QED
      BY <3>1
  <2>2. Rank[1] = 2 /\ Rank[2] = 1 /\ Rank[3] = 3 /\ Rank[4] = 4 /\ Rank[5] = 5
    OBVIOUS
  <2>3. listed # {} => StateOf(a, b) = CHOOSE s \in listed : Best(s)
    BY <1>2 DEF StateOf
  <2>4. CASE 2 \in {a, b}
    <3>1. 2 \in listed
      BY <2>1, <2>4
    <3>2. Best(2) /\ \A s \in listed : Best(s) => s = 2
      BY <2>1, <2>2, <3>1
    <3> HIDE DEF Best, listed
    <3>3. QED
      BY <2>3, <2>4, <3>1, <3>2
  <2>5. CASE 2 \notin {a, b} /\ 3 \in {a, b}
    <3>1. 3 \in listed /\ 1 \notin listed /\ 2 \notin listed
      BY <1>2, <2>1, <2>5
    <3>2. Best(3) /\ \A s \in listed : Best(s) => s = 3
      BY <2>1, <2>2, <3>1
    <3> HIDE DEF Best, listed
    <3>3. QED
      BY <2>3, <2>5, <3>1, <3>2
  <2>6. QED
    BY <2>4, <2>5
<1>3. QED
  BY <1>1, <1>2

\* A charging battery is reported as charging, whatever the batteries are, in the cases the
\* branches cover: both states are 0 to 5, and they are not 1 and 3.
THEOREM ChargingIsReported == MCSpec => ChargingReported
<1> DEFINE Covered == /\ Combining /\ Counted \subseteq 0..5 /\ ~({1, 3} \subseteq Counted)
                      /\ \E s \in Counted : Charging(s)
<1>1. ASSUME [MCNext]_MCVars, Covered
      PROVE  Charging(answer'.state)
  <2>1. Return /\ method = "BST"
    BY <1>1, EndsWithReturn DEF Combining
  <2>2. PICK i \in Slots : status[i] = Present /\ Charging(data[i].state)
    BY <1>1 DEF Counted
  <2>3. \A s \in 0..5 : Charging(s) <=> s \in {2, 3}
    BY DEF Charging
  <2>4. i \in {0, 1} /\ Slots = {0, 1}
    BY DEF Slots
  <2>5. CASE status[1] # Present
    BY <2>1, <2>2, <2>4, <2>5 DEF Return, Result
  <2>6. CASE status[1] = Present /\ status[0] # Present
    BY <2>1, <2>2, <2>4, <2>6 DEF Return, Result
  <2>7. CASE status[1] = Present /\ status[0] = Present
    <3> DEFINE a == data[0].state
               b == data[1].state
    <3>1. answer' = Combined("BST", data[0], data[1])
      BY <2>1, <2>7 DEF Return, Result
    <3>2. answer'.state = Merge("state", a, b)
      BY <3>1 DEF Combined, Rules, BstRules
    <3>3. answer'.state = StateOf(a, b)
      BY <3>2 DEF Merge
    <3>4. Counted = {a, b}
      BY <2>4, <2>7 DEF Counted
    <3>5. a \in 0..5 /\ b \in 0..5 /\ {1, 3} # {a, b}
      BY <1>1, <3>4
    <3>6. 2 \in {a, b} \/ 3 \in {a, b}
      BY <2>2, <2>3, <2>4, <3>5
    <3>7. StateOf(a, b) \in {2, 3}
      BY <3>5, <3>6, ChargingWins
    <3>8. QED
      BY <2>3, <3>3, <3>7
  <2>8. QED
    BY <2>5, <2>6, <2>7
<1>2. [MCNext]_MCVars => [Covered => Charging(answer'.state)]_vars
  BY <1>1
<1>3. QED
  BY <1>2, PTL DEF MCSpec, ChargingReported

\* A battery whose data _BIF accepts.
Sized(c) == {c.design, c.full, c.voltage} \cap {0, Ones} = {}

\* What the provers need of BAT0 and BAT1 to compare capacities: integers of 32 bits, and
\* batteries that charge no further than the full capacity they report, if _BIF accepts it.
\* The others may report anything.
ChargeWithinFull ==
  /\ Ones = Unknown /\ NoCell.remaining = Unknown
  /\ \A c \in Cells : c.remaining \in Nat /\ c.full \in Nat
  /\ \A c \in Cells : Sized(c) /\ c.remaining # Unknown => c.remaining <= c.full
  /\ \A c, d \in Cells : Sized(c) /\ Sized(d) => c.full + d.full < Unknown

\* Which cells _BIF and _BST count, and what their packages hold of them.
LEMMA CountedCells ==
  ASSUME ChargeWithinFull
  PROVE  /\ \A c \in Cells : StatusFor("BIF", c) = Present <=> Sized(c)
         /\ StatusFor("BIF", NoCell) # Present /\ StatusFor("BST", NoCell) # Present
         /\ \A c \in Cells : StatusFor("BST", c) = Present <=> c.remaining \notin {0, Unknown}
         /\ \A c : Package("BIF", c).full = c.full /\ Package("BST", c).remaining = c.remaining
<1>1. \A c : /\ Package("BIF", c).full = c.full /\ Package("BST", c).remaining = c.remaining
             /\ Package("BIF", c).design = c.design /\ Package("BIF", c).voltage = c.voltage
  BY DEF Package, Rules, BifRules, BstRules
<1>2. StatusFor("BIF", NoCell) # Present /\ StatusFor("BST", NoCell) # Present
  BY DEF StatusFor, Present
<1>3. ASSUME NEW c \in Cells
      PROVE  /\ StatusFor("BIF", c) = Present <=> Sized(c)
             /\ StatusFor("BST", c) = Present <=> c.remaining \notin {0, Unknown}
  <2>1. c # NoCell /\ 0 # Present
    BY NoCellAssumption DEF Present
  <2>2. ValidFor("BIF", Package("BIF", c)) <=> Sized(c)
    BY <1>1 DEF ValidFor, CheckedBy, Sized
  <2>3. ValidFor("BST", Package("BST", c)) <=> c.remaining \notin {0, Unknown}
    BY <1>1 DEF ValidFor, CheckedBy, ChargeWithinFull
  <2>4. QED
    BY <2>1, <2>2, <2>3 DEF StatusFor
<1>4. QED
  BY <1>1, <1>2, <1>3

\* Though _BIF and _BST decide separately which batteries count, the sum of one never falls
\* behind that of the other as long as _BIF accepts those that _BST counts.
THEOREM ChargeStaysWithinFull ==
  ASSUME ChargeWithinFull
  PROVE  MCSpec => []FullCoversCharge
<1>1. ASSUME HistoryInv, NoCell \notin {fresh["BIF"], fresh["BST"]},
             NEW i \in Slots, slot[i].remaining \notin {0, Unknown},
             \A j \in Slots : slot[j].remaining \notin {0, Unknown} => Sized(slot[j])
      PROVE  fresh["BST"].remaining <= fresh["BIF"].full
  <2>1. fresh["BIF"] = AnswerFor("BIF", slot) /\ fresh["BST"] = AnswerFor("BST", slot)
    BY <1>1 DEF HistoryInv, Fresh, Methods
  <2>2. slot[0] \in Cells \cup {NoCell} /\ slot[1] \in Cells \cup {NoCell} /\ i \in {0, 1}
    BY <1>1 DEF HistoryInv, TypeOK, Slots
  <2> DEFINE Charged(j) == slot[j] \in Cells /\ slot[j].remaining \notin {0, Unknown}
             Accepted(j) == slot[j] \in Cells /\ Sized(slot[j])
             full == fresh["BIF"].full
             charge == fresh["BST"].remaining
  <2>3. \A j \in {0, 1} : /\ StatusFor("BST", slot[j]) = Present <=> Charged(j)
                          /\ StatusFor("BIF", slot[j]) = Present <=> Accepted(j)
                          /\ Charged(j) => Accepted(j)
    BY <1>1, <2>2, CountedCells, NoCellAssumption DEF Slots
  <2>4. i \in {0, 1} /\ Charged(i)
    BY <1>1, <2>2 DEF ChargeWithinFull
  <2>5. Accepted(0) /\ Accepted(1) => full = slot[0].full + slot[1].full /\ full < Unknown
    <3> SUFFICES ASSUME Accepted(0), Accepted(1)
                 PROVE  full = slot[0].full + slot[1].full /\ full < Unknown
      OBVIOUS
    <3> DEFINE a == slot[0].full
               b == slot[1].full
    <3>1. fresh["BIF"] = Combined("BIF", Package("BIF", slot[0]), Package("BIF", slot[1]))
      BY <2>1, <2>3 DEF AnswerFor
    <3>2. full = Merge("sum known", a, b)
      <4>1. Package("BIF", slot[0]).full = a /\ Package("BIF", slot[1]).full = b
        BY CountedCells
      <4>2. BifRules["full"] = "sum known" /\ "full" \in DOMAIN BifRules
        BY DEF BifRules
      <4>3. \A p, q : Combined("BIF", p, q).full = Merge("sum known", p.full, q.full)
        BY <4>2, SharedRules DEF Combined
      <4>4. full = Merge("sum known", Package("BIF", slot[0]).full, Package("BIF", slot[1]).full)
        BY <3>1, <4>3
      <4>5. QED
        BY <4>1, <4>4, Zenon
    <3>3. /\ a \in Nat /\ b \in Nat /\ a # Unknown /\ b # Unknown /\ a + b < Unknown
          /\ Ones = Unknown
      BY DEF ChargeWithinFull, Sized
    <3>4. Add(a, b) = a + b
      BY <3>3, AddFits, OnesAssumption
    <3>5. QED
      BY <3>2, <3>3, <3>4 DEF Merge
  <2>6. \A j \in {0, 1} : slot[j] \in Cells => slot[j].full \in Nat /\ slot[j].remaining \in Nat
    BY DEF ChargeWithinFull
  <2>7. \A j \in {0, 1} : Accepted(j) => slot[j].full <= full
    <3>1. CASE ~Accepted(1)
      <4>1. full = slot[0].full
        BY <2>1, <2>3, <3>1, CountedCells DEF AnswerFor
      <4>2. QED
        BY <2>6, <3>1, <4>1
    <3>2. CASE Accepted(1) /\ ~Accepted(0)
      <4>1. full = slot[1].full
        BY <2>1, <2>3, <3>2, CountedCells DEF AnswerFor
      <4>2. QED
        BY <2>6, <3>2, <4>1
    <3>3. CASE Accepted(1) /\ Accepted(0)
      BY <2>5, <2>6, <3>3
    <3>4. QED
      BY <3>1, <3>2, <3>3
  <2>8. \A j \in {0, 1} : Charged(j) => slot[j].remaining <= slot[j].full
    BY <2>3 DEF ChargeWithinFull
  <2> HIDE DEF Accepted
  <2>9. ASSUME NEW j \in {0, 1}, Charged(j), charge = slot[j].remaining
        PROVE  charge <= full
    <3>1. slot[j].remaining <= slot[j].full /\ slot[j].full <= full
      BY <2>3, <2>7, <2>8, <2>9
    <3>2. full \in Int
      BY <2>1, <2>2, <2>3, <2>5, <2>6, <2>9, CountedCells DEF Accepted, AnswerFor
    <3>3. QED
      BY <2>6, <2>9, <3>1, <3>2
  <2>10. CASE ~Charged(1)
    <3>1. charge = slot[0].remaining
      BY <2>1, <2>3, <2>10, CountedCells DEF AnswerFor
    <3>2. Charged(0)
      BY <2>4, <2>10
    <3>3. QED
      BY <2>9, <3>1, <3>2
  <2>11. CASE Charged(1) /\ ~Charged(0)
    <3>1. charge = slot[1].remaining
      BY <2>1, <2>3, <2>11, CountedCells DEF AnswerFor
    <3>2. QED
      BY <2>9, <2>11, <3>1
  <2>12. CASE Charged(1) /\ Charged(0)
    <3> DEFINE a == slot[0].remaining
               b == slot[1].remaining
    <3>1. fresh["BST"] = Combined("BST", Package("BST", slot[0]), Package("BST", slot[1]))
      BY <2>1, <2>3, <2>12 DEF AnswerFor
    <3>2. charge = Merge("sum", a, b)
      BY <3>1, CountedCells DEF Combined, Rules, BstRules
    <3>3. full = slot[0].full + slot[1].full /\ full < Unknown
      BY <2>3, <2>5, <2>12
    <3>4. /\ a \in Nat /\ b \in Nat /\ a <= slot[0].full /\ b <= slot[1].full
          /\ slot[0].full \in Nat /\ slot[1].full \in Nat
      BY <2>6, <2>8, <2>12
    <3>5. Add(a, b) = a + b
      BY <3>3, <3>4, AddFits, OnesAssumption DEF ChargeWithinFull
    <3>6. QED
      BY <3>2, <3>3, <3>4, <3>5 DEF Merge
  <2>13. QED
    BY <2>10, <2>11, <2>12
<1>2. HistoryInv => FullCoversCharge
  <2> SUFFICES ASSUME HistoryInv, NoCell \notin {fresh["BIF"], fresh["BST"]},
                      NEW i \in Slots, slot[i].remaining \notin {0, Unknown},
                      \A j \in Slots : slot[j].remaining \notin {0, Unknown} =>
                        {slot[j].design, slot[j].full, slot[j].voltage} \cap {0, Ones} = {}
               PROVE  fresh["BST"].remaining <= fresh["BIF"].full
    BY DEF FullCoversCharge
  <2>1. \A j \in Slots : slot[j].remaining \notin {0, Unknown} => Sized(slot[j])
    BY DEF Sized
  <2>2. QED
    BY <1>1, <2>1
<1>3. QED
  BY HistoryInvariant, <1>2, PTL

-----------------------------------------------------------------------------
(* One battery, and two.                                                    *)

\* With one battery that is in order, the combined device answers what that battery does.
LonePassed ==
  \A m \in Methods, i \in Slots :
    /\ fresh[m] # NoCell
    /\ slot[1 - i] = NoCell /\ slot[i] # NoCell /\ ValidFor(m, Package(m, slot[i]))
    => fresh[m] = Package(m, slot[i])

\* A machine with one battery is not told anything but what the battery reports, whichever
\* slot it is in: nothing of the empty slot, which reports the unknown value, is merged in.
THEOREM LoneBatteryPassed == MCSpec => []LonePassed
<1>1. ASSUME HistoryInv, NEW m \in Methods, NEW i \in Slots, fresh[m] # NoCell,
             slot[1 - i] = NoCell, slot[i] # NoCell, ValidFor(m, Package(m, slot[i]))
      PROVE  fresh[m] = Package(m, slot[i])
  <2>1. fresh[m] = AnswerFor(m, slot)
    BY <1>1 DEF HistoryInv, Fresh
  <2>2. StatusFor(m, slot[i]) = Present /\ StatusFor(m, slot[1 - i]) # Present
    BY <1>1 DEF StatusFor, Present
  <2>3. CASE i = 0
    <3>1. 1 - i = 1
      BY <2>3
    <3>2. QED
      BY <2>1, <2>2, <2>3, <3>1 DEF AnswerFor
  <2>4. CASE i = 1
    <3>1. 1 - i = 0
      BY <2>4
    <3>2. QED
      BY <2>1, <2>2, <2>4, <3>1 DEF AnswerFor
  <2>5. QED
    BY <2>3, <2>4 DEF Slots
<1>2. HistoryInv => LonePassed
  BY <1>1 DEF LonePassed
<1>3. QED
  BY HistoryInvariant, <1>2, PTL

\* Where two fields are merged alike whichever battery comes first: sums and means of known
\* values, and the states, as soon as one of the two is listed.
Interchangeable(rule, a, b) ==
  \/ rule \in {"sum", "mean"}
  \/ rule \in {"sum known", "mean known"} /\ Unknown \notin {a, b}
  \/ rule = "state" /\ {a, b} \cap 1..5 # {}

\* Merging is the same both ways round.
LEMMA MergeInterchangeable ==
  ASSUME NEW rule, NEW a, NEW b, Interchangeable(rule, a, b),
         rule # "state" => a \in Nat /\ b \in Nat
  PROVE  Merge(rule, a, b) = Merge(rule, b, a)
<1>1. rule # "state" => Add(a, b) = Add(b, a)
  BY DEF Add
<1>2. CASE rule = "state"
  <2>1. StateOf(a, b) = StateOf(b, a)
    <3>1. {a, b} = {b, a}
      OBVIOUS
    <3>2. QED
      BY <1>2, <3>1 DEF StateOf, Interchangeable
  <2>2. QED
    BY <1>2, <2>1 DEF Merge
<1>3. CASE rule \in {"sum", "mean"}
  BY <1>1, <1>3 DEF Merge
<1>4. CASE rule \in {"sum known", "mean known"} /\ Unknown \notin {a, b}
  BY <1>1, <1>4 DEF Merge
<1>5. QED
  BY <1>2, <1>3, <1>4 DEF Interchangeable

\* Two batteries may change places: every field that Interchangeable names comes out the
\* same.  The others (unit, technology, names, swapping, and a value BAT0 does not know) are
\* those the code takes from BAT0 first (line 132 and its counterparts in _BIX and _BST).
THEOREM BatteriesInterchange ==
  ASSUME NEW m \in Methods, NEW p, NEW q, NEW f \in DOMAIN Rules(m),
         Interchangeable(Rules(m)[f], p[f], q[f]),
         Rules(m)[f] # "state" => p[f] \in Nat /\ q[f] \in Nat
  PROVE  Combined(m, p, q)[f] = Combined(m, q, p)[f]
<1>1. Merge(Rules(m)[f], p[f], q[f]) = Merge(Rules(m)[f], q[f], p[f])
  BY MergeInterchangeable
<1>2. QED
  BY <1>1 DEF Combined
=============================================================================
