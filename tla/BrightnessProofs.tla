-------------------------- MODULE BrightnessProofs --------------------------
(***************************************************************************)
(* Proofs about Brightness, for every register width, device, setting and  *)
(* firmware that leaves its levels within its periods: nothing overflows,  *)
(* the duty cycle never passes the period between two register writes, the *)
(* profile is that of the period, and the brightness is the one the        *)
(* firmware left.  That hypothesis is LevelsWithinPeriod: the code has no  *)
(* check of it, and none of this holds without it.  MCBrightness is        *)
(* extended for its history variable only; its values for the constants    *)
(* are not used.                                                           *)
(***************************************************************************)
EXTENDS MCBrightness, TLAPS

\* What lines 434 and 529 compute stays within the new period.
LEMMA ScaleFits ==
  ASSUME NEW l \in Nat, NEW m \in Nat, NEW b \in Nat \ {0}, l <= b
  PROVE  (l * m) \div b \in Nat /\ (l * m) \div b <= m
<1>1. l * m <= b * m /\ l * m \in Nat
  OBVIOUS
<1> DEFINE q == (l * m) \div b
<1>2. q \in Nat /\ q * b <= l * m
  BY <1>1
<1>3. ASSUME q > m PROVE FALSE
  <2>1. q >= m + 1
    BY <1>2, <1>3
  <2>2. q * b >= (m + 1) * b
    BY <1>2, <2>1
  <2>3. (m + 1) * b = m * b + b
    OBVIOUS
  <2>4. QED
    BY <1>1, <1>2, <2>2, <2>3
<1>4. QED
  BY <1>2, <1>3

\* A natural number up to a bound is in the interval from 0 to it.
LEMMA Between ==
  /\ \A a, b, c \in Nat : a <= b /\ b < c => a <= c
  /\ \A a, b \in Nat : a # b /\ ~(a > b) => a < b
OBVIOUS

\* The values of a half register.
LEMMA HalfBounds ==
  \A x : x \in Half <=> x \in Nat /\ x < Word
BY WordAssumption DEF Half

\* The periods _INI knows fit half a register.
LEMMA HalfConstants == {0, \h0710, \hFFFF, \h0AD9, \h056C} \subseteq Half
BY WordAssumption DEF Half

\* Where _INI is, and what that says of the registers.
Writing ==
  /\ pc \in {"start", "prepare", "measure"} => (period # 0 => duty <= period /\ level <= period)
  /\ pc \in {"raise", "raise level", "lower", "lower period", "both"} => scaled <= max
  /\ pc \in {"raise", "raise level", "lower", "lower period"} => Sandy
  /\ pc = "raise" => period # 0 /\ period < max
  /\ pc = "raise level" => period = max
  /\ pc = "lower" => max < period
  /\ pc = "lower period" => level = scaled
  /\ pc = "both" => ~Sandy

BrightnessInv == TypeOK /\ DutyWithinPeriod /\ Writing

\* What a firmware within its periods leaves satisfies the invariant.
LEMMA InitInv ==
  ASSUME LevelsWithinPeriod
  PROVE  Init => BrightnessInv
BY WordAssumption, SettingsAssumption, FirmwareAssumption
   DEF LevelsWithinPeriod, Init, BrightnessInv, TypeOK, DutyWithinPeriod, Writing, Lit, Half, Profiles

\* Choosing the period (lines 394-516) writes no register.
LEMMA DetectStep ==
  ASSUME BrightnessInv, Detect
  PROVE  BrightnessInv'
<1>1. Maximum \in Half
  <2>1. RMCF.LMAX \in Half \cup {Ones}
    BY SettingsAssumption DEF BrightnessInv, TypeOK
  <2>2. QED
    BY <2>1, HalfConstants DEF Maximum
<1>2. QED
  BY <1>1 DEF BrightnessInv, TypeOK, DutyWithinPeriod, Writing, Detect, Lit, Sandy, registers

\* The rescaled duty cycle fits the new period, and the order of the writes is chosen for it.
LEMMA MeasureStep ==
  ASSUME BrightnessInv, Measure
  PROVE  BrightnessInv'
<1> USE DEF BrightnessInv
<1>1. CASE "keep period" \in RMCF.BKLT \/ max = From
  BY <1>1 DEF Measure, TypeOK, DutyWithinPeriod, Writing, Lit, Sandy, registers
<1>2. CASE ~("keep period" \in RMCF.BKLT \/ max = From)
  <2>1. period # 0 /\ From = period /\ max # period
    BY <1>2 DEF From
  <2>2. Lit \in Nat /\ Lit <= period /\ period \in Nat \ {0} /\ max \in Nat
    <3>1. period \in Half /\ duty \in Half /\ level \in Half /\ max \in Half
      BY DEF TypeOK
    <3>2. duty <= period /\ level <= period
      BY <2>1 DEF Measure, Writing
    <3>3. QED
      BY <2>1, <3>1, <3>2, HalfBounds DEF Lit
  <2>3. Scaled \in Nat /\ Scaled <= max
    BY <2>1, <2>2, ScaleFits DEF Scaled
  <2>4. scaled' = Scaled /\ Scaled \in Half
    <3>1. max \in Nat /\ max < Word
      BY HalfBounds DEF TypeOK
    <3>2. QED
      <4>1. scaled' = Scaled
        BY <1>2 DEF Measure
      <4>2. Scaled < Word
        BY <2>3, <3>1, WordAssumption
      <4>3. QED
        BY <2>3, <4>1, <4>2, HalfBounds
  <2>5. TypeOK'
    BY <1>2, <2>4 DEF Measure, TypeOK, registers
  <2>6. DutyWithinPeriod'
    BY DEF Measure, DutyWithinPeriod, Lit, Sandy, registers
  <2>7. Writing'
    <3>1. scaled' <= max' /\ UNCHANGED <<period, level, max, GDID, RMCF>>
      BY <2>3, <2>4 DEF Measure, registers
    <3>2. CASE ~Sandy
      BY <1>2, <3>1, <3>2 DEF Measure, Writing, Sandy
    <3>3. CASE Sandy /\ max > period
      <4>1. pc' = "raise"
        BY <1>2, <2>1, <3>3 DEF Measure
      <4>2. QED
        BY <2>1, <2>2, <3>1, <3>3, <4>1 DEF Writing, Sandy
    <3>4. CASE Sandy /\ ~(max > period)
      <4>1. max < period
        BY <2>1, <2>2, <3>4, Between
      <4>2. pc' = "lower"
        BY <1>2, <2>1, <3>4 DEF Measure
      <4>3. QED
        BY <3>1, <3>4, <4>1, <4>2 DEF Writing, Sandy
    <3>5. QED
      BY <3>2, <3>3, <3>4
  <2>8. QED
    BY <2>5, <2>6, <2>7
<1>3. QED
  BY <1>1, <1>2

\* Every single register write keeps the duty cycle within the period.
LEMMA RegisterStep ==
  ASSUME BrightnessInv, SetPeriod \/ SetLevel \/ SetBoth
  PROVE  BrightnessInv'
<1> USE DEF BrightnessInv
<1>1. period \in Half /\ duty \in Half /\ level \in Half /\ max \in Half /\ scaled \in Half
  BY DEF TypeOK
<1>2. /\ period \in Nat /\ duty \in Nat /\ level \in Nat /\ max \in Nat /\ scaled \in Nat
      /\ scaled < Word /\ max < Word /\ 0 \in Half
  BY <1>1, HalfBounds, HalfConstants
<1>3. CASE SetPeriod
  <2>1. TypeOK'
    BY <1>2, <1>3 DEF SetPeriod, TypeOK
  <2>2. DutyWithinPeriod' /\ Writing'
    <3>1. /\ Sandy /\ scaled <= max /\ period' = max
          /\ UNCHANGED <<level, max, scaled, GDID, RMCF>>
      BY <1>3 DEF SetPeriod, Writing
    <3>2. CASE pc = "raise"
      <4>1. pc' = "raise level" /\ period < max
        BY <1>3, <3>2 DEF SetPeriod, Writing
      <4>2. level <= period
        BY <3>1, <3>2 DEF DutyWithinPeriod, Writing, Lit
      <4>3. level <= max
        BY <1>2, <4>1, <4>2, Between
      <4>4. QED
        BY <3>1, <4>1, <4>3 DEF DutyWithinPeriod, Writing, Lit, Sandy
    <3>3. CASE pc = "lower period"
      <4>1. pc' = "label" /\ level <= max
        BY <1>3, <3>1, <3>3 DEF SetPeriod, Writing
      <4>2. QED
        BY <3>1, <4>1 DEF DutyWithinPeriod, Writing, Lit, Sandy
    <3>4. QED
      BY <1>3, <3>2, <3>3 DEF SetPeriod
  <2>3. QED
    BY <2>1, <2>2
<1>4. CASE SetLevel
  <2>1. TypeOK'
    BY <1>1, <1>4 DEF SetLevel, TypeOK
  <2>2. DutyWithinPeriod' /\ Writing'
    <3>1. /\ Sandy /\ scaled <= max /\ level' = scaled
          /\ UNCHANGED <<period, duty, max, scaled, GDID, RMCF>>
      BY <1>4 DEF SetLevel, Writing
    <3>2. CASE pc = "raise level"
      <4>1. pc' = "label" /\ scaled <= period
        BY <1>4, <3>1, <3>2 DEF SetLevel, Writing
      <4>2. QED
        BY <3>1, <4>1 DEF DutyWithinPeriod, Writing, Lit, Sandy
    <3>3. CASE pc = "lower"
      <4>1. pc' = "lower period" /\ max < period
        BY <1>4, <3>3 DEF SetLevel, Writing
      <4>2. scaled <= period
        BY <1>2, <3>1, <4>1, Between
      <4>3. QED
        BY <3>1, <4>1, <4>2 DEF DutyWithinPeriod, Writing, Lit, Sandy
    <3>4. QED
      BY <1>4, <3>2, <3>3 DEF SetLevel
  <2>3. QED
    BY <2>1, <2>2
<1>5. CASE SetBoth
  <2>1. scaled % Word = scaled
    BY <1>2, WordAssumption
  <2>2. period' = max /\ duty' = scaled /\ UNCHANGED <<level, max, scaled, GDID, RMCF>>
    BY <1>2, <1>5, <2>1 DEF SetBoth
  <2>3. TypeOK'
    BY <1>1, <1>5, <2>2 DEF SetBoth, TypeOK
  <2>4. DutyWithinPeriod' /\ Writing'
    BY <1>2, <1>5, <2>2 DEF SetBoth, DutyWithinPeriod, Writing, Lit, Sandy
  <2>5. QED
    BY <2>3, <2>4
<1>6. QED
  BY <1>3, <1>4, <1>5

\* BrightnessInv is an invariant: the order of the two writes of Sandy Bridge, chosen at
\* the measurement, is what keeps DutyWithinPeriod true between them.
LEMMA BrightnessInvariant ==
  ASSUME LevelsWithinPeriod
  PROVE  Spec => []BrightnessInv
<1>1. BrightnessInv /\ [Next]_vars => BrightnessInv'
  <2> SUFFICES ASSUME BrightnessInv, [Next]_vars PROVE BrightnessInv'
    OBVIOUS
  <2>1. CASE Disabled
    BY <2>1 DEF Disabled, BrightnessInv, TypeOK, DutyWithinPeriod, Writing, Lit, Sandy, registers
  <2>2. CASE Detect
    BY <2>2, DetectStep
  <2>3. CASE Prepare
    BY <2>3 DEF Prepare, BrightnessInv, TypeOK, DutyWithinPeriod, Writing, Lit, Sandy
  <2>4. CASE Measure
    BY <2>4, MeasureStep
  <2>5. CASE SetPeriod \/ SetLevel \/ SetBoth
    BY <2>5, RegisterStep
  <2>6. CASE Label
    BY <2>6 DEF Label, BrightnessInv, TypeOK, DutyWithinPeriod, Writing, Lit, Sandy,
                registers, Profile, Profiles
  <2>7. CASE UNCHANGED vars
    BY <2>7 DEF vars, BrightnessInv, TypeOK, DutyWithinPeriod, Writing, Lit, Sandy, registers
  <2>8. QED
    BY <2>1, <2>2, <2>3, <2>4, <2>5, <2>6, <2>7 DEF Next
<1>2. QED
  BY InitInv, <1>1, PTL DEF Spec

\* If the firmware leaves its levels within its periods, no rescaled duty cycle spills out
\* of its half of LEVX, whatever \RMCF says.
THEOREM RegistersFit ==
  ASSUME LevelsWithinPeriod
  PROVE  Spec => []TypeOK
<1>1. BrightnessInv => TypeOK
  BY DEF BrightnessInv
<1>2. QED
  BY BrightnessInvariant, <1>1, PTL

\* A panel that was driven within its period stays so, between the two writes included.
THEOREM DutyStaysWithinPeriod ==
  ASSUME LevelsWithinPeriod
  PROVE  Spec => []DutyWithinPeriod
<1>1. BrightnessInv => DutyWithinPeriod
  BY DEF BrightnessInv
<1>2. QED
  BY BrightnessInvariant, <1>1, PTL

\* What the label of the profile rests on: _INI names the profile of max, and where it was
\* free to program the period it has programmed max by then.
Labelled ==
  /\ pc = "done" /\ Enabled => UID = Profile(max)
  /\ pc \in {"label", "done"} /\ Enabled /\ ~Coffee /\ "keep period" \notin RMCF.BKLT /\ period # 0
       => period = max

\* Every way to the label has the period and max agree: the measurement found them equal,
\* or one of the writes of lines 436-445 and 533-541 has made them so.
LEMMA LabelledStep ==
  ASSUME BrightnessInv, Labelled, [Next]_vars
  PROVE  Labelled'
<1>1. CASE Disabled
  BY <1>1 DEF Disabled, Labelled, Enabled, registers
<1>2. CASE Detect
  BY <1>2 DEF Detect, Labelled, Enabled, Coffee, Sandy, registers
<1>3. CASE Prepare
  BY <1>3 DEF Prepare, Labelled
<1>4. CASE Measure
  BY <1>4 DEF Measure, Labelled, Enabled, Coffee, Sandy, From, registers
<1>5. CASE SetPeriod
  BY <1>5 DEF SetPeriod, Labelled, Enabled, Coffee, Sandy
<1>6. CASE SetLevel
  BY <1>6 DEF SetLevel, Labelled, BrightnessInv, Writing, Enabled, Coffee, Sandy
<1>7. CASE SetBoth
  <2>1. scaled < Word
    BY HalfBounds DEF BrightnessInv, TypeOK
  <2>2. QED
    BY <1>7, <2>1 DEF SetBoth, Labelled
<1>8. CASE Label
  BY <1>8 DEF Label, Labelled, Enabled, Coffee, Sandy, registers
<1>9. CASE UNCHANGED vars
  BY <1>9 DEF vars, Labelled, Enabled, Coffee, Sandy, registers
<1>10. QED
  BY <1>1, <1>2, <1>3, <1>4, <1>5, <1>6, <1>7, <1>8, <1>9 DEF Next

\* After a firmware whose levels are within its periods, the profile macOS picks is the one
\* of the period in the register.
THEOREM ProfileIsOfPeriod ==
  ASSUME LevelsWithinPeriod
  PROVE  Spec => []ProfileMatchesPeriod
<1>1. Init => Labelled
  BY DEF Init, Labelled
<1>2. BrightnessInv /\ Labelled /\ [Next]_vars => Labelled'
  BY LabelledStep
<1>3. Labelled => ProfileMatchesPeriod
  BY DEF Labelled, ProfileMatchesPeriod
<1>4. QED
  BY BrightnessInvariant, <1>1, <1>2, <1>3, PTL DEF Spec

-----------------------------------------------------------------------------
(* The relative brightness, against what the history variable found remembers. *)

\* l is found.lit rescaled from the period found to the period p, and rounded down.
Rescaled(l, p) ==
  /\ l * found.period <= found.lit * p
  /\ found.lit * p < (l + 1) * found.period

\* Until the first write the registers are as found, the value computed before it is the
\* one for the new period, and at the label the last write has stored it.
KeptInv ==
  /\ found.period \in Nat /\ found.lit \in Nat
  /\ found.period # 0 =>
       /\ pc \in {"start", "prepare", "measure", "raise", "lower", "both"} =>
            period = found.period /\ Lit = found.lit
       /\ pc \in {"raise", "raise level", "lower", "lower period", "both"} =>
            Rescaled(scaled, max)
       /\ pc \in {"label", "done"} => Rescaled(Lit, period)

\* What division by the old period leaves, and that rescaling to the same period is exact.
LEMMA DivisionRounds ==
  ASSUME NEW a \in Nat, NEW b \in Nat \ {0}, NEW m \in Nat
  PROVE  /\ ((a * m) \div b) * b <= a * m /\ a * m < ((a * m) \div b + 1) * b
         /\ a * b <= a * b /\ a * b < (a + 1) * b
<1> DEFINE x == a * m
<1>1. x \in Nat
  OBVIOUS
<1>2. \A y \in Nat : (y \div b) * b <= y /\ y < (y \div b + 1) * b
  <2> SUFFICES ASSUME NEW y \in Nat PROVE (y \div b) * b <= y /\ y < (y \div b + 1) * b
    OBVIOUS
  <2> DEFINE q == y \div b
  <2>1. q \in Nat /\ q * b <= y /\ y < q * b + b
    OBVIOUS
  <2>2. (q + 1) * b = q * b + b
    BY <2>1
  <2>3. QED
    BY <2>1, <2>2
<1>3. (a + 1) * b = a * b + b /\ a * b \in Nat
  OBVIOUS
<1>4. QED
  BY <1>1, <1>2, <1>3

\* Every step of _INI keeps the brightness on its way from the old period to the new one.
LEMMA KeptStep ==
  ASSUME BrightnessInv, KeptInv, [MCNext]_<<vars, found>>
  PROVE  KeptInv'
<1>1. found' = found /\ [Next]_vars
  BY DEF MCNext
<1>2. SUFFICES ASSUME found.period # 0 PROVE KeptInv'
  BY <1>1 DEF KeptInv
<1>3. /\ found.period \in Nat \ {0} /\ found.lit \in Nat /\ max \in Nat
      /\ scaled \in Nat /\ scaled < Word
  BY <1>2, HalfBounds DEF KeptInv, BrightnessInv, TypeOK
<1>4. Rescaled(found.lit, found.period)
  BY <1>3, DivisionRounds DEF Rescaled
<1>5. CASE Disabled
  BY <1>1, <1>2, <1>4, <1>5 DEF Disabled, KeptInv, Lit, Sandy, registers, Rescaled
<1>6. CASE Detect
  BY <1>1, <1>2, <1>4, <1>6 DEF Detect, KeptInv, Lit, Sandy, registers, Rescaled
<1>7. CASE Prepare
  BY <1>1, <1>2, <1>7 DEF Prepare, KeptInv, Lit, Sandy
<1>8. CASE Measure
  <2>1. period = found.period /\ Lit = found.lit /\ From = found.period
    BY <1>2, <1>8 DEF Measure, KeptInv, From
  <2>2. Rescaled(Scaled, max)
    BY <1>3, <2>1, DivisionRounds DEF Rescaled, Scaled
  <2>3. UNCHANGED <<period, max, found>> /\ Lit' = Lit
    BY <1>1, <1>8 DEF Measure, Lit, Sandy, registers
  <2>4. \/ pc' = "label"
        \/ pc' \in {"both", "raise", "lower"} /\ scaled' = Scaled
    BY <1>8 DEF Measure
  <2>5. Rescaled(Scaled, max) => (scaled' = Scaled => Rescaled(scaled, max)')
    BY <2>3 DEF Rescaled
  <2>6. (pc' = "label") => Rescaled(Lit, period)'
    BY <1>4, <2>1, <2>3 DEF Rescaled
  <2>7. QED
    BY <1>3, <2>1, <2>2, <2>3, <2>4, <2>5, <2>6 DEF KeptInv
<1>9. CASE SetPeriod
  <2>1. Sandy /\ period' = max /\ UNCHANGED <<max, scaled, level, GDID, RMCF, found>>
    BY <1>1, <1>9 DEF SetPeriod, BrightnessInv, Writing
  <2>2. Rescaled(scaled, max) /\ Lit = level /\ Lit' = level
    BY <1>2, <1>9, <2>1 DEF SetPeriod, KeptInv, Lit, Sandy
  <2>3. CASE pc = "raise"
    <3>1. pc' = "raise level"
      BY <1>9, <2>3 DEF SetPeriod
    <3>2. QED
      BY <1>3, <2>1, <2>2, <3>1 DEF KeptInv, Rescaled
  <2>4. CASE pc = "lower period"
    <3>1. pc' = "label" /\ level = scaled
      BY <1>9, <2>4 DEF SetPeriod, BrightnessInv, Writing
    <3>2. QED
      BY <1>3, <2>1, <2>2, <3>1 DEF KeptInv, Rescaled
  <2>5. QED
    BY <1>9, <2>3, <2>4 DEF SetPeriod
<1>10. CASE SetLevel
  <2>1. Sandy /\ level' = scaled /\ UNCHANGED <<period, max, scaled, GDID, RMCF, found>>
    BY <1>1, <1>10 DEF SetLevel, BrightnessInv, Writing
  <2>2. Rescaled(scaled, max) /\ Lit' = scaled
    BY <1>2, <1>10, <2>1 DEF SetLevel, KeptInv, Lit, Sandy
  <2>3. CASE pc = "raise level"
    <3>1. pc' = "label" /\ period = max
      BY <1>10, <2>3 DEF SetLevel, BrightnessInv, Writing
    <3>2. QED
      BY <1>3, <2>1, <2>2, <3>1 DEF KeptInv, Rescaled
  <2>4. CASE pc = "lower"
    <3>1. pc' = "lower period"
      BY <1>10, <2>4 DEF SetLevel
    <3>2. QED
      BY <1>3, <2>1, <2>2, <3>1 DEF KeptInv, Rescaled
  <2>5. QED
    BY <1>10, <2>3, <2>4 DEF SetLevel
<1>11. CASE SetBoth
  <2>1. scaled % Word = scaled
    BY <1>3, WordAssumption
  <2>2. ~Sandy /\ period' = max /\ duty' = scaled /\ pc' = "label" /\ UNCHANGED <<GDID, RMCF, found>>
    BY <1>1, <1>3, <1>11, <2>1 DEF SetBoth, BrightnessInv, Writing
  <2>3. Rescaled(scaled, max) /\ Lit' = scaled
    BY <1>2, <1>11, <2>2 DEF SetBoth, KeptInv, Lit, Sandy
  <2>4. QED
    BY <1>3, <2>2, <2>3 DEF KeptInv, Rescaled
<1>12. CASE Label
  BY <1>1, <1>2, <1>12 DEF Label, KeptInv, Lit, Sandy, registers, Rescaled
<1>13. CASE UNCHANGED vars
  BY <1>1, <1>2, <1>13 DEF vars, KeptInv, Lit, Sandy, registers, Rescaled
<1>14. QED
  BY <1>1, <1>5, <1>6, <1>7, <1>8, <1>9, <1>10, <1>11, <1>12, <1>13 DEF Next

\* The panel keeps the relative brightness the firmware left, on every path through _INI.
THEOREM BrightnessStays ==
  ASSUME LevelsWithinPeriod
  PROVE  MCSpec => []BrightnessKept
<1>1. MCInit => BrightnessInv /\ KeptInv
  <2> SUFFICES ASSUME MCInit PROVE BrightnessInv /\ KeptInv
    OBVIOUS
  <2>1. BrightnessInv
    BY InitInv DEF MCInit
  <2>2. period \in Nat /\ duty \in Nat /\ level \in Nat
    BY <2>1, HalfBounds DEF BrightnessInv, TypeOK
  <2>3. QED
    BY <2>1, <2>2 DEF MCInit, Init, KeptInv, Lit
<1>2. [MCNext]_<<vars, found>> => [Next]_vars
  BY DEF MCNext
<1>3. MCInit => Init
  BY DEF MCInit
<1>4. BrightnessInv /\ KeptInv /\ [MCNext]_<<vars, found>> => KeptInv'
  BY KeptStep
<1>5. KeptInv => BrightnessKept
  BY DEF KeptInv, BrightnessKept, Rescaled
<1>6. QED
  BY BrightnessInvariant, <1>1, <1>2, <1>3, <1>4, <1>5, PTL DEF MCSpec, Spec

=============================================================================
