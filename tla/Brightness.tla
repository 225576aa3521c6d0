----------------------------- MODULE Brightness -----------------------------
(***************************************************************************)
(* The PNLF backlight device of SSDT-ALL.dsl, lines 311-565: _INI finds    *)
(* the graphics family, chooses the PWM period macOS expects for it and    *)
(* rescales what the firmware left in the registers, one register write    *)
(* after the other while the panel is lit.                                 *)
(*                                                                         *)
(* The 32-bit LEVX is kept as its halves, period (high) and duty (low).    *)
(* An RMCF setting that does not exist is the default _INI gives it.       *)
(***************************************************************************)
EXTENDS Naturals

CONSTANTS
  Word,      \* 2^16, the number of values of a half register
  Ones,      \* the integer Ones
  Devices,   \* the graphics device ids
  Settings,  \* the contents of \RMCF
  Firmware   \* what the firmware may leave in LEVX and LEVL

Half == 0..(Word - 1)
Bits == {"enable", "keep LEVW", "write GRAN", "keep period"}

ASSUME WordAssumption == Word \in Nat /\ Word > 65535 /\ Ones \in Nat /\ Ones >= Word
ASSUME SettingsAssumption ==
  Settings \subseteq [BKLT : SUBSET Bits, LMAX : Half \cup {Ones}, FBTP : Nat]
ASSUME FirmwareAssumption == Firmware \subseteq [period : Half, duty : Half, level : Half]

\* The firmware drives the panel within its period.  _INI relies on it and does not check it.
LevelsWithinPeriod ==
  \A f \in Firmware : f.period # 0 => f.duty <= f.period /\ f.level <= f.period

VARIABLES
  GDID, RMCF,             \* the device id and the settings of this machine
  period, duty,           \* LEVX
  level,                  \* LEVL
  LEVW, GRAN,             \* who wrote these registers last
  UID,                    \* _UID, the panel profile macOS picks
  pc,                     \* where _INI is
  max, scaled             \* its Local2 and Local0

registers == <<period, duty, level, LEVW, GRAN>>
vars == <<GDID, RMCF, registers, UID, pc, max, scaled>>

SandyIvy ==
  {\h010B, \h0102, \h0106, \h1106, \h1601, \h0116, \h0126, \h0112, \h0122, \h0152,
   \h0156, \h0162, \h0166, \h016A, \h46, \h42}
CoffeeIce ==
  {\h3E9B, \h3EA5, \h3E92, \h3E91, \h3EA0, \h3EA6, \h3E98, \h9BC8, \h9BC5, \h9BC4,
   \hFF05, \h8A70, \h8A71, \h8A51, \h8A5C, \h8A5D, \h8A52, \h8A53, \h8A56, \h8A5A,
   \h8A5B, \h9B41, \h9B21, \h9BCA, \h9BA4}
HaswellBroadwell ==
  {\h0D26, \h0A26, \h0D22, \h0412, \h0416, \h0A16, \h0A1E, \h0A2E, \h041E, \h041A,
   \h0BD1, \h0BD2, \h0BD3, \h1606, \h160E, \h1616, \h161E, \h1626, \h1622, \h1612, \h162B}

\* FBTP overrides what the device id says.
Sandy == RMCF.FBTP = 1 \/ GDID \in SandyIvy
Coffee == ~Sandy /\ (RMCF.FBTP = 3 \/ GDID \in CoffeeIce)
Enabled == "enable" \in RMCF.BKLT

Defaults == {\h0710, \h0AD9, \h056C, \hFFFF}
Profiles == {\h0E, \h0F, \h10, \h11, \h12, \h13, \h63}

TypeOK ==
  /\ GDID \in Devices /\ RMCF \in Settings
  /\ period \in Half /\ duty \in Half /\ level \in Half
  /\ LEVW \in {"firmware", "_INI"} /\ GRAN \in {"firmware", "_INI"}
  /\ UID \in Profiles \cup {0}
  /\ pc \in {"start", "prepare", "measure", "raise", "raise level",
             "lower", "lower period", "both", "label", "done"}
  /\ max \in Half /\ scaled \in Half

Init ==
  /\ GDID \in Devices /\ RMCF \in Settings
  /\ \E f \in Firmware : period = f.period /\ duty = f.duty /\ level = f.level
  /\ LEVW = "firmware" /\ GRAN = "firmware" /\ UID = 0
  /\ pc = "start" /\ max = 0 /\ scaled = 0

-----------------------------------------------------------------------------
Disabled ==
  /\ pc = "start" /\ ~Enabled
  /\ pc' = "done"
  /\ UNCHANGED <<GDID, RMCF, registers, UID, max, scaled>>

Maximum ==
  IF RMCF.LMAX # Ones THEN RMCF.LMAX
  ELSE IF Sandy THEN \h0710
  ELSE IF Coffee THEN \hFFFF
  ELSE IF GDID \in HaswellBroadwell THEN \h0AD9 ELSE \h056C

Detect ==
  /\ pc = "start" /\ Enabled
  /\ max' = Maximum
  /\ pc' = IF Sandy THEN "measure" ELSE IF Coffee THEN "label" ELSE "prepare"
  /\ UNCHANGED <<GDID, RMCF, registers, UID, scaled>>

\* INI1, which only the families after Ivy Bridge call.
Prepare ==
  /\ pc = "prepare"
  /\ LEVW' = IF "keep LEVW" \in RMCF.BKLT THEN LEVW ELSE "_INI"
  /\ GRAN' = IF "write GRAN" \in RMCF.BKLT THEN "_INI" ELSE GRAN
  /\ pc' = "measure"
  /\ UNCHANGED <<GDID, RMCF, period, duty, level, UID, max, scaled>>

\* Local1: the period the firmware used.
From == IF period = 0 THEN max ELSE period

Lit == IF Sandy THEN level ELSE duty

\* Mutant: the product is stored before it is divided.
ScaledProduct == Lit * max

Scaled == (Lit * max) \div From

\* Mutant: the two registers of Sandy Bridge are written in the other order.
MeasureSwapped ==
  /\ pc = "measure"
  /\ IF "keep period" \in RMCF.BKLT \/ max = From
     THEN pc' = "label" /\ UNCHANGED scaled
     ELSE /\ scaled' = Scaled
          /\ pc' = IF ~Sandy THEN "both" ELSE IF max > From THEN "lower" ELSE "raise"
  /\ UNCHANGED <<GDID, RMCF, registers, UID, max>>

\* Mutant: a period longer than macOS expects is left alone.
MeasureRaisesOnly ==
  /\ pc = "measure"
  /\ IF "keep period" \in RMCF.BKLT \/ max <= From
     THEN pc' = "label" /\ UNCHANGED scaled
     ELSE scaled' = Scaled /\ pc' = IF Sandy THEN "raise" ELSE "both"
  /\ UNCHANGED <<GDID, RMCF, registers, UID, max>>

Measure ==
  /\ pc = "measure"
  /\ IF "keep period" \in RMCF.BKLT \/ max = From
     THEN pc' = "label" /\ UNCHANGED scaled
     ELSE /\ scaled' = Scaled
          /\ pc' = IF ~Sandy THEN "both" ELSE IF max > From THEN "raise" ELSE "lower"
  /\ UNCHANGED <<GDID, RMCF, registers, UID, max>>

SetPeriod ==
  /\ pc \in {"raise", "lower period"}
  /\ period' = max /\ duty' = 0
  /\ pc' = IF pc = "raise" THEN "raise level" ELSE "label"
  /\ UNCHANGED <<GDID, RMCF, level, LEVW, GRAN, UID, max, scaled>>

\* Mutant: the level keeps the value it had at the firmware's period.
SetLevelUnscaled ==
  /\ pc \in {"lower", "raise level"}
  /\ pc' = IF pc = "lower" THEN "lower period" ELSE "label"
  /\ UNCHANGED <<GDID, RMCF, registers, UID, max, scaled>>

SetLevel ==
  /\ pc \in {"lower", "raise level"}
  /\ level' = scaled
  /\ pc' = IF pc = "lower" THEN "lower period" ELSE "label"
  /\ UNCHANGED <<GDID, RMCF, period, duty, LEVW, GRAN, UID, max, scaled>>

\* scaled | (max << 16): a product wider than a half register spills into the period.
SetBoth ==
  /\ pc = "both"
  /\ duty' = scaled % Word
  /\ IF scaled < Word THEN period' = max ELSE period' \in Half
  /\ pc' = "label"
  /\ UNCHANGED <<GDID, RMCF, level, LEVW, GRAN, UID, max, scaled>>

Profile(m) ==
  CASE m = \h0710 -> \h0E [] m = \h0AD9 -> \h0F [] m = \h056C -> \h10
    [] m = \h07A1 -> \h11 [] m = \h1499 -> \h12 [] m = \hFFFF -> \h13
    [] OTHER -> \h63

Label ==
  /\ pc = "label"
  /\ UID' = Profile(max)
  /\ pc' = "done"
  /\ UNCHANGED <<GDID, RMCF, registers, max, scaled>>

Next ==
  \/ Disabled \/ Detect \/ Prepare \/ Measure
  \/ SetPeriod \/ SetLevel \/ SetBoth \/ Label

Spec == Init /\ [][Next]_vars

-----------------------------------------------------------------------------
(* What must hold. *)

\* At no moment, between the two writes of lines 436-445 included, is the duty cycle the
\* panel is driven with longer than the period: the code raises the period before the
\* level and lowers the level before the period.
DutyWithinPeriod == period # 0 => Lit <= period

\* macOS picks the panel profile of the period that is programmed, whenever _INI was free
\* to program it and found one to rescale (lines 448-562).
ProfileMatchesPeriod ==
  pc = "done" /\ Enabled /\ ~Coffee /\ "keep period" \notin RMCF.BKLT /\ period # 0
    => UID = Profile(period)
=============================================================================
