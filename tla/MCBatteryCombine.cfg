\* Integers of 32 bits: Ones is what an unknown value looks like.
CONSTANTS
  Cells <- MCCells
  NoCell <- MCNoCell
  Unknown <- MCUnknown
  Ones <- MCUnknown
  CellNames = {"charging", "discharging", "both", "empty", "unsure", "unsized"}
SPECIFICATION MCSpec
INVARIANTS TypeOK BixMatchesBif FullCoversCharge
PROPERTIES AnswerIsReal ChargingReported
