\* Integers of 64 bits, as a table of revision 2 has them: an unknown value is not Ones.
CONSTANTS
  Cells <- MCCells
  NoCell <- MCNoCell
  Unknown <- MCUnknown
  Ones <- WideOnes
  CellNames = {"charging", "discharging", "empty", "unsure"}
SPECIFICATION MCSpec
PROPERTIES AnswerIsReal
