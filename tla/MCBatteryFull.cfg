\* A battery that knows its charge but not its last full charge capacity.
CONSTANTS
  Cells <- MCCells
  NoCell <- MCNoCell
  Unknown <- MCUnknown
  Ones <- MCUnknown
  CellNames = {"charging", "discharging", "unsized"}
SPECIFICATION MCSpec
INVARIANTS RemainingWithinFull
