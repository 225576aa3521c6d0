\* Batteries that report both bits (state 3), or charge from a critical level (6).
CONSTANTS
  Cells <- MCCells
  NoCell <- MCNoCell
  Unknown <- MCUnknown
  Ones <- MCUnknown
  CellNames = {"charging", "discharging", "both", "low"}
SPECIFICATION MCSpec
PROPERTIES ChargingAlwaysReported
