\* Every family, every combination of the BKLT bits, periods to raise, lower and keep.
CONSTANTS
  Word <- MCWord
  Ones <- MCOnes
  Devices <- MCDevices
  Settings <- MCSettings
  Firmware <- MCFirmware
SPECIFICATION MCSpec
INVARIANTS TypeOK DutyWithinPeriod ProfileMatchesPeriod BrightnessKept
CHECK_DEADLOCK FALSE
