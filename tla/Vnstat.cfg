SPECIFICATION Spec
CONSTANTS
  Calls <- MCCalls
  Numerals <- MCNumerals
  Named <- MCNamed
  CfgIface = "eth0"
  K = 2
  FP32 = 7
  FP64 = 15
  LIVETIME = 2
  MaxBytes = 6
  MaxFlow = 10
  MaxSamples = 3
  MaxPackets = 2
  Devices <- MCDevices
  Whole <- MCWhole
  PREALLOC = 0
  Mask = 2
  Width = 6
  MaxChanges = 4
CHECK_DEADLOCK FALSE
INVARIANTS AsAsked TotalsRight OneMorePacket SamplesRight
PROPERTIES OthersUntouched ReportsGoOn
