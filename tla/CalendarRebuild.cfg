SPECIFICATION RebuildSpec
CONSTANTS
  K = 3
  FP32 = 100
  FP64 = 1000
  HoursPerDay = 3
  MinutesPerHour = 2
  MonthsPerYear = 3
  MonthLength <- MCMonthLength
  NDays = 3
  NMonths = 3
  NTop = 2
  MonthRotate = 2
  TraflessDay = TRUE
  Amounts <- MCAmounts
  Aliased <- MCAliased
  Starts = {48}
  Instants = {53, 54, 57, 60, 67, 72, 108}
  RetireAt = {60}
  MaxNow = 108
  MaxTraffic = 3
  MaxSaves = 1
  WeekDays = 2
  WeeksPerYear = 4
CHECK_DEADLOCK FALSE
PROPERTY RebuildExact
