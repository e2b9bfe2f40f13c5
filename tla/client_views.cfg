\* A key of any type with two values of each field; journals of up to three events of three pumps, on two days.
CONSTANTS
  Values = {0, 1}
  PumpIds = {p1, p2, p3}
  Names = {unknown, acid}
  Unknown = unknown
  MaxPumps = 2
  MaxHistoryEvents = 2
  MaxEvents = 3
  MaxDays = 2
SPECIFICATION MCSpec
INVARIANTS KeptListIsCurrent AllEntitiesAlive SummaryIsExact
CHECK_DEADLOCK FALSE
