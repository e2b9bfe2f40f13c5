\* Files of one device of each type and of two, one change, two pages sent, two starts; schedules of up to two rows, sent twice.
CONSTANTS
  Unset = unset
  Bad = bad
  Unwritten = unwritten
  Mask = mask
  Files <- MCFiles
  MaxEdits = 1
  MaxSaves = 2
  MaxStarts = 2
  Rows <- MCRows
  MaxRows = 2
  MaxRewrites = 2
SPECIFICATION MCSpec
INVARIANTS BootGivesLastSave IdsTellDevicesApart SchedulesSurvive
CHECK_DEADLOCK FALSE
