\* The main loop and one client, two temperatures, four commands; three raw numbers.
CONSTANTS
  Poll = Poll
  Clients = {net}
  None = None
  Temps = {t1, t2}
  MaxCommands = 4
  Raws = {0, 1, 2}
  Fail = fail
  NoNumber = text
SPECIFICATION MCSpec
INVARIANTS ReadingsAreOwn DriversReportWhatTheyRead
CHECK_DEADLOCK FALSE
