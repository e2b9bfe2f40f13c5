\* Requests and condition changes from three threads; the bound on requests is what stops them.
CONSTANTS
  MaxSeconds = 2
  Callers = {web, api}
  Monitors = {gpio}
  MaxRequests = 3
  Untimed = TRUE
  web = web
  api = api
  gpio = gpio
SPECIFICATION FairSpec
PROPERTIES SerialHandlersAreSafe RunawayOnlyIfLost DosesEndUnlessLost
CHECK_DEADLOCK FALSE
