\* Two signals at any moment of start, operation and stop; two requests.
CONSTANTS
  MaxSignals = 2
  MaxRequests = 2
  Systemd = FALSE
SPECIFICATION FairSpec
INVARIANTS StopInv KeysOutliveMonitor StopNeverSleepsThrough PumpLeftOnByLateRequestOnly
PROPERTIES StopCompletes
CHECK_DEADLOCK FALSE
