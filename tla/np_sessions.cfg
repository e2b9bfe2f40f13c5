\* Two sockets, two threads that end doses, a journal of three entries.
CONSTANTS
  Sockets = {s1, s2}
  Posters = {p1, p2}
  None = None
  MaxLog = 3
  Startup = 2
  FallbackLines = 1
SPECIFICATION Spec
INVARIANTS WatchingForManagers LogInOrder EventsAreTrueUnlessOverlapped
SYMMETRY Symmetry
CHECK_DEADLOCK FALSE
