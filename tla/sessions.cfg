\* A user and the benchmark.
CONSTANTS
  user = user
  bench = bench
  NoRequest = NoRequest
  Clients = {user, bench}
  Patient = {}
  Benchmarks = {bench}
  Methods = {"queryDatabase", "getScene", "requestFrame", "openProject"}
  Frames = 1
  MaxSelections = 2
  MaxTicket = 15
SPECIFICATION SessionSpec
INVARIANTS
  OnlyHastyFreezes
  RepliesInOrder
PROPERTIES
  SessionsAreServed
CHECK_DEADLOCK FALSE
