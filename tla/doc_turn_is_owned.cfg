\* openProject and frames, no closeProject.
CONSTANTS
  c1 = c1
  NoRequest = NoRequest
  Clients = {c1}
  Patient = {}
  Methods = {"openProject", "requestFrame"}
  MaxTicket = 4
SPECIFICATION Spec
INVARIANTS
  TurnIsOwned
CHECK_DEADLOCK FALSE
