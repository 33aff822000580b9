\* closeProject.
CONSTANTS
  c1 = c1
  NoRequest = NoRequest
  Clients = {c1}
  Patient = {}
  Methods = {"closeProject"}
  MaxTicket = 4
SPECIFICATION Spec
PROPERTIES
  ExecutedIsCounted
CHECK_DEADLOCK FALSE
