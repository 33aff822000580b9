\* Two clients with up to four tickets each: a notification is overridden and
\* copied, and the copies are passed over, while the other thread counts.
CONSTANTS
  c1 = c1
  c2 = c2
  NoRequest = NoRequest
  Clients = {c1, c2}
  Patient = {}
  Methods = {"requestFrame", "openProject"}
  MaxTicket = 4
SPECIFICATION ScanSpec
INVARIANTS
  ScanTypeOK
  TicketInv
PROPERTIES
  ScanIsOneStep
  ImplementsSerialService
CHECK_DEADLOCK FALSE
