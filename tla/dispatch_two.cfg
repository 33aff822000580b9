\* A patient client beside one that sends anything, against the serial service.
\* Four tickets are two projects opened one after the other, or a project and
\* two frames: either client can send the second openProject too early.
CONSTANTS
  c1 = c1
  c2 = c2
  NoRequest = NoRequest
  Clients = {c1, c2}
  Patient = {c1}
  Methods = {"requestFrame", "openProject", "closeProject"}
  MaxTicket = 4
SPECIFICATION FairSpec
INVARIANTS
  TypeOK
  OneHandlerPerClient
  PostedIsRegistered
  PatientNeverFrozen
PROPERTIES
  ImplementsSerialService
  FrozenForEver
  FrozenRequestsStay
  PatientIsAnswered
CHECK_DEADLOCK FALSE
