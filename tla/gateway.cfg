\* Two browser sockets with one user event each.
CONSTANTS
  b1 = b1
  b2 = b2
  Browsers = {b1, b2}
  MaxEvents = 1
SPECIFICATION GatewaySpec
INVARIANTS
  GatewayTypeOK
  AnswersFindCalls
  OnlySharedIdsMix
  OnlyUsersEnd
CHECK_DEADLOCK FALSE
