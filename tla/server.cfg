\* Two browsers, three connections, one restart.
CONSTANTS
  k1 = k1
  k2 = k2
  k3 = k3
  s1 = s1
  s2 = s2
  s3 = s3
  b1 = b1
  b2 = b2
  NoRequest = NoRequest
  Clients = {k1, k2, k3}
  Sockets = {s1, s2, s3}
  Browsers = {b1, b2}
  BrowserOf <- MCBrowserOf
  KeySeq <- MCKeySeq
  Methods = {"requestFrame"}
  Patient = {}
  MaxTicket = 1
  MaxRestarts = 1
SPECIFICATION ServerSpec
INVARIANTS
  ServerTypeOK
  KeysLeadToLiveSockets
  OrphanedByTakeover
  KeptConnectionIsAnswered
  KeyStaysInBrowser
PROPERTIES
  OnlyOwnerUnmaps
CHECK_DEADLOCK FALSE
