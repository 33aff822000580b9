\* One client that opens projects and asks for scenes and frames.
CONSTANTS
  c1 = c1
  pGrid = pGrid
  pTets = pTets
  pTodo = pTodo
  pNoView = pNoView
  pOdd = pOdd
  pUntyped = pUntyped
  NoRequest = NoRequest
  NoProject = NoProject
  NoScene = NoScene
  Clients = {c1}
  Patient = {}
  Projects = {pGrid, pTets, pTodo, pNoView, pOdd, pUntyped}
  DataOf <- MCDataOf
  ViewOf <- MCViewOf
  Untyped = {pUntyped}
  OddHeight = {pOdd}
  Methods = {"getScene", "requestFrame", "openProject"}
  MaxTicket = 7
SPECIFICATION RenderSpec
INVARIANTS
  RenderTypeOK
  NoNullDereference
  FrameShowsProject
  FrameShowsDefaultView
  SceneIsOfProject
  OnlyIncoherentEnds
PROPERTIES
  FrozenRequestsStay
CHECK_DEADLOCK FALSE
