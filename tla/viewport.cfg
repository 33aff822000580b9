\* Up to five projects and frames of one client.
CONSTANTS
  vFull = vFull
  vSmall = vSmall
  vZero = vZero
  vMinus = vMinus
  vHuge = vHuge
  vTransfer = vTransfer
  pFull = pFull
  pSmall = pSmall
  pMinus = pMinus
  pHuge = pHuge
  pTransfer = pTransfer
  pNoView = pNoView
  NoHeight = NoHeight
  NoView = NoView
  NoFrame = NoFrame
  Views = {vFull, vSmall, vZero, vMinus, vHuge, vTransfer}
  HasCamera = {vFull, vSmall, vZero, vMinus, vHuge}
  HasTransfer = {vFull, vTransfer}
  HeightOf <- MCHeightOf
  Projects = {pFull, pSmall, pMinus, pHuge, pTransfer, pNoView}
  ViewOf <- MCViewOf
  KindOf <- MCKindOf
  MaxInt = 20000
  MaxHeight = 2000
  MaxTasks = 5
SPECIFICATION ViewportSpec
INVARIANTS
  ViewportTypeOK
  FrameIsWhole
  PartsOfLastViews
  ExperimentReads
PROPERTIES
  BlankForEver
CHECK_DEADLOCK FALSE
