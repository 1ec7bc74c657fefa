CONSTANTS
  Keys <- MCKeys
  Lists <- MCLists
  RowEdge <- MCRowEdge
  ClientHeight = 320
  MaxPasses = 20
  Sites <- MCSites
SPECIFICATION Spec
INVARIANTS
  SuccessIsComplete
  StillListsSucceed
PROPERTIES
  SuccessMirrorsList
  ListedContactsStayActive
