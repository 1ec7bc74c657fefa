CONSTANTS
  Keys <- MCKeys
  Lists <- MCLists
  RowEdge <- MCRowEdge
  ClientHeight = 320
  MaxPasses = 20
  Sites <- MCLateSites
SPECIFICATION Spec
INVARIANTS
  SuccessIsComplete
