SPECIFICATION PostingSpec
CONSTANTS
  Roles = {1, 2}
  Rows <- MCRows
  MaxRows = 1
  LastLine = 3
  MaxNits = 1
  MaxFindings = 2
  EvidenceLimit = 2
  PatchTexts <- MCPatchTexts
  MaxComments = 1
  ListLimit = 1
  AppendixLimit = 1
  MaxHeads = 2
  MaxTries = 2
INVARIANT UnplaceableListed
CHECK_DEADLOCK FALSE
