SPECIFICATION Spec
CONSTANTS
  Nodes <- MCNodes
  NULL = NULL
  NoKey = NoKey
  Fold <- MCFold
  Documents <- MCDocuments
  Targets = {"same"}
  Names = {}
  None = None
CHECK_DEADLOCK FALSE
INVARIANT MergeLeads
