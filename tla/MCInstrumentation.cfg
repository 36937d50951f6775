\* Two allocations of one or three bytes, failed or at byte 4 or 6; arguments null or byte 6.
CONSTANTS
  Uninit = Uninit
  None = None
  Outputs <- MCOutputs
  LastWord <- MCLastWord
  Leftover <- MCLeftover
  Image <- MCImage
  Routine <- MCRoutine
  Excluded <- MCExcluded
  BeforeDot <- MCBeforeDot
  Undecorated <- MCUndecorated
  Ins <- MCIns
  DatastructThreshold = 1
  CombineThreshold = 2
  Address = {4, 6}
  Size = {1, 3}
  Pointer = {0, 6}
  MaxObjects = 2
  MaxCalls = 1
  MaxExecuted = 1
SPECIFICATION Spec
INVARIANTS FunctionsRead InspectsPointerArguments ArgumentsMapped
CHECK_DEADLOCK FALSE
