SPECIFICATION Spec
CONSTANTS
  ch1 = ch1
  ch2 = ch2
  nl = nl
  NUL = NUL
  Char = {ch1, ch2}
  NewlineChar = nl
  Width = 3
  Height = 3
  Stride = 4
  TaskBar = 1
  MaxLayers = 3
  kRows = 2
  kColumns = 2
  MaxText = 8
  Margin = 1
  MaxCalls = 4
  Pointer <- MCPointer
  Strings <- MCStrings
  Displacements <- MCDisplacements
  MouseStart <- MCMouseStart
  Positions <- MCPositions
INVARIANTS TypeOK TextShown
PROPERTIES ScreenShown StackOrder
CHECK_DEADLOCK FALSE
