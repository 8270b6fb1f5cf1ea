SPECIFICATION Spec
CONSTANTS
  Size = 4
  Trb = {e1, e2}
  Blank = Blank
PROPERTIES ImplementsChannel LoopEmptiesRing
