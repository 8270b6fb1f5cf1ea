SPECIFICATION FairSpec
CONSTANTS
  Size = 5
  Trb = {t1, t2}
  Link = Link
  Blank = Blank
  MaxPending = 3
PROPERTIES ImplementsChannel EveryTrbTaken
CHECK_DEADLOCK FALSE
