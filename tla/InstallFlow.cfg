SPECIFICATION Spec
CONSTANTS
  sda = sda
  sdb = sdb
  Order <- MCOrder
  Eligible = {sda, sdb}
  None = None
  HoldFrames = 2
  MaxAsked = 2
  MaxClones = 2
  MaxEvents = 2
INVARIANTS
  HeldThrough
  DoneIsTrue
  WorkingIsTrue
