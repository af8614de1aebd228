SPECIFICATION Spec
CONSTANTS
  MaxBoots = 2
  MaxId = 2
  MaxConns = 3
  MaxEvents = 1
INVARIANTS
  AnsweredOnce
  NoneWaitInVain
PROPERTIES
  OrderKept
  EventuallyAnswered
