SPECIFICATION Spec
CONSTANTS
  Conns = {c1, c2}
  Launchers = {c1}
  Titles = {u1, u2, ghost}
  Launchable = {u1, u2}
  NoTitle = NoTitle
  MaxProcs = 3
INVARIANTS
  OneAtATime
  LiveIsTracked
  ExitedOnce
PROPERTIES
  ExitReported
  CloseIsFinal
  ImplementsOneTitle
