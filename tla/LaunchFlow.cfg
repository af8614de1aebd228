SPECIFICATION Spec
CONSTANTS
  u1 = u1
  u2 = u2
  p1 = p1
  p2 = p2
  Uids = {u1, u2}
  Providers = {p1, p2}
  ProviderOf <- MCProviderOf
  None = None
  MaxPlays = 2
  MaxAsked = 2
  MaxDeaths = 1
  Overlays = {TRUE, FALSE}
INVARIANTS
  RunningAgrees
  CoveredWhilePlaying
PROPERTIES
  VeilLiftsWhileUp
  InstalledShowsUp
