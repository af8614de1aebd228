SPECIFICATION Spec
CONSTANTS
  Pads = {a, b}
  MaxPresses = 3
  MaxStalls = 1
  MaxPulls = 1
  MaxDeaths = 1
INVARIANTS PressTrue PressHeard
