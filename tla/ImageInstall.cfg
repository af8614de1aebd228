SPECIFICATION CourierSpec
CONSTANTS
  a = a
  b = b
  Media = {stick, a, b}
  Stick = stick
  Devices = {sda, sdb, sdc}
  None = None
  MaxPulls = 1
SYMMETRY Alike
INVARIANT NeverTheStick
PROPERTIES
  OnlyWhatWasMeant
  SourceKept
