SPECIFICATION Spec
CONSTANTS
  Conns = {c1}
  Names = {sda, sdb}
  BootName = sda
  Disks = {stick, ssd, old, tiny}
  BootDisk = stick
  stick = stick
  ssd = ssd
  old = old
  tiny = tiny
  Size <- MCSize
  NoDisk = NoDisk
  PipeSize = 1
  MaxClones = 2
  MaxSwaps = 3
  MaxDeaths = 1
INVARIANTS
  NeverBootDisk
  OneClone
  DoneIsWhole
  OnlyTheDiskMeant
PROPERTY CloneEnds
