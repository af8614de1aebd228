SPECIFICATION Spec
CONSTANTS
  Rooms = {"library", "settings"}
  Buttons = {"south", "east"}
  Kinds = {"short", "long"}
  Busy = {TRUE, FALSE}
  MaxFades = 1
INVARIANTS
  NeverDead
  ModalOwnsInput
  TitleOwnsInput
