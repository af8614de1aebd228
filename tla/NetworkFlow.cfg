SPECIFICATION NetworkSpec
CONSTANTS
  Nets = {n1, n2}
  Secure = {n1}
  None = None
  MaxSent = 2
INVARIANTS
  OnlyItsNetwork
  PasswordForgotten
PROPERTY ConnectingEnds
