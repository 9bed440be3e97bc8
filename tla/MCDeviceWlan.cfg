CONSTANTS
  Settings = {default, own}
  DefaultSet = default
  DefaultAp = home
  Erased = erased
  TryValues = 4
  Aps = {home, other}
  NoAp = noap
SPECIFICATION Spec
PROPERTY WlanIsKept
