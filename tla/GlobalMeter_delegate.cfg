SPECIFICATION Spec
CONSTANTS
  Clients = {c1, c2}
  Setters = {s1, s2}
  SDKs = {sdk1, sdk2}
  Meters = {m1, m2}
CHECK_DEADLOCK FALSE
INVARIANTS
  AllDelegated
  UnregisteredIsGone
PROPERTIES
  DelegatedOnce
