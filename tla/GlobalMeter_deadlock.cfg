SPECIFICATION FairSpec
CONSTANTS
  Clients = {c1}
  Setters = {s1}
  SDKs = {sdk1}
  Meters = {m1}
CHECK_DEADLOCK FALSE
PROPERTIES
  SetReturns
