SPECIFICATION FairSpec
CONSTANTS
  cap = cap  r1 = r1  r2 = r2  w1 = w1  w2 = w2  i1 = i1  i2 = i2
  NoRequest = NoRequest
  NoCapability = NoCapability
  Capabilities = {cap}
  Requests = {r1, r2}
  CapabilityOf <- OneCapability
  Workers = {w1, w2}
  Instances = {i1}
  Home <- OneInstance
  LostReplies = TRUE
  MaxFaults = 1
  MaxRestarts = 0
  MaxRollbacks = 1
PROPERTIES KillSwitchQuiesces
