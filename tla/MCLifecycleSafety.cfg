SPECIFICATION Spec
CONSTANTS
  cap = cap  r1 = r1  r2 = r2  w1 = w1  w2 = w2  i1 = i1  i2 = i2
  NoRequest = NoRequest
  NoCapability = NoCapability
  Capabilities = {cap}
  Requests = {r1, r2}
  CapabilityOf <- OneCapability
  Workers = {w1, w2}
  Instances = {i1, i2}
  Home <- TwoInstances
  LostReplies = FALSE
  MaxFaults = 1
  MaxRestarts = 1
  MaxRollbacks = 1
SYMMETRY RequestSymmetry
INVARIANTS TypeOK ClaimsAreApproved InstallIsExclusive AcquiredOnce DocumentsTellDecisions CallableCodeIsClaimed
PROPERTIES RefinesInstallAuthority
