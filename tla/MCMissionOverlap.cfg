SPECIFICATION Spec
CONSTANTS
  m1 = m1  m2 = m2  w1 = w1  w2 = w2  t1 = t1  t2 = t2  i1 = i1  i2 = i2  r1 = r1  r2 = r2
  NoMission = NoMission
  NoRequest = NoRequest
  Missions = {m1}
  Workers = {w1, w2}
  Instances = {i1}
  Home <- OneInstance
  Length <- LengthOf
  Direct = {}
  Named <- AllNamed
  Tools = {t1, t2}
  ToolOf <- ToolInOrder
  Verdicts <- NoRefusal
  Rechecks <- AnyRecheck
  Requests = {r1, r2}
  MaxMissions = 1
  MaxFaults = 0
  MaxRegistryChanges = 0
SYMMETRY RequestSymmetry
INVARIANTS StepsRunOnce
