SPECIFICATION Spec
CONSTANTS
  m1 = m1  m2 = m2  w1 = w1  w2 = w2  t1 = t1  t2 = t2  i1 = i1  i2 = i2  r1 = r1  r2 = r2
  NoMission = NoMission
  NoRequest = NoRequest
  Missions = {m1, m2}
  Workers = {w1, w2}
  Instances = {i1}
  Home <- OneInstance
  Length <- LengthOf
  Direct = {m2}
  Named <- FirstNull
  Tools = {t1, t2}
  ToolOf <- ToolInOrder
  Verdicts <- AnyVerdict
  Rechecks <- AnyRecheck
  Requests = {r1, r2}
  MaxMissions = 1
  MaxFaults = 1
  MaxRegistryChanges = 1
INVARIANTS TypeOK OneRunner ApprovalIsForThisStep NoStepIsSkipped SwitchStopsAfterOneCall SerialStepsRunOnce DirectRunsOnce OnlyApprovalsStrand
PROPERTIES RefinesMissionTurns
SYMMETRY RequestWorkerSymmetry
