SPECIFICATION Spec
CONSTANTS
  w1 = w1  w2 = w2  r1 = r1  r2 = r2  r3 = r3  s1 = s1  s2 = s2
  Workers = {w1, w2}
  Owners = {w1, w2}
  OwnerOf <- MCOwnerOf
  Runs = {r1, r2}
  Sessions = {s1, s2}
  SessionOf <- TwoSessions
  Silent = {r2}
  MaxActiveRuns = 1
  MaxIterations = 1
  MaxResumers = 1
  Budget <- OneOfEach
INVARIANTS TypeOK CompletedHasAnswer DuplicatesNeedFaults ExclusiveProcessing
PROPERTIES FenceHolds EndedIsLeft
SYMMETRY Symmetry
