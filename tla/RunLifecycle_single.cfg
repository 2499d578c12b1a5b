SPECIFICATION FairSpec
CONSTANTS
  w1 = w1  w2 = w2  r1 = r1  r2 = r2  r3 = r3  s1 = s1  s2 = s2
  Workers = {w1}
  Owners = {w1, w2}
  OwnerOf <- MCOwnerOf
  Runs = {r1, r2, r3}
  Sessions = {s1, s2}
  SessionOf <- OneSession
  Silent = {r2}
  MaxActiveRuns = 0
  MaxIterations = 2
  MaxResumers = 1
  Budget <- CrashResume
INVARIANTS NoOrphan SessionIsSerial
PROPERTIES QueuedRunSettles
