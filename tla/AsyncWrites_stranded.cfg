SPECIFICATION FairSpec
CONSTANTS
  w1 = w1  w2 = w2  j1 = j1  j2 = j2  j3 = j3
  Jobs = {j1, j2}
  Writers = {w1}
  SizeOf <- Ordinary
  Buffer = 2
  Limit = 2
  MaxAttempts = 2
  Budget <- OneFailure
PROPERTIES LeasesAreRecovered
