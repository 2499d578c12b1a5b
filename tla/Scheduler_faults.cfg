SPECIFICATION FairSpec
CONSTANTS
  s1 = s1  s2 = s2  u1 = u1  u2 = u2
  shared = shared  twice = twice  until = until  cron = cron
  Schedulers = {s1, s2}
  Jobs = {shared, twice, until, cron}
  TableOf <- MCTableOf
  First <- MCFirst
  Period <- MCPeriod
  Interval <- MCInterval
  Count <- MCCount
  Until <- MCUntil
  Subscribers <- MCSubscribers
  Limit = 1
  Horizon = 2
  Budget <- MCBudget
  Total = 1
INVARIANTS RunsItsCourse AskedFires FanoutComplete
PROPERTIES DueJobFires
