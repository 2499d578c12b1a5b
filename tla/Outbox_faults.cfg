SPECIFICATION FairSpec
CONSTANTS
  w1 = w1  w2 = w2
  Items = {2, 3}
  Workers = {w1, w2}
  Owners = {w1, w2}
  OwnerOf <- MCOwnerOf
  Limit = 2
  TopicOf <- MCTopicOf
  Batched = {"intent"}
  Budget <- OneOfEach
INVARIANTS TypeOK ClaimSurvivesCall
PROPERTIES NoLossStep AtLeastOnce
CHECK_DEADLOCK FALSE
