SPECIFICATION FairSpec
CONSTANTS
  m1 = m1  m2 = m2  m3 = m3  q1 = q1  q2 = q2  q3 = q3
  Messages = {m1, m2, m3}
  Requests = {q1, q2, q3}
  KeyOf <- Once
  MaxDepth = 2
  Allowed = {"deny"}
  MaxCrashes = 0
PROPERTIES ExactlyOneReply
CHECK_DEADLOCK FALSE
