SPECIFICATION Spec
CONSTANTS
  m1 = m1
  m2 = m2
  m3 = m3
  m4 = m4
  m5 = m5
  k1 = k1
  Conns = {k1}
  MaxSeq = 1
  Msgs = {m1, m2, m3, m4}
  NoMsg = NoMsg
  NoId = NoId
PROPERTIES FailuresAnswered
CHECK_DEADLOCK FALSE
