CONSTANTS
  Threads = {t1, t2}
  Keys = {k1}
  Values = {v1, v2}
  MaxRev = 3
  MaxDeletes = 2
SPECIFICATION Spec
INVARIANT PutRevisionNamesValue
CHECK_DEADLOCK FALSE
