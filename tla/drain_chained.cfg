SPECIFICATION Spec
CONSTANTS
  x1 = x1  x2 = x2  f1 = f1  f2 = f2  f3 = f3  f4 = f4  q1 = q1  q2 = q2
  None = None
  Work <- Works2
  Flusher <- Flushers2
  Drainers <- DrainOne
  Pwq <- OnePwq
  NrColors = 3
INVARIANT ChainedAllowed
