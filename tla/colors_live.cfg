SPECIFICATION FairSpec
CONSTANTS
  x1 = x1  x2 = x2  f1 = f1  f2 = f2  f3 = f3  f4 = f4  q1 = q1  q2 = q2
  None = None
  Work <- Works1
  Flusher <- Flushers3
  Drainers <- DrainOne
  Pwq <- OnePwq
  NrColors = 3
PROPERTY FlushReturns
