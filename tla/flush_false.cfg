SPECIFICATION SpecQ
CONSTANTS
  w1 = w1  w2 = w2  w3 = w3  a = a  b = b  c1 = c1  c2 = c2  q1 = q1  q2 = q2
  None = None
  Work <- One
  DelayedWork = {}
  Pwq <- OnePwq
  MaxActive <- Ordered1
  Worker <- Workers2
  Barrier <- Caller1
  Ops <- FlushOps
PROPERTY FlushFalseMeansIdle
