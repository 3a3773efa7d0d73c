SPECIFICATION Spec
CONSTANTS
  w1 = w1  w2 = w2  w3 = w3  a = a  b = b  c1 = c1  q1 = q1  q2 = q2
  None = None
  Worker <- Workers3
  Work <- Two
  Barrier <- Caller1
  Pwq <- TwoPwq
  MaxActive <- Mixed
SYMMETRY SymWorkers
INVARIANTS TypeOK NonReentrant Spare HeadWoken NrRunningExact QueuedOnce PoolBooks
PROPERTY InQueuedOrder
