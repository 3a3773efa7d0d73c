SPECIFICATION Spec
CONSTANTS
  x1 = x1  x2 = x2  f1 = f1  f2 = f2  f3 = f3  f4 = f4  q1 = q1  q2 = q2
  None = None
  Work <- Works2
  Flusher <- Flushers4
  Drainers = {}
  Pwq <- TwoPwq
  NrColors = 3
SYMMETRY Sym
INVARIANTS FlushedAll FirstFlusherWaits ColorsExact
