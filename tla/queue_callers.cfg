SPECIFICATION SpecQ
CONSTANTS
  w1 = w1  w2 = w2  w3 = w3  a = a  b = b  c1 = c1  c2 = c2  q1 = q1  q2 = q2
  None = None
  Work <- One
  DelayedWork <- One
  Pwq <- TwoPwq
  MaxActive <- Ordered2
  Worker <- Workers3
  Barrier <- Caller2
  Ops <- AllOps
SYMMETRY Sym
ACTION_CONSTRAINT Scenes
INVARIANTS CallersExact FlushTrueWaited WorkComing ListsAndSlots
