SPECIFICATION Spec
CONSTANTS
  v1 = v1  v2 = v2  q1 = q1  q2 = q2  q3 = q3  p1 = p1  p2 = p2  x1 = x1  x2 = x2  c1 = c1  c2 = c2
  None = None
  Wq <- Wqs
  Pwq <- Pwqs
  Pool <- Pools
  Work <- Work1
  Cookie <- Cookies
  MaxWorkers = 3
  MaxApplies = 1
INVARIANT PutterKeepsPwq

