SPECIFICATION Spec
CONSTANTS Low = 1  High = 6  NBITS = 4
INVARIANT InRange
