SPECIFICATION IoqFairSpec
CONSTANTS
  r1 = r1
  r2 = r2
  w1 = w1
  w2 = w2
  a = a
  b = b
  Readers = {r1, r2}
  Writers = {w1, w2}
  Bytes = {a, b}
  Size = 3
  MaxCount = 3
  None = None
INVARIANT RingWaits
PROPERTIES ImplementsFifo KbdReadReturns PipeWriteWaitsFull
