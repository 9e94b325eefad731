\* Two channels whose pins are set, turned, unmasked and masked by two threads.
CONSTANTS
  p0 = p0
  p1 = p1
  t1 = t1
  t2 = t2
  Channels <- Dual
  Pins = {p0, p1}
  Threads = {t1, t2}
  Requests <- Turns
  Edges = {}
SPECIFICATION Spec
SYMMETRY Symmetry
INVARIANT NoLostWrites
