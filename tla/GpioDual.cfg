\* One caller that masks and unmasks the interrupts of two channels.
CONSTANTS
  p0 = 0
  p1 = 1
  t1 = t1
  t2 = t2
  Channels <- Dual
  Pins = {0, 1}
  Threads = {t1}
  Requests <- Irqs
  Edges = {}
SPECIFICATION Spec
INVARIANT UnmaskedFires
