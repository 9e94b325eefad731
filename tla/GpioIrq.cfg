\* Interrupts of one channel: two pins masked and unmasked by two threads.
CONSTANTS
  p0 = 0
  p1 = 1
  t1 = t1
  t2 = t2
  Channels <- Single
  Pins = {0, 1}
  Threads = {t1, t2}
  Requests <- Irqs
  Edges = {"rise", "fall"}
SPECIFICATION FairSpec
PROPERTIES
  LineDrops
  EdgeServed
