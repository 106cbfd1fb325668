CONSTANTS
  p1 = p1
  p2 = p2
  a = a
  b = b
  Cpus = {p1, p2}
  Neighbours = {a, b}
  MaxEv = 2
  MaxHa = 2
SPECIFICATION FairSpec
INVARIANT TypeOK
INVARIANT QueueBounded
INVARIANT RefsBalanced
INVARIANT NoLostWakeup
INVARIANT GoneClean
PROPERTY EventsHandled
CHECK_DEADLOCK FALSE
