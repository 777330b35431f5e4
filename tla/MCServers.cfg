CONSTANTS
  t1 = t1
  t2 = t2
  t3 = t3
  Threads = {t1, t2, t3}
  MAXNCLI = 3
  MaxConns = 4
  nchildren = 3
  NConns = 3
SPECIFICATION ServersSpec
INVARIANTS NavailExact RingInv NoLostWakeup LockExact DescriptorsExact NoStrandedZombie
PROPERTIES Implements EveryoneServed NoChildOutlives
CHECK_DEADLOCK FALSE
