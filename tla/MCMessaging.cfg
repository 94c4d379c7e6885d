SPECIFICATION Spec
CONSTANTS
  m1 = m1
  m2 = m2
  m3 = m3
  k1 = k1
  k2 = k2
  None = None
  Msgs = {m1, m2, m3}
  Misrouted = {m3}
  Consumers = {k1}
  MaxRetries = 2
  Prefetch = 1
  LastConn = 3
  MaxFaults = 1
INVARIANTS ResultIsTrue RetriesHelp AckIsEarned OnlyExceptionsLeak
PROPERTIES ImplementsDelivery PublishReturns EndToEnd
CHECK_DEADLOCK FALSE
