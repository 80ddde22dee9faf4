CONSTANTS
  t1 = t1
  t2 = t2
  a = a
  b = b
  Threads = {t1, t2}
  QueueLength = 1
  TicketMod = 3
  Items = {a, b}
  NoItem = NoItem
  MaxCalls = 8
SPECIFICATION FairSpec
CHECK_DEADLOCK FALSE
INVARIANTS
  SlotExclusive
  IInv
  DeliveredInOrder
  PublishedIntact
PROPERTIES
  BusyHasReason
  ImplementsFifo
  MatchedTicketsComplete
  CloseReleasesWaiters
