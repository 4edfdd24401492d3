\* Store: all operations of the mailbox store, at capacities 1 and 2.
CONSTANTS
  alice = alice
  bob = bob
  none = none
  m1 = m1
  m2 = m2
  m3 = m3
  m4 = m4
  m5 = m5
  Address <- MCAddress
  NoAddress = none
  MessageId <- MCMessageId
  To <- MCTo
  ReceiptKind = {"Read"}
  Receipt <- MCReceipt
  Capacity <- MCCapacity
  MaxCursor = 3
  UsizeModulus = 8
SPECIFICATION StoreSpec
INVARIANTS
  TypeOK
  HeldOnce
  ReceiptIndexExact
  Bounded
PROPERTIES
  LifeSpec
  ArrivalOrderKept
