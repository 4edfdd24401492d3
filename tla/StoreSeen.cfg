\* StoreSeen: the size of the message index.
CONSTANTS
  alice = alice
  bob = bob
  none = none
  m1 = m1
  m2 = m2
  m3 = m3
  m4 = m4
  m5 = m5
  Address <- MCAddress
  NoAddress = none
  MessageId <- MCMessageId
  To <- MCTo
  ReceiptKind = {"Read"}
  Receipt <- MCReceipt
  Capacity <- MCCapacity
  MaxCursor = 3
  UsizeModulus = 8
SPECIFICATION StoreSpec
INVARIANT SeenBounded
