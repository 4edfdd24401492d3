\* Inbox: resuming and starting over, acking or not, with evictions and late acks.
CONSTANTS
  alice = alice
  none = none
  m1 = m1
  m2 = m2
  m3 = m3
  Address = {alice, none}
  NoAddress = none
  MessageId = {m1, m2, m3}
  To <- MCTo
  ReceiptKind = {}
  Receipt = {}
  Capacity = {2}
  MaxCursor = 3
  UsizeModulus = 8
  Owner = alice
  Option <- Options
  Saved = Saved
  LateRequests = 1
  Followed = {m1}
SPECIFICATION FairInboxSpec
INVARIANTS
  InboxTypeOK
  FreshAcksFreeOnlyListedMail
PROPERTIES
  CursorPassesOnlyReadableMail
  HeldMailIsListed
