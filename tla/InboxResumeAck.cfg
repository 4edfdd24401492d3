\* InboxResumeAck: resuming from the saved cursor and acking, with no failure.
CONSTANTS
  alice = alice
  none = none
  m1 = m1
  m2 = m2
  m3 = m3
  Address = {alice, none}
  NoAddress = none
  MessageId = {m1, m2, m3}
  To <- MCTo
  ReceiptKind = {}
  Receipt = {}
  Capacity = {3}
  MaxCursor = 3
  UsizeModulus = 8
  Owner = alice
  Option <- ResumingAndAcking
  Saved = Saved
  LateRequests = 0
  Followed = {m1}
SPECIFICATION SmoothSpec
INVARIANT FreesOnlyListedMail
