\* MailClient: two correspondents, failing calls at every step.
CONSTANTS
  alice = alice
  bob = bob
  none = none
  m1 = m1
  m2 = m2
  Address = {alice, bob, none}
  NoAddress = none
  MessageId = {m1, m2}
  To <- MCTo
  ReceiptKind = {"Delivered", "Read"}
  Receipt <- MCReceipt
  Capacity = {0, 2}
  MaxCursor = 1
  UsizeModulus = 8
  Author = alice
  Recipient = bob
  Correspondence <- MCCorrespondence
  ClientLimits <- MCClientLimits
  PostageOf <- MCPostage
SPECIFICATION ClientSpec
INVARIANTS
  ClientTypeOK
  MailHasItsBlobs
  ReturnedMailArrived
  OpenedAsComposed
  ListedWereSent
  CollectedWereIssued
  FailedLookupsNeverAdmit
  ConfirmedReceiptsAwaitTheAuthor
