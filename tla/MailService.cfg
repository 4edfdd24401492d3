\* Service: every request kind from the owner, a delegate, senders and a stranger.
CONSTANTS
  alice = alice
  carol = carol
  bob = bob
  eve = eve
  box = box
  notANode = notANode
  aliceHex = aliceHex
  ALICE = ALICE
  carolHex = carolHex
  bobHex = bobHex
  eveHex = eveHex
  boxHex = boxHex
  none = none
  m1 = m1
  m2 = m2
  m3 = m3
  m4 = m4
  m5 = m5
  Address <- MCAddress
  NoAddress = none
  MessageId <- MCMessageId
  To <- MCTo
  ReceiptKind = {"Read"}
  Receipt <- MCReceipt
  Capacity = {0, 2}
  MaxCursor = 1
  UsizeModulus = 8
  Node = {alice, carol, bob, eve, box}
  Self = box
  NotANode = notANode
  ParseNodeId <- MCParseNodeId
  NodeIdHex <- MCNodeIdHex
  Limit <- MCLimit
  SizeOf <- MCSizeOf
  Grant <- MCGrant
  Revocable <- MCRevocable
  Sent <- MCSent
  MaxTime = 2
SPECIFICATION ServiceSpec
INVARIANTS
  ServiceTypeOK
  DisclosesOnlyToTrusted
  PagesCoverTheQueue
  RetainedBytesBounded
PROPERTIES
  AddsOnlyForOwnersWhoTrustUs
  FreesOnlyForTrusted
