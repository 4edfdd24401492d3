\* Serve: the serving loop with crashes, failing polls and failing writes.
CONSTANTS
  serve = serve
  alice = alice
  eve = eve
  box = box
  notANode = notANode
  aliceHex = aliceHex
  eveHex = eveHex
  boxHex = boxHex
  none = none
  m1 = m1
  m2 = m2
  Address <- MCAddress
  NoAddress = none
  MessageId <- MCMessageId
  To <- MCTo
  ReceiptKind = {"Read"}
  Receipt <- MCReceipt
  Capacity = {0}
  MaxCursor = 1
  UsizeModulus = 8
  Node = {alice, eve, box}
  Self = box
  NotANode = notANode
  ParseNodeId <- MCParseNodeId
  NodeIdHex <- MCNodeIdHex
  Limit <- MCLimit
  SizeOf <- MCSizeOf
  Grant <- MCGrant
  Revocable <- MCRevocable
  Sent <- MCSent
  MaxTime = 1
  Process = {serve}
  DirSyncFails = FALSE
  Pid = serve
  StorePath = TRUE
  Legacy <- MCLegacy
  NoRequest = NoRequest
  PollMs = 1
  MaxBackoff = 3
  MaxBatch = 2
SPECIFICATION FairServeSpec
INVARIANTS
  ServeTypeOK
  FileCurrentBetweenBatches
  FileIsWhole
  DeliveredIsKept
  FailuresSlowPolling
PROPERTIES
  DurableSpec
  BatchesEnd
  KeepsServing
  RevocationTakesEffect
