\* Threads: every correspondence of three messages, drained in any order.
CONSTANTS
  MessageId = {1, 2, 3}
  Unseen = {9}
  NoParent = 0
  Time = {1, 2}
  Lowercase <- MCLowercase
  Subjects <- MCSubjects
  MaxInbox = 4
SPECIFICATION ThreadSpec
CHECK_DEADLOCK FALSE
INVARIANTS
  ThreadTypeOK
  ConversationsAreComponents
  TitlesIgnorePrefixes
  ListedOnceLatestFirst
