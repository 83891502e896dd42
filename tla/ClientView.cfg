SPECIFICATION ClientSpec
CONSTANTS
  MaxEvents = 4
  MaxCalls = 2
  MaxBefore = 2
  Names = {"f", "g"}
  Visits = {v1, v2}
  MaxLinks = 2
  MaxBreaks = 1
  Conversations = {c1, c2}
  Asks = {q1, q2}
  PageSize = 2
  NoConversation = NoConversation
  MaxMessages = 5
  MaxOwnRuns = 2
  Tabs = {w1, w2}
  QueueCap = 1
  MaxRead = 1
  MaxLosses = 1
CONSTRAINT Untorn
INVARIANTS
  SessionsTypeOK LinksHold 
  StoredAsShown ReplyComplete ToldOnStream ResultsMatched
CHECK_DEADLOCK FALSE
