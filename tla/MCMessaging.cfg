\* The original client and one sub-client.
SPECIFICATION FairSpec
CONSTANTS
  NumSubClients = 1
  OriginalClient = TRUE
  Lines <- MCLines
  Kinds = {"multi", "send", "with", "client"}
  Policies = {"none", "any", "all", "stable"}
  StatsValues <- MCStats
  MaxReplies = 2
INVARIANTS
  TypeOK
  OneReply
  SendReports
PROPERTY
  ReplyReachesCaller
\* the message was sent and the replies have come
CHECK_DEADLOCK FALSE
