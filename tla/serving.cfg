SPECIFICATION FairSpec
CONSTANTS
  None = None
  Env <- MCEnv
  Cleaned <- MCCleaned
  Conversations <- MCConversations
  TurnLists <- MCTurnLists
  Catalog <- MCCatalog
  BuiltinModels <- MCBuiltinModels
  ModelFamily <- MCFamily
  Requests = {r1, r2}
  Asks <- MCAsks
  Configs <- MCConfigs
  FirstConfig <- Config0
  Statuses = {401, 429}
  Resolvers <- MCResolvers
  MaxEvents = 1
  MaxChunks = 2
INVARIANTS
  TypeOK
  ChainsAreSound
  ClientsInForce
  ConversationIsKept
  UsageNamesWhoAnswered
PROPERTIES
  NothingAfterFirstByte
  RequestsAnswered
CHECK_DEADLOCK FALSE
