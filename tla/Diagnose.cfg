\* One diagnosis of up to two turns, of two chunks and one, on every profile.
SPECIFICATION FairSpec
CHECK_DEADLOCK FALSE

CONSTANTS
  Envs     <- MCEnvs
  Clusters <- MCClusters
  Calls    <- MCCalls
  Answers  <- MCAnswers
  Origins  = {"pod", "resource", "log"}
  OutCap   = 1
  MaxTurns = 2
  MaxChunks <- MCChunks
  Forgets = {1}
  MaxToolResultBytes = 4
  Suffix = 2
  LogTailLines = 1
  ToolLogTailLines = 2
  EventListLimit = 2
  EventsInPayload = 1

INVARIANTS TypeOK ProfileWhole RequestWellFormed CallsComplete ResultsBounded 
PROPERTIES ImplementsAnswerStream CancelCloses
