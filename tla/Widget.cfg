SPECIFICATION FairSpec
CONSTANTS
  Access = {"granted", "auth", "origin"}
  MaxAttempts = 1
  HistoryLimit = 3
  MaxMessages = 2
  MaxJobs = 2
INVARIANTS
  TranscriptFaithful
PROPERTIES
  ConnectionSettles
  MessagesAnswered
CHECK_DEADLOCK FALSE
