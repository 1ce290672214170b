SPECIFICATION TransportsSpec
CONSTANTS
  Calls <- MCCalls
  Notices = {1}
  NoCall = none
  Notification = notification
  Malformed = malformed
  TooLong = tooLong
  PipeSize = 1
  MaxNoise = 1
  Posts = {1, 2, 3}
  PostNotices = {3}
  MaxHeader = 2
  MaxRequest = 3
  MaxAsks = 1
  MaxAttempts = 2
  MaxLines = 3
  ChanCapacity = 2
  Callbacks = {1, 2}
  MaxFlows = 2
  Recorders = {1, 2}
  MaxRecords = 3
  FlushSize = 2
  ExportAttempts = 2
  MaxLost = 1
INVARIANTS StreamIsWhole AnswersBelong EventsAreAccounted
PROPERTIES RepliesToTheirCallers StreamEnds WaitsEnd
CHECK_DEADLOCK FALSE
