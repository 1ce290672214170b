SPECIFICATION FairSpec
CONSTANTS
  Calls = {1, 2, 3}
  Notices = {2}
  NoCall = none
  Notification = notification
  Malformed = malformed
  Broken = broken
  Capacity = 1
  PipeSize = 1
  MaxInFlight = 2
  MaxNoise = 2
PROPERTIES RepliesToTheirCallers SendsReturn
CHECK_DEADLOCK FALSE
