SPECIFICATION ResponseSpec
CONSTANTS
  CallItems = {"f1", "f2"}
  TextItems = {"t1"}
  MaxFrags = 2
INVARIANT BufferedArgumentsArrive
CHECK_DEADLOCK FALSE
