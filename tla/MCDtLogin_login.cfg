SPECIFICATION Spec
CONSTANTS
  con = con
  net = net
  None = None
  Displays <- Both
  Local <- Console
  Lines <- Console
  Pids <- Ids
  Files <- Contents
  StartAttempts = 1
  ServerAttempts = 1
  TerminateServer = FALSE
  ReadyEarly = FALSE
  ForkFails = FALSE
  ExitCodes <- Ends
  Edits <- Changes
  MaxEdits = 2
INVARIANTS OneServer Watched
PROPERTY ShutdownEnds
CHECK_DEADLOCK FALSE
