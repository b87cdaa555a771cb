SPECIFICATION Spec
CONSTANTS
  con = con
  net = net
  None = None
  Displays <- Both
  Local <- Console
  Lines <- Console
  Pids <- Ids
  Files <- Always
  StartAttempts = 1
  ServerAttempts = 1
  TerminateServer = TRUE
  ReadyEarly = FALSE
  ForkFails = FALSE
  ExitCodes <- Ends
  Edits <- NoChanges
  MaxEdits = 0
PROPERTY KeptRunning
CHECK_DEADLOCK FALSE
