SPECIFICATION Spec
CONSTANTS
  i1 = i1
  i2 = i2
  i3 = i3
  snd = snd
  usr = usr
  m1 = m1
  m2 = m2
  Inst = {i1, i2}
  User = {snd}
  Sender = snd
  NoProc = NoProc
  Msg = {m1, m2}
  AlsoQueued = {m2}
  Mortal = {i1, i2}
  Answers = {"HANDLED", "REJECTED"}
  Accepts = FALSE
  ForkFails = TRUE
  Coalesce = FALSE
  MaxPids = 4
  MaxPending = 1
SYMMETRY Symmetry
INVARIANTS QueueLaunched OnePlace NoneLost
PROPERTY LaunchedOnce
CHECK_DEADLOCK FALSE
