SPECIFICATION Spec
CONSTANTS
  i1 = i1
  i2 = i2
  i3 = i3
  snd = snd
  usr = usr
  m1 = m1
  m2 = m2
  Inst = {i1, i2, i3}
  User = {snd, usr}
  Sender = snd
  NoProc = NoProc
  Msg = {m1, m2}
  AlsoQueued = {}
  Mortal = {i1}
  Answers = {}
  Accepts = TRUE
  ForkFails = FALSE
  Coalesce = FALSE
  MaxPids = 4
  MaxPending = 1
INVARIANTS LaunchWatched
PROPERTIES ExitNoticedInTraffic UnblockedWhileOne
CHECK_DEADLOCK FALSE
