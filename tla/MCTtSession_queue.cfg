SPECIFICATION Spec
CONSTANTS
  a = a
  b = b
  c = c
  m1 = m1
  m2 = m2
  Proc = {a, b, c}
  NoProc = NoProc
  Msg = {m1, m2}
  Sender <- Senders
  Queueable = {m1}
  BadAddress = {m2}
  Plans <- QueuePlans
  Mortal = {c}
  MaxPending = 2
  OplessToo = FALSE
INVARIANTS Wakeup QueueKept
CHECK_DEADLOCK FALSE
