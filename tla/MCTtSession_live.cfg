SPECIFICATION Spec
CONSTANTS
  a = a
  b = b
  c = c
  m1 = m1
  m2 = m2
  Proc = {a, b, c}
  NoProc = NoProc
  Msg = {m1}
  Sender <- Senders
  Queueable = {}
  BadAddress = {}
  Plans <- LivePlans
  Mortal = {c}
  MaxPending = 2
  OplessToo = TRUE
INVARIANT ObserverOrder
PROPERTIES ServerReturns OrphanEnds
CHECK_DEADLOCK FALSE
