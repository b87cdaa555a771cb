SPECIFICATION Spec
CONSTANTS
  a = a
  b = b
  c = c
  m1 = m1
  m2 = m2
  Proc = {a, b, c}
  NoProc = NoProc
  Msg = {m1, m2}
  Sender <- Senders
  Queueable = {}
  BadAddress = {}
  Plans <- TwoPlans
  Mortal = {b, c}
  MaxPending = 2
  OplessToo = TRUE
INVARIANTS OneOwner NoneLost SenderTold
PROPERTIES FinalIsFinal Implements
CHECK_DEADLOCK FALSE
