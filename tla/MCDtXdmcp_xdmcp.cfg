SPECIFICATION Spec
CONSTANTS
  t1 = t1
  t2 = t2
  Terminal = {t1}
  Pid = {1, 2}
  Faults <- Fault
  MaxFaults = 3
INVARIANTS OneSession IdsApart
PROPERTIES NewestKept ChoiceHonoured Settles
CHECK_DEADLOCK FALSE
