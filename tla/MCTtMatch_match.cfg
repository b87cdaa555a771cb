SPECIFICATION Spec
CONSTANTS
    p = p
    q = q
    s = s
    push1 = push1
    push2 = push2
    turn1 = turn1
    turn2 = turn2
    turn3 = turn3
    hand1 = hand1
    x = x
    y = y
    Pat = {push1, push2, turn1, turn2, turn3, hand1}
    NoPat = NoPat
    Proc = {p, q, s}
    NoProc = NoProc
    Mortal = {s}
    Request = {x, y}
    Owner <- Owners
    Category <- Kinds
    Opless = {push1, turn1, hand1}
    Score <- Scores
    MaxNow = 6
INVARIANTS Trumps FailsLast BestMatch LeastRecent Newest
CHECK_DEADLOCK FALSE
