SPECIFICATION Spec
CONSTANTS
    a = a
    b = b
    c = c
    d = d
    Proc = {a, b, c, d}
    NoProc = NoProc
    Sender = a
    Old = {d}
    Mortal = {b, c}
    Registries <- Polls
    Answers = {"REJECTED", "ABSTAINED"}
    MaxPending = 1
INVARIANTS TypeOK AllVoted NoneStuck VotesMatch SenderTold
PROPERTY Returned
CHECK_DEADLOCK FALSE
