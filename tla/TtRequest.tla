----------------------------- MODULE TtRequest -----------------------------
(***************************************************************************)
(* What a ToolTalk session promises about every request: it is held by at  *)
(* most one handler at a time, no handler is given the same request twice, *)
(* and it ends once and for all.                                           *)
(***************************************************************************)
CONSTANTS Proc, NoProc, Msg

VARIABLES
    phase,      \* "new", "open" or "ended", for each request
    holder,     \* the process that has to answer it, if any
    given       \* the processes that have had it

rvars == <<phase, holder, given>>

RequestTypeOK ==
    /\ phase \in [Msg -> {"new", "open", "ended"}]
    /\ holder \in [Msg -> Proc \cup {NoProc}]
    /\ given \in [Msg -> SUBSET Proc]

RInit ==
    /\ phase = [m \in Msg |-> "new"]
    /\ holder = [m \in Msg |-> NoProc]
    /\ given = [m \in Msg |-> {}]

Submit(m) ==
    /\ phase[m] = "new"
    /\ phase' = [phase EXCEPT ![m] = "open"]
    /\ UNCHANGED <<holder, given>>

Give(m, p) ==
    /\ phase[m] = "open" /\ holder[m] = NoProc /\ p \notin given[m]
    /\ holder' = [holder EXCEPT ![m] = p]
    /\ given' = [given EXCEPT ![m] = @ \cup {p}]
    /\ UNCHANGED phase

\* The holder has answered or rejected the request; the answer is under way.
Yield(m) ==
    /\ phase[m] = "open" /\ holder[m] # NoProc
    /\ holder' = [holder EXCEPT ![m] = NoProc]
    /\ UNCHANGED <<phase, given>>

\* p is lost; the requests it holds will end, or find another handler.
Lose(p) ==
    /\ holder' = [m \in Msg |-> IF holder[m] = p THEN NoProc ELSE holder[m]]
    /\ UNCHANGED <<phase, given>>

End(m) ==
    /\ phase[m] = "open"
    /\ phase' = [phase EXCEPT ![m] = "ended"]
    /\ holder' = [holder EXCEPT ![m] = NoProc]
    /\ UNCHANGED given

RNext == \/ \E m \in Msg : Submit(m) \/ Yield(m) \/ End(m)
         \/ \E p \in Proc : Lose(p) \/ \E m \in Msg : Give(m, p)

RSpec == RInit /\ [][RNext]_rvars

=============================================================================
