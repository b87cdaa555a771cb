----------------------------- MODULE MCTtMatch -----------------------------
(* Small instances of TtMatch for TLC: p and q push, p, q and s rotate, and *)
(* p handles; what p registers names no operation, and so comes first; s    *)
(* may lose its channel.                                                    *)
EXTENDS TtMatch

CONSTANTS p, q, s, push1, push2, turn1, turn2, turn3, hand1, x, y

Owners ==
    [pat \in Pat |-> CASE pat \in {push1, turn1, hand1} -> p
                       [] pat \in {push2, turn2} -> q
                       [] pat = turn3 -> s]

Kinds ==
    [pat \in Pat |-> CASE pat \in {push1, push2} -> "HANDLE_PUSH"
                       [] pat \in {turn1, turn2, turn3} -> "HANDLE_ROTATE"
                       [] pat = hand1 -> "HANDLE"]

\* For x all patterns of a category tie; y prefers one of each.
Scores ==
    [m \in Request |->
        [pat \in Pat |-> IF m = y /\ pat \in {push1, turn2, hand1} THEN 2 ELSE 1]]

=============================================================================
