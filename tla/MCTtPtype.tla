----------------------------- MODULE MCTtPtype -----------------------------
(* Small instances of TtPtype for TLC: a client snd sends m1 and m2, usr is *)
(* another client, i1, i2 and i3 are the instances that may be started.     *)
EXTENDS TtPtype

CONSTANTS i1, i2, i3, snd, usr, m1, m2

\* Instances are launched in an order TLC chooses.  Not for temporal properties.
Symmetry == Permutations({i1, i2})

=============================================================================
