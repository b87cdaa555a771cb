---------------------------- MODULE MCTtSession ----------------------------
(* Small instances of TtSession for TLC. *)
EXTENDS TtSession

CONSTANTS a, b, c, m1, m2

Register(cat)   == [call |-> "register", category |-> cat]
Unregister(cat) == [call |-> "unregister", category |-> cat]
Submit(m)       == [call |-> "send", msg |-> m]
Join            == [call |-> "join"]
Close           == [call |-> "close"]

\* m1 is sent by a, m2 by c.
Senders == [m \in Msg |-> IF m = m1 THEN a ELSE c]

\* Two requests: c may hold m1 while it waits for the answer to m2, which b,
\* or c itself, may hold; b handles too, or observes.  Or one request only,
\* and a handler that may die as an observer.
TwoPlans ==
    {a :> {Submit(m1)} @@
     b :> {Register(cat)} @@
     c :> {Submit(m2), Register("HANDLE")} : cat \in Category}
    \cup
    {a :> {Submit(m1)} @@
     b :> {Register("HANDLE")} @@
     c :> {Register("HANDLE"), Register("OBSERVE")}}

\* One request that b and c may handle and everybody may observe;
\* b may leave in order, c may die.
LivePlans == {
    a :> {Submit(m1), Register("OBSERVE")} @@
    b :> {Register("HANDLE"), Unregister("HANDLE"), Close} @@
    c :> {Register("HANDLE"), Register("OBSERVE")}}

\* A queued request: b registers and joins in either order; c observes and
\* handles, and may die before its signal.  It joins, or else sends a request
\* to an unknown ptype.
QueuePlans ==
    {a :> {Submit(m1)} @@
     b :> {Register("HANDLE"), Join} @@
     c :> {Register("HANDLE"), Register("OBSERVE"), last} :
        last \in {Join} \cup {Submit(m) : m \in Msg \ {m1}}}

=============================================================================
