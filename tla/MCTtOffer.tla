----------------------------- MODULE MCTtOffer -----------------------------
(* Small instances of TtOffer for TLC: a sends the offer. *)
EXTENDS TtOffer

CONSTANTS a, b, c, d

\* The sender observes its own offer, or its return; b observes, c handles or
\* observes with two patterns; d is an observer of an old version.
Polls == {
    {<<b, "ANY">>, <<c, "SENT">>, <<c, "ANY">>},
    {<<a, "ANY">>, <<b, "SENT">>, <<c, "HANDLE">>},
    {<<b, "HANDLE">>, <<c, "HANDLE">>},
    {<<b, "SENT">>, <<c, "SENT">>, <<d, "SENT">>}}

\* Without the old client.
NewPolls == {pats \in Polls : \A pat \in pats : pat[1] # d}

\* Somebody observes and handles.
Both == {{<<b, "HANDLE">>, <<b, "ANY">>, <<c, "SENT">>}}

=============================================================================
