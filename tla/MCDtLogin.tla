----------------------------- MODULE MCDtLogin -----------------------------
EXTENDS DtLogin

CONSTANTS con, net  \* the display of the console, and an X terminal

Both == {con, net}
Console == {con}
Contents == {{con, net}, {con}, {}}
NoChanges == {}
Changes == {<<{con}, {}>>, <<{}, {con}>>}
Always == {{con}}
Ids == 1..4
Ends == {"obeysess", "openfailed", "unmanage"}
=============================================================================
