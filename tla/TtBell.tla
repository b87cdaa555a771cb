------------------------------- MODULE TtBell -------------------------------
(***************************************************************************)
(* What TtSession assumes of the way a client learns of its messages: a    *)
(* client of ttsession is signalled or not, it looks when it is, and a     *)
(* look takes one message, and the signal with the last.                   *)
(***************************************************************************)
EXTENDS Naturals

VARIABLES
    unread,         \* the messages the client has not taken
    signalled,      \* the client has been told that there are some
    connected       \* the client can be told

bvars == <<unread, signalled, connected>>

BInit == unread = 0 /\ signalled = FALSE /\ connected = TRUE

Put ==
    /\ connected
    /\ unread' = unread + 1
    /\ signalled' = TRUE
    /\ UNCHANGED connected

Look ==
    /\ signalled
    /\ unread' = unread - 1
    /\ signalled' = (unread > 1)
    /\ UNCHANGED connected

Lose ==
    /\ connected
    /\ unread' = 0 /\ signalled' = FALSE /\ connected' = FALSE

BNext == Put \/ Look \/ Lose

\* A client that is signalled looks.
BSpec == BInit /\ [][BNext]_bvars /\ WF_bvars(Look)

=============================================================================
