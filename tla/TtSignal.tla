------------------------------ MODULE TtSignal ------------------------------
(***************************************************************************)
(* How a ToolTalk client learns that there are messages for it.  The       *)
(* server keeps them in the client's list, and sends one byte down a       *)
(* signalling channel, a TCP connection of its own; the client's select    *)
(* finds the channel readable, and the client asks for one message by RPC. *)
(* With the last message the server tells the client to read the byte,     *)
(* but by the time the client does, the server may have sent the next one; *)
(* and since the byte and the answer come by two connections, a client     *)
(* that asks without a signal may be told to read one that is not there.   *)
(* Sources: slib/mp_s_procid.C and slib/mp_rpc_implement.C for the server, *)
(* lib/mp/mp_c_procid.C and lib/mp/mp_stream_socket.C for the client,      *)
(* under src/cde/lib/tt.                                                   *)
(***************************************************************************)
EXTENDS Naturals

CONSTANTS
    MaxPosts,       \* bound: the messages sent to the client
    Lossy,          \* the network may reset the channel of a live client
    Unprompted      \* bound: calls of tt_message_receive without a signal

\* The RPC of the client: none, sent, or answered.  The answer has a message,
\* with ("last") or without ("more") the word to clear the signal; or it has
\* none ("empty"), and what it says of the signal is not heeded.
Reply == {"more", "last", "empty"}
Rpc   == {"idle", "sent"} \cup Reply

ASSUME SignalAssumption ==
    /\ MaxPosts \in Nat /\ Unprompted \in Nat
    /\ Lossy \in BOOLEAN

VARIABLES
    undelivered,    \* the number of messages in _undelivered
    flag,           \* the bit _TT_PROC_SIGNALLED of the server's procid
    channel,        \* "on", "failed" when a signal could not be sent, or
                    \* "lost" when the main loop has found it closed
    transit,        \* the bytes sent that have not come to the client's host
    bytes,          \* the bytes the client can read
    call,           \* the RPC of the client under way
    posts,          \* the messages sent so far
    calls           \* the calls without a signal so far

vars == <<undelivered, flag, channel, transit, bytes, call, posts, calls>>

Init ==
    /\ undelivered = 0 /\ flag = 0 /\ channel = "on"
    /\ transit = 0 /\ bytes = 0
    /\ call = "idle"
    /\ posts = 0 /\ calls = 0

-----------------------------------------------------------------------------
(* The server. *)

\* _TT_PROC_FD_CHANNEL_ON.
On == channel = "on"

\* The procid is in active_procs.
Known == channel # "lost"

\* A client without a channel gets nothing: its patterns are gone.
Post ==
    /\ On /\ posts < MaxPosts
    /\ posts' = posts + 1

\* add_message and signal_new_message: a byte is sent unless one has been.
Signal ==
    /\ Post
    /\ undelivered' = undelivered + 1
    /\ flag' = 1
    /\ transit' = IF flag = 1 THEN transit ELSE transit + 1
    /\ UNCHANGED <<channel, bytes, call, calls>>

\* The byte cannot be sent: the procid is deactivated, the flag stays.
SignalFails ==
    /\ Lossy /\ flag = 0
    /\ Post
    /\ undelivered' = 0
    /\ flag' = 1
    /\ channel' = "failed"
    /\ UNCHANGED <<transit, bytes, call, calls>>

\* The main loop finds the channel lost, and forgets the procid as well.
Hangup ==
    /\ Lossy /\ On
    /\ undelivered' = 0
    /\ channel' = "lost"
    /\ UNCHANGED <<flag, transit, bytes, call, posts, calls>>

\* Faulty: the signal is kept when the last message has been taken.
LastKept(n) == FALSE

\* The message taken is the last one, or there was none.
Last(n) == n <= 1

\* The client is known, and there is a message for it.
HasMessage == Known /\ undelivered > 0

\* _tt_rpc_next_message and next_message.
ServeNext ==
    /\ call = "sent"
    /\ LET last == Last(undelivered)
       IN /\ undelivered' = IF HasMessage THEN undelivered - 1 ELSE undelivered
          /\ call' = IF ~HasMessage THEN "empty" ELSE IF flag = 1 /\ last THEN "last" ELSE "more"
          /\ flag' = IF Known /\ last THEN 0 ELSE flag
    /\ UNCHANGED <<channel, transit, bytes, posts, calls>>

-----------------------------------------------------------------------------
(* The network and the client. *)

\* A byte comes to the client's host, before or after an answer sent with it.
Arrive ==
    /\ On /\ transit > 0
    /\ transit' = transit - 1 /\ bytes' = bytes + 1
    /\ UNCHANGED <<undelivered, flag, channel, call, posts, calls>>

\* A channel that is lost reads as ended, for ever.
Readable == bytes > 0 \/ ~On

\* The client's select has found the channel readable: tt_message_receive.
Look ==
    /\ call = "idle" /\ Readable
    /\ call' = "sent"
    /\ UNCHANGED <<undelivered, flag, channel, transit, bytes, posts, calls>>

LookUnprompted ==
    /\ call = "idle" /\ calls < Unprompted
    /\ call' = "sent" /\ calls' = calls + 1
    /\ UNCHANGED <<undelivered, flag, channel, transit, bytes, posts>>

\* Faulty: the client reads all there is.
Drained == 0

\* clear_signal reads one byte if one is there, and none from a channel that is
\* lost.
OneLess == IF On /\ bytes > 0 THEN bytes - 1 ELSE bytes

\* next_message: the signal is cleared only if there is a message.
Finish ==
    /\ call \in Reply
    /\ bytes' = IF call = "last" THEN OneLess ELSE bytes
    /\ call' = "idle"
    /\ UNCHANGED <<undelivered, flag, channel, transit, posts, calls>>

-----------------------------------------------------------------------------

Server == Signal \/ SignalFails \/ Hangup \/ ServeNext
Client == Look \/ LookUnprompted \/ Finish

Next == Server \/ Arrive \/ Client

\* The server serves the RPCs; a byte sent arrives, unless the channel is lost;
\* the client looks when it is signalled.
Fairness ==
    /\ WF_vars(ServeNext) /\ WF_vars(Arrive)
    /\ WF_vars(Look) /\ WF_vars(Finish)

Spec == Init /\ [][Next]_vars /\ Fairness

-----------------------------------------------------------------------------
(* Properties. *)

TypeOK ==
    /\ undelivered \in Nat
    /\ flag \in {0, 1}
    /\ channel \in {"on", "failed", "lost"}
    /\ transit \in Nat /\ bytes \in Nat
    /\ call \in Rpc
    /\ posts \in Nat /\ calls \in Nat

\* The client is about to read a byte.
Clearing == call = "last"

\* The bytes the server has sent and the client has not read.
Sent == transit + bytes

\* While there are messages, a byte has been sent that no answer under way
\* tells the client to read: however the two cross, no wake-up is lost.
Awake ==
    On /\ undelivered > 0 => Sent > (IF Clearing THEN 1 ELSE 0)

\* Between two calls there is one byte if there are messages, and none if there
\* are not, but for those left over: an answer to a call made without a signal
\* may overtake the byte that it tells the client to read.  No other call
\* leaves a byte, and none leaves two.
Quiet ==
    On /\ call = "idle" =>
        LET due == IF undelivered > 0 THEN 1 ELSE 0 IN Sent \in due .. due + calls

\* What TtSession assumes of signals.
Bell == INSTANCE TtBell WITH
            unread <- undelivered,
            signalled <- flag = 1 /\ On,
            connected <- On

ImplementsBell == Bell!BSpec

\* In the end a client whose channel works has read every message, and only a
\* byte that was left over keeps it looking.
Settles == <>[] (On => undelivered = 0 /\ (call = "idle" \/ bytes > 0))

\* In the end it sleeps: not so when a byte is left over, for an answer without
\* a message clears nothing.
Sleeps == <>[] (On => call = "idle")

\* A client that the server does not know does not ask for ever: the server
\* tells it to clear the signal in case of any error, that it may not loop.
WontLoop == <>[] (~Known => call = "idle")

=============================================================================
