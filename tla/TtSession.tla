----------------------------- MODULE TtSession -----------------------------
(***************************************************************************)
(* The message server of a ToolTalk session (ttsession): the requests sent *)
(* through one server, the procids of its clients, and the patterns they   *)
(* register.  Sources: slib/mp_s_message.C, slib/mp_s_procid.C,            *)
(* slib/mp_s_session.C, slib/mp_s_mp.C, slib/mp_rpc_implement.C and        *)
(* slib/mp_rpc_server.C under src/cde/lib/tt.                              *)
(*                                                                         *)
(* The server is one thread.  It serves one RPC, or the loss of one        *)
(* client's signalling channel, to completion before it looks at the next; *)
(* but serving is deeply recursive: delivering a message signals a client, *)
(* a signal that fails deactivates that client on the spot, this fails the *)
(* messages it held, and every failure is delivered in turn.  Clients run  *)
(* and die meanwhile.  The variable stack is therefore the server's call   *)
(* stack: its head is the code that runs next.                             *)
(***************************************************************************)
EXTENDS Naturals, Sequences, SequencesExt

CONSTANTS
    Proc,           \* procids of the clients, opened and with a channel
    NoProc,         \* the null procid
    Msg,            \* the requests the clients may send
    Sender,         \* [Msg -> Proc], who sends each
    Queueable,      \* the requests of disposition TT_QUEUE
    BadAddress,     \* the requests naming a ptype the server does not know
    Plans,          \* what each client does once: the clients choose a plan
    Mortal,         \* the clients that may die at any moment
    MaxPending,     \* bound: the RPCs of a client that wait to be served
    OplessToo       \* patterns with and without ops exist: lists are copied

Category == {"HANDLE", "OBSERVE"}
Pattern  == Proc \X Category
Final    == {"FAILED", "HANDLED"}
State    == {"CREATED", "SENT", "QUEUED"} \cup Final

\* What a client may ask of the server.
Call == [call : {"register", "unregister"}, category : Category]
          \cup [call : {"send"}, msg : Msg]
          \cup [call : {"update"}, msg : Msg, to : {"REJECTED"} \cup Final]
          \cup [call : {"join", "close", "next"}]

\* A queue entry is the message itself, whose state is read when it is
\* retrieved (seen = "LIVE"), or an observer's copy with the state it had.
Entry == [msg : Msg, seen : State \cup {"LIVE"}]
Live(m) == [msg |-> m, seen |-> "LIVE"]

\* The frames of the call stack, one per function that may be suspended.
Frame == [op : {"deliver"}, msg : Msg, observers : BOOLEAN]
           \cup [op : {"match"}, msg : Msg, observers : BOOLEAN,
                 todo : SUBSET Pattern, at : SUBSET Pattern,
                 best : Proc \cup {NoProc}]
           \cup [op : {"change"}, msg : Msg, to : {"QUEUED", "REJECTED"} \cup Final]
           \cup [op : {"report", "requeue"}, msg : Msg]
           \cup [op : {"return"}, val : BOOLEAN]
           \cup [op : {"deactivate", "unread", "unanswered", "forget"}, proc : Proc]
           \cup [op : {"orphaned"}, proc : Proc, msg : Msg, wasRead : BOOLEAN]
           \cup [op : {"redeliver"}, todo : SUBSET Msg]

ASSUME SessionAssumption ==
    /\ NoProc \notin Proc
    /\ Sender \in [Msg -> Proc]
    /\ Queueable \subseteq Msg
    /\ BadAddress \subseteq Msg
    /\ Plans \subseteq [Proc -> SUBSET Call]
    /\ Mortal \subseteq Proc
    /\ MaxPending \in Nat \ {0}
    /\ OplessToo \in BOOLEAN

VARIABLES
    alive,          \* the clients whose process runs
    plan,           \* what each client has still to do
    rpc,            \* the RPCs of each client not served yet, oldest first
    known,          \* active_procs, the procid objects that can be looked up
    watched,        \* _active_fds: channels whose loss the main loop sees
    active,         \* _TT_PROC_ACTIVE, a flag per procid
    channel,        \* _TT_PROC_FD_CHANNEL_ON, and a socket to signal through
    signalled,      \* _TT_PROC_SIGNALLED: a byte was sent and not taken back
    registered,     \* opful_pats and opless_pats: the registered patterns
    undelivered,    \* _undelivered, a list per procid
    delivered,      \* _delivered, the requests each procid owes an update for
    state, handler, tried,      \* _state, _handler and _tried of a message
    reported,       \* _state_reported: the states a message has gone through
    queued,         \* _queued_messages of the session
    stack, ret,     \* call stack of the server, result of the last deliver
    heap,           \* "corrupt" once a freed list element has been used
    told,           \* the states each request's sender has been shown (history)
    given           \* the processes each request has been given to (history)

procVars   == <<known, watched, active, channel, signalled, undelivered, delivered>>
msgVars    == <<state, handler, tried, reported, given>>
clientVars == <<alive, plan, rpc>>
vars == <<alive, plan, rpc, known, watched, active, channel, signalled,
          registered, undelivered, delivered, state, handler, tried, reported,
          queued, stack, ret, heap, told, given>>

Init ==
    /\ alive = Proc
    /\ plan \in Plans
    /\ rpc = [p \in Proc |-> << >>]
    /\ known = Proc
    /\ watched = Proc
    /\ active = [p \in Proc |-> TRUE]
    /\ channel = [p \in Proc |-> TRUE]
    /\ signalled = [p \in Proc |-> FALSE]
    /\ registered = {}
    /\ undelivered = [p \in Proc |-> << >>]
    /\ delivered = [p \in Proc |-> {}]
    /\ state = [m \in Msg |-> "CREATED"]
    /\ handler = [m \in Msg |-> NoProc]
    /\ tried = [m \in Msg |-> {}]
    /\ reported = [m \in Msg |-> {}]
    /\ queued = {}
    /\ stack = << >>
    /\ ret = TRUE
    /\ heap = "intact"
    /\ told = [m \in Msg |-> << >>]
    /\ given = [m \in Msg |-> {}]

-----------------------------------------------------------------------------
(* Frames of the call stack. *)

Deliver(m, obs)  == [op |-> "deliver", msg |-> m, observers |-> obs]
Change(m, s)     == [op |-> "change", msg |-> m, to |-> s]
Report(m)        == [op |-> "report", msg |-> m]
Requeue(m)       == [op |-> "requeue", msg |-> m]
Return(v)        == [op |-> "return", val |-> v]
Deactivate(p)    == [op |-> "deactivate", proc |-> p]
Unread(p)        == [op |-> "unread", proc |-> p]
Unanswered(p)    == [op |-> "unanswered", proc |-> p]
Orphaned(p, m, r) == [op |-> "orphaned", proc |-> p, msg |-> m, wasRead |-> r]
Forget(p)        == [op |-> "forget", proc |-> p]
Redeliver(ms)    == [op |-> "redeliver", todo |-> ms]

Idle == stack = << >> /\ heap = "intact"

\* The server is about to run a frame of this kind.
Running(op) == heap = "intact" /\ stack # << >> /\ Head(stack).op = op

\* Faulty: the final states are forgotten.
Addressed(p, m) == handler[m] = p

\* _Tt_procid::processing: p handles m, and m is not final.
Processing(p, m) == state[m] \notin Final /\ handler[m] = p

-----------------------------------------------------------------------------
(* Clients.                                                                *)

\* A client waits for the reply of an RPC, unless it sends or updates: with
\* TT_RPC_DISPATCH_2 and TT_RPC_UPDATE_MSG_2 it goes on at once.
OneWay == {"send", "update"}

Ask(p, call) ==
    /\ p \in alive
    /\ Len(rpc[p]) < MaxPending
    /\ \A i \in DOMAIN rpc[p] : rpc[p][i].call \in OneWay
    /\ rpc' = [rpc EXCEPT ![p] = Append(@, call)]
    /\ UNCHANGED <<alive, procVars, registered, msgVars, queued, stack, ret, heap, told>>

\* A client does something it has planned; it sends only its own requests.
AskPlanned(p) ==
    \E call \in plan[p] :
        /\ call.call = "send" => Sender[call.msg] = p /\ state[call.msg] = "CREATED"
        /\ call.call = "unregister" => <<p, call.category>> \in registered
        /\ Ask(p, call)
        /\ plan' = [plan EXCEPT ![p] = @ \ {call}]

\* tt_message_receive, called when the signalling channel is readable.
AskNext(p) ==
    /\ signalled[p]
    /\ Ask(p, [call |-> "next"])
    /\ UNCHANGED plan

\* tt_message_reply, tt_message_fail or tt_message_reject, once.
AskUpdate(p) ==
    /\ \E m \in delivered[p], s \in {"REJECTED"} \cup Final :
          /\ \A i \in DOMAIN rpc[p] : rpc[p][i].call = "update" => rpc[p][i].msg # m
          /\ Ask(p, [call |-> "update", msg |-> m, to |-> s])
    /\ UNCHANGED plan

\* The process dies; what it has sent is still in the server's socket.
Die(p) ==
    /\ p \in Mortal \cap alive
    /\ alive' = alive \ {p}
    /\ UNCHANGED <<plan, rpc, procVars, registered, msgVars, queued, stack, ret, heap, told>>

Client(p) == AskPlanned(p) \/ AskNext(p) \/ AskUpdate(p) \/ Die(p)

-----------------------------------------------------------------------------
(* Delivery.                                                               *)

\* add_message tests ! _flags & (1 << _TT_PROC_ACTIVE): no flag at all is set.
Gone(p) == ~ (active[p] \/ channel[p] \/ signalled[p])

\* A message already in the list moves to its end; this deletes the element
\* on which the cursor of p's deactivation stands when that is the message.
MoveToEnd(p, e, ok) ==
    /\ ~Gone(p) /\ e.seen = "LIVE"
    /\ \E i \in DOMAIN undelivered[p] :
          /\ undelivered[p][i] = e
          /\ undelivered' = [undelivered EXCEPT ![p] = Append(RemoveAt(@, i), e)]
    /\ heap' = IF Orphaned(p, e.msg, FALSE) \in ToSet(stack) THEN "corrupt" ELSE heap
    /\ stack' = ok
    /\ UNCHANGED signalled

\* signal_new_message: a byte is sent unless one is in the channel; to a dead
\* process this may still succeed.  A channel that fails is given up at once.
Signal(p, ok, bad) ==
    \/ /\ channel[p]
       /\ stack' = ok
       /\ signalled' = [signalled EXCEPT ![p] = TRUE]
    \/ /\ channel[p] /\ ~signalled[p] /\ p \notin alive
       /\ stack' = <<Deactivate(p)>> \o bad
       /\ signalled' = [signalled EXCEPT ![p] = TRUE]
    \/ /\ ~channel[p]
       /\ stack' = <<Deactivate(p)>> \o bad
       /\ UNCHANGED signalled

AppendAndSignal(p, e, ok, bad) ==
    /\ ~Gone(p)
    /\ e.seen = "LIVE" => e \notin ToSet(undelivered[p])
    /\ undelivered' = [undelivered EXCEPT ![p] = Append(@, e)]
    /\ Signal(p, ok, bad)
    /\ UNCHANGED heap

\* _Tt_s_procid::add_message: ok and bad are the call stacks the server goes
\* on with when it returns 1 and 0.
AddMessage(p, e, ok, bad) ==
    \/ Gone(p) /\ stack' = bad /\ UNCHANGED <<undelivered, signalled, heap>>
    \/ MoveToEnd(p, e, ok)
    \/ AppendAndSignal(p, e, ok, bad)

\* _Tt_s_message::deliver starts walking the patterns.
RunDeliver ==
    /\ Running("deliver")
    /\ LET f == Head(stack) IN
       stack' = <<[op |-> "match", msg |-> f.msg, observers |-> f.observers,
                   todo |-> registered, at |-> {}, best |-> NoProc]>> \o Tail(stack)
    /\ UNCHANGED <<clientVars, procVars, registered, msgVars, queued, ret, heap, told>>

\* match_patterns walks the table's own list, out of which patterns may be
\* deleted meanwhile, unless deliver had to make a list out of two.
Left(f)  == IF OplessToo THEN f.todo ELSE f.todo \cap registered
Hosed(f) == ~OplessToo /\ ~ (f.at \subseteq registered)

\* The walk goes on at the next pattern.
Visit(f, pat) == [f EXCEPT !.todo = @ \ {pat}, !.at = {pat}]

\* The element under the cursor has been deleted by another cursor.
MatchHosed ==
    /\ Running("match") /\ Hosed(Head(stack))
    /\ heap' = "corrupt"
    /\ UNCHANGED <<clientVars, procVars, registered, msgVars, queued, stack, ret, told>>

\* The walk ends at the first pattern whose registrant is not active.
MatchInactive ==
    /\ Running("match") /\ ~Hosed(Head(stack))
    /\ \E pat \in Left(Head(stack)) :
          /\ ~active[pat[1]]
          /\ stack' = <<[Head(stack) EXCEPT !.todo = {}, !.at = {}]>> \o Tail(stack)
    /\ UNCHANGED <<clientVars, procVars, registered, msgVars, queued, ret, heap, told>>

\* Faulty: the list of procids already tried is not consulted.
Willing(m, p) == state[m] = "SENT"

\* A handler is sought, and p has not been tried yet.
Eligible(m, p) == state[m] = "SENT" /\ p \notin tried[m]

\* A handler pattern of a procid not tried yet may become the best one; the
\* scores are abstracted to a choice, but the first match is always taken.
MatchHandler ==
    /\ Running("match") /\ ~Hosed(Head(stack))
    /\ LET f == Head(stack) IN
       \E pat \in Left(f) :
          /\ pat[2] = "HANDLE" /\ active[pat[1]]
          /\ \E b \in {f.best, pat[1]} :
                /\ ~Eligible(f.msg, pat[1]) => b = f.best
                /\ Eligible(f.msg, pat[1]) /\ f.best = NoProc => b = pat[1]
                /\ stack' = <<[Visit(f, pat) EXCEPT !.best = b]>> \o Tail(stack)
    /\ UNCHANGED <<clientVars, procVars, registered, msgVars, queued, ret, heap, told>>

\* An observer pattern gets a copy of the message as it is now.
MatchObserver ==
    /\ Running("match") /\ ~Hosed(Head(stack))
    /\ LET f == Head(stack) IN
       \E pat \in Left(f) :
          LET next == <<Visit(f, pat)>> \o Tail(stack) IN
          /\ pat[2] = "OBSERVE" /\ active[pat[1]]
          /\ IF f.observers
             THEN AddMessage(pat[1], [msg |-> f.msg, seen |-> state[f.msg]], next, next)
             ELSE stack' = next /\ UNCHANGED <<undelivered, signalled, heap>>
    /\ UNCHANGED <<clientVars, known, watched, active, channel, delivered,
                   registered, msgVars, queued, ret, told>>

MatchEnded == Running("match") /\ ~Hosed(Head(stack)) /\ Left(Head(stack)) = {}

\* A handler was found: the message is given to it, or else matched again.
\* (It is matched in vain: the handler has by then been deactivated with the
\* message in its list, and the message has failed.)
GiveToHandler ==
    /\ MatchEnded /\ Head(stack).best # NoProc
    /\ LET f == Head(stack) IN
       /\ handler' = [handler EXCEPT ![f.msg] = f.best]
       /\ state' = [state EXCEPT ![f.msg] = "SENT"]
       /\ given' = [given EXCEPT ![f.msg] = @ \cup ({f.best} \cap {p \in Proc : active[p]})]
       /\ AddMessage(f.best, Live(f.msg), <<Return(TRUE)>> \o Tail(stack),
                     <<Deliver(f.msg, FALSE)>> \o Tail(stack))
    /\ UNCHANGED <<clientVars, known, watched, active, channel, delivered,
                   registered, tried, reported, queued, ret, told>>

\* The disposition of a request without a handler, honoured once.
Disposition(m) ==
    IF m \in Queueable /\ "QUEUED" \notin reported[m] THEN "QUEUED" ELSE "FAILED"

\* handle_no_recipients: queue the message once if it asks for that, else
\* fail it.  There is nothing to do for a message in another state.
NoHandler ==
    /\ MatchEnded /\ Head(stack).best = NoProc
    /\ LET m == Head(stack).msg
       IN stack' = IF state[m] = "SENT"
                   THEN <<Change(m, Disposition(m)), Return(FALSE)>> \o Tail(stack)
                   ELSE <<Return(TRUE)>> \o Tail(stack)
    /\ UNCHANGED <<clientVars, procVars, registered, msgVars, queued, ret, heap, told>>

RunReturn ==
    /\ Running("return")
    /\ ret' = Head(stack).val
    /\ stack' = Tail(stack)
    /\ UNCHANGED <<clientVars, procVars, registered, msgVars, queued, heap, told>>

-----------------------------------------------------------------------------
(* State changes of a message: _Tt_s_message::change_state.                *)

\* A state gone through before is not entered again.
ChangeRepeated ==
    /\ Running("change") /\ Head(stack).to \in reported[Head(stack).msg]
    /\ stack' = Tail(stack)
    /\ UNCHANGED <<clientVars, procVars, registered, msgVars, queued, ret, heap, told>>

\* Faulty: the sender is not told.
AnnounceToObservers(m) == <<Deliver(m, TRUE)>>

\* A final state is shown to the observers and then to the sender.
Announce(m) == <<Deliver(m, TRUE), Report(m)>>

ChangeFinal ==
    /\ Running("change") /\ Head(stack).to \in Final
    /\ LET m == Head(stack).msg
           s == Head(stack).to
       IN /\ s \notin reported[m]
          /\ reported' = [reported EXCEPT ![m] = @ \cup {s}]
          /\ state' = [state EXCEPT ![m] = s]
          /\ stack' = Announce(m) \o Tail(stack)
    /\ UNCHANGED <<clientVars, procVars, registered, handler, tried, given, queued, ret, heap, told>>

\* queued: the message waits in the session for a handler to join it.
ChangeQueued ==
    /\ Running("change") /\ Head(stack).to = "QUEUED"
    /\ LET m == Head(stack).msg
       IN /\ "QUEUED" \notin reported[m]
          /\ reported' = [reported EXCEPT ![m] = @ \cup {"QUEUED"}]
          /\ state' = [state EXCEPT ![m] = "QUEUED"]
          /\ queued' = queued \cup {m}
          /\ stack' = <<Report(m), Deliver(m, TRUE)>> \o Tail(stack)
    /\ UNCHANGED <<clientVars, procVars, registered, handler, tried, given, ret, heap, told>>

\* Faulty: the observers are shown the request each time it is rejected.
RematchForAll(m) == Deliver(m, TRUE)

Rematch(m) == Deliver(m, FALSE)

\* rejected: the handler is not to be tried again, and another one is sought
\* without showing the message to the observers a second time.
ChangeRejected ==
    /\ Running("change") /\ Head(stack).to = "REJECTED"
    /\ LET m == Head(stack).msg
       IN /\ tried' = [tried EXCEPT ![m] = @ \cup ({handler[m]} \ {NoProc})]
          /\ handler' = [handler EXCEPT ![m] = NoProc]
          /\ state' = [state EXCEPT ![m] = "SENT"]
          /\ stack' = <<Rematch(m)>> \o Tail(stack)
    /\ UNCHANGED <<clientVars, procVars, registered, reported, given, queued, ret, heap, told>>

\* report_state_change: the sender finds its own message in its list.
RunReport ==
    /\ Running("report")
    /\ LET m == Head(stack).msg
       IN AddMessage(Sender[m], Live(m), Tail(stack), Tail(stack))
    /\ UNCHANGED <<clientVars, known, watched, active, channel, delivered,
                   registered, msgVars, queued, ret, told>>

-----------------------------------------------------------------------------
(* A procid is given up: _Tt_s_procid::deactivate.                         *)

RunDeactivate ==
    /\ Running("deactivate")
    /\ LET p == Head(stack).proc IN
       IF active[p]
       THEN /\ active' = [active EXCEPT ![p] = FALSE]
            /\ channel' = [channel EXCEPT ![p] = FALSE]
            /\ watched' = watched \ {p}
            /\ stack' = <<Unread(p), Unanswered(p), Forget(p)>> \o Tail(stack)
       ELSE /\ stack' = Tail(stack)
            /\ UNCHANGED <<active, channel, watched>>
    /\ UNCHANGED <<clientVars, known, signalled, undelivered, delivered,
                   registered, msgVars, queued, ret, heap, told>>

\* Faulty: what was not read is dropped.
DropUnread(p, e) == << >>

FailUnread(p, e) ==
    IF e.seen = "LIVE" /\ Processing(p, e.msg) THEN <<Change(e.msg, "FAILED")>> ELSE << >>

\* The messages p has not read: those it was to handle fail, all are removed.
RunUnread ==
    /\ Running("unread")
    /\ LET p == Head(stack).proc
           e == Head(undelivered[p])
       IN \/ /\ undelivered[p] = << >>
             /\ stack' = Tail(stack)
          \/ /\ undelivered[p] # << >>
             /\ stack' = FailUnread(p, e) \o <<Orphaned(p, e.msg, FALSE)>> \o stack
    /\ UNCHANGED <<clientVars, procVars, registered, msgVars, queued, ret, heap, told>>

\* Faulty: what was read and not answered is dropped.
DropUnanswered(p, m) == <<Orphaned(p, m, TRUE)>>

FailUnanswered(p, m) == <<Change(m, "FAILED"), Orphaned(p, m, TRUE)>>

\* The requests p has read and not answered: they fail.
RunUnanswered ==
    /\ Running("unanswered")
    /\ LET p == Head(stack).proc
       IN \/ /\ delivered[p] = {}
             /\ stack' = Tail(stack)
          \/ \E m \in delivered[p] :
                stack' = FailUnanswered(p, m) \o stack
    /\ UNCHANGED <<clientVars, procVars, registered, msgVars, queued, ret, heap, told>>

\* Faulty: the request stays among those p owes an update for.
KeepDelivered(p, m) == delivered

\* p no longer owes an update for m.
Settle(p, m) == [delivered EXCEPT ![p] = @ \ {m}]

\* The cursor removes the message; the message forgets that p was tried.
RunOrphaned ==
    /\ Running("orphaned")
    /\ LET p == Head(stack).proc
           m == Head(stack).msg
           r == Head(stack).wasRead
           live == r \/ Head(undelivered[p]).seen = "LIVE"
       IN /\ tried' = IF live THEN [tried EXCEPT ![m] = @ \ {p}] ELSE tried
          /\ delivered' = IF r THEN Settle(p, m) ELSE delivered
          /\ undelivered' = IF r THEN undelivered
                                 ELSE [undelivered EXCEPT ![p] = SubSeq(@, 2, Len(@))]
    /\ stack' = Tail(stack)
    /\ UNCHANGED <<clientVars, known, watched, active, channel, signalled,
                   registered, state, handler, reported, given, queued, ret, heap, told>>

\* The patterns of p are deleted last.
RunForget ==
    /\ Running("forget")
    /\ registered' = {pat \in registered : pat[1] # Head(stack).proc}
    /\ stack' = Tail(stack)
    /\ UNCHANGED <<clientVars, procVars, msgVars, queued, ret, heap, told>>

-----------------------------------------------------------------------------
(* The session's queue: _Tt_s_session::pattern_added.                      *)

RunRedeliver ==
    /\ Running("redeliver")
    /\ LET todo == Head(stack).todo
       IN \/ /\ todo = {}
             /\ stack' = Tail(stack)
             /\ UNCHANGED state
          \/ \E m \in todo :
                /\ state' = [state EXCEPT ![m] = "SENT"]
                /\ stack' = <<Deliver(m, TRUE), Requeue(m), Redeliver(todo \ {m})>>
                              \o Tail(stack)
    /\ UNCHANGED <<clientVars, procVars, registered, handler, tried, reported,
                   given, queued, ret, heap, told>>

Dequeue(m) == queued \ {m}

\* Faulty: what could not be delivered keeps the state its failure gave it.
KeepState(m) == state

RevertToQueued(m) == [state EXCEPT ![m] = "QUEUED"]

\* Delivered, the message leaves the queue; otherwise it is QUEUED again.
RunRequeue ==
    /\ Running("requeue")
    /\ LET m == Head(stack).msg
       IN IF ret
          THEN queued' = Dequeue(m) /\ UNCHANGED state
          ELSE state' = RevertToQueued(m) /\ UNCHANGED queued
    /\ stack' = Tail(stack)
    /\ UNCHANGED <<clientVars, procVars, registered, handler, tried, reported, given,
                   ret, heap, told>>

-----------------------------------------------------------------------------
(* The main loop: one RPC, or one lost channel, at a time.                 *)

\* The RPC of p is taken off its socket.
Serve(p, name) ==
    /\ Idle
    /\ rpc[p] # << >> /\ Head(rpc[p]).call = name
    /\ rpc' = [rpc EXCEPT ![p] = Tail(@)]

\* _tt_rpc_add_pattern: find_proc makes a procid if p has none, and p is not
\* asked to be active: activate does nothing without a channel.
ServeRegister(p) ==
    /\ Serve(p, "register")
    /\ known' = known \cup {p}
    /\ registered' = registered \cup {<<p, Head(rpc[p]).category>>}
    /\ UNCHANGED <<alive, plan, watched, active, channel, signalled, undelivered,
                   delivered, msgVars, queued, stack, ret, heap, told>>

ServeUnregister(p) ==
    /\ Serve(p, "unregister")
    /\ known' = known \cup {p}
    /\ registered' = registered \ {<<p, Head(rpc[p]).category>>}
    /\ UNCHANGED <<alive, plan, watched, active, channel, signalled, undelivered,
                   delivered, msgVars, queued, stack, ret, heap, told>>

\* s_join: only an active procid has the queued messages delivered again.
ServeJoin(p) ==
    /\ Serve(p, "join")
    /\ known' = known \cup {p}
    /\ stack' = IF active[p] THEN <<Redeliver(queued)>> ELSE << >>
    /\ UNCHANGED <<alive, plan, watched, active, channel, signalled, undelivered,
                   delivered, registered, msgVars, queued, ret, heap, told>>

\* _tt_rpc_dispatch_2: dispatch, and deliver even if dispatch has failed.
ServeSend(p) ==
    /\ Serve(p, "send")
    /\ LET m == Head(rpc[p]).msg
       IN /\ state' = [state EXCEPT ![m] = "SENT"]
          /\ stack' = IF m \in BadAddress
                      THEN <<Change(m, "FAILED"), Deliver(m, TRUE)>>
                      ELSE <<Deliver(m, TRUE)>>
    /\ known' = known \cup {p}
    /\ UNCHANGED <<alive, plan, watched, active, channel, signalled, undelivered,
                   delivered, registered, handler, tried, reported, given, queued, ret, heap, told>>

\* Faulty: the signal is taken back with every message.
TakeSignalBack(list) == FALSE

\* The byte stays in the channel while other messages are unread.
MoreToRead(list) == Len(list) > 1

\* next_message: a request p is to handle is remembered as delivered, and the
\* signal is taken back with the last message.
ServeNext(p) ==
    /\ Serve(p, "next")
    /\ p \in known
    /\ LET list == undelivered[p]
           live == list # << >> /\ Head(list).seen = "LIVE"
           m    == Head(list).msg
       IN /\ undelivered' = [undelivered EXCEPT ![p] = IF list # << >> THEN Tail(@) ELSE @]
          /\ delivered' = IF live /\ Processing(p, m)
                          THEN [delivered EXCEPT ![p] = @ \cup {m}] ELSE delivered
          /\ told' = IF live /\ ~Processing(p, m) /\ Sender[m] = p
                     THEN [told EXCEPT ![m] = Append(@, state[m])] ELSE told
          /\ signalled' = [signalled EXCEPT ![p] = @ /\ MoreToRead(list)]
    /\ UNCHANGED <<alive, plan, known, watched, active, channel, registered,
                   msgVars, queued, stack, ret, heap>>

\* _tt_update_msg and update_message: only a request p owes is updated.
ServeUpdate(p) ==
    /\ Serve(p, "update")
    /\ LET m == Head(rpc[p]).msg
           owed == p \in known /\ m \in delivered[p]
       IN /\ delivered' = IF owed THEN Settle(p, m) ELSE delivered
          /\ stack' = IF owed THEN <<Change(m, Head(rpc[p]).to)>> ELSE << >>
    /\ UNCHANGED <<alive, plan, known, watched, active, channel, signalled, undelivered,
                   registered, msgVars, queued, ret, heap, told>>

\* tt_close: s_remove_procid deactivates p and drops it.
ServeClose(p) ==
    /\ Serve(p, "close")
    /\ known' = known \ {p}
    /\ alive' = alive \ {p}
    /\ stack' = IF p \in known THEN <<Deactivate(p)>> ELSE << >>
    /\ UNCHANGED <<plan, watched, active, channel, signalled, undelivered,
                   delivered, registered, msgVars, queued, ret, heap, told>>

ServeRpc(p) == \/ ServeRegister(p) \/ ServeUnregister(p) \/ ServeJoin(p)
               \/ ServeSend(p) \/ ServeNext(p) \/ ServeUpdate(p) \/ ServeClose(p)

\* The main loop finds the channel of p lost.  run_until has served the RPCs
\* that were readable in the same pass before.
Hangup(p) ==
    /\ Idle
    /\ p \in watched \ alive
    /\ rpc[p] = << >>
    /\ known' = known \ {p}
    /\ watched' = watched \ {p}
    /\ stack' = <<Deactivate(p)>>
    /\ UNCHANGED <<clientVars, active, channel, signalled, undelivered, delivered,
                   registered, msgVars, queued, ret, heap, told>>

-----------------------------------------------------------------------------

\* The server runs its topmost frame.
Run == \/ RunDeliver \/ MatchHosed \/ MatchInactive \/ MatchHandler \/ MatchObserver
       \/ GiveToHandler \/ NoHandler \/ RunReturn
       \/ ChangeRepeated \/ ChangeFinal \/ ChangeQueued \/ ChangeRejected \/ RunReport
       \/ RunDeactivate \/ RunUnread \/ RunUnanswered \/ RunOrphaned \/ RunForget
       \/ RunRedeliver \/ RunRequeue

Next == Run \/ \E p \in Proc : Client(p) \/ ServeRpc(p) \/ Hangup(p)

\* The server always goes on, and its select loop serves every ready socket.
\* Nothing is assumed of the clients.
Fairness == /\ WF_vars(Run)
            /\ \A p \in Proc : WF_vars(ServeRpc(p)) /\ WF_vars(Hangup(p))

Spec == Init /\ [][Next]_vars /\ Fairness

-----------------------------------------------------------------------------
(* Properties. *)

\* Every variable keeps its type; in particular the call stack holds frames.
TypeOK ==
    /\ alive \subseteq Proc /\ known \subseteq Proc /\ watched \subseteq Proc
    /\ plan \in [Proc -> SUBSET Call]
    /\ rpc \in [Proc -> Seq(Call)]
    /\ active \in [Proc -> BOOLEAN]
    /\ channel \in [Proc -> BOOLEAN]
    /\ signalled \in [Proc -> BOOLEAN]
    /\ registered \subseteq Pattern
    /\ undelivered \in [Proc -> Seq(Entry)]
    /\ delivered \in [Proc -> SUBSET Msg]
    /\ state \in [Msg -> State]
    /\ handler \in [Msg -> Proc \cup {NoProc}]
    /\ tried \in [Msg -> SUBSET Proc]
    /\ reported \in [Msg -> SUBSET State]
    /\ queued \subseteq Msg
    /\ stack \in Seq(Frame)
    /\ ret \in BOOLEAN
    /\ heap \in {"intact", "corrupt"}
    /\ told \in [Msg -> Seq(State)]
    /\ given \in [Msg -> SUBSET Proc]

\* p has been handed m, or will be when it looks, and is to answer it.
Holds(p, m) ==
    /\ active[p]
    /\ \/ m \in delivered[p]
       \/ Live(m) \in ToSet(undelivered[p]) /\ Processing(p, m)

\* Between two RPCs, a request that has been handed to a process and not
\* answered is held by nobody else, is not final, and its process is active:
\* no rejection, crash or redelivery leaves a request with two owners.
OneOwner ==
    Idle => \A m \in Msg, p \in Proc : m \in delivered[p] =>
               /\ active[p] /\ state[m] = "SENT" /\ handler[m] = p
               /\ \A q \in Proc \ {p} : ~Holds(q, m)

\* Between two RPCs, every request under way is held by an active process,
\* and every queued one is in the session's queue: whichever clients died
\* while the server was signalling them, no request is dropped.
NoneLost ==
    Idle => \A m \in Msg :
               /\ state[m] = "SENT" => \E p \in Proc : Holds(p, m)
               /\ state[m] = "QUEUED" => m \in queued

\* Between two RPCs, the sender of a request that has ended has been shown
\* its end exactly once, or will be when it looks, unless it is gone.
SenderTold ==
    Idle => \A m \in Msg :
               LET ends == {i \in DOMAIN told[m] : told[m][i] \in Final}
               IN (state[m] \in Final /\ active[Sender[m]]) =>
                     IF Live(m) \in ToSet(undelivered[Sender[m]])
                     THEN ends = {}
                     ELSE \E i \in ends : ends = {i}

\* An active process with messages to read has a byte in its signalling
\* channel, at every step of the server: a missed one is a message unread
\* until something else is sent.
Wakeup == \A p \in Proc : active[p] /\ undelivered[p] # << >> => channel[p] /\ signalled[p]

\* Copies of one request wait in an observer's list in the order of its life,
\* each state once; BadAddress is left out: see the README.
ObserverOrder ==
    LET Age(s) == IF s = "SENT" THEN 0 ELSE IF s = "QUEUED" THEN 1 ELSE 2 IN
    \A p \in Proc : \A i, j \in DOMAIN undelivered[p] :
       LET x == undelivered[p][i]
           y == undelivered[p][j]
       IN (i < j /\ x.msg = y.msg /\ "LIVE" \notin {x.seen, y.seen}
             /\ x.msg \notin BadAddress) => Age(x.seen) < Age(y.seen)

\* Between two RPCs, the session's queue is made of the queued requests: one
\* that a handler got has left it, one that was offered in vain is back in it.
QueueKept == Idle => queued = {m \in Msg : state[m] = "QUEUED"}

\* A request that has ended stays as it ended.
FinalIsFinal == [][\A m \in Msg : state[m] \in Final => state'[m] = state[m]]_vars

\* The session implements TtRequest: an unanswered request has one holder.
Phase == [m \in Msg |-> CASE state[m] = "CREATED" -> "new"
                          [] state[m] \in Final -> "ended"
                          [] OTHER -> "open"]
Holder == [m \in Msg |-> IF state[m] \notin Final /\ \E p \in Proc : Holds(p, m)
                         THEN CHOOSE p \in Proc : Holds(p, m) ELSE NoProc]
Request == INSTANCE TtRequest WITH phase <- Phase, holder <- Holder
Implements == Request!RSpec

\* However deep the failures nest, the server comes back to its main loop.
ServerReturns == stack # << >> ~> stack = << >>

\* A request that a process has read, and died with, ends or is handed to
\* another (the process may have sent a rejection before it died).
OrphanEnds == \A p \in Proc, m \in Msg :
    p \notin alive /\ m \in delivered[p]
       ~> state[m] \in Final \/ \E q \in Proc \ {p} : Holds(q, m)

\* The list elements under the server's cursors are never freed.
HeapIntact == heap = "intact"

\* A request that waits in the session's queue, and that no process was given,
\* has not gone through FAILED: its sender has not been told that it failed.
QueueWaits == \A m \in queued : given[m] = {} => "FAILED" \notin reported[m]

\* Between two RPCs, the patterns registered are those of active processes.
RegistrantsActive == Idle => \A pat \in registered : active[pat[1]]

=============================================================================
