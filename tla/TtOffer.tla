------------------------------ MODULE TtOffer ------------------------------
(***************************************************************************)
(* An offer (TT_OFFER): a message that ttsession shows to every observer   *)
(* and to one handler, each of which accepts it, rejects it or abstains,   *)
(* and that goes back to its sender, TT_RETURNED, when all of them have.   *)
(* Sources: slib/mp_s_message.C, slib/mp_s_procid.C, lib/mp/mp_procid.C,   *)
(* slib/mp_rpc_implement.C, and for the clients lib/mp/mp_c_procid.C and   *)
(* lib/api/c/api_message.C under src/cde/lib/tt.                           *)
(*                                                                         *)
(* The server is one thread whose calls nest, as in TtSession: stack is    *)
(* its call stack.  Handing the offer out may find a client dead, whose    *)
(* abstention is counted on the spot, inside the walk over the patterns.   *)
(* One offer of session scope and disposition TT_DISCARD is modelled; the  *)
(* list of patterns is taken to be copied before it is walked              *)
(* (TtSession!OplessToo), and static observers are left out.               *)
(***************************************************************************)
EXTENDS Integers, Sequences, FiniteSets, SequencesExt

CONSTANTS
    Proc,           \* procids of the clients, opened and with a channel
    NoProc,         \* the null procid
    Sender,         \* who sends the offer
    Old,            \* the clients of a version before TT_OFFER_RPC_VERSION
    Mortal,         \* the clients that may die at any moment
    Registries,     \* the sets of patterns that may be registered
    Answers,        \* how the clients vote
    MaxPending      \* bound: the RPCs of a client that wait to be served

\* What a pattern asks for: to observe the offer in one state or in any, or
\* to handle it.
Kind    == {"SENT", "RETURNED", "ANY", "HANDLE"}
Pattern == Proc \X Kind
Vote    == {"ACCEPTED", "REJECTED", "ABSTAINED"}
State   == {"CREATED", "SENT", "RETURNED"} \cup Vote

\* A list entry is an observer's copy, in the state it was made in, or the
\* offer itself ("LIVE").
Entry == State \cup {"LIVE"}

Call == [call : {"send", "next", "close"}] \cup [call : {"update"}, to : Vote]

\* The frames of the call stack, one per function that may be suspended.
Frame == [op : {"match"}, observers : BOOLEAN, todo : SUBSET Pattern,
          best : Proc \cup {NoProc}]
           \cup [op : {"ballots", "report"}]
           \cup [op : {"deactivate", "unread", "unanswered", "forget"}, proc : Proc]

ASSUME OfferAssumption ==
    /\ NoProc \notin Proc
    /\ Sender \in Proc \ Old
    /\ Old \subseteq Proc /\ Mortal \subseteq Proc
    /\ Registries \subseteq SUBSET Pattern
    /\ Answers \subseteq Vote
    /\ MaxPending \in Nat \ {0}

VARIABLES
    alive,          \* the clients whose process runs
    asks,           \* the clients that have sent the offer, or closed
    rpc,            \* the RPCs of each client not served yet, oldest first
    hand,           \* _unvoted of each client: none, or voted on 0, 1, 2 times
    active,         \* _TT_PROC_ACTIVE, a flag per procid
    registered,     \* the registered patterns
    undelivered,    \* _undelivered, a list per procid
    delivered,      \* _delivered: what each procid owes a vote for, newest first
    state, handler, \* _state and _handler of the offer
    returned,       \* _state_reported has TT_RETURNED
    yetToVote,      \* _num_recipients_yet_to_vote
    votes,          \* _accepters, _rejecters and _abstainers
    stack,          \* call stack of the server
    asked,          \* the times each client was asked to vote (history)
    miscounted,     \* an abstention was counted too early (history)
    told            \* the states the sender has been shown (history)

clientVars == <<alive, asks, rpc, hand>>
offerVars  == <<state, handler, returned, yetToVote, votes, asked, miscounted>>
vars == <<alive, asks, rpc, hand, active, registered, undelivered, delivered,
          state, handler, returned, yetToVote, votes, stack, asked, miscounted, told>>

Init ==
    /\ alive = Proc /\ asks = {}
    /\ rpc = [p \in Proc |-> << >>]
    /\ hand = [p \in Proc |-> "none"]
    /\ active = [p \in Proc |-> TRUE]
    /\ registered \in Registries
    /\ undelivered = [p \in Proc |-> << >>]
    /\ delivered = [p \in Proc |-> << >>]
    /\ state = "CREATED" /\ handler = NoProc
    /\ returned = FALSE
    /\ yetToVote = 0
    /\ votes = [p \in Proc |-> << >>]
    /\ stack = << >>
    /\ asked = [p \in Proc |-> 0]
    /\ miscounted = FALSE
    /\ told = << >>

-----------------------------------------------------------------------------
(* Frames of the call stack. *)

Deliver(obs)  == [op |-> "match", observers |-> obs, todo |-> registered, best |-> NoProc]
Ballots       == [op |-> "ballots"]
Report        == [op |-> "report"]
Deactivate(p) == [op |-> "deactivate", proc |-> p]
Unread(p)     == [op |-> "unread", proc |-> p]
Unanswered(p) == [op |-> "unanswered", proc |-> p]
Forget(p)     == [op |-> "forget", proc |-> p]

Idle == stack = << >>
Running(op) == stack # << >> /\ Head(stack).op = op

\* The patterns are being walked.
Walking == \E i \in DOMAIN stack : stack[i].op = "match"

-----------------------------------------------------------------------------
(* Clients. *)

\* A client waits for the reply of next and close, not of the others.
OneWay == {"send", "update"}

Ask(p, calls) ==
    /\ p \in alive
    /\ Len(rpc[p]) < MaxPending
    /\ \A i \in DOMAIN rpc[p] : rpc[p][i].call \in OneWay
    /\ rpc' = [rpc EXCEPT ![p] = @ \o calls]
    /\ UNCHANGED <<alive, active, registered, undelivered, delivered, offerVars, stack, told>>

AskSend ==
    /\ Sender \notin asks
    /\ asks' = asks \cup {Sender}
    /\ Ask(Sender, <<[call |-> "send"]>>)
    /\ UNCHANGED hand

\* tt_message_accept, tt_message_reject or tt_message_destroy of an offer the
\* client has read; only a rejection looks whether it has voted before.  Once
\* is enough to vote again.
AskVote(p) ==
    /\ hand[p] \in {"open", "voted"}
    /\ \E v \in Answers :
          /\ v = "REJECTED" => hand[p] = "open"
          /\ Ask(p, <<[call |-> "update", to |-> v]>>)
    /\ hand' = [hand EXCEPT ![p] = IF @ = "open" THEN "voted" ELSE "again"]
    /\ UNCHANGED asks

\* tt_message_receive abstains first from the offer that it gave out last,
\* even if the client has voted on that.
AskNext(p) ==
    /\ undelivered[p] # << >> \/ hand[p] # "none"
    /\ Ask(p, (IF hand[p] # "none" THEN <<[call |-> "update", to |-> "ABSTAINED"]>> ELSE << >>)
                \o <<[call |-> "next"]>>)
    /\ hand' = [hand EXCEPT ![p] = "none"]
    /\ UNCHANGED asks

\* tt_close.
AskClose(p) ==
    /\ p \in Mortal
    /\ Ask(p, <<[call |-> "close"]>>)
    /\ UNCHANGED <<asks, hand>>

Die(p) ==
    /\ p \in Mortal \cap alive
    /\ alive' = alive \ {p}
    /\ UNCHANGED <<asks, rpc, hand, active, registered, undelivered, delivered,
                   offerVars, stack, told>>

-----------------------------------------------------------------------------
(* Votes. *)

\* change_state to a vote, and add_voter: the offer itself takes the state,
\* that of a copy does not matter any more.  The ballots are counted next.
Cast(p, e, v, now) ==
    /\ state' = IF e = "LIVE" THEN v ELSE now
    /\ votes' = [votes EXCEPT ![p] = Append(@, v)]
    /\ yetToVote' = yetToVote - 1
    /\ miscounted' = (miscounted \/ Walking \/ p \in Old)

\* Everybody counted has voted, and the offer has not been returned before.
Complete == yetToVote <= 0 /\ ~returned

\* Faulty: the sender is not told.
AnnounceToObservers == <<Deliver(TRUE), Ballots>>

\* The returned offer is shown to its observers, then to the sender.
Announce == <<Deliver(TRUE), Ballots, Report>>

\* count_ballots.
RunBallots ==
    /\ Running("ballots")
    /\ IF Complete
       THEN /\ state' = "RETURNED"
            /\ returned' = TRUE
            /\ stack' = Announce \o Tail(stack)
       ELSE /\ stack' = Tail(stack)
            /\ UNCHANGED <<state, returned>>
    /\ UNCHANGED <<clientVars, active, registered, undelivered, delivered, handler,
                   yetToVote, votes, asked, miscounted, told>>

\* Faulty: a copy nobody has read is nobody's to vote on.
VotableByHandler(p, e) == e = "LIVE" /\ handler = p /\ state # "RETURNED"

\* _Tt_procid::processing: a copy made before the end is p's to vote on; the
\* offer itself is, if p handles it.
Votable(p, e) == \/ e = "SENT"
                 \/ e = "LIVE" /\ handler = p /\ state # "RETURNED"

-----------------------------------------------------------------------------
(* Delivery: _Tt_s_procid::add_message.  The offer is in state now; ok and   *)
(* bad are the call stacks the server goes on with when it returns 1 and 0.  *)

\* A client that does not know offers abstains at once, uncounted before.
AbstainForOld(p, e, now, ok) ==
    /\ p \in Old
    /\ Cast(p, e, "ABSTAINED", now)
    /\ stack' = <<Ballots>> \o ok
    /\ UNCHANGED <<undelivered, asked>>

\* The offer itself is in the list already: it moves to the end.
MoveToEnd(p, e, now, ok) ==
    /\ p \notin Old /\ e = "LIVE"
    /\ \E i \in DOMAIN undelivered[p] :
          /\ undelivered[p][i] = e
          /\ undelivered' = [undelivered EXCEPT ![p] = Append(RemoveAt(@, i), e)]
    /\ state' = now
    /\ stack' = ok
    /\ UNCHANGED <<yetToVote, votes, asked, miscounted>>

\* Faulty: the recipient is not counted.
NotCounted(p, e) == yetToVote

\* add_eligible_voter counts whoever gets a copy, in whatever state.
Counted(p, e) == yetToVote + 1

\* No byte is sent while others are unread; one sent to a dead process fails
\* sooner or later.
SignalFails(p) == p \notin alive /\ undelivered[p] = << >>

\* The recipient is counted and signalled.  An inactive one still has the flag
\* of the signal that failed: it is counted, and deactivated in vain.
AppendAndSignal(p, e, now, ok, bad) ==
    /\ p \notin Old
    /\ e = "LIVE" => e \notin ToSet(undelivered[p])
    /\ undelivered' = [undelivered EXCEPT ![p] = Append(@, e)]
    /\ yetToVote' = Counted(p, e)
    /\ asked' = IF e = "SENT" \/ (e = "LIVE" /\ now = "SENT")
                THEN [asked EXCEPT ![p] = @ + 1] ELSE asked
    /\ \/ active[p] /\ stack' = ok
       \/ ~active[p] /\ stack' = bad
       \/ active[p] /\ SignalFails(p) /\ stack' = <<Deactivate(p)>> \o bad
    /\ state' = now
    /\ UNCHANGED <<votes, miscounted>>

AddMessage(p, e, now, ok, bad) ==
    \/ AbstainForOld(p, e, now, ok)
    \/ MoveToEnd(p, e, now, ok)
    \/ AppendAndSignal(p, e, now, ok, bad)

\* match_patterns: the walk ends at the first pattern whose registrant is not
\* active.
MatchInactive ==
    /\ Running("match")
    /\ \E pat \in Head(stack).todo :
          /\ ~active[pat[1]]
          /\ stack' = <<[Head(stack) EXCEPT !.todo = {}]>> \o Tail(stack)
    /\ UNCHANGED <<clientVars, active, registered, undelivered, delivered, offerVars, told>>

\* A handler is sought for an offer in TT_SENT; which of several is the best
\* match is abstracted to a choice, but the first is always taken.
MatchHandler ==
    /\ Running("match")
    /\ LET f == Head(stack) IN
       \E pat \in f.todo :
          /\ pat[2] = "HANDLE" /\ active[pat[1]]
          /\ \E b \in {f.best, pat[1]} :
                /\ state # "SENT" => b = f.best
                /\ state = "SENT" /\ f.best = NoProc => b = pat[1]
                /\ stack' = <<[f EXCEPT !.todo = @ \ {pat}, !.best = b]>> \o Tail(stack)
    /\ UNCHANGED <<clientVars, active, registered, undelivered, delivered, offerVars, told>>

\* An observer whose pattern has the offer's present state gets a copy.
MatchObserver ==
    /\ Running("match")
    /\ LET f == Head(stack) IN
       \E pat \in f.todo :
          LET next == <<[f EXCEPT !.todo = @ \ {pat}]>> \o Tail(stack) IN
          /\ pat[2] # "HANDLE" /\ active[pat[1]]
          /\ IF f.observers /\ pat[2] \in {"ANY", state}
             THEN AddMessage(pat[1], state, state, next, next)
             ELSE /\ stack' = next
                  /\ UNCHANGED <<undelivered, state, yetToVote, votes, asked, miscounted>>
    /\ UNCHANGED <<clientVars, active, registered, delivered, handler, returned, told>>

\* The walk has ended: the best handler is given the offer itself, put back
\* in state TT_SENT; if that fails another one is sought.
GiveToHandler ==
    /\ Running("match") /\ Head(stack).todo = {}
    /\ LET p == Head(stack).best IN
       IF p = NoProc
       THEN /\ stack' = Tail(stack)
            /\ UNCHANGED <<undelivered, state, handler, yetToVote, votes, asked, miscounted>>
       ELSE /\ handler' = p
            /\ AddMessage(p, "LIVE", "SENT", Tail(stack), <<Deliver(FALSE)>> \o Tail(stack))
    /\ UNCHANGED <<clientVars, active, registered, delivered, returned, told>>

\* report_state_change: nobody reads the list of an inactive sender any more.
RunReport ==
    /\ Running("report")
    /\ IF active[Sender]
       THEN AddMessage(Sender, "LIVE", state, Tail(stack), Tail(stack))
       ELSE /\ stack' = Tail(stack)
            /\ UNCHANGED <<undelivered, state, yetToVote, votes, asked, miscounted>>
    /\ UNCHANGED <<clientVars, active, registered, delivered, handler, returned, told>>

-----------------------------------------------------------------------------
(* A procid is given up: _Tt_s_procid::deactivate. *)

RunDeactivate ==
    /\ Running("deactivate")
    /\ LET p == Head(stack).proc IN
       IF active[p]
       THEN /\ active' = [active EXCEPT ![p] = FALSE]
            /\ stack' = <<Unread(p), Unanswered(p), Forget(p)>> \o Tail(stack)
       ELSE /\ stack' = Tail(stack)
            /\ UNCHANGED active
    /\ UNCHANGED <<clientVars, registered, undelivered, delivered, offerVars, told>>

\* Faulty: an offer that is given up fails, as a request would.
Failure == "FAILED"

\* The state an offer takes when the client that holds it is given up.
NewState == "ABSTAINED"

\* p abstains from the offers it has not read.
RunUnread ==
    /\ Running("unread")
    /\ LET p == Head(stack).proc
           e == Head(undelivered[p])
       IN IF undelivered[p] = << >>
          THEN /\ stack' = Tail(stack)
               /\ UNCHANGED <<undelivered, state, votes, yetToVote, miscounted>>
          ELSE /\ undelivered' = [undelivered EXCEPT ![p] = Tail(@)]
               /\ IF Votable(p, e)
                  THEN /\ Cast(p, e, NewState, state)
                       /\ stack' = <<Ballots>> \o stack
                  ELSE UNCHANGED <<state, votes, yetToVote, miscounted, stack>>
    /\ UNCHANGED <<clientVars, active, registered, delivered, handler, returned, asked, told>>

\* Faulty: what was read and not voted on is dropped.
Unowed(p) == {}

\* What p owes a vote for.
Owed(p) == ToSet(delivered[p])

\* p abstains from the offers it has read and not voted on.
RunUnanswered ==
    /\ Running("unanswered")
    /\ LET p == Head(stack).proc IN
       IF Owed(p) = {}
       THEN /\ stack' = Tail(stack)
            /\ UNCHANGED <<delivered, state, votes, yetToVote, miscounted>>
       ELSE /\ delivered' = [delivered EXCEPT ![p] = Tail(@)]
            /\ Cast(p, Head(delivered[p]), NewState, state)
            /\ stack' = <<Ballots>> \o stack
    /\ UNCHANGED <<clientVars, active, registered, undelivered, handler, returned, asked, told>>

RunForget ==
    /\ Running("forget")
    /\ registered' = {pat \in registered : pat[1] # Head(stack).proc}
    /\ stack' = Tail(stack)
    /\ UNCHANGED <<clientVars, active, undelivered, delivered, offerVars, told>>

-----------------------------------------------------------------------------
(* The main loop: one RPC, or one lost channel, at a time. *)

Serve(p, name) ==
    /\ Idle
    /\ rpc[p] # << >> /\ Head(rpc[p]).call = name
    /\ rpc' = [rpc EXCEPT ![p] = Tail(@)]

\* _tt_rpc_dispatch_2.
ServeSend(p) ==
    /\ Serve(p, "send")
    /\ state' = "SENT"
    /\ stack' = <<Deliver(TRUE), Ballots>>
    /\ UNCHANGED <<alive, asks, hand, active, registered, undelivered, delivered, handler,
                   returned, yetToVote, votes, asked, miscounted, told>>

\* Faulty: a client that has an offer to vote on is given another one.
NotOwing(p, e) == delivered[p]

\* What p gets to vote on is put first in the list of what it owes.
Owing(p, e) == IF Votable(p, e) THEN <<e>> \o delivered[p] ELSE delivered[p]

\* next_message, and the client that has got the answer.
ServeNext(p) ==
    /\ Serve(p, "next")
    /\ LET list == undelivered[p]
           e    == Head(list)
           some == list # << >>
       IN /\ undelivered' = [undelivered EXCEPT ![p] = IF some THEN Tail(@) ELSE @]
          /\ delivered' = IF some THEN [delivered EXCEPT ![p] = Owing(p, e)] ELSE delivered
          /\ hand' = IF some /\ Votable(p, e) THEN [hand EXCEPT ![p] = "open"] ELSE hand
          /\ told' = IF some /\ ~Votable(p, e) /\ e = "LIVE" /\ p = Sender
                     THEN Append(told, state) ELSE told
    /\ UNCHANGED <<alive, asks, active, registered, offerVars, stack>>

\* The vote cast is not owed any more.
OwesNoMore(p) == Tail(delivered[p])

\* _tt_update_msg and update_message: the newest of what p owes is voted on;
\* p owes nothing if it has voted before.
ServeUpdate(p) ==
    /\ Serve(p, "update")
    /\ IF delivered[p] # << >>
       THEN /\ delivered' = [delivered EXCEPT ![p] = OwesNoMore(p)]
            /\ Cast(p, Head(delivered[p]), Head(rpc[p]).to, state)
            /\ stack' = <<Ballots>>
       ELSE UNCHANGED <<delivered, state, votes, yetToVote, miscounted, stack>>
    /\ UNCHANGED <<alive, asks, hand, active, registered, undelivered, handler, returned,
                   asked, told>>

\* s_remove_procid.
ServeClose(p) ==
    /\ Serve(p, "close")
    /\ alive' = alive \ {p}
    /\ stack' = <<Deactivate(p)>>
    /\ UNCHANGED <<asks, hand, active, registered, undelivered, delivered, offerVars, told>>

\* The main loop finds the channel of p lost, having served what p had sent.
Hangup(p) ==
    /\ Idle
    /\ p \notin alive /\ active[p] /\ rpc[p] = << >>
    /\ stack' = <<Deactivate(p)>>
    /\ UNCHANGED <<clientVars, active, registered, undelivered, delivered, offerVars, told>>

-----------------------------------------------------------------------------

Run == \/ MatchInactive \/ MatchHandler \/ MatchObserver \/ GiveToHandler
       \/ RunBallots \/ RunReport
       \/ RunDeactivate \/ RunUnread \/ RunUnanswered \/ RunForget

ServeRpc(p) == ServeSend(p) \/ ServeNext(p) \/ ServeUpdate(p) \/ ServeClose(p)

Next == \/ AskSend \/ Run
        \/ \E p \in Proc : \/ AskVote(p) \/ AskNext(p) \/ AskClose(p) \/ Die(p)
                           \/ ServeRpc(p) \/ Hangup(p)

\* The server goes on, and serves every ready socket.  A client looks when it
\* is signalled, and does not keep an offer for ever: the duty that
\* internal_doc/README puts on it.
Fairness == /\ WF_vars(Run)
            /\ \A p \in Proc : /\ WF_vars(ServeRpc(p)) /\ WF_vars(Hangup(p))
                               /\ WF_vars(AskNext(p))

Spec == Init /\ [][Next]_vars /\ Fairness

-----------------------------------------------------------------------------
(* Properties. *)

TypeOK ==
    /\ alive \subseteq Proc /\ asks \subseteq Proc
    /\ rpc \in [Proc -> Seq(Call)]
    /\ hand \in [Proc -> {"none", "open", "voted", "again"}]
    /\ active \in [Proc -> BOOLEAN]
    /\ registered \subseteq Pattern
    /\ undelivered \in [Proc -> Seq(Entry)]
    /\ delivered \in [Proc -> Seq(Entry)]
    /\ state \in State /\ handler \in Proc \cup {NoProc}
    /\ returned \in BOOLEAN
    /\ yetToVote \in Int
    /\ votes \in [Proc -> Seq(Vote)]
    /\ stack \in Seq(Frame)
    /\ asked \in [Proc -> Nat]
    /\ miscounted \in BOOLEAN
    /\ told \in Seq(State)

\* What p has still to vote on: what it owes a vote for, and what it will when
\* it has looked.
Unseen(p) == {i \in DOMAIN undelivered[p] : Votable(p, undelivered[p][i])}
Outstanding(p) == Len(delivered[p]) + Cardinality(Unseen(p))

\* Between two RPCs, a returned offer has no vote outstanding, unless someone
\* was made to abstain before all the voters had been counted.
AllVoted == Idle /\ returned /\ ~miscounted => \A p \in Proc : Outstanding(p) = 0

\* A returned offer has no vote outstanding: internal_doc/README has the offer
\* returned when all observers have voted.
ReturnedWhenAllVoted == Idle /\ returned => \A p \in Proc : Outstanding(p) = 0

\* Between two RPCs, some active client has still to vote on an offer that is
\* under way: neither a crash nor a refusal leaves it waiting for nobody.
NoneStuck ==
    Idle /\ state # "CREATED" /\ ~returned =>
        \E p \in Proc : active[p] /\ Outstanding(p) > 0

\* Between two RPCs, a client has voted as often as it was asked and has no
\* vote outstanding: a vote sent twice, or again by tt_message_receive, or
\* abstained for a client that is gone, counts once.
VotesMatch ==
    Idle /\ ~miscounted => \A p \in Proc : Len(votes[p]) + Outstanding(p) = asked[p]

\* The sender of a returned offer has been shown it once, returned, or will be
\* when it looks, unless it is gone.
SenderTold ==
    Idle /\ returned /\ ~miscounted /\ active[Sender] =>
        LET lives == {i \in DOMAIN undelivered[Sender] : undelivered[Sender][i] = "LIVE"}
        IN  \/ told = <<"RETURNED">> /\ lives = {}
            \/ told = << >> /\ Cardinality(lives) = 1

\* Every offer is returned in the end.
Returned == (state = "SENT") ~> returned

=============================================================================
