------------------------------ MODULE TtMatch ------------------------------
(***************************************************************************)
(* Which of several handlers gets a ToolTalk request.  A client registers  *)
(* handler patterns of three categories; the server walks them, and keeps  *)
(* the best so far by category, by how well it matches, and by a clock     *)
(* that is stamped on push patterns when they are registered and on rotate *)
(* patterns when they are matched.  A handler that rejects the request is  *)
(* not tried again.                                                        *)
(* Sources: slib/mp_s_message.C and slib/mp_s_procid.C under               *)
(* src/cde/lib/tt.                                                         *)
(*                                                                         *)
(* A client whose channel is lost is deactivated and its patterns are      *)
(* deleted; an add_pattern that the server reads after that leaves a       *)
(* pattern of an inactive procid, at which every walk ends.                *)
(*                                                                         *)
(* The observers, and what else a walk may run into, are in TtSession; a   *)
(* client is given up here in one step and its patterns one by one, and    *)
(* one that comes back under the same name is a new procid.                *)
(***************************************************************************)
EXTENDS Naturals, Sequences, SequencesExt

CONSTANTS
    Pat, NoPat,     \* handler patterns
    Proc, NoProc,   \* procids of the clients
    Mortal,         \* the clients that may lose their channel
    Request,        \* requests of session scope for one operation
    Owner,          \* who registers a pattern
    Category,       \* its category
    Opless,         \* the patterns that name no operation
    Score,          \* how well a pattern matches a request, 0 if not at all
    MaxNow          \* bound: the server's clock

Categories == {"HANDLE", "HANDLE_ROTATE", "HANDLE_PUSH"}

ASSUME MatchAssumption ==
    /\ NoPat \notin Pat /\ NoProc \notin Proc /\ Mortal \subseteq Proc
    /\ Owner \in [Pat -> Proc]
    /\ Category \in [Pat -> Categories]
    /\ Opless \subseteq Pat
    /\ Score \in [Request -> [Pat -> Nat]]
    /\ MaxNow \in Nat

VARIABLES
    opless_pats,    \* the registered patterns without an operation
    opful_pats,     \* those of the operation, most recent first
    timestamp,      \* _timestamp of each pattern
    now,            \* the server's clock
    holder,         \* _handler of each request that is under way
    tried,          \* _tried of each request
    walk,           \* the walk over the patterns: its request, the rest, and
                    \* whether it has been cut short
    best,           \* best_pattern of the walk
    active,         \* _TT_PROC_ACTIVE of each client's procid
    stale,          \* the patterns of procids that are not active
    leaving,        \* the clients whose patterns are being deleted
    later           \* <<p, q>>: p has been matched by a whole walk, or if it is
                    \* a push pattern registered, after q; <<p, p>>: at all
                    \* (history)

regVars == <<opless_pats, opful_pats, stale, timestamp, now, later>>
vars == <<opless_pats, opful_pats, timestamp, now, holder, tried, walk, best,
          active, stale, leaving, later>>

Registered == ToSet(opless_pats) \cup ToSet(opful_pats)

\* No request is being delivered, no client given up.
NoWalk == [request |-> {}, todo |-> << >>, cut |-> FALSE]
Idle   == walk = NoWalk /\ leaving = {}

Init ==
    /\ opless_pats = << >> /\ opful_pats = << >>
    /\ timestamp = [pat \in Pat |-> 0]
    /\ now = 1
    /\ holder = [m \in Request |-> NoProc]
    /\ tried = [m \in Request |-> {}]
    /\ walk = NoWalk /\ best = NoPat
    /\ active = Proc /\ stale = {} /\ leaving = {}
    /\ later = {}

-----------------------------------------------------------------------------
(* Registration. *)

\* Faulty: the clock stands still.
Stopped == now

\* The time a pattern takes.
Stamp(t) == t

\* _tt_s_mp->now++.
Tick == now + 1

\* pat is the last to be stamped.
Latest(pat) ==
    {pair \in later : pair[2] # pat} \cup {<<pat, other>> : other \in Pat}

\* pat is before all that have been stamped.
Earliest(pat) ==
    {pair \in later : pair[1] # pat}
        \cup {<<other, pat>> : other \in {o \in Pat \ {pat} : <<o, o>> \in later}}

\* pat is out of the order.
Unordered(pat) == {pair \in later : pat \notin {pair[1], pair[2]}}

\* add_pattern: a push pattern takes the time, the other ones have none yet;
\* the pattern is pushed onto the front of its list.  The procid is not asked
\* whether it is active, and is not made active without a channel.
Register(pat) ==
    /\ Idle /\ now < MaxNow
    /\ pat \notin Registered
    /\ now' = Tick
    /\ IF Category[pat] = "HANDLE_PUSH"
       THEN /\ timestamp' = [timestamp EXCEPT ![pat] = Stamp(Tick)]
            /\ later' = Latest(pat)
       ELSE /\ timestamp' = [timestamp EXCEPT ![pat] = 0]
            /\ later' = Earliest(pat)
    /\ IF pat \in Opless
       THEN opless_pats' = <<pat>> \o opless_pats /\ UNCHANGED opful_pats
       ELSE opful_pats' = <<pat>> \o opful_pats /\ UNCHANGED opless_pats
    /\ stale' = IF Owner[pat] \in active THEN stale ELSE stale \cup {pat}
    /\ UNCHANGED <<holder, tried, walk, best, active, leaving>>

\* del_pattern.
Delete(pat) ==
    /\ \/ \E i \in DOMAIN opless_pats :
             /\ opless_pats[i] = pat
             /\ opless_pats' = RemoveAt(opless_pats, i)
             /\ UNCHANGED opful_pats
       \/ \E i \in DOMAIN opful_pats :
             /\ opful_pats[i] = pat
             /\ opful_pats' = RemoveAt(opful_pats, i)
             /\ UNCHANGED opless_pats
    /\ stale' = stale \ {pat}
    /\ UNCHANGED <<timestamp, now, holder, tried, walk, best, active, later>>

\* The pattern is in _patterns of the procid that the client has now.
Owns(p, pat) == Owner[pat] = p /\ (pat \in stale => p \notin active)

Unregister(pat) ==
    /\ Idle
    /\ Owns(Owner[pat], pat)
    /\ Delete(pat)
    /\ UNCHANGED leaving

-----------------------------------------------------------------------------
(* The walk: match_patterns. *)

\* Faulty: patterns that name the operation hide the others.
OpfulOnly == IF opful_pats = << >> THEN opless_pats ELSE opful_pats

\* The copy of both lists.
Pats2match == opless_pats \o opful_pats

Deliver(m) ==
    /\ walk' = [request |-> {m}, todo |-> Pats2match, cut |-> FALSE]
    /\ best' = NoPat

Send(m) ==
    /\ Idle /\ now < MaxNow
    /\ holder[m] = NoProc
    /\ tried' = [tried EXCEPT ![m] = {}]
    /\ Deliver(m)
    /\ UNCHANGED <<regVars, holder, active, leaving>>

\* Faulty: only a handle pattern gives way.
HandleExcluded(pat) == Category[pat] = "HANDLE" /\ Category[best] # "HANDLE"

\* _tt_excludes of two categories.
CategoryExcludes(pat) ==
    \/ Category[pat] = "HANDLE" /\ Category[best] # "HANDLE"
    \/ Category[pat] = "HANDLE_ROTATE" /\ Category[best] = "HANDLE_PUSH"

\* Faulty: the time does not matter.
AnyTime(pat) == TRUE

\* The newest push pattern wins.
NewestWins(pat) == timestamp[best] >= timestamp[pat]

\* Faulty: a rotate pattern that matches less well replaces a better one.
RotateByTime(m, pat) ==
    Score[m][best] = Score[m][pat] /\ timestamp[best] < timestamp[pat]

\* The coldest of the best rotate patterns wins.
RotateExcludes(m, pat) ==
    \/ Score[m][best] > Score[m][pat]
    \/ Score[m][best] = Score[m][pat] /\ timestamp[best] < timestamp[pat]

\* _tt_excludes with scores and times; the pattern is of the best category so
\* far or of a higher one.  A push pattern that matches less well is let in.
Excludes(m, pat) ==
    /\ Category[best] = Category[pat]
    /\ CASE Category[pat] = "HANDLE_PUSH" ->
                Score[m][best] = Score[m][pat] /\ NewestWins(pat)
         [] Category[pat] = "HANDLE_ROTATE" -> RotateExcludes(m, pat)
         [] Category[pat] = "HANDLE" -> Score[m][best] >= Score[m][pat]

\* match_handler.
Better(m, pat) ==
    /\ Score[m][pat] > 0
    /\ best # NoPat => ~CategoryExcludes(pat) /\ ~Excludes(m, pat)

\* The walk of m comes to its next pattern.
Walking(m) == walk.request = {m} /\ walk.todo # << >>

MatchHandler(m) ==
    /\ Walking(m) /\ Head(walk.todo) \notin stale
    /\ LET pat == Head(walk.todo) IN
       best' = IF Owner[pat] \notin tried[m] /\ Better(m, pat) THEN pat ELSE best
    /\ walk' = [walk EXCEPT !.todo = Tail(@)]
    /\ UNCHANGED <<regVars, holder, tried, active, leaving>>

\* The registrant is not active: match_patterns returns, with what it has.
MatchInactive(m) ==
    /\ Walking(m) /\ Head(walk.todo) \in stale
    /\ walk' = [walk EXCEPT !.todo = << >>, !.cut = TRUE]
    /\ UNCHANGED <<regVars, holder, tried, best, active, leaving>>

\* The walk of m has come to its end.
Walked(m) == walk.request = {m} /\ walk.todo = << >>

\* The clock ticks unless match_patterns returned early, and a rotate pattern
\* takes the time.
Match(pat) ==
    /\ now' = IF walk.cut THEN now ELSE Tick
    /\ IF Category[pat] = "HANDLE_ROTATE"
       THEN /\ timestamp' = [timestamp EXCEPT ![pat] = Stamp(now')]
            /\ later' = IF walk.cut THEN Unordered(pat) ELSE Latest(pat)
       ELSE UNCHANGED <<timestamp, later>>
    /\ walk' = NoWalk /\ best' = NoPat
    /\ UNCHANGED <<opless_pats, opful_pats, stale, tried>>

\* The handler is given the request.
GiveToHandler(m) ==
    /\ Walked(m) /\ best # NoPat
    /\ Match(best)
    /\ holder' = [holder EXCEPT ![m] = Owner[best]]
    /\ UNCHANGED <<active, leaving>>

\* The requests of a client that is given up fail.
GiveUp(p) ==
    /\ active' = active \ {p} /\ leaving' = {p}
    /\ holder' = [m \in Request |-> IF holder[m] = p THEN NoProc ELSE holder[m]]

\* It cannot be signalled: this request fails with the others it holds.
HandlerIsDead(m) ==
    /\ Walked(m) /\ best # NoPat
    /\ Owner[best] \in Mortal
    /\ Match(best)
    /\ GiveUp(Owner[best])

\* handle_no_recipients: the request fails.
NoHandler(m) ==
    /\ Walked(m) /\ best = NoPat
    /\ walk' = NoWalk
    /\ UNCHANGED <<regVars, holder, tried, best, active, leaving>>

-----------------------------------------------------------------------------
(* Answers and deaths. *)

\* rejected: the request is delivered to another handler.
Reject(m) ==
    /\ Idle /\ now < MaxNow
    /\ holder[m] # NoProc
    /\ tried' = [tried EXCEPT ![m] = @ \cup {holder[m]}]
    /\ holder' = [holder EXCEPT ![m] = NoProc]
    /\ Deliver(m)
    /\ UNCHANGED <<regVars, active, leaving>>

Reply(m) ==
    /\ Idle
    /\ holder[m] # NoProc
    /\ holder' = [holder EXCEPT ![m] = NoProc]
    /\ UNCHANGED <<regVars, tried, walk, best, active, leaving>>

\* deactivate, from the main loop.
Hangup(p) ==
    /\ Idle /\ p \in active \cap Mortal
    /\ GiveUp(p)
    /\ UNCHANGED <<regVars, tried, walk, best>>

\* deactivate deletes the patterns of the procid.
Forget(p) ==
    /\ p \in leaving
    /\ \/ /\ \E pat \in Registered \ stale : Owner[pat] = p /\ Delete(pat)
          /\ UNCHANGED leaving
       \/ /\ \A pat \in Registered \ stale : Owner[pat] # p
          /\ leaving' = {}
          /\ UNCHANGED <<regVars, holder, tried, walk, best, active>>

\* activate: whoever comes back has another procid, which no request has been
\* rejected by; the patterns of the one before stay with that one.
Activate(p) ==
    /\ Idle /\ p \notin active
    /\ active' = active \cup {p}
    /\ tried' = [m \in Request |-> tried[m] \ {p}]
    /\ UNCHANGED <<regVars, holder, walk, best, leaving>>

-----------------------------------------------------------------------------

Next ==
    \/ \E pat \in Pat : Register(pat) \/ Unregister(pat)
    \/ \E m \in Request : \/ Send(m) \/ MatchHandler(m) \/ MatchInactive(m)
                          \/ GiveToHandler(m) \/ HandlerIsDead(m) \/ NoHandler(m)
                          \/ Reject(m) \/ Reply(m)
    \/ \E p \in Proc : Hangup(p) \/ Forget(p) \/ Activate(p)

Spec == Init /\ [][Next]_vars

-----------------------------------------------------------------------------
(* Properties. *)

Walk == [request : {{}} \cup {{m} : m \in Request}, todo : Seq(Pat), cut : BOOLEAN]

TypeOK ==
    /\ opless_pats \in Seq(Pat) /\ opful_pats \in Seq(Pat)
    /\ now \in Nat
    /\ timestamp \in [Pat -> 0 .. now]
    /\ holder \in [Request -> Proc \cup {NoProc}]
    /\ tried \in [Request -> SUBSET Proc]
    /\ walk \in Walk /\ best \in Pat \cup {NoPat}
    /\ active \subseteq Proc /\ leaving \subseteq Proc
    /\ stale \subseteq Pat
    /\ later \subseteq Pat \X Pat

\* No pattern is registered that ends a walk.
RegistrantsActive == Registered \cap stale = {}

\* What may be chosen for m: the patterns that match it, of the active clients
\* that have not rejected it.
Eligible(m) ==
    {pat \in Registered \ stale : Score[m][pat] > 0 /\ Owner[pat] \notin tried[m]}

\* The eligible patterns of the category of the one chosen, and the best ones
\* among these.
Rivals(m) == {pat \in Eligible(m) : Category[pat] = Category[best]}
Ties(m)   == {pat \in Rivals(m) : Score[m][pat] = Score[m][best]}

\* m is about to go to a pattern of one of the categories.
Chosen(m, categories) ==
    Walked(m) /\ best # NoPat /\ Category[best] \in categories

\* The same, and all patterns have been looked at.
ChosenOfAll(m, categories) == RegistrantsActive /\ Chosen(m, categories)

Rank(category) == CASE category = "HANDLE" -> 0
                    [] category = "HANDLE_ROTATE" -> 1
                    [] category = "HANDLE_PUSH" -> 2

\* The request goes to an eligible pattern, also when the walk was cut short;
\* and while all registrants are active, a push pattern comes before a rotate
\* pattern before a handle pattern, wherever they are in the two lists.
Trumps ==
    \A m \in Request : Chosen(m, Categories) =>
        /\ best \in Eligible(m)
        /\ RegistrantsActive =>
              \A pat \in Eligible(m) : Rank(Category[pat]) <= Rank(Category[best])

\* While all registrants are active, a request fails only when every client
\* with a pattern that matches it has rejected it.
FailsLast ==
    \A m \in Request :
        RegistrantsActive /\ Walked(m) /\ best = NoPat => Eligible(m) = {}

\* While all registrants are active, no handle or rotate pattern that matches
\* better is passed over.
BestMatch ==
    \A m \in Request : ChosenOfAll(m, {"HANDLE", "HANDLE_ROTATE"}) =>
        \A pat \in Rivals(m) : Score[m][pat] <= Score[m][best]

\* No push pattern that matches better is passed over: internal_doc/README
\* finds the best matching push patterns first.
BestPush ==
    \A m \in Request : ChosenOfAll(m, {"HANDLE_PUSH"}) =>
        \A pat \in Rivals(m) : Score[m][pat] <= Score[m][best]

\* Rotate patterns take turns.  While all registrants are active, of those
\* that match best none is passed over that was matched before the one chosen,
\* or not at all, whoever comes, goes and rejects in between; a match by a walk
\* that was cut short does not count, for it may have the time of another.
LeastRecent ==
    \A m \in Request : ChosenOfAll(m, {"HANDLE_ROTATE"}) =>
        \A pat \in Ties(m) \ {best} : <<best, pat>> \notin later

\* While all registrants are active, of push patterns that match equally well
\* the last registered is chosen, whether or not it names the operation.
Newest ==
    \A m \in Request : ChosenOfAll(m, {"HANDLE_PUSH"}) /\ Rivals(m) = Ties(m) =>
        \A pat \in Ties(m) \ {best} : <<best, pat>> \in later

=============================================================================
