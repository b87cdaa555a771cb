--------------------------- MODULE TtOffer_proofs --------------------------
(* Theorems about TtOffer, for every set of clients, patterns and answers. *)
EXTENDS TtOffer, SequenceTheorems, FiniteSetTheorems, TLAPS

-----------------------------------------------------------------------------
(* Frames, the call stack and the lists. *)

\* Every constructor of a frame makes a frame.
LEMMA FramesMade ==
    ASSUME TypeOK
    PROVE  /\ \A b \in BOOLEAN : Deliver(b) \in Frame
           /\ Ballots \in Frame /\ Report \in Frame
           /\ \A p \in Proc : /\ Deactivate(p) \in Frame /\ Unread(p) \in Frame
                              /\ Unanswered(p) \in Frame /\ Forget(p) \in Frame
BY DEF Frame, Deliver, Ballots, Report, Deactivate, Unread, Unanswered, Forget, TypeOK

\* While a frame runs, it and what is below it are frames of their kinds.
LEMMA RunningFrame ==
    ASSUME TypeOK, NEW op, Running(op)
    PROVE  /\ Head(stack) \in Frame /\ Tail(stack) \in Seq(Frame) /\ Head(stack).op = op
           /\ op \in {"deactivate", "unread", "unanswered", "forget"} => Head(stack).proc \in Proc
           /\ op = "match" => /\ Head(stack).todo \subseteq Pattern
                              /\ Head(stack).best \in Proc \cup {NoProc}
                              /\ Head(stack).observers \in BOOLEAN
<1>1. Head(stack) \in Frame /\ Tail(stack) \in Seq(Frame) /\ Head(stack).op = op
  BY HeadTailProperties DEF TypeOK, Running
<1> QED
  BY <1>1 DEF Frame

\* A match frame with fewer patterns to visit and another best one is one.
LEMMA MatchFrame ==
    ASSUME NEW f \in Frame, f.op = "match", NEW todo \in SUBSET Pattern,
           NEW best \in Proc \cup {NoProc}
    PROVE  [f EXCEPT !.todo = todo] \in Frame /\ [f EXCEPT !.todo = todo, !.best = best] \in Frame
BY DEF Frame

\* Pushing frames on a stack of frames.
LEMMA Push ==
    ASSUME NEW s \in Seq(Frame)
    PROVE  /\ \A f \in Frame : <<f>> \in Seq(Frame) /\ <<f>> \o s \in Seq(Frame)
           /\ \A f, g \in Frame : <<f, g>> \in Seq(Frame)
           /\ \A f, g, h \in Frame : <<f, g, h>> \o s \in Seq(Frame)
<1>1. \A f, g, h \in Frame : <<f>> \in Seq(Frame) /\ <<f, g>> \in Seq(Frame) /\ <<f, g, h>> \in Seq(Frame)
  OBVIOUS
<1> QED
  BY <1>1, ConcatProperties

\* What casting a vote does to the types.
LEMMA CastType ==
    ASSUME TypeOK, NEW p \in Proc, NEW e, NEW v \in Vote, NEW now \in State, Cast(p, e, v, now)
    PROVE  /\ state' \in State /\ votes' \in [Proc -> Seq(Vote)]
           /\ yetToVote' \in Int /\ miscounted' \in BOOLEAN
<1>1. votes' \in [Proc -> Seq(Vote)]
  BY AppendProperties DEF Cast, TypeOK
<1>2. state' \in State /\ yetToVote' \in Int
  BY DEF Cast, TypeOK, State
<1>3. miscounted' \in BOOLEAN
  BY DEF Cast, TypeOK
<1> QED
  BY <1>1, <1>2, <1>3

\* What add_message does to the types.
LEMMA AddMessageType ==
    ASSUME TypeOK, NEW p \in Proc, NEW e \in Entry, NEW now \in State,
           NEW ok \in Seq(Frame), NEW bad \in Seq(Frame), AddMessage(p, e, now, ok, bad)
    PROVE  /\ undelivered' \in [Proc -> Seq(Entry)] /\ state' \in State
           /\ yetToVote' \in Int /\ votes' \in [Proc -> Seq(Vote)]
           /\ asked' \in [Proc -> Nat] /\ miscounted' \in BOOLEAN /\ stack' \in Seq(Frame)
<1>1. CASE AbstainForOld(p, e, now, ok)
  <2>1. Cast(p, e, "ABSTAINED", now) /\ "ABSTAINED" \in Vote
    BY <1>1 DEF AbstainForOld, Vote
  <2>2. stack' \in Seq(Frame)
    BY <1>1, FramesMade, Push DEF AbstainForOld
  <2> QED
    BY <1>1, <2>1, <2>2, CastType DEF AbstainForOld, TypeOK
<1>2. CASE MoveToEnd(p, e, now, ok)
  <2>1. PICK i \in DOMAIN undelivered[p] :
           undelivered' = [undelivered EXCEPT ![p] = Append(RemoveAt(@, i), e)]
    BY <1>2 DEF MoveToEnd
  <2>2. \A s \in Seq(Entry) : \A j \in DOMAIN s : Append(RemoveAt(s, j), e) \in Seq(Entry)
    <3> SUFFICES ASSUME NEW s \in Seq(Entry), NEW j \in DOMAIN s
                 PROVE  Append(RemoveAt(s, j), e) \in Seq(Entry)
      OBVIOUS
    <3>1. SubSeq(s, 1, j-1) \in Seq(Entry) /\ SubSeq(s, j+1, Len(s)) \in Seq(Entry)
      OBVIOUS
    <3> QED
      BY <3>1, ConcatProperties, AppendProperties DEF RemoveAt
  <2>3. Append(RemoveAt(undelivered[p], i), e) \in Seq(Entry)
    BY <2>1, <2>2 DEF TypeOK
  <2>4. undelivered' \in [Proc -> Seq(Entry)]
    BY <2>1, <2>3 DEF TypeOK
  <2> QED
    BY <1>2, <2>4 DEF MoveToEnd, TypeOK
<1>3. CASE AppendAndSignal(p, e, now, ok, bad)
  <2>1. undelivered' \in [Proc -> Seq(Entry)]
    BY <1>3, AppendProperties DEF AppendAndSignal, TypeOK
  <2>2. yetToVote' \in Int
    BY <1>3 DEF AppendAndSignal, Counted, TypeOK
  <2>4. asked' \in [Proc -> Nat]
    <3>1. asked \in [Proc -> Nat] /\ [asked EXCEPT ![p] = @ + 1] \in [Proc -> Nat]
      BY DEF TypeOK
    <3>2. asked' = asked \/ asked' = [asked EXCEPT ![p] = @ + 1]
      BY <1>3 DEF AppendAndSignal
    <3> QED
      BY <3>1, <3>2
  <2>3. stack' \in Seq(Frame)
    BY <1>3, FramesMade, Push DEF AppendAndSignal
  <2> QED
    BY <1>3, <2>1, <2>2, <2>3, <2>4 DEF AppendAndSignal, TypeOK
<1> QED
  BY <1>1, <1>2, <1>3 DEF AddMessage

-----------------------------------------------------------------------------
(* Type correctness. *)

\* Every step of the server's own code keeps the types.
LEMMA RunType == ASSUME TypeOK, Run PROVE TypeOK'
<1>1. CASE MatchInactive
  <2>1. [Head(stack) EXCEPT !.todo = {}] \in Frame /\ Tail(stack) \in Seq(Frame)
    BY <1>1, RunningFrame, MatchFrame DEF MatchInactive
  <2>2. stack' \in Seq(Frame)
    BY <1>1, <2>1, Push DEF MatchInactive
  <2> QED
    BY <1>1, <2>2 DEF MatchInactive, TypeOK, clientVars, offerVars
<1>2. CASE MatchHandler
  <2> DEFINE f == Head(stack)
  <2>1. PICK pat \in f.todo : \E b \in {f.best, pat[1]} :
           stack' = <<[f EXCEPT !.todo = @ \ {pat}, !.best = b]>> \o Tail(stack)
    BY <1>2 DEF MatchHandler
  <2>2. PICK b \in {f.best, pat[1]} :
           stack' = <<[f EXCEPT !.todo = @ \ {pat}, !.best = b]>> \o Tail(stack)
    BY <2>1
  <2>3. f \in Frame /\ f.op = "match" /\ f.todo \subseteq Pattern /\ f.best \in Proc \cup {NoProc} /\ Tail(stack) \in Seq(Frame)
    BY <1>2, RunningFrame DEF MatchHandler
  <2>4. b \in Proc \cup {NoProc} /\ f.todo \ {pat} \in SUBSET Pattern
    BY <2>2, <2>3 DEF Pattern
  <2>5. [f EXCEPT !.todo = @ \ {pat}, !.best = b] \in Frame
    BY <2>3, <2>4, MatchFrame
  <2>6. stack' \in Seq(Frame)
    BY <2>2, <2>3, <2>5, Push
  <2> QED
    BY <1>2, <2>6 DEF MatchHandler, TypeOK, clientVars, offerVars
<1>3. CASE MatchObserver
  <2> DEFINE f == Head(stack)
             next(pat) == <<[f EXCEPT !.todo = @ \ {pat}]>> \o Tail(stack)
  <2>1. PICK pat \in f.todo :
          IF f.observers /\ pat[2] \in {"ANY", state}
          THEN AddMessage(pat[1], state, state, next(pat), next(pat))
          ELSE /\ stack' = next(pat)
               /\ UNCHANGED <<undelivered, state, yetToVote, votes, asked, miscounted>>
    BY <1>3 DEF MatchObserver
  <2>2. f \in Frame /\ f.op = "match" /\ f.todo \subseteq Pattern /\ Tail(stack) \in Seq(Frame)
    BY <1>3, RunningFrame DEF MatchObserver
  <2>3. pat[1] \in Proc /\ f.todo \ {pat} \in SUBSET Pattern
    BY <2>2 DEF Pattern
  <2>4. [f EXCEPT !.todo = @ \ {pat}] \in Frame
    BY <2>2, <2>3, MatchFrame
  <2>5. next(pat) \in Seq(Frame)
    BY <2>2, <2>4, Push
  <2>6. state \in Entry /\ state \in State
    BY DEF TypeOK, Entry
  <2> HIDE DEF next
  <2>7. /\ undelivered' \in [Proc -> Seq(Entry)] /\ state' \in State
        /\ yetToVote' \in Int /\ votes' \in [Proc -> Seq(Vote)]
        /\ asked' \in [Proc -> Nat] /\ miscounted' \in BOOLEAN /\ stack' \in Seq(Frame)
    <3>1. CASE AddMessage(pat[1], state, state, next(pat), next(pat))
      BY <3>1, <2>3, <2>5, <2>6, AddMessageType
    <3>2. CASE stack' = next(pat) /\ UNCHANGED <<undelivered, state, yetToVote, votes, asked, miscounted>>
      BY <3>2, <2>5 DEF TypeOK
    <3> QED
      BY <2>1, <3>1, <3>2
  <2> QED
    BY <1>3, <2>7 DEF MatchObserver, TypeOK, clientVars
<1>4. CASE GiveToHandler
  <2> DEFINE p == Head(stack).best
  <2>1. p \in Proc \cup {NoProc} /\ Tail(stack) \in Seq(Frame)
    BY <1>4, RunningFrame DEF GiveToHandler
  <2>2. CASE p = NoProc
    BY <1>4, <2>1, <2>2 DEF GiveToHandler, TypeOK, clientVars
  <2>3. CASE p # NoProc
    <3>1. /\ handler' = p /\ AddMessage(p, "LIVE", "SENT", Tail(stack), <<Deliver(FALSE)>> \o Tail(stack))
      BY <1>4, <2>3 DEF GiveToHandler
    <3>2. <<Deliver(FALSE)>> \o Tail(stack) \in Seq(Frame)
      BY <2>1, FramesMade, Push
    <3>3. "LIVE" \in Entry /\ "SENT" \in State
      BY DEF Entry, State
    <3>4. /\ undelivered' \in [Proc -> Seq(Entry)] /\ state' \in State
          /\ yetToVote' \in Int /\ votes' \in [Proc -> Seq(Vote)]
          /\ asked' \in [Proc -> Nat] /\ miscounted' \in BOOLEAN /\ stack' \in Seq(Frame)
      BY <2>1, <2>3, <3>1, <3>2, <3>3, AddMessageType
    <3> QED
      BY <1>4, <2>1, <3>1, <3>4 DEF GiveToHandler, TypeOK, clientVars
  <2> QED
    BY <2>2, <2>3
<1>5. CASE RunBallots
  <2>1. Tail(stack) \in Seq(Frame)
    BY <1>5, RunningFrame DEF RunBallots
  <2>2. Announce \o Tail(stack) \in Seq(Frame)
    BY <2>1, FramesMade, Push DEF Announce
  <2>3. stack' \in Seq(Frame) /\ state' \in State /\ returned' \in BOOLEAN
    BY <1>5, <2>1, <2>2 DEF RunBallots, TypeOK, State
  <2> QED
    BY <1>5, <2>3 DEF RunBallots, TypeOK, clientVars
<1>6. CASE RunReport
  <2>1. Tail(stack) \in Seq(Frame) /\ Sender \in Proc /\ "LIVE" \in Entry /\ state \in State
    BY <1>6, RunningFrame, OfferAssumption DEF RunReport, Entry, TypeOK
  <2>2. /\ undelivered' \in [Proc -> Seq(Entry)] /\ state' \in State
        /\ yetToVote' \in Int /\ votes' \in [Proc -> Seq(Vote)]
        /\ asked' \in [Proc -> Nat] /\ miscounted' \in BOOLEAN /\ stack' \in Seq(Frame)
    <3>1. CASE active[Sender]
      <4>1. AddMessage(Sender, "LIVE", state, Tail(stack), Tail(stack))
        BY <1>6, <3>1 DEF RunReport
      <4> QED
        BY <2>1, <4>1, AddMessageType
    <3>2. CASE ~active[Sender]
      BY <1>6, <2>1, <3>2 DEF RunReport, TypeOK
    <3> QED
      BY <3>1, <3>2
  <2> QED
    BY <1>6, <2>2 DEF RunReport, TypeOK, clientVars
<1>7. CASE RunDeactivate
  <2> DEFINE p == Head(stack).proc
  <2>1. p \in Proc /\ Tail(stack) \in Seq(Frame)
    BY <1>7, RunningFrame DEF RunDeactivate
  <2>2. <<Unread(p), Unanswered(p), Forget(p)>> \o Tail(stack) \in Seq(Frame)
    BY <2>1, FramesMade, Push
  <2>3. stack' \in Seq(Frame) /\ active' \in [Proc -> BOOLEAN]
    BY <1>7, <2>1, <2>2 DEF RunDeactivate, TypeOK
  <2> QED
    BY <1>7, <2>3 DEF RunDeactivate, TypeOK, clientVars, offerVars
<1>8. CASE RunUnread
  <2> DEFINE p == Head(stack).proc
             e == Head(undelivered[p])
  <2>1. p \in Proc /\ Tail(stack) \in Seq(Frame)
    BY <1>8, RunningFrame DEF RunUnread
  <2>2. CASE undelivered[p] = << >>
    BY <1>8, <2>1, <2>2 DEF RunUnread, TypeOK, clientVars
  <2>3. CASE undelivered[p] # << >>
    <3>1. Tail(undelivered[p]) \in Seq(Entry)
      BY <2>1, <2>3, HeadTailProperties DEF TypeOK
    <3>2. undelivered' \in [Proc -> Seq(Entry)]
      BY <1>8, <2>1, <2>3, <3>1 DEF RunUnread, TypeOK
    <3>3. /\ state' \in State /\ votes' \in [Proc -> Seq(Vote)]
          /\ yetToVote' \in Int /\ miscounted' \in BOOLEAN /\ stack' \in Seq(Frame)
      <4>1. CASE Votable(p, e)
        <5>1. Cast(p, e, NewState, state) /\ stack' = <<Ballots>> \o stack
          BY <1>8, <2>3, <4>1 DEF RunUnread
        <5>2. NewState \in Vote /\ state \in State /\ stack \in Seq(Frame)
          BY DEF NewState, Vote, TypeOK
        <5>3. stack' \in Seq(Frame)
          BY <5>1, <5>2, FramesMade, Push
        <5> QED
          BY <2>1, <5>1, <5>2, <5>3, CastType
      <4>2. CASE ~Votable(p, e)
        BY <1>8, <2>3, <4>2 DEF RunUnread, TypeOK
      <4> QED
        BY <4>1, <4>2
    <3> QED
      BY <1>8, <3>2, <3>3 DEF RunUnread, TypeOK, clientVars
  <2> QED
    BY <2>2, <2>3
<1>9. CASE RunUnanswered
  <2> DEFINE p == Head(stack).proc
  <2>1. p \in Proc /\ Tail(stack) \in Seq(Frame)
    BY <1>9, RunningFrame DEF RunUnanswered
  <2>2. CASE Owed(p) = {}
    BY <1>9, <2>1, <2>2 DEF RunUnanswered, TypeOK, clientVars
  <2>3. CASE Owed(p) # {}
    <3>0. delivered[p] # << >>
      BY <2>1, <2>3 DEF Owed, ToSet, TypeOK
    <3>1. Tail(delivered[p]) \in Seq(Entry)
      BY <2>1, <3>0, HeadTailProperties DEF TypeOK
    <3>2. /\ delivered' = [delivered EXCEPT ![p] = Tail(@)]
          /\ Cast(p, Head(delivered[p]), NewState, state)
          /\ stack' = <<Ballots>> \o stack
      BY <1>9, <2>3 DEF RunUnanswered
    <3>3. delivered' \in [Proc -> Seq(Entry)]
      BY <2>1, <3>1, <3>2 DEF TypeOK
    <3>4. NewState \in Vote /\ state \in State /\ stack \in Seq(Frame)
      BY DEF NewState, Vote, TypeOK
    <3>5. stack' \in Seq(Frame)
      BY <3>2, <3>4, FramesMade, Push
    <3>6. /\ state' \in State /\ votes' \in [Proc -> Seq(Vote)]
          /\ yetToVote' \in Int /\ miscounted' \in BOOLEAN
      BY <2>1, <3>2, <3>4, CastType
    <3> QED
      BY <1>9, <3>3, <3>5, <3>6 DEF RunUnanswered, TypeOK, clientVars
  <2> QED
    BY <2>2, <2>3
<1>10. CASE RunForget
  <2>1. Tail(stack) \in Seq(Frame)
    BY <1>10, RunningFrame DEF RunForget
  <2> QED
    BY <1>10, <2>1 DEF RunForget, TypeOK, clientVars, offerVars
<1> QED
  BY <1>1, <1>2, <1>3, <1>4, <1>5, <1>6, <1>7, <1>8, <1>9, <1>10 DEF Run

\* What a client asks keeps the types.
LEMMA AskType ==
    ASSUME TypeOK, NEW p \in Proc, NEW calls \in Seq(Call), Ask(p, calls)
    PROVE  rpc' \in [Proc -> Seq(Call)]
<1>1. rpc[p] \o calls \in Seq(Call)
  BY ConcatProperties DEF TypeOK
<1> QED
  BY <1>1 DEF Ask, TypeOK

\* What a client does keeps the types.
LEMMA ClientType ==
    ASSUME TypeOK, NEW p \in Proc,
           AskSend \/ AskVote(p) \/ AskNext(p) \/ AskClose(p) \/ Die(p)
    PROVE  TypeOK'
<1>1. CASE AskSend
  <2>1. Sender \in Proc /\ <<[call |-> "send"]>> \in Seq(Call)
    BY OfferAssumption DEF Call
  <2>2. rpc' \in [Proc -> Seq(Call)]
    BY <1>1, <2>1, AskType DEF AskSend
  <2> QED
    BY <1>1, <2>1, <2>2 DEF AskSend, Ask, TypeOK, offerVars
<1>2. CASE AskVote(p)
  <2>1. PICK v \in Answers : Ask(p, <<[call |-> "update", to |-> v]>>)
    BY <1>2 DEF AskVote
  <2>2. <<[call |-> "update", to |-> v]>> \in Seq(Call)
    BY OfferAssumption DEF Call
  <2>3. rpc' \in [Proc -> Seq(Call)]
    BY <2>1, <2>2, AskType
  <2>4. hand' \in [Proc -> {"none", "open", "voted", "again"}]
    BY <1>2 DEF AskVote, TypeOK
  <2> QED
    BY <1>2, <2>1, <2>3, <2>4 DEF AskVote, Ask, TypeOK, offerVars
<1>3. CASE AskNext(p)
  <2> DEFINE calls == (IF hand[p] # "none" THEN <<[call |-> "update", to |-> "ABSTAINED"]>> ELSE << >>)
                        \o <<[call |-> "next"]>>
  <2>1. calls \in Seq(Call)
    <3>1. [call |-> "update", to |-> "ABSTAINED"] \in Call /\ [call |-> "next"] \in Call
      BY DEF Call, Vote
    <3>2. /\ <<[call |-> "update", to |-> "ABSTAINED"]>> \in Seq(Call) /\ << >> \in Seq(Call)
          /\ <<[call |-> "next"]>> \in Seq(Call)
      BY <3>1
    <3> QED
      BY <3>2, ConcatProperties
  <2>2. Ask(p, calls)
    BY <1>3 DEF AskNext
  <2> HIDE DEF calls
  <2>3. rpc' \in [Proc -> Seq(Call)]
    BY <2>1, <2>2, AskType
  <2> QED
    BY <1>3, <2>2, <2>3 DEF AskNext, Ask, TypeOK, offerVars
<1>4. CASE AskClose(p)
  <2>1. <<[call |-> "close"]>> \in Seq(Call)
    BY DEF Call
  <2>2. rpc' \in [Proc -> Seq(Call)]
    BY <1>4, <2>1, AskType DEF AskClose
  <2> QED
    BY <1>4, <2>2 DEF AskClose, Ask, TypeOK, offerVars
<1>5. CASE Die(p)
  BY <1>5 DEF Die, TypeOK, offerVars
<1> QED
  BY <1>1, <1>2, <1>3, <1>4, <1>5

\* Serving an RPC or a lost channel keeps the types.
LEMMA ServeType ==
    ASSUME TypeOK, NEW p \in Proc, ServeRpc(p) \/ Hangup(p)
    PROVE  TypeOK'
<1>1. ASSUME NEW name, Serve(p, name)
      PROVE  /\ rpc' \in [Proc -> Seq(Call)]
             /\ Head(rpc[p]) \in Call /\ Head(rpc[p]).call = name
  BY <1>1, HeadTailProperties DEF Serve, TypeOK
<1>2. CASE ServeSend(p)
  <2>1. stack' \in Seq(Frame)
    BY <1>2, FramesMade, EmptySeq, Push DEF ServeSend
  <2> QED
    BY <1>1, <1>2, <2>1 DEF ServeSend, TypeOK, State
<1>3. CASE ServeNext(p)
  <2> DEFINE list == undelivered[p]
             e == Head(list)
  <2>1. list \in Seq(Entry) /\ delivered[p] \in Seq(Entry)
    BY DEF TypeOK
  <2>2. list # << >> => e \in Entry /\ Tail(list) \in Seq(Entry)
    BY <2>1, HeadTailProperties
  <2>3. list # << >> => Owing(p, e) \in Seq(Entry)
    <3>1. list # << >> => <<e>> \in Seq(Entry)
      BY <2>2
    <3> QED
      BY <2>1, <3>1, ConcatProperties DEF Owing
  <2>4. undelivered' \in [Proc -> Seq(Entry)]
    BY <1>3, <2>1, <2>2 DEF ServeNext, TypeOK
  <2>5. delivered' \in [Proc -> Seq(Entry)]
    BY <1>3, <2>1, <2>3 DEF ServeNext, TypeOK
  <2>6. hand' \in [Proc -> {"none", "open", "voted", "again"}]
    BY <1>3 DEF ServeNext, TypeOK
  <2>7. told' \in Seq(State)
    BY <1>3, AppendProperties DEF ServeNext, TypeOK
  <2> QED
    BY <1>1, <1>3, <2>4, <2>5, <2>6, <2>7 DEF ServeNext, TypeOK, offerVars
<1>4. CASE ServeUpdate(p)
  <2>1. Head(rpc[p]).to \in Vote /\ rpc' \in [Proc -> Seq(Call)]
    BY <1>1, <1>4 DEF ServeUpdate, Call
  <2>2. CASE delivered[p] # << >>
    <3>1. Tail(delivered[p]) \in Seq(Entry)
      BY <2>2, HeadTailProperties DEF TypeOK
    <3>2. /\ delivered' = [delivered EXCEPT ![p] = OwesNoMore(p)]
          /\ Cast(p, Head(delivered[p]), Head(rpc[p]).to, state)
          /\ stack' = <<Ballots>>
      BY <1>4, <2>2 DEF ServeUpdate
    <3>3. delivered' \in [Proc -> Seq(Entry)]
      BY <3>1, <3>2 DEF TypeOK, OwesNoMore
    <3>4. /\ state' \in State /\ votes' \in [Proc -> Seq(Vote)]
          /\ yetToVote' \in Int /\ miscounted' \in BOOLEAN
      <4>1. state \in State
        BY DEF TypeOK
      <4> QED
        BY <2>1, <3>2, <4>1, CastType
    <3>5. stack' \in Seq(Frame)
      BY <3>2, FramesMade, EmptySeq, Push
    <3> QED
      BY <1>4, <2>1, <3>3, <3>4, <3>5 DEF ServeUpdate, TypeOK
  <2>3. CASE delivered[p] = << >>
    BY <1>4, <2>1, <2>3 DEF ServeUpdate, TypeOK
  <2> QED
    BY <2>2, <2>3
<1>5. CASE ServeClose(p)
  <2>1. stack' \in Seq(Frame)
    BY <1>5, FramesMade, EmptySeq, Push DEF ServeClose
  <2> QED
    BY <1>1, <1>5, <2>1 DEF ServeClose, TypeOK, offerVars
<1>6. CASE Hangup(p)
  <2>1. stack' \in Seq(Frame)
    BY <1>6, FramesMade, EmptySeq, Push DEF Hangup
  <2> QED
    BY <1>6, <2>1 DEF Hangup, TypeOK, offerVars, clientVars
<1> QED
  BY <1>2, <1>3, <1>4, <1>5, <1>6 DEF ServeRpc

\* Type correctness: whatever clients die while the server nests its calls,
\* every variable keeps its type (slib/mp_s_message.C, slib/mp_s_procid.C).
THEOREM OfferTypeCorrect == Spec => []TypeOK
<1>1. ASSUME Init PROVE TypeOK
  <2>1. registered \subseteq Pattern
    BY <1>1, OfferAssumption DEF Init
  <2>2. state \in State /\ handler \in Proc \cup {NoProc} /\ yetToVote \in Int
    BY <1>1 DEF Init, State
  <2>3. /\ rpc \in [Proc -> Seq(Call)] /\ undelivered \in [Proc -> Seq(Entry)]
        /\ delivered \in [Proc -> Seq(Entry)] /\ votes \in [Proc -> Seq(Vote)]
        /\ stack \in Seq(Frame) /\ told \in Seq(State)
    BY <1>1 DEF Init
  <2> QED
    BY <1>1, <2>1, <2>2, <2>3 DEF Init, TypeOK
<1>2. ASSUME TypeOK, [Next]_vars PROVE TypeOK'
  <2>1. CASE Run
    BY <1>2, <2>1, RunType
  <2>2. CASE AskSend
    BY <1>2, <2>2, OfferAssumption, ClientType
  <2>3. ASSUME NEW p \in Proc, AskVote(p) \/ AskNext(p) \/ AskClose(p) \/ Die(p) PROVE TypeOK'
    BY <1>2, <2>3, ClientType
  <2>4. ASSUME NEW p \in Proc, ServeRpc(p) \/ Hangup(p) PROVE TypeOK'
    BY <1>2, <2>4, ServeType
  <2>5. CASE UNCHANGED vars
    BY <1>2, <2>5 DEF TypeOK, vars
  <2> QED
    BY <1>2, <2>1, <2>2, <2>3, <2>4, <2>5 DEF Next
<1> QED
  BY <1>1, <1>2, PTL DEF Spec

-----------------------------------------------------------------------------
(* Kinds of frames on the call stack. *)

Has(s, op)  == \E i \in 1 .. Len(s) : s[i].op = op
Only(s, op) == \A i, j \in 1 .. Len(s) : s[i].op = op /\ s[j].op = op => i = j

\* Every walk on the stack has found no handler.
NoBest(s) == \A i \in 1 .. Len(s) : s[i].op = "match" => s[i].best = NoProc

\* The messages of inactive clients only are given up.
GivenUp(s, act) == \A i \in 1 .. Len(s) : s[i].op = "unread" => ~act[s[i].proc]

\* What remains when the topmost frame is popped.
LEMMA PopKinds ==
    ASSUME NEW s \in Seq(Frame), s # << >>, NEW act
    PROVE  /\ \A op : Has(s, op) <=> Head(s).op = op \/ Has(Tail(s), op)
           /\ \A op : Only(s, op) => Only(Tail(s), op) /\ (Head(s).op = op => ~Has(Tail(s), op))
           /\ NoBest(s) => NoBest(Tail(s)) /\ (Head(s).op = "match" => Head(s).best = NoProc)
           /\ GivenUp(s, act) => /\ GivenUp(Tail(s), act)
                                 /\ Head(s).op = "unread" => ~act[Head(s).proc]
<1>1. /\ Len(s) \in Nat \ {0} /\ Len(Tail(s)) = Len(s) - 1 /\ Head(s) = s[1]
      /\ \A i \in 1 .. Len(s) - 1 : Tail(s)[i] = s[i+1]
  BY EmptySeq, HeadTailProperties
<1>2. \A i \in 1 .. Len(s) : i = 1 \/ (i - 1 \in 1 .. Len(s) - 1 /\ s[i] = Tail(s)[i-1])
  BY <1>1
<1>3. \A op : Has(s, op) => Head(s).op = op \/ Has(Tail(s), op)
  BY <1>1, <1>2 DEF Has
<1>4. \A op : Head(s).op = op \/ Has(Tail(s), op) => Has(s, op)
  BY <1>1 DEF Has
<1>5. \A op : Only(s, op) => Only(Tail(s), op) /\ (Head(s).op = op => ~Has(Tail(s), op))
  BY <1>1 DEF Only, Has
<1>6. NoBest(s) => NoBest(Tail(s)) /\ (Head(s).op = "match" => Head(s).best = NoProc)
  BY <1>1 DEF NoBest
<1>7. GivenUp(s, act) => GivenUp(Tail(s), act) /\ (Head(s).op = "unread" => ~act[Head(s).proc])
  BY <1>1 DEF GivenUp
<1> QED
  BY <1>3, <1>4, <1>5, <1>6, <1>7

\* What a frame that is pushed adds.
LEMMA PushKinds ==
    ASSUME NEW s \in Seq(Frame), NEW f \in Frame, NEW act
    PROVE  /\ <<f>> \o s \in Seq(Frame) /\ <<f>> \o s # << >> /\ Head(<<f>> \o s) = f
           /\ \A op : Has(<<f>> \o s, op) <=> f.op = op \/ Has(s, op)
           /\ \A op : Only(s, op) /\ (f.op = op => ~Has(s, op)) => Only(<<f>> \o s, op)
           /\ NoBest(s) /\ (f.op = "match" => f.best = NoProc) => NoBest(<<f>> \o s)
           /\ GivenUp(s, act) /\ (f.op = "unread" => ~act[f.proc]) => GivenUp(<<f>> \o s, act)
<1> DEFINE t == <<f>> \o s
<1>1. /\ Len(s) \in Nat /\ t \in Seq(Frame) /\ Len(t) = Len(s) + 1 /\ t[1] = f
      /\ \A i \in 1 .. Len(s) : t[i+1] = s[i]
  OBVIOUS
<1> HIDE DEF t
<1>2. t # << >> /\ Head(t) = f
  BY <1>1
<1>3. \A i \in 1 .. Len(t) : i = 1 \/ (i - 1 \in 1 .. Len(s) /\ t[i] = s[i-1])
  BY <1>1
<1>8. 1 \in 1 .. Len(t) /\ \A i \in 1 .. Len(s) : i + 1 \in 1 .. Len(t) /\ t[i+1] = s[i]
  BY <1>1
<1>4. ASSUME NEW op PROVE Has(t, op) <=> f.op = op \/ Has(s, op)
  <2>1. ASSUME Has(t, op) PROVE f.op = op \/ Has(s, op)
    <3>1. PICK i \in 1 .. Len(t) : t[i].op = op
      BY <2>1 DEF Has
    <3> QED
      BY <1>1, <1>3, <3>1 DEF Has
  <2>2. f.op = op => Has(t, op)
    BY <1>1, <1>8 DEF Has
  <2>3. ASSUME Has(s, op) PROVE Has(t, op)
    <3>1. PICK i \in 1 .. Len(s) : s[i].op = op
      BY <2>3 DEF Has
    <3> QED
      BY <1>8, <3>1 DEF Has
  <2> QED
    BY <2>1, <2>2, <2>3
<1>5. \A op : Only(s, op) /\ (f.op = op => ~Has(s, op)) => Only(t, op)
  <2> SUFFICES ASSUME NEW op, Only(s, op), f.op = op => ~Has(s, op),
                      NEW i \in 1 .. Len(t), NEW j \in 1 .. Len(t), t[i].op = op, t[j].op = op
               PROVE  i = j
    BY DEF Only
  <2>1. CASE i = 1 /\ j = 1
    BY <2>1
  <2>2. CASE f.op = op
    <3>1. \A k \in 1 .. Len(s) : s[k].op # op
      BY <2>2 DEF Has
    <3> QED
      BY <1>3, <3>1
  <2>3. CASE f.op # op
    <3>1. /\ i - 1 \in 1 .. Len(s) /\ t[i] = s[i-1]
          /\ j - 1 \in 1 .. Len(s) /\ t[j] = s[j-1]
      BY <1>1, <1>3, <2>3
    <3>2. i - 1 = j - 1
      BY <3>1 DEF Only
    <3> QED
      BY <3>2
  <2> QED
    BY <2>1, <2>2, <2>3
<1>6. NoBest(s) /\ (f.op = "match" => f.best = NoProc) => NoBest(t)
  BY <1>1, <1>3 DEF NoBest
<1>7. ASSUME GivenUp(s, act), f.op = "unread" => ~act[f.proc] PROVE GivenUp(t, act)
  <2> SUFFICES ASSUME NEW i \in 1 .. Len(t), t[i].op = "unread" PROVE ~act[t[i].proc]
    BY DEF GivenUp
  <2>1. CASE i = 1
    BY <1>1, <1>7, <2>1
  <2>2. CASE i - 1 \in 1 .. Len(s) /\ t[i] = s[i-1]
    BY <1>7, <2>2 DEF GivenUp
  <2> QED
    BY <1>3, <2>1, <2>2
<1> QED
  BY <1>1, <1>2, <1>4, <1>5, <1>6, <1>7 DEF t

-----------------------------------------------------------------------------
(* Counting votes. *)

\* The entries of a list that are in a set, by their places.
Places(u, E) == {i \in 1 .. Len(u) : u[i] \in E}

\* A list has finitely many places.
LEMMA PlacesFinite ==
    ASSUME NEW u \in Seq(Entry), NEW E
    PROVE  IsFiniteSet(Places(u, E)) /\ Cardinality(Places(u, E)) \in Nat
<1>1. Len(u) \in Nat
  BY LenProperties
<1>2. IsFiniteSet(1 .. Len(u)) /\ Places(u, E) \subseteq 1 .. Len(u)
  BY <1>1, FS_Interval DEF Places
<1>3. IsFiniteSet(Places(u, E))
  BY <1>2, FS_Subset
<1> QED
  BY <1>3, FS_CardinalityType

\* An entry appended has a place if it is in the set.
LEMMA PlacesAppend ==
    ASSUME NEW u \in Seq(Entry), NEW E, NEW e \in Entry
    PROVE  /\ e \in E => Cardinality(Places(Append(u, e), E)) = Cardinality(Places(u, E)) + 1
           /\ e \notin E => Places(Append(u, e), E) = Places(u, E)
<1> DEFINE t == Append(u, e)
<1>1. /\ Len(u) \in Nat /\ Len(t) = Len(u) + 1 /\ t[Len(u) + 1] = e
      /\ \A i \in 1 .. Len(u) : t[i] = u[i]
  BY AppendProperties, LenProperties
<1> HIDE DEF t
<1>2. e \in E => Places(t, E) = Places(u, E) \cup {Len(u) + 1}
  BY <1>1 DEF Places
<1>3. e \notin E => Places(t, E) = Places(u, E)
  BY <1>1 DEF Places
<1>4. Len(u) + 1 \notin Places(u, E)
  BY <1>1 DEF Places
<1>5. e \in E => Cardinality(Places(t, E)) = Cardinality(Places(u, E)) + 1
  BY <1>2, <1>4, PlacesFinite, FS_AddElement
<1> QED
  BY <1>3, <1>5 DEF t

\* The first entry removed gives its place up if it is in the set.
LEMMA PlacesTail ==
    ASSUME NEW u \in Seq(Entry), u # << >>, NEW E
    PROVE  Cardinality(Places(u, E)) =
             Cardinality(Places(Tail(u), E)) + (IF Head(u) \in E THEN 1 ELSE 0)
<1> DEFINE t == Tail(u)
           S == Places(u, E) \ {1}
           f == [i \in S |-> i - 1]
<1>1. /\ Len(u) \in Nat \ {0} /\ t \in Seq(Entry) /\ Len(t) = Len(u) - 1 /\ Head(u) = u[1]
      /\ \A i \in 1 .. Len(u) - 1 : t[i] = u[i+1]
  BY EmptySeq, HeadTailProperties
<1> HIDE DEF t
<1>2. \A i \in S : i \in Int /\ i - 1 \in Places(t, E)
  BY <1>1 DEF Places
<1>3. \A j \in Places(t, E) : j \in Int /\ j + 1 \in S /\ (j + 1) - 1 = j
  BY <1>1 DEF Places
<1>4. f \in Bijection(S, Places(t, E))
  <2>1. f \in [S -> Places(t, E)] /\ \A i, j \in S : f[i] = f[j] => i = j
    BY <1>2
  <2>2. \A j \in Places(t, E) : \E i \in S : f[i] = j
    <3> SUFFICES ASSUME NEW j \in Places(t, E) PROVE \E i \in S : f[i] = j
      OBVIOUS
    <3>1. j + 1 \in S /\ f[j + 1] = j
      BY <1>3
    <3> QED
      BY <3>1
  <2> HIDE DEF f, S
  <2>3. f \in Injection(S, Places(t, E))
    BY <2>1 DEF Injection, IsInjective
  <2>4. \A j \in Places(t, E) : \E i \in S : f[i] = j
    BY <2>2
  <2>5. f \in Surjection(S, Places(t, E))
    BY <2>1, <2>4 DEF Surjection
  <2> QED
    BY <2>3, <2>5 DEF Bijection
<1> HIDE DEF f
<1>5. ExistsBijection(S, Places(t, E))
  BY <1>4 DEF ExistsBijection
<1>6. IsFiniteSet(S) /\ Cardinality(S) = IF 1 \in Places(u, E) THEN Cardinality(Places(u, E)) - 1 ELSE Cardinality(Places(u, E))
  BY PlacesFinite, FS_RemoveElement
<1>7. Cardinality(Places(t, E)) = Cardinality(S)
  BY <1>5, <1>6, FS_Bijection
<1>8. 1 \in Places(u, E) <=> Head(u) \in E
  BY <1>1 DEF Places
<1>9. Cardinality(Places(u, E)) \in Nat
  BY PlacesFinite
<1> QED
  BY <1>6, <1>7, <1>8, <1>9 DEF t

\* As many ballots as f has for each client.
BallotsOf(f) == {t \in Proc \X Nat : 0 < t[2] /\ t[2] <= f[t[1]]}

\* One ballot more for p.
LEMMA OneMore ==
    \A f \in [Proc -> Nat], p \in Proc : IsFiniteSet(BallotsOf(f)) =>
       LET g == [f EXCEPT ![p] = @ + 1]
       IN  IsFiniteSet(BallotsOf(g)) /\ Cardinality(BallotsOf(g)) = Cardinality(BallotsOf(f)) + 1
<1> SUFFICES ASSUME NEW f \in [Proc -> Nat], NEW p \in Proc, IsFiniteSet(BallotsOf(f))
             PROVE  /\ IsFiniteSet(BallotsOf([f EXCEPT ![p] = @ + 1]))
                    /\ Cardinality(BallotsOf([f EXCEPT ![p] = @ + 1])) = Cardinality(BallotsOf(f)) + 1
  OBVIOUS
<1> DEFINE g == [f EXCEPT ![p] = @ + 1]
<1>1. BallotsOf(g) = BallotsOf(f) \cup {<<p, f[p] + 1>>}
  BY DEF BallotsOf
<1>2. <<p, f[p] + 1>> \notin BallotsOf(f)
  <2>1. ~(f[p] + 1 <= f[p])
    OBVIOUS
  <2> QED
    BY <2>1 DEF BallotsOf
<1> DEFINE S == BallotsOf(f)
           x == <<p, f[p] + 1>>
<1>3. IsFiniteSet(S) /\ x \notin S /\ BallotsOf(g) = S \cup {x}
  BY <1>1, <1>2
<1> HIDE DEF S, x
<1>4. IsFiniteSet(S \cup {x}) /\ Cardinality(S \cup {x}) = Cardinality(S) + 1
  BY <1>3, FS_AddElement
<1> QED
  BY <1>3, <1>4 DEF S

\* One ballot less for p.
LEMMA OneLess ==
    ASSUME NEW f \in [Proc -> Nat], NEW p \in Proc, NEW g, g = [f EXCEPT ![p] = @ - 1],
           f[p] > 0, IsFiniteSet(BallotsOf(f))
    PROVE  IsFiniteSet(BallotsOf(g)) /\ Cardinality(BallotsOf(g)) = Cardinality(BallotsOf(f)) - 1
<1>1. BallotsOf(g) = BallotsOf(f) \ {<<p, f[p]>>}
  BY DEF BallotsOf
<1>2. <<p, f[p]>> \in BallotsOf(f)
  BY DEF BallotsOf
<1> DEFINE S == BallotsOf(f)
           x == <<p, f[p]>>
<1>3. IsFiniteSet(S) /\ x \in S /\ BallotsOf(g) = S \ {x}
  BY <1>1, <1>2
<1> HIDE DEF S, x
<1>4. IsFiniteSet(S \ {x}) /\ Cardinality(S \ {x}) = Cardinality(S) - 1
  BY <1>3, FS_RemoveElement
<1> QED
  BY <1>3, <1>4 DEF S

\* No ballot is left when they are none.
LEMMA NoneLeft ==
    ASSUME NEW f \in [Proc -> Nat], IsFiniteSet(BallotsOf(f)), Cardinality(BallotsOf(f)) <= 0
    PROVE  \A p \in Proc : f[p] = 0
<1>1. Cardinality(BallotsOf(f)) = 0
  BY FS_CardinalityType
<1>2. BallotsOf(f) = {}
  BY <1>1, FS_EmptySet
<1>3. \A p \in Proc : f[p] > 0 => <<p, f[p]>> \in BallotsOf(f)
  BY DEF BallotsOf
<1> QED
  BY <1>2, <1>3

-----------------------------------------------------------------------------
(* The inductive invariant. *)

\* The places of the offer itself in the list of p.
Lives(p) == Places(undelivered[p], {"LIVE"})

\* The votes that every client has still to cast.
Duty == [p \in Proc |-> Outstanding(p)]

\* Until the offer is sent nobody has anything to do with it.
Fresh == state = "CREATED" =>
    /\ \A p \in Proc : /\ undelivered[p] = << >> /\ delivered[p] = << >>
                       /\ votes[p] = << >> /\ asked[p] = 0
    /\ yetToVote = 0 /\ ~returned /\ ~miscounted /\ told = << >>
    /\ ~Has(stack, "match") /\ ~Has(stack, "ballots") /\ ~Has(stack, "report")

\* The offer is sent once.
SentOnce ==
    /\ Sender \notin asks => state = "CREATED"
    /\ \A p \in Proc : \A i \in 1 .. Len(rpc[p]) : rpc[p][i].call = "send" =>
          /\ p = Sender /\ Sender \in asks /\ state = "CREATED"
          /\ \A j \in 1 .. Len(rpc[p]) : rpc[p][j].call = "send" => j = i

\* The client whose messages are given up is not active.
Dead == GivenUp(stack, active)

\* Every client has voted as often as it was asked, save for what it has still
\* to vote on; and until the offer is returned, that is what is counted.
Balance == ~miscounted =>
    /\ \A p \in Proc : Len(votes[p]) + Outstanding(p) = asked[p]
    /\ ~returned => IsFiniteSet(BallotsOf(Duty)) /\ yetToVote = Cardinality(BallotsOf(Duty))

\* Until the offer is returned, only its handler has it.
Before == ~miscounted /\ ~returned =>
    /\ told = << >> /\ ~Has(stack, "report") /\ state # "RETURNED"
    /\ \A p \in Proc : Lives(p) # {} => handler = p

\* The walk over the patterns goes on at the top of the stack, and its best
\* handler is active, or a client with something to vote on is given up.
WalkTop ==
    LET f == Head(stack) IN
    \/ /\ f.op = "match" /\ Only(stack, "match") /\ (f.best # NoProc => active[f.best])
       /\ \A p \in Proc : Lives(p) = {}
    \/ f.op = "deactivate" /\ active[f.proc] /\ Unseen(f.proc) # {}
    \/ f.op = "unread" /\ Unseen(f.proc) # {}

Walks == ~miscounted /\ ~returned /\ Has(stack, "match") => state = "SENT" /\ WalkTop

\* The sender is told once.
Telling ==
    \/ Has(stack, "report") /\ told = << >> /\ Lives(Sender) = {}
    \/ ~Has(stack, "report") /\ told = << >> /\ \E i \in 1 .. Len(undelivered[Sender]) : Lives(Sender) = {i}
    \/ ~Has(stack, "report") /\ told = <<"RETURNED">> /\ Lives(Sender) = {}

\* Once the offer is returned nobody has anything to vote on.
After == ~miscounted /\ returned =>
    /\ state = "RETURNED" /\ NoBest(stack) /\ Only(stack, "report")
    /\ \A p \in Proc : delivered[p] = << >> /\ Unseen(p) = {}
    /\ active[Sender] => Telling

OfferInv == Fresh /\ SentOnce /\ Dead /\ Balance /\ Before /\ Walks /\ After

\* What p can vote on.
Votables(p) == {e \in Entry : Votable(p, e)}

\* What is outstanding is counted by places in the list.
LEMMA OutstandingPlaces ==
    ASSUME TypeOK, NEW p \in Proc
    PROVE  /\ Unseen(p) = Places(undelivered[p], Votables(p))
           /\ Outstanding(p) = Len(delivered[p]) + Cardinality(Places(undelivered[p], Votables(p)))
           /\ Cardinality(Unseen(p)) \in Nat /\ Outstanding(p) \in Nat
           /\ Outstanding(p) = 0 <=> delivered[p] = << >> /\ Unseen(p) = {}
<1>1. undelivered[p] \in Seq(Entry) /\ delivered[p] \in Seq(Entry)
  BY DEF TypeOK
<1>2. Unseen(p) = Places(undelivered[p], Votables(p))
  <2>1. \A i \in DOMAIN undelivered[p] : undelivered[p][i] \in Entry
    BY <1>1, ElementOfSeq
  <2>2. DOMAIN undelivered[p] = 1 .. Len(undelivered[p])
    BY <1>1, LenProperties
  <2> QED
    BY <2>1, <2>2 DEF Unseen, Places, Votables
<1>3. IsFiniteSet(Unseen(p)) /\ Cardinality(Unseen(p)) \in Nat
  BY <1>1, <1>2, PlacesFinite
<1>4. Cardinality(Unseen(p)) = 0 <=> Unseen(p) = {}
  BY <1>3, FS_EmptySet
<1>5. Len(delivered[p]) \in Nat /\ (Len(delivered[p]) = 0 <=> delivered[p] = << >>)
  BY <1>1, EmptySeq, LenProperties
<1> QED
  BY <1>2, <1>3, <1>4, <1>5 DEF Outstanding

\* Nothing changes in what p has to vote on.
LEMMA DutyStays ==
    ASSUME TypeOK, TypeOK', NEW p \in Proc,
           undelivered'[p] = undelivered[p], delivered'[p] = delivered[p],
           \A e \in Entry : (e = "LIVE" => Lives(p) # {}) => (Votable(p, e)' <=> Votable(p, e))
    PROVE  Unseen(p)' = Unseen(p) /\ Outstanding(p)' = Outstanding(p)
<1>1. undelivered[p] \in Seq(Entry) /\ DOMAIN undelivered[p] = 1 .. Len(undelivered[p])
  BY LenProperties DEF TypeOK
<1>2. ASSUME NEW i \in DOMAIN undelivered[p]
      PROVE  Votable(p, undelivered[p][i])' <=> Votable(p, undelivered[p][i])
  <2>1. undelivered[p][i] \in Entry
    BY <1>1, ElementOfSeq
  <2>2. undelivered[p][i] = "LIVE" => i \in Lives(p)
    BY <1>1 DEF Lives, Places
  <2>3. Votable(p, undelivered[p][i])' <=> (undelivered'[p][i] = "SENT" \/ (undelivered'[p][i] = "LIVE" /\ handler' = p /\ state' # "RETURNED"))
    BY DEF Votable
  <2>4. \A e : Votable(p, e)' <=> (e = "SENT" \/ (e = "LIVE" /\ handler' = p /\ state' # "RETURNED"))
    BY DEF Votable
  <2> QED
    BY <2>1, <2>2, <2>3, <2>4
<1>3. Unseen(p)' = Unseen(p)
  BY <1>2 DEF Unseen
<1> QED
  BY <1>3 DEF Outstanding

\* The counts balance as long as nobody is asked and nobody votes.
LEMMA BalanceStays ==
    ASSUME TypeOK, TypeOK', Balance, \A p \in Proc : Outstanding(p)' = Outstanding(p),
           votes' = votes, asked' = asked, returned => returned', miscounted => miscounted',
           ~returned' => yetToVote' = yetToVote
    PROVE  Balance'
<1>1. Duty' = Duty
  BY DEF Duty
<1>2. \A p \in Proc : Len(votes'[p]) + Outstanding(p)' = Len(votes[p]) + Outstanding(p) /\ asked'[p] = asked[p]
  OBVIOUS
<1> QED
  BY <1>1, <1>2 DEF Balance

\* They balance when p casts a vote it had to cast.
LEMMA BalanceCast ==
    ASSUME TypeOK, TypeOK', Balance, NEW p \in Proc,
           Outstanding(p) > 0, Outstanding(p)' = Outstanding(p) - 1,
           \A q \in Proc \ {p} : Outstanding(q)' = Outstanding(q),
           NEW v \in Vote, votes' = [votes EXCEPT ![p] = Append(@, v)],
           asked' = asked, returned => returned', miscounted => miscounted',
           yetToVote' = yetToVote - 1
    PROVE  Balance'
<1>1. \A q \in Proc : Outstanding(q) \in Nat /\ votes[q] \in Seq(Vote) /\ Len(votes[q]) \in Nat
  BY OutstandingPlaces, LenProperties DEF TypeOK
<1>3. Duty \in [Proc -> Nat] /\ Duty[p] > 0 /\ Duty' = [Duty EXCEPT ![p] = @ - 1]
  BY <1>1 DEF Duty
<1>4. ASSUME NEW q \in Proc PROVE Len(votes'[q]) + Outstanding(q)' = Len(votes[q]) + Outstanding(q)
  <2>1. CASE q = p
    <3>1. votes'[q] = Append(votes[q], v)
      BY <2>1 DEF TypeOK
    <3>2. Len(votes'[q]) = Len(votes[q]) + 1
      BY <1>1, <3>1, AppendProperties
    <3> QED
      BY <1>1, <2>1, <3>2
  <2>2. CASE q # p
    BY <2>2 DEF TypeOK
  <2> QED
    BY <2>1, <2>2
<1>5. ASSUME ~miscounted', ~returned'
      PROVE  IsFiniteSet(BallotsOf(Duty')) /\ yetToVote' = Cardinality(BallotsOf(Duty'))
  <2>1. IsFiniteSet(BallotsOf(Duty)) /\ yetToVote = Cardinality(BallotsOf(Duty))
    BY <1>5 DEF Balance
  <2> QED
    BY <1>3, <2>1, OneLess
<1>6. BallotsOf(Duty)' = BallotsOf(Duty')
  BY DEF BallotsOf
<1> QED
  BY <1>4, <1>5, <1>6 DEF Balance

\* They balance when p is asked for one vote more.
LEMMA BalanceAsk ==
    ASSUME TypeOK, TypeOK', Balance, NEW p \in Proc, Outstanding(p)' = Outstanding(p) + 1,
           \A q \in Proc \ {p} : Outstanding(q)' = Outstanding(q),
           votes' = votes, asked' = [asked EXCEPT ![p] = @ + 1],
           returned => returned', miscounted => miscounted', yetToVote' = yetToVote + 1
    PROVE  Balance'
<1>1. \A q \in Proc : Outstanding(q) \in Nat /\ Len(votes[q]) \in Nat /\ asked[q] \in Nat
  BY OutstandingPlaces, LenProperties DEF TypeOK
<1>2. Duty \in [Proc -> Nat] /\ Duty' = [Duty EXCEPT ![p] = @ + 1]
  BY <1>1 DEF Duty
<1>3. ASSUME ~miscounted', NEW q \in Proc PROVE Len(votes'[q]) + Outstanding(q)' = asked'[q]
  <2>1. Len(votes[q]) + Outstanding(q) = asked[q]
    BY <1>3 DEF Balance
  <2>2. asked'[q] = IF q = p THEN asked[q] + 1 ELSE asked[q]
    BY DEF TypeOK
  <2> QED
    BY <1>1, <2>1, <2>2
<1>4. ASSUME ~miscounted', ~returned'
      PROVE  IsFiniteSet(BallotsOf(Duty')) /\ yetToVote' = Cardinality(BallotsOf(Duty'))
  <2>1. IsFiniteSet(BallotsOf(Duty)) /\ yetToVote = Cardinality(BallotsOf(Duty))
    BY <1>4 DEF Balance
  <2>2. /\ IsFiniteSet(BallotsOf(Duty'))
        /\ Cardinality(BallotsOf(Duty')) = Cardinality(BallotsOf(Duty)) + 1
    <3> DEFINE f == Duty
               g == Duty'
    <3>1. f \in [Proc -> Nat] /\ g = [f EXCEPT ![p] = @ + 1] /\ IsFiniteSet(BallotsOf(f))
      BY <1>2, <2>1
    <3> HIDE DEF f, g
    <3>2. IsFiniteSet(BallotsOf(g)) /\ Cardinality(BallotsOf(g)) = Cardinality(BallotsOf(f)) + 1
      <4>1. /\ IsFiniteSet(BallotsOf([f EXCEPT ![p] = @ + 1]))
            /\ Cardinality(BallotsOf([f EXCEPT ![p] = @ + 1])) = Cardinality(BallotsOf(f)) + 1
        BY <3>1, OneMore
      <4> QED
        BY <3>1, <4>1
    <3> QED
      BY <3>2 DEF f, g
  <2> QED
    BY <2>1, <2>2
<1>5. BallotsOf(Duty)' = BallotsOf(Duty')
  BY DEF BallotsOf
<1> QED
  BY <1>3, <1>4, <1>5 DEF Balance

-----------------------------------------------------------------------------
(* Clients. *)

\* What a client does leaves alone what the server knows of the offer.
LEMMA ClientKeeps ==
    ASSUME TypeOK, TypeOK', OfferInv,
           UNCHANGED <<active, undelivered, delivered, offerVars, stack, told>>
    PROVE  Fresh' /\ Dead' /\ Balance' /\ Before' /\ Walks' /\ After'
<1>1. \A p \in Proc : Unseen(p)' = Unseen(p) /\ Outstanding(p)' = Outstanding(p)
  BY DutyStays DEF offerVars, Votable
<1>2. Fresh' /\ Dead'
  BY DEF OfferInv, Fresh, Dead, offerVars
<1>3. Balance'
  BY <1>1, BalanceStays DEF OfferInv, offerVars
<1>4. \A p \in Proc : Lives(p)' = Lives(p)
  BY DEF Lives
<1>5. Before'
  BY <1>4 DEF OfferInv, Before, offerVars
<1>6. Walks'
  <2> SUFFICES ASSUME ~miscounted, ~returned, Has(stack, "match") PROVE state = "SENT" /\ WalkTop'
    BY DEF Walks, offerVars
  <2>1. state = "SENT" /\ WalkTop /\ Head(stack) \in Frame
    BY HeadTailProperties DEF OfferInv, Walks, Has, TypeOK
  <2>2. Head(stack).op \in {"deactivate", "unread"} => Head(stack).proc \in Proc
    BY <2>1 DEF Frame
  <2> QED
    BY <1>1, <1>4, <2>1, <2>2 DEF WalkTop
<1>7. After'
  <2>1. Telling => Telling'
    BY <1>4, OfferAssumption DEF Telling
  <2> QED
    BY <1>1, <2>1 DEF OfferInv, After, offerVars
<1> QED
  BY <1>2, <1>3, <1>5, <1>6, <1>7

\* The calls of a client are those it had and those it asks for.
LEMMA CallsAsked ==
    ASSUME TypeOK, NEW p \in Proc, NEW calls \in Seq(Call), Ask(p, calls)
    PROVE  /\ Len(rpc[p]) \in Nat /\ Len(rpc'[p]) = Len(rpc[p]) + Len(calls)
           /\ \A i \in 1 .. Len(rpc'[p]) :
                 \/ i \in 1 .. Len(rpc[p]) /\ rpc'[p][i] = rpc[p][i]
                 \/ /\ i > Len(rpc[p]) /\ i - Len(rpc[p]) \in 1 .. Len(calls)
                    /\ rpc'[p][i] = calls[i - Len(rpc[p])]
           /\ \A q \in Proc \ {p} : rpc'[q] = rpc[q]
<1>1. rpc[p] \in Seq(Call) /\ rpc'[p] = rpc[p] \o calls /\ \A q \in Proc \ {p} : rpc'[q] = rpc[q]
  BY DEF Ask, TypeOK
<1>2. Len(rpc[p]) \in Nat /\ Len(calls) \in Nat
  BY <1>1, LenProperties
<1>3. /\ Len(rpc'[p]) = Len(rpc[p]) + Len(calls)
      /\ \A i \in 1 .. Len(rpc[p]) + Len(calls) :
            rpc'[p][i] = IF i <= Len(rpc[p]) THEN rpc[p][i] ELSE calls[i - Len(rpc[p])]
  BY <1>1, <1>2, ConcatProperties
<1> QED
  BY <1>1, <1>2, <1>3

\* A client that asks for something else sends nothing.
LEMMA OtherAsked ==
    ASSUME TypeOK, SentOnce, NEW p \in Proc, NEW calls \in Seq(Call), Ask(p, calls),
           \A i \in 1 .. Len(calls) : calls[i].call # "send", asks' = asks
    PROVE  SentOnce'
<1>1. state' = state
  BY DEF Ask, offerVars
<1>2. ASSUME NEW q \in Proc, NEW i \in 1 .. Len(rpc'[q]), rpc'[q][i].call = "send"
      PROVE  i \in 1 .. Len(rpc[q]) /\ rpc'[q][i] = rpc[q][i]
  <2>1. /\ \A j \in 1 .. Len(rpc'[p]) :
                 \/ j \in 1 .. Len(rpc[p]) /\ rpc'[p][j] = rpc[p][j]
                 \/ rpc'[p][j].call # "send"
        /\ \A r \in Proc \ {p} : rpc'[r] = rpc[r]
    <3>1. /\ \A j \in 1 .. Len(rpc'[p]) :
                 \/ j \in 1 .. Len(rpc[p]) /\ rpc'[p][j] = rpc[p][j]
                 \/ j - Len(rpc[p]) \in 1 .. Len(calls) /\ rpc'[p][j] = calls[j - Len(rpc[p])]
          /\ \A r \in Proc \ {p} : rpc'[r] = rpc[r]
      BY CallsAsked
    <3> QED
      BY <3>1
  <2> QED
    BY <1>2, <2>1
<1> QED
  BY <1>1, <1>2 DEF SentOnce

\* What a client does keeps the invariant.
LEMMA ClientInv ==
    ASSUME TypeOK, TypeOK', OfferInv, NEW p \in Proc,
           AskSend \/ AskVote(p) \/ AskNext(p) \/ AskClose(p) \/ Die(p)
    PROVE  OfferInv'
<1>1. UNCHANGED <<active, undelivered, delivered, offerVars, stack, told>>
  BY DEF AskSend, AskVote, AskNext, AskClose, Die, Ask
<1>2. SentOnce'
  <2>0. SentOnce
    BY DEF OfferInv
  <2>1. CASE AskSend
    <3> DEFINE calls == <<[call |-> "send"]>>
    <3>1. calls \in Seq(Call) /\ Len(calls) = 1 /\ Sender \in Proc
      BY OfferAssumption DEF Call
    <3>2. Ask(Sender, calls) /\ Sender \notin asks /\ Sender \in asks'
      BY <2>1 DEF AskSend
    <3> HIDE DEF calls
    <3>3. state = "CREATED" /\ state' = state
      BY <2>0, <3>2 DEF SentOnce, Ask, offerVars
    <3>4. \A q \in Proc : \A i \in 1 .. Len(rpc[q]) : rpc[q][i].call # "send"
      BY <2>0, <3>2 DEF SentOnce
    <3>5. ASSUME NEW q \in Proc, NEW i \in 1 .. Len(rpc'[q]), rpc'[q][i].call = "send"
          PROVE  q = Sender /\ i = Len(rpc[q]) + 1
      <4>1. /\ Len(rpc[Sender]) \in Nat /\ Len(rpc'[Sender]) = Len(rpc[Sender]) + 1
            /\ \A j \in 1 .. Len(rpc'[Sender]) :
                  \/ j \in 1 .. Len(rpc[Sender]) /\ rpc'[Sender][j] = rpc[Sender][j]
                  \/ j > Len(rpc[Sender])
            /\ \A r \in Proc \ {Sender} : rpc'[r] = rpc[r]
        BY <3>1, <3>2, CallsAsked
      <4> QED
        BY <3>4, <3>5, <4>1
    <3> QED
      BY <3>2, <3>3, <3>5 DEF SentOnce
  <2>2. CASE AskVote(p)
    <3>1. PICK v \in Answers : Ask(p, <<[call |-> "update", to |-> v]>>)
      BY <2>2 DEF AskVote
    <3> DEFINE calls == <<[call |-> "update", to |-> v]>>
    <3>2. calls \in Seq(Call) /\ \A i \in 1 .. Len(calls) : calls[i].call # "send"
      BY OfferAssumption DEF Call
    <3>3. asks' = asks
      BY <2>2 DEF AskVote
    <3> QED
      BY <2>0, <3>1, <3>2, <3>3, OtherAsked
  <2>3. CASE AskNext(p)
    <3> DEFINE abstain == IF hand[p] # "none" THEN <<[call |-> "update", to |-> "ABSTAINED"]>> ELSE << >>
               next == <<[call |-> "next"]>>
               calls == abstain \o next
    <3>1. abstain \in Seq(Call) /\ \A i \in 1 .. Len(abstain) : abstain[i].call # "send"
      <4>1. CASE hand[p] # "none"
        BY <4>1 DEF Call, Vote
      <4>2. CASE hand[p] = "none"
        BY <4>2
      <4> QED
        BY <4>1, <4>2
    <3>2. next \in Seq(Call) /\ Len(next) = 1 /\ next[1].call # "send"
      BY DEF Call
    <3>3. Ask(p, calls) /\ asks' = asks
      BY <2>3 DEF AskNext
    <3> HIDE DEF abstain, next
    <3>4. calls \in Seq(Call) /\ \A i \in 1 .. Len(calls) : calls[i].call # "send"
      BY <3>1, <3>2, ConcatProperties
    <3> QED
      BY <2>0, <3>3, <3>4, OtherAsked
  <2>4. CASE AskClose(p)
    <3> DEFINE calls == <<[call |-> "close"]>>
    <3>1. calls \in Seq(Call) /\ \A i \in 1 .. Len(calls) : calls[i].call # "send"
      BY DEF Call
    <3>2. Ask(p, calls) /\ asks' = asks
      BY <2>4 DEF AskClose
    <3> QED
      BY <2>0, <3>1, <3>2, OtherAsked
  <2>5. CASE Die(p)
    BY <2>0, <2>5 DEF Die, SentOnce, offerVars
  <2> QED
    BY <2>1, <2>2, <2>3, <2>4, <2>5
<1> QED
  BY <1>1, <1>2, ClientKeeps DEF OfferInv

\* A call that is served sends nothing later.
LEMMA SentKept ==
    ASSUME TypeOK, SentOnce, asks' = asks, state = "CREATED" => state' = "CREATED",
           rpc' = rpc \/ \E p \in Proc : rpc[p] # << >> /\ rpc' = [rpc EXCEPT ![p] = Tail(@)]
    PROVE  SentOnce'
<1>1. ASSUME NEW q \in Proc, NEW i \in 1 .. Len(rpc'[q])
      PROVE  \/ i \in 1 .. Len(rpc[q]) /\ rpc'[q] = rpc[q]
             \/ i + 1 \in 1 .. Len(rpc[q]) /\ rpc'[q][i] = rpc[q][i+1] /\ rpc'[q] = Tail(rpc[q])
  <2>1. CASE rpc'[q] = rpc[q]
    BY <2>1
  <2>2. CASE rpc[q] # << >> /\ rpc'[q] = Tail(rpc[q])
    <3>1. rpc[q] \in Seq(Call)
      BY DEF TypeOK
    <3>2. /\ Len(rpc[q]) \in Nat \ {0} /\ Len(Tail(rpc[q])) = Len(rpc[q]) - 1
          /\ \A j \in 1 .. Len(rpc[q]) - 1 : Tail(rpc[q])[j] = rpc[q][j+1]
      BY <2>2, <3>1, EmptySeq, HeadTailProperties
    <3> QED
      BY <2>2, <3>2
  <2> QED
    BY <2>1, <2>2 DEF TypeOK
<1>2. ASSUME NEW q \in Proc, NEW i \in 1 .. Len(rpc'[q]), rpc'[q][i].call = "send",
             NEW j \in 1 .. Len(rpc'[q]), rpc'[q][j].call = "send"
      PROVE  j = i /\ q = Sender /\ Sender \in asks /\ state = "CREATED"
  <2>1. CASE rpc'[q] = rpc[q]
    BY <1>2, <2>1 DEF SentOnce
  <2>2. CASE rpc'[q] # rpc[q]
    <3>1. /\ i + 1 \in 1 .. Len(rpc[q]) /\ rpc'[q][i] = rpc[q][i+1]
          /\ j + 1 \in 1 .. Len(rpc[q]) /\ rpc'[q][j] = rpc[q][j+1]
      BY <1>1, <2>2
    <3>2. i + 1 = j + 1 /\ q = Sender /\ Sender \in asks /\ state = "CREATED"
      BY <1>2, <3>1 DEF SentOnce
    <3> QED
      BY <3>2
  <2> QED
    BY <2>1, <2>2
<1> QED
  BY <1>2 DEF SentOnce

-----------------------------------------------------------------------------
(* The lists and what is to be voted on in them. *)

\* The entries p can vote on when h handles the offer in state s.
ToVoteOn(h, s, p) == {"SENT"} \cup (IF h = p /\ s # "RETURNED" THEN {"LIVE"} ELSE {})

\* What has to be voted on before and after a step.
LEMMA UnseenPlaces ==
    ASSUME TypeOK, TypeOK', NEW p \in Proc
    PROVE  /\ Unseen(p) = Places(undelivered[p], ToVoteOn(handler, state, p))
           /\ Unseen(p)' = Places(undelivered'[p], ToVoteOn(handler', state', p))
           /\ Outstanding(p) = Len(delivered[p]) + Cardinality(Places(undelivered[p], ToVoteOn(handler, state, p)))
           /\ Outstanding(p)' = Len(delivered'[p]) + Cardinality(Places(undelivered'[p], ToVoteOn(handler', state', p)))
<1>1. DOMAIN undelivered[p] = 1 .. Len(undelivered[p]) /\ DOMAIN undelivered'[p] = 1 .. Len(undelivered'[p])
  <2>1. undelivered[p] \in Seq(Entry) /\ undelivered'[p] \in Seq(Entry)
    BY DEF TypeOK
  <2> QED
    BY <2>1, LenProperties
<1>2. /\ \A e : Votable(p, e) <=> e \in ToVoteOn(handler, state, p)
      /\ \A e : Votable(p, e)' <=> e \in ToVoteOn(handler', state', p)
  BY DEF Votable, ToVoteOn
<1>3. Unseen(p) = Places(undelivered[p], ToVoteOn(handler, state, p))
  BY <1>1, <1>2 DEF Unseen, Places
<1>4. Unseen(p)' = Places(undelivered'[p], ToVoteOn(handler', state', p))
  BY <1>1, <1>2 DEF Unseen, Places
<1> QED
  BY <1>3, <1>4 DEF Outstanding

\* p gets an entry that it is or is not to vote on.
LEMMA DutyAdded ==
    ASSUME TypeOK, TypeOK', NEW p \in Proc, NEW e \in Entry,
           undelivered'[p] = Append(undelivered[p], e), delivered'[p] = delivered[p],
           Lives(p) # {} => ("LIVE" \in ToVoteOn(handler', state', p) <=> "LIVE" \in ToVoteOn(handler, state, p))
    PROVE  /\ e \in ToVoteOn(handler', state', p) =>
                 Outstanding(p)' = Outstanding(p) + 1 /\ Unseen(p)' # {}
           /\ e \notin ToVoteOn(handler', state', p) =>
                 Outstanding(p)' = Outstanding(p) /\ Unseen(p)' = Unseen(p)
<1> DEFINE u == undelivered[p]
           E == ToVoteOn(handler, state, p)
           F == ToVoteOn(handler', state', p)
<1>1. u \in Seq(Entry) /\ Len(u) \in Nat /\ Len(delivered[p]) \in Nat
  BY LenProperties DEF TypeOK
<1>2. Places(u, E) = Places(u, F)
  BY DEF Places, Lives, ToVoteOn
<1> HIDE DEF E, F
<1>3. /\ e \in F => Cardinality(Places(Append(u, e), F)) = Cardinality(Places(u, F)) + 1
      /\ e \notin F => Places(Append(u, e), F) = Places(u, F)
  BY <1>1, PlacesAppend
<1>4. Cardinality(Places(u, F)) \in Nat /\ IsFiniteSet(Places(u, F))
  BY <1>1, PlacesFinite
<1>5. /\ Unseen(p) = Places(u, E) /\ Unseen(p)' = Places(Append(u, e), F)
      /\ Outstanding(p) = Len(delivered[p]) + Cardinality(Places(u, E))
      /\ Outstanding(p)' = Len(delivered[p]) + Cardinality(Places(Append(u, e), F))
  BY UnseenPlaces DEF E, F
<1>6. ASSUME e \in F PROVE Places(Append(u, e), F) # {}
  <2>1. Append(u, e) \in Seq(Entry) /\ Len(Append(u, e)) = Len(u) + 1 /\ Append(u, e)[Len(u) + 1] = e
    BY <1>1, AppendProperties
  <2> QED
    BY <1>1, <1>6, <2>1 DEF Places
<1> QED
  BY <1>1, <1>2, <1>3, <1>4, <1>5, <1>6 DEF E, F

\* The first entry of p is taken out of its list.
LEMMA DutyTaken ==
    ASSUME TypeOK, TypeOK', NEW p \in Proc, undelivered[p] # << >>,
           undelivered'[p] = Tail(undelivered[p]),
           ToVoteOn(handler', state', p) = ToVoteOn(handler, state, p)
    PROVE  LET e == Head(undelivered[p])
               more == Len(delivered'[p]) - Len(delivered[p])
           IN /\ e \in Entry
              /\ Votable(p, e) => Unseen(p) # {} /\ Outstanding(p)' = Outstanding(p) + more - 1
              /\ ~Votable(p, e) => /\ Outstanding(p)' = Outstanding(p) + more
                                   /\ Unseen(p) # {} => Unseen(p)' # {}
                                   /\ Unseen(p) = {} => Unseen(p)' = {}
<1> DEFINE u == undelivered[p]
           e == Head(u)
           E == ToVoteOn(handler, state, p)
<1>1. /\ u \in Seq(Entry) /\ Len(delivered[p]) \in Nat /\ Len(delivered'[p]) \in Nat
      /\ Tail(u) \in Seq(Entry) /\ e \in Entry
  BY LenProperties, HeadTailProperties DEF TypeOK
<1>2. Votable(p, e) <=> e \in E
  BY DEF Votable, ToVoteOn
<1>3. /\ Unseen(p) = Places(u, E) /\ Unseen(p)' = Places(Tail(u), E)
      /\ Outstanding(p) = Len(delivered[p]) + Cardinality(Places(u, E))
      /\ Outstanding(p)' = Len(delivered'[p]) + Cardinality(Places(Tail(u), E))
  BY UnseenPlaces
<1> HIDE DEF E, u
<1>4. Cardinality(Places(u, E)) = Cardinality(Places(Tail(u), E)) + (IF Head(u) \in E THEN 1 ELSE 0)
  <2>1. u # << >>
    BY DEF u
  <2> QED
    BY <1>1, <2>1, PlacesTail
<1>5. /\ Cardinality(Places(u, E)) \in Nat /\ IsFiniteSet(Places(u, E))
      /\ Cardinality(Places(Tail(u), E)) \in Nat /\ IsFiniteSet(Places(Tail(u), E))
  BY <1>1, PlacesFinite
<1>6. /\ Cardinality(Places(u, E)) = 0 <=> Places(u, E) = {}
      /\ Cardinality(Places(Tail(u), E)) = 0 <=> Places(Tail(u), E) = {}
  BY <1>5, FS_EmptySet
<1> DEFINE a == Len(delivered[p])
           b == Len(delivered'[p])
           c == Cardinality(Places(u, E))
           d == Cardinality(Places(Tail(u), E))
           x == Outstanding(p)
           y == Outstanding(p)'
<1>9. a \in Int /\ b \in Int /\ c \in Int /\ d \in Int
  BY <1>1, <1>5
<1>10. x = a + c /\ y = b + d
  BY <1>3
<1>11. c = d + (IF Head(u) \in E THEN 1 ELSE 0)
  BY <1>4
<1>12. (c = 0 <=> Unseen(p) = {}) /\ (d = 0 <=> Unseen(p)' = {}) /\ d >= 0
  BY <1>3, <1>5, <1>6
<1> HIDE DEF a, b, c, d, x, y
<1>7. ASSUME Votable(p, e) PROVE Unseen(p) # {} /\ y = x + (b - a) - 1
  <2>1. c = d + 1
    BY <1>2, <1>7, <1>11 DEF u
  <2>2. c # 0
    BY <1>9, <1>12, <2>1
  <2> QED
    BY <1>9, <1>10, <1>12, <2>1, <2>2
<1>8. ASSUME ~Votable(p, e) PROVE y = x + (b - a) /\ (Unseen(p) = {} <=> Unseen(p)' = {})
  <2>1. c = d
    BY <1>2, <1>8, <1>9, <1>11 DEF u
  <2> QED
    BY <1>9, <1>10, <1>12, <2>1
<1>13. e \in Entry
  BY <1>1 DEF u
<1> QED
  BY <1>7, <1>8, <1>13 DEF a, b, x, y, u

-----------------------------------------------------------------------------
(* The walk over the patterns. *)

\* After a miscount little is left to keep.
LEMMA Miscount ==
    ASSUME miscounted', state' # "CREATED", SentOnce', Dead'
    PROVE  OfferInv'
BY DEF OfferInv, Fresh, Balance, Before, Walks, After

\* What is known while the patterns are walked.
LEMMA WalkKnown ==
    ASSUME TypeOK, OfferInv, Running("match")
    PROVE  LET f == Head(stack)
           IN /\ f \in Frame /\ f.op = "match" /\ f.todo \subseteq Pattern
              /\ f.best \in Proc \cup {NoProc}
              /\ stack \in Seq(Frame) /\ stack # << >> /\ Tail(stack) \in Seq(Frame)
              /\ Has(stack, "match") /\ state # "CREATED"
              /\ ~miscounted /\ ~returned =>
                    /\ state = "SENT" /\ Only(stack, "match")
                    /\ f.best # NoProc => active[f.best]
                    /\ \A p \in Proc : Lives(p) = {}
              /\ ~miscounted /\ returned => f.best = NoProc /\ state = "RETURNED"
<1> DEFINE f == Head(stack)
<1>1. /\ f \in Frame /\ f.op = "match" /\ f.todo \subseteq Pattern
      /\ f.best \in Proc \cup {NoProc}
      /\ stack \in Seq(Frame) /\ stack # << >> /\ Tail(stack) \in Seq(Frame)
  BY RunningFrame DEF Running, TypeOK
<1>2. Has(stack, "match")
  BY <1>1, PopKinds
<1>3. state # "CREATED"
  BY <1>2 DEF OfferInv, Fresh
<1>4. ~miscounted /\ ~returned =>
         /\ state = "SENT" /\ Only(stack, "match")
         /\ f.best # NoProc => active[f.best]
         /\ \A p \in Proc : Lives(p) = {}
  BY <1>1, <1>2 DEF OfferInv, Walks, WalkTop
<1>5. ~miscounted /\ returned => f.best = NoProc /\ state = "RETURNED"
  BY <1>1, PopKinds DEF OfferInv, After
<1> QED
  BY <1>1, <1>2, <1>3, <1>4, <1>5

\* The frame of the walk is replaced.
LEMMA Replaced ==
    ASSUME TypeOK, Running("match"), NEW g \in Frame, g.op = "match",
           NEW s, s = <<g>> \o Tail(stack)
    PROVE  /\ s \in Seq(Frame) /\ s # << >> /\ Head(s) = g
           /\ \A op : Has(s, op) <=> Has(stack, op)
           /\ \A op : Only(stack, op) => Only(s, op)
           /\ NoBest(stack) /\ g.best = NoProc => NoBest(s)
           /\ Dead => GivenUp(s, active)
<1>1. /\ stack \in Seq(Frame) /\ stack # << >> /\ Tail(stack) \in Seq(Frame)
      /\ Head(stack).op = "match"
  BY RunningFrame DEF Running, TypeOK
<1>2. /\ \A op : Has(stack, op) <=> Head(stack).op = op \/ Has(Tail(stack), op)
      /\ \A op : Only(stack, op) => Only(Tail(stack), op) /\ (Head(stack).op = op => ~Has(Tail(stack), op))
      /\ NoBest(stack) => NoBest(Tail(stack))
      /\ Dead => GivenUp(Tail(stack), active)
  BY <1>1, PopKinds DEF Dead
<1>3. /\ s \in Seq(Frame) /\ s # << >> /\ Head(s) = g
      /\ \A op : Has(s, op) <=> g.op = op \/ Has(Tail(stack), op)
      /\ \A op : Only(Tail(stack), op) /\ (g.op = op => ~Has(Tail(stack), op)) => Only(s, op)
      /\ NoBest(Tail(stack)) /\ (g.op = "match" => g.best = NoProc) => NoBest(s)
      /\ GivenUp(Tail(stack), active) /\ (g.op = "unread" => ~active[g.proc]) => GivenUp(s, active)
  BY <1>1, PushKinds
<1> QED
  BY <1>1, <1>2, <1>3

\* A step of the walk that hands nothing out keeps the invariant.
LEMMA WalkOn ==
    ASSUME TypeOK, TypeOK', OfferInv, Running("match"),
           NEW g \in Frame, g.op = "match", stack' = <<g>> \o Tail(stack),
           g.best = Head(stack).best \/ (state = "SENT" /\ active[g.best]),
           UNCHANGED <<asks, rpc, active, undelivered, delivered, offerVars, told>>
    PROVE  OfferInv'
<1> DEFINE f == Head(stack)
<1>1. /\ stack' \in Seq(Frame) /\ stack' # << >> /\ Head(stack') = g
      /\ \A op : Has(stack', op) <=> Has(stack, op)
      /\ \A op : Only(stack, op) => Only(stack', op)
      /\ NoBest(stack) /\ g.best = NoProc => NoBest(stack')
      /\ Dead => GivenUp(stack', active)
  BY Replaced
<1>2. /\ Has(stack, "match") /\ state # "CREATED"
      /\ ~miscounted /\ ~returned => /\ state = "SENT" /\ Only(stack, "match")
                                     /\ f.best # NoProc => active[f.best]
                                     /\ \A p \in Proc : Lives(p) = {}
      /\ ~miscounted /\ returned => f.best = NoProc /\ state = "RETURNED"
  BY WalkKnown
<1>3. \A p \in Proc : Unseen(p)' = Unseen(p) /\ Outstanding(p)' = Outstanding(p) /\ Lives(p)' = Lives(p)
  BY DutyStays DEF offerVars, Votable, Lives
<1>4. Fresh'
  BY <1>2 DEF Fresh, offerVars
<1>5. SentOnce'
  BY SentKept DEF OfferInv, offerVars
<1>6. Dead'
  BY <1>1 DEF OfferInv, Dead
<1>7. Balance'
  BY <1>3, BalanceStays DEF OfferInv, offerVars
<1>8. Before'
  BY <1>1, <1>3 DEF OfferInv, Before, offerVars
<1>9. Walks'
  <2> SUFFICES ASSUME ~miscounted, ~returned PROVE state = "SENT" /\ WalkTop'
    BY DEF Walks, offerVars
  <2>1. /\ Head(stack').op = "match" /\ Only(stack', "match")
        /\ Head(stack').best # NoProc => active'[Head(stack').best]
    BY <1>1, <1>2
  <2> QED
    BY <1>2, <1>3, <2>1 DEF WalkTop
<1>10. After'
  <2> SUFFICES ASSUME ~miscounted, returned PROVE After'
    BY DEF After, offerVars
  <2>1. g.best = NoProc
    BY <1>2
  <2>2. Telling => Telling'
    BY <1>1, <1>3, OfferAssumption DEF Telling
  <2> QED
    BY <1>1, <1>3, <2>1, <2>2 DEF OfferInv, After, offerVars
<1> QED
  BY <1>4, <1>5, <1>6, <1>7, <1>8, <1>9, <1>10 DEF OfferInv

\* What add_message does: it counts a vote too early, or moves the offer to
\* the end of the list of p, or puts an entry there and asks p.
LEMMA AddMessageKnown ==
    ASSUME TypeOK, NEW p \in Proc, NEW e \in Entry, NEW now, NEW ok, NEW bad,
           AddMessage(p, e, now, ok, bad)
    PROVE  \/ miscounted' /\ stack' = <<Ballots>> \o ok /\ state' \in {"ABSTAINED", now}
           \/ /\ miscounted' = miscounted /\ votes' = votes /\ state' = now
              /\ \A q \in Proc \ {p} : undelivered'[q] = undelivered[q]
              /\ \/ /\ e = "LIVE" /\ Lives(p) # {} /\ stack' = ok
                    /\ asked' = asked /\ yetToVote' = yetToVote
                    /\ \E i \in DOMAIN undelivered[p] :
                          /\ undelivered[p][i] = e
                          /\ undelivered'[p] = Append(RemoveAt(undelivered[p], i), e)
                 \/ /\ undelivered'[p] = Append(undelivered[p], e)
                    /\ e = "LIVE" => Lives(p) = {}
                    /\ yetToVote' = yetToVote + 1
                    /\ asked' = IF e = "SENT" \/ (e = "LIVE" /\ now = "SENT")
                                THEN [asked EXCEPT ![p] = @ + 1] ELSE asked
                    /\ \/ active[p] /\ stack' = ok
                       \/ ~active[p] /\ stack' = bad
                       \/ active[p] /\ stack' = <<Deactivate(p)>> \o bad
<1>0. undelivered[p] \in Seq(Entry) /\ DOMAIN undelivered[p] = 1 .. Len(undelivered[p])
  BY LenProperties DEF TypeOK
<1>1. CASE AbstainForOld(p, e, now, ok)
  BY <1>1 DEF AbstainForOld, Cast
<1>2. CASE MoveToEnd(p, e, now, ok)
  <2>1. PICK i \in DOMAIN undelivered[p] :
          /\ undelivered[p][i] = e
          /\ undelivered' = [undelivered EXCEPT ![p] = Append(RemoveAt(@, i), e)]
    BY <1>2 DEF MoveToEnd
  <2>2. /\ undelivered'[p] = Append(RemoveAt(undelivered[p], i), e)
        /\ \A q \in Proc \ {p} : undelivered'[q] = undelivered[q]
    BY <2>1 DEF TypeOK
  <2>3. Lives(p) # {}
    BY <1>0, <1>2, <2>1 DEF MoveToEnd, Lives, Places
  <2> QED
    BY <1>2, <2>1, <2>2, <2>3 DEF MoveToEnd
<1>3. CASE AppendAndSignal(p, e, now, ok, bad)
  <2>1. /\ undelivered'[p] = Append(undelivered[p], e)
        /\ \A q \in Proc \ {p} : undelivered'[q] = undelivered[q]
    BY <1>3 DEF AppendAndSignal, TypeOK
  <2>2. e = "LIVE" => Lives(p) = {}
    BY <1>0, <1>3 DEF AppendAndSignal, Lives, Places, ToSet
  <2> QED
    BY <1>3, <2>1, <2>2 DEF AppendAndSignal, Counted
<1> QED
  BY <1>1, <1>2, <1>3 DEF AddMessage

\* Another entry than the offer itself leaves the places of the offer alone.
LEMMA LivesAdded ==
    ASSUME TypeOK, TypeOK', NEW p \in Proc, NEW e \in Entry, undelivered'[p] = Append(undelivered[p], e)
    PROVE  /\ e # "LIVE" => Lives(p)' = Lives(p)
           /\ e = "LIVE" /\ Lives(p) = {} =>
                 Lives(p)' = {Len(undelivered'[p])} /\ Len(undelivered'[p]) \in 1 .. Len(undelivered'[p])
<1> DEFINE u == undelivered[p]
           t == Append(u, e)
<1>1. u \in Seq(Entry) /\ undelivered'[p] = t
  BY DEF TypeOK
<1>2. /\ Len(u) \in Nat /\ Len(t) = Len(u) + 1 /\ t[Len(u) + 1] = e
      /\ \A i \in 1 .. Len(u) : t[i] = u[i]
  BY <1>1, LenProperties, AppendProperties
<1> HIDE DEF u, t
<1>3. Lives(p) = Places(u, {"LIVE"}) /\ Lives(p)' = Places(t, {"LIVE"})
  BY <1>1 DEF Lives, u
<1>4. e # "LIVE" => Places(t, {"LIVE"}) = Places(u, {"LIVE"})
  BY <1>2 DEF Places
<1>5. e = "LIVE" => Places(t, {"LIVE"}) = Places(u, {"LIVE"}) \cup {Len(u) + 1}
  BY <1>2 DEF Places
<1> QED
  BY <1>1, <1>2, <1>3, <1>4, <1>5

\* An observer is given a copy.
LEMMA MatchObserverInv == ASSUME TypeOK, TypeOK', OfferInv, MatchObserver PROVE OfferInv'
<1> DEFINE f == Head(stack)
           g(pat) == [f EXCEPT !.todo = @ \ {pat}]
           next(pat) == <<g(pat)>> \o Tail(stack)
<1>1. Running("match")
  BY DEF MatchObserver
<1>2. PICK pat \in f.todo :
         /\ active[pat[1]]
         /\ IF f.observers /\ pat[2] \in {"ANY", state}
            THEN AddMessage(pat[1], state, state, next(pat), next(pat))
            ELSE /\ stack' = next(pat)
                 /\ UNCHANGED <<undelivered, state, yetToVote, votes, asked, miscounted>>
  BY DEF MatchObserver
<1>3. /\ f \in Frame /\ f.op = "match" /\ f.todo \subseteq Pattern
      /\ stack \in Seq(Frame) /\ stack # << >> /\ Tail(stack) \in Seq(Frame)
      /\ Has(stack, "match") /\ state # "CREATED"
      /\ ~miscounted /\ ~returned => /\ state = "SENT" /\ Only(stack, "match")
                                     /\ f.best # NoProc => active[f.best]
                                     /\ \A p \in Proc : Lives(p) = {}
      /\ ~miscounted /\ returned => f.best = NoProc /\ state = "RETURNED"
  BY <1>1, WalkKnown
<1> DEFINE p == pat[1]
           h == g(pat)
           s == <<h>> \o Tail(stack)
<1>4. p \in Proc /\ f.todo \ {pat} \in SUBSET Pattern /\ active[p]
  BY <1>2, <1>3 DEF Pattern
<1>5. h \in Frame /\ h.op = "match" /\ h.best = f.best
  BY <1>3, <1>4, MatchFrame DEF Frame
<1>6. UNCHANGED <<alive, asks, rpc, hand, active, registered, delivered, handler, returned, told>>
  BY DEF MatchObserver, clientVars
<1>7. CASE stack' = s /\ UNCHANGED <<undelivered, state, yetToVote, votes, asked, miscounted>>
  BY <1>1, <1>5, <1>6, <1>7, WalkOn DEF offerVars
<1>8. CASE AddMessage(p, state, state, s, s)
  <2> HIDE DEF f, g, next, p
  <2>1. state \in Entry /\ state # "LIVE" /\ state \in State
    BY DEF Entry, TypeOK, State, Vote
  <2>2. \/ miscounted' /\ stack' = <<Ballots>> \o s /\ state' \in {"ABSTAINED", state}
        \/ /\ miscounted' = miscounted /\ votes' = votes /\ state' = state
           /\ \A q \in Proc \ {p} : undelivered'[q] = undelivered[q]
           /\ undelivered'[p] = Append(undelivered[p], state)
           /\ yetToVote' = yetToVote + 1
           /\ asked' = IF state = "SENT" THEN [asked EXCEPT ![p] = @ + 1] ELSE asked
           /\ stack' = s \/ stack' = <<Deactivate(p)>> \o s
    <3> HIDE DEF s
    <3>1. \/ miscounted' /\ stack' = <<Ballots>> \o s /\ state' \in {"ABSTAINED", state}
          \/ /\ miscounted' = miscounted /\ votes' = votes /\ state' = state
             /\ \A q \in Proc \ {p} : undelivered'[q] = undelivered[q]
             /\ \/ state = "LIVE"
                \/ /\ undelivered'[p] = Append(undelivered[p], state)
                   /\ yetToVote' = yetToVote + 1
                   /\ asked' = IF state = "SENT" \/ (state = "LIVE" /\ state = "SENT")
                               THEN [asked EXCEPT ![p] = @ + 1] ELSE asked
                   /\ \/ active[p] /\ stack' = s
                      \/ ~active[p] /\ stack' = s
                      \/ active[p] /\ stack' = <<Deactivate(p)>> \o s
      <4>1. p \in Proc /\ state \in Entry /\ AddMessage(p, state, state, s, s)
        BY <1>4, <1>8, <2>1
      <4> QED
        BY <4>1, AddMessageKnown
    <3> QED
      BY <2>1, <3>1
  <2>3. /\ s \in Seq(Frame) /\ s # << >> /\ Head(s) = h
        /\ \A op : Has(s, op) <=> Has(stack, op)
        /\ \A op : Only(stack, op) => Only(s, op)
        /\ NoBest(stack) /\ h.best = NoProc => NoBest(s)
        /\ Dead => GivenUp(s, active)
    BY <1>1, <1>5, Replaced
  <2> HIDE DEF h, s
  <2>4. /\ Ballots \in Frame /\ Ballots.op = "ballots"
        /\ Deactivate(p) \in Frame /\ Deactivate(p).op = "deactivate" /\ Deactivate(p).proc = p
    BY <1>4, FramesMade DEF Ballots, Deactivate
  <2>5. Dead'
    <3>1. GivenUp(s, active)
      BY <2>3 DEF OfferInv
    <3>2. GivenUp(<<Ballots>> \o s, active) /\ GivenUp(<<Deactivate(p)>> \o s, active)
      BY <2>3, <2>4, <3>1, PushKinds
    <3> QED
      BY <1>6, <2>2, <3>1, <3>2 DEF Dead
  <2>6. SentOnce'
    BY <1>3, <1>6, SentKept DEF OfferInv
  <2>7. state' # "CREATED"
    BY <1>3, <2>2
  <2>8. CASE miscounted'
    BY <2>5, <2>6, <2>7, <2>8, Miscount
  <2>9. CASE ~miscounted'
    <3>1. ~miscounted
      BY <2>2, <2>9
    <3>0. /\ Has(<<Deactivate(p)>> \o s, "match") <=> Has(s, "match")
          /\ Has(<<Deactivate(p)>> \o s, "report") <=> Has(s, "report")
          /\ Only(s, "report") => Only(<<Deactivate(p)>> \o s, "report")
      <4>1. /\ \A op : Has(<<Deactivate(p)>> \o s, op) <=> Deactivate(p).op = op \/ Has(s, op)
            /\ \A op : Only(s, op) /\ (Deactivate(p).op = op => ~Has(s, op)) => Only(<<Deactivate(p)>> \o s, op)
        BY <2>3, <2>4, PushKinds
      <4> QED
        BY <2>4, <4>1
    <3>2. Has(stack', "match") /\ (Has(stack', "report") <=> Has(stack, "report"))
      BY <1>3, <2>2, <2>3, <2>9, <3>0
    <3>3. Only(stack, "report") => Only(stack', "report")
      BY <2>2, <2>3, <2>9, <3>0
    <3>4. /\ \A q \in Proc \ {p} : Outstanding(q)' = Outstanding(q) /\ Unseen(q)' = Unseen(q)
          /\ \A q \in Proc : Lives(q)' = Lives(q)
      <4>1. ASSUME NEW q \in Proc \ {p} PROVE Outstanding(q)' = Outstanding(q) /\ Unseen(q)' = Unseen(q)
        BY <1>6, <2>2, <2>9, DutyStays DEF Votable
      <4>2. Lives(p)' = Lives(p)
        BY <1>4, <2>1, <2>2, <2>9, LivesAdded
      <4>3. \A q \in Proc \ {p} : Lives(q)' = Lives(q)
        BY <2>2, <2>9 DEF Lives
      <4> QED
        BY <4>1, <4>2, <4>3
    <3>5. /\ state \in ToVoteOn(handler', state', p) =>
                 Outstanding(p)' = Outstanding(p) + 1 /\ Unseen(p)' # {}
          /\ state \notin ToVoteOn(handler', state', p) =>
                 Outstanding(p)' = Outstanding(p) /\ Unseen(p)' = Unseen(p)
      BY <1>4, <1>6, <2>1, <2>2, <2>9, DutyAdded
    <3>6. Fresh'
      BY <2>7 DEF Fresh
    <3>7. CASE ~returned
      <4>1. state = "SENT" /\ ~Has(stack, "report") /\ told = << >>
        BY <1>3, <3>1, <3>7 DEF OfferInv, Before
      <4>2. Outstanding(p)' = Outstanding(p) + 1 /\ Unseen(p)' # {}
        BY <3>5, <4>1 DEF ToVoteOn
      <4>3. Balance'
        BY <1>4, <1>6, <2>2, <2>9, <3>4, <4>1, <4>2, BalanceAsk DEF OfferInv
      <4>4. Before'
        BY <1>3, <1>6, <2>2, <2>9, <3>1, <3>2, <3>4, <3>7, <4>1 DEF Before
      <4>5. WalkTop'
        <5>1. CASE stack' = s
          <6>1. Head(stack').op = "match" /\ Only(stack', "match") /\ (Head(stack').best # NoProc => active'[Head(stack').best])
            BY <1>3, <1>5, <1>6, <2>3, <3>1, <3>7, <5>1
          <6> QED
            BY <1>3, <3>1, <3>4, <3>7, <6>1 DEF WalkTop
        <5>2. CASE stack' = <<Deactivate(p)>> \o s
          <6>1. Head(stack') = Deactivate(p)
            BY <2>3, <2>4, <5>2, PushKinds
          <6> QED
            BY <1>4, <1>6, <2>4, <4>2, <6>1 DEF WalkTop
        <5> QED
          BY <2>2, <2>9, <5>1, <5>2
      <4>6. Walks'
        BY <2>2, <2>9, <4>1, <4>5 DEF Walks
      <4>7. After'
        BY <1>6, <3>7 DEF After
      <4> QED
        BY <2>5, <2>6, <3>6, <4>3, <4>4, <4>6, <4>7 DEF OfferInv
    <3>8. CASE returned
      <4>1. state = "RETURNED" /\ f.best = NoProc /\ After
        BY <1>3, <3>1, <3>8 DEF OfferInv
      <4>2. Outstanding(p)' = Outstanding(p) /\ Unseen(p)' = Unseen(p)
        BY <2>2, <2>9, <3>5, <4>1 DEF ToVoteOn
      <4>3. Balance'
        BY <1>6, <2>2, <2>9, <3>4, <3>8, <4>1, <4>2, BalanceStays DEF OfferInv
      <4>4. NoBest(stack')
        <5>1. NoBest(s)
          BY <1>5, <2>3, <3>1, <3>8, <4>1 DEF After
        <5>2. NoBest(<<Deactivate(p)>> \o s)
          BY <2>3, <2>4, <5>1, PushKinds
        <5> QED
          BY <2>2, <2>9, <5>1, <5>2
      <4>5. \A q \in Proc : delivered'[q] = << >> /\ Unseen(q)' = {}
        BY <1>6, <3>1, <3>4, <3>8, <4>1, <4>2 DEF After
      <4>6. active'[Sender] => Telling'
        <5>1. active[Sender] => Telling
          BY <3>1, <3>8, <4>1 DEF After
        <5>2. ASSUME Telling PROVE Telling'
          <6>1. Lives(Sender)' = Lives(Sender) /\ told' = told /\ (Has(stack, "report") <=> Has(stack', "report"))
            BY <1>6, <3>2, <3>4, OfferAssumption
          <6>2. \A i \in 1 .. Len(undelivered[Sender]) : i \in 1 .. Len(undelivered'[Sender])
            <7>1. CASE Sender = p
              <8>1. undelivered[Sender] \in Seq(Entry)
                BY OfferAssumption DEF TypeOK
              <8>2. Len(undelivered'[Sender]) = Len(undelivered[Sender]) + 1 /\ Len(undelivered[Sender]) \in Nat
                BY <2>1, <2>2, <2>9, <7>1, <8>1, AppendProperties, LenProperties
              <8> QED
                BY <8>2
            <7>2. CASE Sender # p
              BY <2>2, <2>9, <7>2, OfferAssumption
            <7> QED
              BY <7>1, <7>2
          <6> QED
            BY <5>2, <6>1, <6>2 DEF Telling
        <5> QED
          BY <1>6, <5>1, <5>2
      <4>7. After'
        BY <1>6, <2>2, <2>9, <3>1, <3>3, <3>8, <4>1, <4>4, <4>5, <4>6 DEF After
      <4>8. Before' /\ Walks'
        BY <1>6, <3>8 DEF Before, Walks
      <4> QED
        BY <2>5, <2>6, <3>6, <4>3, <4>7, <4>8 DEF OfferInv
    <3> QED
      BY <3>7, <3>8
  <2> QED
    BY <2>8, <2>9
<1> QED
  BY <1>2, <1>7, <1>8

\* A walk that comes upon an inactive client is over.
LEMMA MatchInactiveInv == ASSUME TypeOK, TypeOK', OfferInv, MatchInactive PROVE OfferInv'
<1> DEFINE f == Head(stack)
           g == [f EXCEPT !.todo = {}]
<1>1. Running("match") /\ stack' = <<g>> \o Tail(stack)
  BY DEF MatchInactive
<1>2. f \in Frame /\ f.op = "match"
  BY <1>1, WalkKnown
<1>3. g \in Frame /\ g.op = "match" /\ g.best = f.best
  BY <1>2, MatchFrame DEF Frame
<1>4. UNCHANGED <<asks, rpc, active, undelivered, delivered, offerVars, told>>
  BY DEF MatchInactive, clientVars
<1> HIDE DEF g
<1> QED
  BY <1>1, <1>3, <1>4, WalkOn

\* A walk finds a handler for an offer that is sent.
LEMMA MatchHandlerInv == ASSUME TypeOK, TypeOK', OfferInv, MatchHandler PROVE OfferInv'
<1> DEFINE f == Head(stack)
<1>0. PICK pat \in f.todo : active[pat[1]] /\ \E b \in {f.best, pat[1]} :
         /\ state # "SENT" => b = f.best
         /\ stack' = <<[f EXCEPT !.todo = @ \ {pat}, !.best = b]>> \o Tail(stack)
  BY DEF MatchHandler
<1>1. PICK b \in {f.best, pat[1]} :
         /\ state # "SENT" => b = f.best
         /\ stack' = <<[f EXCEPT !.todo = @ \ {pat}, !.best = b]>> \o Tail(stack)
  BY <1>0
<1>2. Running("match")
  BY DEF MatchHandler
<1>3. f \in Frame /\ f.op = "match" /\ f.todo \subseteq Pattern /\ f.best \in Proc \cup {NoProc}
  BY <1>2, WalkKnown
<1>4. f.todo \ {pat} \in SUBSET Pattern /\ b \in Proc \cup {NoProc}
  BY <1>0, <1>1, <1>3 DEF Pattern
<1> DEFINE g == [f EXCEPT !.todo = @ \ {pat}, !.best = b]
<1>5. g \in Frame /\ g.op = "match" /\ g.best = b
  BY <1>3, <1>4, MatchFrame DEF Frame
<1>6. UNCHANGED <<asks, rpc, active, undelivered, delivered, offerVars, told>>
  BY DEF MatchHandler, clientVars
<1>7. g.best = f.best \/ (state = "SENT" /\ active[g.best])
  BY <1>0, <1>1, <1>5
<1>8. stack' = <<g>> \o Tail(stack)
  BY <1>1
<1> HIDE DEF g
<1> QED
  BY <1>2, <1>5, <1>6, <1>7, <1>8, WalkOn

-----------------------------------------------------------------------------
(* Frames that are done. *)

\* A frame that has nothing left to do is popped.
LEMMA PopInv ==
    ASSUME TypeOK, TypeOK', OfferInv, stack # << >>, stack' = Tail(stack),
           Head(stack).op = "report" => ~active[Sender],
           Head(stack).op = "deactivate" => ~active[Head(stack).proc],
           Head(stack).op = "unread" => Unseen(Head(stack).proc) = {},
           UNCHANGED <<asks, rpc, active, undelivered, delivered, offerVars, told>>
    PROVE  OfferInv'
<1> DEFINE f == Head(stack)
<1>1. stack \in Seq(Frame)
  BY DEF TypeOK
<1>2. /\ \A op : Has(stack, op) <=> f.op = op \/ Has(stack', op)
      /\ \A op : Only(stack, op) => Only(stack', op) /\ (f.op = op => ~Has(stack', op))
      /\ NoBest(stack) => NoBest(stack')
      /\ Dead => GivenUp(stack', active)
  BY <1>1, PopKinds DEF Dead
<1>3. \A p \in Proc : Unseen(p)' = Unseen(p) /\ Outstanding(p)' = Outstanding(p) /\ Lives(p)' = Lives(p)
  BY DutyStays DEF offerVars, Votable, Lives
<1>4. Fresh'
  BY <1>2 DEF OfferInv, Fresh, offerVars
<1>5. SentOnce'
  BY SentKept DEF OfferInv, offerVars
<1>6. Dead'
  BY <1>2 DEF OfferInv, Dead
<1>7. Balance'
  BY <1>3, BalanceStays DEF OfferInv, offerVars
<1>8. Before'
  BY <1>2, <1>3 DEF OfferInv, Before, offerVars
<1>9. Walks'
  <2>1. ASSUME ~miscounted, ~returned, Has(stack', "match") PROVE FALSE
    <3>1. Has(stack, "match")
      BY <1>2, <2>1
    <3>2. WalkTop
      BY <2>1, <3>1 DEF OfferInv, Walks
    <3> QED
      BY <1>2, <2>1, <3>2 DEF WalkTop
  <2> QED
    BY <2>1 DEF Walks, offerVars
<1>10. After'
  <2> SUFFICES ASSUME ~miscounted, returned PROVE After'
    BY DEF After, offerVars
  <2>1. ASSUME active[Sender], Telling PROVE Telling'
    <3>1. Has(stack, "report") <=> Has(stack', "report")
      BY <1>2, <2>1
    <3> QED
      BY <1>3, <2>1, <3>1, OfferAssumption DEF Telling
  <2> QED
    BY <1>2, <1>3, <2>1 DEF OfferInv, After, offerVars
<1> QED
  BY <1>4, <1>5, <1>6, <1>7, <1>8, <1>9, <1>10 DEF OfferInv

\* A stack without a walk has no walk that has found a handler.
LEMMA NoWalk == \A s : ~Has(s, "match") => NoBest(s)
BY DEF Has, NoBest

\* Frames are pushed one by one.
LEMMA PushMany ==
    ASSUME NEW s \in Seq(Frame), NEW f \in Frame, NEW g \in Frame, NEW h \in Frame
    PROVE  /\ <<f, g>> = <<f>> \o (<<g>> \o << >>)
           /\ <<f, g, h>> \o s = <<f>> \o (<<g>> \o (<<h>> \o s))
<1>1. ASSUME NEW x \in Frame, NEW u \in Seq(Frame)
      PROVE  /\ <<x>> \o u \in Seq(Frame) /\ Len(<<x>> \o u) = Len(u) + 1 /\ (<<x>> \o u)[1] = x
             /\ \A i \in 1 .. Len(u) : (<<x>> \o u)[i+1] = u[i]
  OBVIOUS
<1>2. <<g>> = <<g>> \o << >>
  <2>1. << >> \in Seq(Frame) /\ <<g>> \in Seq(Frame)
    OBVIOUS
  <2> QED
    BY <2>1, ConcatEmptySeq
<1>3. ASSUME NEW x \in Frame, NEW y \in Frame PROVE <<x, y>> = <<x>> \o <<y>>
  <2> DEFINE b == <<y>>
             c == <<x, y>>
  <2>1. /\ b \in Seq(Frame) /\ Len(b) = 1 /\ b[1] = y
        /\ c \in Seq(Frame) /\ Len(c) = 2 /\ c[1] = x /\ c[2] = y
    OBVIOUS
  <2> HIDE DEF b, c
  <2>2. /\ <<x>> \o b \in Seq(Frame) /\ Len(<<x>> \o b) = Len(b) + 1 /\ (<<x>> \o b)[1] = x
        /\ \A i \in 1 .. Len(b) : (<<x>> \o b)[i+1] = b[i]
    BY <1>1, <2>1
  <2>3. (<<x>> \o b)[2] = y
    BY <2>1, <2>2
  <2>4. \A i \in 1 .. Len(c) : c[i] = (<<x>> \o b)[i]
    BY <2>1, <2>2, <2>3
  <2>5. c = <<x>> \o b
    BY <2>1, <2>2, <2>4, SeqEqual
  <2> QED
    BY <2>5 DEF b, c
<1>4. <<f, g, h>> = <<f>> \o <<g, h>>
  <2> DEFINE b == <<g, h>>
             c == <<f, g, h>>
  <2>1. /\ b \in Seq(Frame) /\ Len(b) = 2 /\ b[1] = g /\ b[2] = h
        /\ c \in Seq(Frame) /\ Len(c) = 3 /\ c[1] = f /\ c[2] = g /\ c[3] = h
    OBVIOUS
  <2> HIDE DEF b, c
  <2>2. /\ <<f>> \o b \in Seq(Frame) /\ Len(<<f>> \o b) = Len(b) + 1 /\ (<<f>> \o b)[1] = f
        /\ \A i \in 1 .. Len(b) : (<<f>> \o b)[i+1] = b[i]
    BY <1>1, <2>1
  <2>3. (<<f>> \o b)[2] = g /\ (<<f>> \o b)[3] = h
    BY <2>1, <2>2
  <2>4. \A i \in 1 .. Len(c) : c[i] = (<<f>> \o b)[i]
    BY <2>1, <2>2, <2>3
  <2>5. c = <<f>> \o b
    BY <2>1, <2>2, <2>4, SeqEqual
  <2> QED
    BY <2>5 DEF b, c
<1>5. <<f>> \in Seq(Frame) /\ <<g>> \in Seq(Frame) /\ <<h>> \in Seq(Frame) /\ <<g, h>> \in Seq(Frame)
  OBVIOUS
<1>6. (<<f>> \o <<g, h>>) \o s = <<f>> \o (<<g, h>> \o s)
  BY <1>5, ConcatAssociative
<1>7. (<<g>> \o <<h>>) \o s = <<g>> \o (<<h>> \o s)
  BY <1>5, ConcatAssociative
<1>8. <<g, h>> = <<g>> \o <<h>> /\ <<f, g>> = <<f>> \o <<g>>
  BY <1>3
<1> QED
  BY <1>2, <1>4, <1>6, <1>7, <1>8

\* The votes are counted.
LEMMA RunBallotsInv == ASSUME TypeOK, TypeOK', OfferInv, RunBallots PROVE OfferInv'
<1>1. /\ stack \in Seq(Frame) /\ stack # << >> /\ Head(stack).op = "ballots"
      /\ Tail(stack) \in Seq(Frame)
  BY HeadTailProperties DEF RunBallots, Running, TypeOK
<1>2. UNCHANGED <<asks, rpc, active, undelivered, delivered, handler, yetToVote, votes, asked,
                  miscounted, told>>
  BY DEF RunBallots, clientVars
<1>3. CASE ~Complete
  <2>1. stack' = Tail(stack) /\ UNCHANGED <<state, returned>>
    BY <1>3 DEF RunBallots
  <2> QED
    BY <1>1, <1>2, <2>1, PopInv DEF offerVars
<1>4. CASE Complete
  <2> DEFINE t == Tail(stack)
             a == Deliver(TRUE)
             s1 == <<Report>> \o t
             s2 == <<Ballots>> \o s1
             s3 == <<a>> \o s2
  <2>1. state' = "RETURNED" /\ returned' = TRUE /\ stack' = <<a, Ballots, Report>> \o t
    BY <1>4 DEF RunBallots, Announce
  <2>2. /\ a \in Frame /\ Ballots \in Frame /\ Report \in Frame
        /\ a.op = "match" /\ a.best = NoProc /\ Ballots.op = "ballots" /\ Report.op = "report"
    <3>1. a \in Frame /\ Ballots \in Frame /\ Report \in Frame
      BY FramesMade
    <3> QED
      BY <3>1 DEF Deliver, Ballots, Report
  <2>3. ~returned /\ yetToVote <= 0
    BY <1>4 DEF Complete
  <2>4. /\ \A op : Has(stack, op) <=> "ballots" = op \/ Has(t, op)
        /\ \A op : Only(stack, op) => Only(t, op)
        /\ Dead => GivenUp(t, active)
    BY <1>1, PopKinds DEF Dead
  <2> HIDE DEF a, t
  <2>5. /\ s1 \in Seq(Frame) /\ \A op : Has(s1, op) <=> op = "report" \/ Has(t, op)
        /\ \A op : Only(t, op) /\ (op = "report" => ~Has(t, op)) => Only(s1, op)
        /\ NoBest(t) => NoBest(s1)
        /\ GivenUp(t, active) => GivenUp(s1, active)
    BY <1>1, <2>2, PushKinds DEF t
  <2> HIDE DEF s1
  <2>6. /\ s2 \in Seq(Frame) /\ \A op : Has(s2, op) <=> op = "ballots" \/ Has(s1, op)
        /\ \A op : Only(s1, op) /\ (op = "ballots" => ~Has(s1, op)) => Only(s2, op)
        /\ NoBest(s1) => NoBest(s2)
        /\ GivenUp(s1, active) => GivenUp(s2, active)
    BY <2>2, <2>5, PushKinds
  <2> HIDE DEF s2
  <2>7. /\ s3 \in Seq(Frame) /\ \A op : Has(s3, op) <=> op = "match" \/ Has(s2, op)
        /\ \A op : Only(s2, op) /\ (op = "match" => ~Has(s2, op)) => Only(s3, op)
        /\ NoBest(s2) => NoBest(s3)
        /\ GivenUp(s2, active) => GivenUp(s3, active)
    BY <2>2, <2>6, PushKinds
  <2>8. stack' = s3
    <3>1. <<a, Ballots, Report>> \o t = <<a>> \o (<<Ballots>> \o (<<Report>> \o t))
      <4>1. t \in Seq(Frame) /\ a \in Frame /\ Ballots \in Frame /\ Report \in Frame
        BY <1>1, <2>2 DEF t
      <4> HIDE DEF t
      <4> QED
        BY <4>1, PushMany, ZenonT(30)
    <3> QED
      BY <2>1, <3>1 DEF s1, s2
  <2> HIDE DEF s3
  <2>9. ASSUME ~miscounted PROVE \A p \in Proc : Outstanding(p) = 0
    <3>1. Duty \in [Proc -> Nat]
      BY OutstandingPlaces DEF Duty
    <3>2. IsFiniteSet(BallotsOf(Duty)) /\ Cardinality(BallotsOf(Duty)) <= 0
      BY <2>3, <2>9 DEF OfferInv, Balance
    <3>3. \A p \in Proc : Duty[p] = 0
      BY <3>1, <3>2, NoneLeft
    <3> QED
      BY <3>3 DEF Duty
  <2>10. ASSUME ~miscounted
         PROVE  \A p \in Proc : delivered[p] = << >> /\ Unseen(p) = {} /\ Unseen(p)' = {} /\ Outstanding(p)' = 0
    <3> SUFFICES ASSUME NEW p \in Proc
                 PROVE  delivered[p] = << >> /\ Unseen(p) = {} /\ Unseen(p)' = {} /\ Outstanding(p)' = 0
      OBVIOUS
    <3>1. Outstanding(p) = 0
      BY <2>9, <2>10
    <3>2. delivered[p] = << >> /\ Unseen(p) = {}
      BY <3>1, OutstandingPlaces
    <3>3. Unseen(p)' = {}
      BY <1>2, <2>1, <3>2 DEF Unseen, Votable
    <3>4. Outstanding(p)' = 0
      BY <1>2, <3>2, <3>3, FS_EmptySet DEF Outstanding
    <3> QED
      BY <3>2, <3>3, <3>4
  <2>11. Fresh' /\ Before' /\ Walks'
    BY <2>1 DEF Fresh, Before, Walks
  <2>12. SentOnce'
    <3>1. state # "CREATED"
      BY <1>1, <2>4 DEF OfferInv, Fresh
    <3> QED
      BY <1>2, <3>1, SentKept DEF OfferInv
  <2>13. Dead'
    BY <1>2, <2>4, <2>5, <2>6, <2>7, <2>8 DEF OfferInv, Dead
  <2>14. Balance'
    <3>1. CASE miscounted
      BY <1>2, <3>1 DEF Balance
    <3>2. CASE ~miscounted
      <4>1. \A p \in Proc : Outstanding(p)' = Outstanding(p)
        BY <2>9, <2>10, <3>2
      <4> QED
        BY <1>2, <2>1, <4>1, BalanceStays DEF OfferInv
    <3> QED
      BY <3>1, <3>2
  <2>15. After'
    <3> SUFFICES ASSUME ~miscounted PROVE After'
      BY <1>2 DEF After
    <3>1. ~Has(t, "match") /\ ~Has(t, "report") /\ told = << >> /\ state # "RETURNED"
      BY <1>1, <2>3, <2>4 DEF OfferInv, Walks, WalkTop, Before
    <3>2. NoBest(stack')
      BY <2>5, <2>6, <2>7, <2>8, <3>1, NoWalk
    <3>3. Only(t, "report")
      BY <3>1 DEF Only, Has
    <3>4. Only(stack', "report") /\ Has(stack', "report")
      BY <2>5, <2>6, <2>7, <2>8, <3>1, <3>3
    <3>5. Lives(Sender) = {}
      <4> SUFFICES ASSUME NEW i \in Lives(Sender) PROVE FALSE
        OBVIOUS
      <4>1. handler = Sender
        BY <2>3, OfferAssumption DEF OfferInv, Before
      <4>2. Votable(Sender, undelivered[Sender][i])
        BY <3>1, <4>1 DEF Votable, Lives, Places
      <4>3. i \in DOMAIN undelivered[Sender]
        <5>1. undelivered[Sender] \in Seq(Entry)
          BY OfferAssumption DEF TypeOK
        <5> QED
          BY <5>1, LenProperties DEF Lives, Places
      <4> QED
        BY <2>10, <4>2, <4>3, OfferAssumption DEF Unseen
    <3>6. Telling'
      BY <1>2, <3>1, <3>4, <3>5 DEF Telling, Lives
    <3> QED
      BY <1>2, <2>1, <2>10, <3>2, <3>4, <3>6 DEF After
  <2> QED
    BY <2>11, <2>12, <2>13, <2>14, <2>15 DEF OfferInv
<1> QED
  BY <1>3, <1>4

\* A vote that is not miscounted is cast while no walk goes on, before the
\* offer is returned.
LEMMA CastKnown ==
    ASSUME TypeOK, TypeOK', OfferInv, NEW p \in Proc, NEW e \in Entry, NEW v \in Vote,
           Cast(p, e, v, state), handler' = handler, ~miscounted', Outstanding(p) > 0
    PROVE  /\ ~miscounted /\ ~returned /\ ~Has(stack, "match")
           /\ state # "RETURNED" /\ state' # "RETURNED"
           /\ \A q \in Proc : ToVoteOn(handler', state', q) = ToVoteOn(handler, state, q)
<1>1. ~miscounted /\ ~Walking
  BY DEF Cast
<1>2. ~Has(stack, "match")
  <2>1. stack \in Seq(Frame)
    BY DEF TypeOK
  <2> QED
    BY <1>1, <2>1, LenProperties DEF Walking, Has
<1>3. ~returned
  BY <1>1, OutstandingPlaces DEF OfferInv, After
<1>4. state # "RETURNED"
  BY <1>1, <1>3 DEF OfferInv, Before
<1>5. state' # "RETURNED"
  BY <1>4 DEF Cast, Vote
<1> QED
  BY <1>1, <1>2, <1>3, <1>4, <1>5 DEF ToVoteOn

\* A vote that is cast and then counted keeps the invariant.
LEMMA CastInv ==
    ASSUME TypeOK, TypeOK', OfferInv, NEW p \in Proc, NEW e \in Entry, NEW v \in Vote,
           Cast(p, e, v, state), stack' = <<Ballots>> \o stack,
           UNCHANGED <<active, handler, returned, asked, told>>, SentOnce', state # "CREATED",
           Outstanding(p) > 0, ~miscounted' => Outstanding(p)' = Outstanding(p) - 1,
           Lives(p) = {} => Lives(p)' = {},
           \A q \in Proc \ {p} : undelivered'[q] = undelivered[q] /\ delivered'[q] = delivered[q]
    PROVE  OfferInv'
<1>1. Ballots \in Frame /\ Ballots.op = "ballots" /\ stack \in Seq(Frame)
  BY FramesMade DEF Ballots, TypeOK
<1>2. /\ \A op : Has(stack', op) <=> op = "ballots" \/ Has(stack, op)
      /\ Dead => GivenUp(stack', active)
  BY <1>1, PushKinds DEF Dead
<1>3. Dead' /\ state' # "CREATED"
  BY <1>2 DEF OfferInv, Dead, Cast, Vote
<1>4. CASE miscounted'
  BY <1>3, <1>4, Miscount
<1>5. CASE ~miscounted'
  <2>1. /\ ~miscounted /\ ~returned /\ ~Has(stack, "match")
        /\ state # "RETURNED" /\ state' # "RETURNED"
        /\ \A q \in Proc : ToVoteOn(handler', state', q) = ToVoteOn(handler, state, q)
    BY <1>5, CastKnown
  <2>2. \A q \in Proc \ {p} : Outstanding(q)' = Outstanding(q)
    BY <2>1, DutyStays DEF Votable
  <2>3. \A q \in Proc : Lives(q)' # {} => Lives(q) # {}
    BY DEF Lives
  <2>4. Fresh' /\ Walks' /\ After'
    BY <1>2, <1>3, <2>1 DEF Fresh, Walks, After
  <2>5. Balance'
    BY <1>5, <2>1, <2>2, BalanceCast DEF OfferInv, Cast
  <2>6. Before'
    BY <1>2, <2>1, <2>3 DEF OfferInv, Before
  <2> QED
    BY <1>3, <2>4, <2>5, <2>6 DEF OfferInv
<1> QED
  BY <1>4, <1>5

\* The places of the offer itself when the first entry is taken out.
LEMMA LivesTaken ==
    ASSUME TypeOK, TypeOK', NEW p \in Proc, undelivered[p] # << >>,
           undelivered'[p] = Tail(undelivered[p])
    PROVE  /\ Lives(p) = {} => Lives(p)' = {} /\ Head(undelivered[p]) # "LIVE"
           /\ \A i \in 1 .. Len(undelivered[p]) : Lives(p) = {i} =>
                 \/ Head(undelivered[p]) = "LIVE" /\ Lives(p)' = {}
                 \/ /\ Head(undelivered[p]) # "LIVE"
                    /\ i - 1 \in 1 .. Len(undelivered'[p]) /\ Lives(p)' = {i - 1}
<1> DEFINE u == undelivered[p]
           t == undelivered'[p]
<1>1. /\ Len(u) \in Nat \ {0} /\ Len(t) = Len(u) - 1 /\ Head(u) = u[1]
      /\ \A i \in 1 .. Len(u) - 1 : t[i] = u[i+1]
  <2>1. u \in Seq(Entry)
    BY DEF TypeOK
  <2> QED
    BY <2>1, EmptySeq, HeadTailProperties
<1>2. Lives(p) = Places(u, {"LIVE"}) /\ Lives(p)' = Places(t, {"LIVE"})
  BY DEF Lives, Places
<1> HIDE DEF u, t
<1>3. \A j \in Places(t, {"LIVE"}) : j \in Int /\ j + 1 \in Places(u, {"LIVE"})
  BY <1>1 DEF Places
<1>4. \A j \in Places(u, {"LIVE"}) : j \in Int /\ (j = 1 \/ j - 1 \in Places(t, {"LIVE"}))
  BY <1>1 DEF Places
<1>5. Head(u) = "LIVE" <=> 1 \in Places(u, {"LIVE"})
  BY <1>1 DEF Places
<1>6. ASSUME Places(u, {"LIVE"}) = {} PROVE Places(t, {"LIVE"}) = {} /\ Head(u) # "LIVE"
  BY <1>3, <1>5, <1>6
<1>7. ASSUME NEW i \in 1 .. Len(u), Places(u, {"LIVE"}) = {i}
      PROVE  \/ Head(u) = "LIVE" /\ Places(t, {"LIVE"}) = {}
             \/ Head(u) # "LIVE" /\ i - 1 \in 1 .. Len(t) /\ Places(t, {"LIVE"}) = {i - 1}
  <2>1. CASE i = 1
    <3>1. \A j \in Places(t, {"LIVE"}) : j + 1 = 1 /\ j \in 1 .. Len(t)
      BY <1>3, <1>7, <2>1 DEF Places
    <3>2. Places(t, {"LIVE"}) = {}
      BY <1>1, <3>1
    <3> QED
      BY <1>5, <1>7, <2>1, <3>2
  <2>2. CASE i # 1
    <3>1. Head(u) # "LIVE" /\ i - 1 \in Places(t, {"LIVE"})
      BY <1>4, <1>5, <1>7, <2>2
    <3>2. \A j \in Places(t, {"LIVE"}) : j = i - 1
      BY <1>3, <1>7
    <3> QED
      BY <3>1, <3>2 DEF Places
  <2> QED
    BY <2>1, <2>2
<1> QED
  BY <1>2, <1>6, <1>7 DEF u, t

\* The client that is given up abstains from what it has not read.
LEMMA RunUnreadInv == ASSUME TypeOK, TypeOK', OfferInv, RunUnread PROVE OfferInv'
<1>0. /\ stack \in Seq(Frame) /\ stack # << >> /\ Head(stack).op = "unread"
      /\ Head(stack).proc \in Proc
  BY RunningFrame DEF RunUnread, Running, TypeOK
<1>p. PICK p \in Proc : p = Head(stack).proc
  BY <1>0
<1>1. /\ stack \in Seq(Frame) /\ stack # << >> /\ Head(stack).op = "unread" /\ Head(stack).proc = p
  BY <1>0, <1>p
<1>2. UNCHANGED <<asks, rpc, active, delivered, handler, returned, asked, told>>
  BY DEF RunUnread, clientVars
<1>3. CASE undelivered[p] = << >>
  <2>1. stack' = Tail(stack) /\ UNCHANGED <<undelivered, state, votes, yetToVote, miscounted>>
    BY <1>1, <1>3 DEF RunUnread
  <2>2. Unseen(p) = {}
    BY <1>3 DEF Unseen
  <2> QED
    BY <1>1, <1>2, <2>1, <2>2, PopInv DEF offerVars
<1>4. CASE undelivered[p] # << >>
  <2>1. undelivered' = [undelivered EXCEPT ![p] = Tail(@)]
    BY <1>1, <1>4 DEF RunUnread
  <2>2. undelivered'[p] = Tail(undelivered[p]) /\ \A q \in Proc \ {p} : undelivered'[q] = undelivered[q]
    BY <1>1, <2>1 DEF TypeOK
  <2>0. Head(undelivered[p]) \in Entry /\ state # "CREATED"
    <3>1. undelivered[p] \in Seq(Entry)
      BY <1>1 DEF TypeOK
    <3> QED
      BY <1>1, <1>4, <3>1, HeadTailProperties DEF OfferInv, Fresh
  <2>3. PICK e \in Entry : e = Head(undelivered[p])
    BY <2>0
  <2>4. SentOnce'
    BY <1>2, <2>0, SentKept DEF OfferInv
  <2>5. /\ Lives(p) = {} => Lives(p)' = {}
    BY <1>1, <1>4, <2>2, LivesTaken
  <2>7. Len(delivered'[p]) - Len(delivered[p]) = 0 /\ Outstanding(p) \in Nat
    <3>1. delivered[p] \in Seq(Entry)
      BY <1>1 DEF TypeOK
    <3> QED
      BY <1>1, <1>2, <3>1, LenProperties, OutstandingPlaces
  <2>6. ASSUME ToVoteOn(handler', state', p) = ToVoteOn(handler, state, p)
        PROVE  /\ Votable(p, e) => Outstanding(p)' = Outstanding(p) - 1
               /\ ~Votable(p, e) => Outstanding(p)' = Outstanding(p) /\ (Unseen(p)' = {} <=> Unseen(p) = {})
    <3> DEFINE a == Outstanding(p)
               b == Outstanding(p)'
               m == Len(delivered'[p]) - Len(delivered[p])
    <3>1. /\ Votable(p, e) => b = a + m - 1
          /\ ~Votable(p, e) => b = a + m /\ (Unseen(p)' = {} <=> Unseen(p) = {})
      BY <1>1, <1>4, <2>2, <2>3, <2>6, DutyTaken
    <3>2. m = 0 /\ a \in Nat
      BY <2>7
    <3> HIDE DEF a, b, m
    <3>3. /\ Votable(p, e) => b = a - 1
          /\ ~Votable(p, e) => b = a /\ (Unseen(p)' = {} <=> Unseen(p) = {})
      BY <3>1, <3>2
    <3> QED
      BY <3>3 DEF a, b
  <2>8. CASE Votable(p, e)
    <3>1. Cast(p, e, "ABSTAINED", state) /\ stack' = <<Ballots>> \o stack
      BY <1>1, <1>4, <2>3, <2>8 DEF RunUnread, NewState
    <3>2. "ABSTAINED" \in Vote
      BY DEF Vote
    <3>3. Outstanding(p) > 0
      <4>1. 1 \in Unseen(p)
        <5>1. undelivered[p] \in Seq(Entry)
          BY <1>1 DEF TypeOK
        <5>2. 1 \in DOMAIN undelivered[p] /\ e = undelivered[p][1]
          BY <1>4, <5>1, EmptySeq, HeadTailProperties, LenProperties, <2>3
        <5> QED
          BY <2>8, <5>2 DEF Unseen
      <4> QED
        BY <1>1, <2>7, <4>1, OutstandingPlaces
    <3>4. ~miscounted' => Outstanding(p)' = Outstanding(p) - 1
      <4> SUFFICES ASSUME ~miscounted' PROVE Outstanding(p)' = Outstanding(p) - 1
        OBVIOUS
      <4>1. ToVoteOn(handler', state', p) = ToVoteOn(handler, state, p)
        BY <1>1, <1>2, <2>3, <3>1, <3>2, <3>3, CastKnown
      <4> QED
        BY <2>6, <2>8, <4>1
    <3> QED
      BY <1>1, <1>2, <2>0, <2>2, <2>3, <2>4, <2>5, <3>1, <3>2, <3>3, <3>4, CastInv
  <2>9. CASE ~Votable(p, e)
    <3>1. UNCHANGED <<state, votes, yetToVote, miscounted, stack>>
      BY <1>1, <1>4, <2>3, <2>9 DEF RunUnread
    <3>2. /\ Outstanding(p)' = Outstanding(p) /\ (Unseen(p)' = {} <=> Unseen(p) = {})
      <4>1. ToVoteOn(handler', state', p) = ToVoteOn(handler, state, p)
        BY <1>2, <3>1
      <4> QED
        BY <2>6, <2>9, <4>1
    <3>3. \A q \in Proc \ {p} : Outstanding(q)' = Outstanding(q) /\ Unseen(q)' = Unseen(q) /\ Lives(q)' = Lives(q)
      BY <1>2, <2>2, <3>1, DutyStays DEF Votable, Lives
    <3>4. ~active[p]
      BY <1>1, PopKinds DEF OfferInv, Dead
    <3>5. Fresh' /\ Dead'
      BY <1>2, <2>0, <3>1 DEF OfferInv, Fresh, Dead
    <3>6. Balance'
      BY <1>2, <3>1, <3>2, <3>3, BalanceStays DEF OfferInv
    <3>7. Before'
      BY <1>2, <2>5, <3>1, <3>3 DEF OfferInv, Before
    <3>8. Walks'
      BY <1>1, <1>2, <3>1, <3>2 DEF OfferInv, Walks, WalkTop
    <3>9. After'
      <4>1. \A q \in Proc : Unseen(q) = {} => Unseen(q)' = {}
        BY <3>2, <3>3
      <4>2. active[Sender] /\ Telling => Telling'
        <5> SUFFICES ASSUME active[Sender], Telling PROVE Telling'
          OBVIOUS
        <5>1. Sender \in Proc \ {p}
          BY <3>4, OfferAssumption
        <5> QED
          BY <1>2, <2>2, <3>1, <3>3, <5>1 DEF Telling
      <4> QED
        BY <1>2, <3>1, <4>1, <4>2 DEF OfferInv, After
    <3> QED
      BY <2>4, <3>5, <3>6, <3>7, <3>8, <3>9 DEF OfferInv
  <2> QED
    BY <2>8, <2>9
<1> QED
  BY <1>3, <1>4

\* It abstains from what it has read and not voted on.
LEMMA RunUnansweredInv == ASSUME TypeOK, TypeOK', OfferInv, RunUnanswered PROVE OfferInv'
<1>0. /\ stack \in Seq(Frame) /\ stack # << >> /\ Head(stack).op = "unanswered"
      /\ Head(stack).proc \in Proc
  BY RunningFrame DEF RunUnanswered, Running, TypeOK
<1>p. PICK p \in Proc : p = Head(stack).proc
  BY <1>0
<1>1. delivered[p] \in Seq(Entry)
  BY DEF TypeOK
<1>2. UNCHANGED <<asks, rpc, active, undelivered, handler, returned, asked, told>>
  BY DEF RunUnanswered, clientVars
<1>3. CASE Owed(p) = {}
  <2>1. stack' = Tail(stack) /\ UNCHANGED <<delivered, state, votes, yetToVote, miscounted>>
    BY <1>3, <1>p DEF RunUnanswered
  <2> QED
    BY <1>0, <1>2, <2>1, PopInv DEF offerVars
<1>4. CASE Owed(p) # {}
  <2>1. /\ delivered' = [delivered EXCEPT ![p] = Tail(@)]
        /\ Cast(p, Head(delivered[p]), "ABSTAINED", state)
        /\ stack' = <<Ballots>> \o stack
    BY <1>4, <1>p DEF RunUnanswered, NewState
  <2>2. delivered'[p] = Tail(delivered[p]) /\ \A q \in Proc \ {p} : delivered'[q] = delivered[q]
    BY <2>1 DEF TypeOK
  <2>3. delivered[p] # << >>
    BY <1>4 DEF Owed, ToSet
  <2>4. PICK e \in Entry : e = Head(delivered[p])
    BY <1>1, <2>3, HeadTailProperties
  <2>5. "ABSTAINED" \in Vote /\ Cast(p, e, "ABSTAINED", state)
    BY <2>1, <2>4 DEF Vote
  <2>6. state # "CREATED"
    BY <2>3 DEF OfferInv, Fresh
  <2>7. SentOnce'
    BY <1>2, <2>6, SentKept DEF OfferInv
  <2>8. Len(delivered'[p]) = Len(delivered[p]) - 1 /\ Len(delivered[p]) \in Nat \ {0}
    BY <1>1, <2>2, <2>3, EmptySeq, HeadTailProperties
  <2>9. Outstanding(p) > 0
    BY <2>8, OutstandingPlaces DEF Outstanding
  <2>10. ASSUME ~miscounted' PROVE Outstanding(p)' = Outstanding(p) - 1
    <3>1. state # "RETURNED" /\ state' # "RETURNED"
      BY <1>2, <2>5, <2>9, <2>10, CastKnown
    <3>2. Unseen(p)' = Unseen(p)
      BY <1>2, <3>1 DEF Unseen, Votable
    <3>3. Cardinality(Unseen(p)) \in Nat
      BY OutstandingPlaces
    <3> DEFINE a == Len(delivered[p])
               b == Len(delivered'[p])
               c == Cardinality(Unseen(p))
    <3>4. Outstanding(p) = a + c /\ Outstanding(p)' = b + c /\ a \in Nat /\ b = a - 1 /\ c \in Nat
      BY <2>8, <3>2, <3>3 DEF Outstanding
    <3> HIDE DEF a, b, c
    <3> QED
      BY <3>4
  <2>11. \A q \in Proc \ {p} : undelivered'[q] = undelivered[q] /\ delivered'[q] = delivered[q]
    BY <1>2, <2>2
  <2>12. Lives(p) = {} => Lives(p)' = {}
    BY <1>2 DEF Lives
  <2> QED
    BY <1>2, <2>1, <2>5, <2>6, <2>7, <2>9, <2>10, <2>11, <2>12, CastInv
<1> QED
  BY <1>3, <1>4

\* Its patterns are forgotten.
LEMMA RunForgetInv == ASSUME TypeOK, TypeOK', OfferInv, RunForget PROVE OfferInv'
<1>1. stack # << >> /\ Head(stack).op = "forget" /\ stack' = Tail(stack)
  BY DEF RunForget, Running
<1> QED
  BY <1>1, PopInv DEF RunForget, clientVars

\* A client is given up.
LEMMA RunDeactivateInv == ASSUME TypeOK, TypeOK', OfferInv, RunDeactivate PROVE OfferInv'
<1>0. /\ stack \in Seq(Frame) /\ stack # << >> /\ Head(stack).op = "deactivate"
      /\ Head(stack).proc \in Proc /\ Tail(stack) \in Seq(Frame)
  BY RunningFrame DEF RunDeactivate, Running, TypeOK
<1>p. PICK p \in Proc : p = Head(stack).proc
  BY <1>0
<1>1. UNCHANGED <<asks, rpc, undelivered, delivered, offerVars, told>>
  BY DEF RunDeactivate, clientVars
<1>2. CASE ~active[p]
  <2>1. stack' = Tail(stack) /\ active' = active
    BY <1>2, <1>p DEF RunDeactivate
  <2> QED
    BY <1>0, <1>1, <1>2, <1>p, <2>1, PopInv
<1>3. CASE active[p]
  <2> DEFINE t == Tail(stack)
             s1 == <<Forget(p)>> \o t
             s2 == <<Unanswered(p)>> \o s1
             s3 == <<Unread(p)>> \o s2
  <2>1. active' = [active EXCEPT ![p] = FALSE] /\ stack' = <<Unread(p), Unanswered(p), Forget(p)>> \o t
    BY <1>3, <1>p DEF RunDeactivate
  <2>2. /\ Unread(p) \in Frame /\ Unanswered(p) \in Frame /\ Forget(p) \in Frame
        /\ Unread(p).op = "unread" /\ Unread(p).proc = p
        /\ Unanswered(p).op = "unanswered" /\ Forget(p).op = "forget"
    <3>1. Unread(p) \in Frame /\ Unanswered(p) \in Frame /\ Forget(p) \in Frame
      BY FramesMade
    <3> QED
      BY <3>1 DEF Unread, Unanswered, Forget
  <2>3. ~active'[p] /\ \A q \in Proc : active'[q] => active[q]
    BY <2>1 DEF TypeOK
  <2>4. /\ \A op : Has(stack, op) <=> "deactivate" = op \/ Has(t, op)
        /\ \A op : Only(stack, op) => Only(t, op)
        /\ NoBest(stack) => NoBest(t)
    BY <1>0, PopKinds
  <2>5. Dead => GivenUp(t, active)
    BY <1>0, PopKinds DEF Dead
  <2>6. Dead => GivenUp(t, active')
    <3>1. \A i \in 1 .. Len(t) : t[i].op = "unread" => t[i].proc \in Proc
      <4>1. \A i \in 1 .. Len(t) : t[i] \in Frame
        BY <1>0, ElementOfSeq
      <4> QED
        BY <4>1 DEF Frame
    <3> QED
      BY <2>3, <2>5, <3>1 DEF GivenUp
  <2> HIDE DEF t
  <2>7. stack' = s3
    <3>1. <<Unread(p), Unanswered(p), Forget(p)>> \o t
             = <<Unread(p)>> \o (<<Unanswered(p)>> \o (<<Forget(p)>> \o t))
      <4>1. t \in Seq(Frame) /\ Unread(p) \in Frame /\ Unanswered(p) \in Frame /\ Forget(p) \in Frame
        BY <1>0, <2>2 DEF t
      <4> QED
        BY <4>1, PushMany, ZenonT(30)
    <3> QED
      BY <2>1, <3>1
  <2>8. /\ s1 \in Seq(Frame) /\ \A op : Has(s1, op) <=> op = "forget" \/ Has(t, op)
        /\ \A op : Only(t, op) /\ (op = "forget" => ~Has(t, op)) => Only(s1, op)
        /\ NoBest(t) => NoBest(s1)
        /\ GivenUp(t, active') => GivenUp(s1, active')
    BY <1>0, <2>2, PushKinds DEF t
  <2> HIDE DEF s1
  <2>9. /\ s2 \in Seq(Frame) /\ \A op : Has(s2, op) <=> op = "unanswered" \/ Has(s1, op)
        /\ \A op : Only(s1, op) /\ (op = "unanswered" => ~Has(s1, op)) => Only(s2, op)
        /\ NoBest(s1) => NoBest(s2)
        /\ GivenUp(s1, active') => GivenUp(s2, active')
    BY <2>2, <2>8, PushKinds
  <2> HIDE DEF s2
  <2>10. /\ s3 \in Seq(Frame) /\ s3 # << >> /\ Head(s3) = Unread(p)
         /\ \A op : Has(s3, op) <=> op = "unread" \/ Has(s2, op)
         /\ \A op : Only(s2, op) /\ (op = "unread" => ~Has(s2, op)) => Only(s3, op)
         /\ NoBest(s2) => NoBest(s3)
         /\ GivenUp(s2, active') => GivenUp(s3, active')
    BY <2>2, <2>3, <2>9, PushKinds
  <2> HIDE DEF s3
  <2>11. /\ Has(stack', "match") <=> Has(stack, "match")
         /\ Has(stack', "report") <=> Has(stack, "report")
         /\ Has(stack', "ballots") <=> Has(stack, "ballots")
         /\ Only(stack, "report") => Only(stack', "report")
         /\ NoBest(stack) => NoBest(stack')
    BY <2>4, <2>7, <2>8, <2>9, <2>10
  <2>12. \A q \in Proc : Unseen(q)' = Unseen(q) /\ Outstanding(q)' = Outstanding(q) /\ Lives(q)' = Lives(q)
    BY <1>1, DutyStays DEF offerVars, Votable, Lives
  <2>13. Fresh'
    BY <1>1, <2>11 DEF OfferInv, Fresh, offerVars
  <2>14. SentOnce'
    BY <1>1, SentKept DEF OfferInv, offerVars
  <2>15. Dead'
    BY <2>6, <2>7, <2>8, <2>9, <2>10 DEF OfferInv, Dead
  <2>16. Balance'
    BY <1>1, <2>12, BalanceStays DEF OfferInv, offerVars
  <2>17. Before'
    BY <1>1, <2>11, <2>12 DEF OfferInv, Before, offerVars
  <2>18. Walks'
    <3> SUFFICES ASSUME ~miscounted, ~returned, Has(stack, "match") PROVE state = "SENT" /\ WalkTop'
      BY <1>1, <2>11 DEF Walks, offerVars
    <3>1. state = "SENT" /\ Unseen(p) # {}
      BY <1>0, <1>p DEF OfferInv, Walks, WalkTop
    <3>2. Head(stack').op = "unread" /\ Head(stack').proc = p /\ Unseen(p)' # {}
      BY <2>2, <2>7, <2>10, <2>12, <3>1
    <3> QED
      BY <3>1, <3>2 DEF WalkTop
  <2>19. After'
    <3>1. Telling => Telling'
      BY <1>1, <2>11, <2>12, OfferAssumption DEF Telling
    <3> QED
      BY <1>1, <2>3, <2>11, <2>12, <3>1, OfferAssumption DEF OfferInv, After, offerVars
  <2> QED
    BY <2>13, <2>14, <2>15, <2>16, <2>17, <2>18, <2>19 DEF OfferInv
<1> QED
  BY <1>2, <1>3

-----------------------------------------------------------------------------
(* The offer itself is handed out. *)

\* The handler that was found is given the offer, or another one is sought.
LEMMA GiveToHandlerInv == ASSUME TypeOK, TypeOK', OfferInv, GiveToHandler PROVE OfferInv'
<1>0. /\ Running("match") /\ UNCHANGED <<asks, rpc, active, registered, delivered, returned, told>>
  BY DEF GiveToHandler, clientVars
<1>1. /\ Head(stack).op = "match" /\ Head(stack).best \in Proc \cup {NoProc}
      /\ stack \in Seq(Frame) /\ stack # << >> /\ Tail(stack) \in Seq(Frame)
      /\ Has(stack, "match") /\ state # "CREATED"
      /\ ~miscounted /\ ~returned => /\ state = "SENT" /\ Only(stack, "match")
                                     /\ Head(stack).best # NoProc => active[Head(stack).best]
                                     /\ \A p \in Proc : Lives(p) = {}
      /\ ~miscounted /\ returned => Head(stack).best = NoProc /\ state = "RETURNED"
  BY <1>0, WalkKnown
<1>2. CASE Head(stack).best = NoProc
  <2>1. stack' = Tail(stack) /\ UNCHANGED <<undelivered, state, handler, yetToVote, votes, asked, miscounted>>
    BY <1>2 DEF GiveToHandler
  <2> QED
    BY <1>0, <1>1, <2>1, PopInv DEF offerVars
<1>3. CASE Head(stack).best # NoProc
  <2>0. PICK p \in Proc : p = Head(stack).best
    BY <1>1, <1>3
  <2> DEFINE t == Tail(stack)
             a == Deliver(FALSE)
             s1 == <<a>> \o t
  <2>1. handler' = p /\ AddMessage(p, "LIVE", "SENT", t, s1)
    BY <1>3, <2>0 DEF GiveToHandler
  <2>2. /\ Ballots \in Frame /\ a \in Frame /\ Deactivate(p) \in Frame
        /\ Ballots.op = "ballots" /\ a.op = "match"
        /\ Deactivate(p).op = "deactivate" /\ Deactivate(p).proc = p
    <3>1. Ballots \in Frame /\ a \in Frame /\ Deactivate(p) \in Frame
      BY FramesMade
    <3> QED
      BY <3>1 DEF Ballots, Deliver, Deactivate
  <2>3. /\ \A op : Has(stack, op) <=> "match" = op \/ Has(t, op)
        /\ \A op : Only(stack, op) => Only(t, op) /\ ("match" = op => ~Has(t, op))
        /\ Dead => GivenUp(t, active)
    BY <1>1, PopKinds DEF Dead
  <2> HIDE DEF a, t
  <2>4. /\ s1 \in Seq(Frame) /\ \A op : Has(s1, op) <=> op = "match" \/ Has(t, op)
        /\ GivenUp(t, active) => GivenUp(s1, active)
    BY <1>1, <2>2, PushKinds DEF t
  <2> HIDE DEF s1
  <2>5. /\ Head(<<Deactivate(p)>> \o s1) = Deactivate(p)
        /\ \A op : Has(<<Deactivate(p)>> \o s1, op) <=> op = "deactivate" \/ Has(s1, op)
        /\ GivenUp(s1, active) => GivenUp(<<Deactivate(p)>> \o s1, active)
    BY <2>2, <2>4, PushKinds
  <2>6. GivenUp(t, active) => GivenUp(<<Ballots>> \o t, active)
    BY <1>1, <2>2, PushKinds DEF t
  <2>7. "LIVE" \in Entry
    BY DEF Entry
  <2>8. \/ miscounted' /\ stack' = <<Ballots>> \o t /\ state' \in {"ABSTAINED", "SENT"}
        \/ /\ miscounted' = miscounted /\ votes' = votes /\ state' = "SENT"
           /\ \A q \in Proc \ {p} : undelivered'[q] = undelivered[q]
           /\ \/ Lives(p) # {} /\ stack' = t
              \/ /\ undelivered'[p] = Append(undelivered[p], "LIVE")
                 /\ Lives(p) = {} /\ yetToVote' = yetToVote + 1
                 /\ asked' = [asked EXCEPT ![p] = @ + 1]
                 /\ \/ active[p] /\ stack' = t
                    \/ ~active[p] /\ stack' = s1
                    \/ active[p] /\ stack' = <<Deactivate(p)>> \o s1
    BY <2>1, <2>7, AddMessageKnown
  <2>9. Dead' /\ state' # "CREATED"
    BY <1>0, <2>3, <2>4, <2>5, <2>6, <2>8 DEF OfferInv, Dead
  <2>10. SentOnce'
    BY <1>0, <1>1, SentKept DEF OfferInv
  <2>11. CASE miscounted'
    BY <2>9, <2>10, <2>11, Miscount
  <2>12. CASE ~miscounted'
    <3>1. ~miscounted /\ ~returned
      BY <1>1, <1>3, <2>8, <2>12
    <3>2. state = "SENT" /\ ~Has(t, "match") /\ active[p] /\ \A q \in Proc : Lives(q) = {}
      BY <1>1, <1>3, <2>0, <2>3, <3>1
    <3>3. /\ votes' = votes /\ state' = "SENT"
          /\ \A q \in Proc \ {p} : undelivered'[q] = undelivered[q]
          /\ undelivered'[p] = Append(undelivered[p], "LIVE")
          /\ yetToVote' = yetToVote + 1 /\ asked' = [asked EXCEPT ![p] = @ + 1]
          /\ stack' = t \/ stack' = <<Deactivate(p)>> \o s1
      BY <2>8, <2>12, <3>2
    <3>4. \A q \in Proc \ {p} : Outstanding(q)' = Outstanding(q) /\ Lives(q)' = {}
      <4> SUFFICES ASSUME NEW q \in Proc \ {p} PROVE Outstanding(q)' = Outstanding(q) /\ Lives(q)' = {}
        OBVIOUS
      <4>1. Outstanding(q)' = Outstanding(q)
        BY <1>0, <3>2, <3>3, DutyStays DEF Votable
      <4> QED
        BY <3>2, <3>3, <4>1 DEF Lives
    <3>5. Outstanding(p)' = Outstanding(p) + 1 /\ Unseen(p)' # {}
      <4>1. "LIVE" \in ToVoteOn(handler', state', p)
        BY <2>1, <3>3 DEF ToVoteOn
      <4> QED
        BY <1>0, <2>7, <3>2, <3>3, <4>1, DutyAdded
    <3>6. Balance'
      BY <1>0, <2>12, <3>1, <3>3, <3>4, <3>5, BalanceAsk DEF OfferInv
    <3>7. told = << >> /\ ~Has(stack, "report")
      BY <3>1 DEF OfferInv, Before
    <3>8. ~Has(stack', "report")
      BY <2>3, <2>4, <2>5, <3>3, <3>7
    <3>9. Before'
      BY <1>0, <2>1, <3>3, <3>4, <3>7, <3>8 DEF Before
    <3>10. Walks'
      <4>1. CASE stack' = t
        BY <3>2, <4>1 DEF Walks
      <4>2. CASE stack' = <<Deactivate(p)>> \o s1
        <5>1. Head(stack') = Deactivate(p)
          BY <2>5, <4>2
        <5>2. WalkTop'
          BY <1>0, <2>2, <3>2, <3>5, <5>1 DEF WalkTop
        <5> QED
          BY <3>3, <5>2 DEF Walks
      <4> QED
        BY <3>3, <4>1, <4>2
    <3>11. Fresh' /\ After'
      BY <1>0, <2>9, <3>1 DEF Fresh, After
    <3> QED
      BY <2>9, <2>10, <3>6, <3>9, <3>10, <3>11 DEF OfferInv
  <2> QED
    BY <2>11, <2>12
<1> QED
  BY <1>2, <1>3

\* The sender of the returned offer is told.
LEMMA RunReportInv == ASSUME TypeOK, TypeOK', OfferInv, RunReport PROVE OfferInv'
<1>0. UNCHANGED <<asks, rpc, active, registered, delivered, handler, returned, told>>
  BY DEF RunReport, clientVars
<1>1. /\ Head(stack).op = "report"
      /\ stack \in Seq(Frame) /\ stack # << >> /\ Tail(stack) \in Seq(Frame)
  BY RunningFrame DEF RunReport, Running, TypeOK
<1>2. CASE ~active[Sender]
  <2>1. stack' = Tail(stack) /\ UNCHANGED <<undelivered, state, yetToVote, votes, asked, miscounted>>
    BY <1>2 DEF RunReport
  <2> QED
    BY <1>0, <1>1, <1>2, <2>1, PopInv DEF offerVars
<1>3. CASE active[Sender]
  <2> DEFINE t == Tail(stack)
             p == Sender
  <2>0. p \in Proc
    BY OfferAssumption
  <2>1. AddMessage(p, "LIVE", state, t, t)
    BY <1>3 DEF RunReport
  <2>2. /\ Ballots \in Frame /\ Deactivate(p) \in Frame
        /\ Ballots.op = "ballots" /\ Deactivate(p).op = "deactivate"
    <3>1. Ballots \in Frame /\ Deactivate(p) \in Frame
      BY <2>0, FramesMade
    <3> QED
      BY <3>1 DEF Ballots, Deactivate
  <2>3. /\ \A op : Has(stack, op) <=> "report" = op \/ Has(t, op)
        /\ \A op : Only(stack, op) => Only(t, op) /\ ("report" = op => ~Has(t, op))
        /\ NoBest(stack) => NoBest(t)
        /\ Dead => GivenUp(t, active)
    BY <1>1, PopKinds DEF Dead
  <2> HIDE DEF t
  <2>4. /\ \A op : Has(<<Deactivate(p)>> \o t, op) <=> op = "deactivate" \/ Has(t, op)
        /\ \A op : Only(t, op) /\ (op = "deactivate" => ~Has(t, op)) => Only(<<Deactivate(p)>> \o t, op)
        /\ NoBest(t) => NoBest(<<Deactivate(p)>> \o t)
        /\ GivenUp(t, active) => GivenUp(<<Deactivate(p)>> \o t, active)
    BY <1>1, <2>2, PushKinds DEF t
  <2>5. GivenUp(t, active) => GivenUp(<<Ballots>> \o t, active)
    BY <1>1, <2>2, PushKinds DEF t
  <2>6. "LIVE" \in Entry /\ state # "CREATED"
    BY <2>3 DEF Entry, OfferInv, Fresh
  <2>7. \/ miscounted' /\ stack' = <<Ballots>> \o t /\ state' \in {"ABSTAINED", state}
        \/ /\ miscounted' = miscounted /\ votes' = votes /\ state' = state
           /\ \A q \in Proc \ {p} : undelivered'[q] = undelivered[q]
           /\ \/ Lives(p) # {} /\ stack' = t
              \/ /\ undelivered'[p] = Append(undelivered[p], "LIVE")
                 /\ Lives(p) = {}
                 /\ asked' = IF state = "SENT" THEN [asked EXCEPT ![p] = @ + 1] ELSE asked
                 /\ stack' = t \/ stack' = <<Deactivate(p)>> \o t
    BY <2>0, <2>1, <2>6, AddMessageKnown
  <2>8. Dead' /\ state' # "CREATED"
    BY <1>0, <2>3, <2>4, <2>5, <2>6, <2>7 DEF OfferInv, Dead
  <2>9. SentOnce'
    BY <1>0, <2>6, SentKept DEF OfferInv
  <2>10. CASE miscounted'
    BY <2>8, <2>9, <2>10, Miscount
  <2>11. CASE ~miscounted'
    <3>1. ~miscounted /\ returned /\ state = "RETURNED"
      BY <2>3, <2>7, <2>11 DEF OfferInv, Before, After
    <3>2. Telling /\ NoBest(stack) /\ Only(stack, "report")
      BY <1>3, <3>1 DEF OfferInv, After
    <3>3. Lives(p) = {} /\ told = << >>
      BY <2>3, <3>2 DEF Telling
    <3>4. /\ votes' = votes /\ state' = "RETURNED" /\ asked' = asked
          /\ \A q \in Proc \ {p} : undelivered'[q] = undelivered[q]
          /\ undelivered'[p] = Append(undelivered[p], "LIVE")
          /\ stack' = t \/ stack' = <<Deactivate(p)>> \o t
      BY <2>7, <2>11, <3>1, <3>3
    <3>5. ~Has(stack', "report") /\ Only(stack', "report") /\ NoBest(stack')
      <4>1. ~Has(t, "report") /\ Only(t, "report") /\ NoBest(t)
        BY <2>3, <3>2
      <4> QED
        BY <2>4, <3>4, <4>1
    <3>6. \A q \in Proc \ {p} : Outstanding(q)' = Outstanding(q) /\ Unseen(q)' = Unseen(q)
      BY <1>0, <3>1, <3>4, DutyStays DEF Votable
    <3>7. Outstanding(p)' = Outstanding(p) /\ Unseen(p)' = Unseen(p)
      <4>1. "LIVE" \notin ToVoteOn(handler', state', p)
        BY <3>4 DEF ToVoteOn
      <4> QED
        BY <1>0, <2>0, <2>6, <3>3, <3>4, <4>1, DutyAdded
    <3>8. Balance'
      BY <1>0, <2>11, <3>1, <3>4, <3>6, <3>7, BalanceStays DEF OfferInv
    <3>9. Telling'
      <4>1. Lives(p)' = {Len(undelivered'[p])} /\ Len(undelivered'[p]) \in 1 .. Len(undelivered'[p])
        BY <2>0, <2>6, <3>3, <3>4, LivesAdded
      <4> QED
        BY <1>0, <3>3, <3>5, <4>1 DEF Telling
    <3>10. After'
      BY <1>0, <3>1, <3>4, <3>5, <3>6, <3>7, <3>9 DEF OfferInv, After
    <3>11. Fresh' /\ Before' /\ Walks'
      BY <1>0, <2>8, <3>1 DEF Fresh, Before, Walks
    <3> QED
      BY <2>8, <2>9, <3>8, <3>10, <3>11 DEF OfferInv
  <2> QED
    BY <2>10, <2>11
<1> QED
  BY <1>2, <1>3

-----------------------------------------------------------------------------
(* The main loop. *)

\* The offer is sent, and the walk over the patterns starts.
LEMMA ServeSendInv ==
    ASSUME TypeOK, TypeOK', OfferInv, NEW p \in Proc, ServeSend(p) PROVE OfferInv'
<1>1. /\ rpc[p] # << >> /\ Head(rpc[p]).call = "send" /\ rpc' = [rpc EXCEPT ![p] = Tail(@)]
      /\ state' = "SENT" /\ stack' = <<Deliver(TRUE), Ballots>>
      /\ UNCHANGED <<asks, active, registered, undelivered, delivered, handler, returned,
                     yetToVote, votes, asked, miscounted, told>>
  BY DEF ServeSend, Serve
<1>2. /\ rpc[p] \in Seq(Call) /\ Len(rpc[p]) \in Nat \ {0} /\ Head(rpc[p]) = rpc[p][1]
      /\ Len(Tail(rpc[p])) = Len(rpc[p]) - 1
      /\ \A i \in 1 .. Len(rpc[p]) - 1 : Tail(rpc[p])[i] = rpc[p][i+1]
  <2>1. rpc[p] \in Seq(Call)
    BY DEF TypeOK
  <2> QED
    BY <1>1, <2>1, EmptySeq, HeadTailProperties
<1>3. /\ p = Sender /\ Sender \in asks /\ state = "CREATED"
      /\ \A i \in 1 .. Len(rpc[p]) : rpc[p][i].call = "send" => i = 1
  BY <1>1, <1>2 DEF OfferInv, SentOnce
<1>4. /\ \A q \in Proc : undelivered[q] = << >> /\ delivered[q] = << >>
      /\ ~returned /\ ~miscounted /\ told = << >>
  BY <1>3 DEF OfferInv, Fresh
<1>5. \A q \in Proc \ {p} : \A i \in 1 .. Len(rpc[q]) : rpc[q][i].call # "send"
  BY <1>3 DEF OfferInv, SentOnce
<1>6. SentOnce'
  <2>1. /\ rpc'[p] = Tail(rpc[p]) /\ \A q \in Proc \ {p} : rpc'[q] = rpc[q]
    BY <1>1 DEF TypeOK
  <2>2. \A i \in 1 .. Len(rpc'[p]) : rpc'[p][i].call # "send"
    BY <1>2, <1>3, <2>1
  <2>3. \A q \in Proc : \A i \in 1 .. Len(rpc'[q]) : rpc'[q][i].call # "send"
    BY <1>5, <2>1, <2>2
  <2> QED
    BY <1>1, <1>3, <2>3 DEF SentOnce
<1> DEFINE a == Deliver(TRUE)
           n == << >>
           s1 == <<Ballots>> \o n
           s2 == <<a>> \o s1
<1>7. /\ Ballots \in Frame /\ a \in Frame /\ Ballots.op = "ballots"
      /\ a.op = "match" /\ a.best = NoProc /\ n \in Seq(Frame)
      /\ \A op : ~Has(n, op) /\ Only(n, op)
      /\ GivenUp(n, active)
  <2>1. Ballots \in Frame /\ a \in Frame
    BY FramesMade
  <2>2. n \in Seq(Frame) /\ Len(n) = 0
    OBVIOUS
  <2> QED
    BY <2>1, <2>2 DEF Ballots, Deliver, Has, Only, GivenUp
<1> HIDE DEF a, n
<1>8. /\ s1 \in Seq(Frame) /\ \A op : Has(s1, op) <=> op = "ballots" \/ Has(n, op)
      /\ \A op : Only(n, op) /\ (op = "ballots" => ~Has(n, op)) => Only(s1, op)
      /\ GivenUp(n, active) => GivenUp(s1, active)
  BY <1>7, PushKinds
<1> HIDE DEF s1
<1>9. /\ s2 \in Seq(Frame) /\ Head(s2) = a
      /\ \A op : Has(s2, op) <=> op = "match" \/ Has(s1, op)
      /\ \A op : Only(s1, op) /\ (op = "match" => ~Has(s1, op)) => Only(s2, op)
      /\ GivenUp(s1, active) => GivenUp(s2, active)
  BY <1>7, <1>8, PushKinds
<1> HIDE DEF s2
<1>10. stack' = s2
  <2>1. <<a, Ballots>> = <<a>> \o (<<Ballots>> \o << >>)
    BY <1>7, PushMany
  <2> QED
    BY <1>1, <2>1 DEF a, n, s1, s2
<1>11. \A q \in Proc : Outstanding(q)' = Outstanding(q) /\ Lives(q)' = {}
  <2> SUFFICES ASSUME NEW q \in Proc PROVE Outstanding(q)' = Outstanding(q) /\ Lives(q)' = {}
    OBVIOUS
  <2>1. Lives(q) = {} /\ Lives(q)' = {}
    BY <1>1, <1>4 DEF Lives, Places
  <2>2. Outstanding(q)' = Outstanding(q)
    BY <1>1, <2>1, DutyStays DEF Votable
  <2> QED
    BY <2>1, <2>2
<1>12. Fresh' /\ After'
  BY <1>1, <1>4 DEF Fresh, After
<1>13. Dead'
  BY <1>1, <1>7, <1>8, <1>9, <1>10 DEF Dead
<1>14. Balance'
  BY <1>1, <1>11, BalanceStays DEF OfferInv
<1>15. Before'
  BY <1>1, <1>4, <1>7, <1>8, <1>9, <1>10, <1>11 DEF Before
<1>16. Walks'
  <2>1. Only(s1, "match") /\ ~Has(s1, "match")
    BY <1>7, <1>8
  <2>2. Head(stack').op = "match" /\ Only(stack', "match") /\ Head(stack').best = NoProc
    BY <1>7, <1>9, <1>10, <2>1
  <2> QED
    BY <1>1, <1>11, <2>2 DEF Walks, WalkTop
<1> QED
  BY <1>6, <1>12, <1>13, <1>14, <1>15, <1>16 DEF OfferInv

\* A stack that is empty has no frame of any kind.
LEMMA NothingRuns == ASSUME Idle PROVE \A op : ~Has(stack, op)
<1>1. Len(stack) = 0
  BY DEF Idle
<1> QED
  BY <1>1 DEF Has

\* An RPC that finds nothing to do is taken off the socket.
LEMMA ServedInv ==
    ASSUME TypeOK, TypeOK', OfferInv, NEW p \in Proc, NEW name, Serve(p, name), asks' = asks,
           UNCHANGED <<active, undelivered, delivered, offerVars, stack, told>>
    PROVE  OfferInv'
<1>1. SentOnce'
  BY SentKept DEF OfferInv, Serve, offerVars
<1> QED
  BY <1>1, ClientKeeps DEF OfferInv

\* A client is given the next entry of its list, and owes a vote for it if it
\* is its to vote on.
LEMMA ServeNextInv ==
    ASSUME TypeOK, TypeOK', OfferInv, NEW p \in Proc, ServeNext(p) PROVE OfferInv'
<1>0. Idle /\ Serve(p, "next") /\ UNCHANGED <<asks, active, registered, offerVars, stack>>
  BY DEF ServeNext, Serve
<1>1. CASE undelivered[p] = << >>
  <2>1. UNCHANGED <<undelivered, delivered, told>>
    BY <1>1 DEF ServeNext, TypeOK
  <2> QED
    BY <1>0, <2>1, ServedInv
<1>2. CASE undelivered[p] # << >>
  <2>1. undelivered[p] \in Seq(Entry) /\ delivered[p] \in Seq(Entry) /\ DOMAIN undelivered[p] = 1 .. Len(undelivered[p])
    BY LenProperties DEF TypeOK
  <2>2. PICK e \in Entry : e = Head(undelivered[p])
    BY <1>2, <2>1, HeadTailProperties
  <2>3. /\ undelivered'[p] = Tail(undelivered[p]) /\ delivered'[p] = Owing(p, e)
        /\ \A q \in Proc \ {p} : undelivered'[q] = undelivered[q] /\ delivered'[q] = delivered[q]
        /\ told' = IF ~Votable(p, e) /\ e = "LIVE" /\ p = Sender THEN Append(told, state) ELSE told
    BY <1>2, <2>2 DEF ServeNext, TypeOK
  <2>4. state # "CREATED"
    BY <1>2 DEF OfferInv, Fresh
  <2>5. /\ state' = state /\ handler' = handler /\ returned' = returned /\ miscounted' = miscounted
        /\ votes' = votes /\ asked' = asked /\ yetToVote' = yetToVote
    BY <1>0 DEF offerVars
  <2>6. /\ Votable(p, e) => Outstanding(p)' = Outstanding(p)
        /\ ~Votable(p, e) => Outstanding(p)' = Outstanding(p)
        /\ ~Votable(p, e) /\ Unseen(p) = {} => Unseen(p)' = {}
    <3> DEFINE x == Outstanding(p)
               y == Outstanding(p)'
               m == Len(delivered'[p]) - Len(delivered[p])
    <3>1. /\ Votable(p, e) => y = x + m - 1
          /\ ~Votable(p, e) => y = x + m /\ (Unseen(p) = {} => Unseen(p)' = {})
      <4>1. ToVoteOn(handler', state', p) = ToVoteOn(handler, state, p)
        BY <2>5
      <4> QED
        BY <1>2, <2>2, <2>3, <4>1, DutyTaken
    <3>2. Votable(p, e) => m = 1
      <4>1. Len(<<e>> \o delivered[p]) = Len(delivered[p]) + 1 /\ Len(delivered[p]) \in Nat
        BY <2>1
      <4> QED
        BY <2>3, <4>1 DEF Owing
    <3>3. ~Votable(p, e) => m = 0
      BY <2>1, <2>3, LenProperties DEF Owing
    <3>4. x \in Nat
      BY OutstandingPlaces
    <3> HIDE DEF x, y, m
    <3>5. y = x /\ (~Votable(p, e) /\ Unseen(p) = {} => Unseen(p)' = {})
      BY <3>1, <3>2, <3>3, <3>4
    <3> QED
      BY <3>5 DEF x, y
  <2>7. /\ \A q \in Proc \ {p} : Outstanding(q)' = Outstanding(q) /\ Unseen(q)' = Unseen(q)
        /\ \A q \in Proc \ {p} : Lives(q)' = Lives(q)
    <3>1. \A q \in Proc \ {p} : Outstanding(q)' = Outstanding(q) /\ Unseen(q)' = Unseen(q)
      BY <2>3, <2>5, DutyStays DEF Votable
    <3> QED
      BY <2>3, <3>1 DEF Lives
  <2>8. /\ Lives(p) = {} => Lives(p)' = {} /\ e # "LIVE"
        /\ \A i \in 1 .. Len(undelivered[p]) : Lives(p) = {i} =>
              \/ e = "LIVE" /\ Lives(p)' = {}
              \/ e # "LIVE" /\ i - 1 \in 1 .. Len(undelivered'[p]) /\ Lives(p)' = {i - 1}
    BY <1>2, <2>2, <2>3, LivesTaken
  <2>9. SentOnce'
    BY <1>0, <2>5, SentKept DEF OfferInv, Serve
  <2>10. Fresh' /\ Dead' /\ Walks'
    BY <1>0, <2>4, <2>5, NothingRuns DEF OfferInv, Fresh, Dead, Walks
  <2>11. Balance'
    BY <2>5, <2>6, <2>7, BalanceStays DEF OfferInv
  <2>12. Before'
    <3> SUFFICES ASSUME ~miscounted, ~returned PROVE Before'
      BY <2>5 DEF Before
    <3>1. told = << >> /\ state # "RETURNED" /\ \A q \in Proc : Lives(q) # {} => handler = q
      BY DEF OfferInv, Before
    <3>2. e = "LIVE" => Votable(p, e)
      BY <2>8, <3>1 DEF Votable
    <3>3. told' = << >> /\ \A q \in Proc : Lives(q)' # {} => Lives(q) # {}
      BY <2>3, <2>7, <2>8, <3>1, <3>2
    <3>4. ~Has(stack', "report")
      BY <1>0, NothingRuns
    <3> QED
      BY <2>5, <3>1, <3>3, <3>4 DEF Before
  <2>13. After'
    <3> SUFFICES ASSUME ~miscounted, returned PROVE After'
      BY <2>5 DEF After
    <3>1. /\ state = "RETURNED" /\ NoBest(stack) /\ Only(stack, "report")
          /\ \A q \in Proc : delivered[q] = << >> /\ Unseen(q) = {}
          /\ active[Sender] => Telling
      BY DEF OfferInv, After
    <3>2. ~Votable(p, e)
      <4>1. 1 \in DOMAIN undelivered[p] /\ e = undelivered[p][1]
        BY <1>2, <2>1, <2>2, EmptySeq, HeadTailProperties
      <4> QED
        BY <3>1, <4>1 DEF Unseen
    <3>3. \A q \in Proc : delivered'[q] = << >> /\ Unseen(q)' = {}
      BY <2>3, <2>6, <2>7, <3>1, <3>2 DEF Owing
    <3>4. ASSUME Telling PROVE Telling'
      <4>1. ~Has(stack, "report") /\ ~Has(stack', "report")
        BY <1>0, NothingRuns
      <4>2. CASE p # Sender
        <5>1. undelivered'[Sender] = undelivered[Sender] /\ Lives(Sender)' = Lives(Sender) /\ told' = told
          BY <2>3, <2>7, <4>2, OfferAssumption
        <5> QED
          BY <3>4, <4>1, <5>1 DEF Telling
      <4>3. CASE p = Sender /\ Lives(Sender) = {}
        <5>1. told = <<"RETURNED">>
          BY <3>4, <4>1, <4>3 DEF Telling
        <5>2. Lives(Sender)' = {} /\ told' = told
          BY <2>3, <2>8, <4>3
        <5> QED
          BY <4>1, <5>1, <5>2 DEF Telling
      <4>4. CASE p = Sender /\ Lives(Sender) # {}
        <5>1. told = << >>
          BY <3>4, <4>1, <4>4 DEF Telling
        <5>2. PICK i \in 1 .. Len(undelivered[Sender]) : Lives(Sender) = {i}
          BY <3>4, <4>1, <4>4 DEF Telling
        <5>3. \/ e = "LIVE" /\ Lives(Sender)' = {}
              \/ e # "LIVE" /\ i - 1 \in 1 .. Len(undelivered'[Sender]) /\ Lives(Sender)' = {i - 1}
          BY <2>8, <4>4, <5>2
        <5>4. e = "LIVE" => told' = <<"RETURNED">>
          BY <2>3, <3>1, <3>2, <4>4, <5>1
        <5>5. e # "LIVE" => told' = << >>
          BY <2>3, <5>1
        <5> QED
          BY <4>1, <5>3, <5>4, <5>5 DEF Telling
      <4> QED
        BY <4>2, <4>3, <4>4
    <3> QED
      BY <1>0, <2>5, <3>1, <3>3, <3>4 DEF After
  <2> QED
    BY <2>9, <2>10, <2>11, <2>12, <2>13 DEF OfferInv
<1> QED
  BY <1>1, <1>2

\* A client that votes on what it owes a vote for owes one less.
LEMMA ServeUpdateInv ==
    ASSUME TypeOK, TypeOK', OfferInv, NEW p \in Proc, ServeUpdate(p) PROVE OfferInv'
<1>0. /\ Idle /\ Serve(p, "update") /\ rpc[p] # << >> /\ Head(rpc[p]).call = "update"
      /\ UNCHANGED <<asks, active, registered, undelivered, handler, returned, asked, told>>
  BY DEF ServeUpdate, Serve
<1>1. delivered[p] \in Seq(Entry)
  BY DEF TypeOK
<1>2. CASE delivered[p] = << >>
  <2>1. UNCHANGED <<delivered, state, votes, yetToVote, miscounted, stack>>
    BY <1>2 DEF ServeUpdate
  <2> QED
    BY <1>0, <2>1, ServedInv DEF offerVars
<1>3. CASE delivered[p] # << >>
  <2>1. /\ delivered' = [delivered EXCEPT ![p] = Tail(@)]
        /\ Cast(p, Head(delivered[p]), Head(rpc[p]).to, state)
        /\ stack' = <<Ballots>>
    BY <1>3 DEF ServeUpdate, OwesNoMore
  <2>2. delivered'[p] = Tail(delivered[p]) /\ \A q \in Proc \ {p} : delivered'[q] = delivered[q]
    BY <2>1 DEF TypeOK
  <2>3. PICK e \in Entry : e = Head(delivered[p])
    BY <1>1, <1>3, HeadTailProperties
  <2>4. PICK v \in Vote : v = Head(rpc[p]).to
    <3>1. Head(rpc[p]) \in Call
      BY <1>0, HeadTailProperties DEF TypeOK
    <3>2. Head(rpc[p]).to \in Vote
      BY <1>0, <3>1 DEF Call
    <3> QED
      BY <3>2
  <2>5. Cast(p, e, v, state)
    BY <2>1, <2>3, <2>4
  <2>6. state # "CREATED"
    BY <1>3 DEF OfferInv, Fresh
  <2>7. SentOnce'
    BY <1>0, <2>6, SentKept DEF OfferInv, Serve
  <2>8. Len(delivered'[p]) = Len(delivered[p]) - 1 /\ Len(delivered[p]) \in Nat \ {0}
    BY <1>1, <1>3, <2>2, EmptySeq, HeadTailProperties
  <2>9. Outstanding(p) > 0
    BY <2>8, OutstandingPlaces DEF Outstanding
  <2>10. ASSUME ~miscounted' PROVE Outstanding(p)' = Outstanding(p) - 1
    <3>1. state # "RETURNED" /\ state' # "RETURNED"
      BY <1>0, <2>5, <2>9, <2>10, CastKnown
    <3>2. Unseen(p)' = Unseen(p)
      BY <1>0, <3>1 DEF Unseen, Votable
    <3>3. Cardinality(Unseen(p)) \in Nat
      BY OutstandingPlaces
    <3> DEFINE a == Len(delivered[p])
               b == Len(delivered'[p])
               c == Cardinality(Unseen(p))
    <3>4. Outstanding(p) = a + c /\ Outstanding(p)' = b + c /\ a \in Nat /\ b = a - 1 /\ c \in Nat
      BY <2>8, <3>2, <3>3 DEF Outstanding
    <3> HIDE DEF a, b, c
    <3> QED
      BY <3>4
  <2>11. \A q \in Proc \ {p} : undelivered'[q] = undelivered[q] /\ delivered'[q] = delivered[q]
    BY <1>0, <2>2
  <2>12. Lives(p) = {} => Lives(p)' = {}
    BY <1>0 DEF Lives
  <2>13. stack' = <<Ballots>> \o stack
    <3>1. <<Ballots>> \in Seq(Frame)
      BY FramesMade
    <3> QED
      BY <1>0, <2>1, <3>1, ConcatEmptySeq DEF Idle
  <2> QED
    BY <1>0, <2>5, <2>6, <2>7, <2>9, <2>10, <2>11, <2>12, <2>13, CastInv
<1> QED
  BY <1>2, <1>3

\* A client that closes, or whose channel is lost, is going to be given up.
LEMMA GivenUpInv ==
    ASSUME TypeOK, TypeOK', OfferInv, NEW p \in Proc, ServeClose(p) \/ Hangup(p) PROVE OfferInv'
<1>1. /\ Idle /\ stack' = <<Deactivate(p)>>
      /\ UNCHANGED <<asks, active, registered, undelivered, delivered, offerVars, told>>
      /\ rpc' = rpc \/ (rpc[p] # << >> /\ rpc' = [rpc EXCEPT ![p] = Tail(@)])
  BY DEF ServeClose, Hangup, Serve, clientVars
<1>2. \A op : ~Has(stack, op)
  BY <1>1, NothingRuns
<1>3. \A op : op # "deactivate" => ~Has(stack', op)
  <2>1. Len(stack') = 1 /\ stack'[1].op = "deactivate"
    BY <1>1 DEF Deactivate
  <2> QED
    BY <2>1 DEF Has
<1>4. \A q \in Proc : Unseen(q)' = Unseen(q) /\ Outstanding(q)' = Outstanding(q) /\ Lives(q)' = Lives(q)
  BY <1>1, DutyStays DEF offerVars, Votable, Lives
<1>5. Fresh'
  BY <1>1, <1>3 DEF OfferInv, Fresh, offerVars
<1>6. SentOnce'
  BY <1>1, SentKept DEF OfferInv, offerVars
<1>7. Dead'
  BY <1>3 DEF Dead, GivenUp, Has
<1>8. Balance'
  BY <1>1, <1>4, BalanceStays DEF OfferInv, offerVars
<1>9. Before'
  BY <1>1, <1>3, <1>4 DEF OfferInv, Before, offerVars
<1>10. Walks'
  BY <1>3 DEF Walks
<1>11. After'
  <2>1. NoBest(stack') /\ Only(stack', "report")
    BY <1>3, NoWalk DEF Only, Has
  <2>2. Telling => Telling'
    BY <1>1, <1>2, <1>3, <1>4, OfferAssumption DEF Telling
  <2> QED
    BY <1>1, <1>4, <2>1, <2>2 DEF OfferInv, After, offerVars
<1> QED
  BY <1>5, <1>6, <1>7, <1>8, <1>9, <1>10, <1>11 DEF OfferInv

-----------------------------------------------------------------------------
(* The theorems. *)

\* The inductive invariant holds at the start.
LEMMA OfferInvInit == ASSUME Init PROVE OfferInv
<1>1. stack = << >> /\ Len(stack) = 0
  BY DEF Init
<1>2. /\ Fresh /\ Before /\ Walks /\ After /\ Dead
  <2>1. \A op : ~Has(stack, op)
    BY <1>1 DEF Has
  <2>2. \A p \in Proc : Lives(p) = {}
    BY DEF Init, Lives, Places
  <2>3. Dead
    BY <1>1 DEF Dead, GivenUp
  <2> QED
    BY <2>1, <2>2, <2>3 DEF Init, Fresh, Before, Walks, After
<1>3. SentOnce
  BY DEF Init, SentOnce
<1>4. Balance
  <2>1. \A p \in Proc : Outstanding(p) = 0
    <3> SUFFICES ASSUME NEW p \in Proc PROVE Outstanding(p) = 0
      OBVIOUS
    <3>1. Unseen(p) = {} /\ Len(delivered[p]) = 0
      BY DEF Init, Unseen
    <3> QED
      BY <3>1, FS_EmptySet DEF Outstanding
  <2>2. BallotsOf(Duty) = {}
    BY <2>1 DEF BallotsOf, Duty
  <2>3. IsFiniteSet(BallotsOf(Duty)) /\ Cardinality(BallotsOf(Duty)) = 0
    BY <2>2, FS_EmptySet
  <2>4. \A p \in Proc : Len(votes[p]) = 0 /\ asked[p] = 0
    BY DEF Init
  <2> QED
    BY <2>1, <2>3, <2>4 DEF Init, Balance
<1> QED
  BY <1>2, <1>3, <1>4 DEF OfferInv

\* Every step keeps the inductive invariant.
LEMMA OfferInvNext == ASSUME TypeOK, TypeOK', OfferInv, [Next]_vars PROVE OfferInv'
<1>1. CASE Run
  BY <1>1, MatchInactiveInv, MatchHandlerInv, MatchObserverInv, GiveToHandlerInv, RunBallotsInv,
     RunReportInv, RunDeactivateInv, RunUnreadInv, RunUnansweredInv, RunForgetInv DEF Run
<1>2. CASE AskSend
  BY <1>2, ClientInv, OfferAssumption
<1>3. ASSUME NEW p \in Proc, AskVote(p) \/ AskNext(p) \/ AskClose(p) \/ Die(p) PROVE OfferInv'
  BY <1>3, ClientInv
<1>4. ASSUME NEW p \in Proc, ServeRpc(p) \/ Hangup(p) PROVE OfferInv'
  BY <1>4, ServeSendInv, ServeNextInv, ServeUpdateInv, GivenUpInv DEF ServeRpc
<1>5. CASE UNCHANGED vars
  <2>1. asks' = asks /\ rpc' = rpc /\ UNCHANGED <<active, undelivered, delivered, offerVars, stack, told>>
    BY <1>5 DEF vars, offerVars
  <2>2. SentOnce'
    BY <2>1, SentKept DEF OfferInv, offerVars
  <2> QED
    BY <2>1, <2>2, ClientKeeps DEF OfferInv
<1> QED
  BY <1>1, <1>2, <1>3, <1>4, <1>5 DEF Next

\* The inductive invariant of the offer holds in every reachable state.
THEOREM OfferInvAlways == Spec => []OfferInv
<1>1. Init => OfferInv
  BY OfferInvInit
<1>2. TypeOK /\ TypeOK' /\ OfferInv /\ [Next]_vars => OfferInv'
  BY OfferInvNext
<1>3. Spec => []TypeOK
  BY OfferTypeCorrect
<1> QED
  BY <1>1, <1>2, <1>3, PTL DEF Spec

\* Votes are counted once: as long as no abstention was counted too early,
\* between two RPCs every client has voted as often as it was asked, save for
\* what it has still to vote on (add_voter, _Tt_s_procid::deactivate and
\* update_message).
THEOREM VotesMatchAlways == Spec => []VotesMatch
<1>1. OfferInv => VotesMatch
  BY DEF OfferInv, Balance, VotesMatch
<1> QED
  BY <1>1, OfferInvAlways, PTL

\* A returned offer has nobody left to vote: count_ballots returns it when
\* yetToVote reaches 0, which is the number of votes outstanding as long as no
\* abstention was counted too early.
THEOREM AllVotedAlways == Spec => []AllVoted
<1>1. TypeOK /\ OfferInv => AllVoted
  <2> SUFFICES ASSUME TypeOK, OfferInv, returned, ~miscounted, NEW p \in Proc
               PROVE  Outstanding(p) = 0
    BY DEF AllVoted
  <2>1. delivered[p] = << >> /\ Unseen(p) = {}
    BY DEF OfferInv, After
  <2> QED
    BY <2>1, OutstandingPlaces
<1> QED
  BY <1>1, OfferTypeCorrect, OfferInvAlways, PTL

\* The sender is told once: a sender that is not given up has been shown the
\* offer returned, or has it once in the list of what it has not read
\* (report_state_change and add_message).
THEOREM SenderToldAlways == Spec => []SenderTold
<1>1. TypeOK /\ OfferInv => SenderTold
  <2> SUFFICES ASSUME TypeOK, OfferInv, Idle, returned, ~miscounted, active[Sender]
               PROVE  LET lives == {i \in DOMAIN undelivered[Sender] : undelivered[Sender][i] = "LIVE"}
                      IN  \/ told = <<"RETURNED">> /\ lives = {}
                          \/ told = << >> /\ Cardinality(lives) = 1
    BY DEF SenderTold
  <2>1. DOMAIN undelivered[Sender] = 1 .. Len(undelivered[Sender])
    <3>1. undelivered[Sender] \in Seq(Entry)
      BY OfferAssumption DEF TypeOK
    <3> QED
      BY <3>1, LenProperties
  <2>2. {i \in DOMAIN undelivered[Sender] : undelivered[Sender][i] = "LIVE"} = Lives(Sender)
    BY <2>1 DEF Lives, Places
  <2>3. ~Has(stack, "report") /\ Telling
    BY NothingRuns DEF OfferInv, After
  <2>4. \A i : Cardinality({i}) = 1
    BY FS_Singleton
  <2> QED
    BY <2>2, <2>3, <2>4 DEF Telling
<1> QED
  BY <1>1, OfferTypeCorrect, OfferInvAlways, PTL

-----------------------------------------------------------------------------
(* The offer waits for somebody. *)

\* An offer that is under way waits for a vote, unless the votes are to be counted.
Awaited == state # "CREATED" /\ ~returned /\ Ballots \notin ToSet(stack) => yetToVote > 0

\* What an inactive client has to vote on is being given up.
Abandons(p) == /\ Unseen(p) # {} => Unread(p) \in ToSet(stack)
               /\ delivered[p] # << >> => Unanswered(p) \in ToSet(stack)
Abandoned == ~miscounted /\ ~returned => \A p \in Proc : active[p] \/ Abandons(p)

\* The frames of two stacks put together.
LEMMA Joined ==
    ASSUME NEW s \in Seq(Frame), NEW t \in Seq(Frame)
    PROVE  ToSet(t \o s) = ToSet(t) \cup ToSet(s)
<1> DEFINE u == t \o s
<1>1. /\ Len(t) \in Nat /\ Len(s) \in Nat /\ Len(u) = Len(t) + Len(s)
      /\ \A i \in 1 .. Len(t) + Len(s) : u[i] = IF i <= Len(t) THEN t[i] ELSE s[i - Len(t)]
  BY ConcatProperties, LenProperties
<1>2. u \in Seq(Frame)
  BY ConcatProperties
<1> HIDE DEF u
<1>3. DOMAIN u = 1 .. Len(u) /\ DOMAIN t = 1 .. Len(t) /\ DOMAIN s = 1 .. Len(s)
  BY <1>2
<1>4. ToSet(u) \subseteq ToSet(t) \cup ToSet(s)
  <2>1. \A i \in 1 .. Len(u) : \/ i \in 1 .. Len(t) /\ u[i] = t[i]
                               \/ i - Len(t) \in 1 .. Len(s) /\ u[i] = s[i - Len(t)]
    BY <1>1
  <2> QED
    BY <1>3, <2>1 DEF ToSet
<1>5. ToSet(t) \cup ToSet(s) \subseteq ToSet(u)
  <2>1. \A i \in 1 .. Len(t) : i \in 1 .. Len(u) /\ u[i] = t[i]
    BY <1>1
  <2>2. \A i \in 1 .. Len(s) : i + Len(t) \in 1 .. Len(u) /\ u[i + Len(t)] = s[i]
    BY <1>1
  <2> QED
    BY <1>3, <2>1, <2>2 DEF ToSet
<1> QED
  BY <1>4, <1>5 DEF u

\* One frame is pushed on a stack.
LEMMA Pushed ==
    ASSUME NEW s \in Seq(Frame), NEW f \in Frame
    PROVE  <<f>> \o s \in Seq(Frame) /\ ToSet(<<f>> \o s) = {f} \cup ToSet(s)
<1> DEFINE one == <<f>>
<1>1. one \in Seq(Frame) /\ ToSet(one) = {f}
  BY DEF ToSet
<1> HIDE DEF one
<1>2. one \o s \in Seq(Frame) /\ ToSet(one \o s) = ToSet(one) \cup ToSet(s)
  BY <1>1, Joined, ConcatProperties
<1> QED
  BY <1>1, <1>2 DEF one

\* The topmost frame is popped.
LEMMA Popped ==
    ASSUME NEW s \in Seq(Frame), s # << >>
    PROVE  /\ Head(s) \in Frame /\ Tail(s) \in Seq(Frame)
           /\ ToSet(s) = {Head(s)} \cup ToSet(Tail(s))
<1>1. Head(s) \in Frame /\ Tail(s) \in Seq(Frame) /\ s = <<Head(s)>> \o Tail(s)
  BY HeadTailProperties
<1>2. PICK f \in Frame : f = Head(s)
  BY <1>1
<1>3. PICK t \in Seq(Frame) : t = Tail(s)
  BY <1>1
<1>4. ToSet(<<f>> \o t) = {f} \cup ToSet(t)
  BY Pushed
<1> QED
  BY <1>1, <1>2, <1>3, <1>4

\* One, two or three frames.
LEMMA FewFrames ==
    /\ ToSet(<< >>) = {}
    /\ \A f, g, h : ToSet(<<f>>) = {f} /\ ToSet(<<f, g>>) = {f, g} /\ ToSet(<<f, g, h>>) = {f, g, h}
    /\ \A f, g, h \in Frame : <<f, g, h>> \in Seq(Frame)
<1>1. /\ ToSet(<< >>) = {}
      /\ \A f, g, h : ToSet(<<f>>) = {f} /\ ToSet(<<f, g>>) = {f, g} /\ ToSet(<<f, g, h>>) = {f, g, h}
  BY DEF ToSet
<1>2. \A f, g, h \in Frame : <<f, g, h>> \in Seq(Frame)
  OBVIOUS
<1> QED
  BY <1>1, <1>2

\* add_message leaves the frames below its own.
LEMMA AddMessageFrames ==
    ASSUME TypeOK, NEW p \in Proc, NEW e \in Entry, NEW now, NEW ok \in Seq(Frame), NEW bad \in Seq(Frame),
           AddMessage(p, e, now, ok, bad)
    PROVE  /\ ToSet(ok) \cap ToSet(bad) \subseteq ToSet(stack')
           /\ Ballots \in ToSet(stack') \/ (yetToVote' \in {yetToVote, yetToVote + 1} /\ state' = now)
<1>1. Ballots \in Frame /\ Deactivate(p) \in Frame
  BY FramesMade
<1>2. ToSet(<<Ballots>> \o ok) = {Ballots} \cup ToSet(ok)
  BY <1>1, Pushed
<1>3. ToSet(<<Deactivate(p)>> \o bad) = {Deactivate(p)} \cup ToSet(bad)
  BY <1>1, Pushed
<1>4. CASE AbstainForOld(p, e, now, ok)
  BY <1>2, <1>4 DEF AbstainForOld
<1>5. CASE MoveToEnd(p, e, now, ok)
  BY <1>5 DEF MoveToEnd
<1>6. CASE AppendAndSignal(p, e, now, ok, bad)
  BY <1>3, <1>6 DEF AppendAndSignal, Counted
<1> QED
  BY <1>4, <1>5, <1>6 DEF AddMessage
\* A function of the server leaves the frames below its own; it puts votes to the count
\* when it lowers the number of those to come.
LEMMA RunFrames ==
    ASSUME TypeOK, OfferInv, Run
    PROVE  /\ stack # << >> /\ ToSet(Tail(stack)) \subseteq ToSet(stack')
           /\ \/ Ballots \in ToSet(stack')
              \/ yetToVote' \in {yetToVote, yetToVote + 1} /\ (state = "CREATED" => state' = "CREATED")
              \/ RunBallots
           /\ Head(stack) = Ballots => RunBallots
           /\ RunBallots \/ returned' = returned
<1>1. stack # << >> /\ (Head(stack) = Ballots => RunBallots) /\ (RunBallots \/ returned' = returned)
  <2>1. \/ RunBallots \/ Running("match") \/ Running("report") \/ Running("deactivate")
        \/ Running("unread") \/ Running("unanswered") \/ Running("forget")
    BY DEF Run, MatchInactive, MatchHandler, MatchObserver, GiveToHandler, RunReport, RunDeactivate,
           RunUnread, RunUnanswered, RunForget
  <2>2. RunBallots => stack # << >>
    BY DEF RunBallots, Running
  <2>3. Ballots.op = "ballots"
    BY DEF Ballots
  <2>4. RunBallots \/ returned' = returned
    BY DEF Run, MatchInactive, MatchHandler, MatchObserver, GiveToHandler, RunReport, RunDeactivate,
           RunUnread, RunUnanswered, RunForget, offerVars
  <2> QED
    BY <2>1, <2>2, <2>3, <2>4 DEF Running
<1>2. PICK t \in Seq(Frame) : t = Tail(stack)
  BY <1>1, Popped DEF TypeOK
<1>3. Head(stack) \in Frame /\ stack \in Seq(Frame) /\ ToSet(stack) = {Head(stack)} \cup ToSet(t)
  BY <1>1, <1>2, Popped DEF TypeOK
<1>4. Ballots \in Frame /\ Report \in Frame /\ Deliver(TRUE) \in Frame /\ Deliver(FALSE) \in Frame
  BY FramesMade
<1>5. \A f \in Frame : <<f>> \o t \in Seq(Frame) /\ ToSet(<<f>> \o t) = {f} \cup ToSet(t)
  BY Pushed
<1>6. CASE MatchInactive \/ MatchHandler
  <2>1. PICK f \in Frame : stack' = <<f>> \o t
    <3>1. \A todo \in SUBSET Pattern : \A best \in Proc \cup {NoProc} : Head(stack).op = "match" =>
             /\ [Head(stack) EXCEPT !.todo = todo] \in Frame
             /\ [Head(stack) EXCEPT !.todo = todo, !.best = best] \in Frame
      BY <1>3, MatchFrame
    <3>2. Head(stack).op = "match" /\ Head(stack).todo \subseteq Pattern /\ Head(stack).best \in Proc \cup {NoProc}
      BY <1>6, WalkKnown DEF MatchInactive, MatchHandler
    <3>3. CASE MatchInactive
      BY <1>2, <3>1, <3>2, <3>3 DEF MatchInactive
    <3>4. CASE MatchHandler
      <4>1. PICK pat \in Head(stack).todo : \E b \in {Head(stack).best, pat[1]} :
               stack' = <<[Head(stack) EXCEPT !.todo = @ \ {pat}, !.best = b]>> \o t
        BY <1>2, <3>4 DEF MatchHandler
      <4>2. \A b \in {Head(stack).best, pat[1]} : b \in Proc \cup {NoProc}
        BY <3>2, <4>1 DEF Pattern
      <4> QED
        BY <3>1, <3>2, <4>1, <4>2
    <3> QED
      BY <1>6, <3>3, <3>4
  <2>2. yetToVote' = yetToVote /\ state' = state
    BY <1>6 DEF MatchInactive, MatchHandler, offerVars
  <2> QED
    BY <1>1, <1>2, <1>5, <2>1, <2>2
<1>7. CASE MatchObserver
  <2>1. PICK pat \in Head(stack).todo :
           \/ AddMessage(pat[1], state, state, <<[Head(stack) EXCEPT !.todo = @ \ {pat}]>> \o t,
                                               <<[Head(stack) EXCEPT !.todo = @ \ {pat}]>> \o t)
           \/ /\ stack' = <<[Head(stack) EXCEPT !.todo = @ \ {pat}]>> \o t
              /\ yetToVote' = yetToVote /\ state' = state
    BY <1>2, <1>7 DEF MatchObserver
  <2>2. PICK f \in Frame : f = [Head(stack) EXCEPT !.todo = @ \ {pat}]
    <3>1. Head(stack).op = "match" /\ Head(stack).todo \subseteq Pattern /\ Head(stack).best \in Proc \cup {NoProc}
      BY <1>7, WalkKnown DEF MatchObserver
    <3>2. [Head(stack) EXCEPT !.todo = Head(stack).todo \ {pat}] \in Frame
      BY <1>3, <3>1, MatchFrame
    <3> QED
      BY <3>2
  <2>3. PICK s \in Seq(Frame) : s = <<f>> \o t /\ ToSet(s) = {f} \cup ToSet(t)
    BY <1>5
  <2>4. pat[1] \in Proc /\ state \in Entry
    <3>1. Head(stack).todo \subseteq Pattern
      BY <1>7, WalkKnown DEF MatchObserver
    <3> QED
      BY <2>1, <3>1 DEF Pattern, Entry, TypeOK
  <2>5. CASE AddMessage(pat[1], state, state, s, s)
    <3>1. ToSet(t) \subseteq ToSet(stack')
      BY <2>3, <2>4, <2>5, AddMessageFrames
    <3>2. Ballots \in ToSet(stack') \/ (yetToVote' \in {yetToVote, yetToVote + 1} /\ state' = state)
      BY <2>3, <2>4, <2>5, AddMessageFrames
    <3> QED
      BY <1>1, <1>2, <3>1, <3>2
  <2> QED
    BY <1>1, <1>2, <2>1, <2>2, <2>3, <2>5
<1>8. CASE GiveToHandler
  <2>1. Head(stack).best \in Proc \cup {NoProc} /\ state # "CREATED"
    BY <1>8, WalkKnown DEF GiveToHandler
  <2>2. CASE Head(stack).best = NoProc
    BY <1>1, <1>2, <1>8, <2>2 DEF GiveToHandler
  <2>3. CASE Head(stack).best # NoProc
    <3>1. PICK s \in Seq(Frame) : s = <<Deliver(FALSE)>> \o t /\ ToSet(s) = {Deliver(FALSE)} \cup ToSet(t)
      BY <1>4, <1>5
    <3>2. AddMessage(Head(stack).best, "LIVE", "SENT", t, s)
      BY <1>2, <1>8, <2>3, <3>1 DEF GiveToHandler
    <3>3. Head(stack).best \in Proc /\ "LIVE" \in Entry
      BY <2>1, <2>3 DEF Entry
    <3>4. ToSet(t) \subseteq ToSet(stack')
      BY <3>1, <3>2, <3>3, AddMessageFrames
    <3>5. Ballots \in ToSet(stack') \/ (yetToVote' \in {yetToVote, yetToVote + 1} /\ state' = "SENT")
      BY <3>1, <3>2, <3>3, AddMessageFrames
    <3> QED
      BY <1>1, <1>2, <2>1, <3>4, <3>5
  <2> QED
    BY <2>2, <2>3
<1>9. CASE RunReport
  <2>1. \/ AddMessage(Sender, "LIVE", state, t, t)
        \/ stack' = t /\ yetToVote' = yetToVote /\ state' = state
    BY <1>2, <1>9 DEF RunReport
  <2>2. Sender \in Proc /\ "LIVE" \in Entry
    BY OfferAssumption DEF Entry
  <2>3. CASE AddMessage(Sender, "LIVE", state, t, t)
    BY <1>1, <1>2, <2>2, <2>3, AddMessageFrames
  <2> QED
    BY <1>1, <1>2, <2>1, <2>3
<1>10. CASE RunBallots
  <2>1. stack' = <<Deliver(TRUE), Ballots, Report>> \o t \/ stack' = t
    BY <1>2, <1>10 DEF RunBallots, Announce
  <2>2. ToSet(<<Deliver(TRUE), Ballots, Report>> \o t) = {Deliver(TRUE), Ballots, Report} \cup ToSet(t)
    <3> DEFINE u == <<Deliver(TRUE), Ballots, Report>>
    <3>1. u \in Seq(Frame)
      BY <1>4, FewFrames
    <3>2. ToSet(u) = {Deliver(TRUE), Ballots, Report}
      BY FewFrames
    <3> HIDE DEF u
    <3>3. ToSet(u \o t) = ToSet(u) \cup ToSet(t)
      BY <3>1, Joined
    <3> QED
      BY <3>2, <3>3 DEF u
  <2> QED
    BY <1>1, <1>2, <1>10, <2>1, <2>2
<1>11. CASE RunDeactivate
  <2>1. PICK p \in Proc : p = Head(stack).proc
    BY <1>11, RunningFrame DEF RunDeactivate
  <2>2. stack' = <<Unread(p), Unanswered(p), Forget(p)>> \o t \/ stack' = t
    BY <1>2, <1>11, <2>1 DEF RunDeactivate
  <2>3. ToSet(<<Unread(p), Unanswered(p), Forget(p)>> \o t) = {Unread(p), Unanswered(p), Forget(p)} \cup ToSet(t)
    <3> DEFINE u == <<Unread(p), Unanswered(p), Forget(p)>>
    <3>1. u \in Seq(Frame)
      BY FramesMade, FewFrames
    <3>2. ToSet(u) = {Unread(p), Unanswered(p), Forget(p)}
      BY FewFrames
    <3> HIDE DEF u
    <3>3. ToSet(u \o t) = ToSet(u) \cup ToSet(t)
      BY <3>1, Joined
    <3> QED
      BY <3>2, <3>3 DEF u
  <2>4. yetToVote' = yetToVote /\ state' = state
    BY <1>11 DEF RunDeactivate, offerVars
  <2> QED
    BY <1>1, <1>2, <2>2, <2>3, <2>4
<1>12. CASE RunUnread \/ RunUnanswered \/ RunForget
  <2>1. ToSet(<<Ballots>> \o stack) = {Ballots} \cup ToSet(stack)
    BY <1>3, <1>4, Pushed
  <2>2. \/ stack' = <<Ballots>> \o stack
        \/ stack' \in {stack, t} /\ yetToVote' = yetToVote /\ state' = state
    BY <1>2, <1>12 DEF RunUnread, RunUnanswered, RunForget, offerVars
  <2> QED
    BY <1>1, <1>2, <1>3, <2>1, <2>2
<1> QED
  BY <1>6, <1>7, <1>8, <1>9, <1>10, <1>11, <1>12 DEF Run

\* Every step keeps that an offer under way waits for a vote.
LEMMA AwaitedStep ==
    ASSUME TypeOK, TypeOK', OfferInv, Awaited, [Next]_vars PROVE Awaited'
<1> SUFFICES ASSUME state' # "CREATED", ~returned', Ballots \notin ToSet(stack') PROVE yetToVote' > 0
  BY DEF Awaited
<1>1. CASE Run
  <2>1. CASE RunBallots
    <3>1. ~Complete /\ state' = state /\ yetToVote' = yetToVote /\ returned' = returned
      BY <2>1 DEF RunBallots
    <3> QED
      BY <3>1 DEF Complete, TypeOK
  <2>2. CASE ~RunBallots
    <3>1. /\ ToSet(stack) = {Head(stack)} \cup ToSet(Tail(stack))
          /\ ToSet(Tail(stack)) \subseteq ToSet(stack') /\ Head(stack) # Ballots
      BY <1>1, <2>2, RunFrames, Popped DEF TypeOK
    <3>2. /\ yetToVote' \in {yetToVote, yetToVote + 1} /\ state # "CREATED" /\ ~returned
      BY <1>1, <2>2, RunFrames
    <3>3. yetToVote > 0
      BY <3>1, <3>2 DEF Awaited
    <3> QED
      BY <3>2, <3>3 DEF TypeOK
  <2> QED
    BY <2>1, <2>2
<1>2. ASSUME NEW p \in Proc, ServeSend(p) \/ (ServeUpdate(p) /\ delivered[p] # << >>)
      PROVE  Ballots \in ToSet(stack')
  <2>1. ToSet(<<Ballots>>) = {Ballots} /\ ToSet(<<Deliver(TRUE), Ballots>>) = {Deliver(TRUE), Ballots}
    BY FewFrames
  <2>2. stack' = <<Ballots>> \/ stack' = <<Deliver(TRUE), Ballots>>
    BY <1>2 DEF ServeSend, ServeUpdate
  <2> QED
    BY <2>1, <2>2
<1>3. CASE /\ UNCHANGED <<state, returned, yetToVote>>
           /\ UNCHANGED stack \/ stack = << >>
  <2>1. ToSet(<< >>) = {}
    BY FewFrames
  <2> QED
    BY <1>3, <2>1 DEF Awaited
<1>4. ASSUME NEW p \in Proc, ServeRpc(p) \/ Hangup(p)
      PROVE  yetToVote' > 0
  <2>1. \/ ServeSend(p) \/ (ServeUpdate(p) /\ delivered[p] # << >>)
        \/ UNCHANGED <<state, returned, yetToVote>> /\ stack = << >>
    BY <1>4 DEF ServeRpc, ServeNext, ServeUpdate, ServeClose, Hangup, Serve, Idle, offerVars
  <2> QED
    BY <1>2, <1>3, <2>1
<1>5. CASE AskSend \/ \E p \in Proc : AskVote(p) \/ AskNext(p) \/ AskClose(p) \/ Die(p)
  <2>1. UNCHANGED <<state, returned, yetToVote, stack>>
    BY <1>5 DEF AskSend, AskVote, AskNext, AskClose, Die, Ask, offerVars
  <2> QED
    BY <1>3, <2>1
<1>6. CASE UNCHANGED vars
  BY <1>3, <1>6 DEF vars
<1> QED
  BY <1>1, <1>4, <1>5, <1>6 DEF Next

\* A step that leaves p alone, and that pops no frame which gives p up.
LEMMA AbandonsKept ==
    ASSUME NEW p \in Proc, Abandons(p), Unseen(p)' = Unseen(p), delivered'[p] = delivered[p],
           \A f \in {Unread(p), Unanswered(p)} : f \in ToSet(stack) => f \in ToSet(stack')
    PROVE  Abandons(p)'
BY DEF Abandons, Unread, Unanswered

\* What the server does keeps that what an inactive client has to vote on is being given up.
LEMMA AbandonedRun ==
    ASSUME TypeOK, TypeOK', OfferInv, OfferInv', Run, ~miscounted, ~returned, ~miscounted', ~returned',
           NEW p \in Proc, ~active'[p], ~active[p] => Abandons(p)
    PROVE  Abandons(p)'
<1>1. /\ state # "RETURNED" /\ state' # "RETURNED" /\ ~Has(stack, "report")
      /\ stack \in Seq(Frame) /\ stack # << >>
  BY RunFrames DEF OfferInv, Before, TypeOK
<1>2. /\ ToSet(stack) = {Head(stack)} \cup ToSet(Tail(stack)) /\ ToSet(Tail(stack)) \subseteq ToSet(stack')
      /\ Head(stack) \in Frame
  BY <1>1, RunFrames, Popped
<1>3. Unread(p).op = "unread" /\ Unanswered(p).op = "unanswered"
  BY DEF Unread, Unanswered
<1>4. ASSUME Head(stack).op \notin {"unread", "unanswered"}
      PROVE  \A f \in {Unread(p), Unanswered(p)} : f \in ToSet(stack) => f \in ToSet(stack')
  BY <1>2, <1>3, <1>4
<1>5. ASSUME undelivered'[p] = undelivered[p], handler' = handler PROVE Unseen(p)' = Unseen(p)
  BY <1>1, <1>5 DEF Unseen, Votable
<1>6. CASE MatchInactive \/ MatchHandler \/ RunForget \/ RunBallots
  <2>1. /\ UNCHANGED <<active, undelivered, delivered, handler>>
        /\ Head(stack).op \notin {"unread", "unanswered"}
    BY <1>6 DEF MatchInactive, MatchHandler, RunForget, RunBallots, Running, offerVars
  <2> QED
    BY <1>4, <1>5, <2>1, AbandonsKept
<1>7. CASE MatchObserver
  <2>1. /\ UNCHANGED <<active, delivered, handler>> /\ Head(stack).op = "match"
        /\ Head(stack).todo \subseteq Pattern
    BY <1>7, WalkKnown DEF MatchObserver, Running
  <2>2. PICK q, e, ok, now : /\ q \in Proc /\ e \in Entry /\ active[q]
                             /\ AddMessage(q, e, now, ok, ok) \/ undelivered' = undelivered
    <3>1. PICK pat \in Head(stack).todo :
             active[pat[1]] /\ (undelivered' = undelivered
               \/ AddMessage(pat[1], state, state, <<[Head(stack) EXCEPT !.todo = @ \ {pat}]>> \o Tail(stack),
                                                   <<[Head(stack) EXCEPT !.todo = @ \ {pat}]>> \o Tail(stack)))
      BY <1>7 DEF MatchObserver
    <3>2. pat[1] \in Proc /\ state \in Entry
      BY <2>1, <3>1 DEF Pattern, Entry, TypeOK
    <3> QED
      BY <3>1, <3>2
  <2>3. undelivered'[p] = undelivered[p]
    <3>1. p # q
      BY <2>1, <2>2
    <3>2. CASE AddMessage(q, e, now, ok, ok)
      BY <3>1, <3>2 DEF AddMessage, AbstainForOld, MoveToEnd, AppendAndSignal, TypeOK
    <3> QED
      BY <2>2, <3>2
  <2> QED
    BY <1>4, <1>5, <2>1, <2>3, AbandonsKept
<1>8. CASE GiveToHandler
  <2>1. /\ UNCHANGED <<active, delivered>> /\ Head(stack).op = "match"
        /\ Head(stack).best \in Proc \cup {NoProc}
        /\ Head(stack).best # NoProc => active[Head(stack).best]
        /\ Lives(p) = {}
    BY <1>8, WalkKnown DEF GiveToHandler, Running
  <2>2. CASE Head(stack).best = NoProc
    <3>1. undelivered' = undelivered /\ handler' = handler
      BY <1>8, <2>2 DEF GiveToHandler
    <3> QED
      BY <1>4, <1>5, <2>1, <3>1, AbandonsKept
  <2>3. CASE Head(stack).best # NoProc
    <3>1. PICK q \in Proc : q = Head(stack).best /\ q # p
      BY <2>1, <2>3
    <3>2. AddMessage(q, "LIVE", "SENT", Tail(stack), <<Deliver(FALSE)>> \o Tail(stack))
      BY <1>8, <2>3, <3>1 DEF GiveToHandler
    <3>3. undelivered'[p] = undelivered[p]
      BY <3>1, <3>2 DEF AddMessage, AbstainForOld, MoveToEnd, AppendAndSignal, TypeOK
    <3>4. Unseen(p)' = Unseen(p)
      BY <2>1, <3>3, DutyStays DEF Votable
    <3> QED
      BY <1>4, <2>1, <3>4, AbandonsKept
  <2> QED
    BY <2>2, <2>3
<1>9. CASE RunReport
  BY <1>1, <1>9, PopKinds DEF RunReport, Running
<1>10. CASE RunDeactivate
  <2>1. PICK q \in Proc : q = Head(stack).proc
    BY <1>10, RunningFrame DEF RunDeactivate
  <2>2. UNCHANGED <<undelivered, delivered, handler>> /\ Head(stack).op = "deactivate"
    BY <1>10 DEF RunDeactivate, Running, offerVars
  <2>3. CASE ~active[p]
    BY <1>4, <1>5, <2>2, <2>3, AbandonsKept
  <2>4. CASE active[p]
    <3>1. q = p /\ stack' = <<Unread(p), Unanswered(p), Forget(p)>> \o Tail(stack)
      BY <1>10, <2>1, <2>4 DEF RunDeactivate, TypeOK
    <3>2. Unread(p) \in ToSet(stack') /\ Unanswered(p) \in ToSet(stack')
      <4> DEFINE u == <<Unread(p), Unanswered(p), Forget(p)>>
      <4>1. u \in Seq(Frame)
        BY FramesMade, FewFrames
      <4>2. ToSet(u) = {Unread(p), Unanswered(p), Forget(p)}
        BY FewFrames
      <4>3. Tail(stack) \in Seq(Frame)
        BY <1>1, Popped
      <4> HIDE DEF u
      <4>4. ToSet(u \o Tail(stack)) = ToSet(u) \cup ToSet(Tail(stack))
        BY <4>1, <4>3, Joined
      <4> QED
        BY <3>1, <4>2, <4>4 DEF u
    <3> QED
      BY <3>2 DEF Abandons, Unread, Unanswered
  <2> QED
    BY <2>3, <2>4
<1>11. CASE RunUnread
  <2>1. /\ UNCHANGED <<active, delivered, handler>> /\ Head(stack).op = "unread"
        /\ Head(stack).proc \in Proc /\ Abandons(p)
    BY <1>11, RunningFrame DEF RunUnread, Running
  <2>2. Unanswered(p) \in ToSet(stack) => Unanswered(p) \in ToSet(stack')
    BY <1>2, <1>3, <2>1
  <2>3. CASE Head(stack).proc # p
    <3>1. undelivered'[p] = undelivered[p]
      BY <1>11, <2>1, <2>3 DEF RunUnread, TypeOK
    <3>2. Unread(p) \in ToSet(stack) => Unread(p) \in ToSet(stack')
      BY <1>2, <2>3 DEF Unread
    <3> QED
      BY <1>5, <2>1, <2>2, <3>1, <3>2, AbandonsKept
  <2>4. CASE Head(stack).proc = p /\ undelivered[p] = << >>
    <3>1. undelivered'[p] = << >>
      BY <1>11, <2>4 DEF RunUnread
    <3>2. Unseen(p)' = {}
      BY <3>1 DEF Unseen
    <3> QED
      BY <2>1, <2>2, <3>2 DEF Abandons, Unanswered
  <2>5. CASE Head(stack).proc = p /\ undelivered[p] # << >>
    <3>1. Unread(p) \in ToSet(stack')
      <4>1. Head(stack) = Unread(p)
        BY <1>2, <2>1, <2>5 DEF Frame, Unread
      <4>2. stack' = stack \/ stack' = <<Ballots>> \o stack
        BY <1>11, <2>5 DEF RunUnread
      <4>3. ToSet(<<Ballots>> \o stack) = {Ballots} \cup ToSet(stack)
        BY <1>1, FramesMade, Pushed
      <4> QED
        BY <1>2, <4>1, <4>2, <4>3
    <3> QED
      BY <2>1, <2>2, <3>1 DEF Abandons, Unread, Unanswered
  <2> QED
    BY <2>3, <2>4, <2>5
<1>12. CASE RunUnanswered
  <2>1. /\ UNCHANGED <<active, undelivered, handler>> /\ Head(stack).op = "unanswered"
        /\ Head(stack).proc \in Proc /\ Abandons(p)
    BY <1>12, RunningFrame DEF RunUnanswered, Running
  <2>2. /\ Unread(p) \in ToSet(stack) => Unread(p) \in ToSet(stack')
        /\ Unseen(p)' = Unseen(p)
    BY <1>2, <1>3, <1>5, <2>1
  <2>3. CASE Head(stack).proc # p
    <3>1. delivered'[p] = delivered[p]
      BY <1>12, <2>1, <2>3 DEF RunUnanswered, TypeOK
    <3>2. Unanswered(p) \in ToSet(stack) => Unanswered(p) \in ToSet(stack')
      BY <1>2, <2>3 DEF Unanswered
    <3> QED
      BY <2>1, <2>2, <3>1, <3>2, AbandonsKept
  <2>4. CASE Head(stack).proc = p /\ Owed(p) = {}
    <3>1. delivered'[p] = delivered[p]
      BY <1>12, <2>4 DEF RunUnanswered
    <3>2. delivered[p] = << >>
      <4>1. delivered[p] \in Seq(Entry)
        BY DEF TypeOK
      <4>2. DOMAIN delivered[p] = 1 .. Len(delivered[p]) /\ Len(delivered[p]) \in Nat
        BY <4>1, LenProperties
      <4>3. DOMAIN delivered[p] = {}
        BY <2>4 DEF Owed, ToSet
      <4>4. Len(delivered[p]) = 0
        <5> DEFINE n == Len(delivered[p])
        <5>1. n \in Nat /\ 1 .. n = {}
          BY <4>2, <4>3
        <5> HIDE DEF n
        <5>2. n > 0 => 1 \in 1 .. n
          BY <5>1
        <5> QED
          BY <5>1, <5>2 DEF n
      <4> QED
        BY <4>1, <4>4, EmptySeq
    <3> QED
      BY <2>1, <2>2, <3>1, <3>2 DEF Abandons, Unread
  <2>5. CASE Head(stack).proc = p /\ Owed(p) # {}
    <3>1. Unanswered(p) \in ToSet(stack')
      <4>1. Head(stack) = Unanswered(p)
        BY <1>2, <2>1, <2>5 DEF Frame, Unanswered
      <4>2. stack' = <<Ballots>> \o stack
        BY <1>12, <2>5 DEF RunUnanswered
      <4>3. ToSet(<<Ballots>> \o stack) = {Ballots} \cup ToSet(stack)
        BY <1>1, FramesMade, Pushed
      <4> QED
        BY <1>2, <4>1, <4>2, <4>3
    <3> QED
      BY <2>1, <2>2, <3>1 DEF Abandons, Unread, Unanswered
  <2> QED
    BY <2>3, <2>4, <2>5
<1> QED
  BY <1>6, <1>7, <1>8, <1>9, <1>10, <1>11, <1>12 DEF Run

\* Every step does.
LEMMA AbandonedStep ==
    ASSUME TypeOK, TypeOK', OfferInv, OfferInv', Abandoned, [Next]_vars PROVE Abandoned'
<1> SUFFICES ASSUME ~miscounted', ~returned', NEW p \in Proc, ~active'[p] PROVE Abandons(p)'
  BY DEF Abandoned
<1>1. CASE Run
  <2>1. ~miscounted
    BY <1>1 DEF Run, MatchInactive, MatchHandler, MatchObserver, GiveToHandler, RunBallots, RunReport,
           RunDeactivate, RunUnread, RunUnanswered, RunForget, AddMessage, AbstainForOld, MoveToEnd,
           AppendAndSignal, Cast, offerVars
  <2>2. ~returned
    BY <1>1, RunFrames DEF RunBallots
  <2> QED
    BY <1>1, <2>1, <2>2, AbandonedRun DEF Abandoned
<1>2. ASSUME NEW q \in Proc, ServeRpc(q) \/ Hangup(q) PROVE Abandons(p)'
  <2>1. Idle /\ active' = active /\ returned' = returned /\ handler' = handler /\ ~miscounted
    <3>1. CASE ServeSend(q)
      BY <3>1 DEF ServeSend, Serve
    <3>2. CASE ServeUpdate(q)
      BY <3>2 DEF ServeUpdate, Serve, Cast
    <3>3. CASE ServeClose(q)
      BY <3>3 DEF ServeClose, Serve, offerVars
    <3>4. CASE ServeNext(q)
      <4>1. Idle /\ UNCHANGED <<active, offerVars>>
        BY <3>4 DEF ServeNext, Serve
      <4> QED
        BY <4>1 DEF offerVars
    <3>5. CASE Hangup(q)
      BY <3>5 DEF Hangup, offerVars
    <3> QED
      BY <1>2, <3>1, <3>2, <3>3, <3>4, <3>5 DEF ServeRpc
  <2>2. state # "RETURNED" /\ state' # "RETURNED"
    BY <2>1 DEF OfferInv, Before
  <2>3. Unseen(p) = {} /\ delivered[p] = << >>
    BY <2>1, FewFrames DEF Idle, Abandoned, Abandons
  <2>4. undelivered'[p] = undelivered[p] => Unseen(p)' = {}
    BY <2>1, <2>2, <2>3 DEF Unseen, Votable
  <2>5. CASE ServeNext(q)
    <3>1. CASE q # p \/ undelivered[p] = << >>
      <4>1. undelivered'[p] = undelivered[p] /\ delivered'[p] = delivered[p]
        BY <2>5, <3>1 DEF ServeNext, TypeOK
      <4> QED
        BY <2>3, <2>4, <4>1 DEF Abandons
    <3>2. CASE q = p /\ undelivered[p] # << >>
      <4>1. PICK e : e = Head(undelivered[p])
        OBVIOUS
      <4>2. undelivered'[p] = Tail(undelivered[p]) /\ delivered'[p] = Owing(p, e)
        BY <2>5, <3>2, <4>1 DEF ServeNext, TypeOK
      <4>3. ToVoteOn(handler', state', p) = ToVoteOn(handler, state, p)
        BY <2>1, <2>2 DEF ToVoteOn
      <4>4. ~Votable(p, e) /\ Unseen(p)' = {}
        BY <2>3, <3>2, <4>1, <4>2, <4>3, DutyTaken
      <4> QED
        BY <2>3, <4>2, <4>4 DEF Abandons, Owing
    <3> QED
      BY <3>1, <3>2
  <2>6. CASE ServeUpdate(q)
    <3>1. undelivered'[p] = undelivered[p] /\ delivered'[p] = << >>
      BY <2>3, <2>6 DEF ServeUpdate, TypeOK
    <3> QED
      BY <2>4, <3>1 DEF Abandons
  <2>7. CASE ServeSend(q) \/ ServeClose(q) \/ Hangup(q)
    <3>1. undelivered' = undelivered /\ delivered' = delivered
      BY <2>7 DEF ServeSend, ServeClose, Hangup
    <3> QED
      BY <2>3, <2>4, <3>1 DEF Abandons
  <2> QED
    BY <1>2, <2>5, <2>6, <2>7 DEF ServeRpc
<1>3. CASE UNCHANGED <<active, undelivered, delivered, offerVars, stack>>
  BY <1>3 DEF Abandoned, Abandons, Unseen, Votable, offerVars, Unread, Unanswered
<1>4. ASSUME AskSend \/ \E q \in Proc : AskVote(q) \/ AskNext(q) \/ AskClose(q) \/ Die(q)
      PROVE  UNCHANGED <<active, undelivered, delivered, offerVars, stack>>
  BY <1>4 DEF AskSend, AskVote, AskNext, AskClose, Die, Ask
<1>5. ASSUME UNCHANGED vars PROVE UNCHANGED <<active, undelivered, delivered, offerVars, stack>>
  BY <1>5 DEF vars, offerVars
<1> QED
  BY <1>1, <1>2, <1>3, <1>4, <1>5 DEF Next

\* An offer under way waits for an active client: between two RPCs, as long as no
\* abstention was counted too early, somebody who is not given up has still to vote on
\* an offer that has not been returned (count_ballots and _Tt_s_procid::deactivate).
\* Without that condition it is false where a client both observes and handles.
THEOREM NoneStuckAlways == Spec => [](~miscounted => NoneStuck)
<1>1. Init => Awaited /\ Abandoned
  BY DEF Init, Awaited, Abandoned
<1>2. TypeOK /\ TypeOK' /\ OfferInv /\ Awaited /\ [Next]_vars => Awaited'
  BY AwaitedStep
<1>3. TypeOK /\ TypeOK' /\ OfferInv /\ OfferInv' /\ Abandoned /\ [Next]_vars => Abandoned'
  BY AbandonedStep
<1>4. TypeOK /\ OfferInv /\ Awaited /\ Abandoned => (~miscounted => NoneStuck)
  <2> SUFFICES ASSUME TypeOK, OfferInv, Awaited, Abandoned, ~miscounted,
                      Idle, state # "CREATED", ~returned
               PROVE  \E p \in Proc : active[p] /\ Outstanding(p) > 0
    BY DEF NoneStuck
  <2>1. ToSet(stack) = {}
    BY FewFrames DEF Idle
  <2>2. yetToVote > 0 /\ yetToVote = Cardinality(BallotsOf(Duty))
    BY <2>1 DEF Awaited, OfferInv, Balance
  <2>3. BallotsOf(Duty) # {}
    BY <2>2, FS_EmptySet
  <2>4. PICK p \in Proc : Outstanding(p) > 0
    <3>1. PICK t \in Proc \X Nat : 0 < t[2] /\ t[2] <= Duty[t[1]]
      BY <2>3 DEF BallotsOf
    <3>2. t[1] \in Proc /\ t[2] \in Nat /\ Duty[t[1]] = Outstanding(t[1]) /\ Outstanding(t[1]) \in Nat
      BY <3>1, OutstandingPlaces DEF Duty
    <3> QED
      BY <3>1, <3>2
  <2>5. ~(Unseen(p) = {} /\ delivered[p] = << >>)
    BY <2>4, OutstandingPlaces
  <2> QED
    BY <2>1, <2>4, <2>5 DEF Abandoned, Abandons
<1>5. Spec => [](TypeOK /\ OfferInv)
  BY OfferTypeCorrect, OfferInvAlways, PTL
<1> QED
  BY <1>1, <1>2, <1>3, <1>4, <1>5, PTL DEF Spec

=============================================================================
