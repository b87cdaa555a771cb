-------------------------- MODULE TtDelivery_proofs ------------------------
(***************************************************************************)
(* Theorems about TtSession, for every set of clients, requests and plans: *)
(* what becomes of a request.  The session implements TtRequest, no        *)
(* request is lost, the sender is told its end once, and the observers are *)
(* shown each of its states once, in order.                                *)
(*                                                                         *)
(* Each rests on an invariant of its own beside that of TtSession_proofs.  *)
(***************************************************************************)
EXTENDS TtSession_proofs

-----------------------------------------------------------------------------
(* The session implements TtRequest. *)

\* A process that has been given a request and is active is its handler, or is
\* not tried again, unless the request has ended.
GivenTried(m) == \A p \in given[m] :
    ~active[p] \/ p \in tried[m] \/ handler[m] = p \/ state[m] \in Final

\* The best handler that a walk has found so far has not been tried.
BestUntried(m) == \A f \in ToSet(stack) :
    f.op = "match" /\ f.msg = m /\ f.best # NoProc => f.best \notin tried[m] \/ ~active[f.best]

GivenInv == heap = "intact" => \A m \in Msg : GivenTried(m) /\ BestUntried(m)

\* The frames of a stack from which one was taken, and on which some were pushed.
LEMMA Frames ==
    ASSUME NEW s \in Seq(Frame)
    PROVE  /\ s # << >> => Head(s) \in ToSet(s) /\ ToSet(Tail(s)) \subseteq ToSet(s)
           /\ \A t \in Seq(Frame) : ToSet(t \o s) \subseteq ToSet(t) \cup ToSet(s)
<1>1. ASSUME s # << >> PROVE Head(s) \in ToSet(s) /\ ToSet(Tail(s)) \subseteq ToSet(s)
  <2>1. /\ Len(s) \in Nat \ {0} /\ Head(s) = s[1]
        /\ Len(Tail(s)) = Len(s) - 1 /\ \A i \in 1 .. Len(Tail(s)) : Tail(s)[i] = s[i + 1]
    BY <1>1, EmptySeq, HeadTailProperties
  <2>2. 1 \in 1 .. Len(s) /\ \A i \in 1 .. Len(Tail(s)) : i + 1 \in 1 .. Len(s)
    BY <2>1
  <2>3. DOMAIN s = 1 .. Len(s) /\ DOMAIN Tail(s) = 1 .. Len(Tail(s))
    BY <1>1
  <2> QED
    BY <2>1, <2>2, <2>3 DEF ToSet
<1>2. ASSUME NEW t \in Seq(Frame) PROVE ToSet(t \o s) \subseteq ToSet(t) \cup ToSet(s)
  <2> DEFINE u == t \o s
  <2>1. /\ Len(t) \in Nat /\ Len(s) \in Nat /\ Len(u) = Len(t) + Len(s)
        /\ \A i \in 1 .. Len(t) + Len(s) : u[i] = IF i <= Len(t) THEN t[i] ELSE s[i - Len(t)]
    BY ConcatProperties, LenProperties
  <2>2. u \in Seq(Frame)
    BY ConcatProperties
  <2> HIDE DEF u
  <2>3. DOMAIN u = 1 .. Len(u) /\ DOMAIN t = 1 .. Len(t) /\ DOMAIN s = 1 .. Len(s)
    BY <2>2
  <2>4. \A i \in 1 .. Len(u) : \/ i \in 1 .. Len(t) /\ u[i] = t[i]
                               \/ i - Len(t) \in 1 .. Len(s) /\ u[i] = s[i - Len(t)]
    BY <2>1
  <2> QED
    BY <2>3, <2>4 DEF ToSet, u
<1> QED
  BY <1>1, <1>2

\* Nothing but the stack matters to a walk when nobody is tried and no process
\* starts to be active.
LEMMA BestKept ==
    ASSUME TypeOK, TypeOK', NEW m \in Msg, BestUntried(m),
           \A p \in tried'[m] : p \in tried[m] \/ ~active[p],
           \A p \in Proc : active'[p] => active[p],
           \A f \in ToSet(stack') : f.op = "match" /\ f.msg = m /\ f.best # NoProc =>
               \/ \E g \in ToSet(stack) : g.op = "match" /\ g.msg = m /\ g.best = f.best
               \/ f.best \notin tried[m]
    PROVE  BestUntried(m)'
<1> SUFFICES ASSUME NEW f \in ToSet(stack'), f.op = "match", f.msg = m, f.best # NoProc
             PROVE  f.best \notin tried'[m] \/ ~active'[f.best]
  BY DEF BestUntried
<1>1. f.best \in Proc
  <2>1. f \in Frame
    BY DEF ToSet, TypeOK
  <2> QED
    BY <2>1, FramesRead
<1> QED
  BY <1>1 DEF BestUntried

\* A walk is on the stack only if it was before.
NoWalk == \A f \in ToSet(stack') : f.op = "match" => f \in ToSet(stack)

\* A frame that does no walk.
Idles(f) == f \in Frame /\ f.op # "match"

\* The frames pushed by the server do no walk, but for those of deliver.
LEMMA Idlers ==
    /\ \A m \in Msg, b \in BOOLEAN : Idles(Deliver(m, b))
    /\ \A m \in Msg, s \in {"QUEUED", "REJECTED"} \cup Final : Idles(Change(m, s))
    /\ \A m \in Msg : Idles(Report(m)) /\ Idles(Requeue(m))
    /\ \A v \in BOOLEAN : Idles(Return(v))
    /\ \A p \in Proc : /\ Idles(Deactivate(p)) /\ Idles(Unread(p))
                       /\ Idles(Unanswered(p)) /\ Idles(Forget(p))
    /\ \A p \in Proc, m \in Msg, r \in BOOLEAN : Idles(Orphaned(p, m, r))
    /\ \A ms \in SUBSET Msg : Idles(Redeliver(ms))
BY FramesMade DEF Idles, Deliver, Change, Report, Requeue, Return, Deactivate, Unread,
       Unanswered, Forget, Orphaned, Redeliver

\* Frames that do no walk are pushed.
LEMMA Pushed ==
    ASSUME TypeOK, NEW s, s = stack \/ (stack # << >> /\ s = Tail(stack)),
           NEW f, NEW g, NEW h, Idles(f), Idles(g), Idles(h)
    PROVE  /\ stack' = s => NoWalk
           /\ stack' = <<f>> \o s => NoWalk
           /\ stack' = <<f, g>> \o s => NoWalk
           /\ stack' = <<f, g, h>> \o s => NoWalk
           /\ stack' = <<f>> \o (<<g>> \o s) => NoWalk
<1>1. s \in Seq(Frame) /\ ToSet(s) \subseteq ToSet(stack)
  <2>1. stack \in Seq(Frame)
    BY DEF TypeOK
  <2>2. stack # << >> => Tail(stack) \in Seq(Frame)
    BY <2>1, HeadTailProperties
  <2> QED
    BY <2>1, <2>2, Frames
<1>2. f \in Frame /\ g \in Frame /\ h \in Frame /\ f.op # "match" /\ g.op # "match" /\ h.op # "match"
  BY DEF Idles
<1>3. stack' = s => NoWalk
  BY <1>1 DEF NoWalk
<1>4. ASSUME NEW t \in Seq(Frame), \A x \in ToSet(t) : x.op # "match", stack' = t \o s
      PROVE  NoWalk
  <2>1. ToSet(t \o s) \subseteq ToSet(t) \cup ToSet(s)
    BY <1>1, Frames
  <2> QED
    BY <1>1, <1>4, <2>1 DEF NoWalk
<1> DEFINE one == <<f>>
           two == <<f, g>>
           three == <<f, g, h>>
<1>5. one \in Seq(Frame) /\ two \in Seq(Frame) /\ three \in Seq(Frame)
  BY <1>2
<1>6. ToSet(one) = {f} /\ ToSet(two) = {f, g} /\ ToSet(three) = {f, g, h}
  BY DEF ToSet
<1>7. <<f>> \o (<<g>> \o s) = two \o s
  BY <1>1, <1>2, PushPush
<1>8. one = <<f>> /\ two = <<f, g>> /\ three = <<f, g, h>>
  OBVIOUS
<1> HIDE DEF one, two, three
<1>9. /\ stack' = one \o s => NoWalk
      /\ stack' = two \o s => NoWalk
      /\ stack' = three \o s => NoWalk
  BY <1>2, <1>4, <1>5, <1>6
<1> QED
  BY <1>3, <1>7, <1>8, <1>9

\* add_message leaves one of the stacks it is given, or gives up the process.
LEMMA AddedStack ==
    ASSUME NEW p, NEW e, NEW ok, NEW bad, AddMessage(p, e, ok, bad)
    PROVE  stack' = ok \/ stack' = bad \/ stack' = <<Deactivate(p)>> \o bad
BY DEF AddMessage, MoveToEnd, AppendAndSignal, Signal

\* Only deliver walks the patterns.
LEMMA RunNoWalk ==
    ASSUME TypeOK, Run, ~RunDeliver, ~MatchInactive, ~MatchHandler, ~MatchObserver
    PROVE  NoWalk
<1> DEFINE f == Head(stack)
           t == Tail(stack)
<1>1. CASE MatchHosed
  BY <1>1 DEF MatchHosed, NoWalk
<1>2. stack # << >> /\ stack \in Seq(Frame) /\ f \in Frame /\ heap = "intact"
  <2>1. heap = "intact" /\ stack # << >>
    BY DEF Run, Running, RunDeliver, MatchHosed, MatchInactive, MatchHandler, MatchObserver,
                MatchEnded, GiveToHandler, NoHandler, RunReturn, ChangeRepeated, ChangeFinal,
                ChangeQueued, ChangeRejected, RunReport, RunDeactivate, RunUnread, RunUnanswered,
                RunOrphaned, RunForget, RunRedeliver, RunRequeue
  <2> QED
    BY <2>1, HeadTailProperties DEF TypeOK
<1>3. PICK i : Idles(i)
  BY Idlers
<1>4. CASE stack' = t
  BY <1>2, <1>3, <1>4, Pushed
<1>5. ASSUME NEW a, Idles(a), stack' = <<a>> \o t PROVE NoWalk
  BY <1>2, <1>5, Pushed
<1>6. ASSUME NEW a, NEW b, Idles(a), Idles(b),
             stack' = <<a, b>> \o t \/ stack' = <<a>> \o (<<b>> \o t)
      PROVE NoWalk
  BY <1>2, <1>6, Pushed
<1>7. ASSUME NEW a, NEW b, NEW c, Idles(a), Idles(b), Idles(c), stack' = <<a, b, c>> \o t
      PROVE NoWalk
  BY <1>2, <1>7, Pushed
<1>8. ASSUME NEW a, NEW b, Idles(a), Idles(b), stack' = <<a>> \o stack \/ stack' = <<a, b>> \o stack
      PROVE NoWalk
  BY <1>2, <1>8, Pushed
<1>9. CASE RunReturn \/ ChangeRepeated \/ RunOrphaned \/ RunForget \/ RunRequeue
  BY <1>4, <1>9 DEF RunReturn, ChangeRepeated, RunOrphaned, RunForget, RunRequeue
<1>10. CASE RunReport
  <2>1. f.msg \in Msg /\ AddMessage(Sender[f.msg], Live(f.msg), t, t)
    BY <1>2, <1>10, FramesRead DEF RunReport, Running
  <2>2. Idles(Deactivate(Sender[f.msg]))
    BY <2>1, Idlers, SessionAssumption
  <2>3. stack' = t \/ stack' = <<Deactivate(Sender[f.msg])>> \o t
    BY <2>1, AddedStack
  <2> QED
    BY <1>4, <1>5, <2>2, <2>3
<1>11. CASE GiveToHandler
  <2>1. /\ f.msg \in Msg /\ f.best \in Proc
        /\ AddMessage(f.best, Live(f.msg), <<Return(TRUE)>> \o t, <<Deliver(f.msg, FALSE)>> \o t)
    BY <1>2, <1>11, FramesRead DEF GiveToHandler, MatchEnded, Running
  <2>2. Idles(Return(TRUE)) /\ Idles(Deliver(f.msg, FALSE)) /\ Idles(Deactivate(f.best))
    BY <2>1, Idlers
  <2>3. \/ stack' = <<Return(TRUE)>> \o t \/ stack' = <<Deliver(f.msg, FALSE)>> \o t
        \/ stack' = <<Deactivate(f.best)>> \o (<<Deliver(f.msg, FALSE)>> \o t)
    BY <2>1, AddedStack
  <2> QED
    BY <1>5, <1>6, <2>2, <2>3
<1>12. CASE NoHandler
  <2>1. /\ f.msg \in Msg
        /\ \/ stack' = <<Change(f.msg, Disposition(f.msg)), Return(FALSE)>> \o t
           \/ stack' = <<Return(TRUE)>> \o t
    BY <1>2, <1>12, FramesRead DEF NoHandler, MatchEnded, Running
  <2>2. Idles(Return(TRUE)) /\ Idles(Return(FALSE)) /\ Idles(Change(f.msg, Disposition(f.msg)))
    BY <2>1, Idlers DEF Disposition, Final
  <2> QED
    BY <1>5, <1>6, <2>1, <2>2
<1>13. CASE ChangeFinal \/ ChangeQueued \/ ChangeRejected
  <2>1. /\ f.msg \in Msg
        /\ \/ stack' = <<Deliver(f.msg, TRUE), Report(f.msg)>> \o t
           \/ stack' = <<Report(f.msg), Deliver(f.msg, TRUE)>> \o t
           \/ stack' = <<Deliver(f.msg, FALSE)>> \o t
    BY <1>2, <1>13, FramesRead
       DEF ChangeFinal, ChangeQueued, ChangeRejected, Announce, Rematch, Running
  <2>2. Idles(Deliver(f.msg, TRUE)) /\ Idles(Deliver(f.msg, FALSE)) /\ Idles(Report(f.msg))
    BY <2>1, Idlers
  <2> QED
    BY <1>5, <1>6, <2>1, <2>2
<1>14. CASE RunDeactivate
  <2>1. /\ f.proc \in Proc
        /\ stack' = t \/ stack' = <<Unread(f.proc), Unanswered(f.proc), Forget(f.proc)>> \o t
    BY <1>2, <1>14, FramesRead DEF RunDeactivate, Running
  <2>2. Idles(Unread(f.proc)) /\ Idles(Unanswered(f.proc)) /\ Idles(Forget(f.proc))
    BY <2>1, Idlers
  <2> QED
    BY <1>4, <1>7, <2>1, <2>2
<1>15. CASE RunUnread
  <2>1. CASE stack' = t
    BY <1>4, <2>1
  <2>2. CASE stack' # t
    <3>1. PICK p \in Proc, e \in Entry : stack' = FailUnread(p, e) \o <<Orphaned(p, e.msg, FALSE)>> \o stack
      <4>1. f.proc \in Proc
        BY <1>2, <1>15, FramesRead DEF RunUnread, Running
      <4>2. undelivered[f.proc] # << >> => Head(undelivered[f.proc]) \in Entry
        BY <4>1, HeadTailProperties DEF TypeOK
      <4> QED
        BY <1>15, <2>2, <4>1, <4>2 DEF RunUnread
    <3>2. e.msg \in Msg
      BY DEF Entry
    <3>3. PICK a, b : a = Change(e.msg, "FAILED") /\ b = Orphaned(p, e.msg, FALSE)
      OBVIOUS
    <3>4. Idles(a) /\ Idles(b)
      BY <3>2, <3>3, Idlers DEF Final
    <3>5. stack' = <<b>> \o stack \/ stack' = <<a, b>> \o stack
      <4>1. <<a>> \o <<b>> = <<a, b>>
        BY <1>2, <3>4, PushPush DEF Idles
      <4>2. << >> \o <<b>> = <<b>>
        <5>1. <<b>> \in Seq(Frame)
          BY <3>4 DEF Idles
        <5> QED
          BY <5>1, ConcatEmptySeq
      <4>3. stack' = << >> \o <<b>> \o stack \/ stack' = <<a>> \o <<b>> \o stack
        BY <3>1, <3>3 DEF FailUnread
      <4> QED
        BY <4>1, <4>2, <4>3
    <3> QED
      BY <1>8, <3>4, <3>5
  <2> QED
    BY <2>1, <2>2
<1>16. CASE RunUnanswered
  <2>1. CASE stack' = t
    BY <1>4, <2>1
  <2>2. CASE stack' # t
    <3>1. PICK p \in Proc, m \in Msg : stack' = FailUnanswered(p, m) \o stack
      <4>1. f.proc \in Proc
        BY <1>2, <1>16, FramesRead DEF RunUnanswered, Running
      <4>2. delivered[f.proc] \subseteq Msg
        BY <4>1 DEF TypeOK
      <4> QED
        BY <1>16, <2>2, <4>1, <4>2 DEF RunUnanswered
    <3>2. Idles(Change(m, "FAILED")) /\ Idles(Orphaned(p, m, TRUE))
      BY Idlers DEF Final
    <3>3. stack' = <<Change(m, "FAILED"), Orphaned(p, m, TRUE)>> \o stack
      BY <3>1 DEF FailUnanswered
    <3> QED
      BY <1>8, <3>2, <3>3
  <2> QED
    BY <2>1, <2>2
<1>17. CASE RunRedeliver
  <2>1. CASE stack' = t
    BY <1>4, <2>1
  <2>2. CASE stack' # t
    <3>1. f.todo \in SUBSET Msg
      BY <1>2, <1>17, FramesRead DEF RunRedeliver, Running
    <3>2. PICK m \in f.todo : stack' = <<Deliver(m, TRUE), Requeue(m), Redeliver(f.todo \ {m})>> \o t
      BY <1>17, <2>2 DEF RunRedeliver
    <3>3. Idles(Deliver(m, TRUE)) /\ Idles(Requeue(m)) /\ Idles(Redeliver(f.todo \ {m}))
      BY <3>1, Idlers
    <3> QED
      BY <1>7, <3>2, <3>3
  <2> QED
    BY <2>1, <2>2
<1> QED
  BY <1>1, <1>9, <1>10, <1>11, <1>12, <1>13, <1>14, <1>15, <1>16, <1>17 DEF Run

\* A walk on the stack was there before, or prefers a handler not tried yet.
Prefers == \A y \in ToSet(stack') : y.op = "match" /\ y.best # NoProc =>
    \/ \E x \in ToSet(stack) : x.op = "match" /\ x.msg = y.msg /\ x.best = y.best
    \/ y.best \notin tried[y.msg]

\* One step of a walk takes the place of the frame that runs.
LEMMA Walked ==
    ASSUME TypeOK, stack # << >>, NEW x \in Frame, NEW p \in Proc,
           stack' = <<x>> \o Tail(stack) \/ stack' = <<Deactivate(p)>> \o (<<x>> \o Tail(stack)),
           x.best # NoProc =>
              \/ Head(stack).op = "match" /\ x.msg = Head(stack).msg /\ x.best = Head(stack).best
              \/ x.best \notin tried[x.msg]
    PROVE  Prefers
<1> DEFINE t == Tail(stack)
<1>1. t \in Seq(Frame) /\ ToSet(t) \subseteq ToSet(stack) /\ Head(stack) \in ToSet(stack)
  BY Frames, HeadTailProperties DEF TypeOK
<1>2. PICK f \in Frame : f = Deactivate(p) /\ f.op # "match"
  BY FramesMade DEF Deactivate
<1> DEFINE one == <<x>>
           two == <<f, x>>
<1>3. one \in Seq(Frame) /\ two \in Seq(Frame) /\ ToSet(one) = {x} /\ ToSet(two) = {f, x}
  BY DEF ToSet
<1>4. <<f>> \o (<<x>> \o t) = two \o t /\ one = <<x>>
  BY <1>1, PushPush
<1> HIDE DEF one, two, t
<1>5. stack' = one \o t \/ stack' = two \o t
  BY <1>2, <1>4 DEF t
<1>6. ToSet(stack') \subseteq {f, x} \cup ToSet(t)
  BY <1>1, <1>3, <1>5, Frames
<1>7. \A y \in ToSet(stack') : y.op = "match" => y = x \/ y \in ToSet(stack)
  BY <1>1, <1>2, <1>6
<1> QED
  BY <1>1, <1>7 DEF Prefers

\* A handler that has been tried is not preferred.
LEMMA WalkPrefers ==
    ASSUME TypeOK, RunDeliver \/ MatchInactive \/ MatchHandler \/ MatchObserver
    PROVE  Prefers
<1> DEFINE f == Head(stack)
           t == Tail(stack)
<1>1. PICK p : p \in Proc
  <2>1. Running("deliver") \/ Running("match")
    BY DEF RunDeliver, MatchInactive, MatchHandler, MatchObserver
  <2>2. f \in Frame /\ f.op \in {"deliver", "match"}
    BY <2>1, TopAt
  <2>3. Sender[f.msg] \in Proc
    BY <2>2, FramesRead, SessionAssumption
  <2> QED
    BY <2>3
<1>2. CASE RunDeliver
  <2> DEFINE x == [op |-> "match", msg |-> f.msg, observers |-> f.observers,
                   todo |-> registered, at |-> {}, best |-> NoProc]
  <2>1. f \in Frame /\ f.op = "deliver" /\ stack # << >>
    BY <1>2, TopAt DEF RunDeliver, Running
  <2>2. x \in Frame /\ x.best = NoProc
    BY <2>1, FramesRead DEF Frame, TypeOK
  <2>3. stack' = <<x>> \o t
    BY <1>2 DEF RunDeliver
  <2> HIDE DEF x
  <2> QED
    BY <1>1, <2>1, <2>2, <2>3, Walked
<1>3. CASE MatchInactive \/ MatchHandler \/ MatchObserver
  <2>1. f \in Frame /\ f.op = "match" /\ stack # << >>
    BY <1>3, TopAt DEF MatchInactive, MatchHandler, MatchObserver, Running
  <2>2. f.msg \in Msg /\ f.todo \in SUBSET Pattern /\ f.best \in Proc \cup {NoProc}
    BY <2>1, FramesRead
  <2>3. \A pat \in Left(f) : pat \in Pattern /\ pat[1] \in Proc
    BY <2>2 DEF Left, Pattern
  <2>4. \A pat \in Pattern : /\ Visit(f, pat) \in Frame
                             /\ Visit(f, pat).msg = f.msg /\ Visit(f, pat).best = f.best
    <3> SUFFICES ASSUME NEW pat \in Pattern
                 PROVE  /\ Visit(f, pat) \in Frame
                        /\ Visit(f, pat).msg = f.msg /\ Visit(f, pat).best = f.best
      OBVIOUS
    <3>1. Visit(f, pat) \in Frame
      <4>1. f.todo \ {pat} \in SUBSET Pattern /\ {pat} \in SUBSET Pattern
        BY <2>2
      <4> QED
        BY <2>1, <2>2, <4>1, MatchFrame DEF Visit
    <3>2. Visit(f, pat).msg = f.msg /\ Visit(f, pat).best = f.best
      BY <2>1 DEF Visit, Frame
    <3> QED
      BY <3>1, <3>2
  <2>5. CASE MatchInactive
    <3> DEFINE x == [f EXCEPT !.todo = {}, !.at = {}]
    <3>1. x \in Frame
      BY <2>1, <2>2, MatchFrame
    <3>2. x.msg = f.msg /\ x.best = f.best
      BY <2>1 DEF Frame
    <3>3. stack' = <<x>> \o t
      BY <2>5 DEF MatchInactive
    <3> HIDE DEF x
    <3> QED
      BY <1>1, <2>1, <3>1, <3>2, <3>3, Walked
  <2>6. CASE MatchHandler
    <3>1. PICK pat \in Left(f) : \E b \in {f.best, pat[1]} :
             /\ ~Eligible(f.msg, pat[1]) => b = f.best
             /\ stack' = <<[Visit(f, pat) EXCEPT !.best = b]>> \o t
      BY <2>6 DEF MatchHandler
    <3>2. PICK b \in {f.best, pat[1]} :
             /\ ~Eligible(f.msg, pat[1]) => b = f.best
             /\ stack' = <<[Visit(f, pat) EXCEPT !.best = b]>> \o t
      BY <3>1
    <3> DEFINE x == [Visit(f, pat) EXCEPT !.best = b]
    <3>3. x \in Frame
      BY <2>1, <2>2, <2>3, VisitFrame
    <3>4. x.msg = f.msg /\ x.best = b
      BY <2>1 DEF Visit, Frame
    <3>5. b = f.best \/ b \notin tried[f.msg]
      BY <3>2 DEF Eligible
    <3>6. stack' = <<x>> \o t
      BY <3>2
    <3> HIDE DEF x
    <3> QED
      BY <1>1, <2>1, <3>3, <3>4, <3>5, <3>6, Walked
  <2>7. CASE MatchObserver
    <3>1. PICK pat \in Left(f) :
             IF f.observers
             THEN AddMessage(pat[1], [msg |-> f.msg, seen |-> state[f.msg]],
                             <<Visit(f, pat)>> \o t, <<Visit(f, pat)>> \o t)
             ELSE stack' = <<Visit(f, pat)>> \o t /\ UNCHANGED <<undelivered, signalled, heap>>
      BY <2>7 DEF MatchObserver
    <3> DEFINE x == Visit(f, pat)
               r == <<x>> \o t
    <3>2. stack' = r \/ stack' = <<Deactivate(pat[1])>> \o r
      BY <3>1, AddedStack
    <3>3. x \in Frame /\ x.msg = f.msg /\ x.best = f.best /\ pat[1] \in Proc
      BY <2>3, <2>4
    <3> HIDE DEF x
    <3> QED
      BY <2>1, <3>2, <3>3, Walked
  <2> QED
    BY <1>3, <2>5, <2>6, <2>7
<1> QED
  BY <1>2, <1>3

\* Every frame of the stack is at some level.
LEMMA FrameLevel ==
    ASSUME TypeOK, NEW f \in ToSet(stack) PROVE \E d \in Levels : At(stack, d) = f
<1>1. stack \in Seq(Frame) /\ Len(stack) \in Nat
  BY LenProperties DEF TypeOK
<1>2. PICK i \in 1 .. Len(stack) : stack[i] = f
  BY <1>1 DEF ToSet
<1>3. Len(stack) + 1 - i \in 1 .. Len(stack) /\ Len(stack) + 1 - (Len(stack) + 1 - i) = i
  BY <1>1
<1> QED
  BY <1>2, <1>3 DEF Levels, At

\* Whoever takes a request that a walk ends with is active and was never given it.
LEMMA GiveNew ==
    ASSUME TypeOK, BaseInv, GivenInv, GiveToHandler,
           NEW m, m = Head(stack).msg, NEW b, b = Head(stack).best
    PROVE  /\ m \in Msg /\ b \in Proc /\ state[m] = "SENT" /\ ~Given(m)
           /\ handler[m] # NoProc => ~active[handler[m]]
           /\ active[b] => b \notin given[m]
<1>1. Running("match") /\ b # NoProc
  BY DEF GiveToHandler, MatchEnded
<1>2. /\ Len(stack) \in Nat \ {0} /\ At(stack, Len(stack)) = Head(stack) /\ heap = "intact"
      /\ Head(stack).op = "match" /\ Head(stack) \in Frame /\ stack # << >> /\ stack \in Seq(Frame)
  BY <1>1, TopAt DEF Running, TypeOK
<1>3. m \in Msg /\ b \in Proc
  BY <1>1, <1>2, FramesRead
<1>4. Len(stack) \in Levels /\ Matches(Len(stack), m) /\ Walks(Len(stack), m)
  BY <1>2 DEF Levels, Matches, Walks
<1>5. RequestInv(m)
  BY <1>3 DEF BaseInv
<1>6. state[m] = "SENT"
  BY <1>1, <1>2, <1>4, <1>5 DEF RequestInv, BestOk
<1>7. ~Given(m)
  BY <1>4, <1>5, <1>6 DEF RequestInv, ReadOk, Given, Final
<1>8. handler[m] # NoProc => ~active[handler[m]]
  BY <1>2, <1>4, <1>5, <1>6 DEF RequestInv, Transit, Final, Dead
<1>9. ASSUME active[b] PROVE b \notin given[m]
  <2>1. Head(stack) \in ToSet(stack)
    BY <1>2, Frames
  <2>2. b \notin tried[m]
    BY <1>1, <1>2, <1>3, <1>9, <2>1 DEF GivenInv, BestUntried
  <2>3. handler[m] # b
    BY <1>1, <1>8, <1>9
  <2> QED
    BY <1>2, <1>3, <1>6, <1>9, <2>2, <2>3 DEF GivenInv, GivenTried, Final
<1> QED
  BY <1>3, <1>6, <1>7, <1>8, <1>9

\* What becomes of the processes that have been given or have tried a request.
LEMMA TriedStep ==
    ASSUME TypeOK, BaseInv, [Next]_vars, NEW m \in Msg
    PROVE  /\ ~GiveToHandler => given'[m] = given[m]
           /\ ~GiveToHandler /\ ~ChangeRejected => handler'[m] = handler[m]
           /\ \A p \in Proc : p \in tried[m] => p \in tried'[m] \/ ~active[p]
           /\ ~ChangeRejected => tried'[m] \subseteq tried[m]
           /\ \A p \in Proc : active'[p] => active[p]
<1>1. CASE RunOrphaned
  <2>1. PICK p \in Proc, o \in Msg : p = Head(stack).proc /\ o = Head(stack).msg /\ ~active[p]
    <3>1. /\ Running("orphaned") /\ Head(stack) \in Frame /\ Head(stack).op = "orphaned"
          /\ Len(stack) \in Nat \ {0} /\ At(stack, Len(stack)) = Head(stack)
      BY <1>1, TopAt DEF RunOrphaned
    <3>2. Len(stack) \in Levels
      BY <3>1 DEF Levels
    <3>3. ~active[Head(stack).proc]
      BY <3>1, <3>2 DEF BaseInv, FramesInv, DeadFrames, Cursors
    <3> QED
      BY <3>1, <3>3, FramesRead
  <2>2. tried' = [tried EXCEPT ![o] = @ \ {p}] \/ tried' = tried
    BY <1>1, <2>1 DEF RunOrphaned
  <2> QED
    BY <1>1, <2>1, <2>2 DEF RunOrphaned, TypeOK
<1>2. CASE GiveToHandler
  <2>1. \E b : handler' = [handler EXCEPT ![Head(stack).msg] = b]
    BY <1>2 DEF GiveToHandler
  <2> QED
    BY <1>2 DEF GiveToHandler, TypeOK
<1>3. CASE ChangeRejected
  BY <1>3 DEF ChangeRejected, TypeOK, procVars
<1>4. CASE RunDeactivate
  BY <1>4 DEF RunDeactivate, TypeOK, msgVars
<1>5. CASE Run /\ ~RunOrphaned /\ ~GiveToHandler /\ ~ChangeRejected /\ ~RunDeactivate
  BY <1>5 DEF Run, RunDeliver, MatchHosed, MatchInactive, MatchHandler, MatchObserver, NoHandler,
              RunReturn, ChangeRepeated, ChangeFinal, ChangeQueued, RunReport, RunUnread,
              RunUnanswered, RunForget, RunRedeliver, RunRequeue, msgVars, procVars
<1>6. ASSUME NEW p \in Proc, Client(p) \/ Hangup(p) \/ ServeRpc(p)
      PROVE  UNCHANGED <<given, handler, tried, active>>
  BY <1>6 DEF Client, AskPlanned, AskNext, AskUpdate, Die, Ask, Hangup, ServeRpc, ServeRegister,
              ServeUnregister, ServeJoin, ServeSend, ServeNext, ServeUpdate, ServeClose, msgVars,
              procVars
<1>7. CASE UNCHANGED vars
  BY <1>7 DEF vars
<1> QED
  BY <1>1, <1>2, <1>3, <1>4, <1>5, <1>6, <1>7 DEF Next

\* The main loop and the clients do no walk.
LEMMA OtherNoWalk ==
    ASSUME TypeOK, NEW p \in Proc, Client(p) \/ Hangup(p) \/ ServeRpc(p)
    PROVE  NoWalk
<1>1. PICK x : Idles(x)
  BY Idlers
<1>2. CASE stack' = stack
  BY <1>2 DEF NoWalk
<1>3. ASSUME NEW f, NEW g, Idles(f), Idles(g), stack = << >>,
             stack' = << >> \/ stack' = <<f>> \/ stack' = <<f, g>>
      PROVE  NoWalk
  <2> DEFINE one == <<f>>
             two == <<f, g>>
  <2>1. stack' = one \o stack \/ stack' = two \o stack \/ stack' = stack
    BY <1>3
  <2> QED
    BY <1>3, <2>1, Pushed
<1>4. CASE Client(p)
  BY <1>2, <1>4 DEF Client, AskPlanned, AskNext, AskUpdate, Die, Ask
<1>5. CASE ServeRegister(p) \/ ServeUnregister(p) \/ ServeNext(p)
  BY <1>2, <1>5 DEF ServeRegister, ServeUnregister, ServeNext
<1>6. CASE ServeJoin(p)
  <2>1. Idles(Redeliver(queued))
    BY Idlers DEF TypeOK
  <2> QED
    BY <1>3, <1>6, <2>1 DEF ServeJoin, Serve, Idle
<1>7. CASE ServeClose(p) \/ Hangup(p)
  <2>1. Idles(Deactivate(p))
    BY Idlers
  <2> QED
    BY <1>3, <1>7, <2>1 DEF ServeClose, Hangup, Serve, Idle
<1>8. CASE ServeSend(p) \/ ServeUpdate(p)
  <2>1. Serve(p, "send") \/ Serve(p, "update")
    BY <1>8 DEF ServeSend, ServeUpdate
  <2>2. rpc[p] \in Seq(Call) /\ rpc[p] # << >> /\ stack = << >>
    BY <2>1 DEF Serve, Idle, TypeOK
  <2>3. PICK c \in Call : c = Head(rpc[p])
    BY <2>2, HeadTailProperties
  <2>4. CASE ServeSend(p)
    <3>1. c.msg \in Msg
      BY <2>3, <2>4 DEF ServeSend, Serve, Call
    <3>2. Idles(Change(c.msg, "FAILED")) /\ Idles(Deliver(c.msg, TRUE))
      BY <3>1, Idlers DEF Final
    <3>3. stack' = <<Change(c.msg, "FAILED"), Deliver(c.msg, TRUE)>> \/ stack' = <<Deliver(c.msg, TRUE)>>
      BY <2>3, <2>4 DEF ServeSend
    <3> QED
      BY <1>3, <2>2, <3>2, <3>3
  <2>5. CASE ServeUpdate(p)
    <3>1. c.msg \in Msg /\ c.to \in {"REJECTED"} \cup Final
      BY <2>3, <2>5 DEF ServeUpdate, Serve, Call
    <3>2. Idles(Change(c.msg, c.to))
      BY <3>1, Idlers
    <3>3. stack' = <<Change(c.msg, c.to)>> \/ stack' = << >>
      BY <2>3, <2>5 DEF ServeUpdate
    <3> QED
      BY <1>3, <2>2, <3>2, <3>3
  <2> QED
    BY <1>8, <2>4, <2>5
<1> QED
  BY <1>4, <1>5, <1>6, <1>7, <1>8 DEF ServeRpc

\* At first nothing has been given.
LEMMA GivenInit == ASSUME Init PROVE GivenInv
<1>1. stack = << >> /\ given = [m \in Msg |-> {}]
  BY DEF Init
<1>2. ToSet(stack) = {}
  BY <1>1 DEF ToSet
<1> QED
  BY <1>1, <1>2 DEF GivenInv, GivenTried, BestUntried

\* Where no request is queued, one that has ended stays so.
LEMMA EndStays ==
    ASSUME TypeOK, SessionInv, Queueable = {}, [Next]_vars, NEW m \in Msg, state[m] \in Final
    PROVE  state'[m] = state[m]
<1>1. CASE Next
  BY <1>1, FinalStays
<1>2. CASE UNCHANGED vars
  BY <1>2 DEF vars
<1> QED
  BY <1>1, <1>2

\* What a process that rejects a request leaves behind.
LEMMA RejectedGiven ==
    ASSUME TypeOK, TypeOK', BaseInv, GivenInv, ChangeRejected, NEW m \in Msg
    PROVE  GivenTried(m)' /\ BestUntried(m)'
<1>1. PICK x \in Msg : x = Head(stack).msg
  BY TopAt, FramesRead DEF ChangeRejected
<1>2. /\ Running("change") /\ UNCHANGED <<active, given>>
      /\ tried' = [tried EXCEPT ![x] = @ \cup ({handler[x]} \ {NoProc})]
      /\ handler' = [handler EXCEPT ![x] = NoProc]
      /\ state' = [state EXCEPT ![x] = "SENT"]
  BY <1>1 DEF ChangeRejected, procVars
<1>3. heap = "intact" /\ GivenTried(m) /\ BestUntried(m)
  BY <1>2 DEF Running, GivenInv
<1>4. NoWalk
  <2>1. Run /\ ~RunDeliver /\ ~MatchInactive /\ ~MatchHandler /\ ~MatchObserver
    BY <1>2 DEF Run, ChangeRejected, RunDeliver, MatchInactive, MatchHandler, MatchObserver, Running
  <2> QED
    BY <2>1, RunNoWalk
<1>5. CASE x = m
  <2>1. /\ Len(stack) \in Nat \ {0} /\ At(stack, Len(stack)) = Head(stack)
        /\ Head(stack).op = "change"
    BY <1>2, TopAt
  <2>2. ChangeOk(m)
    BY DEF BaseInv, RequestInv
  <2>3. state[m] = "SENT" /\ \A d \in Levels : ~Matches(d, m)
    BY <1>1, <1>5, <2>1, <2>2 DEF ChangeOk, Changes
  <2>4. \A f \in ToSet(stack') : ~ (f.op = "match" /\ f.msg = m)
    <3> SUFFICES ASSUME NEW f \in ToSet(stack'), f.op = "match", f.msg = m PROVE FALSE
      OBVIOUS
    <3>1. f \in ToSet(stack)
      BY <1>4 DEF NoWalk
    <3>2. PICK d \in Levels : At(stack, d) = f
      BY <3>1, FrameLevel
    <3> QED
      BY <2>3, <3>2 DEF Matches
  <2>5. state[m] \notin Final
    BY <2>3 DEF Final
  <2>6. GivenTried(m)'
    <3> SUFFICES ASSUME NEW p \in given[m], active[p] PROVE p \in tried'[m]
      BY <1>2 DEF GivenTried
    <3>1. p \in Proc /\ tried'[m] = tried[m] \cup ({handler[m]} \ {NoProc})
      BY <1>2, <1>5 DEF TypeOK
    <3>2. p \in tried[m] \/ handler[m] = p
      BY <1>3, <2>5 DEF GivenTried
    <3> QED
      BY <3>1, <3>2, SessionAssumption
  <2> QED
    BY <2>4, <2>6 DEF BestUntried
<1>6. CASE x # m
  <2>1. tried'[m] = tried[m] /\ handler'[m] = handler[m] /\ state'[m] = state[m]
    BY <1>2, <1>6 DEF TypeOK
  <2>2. GivenTried(m)'
    BY <1>2, <1>3, <2>1 DEF GivenTried
  <2>3. BestUntried(m)'
    BY <1>2, <1>3, <1>4, <2>1 DEF BestUntried, NoWalk
  <2> QED
    BY <2>2, <2>3
<1> QED
  BY <1>5, <1>6

\* Every step keeps to those who have had a request.
LEMMA GivenStep ==
    ASSUME TypeOK, TypeOK', SessionInv, GivenInv, Queueable = {}, [Next]_vars
    PROVE  GivenInv'
<1> SUFFICES ASSUME heap' = "intact", NEW m \in Msg PROVE GivenTried(m)' /\ BestUntried(m)'
  BY DEF GivenInv
<1>1. heap = "intact"
  BY HeapStays
<1>2. BaseInv /\ GivenTried(m) /\ BestUntried(m)
  BY <1>1 DEF SessionInv, GivenInv
<1>3. CASE ChangeRejected
  BY <1>2, <1>3, RejectedGiven
<1>4. CASE ~ChangeRejected
  <2>1. /\ ~GiveToHandler => given'[m] = given[m] /\ handler'[m] = handler[m]
        /\ \A p \in Proc : p \in tried[m] => p \in tried'[m] \/ ~active[p]
        /\ tried'[m] \subseteq tried[m]
        /\ \A p \in Proc : active'[p] => active[p]
    BY <1>2, <1>4, TriedStep
  <2>2. state[m] \in Final => state'[m] = state[m]
    BY EndStays
  <2>3. given[m] \in SUBSET Proc /\ given'[m] \in SUBSET Proc
    BY DEF TypeOK
  <2>4. ASSUME ~GiveToHandler PROVE GivenTried(m)'
    BY <1>2, <2>1, <2>2, <2>3, <2>4 DEF GivenTried
  <2>5. ASSUME GiveToHandler PROVE GivenTried(m)'
    <3>1. PICK x, b : x = Head(stack).msg /\ b = Head(stack).best
      OBVIOUS
    <3>2. /\ x \in Msg /\ b \in Proc /\ state[x] = "SENT"
          /\ handler[x] # NoProc => ~active[handler[x]]
      BY <1>2, <2>5, <3>1, GiveNew
    <3>3. /\ handler' = [handler EXCEPT ![x] = b]
          /\ given' = [given EXCEPT ![x] = @ \cup ({b} \cap {p \in Proc : active[p]})]
          /\ tried' = tried
      BY <2>5, <3>1 DEF GiveToHandler
    <3>4. CASE x = m
      <4> SUFFICES ASSUME NEW p \in given'[m], active'[p], handler'[m] # p PROVE p \in tried'[m]
        BY DEF GivenTried
      <4>1. p \in Proc /\ active[p]
        BY <2>1, <2>3
      <4>2. p \in given[m]
        BY <3>2, <3>3, <3>4 DEF TypeOK
      <4>3. handler[m] # p /\ state[m] \notin Final
        BY <3>2, <3>4, <4>1, SessionAssumption DEF Final
      <4> QED
        BY <1>2, <3>3, <4>1, <4>2, <4>3 DEF GivenTried
    <3>5. CASE x # m
      <4>1. handler'[m] = handler[m] /\ given'[m] = given[m]
        BY <3>3, <3>5 DEF TypeOK
      <4> QED
        BY <1>2, <2>1, <2>2, <2>3, <4>1 DEF GivenTried
    <3> QED
      BY <3>4, <3>5
  <2>6. NoWalk \/ Prefers
    <3>1. CASE RunDeliver \/ MatchInactive \/ MatchHandler \/ MatchObserver
      BY <3>1, WalkPrefers
    <3>2. CASE Run /\ ~RunDeliver /\ ~MatchInactive /\ ~MatchHandler /\ ~MatchObserver
      BY <3>2, RunNoWalk
    <3>3. ASSUME NEW p \in Proc, Client(p) \/ Hangup(p) \/ ServeRpc(p) PROVE NoWalk
      BY <3>3, OtherNoWalk
    <3>4. CASE UNCHANGED vars
      BY <3>4 DEF vars, NoWalk
    <3> QED
      BY <3>1, <3>2, <3>3, <3>4 DEF Next
  <2>7. \A f \in ToSet(stack') : f.op = "match" /\ f.msg = m /\ f.best # NoProc =>
               \/ \E g \in ToSet(stack) : g.op = "match" /\ g.msg = m /\ g.best = f.best
               \/ f.best \notin tried[m]
    BY <2>6 DEF NoWalk, Prefers
  <2>8. BestUntried(m)'
    BY <1>2, <2>1, <2>7, BestKept
  <2> QED
    BY <2>4, <2>5, <2>8
<1> QED
  BY <1>3, <1>4

\* Who has read a request and not answered it is its handler; this holds even
\* when the heap is corrupt.
ReadBy(m) == \A p \in Proc : m \in delivered[p] => handler[m] = p
ReadInv == \A m \in Msg : ReadBy(m)

\* Nothing has been read at first.
LEMMA ReadInit == ASSUME Init PROVE ReadInv
BY DEF Init, ReadInv, ReadBy

\* A freed element is used only by a walk, and by what adds a message to a list.
LEMMA HeapBreaks ==
    ASSUME [Next]_vars, heap' # "intact"
    PROVE  \/ UNCHANGED <<active, undelivered, delivered, state, handler, given>>
           \/ GiveToHandler \/ MatchObserver \/ RunReport
<1>1. CASE Run
  BY <1>1 DEF Run, Running, RunDeliver, MatchHosed, MatchInactive, MatchHandler, MatchEnded,
              NoHandler, RunReturn, ChangeRepeated, ChangeFinal, ChangeQueued, ChangeRejected,
              RunDeactivate, RunUnread, RunUnanswered, RunOrphaned, RunForget, RunRedeliver,
              RunRequeue, procVars, msgVars
<1>2. ASSUME NEW p \in Proc, Client(p)
      PROVE  UNCHANGED <<active, undelivered, delivered, state, handler, given>>
  BY <1>2 DEF Client, AskPlanned, AskNext, AskUpdate, Die, Ask, procVars, msgVars
<1>3. ASSUME NEW p \in Proc, ServeRpc(p) \/ Hangup(p) PROVE FALSE
  BY <1>3 DEF ServeRpc, ServeRegister, ServeUnregister, ServeJoin, ServeSend, ServeNext,
              ServeUpdate, ServeClose, Serve, Idle, Hangup
<1>4. CASE UNCHANGED vars
  BY <1>4 DEF vars
<1> QED
  BY <1>1, <1>2, <1>3, <1>4 DEF Next

\* Every step keeps the readers of the requests their handlers.
LEMMA ReadStep ==
    ASSUME TypeOK, SessionInv, SessionInv', GivenInv, ReadInv, [Next]_vars
    PROVE  ReadInv'
<1>1. CASE heap' = "intact"
  BY <1>1 DEF SessionInv, BaseInv, RequestInv, ReadOk, ReadInv, ReadBy
<1>2. CASE UNCHANGED <<delivered, handler>>
  BY <1>2 DEF ReadInv, ReadBy
<1>3. CASE MatchObserver \/ RunReport
  BY <1>2, <1>3 DEF MatchObserver, RunReport, msgVars
<1>4. CASE GiveToHandler
  <2>1. PICK x, b : x = Head(stack).msg /\ b = Head(stack).best
    OBVIOUS
  <2>2. BaseInv
    BY <1>4 DEF SessionInv, GiveToHandler, MatchEnded, Running
  <2>3. x \in Msg /\ ~Given(x)
    BY <1>4, <2>1, <2>2, GiveNew
  <2>4. handler' = [handler EXCEPT ![x] = b] /\ delivered' = delivered
    BY <1>4, <2>1 DEF GiveToHandler
  <2>5. \A m \in Msg \ {x} : handler'[m] = handler[m]
    BY <2>4 DEF TypeOK
  <2> QED
    BY <2>3, <2>4, <2>5 DEF ReadInv, ReadBy, Given
<1> QED
  BY <1>1, <1>2, <1>3, <1>4, HeapBreaks

\* Who holds a request, said with the entries of the lists.
LEMMA HoldsIs ==
    ASSUME TypeOK, TypeOK', NEW p \in Proc, NEW m \in Msg
    PROVE  /\ Holds(p, m) <=> /\ active[p]
                              /\ \/ m \in delivered[p]
                                 \/ Has(undelivered[p], m) /\ Processing(p, m)
           /\ Holds(p, m)' <=> /\ active'[p]
                               /\ \/ m \in delivered'[p]
                                  \/ Has(undelivered'[p], m) /\ Processing(p, m)'
<1>1. undelivered[p] \in Seq(Entry) /\ undelivered'[p] \in Seq(Entry)
  BY DEF TypeOK
<1>2. \A u \in Seq(Entry) : Live(m) \in ToSet(u) <=> Has(u, m)
  BY DEF ToSet, Has
<1>3. /\ Live(m) \in ToSet(undelivered[p]) <=> Has(undelivered[p], m)
      /\ Live(m) \in ToSet(undelivered'[p]) <=> Has(undelivered'[p], m)
  BY <1>1, <1>2
<1>4. Holds(p, m) <=> /\ active[p]
                      /\ \/ m \in delivered[p]
                         \/ Has(undelivered[p], m) /\ Processing(p, m)
  BY <1>3 DEF Holds
<1>5. Holds(p, m)' <=> /\ active'[p]
                       /\ \/ m \in delivered'[p]
                          \/ Has(undelivered'[p], m) /\ Processing(p, m)'
  BY <1>3 DEF Holds
<1> QED
  BY <1>4, <1>5

\* The holder of a request under way is its handler.
LEMMA HolderIs ==
    ASSUME ReadInv, ReadInv', NEW m \in Msg, NEW p \in Proc
    PROVE  /\ Holds(p, m) => handler[m] = p
           /\ Holds(p, m)' => handler'[m] = p
           /\ Holds(p, m) /\ state[m] \notin Final => Holder[m] = p
           /\ Holds(p, m)' /\ state'[m] \notin Final => Holder'[m] = p
<1>1. /\ \A q \in Proc : Holds(q, m) => handler[m] = q
      /\ \A q \in Proc : Holds(q, m)' => handler'[m] = q
  BY DEF ReadInv, ReadBy, Holds, Processing
<1>2. ASSUME Holds(p, m), state[m] \notin Final PROVE Holder[m] = p
  <2>1. \E q \in Proc : Holds(q, m)
    BY <1>2
  <2>2. Holder[m] = CHOOSE q \in Proc : Holds(q, m)
    BY <1>2, <2>1 DEF Holder
  <2>3. Holder[m] \in Proc /\ Holds(Holder[m], m)
    BY <2>1, <2>2
  <2> QED
    BY <1>1, <1>2, <2>3
<1>3. ASSUME Holds(p, m)', state'[m] \notin Final PROVE Holder'[m] = p
  <2>1. \E q \in Proc : Holds(q, m)'
    BY <1>3
  <2>2. Holder'[m] = CHOOSE q \in Proc : Holds(q, m)'
    BY <1>3, <2>1 DEF Holder
  <2>3. PICK h : h = Holder'[m]
    OBVIOUS
  <2>4. h \in Proc /\ Holds(h, m)'
    BY <2>1, <2>2, <2>3
  <2> QED
    BY <1>1, <1>3, <2>3, <2>4
<1> QED
  BY <1>1, <1>2, <1>3

\* A request that has ended, or that nobody holds, has no holder.
LEMMA HolderNone ==
    ASSUME NEW m \in Msg
    PROVE  /\ state[m] \in Final \/ (\A p \in Proc : ~Holds(p, m)) => Holder[m] = NoProc
           /\ state'[m] \in Final \/ (\A p \in Proc : ~Holds(p, m)') => Holder'[m] = NoProc
BY DEF Holder

\* Phase and Holder are functions of the requests.
LEMMA Mapped ==
    /\ Holder = [m \in Msg |-> Holder[m]] /\ Holder' = [m \in Msg |-> Holder'[m]]
    /\ Phase = [m \in Msg |-> Phase[m]] /\ Phase' = [m \in Msg |-> Phase'[m]]
    /\ \A m \in Msg : /\ state[m] = "CREATED" => Phase[m] = "new"
                      /\ state[m] \in Final => Phase[m] = "ended"
                      /\ state[m] \notin Final \cup {"CREATED"} => Phase[m] = "open"
                      /\ state'[m] = "CREATED" => Phase'[m] = "new"
                      /\ state'[m] \in Final => Phase'[m] = "ended"
                      /\ state'[m] \notin Final \cup {"CREATED"} => Phase'[m] = "open"
<1>1. Holder = [m \in Msg |-> Holder[m]] /\ Holder' = [m \in Msg |-> Holder'[m]]
  BY DEF Holder
<1>2. Phase = [m \in Msg |-> Phase[m]] /\ Phase' = [m \in Msg |-> Phase'[m]]
  BY DEF Phase
<1>3. "CREATED" \notin Final
  BY DEF Final
<1>4. \A m \in Msg : /\ state[m] = "CREATED" => Phase[m] = "new"
                     /\ state[m] \in Final => Phase[m] = "ended"
                     /\ state[m] \notin Final \cup {"CREATED"} => Phase[m] = "open"
  BY <1>3 DEF Phase
<1>5. \A m \in Msg : /\ state'[m] = "CREATED" => Phase'[m] = "new"
                     /\ state'[m] \in Final => Phase'[m] = "ended"
                     /\ state'[m] \notin Final \cup {"CREATED"} => Phase'[m] = "open"
  BY <1>3 DEF Phase
<1> QED
  BY <1>1, <1>2, <1>4, <1>5

\* What is mapped for a request, when its state and those who hold it stay.
Alike(m) == /\ state'[m] = state[m]
            /\ state[m] \notin Final => \A p \in Proc : Holds(p, m)' <=> Holds(p, m)

\* A request that is left alike maps to the same phase and holder.
LEMMA AlikeMapped ==
    ASSUME ReadInv, ReadInv', NEW m \in Msg, Alike(m)
    PROVE  Phase'[m] = Phase[m] /\ Holder'[m] = Holder[m]
<1>1. Phase'[m] = Phase[m]
  BY Mapped DEF Alike
<1>2. CASE state[m] \in Final \/ \A p \in Proc : ~Holds(p, m)
  <2>1. state'[m] \in Final \/ \A p \in Proc : ~Holds(p, m)'
    BY <1>2 DEF Alike
  <2> QED
    BY <1>1, <1>2, <2>1, HolderNone
<1>3. CASE state[m] \notin Final /\ \E p \in Proc : Holds(p, m)
  <2>1. PICK p \in Proc : Holds(p, m)
    BY <1>3
  <2>2. Holds(p, m)' /\ state'[m] \notin Final
    BY <1>3, <2>1 DEF Alike
  <2> QED
    BY <1>1, <1>3, <2>1, <2>2, HolderIs
<1> QED
  BY <1>1, <1>2, <1>3

\* A step that leaves all requests alike is no step of TtRequest.
LEMMA AllAlike ==
    ASSUME ReadInv, ReadInv', \A m \in Msg : Alike(m), given' = given
    PROVE  UNCHANGED Request!rvars
<1>1. \A m \in Msg : Phase'[m] = Phase[m] /\ Holder'[m] = Holder[m]
  BY AlikeMapped
<1>2. Phase' = Phase /\ Holder' = Holder
  BY <1>1, Mapped
<1> QED
  BY <1>2 DEF Request!rvars

\* A request is left alike by a step that changes none of what makes an active
\* process hold it.
LEMMA AlikeIf ==
    ASSUME TypeOK, TypeOK', NEW m \in Msg, state'[m] = state[m], handler'[m] = handler[m],
           active' = active,
           \A p \in Proc : active[p] /\ state[m] \notin Final =>
               /\ m \in delivered'[p] <=> m \in delivered[p]
               /\ Has(undelivered'[p], m) <=> Has(undelivered[p], m)
    PROVE  Alike(m)
<1> SUFFICES ASSUME state[m] \notin Final, NEW p \in Proc PROVE Holds(p, m)' <=> Holds(p, m)
  BY DEF Alike
<1>1. Processing(p, m)' <=> Processing(p, m)
  BY DEF Processing
<1> QED
  BY <1>1, HoldsIs

\* The requests and the lists do not change.
LEMMA QuietAlike ==
    ASSUME TypeOK, TypeOK', UNCHANGED <<active, undelivered, delivered, state, handler>>
    PROVE  \A m \in Msg : Alike(m)
BY AlikeIf

\* An observer's copy is no request to hold.
LEMMA ObserverAlike ==
    ASSUME TypeOK, TypeOK', MatchObserver
    PROVE  (\A m \in Msg : Alike(m)) /\ given' = given
<1>1. UNCHANGED <<active, delivered, state, handler, given>>
  BY DEF MatchObserver, msgVars
<1>2. \A q \in Proc, m \in Msg : Has(undelivered'[q], m) <=> Has(undelivered[q], m)
  <2>1. Head(stack).op = "match" /\ Head(stack) \in Frame
    BY TopAt DEF MatchObserver
  <2>2. PICK x \in Msg : x = Head(stack).msg
    BY <2>1, FramesRead
  <2>3. PICK e \in Entry : /\ e = [msg |-> x, seen |-> state[x]]
                           /\ \A o \in Msg : e # Live(o)
    <3>1. state[x] \in State
      BY DEF TypeOK
    <3> QED
      BY <3>1, Copied
  <2>4. \/ undelivered' = undelivered
        \/ \E p \in Proc : \E next : AddMessage(p, e, next, next)
    <3>1. Head(stack).todo \in SUBSET Pattern
      BY <2>1, FramesRead
    <3>2. \A pat \in Left(Head(stack)) : pat[1] \in Proc
      BY <3>1 DEF Left, Pattern
    <3> QED
      BY <2>2, <2>3, <3>2 DEF MatchObserver
  <2>5. ASSUME NEW p \in Proc, NEW next, AddMessage(p, e, next, next)
        PROVE  \A q \in Proc, m \in Msg : Has(undelivered'[q], m) <=> Has(undelivered[q], m)
    <3>1. /\ \A q \in Proc \ {p} : undelivered'[q] = undelivered[q]
          /\ \A m \in Msg : Has(undelivered'[p], m) <=>
                               Has(undelivered[p], m) \/ (e = Live(m) /\ ~Gone(p))
      BY <2>5, AddMessageEffect
    <3> QED
      BY <2>3, <3>1
  <2> QED
    BY <2>4, <2>5
<1> QED
  BY <1>1, <1>2, AlikeIf

\* The sender is shown a request that has ended, which nobody holds.
LEMMA ReportAlike ==
    ASSUME TypeOK, TypeOK', BaseInv, Queueable = {}, RunReport
    PROVE  (\A m \in Msg : Alike(m)) /\ given' = given
<1>1. UNCHANGED <<active, delivered, state, handler, given>>
  BY DEF RunReport, msgVars
<1>2. PICK x, p, t : x = Head(stack).msg /\ p = Sender[x] /\ t = Tail(stack)
  OBVIOUS
<1>3. /\ x \in Msg /\ p \in Proc
      /\ Len(stack) \in Levels /\ Reports(Len(stack), x)
  <2>1. /\ Len(stack) \in Nat \ {0} /\ At(stack, Len(stack)) = Head(stack)
        /\ Head(stack).op = "report" /\ Head(stack) \in Frame
    BY TopAt DEF RunReport
  <2>2. x \in Msg
    BY <1>2, <2>1, FramesRead
  <2> QED
    BY <1>2, <2>1, <2>2, SessionAssumption DEF Levels, Reports
<1>4. state[x] \in Final
  <2>1. ReportOk(x) /\ QueuedOk(x)
    BY <1>3 DEF BaseInv, RequestInv
  <2> QED
    BY <1>3, <2>1 DEF ReportOk, QueuedOk
<1>5. Live(x) \in Entry /\ \A o \in Msg : Live(x) = Live(o) => o = x
  BY <1>3 DEF Entry, Live
<1>6. AddMessage(p, Live(x), t, t)
  BY <1>2 DEF RunReport
<1>7. /\ \A q \in Proc \ {p} : undelivered'[q] = undelivered[q]
      /\ \A m \in Msg : Has(undelivered'[p], m) <=>
                           Has(undelivered[p], m) \/ (Live(x) = Live(m) /\ ~Gone(p))
  BY <1>3, <1>5, <1>6, AddMessageEffect
<1>8. \A q \in Proc, m \in Msg : m # x => (Has(undelivered'[q], m) <=> Has(undelivered[q], m))
  BY <1>5, <1>7
<1> QED
  BY <1>1, <1>4, <1>8, AlikeIf

\* What is taken from the lists of an inactive process nobody holds.
LEMMA OrphanedAlike ==
    ASSUME TypeOK, TypeOK', BaseInv, RunOrphaned
    PROVE  (\A m \in Msg : Alike(m)) /\ given' = given
<1>1. UNCHANGED <<active, state, handler, given>>
  BY DEF RunOrphaned
<1>2. PICK p \in Proc, x \in Msg : p = Head(stack).proc /\ x = Head(stack).msg /\ ~active[p]
  <2>1. /\ Len(stack) \in Nat \ {0} /\ At(stack, Len(stack)) = Head(stack)
        /\ Head(stack).op = "orphaned" /\ Head(stack) \in Frame
    BY TopAt DEF RunOrphaned
  <2>2. Len(stack) \in Levels
    BY <2>1 DEF Levels
  <2>3. ~active[Head(stack).proc]
    BY <2>1, <2>2 DEF BaseInv, FramesInv, DeadFrames, Cursors
  <2> QED
    BY <2>1, <2>3, FramesRead
<1>3. \A q \in Proc \ {p} : delivered'[q] = delivered[q] /\ undelivered'[q] = undelivered[q]
  BY <1>2 DEF RunOrphaned, Settle, TypeOK
<1> QED
  BY <1>1, <1>2, <1>3, AlikeIf

\* A request that is read is held as before.
LEMMA NextAlike ==
    ASSUME TypeOK, TypeOK', NEW p \in Proc, ServeNext(p)
    PROVE  (\A m \in Msg : Alike(m)) /\ given' = given
<1>1. UNCHANGED <<active, state, handler, given>>
  BY DEF ServeNext, msgVars
<1> DEFINE u == undelivered[p]
           t == undelivered'[p]
           live == u # << >> /\ Head(u).seen = "LIVE"
           o == Head(u).msg
<1>2. u \in Seq(Entry) /\ undelivered' = [undelivered EXCEPT ![p] = IF u # << >> THEN Tail(@) ELSE @]
  BY DEF ServeNext, TypeOK
<1>3. /\ \A q \in Proc : q # p => undelivered'[q] = undelivered[q]
      /\ t = IF u # << >> THEN Tail(u) ELSE u
  BY <1>2 DEF TypeOK
<1>4. \A q \in Proc, m \in Msg :
          m \in delivered'[q] <=> m \in delivered[q] \/ (q = p /\ m = o /\ live /\ Processing(p, m))
  BY DEF ServeNext, TypeOK
<1>5. \A m \in Msg : Live(m).seen = "LIVE" /\ Live(m).msg = m
  BY DEF Live
<1>6. \A m \in Msg : /\ Has(t, m) => Has(u, m)
                     /\ Has(u, m) => Has(t, m) \/ (m = o /\ live)
  BY <1>2, <1>3, <1>5, PoppedList
<1>7. live => Has(u, o) /\ o \in Msg
  <2>1. u # << >> => Head(u) \in Entry /\ 1 \in 1 .. Len(u) /\ Head(u) = u[1]
    BY <1>2, EmptySeq, HeadTailProperties
  <2>2. \A e \in Entry : e.seen = "LIVE" => e = Live(e.msg) /\ e.msg \in Msg
    BY DEF Entry, Live
  <2> QED
    BY <2>1, <2>2 DEF Has
<1> HIDE DEF u, t, live, o
<1>8. ASSUME NEW m \in Msg PROVE Alike(m)
  <2>1. \A q \in Proc : Processing(q, m)' <=> Processing(q, m)
    BY <1>1 DEF Processing
  <2>2. ASSUME NEW q \in Proc PROVE Holds(q, m)' <=> Holds(q, m)
    <3>1. CASE q # p
      BY <1>1, <1>3, <1>4, <2>1, <3>1, HoldsIs
    <3>2. CASE q = p
      BY <1>1, <1>4, <1>6, <1>7, <2>1, <3>2, HoldsIs DEF u, t
    <3> QED
      BY <3>1, <3>2
  <2> QED
    BY <1>1, <2>2 DEF Alike
<1> QED
  BY <1>1, <1>8

\* A request is sent.
LEMMA SendMaps ==
    ASSUME TypeOK, TypeOK', BaseInv, ReadInv, ReadInv', NEW p \in Proc, ServeSend(p)
    PROVE  \E m \in Msg : Request!Submit(m)
<1>1. /\ Serve(p, "send") /\ UNCHANGED <<alive, plan, active, channel>>
      /\ UNCHANGED <<undelivered, delivered, handler, given>>
      /\ state' = [state EXCEPT ![Head(rpc[p]).msg] = "SENT"]
  BY DEF ServeSend
<1>2. PICK c \in Call : c = Head(rpc[p]) /\ c.call = "send" /\ Takes(p, c)
  BY <1>1, ServeTakes
<1>3. PICK m \in Msg : m = c.msg /\ c = [call |-> "send", msg |-> m]
  BY <1>2 DEF Call
<1>4. state[m] = "CREATED" /\ \A q \in Proc : ~Holds(q, m) /\ ~Holds(q, m)'
  <2>1. 1 \in 1 .. Len(rpc[p]) /\ rpc[p][1] = c
    BY <1>2, TakesCalls DEF BaseInv
  <2>2. state[m] = "CREATED"
    BY <1>3, <2>1 DEF BaseInv, Sending
  <2>3. Created(m)
    BY DEF BaseInv, RequestInv
  <2>4. \A q \in Proc : m \notin delivered[q] /\ ~Has(undelivered[q], m)
    BY <2>2, <2>3 DEF Created, Given
  <2> QED
    BY <1>1, <2>2, <2>4, HoldsIs
<1>5. state' = [state EXCEPT ![m] = "SENT"]
  BY <1>1, <1>2, <1>3
<1>6. \A x \in Msg \ {m} : Alike(x)
  BY <1>1, <1>5, AlikeIf DEF TypeOK
<1>7. \A x \in Msg \ {m} : Phase'[x] = Phase[x] /\ Holder'[x] = Holder[x]
  BY <1>6, AlikeMapped
<1>8. Holder'[m] = Holder[m]
  BY <1>4, HolderNone
<1>9. Phase[m] = "new" /\ Phase'[m] = "open"
  <2>1. state'[m] = "SENT" /\ "SENT" \notin Final \cup {"CREATED"}
    BY <1>5 DEF TypeOK, Final
  <2> QED
    BY <1>4, <2>1, Mapped
<1>10. Holder' = Holder
  BY <1>7, <1>8, Mapped
<1>11. Phase' = [Phase EXCEPT ![m] = "open"]
  BY <1>7, <1>9, Mapped
<1> QED
  BY <1>1, <1>9, <1>10, <1>11 DEF Request!Submit

\* A request is given to an active handler, or in vain.
LEMMA GiveMaps ==
    ASSUME TypeOK, TypeOK', BaseInv, GivenInv, ReadInv, ReadInv', GiveToHandler
    PROVE  (\E m \in Msg, b \in Proc : Request!Give(m, b)) \/ UNCHANGED Request!rvars
<1>1. PICK m, b : m = Head(stack).msg /\ b = Head(stack).best
  OBVIOUS
<1>2. /\ m \in Msg /\ b \in Proc /\ state[m] = "SENT" /\ ~Given(m)
      /\ handler[m] # NoProc => ~active[handler[m]]
      /\ active[b] => b \notin given[m]
  BY <1>1, GiveNew
<1>3. /\ UNCHANGED <<active, delivered>>
      /\ handler' = [handler EXCEPT ![m] = b]
      /\ state' = [state EXCEPT ![m] = "SENT"]
      /\ given' = [given EXCEPT ![m] = @ \cup ({b} \cap {p \in Proc : active[p]})]
      /\ \E ok, bad : AddMessage(b, Live(m), ok, bad)
  BY <1>1 DEF GiveToHandler
<1>4. Live(m) \in Entry /\ \A o \in Msg : Live(m) = Live(o) => o = m
  BY <1>2 DEF Entry, Live
<1>5. /\ \A q \in Proc \ {b} : undelivered'[q] = undelivered[q]
      /\ \A x \in Msg : Has(undelivered'[b], x) <=>
                           Has(undelivered[b], x) \/ (Live(m) = Live(x) /\ ~Gone(b))
  BY <1>2, <1>3, <1>4, AddMessageEffect
<1>6. state' = state /\ handler'[m] = b /\ \A x \in Msg \ {m} : handler'[x] = handler[x]
  BY <1>2, <1>3 DEF TypeOK
<1>7. \A x \in Msg \ {m} : Alike(x)
  <2>1. \A q \in Proc, x \in Msg \ {m} : Has(undelivered'[q], x) <=> Has(undelivered[q], x)
    BY <1>4, <1>5
  <2> QED
    BY <1>3, <1>6, <2>1, AlikeIf
<1>8. \A q \in Proc : ~Holds(q, m)
  BY <1>2, HoldsIs, SessionAssumption DEF Given, Processing
<1>9. state[m] \notin Final \cup {"CREATED"} /\ state'[m] \notin Final
  BY <1>2, <1>6 DEF Final
<1>10. CASE ~active[b]
  <2>1. given' = given
    BY <1>3, <1>10 DEF TypeOK
  <2>2. \A q \in Proc : ~Holds(q, m)'
    BY <1>2, <1>3, <1>6, <1>10, HoldsIs DEF Given, Processing
  <2>3. Alike(m)
    BY <1>6, <1>8, <2>2 DEF Alike
  <2> QED
    BY <1>7, <2>1, <2>3, AllAlike
<1>11. CASE active[b]
  <2>1. given' = [given EXCEPT ![m] = @ \cup {b}] /\ b \notin given[m]
    BY <1>2, <1>3, <1>11
  <2>2. Holds(b, m)'
    <3>1. Has(undelivered'[b], m)
      BY <1>2, <1>5, <1>11 DEF Gone
    <3>2. Processing(b, m)'
      BY <1>6, <1>9 DEF Processing
    <3> QED
      BY <1>2, <1>3, <1>11, <3>1, <3>2, HoldsIs
  <2>3. Holder[m] = NoProc /\ Holder'[m] = b
    BY <1>2, <1>8, <1>9, <2>2, HolderNone, HolderIs
  <2>4. Phase[m] = "open" /\ Phase' = Phase
    BY <1>2, <1>6, <1>9, Mapped DEF Phase
  <2>5. \A x \in Msg \ {m} : Holder'[x] = Holder[x]
    BY <1>7, AlikeMapped
  <2>6. Holder' = [Holder EXCEPT ![m] = b]
    BY <2>3, <2>5, Mapped
  <2>7. Request!Give(m, b)
    BY <2>1, <2>3, <2>4, <2>6 DEF Request!Give
  <2> QED
    BY <1>2, <2>7
<1> QED
  BY <1>10, <1>11

\* A request ends.
LEMMA FinalMaps ==
    ASSUME TypeOK, TypeOK', BaseInv, ReadInv, ReadInv', ChangeFinal
    PROVE  \E m \in Msg : Request!End(m)
<1>1. PICK m \in Msg, s \in Final : /\ Changes(m) /\ state' = [state EXCEPT ![m] = s]
                                    /\ UNCHANGED <<active, undelivered, delivered, handler, given>>
  <2>1. /\ Len(stack) \in Nat \ {0} /\ At(stack, Len(stack)) = Head(stack)
        /\ Head(stack).op = "change" /\ Head(stack) \in Frame
    BY TopAt DEF ChangeFinal
  <2>2. PICK x \in Msg, t \in Final : x = Head(stack).msg /\ t = Head(stack).to
    BY <2>1, FramesRead DEF ChangeFinal
  <2>3. Changes(x)
    BY <2>1, <2>2 DEF Changes
  <2> QED
    BY <2>2, <2>3 DEF ChangeFinal, procVars
<1>2. state[m] = "SENT"
  BY <1>1 DEF BaseInv, RequestInv, ChangeOk
<1>3. state'[m] \in Final /\ state[m] \notin Final \cup {"CREATED"}
  BY <1>1, <1>2 DEF TypeOK, Final
<1>4. \A x \in Msg \ {m} : Alike(x)
  BY <1>1, AlikeIf DEF TypeOK
<1>5. \A x \in Msg \ {m} : Phase'[x] = Phase[x] /\ Holder'[x] = Holder[x]
  BY <1>4, AlikeMapped
<1>6. Phase[m] = "open" /\ Phase'[m] = "ended" /\ Holder'[m] = NoProc
  BY <1>3, Mapped, HolderNone
<1>7. Phase' = [Phase EXCEPT ![m] = "ended"] /\ Holder' = [Holder EXCEPT ![m] = NoProc]
  BY <1>5, <1>6, Mapped
<1> QED
  BY <1>1, <1>6, <1>7 DEF Request!End

\* Whoever holds a request under way yields it, and nothing else changes.
LEMMA YieldMaps ==
    ASSUME TypeOK, TypeOK', ReadInv, ReadInv', NEW m \in Msg,
           state' = state, given' = given, state[m] = "SENT",
           \A p \in Proc : ~Holds(p, m)', \A x \in Msg \ {m} : Alike(x)
    PROVE  Request!Yield(m) \/ UNCHANGED Request!rvars
<1>1. state[m] \notin Final \cup {"CREATED"}
  BY DEF Final
<1>2. CASE \A p \in Proc : ~Holds(p, m)
  <2>1. Alike(m)
    BY <1>2 DEF Alike
  <2> QED
    BY <2>1, AllAlike
<1>3. ASSUME NEW p \in Proc, Holds(p, m) PROVE Request!Yield(m)
  <2>1. Holder[m] = p /\ Holder[m] # NoProc
    BY <1>1, <1>3, HolderIs, SessionAssumption
  <2>2. Holder'[m] = NoProc
    BY HolderNone
  <2>3. \A x \in Msg \ {m} : Holder'[x] = Holder[x]
    BY AlikeMapped
  <2>4. Holder' = [Holder EXCEPT ![m] = NoProc]
    BY <2>2, <2>3, Mapped
  <2>5. Phase[m] = "open" /\ Phase' = Phase
    BY <1>1, Mapped DEF Phase
  <2> QED
    BY <2>1, <2>4, <2>5 DEF Request!Yield
<1> QED
  BY <1>2, <1>3

\* A request is rejected.
LEMMA RejectedMaps ==
    ASSUME TypeOK, TypeOK', BaseInv, ReadInv, ReadInv', ChangeRejected
    PROVE  (\E m \in Msg : Request!Yield(m)) \/ UNCHANGED Request!rvars
<1>1. /\ Len(stack) \in Nat \ {0} /\ At(stack, Len(stack)) = Head(stack)
      /\ Head(stack).op = "change" /\ Head(stack) \in Frame
  BY TopAt DEF ChangeRejected
<1>2. PICK m \in Msg : m = Head(stack).msg
  BY <1>1, FramesRead
<1>3. /\ UNCHANGED <<active, undelivered, delivered, given>>
      /\ handler' = [handler EXCEPT ![m] = NoProc]
      /\ state' = [state EXCEPT ![m] = "SENT"]
  BY <1>2 DEF ChangeRejected, procVars
<1>4. state[m] = "SENT" /\ ~Given(m)
  <2>1. Changes(m) /\ At(stack, Len(stack)).to = "REJECTED"
    BY <1>1, <1>2 DEF Changes, ChangeRejected
  <2> QED
    BY <2>1 DEF BaseInv, RequestInv, ChangeOk
<1>5. state' = state /\ handler'[m] = NoProc /\ \A x \in Msg \ {m} : handler'[x] = handler[x]
  BY <1>3, <1>4 DEF TypeOK
<1>6. \A p \in Proc : ~Holds(p, m)'
  BY <1>3, <1>4, <1>5, HoldsIs, SessionAssumption DEF Given, Processing
<1>7. \A x \in Msg \ {m} : Alike(x)
  BY <1>3, <1>5, AlikeIf
<1> QED
  BY <1>3, <1>4, <1>5, <1>6, <1>7, YieldMaps

\* A request is answered.
LEMMA UpdateMaps ==
    ASSUME TypeOK, TypeOK', BaseInv, ReadInv, ReadInv', NEW p \in Proc, ServeUpdate(p)
    PROVE  (\E m \in Msg : Request!Yield(m)) \/ UNCHANGED Request!rvars
<1>1. /\ Serve(p, "update") /\ stack = << >>
      /\ UNCHANGED <<alive, plan, active, channel, undelivered, state, handler, given>>
  BY DEF ServeUpdate, msgVars, Serve, Idle
<1>2. CASE delivered' = delivered
  BY <1>1, <1>2, QuietAlike, AllAlike
<1>3. CASE delivered' # delivered
  <2>1. PICK c \in Call : c = Head(rpc[p]) /\ c.call = "update" /\ Takes(p, c)
    BY <1>1, ServeTakes
  <2>2. PICK m \in Msg : m = c.msg
    BY <2>1 DEF Call
  <2>3. m \in delivered[p] /\ delivered' = [delivered EXCEPT ![p] = @ \ {m}]
    BY <1>3, <2>1, <2>2 DEF ServeUpdate, Settle
  <2>4. \A d \in Levels : FALSE
    BY <1>1 DEF Levels
  <2>5. ReadOk(m) /\ UnreadOk(m)
    BY DEF BaseInv, RequestInv
  <2>6. handler[m] = p /\ state[m] = "SENT"
    BY <2>3, <2>4, <2>5 DEF ReadOk
  <2>7. ~Has(undelivered[p], m)
    BY <2>3, <2>5, <2>6, SessionAssumption DEF UnreadOk, Given, Final
  <2>8. \A q \in Proc : ~Holds(q, m)'
    <3>1. \A q \in Proc : m \notin delivered'[q]
      BY <2>3, <2>6 DEF TypeOK, ReadInv, ReadBy
    <3> QED
      BY <1>1, <2>6, <2>7, <3>1, HoldsIs DEF Processing
  <2>9. \A x \in Msg \ {m} : Alike(x)
    <3>1. \A q \in Proc, x \in Msg \ {m} : x \in delivered'[q] <=> x \in delivered[q]
      BY <2>3 DEF TypeOK
    <3> QED
      BY <1>1, <3>1, AlikeIf
  <2> QED
    BY <1>1, <2>6, <2>8, <2>9, YieldMaps
<1> QED
  BY <1>2, <1>3

\* A process is lost, and with it what it holds.
LEMMA DeactivateMaps ==
    ASSUME TypeOK, TypeOK', ReadInv, ReadInv', RunDeactivate
    PROVE  (\E p \in Proc : Request!Lose(p)) \/ UNCHANGED Request!rvars
<1>1. PICK p \in Proc : p = Head(stack).proc
  BY TopAt, FramesRead DEF RunDeactivate
<1>2. UNCHANGED <<undelivered, delivered, state, handler, given>>
  BY DEF RunDeactivate, msgVars
<1>3. CASE active' = active
  BY <1>2, <1>3, QuietAlike, AllAlike
<1>4. CASE active' # active
  <2>1. active' = [active EXCEPT ![p] = FALSE]
    BY <1>1, <1>4 DEF RunDeactivate
  <2>2. \A q \in Proc, m \in Msg : Holds(q, m)' <=> Holds(q, m) /\ q # p
    <3> SUFFICES ASSUME NEW q \in Proc, NEW m \in Msg
                 PROVE  Holds(q, m)' <=> Holds(q, m) /\ q # p
      OBVIOUS
    <3>1. active'[q] <=> active[q] /\ q # p
      BY <2>1 DEF TypeOK
    <3>2. Processing(q, m)' <=> Processing(q, m)
      BY <1>2 DEF Processing
    <3> QED
      BY <1>2, <3>1, <3>2, HoldsIs
  <2>3. \A m \in Msg : Holder'[m] = IF Holder[m] = p THEN NoProc ELSE Holder[m]
    <3> SUFFICES ASSUME NEW m \in Msg
                 PROVE  Holder'[m] = IF Holder[m] = p THEN NoProc ELSE Holder[m]
      OBVIOUS
    <3>1. CASE state[m] \in Final \/ \A q \in Proc : ~Holds(q, m)
      <4>1. state'[m] \in Final \/ \A q \in Proc : ~Holds(q, m)'
        BY <1>2, <2>2, <3>1
      <4>2. Holder[m] = NoProc /\ Holder'[m] = NoProc
        BY <3>1, <4>1, HolderNone
      <4> QED
        BY <4>2
    <3>2. ASSUME state[m] \notin Final, NEW q \in Proc, Holds(q, m)
          PROVE  Holder'[m] = IF Holder[m] = p THEN NoProc ELSE Holder[m]
      <4>1. Holder[m] = q /\ handler[m] = q
        BY <3>2, HolderIs
      <4>2. CASE q = p
        <5>1. \A r \in Proc : ~Holds(r, m)'
          BY <2>2, <4>1, <4>2, HolderIs
        <5> QED
          BY <4>1, <4>2, <5>1, HolderNone
      <4>3. CASE q # p
        <5>1. Holds(q, m)' /\ state'[m] \notin Final
          BY <1>2, <2>2, <3>2, <4>3
        <5> QED
          BY <4>1, <4>3, <5>1, HolderIs
      <4> QED
        BY <4>2, <4>3
    <3> QED
      BY <3>1, <3>2
  <2>4. Holder' = [m \in Msg |-> IF Holder[m] = p THEN NoProc ELSE Holder[m]]
    BY <2>3, Mapped
  <2>5. Phase' = Phase
    BY <1>2 DEF Phase
  <2> QED
    BY <1>2, <2>4, <2>5 DEF Request!Lose
<1> QED
  BY <1>3, <1>4

\* Nothing is queued where no request is queueable.
LEMMA NoneQueued ==
    ASSUME TypeOK, BaseInv, Queueable = {}
    PROVE  /\ ~ChangeQueued
           /\ RunRedeliver \/ RunRequeue => UNCHANGED state
<1>1. ASSUME ChangeQueued PROVE FALSE
  <2>1. /\ Len(stack) \in Nat \ {0} /\ At(stack, Len(stack)) = Head(stack)
        /\ Head(stack).op = "change" /\ Head(stack) \in Frame /\ Head(stack).to = "QUEUED"
    BY <1>1, TopAt DEF ChangeQueued
  <2>2. PICK m \in Msg : m = Head(stack).msg
    BY <2>1, FramesRead
  <2>3. ChangeOk(m) /\ Changes(m)
    BY <2>1, <2>2 DEF BaseInv, RequestInv, Changes
  <2> QED
    BY <2>1, <2>3 DEF ChangeOk
<1>2. ASSUME RunRedeliver, state' # state PROVE FALSE
  <2>1. /\ Len(stack) \in Nat \ {0} /\ At(stack, Len(stack)) = Head(stack)
        /\ Head(stack).op = "redeliver" /\ Head(stack) \in Frame
    BY <1>2, TopAt DEF RunRedeliver
  <2>2. PICK m \in Msg : m \in Head(stack).todo
    BY <1>2, <2>1, FramesRead DEF RunRedeliver
  <2>3. QueuedOk(m) /\ Len(stack) \in Levels
    BY <2>1 DEF BaseInv, RequestInv, Levels
  <2> QED
    BY <2>1, <2>2, <2>3 DEF QueuedOk
<1>3. ASSUME RunRequeue PROVE FALSE
  <2>1. /\ Len(stack) \in Nat \ {0} /\ At(stack, Len(stack)) = Head(stack)
        /\ Head(stack).op = "requeue" /\ Head(stack) \in Frame
    BY <1>3, TopAt DEF RunRequeue
  <2>2. PICK m \in Msg : m = Head(stack).msg
    BY <2>1, FramesRead
  <2>3. QueuedOk(m) /\ Len(stack) \in Levels
    BY <2>1 DEF BaseInv, RequestInv, Levels
  <2> QED
    BY <2>1, <2>2, <2>3 DEF QueuedOk, Requeues
<1> QED
  BY <1>1, <1>2, <1>3

\* Every step of the session maps to a step of TtRequest, or to none.
LEMMA RequestStep ==
    ASSUME TypeOK, TypeOK', SessionInv, GivenInv, ReadInv, ReadInv', Queueable = {}, [Next]_vars
    PROVE  [Request!RNext]_(Request!rvars)
<1>1. CASE UNCHANGED <<active, undelivered, delivered, state, handler, given>>
  BY <1>1, QuietAlike, AllAlike
<1>2. CASE Run
  <2>1. heap = "intact"
    BY <1>2 DEF Run, Running, RunDeliver, MatchHosed, MatchInactive, MatchHandler, MatchObserver,
                MatchEnded, GiveToHandler, NoHandler, RunReturn, ChangeRepeated, ChangeFinal,
                ChangeQueued, ChangeRejected, RunReport, RunDeactivate, RunUnread, RunUnanswered,
                RunOrphaned, RunForget, RunRedeliver, RunRequeue
  <2>2. BaseInv
    BY <2>1 DEF SessionInv
  <2>3. CASE MatchObserver \/ RunReport \/ RunOrphaned
    BY <2>2, <2>3, ObserverAlike, ReportAlike, OrphanedAlike, AllAlike
  <2>4. CASE GiveToHandler
    BY <2>2, <2>4, GiveMaps DEF Request!RNext
  <2>5. CASE ChangeFinal
    BY <2>2, <2>5, FinalMaps DEF Request!RNext
  <2>6. CASE ChangeRejected
    BY <2>2, <2>6, RejectedMaps DEF Request!RNext
  <2>7. CASE RunDeactivate
    BY <2>7, DeactivateMaps DEF Request!RNext
  <2>8. CASE RunRedeliver \/ RunRequeue
    <3>1. UNCHANGED <<active, undelivered, delivered, handler, given>>
      BY <2>8 DEF RunRedeliver, RunRequeue, procVars
    <3> QED
      BY <1>1, <2>2, <2>8, <3>1, NoneQueued
  <2>9. CASE \/ RunDeliver \/ MatchHosed \/ MatchInactive \/ MatchHandler \/ NoHandler \/ RunReturn
             \/ ChangeRepeated \/ RunUnread \/ RunUnanswered \/ RunForget
    BY <1>1, <2>9 DEF RunDeliver, MatchHosed, MatchInactive, MatchHandler, NoHandler, RunReturn,
                      ChangeRepeated, RunUnread, RunUnanswered, RunForget, procVars, msgVars
  <2> QED
    BY <1>2, <2>2, <2>3, <2>4, <2>5, <2>6, <2>7, <2>8, <2>9, NoneQueued DEF Run
<1>3. ASSUME NEW p \in Proc, ServeSend(p) \/ ServeNext(p) \/ ServeUpdate(p)
      PROVE  [Request!RNext]_(Request!rvars)
  <2>1. heap = "intact"
    BY <1>3 DEF ServeSend, ServeNext, ServeUpdate, Serve, Idle
  <2>2. BaseInv
    BY <2>1 DEF SessionInv
  <2>3. CASE ServeSend(p)
    BY <2>2, <2>3, SendMaps DEF Request!RNext
  <2>4. CASE ServeNext(p)
    BY <2>4, NextAlike, AllAlike
  <2>5. CASE ServeUpdate(p)
    BY <2>2, <2>5, UpdateMaps DEF Request!RNext
  <2> QED
    BY <1>3, <2>3, <2>4, <2>5
<1>4. ASSUME NEW p \in Proc, \/ Client(p) \/ Hangup(p) \/ ServeRegister(p) \/ ServeUnregister(p)
                             \/ ServeJoin(p) \/ ServeClose(p)
      PROVE  [Request!RNext]_(Request!rvars)
  BY <1>1, <1>4 DEF Client, AskPlanned, AskNext, AskUpdate, Die, Ask, Hangup, ServeRegister,
                    ServeUnregister, ServeJoin, ServeClose, procVars, msgVars
<1>5. CASE UNCHANGED vars
  BY <1>1, <1>5 DEF vars
<1> QED
  BY <1>2, <1>3, <1>4, <1>5 DEF Next, ServeRpc

\* At first every request is new.
LEMMA RequestInit == ASSUME Init PROVE Request!RInit
<1>1. \A m \in Msg : /\ state[m] = "CREATED"
                     /\ \A p \in Proc : m \notin delivered[p] /\ undelivered[p] = << >>
  BY DEF Init
<1>2. given = [m \in Msg |-> {}] /\ ToSet(<< >>) = {}
  BY DEF Init, ToSet
<1>3. \A m \in Msg : Holder[m] = NoProc /\ Phase[m] = "new"
  BY <1>1, <1>2, HolderNone, Mapped DEF Holds
<1>4. Holder = [m \in Msg |-> NoProc] /\ Phase = [m \in Msg |-> "new"]
  BY <1>3, Mapped
<1> QED
  BY <1>2, <1>4 DEF Request!RInit

\* Where no request is queued, the session implements TtRequest: an unanswered
\* request has one holder at a time, no process is given the same request twice,
\* and it ends once and for all.
THEOREM ImplementsAlways ==
    ASSUME ReadsWhenSignalled, Queueable = {} PROVE Spec => Implements
<1> DEFINE Inv == SessionInv /\ GivenInv /\ ReadInv
<1>1. Init => Inv /\ Request!RInit
  BY SessionInit, GivenInit, ReadInit, RequestInit
<1>2. TypeOK /\ TypeOK' /\ Inv /\ [Next]_vars => Inv' /\ [Request!RNext]_(Request!rvars)
  <2> SUFFICES ASSUME TypeOK, TypeOK', SessionInv, GivenInv, ReadInv, [Next]_vars
               PROVE  Inv' /\ [Request!RNext]_(Request!rvars)
    OBVIOUS
  <2>1. SessionInv'
    BY SessionStep
  <2>2. GivenInv'
    BY GivenStep
  <2>3. ReadInv'
    BY <2>1, ReadStep
  <2>4. [Request!RNext]_(Request!rvars)
    BY <2>3, RequestStep
  <2> QED
    BY <2>1, <2>2, <2>3, <2>4
<1> QED
  BY <1>1, <1>2, TypeCorrect, PTL DEF Spec, Implements, Request!RSpec

-----------------------------------------------------------------------------
(* No request is lost. *)

\* A call seeks a handler for m, or shows it to the observers; the state of m is
\* about to change; what p has not read is being failed.
Sought(m) == \E f \in ToSet(stack) : f.op \in {"deliver", "match"} /\ f.msg = m
Changing(m) == \E f \in ToSet(stack) : f.op = "change" /\ f.msg = m
Emptied(p) == \E f \in ToSet(stack) : f.op = "unread" /\ f.proc = p

\* The cursor f takes the request itself, not a copy, from its process.
Taking(f) == /\ f.op = "orphaned"
             /\ f.wasRead \/ Head(undelivered[f.proc]).seen = "LIVE"

\* A procid that can be signalled is active.
Wired == \A p \in Proc : channel[p] => active[p]

\* The ends of a request are reported when it ends.
Unended(m) == state[m] \notin Final => reported[m] \cap Final = {}

\* A request under way is in no list of a live process but its handler's.
OthersDead(m) == state[m] = "SENT" => \A p \in Proc :
    Has(undelivered[p], m) => handler[m] = p \/ ~active[p]

\* The best handler that a walk has found so far does not have the request.
BestNew(m) == \A f \in ToSet(stack) :
    f.op = "match" /\ f.msg = m /\ f.best # NoProc => ~Has(undelivered[f.best], m)

\* A request is taken from its handler when it has ended, or as it does.
TakenEnded(m) == \A f \in ToSet(stack) : Taking(f) /\ f.msg = m =>
    \/ state[m] \in Final \/ Changing(m)
    \/ ~f.wasRead /\ handler[m] # f.proc

\* What is rejected has been read.
RejectRead(m) == \A f \in ToSet(stack) :
    f.op = "change" /\ f.msg = m /\ f.to = "REJECTED" /\ handler[m] # NoProc =>
        ~Has(undelivered[handler[m]], m)

\* A request under way has been read by somebody, or is unread by its handler, who
\* is active or whose list is being failed, or somebody is sought, or it ends.
Placed(m) == state[m] = "SENT" =>
    \/ Given(m) \/ Sought(m) \/ Changing(m)
    \/ /\ handler[m] # NoProc /\ Has(undelivered[handler[m]], m)
       /\ active[handler[m]] \/ Emptied(handler[m])

PlaceInv(m) == /\ Unended(m) /\ OthersDead(m) /\ BestNew(m)
               /\ TakenEnded(m) /\ RejectRead(m) /\ Placed(m)

LossInv == heap = "intact" => Wired /\ \A m \in Msg : PlaceInv(m)

\* The frames of two stacks put together.
LEMMA Joined ==
    ASSUME NEW s \in Seq(Frame), NEW t \in Seq(Frame)
    PROVE  ToSet(t \o s) = ToSet(t) \cup ToSet(s)
<1> DEFINE u == t \o s
<1>1. /\ Len(t) \in Nat /\ Len(s) \in Nat /\ Len(u) = Len(t) + Len(s)
      /\ \A i \in 1 .. Len(t) + Len(s) : u[i] = IF i <= Len(t) THEN t[i] ELSE s[i - Len(t)]
  BY ConcatProperties, LenProperties
<1>2. u \in Seq(Frame)
  BY ConcatProperties
<1> HIDE DEF u
<1>3. DOMAIN u = 1 .. Len(u) /\ DOMAIN t = 1 .. Len(t) /\ DOMAIN s = 1 .. Len(s)
  BY <1>2
<1>4. ASSUME NEW i \in 1 .. Len(t) PROVE i \in 1 .. Len(u) /\ u[i] = t[i]
  BY <1>1
<1>5. ASSUME NEW i \in 1 .. Len(s) PROVE i + Len(t) \in 1 .. Len(u) /\ u[i + Len(t)] = s[i]
  <2>1. i + Len(t) \in 1 .. Len(t) + Len(s) /\ ~(i + Len(t) <= Len(t)) /\ i + Len(t) - Len(t) = i
    BY <1>1
  <2> QED
    BY <1>1, <2>1
<1>6. ToSet(t) \subseteq ToSet(u) /\ ToSet(s) \subseteq ToSet(u)
  BY <1>3, <1>4, <1>5 DEF ToSet
<1> QED
  BY <1>6, Frames DEF u

\* The frames of a stack are the top one and those below.
LEMMA Stacked ==
    ASSUME NEW s \in Seq(Frame)
    PROVE  /\ s # << >> => ToSet(s) = {Head(s)} \cup ToSet(Tail(s)) /\ Tail(s) \in Seq(Frame)
           /\ ToSet(<< >>) = {}
<1>1. ToSet(<< >>) = {}
  BY DEF ToSet
<1>2. ASSUME s # << >> PROVE ToSet(s) = {Head(s)} \cup ToSet(Tail(s)) /\ Tail(s) \in Seq(Frame)
  <2>1. /\ Len(s) \in Nat \ {0} /\ Head(s) = s[1] /\ Tail(s) \in Seq(Frame)
        /\ Len(Tail(s)) = Len(s) - 1 /\ \A i \in 1 .. Len(Tail(s)) : Tail(s)[i] = s[i + 1]
    BY <1>2, EmptySeq, HeadTailProperties
  <2>2. DOMAIN s = 1 .. Len(s) /\ DOMAIN Tail(s) = 1 .. Len(Tail(s))
    BY <2>1
  <2>3. \A i \in 1 .. Len(s) : i # 1 => i - 1 \in 1 .. Len(Tail(s)) /\ s[i] = Tail(s)[i - 1]
    BY <2>1
  <2>4. ASSUME NEW i \in 1 .. Len(s) PROVE s[i] \in {Head(s)} \cup ToSet(Tail(s))
    BY <2>1, <2>2, <2>3 DEF ToSet
  <2>5. ToSet(s) \subseteq {Head(s)} \cup ToSet(Tail(s))
    BY <2>2, <2>4 DEF ToSet
  <2> QED
    BY <1>2, <2>1, <2>5, Frames
<1> QED
  BY <1>1, <1>2

\* One frame is pushed, or two.
LEMMA StackedTwo ==
    ASSUME NEW s \in Seq(Frame), NEW f \in Frame, NEW g \in Frame
    PROVE  /\ ToSet(<<f>> \o s) = {f} \cup ToSet(s)
           /\ ToSet(<<f, g>> \o s) = {f, g} \cup ToSet(s)
           /\ ToSet(<<f>> \o (<<g>> \o s)) = {f, g} \cup ToSet(s)
<1> DEFINE one == <<f>>
           two == <<f, g>>
<1>1. one \in Seq(Frame) /\ two \in Seq(Frame)
  OBVIOUS
<1>2. ToSet(one) = {f} /\ ToSet(two) = {f, g}
  BY DEF ToSet
<1>3. <<f>> \o (<<g>> \o s) = two \o s
  BY PushPush
<1>4. one = <<f>> /\ two = <<f, g>>
  OBVIOUS
<1> HIDE DEF one, two
<1>5. ToSet(one \o s) = {f} \cup ToSet(s) /\ ToSet(two \o s) = {f, g} \cup ToSet(s)
  BY <1>1, <1>2, Joined
<1> QED
  BY <1>3, <1>4, <1>5

\* Three frames are pushed.
LEMMA StackedThree ==
    ASSUME NEW s \in Seq(Frame), NEW f \in Frame, NEW g \in Frame, NEW h \in Frame
    PROVE  ToSet(<<f, g, h>> \o s) = {f, g, h} \cup ToSet(s)
<1> DEFINE three == <<f, g, h>>
<1>1. three \in Seq(Frame) /\ ToSet(three) = {f, g, h} /\ three = <<f, g, h>>
  BY DEF ToSet
<1> HIDE DEF three
<1>2. ToSet(three \o s) = {f, g, h} \cup ToSet(s)
  BY <1>1, Joined
<1> QED
  BY <1>1, <1>2

\* What a frame says of its request, wherever it is on the stack.
LEMMA OnStack ==
    ASSUME TypeOK, BaseInv, NEW f \in ToSet(stack)
    PROVE  /\ f \in Frame /\ stack # << >>
           /\ f.op = "change" => /\ f = Head(stack) /\ state[f.msg] = "SENT"
                                 /\ f.to = "REJECTED" => Tail(stack) = << >>
                                 /\ f.to = "QUEUED" => f.msg \in Queueable
           /\ f.op = "match" /\ f.best # NoProc => state[f.msg] = "SENT"
           /\ f.op = "orphaned" /\ ~f.wasRead =>
                 undelivered[f.proc] # << >> /\ Head(undelivered[f.proc]).msg = f.msg
           /\ f.op = "report" => state[f.msg] \in Final \/ state[f.msg] = "QUEUED"
<1>1. PICK d \in Levels : At(stack, d) = f
  BY FrameLevel
<1>2. stack \in Seq(Frame) /\ Len(stack) \in Nat
  BY LenProperties DEF TypeOK
<1>3. f \in Frame
  BY <1>1, <1>2, FrameAt DEF Levels
<1>4. stack # << >>
  BY <1>1, <1>2 DEF Levels
<1>5. /\ At(stack, Len(stack)) = Head(stack) /\ Len(Tail(stack)) = Len(stack) - 1
      /\ Tail(stack) \in Seq(Frame)
  BY <1>2, <1>4, TopFrame, HeadTailProperties
<1>6. ASSUME f.op = "change"
      PROVE  /\ f = Head(stack) /\ state[f.msg] = "SENT"
             /\ f.to = "REJECTED" => Tail(stack) = << >>
             /\ f.to = "QUEUED" => f.msg \in Queueable
  <2>1. f = Head(stack)
    BY <1>1, <1>5, <1>6 DEF BaseInv, FramesInv, Tops
  <2>2. f.msg \in Msg
    BY <1>3, <1>6, FramesRead
  <2>3. Changes(f.msg) /\ ChangeOk(f.msg)
    BY <1>1, <1>2, <1>5, <1>6, <2>1, <2>2 DEF Changes, Levels, BaseInv, RequestInv
  <2>4. state[f.msg] = "SENT" /\ (f.to = "REJECTED" => Len(stack) = 1)
        /\ (f.to = "QUEUED" => f.msg \in Queueable)
    BY <1>5, <2>1, <2>3 DEF ChangeOk
  <2> QED
    BY <1>5, <2>1, <2>4, EmptySeq
<1>7. ASSUME f.op = "match", f.best # NoProc PROVE state[f.msg] = "SENT"
  BY <1>1, <1>3, <1>7, FramesRead DEF BaseInv, RequestInv, BestOk, Matches
<1>8. ASSUME f.op = "orphaned", ~f.wasRead
      PROVE  undelivered[f.proc] # << >> /\ Head(undelivered[f.proc]).msg = f.msg
  BY <1>1, <1>8 DEF BaseInv, ListsInv, CursorKept
<1>9. ASSUME f.op = "report" PROVE state[f.msg] \in Final \/ state[f.msg] = "QUEUED"
  BY <1>1, <1>3, <1>9, FramesRead DEF BaseInv, RequestInv, ReportOk, Reports
<1> QED
  BY <1>3, <1>4, <1>6, <1>7, <1>8, <1>9

\* What is below the frame that runs.
LEMMA Below ==
    ASSUME TypeOK, BaseInv, stack # << >>, NEW f \in ToSet(Tail(stack)), NEW h, h = Head(stack)
    PROVE  /\ f \in ToSet(stack) /\ f.op # "change"
           /\ (h.op \in {"deliver", "match"} /\ f.op \in {"deliver", "match"} /\ f.msg = h.msg)
                 => state[f.msg] \in Final
           /\ (/\ h.op = "orphaned" /\ ~h.wasRead
               /\ f.op = "orphaned" /\ ~f.wasRead) => f.proc # h.proc
<1>1. stack \in Seq(Frame)
  BY DEF TypeOK
<1>2. /\ Len(stack) \in Nat \ {0} /\ At(stack, Len(stack)) = h
      /\ Len(Tail(stack)) = Len(stack) - 1 /\ Tail(stack) \in Seq(Frame)
      /\ \A i \in 1 .. Len(Tail(stack)) : Tail(stack)[i] = stack[i + 1]
  BY <1>1, TopFrame, HeadTailProperties
<1>3. PICK i \in 1 .. Len(Tail(stack)) : f = Tail(stack)[i]
  BY <1>2 DEF ToSet
<1>4. /\ i \in Nat /\ 1 <= i /\ i <= Len(stack) - 1 /\ Len(stack) \in Nat \ {0}
  BY <1>2
<1> DEFINE d == Len(stack) - i
<1>5. d \in Levels /\ d # Len(stack) /\ Len(stack) \in Levels /\ Len(stack) + 1 - d = i + 1
  BY <1>4 DEF Levels
<1>6. At(stack, d) = f
  BY <1>2, <1>3, <1>5 DEF At
<1> HIDE DEF d
<1>7. f \in ToSet(stack) /\ f \in Frame
  BY <1>1, Stacked, OnStack
<1>8. f.op # "change"
  BY <1>5, <1>6 DEF BaseInv, FramesInv, Tops
<1>9. ASSUME h.op \in {"deliver", "match"}, f.op \in {"deliver", "match"}, f.msg = h.msg
      PROVE  state[f.msg] \in Final
  <2>1. f.msg \in Msg /\ Walks(d, f.msg) /\ Walks(Len(stack), f.msg)
    BY <1>2, <1>6, <1>7, <1>9, FramesRead DEF Walks
  <2> QED
    BY <1>5, <2>1 DEF BaseInv, RequestInv, OneWalk
<1>10. ASSUME h.op = "orphaned", ~h.wasRead, f.op = "orphaned", ~f.wasRead PROVE f.proc # h.proc
  BY <1>2, <1>5, <1>6, <1>10 DEF BaseInv, FramesInv, OneCursor
<1> QED
  BY <1>7, <1>8, <1>9, <1>10

\* A step leaves what concerns m alone: its state and handler, and who has it, unless
\* it has ended; the frames that speak of it stay, or stand for what is so.
Spared(m) ==
    /\ state'[m] = state[m] /\ handler'[m] = handler[m] /\ reported'[m] = reported[m]
    /\ \A p \in Proc :
          /\ m \in delivered[p] => m \in delivered'[p]
          /\ active'[p] => active[p]
          /\ active[p] => active'[p] \/ Emptied(p)'
          /\ Has(undelivered'[p], m) => Has(undelivered[p], m) \/ state[m] # "SENT"
          /\ Has(undelivered[p], m) => Has(undelivered'[p], m)
    /\ \A f \in ToSet(stack') :
          /\ f.op = "match" /\ f.msg = m /\ f.best # NoProc =>
                \/ \E g \in ToSet(stack) : g.op = "match" /\ g.msg = m /\ g.best = f.best
                \/ state[m] = "SENT" /\ ~Has(undelivered[f.best], m)
          /\ Taking(f)' /\ f.msg = m =>
                \/ f \in ToSet(stack) /\ Taking(f)
                \/ state[m] \in Final \/ Changing(m)'
                \/ ~f.wasRead /\ handler[m] # f.proc
          /\ f.op = "change" /\ f.msg = m /\ f.to = "REJECTED" => f \in ToSet(stack)
    /\ state[m] = "SENT" /\ Sought(m) => Sought(m)' \/ Changing(m)'
    /\ Changing(m) => Changing(m)'
    /\ \A p \in Proc : Emptied(p) => Emptied(p)' \/ undelivered[p] = << >>

\* It keeps the place of m.
LEMMA PlaceStays ==
    ASSUME TypeOK, TypeOK', BaseInv, NEW m \in Msg, PlaceInv(m), Spared(m)
    PROVE  PlaceInv(m)'
<1>1. /\ state'[m] = state[m] /\ handler'[m] = handler[m] /\ reported'[m] = reported[m]
      /\ \A p \in Proc :
            /\ m \in delivered[p] => m \in delivered'[p]
            /\ active'[p] => active[p]
            /\ active[p] => active'[p] \/ Emptied(p)'
            /\ Has(undelivered'[p], m) => Has(undelivered[p], m) \/ state[m] # "SENT"
            /\ Has(undelivered[p], m) => Has(undelivered'[p], m)
  BY DEF Spared
<1>2. handler[m] \in Proc \cup {NoProc}
  BY DEF TypeOK
<1>3. Unended(m)'
  BY <1>1 DEF PlaceInv, Unended
<1>4. OthersDead(m)'
  BY <1>1 DEF PlaceInv, OthersDead
<1>5. BestNew(m)'
  <2> SUFFICES ASSUME NEW f \in ToSet(stack'), f.op = "match", f.msg = m, f.best # NoProc
               PROVE  ~Has(undelivered'[f.best], m)
    BY DEF BestNew
  <2>1. f \in Frame
    BY DEF TypeOK, ToSet
  <2>2. f.best \in Proc
    BY <2>1, FramesRead
  <2>3. state[m] = "SENT" /\ ~Has(undelivered[f.best], m)
    <3>1. CASE \E g \in ToSet(stack) : g.op = "match" /\ g.msg = m /\ g.best = f.best
      BY <3>1, OnStack DEF PlaceInv, BestNew
    <3> QED
      BY <3>1 DEF Spared
  <2> QED
    BY <1>1, <2>2, <2>3
<1>6. TakenEnded(m)'
  <2> SUFFICES ASSUME NEW f \in ToSet(stack'), Taking(f)', f.msg = m
               PROVE  \/ state'[m] \in Final \/ Changing(m)'
                      \/ ~f.wasRead /\ handler'[m] # f.proc
    BY DEF TakenEnded
  <2>1. CASE f \in ToSet(stack) /\ Taking(f)
    BY <1>1, <2>1 DEF PlaceInv, TakenEnded, Spared
  <2> QED
    BY <1>1, <2>1 DEF Spared
<1>7. RejectRead(m)'
  <2> SUFFICES ASSUME NEW f \in ToSet(stack'), f.op = "change", f.msg = m, f.to = "REJECTED",
                      handler'[m] # NoProc
               PROVE  ~Has(undelivered'[handler'[m]], m)
    BY DEF RejectRead
  <2>1. f \in ToSet(stack)
    BY DEF Spared
  <2>2. state[m] = "SENT" /\ ~Has(undelivered[handler[m]], m)
    BY <1>1, <2>1, OnStack DEF PlaceInv, RejectRead
  <2> QED
    BY <1>1, <1>2, <2>2
<1>8. Placed(m)'
  <2> SUFFICES ASSUME state'[m] = "SENT"
               PROVE  \/ Given(m)' \/ Sought(m)' \/ Changing(m)'
                      \/ /\ handler'[m] # NoProc /\ Has(undelivered'[handler'[m]], m)
                         /\ active'[handler'[m]] \/ Emptied(handler[m])'
    BY DEF Placed
  <2>1. CASE Given(m)
    BY <1>1, <2>1 DEF Given
  <2>2. CASE Sought(m) \/ Changing(m)
    BY <1>1, <2>2 DEF Spared
  <2>3. CASE /\ handler[m] # NoProc /\ Has(undelivered[handler[m]], m)
             /\ active[handler[m]] \/ Emptied(handler[m])
    <3>0. PICK p \in Proc : p = handler[m]
      BY <1>2, <2>3
    <3>1. Has(undelivered[p], m) /\ (active[p] \/ Emptied(p)) /\ p = handler[m]
      BY <2>3, <3>0
    <3>2. undelivered[p] # << >>
      BY <3>1 DEF Has
    <3>3. Has(undelivered'[p], m) /\ handler'[m] = p /\ p # NoProc
      BY <1>1, <2>3, <3>1
    <3>4. active'[p] \/ Emptied(p)'
      BY <1>1, <3>1, <3>2 DEF Spared
    <3>5. Emptied(p)' <=> Emptied(handler[m])'
      BY <3>3 DEF Emptied
    <3> QED
      BY <3>3, <3>4, <3>5
  <2> QED
    BY <1>1, <2>1, <2>2, <2>3 DEF PlaceInv, Placed
<1> QED
  BY <1>3, <1>4, <1>5, <1>6, <1>7, <1>8 DEF PlaceInv

\* What a new frame may say of m.
Fit(f, m) ==
    /\ f.op = "match" /\ f.msg = m /\ f.best # NoProc =>
          \/ \E g \in ToSet(stack) : g.op = "match" /\ g.msg = m /\ g.best = f.best
          \/ state[m] = "SENT" /\ ~Has(undelivered[f.best], m)
    /\ Taking(f)' /\ f.msg = m =>
          \/ state[m] \in Final \/ Changing(m)'
          \/ ~f.wasRead /\ handler[m] # f.proc
    /\ f.op = "change" /\ f.msg = m => f.to # "REJECTED"

\* A step that replaces the top frame, or adds to it, spares m if the new frames fit
\* and what the old one was to do for m is done or taken over.
LEMMA FramesSpared ==
    ASSUME TypeOK, TypeOK', BaseInv, NEW m \in Msg, PlaceInv(m), NEW new,
           \A f \in new : Fit(f, m),
           \/ ToSet(stack') = new \cup ToSet(stack)
           \/ /\ stack # << >>
              /\ ToSet(stack') = new \cup ToSet(Tail(stack))
              /\ (/\ Head(stack).op \in {"deliver", "match"} /\ Head(stack).msg = m
                  /\ state[m] = "SENT") =>
                    \E f \in new : f.op \in {"deliver", "match", "change"} /\ f.msg = m
              /\ Head(stack).op = "change" => Head(stack).msg # m
              /\ Head(stack).op = "unread" => undelivered[Head(stack).proc] = << >>,
           state'[m] = state[m], handler'[m] = handler[m], reported'[m] = reported[m],
           \A p \in Proc :
              /\ m \in delivered[p] => m \in delivered'[p]
              /\ active'[p] => active[p]
              /\ active[p] => active'[p] \/ \E f \in new : f.op = "unread" /\ f.proc = p
              /\ Has(undelivered'[p], m) => Has(undelivered[p], m) \/ state[m] # "SENT"
              /\ Has(undelivered[p], m) => Has(undelivered'[p], m),
           \A f \in ToSet(stack') \cap ToSet(stack) : Taking(f)' /\ f.msg = m => Taking(f)
    PROVE  PlaceInv(m)'
<1> DEFINE S == ToSet(stack)
           low == IF stack = << >> THEN {} ELSE ToSet(Tail(stack))
           h == Head(stack)
<1>1. /\ stack # << >> => S = {h} \cup low
      /\ low \subseteq S /\ low \subseteq ToSet(stack') /\ new \subseteq ToSet(stack')
      /\ ToSet(stack') \subseteq new \cup S
      /\ S \subseteq ToSet(stack') \/ stack # << >>
  <2>1. stack \in Seq(Frame)
    BY DEF TypeOK
  <2> QED
    BY <2>1, Stacked
<1>2. \A f \in ToSet(stack') : f \in new \/ f \in S
  BY <1>1
<1>3. \A f \in ToSet(stack') : f.op = "match" /\ f.msg = m /\ f.best # NoProc =>
                \/ \E g \in ToSet(stack) : g.op = "match" /\ g.msg = m /\ g.best = f.best
                \/ state[m] = "SENT" /\ ~Has(undelivered[f.best], m)
  BY <1>2 DEF Fit
<1>4. \A f \in ToSet(stack') : Taking(f)' /\ f.msg = m =>
                \/ f \in ToSet(stack) /\ Taking(f)
                \/ state[m] \in Final \/ Changing(m)'
                \/ ~f.wasRead /\ handler[m] # f.proc
  BY <1>2 DEF Fit
<1>5. \A f \in ToSet(stack') : f.op = "change" /\ f.msg = m /\ f.to = "REJECTED" => f \in ToSet(stack)
  BY <1>2 DEF Fit
<1>6. \A p \in Proc : (\E f \in new : f.op = "unread" /\ f.proc = p) => Emptied(p)'
  BY <1>1 DEF Emptied
<1>7. CASE S \subseteq ToSet(stack')
  <2>1. Sought(m) => Sought(m)'
    BY <1>7 DEF Sought
  <2>2. Changing(m) => Changing(m)'
    BY <1>7 DEF Changing
  <2>3. \A p \in Proc : Emptied(p) => Emptied(p)'
    BY <1>7 DEF Emptied
  <2>4. Spared(m)
    BY <1>3, <1>4, <1>5, <1>6, <2>1, <2>2, <2>3 DEF Spared
  <2> QED
    BY <2>4, PlaceStays
<1>8. CASE ~(S \subseteq ToSet(stack'))
  <2>1. /\ stack # << >> /\ S = {h} \cup low
        /\ (h.op \in {"deliver", "match"} /\ h.msg = m /\ state[m] = "SENT") =>
              \E f \in new : f.op \in {"deliver", "match", "change"} /\ f.msg = m
        /\ h.op = "change" => h.msg # m
        /\ h.op = "unread" => undelivered[h.proc] = << >>
    BY <1>1, <1>8
  <2>2. state[m] = "SENT" /\ Sought(m) => Sought(m)' \/ Changing(m)'
    BY <1>1, <2>1 DEF Sought, Changing
  <2>3. Changing(m) => Changing(m)'
    BY <1>1, <2>1 DEF Changing
  <2>4. \A p \in Proc : Emptied(p) => Emptied(p)' \/ undelivered[p] = << >>
    BY <1>1, <2>1 DEF Emptied
  <2>5. Spared(m)
    BY <1>3, <1>4, <1>5, <1>6, <2>2, <2>3, <2>4 DEF Spared
  <2> QED
    BY <2>5, PlaceStays
<1> QED
  BY <1>7, <1>8

\* Frames that say nothing of a match, of a request taken or rejected, fit every request.
LEMMA Fits ==
    ASSUME NEW m \in Msg
    PROVE  /\ \A x \in Msg, b \in BOOLEAN : Fit(Deliver(x, b), m)
           /\ \A x \in Msg, s \in {"QUEUED"} \cup Final : Fit(Change(x, s), m)
           /\ \A x \in Msg : Fit(Report(x), m) /\ Fit(Requeue(x), m)
           /\ \A v \in BOOLEAN : Fit(Return(v), m)
           /\ \A p \in Proc : /\ Fit(Deactivate(p), m) /\ Fit(Unread(p), m)
                              /\ Fit(Unanswered(p), m) /\ Fit(Forget(p), m)
           /\ \A ms \in SUBSET Msg : Fit(Redeliver(ms), m)
<1>1. ASSUME NEW f, f.op \notin {"match", "orphaned", "change"} PROVE Fit(f, m)
  BY <1>1 DEF Fit, Taking
<1>2. ASSUME NEW f, f.op = "change", f.to # "REJECTED" PROVE Fit(f, m)
  BY <1>2 DEF Fit, Taking
<1>3. \A x \in Msg, b \in BOOLEAN : Deliver(x, b).op = "deliver"
  BY DEF Deliver
<1>4. \A x \in Msg, s \in {"QUEUED"} \cup Final : Change(x, s).op = "change" /\ Change(x, s).to # "REJECTED"
  BY DEF Change, Final
<1>5. \A x \in Msg : Report(x).op = "report" /\ Requeue(x).op = "requeue"
  BY DEF Report, Requeue
<1>6. \A v \in BOOLEAN : Return(v).op = "return"
  BY DEF Return
<1>7. \A p \in Proc : /\ Deactivate(p).op = "deactivate" /\ Unread(p).op = "unread"
                      /\ Unanswered(p).op = "unanswered" /\ Forget(p).op = "forget"
  BY DEF Deactivate, Unread, Unanswered, Forget
<1>8. \A ms \in SUBSET Msg : Redeliver(ms).op = "redeliver"
  BY DEF Redeliver
<1>9. \A x \in Msg, b \in BOOLEAN : Fit(Deliver(x, b), m)
  BY <1>1, <1>3
<1>10. \A x \in Msg, s \in {"QUEUED"} \cup Final : Fit(Change(x, s), m)
  BY <1>2, <1>4
<1>11. \A x \in Msg : Fit(Report(x), m) /\ Fit(Requeue(x), m)
  BY <1>1, <1>5
<1>12. \A v \in BOOLEAN : Fit(Return(v), m)
  BY <1>1, <1>6
<1>13. \A p \in Proc : /\ Fit(Deactivate(p), m) /\ Fit(Unread(p), m)
                       /\ Fit(Unanswered(p), m) /\ Fit(Forget(p), m)
  BY <1>1, <1>7
<1>14. \A ms \in SUBSET Msg : Fit(Redeliver(ms), m)
  BY <1>1, <1>8
<1> QED
  BY <1>9, <1>10, <1>11, <1>12, <1>13, <1>14

\* Nothing changes but the stack.
Resting == UNCHANGED <<state, handler, reported, undelivered, delivered, active>>

\* It spares m, if the new frames fit and what the old one was to do is done.
LEMMA RestingSpared ==
    ASSUME TypeOK, TypeOK', BaseInv, NEW m \in Msg, PlaceInv(m), Resting, NEW new,
           \A f \in new : Fit(f, m),
           \/ ToSet(stack') = new \cup ToSet(stack)
           \/ /\ stack # << >>
              /\ ToSet(stack') = new \cup ToSet(Tail(stack))
              /\ (/\ Head(stack).op \in {"deliver", "match"} /\ Head(stack).msg = m
                  /\ state[m] = "SENT") =>
                    \E f \in new : f.op \in {"deliver", "match", "change"} /\ f.msg = m
              /\ Head(stack).op = "change" => Head(stack).msg # m
              /\ Head(stack).op = "unread" => undelivered[Head(stack).proc] = << >>
    PROVE  PlaceInv(m)'
<1>1. /\ state'[m] = state[m] /\ handler'[m] = handler[m] /\ reported'[m] = reported[m]
      /\ undelivered' = undelivered /\ delivered' = delivered /\ active' = active
  BY DEF Resting
<1>2. \A f \in ToSet(stack') \cap ToSet(stack) : Taking(f)' /\ f.msg = m => Taking(f)
  BY <1>1 DEF Taking
<1> QED
  BY <1>1, <1>2, FramesSpared

\* A handler that is found does not have the request already.
LEMMA FoundNew ==
    ASSUME TypeOK, BaseInv, Running("match"), NEW m \in Msg, Head(stack).msg = m, PlaceInv(m),
           NEW b \in Proc, Eligible(m, b), active[b]
    PROVE  state[m] = "SENT" /\ ~Has(undelivered[b], m)
<1>1. Len(stack) \in Nat \ {0} /\ At(stack, Len(stack)) = Head(stack) /\ Head(stack).op = "match"
  BY TopAt
<1>2. state[m] = "SENT"
  BY DEF Eligible
<1>3. Len(stack) \in Levels /\ Walks(Len(stack), m)
  BY <1>1 DEF Levels, Walks
<1>4. handler[m] # NoProc => ~active[handler[m]]
  BY <1>1, <1>2, <1>3 DEF BaseInv, RequestInv, Transit, Dead, Final
<1>5. handler[m] # b
  BY <1>4, SessionAssumption
<1> QED
  BY <1>2, <1>5 DEF PlaceInv, OthersDead

\* The walk goes on; what it seeks is still sought.
LEMMA WalkPlace ==
    ASSUME TypeOK, TypeOK', BaseInv, NEW m \in Msg, PlaceInv(m),
           RunDeliver \/ MatchInactive \/ MatchHandler
    PROVE  PlaceInv(m)'
<1> DEFINE f == Head(stack)
           t == Tail(stack)
<1>1. /\ f \in Frame /\ f.op \in {"deliver", "match"} /\ stack # << >> /\ t \in Seq(Frame)
      /\ f \in ToSet(stack)
  <2>1. Running("deliver") \/ Running("match")
    BY DEF RunDeliver, MatchInactive, MatchHandler
  <2>2. stack # << >> /\ stack \in Seq(Frame)
    BY <2>1 DEF Running, TypeOK
  <2> QED
    BY <2>1, <2>2, TopAt, Stacked
<1>2. Resting
  BY DEF RunDeliver, MatchInactive, MatchHandler, Resting, procVars, msgVars
<1>3. ASSUME NEW x \in Frame, x.op = "match", x.msg = f.msg, stack' = <<x>> \o t,
             \/ x.best = NoProc
             \/ f.op = "match" /\ f.best = x.best
             \/ f.msg = m => (state[m] = "SENT" /\ ~Has(undelivered[x.best], m))
      PROVE  PlaceInv(m)'
  <2>1. ToSet(stack') = {x} \cup ToSet(t)
    BY <1>1, <1>3, StackedTwo
  <2>2. Fit(x, m)
    BY <1>1, <1>3 DEF Fit, Taking
  <2> DEFINE new == {x}
  <2>3. \A g \in new : Fit(g, m)
    BY <2>2
  <2>4. (f.op \in {"deliver", "match"} /\ f.msg = m /\ state[m] = "SENT") =>
              \E g \in new : g.op \in {"deliver", "match", "change"} /\ g.msg = m
    BY <1>3
  <2>5. ToSet(stack') = new \cup ToSet(t) /\ f.op # "change" /\ f.op # "unread"
    BY <1>1, <2>1
  <2> HIDE DEF new
  <2> QED
    BY <1>1, <1>2, <2>3, <2>4, <2>5, RestingSpared
<1>4. CASE RunDeliver
  <2> DEFINE x == [op |-> "match", msg |-> f.msg, observers |-> f.observers,
                   todo |-> registered, at |-> {}, best |-> NoProc]
  <2>1. f.op = "deliver"
    BY <1>4 DEF RunDeliver, Running
  <2>2. x \in Frame /\ x.best = NoProc /\ x.op = "match" /\ x.msg = f.msg
    BY <1>1, <2>1, FramesRead DEF Frame, TypeOK
  <2>3. stack' = <<x>> \o t
    BY <1>4 DEF RunDeliver
  <2> HIDE DEF x, f, t
  <2> QED
    BY <1>3, <2>2, <2>3
<1>5. CASE MatchInactive \/ MatchHandler
  <2>1. f.op = "match" /\ Running("match")
    BY <1>5 DEF MatchInactive, MatchHandler, Running
  <2>2. f.msg \in Msg /\ f.todo \in SUBSET Pattern /\ f.best \in Proc \cup {NoProc}
    BY <1>1, <2>1, FramesRead
  <2>3. \A pat \in Left(f) : pat \in Pattern /\ pat[1] \in Proc
    BY <2>2 DEF Left, Pattern
  <2>4. CASE MatchInactive
    <3> DEFINE x == [f EXCEPT !.todo = {}, !.at = {}]
    <3>1. x \in Frame
      BY <1>1, <2>1, <2>2, MatchFrame
    <3>2. x.msg = f.msg /\ x.best = f.best /\ x.op = "match"
      BY <1>1, <2>1 DEF Frame
    <3>3. stack' = <<x>> \o t
      BY <2>4 DEF MatchInactive
    <3> HIDE DEF x, f, t
    <3> QED
      BY <1>3, <2>1, <3>1, <3>2, <3>3
  <2>5. CASE MatchHandler
    <3>1. PICK pat \in Left(f) :
             /\ active[pat[1]]
             /\ \E b \in {f.best, pat[1]} :
                   /\ ~Eligible(f.msg, pat[1]) => b = f.best
                   /\ stack' = <<[Visit(f, pat) EXCEPT !.best = b]>> \o t
      BY <2>5 DEF MatchHandler
    <3>2. PICK b \in {f.best, pat[1]} :
             /\ ~Eligible(f.msg, pat[1]) => b = f.best
             /\ stack' = <<[Visit(f, pat) EXCEPT !.best = b]>> \o t
      BY <3>1
    <3>3. pat \in Pattern /\ pat[1] \in Proc
      BY <2>3
    <3> DEFINE x == [Visit(f, pat) EXCEPT !.best = b]
    <3>4. x \in Frame
      BY <1>1, <2>1, <2>2, <3>3, VisitFrame
    <3>5. x.msg = f.msg /\ x.best = b /\ x.op = "match"
      BY <1>1, <2>1 DEF Visit, Frame
    <3>6. stack' = <<x>> \o t
      BY <3>2
    <3>7. b # f.best => (f.msg = m => (state[m] = "SENT" /\ ~Has(undelivered[b], m)))
      BY <2>1, <3>1, <3>2, <3>3, FoundNew
    <3> HIDE DEF x, f, t
    <3> QED
      BY <1>3, <2>1, <3>4, <3>5, <3>6, <3>7
  <2> QED
    BY <1>5, <2>4, <2>5
<1> QED
  BY <1>4, <1>5

\* A frame returns that neither walks nor changes a state.
LEMMA PopPlace ==
    ASSUME TypeOK, TypeOK', BaseInv, NEW m \in Msg, PlaceInv(m), Resting,
           stack # << >>, stack' = Tail(stack),
           Head(stack).op \notin {"deliver", "match", "change"},
           Head(stack).op = "unread" => undelivered[Head(stack).proc] = << >>
    PROVE  PlaceInv(m)'
<1> DEFINE new == {}
<1>1. ToSet(stack') = new \cup ToSet(Tail(stack)) /\ \A f \in new : Fit(f, m)
  OBVIOUS
<1>2. /\ (/\ Head(stack).op \in {"deliver", "match"} /\ Head(stack).msg = m
          /\ state[m] = "SENT") =>
            \E f \in new : f.op \in {"deliver", "match", "change"} /\ f.msg = m
      /\ Head(stack).op # "change"
  OBVIOUS
<1> HIDE DEF new
<1> QED
  BY <1>1, <1>2, RestingSpared

\* A request under way that a walk finds no handler for is about to fail.
LEMMA NoHandlerPlace ==
    ASSUME TypeOK, TypeOK', BaseInv, NEW m \in Msg, PlaceInv(m), NoHandler
    PROVE  PlaceInv(m)'
<1> DEFINE f == Head(stack)
           t == Tail(stack)
           x == f.msg
           r == Return(FALSE)
           s == Return(TRUE)
           c == Change(x, Disposition(x))
<1>1. Running("match") /\ stack # << >>
  BY DEF NoHandler, MatchEnded, Running
<1>2. f \in Frame /\ f.op = "match" /\ t \in Seq(Frame)
  BY <1>1, TopAt
<1>3. x \in Msg /\ Disposition(x) \in {"QUEUED"} \cup Final
  BY <1>2, FramesRead DEF Disposition, Final
<1>4. Resting
  BY DEF NoHandler, Resting, procVars, msgVars
<1>5. stack' = IF state[x] = "SENT" THEN <<c, r>> \o t ELSE <<s>> \o t
  BY DEF NoHandler
<1>6. c \in Frame /\ r \in Frame /\ s \in Frame /\ c.op = "change" /\ c.msg = x
  BY <1>3, FramesMade DEF Change
<1>7. Fit(c, m) /\ Fit(r, m) /\ Fit(s, m)
  BY <1>3, Fits
<1> DEFINE new == IF state[x] = "SENT" THEN {c, r} ELSE {s}
<1> HIDE DEF f, t, x, r, s, c
<1>8. ToSet(stack') = new \cup ToSet(t)
  BY <1>2, <1>5, <1>6, StackedTwo
<1>9. \A g \in new : Fit(g, m)
  BY <1>7
<1>10. (x = m /\ state[m] = "SENT") => \E g \in new : g.op \in {"deliver", "match", "change"} /\ g.msg = m
  BY <1>6
<1>11. f.op # "change" /\ f.op # "unread"
  BY <1>2
<1> HIDE DEF new
<1> QED
  BY <1>1, <1>4, <1>8, <1>9, <1>10, <1>11, RestingSpared DEF f, t, x

\* A state is entered once only.
LEMMA NotRepeated ==
    ASSUME TypeOK, BaseInv, Queueable = {}, \A m \in Msg : PlaceInv(m), ChangeRepeated
    PROVE  FALSE
<1>1. Running("change") /\ stack # << >> /\ Head(stack).to \in reported[Head(stack).msg]
  BY DEF ChangeRepeated, Running
<1>2. Head(stack) \in Frame /\ Head(stack).op = "change" /\ Head(stack) \in ToSet(stack)
  BY <1>1, TopAt, Stacked DEF TypeOK
<1>3. PICK m \in Msg : m = Head(stack).msg
  BY <1>2, FramesRead
<1>4. Head(stack).to \in {"QUEUED", "REJECTED"} \cup Final
  BY <1>2, FramesRead
<1>5. state[m] = "SENT" /\ Head(stack).to # "QUEUED"
  BY <1>2, <1>3, OnStack
<1>6. reported[m] \cap Final = {}
  BY <1>5 DEF PlaceInv, Unended, Final
<1>7. "REJECTED" \notin State
  BY DEF State, Final
<1> QED
  BY <1>1, <1>3, <1>4, <1>5, <1>6, <1>7 DEF TypeOK

\* An unread message is failed: what the cursor takes ends, has ended, or is of another
\* handler.
LEMMA UnreadPlace ==
    ASSUME TypeOK, TypeOK', BaseInv, NEW m \in Msg, PlaceInv(m), RunUnread
    PROVE  PlaceInv(m)'
<1>1. /\ stack # << >> /\ Head(stack) \in Frame /\ Head(stack).op = "unread"
      /\ stack \in Seq(Frame)
  BY TopAt DEF RunUnread, Running, TypeOK
<1>2. PICK p \in Proc : p = Head(stack).proc
  BY <1>1, FramesRead
<1> DEFINE u == undelivered[p]
           e == Head(u)
<1>3. Resting
  BY DEF RunUnread, Resting, procVars, msgVars
<1>4. \/ u = << >> /\ stack' = Tail(stack)
      \/ u # << >> /\ stack' = FailUnread(p, e) \o <<Orphaned(p, e.msg, FALSE)>> \o stack
  BY <1>2 DEF RunUnread
<1>5. CASE u = << >> /\ stack' = Tail(stack)
  BY <1>1, <1>2, <1>3, <1>5, PopPlace
<1>6. CASE u # << >> /\ stack' = FailUnread(p, e) \o <<Orphaned(p, e.msg, FALSE)>> \o stack
  <2>1. u \in Seq(Entry) /\ e \in Entry /\ e = u[1] /\ 1 \in 1 .. Len(u)
    BY <1>6, HeadTailProperties, EmptySeq DEF TypeOK
  <2>2. e.msg \in Msg /\ (e.seen = "LIVE" => e = Live(e.msg))
    BY <2>1 DEF Entry, Live
  <2>3. PICK x \in Msg : x = e.msg
    BY <2>2
  <2> DEFINE o == Orphaned(p, x, FALSE)
             c == Change(x, "FAILED")
  <2>4. /\ o \in Frame /\ o.op = "orphaned" /\ o.proc = p /\ o.msg = x /\ o.wasRead = FALSE
        /\ c \in Frame /\ c.op = "change" /\ c.msg = x
    BY FramesMade DEF Orphaned, Change, Final
  <2>5. Fit(c, m)
    BY Fits DEF Final
  <2>6. e.seen = "LIVE" <=> Taking(o)'
    BY <1>3, <2>4 DEF Taking, Resting
  <2> HIDE DEF o, c, u, e
  <2>7. CASE e.seen = "LIVE" /\ Processing(p, x)
    <3>1. stack' = <<c, o>> \o stack
      <4>1. FailUnread(p, e) = <<c>>
        BY <2>3, <2>7 DEF FailUnread, c
      <4>2. stack' = <<c>> \o <<o>> \o stack
        BY <1>6, <2>3, <4>1 DEF o
      <4>3. <<c>> \o <<o>> = <<c, o>>
        BY <2>4, PushPush DEF TypeOK
      <4> QED
        BY <4>2, <4>3
    <3>2. ToSet(stack') = {c, o} \cup ToSet(stack)
      BY <1>1, <2>4, <3>1, StackedTwo
    <3>3. o.msg = m => Changing(m)'
      BY <2>4, <3>2 DEF Changing
    <3>4. Fit(o, m)
      BY <2>4, <3>3 DEF Fit
    <3> DEFINE new == {c, o}
    <3>5. ToSet(stack') = new \cup ToSet(stack) /\ \A g \in new : Fit(g, m)
      BY <2>5, <3>2, <3>4
    <3> HIDE DEF new
    <3> QED
      BY <1>3, <3>5, RestingSpared
  <2>8. CASE ~(e.seen = "LIVE" /\ Processing(p, x))
    <3>1. stack' = <<o>> \o stack
      <4>1. FailUnread(p, e) = << >>
        BY <2>3, <2>8 DEF FailUnread
      <4>2. << >> \o (<<o>> \o stack) = <<o>> \o stack
        BY <2>4, PushOne DEF TypeOK
      <4>3. stack' = << >> \o <<o>> \o stack
        BY <1>6, <2>3, <4>1 DEF o
      <4>4. << >> \o <<o>> = <<o>>
        OBVIOUS
      <4> QED
        BY <4>3, <4>4
    <3>2. ToSet(stack') = {o} \cup ToSet(stack)
      BY <1>1, <2>4, <3>1, StackedTwo
    <3>3. Taking(o)' => state[x] \in Final \/ handler[x] # p
      BY <2>6, <2>8 DEF Processing
    <3>4. Fit(o, m)
      BY <2>4, <3>3 DEF Fit
    <3> DEFINE new == {o}
    <3>5. ToSet(stack') = new \cup ToSet(stack) /\ \A g \in new : Fit(g, m)
      BY <3>2, <3>4
    <3> HIDE DEF new
    <3> QED
      BY <1>3, <3>5, RestingSpared
  <2> QED
    BY <2>7, <2>8
<1> QED
  BY <1>4, <1>5, <1>6

\* A request that was read fails, and ends before the cursor takes it.
LEMMA UnansweredPlace ==
    ASSUME TypeOK, TypeOK', BaseInv, NEW m \in Msg, PlaceInv(m), RunUnanswered
    PROVE  PlaceInv(m)'
<1>1. /\ stack # << >> /\ Head(stack) \in Frame /\ Head(stack).op = "unanswered"
      /\ stack \in Seq(Frame)
  BY TopAt DEF RunUnanswered, Running, TypeOK
<1>2. PICK p \in Proc : p = Head(stack).proc
  BY <1>1, FramesRead
<1>3. Resting
  BY DEF RunUnanswered, Resting, procVars, msgVars
<1>4. \/ stack' = Tail(stack)
      \/ \E x \in delivered[p] : stack' = FailUnanswered(p, x) \o stack
  BY <1>2 DEF RunUnanswered
<1>5. CASE stack' = Tail(stack)
  BY <1>1, <1>3, <1>5, PopPlace
<1>6. ASSUME NEW x \in delivered[p], stack' = FailUnanswered(p, x) \o stack
      PROVE  PlaceInv(m)'
  <2> DEFINE o == Orphaned(p, x, TRUE)
             c == Change(x, "FAILED")
  <2>1. x \in Msg
    BY DEF TypeOK
  <2>2. /\ o \in Frame /\ o.op = "orphaned" /\ o.msg = x
        /\ c \in Frame /\ c.op = "change" /\ c.msg = x /\ Fit(c, m)
    BY <2>1, FramesMade, Fits DEF Orphaned, Change, Final
  <2>3. stack' = <<c, o>> \o stack
    BY <1>6 DEF FailUnanswered
  <2> HIDE DEF o, c
  <2>4. ToSet(stack') = {c, o} \cup ToSet(stack)
    BY <1>1, <2>2, <2>3, StackedTwo
  <2>5. o.msg = m => Changing(m)'
    BY <2>2, <2>4 DEF Changing
  <2>6. Fit(o, m)
    BY <2>2, <2>5 DEF Fit
  <2> DEFINE new == {c, o}
  <2>7. ToSet(stack') = new \cup ToSet(stack) /\ \A g \in new : Fit(g, m)
    BY <2>2, <2>4, <2>6
  <2> HIDE DEF new
  <2> QED
    BY <1>3, <2>7, RestingSpared
<1> QED
  BY <1>4, <1>5, <1>6

\* What stands under the cursors stays there while something is added to a list.
LEMMA CursorsStay ==
    ASSUME TypeOK, ListsStay, stack # << >>, Head(stack).op # "orphaned",
           NEW f \in ToSet(stack), Taking(f)'
    PROVE  Taking(f)
<1>1. f.op = "orphaned"
  BY DEF Taking
<1>2. CASE f.wasRead
  BY <1>1, <1>2 DEF Taking
<1>3. CASE ~f.wasRead
  <2>1. PICK d \in Levels : At(stack, d) = f
    BY FrameLevel
  <2>2. At(stack, Len(stack)) = Head(stack)
    BY TopFrame DEF TypeOK
  <2>3. d # Len(stack)
    BY <1>1, <2>1, <2>2
  <2>4. Head(undelivered'[f.proc]) = Head(undelivered[f.proc])
    BY <1>1, <1>3, <2>1, <2>3 DEF ListsStay
  <2>5. Head(undelivered'[f.proc]).seen = "LIVE"
    BY <1>3 DEF Taking
  <2> QED
    BY <1>1, <2>4, <2>5 DEF Taking
<1> QED
  BY <1>2, <1>3

\* A message is added to the list of p: nothing changes for m, unless it is m itself.
LEMMA AddedPlace ==
    ASSUME TypeOK, TypeOK', BaseInv, NEW m \in Msg, PlaceInv(m),
           NEW p \in Proc, NEW e \in Entry, NEW ok, NEW bad, AddMessage(p, e, ok, bad),
           heap' = "intact", e = Live(m) => state[m] \in Final,
           state'[m] = state[m], handler'[m] = handler[m], reported'[m] = reported[m],
           delivered' = delivered, active' = active,
           stack # << >>, Head(stack).op \in {"match", "report"},
           NEW new, \A f \in new : Fit(f, m), ToSet(stack') = new \cup ToSet(Tail(stack)),
           (Head(stack).op = "match" /\ Head(stack).msg = m /\ state[m] = "SENT") =>
              \E f \in new : f.op \in {"deliver", "match", "change"} /\ f.msg = m
    PROVE  PlaceInv(m)'
<1>1. /\ ListsStay
      /\ \A q \in Proc : Has(undelivered'[q], m) <=>
            Has(undelivered[q], m) \/ (q = p /\ e = Live(m) /\ ~Gone(p))
  BY AddMessageLists DEF BaseInv
<1>2. \A f \in ToSet(stack') \cap ToSet(stack) : Taking(f)' /\ f.msg = m => Taking(f)
  BY <1>1, CursorsStay
<1>3. \A q \in Proc :
         /\ m \in delivered[q] => m \in delivered'[q]
         /\ active'[q] => active[q]
         /\ active[q] => active'[q] \/ \E f \in new : f.op = "unread" /\ f.proc = q
         /\ Has(undelivered'[q], m) => Has(undelivered[q], m) \/ state[m] # "SENT"
         /\ Has(undelivered[q], m) => Has(undelivered'[q], m)
  BY <1>1 DEF Final
<1>4. (Head(stack).op \in {"deliver", "match"} /\ Head(stack).msg = m /\ state[m] = "SENT") =>
         \E f \in new : f.op \in {"deliver", "match", "change"} /\ f.msg = m
  OBVIOUS
<1>5. Head(stack).op # "change" /\ Head(stack).op # "unread"
  OBVIOUS
<1> QED
  BY <1>2, <1>3, <1>4, <1>5, FramesSpared

\* A frame takes the place of the one that runs, and the signal to p may have failed.
LEMMA InsteadSet ==
    ASSUME TypeOK, stack # << >>, NEW x \in Frame, NEW p \in Proc,
           \/ stack' = <<x>> \o Tail(stack)
           \/ stack' = <<Deactivate(p)>> \o (<<x>> \o Tail(stack))
    PROVE  \E new : /\ ToSet(stack') = new \cup ToSet(Tail(stack))
                    /\ x \in new /\ new \subseteq {x, Deactivate(p)}
<1>1. Tail(stack) \in Seq(Frame) /\ Deactivate(p) \in Frame
  BY Stacked, FramesMade DEF TypeOK
<1>2. CASE stack' = <<x>> \o Tail(stack)
  <2>1. ToSet(stack') = {x} \cup ToSet(Tail(stack))
    BY <1>1, <1>2, StackedTwo
  <2> QED
    BY <2>1
<1>3. CASE stack' = <<Deactivate(p)>> \o (<<x>> \o Tail(stack))
  <2>1. ToSet(stack') = {Deactivate(p), x} \cup ToSet(Tail(stack))
    BY <1>1, <1>3, StackedTwo
  <2> QED
    BY <2>1
<1> QED
  BY <1>2, <1>3

\* An observer is shown a copy.
LEMMA ObserverPlace ==
    ASSUME TypeOK, TypeOK', BaseInv, NEW m \in Msg, PlaceInv(m), MatchObserver, heap' = "intact"
    PROVE  PlaceInv(m)'
<1> DEFINE f == Head(stack)
           t == Tail(stack)
<1>1. /\ f \in Frame /\ f.op = "match" /\ stack # << >> /\ t \in Seq(Frame) /\ f \in ToSet(stack)
  <2>1. Running("match")
    BY DEF MatchObserver
  <2>2. stack # << >> /\ stack \in Seq(Frame)
    BY <2>1 DEF Running, TypeOK
  <2> QED
    BY <2>1, <2>2, TopAt, Stacked
<1>2. f.msg \in Msg /\ f.todo \in SUBSET Pattern /\ f.best \in Proc \cup {NoProc}
  BY <1>1, FramesRead
<1>3. \A pat \in Left(f) : pat \in Pattern /\ pat[1] \in Proc
  BY <1>2 DEF Left, Pattern
<1>4. PICK pat \in Left(f) :
         IF f.observers
         THEN AddMessage(pat[1], [msg |-> f.msg, seen |-> state[f.msg]],
                         <<Visit(f, pat)>> \o t, <<Visit(f, pat)>> \o t)
         ELSE stack' = <<Visit(f, pat)>> \o t /\ UNCHANGED <<undelivered, signalled, heap>>
  BY DEF MatchObserver
<1>5. pat \in Pattern /\ pat[1] \in Proc
  BY <1>3
<1>6. PICK p \in Proc : p = pat[1]
  BY <1>5
<1>7. PICK x \in Frame : /\ x = Visit(f, pat) /\ x.op = "match"
                         /\ x.msg = f.msg /\ x.best = f.best
  <2> DEFINE y == Visit(f, pat)
  <2>1. y \in Frame
    BY <1>1, <1>2, <1>5, VisitFrame
  <2>2. y.op = "match" /\ y.msg = f.msg /\ y.best = f.best
    BY <1>1 DEF Visit, Frame
  <2> QED
    BY <2>1, <2>2
<1>8. UNCHANGED <<state, handler, reported, delivered, active>>
  BY DEF MatchObserver, msgVars
<1> HIDE DEF f, t
<1>9. Fit(x, m) /\ Fit(Deactivate(p), m)
  <2>1. ASSUME x.msg = m
        PROVE  \E g \in ToSet(stack) : g.op = "match" /\ g.msg = m /\ g.best = x.best
    BY <1>1, <1>7, <2>1
  <2>2. ~Taking(x)' /\ x.op # "change"
    BY <1>7 DEF Taking
  <2>3. Fit(x, m)
    BY <2>1, <2>2 DEF Fit
  <2> QED
    BY <2>3, Fits
<1>10. CASE f.observers
  <2> DEFINE e == [msg |-> f.msg, seen |-> state[f.msg]]
  <2>1. AddMessage(p, e, <<x>> \o t, <<x>> \o t)
    BY <1>4, <1>6, <1>7, <1>10
  <2>2. state[f.msg] \in State
    BY <1>2 DEF TypeOK
  <2>3. e \in Entry /\ e # Live(m)
    BY <1>2, <2>2, Copied
  <2> HIDE DEF e
  <2>4. stack' = <<x>> \o t \/ stack' = <<Deactivate(p)>> \o (<<x>> \o t)
    BY <2>1, AddedStack
  <2>5. PICK new : /\ ToSet(stack') = new \cup ToSet(t)
                   /\ x \in new /\ new \subseteq {x, Deactivate(p)}
    BY <1>1, <1>7, <2>4, InsteadSet DEF t
  <2>6. \A g \in new : Fit(g, m)
    BY <1>9, <2>5
  <2>7. state'[m] = state[m] /\ handler'[m] = handler[m] /\ reported'[m] = reported[m]
        /\ delivered' = delivered /\ active' = active
    BY <1>8
  <2>8. (Head(stack).op = "match" /\ Head(stack).msg = m /\ state[m] = "SENT") =>
           \E g \in new : g.op \in {"deliver", "match", "change"} /\ g.msg = m
    BY <1>7, <2>5 DEF f
  <2>9. Head(stack).op \in {"match", "report"} /\ ToSet(stack') = new \cup ToSet(Tail(stack))
    BY <1>1, <2>5 DEF f, t
  <2> QED
    BY <1>1, <2>1, <2>3, <2>6, <2>7, <2>8, <2>9, AddedPlace
<1>11. CASE ~f.observers
  <2>1. stack' = <<x>> \o t /\ Resting
    BY <1>4, <1>7, <1>8, <1>11 DEF Resting
  <2> DEFINE new == {x}
  <2>2. ToSet(stack') = new \cup ToSet(t)
    BY <1>1, <1>7, <2>1, StackedTwo
  <2>3. \A g \in new : Fit(g, m)
    BY <1>9
  <2>4. (f.op \in {"deliver", "match"} /\ f.msg = m /\ state[m] = "SENT") =>
              \E g \in new : g.op \in {"deliver", "match", "change"} /\ g.msg = m
    BY <1>7
  <2>5. f.op # "change" /\ f.op # "unread"
    BY <1>1
  <2> HIDE DEF new
  <2> QED
    BY <1>1, <2>1, <2>2, <2>3, <2>4, <2>5, RestingSpared DEF f, t
<1> QED
  BY <1>10, <1>11

\* The sender is shown an end.
LEMMA ReportPlace ==
    ASSUME TypeOK, TypeOK', BaseInv, Queueable = {}, NEW m \in Msg, PlaceInv(m),
           RunReport, heap' = "intact"
    PROVE  PlaceInv(m)'
<1>1. UNCHANGED <<active, delivered, state, handler, reported>>
  BY DEF RunReport, msgVars
<1>2. PICK x, p, t : x = Head(stack).msg /\ p = Sender[x] /\ t = Tail(stack)
  OBVIOUS
<1>3. /\ x \in Msg /\ p \in Proc /\ t \in Seq(Frame)
      /\ Len(stack) \in Levels /\ Reports(Len(stack), x)
      /\ stack # << >> /\ Head(stack).op = "report"
  <2>1. /\ Len(stack) \in Nat \ {0} /\ At(stack, Len(stack)) = Head(stack)
        /\ Head(stack).op = "report" /\ Head(stack) \in Frame /\ Tail(stack) \in Seq(Frame)
    BY TopAt DEF RunReport
  <2>2. x \in Msg /\ stack # << >>
    BY <1>2, <2>1, FramesRead DEF RunReport, Running
  <2> QED
    BY <1>2, <2>1, <2>2, SessionAssumption DEF Levels, Reports
<1>4. state[x] \in Final
  <2>1. ReportOk(x) /\ QueuedOk(x)
    BY <1>3 DEF BaseInv, RequestInv
  <2> QED
    BY <1>3, <2>1 DEF ReportOk, QueuedOk
<1>5. Live(x) \in Entry /\ (Live(x) = Live(m) => state[m] \in Final)
  BY <1>3, <1>4 DEF Entry, Live
<1>6. AddMessage(p, Live(x), t, t)
  BY <1>2 DEF RunReport
<1>7. stack' = t \/ stack' = <<Deactivate(p)>> \o t
  BY <1>6, AddedStack
<1>8. PICK new : ToSet(stack') = new \cup ToSet(t) /\ new \subseteq {Deactivate(p)}
  <2>1. CASE stack' = t
    BY <2>1
  <2>2. CASE stack' = <<Deactivate(p)>> \o t
    <3>1. Deactivate(p) \in Frame
      BY <1>3, FramesMade
    <3>2. ToSet(stack') = {Deactivate(p)} \cup ToSet(t)
      BY <1>3, <2>2, <3>1, StackedTwo
    <3> QED
      BY <3>2
  <2> QED
    BY <1>7, <2>1, <2>2
<1>9. \A g \in new : Fit(g, m)
  BY <1>3, <1>8, Fits
<1>10. state'[m] = state[m] /\ handler'[m] = handler[m] /\ reported'[m] = reported[m]
       /\ delivered' = delivered /\ active' = active
  BY <1>1
<1> QED
  BY <1>2, <1>3, <1>5, <1>6, <1>8, <1>9, <1>10, AddedPlace

\* The frames with which the server goes on when it has given x to b, or could not.
GaveFrames(x, b) ==
    \E g, new : /\ ToSet(stack') = new \cup ToSet(Tail(stack))
                /\ g \in {Return(TRUE), Deliver(x, FALSE)}
                /\ g \in new /\ new \subseteq {g, Deactivate(b)}
                /\ stack' # <<Return(TRUE)>> \o Tail(stack) => g = Deliver(x, FALSE)

\* The top frame is the one pushed last.
LEMMA HeadPushed == ASSUME NEW s \in Seq(Frame), NEW f \in Frame PROVE Head(<<f>> \o s) = f
<1> DEFINE t == <<f>> \o s
<1>1. t \in Seq(Frame) /\ Len(s) \in Nat /\ Len(t) = Len(s) + 1 /\ At(t, Len(s) + 1) = f
  BY PushOne, LenProperties
<1> HIDE DEF t
<1>2. t # << >>
  BY <1>1
<1>3. At(t, Len(t)) = Head(t)
  BY <1>1, <1>2, TopFrame
<1> QED
  BY <1>1, <1>3 DEF t

\* What it means for the stack that a request was given to b.
LEMMA GaveStack ==
    ASSUME TypeOK, GiveToHandler, NEW x, x = Head(stack).msg, NEW b, b = Head(stack).best
    PROVE  /\ x \in Msg /\ b \in Proc
           /\ stack # << >> /\ Head(stack) \in ToSet(stack) /\ Head(stack).op = "match"
           /\ AddMessage(b, Live(x), <<Return(TRUE)>> \o Tail(stack), <<Deliver(x, FALSE)>> \o Tail(stack))
           /\ state' = [state EXCEPT ![x] = "SENT"] /\ handler' = [handler EXCEPT ![x] = b]
           /\ UNCHANGED <<active, delivered, reported>>
           /\ GaveFrames(x, b)
<1> DEFINE t == Tail(stack)
           r == Return(TRUE)
           d == Deliver(x, FALSE)
<1>1. Running("match") /\ stack # << >>
  BY DEF GiveToHandler, MatchEnded, Running
<1>2. Head(stack) \in Frame /\ Head(stack).op = "match" /\ Head(stack) \in ToSet(stack)
  BY <1>1, TopAt, Stacked DEF TypeOK
<1>3. x \in Msg /\ b \in Proc
  BY <1>2, FramesRead DEF GiveToHandler
<1>4. /\ AddMessage(b, Live(x), <<r>> \o t, <<d>> \o t)
      /\ state' = [state EXCEPT ![x] = "SENT"] /\ handler' = [handler EXCEPT ![x] = b]
      /\ UNCHANGED <<active, delivered, reported>>
  BY DEF GiveToHandler
<1>5. r \in Frame /\ d \in Frame
  BY <1>3, FramesMade
<1> HIDE DEF r, d, t
<1>6. \/ stack' = <<r>> \o t
      \/ stack' = <<d>> \o t
      \/ stack' = <<Deactivate(b)>> \o (<<d>> \o t)
  BY <1>4, AddedStack
<1>7. ASSUME NEW g \in Frame, g \in {r, d},
             stack' = <<g>> \o t \/ stack' = <<Deactivate(b)>> \o (<<g>> \o t)
      PROVE  \E new : /\ ToSet(stack') = new \cup ToSet(t)
                      /\ g \in new /\ new \subseteq {g, Deactivate(b)}
  BY <1>1, <1>3, <1>7, InsteadSet DEF t
<1>8. \E g, new : /\ ToSet(stack') = new \cup ToSet(t)
                  /\ g \in {r, d}
                  /\ g \in new /\ new \subseteq {g, Deactivate(b)}
                  /\ stack' # <<r>> \o t => g = d
  <2>1. CASE stack' = <<r>> \o t
    BY <1>5, <1>7, <2>1
  <2>2. CASE stack' # <<r>> \o t
    BY <1>5, <1>6, <1>7, <2>2
  <2> QED
    BY <2>1, <2>2
<1> QED
  BY <1>1, <1>2, <1>3, <1>4, <1>8 DEF r, d, t, GaveFrames

\* The other requests do not notice that one is given to a handler.
LEMMA GivePlaceOthers ==
    ASSUME TypeOK, TypeOK', BaseInv, NEW m \in Msg, PlaceInv(m), GiveToHandler, heap' = "intact",
           NEW x, x = Head(stack).msg, m # x
    PROVE  PlaceInv(m)'
<1>1. PICK b : b = Head(stack).best
  OBVIOUS
<1>2. /\ x \in Msg /\ b \in Proc
      /\ stack # << >> /\ Head(stack).op = "match"
      /\ AddMessage(b, Live(x), <<Return(TRUE)>> \o Tail(stack), <<Deliver(x, FALSE)>> \o Tail(stack))
      /\ state' = [state EXCEPT ![x] = "SENT"] /\ handler' = [handler EXCEPT ![x] = b]
      /\ UNCHANGED <<active, delivered, reported>> /\ GaveFrames(x, b)
  BY <1>1, GaveStack
<1>3. PICK g, new : /\ ToSet(stack') = new \cup ToSet(Tail(stack))
                    /\ g \in {Return(TRUE), Deliver(x, FALSE)}
                    /\ new \subseteq {g, Deactivate(b)}
  BY <1>2 DEF GaveFrames
<1>4. Live(x) \in Entry /\ Live(x) # Live(m)
  BY <1>2 DEF Entry, Live
<1>5. \A f \in new : Fit(f, m)
  BY <1>2, <1>3, Fits
<1>6. state'[m] = state[m] /\ handler'[m] = handler[m] /\ reported'[m] = reported[m]
      /\ delivered' = delivered /\ active' = active
  BY <1>2 DEF TypeOK
<1>7. ~(Head(stack).op = "match" /\ Head(stack).msg = m /\ state[m] = "SENT")
  OBVIOUS
<1>8. Head(stack).op \in {"match", "report"}
  BY <1>2
<1> QED
  BY <1>2, <1>3, <1>4, <1>5, <1>6, <1>7, <1>8, AddedPlace

\* The request itself is then in the list of its handler, or matched again.
LEMMA GivePlaceSame ==
    ASSUME TypeOK, TypeOK', BaseInv, Wired, GiveToHandler, heap' = "intact",
           NEW m, m = Head(stack).msg, PlaceInv(m)
    PROVE  PlaceInv(m)'
<1>1. PICK b : b = Head(stack).best
  OBVIOUS
<1>2. /\ m \in Msg /\ b \in Proc
      /\ stack # << >> /\ Head(stack) \in ToSet(stack) /\ Head(stack).op = "match"
      /\ AddMessage(b, Live(m), <<Return(TRUE)>> \o Tail(stack), <<Deliver(m, FALSE)>> \o Tail(stack))
      /\ state' = [state EXCEPT ![m] = "SENT"] /\ handler' = [handler EXCEPT ![m] = b]
      /\ UNCHANGED <<active, delivered, reported>> /\ GaveFrames(m, b)
  BY <1>1, GaveStack
<1>3. PICK g, new : /\ ToSet(stack') = new \cup ToSet(Tail(stack))
                    /\ g \in {Return(TRUE), Deliver(m, FALSE)}
                    /\ g \in new /\ new \subseteq {g, Deactivate(b)}
                    /\ stack' # <<Return(TRUE)>> \o Tail(stack) => g = Deliver(m, FALSE)
  BY <1>2 DEF GaveFrames
<1>4. \A f \in new : f.op \notin {"match", "change", "orphaned"}
  BY <1>3 DEF Return, Deliver, Deactivate
<1>5. ToSet(Tail(stack)) \subseteq ToSet(stack)
  BY <1>2, Stacked DEF TypeOK
<1>6. state[m] = "SENT" /\ b # NoProc /\ state[m] \notin Final
  BY <1>1, <1>2, OnStack, SessionAssumption DEF Final
<1>7. state'[m] = "SENT" /\ handler'[m] = b
  BY <1>2 DEF TypeOK
<1>8. ~Has(undelivered[b], m)
  BY <1>1, <1>2, <1>6 DEF PlaceInv, BestNew
<1>9. handler[m] # NoProc => ~active[handler[m]]
  <2>1. Len(stack) \in Nat \ {0} /\ At(stack, Len(stack)) = Head(stack)
    BY <1>2, TopFrame DEF TypeOK
  <2>2. Len(stack) \in Levels /\ Walks(Len(stack), m) /\ At(stack, Len(stack)).op = "match"
    BY <1>2, <2>1 DEF Levels, Walks
  <2> QED
    BY <1>2, <1>6, <2>2 DEF BaseInv, RequestInv, Transit, Dead
<1>10. Live(m) \in Entry
  BY <1>2 DEF Entry, Live
<1>11. ListsStay /\ \A q \in Proc : Has(undelivered'[q], m) <=>
                        Has(undelivered[q], m) \/ (q = b /\ ~Gone(b))
  <2>1. PICK e, ok, bad : e = Live(m) /\ AddMessage(b, e, ok, bad)
    BY <1>2
  <2>2. /\ ListsStay
        /\ \A q \in Proc : Has(undelivered'[q], m) <=>
              Has(undelivered[q], m) \/ (q = b /\ e = Live(m) /\ ~Gone(b))
    BY <1>2, <1>10, <2>1, AddMessageLists DEF BaseInv
  <2> QED
    BY <2>1, <2>2
<1>12. Unended(m)'
  BY <1>2, <1>6 DEF PlaceInv, Unended
<1>13. OthersDead(m)'
  BY <1>2, <1>6, <1>7, <1>9, <1>11, SessionAssumption DEF PlaceInv, OthersDead
<1>14. BestNew(m)'
  <2>1. ASSUME NEW f \in ToSet(stack'), f.op = "match", f.msg = m PROVE FALSE
    <3>1. f \in ToSet(Tail(stack))
      BY <1>3, <1>4, <2>1
    <3>2. PICK h : h = Head(stack)
      OBVIOUS
    <3>3. h.op = "match" /\ h.msg = m
      BY <1>2, <3>2
    <3>4. state[f.msg] \in Final
      BY <1>2, <2>1, <3>1, <3>2, <3>3, Below
    <3> QED
      BY <1>6, <2>1, <3>4
  <2> QED
    BY <2>1 DEF BestNew
<1>15. TakenEnded(m)'
  <2> SUFFICES ASSUME NEW f \in ToSet(stack'), Taking(f)', f.msg = m
               PROVE  ~f.wasRead /\ b # f.proc
    BY <1>7 DEF TakenEnded
  <2>1. f \in ToSet(stack) /\ f.op = "orphaned"
    BY <1>3, <1>4, <1>5 DEF Taking
  <2>2. Taking(f)
    BY <1>2, <1>11, <2>1, CursorsStay
  <2>3. ~Changing(m)
    BY <1>2, OnStack DEF Changing
  <2>4. ~f.wasRead
    BY <1>6, <2>1, <2>2, <2>3 DEF PlaceInv, TakenEnded
  <2>5. /\ undelivered[f.proc] # << >> /\ Head(undelivered[f.proc]).msg = m
        /\ Head(undelivered[f.proc]).seen = "LIVE" /\ f \in Frame
    BY <2>1, <2>2, <2>4, OnStack DEF Taking
  <2>6. f.proc \in Proc
    BY <2>1, <2>5, FramesRead
  <2>7. Has(undelivered[f.proc], m)
    <3>1. undelivered[f.proc] \in Seq(Entry)
      BY <2>6 DEF TypeOK
    <3>2. /\ 1 \in 1 .. Len(undelivered[f.proc])
          /\ Head(undelivered[f.proc]) = undelivered[f.proc][1] /\ undelivered[f.proc][1] \in Entry
      BY <2>5, <3>1, HeadTailProperties, EmptySeq
    <3>3. undelivered[f.proc][1] = Live(m)
      BY <2>5, <3>2 DEF Entry, Live
    <3> QED
      BY <3>2, <3>3 DEF Has
  <2> QED
    BY <1>8, <2>4, <2>7
<1>16. RejectRead(m)'
  <2>1. ASSUME NEW f \in ToSet(stack'), f.op = "change" PROVE FALSE
    <3>1. f \in ToSet(Tail(stack))
      BY <1>3, <1>4, <2>1
    <3> QED
      BY <1>2, <2>1, <3>1, Below
  <2> QED
    BY <2>1 DEF RejectRead
<1>17. Placed(m)'
  <2>1. CASE g = Deliver(m, FALSE)
    <3>1. g \in ToSet(stack') /\ g.op = "deliver" /\ g.msg = m
      BY <1>3, <2>1 DEF Deliver
    <3>2. Sought(m)'
      BY <3>1 DEF Sought
    <3> QED
      BY <3>2 DEF Placed
  <2>2. CASE g # Deliver(m, FALSE)
    <3>1. stack' = <<Return(TRUE)>> \o Tail(stack)
      BY <1>3, <2>2
    <3>2. /\ Return(TRUE) # Deliver(m, FALSE) /\ Return(TRUE) # Deactivate(b)
          /\ Return(TRUE) \in Frame /\ Deliver(m, FALSE) \in Frame /\ Deactivate(b) \in Frame
          /\ Tail(stack) \in Seq(Frame) /\ <<Deliver(m, FALSE)>> \o Tail(stack) \in Seq(Frame)
      <4>1. Return(TRUE) # Deliver(m, FALSE) /\ Return(TRUE) # Deactivate(b)
        BY DEF Return, Deliver, Deactivate
      <4>2. Return(TRUE) \in Frame /\ Deliver(m, FALSE) \in Frame /\ Deactivate(b) \in Frame
        BY <1>2, FramesMade
      <4>3. Tail(stack) \in Seq(Frame)
        BY <1>2, Stacked DEF TypeOK
      <4> QED
        BY <4>1, <4>2, <4>3, PushOne
    <3>3. active[b] /\ ~Gone(b)
      <4>1. CASE Gone(b) /\ stack' = <<Deliver(m, FALSE)>> \o Tail(stack)
        <5>1. Head(stack') = Return(TRUE) /\ Head(stack') = Deliver(m, FALSE)
          BY <3>1, <3>2, <4>1, HeadPushed
        <5> QED
          BY <3>2, <5>1
      <4>2. CASE MoveToEnd(b, Live(m), <<Return(TRUE)>> \o Tail(stack))
        <5>1. undelivered[b] \in Seq(Entry)
          BY <1>2 DEF TypeOK
        <5> QED
          BY <1>8, <4>2, <5>1 DEF MoveToEnd, Has
      <4>3. CASE AppendAndSignal(b, Live(m), <<Return(TRUE)>> \o Tail(stack), <<Deliver(m, FALSE)>> \o Tail(stack))
        <5>1. ~Gone(b) /\ Signal(b, <<Return(TRUE)>> \o Tail(stack), <<Deliver(m, FALSE)>> \o Tail(stack))
          BY <4>3 DEF AppendAndSignal
        <5>2. CASE channel[b]
          BY <1>2, <5>1, <5>2 DEF Wired
        <5>3. CASE stack' = <<Deactivate(b)>> \o (<<Deliver(m, FALSE)>> \o Tail(stack))
          <6>1. Head(stack') = Return(TRUE) /\ Head(stack') = Deactivate(b)
            BY <3>1, <3>2, <5>3, HeadPushed
          <6> QED
            BY <3>2, <6>1
        <5> QED
          BY <5>1, <5>2, <5>3 DEF Signal
      <4> QED
        BY <1>2, <4>1, <4>2, <4>3 DEF AddMessage
    <3>4. active'[b] /\ Has(undelivered'[b], m)
      BY <1>2, <1>11, <3>3
    <3> QED
      BY <1>6, <1>7, <3>4 DEF Placed
  <2> QED
    BY <2>1, <2>2
<1> QED
  BY <1>12, <1>13, <1>14, <1>15, <1>16, <1>17 DEF PlaceInv

\* Nothing of m changes, nor of the lists and the procids.
Idling(m) == /\ state'[m] = state[m] /\ handler'[m] = handler[m] /\ reported'[m] = reported[m]
             /\ UNCHANGED <<undelivered, delivered, active>>

\* This too spares m, if the new frames fit.
LEMMA IdlingSpared ==
    ASSUME TypeOK, TypeOK', BaseInv, NEW m \in Msg, PlaceInv(m), Idling(m), NEW new,
           \A f \in new : Fit(f, m),
           \/ ToSet(stack') = new \cup ToSet(stack)
           \/ /\ stack # << >>
              /\ ToSet(stack') = new \cup ToSet(Tail(stack))
              /\ Head(stack).op \notin {"deliver", "match", "unread"}
              /\ Head(stack).op = "change" => Head(stack).msg # m
    PROVE  PlaceInv(m)'
<1>1. /\ state'[m] = state[m] /\ handler'[m] = handler[m] /\ reported'[m] = reported[m]
      /\ undelivered' = undelivered /\ delivered' = delivered /\ active' = active
  BY DEF Idling
<1>2. \A f \in ToSet(stack') \cap ToSet(stack) : Taking(f)' /\ f.msg = m => Taking(f)
  BY <1>1 DEF Taking
<1>3. \A p \in Proc :
         /\ m \in delivered[p] => m \in delivered'[p]
         /\ active'[p] => active[p]
         /\ active[p] => active'[p] \/ \E f \in new : f.op = "unread" /\ f.proc = p
         /\ Has(undelivered'[p], m) => Has(undelivered[p], m) \/ state[m] # "SENT"
         /\ Has(undelivered[p], m) => Has(undelivered'[p], m)
  BY <1>1
<1>4. CASE ToSet(stack') = new \cup ToSet(stack)
  BY <1>1, <1>2, <1>3, <1>4, FramesSpared
<1>5. CASE /\ stack # << >>
           /\ ToSet(stack') = new \cup ToSet(Tail(stack))
           /\ Head(stack).op \notin {"deliver", "match", "unread"}
           /\ Head(stack).op = "change" => Head(stack).msg # m
  <2>1. /\ ~(Head(stack).op \in {"deliver", "match"} /\ Head(stack).msg = m /\ state[m] = "SENT")
        /\ Head(stack).op # "unread"
    BY <1>5
  <2> QED
    BY <1>1, <1>2, <1>3, <1>5, <2>1, FramesSpared
<1> QED
  BY <1>4, <1>5

\* Nothing is asked of a request that has ended.
EndsPlaced == \A m \in Msg : state[m] \in Final => PlaceInv(m)

\* Nothing speaks of the best handler of an ended request, or rejects it.
LEMMA EndedPlaced == TypeOK /\ BaseInv => EndsPlaced
<1> SUFFICES ASSUME TypeOK, BaseInv, NEW m \in Msg, state[m] \in Final PROVE PlaceInv(m)
  BY DEF EndsPlaced
<1>1. state[m] # "SENT"
  BY DEF Final
<1>2. BestNew(m) /\ RejectRead(m)
  BY <1>1, OnStack DEF BestNew, RejectRead
<1> QED
  BY <1>1, <1>2 DEF PlaceInv, Unended, OthersDead, TakenEnded, Placed

\* The next frame but for the one that runs, which changes the state of x.
LEMMA ChangeTop ==
    ASSUME TypeOK, BaseInv, Running("change")
    PROVE  /\ stack # << >> /\ Tail(stack) \in Seq(Frame)
           /\ Head(stack) \in Frame /\ Head(stack).op = "change"
           /\ Head(stack) \in ToSet(stack) /\ Head(stack).msg \in Msg
           /\ state[Head(stack).msg] = "SENT"
<1>1. stack # << >> /\ stack \in Seq(Frame)
  BY DEF Running, TypeOK
<1>2. /\ Tail(stack) \in Seq(Frame) /\ Head(stack) \in Frame /\ Head(stack).op = "change"
      /\ Head(stack) \in ToSet(stack)
  BY <1>1, TopAt, Stacked
<1> QED
  BY <1>1, <1>2, FramesRead, OnStack

\* An end of another request.
LEMMA FinalPlace ==
    ASSUME TypeOK, TypeOK', BaseInv, NEW m \in Msg, PlaceInv(m), state'[m] \notin Final, ChangeFinal
    PROVE  PlaceInv(m)'
<1>1. PICK x : x = Head(stack).msg
  OBVIOUS
<1>2. /\ stack # << >> /\ Tail(stack) \in Seq(Frame) /\ Head(stack).op = "change" /\ x \in Msg
  BY <1>1, ChangeTop DEF ChangeFinal
<1>3. /\ state' = [state EXCEPT ![x] = Head(stack).to] /\ Head(stack).to \in Final
      /\ reported' = [reported EXCEPT ![x] = @ \cup {Head(stack).to}]
      /\ stack' = <<Deliver(x, TRUE), Report(x)>> \o Tail(stack)
      /\ UNCHANGED <<undelivered, delivered, active, handler>>
  BY <1>1 DEF ChangeFinal, Announce, clientVars, procVars
<1>4. x # m
  BY <1>2, <1>3 DEF TypeOK
<1>5. Idling(m)
  BY <1>2, <1>3, <1>4 DEF Idling, TypeOK
<1> DEFINE new == {Deliver(x, TRUE), Report(x)}
<1>6. ToSet(stack') = new \cup ToSet(Tail(stack))
  BY <1>2, <1>3, FramesMade, StackedTwo
<1>7. \A f \in new : Fit(f, m)
  BY <1>2, Fits
<1>8. Head(stack).op \notin {"deliver", "match", "unread"} /\ Head(stack).msg # m
  BY <1>1, <1>2, <1>4
<1> HIDE DEF new
<1> QED
  BY <1>2, <1>5, <1>6, <1>7, <1>8, IdlingSpared

\* A rejected request is sought another handler.
LEMMA RejectedPlace ==
    ASSUME TypeOK, TypeOK', BaseInv, NEW m \in Msg, PlaceInv(m), ChangeRejected
    PROVE  PlaceInv(m)'
<1>1. PICK x : x = Head(stack).msg
  OBVIOUS
<1>2. /\ stack # << >> /\ Tail(stack) \in Seq(Frame) /\ Head(stack).op = "change" /\ x \in Msg
      /\ Head(stack).to = "REJECTED" /\ Head(stack) \in ToSet(stack) /\ state[x] = "SENT"
  BY <1>1, ChangeTop DEF ChangeRejected
<1>3. /\ state' = [state EXCEPT ![x] = "SENT"] /\ handler' = [handler EXCEPT ![x] = NoProc]
      /\ stack' = <<Deliver(x, FALSE)>> \o Tail(stack)
      /\ UNCHANGED <<undelivered, delivered, active, reported>>
  BY <1>1 DEF ChangeRejected, Rematch, clientVars, procVars
<1> DEFINE new == {Deliver(x, FALSE)}
<1>4. ToSet(stack') = new \cup ToSet(Tail(stack))
  BY <1>2, <1>3, FramesMade, StackedTwo
<1>5. \A f \in new : Fit(f, m)
  BY <1>2, Fits
<1>6. \A f \in new : f.op = "deliver" /\ f.msg = x
  BY DEF Deliver
<1>7. Tail(stack) = << >>
  BY <1>2, OnStack
<1>8. Deliver(x, FALSE) \in new
  OBVIOUS
<1> HIDE DEF new
<1>9. CASE x # m
  <2>1. Idling(m)
    BY <1>2, <1>3, <1>9 DEF Idling, TypeOK
  <2>2. Head(stack).op \notin {"deliver", "match", "unread"} /\ Head(stack).msg # m
    BY <1>1, <1>2, <1>9
  <2> QED
    BY <1>2, <1>4, <1>5, <2>1, <2>2, IdlingSpared
<1>10. CASE x = m
  <2>1. ToSet(stack') = new
    BY <1>2, <1>4, <1>7, Stacked
  <2>2. state'[m] = "SENT" /\ handler'[m] = NoProc /\ state[m] = "SENT"
    BY <1>2, <1>3, <1>10 DEF TypeOK
  <2>3. Unended(m)'
    BY <1>3, <2>2 DEF PlaceInv, Unended
  <2>4. OthersDead(m)'
    <3> SUFFICES ASSUME NEW p \in Proc, Has(undelivered[p], m) PROVE ~active[p]
      BY <1>3 DEF OthersDead
    <3>1. handler[m] = p \/ ~active[p]
      BY <2>2 DEF PlaceInv, OthersDead
    <3>2. handler[m] # NoProc => ~Has(undelivered[handler[m]], m)
      BY <1>1, <1>2, <1>10 DEF PlaceInv, RejectRead
    <3> QED
      BY <3>1, <3>2, SessionAssumption
  <2>5. BestNew(m)' /\ TakenEnded(m)' /\ RejectRead(m)'
    BY <1>6, <2>1 DEF BestNew, TakenEnded, RejectRead, Taking
  <2>6. Placed(m)'
    <3>1. Sought(m)'
      BY <1>6, <1>8, <1>10, <2>1 DEF Sought
    <3> QED
      BY <3>1 DEF Placed
  <2> QED
    BY <2>3, <2>4, <2>5, <2>6 DEF PlaceInv
<1> QED
  BY <1>9, <1>10

\* A procid is given up: what it has not read is about to be failed.
LEMMA DeactivatePlace ==
    ASSUME TypeOK, TypeOK', BaseInv, NEW m \in Msg, PlaceInv(m), RunDeactivate
    PROVE  PlaceInv(m)'
<1>1. /\ stack # << >> /\ Head(stack) \in Frame /\ Head(stack).op = "deactivate"
      /\ Tail(stack) \in Seq(Frame)
  BY TopAt DEF RunDeactivate, Running
<1>2. PICK p \in Proc : p = Head(stack).proc
  BY <1>1, FramesRead
<1>3. UNCHANGED <<undelivered, delivered, state, handler, reported>>
  BY DEF RunDeactivate, msgVars
<1>4. CASE active[p]
  <2>1. /\ active' = [active EXCEPT ![p] = FALSE]
        /\ stack' = <<Unread(p), Unanswered(p), Forget(p)>> \o Tail(stack)
    BY <1>2, <1>4 DEF RunDeactivate
  <2> DEFINE new == {Unread(p), Unanswered(p), Forget(p)}
  <2>2. ToSet(stack') = new \cup ToSet(Tail(stack))
    <3>1. Unread(p) \in Frame /\ Unanswered(p) \in Frame /\ Forget(p) \in Frame
      BY FramesMade
    <3>2. PICK t \in Seq(Frame), f \in Frame, g \in Frame, h \in Frame :
             t = Tail(stack) /\ f = Unread(p) /\ g = Unanswered(p) /\ h = Forget(p)
      BY <1>1, <3>1
    <3>3. ToSet(<<f, g, h>> \o t) = {f, g, h} \cup ToSet(t)
      BY StackedThree
    <3> QED
      BY <2>1, <3>2, <3>3
  <2>3. \A f \in new : Fit(f, m)
    BY Fits
  <2>4. \E f \in new : f.op = "unread" /\ f.proc = p
    BY DEF Unread
  <2> HIDE DEF new
  <2>5. \A q \in Proc :
           /\ m \in delivered[q] => m \in delivered'[q]
           /\ active'[q] => active[q]
           /\ active[q] => active'[q] \/ \E f \in new : f.op = "unread" /\ f.proc = q
           /\ Has(undelivered'[q], m) => Has(undelivered[q], m) \/ state[m] # "SENT"
           /\ Has(undelivered[q], m) => Has(undelivered'[q], m)
    BY <1>3, <1>4, <2>1, <2>4 DEF TypeOK
  <2>6. \A f \in ToSet(stack') \cap ToSet(stack) : Taking(f)' /\ f.msg = m => Taking(f)
    BY <1>3 DEF Taking
  <2>7. /\ ~(Head(stack).op \in {"deliver", "match"} /\ Head(stack).msg = m /\ state[m] = "SENT")
        /\ Head(stack).op # "unread" /\ Head(stack).op # "change"
    BY <1>1
  <2> QED
    BY <1>1, <1>3, <2>2, <2>3, <2>5, <2>6, <2>7, FramesSpared
<1>5. CASE ~active[p]
  <2>1. stack' = Tail(stack) /\ Resting
    BY <1>2, <1>3, <1>5 DEF RunDeactivate, Resting
  <2> QED
    BY <1>1, <2>1, PopPlace
<1> QED
  BY <1>4, <1>5

\* What the cursor takes off the list of p, or out of what p has read.
LEMMA OrphanedTop ==
    ASSUME TypeOK, BaseInv, RunOrphaned, NEW h, h = Head(stack), NEW p, p = h.proc
    PROVE  /\ stack # << >> /\ h \in ToSet(stack) /\ h.op = "orphaned"
           /\ p \in Proc /\ h.msg \in Msg /\ stack' = Tail(stack)
           /\ UNCHANGED <<state, handler, reported, active>>
           /\ \A q \in Proc \ {p} : undelivered'[q] = undelivered[q] /\ delivered'[q] = delivered[q]
           /\ h.wasRead => undelivered' = undelivered /\ delivered'[p] = delivered[p] \ {h.msg}
           /\ ~h.wasRead => /\ delivered' = delivered /\ undelivered[p] # << >>
                            /\ undelivered'[p] = Tail(undelivered[p])
                            /\ undelivered[p] \in Seq(Entry)
                            /\ Head(undelivered[p]) \in Entry /\ Head(undelivered[p]).msg = h.msg
<1>1. /\ stack # << >> /\ h \in Frame /\ h.op = "orphaned" /\ h \in ToSet(stack)
  <2>1. stack # << >> /\ stack \in Seq(Frame)
    BY DEF RunOrphaned, Running, TypeOK
  <2> QED
    BY <2>1, TopAt, Stacked DEF RunOrphaned
<1>2. p \in Proc /\ h.msg \in Msg
  BY <1>1, FramesRead
<1>3. UNCHANGED <<state, handler, reported, active>> /\ stack' = Tail(stack)
  BY DEF RunOrphaned
<1>4. undelivered[p] \in Seq(Entry)
  BY <1>2 DEF TypeOK
<1>5. CASE h.wasRead
  <2>1. undelivered' = undelivered /\ delivered' = Settle(p, h.msg)
    BY <1>5 DEF RunOrphaned
  <2>2. \A q \in Proc \ {p} : delivered'[q] = delivered[q]
    BY <1>2, <2>1 DEF Settle, TypeOK
  <2>3. delivered'[p] = delivered[p] \ {h.msg}
    BY <1>2, <2>1 DEF Settle, TypeOK
  <2> QED
    BY <1>1, <1>2, <1>3, <1>5, <2>1, <2>2, <2>3
<1>6. CASE ~h.wasRead
  <2>1. delivered' = delivered
        /\ undelivered' = [undelivered EXCEPT ![p] = SubSeq(@, 2, Len(@))]
    BY <1>6 DEF RunOrphaned
  <2>2. undelivered[p] # << >> /\ Head(undelivered[p]).msg = h.msg
    BY <1>1, <1>6, OnStack
  <2>3. undelivered'[p] = SubSeq(undelivered[p], 2, Len(undelivered[p]))
        /\ \A q \in Proc \ {p} : undelivered'[q] = undelivered[q]
    BY <1>2, <2>1 DEF TypeOK
  <2>4. Head(undelivered[p]) \in Entry /\ Tail(undelivered[p]) = SubSeq(undelivered[p], 2, Len(undelivered[p]))
    BY <1>4, <2>2, HeadTailProperties, EmptySeq
  <2> QED
    BY <1>1, <1>2, <1>3, <1>4, <1>6, <2>1, <2>2, <2>3, <2>4
<1> QED
  BY <1>5, <1>6

\* The other cursors stand where they stood.
LEMMA OthersTake ==
    ASSUME TypeOK, BaseInv, RunOrphaned, NEW f \in ToSet(Tail(stack)), Taking(f)'
    PROVE  Taking(f) /\ f \in ToSet(stack)
<1>1. PICK h, p : h = Head(stack) /\ p = h.proc
  OBVIOUS
<1>2. /\ stack # << >> /\ h.op = "orphaned" /\ p \in Proc
      /\ \A q \in Proc \ {p} : undelivered'[q] = undelivered[q]
      /\ h.wasRead => undelivered' = undelivered
  BY <1>1, OrphanedTop
<1>3. /\ f \in ToSet(stack)
      /\ (~h.wasRead /\ f.op = "orphaned" /\ ~f.wasRead) => f.proc # p
  BY <1>1, <1>2, Below
<1>4. f \in Frame /\ f.op = "orphaned"
  BY <1>3, OnStack DEF Taking
<1>5. f.proc \in Proc
  BY <1>4, FramesRead
<1>6. CASE f.wasRead
  BY <1>3, <1>4, <1>6 DEF Taking
<1>7. CASE ~f.wasRead
  <2>1. undelivered'[f.proc] = undelivered[f.proc]
    BY <1>2, <1>3, <1>4, <1>5, <1>7
  <2>2. Head(undelivered'[f.proc]).seen = "LIVE"
    BY <1>7 DEF Taking
  <2> QED
    BY <1>3, <1>4, <2>1, <2>2 DEF Taking
<1> QED
  BY <1>6, <1>7

\* A request that is taken from one who is not its handler any more.
LEMMA OrphanedSame ==
    ASSUME TypeOK, TypeOK', BaseInv, RunOrphaned, NEW h, h = Head(stack), NEW m, m = h.msg,
           PlaceInv(m), state[m] \notin Final, Taking(h)
    PROVE  PlaceInv(m)'
<1>1. PICK p : p = h.proc
  OBVIOUS
<1>2. /\ stack # << >> /\ h \in ToSet(stack) /\ h.op = "orphaned"
      /\ p \in Proc /\ m \in Msg /\ stack' = Tail(stack)
      /\ UNCHANGED <<state, handler, reported, active>>
      /\ \A q \in Proc \ {p} : undelivered'[q] = undelivered[q]
      /\ ~h.wasRead => /\ delivered' = delivered /\ undelivered[p] # << >>
                       /\ undelivered'[p] = Tail(undelivered[p])
                       /\ undelivered[p] \in Seq(Entry)
  BY <1>1, OrphanedTop
<1>3. ~Changing(m)
  BY <1>2, OnStack DEF Changing
<1>4. ~h.wasRead /\ handler[m] # p
  BY <1>1, <1>2, <1>3 DEF PlaceInv, TakenEnded
<1>5. \A q \in Proc : Has(undelivered'[q], m) => Has(undelivered[q], m)
  BY <1>2, <1>4, PoppedList
<1>6. ToSet(stack) = {h} \cup ToSet(stack')
  BY <1>2, Stacked DEF TypeOK
<1>7. Unended(m)' /\ OthersDead(m)'
  BY <1>2, <1>5 DEF PlaceInv, Unended, OthersDead
<1>8. BestNew(m)'
  <2> SUFFICES ASSUME NEW f \in ToSet(stack'), f.op = "match", f.msg = m, f.best # NoProc
               PROVE  ~Has(undelivered'[f.best], m)
    BY DEF BestNew
  <2>1. f \in ToSet(stack) /\ f \in Frame
    BY <1>6, OnStack
  <2>2. f.best \in Proc
    BY <2>1, FramesRead
  <2> QED
    BY <1>5, <2>1, <2>2 DEF PlaceInv, BestNew
<1>9. TakenEnded(m)'
  <2> SUFFICES ASSUME NEW f \in ToSet(stack'), Taking(f)', f.msg = m
               PROVE  ~f.wasRead /\ handler'[m] # f.proc
    BY DEF TakenEnded
  <2>1. Taking(f) /\ f \in ToSet(stack)
    BY <1>2, OthersTake
  <2> QED
    BY <1>2, <1>3, <2>1 DEF PlaceInv, TakenEnded
<1>10. RejectRead(m)'
  <2>1. \A f \in ToSet(stack') : f.op # "change"
    BY <1>2, <1>6, OnStack
  <2> QED
    BY <2>1 DEF RejectRead
<1>11. Placed(m)'
  <2> SUFFICES ASSUME state[m] = "SENT"
               PROVE  \/ Given(m)' \/ Sought(m)'
                      \/ /\ handler[m] # NoProc /\ Has(undelivered'[handler[m]], m)
                         /\ active'[handler[m]] \/ Emptied(handler[m])'
    <3>1. handler'[m] = handler[m] /\ state'[m] = state[m]
      BY <1>2
    <3> QED
      BY <1>2, <3>1 DEF Placed, Emptied
  <2>1. CASE Given(m)
    BY <1>2, <1>4, <2>1 DEF Given
  <2>2. CASE Sought(m)
    BY <1>2, <1>6, <2>2 DEF Sought
  <2>3. CASE /\ handler[m] # NoProc /\ Has(undelivered[handler[m]], m)
             /\ active[handler[m]] \/ Emptied(handler[m])
    <3>1. PICK q \in Proc : q = handler[m]
      BY <1>2, <2>3 DEF TypeOK
    <3>2. undelivered'[q] = undelivered[q]
      BY <1>2, <1>4, <3>1
    <3>3. Emptied(q) => Emptied(q)'
      BY <1>2, <1>6 DEF Emptied
    <3>4. (Emptied(q)' <=> Emptied(handler[m])') /\ (Emptied(q) <=> Emptied(handler[m]))
      BY <1>2, <3>1 DEF Emptied
    <3> QED
      BY <1>2, <2>3, <3>1, <3>2, <3>3, <3>4
  <2> QED
    BY <1>3, <2>1, <2>2, <2>3 DEF PlaceInv, Placed
<1> QED
  BY <1>7, <1>8, <1>9, <1>10, <1>11 DEF PlaceInv

\* The cursor removes an entry that matters to m, or one that does not.
LEMMA OrphanedPlace ==
    ASSUME TypeOK, TypeOK', BaseInv, RunOrphaned, NEW m \in Msg, PlaceInv(m), state[m] \notin Final
    PROVE  PlaceInv(m)'
<1>1. PICK h, p : h = Head(stack) /\ p = h.proc
  OBVIOUS
<1>2. /\ stack # << >> /\ h \in ToSet(stack) /\ h.op = "orphaned"
      /\ p \in Proc /\ h.msg \in Msg /\ stack' = Tail(stack)
      /\ UNCHANGED <<state, handler, reported, active>>
      /\ \A q \in Proc \ {p} : undelivered'[q] = undelivered[q] /\ delivered'[q] = delivered[q]
      /\ h.wasRead => undelivered' = undelivered /\ delivered'[p] = delivered[p] \ {h.msg}
      /\ ~h.wasRead => /\ delivered' = delivered /\ undelivered[p] # << >>
                       /\ undelivered'[p] = Tail(undelivered[p])
                       /\ undelivered[p] \in Seq(Entry)
                       /\ Head(undelivered[p]) \in Entry /\ Head(undelivered[p]).msg = h.msg
  BY <1>1, OrphanedTop
<1>3. CASE Taking(h) /\ h.msg = m
  BY <1>1, <1>3, OrphanedSame
<1>4. CASE ~(Taking(h) /\ h.msg = m)
  <2>1. ~h.wasRead => Head(undelivered[p]) # Live(m)
    <3> SUFFICES ASSUME ~h.wasRead, Head(undelivered[p]) = Live(m) PROVE FALSE
      OBVIOUS
    <3>1. Head(undelivered[p]).seen = "LIVE" /\ h.msg = m
      BY <1>2 DEF Live
    <3> QED
      BY <1>1, <1>2, <1>4, <3>1 DEF Taking
  <2>2. h.wasRead => h.msg # m
    BY <1>2, <1>4 DEF Taking
  <2>3. \A q \in Proc : /\ Has(undelivered'[q], m) <=> Has(undelivered[q], m)
                        /\ m \in delivered[q] => m \in delivered'[q]
    <3>1. CASE h.wasRead
      BY <1>2, <2>2, <3>1
    <3>2. CASE ~h.wasRead
      <4>1. Has(undelivered'[p], m) <=> Has(undelivered[p], m)
        BY <1>2, <2>1, <3>2, PoppedList
      <4> QED
        BY <1>2, <3>2, <4>1
    <3> QED
      BY <3>1, <3>2
  <2> DEFINE new == {}
  <2>4. ToSet(stack') = new \cup ToSet(Tail(stack)) /\ \A f \in new : Fit(f, m)
    BY <1>2
  <2>5. \A q \in Proc :
           /\ m \in delivered[q] => m \in delivered'[q]
           /\ active'[q] => active[q]
           /\ active[q] => active'[q] \/ \E f \in new : f.op = "unread" /\ f.proc = q
           /\ Has(undelivered'[q], m) => Has(undelivered[q], m) \/ state[m] # "SENT"
           /\ Has(undelivered[q], m) => Has(undelivered'[q], m)
    BY <1>2, <2>3
  <2>6. \A f \in ToSet(stack') \cap ToSet(stack) : Taking(f)' /\ f.msg = m => Taking(f)
    BY <1>2, OthersTake
  <2>7. /\ ~(Head(stack).op \in {"deliver", "match"} /\ Head(stack).msg = m /\ state[m] = "SENT")
        /\ Head(stack).op # "unread" /\ Head(stack).op # "change"
    BY <1>1, <1>2
  <2> HIDE DEF new
  <2>8. state'[m] = state[m] /\ handler'[m] = handler[m] /\ reported'[m] = reported[m]
    BY <1>2
  <2> QED
    BY <1>2, <2>4, <2>5, <2>6, <2>7, <2>8, FramesSpared
<1> QED
  BY <1>3, <1>4

\* The frames of a stack of one, or of two.
LEMMA ShortStack == \A f, g : ToSet(<<f>>) = {f} /\ ToSet(<<f, g>>) = {f, g}
BY DEF ToSet

\* A client does something, or the server is asked for what concerns no request.
LEMMA QuietPlace ==
    ASSUME TypeOK, TypeOK', BaseInv, NEW m \in Msg, PlaceInv(m), NEW p \in Proc,
           \/ Client(p) \/ Hangup(p) \/ ServeRegister(p) \/ ServeUnregister(p)
           \/ ServeJoin(p) \/ ServeClose(p)
    PROVE  PlaceInv(m)'
<1>1. Resting
  BY DEF Client, AskPlanned, AskNext, AskUpdate, Die, Ask, Hangup, ServeRegister,
         ServeUnregister, ServeJoin, ServeClose, procVars, msgVars, Resting
<1>2. CASE stack' = stack
  <2> DEFINE new == {}
  <2>1. ToSet(stack') = new \cup ToSet(stack) /\ \A f \in new : Fit(f, m)
    BY <1>2
  <2> HIDE DEF new
  <2> QED
    BY <1>1, <2>1, RestingSpared
<1>3. ASSUME NEW f, stack = << >>, stack' = <<f>>, Fit(f, m) PROVE PlaceInv(m)'
  <2> DEFINE new == {f}
  <2>1. ToSet(stack) = {}
    BY <1>3, Stacked DEF TypeOK
  <2>2. ToSet(stack') = new \cup ToSet(stack) /\ \A g \in new : Fit(g, m)
    BY <1>3, <2>1, ShortStack
  <2> HIDE DEF new
  <2> QED
    BY <1>1, <2>2, RestingSpared
<1>4. CASE Client(p) \/ ServeRegister(p) \/ ServeUnregister(p)
  BY <1>2, <1>4 DEF Client, AskPlanned, AskNext, AskUpdate, Die, Ask, ServeRegister, ServeUnregister
<1>5. CASE ServeJoin(p)
  <2>1. Fit(Redeliver(queued), m)
    BY Fits DEF TypeOK
  <2> QED
    BY <1>2, <1>3, <1>5, <2>1 DEF ServeJoin, Serve, Idle
<1>6. CASE ServeClose(p) \/ Hangup(p)
  <2>1. Fit(Deactivate(p), m)
    BY Fits
  <2> QED
    BY <1>2, <1>3, <1>6, <2>1 DEF ServeClose, Hangup, Serve, Idle
<1> QED
  BY <1>4, <1>5, <1>6

\* A request that is sent is sought a handler.
LEMMA SendPlace ==
    ASSUME TypeOK, TypeOK', BaseInv, NEW m \in Msg, PlaceInv(m), NEW p \in Proc, ServeSend(p)
    PROVE  PlaceInv(m)'
<1>1. /\ Serve(p, "send") /\ UNCHANGED <<alive, plan, active, channel>>
      /\ UNCHANGED <<undelivered, delivered, handler, reported>>
      /\ state' = [state EXCEPT ![Head(rpc[p]).msg] = "SENT"]
  BY DEF ServeSend
<1>2. PICK c \in Call : c = Head(rpc[p]) /\ c.call = "send" /\ Takes(p, c)
  BY <1>1, ServeTakes
<1>3. PICK x \in Msg : x = c.msg /\ c = [call |-> "send", msg |-> x]
  BY <1>2 DEF Call
<1>4. /\ state[x] = "CREATED" /\ reported[x] = {} /\ \A q \in Proc : ~Has(undelivered[q], x)
  <2>1. 1 \in 1 .. Len(rpc[p]) /\ rpc[p][1] = c
    BY <1>2, TakesCalls DEF BaseInv
  <2>2. state[x] = "CREATED"
    BY <1>3, <2>1 DEF BaseInv, Sending
  <2>3. Created(x)
    BY DEF BaseInv, RequestInv
  <2> QED
    BY <2>2, <2>3 DEF Created
<1>5. state' = [state EXCEPT ![x] = "SENT"] /\ stack = << >>
      /\ stack' \in {<<Change(x, "FAILED"), Deliver(x, TRUE)>>, <<Deliver(x, TRUE)>>}
  BY <1>1, <1>2, <1>3 DEF ServeSend, Serve, Idle
<1>6. PICK new : /\ ToSet(stack') = new /\ Deliver(x, TRUE) \in new
                 /\ new \subseteq {Change(x, "FAILED"), Deliver(x, TRUE)}
  <2>1. CASE stack' = <<Deliver(x, TRUE)>>
    <3>1. ToSet(stack') = {Deliver(x, TRUE)}
      BY <2>1, ShortStack
    <3> QED
      BY <3>1
  <2>2. CASE stack' = <<Change(x, "FAILED"), Deliver(x, TRUE)>>
    <3>1. ToSet(stack') = {Change(x, "FAILED"), Deliver(x, TRUE)}
      BY <2>2, ShortStack
    <3> QED
      BY <3>1
  <2> QED
    BY <1>5, <2>1, <2>2
<1>7. CASE x # m
  <2>1. Idling(m)
    BY <1>1, <1>5, <1>7 DEF Idling, TypeOK
  <2>2. \A f \in new : Fit(f, m)
    BY <1>6, Fits DEF Final
  <2>3. ToSet(stack') = new \cup ToSet(stack)
    BY <1>5, <1>6, Stacked DEF TypeOK
  <2> QED
    BY <2>1, <2>2, <2>3, IdlingSpared
<1>8. CASE x = m
  <2>1. state'[m] = "SENT"
    BY <1>5, <1>8 DEF TypeOK
  <2>2. \A f \in ToSet(stack') :
           f.op \in {"deliver", "change"} /\ (f.op = "change" => f.to = "FAILED")
    BY <1>6 DEF Deliver, Change
  <2>3. Unended(m)' /\ OthersDead(m)'
    BY <1>1, <1>4, <1>8 DEF Unended, OthersDead
  <2>4. BestNew(m)' /\ TakenEnded(m)' /\ RejectRead(m)'
    BY <2>2 DEF BestNew, TakenEnded, RejectRead, Taking
  <2>5. Placed(m)'
    <3>1. Deliver(x, TRUE).op = "deliver" /\ Deliver(x, TRUE).msg = m
      BY <1>8 DEF Deliver
    <3>2. Sought(m)'
      BY <1>6, <3>1 DEF Sought
    <3> QED
      BY <3>2 DEF Placed
  <2> QED
    BY <2>3, <2>4, <2>5 DEF PlaceInv
<1> QED
  BY <1>7, <1>8

\* A message is read; the request its reader is to handle is remembered.
LEMMA NextPlace ==
    ASSUME TypeOK, TypeOK', BaseInv, NEW m \in Msg, PlaceInv(m), state[m] \notin Final,
           NEW p \in Proc, ServeNext(p)
    PROVE  PlaceInv(m)'
<1>1. UNCHANGED <<active, state, handler, reported>> /\ stack = << >> /\ stack' = << >>
  BY DEF ServeNext, msgVars, Serve, Idle
<1> DEFINE u == undelivered[p]
           t == undelivered'[p]
<1>2. u \in Seq(Entry) /\ undelivered' = [undelivered EXCEPT ![p] = IF u # << >> THEN Tail(@) ELSE @]
  BY DEF ServeNext, TypeOK
<1>3. /\ \A q \in Proc : q # p => undelivered'[q] = undelivered[q]
      /\ t = IF u # << >> THEN Tail(u) ELSE u
  BY <1>2 DEF TypeOK
<1>4. \A q \in Proc : m \in delivered[q] => m \in delivered'[q]
  BY DEF ServeNext, TypeOK
<1>5. (u # << >> /\ Head(u) = Live(m) /\ handler[m] = p) => m \in delivered'[p]
  <2> SUFFICES ASSUME u # << >>, Head(u) = Live(m), handler[m] = p PROVE m \in delivered'[p]
    OBVIOUS
  <2>1. Head(u).seen = "LIVE" /\ Head(u).msg = m /\ Processing(p, m)
    BY DEF Live, Processing
  <2>2. delivered' = [delivered EXCEPT ![p] = @ \cup {m}]
    BY <2>1 DEF ServeNext
  <2> QED
    BY <2>2 DEF TypeOK
<1>6. \A q \in Proc : Has(undelivered'[q], m) => Has(undelivered[q], m)
  BY <1>2, <1>3, PoppedList
<1>7. Has(u, m) => Has(t, m) \/ (u # << >> /\ Head(u) = Live(m))
  BY <1>2, <1>3, PoppedList
<1> HIDE DEF u, t
<1>8. ToSet(stack) = {} /\ ToSet(stack') = {}
  BY <1>1, Stacked DEF TypeOK
<1>9. Unended(m)' /\ OthersDead(m)'
  BY <1>1, <1>6 DEF PlaceInv, Unended, OthersDead
<1>10. BestNew(m)' /\ TakenEnded(m)' /\ RejectRead(m)'
  BY <1>8 DEF BestNew, TakenEnded, RejectRead
<1>11. Placed(m)'
  <2> SUFFICES ASSUME state[m] = "SENT"
               PROVE  \/ Given(m)'
                      \/ /\ handler'[m] # NoProc /\ Has(undelivered'[handler'[m]], m)
                         /\ active'[handler'[m]]
    BY <1>1 DEF Placed
  <2>1. CASE Given(m)
    BY <1>4, <2>1 DEF Given
  <2>2. CASE /\ handler[m] # NoProc /\ Has(undelivered[handler[m]], m)
             /\ active[handler[m]]
    <3>1. PICK q \in Proc : q = handler[m]
      BY <2>2 DEF TypeOK
    <3>2. CASE q # p
      BY <1>1, <1>3, <2>2, <3>1, <3>2
    <3>3. CASE q = p /\ Has(t, m)
      BY <1>1, <2>2, <3>1, <3>3 DEF t
    <3>4. CASE q = p /\ ~Has(t, m)
      BY <1>5, <1>7, <2>2, <3>1, <3>4 DEF u, Given
    <3> QED
      BY <3>2, <3>3, <3>4
  <2> QED
    BY <1>8, <2>1, <2>2 DEF PlaceInv, Placed, Sought, Changing, Emptied
<1> QED
  BY <1>9, <1>10, <1>11 DEF PlaceInv

\* A reader replies, fails or rejects.
LEMMA UpdatePlace ==
    ASSUME TypeOK, TypeOK', BaseInv, NEW m \in Msg, PlaceInv(m), NEW p \in Proc, ServeUpdate(p)
    PROVE  PlaceInv(m)'
<1>1. /\ Serve(p, "update") /\ stack = << >>
      /\ UNCHANGED <<alive, plan, active, channel, undelivered, state, handler, reported>>
  BY DEF ServeUpdate, msgVars, Serve, Idle
<1>2. PICK c \in Call : c = Head(rpc[p]) /\ c.call = "update" /\ Takes(p, c)
  BY <1>1, ServeTakes
<1>3. PICK x \in Msg : x = c.msg
  BY <1>2 DEF Call
<1>4. ToSet(stack) = {} /\ \A d \in Levels : FALSE
  BY <1>1, Stacked DEF TypeOK, Levels
<1>5. \/ delivered' = delivered /\ stack' = << >>
      \/ x \in delivered[p] /\ delivered' = Settle(p, x) /\ stack' = <<Change(x, c.to)>>
  BY <1>2, <1>3 DEF ServeUpdate
<1>6. CASE delivered' = delivered /\ stack' = << >>
  <2> DEFINE new == {}
  <2>1. Resting /\ ToSet(stack') = new \cup ToSet(stack) /\ \A f \in new : Fit(f, m)
    BY <1>1, <1>6 DEF Resting
  <2> HIDE DEF new
  <2> QED
    BY <2>1, RestingSpared
<1>7. CASE x \in delivered[p] /\ delivered' = Settle(p, x) /\ stack' = <<Change(x, c.to)>>
  <2>1. PICK g : g = Change(x, c.to) /\ g.op = "change" /\ g.msg = x
    <3>1. Change(x, c.to).op = "change" /\ Change(x, c.to).msg = x
      BY DEF Change
    <3> QED
      BY <3>1
  <2>2. ToSet(stack') = {g}
    BY <1>7, <2>1, ShortStack
  <2>3. CASE x # m
    <3> DEFINE new == {g}
    <3>1. \A f \in new : Fit(f, m)
      BY <2>1, <2>3 DEF Fit, Taking
    <3>2. ToSet(stack') = new \cup ToSet(stack)
      BY <1>4, <2>2
    <3> HIDE DEF new
    <3>3. \A q \in Proc :
             /\ m \in delivered[q] => m \in delivered'[q]
             /\ active'[q] => active[q]
             /\ active[q] => active'[q] \/ \E f \in new : f.op = "unread" /\ f.proc = q
             /\ Has(undelivered'[q], m) => Has(undelivered[q], m) \/ state[m] # "SENT"
             /\ Has(undelivered[q], m) => Has(undelivered'[q], m)
      BY <1>1, <1>7, <2>3 DEF Settle, TypeOK
    <3>4. \A f \in ToSet(stack') \cap ToSet(stack) : Taking(f)' /\ f.msg = m => Taking(f)
      BY <1>4
    <3> QED
      BY <1>1, <3>1, <3>2, <3>3, <3>4, FramesSpared
  <2>4. CASE x = m
    <3>1. ReadOk(m) /\ UnreadOk(m)
      BY DEF BaseInv, RequestInv
    <3>2. handler[m] = p /\ state[m] = "SENT"
      BY <1>4, <1>7, <2>4, <3>1 DEF ReadOk
    <3>3. ~Has(undelivered[p], m)
      BY <1>7, <2>4, <3>1, <3>2, SessionAssumption DEF UnreadOk, Given, Final
    <3>4. Unended(m)' /\ OthersDead(m)'
      BY <1>1 DEF PlaceInv, Unended, OthersDead
    <3>5. BestNew(m)' /\ TakenEnded(m)'
      BY <2>1, <2>2 DEF BestNew, TakenEnded, Taking
    <3>6. RejectRead(m)'
      BY <1>1, <3>2, <3>3 DEF RejectRead
    <3>7. Changing(m)'
      BY <2>1, <2>2, <2>4 DEF Changing
    <3>8. Placed(m)'
      BY <3>7 DEF Placed
    <3> QED
      BY <3>4, <3>5, <3>6, <3>8 DEF PlaceInv
  <2> QED
    BY <2>3, <2>4
<1> QED
  BY <1>5, <1>6, <1>7

\* The walk over the queue, which is empty.
LEMMA QueuePlace ==
    ASSUME TypeOK, TypeOK', BaseInv, Queueable = {}, NEW m \in Msg, PlaceInv(m),
           RunRedeliver \/ RunRequeue
    PROVE  PlaceInv(m)'
<1>1. state' = state
  BY NoneQueued
<1>2. Resting
  BY <1>1 DEF RunRedeliver, RunRequeue, Resting, procVars
<1>3. /\ stack # << >> /\ Head(stack).op \in {"redeliver", "requeue"} /\ Head(stack) \in Frame
      /\ Tail(stack) \in Seq(Frame)
  BY TopAt DEF RunRedeliver, RunRequeue, Running
<1>4. CASE stack' = Tail(stack)
  BY <1>2, <1>3, <1>4, PopPlace
<1>5. CASE stack' # Tail(stack)
  <2>1. Head(stack).op = "redeliver"
    BY <1>5 DEF RunRedeliver, RunRequeue, Running
  <2>2. PICK ms : ms = Head(stack).todo
    OBVIOUS
  <2>3. ms \in SUBSET Msg
    BY <1>3, <2>1, <2>2, FramesRead
  <2>4. PICK x \in ms : stack' = <<Deliver(x, TRUE), Requeue(x), Redeliver(ms \ {x})>> \o Tail(stack)
    BY <1>5, <2>2 DEF RunRedeliver, RunRequeue
  <2>5. x \in Msg /\ ms \ {x} \in SUBSET Msg
    BY <2>3
  <2>6. PICK t \in Seq(Frame), f \in Frame, g \in Frame, h \in Frame :
           t = Tail(stack) /\ f = Deliver(x, TRUE) /\ g = Requeue(x) /\ h = Redeliver(ms \ {x})
    BY <1>3, <2>5, FramesMade
  <2>7. Fit(f, m) /\ Fit(g, m) /\ Fit(h, m)
    BY <2>5, <2>6, Fits
  <2> DEFINE new == {f, g, h}
  <2>8. ToSet(<<f, g, h>> \o t) = new \cup ToSet(t)
    BY StackedThree
  <2>9. ToSet(stack') = new \cup ToSet(Tail(stack)) /\ \A e \in new : Fit(e, m)
    BY <2>4, <2>6, <2>7, <2>8
  <2>10. /\ ~(Head(stack).op \in {"deliver", "match"} /\ Head(stack).msg = m /\ state[m] = "SENT")
         /\ Head(stack).op # "unread" /\ Head(stack).op # "change"
    BY <1>3
  <2> HIDE DEF new
  <2> QED
    BY <1>2, <1>3, <2>9, <2>10, RestingSpared
<1> QED
  BY <1>4, <1>5

\* A step of the server's own code keeps the place of a request that has not ended.
LEMMA RunPlace ==
    ASSUME TypeOK, TypeOK', BaseInv, Queueable = {}, Wired, \A x \in Msg : PlaceInv(x),
           Run, heap' = "intact", NEW m \in Msg, state[m] \notin Final, state'[m] \notin Final
    PROVE  PlaceInv(m)'
<1>0. PlaceInv(m)
  OBVIOUS
<1>1. CASE RunDeliver \/ MatchInactive \/ MatchHandler
  BY <1>0, <1>1, WalkPlace
<1>2. CASE MatchHosed
  BY <1>2 DEF MatchHosed
<1>3. CASE MatchObserver
  BY <1>0, <1>3, ObserverPlace
<1>4. CASE GiveToHandler
  <2>1. PICK x : x = Head(stack).msg
    OBVIOUS
  <2>2. CASE x = m
    BY <1>0, <1>4, <2>1, <2>2, GivePlaceSame
  <2>3. CASE x # m
    BY <1>0, <1>4, <2>1, <2>3, GivePlaceOthers
  <2> QED
    BY <2>2, <2>3
<1>5. CASE NoHandler
  BY <1>0, <1>5, NoHandlerPlace
<1>6. CASE RunReturn \/ RunForget
  <2>1. Resting /\ stack' = Tail(stack)
    BY <1>6 DEF RunReturn, RunForget, procVars, msgVars, Resting
  <2>2. stack # << >> /\ Head(stack).op \in {"return", "forget"}
    BY <1>6 DEF RunReturn, RunForget, Running
  <2>3. Head(stack).op \notin {"deliver", "match", "change"} /\ Head(stack).op # "unread"
    BY <2>2
  <2> QED
    BY <1>0, <2>1, <2>2, <2>3, PopPlace
<1>7. CASE ChangeRepeated \/ ChangeQueued
  BY <1>7, NotRepeated, NoneQueued
<1>8. CASE ChangeFinal
  BY <1>0, <1>8, FinalPlace
<1>9. CASE ChangeRejected
  BY <1>0, <1>9, RejectedPlace
<1>10. CASE RunReport
  BY <1>0, <1>10, ReportPlace
<1>11. CASE RunDeactivate
  BY <1>0, <1>11, DeactivatePlace
<1>12. CASE RunUnread
  BY <1>0, <1>12, UnreadPlace
<1>13. CASE RunUnanswered
  BY <1>0, <1>13, UnansweredPlace
<1>14. CASE RunOrphaned
  BY <1>0, <1>14, OrphanedPlace
<1>15. CASE RunRedeliver \/ RunRequeue
  BY <1>0, <1>15, QueuePlace
<1> QED
  BY <1>1, <1>2, <1>3, <1>4, <1>5, <1>6, <1>7, <1>8, <1>9, <1>10, <1>11, <1>12, <1>13, <1>14,
     <1>15 DEF Run

\* A procid loses its channel and its activity together.
LEMMA WiredStep == ASSUME TypeOK, Wired, [Next]_vars PROVE Wired'
<1>1. CASE UNCHANGED <<active, channel>>
  BY <1>1 DEF Wired
<1>2. CASE RunDeactivate
  <2>1. PICK p : p = Head(stack).proc
    OBVIOUS
  <2>2. CASE active[p]
    <3>1. active' = [active EXCEPT ![p] = FALSE] /\ channel' = [channel EXCEPT ![p] = FALSE]
      BY <1>2, <2>1, <2>2 DEF RunDeactivate
    <3> QED
      BY <3>1 DEF Wired, TypeOK
  <2>3. CASE ~active[p]
    BY <1>1, <1>2, <2>1, <2>3 DEF RunDeactivate
  <2> QED
    BY <2>2, <2>3
<1>3. CASE Run /\ ~RunDeactivate
  BY <1>1, <1>3 DEF Run, RunDeliver, MatchHosed, MatchInactive, MatchHandler, MatchObserver,
     GiveToHandler, NoHandler, RunReturn, ChangeRepeated, ChangeFinal, ChangeQueued,
     ChangeRejected, RunReport, RunUnread, RunUnanswered, RunOrphaned, RunForget, RunRedeliver,
     RunRequeue, procVars
<1>4. ASSUME NEW p \in Proc, Client(p) \/ ServeRpc(p) \/ Hangup(p) PROVE Wired'
  BY <1>1, <1>4 DEF Client, AskPlanned, AskNext, AskUpdate, Die, Ask, Hangup, ServeRpc,
     ServeRegister, ServeUnregister, ServeJoin, ServeSend, ServeNext, ServeUpdate, ServeClose, procVars
<1>5. CASE UNCHANGED vars
  BY <1>1, <1>5 DEF vars
<1> QED
  BY <1>2, <1>3, <1>4, <1>5 DEF Next

\* At first there is no request.
LEMMA LossInit == ASSUME Init PROVE LossInv
<1>1. Wired /\ stack = << >> /\ \A m \in Msg : state[m] = "CREATED" /\ reported[m] = {}
  BY DEF Init, Wired
<1>2. ToSet(stack) = {}
  BY <1>1 DEF ToSet
<1>3. ASSUME NEW m \in Msg PROVE PlaceInv(m)
  BY <1>1, <1>2 DEF PlaceInv, Unended, OthersDead, BestNew, TakenEnded, RejectRead, Placed
<1> QED
  BY <1>1, <1>3 DEF LossInv

\* Every step keeps the place of every request.
LEMMA LossStep ==
    ASSUME TypeOK, TypeOK', SessionInv, SessionInv', LossInv, Queueable = {}, [Next]_vars
    PROVE  LossInv'
<1> SUFFICES ASSUME heap' = "intact" PROVE Wired' /\ \A m \in Msg : PlaceInv(m)'
  BY DEF LossInv
<1>1. heap = "intact" /\ BaseInv /\ BaseInv' /\ Wired /\ \A m \in Msg : PlaceInv(m)
  BY HeapStays DEF SessionInv, LossInv
<1>2. Wired'
  BY <1>1, WiredStep
<1>3. EndsPlaced'
  BY <1>1, EndedPlaced, PTL
<1>4. ASSUME NEW m \in Msg PROVE PlaceInv(m)'
  <2>0. PlaceInv(m)
    BY <1>1
  <2>1. CASE state'[m] \in Final
    BY <1>3, <2>1 DEF EndsPlaced
  <2>2. CASE state'[m] \notin Final
    <3>1. state[m] \notin Final
      BY <2>2, EndStays
    <3>2. CASE Run
      BY <1>1, <2>2, <3>1, <3>2, RunPlace
    <3>3. ASSUME NEW p \in Proc, \/ Client(p) \/ Hangup(p) \/ ServeRegister(p) \/ ServeUnregister(p)
                                 \/ ServeJoin(p) \/ ServeClose(p)
          PROVE  PlaceInv(m)'
      BY <1>1, <2>0, <3>3, QuietPlace
    <3>4. ASSUME NEW p \in Proc, ServeSend(p) \/ ServeNext(p) \/ ServeUpdate(p) PROVE PlaceInv(m)'
      BY <1>1, <2>0, <3>1, <3>4, SendPlace, NextPlace, UpdatePlace
    <3>5. CASE UNCHANGED vars
      <4>1. UNCHANGED <<state, handler, reported, delivered, undelivered, active, stack>>
        BY <3>5 DEF vars
      <4> QED
        BY <2>0, <4>1 DEF PlaceInv, Unended, OthersDead, BestNew, TakenEnded, RejectRead, Placed,
                          Taking, Changing, Sought, Emptied, Given
    <3> QED
      BY <3>2, <3>3, <3>4, <3>5 DEF Next, ServeRpc
  <2> QED
    BY <2>1, <2>2
<1> QED
  BY <1>2, <1>4

\* When the server is idle, a request under way has a holder.
LEMMA NobodyLost ==
    ASSUME TypeOK, SessionInv, LossInv, Queueable = {} PROVE NoneLost
<1> SUFFICES ASSUME Idle, NEW m \in Msg
             PROVE  /\ state[m] = "SENT" => \E p \in Proc : Holds(p, m)
                    /\ state[m] = "QUEUED" => m \in queued
  BY DEF NoneLost
<1>1. BaseInv /\ PlaceInv(m) /\ stack = << >>
  BY DEF Idle, SessionInv, LossInv
<1>2. ToSet(stack) = {} /\ \A d \in Levels : FALSE
  <2>1. ToSet(stack) = {}
    BY <1>1, Stacked DEF TypeOK
  <2>2. \A d \in Levels : FALSE
    BY <1>1 DEF Levels
  <2> QED
    BY <2>1, <2>2
<1>3. ReadOk(m) /\ QueuedOk(m)
  BY <1>1 DEF BaseInv, RequestInv
<1>4. state[m] = "QUEUED" => m \in queued
  BY <1>3 DEF QueuedOk
<1>5. ASSUME state[m] = "SENT" PROVE \E p \in Proc : Holds(p, m)
  <2>1. CASE Given(m)
    <3>1. PICK p \in Proc : m \in delivered[p]
      BY <2>1 DEF Given
    <3>2. active[p]
      BY <1>2, <1>3, <3>1 DEF ReadOk
    <3> QED
      BY <3>1, <3>2 DEF Holds
  <2>2. CASE /\ handler[m] # NoProc /\ Has(undelivered[handler[m]], m) /\ active[handler[m]]
    <3>1. PICK p \in Proc : p = handler[m]
      BY <2>2 DEF TypeOK
    <3>2. undelivered[p] \in Seq(Entry) /\ Has(undelivered[p], m)
      BY <2>2, <3>1 DEF TypeOK
    <3>3. Live(m) \in ToSet(undelivered[p])
      BY <3>2 DEF Has, ToSet
    <3>4. Processing(p, m)
      BY <1>5, <3>1 DEF Processing, Final
    <3> QED
      BY <2>2, <3>1, <3>3, <3>4 DEF Holds
  <2> QED
    BY <1>1, <1>2, <1>5, <2>1, <2>2 DEF PlaceInv, Placed, Sought, Changing, Emptied
<1> QED
  BY <1>4, <1>5

\* No request is lost: whenever the server is back in its main loop, every request under
\* way is held by an active process, whichever clients have died meanwhile and however
\* deep the failures of their channels have nested. The sessions are those whose clients
\* read when they are signalled, and whose requests do not ask to be queued.
THEOREM NoneLostAlways ==
    ASSUME ReadsWhenSignalled, Queueable = {} PROVE Spec => []NoneLost
<1>1. Init => LossInv
  BY LossInit
<1>2. TypeOK /\ TypeOK' /\ SessionInv /\ SessionInv' /\ LossInv /\ [Next]_vars => LossInv'
  BY LossStep
<1>3. TypeOK /\ SessionInv /\ LossInv => NoneLost
  BY NobodyLost
<1>4. Spec => [](TypeOK /\ SessionInv)
  BY SessionAlways
<1> QED
  BY <1>1, <1>2, <1>3, <1>4, PTL DEF Spec

-----------------------------------------------------------------------------
(* The frames that a step pushes. *)

\* At most one frame of s is in X.
AtMostOne(s, X) == \A i, j \in 1 .. Len(s) : s[i] \in X /\ s[j] \in X => i = j

\* The step leaves s on the stack and frames of X above it.
Pushes(s, X) == \E new \in Seq(X) : stack' = new \o s

\* Frames that deliver nothing, change no state and report none; and those that seek a
\* handler without showing the request, or change a state.
Silent == {f \in Frame : f.op \notin {"match", "deliver", "change", "report"}}
Seeks  == {f \in Frame : f.op = "deliver" /\ f.observers = FALSE}
Alters == {f \in Frame : f.op = "change"}

\* What is on the stack then.
LEMMA PushesSet ==
    ASSUME NEW s \in Seq(Frame), NEW X \in SUBSET Frame, Pushes(s, X)
    PROVE  /\ stack' \in Seq(Frame)
           /\ \A f \in ToSet(stack') : f \in X \/ f \in ToSet(s)
           /\ ToSet(s) \subseteq ToSet(stack')
           /\ \A Y : Y \cap X = {} /\ AtMostOne(s, Y) => AtMostOne(stack', Y)
<1>1. PICK new \in Seq(X) : stack' = new \o s
  BY DEF Pushes
<1>2. /\ Len(new) \in Nat /\ Len(s) \in Nat /\ new \in Seq(Frame)
      /\ \A i \in 1 .. Len(new) : new[i] \in X
  BY LenProperties
<1>3. /\ stack' \in Seq(Frame) /\ Len(stack') = Len(new) + Len(s)
      /\ \A i \in 1 .. Len(new) + Len(s) :
            stack'[i] = IF i <= Len(new) THEN new[i] ELSE s[i - Len(new)]
  BY <1>1, <1>2, ConcatProperties
<1>4. ToSet(stack') = ToSet(new) \cup ToSet(s)
  BY <1>1, <1>2, Joined
<1>5. ToSet(new) \subseteq X
  BY <1>2 DEF ToSet
<1>6. ASSUME NEW Y, Y \cap X = {}, AtMostOne(s, Y),
             NEW i \in 1 .. Len(stack'), NEW j \in 1 .. Len(stack'), stack'[i] \in Y, stack'[j] \in Y
      PROVE  i = j
  <2>1. \A k \in 1 .. Len(stack') : stack'[k] \in Y =>
           k - Len(new) \in 1 .. Len(s) /\ stack'[k] = s[k - Len(new)]
    BY <1>2, <1>3, <1>6
  <2>2. i - Len(new) = j - Len(new)
    BY <1>6, <2>1 DEF AtMostOne
  <2> QED
    BY <1>2, <1>3, <2>2
<1> QED
  BY <1>3, <1>4, <1>5, <1>6 DEF AtMostOne

\* Up to three frames are pushed.
LEMMA PushesNew ==
    ASSUME NEW s \in Seq(Frame), NEW X \in SUBSET Frame, NEW f, NEW g, NEW h
    PROVE  /\ stack' = s => Pushes(s, X)
           /\ f \in X /\ stack' = <<f>> \o s => Pushes(s, X)
           /\ f \in X /\ g \in X /\ stack' = <<f, g>> \o s => Pushes(s, X)
           /\ f \in X /\ g \in X /\ stack' = <<f>> \o (<<g>> \o s) => Pushes(s, X)
           /\ f \in X /\ g \in X /\ h \in X /\ stack' = <<f, g, h>> \o s => Pushes(s, X)
<1>1. stack' = s => stack' = << >> \o s
  BY ConcatEmptySeq
<1>2. << >> \in Seq(X)
  OBVIOUS
<1>3. /\ f \in X => <<f>> \in Seq(X)
      /\ f \in X /\ g \in X => <<f, g>> \in Seq(X)
      /\ f \in X /\ g \in X /\ h \in X => <<f, g, h>> \in Seq(X)
  OBVIOUS
<1>4. f \in X /\ g \in X => <<f>> \o (<<g>> \o s) = <<f, g>> \o s
  BY PushPush
<1> QED
  BY <1>1, <1>2, <1>3, <1>4 DEF Pushes

\* What frames are silent, and what those do that are not.
LEMMA Silences ==
    /\ \A v \in BOOLEAN : Return(v) \in Silent
    /\ \A p \in Proc : Deactivate(p) \in Silent /\ Unread(p) \in Silent
    /\ \A p \in Proc : Unanswered(p) \in Silent /\ Forget(p) \in Silent
    /\ \A p \in Proc, m \in Msg, r \in BOOLEAN : Orphaned(p, m, r) \in Silent
    /\ \A m \in Msg : Deliver(m, FALSE) \in Seeks
    /\ \A m \in Msg, s \in {"QUEUED", "REJECTED"} \cup Final : Change(m, s) \in Alters
    /\ Silent \in SUBSET Frame /\ Seeks \in SUBSET Frame /\ Alters \in SUBSET Frame
<1>1. \A v \in BOOLEAN : Return(v) \in Silent
  BY FramesMade DEF Silent, Return
<1>2. /\ \A p \in Proc : Deactivate(p) \in Silent /\ Unread(p) \in Silent
      /\ \A p \in Proc : Unanswered(p) \in Silent /\ Forget(p) \in Silent
  <2> SUFFICES ASSUME NEW p \in Proc
               PROVE  /\ Deactivate(p) \in Silent /\ Unread(p) \in Silent
                      /\ Unanswered(p) \in Silent /\ Forget(p) \in Silent
    OBVIOUS
  <2>1. Deactivate(p) \in Silent
    BY FramesMade DEF Silent, Deactivate
  <2>2. Unread(p) \in Silent
    BY FramesMade DEF Silent, Unread
  <2>3. Unanswered(p) \in Silent
    BY FramesMade DEF Silent, Unanswered
  <2>4. Forget(p) \in Silent
    BY FramesMade DEF Silent, Forget
  <2> QED
    BY <2>1, <2>2, <2>3, <2>4
<1>3. \A p \in Proc, m \in Msg, r \in BOOLEAN : Orphaned(p, m, r) \in Silent
  BY FramesMade DEF Silent, Orphaned
<1>4. \A m \in Msg : Deliver(m, FALSE) \in Seeks
  BY FramesMade DEF Seeks, Deliver
<1>5. \A m \in Msg, s \in {"QUEUED", "REJECTED"} \cup Final : Change(m, s) \in Alters
  BY FramesMade DEF Alters, Change
<1> QED
  BY <1>1, <1>2, <1>3, <1>4, <1>5 DEF Silent, Seeks, Alters

\* The frame that runs returns, or goes on silently.
LEMMA SilentPushes ==
    ASSUME TypeOK, \/ RunReturn \/ ChangeRepeated \/ RunReport \/ RunDeactivate
                   \/ RunOrphaned \/ RunForget \/ RunRequeue \/ (RunRedeliver /\ stack' = Tail(stack))
    PROVE  stack # << >> /\ Tail(stack) \in Seq(Frame) /\ Pushes(Tail(stack), Silent)
<1> DEFINE f == Head(stack)
<1>1. stack # << >> /\ f \in Frame
  <2>1. stack # << >>
    BY DEF Running, RunReturn, ChangeRepeated, RunReport, RunDeactivate, RunOrphaned, RunForget,
           RunRequeue, RunRedeliver
  <2> QED
    BY <2>1, HeadTailProperties DEF TypeOK
<1>2. PICK t \in Seq(Frame) : t = Tail(stack)
  BY <1>1, HeadTailProperties DEF TypeOK
<1>3. CASE stack' = t
  BY <1>1, <1>2, <1>3, PushesNew, Silences
<1>4. CASE RunReport
  <2>1. PICK x \in Msg, p \in Proc : x = f.msg /\ p = Sender[x]
    BY <1>1, <1>4, FramesRead, SessionAssumption DEF RunReport, Running
  <2>2. AddMessage(p, Live(x), t, t)
    BY <1>2, <1>4, <2>1 DEF RunReport
  <2>3. stack' = t \/ stack' = <<Deactivate(p)>> \o t
    BY <2>2, AddedStack
  <2>4. Deactivate(p) \in Silent
    BY Silences
  <2> QED
    BY <1>1, <1>2, <2>3, <2>4, PushesNew, Silences
<1>5. CASE RunDeactivate
  <2>1. PICK p \in Proc : p = f.proc
    BY <1>1, <1>5, FramesRead DEF RunDeactivate, Running
  <2>2. stack' = t \/ stack' = <<Unread(p), Unanswered(p), Forget(p)>> \o t
    BY <1>2, <1>5, <2>1 DEF RunDeactivate
  <2>3. Unread(p) \in Silent /\ Unanswered(p) \in Silent /\ Forget(p) \in Silent
    BY Silences
  <2> QED
    BY <1>1, <1>2, <2>2, <2>3, PushesNew, Silences
<1> QED
  BY <1>2, <1>3, <1>4, <1>5 DEF RunReturn, ChangeRepeated, RunOrphaned, RunForget, RunRequeue, RunRedeliver

\* A handler is sought for a request that the observers have been shown.
LEMMA SeekPushes ==
    ASSUME TypeOK, GiveToHandler \/ ChangeRejected
    PROVE  stack # << >> /\ Tail(stack) \in Seq(Frame) /\ Pushes(Tail(stack), Silent \cup Seeks)
<1> DEFINE f == Head(stack)
<1>1. stack # << >> /\ f \in Frame
  <2>1. stack # << >>
    BY DEF Running, GiveToHandler, MatchEnded, ChangeRejected
  <2> QED
    BY <2>1, HeadTailProperties DEF TypeOK
<1>2. PICK t \in Seq(Frame) : t = Tail(stack)
  BY <1>1, HeadTailProperties DEF TypeOK
<1>3. PICK x \in Msg : x = f.msg
  BY <1>1, FramesRead DEF GiveToHandler, MatchEnded, ChangeRejected, Running
<1>4. Deliver(x, FALSE) \in Silent \cup Seeks /\ Silent \cup Seeks \in SUBSET Frame
  BY Silences
<1>5. CASE ChangeRejected
  <2>1. stack' = <<Deliver(x, FALSE)>> \o t
    BY <1>2, <1>3, <1>5 DEF ChangeRejected, Rematch
  <2> QED
    BY <1>1, <1>2, <1>4, <2>1, PushesNew
<1>6. CASE GiveToHandler
  <2>1. PICK b \in Proc : b = f.best
    BY <1>1, <1>6, FramesRead DEF GiveToHandler, MatchEnded, Running
  <2>2. AddMessage(b, Live(x), <<Return(TRUE)>> \o t, <<Deliver(x, FALSE)>> \o t)
    BY <1>2, <1>3, <1>6, <2>1 DEF GiveToHandler
  <2>3. \/ stack' = <<Return(TRUE)>> \o t \/ stack' = <<Deliver(x, FALSE)>> \o t
        \/ stack' = <<Deactivate(b)>> \o (<<Deliver(x, FALSE)>> \o t)
    BY <2>2, AddedStack
  <2>4. Return(TRUE) \in Silent \cup Seeks /\ Deactivate(b) \in Silent \cup Seeks
    BY Silences
  <2> QED
    BY <1>1, <1>2, <1>4, <2>3, <2>4, PushesNew
<1> QED
  BY <1>5, <1>6

\* A state is about to change: the walk is over, or goes on below.
LEMMA AlterPushes ==
    ASSUME TypeOK, NoHandler \/ RunUnread \/ RunUnanswered
    PROVE  /\ stack # << >> /\ Tail(stack) \in Seq(Frame)
           /\ \/ Pushes(Tail(stack), Silent \cup Alters)
              \/ ~NoHandler /\ Pushes(stack, Silent \cup Alters)
<1> DEFINE f == Head(stack)
           X == Silent \cup Alters
<1>1. stack # << >> /\ f \in Frame /\ stack \in Seq(Frame)
  <2>1. stack # << >>
    BY DEF Running, NoHandler, MatchEnded, RunUnread, RunUnanswered
  <2> QED
    BY <2>1, HeadTailProperties DEF TypeOK
<1>2. PICK t \in Seq(Frame) : t = Tail(stack)
  BY <1>1, HeadTailProperties DEF TypeOK
<1>3. X \in SUBSET Frame
  BY Silences
<1>4. /\ \A v \in BOOLEAN : Return(v) \in X
      /\ \A x \in Msg, s \in {"QUEUED", "FAILED"} : Change(x, s) \in X
      /\ \A p \in Proc, x \in Msg, r \in BOOLEAN : Orphaned(p, x, r) \in X
  BY Silences DEF Final
<1> HIDE DEF X
<1>5. CASE stack' = t
  BY <1>1, <1>2, <1>3, <1>5, PushesNew DEF X
<1>6. CASE NoHandler
  <2>1. PICK x \in Msg : x = f.msg
    BY <1>1, <1>6, FramesRead DEF NoHandler, MatchEnded, Running
  <2>2. \/ stack' = <<Change(x, Disposition(x)), Return(FALSE)>> \o t
        \/ stack' = <<Return(TRUE)>> \o t
    BY <1>2, <1>6, <2>1 DEF NoHandler
  <2>3. Disposition(x) \in {"QUEUED", "FAILED"}
    BY DEF Disposition
  <2>4. Change(x, Disposition(x)) \in X /\ Return(TRUE) \in X /\ Return(FALSE) \in X
    BY <1>4, <2>3
  <2> QED
    BY <1>1, <1>2, <1>3, <2>2, <2>4, PushesNew DEF X
<1>7. ASSUME NEW p \in Proc, NEW x \in Msg, NEW r \in BOOLEAN,
             \/ stack' = <<Orphaned(p, x, r)>> \o stack
             \/ stack' = <<Change(x, "FAILED"), Orphaned(p, x, r)>> \o stack
      PROVE  Pushes(stack, X)
  BY <1>1, <1>3, <1>4, <1>7, PushesNew
<1>8. ASSUME RunUnread, stack' # t
      PROVE  \E p \in Proc, x \in Msg :
                \/ stack' = <<Orphaned(p, x, FALSE)>> \o stack
                \/ stack' = <<Change(x, "FAILED"), Orphaned(p, x, FALSE)>> \o stack
  <2>1. PICK p \in Proc : p = f.proc
    BY <1>1, <1>8, FramesRead DEF RunUnread, Running
  <2>2. undelivered[p] # << >>
    BY <1>2, <1>8, <2>1 DEF RunUnread
  <2>3. PICK e \in Entry : e = Head(undelivered[p])
    BY <2>2, HeadTailProperties DEF TypeOK
  <2>4. stack' = FailUnread(p, e) \o <<Orphaned(p, e.msg, FALSE)>> \o stack
    BY <1>2, <1>8, <2>1, <2>2, <2>3 DEF RunUnread
  <2>5. e.msg \in Msg
    BY DEF Entry
  <2>6. PICK b \in Frame, c \in Frame : b = Orphaned(p, e.msg, FALSE) /\ c = Change(e.msg, "FAILED")
    BY <2>5, FramesMade DEF Final
  <2>7. <<b>> \in Seq(Frame) /\ << >> \o <<b>> = <<b>> /\ <<c>> \o <<b>> = <<c, b>>
    <3>1. <<b>> \in Seq(Frame)
      OBVIOUS
    <3> QED
      BY <1>1, <3>1, ConcatEmptySeq, PushPush
  <2>8. stack' = << >> \o <<b>> \o stack \/ stack' = <<c>> \o <<b>> \o stack
    BY <2>4, <2>6 DEF FailUnread
  <2> QED
    BY <2>5, <2>6, <2>7, <2>8
<1>9. ASSUME RunUnanswered, stack' # t
      PROVE  \E p \in Proc, x \in Msg :
                stack' = <<Change(x, "FAILED"), Orphaned(p, x, TRUE)>> \o stack
  <2>1. PICK p \in Proc : p = f.proc
    BY <1>1, <1>9, FramesRead DEF RunUnanswered, Running
  <2>2. PICK x \in delivered[p] : stack' = FailUnanswered(p, x) \o stack
    BY <1>2, <1>9, <2>1 DEF RunUnanswered
  <2>3. x \in Msg
    BY DEF TypeOK
  <2> QED
    BY <2>2, <2>3 DEF FailUnanswered
<1>10. NoHandler => ~RunUnread /\ ~RunUnanswered
  BY DEF NoHandler, RunUnread, RunUnanswered, MatchEnded, Running
<1>11. CASE RunUnread /\ stack' # t
  BY <1>1, <1>2, <1>7, <1>8, <1>10, <1>11 DEF X
<1>12. CASE RunUnanswered /\ stack' # t
  BY <1>1, <1>2, <1>7, <1>9, <1>10, <1>12 DEF X
<1> QED
  BY <1>5, <1>6, <1>11, <1>12

\* The match frames of the walk f.
Goes(f) == {x \in Frame : x.op = "match" /\ x.msg = f.msg /\ x.observers = f.observers}

\* A walk starts or goes on, and the signal to an observer may fail.
LEMMA WalkPushes ==
    ASSUME TypeOK, RunDeliver \/ MatchInactive \/ MatchHandler \/ MatchObserver,
           NEW f, f = Head(stack)
    PROVE  /\ stack # << >> /\ Tail(stack) \in Seq(Frame) /\ f \in Frame
           /\ f.op \in {"deliver", "match"} /\ f.msg \in Msg
           /\ \E x \in Goes(f), p \in Proc :
                 /\ \/ stack' = <<x>> \o Tail(stack)
                    \/ stack' = <<Deactivate(p)>> \o (<<x>> \o Tail(stack)) /\ MatchObserver
                 /\ x.todo \subseteq (IF RunDeliver THEN registered ELSE f.todo)
                 /\ MatchObserver => x.todo \subseteq f.todo \ {<<p, "OBSERVE">>}
<1>1. Running("deliver") \/ Running("match")
  BY DEF RunDeliver, MatchInactive, MatchHandler, MatchObserver
<1>2. stack # << >> /\ f \in Frame /\ f.op \in {"deliver", "match"}
  BY <1>1, TopAt DEF Running
<1>3. PICK t \in Seq(Frame) : t = Tail(stack)
  BY <1>1, TopAt
<1>4. f.msg \in Msg
  BY <1>2, FramesRead
<1>5. PICK q \in Proc : q = Sender[f.msg]
  BY <1>4, SessionAssumption
<1>6. CASE RunDeliver
  <2> DEFINE x == [op |-> "match", msg |-> f.msg, observers |-> f.observers,
                   todo |-> registered, at |-> {}, best |-> NoProc]
  <2>1. f.op = "deliver"
    BY <1>6 DEF RunDeliver, Running
  <2>2. x \in Frame /\ x.todo = registered
    BY <1>2, <2>1, FramesRead DEF Frame, TypeOK
  <2>3. x.op = "match" /\ x.msg = f.msg /\ x.observers = f.observers
    OBVIOUS
  <2>4. stack' = <<x>> \o t /\ ~MatchObserver
    BY <1>3, <1>6, <2>1 DEF RunDeliver, MatchObserver, Running
  <2> HIDE DEF x
  <2>5. x \in Goes(f)
    BY <2>2, <2>3 DEF Goes
  <2> QED
    BY <1>2, <1>3, <1>4, <1>6, <2>2, <2>4, <2>5
<1>7. CASE ~RunDeliver
  <2>1. f.op = "match" /\ Running("match")
    BY <1>7 DEF MatchInactive, MatchHandler, MatchObserver, Running
  <2>2. f.msg \in Msg /\ f.todo \in SUBSET Pattern /\ f.best \in Proc \cup {NoProc}
    BY <1>2, <2>1, FramesRead
  <2>3. \A pat \in Left(f) : pat \in Pattern /\ pat[1] \in Proc
    BY <2>2 DEF Left, Pattern
  <2>4. \A pat \in Pattern : Visit(f, pat) \in Goes(f) /\ Visit(f, pat).todo = f.todo \ {pat}
    <3> SUFFICES ASSUME NEW pat \in Pattern
                 PROVE  Visit(f, pat) \in Goes(f) /\ Visit(f, pat).todo = f.todo \ {pat}
      OBVIOUS
    <3>1. Visit(f, pat) \in Frame
      <4>1. f.todo \ {pat} \in SUBSET Pattern /\ {pat} \in SUBSET Pattern
        BY <2>2
      <4> QED
        BY <1>2, <2>1, <2>2, <4>1, MatchFrame DEF Visit
    <3>2. /\ Visit(f, pat).op = "match" /\ Visit(f, pat).msg = f.msg
          /\ Visit(f, pat).observers = f.observers /\ Visit(f, pat).todo = f.todo \ {pat}
      BY <1>2, <2>1 DEF Visit, Frame
    <3> QED
      BY <3>1, <3>2 DEF Goes
  <2>5. CASE MatchInactive /\ ~MatchObserver
    <3> DEFINE x == [f EXCEPT !.todo = {}, !.at = {}]
    <3>1. x \in Frame
      BY <1>2, <2>1, <2>2, MatchFrame
    <3>2. x.op = "match" /\ x.msg = f.msg /\ x.observers = f.observers /\ x.todo = {}
      BY <1>2, <2>1 DEF Frame
    <3>3. stack' = <<x>> \o t
      BY <1>3, <2>5 DEF MatchInactive
    <3> HIDE DEF x
    <3>4. x \in Goes(f)
      BY <3>1, <3>2 DEF Goes
    <3> QED
      BY <1>2, <1>3, <1>4, <1>5, <1>7, <3>2, <3>3, <3>4
  <2>6. CASE MatchHandler /\ ~MatchObserver
    <3>1. PICK pat \in Left(f), b \in Proc \cup {NoProc} :
             stack' = <<[Visit(f, pat) EXCEPT !.best = b]>> \o t /\ pat[2] = "HANDLE"
      BY <1>3, <2>2, <2>3, <2>6 DEF MatchHandler
    <3> DEFINE x == [Visit(f, pat) EXCEPT !.best = b]
    <3>2. x \in Frame
      BY <1>2, <2>1, <2>2, <2>3, VisitFrame
    <3>3. x.op = "match" /\ x.msg = f.msg /\ x.observers = f.observers /\ x.todo = f.todo \ {pat}
      BY <1>2, <2>1 DEF Visit, Frame
    <3>4. stack' = <<x>> \o t
      BY <3>1
    <3> HIDE DEF x
    <3>5. x \in Goes(f)
      BY <3>2, <3>3 DEF Goes
    <3> QED
      BY <1>2, <1>3, <1>4, <1>5, <1>7, <2>6, <3>3, <3>4, <3>5
  <2>7. CASE MatchObserver
    <3>1. PICK pat \in Left(f) :
             /\ pat[2] = "OBSERVE"
             /\ IF f.observers
                THEN AddMessage(pat[1], [msg |-> f.msg, seen |-> state[f.msg]],
                                <<Visit(f, pat)>> \o t, <<Visit(f, pat)>> \o t)
                ELSE stack' = <<Visit(f, pat)>> \o t /\ UNCHANGED <<undelivered, signalled, heap>>
      BY <1>3, <2>7 DEF MatchObserver
    <3>2. PICK p \in Proc : p = pat[1]
      BY <2>3
    <3>3. PICK x \in Goes(f) : x = Visit(f, pat) /\ x.todo = f.todo \ {pat}
      BY <2>3, <2>4
    <3>4. stack' = <<x>> \o t \/ stack' = <<Deactivate(p)>> \o (<<x>> \o t)
      BY <3>1, <3>2, <3>3, AddedStack
    <3>5. pat = <<p, "OBSERVE">>
      BY <2>3, <3>1, <3>2 DEF Pattern
    <3> QED
      BY <1>2, <1>3, <1>4, <1>7, <2>7, <3>3, <3>4, <3>5
  <2> QED
    BY <1>7, <2>5, <2>6, <2>7
<1> QED
  BY <1>6, <1>7

\* The frames of other kinds than op.
Without(op) == {f \in Frame : f.op # op}

\* What is pushed of X is pushed of any larger set.
LEMMA PushesMore ==
    ASSUME NEW s, NEW X, NEW Y, X \subseteq Y, Pushes(s, X) PROVE Pushes(s, Y)
<1>1. PICK new \in Seq(X) : stack' = new \o s
  BY DEF Pushes
<1>2. new \in Seq(Y)
  OBVIOUS
<1> QED
  BY <1>1, <1>2 DEF Pushes

\* A walk pushes its next match, and the failure of a signal perhaps.
LEMMA WalkNew ==
    ASSUME TypeOK, RunDeliver \/ MatchInactive \/ MatchHandler \/ MatchObserver
    PROVE  Pushes(Tail(stack), Silent \cup Goes(Head(stack)))
<1>1. PICK f : f = Head(stack)
  OBVIOUS
<1>2. PICK t \in Seq(Frame) : t = Tail(stack)
  BY WalkPushes
<1>3. PICK x \in Goes(f), p \in Proc :
         stack' = <<x>> \o t \/ stack' = <<Deactivate(p)>> \o (<<x>> \o t)
  BY <1>1, <1>2, WalkPushes
<1> DEFINE X == Silent \cup Goes(f)
<1>4. x \in X /\ Deactivate(p) \in X /\ X \in SUBSET Frame
  BY Silences DEF Goes
<1> HIDE DEF X
<1>5. Pushes(t, X)
  BY <1>3, <1>4, PushesNew
<1> QED
  BY <1>1, <1>2, <1>5 DEF X

\* Where no request is queued, none is offered again.
LEMMA NoneTakenUp ==
    ASSUME TypeOK, BaseInv, Queueable = {}, RunRedeliver PROVE stack' = Tail(stack)
<1> SUFFICES ASSUME stack' # Tail(stack) PROVE FALSE
  OBVIOUS
<1>1. Running("redeliver") /\ Head(stack).todo # {}
  BY DEF RunRedeliver
<1>2. /\ Len(stack) \in Levels /\ At(stack, Len(stack)) = Head(stack)
      /\ Head(stack).op = "redeliver" /\ Head(stack) \in Frame
  BY <1>1, TopAt DEF Levels
<1>3. PICK m \in Msg : m \in Head(stack).todo
  BY <1>1, <1>2, FramesRead
<1>4. QueuedOk(m)
  BY DEF BaseInv, RequestInv
<1> QED
  BY <1>2, <1>3, <1>4 DEF QueuedOk

\* Only an end pushes a report; only the search for a handler that fails, and the
\* failure of what a process has not answered, push a change of state.
LEMMA RunWithout ==
    ASSUME TypeOK, BaseInv, Queueable = {}, \A m \in Msg : PlaceInv(m), Run, heap' = "intact"
    PROVE  /\ stack # << >> /\ Tail(stack) \in Seq(Frame)
           /\ ~RunReport => Head(stack).op # "report"
           /\ ~ChangeFinal => \/ Pushes(Tail(stack), Without("report"))
                              \/ Pushes(stack, Without("report"))
           /\ ~NoHandler /\ ~RunUnread /\ ~RunUnanswered => Pushes(Tail(stack), Without("change"))
<1>0. /\ Silent \subseteq Without("report") /\ Seeks \subseteq Without("report")
      /\ Alters \subseteq Without("report") /\ Goes(Head(stack)) \subseteq Without("report")
      /\ Silent \subseteq Without("change") /\ Seeks \subseteq Without("change")
      /\ Goes(Head(stack)) \subseteq Without("change")
  BY DEF Without, Silent, Seeks, Alters, Goes
<1>1. ~RunReport => Head(stack).op # "report"
  BY DEF Run, RunDeliver, MatchHosed, MatchInactive, MatchHandler, MatchObserver, MatchEnded,
         GiveToHandler, NoHandler, RunReturn, ChangeRepeated, ChangeFinal, ChangeQueued,
         ChangeRejected, RunReport, RunDeactivate, RunUnread, RunUnanswered, RunOrphaned,
         RunForget, RunRedeliver, RunRequeue, Running
<1>2. ~MatchHosed /\ ~ChangeQueued
  BY NoneQueued DEF MatchHosed
<1>3. CASE RunDeliver \/ MatchInactive \/ MatchHandler \/ MatchObserver
  <2>1. Pushes(Tail(stack), Silent \cup Goes(Head(stack)))
    BY <1>3, WalkNew
  <2>2. Pushes(Tail(stack), Without("report")) /\ Pushes(Tail(stack), Without("change"))
    BY <1>0, <2>1, PushesMore
  <2> QED
    BY <1>1, <1>3, <2>2, WalkPushes
<1>4. CASE GiveToHandler \/ ChangeRejected
  <2>1. Pushes(Tail(stack), Without("report")) /\ Pushes(Tail(stack), Without("change"))
    BY <1>0, <1>4, SeekPushes, PushesMore
  <2> QED
    BY <1>1, <1>4, <2>1, SeekPushes
<1>5. CASE NoHandler \/ RunUnread \/ RunUnanswered
  <2>1. Pushes(Tail(stack), Without("report")) \/ Pushes(stack, Without("report"))
    BY <1>0, <1>5, AlterPushes, PushesMore
  <2> QED
    BY <1>1, <1>5, <2>1, AlterPushes
<1>6. CASE \/ RunReturn \/ ChangeRepeated \/ RunReport \/ RunDeactivate
           \/ RunOrphaned \/ RunForget \/ RunRequeue \/ (RunRedeliver /\ stack' = Tail(stack))
  <2>1. Pushes(Tail(stack), Without("report")) /\ Pushes(Tail(stack), Without("change"))
    BY <1>0, <1>6, SilentPushes, PushesMore
  <2> QED
    BY <1>1, <1>6, <2>1, SilentPushes
<1>7. CASE RunRedeliver /\ stack' # Tail(stack)
  BY <1>7, NoneTakenUp
<1>8. CASE ChangeFinal
  <2>1. Running("change")
    BY <1>8 DEF ChangeFinal
  <2>2. PICK x \in Msg, t \in Seq(Frame) : x = Head(stack).msg /\ t = Tail(stack)
    BY <2>1, ChangeTop
  <2>3. stack' = <<Deliver(x, TRUE), Report(x)>> \o t /\ ~RunReport
    BY <1>8, <2>2 DEF ChangeFinal, Announce, RunReport, Running
  <2>4. Deliver(x, TRUE) \in Without("change") /\ Report(x) \in Without("change")
    BY FramesMade DEF Without, Deliver, Report
  <2>5. Without("change") \in SUBSET Frame
    BY DEF Without
  <2>6. Pushes(t, Without("change"))
    BY <2>3, <2>4, <2>5, PushesNew
  <2> QED
    BY <1>1, <1>8, <2>1, <2>2, <2>3, <2>6, ChangeTop
<1> QED
  BY <1>2, <1>3, <1>4, <1>5, <1>6, <1>7, <1>8 DEF Run

-----------------------------------------------------------------------------
(* A request whose state changes has been read. *)

\* Whoever a request is given to has read it when its state changes, or is lost.
EndRead(m) == \A f \in ToSet(stack) : f.op = "change" /\ f.msg = m /\ handler[m] # NoProc =>
    ~active[handler[m]] \/ ~Has(undelivered[handler[m]], m)

\* What a search for a handler that has failed is to change.
LEMMA NoHandlerChanges ==
    ASSUME TypeOK, BaseInv, NoHandler
    PROVE  \A f \in ToSet(stack') : f.op = "change" => f.msg = Head(stack).msg /\ state[f.msg] = "SENT"
<1>1. stack # << >> /\ Head(stack) \in Frame /\ Head(stack).op = "match"
  BY TopAt DEF NoHandler, MatchEnded, Running
<1>2. PICK x \in Msg, t \in Seq(Frame) : x = Head(stack).msg /\ t = Tail(stack)
  BY <1>1, FramesRead, HeadTailProperties DEF TypeOK
<1>3. \/ stack' = <<Return(TRUE)>> \o t
      \/ state[x] = "SENT" /\ stack' = <<Change(x, Disposition(x)), Return(FALSE)>> \o t
  BY <1>2 DEF NoHandler
<1>4. Disposition(x) \in {"QUEUED", "FAILED"}
  BY DEF Disposition
<1>5. /\ Return(TRUE) \in Frame /\ Return(FALSE) \in Frame /\ Change(x, Disposition(x)) \in Frame
      /\ Return(TRUE).op = "return" /\ Return(FALSE).op = "return"
      /\ Change(x, Disposition(x)).msg = x
  BY <1>4, FramesMade DEF Return, Change, Final
<1>6. \A f \in ToSet(t) : f.op # "change"
  BY <1>1, <1>2, Below
<1>7. CASE stack' = <<Return(TRUE)>> \o t
  <2>1. ToSet(stack') = {Return(TRUE)} \cup ToSet(t)
    BY <1>5, <1>7, StackedTwo
  <2> QED
    BY <1>5, <1>6, <2>1
<1>8. CASE state[x] = "SENT" /\ stack' = <<Change(x, Disposition(x)), Return(FALSE)>> \o t
  <2>1. ToSet(stack') = {Change(x, Disposition(x)), Return(FALSE)} \cup ToSet(t)
    BY <1>5, <1>8, StackedTwo
  <2> QED
    BY <1>2, <1>5, <1>6, <1>8, <2>1
<1> QED
  BY <1>3, <1>7, <1>8

\* A search for a handler that has failed: the former handler is lost.
LEMMA EndReadNoHandler ==
    ASSUME TypeOK, BaseInv, NoHandler, NEW m \in Msg PROVE EndRead(m)'
<1>1. /\ Head(stack) \in Frame /\ Head(stack).op = "match"
      /\ Len(stack) \in Levels /\ At(stack, Len(stack)) = Head(stack)
  BY TopAt DEF NoHandler, MatchEnded, Levels
<1>2. PICK x \in Msg : x = Head(stack).msg
  BY <1>1, FramesRead
<1>3. UNCHANGED <<active, handler, undelivered>>
  BY DEF NoHandler, procVars, msgVars
<1>4. \A f \in ToSet(stack') : f.op = "change" => f.msg = x /\ state[x] = "SENT"
  BY <1>2, NoHandlerChanges
<1>5. state[x] = "SENT" /\ handler[x] # NoProc => ~active[handler[x]]
  <2>1. Transit(x) /\ Walks(Len(stack), x)
    BY <1>1, <1>2 DEF BaseInv, RequestInv, Walks
  <2> QED
    BY <1>1, <2>1 DEF Transit, Dead, Final
<1> QED
  BY <1>3, <1>4, <1>5 DEF EndRead

\* What is failed for an inactive process was given to that process.
LEMMA CursorChanges ==
    ASSUME TypeOK, BaseInv, RunUnread \/ RunUnanswered
    PROVE  \E p \in Proc : ~active[p] /\ \A f \in ToSet(stack') : f.op = "change" => handler[f.msg] = p
<1>1. /\ stack # << >> /\ Head(stack) \in Frame /\ Head(stack).op \in {"unread", "unanswered"}
      /\ Len(stack) \in Levels /\ At(stack, Len(stack)) = Head(stack) /\ stack \in Seq(Frame)
  <2>1. Running("unread") \/ Running("unanswered")
    BY DEF RunUnread, RunUnanswered
  <2>2. stack # << >> /\ Head(stack).op \in {"unread", "unanswered"} /\ stack \in Seq(Frame)
    BY <2>1 DEF Running, TypeOK
  <2>3. Head(stack) \in Frame /\ Len(stack) \in Nat \ {0} /\ At(stack, Len(stack)) = Head(stack)
    BY <2>1, TopAt
  <2> QED
    BY <2>2, <2>3 DEF Levels
<1>2. PICK p \in Proc : p = Head(stack).proc
  BY <1>1, FramesRead
<1>3. ~active[p]
  BY <1>1, <1>2 DEF BaseInv, FramesInv, DeadFrames, Cursors
<1>4. ToSet(stack) = {Head(stack)} \cup ToSet(Tail(stack)) /\ Tail(stack) \in Seq(Frame)
  BY <1>1, Stacked
<1>5. \A f \in ToSet(stack) : f.op # "change"
  BY <1>1, <1>4, Below
<1> SUFFICES \A f \in ToSet(stack') : f.op = "change" => handler[f.msg] = p
  BY <1>3
<1>6. ASSUME NEW x \in Msg, NEW o \in Frame, o.op = "orphaned",
             \/ stack' = <<o>> \o stack
             \/ stack' = <<Change(x, "FAILED"), o>> \o stack /\ handler[x] = p
      PROVE  \A f \in ToSet(stack') : f.op = "change" => handler[f.msg] = p
  <2>1. Change(x, "FAILED") \in Frame /\ Change(x, "FAILED").msg = x
    BY FramesMade DEF Change, Final
  <2>2. CASE stack' = <<o>> \o stack
    <3>1. ToSet(stack') = {o} \cup ToSet(stack)
      BY <1>1, <1>6, <2>2, StackedTwo
    <3> QED
      BY <1>5, <1>6, <3>1
  <2>3. CASE stack' = <<Change(x, "FAILED"), o>> \o stack /\ handler[x] = p
    <3>1. ToSet(stack') = {Change(x, "FAILED"), o} \cup ToSet(stack)
      BY <1>1, <1>6, <2>1, <2>3, StackedTwo
    <3> QED
      BY <1>5, <1>6, <2>1, <2>3, <3>1
  <2> QED
    BY <1>6, <2>2, <2>3
<1>7. CASE stack' = Tail(stack)
  BY <1>4, <1>5, <1>7
<1>8. CASE RunUnread /\ stack' # Tail(stack)
  <2> DEFINE e == Head(undelivered[p])
  <2>1. /\ undelivered[p] # << >>
        /\ stack' = FailUnread(p, e) \o <<Orphaned(p, e.msg, FALSE)>> \o stack
    BY <1>2, <1>8 DEF RunUnread
  <2>2. e \in Entry
    BY <2>1, HeadTailProperties DEF TypeOK
  <2>3. PICK x \in Msg : x = e.msg
    BY <2>2 DEF Entry
  <2>4. PICK o \in Frame, c \in Frame : /\ o = Orphaned(p, x, FALSE) /\ o.op = "orphaned"
                                        /\ c = Change(x, "FAILED")
    BY FramesMade DEF Orphaned, Final
  <2>5. FailUnread(p, e) = << >> \/ (FailUnread(p, e) = <<c>> /\ handler[x] = p)
    BY <2>3, <2>4 DEF FailUnread, Processing
  <2>6. \/ stack' = << >> \o <<o>> \o stack
        \/ stack' = <<c>> \o <<o>> \o stack /\ handler[x] = p
    BY <2>1, <2>3, <2>4, <2>5
  <2>7. << >> \o <<o>> = <<o>> /\ <<c>> \o <<o>> = <<c, o>>
    <3>1. <<o>> \in Seq(Frame)
      OBVIOUS
    <3> QED
      BY <1>1, <3>1, ConcatEmptySeq, PushPush
  <2> HIDE DEF e
  <2>8. \/ stack' = <<o>> \o stack
        \/ stack' = <<Change(x, "FAILED"), o>> \o stack /\ handler[x] = p
    BY <2>4, <2>6, <2>7
  <2> QED
    BY <1>6, <2>4, <2>8
<1>9. CASE RunUnanswered /\ stack' # Tail(stack)
  <2>1. PICK x \in delivered[p] : stack' = FailUnanswered(p, x) \o stack
    BY <1>2, <1>9 DEF RunUnanswered
  <2>2. x \in Msg
    BY DEF TypeOK
  <2>3. handler[x] = p
    BY <2>2 DEF BaseInv, RequestInv, ReadOk
  <2>4. PICK o \in Frame : o = Orphaned(p, x, TRUE) /\ o.op = "orphaned"
    BY <2>2, FramesMade DEF Orphaned
  <2>5. stack' = <<Change(x, "FAILED"), o>> \o stack
    BY <2>1, <2>4 DEF FailUnanswered
  <2> QED
    BY <1>6, <2>2, <2>3, <2>4, <2>5
<1> QED
  BY <1>7, <1>8, <1>9

\* A step keeps what is known of the change that is to be made.
LEMMA EndReadRun ==
    ASSUME TypeOK, BaseInv, Queueable = {}, \A x \in Msg : PlaceInv(x), Run, heap' = "intact",
           NEW m \in Msg
    PROVE  EndRead(m)'
<1>1. CASE NoHandler
  BY <1>1, EndReadNoHandler
<1>2. CASE RunUnread \/ RunUnanswered
  <2>1. PICK p \in Proc : ~active[p] /\ \A f \in ToSet(stack') : f.op = "change" => handler[f.msg] = p
    BY <1>2, CursorChanges
  <2>2. UNCHANGED <<active, handler>>
    BY <1>2 DEF RunUnread, RunUnanswered, procVars, msgVars
  <2> QED
    BY <2>1, <2>2 DEF EndRead
<1>3. CASE ~NoHandler /\ ~RunUnread /\ ~RunUnanswered
  <2>1. stack # << >> /\ Pushes(Tail(stack), Without("change")) /\ Tail(stack) \in Seq(Frame)
    BY <1>3, RunWithout
  <2>2. PICK t \in Seq(Frame) : t = Tail(stack) /\ Pushes(t, Without("change"))
    BY <2>1
  <2>3. Without("change") \in SUBSET Frame
    BY DEF Without
  <2>4. \A f \in ToSet(stack') : f \in Without("change") \/ f \in ToSet(t)
    BY <2>2, <2>3, PushesSet
  <2>5. \A f \in ToSet(t) : f.op # "change"
    BY <2>1, <2>2, Below
  <2> QED
    BY <2>4, <2>5 DEF EndRead, Without
<1> QED
  BY <1>1, <1>2, <1>3

\* What begins a call of the main loop changes the state of a request sent just now,
\* or of one whose reader updates it.
LEMMA EndReadServe ==
    ASSUME TypeOK, BaseInv, NEW p \in Proc, ServeRpc(p) \/ Hangup(p), NEW m \in Msg
    PROVE  EndRead(m)'
<1>1. stack = << >>
  BY DEF ServeRpc, Hangup, ServeRegister, ServeUnregister, ServeJoin, ServeSend, ServeNext,
         ServeUpdate, ServeClose, Serve, Idle
<1>2. ToSet(<< >>) = {} /\ \A d \in Levels : FALSE
  <2>1. ToSet(<< >>) = {}
    BY DEF ToSet
  <2>2. \A d \in Levels : FALSE
    BY <1>1 DEF Levels
  <2> QED
    BY <2>1, <2>2
<1>3. CASE ServeSend(p)
  <2>1. /\ Serve(p, "send") /\ UNCHANGED <<alive, plan, active, channel>>
        /\ UNCHANGED <<undelivered, delivered, handler, reported>>
    BY <1>3 DEF ServeSend
  <2>2. PICK c \in Call : c = Head(rpc[p]) /\ c.call = "send" /\ Takes(p, c)
    BY <2>1, ServeTakes
  <2>3. PICK x \in Msg : x = c.msg /\ c = [call |-> "send", msg |-> x]
    BY <2>2 DEF Call
  <2>4. handler[x] = NoProc
    <3>1. 1 \in 1 .. Len(rpc[p]) /\ rpc[p][1] = c
      BY <2>2, TakesCalls DEF BaseInv
    <3>2. state[x] = "CREATED"
      BY <2>3, <3>1 DEF BaseInv, Sending
    <3> QED
      BY <3>2 DEF BaseInv, RequestInv, Created
  <2>5. \A f \in ToSet(stack') : f.op = "change" => f.msg = x
    <3>1. stack' \in {<<Change(x, "FAILED"), Deliver(x, TRUE)>>, <<Deliver(x, TRUE)>>}
      BY <1>3, <2>2, <2>3 DEF ServeSend
    <3>2. ToSet(stack') \subseteq {Change(x, "FAILED"), Deliver(x, TRUE)}
      <4>1. ToSet(<<Deliver(x, TRUE)>>) = {Deliver(x, TRUE)}
        BY ShortStack
      <4>2. ToSet(<<Change(x, "FAILED"), Deliver(x, TRUE)>>) = {Change(x, "FAILED"), Deliver(x, TRUE)}
        BY ShortStack
      <4> QED
        BY <3>1, <4>1, <4>2
    <3>3. Change(x, "FAILED").msg = x /\ Deliver(x, TRUE).op = "deliver"
      BY DEF Change, Deliver
    <3> QED
      BY <3>2, <3>3
  <2> QED
    BY <2>1, <2>4, <2>5 DEF EndRead
<1>4. CASE ServeUpdate(p)
  <2>1. /\ Serve(p, "update")
        /\ UNCHANGED <<alive, plan, active, channel, undelivered, state, handler, reported>>
    BY <1>4 DEF ServeUpdate, msgVars
  <2>2. PICK c \in Call : c = Head(rpc[p]) /\ c.call = "update" /\ Takes(p, c)
    BY <2>1, ServeTakes
  <2>3. PICK x \in Msg : x = c.msg
    BY <2>2 DEF Call
  <2>4. stack' = << >> \/ (x \in delivered[p] /\ stack' = <<Change(x, c.to)>>)
    BY <1>4, <2>2, <2>3 DEF ServeUpdate
  <2>5. CASE stack' = << >>
    BY <1>2, <2>5 DEF EndRead
  <2>6. CASE x \in delivered[p] /\ stack' = <<Change(x, c.to)>>
    <3>1. ReadOk(x) /\ UnreadOk(x)
      BY DEF BaseInv, RequestInv
    <3>2. handler[x] = p /\ state[x] = "SENT"
      BY <1>2, <2>6, <3>1 DEF ReadOk
    <3>3. ~Has(undelivered[p], x)
      BY <2>6, <3>1, <3>2, SessionAssumption DEF UnreadOk, Given, Final
    <3>4. \A f \in ToSet(stack') : f.msg = x
      <4>1. ToSet(stack') = {Change(x, c.to)}
        BY <2>6, ShortStack
      <4>2. Change(x, c.to).msg = x
        BY DEF Change
      <4> QED
        BY <4>1, <4>2
    <3> QED
      BY <2>1, <3>2, <3>3, <3>4 DEF EndRead
  <2> QED
    BY <2>4, <2>5, <2>6
<1>5. CASE ~ServeSend(p) /\ ~ServeUpdate(p)
  <2>1. stack' \in {<< >>, <<Redeliver(queued)>>, <<Deactivate(p)>>}
    BY <1>1, <1>5 DEF ServeRpc, Hangup, ServeRegister, ServeUnregister, ServeJoin, ServeNext,
                      ServeClose
  <2>2. Redeliver(queued).op = "redeliver" /\ Deactivate(p).op = "deactivate"
    BY DEF Redeliver, Deactivate
  <2>3. \A f \in ToSet(stack') : f.op # "change"
    BY <1>2, <2>1, <2>2, ShortStack
  <2> QED
    BY <2>3 DEF EndRead
<1> QED
  BY <1>3, <1>4, <1>5

\* So does every step.
LEMMA EndReadStep ==
    ASSUME TypeOK, BaseInv, Queueable = {}, \A x \in Msg : PlaceInv(x),
           [Next]_vars, heap' = "intact", NEW m \in Msg, EndRead(m)
    PROVE  EndRead(m)'
<1>1. ASSUME NEW p \in Proc, Client(p) PROVE EndRead(m)'
  BY <1>1 DEF Client, AskPlanned, AskNext, AskUpdate, Die, Ask, procVars, msgVars, EndRead
<1>2. CASE UNCHANGED vars
  BY <1>2 DEF vars, EndRead
<1> QED
  BY <1>1, <1>2, EndReadRun, EndReadServe DEF Next

-----------------------------------------------------------------------------
(* The sender is told once. *)

\* The end of m is to be reported to its sender; the sender has it in its list; the
\* sender has been shown an end, and nothing else.
Reporting(m) == Report(m) \in ToSet(stack)
InList(m) == Has(undelivered[Sender[m]], m)
Told(m) == \E s \in Final : told[m] = <<s>>

\* The end of a request is reported once; before it, the sender is shown nothing.
ReportedOnce(m) == AtMostOne(stack, {Report(m)})
Untold(m) == state[m] \notin Final => told[m] = << >>

\* An active sender is about to be told, or will read the end, or has been shown it.
ToldOnce(m) == state[m] \in Final /\ active[Sender[m]] =>
    \/ Reporting(m) /\ ~InList(m) /\ told[m] = << >>
    \/ ~Reporting(m) /\ InList(m) /\ told[m] = << >>
    \/ ~Reporting(m) /\ ~InList(m) /\ Told(m)

ToldOf(m) == EndRead(m) /\ ReportedOnce(m) /\ Untold(m) /\ ToldOnce(m)
ToldInv == heap = "intact" => \A m \in Msg : ToldOf(m)

\* A frame is pushed on at most one of its kind.
LEMMA AtMostPush ==
    ASSUME NEW s \in Seq(Frame), NEW f \in Frame, NEW X, AtMostOne(s, X),
           f \in X => X \cap ToSet(s) = {}
    PROVE  AtMostOne(<<f>> \o s, X)
<1> DEFINE u == <<f>> \o s
<1>1. /\ Len(s) \in Nat /\ Len(u) = Len(s) + 1 /\ u[1] = f
      /\ \A i \in 1 .. Len(s) + 1 : i # 1 => u[i] = s[i - 1]
  BY ConcatProperties, LenProperties
<1> HIDE DEF u
<1>2. \A i \in 1 .. Len(s) : s[i] \in ToSet(s)
  BY DEF ToSet
<1>3. \A i \in 1 .. Len(u) : i # 1 => i - 1 \in 1 .. Len(s) /\ u[i] = s[i - 1]
  BY <1>1
<1>4. ASSUME NEW i \in 1 .. Len(u), NEW j \in 1 .. Len(u), u[i] \in X, u[j] \in X PROVE i = j
  <2>1. CASE i # 1 /\ j # 1
    <3>1. i - 1 = j - 1
      BY <1>3, <1>4, <2>1 DEF AtMostOne
    <3> QED
      BY <3>1
  <2>2. CASE i = 1 /\ j # 1
    BY <1>1, <1>2, <1>3, <1>4, <2>2
  <2>3. CASE i # 1 /\ j = 1
    BY <1>1, <1>2, <1>3, <1>4, <2>3
  <2> QED
    BY <2>1, <2>2, <2>3
<1> QED
  BY <1>4 DEF AtMostOne, u

\* What there is at most one of is not below itself.
LEMMA AtMostBelow ==
    ASSUME NEW s \in Seq(Frame), s # << >>, NEW X, AtMostOne(s, X)
    PROVE  AtMostOne(Tail(s), X) /\ (Head(s) \in X => X \cap ToSet(Tail(s)) = {})
<1> DEFINE t == Tail(s)
<1>1. /\ Len(s) \in Nat \ {0} /\ Head(s) = s[1] /\ t \in Seq(Frame)
      /\ Len(t) = Len(s) - 1 /\ \A i \in 1 .. Len(t) : t[i] = s[i + 1]
  BY EmptySeq, HeadTailProperties
<1> HIDE DEF t
<1>2. \A i \in 1 .. Len(t) : i + 1 \in 1 .. Len(s) /\ i + 1 # 1 /\ t[i] = s[i + 1]
  BY <1>1
<1>3. ASSUME NEW i \in 1 .. Len(t), NEW j \in 1 .. Len(t), t[i] \in X, t[j] \in X PROVE i = j
  <2>1. i + 1 = j + 1
    BY <1>2, <1>3 DEF AtMostOne
  <2> QED
    BY <2>1
<1>4. ASSUME Head(s) \in X, NEW f \in X, f \in ToSet(t) PROVE FALSE
  <2>1. PICK i \in 1 .. Len(t) : f = t[i]
    BY <1>1, <1>4 DEF ToSet
  <2>2. 1 \in 1 .. Len(s)
    BY <1>1
  <2> QED
    BY <1>1, <1>2, <1>4, <2>1, <2>2 DEF AtMostOne
<1> QED
  BY <1>3, <1>4 DEF AtMostOne, t

\* The reports of m on the stack stay as they are.
ReportsStay(m) == (Reporting(m)' <=> Reporting(m)) /\ (ReportedOnce(m) => ReportedOnce(m)')

\* They do so when the frame that runs is none of them, and none is pushed.
LEMMA ReportsKept ==
    ASSUME TypeOK, stack # << >>, NEW m \in Msg, Head(stack) # Report(m),
           Pushes(Tail(stack), Without("report")) \/ Pushes(stack, Without("report"))
    PROVE  ReportsStay(m)
<1> DEFINE X == Without("report")
           Y == {Report(m)}
<1>1. /\ stack \in Seq(Frame) /\ Tail(stack) \in Seq(Frame)
      /\ ToSet(stack) = {Head(stack)} \cup ToSet(Tail(stack))
  BY Stacked DEF TypeOK
<1>2. X \in SUBSET Frame /\ Y \cap X = {}
  BY DEF Without, Report
<1>3. PICK s \in Seq(Frame) : Pushes(s, X) /\ s \in {stack, Tail(stack)}
  BY <1>1
<1>4. AtMostOne(stack, Y) => AtMostOne(s, Y)
  BY <1>1, <1>3, AtMostBelow
<1>5. Report(m) \in ToSet(stack) <=> Report(m) \in ToSet(s)
  BY <1>1, <1>3
<1>6. Report(m) \notin X
  BY <1>2
<1> HIDE DEF X, Y
<1>7. /\ \A f \in ToSet(stack') : f \in X \/ f \in ToSet(s)
      /\ ToSet(s) \subseteq ToSet(stack')
      /\ AtMostOne(s, Y) => AtMostOne(stack', Y)
  BY <1>2, <1>3, PushesSet
<1>8. ReportedOnce(m) => ReportedOnce(m)'
  BY <1>4, <1>7 DEF ReportedOnce, Y
<1>9. Reporting(m)' <=> Reporting(m)
  BY <1>5, <1>6, <1>7 DEF Reporting
<1> QED
  BY <1>8, <1>9 DEF ReportsStay

\* A step that ends no request, shows nothing to the sender of m, and neither reports m
\* nor takes it from a sender that stays active.
Calm(m) ==
    /\ state'[m] \in Final <=> state[m] \in Final
    /\ told'[m] = told[m]
    /\ ReportsStay(m)
    /\ state[m] \in Final /\ active'[Sender[m]] => active[Sender[m]] /\ (InList(m)' <=> InList(m))

\* It keeps what the sender has been told.
LEMMA CalmKeeps ==
    ASSUME NEW m \in Msg, ReportedOnce(m), Untold(m), ToldOnce(m), Calm(m)
    PROVE  ReportedOnce(m)' /\ Untold(m)' /\ ToldOnce(m)'
<1>1. ReportedOnce(m)' /\ Untold(m)'
  BY DEF Calm, ReportsStay, Untold
<1>2. Told(m)' <=> Told(m)
  BY DEF Calm, Told
<1>3. ToldOnce(m)'
  BY <1>2 DEF Calm, ReportsStay, ToldOnce
<1> QED
  BY <1>1, <1>3

\* A message is added to the list of p: the others see no difference.
LEMMA AddedLists ==
    ASSUME TypeOK, NEW p \in Proc, NEW e \in Entry, NEW ok, NEW bad, AddMessage(p, e, ok, bad),
           NEW m \in Msg, e # Live(m)
    PROVE  \A q \in Proc : Has(undelivered'[q], m) <=> Has(undelivered[q], m)
<1>1. /\ \A q \in Proc \ {p} : undelivered'[q] = undelivered[q]
      /\ Has(undelivered'[p], m) <=> Has(undelivered[p], m) \/ (e = Live(m) /\ ~Gone(p))
  BY AddMessageEffect
<1> QED
  BY <1>1

\* An observer's copy is no request.
LEMMA ObserverLists ==
    ASSUME TypeOK, MatchObserver, NEW m \in Msg
    PROVE  \A q \in Proc : Has(undelivered'[q], m) <=> Has(undelivered[q], m)
<1>1. Head(stack).op = "match" /\ Head(stack) \in Frame
  BY TopAt DEF MatchObserver
<1>2. PICK x \in Msg : x = Head(stack).msg
  BY <1>1, FramesRead
<1>3. PICK e \in Entry : e = [msg |-> x, seen |-> state[x]] /\ e # Live(m)
  <2>1. state[x] \in State
    BY DEF TypeOK
  <2> QED
    BY <2>1, Copied
<1>4. \/ undelivered' = undelivered
      \/ \E p \in Proc : \E next : AddMessage(p, e, next, next)
  <2>1. Head(stack).todo \in SUBSET Pattern
    BY <1>1, FramesRead
  <2>2. \A pat \in Left(Head(stack)) : pat[1] \in Proc
    BY <2>1 DEF Left, Pattern
  <2> QED
    BY <1>2, <1>3, <2>2 DEF MatchObserver
<1> QED
  BY <1>3, <1>4, AddedLists

\* Every step of the server's own code is calm, but the end of m and its report.
LEMMA RunCalm ==
    ASSUME TypeOK, TypeOK', BaseInv, Queueable = {}, \A x \in Msg : PlaceInv(x),
           Run, heap' = "intact", NEW m \in Msg,
           ~(ChangeFinal /\ Head(stack).msg = m), ~(RunReport /\ Head(stack).msg = m)
    PROVE  Calm(m)
<1>1. Sender[m] \in Proc
  BY SessionAssumption
<1>2. told' = told
  BY DEF Run, RunDeliver, MatchHosed, MatchInactive, MatchHandler, MatchObserver,
         GiveToHandler, NoHandler, RunReturn, ChangeRepeated, ChangeFinal, ChangeQueued,
         ChangeRejected, RunReport, RunDeactivate, RunUnread, RunUnanswered, RunOrphaned,
         RunForget, RunRedeliver, RunRequeue
<1>3. stack # << >> /\ Tail(stack) \in Seq(Frame) /\ Head(stack) \in Frame
  BY RunWithout, HeadTailProperties DEF TypeOK
<1>4. PICK x, h : x = h.msg /\ h = Head(stack)
  OBVIOUS
<1>7. PICK t \in Seq(Frame) : t = Tail(stack)
  BY <1>3
<1>5. CASE ChangeFinal
  <2>1. x \in Msg /\ state[x] = "SENT" /\ h.op = "change"
    BY <1>4, <1>5, ChangeTop DEF ChangeFinal
  <2>2. /\ state' = [state EXCEPT ![x] = h.to] /\ x # m
        /\ stack' = <<Deliver(x, TRUE), Report(x)>> \o t
        /\ UNCHANGED <<active, undelivered>>
    BY <1>4, <1>5, <1>7 DEF ChangeFinal, Announce, procVars
  <2>3. state'[m] = state[m]
    BY <2>2 DEF TypeOK
  <2>4. PICK d \in Frame, r \in Frame : /\ d = Deliver(x, TRUE) /\ r = Report(x)
                                        /\ d # Report(m) /\ r # Report(m)
    <3>1. Deliver(x, TRUE) \in Frame /\ Report(x) \in Frame
      BY <2>1, FramesMade
    <3>2. Deliver(x, TRUE) # Report(m) /\ Report(x) # Report(m)
      BY <2>2 DEF Deliver, Report
    <3> QED
      BY <3>1, <3>2
  <2>5. PICK u \in Seq(Frame) : u = <<r>> \o t
    BY <2>4, Push
  <2>6. stack' = <<d>> \o u
    BY <2>2, <2>4, <2>5, PushPush
  <2>7. AtMostOne(stack, {Report(m)}) => AtMostOne(stack', {Report(m)})
    <3>1. AtMostOne(stack, {Report(m)}) => AtMostOne(t, {Report(m)})
      BY <1>3, <1>7, AtMostBelow DEF TypeOK
    <3>2. AtMostOne(t, {Report(m)}) => AtMostOne(u, {Report(m)})
      BY <2>4, <2>5, AtMostPush
    <3>3. AtMostOne(u, {Report(m)}) => AtMostOne(stack', {Report(m)})
      BY <2>4, <2>6, AtMostPush
    <3> QED
      BY <3>1, <3>2, <3>3
  <2>8. Report(m) \in ToSet(stack') <=> Report(m) \in ToSet(stack)
    <3>1. ToSet(stack') = {d, r} \cup ToSet(t)
      <4>1. ToSet(u) = {r} \cup ToSet(t)
        BY <2>4, <2>5, StackedTwo
      <4>2. ToSet(stack') = {d} \cup ToSet(u)
        BY <2>4, <2>6, StackedTwo
      <4> QED
        BY <4>1, <4>2
    <3>2. ToSet(stack) = {h} \cup ToSet(t)
      BY <1>3, <1>4, <1>7, Stacked DEF TypeOK
    <3>3. h # Report(m)
      BY <2>1 DEF Report
    <3> QED
      BY <2>4, <3>1, <3>2, <3>3
  <2>9. ReportsStay(m)
    BY <2>7, <2>8 DEF ReportsStay, ReportedOnce, Reporting
  <2> QED
    BY <1>2, <2>2, <2>3, <2>9 DEF Calm, InList
<1>6. CASE ~ChangeFinal
  <2>1. Head(stack) # Report(m)
    <3>1. CASE RunReport
      BY <3>1 DEF Report
    <3>2. CASE ~RunReport
      BY <3>2, RunWithout DEF Report
    <3> QED
      BY <3>1, <3>2
  <2>2. ReportsStay(m)
    BY <1>3, <1>6, <2>1, RunWithout, ReportsKept
  <2>3. state'[m] \in Final <=> state[m] \in Final
    <3>1. CASE GiveToHandler
      <4>1. h.op = "match" /\ h.best # NoProc /\ h \in ToSet(stack)
        BY <1>3, <1>4, <3>1, Stacked DEF GiveToHandler, MatchEnded, Running, TypeOK
      <4>2. state[x] = "SENT"
        BY <1>4, <4>1, OnStack
      <4>3. state' = [state EXCEPT ![x] = "SENT"]
        BY <1>4, <3>1 DEF GiveToHandler
      <4> QED
        BY <4>2, <4>3 DEF TypeOK
    <3>2. CASE ChangeRejected
      <4>1. state[x] = "SENT" /\ state' = [state EXCEPT ![x] = "SENT"]
        BY <1>4, <3>2, ChangeTop DEF ChangeRejected
      <4> QED
        BY <4>1 DEF TypeOK
    <3>3. CASE RunRedeliver \/ RunRequeue \/ ChangeQueued
      BY <3>3, NoneQueued
    <3>4. CASE ~GiveToHandler /\ ~ChangeRejected /\ ~RunRedeliver /\ ~RunRequeue /\ ~ChangeQueued
      <4>1. state' = state
        BY <1>6, <3>4 DEF Run, RunDeliver, MatchHosed, MatchInactive, MatchHandler, MatchObserver,
             NoHandler, RunReturn, ChangeRepeated, RunReport, RunDeactivate, RunUnread,
             RunUnanswered, RunOrphaned, RunForget, msgVars
      <4> QED
        BY <4>1
    <3> QED
      BY <3>1, <3>2, <3>3, <3>4
  <2>4. active'[Sender[m]] => active[Sender[m]]
    <3>1. CASE RunDeactivate
      <4>1. active' = active \/ active' = [active EXCEPT ![h.proc] = FALSE]
        BY <1>4, <3>1 DEF RunDeactivate
      <4> QED
        BY <1>1, <4>1 DEF TypeOK
    <3>2. CASE ~RunDeactivate
      BY <1>6, <3>2 DEF Run, RunDeliver, MatchHosed, MatchInactive, MatchHandler, MatchObserver,
           GiveToHandler, NoHandler, RunReturn, ChangeRepeated, ChangeQueued, ChangeRejected,
           RunReport, RunUnread, RunUnanswered, RunOrphaned, RunForget, RunRedeliver, RunRequeue,
           procVars
    <3> QED
      BY <3>1, <3>2
  <2>5. state[m] \in Final /\ active'[Sender[m]] => (InList(m)' <=> InList(m))
    <3>1. CASE MatchObserver
      BY <1>1, <3>1, ObserverLists DEF InList
    <3>2. CASE GiveToHandler
      <4>1. h.op = "match" /\ h.best # NoProc /\ h \in ToSet(stack)
        BY <1>3, <1>4, <3>2, Stacked DEF GiveToHandler, MatchEnded, Running, TypeOK
      <4>2. x \in Msg /\ h.best \in Proc /\ state[x] = "SENT"
        BY <1>3, <1>4, <4>1, OnStack, FramesRead
      <4>3. state[m] \in Final => Live(x) # Live(m)
        BY <4>2 DEF Live, Final
      <4>4. Live(x) \in Entry
        BY <4>2 DEF Live, Entry
      <4>5. AddMessage(h.best, Live(x), <<Return(TRUE)>> \o t, <<Deliver(x, FALSE)>> \o t)
        BY <1>4, <1>7, <3>2 DEF GiveToHandler
      <4> QED
        BY <1>1, <4>2, <4>3, <4>4, <4>5, AddedLists DEF InList
    <3>3. CASE RunReport
      <4>1. x \in Msg /\ x # m
        BY <1>3, <1>4, <3>3, FramesRead DEF RunReport, Running
      <4>2. Live(x) \in Entry /\ Live(x) # Live(m) /\ Sender[x] \in Proc
        BY <4>1, SessionAssumption DEF Live, Entry
      <4>3. AddMessage(Sender[x], Live(x), t, t)
        BY <1>4, <1>7, <3>3 DEF RunReport
      <4> QED
        BY <1>1, <4>2, <4>3, AddedLists DEF InList
    <3>4. CASE RunOrphaned
      <4>1. /\ Len(stack) \in Levels /\ At(stack, Len(stack)) = h
            /\ h.op = "orphaned"
        BY <1>4, <3>4, TopAt DEF RunOrphaned, Levels
      <4>2. h.proc \in Proc /\ ~active[h.proc]
        BY <1>3, <1>4, <4>1, FramesRead DEF BaseInv, FramesInv, DeadFrames, Cursors
      <4>3. \A q \in Proc \ {h.proc} : undelivered'[q] = undelivered[q]
        BY <1>4, <3>4, OrphanedTop
      <4> QED
        BY <1>1, <2>4, <4>2, <4>3 DEF InList
    <3>5. CASE ~MatchObserver /\ ~GiveToHandler /\ ~RunReport /\ ~RunOrphaned
      <4>1. undelivered' = undelivered
        BY <1>6, <3>5 DEF Run, RunDeliver, MatchHosed, MatchInactive, MatchHandler,
             NoHandler, RunReturn, ChangeRepeated, ChangeQueued, ChangeRejected,
             RunDeactivate, RunUnread, RunUnanswered, RunForget, RunRedeliver, RunRequeue, procVars
      <4> QED
        BY <4>1 DEF InList
    <3> QED
      BY <3>1, <3>2, <3>3, <3>4, <3>5
  <2> QED
    BY <1>2, <2>2, <2>3, <2>4, <2>5 DEF Calm
<1> QED
  BY <1>5, <1>6

\* The end of m: its sender has not read it, nor been told of it before.
LEMMA EndTold ==
    ASSUME TypeOK, TypeOK', BaseInv, Queueable = {}, \A x \in Msg : PlaceInv(x),
           ChangeFinal, NEW m \in Msg, Head(stack).msg = m, ToldOf(m)
    PROVE  ReportedOnce(m)' /\ Untold(m)' /\ ToldOnce(m)'
<1>1. /\ stack # << >> /\ Head(stack).op = "change" /\ Head(stack) \in ToSet(stack)
      /\ state[m] = "SENT" /\ stack \in Seq(Frame) /\ Tail(stack) \in Seq(Frame)
  BY ChangeTop DEF ChangeFinal, TypeOK
<1>2. PICK t \in Seq(Frame) : t = Tail(stack)
  BY <1>1
<1>3. /\ state' = [state EXCEPT ![m] = Head(stack).to] /\ Head(stack).to \in Final
      /\ stack' = <<Deliver(m, TRUE), Report(m)>> \o t
      /\ UNCHANGED <<active, undelivered, told>>
  BY <1>2 DEF ChangeFinal, Announce, procVars
<1>4. state'[m] \in Final
  BY <1>3 DEF TypeOK
<1>5. Report(m) \notin ToSet(stack)
  <2>1. Report(m).op = "report" /\ Report(m).msg = m
    BY DEF Report
  <2> QED
    BY <1>1, <2>1, OnStack DEF Final
<1>6. Report(m) \notin ToSet(t)
  BY <1>1, <1>2, <1>5, Stacked
<1>7. PICK d \in Frame, r \in Frame : d = Deliver(m, TRUE) /\ r = Report(m) /\ d # r
  <2>1. Deliver(m, TRUE) \in Frame /\ Report(m) \in Frame /\ Deliver(m, TRUE) # Report(m)
    BY FramesMade DEF Deliver, Report
  <2> QED
    BY <2>1
<1>8. PICK u \in Seq(Frame) : u = <<r>> \o t
  BY <1>7, Push
<1>9. stack' = <<d>> \o u
  BY <1>3, <1>7, <1>8, PushPush
<1>10. ReportedOnce(m)'
  <2>1. AtMostOne(t, {r})
    BY <1>6, <1>7 DEF AtMostOne, ToSet
  <2>2. AtMostOne(u, {r})
    BY <1>6, <1>7, <1>8, <2>1, AtMostPush
  <2>3. AtMostOne(stack', {r})
    BY <1>7, <1>9, <2>2, AtMostPush
  <2> QED
    BY <1>7, <2>3 DEF ReportedOnce
<1>11. Reporting(m)'
  <2>1. ToSet(stack') = {d, r} \cup ToSet(t)
    <3>1. ToSet(u) = {r} \cup ToSet(t)
      BY <1>7, <1>8, StackedTwo
    <3>2. ToSet(stack') = {d} \cup ToSet(u)
      BY <1>7, <1>9, StackedTwo
    <3> QED
      BY <3>1, <3>2
  <2> QED
    BY <1>7, <2>1 DEF Reporting
<1>12. told'[m] = << >>
  BY <1>1, <1>3 DEF ToldOf, Untold, Final
<1>13. active[Sender[m]] => ~InList(m)
  <2> SUFFICES ASSUME active[Sender[m]], InList(m) PROVE FALSE
    OBVIOUS
  <2>1. Sender[m] \in Proc
    BY SessionAssumption
  <2>2. handler[m] = Sender[m]
    BY <1>1, <2>1 DEF PlaceInv, OthersDead, InList
  <2>3. handler[m] # NoProc
    BY <2>1, <2>2, SessionAssumption
  <2> QED
    BY <1>1, <2>2, <2>3 DEF ToldOf, EndRead, InList
<1>14. ToldOnce(m)'
  BY <1>3, <1>11, <1>12, <1>13 DEF ToldOnce, InList
<1> QED
  BY <1>4, <1>10, <1>14 DEF Untold

\* The report of m: it is the only one, and the sender has m in its list then.
LEMMA ReportTold ==
    ASSUME TypeOK, TypeOK', BaseInv, Queueable = {}, \A x \in Msg : PlaceInv(x),
           RunReport, heap' = "intact", NEW m \in Msg, Head(stack).msg = m, ToldOf(m)
    PROVE  ReportedOnce(m)' /\ Untold(m)' /\ ToldOnce(m)'
<1>1. /\ stack # << >> /\ Head(stack) \in Frame /\ Head(stack).op = "report"
      /\ stack \in Seq(Frame) /\ Tail(stack) \in Seq(Frame)
  BY TopAt DEF RunReport, Running, TypeOK
<1>2. Head(stack) = Report(m) /\ Head(stack) \in ToSet(stack)
  BY <1>1, Stacked DEF Frame, Report
<1>3. state[m] \in Final
  <2>1. QueuedOk(m)
    BY DEF BaseInv, RequestInv
  <2> QED
    BY <1>1, <1>2, <2>1, OnStack DEF QueuedOk
<1>4. PICK p \in Proc, t \in Seq(Frame) : p = Sender[m] /\ t = Tail(stack)
  BY <1>1, SessionAssumption
<1>5. AddMessage(p, Live(m), t, t) /\ UNCHANGED <<state, active, told>>
  BY <1>4 DEF RunReport, msgVars
<1>6. Live(m) \in Entry
  BY DEF Live, Entry
<1>7. Has(undelivered'[p], m) <=> Has(undelivered[p], m) \/ ~Gone(p)
  BY <1>5, <1>6, AddMessageEffect
<1> DEFINE X == Silent
           Y == {Report(m)}
<1>8. Pushes(t, X) /\ X \in SUBSET Frame /\ Y \cap X = {}
  <2>1. Pushes(t, X)
    BY <1>4, SilentPushes
  <2> QED
    BY <2>1 DEF Silent, Report
<1>9. AtMostOne(t, Y) /\ Report(m) \notin ToSet(t)
  BY <1>1, <1>2, <1>4, AtMostBelow DEF ToldOf, ReportedOnce
<1> HIDE DEF X, Y
<1>10. /\ \A f \in ToSet(stack') : f \in X \/ f \in ToSet(t)
       /\ AtMostOne(stack', Y)
  BY <1>8, <1>9, PushesSet
<1>11. ReportedOnce(m)' /\ ~Reporting(m)'
  BY <1>8, <1>9, <1>10 DEF ReportedOnce, Reporting, Y
<1>12. active[p] => InList(m)' /\ told[m] = << >>
  BY <1>2, <1>3, <1>4, <1>7 DEF Gone, ToldOf, ToldOnce, Reporting, InList
<1>13. ToldOnce(m)'
  BY <1>4, <1>5, <1>11, <1>12 DEF ToldOnce
<1> QED
  BY <1>3, <1>5, <1>11, <1>13 DEF Untold

\* The sender reads its list: the end of m, if it is there, is shown and taken off.
LEMMA NextTold ==
    ASSUME TypeOK, TypeOK', BaseInv, Queueable = {}, \A x \in Msg : PlaceInv(x),
           NEW p \in Proc, ServeNext(p), NEW m \in Msg, ToldOf(m)
    PROVE  ReportedOnce(m)' /\ Untold(m)' /\ ToldOnce(m)'
<1>1. /\ Serve(p, "next") /\ UNCHANGED <<alive, plan, active, channel>>
      /\ UNCHANGED <<state, handler, stack>>
  BY DEF ServeNext, msgVars
<1>2. PICK c \in Call : c = Head(rpc[p]) /\ c.call = "next" /\ Takes(p, c)
  BY <1>1, ServeTakes
<1>3. active[p]
  <2>1. 1 \in 1 .. Len(rpc[p]) /\ rpc[p][1] = c
    BY <1>2, TakesCalls DEF BaseInv
  <2> QED
    BY <1>2, <2>1 DEF BaseInv, CallsInv, Lost, Awaits
<1>4. stack = << >> /\ ToSet(<< >>) = {}
  BY <1>1 DEF Serve, Idle, ToSet
<1>5. ReportsStay(m) /\ ~Reporting(m)
  BY <1>1, <1>4 DEF ReportsStay, Reporting, ReportedOnce
<1>6. PICK q \in Proc : q = Sender[m]
  BY SessionAssumption
<1>7. PICK u \in Seq(Entry) : u = undelivered[p]
  BY DEF TypeOK
<1>8. /\ \A o \in Proc : o # p => undelivered'[o] = undelivered[o]
      /\ undelivered'[p] = IF u # << >> THEN Tail(u) ELSE u
  BY <1>7 DEF ServeNext, TypeOK
<1>9. Once(u)
  BY <1>7 DEF BaseInv, ListsInv, NoneTwice
<1>10. (u # << >> /\ Head(u) = Live(m)) => Has(u, m)
  <2>1. u # << >> => 1 \in 1 .. Len(u) /\ Head(u) = u[1]
    BY EmptySeq, HeadTailProperties
  <2> QED
    BY <2>1 DEF Has
<1>11. CASE u # << >> /\ Head(u) = Live(m) /\ q = p /\ ~Processing(p, m)
  <2>1. Has(undelivered[p], m) /\ InList(m)
    BY <1>6, <1>7, <1>10, <1>11 DEF InList
  <2>2. state[m] \in Final
    <3>1. state[m] \in State
      BY DEF TypeOK
    <3>2. state[m] # "CREATED"
      BY <2>1 DEF BaseInv, RequestInv, Created
    <3>3. state[m] # "QUEUED"
      BY DEF BaseInv, RequestInv, QueuedOk
    <3>4. state[m] # "SENT"
      <4>1. state[m] = "SENT" => handler[m] = p
        BY <1>3, <2>1 DEF PlaceInv, OthersDead
      <4> QED
        BY <1>11, <4>1 DEF Processing, Final
    <3> QED
      BY <3>1, <3>2, <3>3, <3>4 DEF State
  <2>3. told[m] = << >>
    BY <1>3, <1>5, <1>6, <1>11, <2>1, <2>2 DEF ToldOf, ToldOnce
  <2>4. told' = [told EXCEPT ![m] = Append(@, state[m])]
    <3>1. Head(u).seen = "LIVE" /\ Head(u).msg = m
      BY <1>11 DEF Live
    <3> QED
      BY <1>6, <1>7, <1>11, <3>1 DEF ServeNext
  <2>5. told'[m] = <<state[m]>>
    BY <2>3, <2>4 DEF TypeOK
  <2>6. Told(m)'
    BY <2>2, <2>5 DEF Told
  <2>7. ~InList(m)'
    <3>1. ~Has(Tail(u), m)
      BY <1>9, <1>11, PoppedList
    <3> QED
      BY <1>6, <1>8, <1>11, <3>1 DEF InList
  <2>8. ToldOnce(m)'
    BY <1>5, <2>6, <2>7 DEF ReportsStay, ToldOnce
  <2> QED
    BY <1>1, <1>5, <2>2, <2>8 DEF ReportsStay, ToldOf, Untold
<1>12. CASE ~(u # << >> /\ Head(u) = Live(m) /\ q = p /\ ~Processing(p, m))
  <2>1. told'[m] = told[m]
    <3>1. u # << >> /\ Head(u).seen = "LIVE" /\ Head(u).msg = m => Head(u) = Live(m)
      <4>1. u # << >> => Head(u) \in Entry
        BY HeadTailProperties
      <4> QED
        BY <4>1 DEF Entry, Live
    <3> QED
      BY <1>6, <1>7, <1>12, <3>1 DEF ServeNext, TypeOK
  <2>2. state[m] \in Final => (InList(m)' <=> InList(m))
    <3>1. CASE q # p
      BY <1>6, <1>8, <3>1 DEF InList
    <3>2. CASE q = p
      <4>1. state[m] \in Final => ~(u # << >> /\ Head(u) = Live(m))
        BY <1>12, <3>2 DEF Processing
      <4>2. state[m] \in Final => (Has(undelivered'[p], m) <=> Has(u, m))
        BY <1>8, <4>1, PoppedList
      <4> QED
        BY <1>6, <1>7, <3>2, <4>2 DEF InList
    <3> QED
      BY <3>1, <3>2
  <2>3. Calm(m)
    BY <1>1, <1>5, <2>1, <2>2 DEF Calm
  <2> QED
    BY <2>3, CalmKeeps DEF ToldOf
<1> QED
  BY <1>11, <1>12

\* The other calls of the main loop tell the sender nothing.
LEMMA ServeCalm ==
    ASSUME TypeOK, BaseInv, NEW p \in Proc, ServeRpc(p) \/ Hangup(p), ~ServeNext(p), NEW m \in Msg
    PROVE  Calm(m)
<1>1. stack = << >> /\ UNCHANGED <<told, active, undelivered>>
  BY DEF ServeRpc, Hangup, ServeRegister, ServeUnregister, ServeJoin, ServeSend,
         ServeUpdate, ServeClose, Serve, Idle
<1>2. ToSet(<< >>) = {}
  BY DEF ToSet
<1>3. ~Reporting(m)' /\ ReportedOnce(m)'
  <2>1. ASSUME NEW f, f.op # "report", stack' = << >> \/ stack' = <<f>>
        PROVE  ~Reporting(m)' /\ ReportedOnce(m)'
    <3>1. ToSet(stack') \subseteq {f}
      BY <1>2, <2>1, ShortStack
    <3>2. Report(m).op = "report"
      BY DEF Report
    <3>3. \A i, j \in 1 .. Len(stack') : i = j
      <4>1. PICK n \in {0, 1} : n = Len(stack')
        BY <2>1
      <4>2. \A i, j \in 1 .. n : i = j
        OBVIOUS
      <4> QED
        BY <4>1, <4>2
    <3> QED
      BY <2>1, <3>1, <3>2, <3>3 DEF Reporting, ReportedOnce, AtMostOne
  <2>2. ASSUME NEW f, NEW g, f.op # "report", g.op # "report", stack' = <<f, g>>
        PROVE  ~Reporting(m)' /\ ReportedOnce(m)'
    <3>1. ToSet(stack') \subseteq {f, g}
      BY <2>2, ShortStack
    <3>2. Report(m).op = "report"
      BY DEF Report
    <3>3. \A i \in 1 .. Len(stack') : stack'[i] \in {f, g}
      BY <2>2
    <3> QED
      BY <2>2, <3>1, <3>2, <3>3 DEF Reporting, ReportedOnce, AtMostOne
  <2>3. CASE ServeSend(p)
    <3>1. PICK x : x = Head(rpc[p]).msg
      OBVIOUS
    <3>2. stack' = <<Change(x, "FAILED"), Deliver(x, TRUE)>> \/ stack' = <<Deliver(x, TRUE)>>
      BY <2>3, <3>1 DEF ServeSend
    <3>3. Change(x, "FAILED").op # "report" /\ Deliver(x, TRUE).op # "report"
      BY DEF Change, Deliver
    <3> QED
      BY <2>1, <2>2, <3>2, <3>3
  <2>4. CASE ServeUpdate(p)
    <3>1. PICK f : f = Change(Head(rpc[p]).msg, Head(rpc[p]).to) /\ f.op # "report"
      <4>1. Change(Head(rpc[p]).msg, Head(rpc[p]).to).op # "report"
        BY DEF Change
      <4> QED
        BY <4>1
    <3>2. stack' = << >> \/ stack' = <<f>>
      BY <2>4, <3>1 DEF ServeUpdate
    <3> QED
      BY <2>1, <3>1, <3>2
  <2>5. CASE ~ServeSend(p) /\ ~ServeUpdate(p)
    <3>1. stack' \in {<< >>, <<Redeliver(queued)>>, <<Deactivate(p)>>}
      BY <1>1, <2>5 DEF ServeRpc, Hangup, ServeRegister, ServeUnregister, ServeJoin,
                        ServeClose
    <3>2. Redeliver(queued).op # "report" /\ Deactivate(p).op # "report"
      BY DEF Redeliver, Deactivate
    <3> QED
      BY <2>1, <3>1, <3>2
  <2> QED
    BY <2>3, <2>4, <2>5
<1>4. ReportsStay(m)
  BY <1>1, <1>2, <1>3 DEF ReportsStay, Reporting
<1>5. state'[m] \in Final <=> state[m] \in Final
  <2>1. CASE ServeSend(p)
    <3>1. Serve(p, "send") /\ UNCHANGED <<alive, plan, active, channel>>
      BY <2>1 DEF ServeSend
    <3>2. PICK c \in Call : c = Head(rpc[p]) /\ c.call = "send" /\ Takes(p, c)
      BY <3>1, ServeTakes
    <3>3. PICK x \in Msg : x = c.msg /\ c = [call |-> "send", msg |-> x]
      BY <3>2 DEF Call
    <3>4. state[x] = "CREATED"
      <4>1. 1 \in 1 .. Len(rpc[p]) /\ rpc[p][1] = c
        BY <3>2, TakesCalls DEF BaseInv
      <4> QED
        BY <3>3, <4>1 DEF BaseInv, Sending
    <3>5. state' = [state EXCEPT ![x] = "SENT"]
      BY <2>1, <3>2, <3>3 DEF ServeSend
    <3> QED
      BY <3>4, <3>5 DEF TypeOK, Final
  <2>2. CASE ~ServeSend(p)
    BY <2>2 DEF ServeRpc, Hangup, ServeRegister, ServeUnregister, ServeJoin, ServeUpdate,
                ServeClose, msgVars
  <2> QED
    BY <2>1, <2>2
<1> QED
  BY <1>1, <1>4, <1>5 DEF Calm, InList

\* Every step keeps what the senders have been told.
LEMMA ToldStep ==
    ASSUME TypeOK, TypeOK', SessionInv, LossInv, ToldInv, Queueable = {}, [Next]_vars
    PROVE  ToldInv'
<1> SUFFICES ASSUME heap' = "intact", NEW m \in Msg PROVE ToldOf(m)'
  BY DEF ToldInv
<1>1. BaseInv /\ (\A x \in Msg : PlaceInv(x)) /\ ToldOf(m)
  BY HeapStays DEF SessionInv, LossInv, ToldInv
<1>2. EndRead(m)'
  BY <1>1, EndReadStep DEF ToldOf
<1>3. ReportedOnce(m)' /\ Untold(m)' /\ ToldOnce(m)'
  <2>1. CASE Calm(m)
    BY <1>1, <2>1, CalmKeeps DEF ToldOf
  <2>2. CASE Run
    <3>1. CASE ChangeFinal /\ Head(stack).msg = m
      BY <1>1, <3>1, EndTold
    <3>2. CASE RunReport /\ Head(stack).msg = m
      BY <1>1, <3>2, ReportTold
    <3> QED
      BY <1>1, <2>1, <2>2, <3>1, <3>2, RunCalm
  <2>3. ASSUME NEW p \in Proc, ServeRpc(p) \/ Hangup(p)
        PROVE  ReportedOnce(m)' /\ Untold(m)' /\ ToldOnce(m)'
    BY <1>1, <2>1, <2>3, NextTold, ServeCalm
  <2>4. CASE UNCHANGED <<state, told, stack, active, undelivered>>
    BY <1>1, <2>4 DEF ToldOf, ReportedOnce, Untold, ToldOnce, Reporting, InList, Told
  <2>5. ASSUME NEW p \in Proc, Client(p) PROVE UNCHANGED <<state, told, stack, active, undelivered>>
    BY <2>5 DEF Client, AskPlanned, AskNext, AskUpdate, Die, Ask, procVars, msgVars
  <2>6. UNCHANGED vars => UNCHANGED <<state, told, stack, active, undelivered>>
    BY DEF vars
  <2> QED
    BY <2>2, <2>3, <2>4, <2>5, <2>6 DEF Next
<1> QED
  BY <1>2, <1>3 DEF ToldOf

\* Before the server runs nothing has been told.
LEMMA ToldInit == ASSUME Init PROVE ToldInv
<1> SUFFICES ASSUME NEW m \in Msg PROVE ToldOf(m)
  BY DEF ToldInv
<1>1. stack = << >> /\ state[m] = "CREATED" /\ told[m] = << >>
  BY DEF Init
<1>2. ToSet(stack) = {}
  BY <1>1 DEF ToSet
<1>3. EndRead(m) /\ ReportedOnce(m)
  BY <1>1, <1>2 DEF EndRead, ReportedOnce, AtMostOne
<1>4. Untold(m) /\ ToldOnce(m)
  BY <1>1 DEF Untold, ToldOnce, Final
<1> QED
  BY <1>3, <1>4 DEF ToldOf

\* When the server is idle, nothing is left to be reported.
LEMMA TellsSender ==
    ASSUME TypeOK, ToldInv PROVE SenderTold
<1> SUFFICES ASSUME Idle, NEW m \in Msg, state[m] \in Final, active[Sender[m]]
             PROVE  LET ends == {i \in DOMAIN told[m] : told[m][i] \in Final}
                    IN IF Live(m) \in ToSet(undelivered[Sender[m]])
                       THEN ends = {}
                       ELSE \E i \in ends : ends = {i}
  BY DEF SenderTold
<1> DEFINE ends == {i \in DOMAIN told[m] : told[m][i] \in Final}
<1>1. ToldOnce(m) /\ stack = << >>
  BY DEF Idle, ToldInv, ToldOf
<1>2. ~Reporting(m)
  BY <1>1 DEF Reporting, ToSet
<1>3. Live(m) \in ToSet(undelivered[Sender[m]]) <=> InList(m)
  <2>1. PICK u \in Seq(Entry) : u = undelivered[Sender[m]]
    BY SessionAssumption DEF TypeOK
  <2>2. Live(m) \in ToSet(u) <=> Has(u, m)
    BY DEF Has, ToSet
  <2> QED
    BY <2>1, <2>2 DEF InList
<1>4. CASE InList(m)
  <2>1. told[m] = << >>
    BY <1>1, <1>2, <1>4 DEF ToldOnce
  <2> QED
    BY <1>3, <1>4, <2>1
<1>5. CASE ~InList(m)
  <2>1. PICK s \in Final : told[m] = <<s>>
    BY <1>1, <1>2, <1>5 DEF ToldOnce, Told
  <2>2. ends = {1}
    BY <2>1
  <2> QED
    BY <1>3, <1>5, <2>2
<1> QED
  BY <1>4, <1>5

\* The sender of a request learns its end, and once: whenever the server is back in its
\* main loop, the sender of every request that has ended, unless it is gone, has been
\* shown the end exactly once, or has it in its list and has been shown none. The
\* sessions are those of NoneLostAlways.
THEOREM SenderToldAlways ==
    ASSUME ReadsWhenSignalled, Queueable = {} PROVE Spec => []SenderTold
<1>1. Init => LossInv /\ ToldInv
  BY LossInit, ToldInit
<1>2. TypeOK /\ TypeOK' /\ SessionInv /\ SessionInv' /\ LossInv /\ [Next]_vars => LossInv'
  BY LossStep
<1>3. TypeOK /\ TypeOK' /\ SessionInv /\ LossInv /\ ToldInv /\ [Next]_vars => ToldInv'
  BY ToldStep
<1>4. TypeOK /\ ToldInv => SenderTold
  BY TellsSender
<1>5. Spec => [](TypeOK /\ SessionInv)
  BY SessionAlways
<1> QED
  BY <1>1, <1>2, <1>3, <1>4, <1>5, PTL DEF Spec

-----------------------------------------------------------------------------
(* The observers are shown each state once, in order. *)

\* The frames that show m to the observers, or go on doing so.
ShowFrames(m) ==
    [op : {"deliver"}, msg : {m}, observers : {TRUE}]
      \cup [op : {"match"}, msg : {m}, observers : {TRUE}, todo : SUBSET Pattern,
            at : SUBSET Pattern, best : Proc \cup {NoProc}]
ShownOnce(m) == AtMostOne(stack, ShowFrames(m))

\* The entry e is a copy of m; the observer p has a copy of m as it is now.
Copy(e, m) == e.msg = m /\ e.seen # "LIVE"
Shown(p, m) == \E i \in 1 .. Len(undelivered[p]) :
    undelivered[p][i] = [msg |-> m, seen |-> state[m]]

\* The copies of m are of states that it has been in.
SeenOk(m) == \A p \in Proc : \A i \in 1 .. Len(undelivered[p]) : Copy(undelivered[p][i], m) =>
    \/ undelivered[p][i].seen = "SENT" /\ state[m] # "CREATED"
    \/ undelivered[p][i].seen \in Final /\ undelivered[p][i].seen = state[m]

\* What is shown is new: m has been given to nobody yet, or has ended; and the observers
\* that the walk has not come to have no copy of it as it is.
ShowNew(m) == \A f \in ToSet(stack) : f \in ShowFrames(m) =>
    /\ (state[m] = "SENT" /\ handler[m] = NoProc) \/ state[m] \in Final
    /\ f.op = "deliver" => \A p \in Proc : ~Shown(p, m)
    /\ f.op = "match" => \A p \in Proc : <<p, "OBSERVE">> \in f.todo => ~Shown(p, m)

\* While m is shown its state is not about to change.
ChangeUnshown(m) == \A f, g \in ToSet(stack) : f.op = "change" /\ f.msg = m => g \notin ShowFrames(m)

\* In the list u the copy of m as it was sent comes before the one as it ended.
Ordered(u, m) == \A i, j \in 1 .. Len(u) : i < j /\ Copy(u[i], m) /\ Copy(u[j], m) =>
    u[i].seen = "SENT" /\ u[j].seen \in Final

Good == Msg \ BadAddress
ShowOf(m) == ShownOnce(m) /\ SeenOk(m) /\ ShowNew(m) /\ ChangeUnshown(m)
ShowInv == heap = "intact" => \A m \in Good : ShowOf(m)
OrderInv == \A m \in Good : \A p \in Proc : Ordered(undelivered[p], m)

\* The copies of m in t are copies in u, in the same order.
Thins(u, t, m) ==
    /\ \A i \in 1 .. Len(t) : Copy(t[i], m) => \E k \in 1 .. Len(u) : u[k] = t[i]
    /\ \A i, j \in 1 .. Len(t) : i < j /\ Copy(t[i], m) /\ Copy(t[j], m) =>
          \E k, l \in 1 .. Len(u) : k < l /\ u[k] = t[i] /\ u[l] = t[j]


\* A list loses its first entry, gains one that is no copy, or the request itself is moved.
LEMMA ThinLists ==
    ASSUME NEW u \in Seq(Entry), NEW m, NEW t
    PROVE  /\ t = u => Thins(u, t, m)
           /\ u # << >> /\ t = Tail(u) => Thins(u, t, m)
           /\ \A e \in Entry : ~Copy(e, m) /\ t = Append(u, e) => Thins(u, t, m)
           /\ \A e \in Entry : \A i \in 1 .. Len(u) :
                 u[i] = e /\ e.seen = "LIVE" /\ t = Append(RemoveAt(u, i), e) => Thins(u, t, m)
<1>0. Len(u) \in Nat
  BY LenProperties
<1>1. ASSUME t = u PROVE Thins(u, t, m)
  BY <1>1 DEF Thins
<1>2. ASSUME u # << >>, t = Tail(u) PROVE Thins(u, t, m)
  <2>1. /\ Len(u) \in Nat \ {0} /\ Len(t) = Len(u) - 1
        /\ \A i \in 1 .. Len(t) : t[i] = u[i + 1]
    BY <1>2, EmptySeq, HeadTailProperties
  <2>2. \A i \in 1 .. Len(t) : i + 1 \in 1 .. Len(u)
    BY <2>1
  <2>3. \A i, j \in 1 .. Len(t) : i < j => i + 1 < j + 1
    BY <2>1
  <2> QED
    BY <2>1, <2>2, <2>3 DEF Thins
<1>3. ASSUME NEW e \in Entry, ~Copy(e, m), t = Append(u, e) PROVE Thins(u, t, m)
  <2>1. /\ Len(t) = Len(u) + 1 /\ t[Len(u) + 1] = e
        /\ \A i \in 1 .. Len(u) : t[i] = u[i]
    BY <1>3, AppendProperties
  <2>2. \A i \in 1 .. Len(t) : Copy(t[i], m) => i \in 1 .. Len(u)
    BY <1>0, <1>3, <2>1
  <2> QED
    BY <2>1, <2>2 DEF Thins
<1>4. ASSUME NEW e \in Entry, NEW i \in 1 .. Len(u), u[i] = e, e.seen = "LIVE",
             t = Append(RemoveAt(u, i), e)
      PROVE  Thins(u, t, m)
  <2>1. /\ Len(t) = Len(u)
        /\ \A j \in 1 .. Len(u) :
              t[j] = IF j < i THEN u[j] ELSE IF j < Len(u) THEN u[j+1] ELSE e
    <3>1. LET w == Append(RemoveAt(u, i), e)
          IN /\ w \in Seq(Entry) /\ Len(w) = Len(u)
             /\ \A j \in 1 .. Len(u) :
                   w[j] = IF j < i THEN u[j] ELSE IF j < Len(u) THEN u[j+1] ELSE e
      BY <1>4, Moved
    <3> QED
      BY <1>4, <3>1
  <2> DEFINE from(j) == IF j < i THEN j ELSE j + 1
  <2>2. \A j \in 1 .. Len(t) : Copy(t[j], m) => from(j) \in 1 .. Len(u) /\ u[from(j)] = t[j]
    <3> SUFFICES ASSUME NEW j \in 1 .. Len(u), Copy(t[j], m)
                 PROVE  from(j) \in 1 .. Len(u) /\ u[from(j)] = t[j]
      BY <2>1
    <3>1. ~(j >= i /\ j >= Len(u))
      BY <1>0, <1>4, <2>1 DEF Copy
    <3> QED
      BY <1>0, <2>1, <3>1
  <2>3. \A j, k \in 1 .. Len(t) : j < k => from(j) < from(k)
    BY <1>0, <2>1
  <2> HIDE DEF from
  <2> QED
    BY <2>2, <2>3 DEF Thins
<1> QED
  BY <1>1, <1>2, <1>3, <1>4

\* What is known of the copies stays so.
LEMMA ThinKeeps ==
    ASSUME NEW u, NEW t, NEW m, Thins(u, t, m)
    PROVE  /\ Ordered(u, m) => Ordered(t, m)
           /\ \A i \in 1 .. Len(t) : Copy(t[i], m) => \E k \in 1 .. Len(u) : u[k] = t[i]
<1>1. ASSUME Ordered(u, m), NEW i \in 1 .. Len(t), NEW j \in 1 .. Len(t),
             i < j, Copy(t[i], m), Copy(t[j], m)
      PROVE  t[i].seen = "SENT" /\ t[j].seen \in Final
  <2>1. PICK k \in 1 .. Len(u), l \in 1 .. Len(u) : k < l /\ u[k] = t[i] /\ u[l] = t[j]
    BY <1>1 DEF Thins
  <2> QED
    BY <1>1, <2>1 DEF Ordered
<1> QED
  BY <1>1 DEF Ordered, Thins

\* add_message adds no copy of m, unless it is asked to.
LEMMA ThinAdded ==
    ASSUME TypeOK, NEW p \in Proc, NEW e \in Entry, NEW ok, NEW bad, AddMessage(p, e, ok, bad),
           NEW m, ~Copy(e, m)
    PROVE  \A q \in Proc : Thins(undelivered[q], undelivered'[q], m)
<1> SUFFICES ASSUME NEW q \in Proc PROVE Thins(undelivered[q], undelivered'[q], m)
  OBVIOUS
<1>1. undelivered[q] \in Seq(Entry) /\ undelivered[p] \in Seq(Entry)
  BY DEF TypeOK
<1>2. CASE undelivered'[q] = undelivered[q]
  BY <1>1, <1>2, ThinLists
<1>3. CASE MoveToEnd(p, e, ok)
  <2>1. PICK i \in 1 .. Len(undelivered[p]) :
           /\ undelivered[p][i] = e
           /\ undelivered' = [undelivered EXCEPT ![p] = Append(RemoveAt(@, i), e)]
    <3>1. DOMAIN undelivered[p] = 1 .. Len(undelivered[p])
      BY <1>1
    <3> QED
      BY <1>3, <3>1 DEF MoveToEnd
  <2>2. e.seen = "LIVE" /\ undelivered'[p] = Append(RemoveAt(undelivered[p], i), e)
    BY <1>3, <2>1 DEF MoveToEnd, TypeOK
  <2>3. q # p => undelivered'[q] = undelivered[q]
    BY <2>1 DEF TypeOK
  <2>4. CASE q = p
    BY <1>1, <2>1, <2>2, <2>4, ThinLists
  <2> QED
    BY <1>2, <2>3, <2>4
<1>4. CASE AppendAndSignal(p, e, ok, bad)
  <2>1. undelivered' = [undelivered EXCEPT ![p] = Append(@, e)]
    BY <1>4 DEF AppendAndSignal
  <2>2. q # p => undelivered'[q] = undelivered[q]
    BY <2>1 DEF TypeOK
  <2>3. CASE q = p
    <3>1. undelivered'[q] = Append(undelivered[q], e)
      BY <2>1, <2>3 DEF TypeOK
    <3> QED
      BY <1>1, <3>1, ThinLists
  <2> QED
    BY <1>2, <2>2, <2>3
<1> QED
  BY <1>2, <1>3, <1>4 DEF AddMessage

\* The frames that show m.
LEMMA ShowRead ==
    ASSUME NEW m \in Msg
    PROVE  /\ ShowFrames(m) \in SUBSET Frame
           /\ \A f \in Frame : f \in ShowFrames(m) <=>
                 f.op \in {"deliver", "match"} /\ f.msg = m /\ f.observers = TRUE
           /\ ShowFrames(m) \cap (Silent \cup Seeks \cup Alters) = {}
<1>1. ShowFrames(m) \in SUBSET Frame
  BY DEF ShowFrames, Frame
<1>2. \A f \in Frame : f \in ShowFrames(m) <=>
         f.op \in {"deliver", "match"} /\ f.msg = m /\ f.observers = TRUE
  <2>1. ASSUME NEW f \in Frame, f.op = "deliver" PROVE f \in ShowFrames(m) <=> f.msg = m /\ f.observers = TRUE
    BY <2>1 DEF Frame, ShowFrames
  <2>2. ASSUME NEW f \in Frame, f.op = "match" PROVE f \in ShowFrames(m) <=> f.msg = m /\ f.observers = TRUE
    BY <2>2 DEF Frame, ShowFrames
  <2>3. \A f \in ShowFrames(m) : f.op \in {"deliver", "match"}
    BY DEF ShowFrames
  <2> QED
    BY <2>1, <2>2, <2>3
<1>3. \A f \in ShowFrames(m) : f.op \in {"deliver", "match"} /\ f.observers = TRUE
  BY DEF ShowFrames
<1> QED
  BY <1>1, <1>2, <1>3 DEF Silent, Seeks, Alters

\* A walk that shows the request to the observers comes to p: it is the next one, and
\* gets a copy, unless it is gone.
LEMMA ShowsOne ==
    ASSUME TypeOK, MatchObserver, NEW m \in Msg, Head(stack) \in ShowFrames(m)
    PROVE  \E p \in Proc, x \in Goes(Head(stack)), e \in Entry :
              /\ <<p, "OBSERVE">> \in Head(stack).todo
              /\ x.todo = Head(stack).todo \ {<<p, "OBSERVE">>}
              /\ e = [msg |-> m, seen |-> state[m]]
              /\ AddMessage(p, e, <<x>> \o Tail(stack), <<x>> \o Tail(stack))
<1>1. PICK f \in Frame : f = Head(stack) /\ f.op = "match" /\ f.msg = m /\ f.observers = TRUE
  <2>1. Head(stack) \in Frame /\ Head(stack).op = "match"
    BY TopAt DEF MatchObserver
  <2> QED
    BY <2>1, ShowRead
<1>2. PICK t : t = Tail(stack)
  OBVIOUS
<1>3. f.todo \in SUBSET Pattern /\ f.best \in Proc \cup {NoProc}
  BY <1>1, FramesRead
<1>4. PICK pat \in Left(f) :
         /\ pat[2] = "OBSERVE"
         /\ AddMessage(pat[1], [msg |-> m, seen |-> state[m]], <<Visit(f, pat)>> \o t, <<Visit(f, pat)>> \o t)
  BY <1>1, <1>2 DEF MatchObserver
<1>5. pat \in Pattern /\ pat \in f.todo
  BY <1>3 DEF Left
<1>6. PICK p \in Proc : p = pat[1] /\ pat = <<p, "OBSERVE">>
  BY <1>4, <1>5 DEF Pattern
<1>7. PICK e \in Entry : e = [msg |-> m, seen |-> state[m]]
  BY DEF TypeOK, Entry
<1>8. Visit(f, pat) \in Frame
  <2>1. f.todo \ {pat} \in SUBSET Pattern /\ {pat} \in SUBSET Pattern
    BY <1>3, <1>5
  <2> QED
    BY <1>1, <1>3, <2>1, MatchFrame DEF Visit
<1>9. /\ Visit(f, pat).op = "match" /\ Visit(f, pat).msg = f.msg
      /\ Visit(f, pat).observers = f.observers /\ Visit(f, pat).todo = f.todo \ {pat}
  BY <1>1 DEF Visit, Frame
<1>10. PICK x \in Goes(f) : x = Visit(f, pat) /\ x.todo = f.todo \ {pat}
  BY <1>8, <1>9 DEF Goes
<1>11. AddMessage(p, e, <<x>> \o t, <<x>> \o t)
  BY <1>4, <1>6, <1>7, <1>10
<1> QED
  BY <1>1, <1>2, <1>5, <1>6, <1>7, <1>10, <1>11

\* Any other walk adds no copy of m.
LEMMA ObserverThins ==
    ASSUME TypeOK, MatchObserver, NEW m \in Msg, Head(stack) \notin ShowFrames(m)
    PROVE  \A q \in Proc : Thins(undelivered[q], undelivered'[q], m)
<1>1. PICK f \in Frame : f = Head(stack) /\ f.op = "match"
  BY TopAt DEF MatchObserver
<1>2. f.msg \in Msg /\ f.observers \in BOOLEAN /\ f.todo \in SUBSET Pattern
  BY <1>1, FramesRead
<1>3. f.msg # m \/ f.observers = FALSE
  BY <1>1, <1>2, ShowRead
<1>4. \A pat \in Left(f) : pat[1] \in Proc
  BY <1>2 DEF Left, Pattern
<1>5. PICK e \in Entry : e = [msg |-> f.msg, seen |-> state[f.msg]]
  BY <1>2 DEF TypeOK, Entry
<1>6. CASE f.observers
  <2>1. PICK p \in Proc : \E next : AddMessage(p, e, next, next)
    <3>1. \E pat \in Left(f) : \E next : AddMessage(pat[1], e, next, next)
      BY <1>1, <1>5, <1>6 DEF MatchObserver
    <3> QED
      BY <1>4, <3>1
  <2>2. ~Copy(e, m)
    BY <1>3, <1>5, <1>6 DEF Copy
  <2> QED
    BY <2>1, <2>2, ThinAdded
<1>7. CASE ~f.observers
  <2>1. undelivered' = undelivered
    BY <1>1, <1>7 DEF MatchObserver
  <2>2. \A q \in Proc : undelivered[q] \in Seq(Entry)
    BY DEF TypeOK
  <2> QED
    BY <2>1, <2>2, ThinLists
<1> QED
  BY <1>6, <1>7

\* No other step adds one.
LEMMA ThinStep ==
    ASSUME TypeOK, SessionInv, [Next]_vars, NEW m \in Msg,
           ~(MatchObserver /\ Head(stack) \in ShowFrames(m))
    PROVE  \A q \in Proc : Thins(undelivered[q], undelivered'[q], m)
<1>1. \A q \in Proc : undelivered[q] \in Seq(Entry)
  BY DEF TypeOK
<1>2. CASE undelivered' = undelivered
  BY <1>1, <1>2, ThinLists
<1>3. CASE MatchObserver
  BY <1>3, ObserverThins
<1>4. CASE GiveToHandler
  <2>1. PICK f \in Frame : f = Head(stack) /\ f.op = "match" /\ f.best # NoProc
    BY <1>4, TopAt DEF GiveToHandler, MatchEnded
  <2>2. PICK p \in Proc, x \in Msg : p = f.best /\ x = f.msg
    BY <2>1, FramesRead
  <2>3. Live(x) \in Entry /\ ~Copy(Live(x), m)
    BY DEF Live, Entry, Copy
  <2>4. AddMessage(p, Live(x), <<Return(TRUE)>> \o Tail(stack), <<Deliver(x, FALSE)>> \o Tail(stack))
    BY <1>4, <2>1, <2>2 DEF GiveToHandler
  <2> QED
    BY <2>3, <2>4, ThinAdded
<1>5. CASE RunReport
  <2>1. PICK x \in Msg : x = Head(stack).msg
    BY <1>5, RunningFrame, FramesRead DEF RunReport
  <2>2. Live(x) \in Entry /\ ~Copy(Live(x), m) /\ Sender[x] \in Proc
    BY SessionAssumption DEF Live, Entry, Copy
  <2>3. AddMessage(Sender[x], Live(x), Tail(stack), Tail(stack))
    BY <1>5, <2>1 DEF RunReport
  <2> QED
    BY <2>2, <2>3, ThinAdded
<1>6. ASSUME NEW p \in Proc, \A q \in Proc \ {p} : undelivered'[q] = undelivered[q],
             \/ undelivered'[p] = undelivered[p]
             \/ undelivered[p] # << >> /\ undelivered'[p] = Tail(undelivered[p]),
             NEW q \in Proc
      PROVE  Thins(undelivered[q], undelivered'[q], m)
  <2>1. \/ undelivered'[q] = undelivered[q]
        \/ undelivered[q] # << >> /\ undelivered'[q] = Tail(undelivered[q])
    BY <1>6
  <2> QED
    BY <1>1, <2>1, ThinLists
<1>7. CASE RunOrphaned
  <2>1. BaseInv
    BY <1>7 DEF SessionInv, RunOrphaned, Running
  <2>2. PICK p \in Proc : p = Head(stack).proc
    BY <1>7, <2>1, OrphanedTop
  <2>3. /\ \A q \in Proc \ {p} : undelivered'[q] = undelivered[q]
        /\ \/ undelivered' = undelivered
           \/ undelivered[p] # << >> /\ undelivered'[p] = Tail(undelivered[p])
    BY <1>7, <2>1, <2>2, OrphanedTop
  <2> QED
    BY <1>6, <2>3
<1>8. ASSUME NEW p \in Proc, ServeNext(p) PROVE \A q \in Proc : Thins(undelivered[q], undelivered'[q], m)
  <2>1. /\ \A q \in Proc \ {p} : undelivered'[q] = undelivered[q]
        /\ undelivered'[p] = IF undelivered[p] # << >> THEN Tail(undelivered[p]) ELSE undelivered[p]
    BY <1>8 DEF ServeNext, TypeOK
  <2>2. \/ undelivered'[p] = undelivered[p]
        \/ undelivered[p] # << >> /\ undelivered'[p] = Tail(undelivered[p])
    BY <2>1
  <2> QED
    BY <1>6, <2>1, <2>2
<1>9. ASSUME NEW p \in Proc, \/ Client(p) \/ Hangup(p) \/ (ServeRpc(p) /\ ~ServeNext(p))
      PROVE  undelivered' = undelivered
  BY <1>9 DEF Client, AskPlanned, AskNext, AskUpdate, Die, Ask, Hangup, ServeRpc, ServeRegister,
              ServeUnregister, ServeJoin, ServeSend, ServeUpdate, ServeClose, procVars
<1>10. CASE Run /\ ~MatchObserver /\ ~GiveToHandler /\ ~RunReport /\ ~RunOrphaned
  <2>1. undelivered' = undelivered
    BY <1>10 DEF Run, RunDeliver, MatchHosed, MatchInactive, MatchHandler,
         NoHandler, RunReturn, ChangeRepeated, ChangeFinal, ChangeQueued, ChangeRejected,
         RunDeactivate, RunUnread, RunUnanswered, RunForget, RunRedeliver, RunRequeue, procVars
  <2> QED
    BY <1>2, <2>1
<1>11. CASE UNCHANGED vars
  BY <1>2, <1>11 DEF vars
<1> QED
  BY <1>2, <1>3, <1>4, <1>5, <1>7, <1>8, <1>9, <1>10, <1>11 DEF Next


\* A walk that shows m comes to p: the next one, with a copy of m for it unless p is gone.
Shows(m, p, x, e) ==
    /\ <<p, "OBSERVE">> \in Head(stack).todo
    /\ x.todo = Head(stack).todo \ {<<p, "OBSERVE">>}
    /\ e = [msg |-> m, seen |-> state[m]]
    /\ undelivered' = undelivered \/ undelivered' = [undelivered EXCEPT ![p] = Append(@, e)]
    /\ \/ stack' = <<x>> \o Tail(stack)
       \/ stack' = <<Deactivate(p)>> \o (<<x>> \o Tail(stack))
    /\ state' = state /\ handler' = handler

\* So does the walk that runs.
LEMMA ShowsNext ==
    ASSUME TypeOK, MatchObserver, NEW m \in Msg, Head(stack) \in ShowFrames(m)
    PROVE  \E p \in Proc, x \in Goes(Head(stack)), e \in Entry : Shows(m, p, x, e)
<1>1. PICK p \in Proc, x \in Goes(Head(stack)), e \in Entry :
              /\ <<p, "OBSERVE">> \in Head(stack).todo
              /\ x.todo = Head(stack).todo \ {<<p, "OBSERVE">>}
              /\ e = [msg |-> m, seen |-> state[m]]
              /\ AddMessage(p, e, <<x>> \o Tail(stack), <<x>> \o Tail(stack))
  BY ShowsOne
<1>2. PICK next : next = <<x>> \o Tail(stack)
  OBVIOUS
<1>3. AddMessage(p, e, next, next)
  BY <1>1, <1>2
<1>4. e.seen # "LIVE"
  BY <1>1 DEF TypeOK, State, Final
<1>5. undelivered' = undelivered \/ undelivered' = [undelivered EXCEPT ![p] = Append(@, e)]
  BY <1>3, <1>4 DEF AddMessage, MoveToEnd, AppendAndSignal
<1>6. stack' = next \/ stack' = <<Deactivate(p)>> \o next
  BY <1>3, AddedStack
<1>7. state' = state /\ handler' = handler
  BY DEF MatchObserver, msgVars
<1>8. Shows(m, p, x, e)
  BY <1>1, <1>2, <1>5, <1>6, <1>7 DEF Shows
<1> QED
  BY <1>8

\* The copy that p gets is new to it, and of a later state than those it has.
LEMMA ShownLists ==
    ASSUME TypeOK, MatchObserver, NEW m \in Msg, Head(stack) \in ShowFrames(m),
           SeenOk(m), ShowNew(m),
           NEW p \in Proc, NEW x, NEW e \in Entry, Shows(m, p, x, e)
    PROVE  /\ SeenOk(m)'
           /\ \A q \in Proc : Ordered(undelivered[q], m) => Ordered(undelivered'[q], m)
           /\ \A q \in Proc : q # p /\ ~Shown(q, m) => ~Shown(q, m)'
<1>1. /\ Head(stack) \in ToSet(stack) /\ Head(stack).op = "match"
  BY TopAt, Stacked DEF MatchObserver, Running, TypeOK
<1>2. /\ ~Shown(p, m)
      /\ state[m] = "SENT" \/ state[m] \in Final
  BY <1>1 DEF ShowNew, Shows
<1>3. /\ e = [msg |-> m, seen |-> state[m]] /\ Copy(e, m)
      /\ state' = state
  BY <1>2 DEF Shows, Copy, Final
<1>4. \A q \in Proc : q # p => undelivered'[q] = undelivered[q]
  BY DEF Shows, TypeOK
<1>5. PICK u, t : u \in Seq(Entry) /\ u = undelivered[p] /\ t = undelivered'[p]
  BY DEF TypeOK
<1>6. t = u \/ t = Append(u, e)
  BY <1>5 DEF Shows, TypeOK
<1>7. Len(u) \in Nat
  BY LenProperties
<1>8. t = Append(u, e) => /\ Len(t) = Len(u) + 1 /\ t[Len(u) + 1] = e
                          /\ \A i \in 1 .. Len(u) : t[i] = u[i]
  BY AppendProperties
<1>9. \A i \in 1 .. Len(t) : t[i] = e \/ (i \in 1 .. Len(u) /\ t[i] = u[i])
  BY <1>6, <1>7, <1>8
<1>10. \A i \in 1 .. Len(u) : Copy(u[i], m) =>
           \/ u[i].seen = "SENT" /\ state[m] # "CREATED"
           \/ u[i].seen \in Final /\ u[i].seen = state[m]
  BY <1>5 DEF SeenOk
<1>11. \A i \in 1 .. Len(u) : u[i] # e
  BY <1>2, <1>3, <1>5 DEF Shown
<1>12. SeenOk(m)'
  <2>1. \A i \in 1 .. Len(t) : Copy(t[i], m) =>
           \/ t[i].seen = "SENT" /\ state[m] # "CREATED"
           \/ t[i].seen \in Final /\ t[i].seen = state[m]
    BY <1>2, <1>3, <1>9, <1>10
  <2> QED
    BY <1>3, <1>4, <1>5, <2>1 DEF SeenOk
<1>13. ASSUME Ordered(u, m), t = Append(u, e) PROVE Ordered(t, m)
  <2> SUFFICES ASSUME NEW i \in 1 .. Len(t), NEW j \in 1 .. Len(t), i < j,
                      Copy(t[i], m), Copy(t[j], m)
               PROVE  t[i].seen = "SENT" /\ t[j].seen \in Final
    BY DEF Ordered
  <2>1. i \in 1 .. Len(u) /\ t[i] = u[i]
    BY <1>7, <1>8, <1>13
  <2>2. CASE j \in 1 .. Len(u)
    <3>1. t[j] = u[j]
      BY <1>8, <1>13, <2>2
    <3> QED
      BY <1>13, <2>1, <2>2, <3>1 DEF Ordered
  <2>3. CASE j \notin 1 .. Len(u)
    <3>1. t[j] = e
      BY <1>9, <2>3
    <3>2. u[i].seen # state[m]
      <4>1. u[i] \in Entry
        BY <1>5, <2>1
      <4>2. u[i].seen = state[m] => u[i] = e
        BY <1>3, <2>1, <4>1 DEF Copy, Entry
      <4> QED
        BY <1>11, <2>1, <4>2
    <3>3. u[i].seen = "SENT"
      BY <1>10, <2>1, <3>2
    <3> QED
      BY <1>2, <1>3, <2>1, <3>1, <3>2, <3>3
  <2> QED
    BY <2>2, <2>3
<1>14. \A q \in Proc : Ordered(undelivered[q], m) => Ordered(undelivered'[q], m)
  BY <1>4, <1>5, <1>6, <1>13
<1>15. \A q \in Proc : q # p /\ ~Shown(q, m) => ~Shown(q, m)'
  BY <1>3, <1>4 DEF Shown
<1> QED
  BY <1>12, <1>14, <1>15

\* The copies in the lists stay in order, whatever happens, even to the heap.
LEMMA OrderStep ==
    ASSUME TypeOK, SessionInv, ShowInv, OrderInv, [Next]_vars
    PROVE  OrderInv'
<1> SUFFICES ASSUME NEW m \in Good, NEW q \in Proc PROVE Ordered(undelivered'[q], m)
  BY DEF OrderInv
<1>1. m \in Msg /\ Ordered(undelivered[q], m)
  BY DEF Good, OrderInv
<1>2. CASE ~(MatchObserver /\ Head(stack) \in ShowFrames(m))
  BY <1>1, <1>2, ThinStep, ThinKeeps
<1>3. CASE MatchObserver /\ Head(stack) \in ShowFrames(m)
  <2>1. SeenOk(m) /\ ShowNew(m)
    BY <1>3 DEF ShowInv, ShowOf, MatchObserver, Running
  <2>2. PICK p \in Proc, x \in Goes(Head(stack)), e \in Entry : Shows(m, p, x, e)
    BY <1>1, <1>3, ShowsNext
  <2> QED
    BY <1>1, <1>3, <2>1, <2>2, ShownLists
<1> QED
  BY <1>2, <1>3

\* What waits in the lists is in order then.
LEMMA OrderShown == ASSUME TypeOK, OrderInv PROVE ObserverOrder
<1> SUFFICES ASSUME NEW p \in Proc, NEW i \in DOMAIN undelivered[p], NEW j \in DOMAIN undelivered[p],
                    i < j, undelivered[p][i].msg = undelivered[p][j].msg,
                    "LIVE" \notin {undelivered[p][i].seen, undelivered[p][j].seen},
                    undelivered[p][i].msg \notin BadAddress
             PROVE  LET Age(s) == IF s = "SENT" THEN 0 ELSE IF s = "QUEUED" THEN 1 ELSE 2
                    IN Age(undelivered[p][i].seen) < Age(undelivered[p][j].seen)
  BY DEF ObserverOrder
<1>1. PICK u \in Seq(Entry) : u = undelivered[p]
  BY DEF TypeOK
<1>2. i \in 1 .. Len(u) /\ j \in 1 .. Len(u)
  BY <1>1
<1>3. PICK m \in Good : m = u[i].msg
  <2>1. u[i] \in Entry
    BY <1>2
  <2> QED
    BY <1>1, <2>1 DEF Entry, Good
<1>4. Copy(u[i], m) /\ Copy(u[j], m)
  BY <1>1, <1>3 DEF Copy
<1>5. u[i].seen = "SENT" /\ u[j].seen \in Final
  BY <1>1, <1>2, <1>3, <1>4 DEF OrderInv, Ordered
<1> QED
  BY <1>1, <1>5 DEF Final


\* A step that is not about m: no copy and no frame that shows it is added, and its state
\* stays; its handler too, or nothing shows it any more.
LEMMA ShowKept ==
    ASSUME TypeOK, NEW m \in Msg, SeenOk(m), ShowNew(m),
           \A q \in Proc : Thins(undelivered[q], undelivered'[q], m),
           state'[m] = state[m],
           \A f \in ToSet(stack') : f \in ShowFrames(m) => f \in ToSet(stack) /\ handler'[m] = handler[m]
    PROVE  SeenOk(m)' /\ ShowNew(m)'
<1>1. \A q \in Proc : \A i \in 1 .. Len(undelivered'[q]) : Copy(undelivered'[q][i], m) =>
         \E k \in 1 .. Len(undelivered[q]) : undelivered[q][k] = undelivered'[q][i]
  BY ThinKeeps
<1>2. SeenOk(m)'
  BY <1>1 DEF SeenOk
<1>3. \A q \in Proc : Shown(q, m)' => Shown(q, m)
  <2> SUFFICES ASSUME NEW q \in Proc, NEW i \in 1 .. Len(undelivered'[q]),
                      undelivered'[q][i] = [msg |-> m, seen |-> state[m]]
               PROVE  Shown(q, m)
    BY DEF Shown
  <2>1. Copy(undelivered'[q][i], m)
    <3>1. state[m] # "LIVE"
      BY DEF TypeOK, State, Final
    <3> QED
      BY <3>1 DEF Copy
  <2> QED
    BY <1>1, <2>1 DEF Shown
<1>4. ShowNew(m)'
  BY <1>3 DEF ShowNew
<1> QED
  BY <1>2, <1>4

\* The state of m is changed by its end only.
LEMMA StateKept ==
    ASSUME TypeOK, BaseInv, Queueable = {}, Run, NEW m \in Msg,
           ~(ChangeFinal /\ Head(stack).msg = m)
    PROVE  state'[m] = state[m]
<1>1. PICK x, h : x = h.msg /\ h = Head(stack)
  OBVIOUS
<1>2. CASE ChangeFinal
  <2>1. state' = [state EXCEPT ![x] = h.to] /\ x # m
    BY <1>1, <1>2 DEF ChangeFinal
  <2> QED
    BY <2>1 DEF TypeOK
<1>3. CASE GiveToHandler
  <2>1. stack # << >> /\ stack \in Seq(Frame) /\ h.op = "match" /\ h.best # NoProc
    BY <1>1, <1>3 DEF GiveToHandler, MatchEnded, Running, TypeOK
  <2>2. h \in ToSet(stack)
    BY <1>1, <2>1, Stacked
  <2>3. state[x] = "SENT"
    BY <1>1, <2>1, <2>2, OnStack
  <2>4. state' = [state EXCEPT ![x] = "SENT"]
    BY <1>1, <1>3 DEF GiveToHandler
  <2> QED
    BY <2>3, <2>4 DEF TypeOK
<1>4. CASE ChangeRejected
  <2>1. state[x] = "SENT" /\ state' = [state EXCEPT ![x] = "SENT"]
    BY <1>1, <1>4, ChangeTop DEF ChangeRejected
  <2> QED
    BY <2>1 DEF TypeOK
<1>5. CASE RunRedeliver \/ RunRequeue \/ ChangeQueued
  BY <1>5, NoneQueued
<1>6. CASE /\ ~ChangeFinal /\ ~GiveToHandler /\ ~ChangeRejected
           /\ ~RunRedeliver /\ ~RunRequeue /\ ~ChangeQueued
  <2>1. state' = state
    BY <1>6 DEF Run, RunDeliver, MatchHosed, MatchInactive, MatchHandler, MatchObserver,
         NoHandler, RunReturn, ChangeRepeated, RunReport, RunDeactivate, RunUnread,
         RunUnanswered, RunOrphaned, RunForget, msgVars
  <2> QED
    BY <2>1
<1> QED
  BY <1>2, <1>3, <1>4, <1>5, <1>6

\* The frames of a walk of another kind, or of another request, do not show m.
LEMMA GoesAside ==
    ASSUME TypeOK, stack # << >>, NEW m \in Msg, Head(stack) \notin ShowFrames(m)
    PROVE  Goes(Head(stack)) \in SUBSET Frame
           /\ (Head(stack).op \in {"deliver", "match"} => Goes(Head(stack)) \cap ShowFrames(m) = {})
<1>1. Head(stack) \in Frame
  BY HeadTailProperties DEF TypeOK
<1>2. Goes(Head(stack)) \in SUBSET Frame
  BY DEF Goes
<1>3. ASSUME Head(stack).op \in {"deliver", "match"} PROVE \A x \in Goes(Head(stack)) : x \notin ShowFrames(m)
  <2>1. Head(stack).msg # m \/ Head(stack).observers # TRUE
    BY <1>1, <1>3, ShowRead
  <2> QED
    BY <1>2, <2>1, ShowRead DEF Goes
<1> QED
  BY <1>2, <1>3

\* A step that does not go on showing m, nor begins to, pushes no frame that does.
LEMMA ShowPushes ==
    ASSUME TypeOK, BaseInv, Queueable = {}, Run, heap' = "intact", NEW m \in Msg,
           ~(ChangeFinal /\ Head(stack).msg = m),
           ~(/\ RunDeliver \/ MatchInactive \/ MatchHandler \/ MatchObserver
             /\ Head(stack) \in ShowFrames(m)),
           NEW X, X = Frame \ ShowFrames(m)
    PROVE  /\ stack # << >> /\ Tail(stack) \in Seq(Frame)
           /\ Pushes(Tail(stack), X) \/ ((RunUnread \/ RunUnanswered) /\ Pushes(stack, X))
<1>1. /\ X \in SUBSET Frame
      /\ Silent \subseteq X /\ Silent \cup Seeks \subseteq X /\ Silent \cup Alters \subseteq X
  BY Silences, ShowRead
<1>2. ~MatchHosed /\ ~ChangeQueued
  BY NoneQueued DEF MatchHosed
<1>3. CASE RunDeliver \/ MatchInactive \/ MatchHandler \/ MatchObserver
  <2>1. Pushes(Tail(stack), Silent \cup Goes(Head(stack)))
    BY <1>3, WalkNew
  <2>2. /\ stack # << >> /\ Tail(stack) \in Seq(Frame) /\ Head(stack).op \in {"deliver", "match"}
    BY <1>3, WalkPushes
  <2>3. Silent \cup Goes(Head(stack)) \subseteq X
    BY <1>1, <1>3, <2>2, GoesAside
  <2> QED
    BY <2>1, <2>2, <2>3, PushesMore
<1>4. CASE GiveToHandler \/ ChangeRejected
  BY <1>1, <1>4, SeekPushes, PushesMore
<1>5. CASE NoHandler \/ RunUnread \/ RunUnanswered
  BY <1>1, <1>5, AlterPushes, PushesMore
<1>6. CASE \/ RunReturn \/ ChangeRepeated \/ RunReport \/ RunDeactivate
           \/ RunOrphaned \/ RunForget \/ RunRequeue \/ (RunRedeliver /\ stack' = Tail(stack))
  BY <1>1, <1>6, SilentPushes, PushesMore
<1>7. CASE RunRedeliver /\ stack' # Tail(stack)
  BY <1>7, NoneTakenUp
<1>8. CASE ChangeFinal
  <2>1. PICK x \in Msg, t \in Seq(Frame) : x = Head(stack).msg /\ t = Tail(stack)
    BY <1>8, ChangeTop DEF ChangeFinal
  <2>2. stack' = <<Deliver(x, TRUE), Report(x)>> \o t /\ x # m /\ stack # << >>
    BY <1>8, <2>1 DEF ChangeFinal, Announce, Running
  <2>3. Deliver(x, TRUE) \in X /\ Report(x) \in X
    <3>1. Deliver(x, TRUE) \in Frame /\ Report(x) \in Frame
      BY FramesMade
    <3>2. Deliver(x, TRUE).msg = x /\ Report(x).op = "report"
      BY DEF Deliver, Report
    <3> QED
      BY <2>2, <3>1, <3>2, ShowRead
  <2>4. Pushes(t, X)
    BY <1>1, <2>2, <2>3, PushesNew
  <2> QED
    BY <2>1, <2>2, <2>4
<1> QED
  BY <1>2, <1>3, <1>4, <1>5, <1>6, <1>7, <1>8 DEF Run


\* What is about to change state is SENT.
ChangeSent == \A f \in ToSet(stack) : f.op = "change" => state[f.msg] = "SENT"
LEMMA ChangesSent == TypeOK /\ BaseInv => ChangeSent
BY OnStack DEF ChangeSent

\* Whose state is about to change is not shown: it has a handler, or nobody seeks one.
LEMMA ChangeHidden ==
    ASSUME TypeOK, TypeOK', BaseInv, BaseInv', Queueable = {}, \A x \in Msg : PlaceInv(x),
           Run, heap' = "intact", NEW m \in Msg, ShowNew(m)
    PROVE  ChangeUnshown(m)'
<1> SUFFICES ASSUME NEW f \in ToSet(stack'), NEW g \in ToSet(stack'),
                    f.op = "change", f.msg = m, g \in ShowFrames(m)
             PROVE  FALSE
  BY DEF ChangeUnshown
<1>1. CASE ~NoHandler /\ ~RunUnread /\ ~RunUnanswered
  <2>1. stack # << >> /\ Pushes(Tail(stack), Without("change")) /\ Tail(stack) \in Seq(Frame)
    BY <1>1, RunWithout
  <2>2. PICK t \in Seq(Frame) : t = Tail(stack) /\ Pushes(t, Without("change"))
    BY <2>1
  <2>3. Without("change") \in SUBSET Frame
    BY DEF Without
  <2>4. f \in Without("change") \/ f \in ToSet(t)
    BY <2>2, <2>3, PushesSet
  <2>5. \A y \in ToSet(t) : y.op # "change"
    BY <2>1, <2>2, Below
  <2> QED
    BY <2>4, <2>5 DEF Without
<1>2. CASE NoHandler \/ RunUnread \/ RunUnanswered
  <2>1. PICK X : X = Frame \ ShowFrames(m)
    OBVIOUS
  <2>2. ~ChangeFinal /\ ~RunDeliver /\ ~MatchInactive /\ ~MatchHandler /\ ~MatchObserver
    <3>1. MatchInactive \/ MatchHandler \/ MatchObserver => ~NoHandler
      BY DEF NoHandler, MatchEnded, MatchInactive, MatchHandler, MatchObserver
    <3> QED
      BY <1>2, <3>1 DEF NoHandler, RunUnread, RunUnanswered, ChangeFinal, RunDeliver, MatchInactive,
                  MatchHandler, MatchObserver, MatchEnded, Running
  <2>3. /\ stack # << >> /\ Tail(stack) \in Seq(Frame) /\ stack \in Seq(Frame)
        /\ Pushes(Tail(stack), X) \/ ((RunUnread \/ RunUnanswered) /\ Pushes(stack, X))
    BY <2>1, <2>2, ShowPushes DEF TypeOK
  <2>4. X \in SUBSET Frame /\ g \notin X
    BY <2>1
  <2>5. ToSet(stack) = {Head(stack)} \cup ToSet(Tail(stack))
    BY <2>3, Stacked
  <2>6. state'[m] = state[m]
    BY <2>2, StateKept
  <2>7. state[m] = "SENT"
    <3>1. ChangeSent'
      BY ChangesSent, PTL
    <3> QED
      BY <2>6, <3>1 DEF ChangeSent
  <2>8. CASE NoHandler
    <3>1. PICK t \in Seq(Frame) : t = Tail(stack) /\ Pushes(t, X)
      <4>1. NoHandler => ~RunUnread /\ ~RunUnanswered
        BY DEF NoHandler, RunUnread, RunUnanswered, MatchEnded, Running
      <4> QED
        BY <2>3, <2>8, <4>1
    <3>2. g \in ToSet(t)
      BY <2>4, <3>1, PushesSet
    <3>3. Head(stack).msg = m /\ Head(stack).op = "match"
      BY <2>8, NoHandlerChanges DEF NoHandler, MatchEnded, Running
    <3>4. g.op \in {"deliver", "match"} /\ g.msg = m
      BY DEF ShowFrames
    <3>5. state[m] \in Final
      BY <2>3, <3>1, <3>2, <3>3, <3>4, Below
    <3> QED
      BY <2>7, <3>5 DEF Final
  <2>9. CASE RunUnread \/ RunUnanswered
    <3>1. PICK s \in Seq(Frame) : s \in {stack, Tail(stack)} /\ Pushes(s, X)
      BY <2>3
    <3>2. g \in ToSet(s)
      BY <2>4, <3>1, PushesSet
    <3>3. g \in ToSet(stack)
      BY <2>5, <3>1, <3>2
    <3>4. PICK p \in Proc : \A y \in ToSet(stack') : y.op = "change" => handler[y.msg] = p
      BY <2>9, CursorChanges
    <3>5. handler[m] # NoProc
      BY <3>4, SessionAssumption
    <3> QED
      BY <2>7, <3>3, <3>5 DEF ShowNew, Final
  <2> QED
    BY <1>2, <2>8, <2>9
<1> QED
  BY <1>1, <1>2

\* A step of the server that is not about m.
LEMMA ShowAside ==
    ASSUME TypeOK, TypeOK', SessionInv, BaseInv, BaseInv', Queueable = {}, \A x \in Msg : PlaceInv(x),
           Run, heap' = "intact", NEW m \in Msg, ShowOf(m),
           ~(ChangeFinal /\ Head(stack).msg = m),
           ~(/\ RunDeliver \/ MatchInactive \/ MatchHandler \/ MatchObserver
             /\ Head(stack) \in ShowFrames(m))
    PROVE  ShowOf(m)'
<1>1. PICK X : X = Frame \ ShowFrames(m)
  OBVIOUS
<1>2. /\ stack # << >> /\ Tail(stack) \in Seq(Frame) /\ stack \in Seq(Frame)
      /\ Pushes(Tail(stack), X) \/ ((RunUnread \/ RunUnanswered) /\ Pushes(stack, X))
  BY <1>1, ShowPushes DEF TypeOK
<1>3. X \in SUBSET Frame /\ ShowFrames(m) \cap X = {}
  BY <1>1
<1>4. PICK s \in Seq(Frame) : /\ s \in {stack, Tail(stack)} /\ Pushes(s, X)
                              /\ ~RunUnread /\ ~RunUnanswered => s = Tail(stack)
  BY <1>2
<1>5. ToSet(stack) = {Head(stack)} \cup ToSet(Tail(stack))
  BY <1>2, Stacked
<1>6. \A f \in ToSet(stack') : f \in ShowFrames(m) => f \in ToSet(s) /\ f \in ToSet(stack)
  <2>1. \A f \in ToSet(stack') : f \in X \/ f \in ToSet(s)
    BY <1>3, <1>4, PushesSet
  <2> QED
    BY <1>3, <1>4, <1>5, <2>1
<1>7. ShownOnce(m)'
  <2>1. AtMostOne(s, ShowFrames(m))
    BY <1>2, <1>4, AtMostBelow DEF ShowOf, ShownOnce
  <2>2. AtMostOne(stack', ShowFrames(m))
    BY <1>3, <1>4, <2>1, PushesSet
  <2> QED
    BY <2>2 DEF ShownOnce, ShowFrames
<1>8. \A q \in Proc : Thins(undelivered[q], undelivered'[q], m)
  <2>1. [Next]_vars
    BY DEF Next
  <2> QED
    BY <2>1, ThinStep
<1>9. \A f \in ToSet(stack') : f \in ShowFrames(m) => f \in ToSet(stack) /\ handler'[m] = handler[m]
  <2>1. CASE GiveToHandler
    <3>1. /\ Head(stack).op = "match" /\ Head(stack).best # NoProc /\ s = Tail(stack)
      BY <1>4, <2>1 DEF GiveToHandler, MatchEnded, Running, RunUnread, RunUnanswered
    <3>2. PICK x : x = Head(stack).msg /\ state[x] = "SENT"
      BY <1>5, <3>1, OnStack
    <3>3. CASE x = m
      <4>1. \A f \in ToSet(s) : f \notin ShowFrames(m)
        <5> SUFFICES ASSUME NEW f \in ToSet(s), f \in ShowFrames(m) PROVE FALSE
          OBVIOUS
        <5>1. f.op \in {"deliver", "match"} /\ f.msg = m
          BY DEF ShowFrames
        <5>2. state[m] \in Final
          BY <1>2, <3>1, <3>2, <3>3, <5>1, Below
        <5> QED
          BY <3>2, <3>3, <5>2 DEF Final
      <4> QED
        BY <1>6, <4>1
    <3>4. CASE x # m
      <4>1. handler'[m] = handler[m]
        BY <2>1, <3>2, <3>4 DEF GiveToHandler, TypeOK
      <4> QED
        BY <1>6, <4>1
    <3> QED
      BY <3>3, <3>4
  <2>2. CASE ChangeRejected
    <3>1. Head(stack).op = "change" /\ Head(stack).to = "REJECTED" /\ s = Tail(stack)
      BY <1>4, <2>2 DEF ChangeRejected, Running, RunUnread, RunUnanswered
    <3>2. Tail(stack) = << >>
      BY <1>5, <3>1, OnStack
    <3>3. ToSet(s) = {}
      BY <3>1, <3>2 DEF ToSet
    <3> QED
      BY <1>6, <3>3
  <2>3. CASE ~GiveToHandler /\ ~ChangeRejected
    <3>1. [Next]_vars
      BY DEF Next
    <3>2. handler'[m] = handler[m]
      BY <2>3, <3>1, TriedStep
    <3> QED
      BY <1>6, <3>2
  <2> QED
    BY <2>1, <2>2, <2>3
<1>10. state'[m] = state[m]
  BY StateKept
<1>11. SeenOk(m)' /\ ShowNew(m)'
  BY <1>8, <1>9, <1>10, ShowKept DEF ShowOf
<1>12. ChangeUnshown(m)'
  BY ChangeHidden DEF ShowOf
<1> QED
  BY <1>7, <1>11, <1>12 DEF ShowOf


\* A step of the walk that shows m: the observers it has not come to are shown m next.
LEMMA ShowWalk ==
    ASSUME TypeOK, TypeOK', BaseInv, BaseInv', Queueable = {}, \A x \in Msg : PlaceInv(x),
           RunDeliver \/ MatchInactive \/ MatchHandler \/ MatchObserver,
           Run, heap' = "intact", NEW m \in Msg, ShowOf(m), Head(stack) \in ShowFrames(m)
    PROVE  ShowOf(m)'
<1>1. PICK f : f = Head(stack)
  OBVIOUS
<1>2. PICK t \in Seq(Frame) : t = Tail(stack) /\ stack # << >> /\ stack \in Seq(Frame)
  BY WalkPushes DEF TypeOK
<1>3. /\ f \in ToSet(stack) /\ f \in Frame /\ f \in ShowFrames(m)
      /\ f.op \in {"deliver", "match"} /\ f.msg = m /\ f.observers = TRUE
  <2>1. f \in ToSet(stack)
    BY <1>1, <1>2, Stacked
  <2>2. f \in Frame
    BY <1>1, <1>2, HeadTailProperties
  <2>3. f \in ShowFrames(m)
    BY <1>1
  <2> QED
    BY <2>1, <2>2, <2>3, ShowRead
<1>4. \A x \in Goes(f) : x \in Frame /\ x.op = "match" /\ x \in ShowFrames(m)
  BY <1>3, ShowRead DEF Goes
<1>5. AtMostOne(t, ShowFrames(m)) /\ ShowFrames(m) \cap ToSet(t) = {}
  BY <1>1, <1>2, <1>3, AtMostBelow DEF ShowOf, ShownOnce
<1>6. ASSUME NEW x \in Goes(f), NEW p \in Proc,
             stack' = <<x>> \o t \/ stack' = <<Deactivate(p)>> \o (<<x>> \o t)
      PROVE  /\ AtMostOne(stack', ShowFrames(m))
             /\ \A g \in ToSet(stack') : g \in ShowFrames(m) => g = x
  <2>1. PICK u \in Seq(Frame) : u = <<x>> \o t
    BY <1>4, Push
  <2>2. AtMostOne(u, ShowFrames(m)) /\ ToSet(u) = {x} \cup ToSet(t)
    BY <1>4, <1>5, <2>1, AtMostPush, StackedTwo
  <2>3. PICK d \in Frame : d = Deactivate(p) /\ d \notin ShowFrames(m)
    <3>1. Deactivate(p) \in Frame /\ Deactivate(p).op = "deactivate"
      BY FramesMade DEF Deactivate
    <3> QED
      BY <3>1, ShowRead
  <2>4. AtMostOne(<<d>> \o u, ShowFrames(m)) /\ ToSet(<<d>> \o u) = {d} \cup ToSet(u)
    BY <2>2, <2>3, AtMostPush, StackedTwo
  <2>5. stack' = u \/ stack' = <<d>> \o u
    BY <1>6, <2>1, <2>3
  <2> QED
    BY <1>5, <2>2, <2>3, <2>4, <2>5
<1>7. /\ (state[m] = "SENT" /\ handler[m] = NoProc) \/ state[m] \in Final
      /\ f.op = "deliver" => \A p \in Proc : ~Shown(p, m)
      /\ f.op = "match" => \A p \in Proc : <<p, "OBSERVE">> \in f.todo => ~Shown(p, m)
  BY <1>3 DEF ShowOf, ShowNew
<1>8. ChangeUnshown(m)'
  BY ChangeHidden DEF ShowOf
<1>9. CASE MatchObserver
  <2>1. PICK p \in Proc, x \in Goes(f), e \in Entry : Shows(m, p, x, e)
    BY <1>1, <1>3, <1>9, ShowsNext
  <2>2. /\ SeenOk(m)'
        /\ \A q \in Proc : q # p /\ ~Shown(q, m) => ~Shown(q, m)'
    BY <1>1, <1>3, <1>9, <2>1, ShownLists DEF ShowOf
  <2>3. /\ x.todo = f.todo \ {<<p, "OBSERVE">>} /\ state' = state /\ handler' = handler
        /\ stack' = <<x>> \o t \/ stack' = <<Deactivate(p)>> \o (<<x>> \o t)
    BY <1>1, <1>2, <2>1 DEF Shows
  <2>4. /\ AtMostOne(stack', ShowFrames(m))
        /\ \A g \in ToSet(stack') : g \in ShowFrames(m) => g = x
    BY <1>6, <2>3
  <2>5. f.op = "match"
    BY <1>1, <1>9 DEF MatchObserver, Running
  <2>6. \A q \in Proc : <<q, "OBSERVE">> \in x.todo => ~Shown(q, m)'
    <3> SUFFICES ASSUME NEW q \in Proc, <<q, "OBSERVE">> \in x.todo PROVE ~Shown(q, m)'
      OBVIOUS
    <3>1. q # p /\ <<q, "OBSERVE">> \in f.todo
      BY <2>3
    <3> QED
      BY <1>7, <2>2, <2>5, <3>1
  <2>7. ShowNew(m)'
    BY <1>4, <1>7, <2>3, <2>4, <2>6 DEF ShowNew
  <2>8. ShownOnce(m)'
    BY <2>4 DEF ShownOnce, ShowFrames
  <2> QED
    BY <1>8, <2>2, <2>7, <2>8 DEF ShowOf
<1>10. CASE ~MatchObserver
  <2>1. PICK x \in Goes(f), p \in Proc :
           /\ stack' = <<x>> \o t
           /\ x.todo \subseteq (IF RunDeliver THEN registered ELSE f.todo)
    BY <1>1, <1>2, <1>10, WalkPushes
  <2>2. UNCHANGED <<undelivered, state, handler>>
    BY <1>10 DEF RunDeliver, MatchInactive, MatchHandler, procVars, msgVars
  <2>3. /\ AtMostOne(stack', ShowFrames(m))
        /\ \A g \in ToSet(stack') : g \in ShowFrames(m) => g = x
    BY <1>6, <2>1
  <2>4. RunDeliver <=> f.op = "deliver"
    BY <1>1, <1>10 DEF RunDeliver, MatchInactive, MatchHandler, Running
  <2>5. \A q \in Proc : <<q, "OBSERVE">> \in x.todo => ~Shown(q, m)
    <3> SUFFICES ASSUME NEW q \in Proc, <<q, "OBSERVE">> \in x.todo PROVE ~Shown(q, m)
      OBVIOUS
    <3> QED
      BY <1>3, <1>7, <2>1, <2>4
  <2>6. ShowNew(m)'
    BY <1>4, <1>7, <2>2, <2>3, <2>5 DEF ShowNew, Shown
  <2>7. ShownOnce(m)'
    BY <2>3 DEF ShownOnce, ShowFrames
  <2>8. SeenOk(m)'
    BY <2>2 DEF ShowOf, SeenOk
  <2> QED
    BY <1>8, <2>6, <2>7, <2>8 DEF ShowOf
<1> QED
  BY <1>9, <1>10

\* The end of m is shown by one call, and no observer has been shown it.
LEMMA ShowEnd ==
    ASSUME TypeOK, TypeOK', BaseInv, BaseInv', Queueable = {}, \A x \in Msg : PlaceInv(x),
           ChangeFinal, Run, heap' = "intact", NEW m \in Msg, Head(stack).msg = m, ShowOf(m)
    PROVE  ShowOf(m)'
<1>1. /\ stack # << >> /\ Head(stack).op = "change" /\ Head(stack) \in ToSet(stack)
      /\ state[m] = "SENT" /\ stack \in Seq(Frame) /\ Tail(stack) \in Seq(Frame)
  BY ChangeTop DEF ChangeFinal, TypeOK
<1>2. PICK t \in Seq(Frame) : t = Tail(stack)
  BY <1>1
<1>3. /\ state' = [state EXCEPT ![m] = Head(stack).to] /\ Head(stack).to \in Final
      /\ stack' = <<Deliver(m, TRUE), Report(m)>> \o t
      /\ UNCHANGED undelivered
  BY <1>2 DEF ChangeFinal, Announce, procVars
<1>4. state'[m] \in Final
  BY <1>3 DEF TypeOK
<1>5. \A f \in ToSet(t) : f \notin ShowFrames(m)
  <2>1. ToSet(t) \subseteq ToSet(stack)
    BY <1>1, <1>2, Stacked
  <2> QED
    BY <1>1, <2>1 DEF ShowOf, ChangeUnshown
<1>6. PICK d \in Frame, r \in Frame : /\ d = Deliver(m, TRUE) /\ d.op = "deliver"
                                      /\ r = Report(m) /\ r \notin ShowFrames(m)
  <2>1. /\ Deliver(m, TRUE) \in Frame /\ Report(m) \in Frame
        /\ Deliver(m, TRUE).op = "deliver" /\ Report(m).op = "report"
    BY FramesMade DEF Deliver, Report
  <2> QED
    BY <2>1, ShowRead
<1>7. PICK u \in Seq(Frame) : u = <<r>> \o t
  BY <1>6, Push
<1>8. stack' = <<d>> \o u
  <2>1. <<d>> \o (<<r>> \o t) = <<d, r>> \o t
    BY PushPush
  <2>2. stack' = <<d, r>> \o t
    BY <1>3, <1>6
  <2> QED
    BY <1>7, <2>1, <2>2
<1>9. ToSet(u) = {r} \cup ToSet(t) /\ ToSet(stack') = {d} \cup ToSet(u)
  BY <1>6, <1>7, <1>8, StackedTwo
<1>10. \A f \in ToSet(stack') : f \in ShowFrames(m) => f = d
  BY <1>5, <1>6, <1>9
<1>11. ShownOnce(m)'
  <2>1. AtMostOne(t, ShowFrames(m))
    BY <1>5 DEF AtMostOne, ToSet
  <2>2. AtMostOne(u, ShowFrames(m))
    BY <1>6, <1>7, <2>1, AtMostPush
  <2>3. ShowFrames(m) \cap ToSet(u) = {}
    BY <1>5, <1>6, <1>9
  <2>4. AtMostOne(stack', ShowFrames(m))
    BY <1>6, <1>8, <2>2, <2>3, AtMostPush
  <2> QED
    BY <2>4 DEF ShownOnce, ShowFrames
<1>12. \A p \in Proc : \A i \in 1 .. Len(undelivered[p]) : Copy(undelivered[p][i], m) =>
          undelivered[p][i].seen = "SENT"
  BY <1>1 DEF ShowOf, SeenOk, Final
<1>13. SeenOk(m)'
  BY <1>3, <1>4, <1>12 DEF SeenOk, Final
<1>14. \A p \in Proc : ~Shown(p, m)'
  <2> SUFFICES ASSUME NEW p \in Proc, NEW i \in 1 .. Len(undelivered[p]),
                      undelivered[p][i] = [msg |-> m, seen |-> state'[m]]
               PROVE  FALSE
    BY <1>3 DEF Shown
  <2>1. Copy(undelivered[p][i], m) /\ undelivered[p][i].seen # "SENT"
    BY <1>4 DEF Copy, Final
  <2> QED
    BY <1>12, <2>1
<1>15. ShowNew(m)'
  BY <1>4, <1>6, <1>10, <1>14 DEF ShowNew
<1>16. ChangeUnshown(m)'
  BY ChangeHidden DEF ShowOf
<1> QED
  BY <1>11, <1>13, <1>15, <1>16 DEF ShowOf

\* A call of the main loop shows m to the observers when m is sent.
LEMMA ShowServe ==
    ASSUME TypeOK, TypeOK', SessionInv, BaseInv, NEW p \in Proc, ServeRpc(p) \/ Hangup(p),
           NEW m \in Good, ShowOf(m)
    PROVE  ShowOf(m)'
<1>1. stack = << >> /\ m \in Msg /\ m \notin BadAddress
  BY DEF ServeRpc, Hangup, ServeRegister, ServeUnregister, ServeJoin, ServeSend, ServeNext,
         ServeUpdate, ServeClose, Serve, Idle, Good
<1>2. ToSet(<< >>) = {}
  BY DEF ToSet
<1>3. \A q \in Proc : Thins(undelivered[q], undelivered'[q], m)
  <2>1. [Next]_vars
    BY DEF Next
  <2>2. ~MatchObserver
    BY <1>1 DEF MatchObserver, Running
  <2> QED
    BY <1>1, <2>1, <2>2, ThinStep
<1>4. CASE \A f \in ToSet(stack') : f \notin ShowFrames(m)
  <2>1. ASSUME state'[m] = state[m] PROVE SeenOk(m)' /\ ShowNew(m)'
    BY <1>1, <1>3, <1>4, <2>1, ShowKept DEF ShowOf
  <2>2. \A i \in 1 .. Len(stack') : stack'[i] \in ToSet(stack')
    BY DEF ToSet, TypeOK
  <2>3. ShownOnce(m)' /\ ChangeUnshown(m)'
    BY <1>4, <2>2 DEF ShownOnce, AtMostOne, ChangeUnshown, ShowFrames
  <2>4. state'[m] = state[m]
    <3>1. CASE ServeSend(p)
      <4>1. PICK x : x = Head(rpc[p]).msg /\ state' = [state EXCEPT ![x] = "SENT"]
        BY <3>1 DEF ServeSend
      <4>2. x # m
        <5> SUFFICES ASSUME x = m PROVE FALSE
          OBVIOUS
        <5>1. stack' = <<Deliver(m, TRUE)>>
          BY <1>1, <3>1, <4>1 DEF ServeSend
        <5>2. ToSet(stack') = {Deliver(m, TRUE)}
          BY <5>1, ShortStack
        <5>3. Deliver(m, TRUE) \in ShowFrames(m)
          BY DEF Deliver, ShowFrames
        <5> QED
          BY <1>4, <5>2, <5>3
      <4> QED
        BY <1>1, <4>1, <4>2 DEF TypeOK
    <3>2. CASE ~ServeSend(p)
      BY <3>2 DEF ServeRpc, Hangup, ServeRegister, ServeUnregister, ServeJoin, ServeNext,
                  ServeUpdate, ServeClose, msgVars
    <3> QED
      BY <3>1, <3>2
  <2> QED
    BY <2>1, <2>3, <2>4 DEF ShowOf
<1>5. CASE ServeSend(p) /\ Head(rpc[p]).msg = m
  <2>1. Serve(p, "send") /\ UNCHANGED <<alive, plan, active, channel, undelivered, handler>>
    BY <1>5 DEF ServeSend
  <2>2. PICK c \in Call : c = Head(rpc[p]) /\ c.call = "send" /\ Takes(p, c)
    BY <2>1, ServeTakes
  <2>3. c = [call |-> "send", msg |-> m]
    BY <1>5, <2>2 DEF Call
  <2>4. state[m] = "CREATED"
    <3>1. 1 \in 1 .. Len(rpc[p]) /\ rpc[p][1] = c
      BY <2>2, TakesCalls DEF BaseInv
    <3> QED
      BY <1>1, <2>3, <3>1 DEF BaseInv, Sending
  <2>5. handler[m] = NoProc
    BY <1>1, <2>4 DEF BaseInv, RequestInv, Created
  <2>6. \A q \in Proc : \A i \in 1 .. Len(undelivered[q]) : ~Copy(undelivered[q][i], m)
    BY <2>4 DEF ShowOf, SeenOk, Final
  <2>7. stack' = <<Deliver(m, TRUE)>> /\ state'[m] = "SENT"
    BY <1>1, <1>5, <2>2 DEF ServeSend, TypeOK
  <2>8. ToSet(stack') = {Deliver(m, TRUE)}
    BY <2>7, ShortStack
  <2>9. SeenOk(m)'
    BY <2>1, <2>6 DEF SeenOk
  <2>10. \A q \in Proc : ~Shown(q, m)'
    BY <2>1, <2>6, <2>7 DEF Shown, Copy
  <2>11. Deliver(m, TRUE).op = "deliver"
    BY DEF Deliver
  <2>12. ShowNew(m)'
    BY <2>1, <2>5, <2>7, <2>8, <2>10, <2>11 DEF ShowNew
  <2>13. ShownOnce(m)'
    <3>1. PICK n \in {1} : n = Len(stack')
      BY <2>7
    <3>2. \A i, j \in 1 .. n : i = j
      OBVIOUS
    <3> QED
      BY <3>1, <3>2 DEF ShownOnce, AtMostOne
  <2>14. ChangeUnshown(m)'
    BY <2>8, <2>11 DEF ChangeUnshown
  <2> QED
    BY <2>9, <2>12, <2>13, <2>14 DEF ShowOf
<1>6. CASE ~(ServeSend(p) /\ Head(rpc[p]).msg = m)
  <2>1. ASSUME NEW f, f \notin ShowFrames(m), stack' = << >> \/ stack' = <<f>>
        PROVE  \A g \in ToSet(stack') : g \notin ShowFrames(m)
    BY <1>2, <2>1, ShortStack
  <2>2. CASE ServeSend(p)
    <3>1. PICK x : x = Head(rpc[p]).msg /\ x # m
      BY <1>6, <2>2
    <3>2. stack' = <<Change(x, "FAILED"), Deliver(x, TRUE)>> \/ stack' = <<Deliver(x, TRUE)>>
      BY <2>2, <3>1 DEF ServeSend
    <3>3. ToSet(stack') \subseteq {Change(x, "FAILED"), Deliver(x, TRUE)}
      <4>1. ToSet(<<Change(x, "FAILED"), Deliver(x, TRUE)>>) = {Change(x, "FAILED"), Deliver(x, TRUE)}
        BY ShortStack
      <4>2. ToSet(<<Deliver(x, TRUE)>>) = {Deliver(x, TRUE)}
        BY ShortStack
      <4> QED
        BY <3>2, <4>1, <4>2
    <3>4. Change(x, "FAILED") \notin ShowFrames(m) /\ Deliver(x, TRUE) \notin ShowFrames(m)
      BY <3>1 DEF Change, Deliver, ShowFrames
    <3> QED
      BY <1>4, <3>3, <3>4
  <2>3. CASE ServeUpdate(p)
    <3>1. PICK f : f = Change(Head(rpc[p]).msg, Head(rpc[p]).to) /\ f \notin ShowFrames(m)
      <4>1. Change(Head(rpc[p]).msg, Head(rpc[p]).to) \notin ShowFrames(m)
        BY DEF Change, ShowFrames
      <4> QED
        BY <4>1
    <3>2. stack' = << >> \/ stack' = <<f>>
      BY <2>3, <3>1 DEF ServeUpdate
    <3> QED
      BY <1>4, <2>1, <3>1, <3>2
  <2>4. CASE ~ServeSend(p) /\ ~ServeUpdate(p)
    <3>1. stack' \in {<< >>, <<Redeliver(queued)>>, <<Deactivate(p)>>}
      BY <1>1, <2>4 DEF ServeRpc, Hangup, ServeRegister, ServeUnregister, ServeJoin, ServeNext,
                        ServeClose
    <3>2. Redeliver(queued) \notin ShowFrames(m) /\ Deactivate(p) \notin ShowFrames(m)
      BY DEF Redeliver, Deactivate, ShowFrames
    <3> QED
      BY <1>4, <2>1, <3>1, <3>2
  <2> QED
    BY <2>2, <2>3, <2>4
<1> QED
  BY <1>5, <1>6

\* Every step keeps how the requests are shown.
LEMMA ShowStep ==
    ASSUME TypeOK, TypeOK', SessionInv, SessionInv', LossInv, ShowInv, Queueable = {}, [Next]_vars
    PROVE  ShowInv'
<1> SUFFICES ASSUME heap' = "intact", NEW m \in Good PROVE ShowOf(m)'
  BY DEF ShowInv
<1>1. BaseInv /\ BaseInv' /\ (\A x \in Msg : PlaceInv(x)) /\ ShowOf(m) /\ m \in Msg
  BY HeapStays DEF SessionInv, LossInv, ShowInv, Good
<1>2. CASE Run
  <2>1. CASE ChangeFinal /\ Head(stack).msg = m
    BY <1>1, <1>2, <2>1, ShowEnd
  <2>2. CASE /\ RunDeliver \/ MatchInactive \/ MatchHandler \/ MatchObserver
             /\ Head(stack) \in ShowFrames(m)
    BY <1>1, <1>2, <2>2, ShowWalk
  <2> QED
    BY <1>1, <1>2, <2>1, <2>2, ShowAside
<1>3. ASSUME NEW p \in Proc, ServeRpc(p) \/ Hangup(p) PROVE ShowOf(m)'
  BY <1>1, <1>3, ShowServe
<1>4. CASE UNCHANGED <<state, handler, stack, undelivered>>
  BY <1>1, <1>4 DEF ShowOf, ShownOnce, SeenOk, ShowNew, ChangeUnshown, Shown, ShowFrames
<1>5. ASSUME NEW p \in Proc, Client(p) PROVE UNCHANGED <<state, handler, stack, undelivered>>
  BY <1>5 DEF Client, AskPlanned, AskNext, AskUpdate, Die, Ask, procVars, msgVars
<1>6. UNCHANGED vars => UNCHANGED <<state, handler, stack, undelivered>>
  BY DEF vars
<1> QED
  BY <1>2, <1>3, <1>4, <1>5, <1>6 DEF Next

\* Before the server runs nothing is shown and no list has a copy.
LEMMA ShowInit == ASSUME Init PROVE ShowInv /\ OrderInv
<1>1. /\ stack = << >> /\ \A p \in Proc : undelivered[p] = << >>
      /\ \A m \in Msg : state[m] = "CREATED"
  BY DEF Init
<1>2. ToSet(stack) = {}
  BY <1>1 DEF ToSet
<1>3. \A p \in Proc : 1 .. Len(undelivered[p]) = {}
  BY <1>1
<1>4. ASSUME NEW m \in Good PROVE ShowOf(m)
  <2>1. ShownOnce(m)
    BY <1>1 DEF ShownOnce, AtMostOne
  <2>2. SeenOk(m) /\ ShowNew(m) /\ ChangeUnshown(m)
    BY <1>2, <1>3 DEF SeenOk, ShowNew, ChangeUnshown
  <2> QED
    BY <2>1, <2>2 DEF ShowOf
<1>5. OrderInv
  BY <1>3 DEF OrderInv, Ordered
<1> QED
  BY <1>4, <1>5 DEF ShowInv

\* The observers are shown a request in the order of its life: in the list of any process
\* the copies of one request are in the order of the states they show, each state once.
\* The requests to an address that cannot be resolved are left out, the one kind that is
\* shown again as it was; the list of a process is in this order whatever has become of
\* the heap. The sessions are those of NoneLostAlways.
THEOREM ObserverOrderAlways ==
    ASSUME ReadsWhenSignalled, Queueable = {} PROVE Spec => []ObserverOrder
<1>1. Init => LossInv /\ ShowInv /\ OrderInv
  BY LossInit, ShowInit
<1>2. TypeOK /\ TypeOK' /\ SessionInv /\ SessionInv' /\ LossInv /\ [Next]_vars => LossInv'
  BY LossStep
<1>3. /\ TypeOK /\ TypeOK' /\ SessionInv /\ SessionInv' /\ LossInv /\ ShowInv /\ [Next]_vars
      => ShowInv'
  BY ShowStep
<1>4. TypeOK /\ SessionInv /\ ShowInv /\ OrderInv /\ [Next]_vars => OrderInv'
  BY OrderStep
<1>5. TypeOK /\ OrderInv => ObserverOrder
  BY OrderShown
<1>6. Spec => [](TypeOK /\ SessionInv)
  BY SessionAlways
<1> QED
  BY <1>1, <1>2, <1>3, <1>4, <1>5, <1>6, PTL DEF Spec

=============================================================================
