-------------------------- MODULE TtSession_proofs -------------------------
(***************************************************************************)
(* Theorems about TtSession, for every set of clients, requests and plans: *)
(* the types, the signals, who owns a request, which requests wait in the  *)
(* queue, and that what has ended stays so.                                *)
(*                                                                         *)
(* OneOwner and QueueKept speak of the idle server only; what makes them   *)
(* hold is what holds while it is busy, level by level of its call stack.  *)
(* The invariant has a part for the frames, one for the lists, one for the *)
(* calls of the clients and one for each request, and is claimed as long   *)
(* as the heap is intact.                                                  *)
(***************************************************************************)
EXTENDS TtSession, SequenceTheorems, TLAPS

-----------------------------------------------------------------------------
(* Frames and the call stack. *)

\* Every constructor of a frame makes a frame.
LEMMA FramesMade ==
    /\ \A m \in Msg, b \in BOOLEAN : Deliver(m, b) \in Frame
    /\ \A m \in Msg, s \in {"QUEUED", "REJECTED"} \cup Final : Change(m, s) \in Frame
    /\ \A m \in Msg : Report(m) \in Frame /\ Requeue(m) \in Frame
    /\ \A v \in BOOLEAN : Return(v) \in Frame
    /\ \A p \in Proc : /\ Deactivate(p) \in Frame /\ Unread(p) \in Frame
                       /\ Unanswered(p) \in Frame /\ Forget(p) \in Frame
    /\ \A p \in Proc, m \in Msg, r \in BOOLEAN : Orphaned(p, m, r) \in Frame
    /\ \A ms \in SUBSET Msg : Redeliver(ms) \in Frame
BY DEF Frame, Deliver, Change, Report, Requeue, Return, Deactivate, Unread,
       Unanswered, Forget, Orphaned, Redeliver

\* What the frame of each kind carries.
LEMMA FramesRead ==
    ASSUME NEW f \in Frame
    PROVE  /\ f.op = "deliver" => f.msg \in Msg /\ f.observers \in BOOLEAN
           /\ f.op = "match" => /\ f.msg \in Msg /\ f.observers \in BOOLEAN
                                /\ f.todo \in SUBSET Pattern /\ f.at \in SUBSET Pattern
                                /\ f.best \in Proc \cup {NoProc}
           /\ f.op = "change" => f.msg \in Msg /\ f.to \in {"QUEUED", "REJECTED"} \cup Final
           /\ f.op \in {"report", "requeue"} => f.msg \in Msg
           /\ f.op = "return" => f.val \in BOOLEAN
           /\ f.op \in {"deactivate", "unread", "unanswered", "forget"} => f.proc \in Proc
           /\ f.op = "orphaned" => f.proc \in Proc /\ f.msg \in Msg /\ f.wasRead \in BOOLEAN
           /\ f.op = "redeliver" => f.todo \in SUBSET Msg
BY DEF Frame

\* While a frame runs, it and what is below it are frames.
LEMMA RunningFrame ==
    ASSUME TypeOK, NEW op, Running(op)
    PROVE  Head(stack) \in Frame /\ Tail(stack) \in Seq(Frame) /\ Head(stack).op = op
BY HeadTailProperties DEF TypeOK, Running

\* The match frame with some of its fields updated is a match frame.
LEMMA MatchFrame ==
    ASSUME NEW f \in Frame, f.op = "match",
           NEW todo \in SUBSET Pattern, NEW at \in SUBSET Pattern,
           NEW best \in Proc \cup {NoProc}
    PROVE  /\ [f EXCEPT !.todo = todo, !.at = at] \in Frame
           /\ [f EXCEPT !.todo = todo, !.at = at, !.best = best] \in Frame
           /\ [[f EXCEPT !.todo = todo, !.at = at] EXCEPT !.best = best] \in Frame
BY DEF Frame

-----------------------------------------------------------------------------
(* Type correctness. *)

\* A stack of one frame, or of two.
LEMMA Single == \A f, g \in Frame : <<f>> \in Seq(Frame) /\ <<f, g>> \in Seq(Frame)
OBVIOUS

\* Pushing frames on a stack of frames.
LEMMA Push ==
    ASSUME NEW s \in Seq(Frame)
    PROVE  /\ \A f \in Frame : <<f>> \o s \in Seq(Frame)
           /\ \A f, g \in Frame : <<f, g>> \o s \in Seq(Frame)
           /\ \A f, g, h \in Frame : <<f, g, h>> \o s \in Seq(Frame)
<1>1. \A f, g, h \in Frame : /\ <<f>> \in Seq(Frame) /\ <<f, g>> \in Seq(Frame)
                             /\ <<f, g, h>> \in Seq(Frame)
  OBVIOUS
<1> QED
  BY <1>1, ConcatProperties

\* add_message keeps the types of what it changes.
LEMMA AddMessageType ==
    ASSUME TypeOK, NEW p \in Proc, NEW e \in Entry,
           NEW ok \in Seq(Frame), NEW bad \in Seq(Frame), AddMessage(p, e, ok, bad)
    PROVE  /\ stack' \in Seq(Frame)
           /\ undelivered' \in [Proc -> Seq(Entry)]
           /\ signalled' \in [Proc -> BOOLEAN]
           /\ heap' \in {"intact", "corrupt"}
<1>1. <<Deactivate(p)>> \o bad \in Seq(Frame)
  BY FramesMade, Push
<1>2. \A s \in Seq(Entry) : \A i \in DOMAIN s : Append(RemoveAt(s, i), e) \in Seq(Entry)
  <2> SUFFICES ASSUME NEW s \in Seq(Entry), NEW i \in DOMAIN s
               PROVE  Append(RemoveAt(s, i), e) \in Seq(Entry)
    OBVIOUS
  <2>1. SubSeq(s, 1, i-1) \in Seq(Entry) /\ SubSeq(s, i+1, Len(s)) \in Seq(Entry)
    OBVIOUS
  <2> QED
    BY <2>1, ConcatProperties, AppendProperties DEF RemoveAt
<1>3. \A s \in Seq(Entry) : Append(s, e) \in Seq(Entry)
  OBVIOUS
<1>4. CASE Gone(p) /\ stack' = bad /\ UNCHANGED <<undelivered, signalled, heap>>
  BY <1>4 DEF TypeOK
<1>5. CASE MoveToEnd(p, e, ok)
  <2>1. PICK i \in DOMAIN undelivered[p] :
           undelivered' = [undelivered EXCEPT ![p] = Append(RemoveAt(@, i), e)]
    BY <1>5 DEF MoveToEnd
  <2>2. Append(RemoveAt(undelivered[p], i), e) \in Seq(Entry)
    BY <1>2, <2>1 DEF TypeOK
  <2>3. undelivered' \in [Proc -> Seq(Entry)]
    BY <2>1, <2>2 DEF TypeOK
  <2>4. heap' \in {"intact", "corrupt"}
    BY <1>5 DEF MoveToEnd, TypeOK
  <2> QED
    BY <1>5, <2>3, <2>4 DEF MoveToEnd, TypeOK
<1>6. CASE AppendAndSignal(p, e, ok, bad)
  BY <1>1, <1>3, <1>6 DEF AppendAndSignal, Signal, TypeOK
<1> QED
  BY <1>4, <1>5, <1>6 DEF AddMessage

\* The walk over the patterns goes on, with the best one changed or not.
LEMMA VisitFrame ==
    ASSUME TypeOK, NEW f \in Frame, f.op = "match", NEW pat \in Pattern,
           NEW b \in Proc \cup {NoProc}
    PROVE  Visit(f, pat) \in Frame /\ [Visit(f, pat) EXCEPT !.best = b] \in Frame
<1>1. f.todo \ {pat} \in SUBSET Pattern /\ {pat} \in SUBSET Pattern
  BY FramesRead
<1> QED
  BY <1>1, MatchFrame DEF Visit

\* Every step of the server's own code keeps the types.
LEMMA RunType == ASSUME TypeOK, Run PROVE TypeOK'
<1>1. CASE RunDeliver
  <2>1. Head(stack) \in Frame /\ Tail(stack) \in Seq(Frame) /\ Head(stack).op = "deliver"
    BY <1>1, RunningFrame DEF RunDeliver
  <2>2. [op |-> "match", msg |-> Head(stack).msg, observers |-> Head(stack).observers,
         todo |-> registered, at |-> {}, best |-> NoProc] \in Frame
    BY <2>1, FramesRead DEF Frame, TypeOK
  <2>3. stack' \in Seq(Frame)
    BY <1>1, <2>1, <2>2, Push DEF RunDeliver
  <2> QED
    BY <1>1, <2>3 DEF RunDeliver, TypeOK, vars, procVars, msgVars, clientVars
<1>2. CASE MatchHosed
  BY <1>2 DEF MatchHosed, TypeOK, vars, procVars, msgVars, clientVars
<1>3. CASE MatchInactive
  <2>1. Head(stack) \in Frame /\ Tail(stack) \in Seq(Frame) /\ Head(stack).op = "match"
    BY <1>3, RunningFrame DEF MatchInactive
  <2>2. [Head(stack) EXCEPT !.todo = {}, !.at = {}] \in Frame
    BY <2>1, MatchFrame
  <2>3. stack' \in Seq(Frame)
    BY <1>3, <2>1, <2>2, Push DEF MatchInactive
  <2> QED
    BY <1>3, <2>3 DEF MatchInactive, TypeOK, vars, procVars, msgVars, clientVars
<1>4. CASE MatchHandler
  <2>1. Head(stack) \in Frame /\ Tail(stack) \in Seq(Frame) /\ Head(stack).op = "match"
    BY <1>4, RunningFrame DEF MatchHandler
  <2>2. PICK pat \in Left(Head(stack)) : \E b \in {Head(stack).best, pat[1]} :
           stack' = <<[Visit(Head(stack), pat) EXCEPT !.best = b]>> \o Tail(stack)
    BY <1>4 DEF MatchHandler
  <2>3. PICK b \in {Head(stack).best, pat[1]} :
           stack' = <<[Visit(Head(stack), pat) EXCEPT !.best = b]>> \o Tail(stack)
    BY <2>2
  <2>4. pat \in Pattern /\ b \in Proc \cup {NoProc}
    BY <2>1, <2>3, FramesRead DEF Left, TypeOK, Pattern
  <2>5. [Visit(Head(stack), pat) EXCEPT !.best = b] \in Frame
    BY <2>1, <2>4, VisitFrame
  <2>6. stack' \in Seq(Frame)
    BY <2>1, <2>3, <2>5, Push
  <2> QED
    BY <1>4, <2>6 DEF MatchHandler, TypeOK, vars, procVars, msgVars, clientVars
<1>5. CASE MatchObserver
  <2>1. Head(stack) \in Frame /\ Tail(stack) \in Seq(Frame) /\ Head(stack).op = "match"
    BY <1>5, RunningFrame DEF MatchObserver
  <2>2. PICK pat \in Left(Head(stack)) :
           LET f == Head(stack)
               next == <<Visit(f, pat)>> \o Tail(stack)
           IN IF f.observers
              THEN AddMessage(pat[1], [msg |-> f.msg, seen |-> state[f.msg]], next, next)
              ELSE stack' = next /\ UNCHANGED <<undelivered, signalled, heap>>
    BY <1>5 DEF MatchObserver
  <2>3. pat \in Pattern /\ pat[1] \in Proc
    BY <2>1, <2>2, FramesRead DEF Left, TypeOK, Pattern
  <2>4. [msg |-> Head(stack).msg, seen |-> state[Head(stack).msg]] \in Entry
    BY <2>1, FramesRead DEF Entry, TypeOK
  <2>5. <<Visit(Head(stack), pat)>> \o Tail(stack) \in Seq(Frame)
    BY <2>1, <2>3, VisitFrame, Push
  <2>6. /\ stack' \in Seq(Frame) /\ undelivered' \in [Proc -> Seq(Entry)]
        /\ signalled' \in [Proc -> BOOLEAN] /\ heap' \in {"intact", "corrupt"}
    <3>1. CASE Head(stack).observers
      BY <2>2, <2>3, <2>4, <2>5, <3>1, AddMessageType
    <3>2. CASE ~Head(stack).observers
      BY <2>2, <2>5, <3>2 DEF TypeOK
    <3> QED
      BY <3>1, <3>2
  <2> QED
    BY <1>5, <2>6 DEF MatchObserver, TypeOK, vars, procVars, msgVars, clientVars
<1>6. CASE GiveToHandler
  <2> DEFINE f == Head(stack)
  <2>1. f \in Frame /\ Tail(stack) \in Seq(Frame) /\ f.op = "match"
    BY <1>6, RunningFrame DEF GiveToHandler, MatchEnded
  <2>2. f.msg \in Msg /\ f.best \in Proc
    BY <1>6, <2>1, FramesRead DEF GiveToHandler
  <2>3. Live(f.msg) \in Entry
    BY <2>2 DEF Live, Entry
  <2>4. /\ <<Return(TRUE)>> \o Tail(stack) \in Seq(Frame)
        /\ <<Deliver(f.msg, FALSE)>> \o Tail(stack) \in Seq(Frame)
    BY <2>1, <2>2, FramesMade, Push
  <2>5. AddMessage(f.best, Live(f.msg), <<Return(TRUE)>> \o Tail(stack),
                   <<Deliver(f.msg, FALSE)>> \o Tail(stack))
    BY <1>6 DEF GiveToHandler
  <2>6. /\ stack' \in Seq(Frame) /\ undelivered' \in [Proc -> Seq(Entry)]
        /\ signalled' \in [Proc -> BOOLEAN] /\ heap' \in {"intact", "corrupt"}
    BY <2>2, <2>3, <2>4, <2>5, AddMessageType
  <2>7. /\ handler' \in [Msg -> Proc \cup {NoProc}]
        /\ state' \in [Msg -> State]
        /\ given' \in [Msg -> SUBSET Proc]
    BY <1>6, <2>2 DEF GiveToHandler, TypeOK, State
  <2> QED
    BY <1>6, <2>6, <2>7 DEF GiveToHandler, TypeOK, vars, procVars, msgVars, clientVars
<1>7. CASE NoHandler
  <2>1. Head(stack) \in Frame /\ Tail(stack) \in Seq(Frame) /\ Head(stack).op = "match"
    BY <1>7, RunningFrame DEF NoHandler, MatchEnded
  <2>2. Change(Head(stack).msg, Disposition(Head(stack).msg)) \in Frame
    BY <2>1, FramesRead, FramesMade DEF Disposition, Final
  <2>3. Return(TRUE) \in Frame /\ Return(FALSE) \in Frame
    BY FramesMade
  <2>4. stack' \in Seq(Frame)
    BY <1>7, <2>1, <2>2, <2>3, Push DEF NoHandler
  <2> QED
    BY <1>7, <2>4 DEF NoHandler, TypeOK, vars, procVars, msgVars, clientVars
<1>8. CASE RunReturn
  <2>1. Head(stack) \in Frame /\ Tail(stack) \in Seq(Frame) /\ Head(stack).op = "return"
    BY <1>8, RunningFrame DEF RunReturn
  <2> QED
    BY <1>8, <2>1, FramesRead DEF RunReturn, TypeOK, vars, procVars, msgVars, clientVars
<1>9. CASE ChangeRepeated
  <2>1. Head(stack) \in Frame /\ Tail(stack) \in Seq(Frame) /\ Head(stack).op = "change"
    BY <1>9, RunningFrame DEF ChangeRepeated
  <2> QED
    BY <1>9, <2>1 DEF ChangeRepeated, TypeOK, vars, procVars, msgVars, clientVars
<1>10. CASE ChangeFinal
  <2>1. Head(stack) \in Frame /\ Tail(stack) \in Seq(Frame) /\ Head(stack).op = "change"
    BY <1>10, RunningFrame DEF ChangeFinal
  <2>2. Head(stack).msg \in Msg
    BY <2>1, FramesRead
  <2>3. stack' \in Seq(Frame)
    BY <1>10, <2>1, <2>2, FramesMade, Push DEF ChangeFinal, Announce
  <2>4. reported' \in [Msg -> SUBSET State] /\ state' \in [Msg -> State]
    BY <1>10, <2>1, <2>2, FramesRead DEF ChangeFinal, TypeOK, State
  <2> QED
    BY <1>10, <2>3, <2>4 DEF ChangeFinal, TypeOK, vars, procVars, msgVars, clientVars
<1>11. CASE ChangeQueued
  <2>1. Head(stack) \in Frame /\ Tail(stack) \in Seq(Frame) /\ Head(stack).op = "change"
    BY <1>11, RunningFrame DEF ChangeQueued
  <2>2. Head(stack).msg \in Msg
    BY <2>1, FramesRead
  <2>3. stack' \in Seq(Frame)
    BY <1>11, <2>1, <2>2, FramesMade, Push DEF ChangeQueued
  <2>4. /\ reported' \in [Msg -> SUBSET State] /\ state' \in [Msg -> State]
        /\ queued' \subseteq Msg
    BY <1>11, <2>1, <2>2, FramesRead DEF ChangeQueued, TypeOK, State
  <2> QED
    BY <1>11, <2>3, <2>4 DEF ChangeQueued, TypeOK, vars, procVars, msgVars, clientVars
<1>12. CASE ChangeRejected
  <2>1. Head(stack) \in Frame /\ Tail(stack) \in Seq(Frame) /\ Head(stack).op = "change"
    BY <1>12, RunningFrame DEF ChangeRejected
  <2>2. Head(stack).msg \in Msg
    BY <2>1, FramesRead
  <2>3. stack' \in Seq(Frame)
    BY <1>12, <2>1, <2>2, FramesMade, Push DEF ChangeRejected, Rematch
  <2>4. /\ tried' \in [Msg -> SUBSET Proc] /\ state' \in [Msg -> State]
        /\ handler' \in [Msg -> Proc \cup {NoProc}]
    BY <1>12, <2>1, <2>2, FramesRead DEF ChangeRejected, TypeOK, State
  <2> QED
    BY <1>12, <2>3, <2>4 DEF ChangeRejected, TypeOK, vars, procVars, msgVars, clientVars
<1>13. CASE RunReport
  <2>1. Head(stack) \in Frame /\ Tail(stack) \in Seq(Frame) /\ Head(stack).op = "report"
    BY <1>13, RunningFrame DEF RunReport
  <2>2. Head(stack).msg \in Msg /\ Sender[Head(stack).msg] \in Proc
    BY <2>1, FramesRead, SessionAssumption
  <2>3. Live(Head(stack).msg) \in Entry
    BY <2>2 DEF Live, Entry
  <2>4. /\ stack' \in Seq(Frame) /\ undelivered' \in [Proc -> Seq(Entry)]
        /\ signalled' \in [Proc -> BOOLEAN] /\ heap' \in {"intact", "corrupt"}
    BY <1>13, <2>1, <2>2, <2>3, AddMessageType DEF RunReport
  <2> QED
    BY <1>13, <2>4 DEF RunReport, TypeOK, vars, procVars, msgVars, clientVars
<1>14. CASE RunDeactivate
  <2>1. Head(stack) \in Frame /\ Tail(stack) \in Seq(Frame) /\ Head(stack).op = "deactivate"
    BY <1>14, RunningFrame DEF RunDeactivate
  <2>2. Head(stack).proc \in Proc
    BY <2>1, FramesRead
  <2>3. stack' \in Seq(Frame)
    <3> DEFINE p == Head(stack).proc
    <3>1. Unread(p) \in Frame /\ Unanswered(p) \in Frame /\ Forget(p) \in Frame
      BY <2>2, FramesMade
    <3>2. <<Unread(p), Unanswered(p), Forget(p)>> \o Tail(stack) \in Seq(Frame)
      BY <2>1, <3>1, Push
    <3> QED
      BY <1>14, <2>1, <3>2 DEF RunDeactivate
  <2>4. /\ active' \in [Proc -> BOOLEAN] /\ channel' \in [Proc -> BOOLEAN]
        /\ watched' \subseteq Proc
    BY <1>14, <2>2 DEF RunDeactivate, TypeOK
  <2> QED
    BY <1>14, <2>3, <2>4 DEF RunDeactivate, TypeOK, vars, procVars, msgVars, clientVars
<1>15. CASE RunUnread
  <2>1. Head(stack) \in Frame /\ Tail(stack) \in Seq(Frame) /\ Head(stack).op = "unread"
    BY <1>15, RunningFrame DEF RunUnread
  <2> DEFINE p == Head(stack).proc
              e == Head(undelivered[p])
  <2>2. p \in Proc
    BY <2>1, FramesRead
  <2>3. CASE undelivered[p] = << >> /\ stack' = Tail(stack)
    BY <1>15, <2>1, <2>3 DEF RunUnread, TypeOK, vars, procVars, msgVars, clientVars
  <2>4. CASE /\ undelivered[p] # << >>
             /\ stack' = FailUnread(p, e) \o <<Orphaned(p, e.msg, FALSE)>> \o stack
    <3>1. e \in Entry
      BY <2>2, <2>4, HeadTailProperties DEF TypeOK
    <3>2. e.msg \in Msg
      BY <3>1 DEF Entry
    <3>3. FailUnread(p, e) \in Seq(Frame)
      BY <3>2, FramesMade DEF FailUnread, Final
    <3>4. <<Orphaned(p, e.msg, FALSE)>> \in Seq(Frame)
      <4>1. Orphaned(p, e.msg, FALSE) \in Frame
        BY <2>2, <3>2, FramesMade
      <4> QED
        BY <4>1, Single
    <3>5. stack' \in Seq(Frame)
      BY <2>4, <3>3, <3>4, ConcatProperties DEF TypeOK
    <3> QED
      BY <1>15, <3>5 DEF RunUnread, TypeOK, vars, procVars, msgVars, clientVars
  <2> QED
    BY <1>15, <2>3, <2>4 DEF RunUnread
<1>16. CASE RunUnanswered
  <2>1. Head(stack) \in Frame /\ Tail(stack) \in Seq(Frame) /\ Head(stack).op = "unanswered"
    BY <1>16, RunningFrame DEF RunUnanswered
  <2>2. Head(stack).proc \in Proc
    BY <2>1, FramesRead
  <2>3. \A m \in delivered[Head(stack).proc] :
           FailUnanswered(Head(stack).proc, m) \o stack \in Seq(Frame)
    BY <2>2, FramesMade, Push DEF FailUnanswered, Final, TypeOK
  <2>4. stack' \in Seq(Frame)
    BY <1>16, <2>1, <2>3 DEF RunUnanswered
  <2> QED
    BY <1>16, <2>4 DEF RunUnanswered, TypeOK, vars, procVars, msgVars, clientVars
<1>17. CASE RunOrphaned
  <2>1. Head(stack) \in Frame /\ Tail(stack) \in Seq(Frame) /\ Head(stack).op = "orphaned"
    BY <1>17, RunningFrame DEF RunOrphaned
  <2> DEFINE p == Head(stack).proc
              m == Head(stack).msg
  <2>2. p \in Proc /\ m \in Msg
    BY <2>1, FramesRead
  <2>3. tried' \in [Msg -> SUBSET Proc] /\ delivered' \in [Proc -> SUBSET Msg]
    BY <1>17, <2>2 DEF RunOrphaned, Settle, TypeOK
  <2>4. undelivered' \in [Proc -> Seq(Entry)]
    BY <1>17, <2>2 DEF RunOrphaned, TypeOK
  <2> QED
    BY <1>17, <2>1, <2>3, <2>4 DEF RunOrphaned, TypeOK, vars, procVars, msgVars, clientVars
<1>18. CASE RunForget
  <2>1. Head(stack) \in Frame /\ Tail(stack) \in Seq(Frame) /\ Head(stack).op = "forget"
    BY <1>18, RunningFrame DEF RunForget
  <2> QED
    BY <1>18, <2>1 DEF RunForget, TypeOK, vars, procVars, msgVars, clientVars
<1>19. CASE RunRedeliver
  <2>1. Head(stack) \in Frame /\ Tail(stack) \in Seq(Frame) /\ Head(stack).op = "redeliver"
    BY <1>19, RunningFrame DEF RunRedeliver
  <2> DEFINE todo == Head(stack).todo
  <2>2. todo \in SUBSET Msg
    BY <2>1, FramesRead
  <2>3. CASE todo = {} /\ stack' = Tail(stack) /\ UNCHANGED state
    BY <1>19, <2>1, <2>3 DEF RunRedeliver, TypeOK, vars, procVars, msgVars, clientVars
  <2>4. ASSUME NEW m \in todo, state' = [state EXCEPT ![m] = "SENT"],
               stack' = <<Deliver(m, TRUE), Requeue(m), Redeliver(todo \ {m})>> \o Tail(stack)
        PROVE  TypeOK'
    <3>1. stack' \in Seq(Frame)
      BY <2>1, <2>2, <2>4, FramesMade, Push
    <3>2. state' \in [Msg -> State]
      BY <2>2, <2>4 DEF TypeOK, State
    <3> QED
      BY <1>19, <3>1, <3>2 DEF RunRedeliver, TypeOK, vars, procVars, msgVars, clientVars
  <2> QED
    BY <1>19, <2>3, <2>4 DEF RunRedeliver
<1>20. CASE RunRequeue
  <2>1. Head(stack) \in Frame /\ Tail(stack) \in Seq(Frame) /\ Head(stack).op = "requeue"
    BY <1>20, RunningFrame DEF RunRequeue
  <2>2. state' \in [Msg -> State] /\ queued' \subseteq Msg
    BY <1>20, <2>1, FramesRead DEF RunRequeue, Dequeue, RevertToQueued, TypeOK, State
  <2> QED
    BY <1>20, <2>1, <2>2 DEF RunRequeue, TypeOK, vars, procVars, msgVars, clientVars
<1> QED
  BY <1>1, <1>2, <1>3, <1>4, <1>5, <1>6, <1>7, <1>8, <1>9, <1>10, <1>11, <1>12,
     <1>13, <1>14, <1>15, <1>16, <1>17, <1>18, <1>19, <1>20 DEF Run

\* So does every step of a client.
LEMMA ClientType == ASSUME TypeOK, NEW p \in Proc, Client(p) PROVE TypeOK'
<1>0. ASSUME NEW call \in Call, Ask(p, call), plan' \in [Proc -> SUBSET Call] PROVE TypeOK'
  BY <1>0 DEF Ask, TypeOK, vars, procVars, msgVars, clientVars
<1>1. CASE AskPlanned(p)
  <2>1. PICK call \in plan[p] : Ask(p, call) /\ plan' = [plan EXCEPT ![p] = @ \ {call}]
    BY <1>1 DEF AskPlanned
  <2> QED
    BY <1>0, <2>1 DEF TypeOK
<1>2. CASE AskNext(p)
  <2>1. [call |-> "next"] \in Call
    BY DEF Call
  <2> QED
    BY <1>0, <1>2, <2>1 DEF AskNext, TypeOK
<1>3. CASE AskUpdate(p)
  <2>1. PICK m \in delivered[p] : \E s \in {"REJECTED"} \cup Final :
           Ask(p, [call |-> "update", msg |-> m, to |-> s])
    BY <1>3 DEF AskUpdate
  <2>2. PICK s \in {"REJECTED"} \cup Final :
           Ask(p, [call |-> "update", msg |-> m, to |-> s])
    BY <2>1
  <2>3. [call |-> "update", msg |-> m, to |-> s] \in Call
    BY DEF Call, TypeOK
  <2> QED
    BY <1>0, <1>3, <2>2, <2>3 DEF AskUpdate, TypeOK
<1>4. CASE Die(p)
  BY <1>4 DEF Die, TypeOK, vars, procVars, msgVars, clientVars
<1> QED
  BY <1>1, <1>2, <1>3, <1>4 DEF Client

\* What an RPC carries, and what serving it leaves in the socket.
LEMMA ServeType ==
    ASSUME TypeOK, NEW p \in Proc, NEW name, Serve(p, name)
    PROVE  /\ rpc' \in [Proc -> Seq(Call)]
           /\ Head(rpc[p]) \in Call /\ Head(rpc[p]).call = name
           /\ Seq(Frame) # {} /\ << >> \in Seq(Frame)
           /\ stack = << >>
<1>1. rpc[p] \in Seq(Call) /\ rpc[p] # << >>
  BY DEF Serve, TypeOK
<1>2. Head(rpc[p]) \in Call /\ Tail(rpc[p]) \in Seq(Call)
  BY <1>1, HeadTailProperties
<1> QED
  BY <1>2 DEF Serve, TypeOK, Idle

\* So does the service of every RPC.
LEMMA RpcType == ASSUME TypeOK, NEW p \in Proc, ServeRpc(p) PROVE TypeOK'
<1>1. CASE ServeRegister(p)
  <2>1. /\ rpc' \in [Proc -> Seq(Call)]
        /\ Head(rpc[p]) \in Call /\ Head(rpc[p]).call = "register"
    BY <1>1, ServeType DEF ServeRegister
  <2>2. Head(rpc[p]).category \in Category
    BY <2>1 DEF Call
  <2> QED
    BY <1>1, <2>1, <2>2 DEF ServeRegister, TypeOK, Pattern, vars, procVars, msgVars, clientVars
<1>2. CASE ServeUnregister(p)
  <2>1. rpc' \in [Proc -> Seq(Call)]
    BY <1>2, ServeType DEF ServeUnregister
  <2> QED
    BY <1>2, <2>1 DEF ServeUnregister, TypeOK, vars, procVars, msgVars, clientVars
<1>3. CASE ServeJoin(p)
  <2>1. rpc' \in [Proc -> Seq(Call)]
    BY <1>3, ServeType DEF ServeJoin
  <2>2. Redeliver(queued) \in Frame
    BY FramesMade DEF TypeOK
  <2>3. stack' \in Seq(Frame)
    BY <1>3, <2>2 DEF ServeJoin
  <2> QED
    BY <1>3, <2>1, <2>3 DEF ServeJoin, TypeOK, vars, procVars, msgVars, clientVars
<1>4. CASE ServeSend(p)
  <2> DEFINE m == Head(rpc[p]).msg
  <2>1. rpc' \in [Proc -> Seq(Call)] /\ m \in Msg
    BY <1>4, ServeType DEF ServeSend, Call
  <2>2. Change(m, "FAILED") \in Frame /\ Deliver(m, TRUE) \in Frame
    BY <2>1, FramesMade DEF Final
  <2>3. stack' \in Seq(Frame)
    <3>1. /\ <<Change(m, "FAILED"), Deliver(m, TRUE)>> \in Seq(Frame)
          /\ <<Deliver(m, TRUE)>> \in Seq(Frame)
      BY <2>2, Single
    <3> QED
      BY <1>4, <3>1 DEF ServeSend
  <2>4. state' \in [Msg -> State]
    BY <1>4, <2>1 DEF ServeSend, TypeOK, State
  <2> QED
    BY <1>4, <2>1, <2>3, <2>4 DEF ServeSend, TypeOK, vars, procVars, msgVars, clientVars
<1>5. CASE ServeNext(p)
  <2> DEFINE list == undelivered[p]
             m == Head(list).msg
  <2>1. rpc' \in [Proc -> Seq(Call)]
    BY <1>5, ServeType DEF ServeNext
  <2>2. list \in Seq(Entry)
    BY DEF TypeOK
  <2>3. list # << >> => m \in Msg /\ Tail(list) \in Seq(Entry)
    <3>1. list # << >> => Head(list) \in Entry /\ Tail(list) \in Seq(Entry)
      BY <2>2, HeadTailProperties
    <3> QED
      BY <3>1 DEF Entry
  <2>4. undelivered' \in [Proc -> Seq(Entry)]
    BY <1>5, <2>3 DEF ServeNext, TypeOK
  <2>5. delivered' \in [Proc -> SUBSET Msg]
    BY <1>5, <2>3 DEF ServeNext, TypeOK
  <2>6. told' \in [Msg -> Seq(State)]
    <3>1. list # << >> => Append(told[m], state[m]) \in Seq(State)
      BY <2>3, AppendProperties DEF TypeOK
    <3> QED
      BY <1>5, <2>3, <3>1 DEF ServeNext, TypeOK
  <2>7. signalled' \in [Proc -> BOOLEAN]
    <3>1. MoreToRead(list) \in BOOLEAN
      BY DEF MoreToRead
    <3>2. \A b \in BOOLEAN : (b /\ MoreToRead(list)) \in BOOLEAN
      BY <3>1
    <3>3. signalled' = [signalled EXCEPT ![p] = @ /\ MoreToRead(list)]
      BY <1>5 DEF ServeNext
    <3> QED
      BY <3>2, <3>3 DEF TypeOK
  <2> QED
    BY <1>5, <2>1, <2>4, <2>5, <2>6, <2>7 DEF ServeNext, TypeOK, vars, procVars, msgVars, clientVars
<1>6. CASE ServeUpdate(p)
  <2> DEFINE call == Head(rpc[p])
  <2>1. /\ rpc' \in [Proc -> Seq(Call)]
        /\ call.msg \in Msg /\ call.to \in {"REJECTED"} \cup Final
    BY <1>6, ServeType DEF ServeUpdate, Call
  <2>2. Change(call.msg, call.to) \in Frame
    BY <2>1, FramesMade
  <2>3. stack' \in Seq(Frame)
    BY <1>6, <2>2 DEF ServeUpdate
  <2>4. delivered' \in [Proc -> SUBSET Msg]
    BY <1>6, <2>1 DEF ServeUpdate, Settle, TypeOK
  <2> QED
    BY <1>6, <2>1, <2>3, <2>4 DEF ServeUpdate, TypeOK, vars, procVars, msgVars, clientVars
<1>7. CASE ServeClose(p)
  <2>1. rpc' \in [Proc -> Seq(Call)]
    BY <1>7, ServeType DEF ServeClose
  <2>2. Deactivate(p) \in Frame
    BY FramesMade
  <2>3. stack' \in Seq(Frame)
    BY <1>7, <2>2 DEF ServeClose
  <2> QED
    BY <1>7, <2>1, <2>3 DEF ServeClose, TypeOK, vars, procVars, msgVars, clientVars
<1> QED
  BY <1>1, <1>2, <1>3, <1>4, <1>5, <1>6, <1>7 DEF ServeRpc

\* So does the loss of a channel.
LEMMA HangupType == ASSUME TypeOK, NEW p \in Proc, Hangup(p) PROVE TypeOK'
<1>1. Deactivate(p) \in Frame
  BY FramesMade
<1>2. stack' \in Seq(Frame)
  BY <1>1 DEF Hangup
<1> QED
  BY <1>2 DEF Hangup, TypeOK, vars, procVars, msgVars, clientVars

\* Whatever the clients do, and however deep the server's calls nest, every
\* variable keeps its type: the call stack is made of frames of functions of
\* the server, and every list of a procid of entries of messages.
THEOREM TypeCorrect == Spec => []TypeOK
<1>1. Init => TypeOK
  BY SessionAssumption DEF Init, TypeOK, State
<1>2. TypeOK /\ [Next]_vars => TypeOK'
  <2> SUFFICES ASSUME TypeOK, [Next]_vars PROVE TypeOK'
    OBVIOUS
  <2>1. CASE UNCHANGED vars
    BY <2>1 DEF TypeOK, vars
  <2>2. CASE Next
    BY <2>2, RunType, ClientType, RpcType, HangupType DEF Next
  <2> QED
    BY <2>1, <2>2
<1> QED
  BY <1>1, <1>2, PTL DEF Spec

-----------------------------------------------------------------------------
(* No missed wakeup. *)

\* Wakeup is inductive once it is known that an active process has a channel:
\* the server gives up a process and its channel in one step.
WakeupInv == Wakeup /\ \A p \in Proc : active[p] => channel[p]

\* add_message signals whom it gives a message, or had done so before.
LEMMA AddMessageWakeup ==
    ASSUME TypeOK, WakeupInv, NEW p \in Proc, NEW e, NEW ok, NEW bad,
           AddMessage(p, e, ok, bad), UNCHANGED <<active, channel>>
    PROVE  WakeupInv'
<1>1. CASE Gone(p) /\ stack' = bad /\ UNCHANGED <<undelivered, signalled, heap>>
  BY <1>1 DEF WakeupInv, Wakeup
<1>2. CASE MoveToEnd(p, e, ok)
  <2>1. undelivered[p] # << >>
    BY <1>2 DEF MoveToEnd
  <2>2. \A q \in Proc \ {p} : undelivered'[q] = undelivered[q]
    BY <1>2 DEF MoveToEnd, TypeOK
  <2> QED
    BY <1>2, <2>1, <2>2 DEF MoveToEnd, WakeupInv, Wakeup
<1>3. CASE AppendAndSignal(p, e, ok, bad)
  <2>1. \A q \in Proc \ {p} : undelivered'[q] = undelivered[q] /\ signalled'[q] = signalled[q]
    BY <1>3 DEF AppendAndSignal, Signal, TypeOK
  <2>2. channel[p] => signalled'[p]
    BY <1>3 DEF AppendAndSignal, Signal, TypeOK
  <2> QED
    BY <2>1, <2>2 DEF WakeupInv, Wakeup
<1> QED
  BY <1>1, <1>2, <1>3 DEF AddMessage

\* Whoever dies, however often the server is interrupted by itself: an active
\* process that has messages to read has a byte in its signalling channel.
THEOREM WakeupAlways == Spec => []Wakeup
<1>1. Init => WakeupInv
  BY DEF Init, WakeupInv, Wakeup
<1>2. TypeOK /\ WakeupInv /\ [Next]_vars => WakeupInv'
  <2> SUFFICES ASSUME TypeOK, WakeupInv, [Next]_vars PROVE WakeupInv'
    OBVIOUS
  <2> USE DEF procVars
  <2>1. ASSUME UNCHANGED <<active, channel, signalled, undelivered>> PROVE WakeupInv'
    BY <2>1 DEF WakeupInv, Wakeup
  <2>2. CASE Run
    <3>1. CASE RunDeliver \/ MatchHosed \/ MatchInactive \/ MatchHandler
      BY <2>1, <3>1 DEF RunDeliver, MatchHosed, MatchInactive, MatchHandler
    <3>2. CASE NoHandler \/ RunReturn \/ ChangeRepeated \/ ChangeFinal \/ ChangeQueued
                 \/ ChangeRejected
      BY <2>1, <3>2 DEF NoHandler, RunReturn, ChangeRepeated, ChangeFinal, ChangeQueued,
                        ChangeRejected
    <3>3. CASE RunUnread \/ RunUnanswered \/ RunForget \/ RunRedeliver \/ RunRequeue
      BY <2>1, <3>3 DEF RunUnread, RunUnanswered, RunForget, RunRedeliver, RunRequeue
    <3>4. CASE MatchObserver
      <4>1. PICK pat \in Left(Head(stack)) :
               LET f == Head(stack)
                   next == <<Visit(f, pat)>> \o Tail(stack)
               IN IF f.observers
                  THEN AddMessage(pat[1], [msg |-> f.msg, seen |-> state[f.msg]], next, next)
                  ELSE stack' = next /\ UNCHANGED <<undelivered, signalled, heap>>
        BY <3>4 DEF MatchObserver
      <4>2. pat[1] \in Proc
        BY <3>4, <4>1, RunningFrame, FramesRead DEF MatchObserver, Left, Pattern, TypeOK
      <4>3. UNCHANGED <<active, channel>>
        BY <3>4 DEF MatchObserver
      <4> QED
        BY <2>1, <4>1, <4>2, <4>3, AddMessageWakeup
    <3>5. CASE GiveToHandler
      <4>1. Head(stack).best \in Proc
        BY <3>5, RunningFrame, FramesRead DEF GiveToHandler, MatchEnded
      <4> QED
        BY <3>5, <4>1, AddMessageWakeup DEF GiveToHandler
    <3>6. CASE RunReport
      <4>1. Sender[Head(stack).msg] \in Proc
        BY <3>6, RunningFrame, FramesRead, SessionAssumption DEF RunReport
      <4> QED
        BY <3>6, <4>1, AddMessageWakeup DEF RunReport
    <3>7. CASE RunDeactivate
      BY <3>7 DEF RunDeactivate, WakeupInv, Wakeup, TypeOK
    <3>8. CASE RunOrphaned
      <4>1. \A q \in Proc : undelivered'[q] # << >> => undelivered[q] # << >>
        BY <3>8 DEF RunOrphaned, TypeOK
      <4> QED
        BY <3>8, <4>1 DEF RunOrphaned, WakeupInv, Wakeup
    <3> QED
      BY <2>2, <3>1, <3>2, <3>3, <3>4, <3>5, <3>6, <3>7, <3>8 DEF Run
  <2>3. ASSUME NEW p \in Proc, Client(p) PROVE WakeupInv'
    BY <2>1, <2>3 DEF Client, AskPlanned, AskNext, AskUpdate, Ask, Die
  <2>4. ASSUME NEW p \in Proc, ServeRpc(p) PROVE WakeupInv'
    <3>1. CASE ServeRegister(p) \/ ServeUnregister(p) \/ ServeJoin(p) \/ ServeSend(p)
                 \/ ServeUpdate(p) \/ ServeClose(p)
      BY <2>1, <3>1 DEF ServeRegister, ServeUnregister, ServeJoin, ServeSend,
                        ServeUpdate, ServeClose
    <3>2. CASE ServeNext(p)
      <4> DEFINE list == undelivered[p]
      <4>1. list \in Seq(Entry)
        BY DEF TypeOK
      <4>2. list # << >> /\ Tail(list) # << >> => MoreToRead(list)
        BY <4>1 DEF MoreToRead
      <4>3. undelivered'[p] # << >> => list # << >> /\ undelivered'[p] = Tail(list)
        BY <3>2 DEF ServeNext, TypeOK
      <4>4. MoreToRead(list) => signalled'[p] = signalled[p]
        BY <3>2 DEF ServeNext, TypeOK
      <4>5. \A q \in Proc \ {p} : undelivered'[q] = undelivered[q] /\ signalled'[q] = signalled[q]
        BY <3>2 DEF ServeNext, TypeOK
      <4> QED
        BY <3>2, <4>2, <4>3, <4>4, <4>5 DEF ServeNext, WakeupInv, Wakeup
    <3> QED
      BY <2>4, <3>1, <3>2 DEF ServeRpc
  <2>5. ASSUME NEW p \in Proc, Hangup(p) PROVE WakeupInv'
    BY <2>1, <2>5 DEF Hangup
  <2>6. CASE UNCHANGED vars
    BY <2>1, <2>6 DEF vars
  <2> QED
    BY <2>2, <2>3, <2>4, <2>5, <2>6 DEF Next
<1>3. WakeupInv => Wakeup
  BY DEF WakeupInv
<1> QED
  BY <1>1, <1>2, <1>3, TypeCorrect, PTL DEF Spec

-----------------------------------------------------------------------------
(* The invariant of the busy server. *)

\* The call stack by levels: level 1 is the outermost call.
Levels == 1 .. Len(stack)
At(s, d) == s[Len(s) + 1 - d]

\* The list u holds the request m itself; no request is twice in it.
Has(u, m) == \E i \in 1 .. Len(u) : u[i] = Live(m)
Once(u) == \A i, j \in 1 .. Len(u) : u[i] = u[j] /\ u[i].seen = "LIVE" => i = j

\* The plans leave tt_message_receive to AskNext, when the channel is readable.
ReadsWhenSignalled == \A pl \in Plans, p \in Proc : [call |-> "next"] \notin pl[p]

\* An RPC of p that reads its list is still to be served.
Awaits(p) == \E i \in 1 .. Len(rpc[p]) : rpc[p][i].call = "next"

-----------------------------------------------------------------------------
(* The call stack. *)

\* A change of state calls nothing before it has made the change.
Tops == \A d \in Levels : At(stack, d).op = "change" => d = Len(stack)

\* The loops of deactivate run for inactive procids only.
Cursors == {"unread", "unanswered", "orphaned"}
DeadFrames == \A d \in Levels : At(stack, d).op \in Cursors => ~active[At(stack, d).proc]

\* A loop over the lists of a procid is not entered again inside itself, and at
\* most one unread message of a procid is about to be taken off its list.
Nested == \A c, d \in Levels :
    (At(stack, d).op \in {"unread", "unanswered"} /\ At(stack, c).op = "orphaned" /\ c < d)
        => At(stack, c).proc # At(stack, d).proc

OneCursor == \A c, d \in Levels :
    (At(stack, c).op = "orphaned" /\ At(stack, d).op = "orphaned"
       /\ ~At(stack, c).wasRead /\ ~At(stack, d).wasRead
       /\ At(stack, c).proc = At(stack, d).proc) => c = d

\* The walk over the queue is the outermost call; it takes each request once.
QueueFrames == \A d \in Levels :
    /\ At(stack, d).op = "redeliver" => d = 1
    /\ At(stack, d).op = "requeue" =>
          /\ d = 2 /\ At(stack, 1).op = "redeliver"
          /\ At(stack, d).msg \notin At(stack, 1).todo

FramesInv == Tops /\ DeadFrames /\ Nested /\ OneCursor /\ QueueFrames

-----------------------------------------------------------------------------
(* The lists of the procids. *)

\* The message that is to be taken off a list is its first one.
CursorKept == \A d \in Levels :
    (At(stack, d).op = "orphaned" /\ ~At(stack, d).wasRead) =>
        /\ undelivered[At(stack, d).proc] # << >>
        /\ Head(undelivered[At(stack, d).proc]).msg = At(stack, d).msg

\* A message moves to the end of a list that has it, and is not added to it.
NoneTwice == \A p \in Proc : Once(undelivered[p])

ListsInv  == CursorKept /\ NoneTwice

-----------------------------------------------------------------------------
(* The RPCs of the clients. *)

\* An active procid has a channel.
Linked == \A p \in Proc : active[p] => channel[p]

\* Nothing is asked behind an RPC that waits for its reply.
LastCall == \A p \in Proc : \A i \in 1 .. Len(rpc[p]) :
    i < Len(rpc[p]) => rpc[p][i].call \in OneWay

\* A client reads when it is signalled, and is then active; a procid that is
\* inactive, or about to be, is of a dead client that will not read.
NotPlanned == \A p \in Proc : [call |-> "next"] \notin plan[p]
Asked == \A p \in Proc : Awaits(p) => signalled[p]
Lost == \A p \in Proc : ~active[p] => p \notin alive /\ ~Awaits(p)
Losing == \A d \in Levels : At(stack, d).op = "deactivate" =>
          At(stack, d).proc \notin alive /\ ~Awaits(At(stack, d).proc)

CallsInv  == Linked /\ LastCall /\ NotPlanned /\ Asked /\ Lost /\ Losing

-----------------------------------------------------------------------------
(* The requests. *)

\* What the frame at level d does to the request m, or to the procid p.
Walks(d, m) == At(stack, d).op \in {"deliver", "match"} /\ At(stack, d).msg = m
Matches(d, m) == At(stack, d).op = "match" /\ At(stack, d).msg = m
Changes(m) == /\ Len(stack) > 0 /\ At(stack, Len(stack)).op = "change"
              /\ At(stack, Len(stack)).msg = m
Reports(d, m) == At(stack, d).op = "report" /\ At(stack, d).msg = m
Requeues(d, m) == At(stack, d).op = "requeue" /\ At(stack, d).msg = m
Settles(d, p, m) == /\ At(stack, d).op = "orphaned" /\ At(stack, d).wasRead
                    /\ At(stack, d).proc = p /\ At(stack, d).msg = m
Reading(d, p) == At(stack, d).op = "unread" /\ At(stack, d).proc = p

\* The request has been read and not answered.
Given(m) == \E p \in Proc : m \in delivered[p]
\* p is inactive and its unread messages have been failed already.
Dead(p) == ~active[p] /\ \A d \in Levels : ~Reading(d, p)
Unheld(m) == handler[m] # NoProc => Dead(handler[m])
\* Nobody holds the request, and nobody will be found to hold it.
Free(m) == ~Given(m) /\ Unheld(m)

\* A request not sent yet is nowhere, and an RPC that sends it comes once.
Created(m) == state[m] = "CREATED" =>
    /\ handler[m] = NoProc /\ ~Given(m) /\ \A p \in Proc : ~Has(undelivered[p], m)
    /\ m \notin queued /\ reported[m] = {}
    /\ \A d \in Levels : ~Walks(d, m)

Sending(m) == \A p \in Proc : \A i \in 1 .. Len(rpc[p]) :
    rpc[p][i] = [call |-> "send", msg |-> m] =>
       /\ Sender[m] = p /\ state[m] = "CREATED"
       /\ rpc[p][i] \notin plan[p]
       /\ \A j \in 1 .. Len(rpc[p]) : rpc[p][j] = rpc[p][i] => i = j

\* What changes state is SENT and sought by no walk; it is queued, or rejected,
\* only when nobody has it, and whoever has read it is just failing it.
ChangeOk(m) == Changes(m) =>
    /\ state[m] = "SENT"
    /\ \A d \in Levels : ~Matches(d, m)
    /\ At(stack, Len(stack)).to = "QUEUED" =>
          /\ Free(m) /\ m \in Queueable /\ "QUEUED" \notin reported[m]
          /\ \A d \in Levels : ~Walks(d, m)
    /\ At(stack, Len(stack)).to = "REJECTED" => Len(stack) = 1 /\ ~Given(m)
    /\ \A p \in Proc : m \in delivered[p] =>
          Len(stack) > 1 /\ Settles(Len(stack) - 1, p, m)

\* The handler a walk has found is not being given up below that walk.
BestOk(m) == \A d \in Levels : (Matches(d, m) /\ At(stack, d).best # NoProc) =>
    /\ state[m] = "SENT"
    /\ \A c \in Levels : c < d => ~Reading(c, At(stack, d).best)

\* Only an end, or queueing, is reported.
ReportOk(m) == \A d \in Levels : Reports(d, m) =>
    state[m] \in Final \/ state[m] = "QUEUED"

\* A request under way is delivered by one call at a time.
OneWalk(m) == \A c, d \in Levels : Walks(c, m) /\ Walks(d, m) /\ c # d => state[m] \in Final

\* While a request is delivered its former handler is lost, or is about to be.
Deactivates(d, p) == At(stack, d).op = "deactivate" /\ At(stack, d).proc = p
Transit(m) == \A d \in Levels : (Walks(d, m) /\ state[m] \notin Final /\ handler[m] # NoProc) =>
    /\ \A c \in Levels : c < d => ~Reading(c, handler[m])
    /\ At(stack, d).op = "match" => Dead(handler[m])
    /\ ~active[handler[m]] \/ \E c \in Levels : c > d /\ Deactivates(c, handler[m])

\* Who has read a request is its handler, and active or failing it; the request
\* is SENT and not being delivered, or it has ended and is about to be settled.
ReadOk(m) == \A p \in Proc : m \in delivered[p] =>
    /\ handler[m] = p
    /\ active[p] \/ \E d \in Levels : At(stack, d).op = "unanswered" /\ At(stack, d).proc = p
    /\ \/ state[m] = "SENT" /\ \A d \in Levels : ~Walks(d, m)
       \/ state[m] \in Final /\ \E d \in Levels : Settles(d, p, m)

\* A request under way that its handler has not read has been read by nobody; while
\* the handler is active, or its list is being failed, it is SENT, and delivered
\* at most by a call that has given it to that handler in vain.
UnreadOk(m) ==
    (handler[m] # NoProc /\ Has(undelivered[handler[m]], m) /\ state[m] \notin Final) =>
    /\ ~Given(m)
    /\ active[handler[m]] =>
         /\ state[m] = "SENT"
         /\ \A d \in Levels : Walks(d, m) =>
              At(stack, d).op = "deliver" /\ \E c \in Levels : c > d /\ Deactivates(c, handler[m])
    /\ \A e \in Levels : Reading(e, handler[m]) =>
           /\ state[m] = "SENT"
           /\ \A d \in Levels : Walks(d, m) => At(stack, d).op = "deliver" /\ d < e

\* The queue is made of the QUEUED requests and of the one offered just now.
QueuedOk(m) ==
    /\ state[m] = "QUEUED" => Free(m)
    /\ m \in queued <=> (state[m] = "QUEUED" \/ \E d \in Levels : Requeues(d, m))
    /\ m \in queued => "QUEUED" \in reported[m] /\ m \in Queueable
    /\ \A d \in Levels : Requeues(d, m) => state[m] # "QUEUED"
    /\ \A d \in Levels : (At(stack, d).op = "redeliver" /\ m \in At(stack, d).todo) => state[m] = "QUEUED"

\* The redelivery of m has failed, and m is not sought a handler any more.
Over(m) == Free(m) /\ (state[m] \in Final \/ \A d \in Levels : ~Walks(d, m))

\* The request offered just now is being delivered, or it was delivered, or
\* nobody has it.
RequeueOk(m) == \A d \in Levels : Requeues(d, m) =>
    IF d = Len(stack) THEN ret \/ Free(m)
    ELSE \/ Walks(d + 1, m)
         \/ At(stack, d + 1).op = "return" /\ (At(stack, d + 1).val \/ Over(m))

RequestInv(m) == /\ Created(m) /\ ChangeOk(m) /\ BestOk(m) /\ ReportOk(m)
                 /\ OneWalk(m) /\ Transit(m) /\ ReadOk(m) /\ UnreadOk(m)
                 /\ QueuedOk(m) /\ RequeueOk(m)

BaseInv == /\ FramesInv /\ ListsInv /\ CallsInv
           /\ \A m \in Msg : RequestInv(m) /\ Sending(m)

SessionInv == heap = "intact" => BaseInv

\* The top frame is at the highest level; the others keep theirs without it.
LEMMA TopFrame ==
    ASSUME NEW s \in Seq(Frame), s # << >>
    PROVE  /\ Len(s) \in Nat \ {0}
           /\ At(s, Len(s)) = Head(s)
           /\ Len(Tail(s)) = Len(s) - 1
           /\ \A d \in 1 .. Len(s) - 1 : At(Tail(s), d) = At(s, d)
<1>1. Len(s) \in Nat \ {0} /\ Len(Tail(s)) = Len(s) - 1
  BY EmptySeq, HeadTailProperties
<1>2. \A i \in 1 .. Len(s) - 1 : Tail(s)[i] = s[i+1]
  BY <1>1, HeadTailProperties
<1>3. \A d \in 1 .. Len(s) - 1 : Tail(s)[Len(s) - d] = s[Len(s) - d + 1]
  BY <1>1, <1>2
<1> QED
  BY <1>1, <1>3 DEF At

\* There is a frame at every level.
LEMMA FrameAt == ASSUME NEW s \in Seq(Frame), NEW d \in 1 .. Len(s) PROVE At(s, d) \in Frame
<1>1. Len(s) + 1 - d \in 1 .. Len(s)
  BY LenProperties DEF Levels
<1> QED
  BY <1>1, ElementOfSeq DEF At

\* Frames that are pushed take the levels above those in use.
LEMMA PushMany ==
    ASSUME NEW s \in Seq(Frame), NEW fs \in Seq(Frame)
    PROVE  /\ Len(s) \in Nat /\ Len(fs) \in Nat
           /\ fs \o s \in Seq(Frame)
           /\ Len(fs \o s) = Len(s) + Len(fs)
           /\ \A d \in 1 .. Len(s) : At(fs \o s, d) = At(s, d)
           /\ \A i \in 1 .. Len(fs) : At(fs \o s, Len(s) + i) = fs[Len(fs) + 1 - i]
<1>1. Len(s) \in Nat /\ Len(fs) \in Nat
  BY LenProperties
<1>2. /\ fs \o s \in Seq(Frame)
      /\ Len(fs \o s) = Len(fs) + Len(s)
      /\ \A i \in 1 .. Len(fs) + Len(s) : (fs \o s)[i] = IF i <= Len(fs) THEN fs[i] ELSE s[i - Len(fs)]
  BY <1>1, ConcatProperties
<1>3. ASSUME NEW d \in 1 .. Len(s) PROVE At(fs \o s, d) = At(s, d)
  <2>1. d \in 1 .. Len(s)
    BY DEF Levels
  <2>2. (fs \o s)[Len(fs) + Len(s) + 1 - d] = s[Len(s) + 1 - d]
    BY <1>1, <1>2, <2>1
  <2> QED
    BY <1>2, <2>2 DEF At
<1>4. ASSUME NEW i \in 1 .. Len(fs) PROVE At(fs \o s, Len(s) + i) = fs[Len(fs) + 1 - i]
  <2>1. (fs \o s)[Len(fs) + 1 - i] = fs[Len(fs) + 1 - i]
    BY <1>1, <1>2
  <2>2. Len(fs \o s) + 1 - (Len(s) + i) = Len(fs) + 1 - i
    BY <1>1, <1>2
  <2> QED
    BY <2>1, <2>2 DEF At
<1> QED
  BY <1>1, <1>2, <1>3, <1>4

\* One frame is pushed.
LEMMA PushOne ==
    ASSUME NEW s \in Seq(Frame), NEW f \in Frame
    PROVE  /\ <<f>> \o s \in Seq(Frame)
           /\ Len(<<f>> \o s) = Len(s) + 1
           /\ At(<<f>> \o s, Len(s) + 1) = f
           /\ \A d \in 1 .. Len(s) : At(<<f>> \o s, d) = At(s, d)
<1> DEFINE fs == <<f>>
<1>1. fs \in Seq(Frame) /\ Len(fs) = 1 /\ fs[1] = f
  OBVIOUS
<1> HIDE DEF fs
<1>2. /\ fs \o s \in Seq(Frame) /\ Len(fs \o s) = Len(s) + Len(fs)
      /\ \A d \in 1 .. Len(s) : At(fs \o s, d) = At(s, d)
  BY <1>1, PushMany
<1>3. \A i \in 1 .. Len(fs) : At(fs \o s, Len(s) + i) = fs[Len(fs) + 1 - i]
  BY <1>1, PushMany
<1>4. /\ At(fs \o s, Len(s) + 1) = fs[1]
  BY <1>1, <1>3
<1> QED
  BY <1>1, <1>2, <1>4 DEF fs

\* Two frames are pushed.
LEMMA PushTwo ==
    ASSUME NEW s \in Seq(Frame), NEW f \in Frame, NEW g \in Frame
    PROVE  /\ <<f, g>> \o s \in Seq(Frame)
           /\ Len(<<f, g>> \o s) = Len(s) + 2
           /\ At(<<f, g>> \o s, Len(s) + 1) = g
           /\ At(<<f, g>> \o s, Len(s) + 2) = f
           /\ \A d \in 1 .. Len(s) : At(<<f, g>> \o s, d) = At(s, d)
<1> DEFINE fs == <<f, g>>
<1>1. fs \in Seq(Frame) /\ Len(fs) = 2 /\ fs[1] = f /\ fs[2] = g
  OBVIOUS
<1> HIDE DEF fs
<1>2. /\ fs \o s \in Seq(Frame) /\ Len(fs \o s) = Len(s) + Len(fs)
      /\ \A d \in 1 .. Len(s) : At(fs \o s, d) = At(s, d)
  BY <1>1, PushMany
<1>3. \A i \in 1 .. Len(fs) : At(fs \o s, Len(s) + i) = fs[Len(fs) + 1 - i]
  BY <1>1, PushMany
<1>4. /\ At(fs \o s, Len(s) + 1) = fs[2]
      /\ At(fs \o s, Len(s) + 2) = fs[1]
  BY <1>1, <1>3
<1> QED
  BY <1>1, <1>2, <1>4 DEF fs

\* Three frames are pushed.
LEMMA PushThree ==
    ASSUME NEW s \in Seq(Frame), NEW f \in Frame, NEW g \in Frame, NEW h \in Frame
    PROVE  /\ <<f, g, h>> \o s \in Seq(Frame)
           /\ Len(<<f, g, h>> \o s) = Len(s) + 3
           /\ At(<<f, g, h>> \o s, Len(s) + 1) = h
           /\ At(<<f, g, h>> \o s, Len(s) + 2) = g
           /\ At(<<f, g, h>> \o s, Len(s) + 3) = f
           /\ \A d \in 1 .. Len(s) : At(<<f, g, h>> \o s, d) = At(s, d)
<1> DEFINE fs == <<f, g, h>>
<1>1. fs \in Seq(Frame) /\ Len(fs) = 3 /\ fs[1] = f /\ fs[2] = g /\ fs[3] = h
  OBVIOUS
<1> HIDE DEF fs
<1>2. /\ fs \o s \in Seq(Frame) /\ Len(fs \o s) = Len(s) + Len(fs)
      /\ \A d \in 1 .. Len(s) : At(fs \o s, d) = At(s, d)
  BY <1>1, PushMany
<1>3. \A i \in 1 .. Len(fs) : At(fs \o s, Len(s) + i) = fs[Len(fs) + 1 - i]
  BY <1>1, PushMany
<1>4. /\ At(fs \o s, Len(s) + 1) = fs[3]
      /\ At(fs \o s, Len(s) + 2) = fs[2]
      /\ At(fs \o s, Len(s) + 3) = fs[1]
  BY <1>1, <1>3
<1> QED
  BY <1>1, <1>2, <1>4 DEF fs

-----------------------------------------------------------------------------
(* The lists of messages. *)

\* What a list is when its entry number i has been moved to its end.
LEMMA Moved ==
    ASSUME NEW u \in Seq(Entry), NEW i \in 1 .. Len(u), NEW e \in Entry, u[i] = e
    PROVE  LET t == Append(RemoveAt(u, i), e)
           IN /\ t \in Seq(Entry) /\ Len(t) = Len(u)
              /\ \A j \in 1 .. Len(u) :
                    t[j] = IF j < i THEN u[j] ELSE IF j < Len(u) THEN u[j+1] ELSE e
<1> DEFINE a == SubSeq(u, 1, i-1)
           b == SubSeq(u, i+1, Len(u))
           r == a \o b
<1>1. Len(u) \in Nat /\ i \in 1 .. Len(u)
  BY LenProperties
<1>2. \A k \in 1 .. Len(u) : u[k] \in Entry
  BY ElementOfSeq
<1>3. a \in Seq(Entry) /\ Len(a) = i - 1 /\ \A j \in 1 .. i - 1 : a[j] = u[j]
  <2>1. \A k \in 1 .. i-1 : u[k] \in Entry
    BY <1>1, <1>2
  <2>2. /\ a \in Seq(Entry) /\ Len(a) = IF 1 <= i-1 THEN i-1-1+1 ELSE 0
        /\ \A j \in 1 .. i-1-1+1 : a[j] = u[1+j-1]
    BY <1>1, <2>1, SubSeqProperties
  <2> QED
    BY <1>1, <2>2
<1>4. /\ b \in Seq(Entry) /\ Len(b) = Len(u) - i
      /\ \A j \in 1 .. Len(u) - i : b[j] = u[i+j]
  <2>1. \A k \in i+1 .. Len(u) : u[k] \in Entry
    BY <1>1, <1>2
  <2>2. /\ b \in Seq(Entry) /\ Len(b) = IF i+1 <= Len(u) THEN Len(u)-(i+1)+1 ELSE 0
        /\ \A j \in 1 .. Len(u)-(i+1)+1 : b[j] = u[i+1+j-1]
    BY <1>1, <2>1, SubSeqProperties
  <2> QED
    BY <1>1, <2>2
<1> HIDE DEF a, b
<1>5. /\ r \in Seq(Entry) /\ Len(r) = Len(a) + Len(b)
      /\ \A j \in 1 .. Len(a) + Len(b) : r[j] = IF j <= Len(a) THEN a[j] ELSE b[j - Len(a)]
  BY <1>3, <1>4, ConcatProperties
<1>6. r = RemoveAt(u, i)
  BY DEF RemoveAt, a, b
<1> HIDE DEF r
<1>9. ASSUME NEW j \in 1 .. Len(u) - 1
      PROVE  r[j] = IF j < i THEN u[j] ELSE u[j+1]
  <2>1. CASE j < i
    <3>1. j \in 1 .. i - 1 /\ j \in 1 .. Len(a) + Len(b) /\ j <= Len(a)
      BY <1>1, <1>3, <1>4, <2>1
    <3>2. r[j] = a[j] /\ a[j] = u[j]
      BY <1>3, <1>5, <3>1
    <3> QED
      BY <2>1, <3>2
  <2>2. CASE ~(j < i)
    <3>1. j - (i-1) \in 1 .. Len(u) - i /\ i + (j - (i-1)) = j + 1
      BY <1>1, <2>2
    <3>2. b[j - (i-1)] = u[j+1]
      BY <1>4, <3>1
    <3>3. j \in 1 .. Len(a) + Len(b) /\ ~(j <= Len(a)) /\ Len(a) = i-1
      BY <1>1, <1>3, <1>4, <2>2
    <3>4. r[j] = b[j - Len(a)]
      BY <1>5, <3>3
    <3> QED
      BY <2>2, <3>2, <3>3, <3>4
  <2> QED
    BY <2>1, <2>2
<1>10. Len(r) = Len(u) - 1
  BY <1>1, <1>3, <1>4, <1>5
<1>7. /\ Append(r, e) \in Seq(Entry) /\ Len(Append(r, e)) = Len(r) + 1
      /\ \A j \in 1 .. Len(r) : Append(r, e)[j] = r[j]
      /\ Append(r, e)[Len(r) + 1] = e
  <2>1. r \in Seq(Entry)
    BY <1>5
  <2> QED
    BY <2>1, AppendProperties
<1>8. ASSUME NEW j \in 1 .. Len(u)
      PROVE  Append(r, e)[j] = IF j < i THEN u[j] ELSE IF j < Len(u) THEN u[j+1] ELSE e
  <2> DEFINE t == Append(r, e)
  <2> HIDE DEF t
  <2>1. CASE j = Len(u)
    BY <1>1, <1>7, <1>9, <1>10, <2>1 DEF t
  <2>2. CASE j < Len(u)
    BY <1>1, <1>7, <1>9, <1>10, <2>2 DEF t
  <2>3. j = Len(u) \/ j < Len(u)
    BY <1>1
  <2>4. t[j] = IF j < i THEN u[j] ELSE IF j < Len(u) THEN u[j+1] ELSE e
    BY <2>1, <2>2, <2>3 DEF t
  <2> QED
    BY <2>4 DEF t
<1> QED
  BY <1>1, <1>6, <1>7, <1>8, <1>10

\* Moving an entry to the end keeps the entries, apart, and the first one if it
\* is another.
LEMMA MovedList ==
    ASSUME NEW u \in Seq(Entry), NEW i \in 1 .. Len(u), NEW e \in Entry, NEW t,
           u[i] = e, e.seen = "LIVE", t = Append(RemoveAt(u, i), e)
    PROVE  /\ \A m \in Msg : Has(t, m) <=> Has(u, m)
           /\ Once(u) => Once(t)
           /\ t # << >> /\ (Head(u) # e => Head(t) = Head(u))
<1>1. /\ t \in Seq(Entry) /\ Len(t) = Len(u)
      /\ \A j \in 1 .. Len(u) :
            t[j] = IF j < i THEN u[j] ELSE IF j < Len(u) THEN u[j+1] ELSE e
  <2>1. t \in Seq(Entry) /\ Len(t) = Len(u)
    BY Moved
  <2>2. \A j \in 1 .. Len(u) :
            t[j] = IF j < i THEN u[j] ELSE IF j < Len(u) THEN u[j+1] ELSE e
    BY Moved
  <2> QED
    BY <2>1, <2>2
<1>2. Len(u) \in Nat /\ i \in 1 .. Len(u)
  BY LenProperties
<1>3. ASSUME NEW m \in Msg, Has(t, m) PROVE Has(u, m)
  <2>1. PICK k \in 1 .. Len(t) : t[k] = Live(m)
    BY <1>3 DEF Has
  <2>2. t[k] = u[k] \/ (k < Len(u) /\ t[k] = u[k+1]) \/ t[k] = u[i]
    BY <1>1, <1>2
  <2>3. k \in 1 .. Len(u) /\ (k < Len(u) => k + 1 \in 1 .. Len(u))
    BY <1>1, <1>2
  <2> QED
    BY <1>2, <2>1, <2>2, <2>3 DEF Has
<1>4. \A m \in Msg : Has(u, m) => Has(t, m)
  <2> SUFFICES ASSUME NEW m \in Msg, NEW k \in 1 .. Len(u), u[k] = Live(m) PROVE Has(t, m)
    BY DEF Has
  <2>1. CASE k < i
    BY <1>1, <1>2, <2>1 DEF Has
  <2>2. CASE k = i
    <3>1. t[Len(u)] = e
      BY <1>1, <1>2
    <3> QED
      BY <1>1, <1>2, <2>2, <3>1 DEF Has
  <2>3. CASE k > i
    <3>1. t[k-1] = u[k]
      BY <1>1, <1>2, <2>3
    <3>2. k - 1 \in 1 .. Len(t)
      BY <1>1, <1>2, <2>3
    <3> QED
      BY <3>1, <3>2 DEF Has
  <2> QED
    BY <1>2, <2>1, <2>2, <2>3
<1>5. Once(u) => Once(t)
  <2> HAVE Once(u)
  <2> SUFFICES \A j, k \in 1 .. Len(t) : t[j] = t[k] /\ t[j].seen = "LIVE" => j = k
    BY DEF Once
  <2> TAKE j, k \in 1 .. Len(t)
  <2> HAVE t[j] = t[k] /\ t[j].seen = "LIVE"
  <2> DEFINE old(n) == IF n < i THEN n ELSE IF n < Len(u) THEN n + 1 ELSE i
  <2>1. /\ old(j) \in 1 .. Len(u) /\ t[j] = u[old(j)]
        /\ old(k) \in 1 .. Len(u) /\ t[k] = u[old(k)]
    <3>1. ASSUME NEW n \in 1 .. Len(u) PROVE old(n) \in 1 .. Len(u) /\ t[n] = u[old(n)]
      <4>1. CASE n < i
        BY <1>1, <1>2, <4>1
      <4>2. CASE ~(n < i) /\ n < Len(u)
        BY <1>1, <1>2, <4>2
      <4>3. CASE ~(n < i) /\ ~(n < Len(u))
        BY <1>1, <1>2, <4>3
      <4> QED
        BY <4>1, <4>2, <4>3
    <3>2. j \in 1 .. Len(u) /\ k \in 1 .. Len(u)
      BY <1>1
    <3> HIDE DEF old
    <3> QED
      BY <3>1, <3>2
  <2>2. old(j) = old(k)
    BY <2>1 DEF Once
  <2>3. j \in 1 .. Len(u) /\ k \in 1 .. Len(u)
    BY <1>1
  <2>4. \A L \in Nat : i \in 1 .. L /\ j \in 1 .. L /\ k \in 1 .. L =>
           ((IF j < i THEN j ELSE IF j < L THEN j + 1 ELSE i)
              = (IF k < i THEN k ELSE IF k < L THEN k + 1 ELSE i) => j = k)
    OBVIOUS
  <2> QED
    BY <1>2, <2>2, <2>3, <2>4
<1>6. t # << >> /\ (Head(u) # e => Head(t) = Head(u))
  <2>1. Len(t) > 0
    BY <1>1, <1>2
  <2>2. t # << >> /\ u # << >> /\ Head(t) = t[1] /\ Head(u) = u[1]
    BY <1>1, <1>2, <2>1
  <2>3. u[1] # e => i # 1
    OBVIOUS
  <2>4. u[1] # e => t[1] = u[1]
    BY <1>1, <1>2, <2>3
  <2> QED
    BY <2>2, <2>4
<1> QED
  BY <1>3, <1>4, <1>5, <1>6

\* A list with one entry more.
LEMMA AppendedList ==
    ASSUME NEW u \in Seq(Entry), NEW e \in Entry, NEW t, t = Append(u, e)
    PROVE  /\ \A m \in Msg : Has(t, m) <=> Has(u, m) \/ e = Live(m)
           /\ Once(u) /\ (e.seen = "LIVE" => e \notin ToSet(u)) => Once(t)
           /\ t # << >> /\ (u # << >> => Head(t) = Head(u))
<1>1. /\ Len(u) \in Nat /\ t \in Seq(Entry) /\ Len(t) = Len(u) + 1
      /\ \A j \in 1 .. Len(u) : t[j] = u[j]
      /\ t[Len(u) + 1] = e
  BY LenProperties, AppendProperties
<1>2. \A m \in Msg : Has(t, m) <=> Has(u, m) \/ e = Live(m)
  BY <1>1 DEF Has
<1>3. ASSUME Once(u), e.seen = "LIVE" => e \notin ToSet(u) PROVE Once(t)
  <2>1. \A j \in 1 .. Len(u) : e.seen = "LIVE" => u[j] # e
    BY <1>3, LenProperties DEF ToSet
  <2> SUFFICES ASSUME NEW j \in 1 .. Len(t), NEW k \in 1 .. Len(t),
                      t[j] = t[k], t[j].seen = "LIVE"
               PROVE  j = k
    BY Zenon DEF Once
  <2> QED
    BY <1>1, <1>3, <2>1 DEF Once
<1>4. t # << >> /\ (u # << >> => Head(t) = Head(u))
  <2>1. Len(t) > 0 /\ (u # << >> => Len(u) > 0)
    BY <1>1, EmptySeq
  <2> QED
    BY <1>1, <2>1
<1> QED
  BY <1>2, <1>3, <1>4

\* A list without its first entry.
LEMMA PoppedList ==
    ASSUME NEW u \in Seq(Entry), u # << >>, NEW t, t = Tail(u)
    PROVE  /\ t \in Seq(Entry)
           /\ \A m \in Msg : Has(t, m) => Has(u, m)
           /\ \A m \in Msg : Has(u, m) /\ Head(u) # Live(m) => Has(t, m)
           /\ Once(u) => Once(t) /\ \A m \in Msg : Head(u) = Live(m) => ~Has(t, m)
<1>1. /\ t \in Seq(Entry) /\ Len(t) = Len(u) - 1 /\ Len(u) \in Nat \ {0}
      /\ \A j \in 1 .. Len(t) : t[j] = u[j+1]
      /\ Head(u) = u[1]
  BY EmptySeq, HeadTailProperties
<1>2. \A m \in Msg : Has(t, m) => Has(u, m)
  BY <1>1 DEF Has
<1>3. ASSUME NEW m \in Msg, Has(u, m), Head(u) # Live(m) PROVE Has(t, m)
  <2>1. PICK k \in 1 .. Len(u) : u[k] = Live(m)
    BY <1>3 DEF Has
  <2>2. k - 1 \in 1 .. Len(t) /\ t[k-1] = u[k]
    BY <1>1, <1>3, <2>1
  <2> QED
    BY <2>1, <2>2 DEF Has
<1>4. Once(u) => Once(t)
  BY <1>1 DEF Once
<1>5. ASSUME Once(u), NEW m \in Msg, Head(u) = Live(m) PROVE ~Has(t, m)
  BY <1>1, <1>5 DEF Has, Once, Live
<1> QED
  BY <1>1, <1>2, <1>3, <1>4, <1>5

\* The frames up to level k stay.
Lower(k) == \A d \in 1 .. k : At(stack', d) = At(stack, d)

\* A signal to p may fail.
Unreachable(p) == ~channel[p] \/ (p \notin alive /\ ~signalled[p])

\* The lists keep what has to be kept.
ListKept(u, t) == /\ \A m \in Msg : Has(t, m) <=> Has(u, m)
                  /\ Once(u) => Once(t)
                  /\ u # << >> => t # << >> /\ Head(t) = Head(u)

\* What add_message does to the lists, the channels and the stack.
LEMMA AddMessageEffect ==
    ASSUME TypeOK, NEW p \in Proc, NEW e \in Entry, NEW ok, NEW bad, AddMessage(p, e, ok, bad)
    PROVE  /\ \A q \in Proc \ {p} : undelivered'[q] = undelivered[q]
           /\ \A m \in Msg : Has(undelivered'[p], m) <=>
                                Has(undelivered[p], m) \/ (e = Live(m) /\ ~Gone(p))
           /\ Once(undelivered[p]) => Once(undelivered'[p])
           /\ undelivered[p] # << >> =>
                 /\ undelivered'[p] # << >>
                 /\ \/ Head(undelivered'[p]) = Head(undelivered[p])
                    \/ /\ e.seen = "LIVE" /\ e = Head(undelivered[p])
                       /\ heap' = "corrupt" \/ Orphaned(p, e.msg, FALSE) \notin ToSet(stack)
           /\ \A q \in Proc : signalled[q] => signalled'[q]
           /\ heap' = "intact" => heap = "intact"
           /\ \/ stack' = ok /\ ~Gone(p)
              \/ stack' = bad /\ Gone(p)
              \/ stack' = <<Deactivate(p)>> \o bad /\ ~Gone(p) /\ Unreachable(p)
<1>0. undelivered[p] \in Seq(Entry)
  BY DEF TypeOK
<1>1. CASE Gone(p) /\ stack' = bad /\ UNCHANGED <<undelivered, signalled, heap>>
  BY <1>1
<1>2. CASE MoveToEnd(p, e, ok)
  <2>1. PICK i \in DOMAIN undelivered[p] :
           /\ undelivered[p][i] = e
           /\ undelivered' = [undelivered EXCEPT ![p] = Append(RemoveAt(@, i), e)]
    BY <1>2 DEF MoveToEnd
  <2>2. /\ undelivered'[p] = Append(RemoveAt(undelivered[p], i), e)
        /\ \A q \in Proc \ {p} : undelivered'[q] = undelivered[q]
    BY <2>1 DEF TypeOK
  <2>3. /\ \A m \in Msg : Has(undelivered'[p], m) <=> Has(undelivered[p], m)
        /\ Once(undelivered[p]) => Once(undelivered'[p])
        /\ undelivered'[p] # << >>
        /\ Head(undelivered[p]) # e => Head(undelivered'[p]) = Head(undelivered[p])
    <3> DEFINE u == undelivered[p]
               t == undelivered'[p]
    <3>0. e.seen = "LIVE"
      BY <1>2 DEF MoveToEnd
    <3>1. /\ u \in Seq(Entry) /\ i \in 1 .. Len(u) /\ u[i] = e
          /\ t = Append(RemoveAt(u, i), e)
      <4>1. u[i] = e
        BY <2>1
      <4>2. t = Append(RemoveAt(u, i), e)
        BY <2>2
      <4>3. i \in 1 .. Len(u)
        BY <1>0, LenProperties
      <4> QED
        BY <1>0, <4>1, <4>2, <4>3, Zenon
    <3> HIDE DEF u, t
    <3>2. /\ \A m \in Msg : Has(t, m) <=> Has(u, m)
          /\ Once(u) => Once(t)
          /\ t # << >> /\ (Head(u) # e => Head(t) = Head(u))
      <4>1. \A m \in Msg : Has(t, m) <=> Has(u, m)
        BY <3>0, <3>1, MovedList
      <4>2. Once(u) => Once(t)
        BY <3>0, <3>1, MovedList
      <4>3. t # << >>
        BY <3>0, <3>1, MovedList
      <4>4. Head(u) # e => Head(t) = Head(u)
        BY <3>0, <3>1, MovedList
      <4> QED
        BY <4>1, <4>2, <4>3, <4>4
    <3> QED
      BY <3>2 DEF u, t
  <2>4. \A m \in Msg : e = Live(m) => Has(undelivered[p], m)
    BY <1>0, <2>1, LenProperties DEF Has
  <2>5. heap' = IF Orphaned(p, e.msg, FALSE) \in ToSet(stack) THEN "corrupt" ELSE heap
    BY <1>2 DEF MoveToEnd
  <2> QED
    BY <1>2, <2>2, <2>3, <2>4, <2>5 DEF MoveToEnd
<1>3. CASE AppendAndSignal(p, e, ok, bad)
  <2>1. /\ undelivered'[p] = Append(undelivered[p], e)
        /\ \A q \in Proc \ {p} : undelivered'[q] = undelivered[q]
    BY <1>3 DEF AppendAndSignal, TypeOK
  <2>2. /\ \A m \in Msg : Has(undelivered'[p], m) <=> Has(undelivered[p], m) \/ e = Live(m)
        /\ Once(undelivered[p]) => Once(undelivered'[p])
        /\ undelivered'[p] # << >>
        /\ undelivered[p] # << >> => Head(undelivered'[p]) = Head(undelivered[p])
    BY <1>0, <1>3, <2>1, AppendedList DEF AppendAndSignal
  <2>3. /\ \A q \in Proc : signalled[q] => signalled'[q]
        /\ \/ stack' = ok
           \/ stack' = <<Deactivate(p)>> \o bad /\ Unreachable(p)
    BY <1>3 DEF AppendAndSignal, Signal, TypeOK, Unreachable
  <2> QED
    BY <1>3, <2>1, <2>2, <2>3 DEF AppendAndSignal
<1> QED
  BY <1>1, <1>2, <1>3 DEF AddMessage

-----------------------------------------------------------------------------
(* What a step does to the levels of the stack. *)

\* The frame that runs is the one at the highest level.
LEMMA TopAt ==
    ASSUME TypeOK, NEW op, Running(op)
    PROVE  /\ Len(stack) \in Nat \ {0}
           /\ At(stack, Len(stack)) = Head(stack)
           /\ Head(stack).op = op /\ Head(stack) \in Frame /\ Tail(stack) \in Seq(Frame)
           /\ heap = "intact"
<1>1. Head(stack) \in Frame /\ Tail(stack) \in Seq(Frame) /\ Head(stack).op = op
  BY RunningFrame
<1>2. stack \in Seq(Frame) /\ stack # << >> /\ heap = "intact"
  BY DEF TypeOK, Running
<1>3. Len(stack) \in Nat \ {0} /\ At(stack, Len(stack)) = Head(stack)
  BY <1>2, TopFrame
<1> QED
  BY <1>1, <1>2, <1>3

\* The frame that runs returns.
LEMMA Returned ==
    ASSUME TypeOK, stack # << >>, stack' = Tail(stack)
    PROVE  /\ Len(stack') = Len(stack) - 1
           /\ Lower(Len(stack) - 1)
<1>1. stack \in Seq(Frame)
  BY DEF TypeOK
<1>2. Len(Tail(stack)) = Len(stack) - 1
  BY <1>1, TopFrame
<1>3. \A d \in 1 .. Len(stack) - 1 : At(Tail(stack), d) = At(stack, d)
  BY <1>1, TopFrame
<1> QED
  BY <1>2, <1>3 DEF Lower

\* One, two or three frames take the place of the one that runs.
LEMMA Instead ==
    ASSUME TypeOK, stack # << >>, NEW f \in Frame, NEW g \in Frame, NEW h \in Frame
    PROVE  /\ stack' = <<f>> \o Tail(stack) =>
                 /\ Len(stack') = Len(stack)
                 /\ At(stack', Len(stack)) = f
                 /\ Lower(Len(stack) - 1)
           /\ stack' = <<f, g>> \o Tail(stack) =>
                 /\ Len(stack') = Len(stack) + 1
                 /\ At(stack', Len(stack)) = g
                 /\ At(stack', Len(stack) + 1) = f
                 /\ Lower(Len(stack) - 1)
           /\ stack' = <<f, g, h>> \o Tail(stack) =>
                 /\ Len(stack') = Len(stack) + 2
                 /\ At(stack', Len(stack)) = h
                 /\ At(stack', Len(stack) + 1) = g
                 /\ At(stack', Len(stack) + 2) = f
                 /\ Lower(Len(stack) - 1)
<1> DEFINE t == Tail(stack)
<1>1. stack \in Seq(Frame)
  BY DEF TypeOK
<1>2. Len(stack) \in Nat \ {0} /\ Len(t) = Len(stack) - 1 /\ t \in Seq(Frame)
  BY <1>1, TopFrame, HeadTailProperties
<1>3. \A d \in 1 .. Len(stack) - 1 : At(t, d) = At(stack, d)
  BY <1>1, TopFrame
<1> HIDE DEF t
<1>4. ASSUME stack' = <<f>> \o t
      PROVE  /\ Len(stack') = Len(stack)
             /\ At(stack', Len(stack)) = f
             /\ Lower(Len(stack) - 1)
  <2>1. /\ Len(stack') = Len(t) + 1 /\ At(stack', Len(t) + 1) = f
    BY <1>2, <1>4, PushOne
  <2>2. \A d \in 1 .. Len(t) : At(stack', d) = At(t, d)
    BY <1>2, <1>4, PushOne
  <2> QED
    BY <1>2, <1>3, <2>1, <2>2 DEF Lower
<1>5. ASSUME stack' = <<f, g>> \o t
      PROVE  /\ Len(stack') = Len(stack) + 1
             /\ At(stack', Len(stack)) = g
             /\ At(stack', Len(stack) + 1) = f
             /\ Lower(Len(stack) - 1)
  <2>1. /\ Len(stack') = Len(t) + 2 /\ At(stack', Len(t) + 1) = g /\ At(stack', Len(t) + 2) = f
    BY <1>2, <1>5, PushTwo
  <2>2. \A d \in 1 .. Len(t) : At(stack', d) = At(t, d)
    BY <1>2, <1>5, PushTwo
  <2> QED
    BY <1>2, <1>3, <2>1, <2>2 DEF Lower
<1>6. ASSUME stack' = <<f, g, h>> \o t
      PROVE  /\ Len(stack') = Len(stack) + 2
             /\ At(stack', Len(stack)) = h
             /\ At(stack', Len(stack) + 1) = g
             /\ At(stack', Len(stack) + 2) = f
             /\ Lower(Len(stack) - 1)
  <2>1. /\ Len(stack') = Len(t) + 3 /\ At(stack', Len(t) + 1) = h
        /\ At(stack', Len(t) + 2) = g /\ At(stack', Len(t) + 3) = f
    BY <1>2, <1>6, PushThree
  <2>2. \A d \in 1 .. Len(t) : At(stack', d) = At(t, d)
    BY <1>2, <1>6, PushThree
  <2> QED
    BY <1>2, <1>3, <2>1, <2>2 DEF Lower
<1> QED
  BY <1>4, <1>5, <1>6 DEF t

\* One or two frames are called, the one that runs is suspended.
LEMMA Called ==
    ASSUME TypeOK, NEW f \in Frame, NEW g \in Frame
    PROVE  /\ Len(stack) \in Nat
           /\ stack' = <<f>> \o stack =>
                 /\ Len(stack') = Len(stack) + 1
                 /\ At(stack', Len(stack) + 1) = f
                 /\ Lower(Len(stack))
           /\ stack' = <<f, g>> \o stack =>
                 /\ Len(stack') = Len(stack) + 2
                 /\ At(stack', Len(stack) + 1) = g
                 /\ At(stack', Len(stack) + 2) = f
                 /\ Lower(Len(stack))
<1>1. stack \in Seq(Frame)
  BY DEF TypeOK
<1>2. ASSUME stack' = <<f>> \o stack
      PROVE  /\ Len(stack') = Len(stack) + 1
             /\ At(stack', Len(stack) + 1) = f
             /\ Lower(Len(stack))
  <2>1. /\ Len(stack') = Len(stack) + 1 /\ At(stack', Len(stack) + 1) = f
    BY <1>1, <1>2, PushOne
  <2>2. \A d \in 1 .. Len(stack) : At(stack', d) = At(stack, d)
    BY <1>1, <1>2, PushOne
  <2> QED
    BY <2>1, <2>2 DEF Lower
<1>3. ASSUME stack' = <<f, g>> \o stack
      PROVE  /\ Len(stack') = Len(stack) + 2
             /\ At(stack', Len(stack) + 1) = g
             /\ At(stack', Len(stack) + 2) = f
             /\ Lower(Len(stack))
  <2>1. /\ Len(stack') = Len(stack) + 2 /\ At(stack', Len(stack) + 1) = g
        /\ At(stack', Len(stack) + 2) = f
    BY <1>1, <1>3, PushTwo
  <2>2. \A d \in 1 .. Len(stack) : At(stack', d) = At(stack, d)
    BY <1>1, <1>3, PushTwo
  <2> QED
    BY <2>1, <2>2 DEF Lower
<1> QED
  BY <1>1, <1>2, <1>3, LenProperties

\* Calls from the main loop.
LEMMA Called0 ==
    ASSUME TypeOK, stack = << >>, NEW f \in Frame, NEW g \in Frame
    PROVE  /\ Len(stack) = 0
           /\ stack' = <<f>> => Len(stack') = 1 /\ At(stack', 1) = f
           /\ stack' = <<f, g>> => Len(stack') = 2 /\ At(stack', 1) = g /\ At(stack', 2) = f
<1>1. stack' = <<f>> => Len(stack') = 1 /\ stack'[1] = f
  OBVIOUS
<1>2. stack' = <<f, g>> => Len(stack') = 2 /\ stack'[1] = f /\ stack'[2] = g
  OBVIOUS
<1>3. stack' = <<f>> => At(stack', 1) = f
  BY <1>1 DEF At
<1>4. stack' = <<f, g>> => At(stack', 1) = g /\ At(stack', 2) = f
  BY <1>2 DEF At
<1> QED
  BY <1>1, <1>2, <1>3, <1>4

\* The levels above k, at which the step leaves new frames.
Added(k) == k + 1 .. Len(stack')

\* A step keeps the stack up to level k, which is all of it but the frame that
\* runs, or all of it.
Calls(k) == /\ Len(stack) \in Nat /\ Len(stack') \in Nat /\ k \in Nat
            /\ k <= Len(stack') /\ (k = Len(stack) \/ k = Len(stack) - 1)
            /\ Lower(k)
            /\ k = Len(stack) /\ k > 0 => At(stack, k).op # "change"

\* Neither a cursor nor a frame of the queue is among the new frames.
Plain(k) == \A d \in Added(k) :
    /\ At(stack', d).op \notin Cursors \cup {"redeliver", "requeue"}
    /\ At(stack', d).op = "change" => d = Len(stack')

\* New frames that are neither cursors nor frames of the queue.
LEMMA FramesStep ==
    ASSUME FramesInv, NEW k, Calls(k), Plain(k), active' = active
    PROVE  FramesInv'
<1> DEFINE n == Len(stack)
           z == Len(stack')
<1>1. /\ n \in Nat /\ z \in Nat /\ k \in Nat /\ k <= z /\ k <= n
      /\ \A d \in 1 .. k : At(stack', d) = At(stack, d)
      /\ (k = n /\ k > 0 => At(stack, k).op # "change") /\ (k = n \/ k = n - 1)
  BY DEF Calls, Lower
<1>2. \A d \in 1 .. z : d > k => /\ At(stack', d).op \notin Cursors \cup {"redeliver", "requeue"}
                                 /\ At(stack', d).op = "change" => d = z
  BY <1>1 DEF Plain, Added
<1>3. \A d \in 1 .. z : d <= k \/ d > k
  BY <1>1
<1>4. \A d \in 1 .. z : d <= k => d \in 1 .. k /\ d \in 1 .. n
  BY <1>1
<1>5. Tops /\ DeadFrames /\ Nested /\ OneCursor /\ QueueFrames
  BY DEF FramesInv
<1> HIDE DEF n, z
<1>6. Tops'
  <2> SUFFICES ASSUME NEW d \in 1 .. z, At(stack', d).op = "change" PROVE d = z
    BY DEF Tops, Levels, z
  <2>1. CASE d > k
    BY <1>2, <2>1
  <2>2. CASE d <= k
    <3>1. d \in 1 .. n /\ At(stack, d).op = "change"
      BY <1>1, <1>4, <2>2
    <3>2. d = n
      BY <1>5, <3>1 DEF Tops, Levels, n
    <3> QED
      BY <1>1, <2>2, <3>1, <3>2
  <2> QED
    BY <1>3, <2>1, <2>2
<1>7. DeadFrames'
  <2> SUFFICES ASSUME NEW d \in 1 .. z, At(stack', d).op \in Cursors
               PROVE  ~active'[At(stack', d).proc]
    BY DEF DeadFrames, Levels, z
  <2>1. d <= k
    BY <1>2, <1>3
  <2> QED
    BY <1>1, <1>4, <1>5, <2>1 DEF DeadFrames, Levels, n
<1>8. Nested'
  <2> SUFFICES ASSUME NEW c \in 1 .. z, NEW d \in 1 .. z, c < d,
                      At(stack', d).op \in {"unread", "unanswered"}, At(stack', c).op = "orphaned"
               PROVE  At(stack', c).proc # At(stack', d).proc
    BY DEF Nested, Levels, z
  <2>1. d <= k /\ c <= k
    BY <1>2, <1>3 DEF Cursors
  <2> QED
    BY <1>1, <1>4, <1>5, <2>1 DEF Nested, Levels, n
<1>9. OneCursor'
  <2> SUFFICES ASSUME NEW c \in 1 .. z, NEW d \in 1 .. z,
                      At(stack', d).op = "orphaned", At(stack', c).op = "orphaned",
                      ~At(stack', c).wasRead, ~At(stack', d).wasRead,
                      At(stack', c).proc = At(stack', d).proc
               PROVE  c = d
    BY DEF OneCursor, Levels, z
  <2>1. d <= k /\ c <= k
    BY <1>2, <1>3 DEF Cursors
  <2> QED
    BY <1>1, <1>4, <1>5, <2>1 DEF OneCursor, Levels, n
<1>10. QueueFrames'
  <2> SUFFICES ASSUME NEW d \in 1 .. z, At(stack', d).op \in {"redeliver", "requeue"}
               PROVE  /\ At(stack', d).op = "redeliver" => d = 1
                      /\ At(stack', d).op = "requeue" =>
                            /\ d = 2 /\ At(stack', 1).op = "redeliver"
                            /\ At(stack', d).msg \notin At(stack', 1).todo
    BY DEF QueueFrames, Levels, z
  <2>1. d <= k
    BY <1>2, <1>3
  <2>2. At(stack', d) = At(stack, d) /\ d \in 1 .. n
    BY <1>1, <1>4, <2>1
  <2>3. /\ At(stack, d).op = "redeliver" => d = 1
        /\ At(stack, d).op = "requeue" =>
              /\ d = 2 /\ At(stack, 1).op = "redeliver"
              /\ At(stack, d).msg \notin At(stack, 1).todo
    BY <1>5, <2>2 DEF QueueFrames, Levels, n
  <2>4. d = 2 => At(stack', 1) = At(stack, 1)
    BY <1>1, <2>1
  <2> QED
    BY <2>2, <2>3, <2>4
<1> QED
  BY <1>6, <1>7, <1>8, <1>9, <1>10 DEF FramesInv

\* What a step keeps of the lists: entries stay apart, and the entry at which a
\* cursor stands stays the first.
ListsStay == /\ \A p \in Proc : Once(undelivered[p]) => Once(undelivered'[p])
             /\ \A d \in Levels : (At(stack, d).op = "orphaned" /\ ~At(stack, d).wasRead) =>
                   \/ d = Len(stack) /\ Len(stack') < Len(stack)
                   \/ /\ undelivered'[At(stack, d).proc] # << >>
                      /\ Head(undelivered'[At(stack, d).proc]) = Head(undelivered[At(stack, d).proc])

\* A step that keeps the lists fit for the cursors.
LEMMA ListsStep ==
    ASSUME ListsInv, NEW k, Calls(k), ListsStay,
           \A d \in Added(k) : At(stack', d).op = "orphaned" => At(stack', d).wasRead
    PROVE  ListsInv'
<1>1. NoneTwice'
  BY DEF ListsInv, NoneTwice, ListsStay
<1>2. CursorKept'
  <2> SUFFICES ASSUME NEW d \in 1 .. Len(stack'), At(stack', d).op = "orphaned", ~At(stack', d).wasRead
               PROVE  /\ undelivered'[At(stack', d).proc] # << >>
                      /\ Head(undelivered'[At(stack', d).proc]).msg = At(stack', d).msg
    BY DEF CursorKept, Levels
  <2>1. d <= k /\ d \in 1 .. Len(stack) /\ At(stack', d) = At(stack, d)
    BY DEF Calls, Lower, Added
  <2>2. ~ (d = Len(stack) /\ Len(stack') < Len(stack))
    BY <2>1 DEF Calls
  <2>3. /\ undelivered'[At(stack, d).proc] # << >>
        /\ Head(undelivered'[At(stack, d).proc]) = Head(undelivered[At(stack, d).proc])
    BY <2>1, <2>2 DEF ListsStay, Levels
  <2>4. Head(undelivered[At(stack, d).proc]).msg = At(stack, d).msg
    BY <2>1 DEF ListsInv, CursorKept, Levels
  <2> QED
    BY <2>1, <2>3, <2>4
<1> QED
  BY <1>1, <1>2 DEF ListsInv

\* The server's own code leaves the calls and plans of the clients alone, and
\* signals more.
Served == /\ UNCHANGED <<alive, plan, rpc>>
          /\ \A p \in Proc : signalled[p] => signalled'[p]

\* A step of the server's own code, which may give up only procids it cannot reach.
LEMMA CallsStep ==
    ASSUME CallsInv, NEW k, Calls(k), Served, UNCHANGED <<active, channel>>,
           \A d \in Added(k) : At(stack', d).op = "deactivate" =>
                At(stack', d).proc \in Proc /\ Unreachable(At(stack', d).proc)
    PROVE  CallsInv'
<1>1. Linked' /\ LastCall' /\ NotPlanned' /\ Lost'
  BY DEF CallsInv, Linked, LastCall, NotPlanned, Lost, Served, Awaits
<1>2. Asked'
  BY DEF CallsInv, Asked, Served, Awaits
<1>3. Losing'
  <2> SUFFICES ASSUME NEW d \in 1 .. Len(stack'), At(stack', d).op = "deactivate"
               PROVE  At(stack', d).proc \notin alive /\ ~Awaits(At(stack', d).proc)
    BY DEF Losing, Levels, Served, Awaits
  <2>1. CASE d <= k
    <3>1. d \in 1 .. Len(stack) /\ At(stack', d) = At(stack, d)
      BY <2>1 DEF Calls, Lower
    <3> QED
      BY <3>1 DEF CallsInv, Losing, Levels
  <2>2. CASE d > k
    <3> DEFINE p == At(stack', d).proc
    <3>1. p \in Proc /\ Unreachable(p)
      BY <2>2 DEF Calls, Added
    <3> HIDE DEF p
    <3>2. ~channel[p] => ~active[p]
      BY <3>1 DEF CallsInv, Linked
    <3>3. ~active[p] => p \notin alive /\ ~Awaits(p)
      BY <3>1 DEF CallsInv, Lost
    <3>4. ~signalled[p] => ~Awaits(p)
      BY <3>1 DEF CallsInv, Asked
    <3>5. p \notin alive /\ ~Awaits(p)
      BY <3>1, <3>2, <3>3, <3>4 DEF Unreachable
    <3> QED
      BY <3>5 DEF p
  <2> QED
    BY <2>1, <2>2 DEF Calls
<1> QED
  BY <1>1, <1>2, <1>3 DEF CallsInv

\* A frame that may leave the stack, or be suspended, without m being concerned.
Passed(m, k) ==
    LET n == Len(stack)
        f == At(stack, n)
    IN /\ k = n /\ n > 0 => f.op \in {"unread", "unanswered"}
       /\ k = n - 1 =>
             /\ ~Requeues(n, m)
             /\ Walks(n, m) => /\ Len(stack') >= n /\ At(stack', n).op = "return"
                               /\ At(stack', n).val \/ Over(m)'
             /\ f.op = "deactivate" => ~active[f.proc]
             /\ f.op = "return" => Len(stack') = n - 1 /\ ret' = f.val
             /\ f.op = "unanswered" => m \notin delivered'[f.proc]
             /\ \A p \in Proc : Settles(n, p, m) => m \notin delivered'[p]

\* New frames that do not concern m, changes of its state excepted.
Elsewhere(m, k) == \A d \in Added(k) :
    /\ At(stack', d).op \in {"deliver", "match", "report", "requeue"} => At(stack', d).msg # m
    /\ At(stack', d).op # "unread"
    /\ At(stack', d).op = "redeliver" /\ m \in At(stack', d).todo => state[m] = "QUEUED"

\* The step leaves m alone, or is about to change its state.
Near(m, k) ==
    /\ Calls(k) /\ Passed(m, k) /\ Elsewhere(m, k)
    /\ active' = active
    /\ state'[m] = state[m] /\ handler'[m] = handler[m] /\ reported'[m] = reported[m]
    /\ m \in queued' <=> m \in queued
    /\ \A p \in Proc : m \in delivered'[p] => m \in delivered[p]
    /\ \A p \in Proc : Has(undelivered'[p], m) =>
          Has(undelivered[p], m) \/ state[m] \in Final \/ state[m] = "QUEUED"

\* The step leaves m alone.
Aside(m, k) == /\ Near(m, k)
               /\ \A d \in Added(k) : At(stack', d).op = "change" => At(stack', d).msg # m

\* What holds of a request is kept by a step that leaves it alone, or is about to
\* change its state.
LEMMA NearStep ==
    ASSUME FramesInv, NEW m \in Msg, RequestInv(m), handler[m] \in Proc \cup {NoProc},
           NEW k, Near(m, k), ChangeOk(m)'
    PROVE  RequestInv(m)'
<1> DEFINE n == Len(stack)
           z == Len(stack')
           f == At(stack, n)
<1>1. /\ n \in Nat /\ z \in Nat /\ k \in Nat /\ k <= z /\ k <= n
      /\ \A d \in 1 .. k : At(stack', d) = At(stack, d)
      /\ (k = n /\ k > 0 => f.op # "change") /\ (k = n \/ k = n - 1)
  BY DEF Near, Calls, Lower
<1>2. /\ k = n /\ n > 0 => f.op \in {"unread", "unanswered"}
      /\ k = n - 1 =>
             /\ ~Requeues(n, m)
             /\ Walks(n, m) => /\ z >= n /\ At(stack', n).op = "return"
                               /\ At(stack', n).val \/ Over(m)'
             /\ f.op = "deactivate" => ~active[f.proc]
             /\ f.op = "return" => z = n - 1 /\ ret' = f.val
             /\ f.op = "unanswered" => m \notin delivered'[f.proc]
             /\ \A p \in Proc : Settles(n, p, m) => m \notin delivered'[p]
  BY DEF Near, Passed
<1>3. /\ active' = active
      /\ state'[m] = state[m] /\ handler'[m] = handler[m] /\ reported'[m] = reported[m]
      /\ m \in queued' <=> m \in queued
      /\ \A p \in Proc : m \in delivered'[p] => m \in delivered[p]
      /\ \A p \in Proc : Has(undelivered'[p], m) =>
          Has(undelivered[p], m) \/ state[m] \in Final \/ state[m] = "QUEUED"
  BY DEF Near
<1>4. \A d \in 1 .. z : d > k =>
        /\ At(stack', d).op \in {"deliver", "match", "report", "requeue"} => At(stack', d).msg # m
        /\ At(stack', d).op # "unread"
        /\ At(stack', d).op = "redeliver" /\ m \in At(stack', d).todo => state[m] = "QUEUED"
  BY <1>1 DEF Near, Elsewhere, Added
<1>5. \A d \in 1 .. z : d <= k => d \in 1 .. n /\ At(stack', d) = At(stack, d)
  BY <1>1
<1>6. \A d \in 1 .. n : \/ d \in 1 .. z /\ d <= k /\ At(stack', d) = At(stack, d)
                        \/ d = n /\ k = n - 1
  BY <1>1
<1>7. \A d \in 1 .. z : d <= k \/ d > k
  BY <1>1
<1> HIDE DEF n, z, f
<1>8. /\ \A d \in 1 .. z : Walks(d, m)' => d <= k /\ Walks(d, m)
      /\ \A d \in 1 .. z : Matches(d, m)' => d <= k /\ Matches(d, m)
      /\ \A d \in 1 .. z : Reports(d, m)' => d <= k /\ Reports(d, m)
      /\ \A d \in 1 .. z : Requeues(d, m)' => d <= k /\ Requeues(d, m)
      /\ \A d \in 1 .. z : \A p : Reading(d, p)' => d <= k /\ Reading(d, p)
  BY <1>4, <1>5, <1>7 DEF Walks, Matches, Reports, Requeues, Reading
<1>9. \A p : Dead(p) => Dead(p)'
  BY <1>3, <1>5, <1>8 DEF Dead, Levels, n, z
<1>10. Unheld(m) => Unheld(m)'
  BY <1>3, <1>9 DEF Unheld
<1>11. ~Given(m) => ~Given(m)'
  BY <1>3 DEF Given
<1>12. Free(m) => Free(m)'
  BY <1>10, <1>11 DEF Free
<1>13. Created(m)'
  BY <1>3, <1>5, <1>8, <1>11 DEF RequestInv, Created, Levels, n, z, Final
<1>16. BestOk(m)'
  BY <1>3, <1>5, <1>8 DEF RequestInv, BestOk, Levels, n, z, Matches
<1>17. ReportOk(m)'
  BY <1>3, <1>5, <1>8 DEF RequestInv, ReportOk, Levels, n, z
<1>18. OneWalk(m)'
  BY <1>3, <1>5, <1>8 DEF RequestInv, OneWalk, Levels, n, z
<1>19. \A p : \A c \in 1 .. n : Deactivates(c, p) => ~active[p] \/ (c \in 1 .. z /\ Deactivates(c, p)')
  BY <1>2, <1>6 DEF Deactivates, f
<1>20. Transit(m)'
  <2> SUFFICES ASSUME NEW d \in 1 .. z, Walks(d, m)', state'[m] \notin Final, handler'[m] # NoProc
               PROVE  /\ \A c \in 1 .. z : c < d => ~Reading(c, handler[m])'
                      /\ At(stack', d).op = "match" => Dead(handler[m])'
                      /\ ~active[handler[m]] \/ \E c \in 1 .. z : c > d /\ Deactivates(c, handler[m])'
    BY <1>3 DEF Transit, Levels, z
  <2>1. d \in 1 .. n /\ Walks(d, m) /\ At(stack', d) = At(stack, d)
    BY <1>5, <1>8
  <2>2. /\ \A c \in 1 .. n : c < d => ~Reading(c, handler[m])
        /\ At(stack, d).op = "match" => Dead(handler[m])
        /\ ~active[handler[m]] \/ \E c \in 1 .. n : c > d /\ Deactivates(c, handler[m])
    BY <1>3, <2>1 DEF RequestInv, Transit, Levels, n
  <2>3. \A c \in 1 .. z : c < d => ~Reading(c, handler[m])'
    BY <1>3, <1>5, <1>8, <2>2
  <2>4. At(stack', d).op = "match" => Dead(handler[m])'
    BY <1>3, <1>9, <2>1, <2>2
  <2>5. ~active[handler[m]] \/ \E c \in 1 .. z : c > d /\ Deactivates(c, handler[m])'
    BY <1>3, <1>19, <2>2
  <2> QED
    BY <2>3, <2>4, <2>5
<1>21. ReadOk(m)'
  <2> SUFFICES ASSUME NEW p \in Proc, m \in delivered'[p]
               PROVE  /\ handler[m] = p
                      /\ active[p] \/ \E d \in 1 .. z : At(stack', d).op = "unanswered" /\ At(stack', d).proc = p
                      /\ \/ state[m] = "SENT" /\ \A d \in 1 .. z : ~Walks(d, m)'
                         \/ state[m] \in Final /\ \E d \in 1 .. z : Settles(d, p, m)'
    BY <1>3 DEF ReadOk, Levels, z
  <2>1. /\ handler[m] = p
        /\ active[p] \/ \E d \in 1 .. n : At(stack, d).op = "unanswered" /\ At(stack, d).proc = p
        /\ \/ state[m] = "SENT" /\ \A d \in 1 .. n : ~Walks(d, m)
           \/ state[m] \in Final /\ \E d \in 1 .. n : Settles(d, p, m)
    BY <1>3 DEF RequestInv, ReadOk, Levels, n
  <2>2. \A d \in 1 .. n : At(stack, d).op = "unanswered" /\ At(stack, d).proc = p =>
           d \in 1 .. z /\ At(stack', d).op = "unanswered" /\ At(stack', d).proc = p
    BY <1>2, <1>6 DEF f
  <2>3. \A d \in 1 .. n : Settles(d, p, m) => d \in 1 .. z /\ Settles(d, p, m)'
    BY <1>2, <1>6 DEF Settles
  <2>4. active[p] \/ \E d \in 1 .. z : At(stack', d).op = "unanswered" /\ At(stack', d).proc = p
    BY <2>1, <2>2
  <2>5. \/ state[m] = "SENT" /\ \A d \in 1 .. z : ~Walks(d, m)'
        \/ state[m] \in Final /\ \E d \in 1 .. z : Settles(d, p, m)'
    BY <1>5, <1>8, <2>1, <2>3
  <2> QED
    BY <2>1, <2>4, <2>5
<1>22. UnreadOk(m)'
  <2> SUFFICES ASSUME handler[m] # NoProc, Has(undelivered'[handler[m]], m), state[m] \notin Final
               PROVE  /\ ~Given(m)'
                      /\ active[handler[m]] =>
                           /\ state[m] = "SENT"
                           /\ \A d \in 1 .. z : Walks(d, m)' => At(stack', d).op = "deliver"
                                /\ \E c \in 1 .. z : c > d /\ Deactivates(c, handler[m])'
                      /\ \A e \in 1 .. z : Reading(e, handler[m])' =>
                           /\ state[m] = "SENT"
                           /\ \A d \in 1 .. z : Walks(d, m)' => At(stack', d).op = "deliver" /\ d < e
    BY <1>3 DEF UnreadOk, Levels, z
  <2>1. CASE state[m] = "QUEUED"
    <3>1. Free(m)
      BY <2>1 DEF RequestInv, QueuedOk
    <3>2. Free(m)'
      BY <1>12, <3>1
    <3>3. ~Given(m)' /\ ~active[handler[m]] /\ \A e \in 1 .. z : ~Reading(e, handler[m])'
      BY <1>3, <3>2 DEF Free, Unheld, Dead, Levels, z
    <3> QED
      BY <3>3
  <2>2. CASE state[m] # "QUEUED"
    <3>1. Has(undelivered[handler[m]], m)
      BY <1>3, <2>2
    <3>2. /\ ~Given(m)
          /\ active[handler[m]] =>
               /\ state[m] = "SENT"
               /\ \A d \in 1 .. n : Walks(d, m) => At(stack, d).op = "deliver"
                    /\ \E c \in 1 .. n : c > d /\ Deactivates(c, handler[m])
          /\ \A e \in 1 .. n : Reading(e, handler[m]) =>
               /\ state[m] = "SENT"
               /\ \A d \in 1 .. n : Walks(d, m) => At(stack, d).op = "deliver" /\ d < e
      BY <3>1 DEF RequestInv, UnreadOk, Levels, n
    <3>3. ASSUME active[handler[m]]
          PROVE  /\ state[m] = "SENT"
                 /\ \A d \in 1 .. z : Walks(d, m)' => At(stack', d).op = "deliver"
                                /\ \E c \in 1 .. z : c > d /\ Deactivates(c, handler[m])'
      <4>1. ASSUME NEW d \in 1 .. z, Walks(d, m)'
            PROVE  At(stack', d).op = "deliver" /\ \E c \in 1 .. z : c > d /\ Deactivates(c, handler[m])'
        <5>1. d \in 1 .. n /\ Walks(d, m) /\ At(stack', d) = At(stack, d)
          BY <1>5, <1>8, <4>1
        <5>2. At(stack, d).op = "deliver"
          BY <3>2, <3>3, <5>1
        <5>3. PICK c \in 1 .. n : c > d /\ Deactivates(c, handler[m])
          BY <3>2, <3>3, <5>1
        <5>4. c \in 1 .. z /\ Deactivates(c, handler[m])'
          BY <1>3, <1>19, <3>3, <5>3 DEF Deactivates
        <5> QED
          BY <5>1, <5>2, <5>3, <5>4
      <4> QED
        BY <3>2, <3>3, <4>1
    <3>4. \A e \in 1 .. z : Reading(e, handler[m])' =>
                           /\ state[m] = "SENT"
                           /\ \A d \in 1 .. z : Walks(d, m)' => At(stack', d).op = "deliver" /\ d < e
      BY <1>3, <1>5, <1>8, <3>2
    <3> QED
      BY <1>11, <3>2, <3>3, <3>4
  <2> QED
    BY <2>1, <2>2
<1>23. QueuedOk(m)'
  <2>1. state'[m] = "QUEUED" => Free(m)'
    BY <1>3, <1>12 DEF RequestInv, QueuedOk
  <2>2. (\E d \in 1 .. n : Requeues(d, m)) <=> (\E d \in 1 .. z : Requeues(d, m)')
    <3>1. \A d \in 1 .. n : Requeues(d, m) => d \in 1 .. z /\ Requeues(d, m)'
      BY <1>2, <1>6 DEF Requeues
    <3> QED
      BY <1>5, <1>8, <3>1
  <2>3. \A d \in 1 .. z : Requeues(d, m)' => state'[m] # "QUEUED"
    BY <1>3, <1>5, <1>8 DEF RequestInv, QueuedOk, Levels, n
  <2>4. \A d \in 1 .. z : At(stack', d).op = "redeliver" /\ m \in At(stack', d).todo => state'[m] = "QUEUED"
    BY <1>3, <1>4, <1>5, <1>7 DEF RequestInv, QueuedOk, Levels, n
  <2>5. /\ m \in queued <=> (state[m] = "QUEUED" \/ \E d \in 1 .. n : Requeues(d, m))
        /\ m \in queued => "QUEUED" \in reported[m] /\ m \in Queueable
    BY DEF RequestInv, QueuedOk, Levels, n
  <2>6. /\ m \in queued' <=> (state'[m] = "QUEUED" \/ \E d \in 1 .. z : Requeues(d, m)')
        /\ m \in queued' => "QUEUED" \in reported'[m] /\ m \in Queueable
    BY <1>3, <2>2, <2>5
  <2> QED
    BY <2>1, <2>3, <2>4, <2>6 DEF QueuedOk, Levels, z
<1>25. Over(m) => Over(m)'
  BY <1>3, <1>5, <1>8, <1>12 DEF Over, Levels, n, z
<1>26. Over(m)' => Free(m)'
  BY DEF Over
<1>24. RequeueOk(m)'
  <2> SUFFICES ASSUME NEW d \in 1 .. z, Requeues(d, m)'
               PROVE  IF d = z THEN ret' \/ Free(m)'
                      ELSE \/ Walks(d + 1, m)'
                           \/ At(stack', d + 1).op = "return" /\ (At(stack', d + 1).val \/ Over(m)')
    BY DEF RequeueOk, Levels, z
  <2>1. d <= k /\ d \in 1 .. n /\ Requeues(d, m)
    BY <1>5, <1>8
  <2>2. IF d = n THEN ret \/ Free(m)
        ELSE \/ Walks(d + 1, m)
             \/ At(stack, d + 1).op = "return" /\ (At(stack, d + 1).val \/ Over(m))
    BY <2>1 DEF RequeueOk, RequestInv, Levels, n
  <2>3. d # n
    <3>1. d = n => k = n /\ n > 0
      BY <1>1, <2>1
    <3> QED
      BY <1>2, <2>1, <3>1 DEF Requeues, f
  <2>4. CASE d + 1 <= k
    <3>1. d + 1 \in 1 .. k /\ At(stack', d + 1) = At(stack, d + 1) /\ d # z
      BY <1>1, <2>1, <2>4
    <3> QED
      BY <1>25, <2>2, <2>3, <3>1 DEF Walks
  <2>5. CASE ~(d + 1 <= k)
    <3>1. d + 1 = n /\ d = k /\ k = n - 1
      BY <1>1, <2>1, <2>3, <2>5
    <3>2. CASE Walks(n, m)
      <4>1. z >= n /\ At(stack', n).op = "return" /\ (At(stack', n).val \/ Over(m)')
        BY <1>2, <3>1, <3>2
      <4>2. d # z
        BY <1>1, <3>1, <4>1
      <4> QED
        BY <3>1, <4>1, <4>2
    <3>3. CASE ~Walks(n, m)
      <4>1. f.op = "return" /\ (f.val \/ Over(m))
        BY <2>2, <2>3, <3>1, <3>3 DEF f
      <4>2. d = z /\ ret' = f.val
        BY <1>2, <3>1, <4>1
      <4> QED
        BY <1>25, <1>26, <4>1, <4>2
    <3> QED
      BY <3>2, <3>3
  <2> QED
    BY <2>4, <2>5
<1> QED
  BY <1>13, <1>16, <1>17, <1>18, <1>20, <1>21, <1>22, <1>23, <1>24 DEF RequestInv

\* What holds of a request is kept by a step that leaves it alone.
LEMMA AsideStep ==
    ASSUME FramesInv, NEW m \in Msg, RequestInv(m), handler[m] \in Proc \cup {NoProc},
           NEW k, Aside(m, k)
    PROVE  RequestInv(m)'
<1> DEFINE n == Len(stack)
           z == Len(stack')
           f == At(stack, n)
<1>1. /\ n \in Nat /\ z \in Nat /\ k \in Nat /\ k <= z /\ k <= n
      /\ \A d \in 1 .. k : At(stack', d) = At(stack, d)
      /\ (k = n /\ k > 0 => f.op # "change") /\ (k = n \/ k = n - 1)
  BY DEF Aside, Near, Calls, Lower
<1>4. \A d \in 1 .. z : d > k => (At(stack', d).op = "change" => At(stack', d).msg # m)
  BY <1>1 DEF Aside, Added
<1>5. \A d \in 1 .. z : d <= k => d \in 1 .. n /\ At(stack', d) = At(stack, d)
  BY <1>1
<1>7. \A d \in 1 .. z : d <= k \/ d > k
  BY <1>1
<1> HIDE DEF n, z, f
<1>14. ~Changes(m)'
  <2> SUFFICES ASSUME z > 0, At(stack', z).op = "change", At(stack', z).msg = m PROVE FALSE
    BY DEF Changes, z
  <2>1. z \in 1 .. z
    BY <1>1
  <2>2. z <= k /\ z \in 1 .. n /\ At(stack, z).op = "change" /\ At(stack, z).msg = m
    BY <1>4, <1>5, <1>7, <2>1
  <2>3. z = n
    BY <2>2 DEF FramesInv, Tops, Levels, n
  <2> QED
    BY <1>1, <2>2, <2>3 DEF f
<1>15. ChangeOk(m)'
  BY <1>14 DEF ChangeOk
<1> QED
  BY <1>15, NearStep DEF Aside

\* What add_message does to the lists keeps them fit for the cursors, unless it
\* frees an element.
LEMMA AddMessageLists ==
    ASSUME TypeOK, ListsInv, NEW p \in Proc, NEW e \in Entry, NEW ok, NEW bad,
           AddMessage(p, e, ok, bad), heap' = "intact"
    PROVE  /\ ListsStay
           /\ \A q \in Proc, m \in Msg : Has(undelivered'[q], m) <=>
                 Has(undelivered[q], m) \/ (q = p /\ e = Live(m) /\ ~Gone(p))
           /\ \A q \in Proc : signalled[q] => signalled'[q]
           /\ heap = "intact"
           /\ \/ stack' = ok /\ ~Gone(p)
              \/ stack' = bad /\ Gone(p)
              \/ stack' = <<Deactivate(p)>> \o bad /\ ~Gone(p) /\ Unreachable(p)
<1>1. \A q \in Proc : q # p => undelivered'[q] = undelivered[q]
  BY AddMessageEffect
<1>2. \A m \in Msg : Has(undelivered'[p], m) <=> Has(undelivered[p], m) \/ (e = Live(m) /\ ~Gone(p))
  BY AddMessageEffect
<1>3. Once(undelivered[p]) => Once(undelivered'[p])
  BY AddMessageEffect
<1>4. undelivered[p] # << >> =>
        /\ undelivered'[p] # << >>
        /\ \/ Head(undelivered'[p]) = Head(undelivered[p])
           \/ /\ e.seen = "LIVE" /\ e = Head(undelivered[p])
              /\ Orphaned(p, e.msg, FALSE) \notin ToSet(stack)
  BY AddMessageEffect
<1>5. /\ \A q \in Proc : signalled[q] => signalled'[q]
      /\ heap = "intact"
  BY AddMessageEffect
<1>6. \/ stack' = ok /\ ~Gone(p)
      \/ stack' = bad /\ Gone(p)
      \/ stack' = <<Deactivate(p)>> \o bad /\ ~Gone(p) /\ Unreachable(p)
  BY AddMessageEffect
<1>7. ASSUME NEW d \in Levels, At(stack, d).op = "orphaned", ~At(stack, d).wasRead
      PROVE  /\ undelivered'[At(stack, d).proc] # << >>
             /\ Head(undelivered'[At(stack, d).proc]) = Head(undelivered[At(stack, d).proc])
  <2> DEFINE f == At(stack, d)
             q == f.proc
  <2>1. stack \in Seq(Frame) /\ d \in 1 .. Len(stack)
    BY DEF TypeOK, Levels
  <2>2. f \in Frame /\ q \in Proc
    BY <1>7, <2>1, FrameAt, FramesRead
  <2>3. undelivered[q] # << >> /\ Head(undelivered[q]).msg = f.msg
    BY <1>7 DEF ListsInv, CursorKept
  <2>4. f \in ToSet(stack)
    <3>1. Len(stack) + 1 - d \in 1 .. Len(stack)
      BY <2>1, LenProperties
    <3> QED
      BY <2>1, <3>1, LenProperties DEF ToSet, At
  <2>5. f = Orphaned(q, f.msg, FALSE)
    BY <1>7, <2>2 DEF Frame, Orphaned
  <2>6. CASE q = p
    <3>1. e = Head(undelivered[p]) => e.msg = f.msg
      BY <2>3, <2>6
    <3> HIDE DEF f
    <3>2. e = Head(undelivered[p]) => Orphaned(p, e.msg, FALSE) \in ToSet(stack)
      BY <2>4, <2>5, <2>6, <3>1
    <3> QED
      BY <1>4, <2>3, <2>6, <3>2 DEF f
  <2>7. CASE q # p
    BY <1>1, <2>2, <2>3, <2>7
  <2> QED
    BY <2>6, <2>7
<1>8. ListsStay
  <2>1. \A q \in Proc : Once(undelivered[q]) => Once(undelivered'[q])
    BY <1>1, <1>3
  <2> QED
    BY <1>7, <2>1 DEF ListsStay
<1>9. \A q \in Proc, m \in Msg : Has(undelivered'[q], m) <=>
                 Has(undelivered[q], m) \/ (q = p /\ e = Live(m) /\ ~Gone(p))
  BY <1>1, <1>2
<1> QED
  BY <1>5, <1>6, <1>8, <1>9

\* Lists that do not change stay fit for the cursors.
LEMMA UndeliveredStay == ASSUME TypeOK, undelivered' = undelivered, ListsInv PROVE ListsStay
<1>1. ASSUME NEW d \in Levels, At(stack, d).op = "orphaned", ~At(stack, d).wasRead
      PROVE  undelivered[At(stack, d).proc] # << >>
  BY <1>1 DEF ListsInv, CursorKept
<1> QED
  BY <1>1 DEF ListsStay

-----------------------------------------------------------------------------
(* The steps that walk over the patterns. *)

\* Above level k there is nothing, or the failure of a signal.
Fails(k) == /\ Len(stack') \in {k, k + 1}
            /\ Len(stack') = k + 1 =>
                  /\ At(stack', k + 1).op = "deactivate"
                  /\ At(stack', k + 1).proc \in Proc
                  /\ Unreachable(At(stack', k + 1).proc)

\* The walk for m is started, or goes on.
Walk(m) ==
    LET n == Len(stack)
        f == At(stack, n)
        g == At(stack', n)
    IN /\ heap = "intact" /\ n \in Nat \ {0}
       /\ f.op \in {"deliver", "match"} /\ f.msg = m
       /\ g.op = "match" /\ g.msg = m
       /\ \/ g.best = NoProc
          \/ f.op = "match" /\ g.best = f.best
          \/ f.op = "match" /\ g.best \in Proc /\ active[g.best] /\ state[m] = "SENT"
       /\ Lower(n - 1) /\ Fails(n)
       /\ Served /\ ListsStay
       /\ \A p \in Proc, x \in Msg : Has(undelivered'[p], x) <=> Has(undelivered[p], x)
       /\ UNCHANGED <<active, channel, delivered, state, handler, reported, queued, ret>>

\* Deliver starts a walk.
LEMMA RunDeliverWalks ==
    ASSUME TypeOK, ListsInv, RunDeliver PROVE \E m \in Msg : Walk(m)
<1> DEFINE f == Head(stack)
           g == [op |-> "match", msg |-> f.msg, observers |-> f.observers,
                 todo |-> registered, at |-> {}, best |-> NoProc]
<1>0. Running("deliver") /\ stack # << >>
  BY DEF RunDeliver, Running
<1>1. /\ Len(stack) \in Nat \ {0} /\ At(stack, Len(stack)) = f
      /\ f.op = "deliver" /\ f \in Frame /\ Tail(stack) \in Seq(Frame) /\ heap = "intact"
  BY <1>0, TopAt
<1>2. f.msg \in Msg /\ g \in Frame
  BY <1>1, FramesRead DEF Frame, TypeOK
<1>3. stack' = <<g>> \o Tail(stack)
  BY DEF RunDeliver
<1> HIDE DEF f
<1>4. g.op = "match" /\ g.msg = f.msg /\ g.best = NoProc
  OBVIOUS
<1> HIDE DEF g
<1>5. Len(stack') = Len(stack) /\ At(stack', Len(stack)) = g /\ Lower(Len(stack) - 1)
  BY <1>0, <1>2, <1>3, Instead
<1>6. UNCHANGED <<alive, plan, rpc, active, channel, delivered, state, handler, reported,
                  queued, ret, undelivered, signalled>>
  BY DEF RunDeliver, procVars, clientVars, msgVars
<1>7. ListsStay
  BY <1>6, UndeliveredStay
<1> QED
  BY <1>1, <1>2, <1>4, <1>5, <1>6, <1>7 DEF Walk, Fails, Served

\* A frame pushed on a frame pushed on a stack.
LEMMA PushPush ==
    ASSUME NEW s \in Seq(Frame), NEW f \in Frame, NEW g \in Frame
    PROVE  <<f>> \o <<g>> = <<f, g>> /\ <<f>> \o (<<g>> \o s) = <<f, g>> \o s
<1> DEFINE b == <<g>>
           c == <<f, g>>
<1>3. /\ b \in Seq(Frame) /\ Len(b) = 1 /\ b[1] = g
      /\ c \in Seq(Frame) /\ Len(c) = 2 /\ c[1] = f /\ c[2] = g
  OBVIOUS
<1> HIDE DEF b, c
<1>7. ASSUME NEW u \in Seq(Frame)
      PROVE  /\ <<f>> \o u \in Seq(Frame) /\ Len(<<f>> \o u) = Len(u) + 1 /\ (<<f>> \o u)[1] = f
             /\ \A i \in 1 .. Len(u) : (<<f>> \o u)[i+1] = u[i]
  OBVIOUS
<1>4. /\ <<f>> \o b \in Seq(Frame) /\ Len(<<f>> \o b) = Len(b) + 1 /\ (<<f>> \o b)[1] = f
      /\ \A i \in 1 .. Len(b) : (<<f>> \o b)[i+1] = b[i]
  BY <1>3, <1>7
<1>5. Len(<<f>> \o b) = 2 /\ (<<f>> \o b)[2] = g
  BY <1>3, <1>4
<1>6. <<f>> \o b = c
  BY <1>3, <1>4, <1>5, SeqEqual
<1>1. <<f>> \in Seq(Frame) /\ <<g>> \in Seq(Frame) /\ <<f>> \o <<g>> = <<f, g>>
  BY <1>6 DEF b, c
<1>2. (<<f>> \o <<g>>) \o s = <<f>> \o (<<g>> \o s)
  BY <1>1, ConcatAssociative
<1> QED
  BY <1>1, <1>2

\* The frame g takes the place of the one that runs, and a signal may fail.
LEMMA InsteadFails ==
    ASSUME TypeOK, stack # << >>, NEW g \in Frame, NEW p \in Proc,
           \/ stack' = <<g>> \o Tail(stack)
           \/ stack' = <<Deactivate(p)>> \o (<<g>> \o Tail(stack)) /\ Unreachable(p)
    PROVE  Fails(Len(stack)) /\ At(stack', Len(stack)) = g /\ Lower(Len(stack) - 1)
<1>1. Deactivate(p) \in Frame /\ Deactivate(p).op = "deactivate" /\ Deactivate(p).proc = p
  BY FramesMade DEF Deactivate
<1>2. Tail(stack) \in Seq(Frame) /\ Len(stack) \in Nat
  BY HeadTailProperties, LenProperties DEF TypeOK
<1>3. CASE stack' = <<g>> \o Tail(stack)
  <2>1. Len(stack') = Len(stack) /\ At(stack', Len(stack)) = g /\ Lower(Len(stack) - 1)
    BY <1>3, Instead
  <2> QED
    BY <1>2, <2>1 DEF Fails
<1>4. CASE stack' = <<Deactivate(p)>> \o (<<g>> \o Tail(stack)) /\ Unreachable(p)
  <2>1. stack' = <<Deactivate(p), g>> \o Tail(stack)
    BY <1>1, <1>2, <1>4, PushPush
  <2>2. /\ Len(stack') = Len(stack) + 1 /\ At(stack', Len(stack)) = g
        /\ At(stack', Len(stack) + 1) = Deactivate(p) /\ Lower(Len(stack) - 1)
    BY <1>1, <2>1, Instead
  <2> QED
    BY <1>1, <1>2, <1>4, <2>2 DEF Fails
<1> QED
  BY <1>3, <1>4

\* A walk that ends at an inactive registrant.
LEMMA MatchInactiveWalks ==
    ASSUME TypeOK, ListsInv, MatchInactive PROVE \E m \in Msg : Walk(m)
<1> DEFINE f == Head(stack)
           g == [f EXCEPT !.todo = {}, !.at = {}]
<1>0. Running("match") /\ stack # << >>
  BY DEF MatchInactive, Running
<1>1. /\ Len(stack) \in Nat \ {0} /\ At(stack, Len(stack)) = f
      /\ f.op = "match" /\ f \in Frame /\ Tail(stack) \in Seq(Frame) /\ heap = "intact"
  BY <1>0, TopAt
<1>2. f.msg \in Msg /\ g \in Frame
  BY <1>1, FramesRead, MatchFrame
<1>3. stack' = <<g>> \o Tail(stack)
  BY DEF MatchInactive
<1>4. g.op = "match" /\ g.msg = f.msg /\ g.best = f.best
  BY <1>1 DEF Frame
<1> HIDE DEF f, g
<1>5. Len(stack') = Len(stack) /\ At(stack', Len(stack)) = g /\ Lower(Len(stack) - 1)
  BY <1>0, <1>2, <1>3, Instead
<1>6. UNCHANGED <<alive, plan, rpc, active, channel, delivered, state, handler, reported,
                  queued, ret, undelivered, signalled>>
  BY DEF MatchInactive, procVars, clientVars, msgVars
<1>7. ListsStay
  BY <1>6, UndeliveredStay
<1> QED
  BY <1>1, <1>2, <1>4, <1>5, <1>6, <1>7 DEF Walk, Fails, Served

\* A walk that passes a handler pattern.
LEMMA MatchHandlerWalks ==
    ASSUME TypeOK, ListsInv, MatchHandler PROVE \E m \in Msg : Walk(m)
<1> DEFINE f == Head(stack)
<1>0. Running("match") /\ stack # << >>
  BY DEF MatchHandler, Running
<1>1. /\ Len(stack) \in Nat \ {0} /\ At(stack, Len(stack)) = f
      /\ f.op = "match" /\ f \in Frame /\ Tail(stack) \in Seq(Frame) /\ heap = "intact"
  BY <1>0, TopAt
<1>2. f.msg \in Msg /\ f.todo \in SUBSET Pattern /\ f.best \in Proc \cup {NoProc}
  BY <1>1, FramesRead
<1>31. PICK pat \in Left(f) : \E b \in {f.best, pat[1]} :
          /\ active[pat[1]]
          /\ ~Eligible(f.msg, pat[1]) => b = f.best
          /\ stack' = <<[Visit(f, pat) EXCEPT !.best = b]>> \o Tail(stack)
  BY DEF MatchHandler
<1>3. PICK b \in {f.best, pat[1]} :
          /\ active[pat[1]]
          /\ ~Eligible(f.msg, pat[1]) => b = f.best
          /\ stack' = <<[Visit(f, pat) EXCEPT !.best = b]>> \o Tail(stack)
  BY <1>31
<1> DEFINE g == [Visit(f, pat) EXCEPT !.best = b]
<1>4. pat \in Pattern /\ pat[1] \in Proc
  BY <1>2, <1>3 DEF Left, Pattern
<1>5. g \in Frame
  BY <1>1, <1>2, <1>3, <1>4, VisitFrame
<1>6. g.op = "match" /\ g.msg = f.msg /\ g.best = b
  BY <1>1, <1>2 DEF Visit, Frame
<1>7. b = f.best \/ (b \in Proc /\ active[b] /\ state[f.msg] = "SENT")
  BY <1>3, <1>4 DEF Eligible
<1>8. stack' = <<g>> \o Tail(stack)
  BY <1>3
<1> HIDE DEF f, g
<1>9. Len(stack') = Len(stack) /\ At(stack', Len(stack)) = g /\ Lower(Len(stack) - 1)
  BY <1>0, <1>5, <1>8, Instead
<1>10. UNCHANGED <<alive, plan, rpc, active, channel, delivered, state, handler, reported,
                  queued, ret, undelivered, signalled>>
  BY DEF MatchHandler, procVars, clientVars, msgVars
<1>11. ListsStay
  BY <1>10, UndeliveredStay
<1> QED
  BY <1>1, <1>2, <1>6, <1>7, <1>9, <1>10, <1>11 DEF Walk, Fails, Served

\* An observer's copy is not the message itself.
LEMMA Copied ==
    \A m \in Msg, s \in State : /\ [msg |-> m, seen |-> s] \in Entry
                               /\ \A x \in Msg : [msg |-> m, seen |-> s] # Live(x)
<1>1. \A s \in State : s # "LIVE"
  BY DEF State, Final
<1>2. \A m \in Msg, s \in State : [msg |-> m, seen |-> s] \in Entry
  BY DEF Entry
<1> QED
  BY <1>1, <1>2 DEF Live

\* A walk that passes an observer pattern.
LEMMA MatchObserverWalks ==
    ASSUME TypeOK, ListsInv, MatchObserver, heap' = "intact" PROVE \E m \in Msg : Walk(m)
<1> DEFINE f == Head(stack)
<1>0. Running("match") /\ stack # << >>
  BY DEF MatchObserver, Running
<1>1. /\ Len(stack) \in Nat \ {0} /\ At(stack, Len(stack)) = f
      /\ f.op = "match" /\ f \in Frame /\ Tail(stack) \in Seq(Frame) /\ heap = "intact"
  BY <1>0, TopAt
<1>2. f.msg \in Msg /\ f.todo \in SUBSET Pattern /\ f.best \in Proc \cup {NoProc}
  BY <1>1, FramesRead
<1> DEFINE e == [msg |-> f.msg, seen |-> state[f.msg]]
<1>3. PICK pat \in Left(f) :
         IF f.observers
         THEN AddMessage(pat[1], e, <<Visit(f, pat)>> \o Tail(stack), <<Visit(f, pat)>> \o Tail(stack))
         ELSE /\ stack' = <<Visit(f, pat)>> \o Tail(stack)
              /\ UNCHANGED <<undelivered, signalled, heap>>
  BY DEF MatchObserver
<1> DEFINE g == Visit(f, pat)
           p == pat[1]
<1>4. pat \in Pattern /\ p \in Proc
  BY <1>2, <1>3 DEF Left, Pattern
<1>5. g \in Frame
  BY <1>1, <1>2, <1>4, VisitFrame
<1>6. g.op = "match" /\ g.msg = f.msg /\ g.best = f.best
  BY <1>1 DEF Visit, Frame
<1>7. UNCHANGED <<alive, plan, rpc, active, channel, delivered, state, handler, reported,
                  queued, ret>>
  BY DEF MatchObserver, clientVars, msgVars
<1>8. e \in Entry /\ \A x \in Msg : e # Live(x)
  <2>1. state[f.msg] \in State /\ state[f.msg] # "LIVE"
    BY <1>2 DEF TypeOK, State, Final
  <2>2. f.msg \in Msg
    BY <1>2
  <2> HIDE DEF f
  <2>3. e \in Entry
    BY <2>1, <2>2, Copied
  <2>4. \A x \in Msg : e # Live(x)
    BY <2>1, <2>2, Copied
  <2> QED
    BY <2>3, <2>4
<1> HIDE DEF f, g, e, p
<1>9. CASE f.observers
  <2>1. AddMessage(p, e, <<g>> \o Tail(stack), <<g>> \o Tail(stack))
    BY <1>3, <1>9 DEF g, p
  <2> DEFINE t == <<g>> \o Tail(stack)
  <2>0. AddMessage(p, e, t, t)
    BY <2>1
  <2> HIDE DEF t
  <2>2. ListsStay
    BY <1>4, <1>8, <2>0, AddMessageLists
  <2>3. \A q \in Proc, x \in Msg : Has(undelivered'[q], x) <=>
                 Has(undelivered[q], x) \/ (q = p /\ e = Live(x) /\ ~Gone(p))
    BY <1>4, <1>8, <2>0, AddMessageLists
  <2>4. \A q \in Proc : signalled[q] => signalled'[q]
    BY <1>4, <1>8, <2>0, AddMessageLists
  <2>7. \/ stack' = t /\ ~Gone(p)
        \/ stack' = t /\ Gone(p)
        \/ stack' = <<Deactivate(p)>> \o t /\ ~Gone(p) /\ Unreachable(p)
    BY <1>4, <1>8, <2>0, AddMessageLists
  <2>8. \/ stack' = t
        \/ stack' = <<Deactivate(p)>> \o t /\ Unreachable(p)
    BY <2>7
  <2>5. \/ stack' = <<g>> \o Tail(stack)
        \/ stack' = <<Deactivate(p)>> \o (<<g>> \o Tail(stack)) /\ Unreachable(p)
    BY <2>8 DEF t
  <2>6. Fails(Len(stack)) /\ At(stack', Len(stack)) = g /\ Lower(Len(stack) - 1)
    BY <1>0, <1>4, <1>5, <2>5, InsteadFails
  <2>9. \A q \in Proc, x \in Msg : Has(undelivered'[q], x) <=> Has(undelivered[q], x)
    BY <1>8, <2>3
  <2> QED
    BY <1>1, <1>2, <1>6, <1>7, <2>2, <2>4, <2>6, <2>9 DEF Walk, Served
<1>10. CASE ~f.observers
  <2>1. stack' = <<g>> \o Tail(stack) /\ UNCHANGED <<undelivered, signalled>>
    BY <1>3, <1>10 DEF g
  <2>2. Fails(Len(stack)) /\ At(stack', Len(stack)) = g /\ Lower(Len(stack) - 1)
    BY <1>0, <1>4, <1>5, <2>1, InsteadFails
  <2>3. ListsStay
    BY <2>1, UndeliveredStay
  <2> QED
    BY <1>1, <1>2, <1>6, <1>7, <2>1, <2>2, <2>3 DEF Walk, Served
<1> QED
  BY <1>9, <1>10

\* A request that waits to be sent still waits for it.
LEMMA SendingStep ==
    ASSUME NEW m \in Msg, Sending(m), UNCHANGED <<rpc, plan>>,
           state[m] = "CREATED" => state'[m] = "CREATED"
    PROVE  Sending(m)'
BY DEF Sending

\* The walk for m does not concern the other requests.
LEMMA WalkOthers ==
    ASSUME NEW m \in Msg, Walk(m), NEW x \in Msg, x # m
    PROVE  Aside(x, Len(stack) - 1)
<1> DEFINE n == Len(stack)
           z == Len(stack')
<1>1. /\ n \in Nat \ {0} /\ z \in {n, n + 1} /\ Lower(n - 1)
      /\ At(stack, n).op \in {"deliver", "match"} /\ At(stack, n).msg = m
      /\ At(stack', n).op = "match" /\ At(stack', n).msg = m
      /\ z = n + 1 => At(stack', n + 1).op = "deactivate"
  BY DEF Walk, Fails
<1>2. Calls(n - 1)
  BY <1>1 DEF Calls
<1>3. Passed(x, n - 1)
  BY <1>1 DEF Passed, Walks, Requeues, Settles
<1>4. Elsewhere(x, n - 1)
  <2>1. \A d \in n .. z : d = n \/ (d = n + 1 /\ z = n + 1)
    BY <1>1
  <2> QED
    BY <1>1, <2>1 DEF Elsewhere, Added
<1>9. \A d \in Added(n - 1) : At(stack', d).op # "change"
  <2>1. \A d \in n .. z : d = n \/ (d = n + 1 /\ z = n + 1)
    BY <1>1
  <2> QED
    BY <1>1, <2>1 DEF Added
<1> QED
  BY <1>9, <1>2, <1>3, <1>4 DEF Aside, Near, Walk

\* The request for which a handler is sought.
LEMMA WalkSame ==
    ASSUME FramesInv, NEW m \in Msg, RequestInv(m), handler[m] \in Proc \cup {NoProc}, Walk(m)
    PROVE  RequestInv(m)'
<1> DEFINE n == Len(stack)
           z == Len(stack')
           h == handler[m]
<1>1. /\ n \in Nat \ {0} /\ z \in {n, n + 1}
      /\ \A d \in 1 .. n - 1 : At(stack', d) = At(stack, d)
      /\ At(stack, n).op \in {"deliver", "match"} /\ At(stack, n).msg = m
      /\ At(stack', n).op = "match" /\ At(stack', n).msg = m
      /\ z = n + 1 => At(stack', n + 1).op = "deactivate"
  BY DEF Walk, Fails, Lower
<1>2. \/ At(stack', n).best = NoProc
      \/ At(stack, n).op = "match" /\ At(stack', n).best = At(stack, n).best
      \/ active[At(stack', n).best] /\ state[m] = "SENT"
  BY DEF Walk
<1>3. /\ active' = active /\ state' = state /\ handler' = handler /\ reported' = reported
      /\ queued' = queued /\ delivered' = delivered
      /\ \A p \in Proc : Has(undelivered'[p], m) <=> Has(undelivered[p], m)
  BY DEF Walk
<1>4. \A d \in 1 .. z : \/ d < n /\ d \in 1 .. n /\ At(stack', d) = At(stack, d)
                        \/ d = n
                        \/ d = n + 1 /\ At(stack', d).op = "deactivate"
  BY <1>1
<1>5. \A d \in 1 .. n : \/ d < n /\ d \in 1 .. z /\ At(stack', d) = At(stack, d)
                        \/ d = n
  BY <1>1
<1>6. n \in 1 .. n /\ n \in 1 .. z /\ Walks(n, m) /\ z \in Nat
  BY <1>1 DEF Walks
<1> HIDE DEF n, z
<1>7. /\ \A d \in 1 .. z : Walks(d, m)' => d \in 1 .. n /\ Walks(d, m)
      /\ \A d \in 1 .. z : Matches(d, m)' => d = n \/ (d < n /\ d \in 1 .. n /\ Matches(d, m))
      /\ \A d \in 1 .. z : Reports(d, m)' => d < n /\ d \in 1 .. n /\ Reports(d, m)
      /\ \A d \in 1 .. z : Requeues(d, m)' => d < n /\ d \in 1 .. n /\ Requeues(d, m)
      /\ \A d \in 1 .. z : Reading(d, h)' => d < n /\ d \in 1 .. n /\ Reading(d, h)
  BY <1>1, <1>3, <1>4, <1>6 DEF Walks, Matches, Reports, Requeues, Reading
<1>8. /\ \A d \in 1 .. n : Deactivates(d, h) => d < n /\ d \in 1 .. z /\ Deactivates(d, h)'
      /\ \A d \in 1 .. n : Requeues(d, m) => d < n /\ d \in 1 .. z /\ Requeues(d, m)'
      /\ \A p \in Proc : \A d \in 1 .. n : Settles(d, p, m) => d < n /\ d \in 1 .. z /\ Settles(d, p, m)'
  BY <1>1, <1>3, <1>5 DEF Deactivates, Requeues, Settles
<1>9. Dead(h) => Dead(h)'
  BY <1>3, <1>7 DEF Dead, Levels, n, z
<1>10. Free(m) => Free(m)'
  BY <1>3, <1>9 DEF Free, Unheld, Given
<1>11. Created(m)'
  BY <1>3, <1>6 DEF RequestInv, Created, Levels, n
<1>12. ChangeOk(m)'
  <2>1. ~Changes(m)'
    <3>1. z = n \/ (z = n + 1 /\ At(stack', n + 1).op = "deactivate")
      BY <1>1 DEF z, n
    <3> QED
      BY <1>1, <3>1 DEF Changes, z, n
  <2> QED
    BY <2>1 DEF ChangeOk
<1>13. BestOk(m)'
  <2> SUFFICES ASSUME NEW d \in 1 .. z, Matches(d, m)', At(stack', d).best # NoProc
               PROVE  /\ state[m] = "SENT"
                      /\ \A c \in 1 .. z : c < d => ~ (At(stack', c).op = "unread"
                                                        /\ At(stack', c).proc = At(stack', d).best)
    BY <1>3 DEF BestOk, Levels, z, Reading
  <2>1. CASE d < n
    <3>1. d \in 1 .. n /\ Matches(d, m) /\ At(stack', d) = At(stack, d)
      BY <1>4, <1>6, <1>7, <2>1
    <3>2. /\ state[m] = "SENT"
          /\ \A c \in 1 .. n : c < d => ~Reading(c, At(stack, d).best)
      BY <2>1, <3>1 DEF RequestInv, BestOk, Levels, n
    <3> QED
      BY <1>4, <1>6, <2>1, <3>1, <3>2 DEF Reading
  <2>2. CASE d = n
    <3>1. CASE At(stack, n).op = "match" /\ At(stack', n).best = At(stack, n).best
      <4>1. /\ state[m] = "SENT"
            /\ \A c \in 1 .. n : c < n => ~Reading(c, At(stack, n).best)
        BY <1>1, <1>6, <2>2, <3>1 DEF RequestInv, BestOk, Levels, n, Matches
      <4> QED
        BY <1>4, <1>6, <2>2, <3>1, <4>1 DEF Reading
    <3>2. CASE active[At(stack', n).best] /\ state[m] = "SENT"
      <4>1. \A c \in 1 .. n : At(stack, c).op = "unread" => ~active[At(stack, c).proc]
        BY DEF FramesInv, DeadFrames, Cursors, Levels, n
      <4> QED
        BY <1>4, <1>6, <2>2, <3>2, <4>1
    <3> QED
      BY <1>2, <2>2, <3>1, <3>2 DEF n
  <2> QED
    BY <1>7, <2>1, <2>2
<1>14. ReportOk(m)'
  BY <1>3, <1>7 DEF RequestInv, ReportOk, Levels, n, z
<1>15. OneWalk(m)'
  BY <1>3, <1>7 DEF RequestInv, OneWalk, Levels, n, z
<1>16. h # NoProc /\ state[m] \notin Final =>
          /\ ~active[h]
          /\ \A c \in 1 .. n : ~Reading(c, h)
  <2> SUFFICES ASSUME h # NoProc, state[m] \notin Final PROVE ~active[h] /\ \A c \in 1 .. n : ~Reading(c, h)
    OBVIOUS
  <2>1. /\ \A c \in 1 .. n : c < n => ~Reading(c, h)
        /\ \/ ~active[h]
           \/ \E c \in 1 .. n : c > n /\ Deactivates(c, h)
    BY <1>6 DEF RequestInv, Transit, Levels, n
  <2>2. ~Reading(n, h)
    BY <1>1 DEF Reading, n
  <2>3. \A c \in 1 .. n : c < n \/ c = n
    BY <1>6
  <2> QED
    BY <1>6, <1>8, <2>1, <2>2, <2>3
<1>17. h # NoProc /\ state[m] \notin Final => ~active[h] /\ \A c \in 1 .. z : ~Reading(c, h)'
  BY <1>7, <1>16
<1>18. Transit(m)'
  BY <1>3, <1>17 DEF Transit, Levels, z, Dead
<1>19. ReadOk(m)'
  <2> SUFFICES ASSUME NEW p \in Proc, m \in delivered[p]
               PROVE  /\ h = p
                      /\ active[p] \/ \E d \in 1 .. z : At(stack', d).op = "unanswered" /\ At(stack', d).proc = p
                      /\ state[m] \in Final /\ \E d \in 1 .. z : Settles(d, p, m)'
    BY <1>3 DEF ReadOk, Levels, z
  <2>1. /\ h = p
        /\ active[p] \/ \E d \in 1 .. n : At(stack, d).op = "unanswered" /\ At(stack, d).proc = p
        /\ state[m] \in Final /\ \E d \in 1 .. n : Settles(d, p, m)
    BY <1>6 DEF RequestInv, ReadOk, Levels, n
  <2>2. \A d \in 1 .. n : At(stack, d).op = "unanswered" =>
           d \in 1 .. z /\ At(stack', d) = At(stack, d)
    BY <1>1, <1>5 DEF n
  <2> QED
    BY <1>8, <2>1, <2>2
<1>20. UnreadOk(m)'
  <2> SUFFICES ASSUME h # NoProc, Has(undelivered[h], m), state[m] \notin Final
               PROVE  /\ ~Given(m)' /\ ~active[h] /\ \A e \in 1 .. z : ~Reading(e, h)'
    BY <1>3 DEF UnreadOk, Levels, z
  <2>1. ~Given(m)
    BY DEF RequestInv, UnreadOk
  <2> QED
    BY <1>3, <1>17, <2>1 DEF Given
<1>21. QueuedOk(m)'
  <2>1. state'[m] = "QUEUED" => Free(m)'
    BY <1>3, <1>10 DEF RequestInv, QueuedOk
  <2>2. (\E d \in 1 .. n : Requeues(d, m)) <=> (\E d \in 1 .. z : Requeues(d, m)')
    BY <1>7, <1>8
  <2>3. \A d \in 1 .. z : Requeues(d, m)' => state'[m] # "QUEUED"
    BY <1>3, <1>7 DEF RequestInv, QueuedOk, Levels, n
  <2>4. \A d \in 1 .. z : At(stack', d).op = "redeliver" => d \in 1 .. n /\ At(stack', d) = At(stack, d)
    BY <1>1, <1>4 DEF n
  <2>5. \A d \in 1 .. z : At(stack', d).op = "redeliver" /\ m \in At(stack', d).todo => state'[m] = "QUEUED"
    BY <1>3, <2>4 DEF RequestInv, QueuedOk, Levels, n
  <2>6. /\ m \in queued <=> (state[m] = "QUEUED" \/ \E d \in 1 .. n : Requeues(d, m))
        /\ m \in queued => "QUEUED" \in reported[m] /\ m \in Queueable
    BY DEF RequestInv, QueuedOk, Levels, n
  <2>7. /\ m \in queued' <=> (state'[m] = "QUEUED" \/ \E d \in 1 .. z : Requeues(d, m)')
        /\ m \in queued' => "QUEUED" \in reported'[m] /\ m \in Queueable
    BY <1>3, <2>2, <2>6
  <2> QED
    BY <2>1, <2>3, <2>5, <2>7 DEF QueuedOk, Levels, z
<1>23. Over(m) => Over(m)'
  BY <1>3, <1>6, <1>10 DEF Over, Levels, n
<1>22. RequeueOk(m)'
  <2> SUFFICES ASSUME NEW d \in 1 .. z, Requeues(d, m)'
               PROVE  /\ d # z
                      /\ \/ Walks(d + 1, m)'
                         \/ At(stack', d + 1).op = "return" /\ (At(stack', d + 1).val \/ Over(m)')
    BY DEF RequeueOk, Levels, z
  <2>1. d < n /\ d \in 1 .. n /\ Requeues(d, m)
    BY <1>7
  <2>2. \/ Walks(d + 1, m)
        \/ At(stack, d + 1).op = "return" /\ (At(stack, d + 1).val \/ Over(m))
    BY <2>1 DEF RequeueOk, RequestInv, Levels, n
  <2>3. d # z
    BY <1>6, <2>1
  <2>4. CASE d + 1 < n
    <3>1. At(stack', d + 1) = At(stack, d + 1)
      BY <1>1, <2>1, <2>4 DEF n
    <3> QED
      BY <1>23, <2>2, <2>3, <3>1 DEF Walks
  <2>5. CASE d + 1 = n
    BY <1>1, <2>3, <2>5 DEF Walks, n
  <2> QED
    BY <1>6, <2>1, <2>4, <2>5
<1> QED
  BY <1>11, <1>12, <1>13, <1>14, <1>15, <1>18, <1>19, <1>20, <1>21, <1>22 DEF RequestInv

\* Seeking a handler keeps the invariant.
LEMMA WalkInv ==
    ASSUME TypeOK, BaseInv, NEW m \in Msg, Walk(m)
    PROVE  BaseInv'
<1> DEFINE n == Len(stack)
<1>1. /\ n \in Nat \ {0} /\ Len(stack') \in {n, n + 1} /\ Lower(n - 1)
      /\ At(stack', n).op = "match"
      /\ Len(stack') = n + 1 => /\ At(stack', n + 1).op = "deactivate"
                                /\ At(stack', n + 1).proc \in Proc
                                /\ Unreachable(At(stack', n + 1).proc)
  BY DEF Walk, Fails
<1>2. Calls(n - 1)
  BY <1>1 DEF Calls
<1>3. \A d \in Added(n - 1) : \/ At(stack', d).op = "match"
                              \/ /\ At(stack', d).op = "deactivate"
                                 /\ At(stack', d).proc \in Proc
                                 /\ Unreachable(At(stack', d).proc)
  <2>1. \A d \in n .. Len(stack') : d = n \/ (d = n + 1 /\ Len(stack') = n + 1)
    BY <1>1
  <2> QED
    BY <1>1, <2>1 DEF Added
<1> HIDE DEF n
<1>4. FramesInv'
  <2>1. Plain(n - 1)
    BY <1>3 DEF Plain, Cursors
  <2> QED
    BY <1>2, <2>1, FramesStep DEF BaseInv, Walk
<1>5. ListsInv'
  BY <1>2, <1>3, ListsStep DEF BaseInv, Walk
<1>6. CallsInv'
  BY <1>2, <1>3, CallsStep DEF BaseInv, Walk
<1>7. ASSUME NEW x \in Msg PROVE RequestInv(x)' /\ Sending(x)'
  <2>1. handler[x] \in Proc \cup {NoProc}
    BY DEF TypeOK
  <2>2. Sending(x)'
    BY SendingStep DEF BaseInv, Walk, Served
  <2>3. CASE x = m
    BY <2>1, <2>2, <2>3, WalkSame DEF BaseInv
  <2>4. CASE x # m
    <3>1. Aside(x, n - 1)
      BY <2>4, WalkOthers DEF n
    <3> QED
      BY <2>1, <2>2, <3>1, AsideStep DEF BaseInv
  <2> QED
    BY <2>3, <2>4
<1> QED
  BY <1>4, <1>5, <1>6, <1>7 DEF BaseInv

-----------------------------------------------------------------------------
(* The request is given to the handler that was found. *)

Gave(m, b) ==
    LET n == Len(stack)
        z == Len(stack')
        g == At(stack', n)
    IN /\ heap = "intact" /\ n \in Nat \ {0} /\ b \in Proc
       /\ Matches(n, m) /\ At(stack, n).best = b
       /\ Lower(n - 1) /\ Fails(n)
       /\ \/ g.op = "return" /\ g.val /\ z = n
          \/ g.op = "deliver" /\ g.msg = m /\ z = n /\ ~active[b]
          \/ g.op = "deliver" /\ g.msg = m /\ z = n + 1 /\ At(stack', n + 1).proc = b
       /\ Served /\ ListsStay
       /\ \A p \in Proc, x \in Msg : Has(undelivered'[p], x) => Has(undelivered[p], x) \/ (p = b /\ x = m)
       /\ state' = [state EXCEPT ![m] = "SENT"]
       /\ handler' = [handler EXCEPT ![m] = b]
       /\ UNCHANGED <<active, channel, delivered, reported, queued, ret>>

\* What giving a request to a handler does.
LEMMA GiveToHandlerGives ==
    ASSUME TypeOK, ListsInv, GiveToHandler, heap' = "intact"
    PROVE  \E m \in Msg, b \in Proc : Gave(m, b)
<1> DEFINE f == Head(stack)
           m == f.msg
           b == f.best
           r == <<Return(TRUE)>> \o Tail(stack)
           t == <<Deliver(m, FALSE)>> \o Tail(stack)
<1>0. Running("match") /\ stack # << >>
  BY DEF GiveToHandler, MatchEnded, Running
<1>1. /\ Len(stack) \in Nat \ {0} /\ At(stack, Len(stack)) = f
      /\ f.op = "match" /\ f \in Frame /\ Tail(stack) \in Seq(Frame) /\ heap = "intact"
  BY <1>0, TopAt
<1>2. m \in Msg /\ b \in Proc
  BY <1>1, FramesRead DEF GiveToHandler
<1>3. AddMessage(b, Live(m), r, t)
  BY DEF GiveToHandler
<1>4. /\ state' = [state EXCEPT ![m] = "SENT"]
      /\ handler' = [handler EXCEPT ![m] = b]
      /\ UNCHANGED <<alive, plan, rpc, active, channel, delivered, reported, queued, ret>>
  BY DEF GiveToHandler, clientVars
<1>5. Live(m) \in Entry /\ \A x \in Msg : Live(m) = Live(x) => x = m
  BY <1>2 DEF Entry, Live
<1>6. /\ Return(TRUE) \in Frame /\ Return(TRUE).op = "return" /\ Return(TRUE).val
      /\ Deliver(m, FALSE) \in Frame /\ Deliver(m, FALSE).op = "deliver" /\ Deliver(m, FALSE).msg = m
      /\ Deactivate(b) \in Frame /\ Deactivate(b).op = "deactivate" /\ Deactivate(b).proc = b
  BY <1>2, FramesMade DEF Return, Deliver, Deactivate
<1> HIDE DEF f, m, b, r, t
<1>7. ListsStay
  BY <1>2, <1>3, <1>5, AddMessageLists
<1>8. \A q \in Proc, x \in Msg : Has(undelivered'[q], x) <=>
                 Has(undelivered[q], x) \/ (q = b /\ Live(m) = Live(x) /\ ~Gone(b))
  BY <1>2, <1>3, <1>5, AddMessageLists
<1>9. \A q \in Proc : signalled[q] => signalled'[q]
  BY <1>2, <1>3, <1>5, AddMessageLists
<1>10. \/ stack' = r /\ ~Gone(b)
       \/ stack' = t /\ Gone(b)
       \/ stack' = <<Deactivate(b)>> \o t /\ ~Gone(b) /\ Unreachable(b)
  BY <1>2, <1>3, <1>5, AddMessageLists
<1>11. Lower(Len(stack) - 1) /\ Fails(Len(stack))
       /\ \/ /\ At(stack', Len(stack)).op = "return" /\ At(stack', Len(stack)).val
             /\ Len(stack') = Len(stack)
          \/ /\ At(stack', Len(stack)).op = "deliver" /\ At(stack', Len(stack)).msg = m
             /\ Len(stack') = Len(stack) /\ ~active[b]
          \/ /\ At(stack', Len(stack)).op = "deliver" /\ At(stack', Len(stack)).msg = m
             /\ Len(stack') = Len(stack) + 1 /\ At(stack', Len(stack) + 1).proc = b
  <2>1. CASE stack' = r
    <3>1. Len(stack') = Len(stack) /\ At(stack', Len(stack)) = Return(TRUE) /\ Lower(Len(stack) - 1)
      BY <1>0, <1>6, <2>1, Instead DEF r
    <3>2. Fails(Len(stack))
      BY <1>1, <3>1 DEF Fails
    <3>3. At(stack', Len(stack)).op = "return" /\ At(stack', Len(stack)).val
      BY <1>6, <3>1, Zenon
    <3> QED
      BY <3>1, <3>2, <3>3
  <2>2. CASE stack' = t /\ Gone(b)
    <3>1. Len(stack') = Len(stack) /\ At(stack', Len(stack)) = Deliver(m, FALSE) /\ Lower(Len(stack) - 1)
      BY <1>0, <1>6, <2>2, Instead DEF t
    <3>2. ~active[b]
      BY <2>2 DEF Gone
    <3>3. Fails(Len(stack))
      BY <1>1, <3>1 DEF Fails
    <3>4. At(stack', Len(stack)).op = "deliver" /\ At(stack', Len(stack)).msg = m
      BY <1>6, <3>1, Zenon
    <3> QED
      BY <3>1, <3>2, <3>3, <3>4
  <2>3. CASE stack' = <<Deactivate(b)>> \o t /\ Unreachable(b)
    <3>1. stack' = <<Deactivate(b), Deliver(m, FALSE)>> \o Tail(stack)
      BY <1>1, <1>6, <2>3, PushPush DEF t
    <3>2. /\ Len(stack') = Len(stack) + 1 /\ At(stack', Len(stack)) = Deliver(m, FALSE)
          /\ At(stack', Len(stack) + 1) = Deactivate(b) /\ Lower(Len(stack) - 1)
      BY <1>0, <1>6, <3>1, Instead
    <3> QED
      BY <1>1, <1>2, <1>6, <2>3, <3>2 DEF Fails
  <2> QED
    BY <1>10, <2>1, <2>2, <2>3
<1>12. Matches(Len(stack), m) /\ At(stack, Len(stack)).best = b
  BY <1>1 DEF Matches, m, b
<1>13. Served
  BY <1>4, <1>9 DEF Served
<1>14. \A p \in Proc, x \in Msg : Has(undelivered'[p], x) => Has(undelivered[p], x) \/ (p = b /\ x = m)
  BY <1>5, <1>8
<1>15. Gave(m, b)
  BY <1>1, <1>2, <1>4, <1>7, <1>11, <1>12, <1>13, <1>14 DEF Gave
<1> QED
  BY <1>2, <1>15

\* The requests other than the one that is given.
LEMMA GaveOthers ==
    ASSUME TypeOK, NEW m \in Msg, NEW b \in Proc, Gave(m, b), NEW x \in Msg, x # m
    PROVE  Aside(x, Len(stack) - 1)
<1> DEFINE n == Len(stack)
           z == Len(stack')
<1>1. /\ n \in Nat \ {0} /\ z \in {n, n + 1} /\ Lower(n - 1)
      /\ At(stack, n).op = "match" /\ At(stack, n).msg = m
      /\ \/ At(stack', n).op = "return"
         \/ At(stack', n).op = "deliver" /\ At(stack', n).msg = m
      /\ z = n + 1 => At(stack', n + 1).op = "deactivate"
  BY DEF Gave, Fails, Matches
<1>2. Calls(n - 1)
  BY <1>1 DEF Calls
<1>3. Passed(x, n - 1)
  BY <1>1 DEF Passed, Walks, Requeues, Settles
<1>4. Elsewhere(x, n - 1)
  <2>1. \A d \in n .. z : d = n \/ (d = n + 1 /\ z = n + 1)
    BY <1>1
  <2> QED
    BY <1>1, <2>1 DEF Elsewhere, Added
<1>5. state'[x] = state[x] /\ handler'[x] = handler[x]
  BY DEF Gave, TypeOK
<1>9. \A d \in Added(n - 1) : At(stack', d).op # "change"
  <2>1. \A d \in n .. z : d = n \/ (d = n + 1 /\ z = n + 1)
    BY <1>1
  <2> QED
    BY <1>1, <2>1 DEF Added
<1> QED
  BY <1>9, <1>2, <1>3, <1>4, <1>5 DEF Aside, Near, Gave

\* The request that is given.
LEMMA GaveSame ==
    ASSUME TypeOK, NEW m \in Msg, RequestInv(m), NEW b \in Proc, Gave(m, b)
    PROVE  RequestInv(m)'
<1> DEFINE n == Len(stack)
           z == Len(stack')
<1>1. /\ n \in Nat \ {0} /\ z \in {n, n + 1}
      /\ \A d \in 1 .. n - 1 : At(stack', d) = At(stack, d)
      /\ Matches(n, m) /\ At(stack, n).best = b
      /\ z = n + 1 => At(stack', n + 1).op = "deactivate"
      /\ \/ At(stack', n).op = "return" /\ At(stack', n).val /\ z = n
         \/ At(stack', n).op = "deliver" /\ At(stack', n).msg = m /\ z = n /\ ~active[b]
         \/ At(stack', n).op = "deliver" /\ At(stack', n).msg = m /\ z = n + 1 /\ At(stack', n + 1).proc = b
  BY DEF Gave, Fails, Lower
<1>2. /\ active' = active /\ reported' = reported /\ queued' = queued /\ delivered' = delivered
      /\ state'[m] = "SENT" /\ handler'[m] = b /\ b # NoProc
  BY SessionAssumption DEF Gave, TypeOK
<1>3. /\ \A d \in 1 .. z : \/ d < n /\ d \in 1 .. n /\ At(stack', d) = At(stack, d)
                           \/ d = n
                           \/ d = n + 1 /\ At(stack', d).op = "deactivate"
      /\ \A d \in 1 .. n : \/ d < n /\ d \in 1 .. z /\ At(stack', d) = At(stack, d)
                           \/ d = n
      /\ n \in 1 .. n /\ n \in 1 .. z /\ z \in Nat
  BY <1>1
<1>4. Walks(n, m)
  BY <1>1 DEF Walks, Matches
<1> HIDE DEF n, z
<1>5. state[m] = "SENT" /\ \A c \in 1 .. n : c < n => ~Reading(c, b)
  BY <1>1, <1>2, <1>3 DEF RequestInv, BestOk, Levels, n
<1>6. \A d \in 1 .. n : d < n => ~Walks(d, m) /\ ~Matches(d, m) /\ ~Reports(d, m)
  <2>1. state[m] \notin Final /\ state[m] # "QUEUED"
    BY <1>5 DEF Final
  <2>2. \A d \in 1 .. n : Walks(d, m) => d = n
    BY <1>3, <1>4, <2>1 DEF RequestInv, OneWalk, Levels, n
  <2>3. \A d \in 1 .. n : ~Reports(d, m)
    BY <2>1 DEF RequestInv, ReportOk, Levels, n
  <2>4. \A d \in 1 .. n : Matches(d, m) => Walks(d, m)
    BY DEF Matches, Walks
  <2> QED
    BY <1>3, <2>2, <2>3, <2>4
<1>7. ~Given(m) /\ ~Given(m)'
  <2>1. \A p \in Proc : m \in delivered[p] => FALSE
    BY <1>3, <1>4, <1>5 DEF RequestInv, ReadOk, Levels, n, Final
  <2> QED
    BY <1>2, <2>1 DEF Given
<1>8. /\ \A d \in 1 .. z : Walks(d, m)' => d = n /\ At(stack', n).op = "deliver"
      /\ \A d \in 1 .. z : ~Matches(d, m)'
      /\ \A d \in 1 .. z : ~Reports(d, m)'
      /\ \A d \in 1 .. z : Requeues(d, m)' => d < n /\ d \in 1 .. n /\ Requeues(d, m)
      /\ \A d \in 1 .. z : ~Reading(d, b)'
  BY <1>1, <1>2, <1>3, <1>5, <1>6 DEF Walks, Matches, Reports, Requeues, Reading
<1>9. \A d \in 1 .. n : Requeues(d, m) => d < n /\ d \in 1 .. z /\ Requeues(d, m)'
  BY <1>1, <1>3 DEF Matches, Requeues
<1>10. At(stack', n).op = "deliver" => ~active[b] \/ \E c \in 1 .. z : c > n /\ Deactivates(c, b)'
  <2> SUFFICES ASSUME At(stack', n).op = "deliver", active[b]
               PROVE  \E c \in 1 .. z : c > n /\ Deactivates(c, b)'
    OBVIOUS
  <2>1. /\ z = n + 1 /\ At(stack', z).op = "deactivate" /\ At(stack', z).proc = b
    BY <1>1
  <2>2. z \in 1 .. z /\ z > n
    BY <1>1, <1>3, <2>1
  <2>3. \A c : c = z => Deactivates(c, b)'
    BY <2>1 DEF Deactivates
  <2> QED
    BY <2>2, <2>3
<1>11. Created(m)' /\ OneWalk(m)' /\ ReportOk(m)' /\ BestOk(m)'
  BY <1>2, <1>8 DEF Created, OneWalk, ReportOk, BestOk, Levels, z
<1>12. ChangeOk(m)'
  <2>1. ~Changes(m)'
    BY <1>1, <1>3 DEF Changes, z
  <2> QED
    BY <2>1 DEF ChangeOk
<1>13. Transit(m)'
  <2> SUFFICES ASSUME NEW d \in 1 .. z, Walks(d, m)'
               PROVE  /\ \A c \in 1 .. z : ~Reading(c, b)'
                      /\ At(stack', d).op # "match"
                      /\ ~active[b] \/ \E c \in 1 .. z : c > d /\ Deactivates(c, b)'
    BY <1>2 DEF Transit, Levels, z, Reading, Deactivates
  <2>1. d = n /\ At(stack', n).op = "deliver"
    BY <1>8
  <2>2. \A c \in 1 .. z : ~Reading(c, b)'
    BY <1>8
  <2>3. ~active[b] \/ \E c \in 1 .. z : c > d /\ Deactivates(c, b)'
    BY <1>10, <2>1
  <2> QED
    BY <2>1, <2>2, <2>3
<1>14. ReadOk(m)'
  BY <1>7 DEF ReadOk, Given
<1>15. UnreadOk(m)'
  <2> SUFFICES /\ ~Given(m)'
               /\ active[b] => \A d \in 1 .. z : Walks(d, m)' =>
                    At(stack', d).op = "deliver" /\ \E c \in 1 .. z : c > d /\ Deactivates(c, b)'
               /\ \A e \in 1 .. z : ~Reading(e, b)'
    BY <1>2 DEF UnreadOk, Levels, z, Reading, Deactivates
  <2>1. ASSUME active[b], NEW d \in 1 .. z, Walks(d, m)'
        PROVE  At(stack', d).op = "deliver" /\ \E c \in 1 .. z : c > d /\ Deactivates(c, b)'
    <3>1. d = n /\ At(stack', n).op = "deliver"
      BY <1>8, <2>1
    <3> QED
      BY <1>10, <2>1, <3>1
  <2>2. \A e \in 1 .. z : ~Reading(e, b)'
    BY <1>8
  <2> QED
    BY <1>7, <2>1, <2>2
<1>16. QueuedOk(m)'
  <2>1. \A d \in 1 .. z : At(stack', d).op = "redeliver" => d \in 1 .. n /\ At(stack', d) = At(stack, d)
    BY <1>1, <1>3
  <2>2. \A d \in 1 .. z : At(stack', d).op = "redeliver" => m \notin At(stack', d).todo
    BY <1>5, <2>1 DEF RequestInv, QueuedOk, Levels, n
  <2>3. /\ m \in queued <=> \E d \in 1 .. n : Requeues(d, m)
        /\ m \in queued => "QUEUED" \in reported[m] /\ m \in Queueable
    BY <1>5 DEF RequestInv, QueuedOk, Levels, n
  <2>4. m \in queued' <=> \E d \in 1 .. z : Requeues(d, m)'
    BY <1>2, <1>8, <1>9, <2>3
  <2> QED
    BY <1>2, <2>2, <2>3, <2>4 DEF QueuedOk, Levels, z
<1>17. RequeueOk(m)'
  <2> SUFFICES ASSUME NEW d \in 1 .. z, Requeues(d, m)'
               PROVE  /\ d # z
                      /\ \/ Walks(d + 1, m)'
                         \/ At(stack', d + 1).op = "return" /\ At(stack', d + 1).val
    BY DEF RequeueOk, Levels, z
  <2>1. d < n /\ d \in 1 .. n /\ Requeues(d, m)
    BY <1>8
  <2>2. \/ Walks(d + 1, m)
        \/ At(stack, d + 1).op = "return" /\ (At(stack, d + 1).val \/ Over(m))
    BY <1>3, <2>1 DEF RequeueOk, RequestInv, Levels, n
  <2>3. d # z
    BY <1>3, <2>1
  <2>4. ~Over(m)
    BY <1>3, <1>4, <1>5 DEF Over, Levels, n, Final
  <2>5. CASE d + 1 < n
    <3>1. d + 1 \in 1 .. n /\ At(stack', d + 1) = At(stack, d + 1)
      BY <1>1, <1>3, <2>1, <2>5
    <3> QED
      BY <1>6, <2>2, <2>3, <2>4, <2>5, <3>1
  <2>6. CASE d + 1 = n
    BY <1>1, <2>3, <2>6 DEF Walks
  <2> QED
    BY <1>3, <2>1, <2>5, <2>6
<1> QED
  BY <1>11, <1>12, <1>13, <1>14, <1>15, <1>16, <1>17 DEF RequestInv

\* A step that adds no cursor and no frame of the queue.
LEMMA PlainStep ==
    ASSUME TypeOK, BaseInv, NEW k, Calls(k), Plain(k), UNCHANGED <<active, channel>>,
           Served, ListsStay,
           \A d \in Added(k) : At(stack', d).op = "deactivate" =>
                At(stack', d).proc \in Proc /\ Unreachable(At(stack', d).proc),
           \A x \in Msg : state[x] = "CREATED" => state'[x] = "CREATED",
           \A x \in Msg : RequestInv(x)'
    PROVE  BaseInv'
<1>1. FramesInv'
  BY FramesStep DEF BaseInv
<1>2. ListsInv'
  BY ListsStep DEF BaseInv, Plain, Cursors
<1>3. CallsInv'
  BY CallsStep DEF BaseInv
<1>4. \A x \in Msg : Sending(x)'
  BY SendingStep DEF BaseInv, Served
<1> QED
  BY <1>1, <1>2, <1>3, <1>4 DEF BaseInv

\* What a step that leaves m alone may do outside the stack.
Same(m) ==
    /\ state'[m] = state[m] /\ handler'[m] = handler[m] /\ reported'[m] = reported[m]
    /\ m \in queued' <=> m \in queued
    /\ \A p \in Proc : m \in delivered'[p] => m \in delivered[p]
    /\ \A p \in Proc : Has(undelivered'[p], m) =>
          Has(undelivered[p], m) \/ state[m] \in Final \/ state[m] = "QUEUED"

\* The frame that runs returns, or a signal that it sends fails.
LEMMA PopStep ==
    ASSUME TypeOK, BaseInv, stack # << >>, Lower(Len(stack) - 1), Fails(Len(stack) - 1),
           UNCHANGED <<active, channel>>, Served, ListsStay,
           \A x \in Msg : Passed(x, Len(stack) - 1) /\ Same(x)
    PROVE  BaseInv'
<1> DEFINE n == Len(stack)
<1>1. n \in Nat \ {0}
  BY TopFrame DEF TypeOK
<1>2. /\ Len(stack') \in {n - 1, n} /\ Lower(n - 1)
      /\ Len(stack') = n => /\ At(stack', n).op = "deactivate"
                            /\ At(stack', n).proc \in Proc
                            /\ Unreachable(At(stack', n).proc)
  BY <1>1 DEF Fails
<1>3. Calls(n - 1)
  BY <1>1, <1>2 DEF Calls
<1>4. \A d \in Added(n - 1) : /\ At(stack', d).op = "deactivate"
                              /\ At(stack', d).proc \in Proc
                              /\ Unreachable(At(stack', d).proc)
  <2>1. \A d \in n .. Len(stack') : d = n /\ Len(stack') = n
    BY <1>1, <1>2
  <2> QED
    BY <1>1, <1>2, <2>1 DEF Added
<1> HIDE DEF n
<1>5. Plain(n - 1)
  BY <1>4 DEF Plain, Cursors
<1>6. ASSUME NEW x \in Msg PROVE RequestInv(x)'
  <2>1. Elsewhere(x, n - 1)
    BY <1>4 DEF Elsewhere
  <2>2. Passed(x, n - 1) /\ Same(x)
    BY DEF n
  <2>3. Near(x, n - 1)
    BY <1>3, <2>1, <2>2 DEF Near, Same
  <2>4. Aside(x, n - 1)
    BY <1>4, <2>3 DEF Aside
  <2>5. handler[x] \in Proc \cup {NoProc}
    BY DEF TypeOK
  <2> QED
    BY <2>4, <2>5, AsideStep DEF BaseInv
<1>7. \A x \in Msg : state[x] = "CREATED" => state'[x] = "CREATED"
  BY DEF Same
<1> QED
  BY <1>3, <1>4, <1>5, <1>6, <1>7, PlainStep

\* Giving a request to a handler keeps the invariant.
LEMMA GaveInv ==
    ASSUME TypeOK, BaseInv, NEW m \in Msg, NEW b \in Proc, Gave(m, b)
    PROVE  BaseInv'
<1> DEFINE n == Len(stack)
<1>1. /\ n \in Nat \ {0} /\ Len(stack') \in {n, n + 1} /\ Lower(n - 1)
      /\ At(stack', n).op \in {"return", "deliver"}
      /\ Len(stack') = n + 1 => /\ At(stack', n + 1).op = "deactivate"
                                /\ At(stack', n + 1).proc \in Proc
                                /\ Unreachable(At(stack', n + 1).proc)
  BY DEF Gave, Fails
<1>2. Calls(n - 1)
  BY <1>1 DEF Calls
<1>3. \A d \in Added(n - 1) : \/ At(stack', d).op \in {"return", "deliver"}
                              \/ /\ At(stack', d).op = "deactivate"
                                 /\ At(stack', d).proc \in Proc
                                 /\ Unreachable(At(stack', d).proc)
  <2>1. \A d \in n .. Len(stack') : d = n \/ (d = n + 1 /\ Len(stack') = n + 1)
    BY <1>1
  <2> QED
    BY <1>1, <2>1 DEF Added
<1> HIDE DEF n
<1>4. Plain(n - 1)
  BY <1>3 DEF Plain, Cursors
<1>5. ASSUME NEW x \in Msg PROVE RequestInv(x)'
  <2>1. handler[x] \in Proc \cup {NoProc}
    BY DEF TypeOK
  <2>2. CASE x = m
    BY <2>2, GaveSame DEF BaseInv
  <2>3. CASE x # m
    <3>1. Aside(x, n - 1)
      BY <2>3, GaveOthers DEF n
    <3> QED
      BY <2>1, <3>1, AsideStep DEF BaseInv
  <2> QED
    BY <2>2, <2>3
<1>6. ASSUME NEW x \in Msg, state[x] = "CREATED" PROVE state'[x] = "CREATED"
  <2>1. CASE x # m
    BY <1>6, <2>1 DEF Gave, TypeOK
  <2>2. CASE x = m
    <3>1. n \in 1 .. n /\ Walks(n, m)
      BY <1>1 DEF Gave, Matches, Walks, n
    <3> QED
      BY <1>6, <2>2, <3>1 DEF BaseInv, RequestInv, Created, Levels, n
  <2> QED
    BY <2>1, <2>2
<1> QED
  BY <1>2, <1>3, <1>4, <1>5, <1>6, PlainStep DEF Gave

(* The frames that return. *)

\* Nothing but the stack and the tables is touched.
Quiet == UNCHANGED <<alive, plan, rpc, active, channel, signalled, undelivered, delivered,
                     state, handler, reported, queued>>

\* A step that changes the stack only concerns no request.
LEMMA QuietSame ==
    ASSUME TypeOK, ListsInv, Quiet
    PROVE  Served /\ ListsStay /\ \A x \in Msg : Same(x)
<1>1. Served
  BY DEF Quiet, Served
<1>2. ListsStay
  BY UndeliveredStay DEF Quiet
<1>3. \A x \in Msg : Same(x)
  BY DEF Quiet, Same
<1> QED
  BY <1>1, <1>2, <1>3

\* A frame returns, and nothing else changes.
LEMMA QuietPop ==
    ASSUME TypeOK, BaseInv, NEW op, Running(op), stack' = Tail(stack), Quiet,
           op \in {"return", "change", "forget", "deactivate", "unread", "unanswered", "redeliver"},
           op = "return" => ret' = Head(stack).val,
           op = "deactivate" => ~active[Head(stack).proc],
           op = "unanswered" => delivered[Head(stack).proc] = {}
    PROVE  BaseInv'
<1> DEFINE n == Len(stack)
<1>1. stack # << >> /\ n \in Nat \ {0} /\ At(stack, n) = Head(stack) /\ At(stack, n).op = op
  BY TopAt DEF Running
<1>2. Len(stack') = n - 1 /\ Lower(n - 1)
  BY <1>1, Returned
<1> HIDE DEF n
<1>3. Fails(n - 1)
  BY <1>1, <1>2 DEF Fails
<1>4. Served /\ ListsStay /\ \A x \in Msg : Same(x)
  BY QuietSame DEF BaseInv
<1>5. ASSUME NEW x \in Msg PROVE Passed(x, n - 1)
  <2>1. ~Walks(n, x) /\ ~Requeues(n, x) /\ \A p \in Proc : ~Settles(n, p, x)
    BY <1>1 DEF Walks, Requeues, Settles
  <2>2. op = "unanswered" => x \notin delivered'[At(stack, n).proc]
    BY <1>1 DEF Quiet
  <2>3. n - 1 # n
    BY <1>1
  <2>4. op = "deactivate" => ~active[At(stack, n).proc]
    BY <1>1
  <2>5. op = "return" => ret' = At(stack, n).val
    BY <1>1
  <2> QED
    BY <1>1, <1>2, <2>1, <2>2, <2>3, <2>4, <2>5 DEF Passed, n
<1>6. UNCHANGED <<active, channel>>
  BY DEF Quiet
<1> QED
  BY <1>1, <1>2, <1>3, <1>4, <1>5, <1>6, PopStep DEF n

\* The result of deliver is returned.
LEMMA RunReturnInv == ASSUME TypeOK, BaseInv, RunReturn PROVE BaseInv'
<1>1. Quiet
  BY DEF RunReturn, Quiet, clientVars, procVars, msgVars
<1>2. Running("return") /\ stack' = Tail(stack) /\ ret' = Head(stack).val
  BY DEF RunReturn
<1> QED
  BY <1>1, <1>2, QuietPop

\* A state gone through before is not entered again.
LEMMA ChangeRepeatedInv == ASSUME TypeOK, BaseInv, ChangeRepeated PROVE BaseInv'
<1>1. Quiet
  BY DEF ChangeRepeated, Quiet, clientVars, procVars, msgVars
<1>2. Running("change") /\ stack' = Tail(stack)
  BY DEF ChangeRepeated
<1> QED
  BY <1>1, <1>2, QuietPop

\* The patterns of a procid are deleted.
LEMMA RunForgetInv == ASSUME TypeOK, BaseInv, RunForget PROVE BaseInv'
<1>1. Quiet
  BY DEF RunForget, Quiet, clientVars, procVars, msgVars
<1>2. Running("forget") /\ stack' = Tail(stack)
  BY DEF RunForget
<1> QED
  BY <1>1, <1>2, QuietPop

\* The sender of a request is in Proc, and an ended or queued one is reported.
LEMMA RunReportInv == ASSUME TypeOK, BaseInv, RunReport, heap' = "intact" PROVE BaseInv'
<1> DEFINE n == Len(stack)
           m == Head(stack).msg
           p == Sender[m]
           t == Tail(stack)
<1>1. /\ stack # << >> /\ n \in Nat \ {0} /\ At(stack, n) = Head(stack) /\ Head(stack).op = "report"
      /\ Head(stack) \in Frame /\ t \in Seq(Frame)
  BY TopAt DEF RunReport, Running
<1>2. m \in Msg /\ p \in Proc
  BY <1>1, FramesRead, SessionAssumption
<1>3. AddMessage(p, Live(m), t, t)
  BY DEF RunReport
<1>4. /\ UNCHANGED <<alive, plan, rpc, active, channel, delivered, state, handler, reported, queued, ret>>
  BY DEF RunReport, clientVars, msgVars
<1>5. Live(m) \in Entry /\ \A x \in Msg : Live(m) = Live(x) => x = m
  BY <1>2 DEF Entry, Live
<1>6. Deactivate(p) \in Frame /\ Deactivate(p).op = "deactivate" /\ Deactivate(p).proc = p
  BY <1>2, FramesMade DEF Deactivate
<1> HIDE DEF n, m, p, t
<1>7. ListsStay
  BY <1>2, <1>3, <1>5, AddMessageLists DEF BaseInv
<1>8. \A q \in Proc, x \in Msg : Has(undelivered'[q], x) <=>
                 Has(undelivered[q], x) \/ (q = p /\ Live(m) = Live(x) /\ ~Gone(p))
  BY <1>2, <1>3, <1>5, AddMessageLists DEF BaseInv
<1>9. \A q \in Proc : signalled[q] => signalled'[q]
  BY <1>2, <1>3, <1>5, AddMessageLists DEF BaseInv
<1>10. stack' = t \/ (stack' = <<Deactivate(p)>> \o t /\ Unreachable(p))
  BY <1>2, <1>3, <1>5, AddMessageLists DEF BaseInv
<1>11. Lower(n - 1) /\ Fails(n - 1)
  <2>1. CASE stack' = t
    <3>1. Len(stack') = n - 1 /\ Lower(n - 1)
      BY <1>1, <2>1, Returned DEF n, t
    <3> QED
      BY <1>1, <3>1 DEF Fails
  <2>2. CASE stack' = <<Deactivate(p)>> \o t /\ Unreachable(p)
    <3>1. Len(stack') = n /\ At(stack', n) = Deactivate(p) /\ Lower(n - 1)
      BY <1>1, <1>6, <2>2, Instead DEF n, t
    <3>2. n - 1 + 1 = n
      BY <1>1
    <3> QED
      BY <1>1, <1>2, <1>6, <2>2, <3>1, <3>2 DEF Fails
  <2> QED
    BY <1>10, <2>1, <2>2
<1>12. state[m] \in Final \/ state[m] = "QUEUED"
  <2>1. n \in 1 .. n /\ Reports(n, m)
    BY <1>1 DEF Reports, m
  <2> QED
    BY <1>2, <2>1 DEF BaseInv, RequestInv, ReportOk, Levels, n
<1>13. \A x \in Msg : Same(x)
  BY <1>4, <1>5, <1>8, <1>12 DEF Same
<1>14. \A x \in Msg : Passed(x, n - 1)
  BY <1>1 DEF Passed, Walks, Requeues, Settles, n
<1>15. Served
  BY <1>4, <1>9 DEF Served
<1> QED
  BY <1>1, <1>4, <1>7, <1>11, <1>13, <1>14, <1>15, PopStep DEF n

\* The cursor removes the head of the list, where it stands.
LEMMA RunOrphanedInv == ASSUME TypeOK, BaseInv, RunOrphaned PROVE BaseInv'
<1> DEFINE n == Len(stack)
           p == Head(stack).proc
           m == Head(stack).msg
           r == Head(stack).wasRead
           u == undelivered[p]
<1>1. /\ stack # << >> /\ n \in Nat \ {0} /\ At(stack, n) = Head(stack) /\ Head(stack).op = "orphaned"
      /\ Head(stack) \in Frame
  BY TopAt DEF RunOrphaned, Running
<1>2. m \in Msg /\ p \in Proc /\ r \in BOOLEAN
  BY <1>1, FramesRead
<1>3. /\ UNCHANGED <<alive, plan, rpc, active, channel, signalled, state, handler, reported, queued, ret>>
      /\ stack' = Tail(stack)
      /\ delivered' = IF r THEN Settle(p, m) ELSE delivered
      /\ undelivered' = IF r THEN undelivered ELSE [undelivered EXCEPT ![p] = SubSeq(@, 2, Len(@))]
  BY DEF RunOrphaned, clientVars
<1>4. Len(stack') = n - 1 /\ Lower(n - 1)
  BY <1>1, <1>3, Returned
<1>5. Fails(n - 1)
  BY <1>1, <1>4 DEF Fails
<1>6. n \in Levels
  BY <1>1 DEF Levels
<1> HIDE DEF n, m, p, r, u
<1>7. \A q \in Proc, x \in Msg : x \in delivered'[q] =>
         x \in delivered[q] /\ ~(r /\ q = p /\ x = m)
  BY <1>2, <1>3 DEF Settle, TypeOK
<1>8. \A q \in Proc : undelivered'[q] = undelivered[q] \/ (q = p /\ ~r)
  BY <1>2, <1>3 DEF TypeOK
<1>9. ASSUME ~r
      PROVE  /\ \A x \in Msg : Has(undelivered'[p], x) => Has(undelivered[p], x)
             /\ Once(undelivered[p]) => Once(undelivered'[p])
  <2>1. u # << >> /\ u \in Seq(Entry)
    <3>1. ~At(stack, n).wasRead /\ At(stack, n).proc = p
      BY <1>1, <1>9 DEF r, p
    <3> QED
      BY <1>1, <1>2, <1>6, <3>1 DEF BaseInv, ListsInv, CursorKept, TypeOK, u
  <2>2. undelivered'[p] = Tail(u)
    <3>1. undelivered'[p] = SubSeq(u, 2, Len(u))
      BY <1>2, <1>3, <1>9 DEF TypeOK, u
    <3>2. Tail(u) = SubSeq(u, 2, Len(u))
      BY <2>1, SMT
    <3> QED
      BY <3>1, <3>2
  <2> QED
    BY <2>1, <2>2, PoppedList DEF u
<1>10. ListsStay
  <2>1. \A q \in Proc : Once(undelivered[q]) => Once(undelivered'[q])
    BY <1>8, <1>9
  <2>2. ASSUME NEW d \in Levels, At(stack, d).op = "orphaned", ~At(stack, d).wasRead
        PROVE  \/ d = n /\ Len(stack') < n
               \/ undelivered'[At(stack, d).proc] = undelivered[At(stack, d).proc]
    <3>1. At(stack, d) \in Frame
      BY FrameAt DEF TypeOK, Levels
    <3>2. At(stack, d).proc \in Proc
      BY <2>2, <3>1, FramesRead
    <3>3. CASE At(stack, d).proc = p /\ ~r
      <4>1. d = n
        BY <1>1, <1>6, <2>2, <3>3 DEF BaseInv, FramesInv, OneCursor, p, r
      <4> QED
        BY <1>1, <1>4, <4>1
    <3>4. CASE ~(At(stack, d).proc = p /\ ~r)
      BY <1>8, <3>2, <3>4
    <3> QED
      BY <3>3, <3>4
  <2>3. \A d \in Levels : (At(stack, d).op = "orphaned" /\ ~At(stack, d).wasRead) =>
           undelivered[At(stack, d).proc] # << >>
    BY DEF BaseInv, ListsInv, CursorKept
  <2> QED
    BY <2>1, <2>2, <2>3 DEF ListsStay, n
<1>11. \A x \in Msg : Same(x)
  BY <1>3, <1>7, <1>8, <1>9 DEF Same
<1>12. \A x \in Msg : Passed(x, n - 1)
  <2>1. \A x \in Msg, q \in Proc : Settles(n, q, x) => r /\ q = p /\ x = m
    BY <1>1 DEF Settles, r, p, m
  <2> QED
    BY <1>1, <1>7, <2>1 DEF Passed, Walks, Requeues, n
<1>13. Served
  BY <1>3 DEF Served
<1> QED
  BY <1>1, <1>3, <1>4, <1>5, <1>10, <1>11, <1>12, <1>13, PopStep DEF n

(* A request that found no handler. *)

\* What the invariant says of a request about to be matched in vain.
LEMMA MatchedInVain ==
    ASSUME TypeOK, FramesInv, NEW m \in Msg, RequestInv(m), Len(stack) \in Nat \ {0},
           Matches(Len(stack), m), state[m] = "SENT"
    PROVE  /\ Free(m)
           /\ \A d \in Levels : Walks(d, m) => d = Len(stack)
<1> DEFINE n == Len(stack)
<1>1. n \in 1 .. n /\ Walks(n, m) /\ At(stack, n).op = "match"
  BY DEF Matches, Walks
<1>2. state[m] \notin Final
  BY DEF Final
<1> HIDE DEF n
<1>3. \A d \in Levels : Walks(d, m) => d = n
  BY <1>1, <1>2 DEF RequestInv, OneWalk, Levels, n
<1>4. ~Given(m)
  BY <1>1, <1>2 DEF RequestInv, ReadOk, Given, Levels, n
<1>5. Unheld(m)
  BY <1>1, <1>2 DEF RequestInv, Transit, Unheld, Levels, n
<1> QED
  BY <1>3, <1>4, <1>5 DEF Free, n

\* A walk that ends without a handler queues the request, or fails it, only when
\* nobody holds it.
LEMMA NoHandlerInv == ASSUME TypeOK, BaseInv, NoHandler PROVE BaseInv'
<1> DEFINE n == Len(stack)
           z == Len(stack')
<1>0. Running("match")
  BY DEF NoHandler, MatchEnded
<1>2. /\ n \in Nat \ {0} /\ At(stack, n) = Head(stack) /\ Head(stack).op = "match"
      /\ Head(stack) \in Frame
  BY <1>0, TopAt
<1>20. PICK m \in Msg : m = Head(stack).msg
  BY <1>2, FramesRead
<1> DEFINE t == Disposition(m)
<1>1. /\ Running("match") /\ stack # << >> /\ Quiet /\ ret' = ret
      /\ stack' = IF state[m] = "SENT"
                  THEN <<Change(m, t), Return(FALSE)>> \o Tail(stack)
                  ELSE <<Return(TRUE)>> \o Tail(stack)
  BY <1>20 DEF NoHandler, MatchEnded, Running, Quiet, clientVars, procVars, msgVars
<1>3. t \in {"QUEUED", "FAILED"} /\ (t = "QUEUED" => m \in Queueable /\ "QUEUED" \notin reported[m])
  BY DEF Disposition
<1>4. /\ Change(m, t) \in Frame /\ Change(m, t).op = "change" /\ Change(m, t).msg = m /\ Change(m, t).to = t
      /\ Return(TRUE) \in Frame /\ Return(TRUE).op = "return" /\ Return(TRUE).val = TRUE
      /\ Return(FALSE) \in Frame /\ Return(FALSE).op = "return"
  BY <1>3, FramesMade DEF Change, Return, Final
<1>5. /\ Lower(n - 1) /\ z \in {n, n + 1} /\ At(stack', n).op = "return"
      /\ \/ state[m] # "SENT" /\ z = n /\ At(stack', n).val
         \/ /\ state[m] = "SENT" /\ z = n + 1 /\ At(stack', n + 1).op = "change"
            /\ At(stack', n + 1).msg = m /\ At(stack', n + 1).to = t
  <2> HIDE DEF n, t
  <2>1. CASE state[m] = "SENT"
    <3>1. stack' = <<Change(m, t), Return(FALSE)>> \o Tail(stack)
      BY <1>1, <2>1
    <3>2. /\ z = n + 1 /\ At(stack', n) = Return(FALSE) /\ At(stack', n + 1) = Change(m, t)
          /\ Lower(n - 1)
      BY <1>1, <1>4, <3>1, Instead DEF n
    <3> QED
      BY <1>2, <1>4, <2>1, <3>2
  <2>2. CASE state[m] # "SENT"
    <3>1. stack' = <<Return(TRUE)>> \o Tail(stack)
      BY <1>1, <2>2
    <3>2. z = n /\ At(stack', n) = Return(TRUE) /\ Lower(n - 1)
      BY <1>1, <1>4, <3>1, Instead DEF n
    <3> QED
      BY <1>2, <1>4, <2>2, <3>2
  <2> QED
    BY <2>1, <2>2
<1>6. Matches(n, m) /\ Walks(n, m)
  BY <1>2, <1>20 DEF Matches, Walks
<1>7. Calls(n - 1)
  BY <1>2, <1>5 DEF Calls
<1>8. \A d \in Added(n - 1) : \/ d = n /\ At(stack', d).op = "return"
                              \/ /\ d = n + 1 /\ d = z /\ At(stack', d).op = "change"
                                 /\ At(stack', d).msg = m
  <2>1. \A d \in n .. z : d = n \/ (d = n + 1 /\ z = n + 1)
    BY <1>2, <1>5
  <2> QED
    BY <1>2, <1>5, <2>1 DEF Added
<1> HIDE DEF n, z, t
<1>9. Plain(n - 1)
  BY <1>8 DEF Plain, Cursors, z
<1>10. Served /\ ListsStay /\ \A x \in Msg : Same(x)
  BY <1>1, QuietSame DEF BaseInv
<1>11. ASSUME NEW x \in Msg PROVE Elsewhere(x, n - 1)
  BY <1>8 DEF Elsewhere
<1>12. ASSUME NEW x \in Msg, x # m PROVE RequestInv(x)'
  <2>1. Passed(x, n - 1)
    BY <1>2, <1>12, <1>20 DEF Passed, Walks, Requeues, Settles, n
  <2>2. Aside(x, n - 1)
    BY <1>1, <1>7, <1>8, <1>10, <1>11, <1>12, <2>1 DEF Aside, Near, Same, Quiet
  <2>3. handler[x] \in Proc \cup {NoProc}
    BY DEF TypeOK
  <2> QED
    BY <2>2, <2>3, AsideStep DEF BaseInv
<1>13. RequestInv(m)'
  <2>1. CASE state[m] # "SENT"
    <3>1. z >= n /\ At(stack', n).val
      BY <1>2, <1>5, <2>1
    <3>2. Passed(m, n - 1)
      BY <1>2, <1>5, <3>1 DEF Passed, Requeues, Settles, n, z
    <3>3. Near(m, n - 1)
      BY <1>1, <1>3, <1>7, <1>10, <1>11, <3>2 DEF Near, Same, Quiet
    <3>6. ~Changes(m)'
      BY <1>2, <1>5, <2>1 DEF Changes, z
    <3>4. ChangeOk(m)'
      BY <3>6 DEF ChangeOk
    <3>5. handler[m] \in Proc \cup {NoProc}
      BY <1>3 DEF TypeOK
    <3> QED
      BY <1>3, <3>3, <3>4, <3>5, NearStep DEF BaseInv
  <2>2. CASE state[m] = "SENT"
    <3>1. z = n + 1 /\ At(stack', z).op = "change" /\ At(stack', z).msg = m /\ At(stack', z).to = t
      BY <1>5, <2>2
    <3>2. Free(m) /\ \A d \in Levels : Walks(d, m) => d = n
      BY <1>2, <1>3, <1>6, <2>2, MatchedInVain DEF BaseInv, n
    <3>3. /\ active' = active /\ handler' = handler /\ state' = state /\ reported' = reported
          /\ delivered' = delivered
      BY <1>1 DEF Quiet
    <3>4. \A d \in 1 .. z : /\ d < n => d \in 1 .. n /\ At(stack', d) = At(stack, d)
                            /\ d < n \/ At(stack', d).op \in {"return", "change"}
      BY <1>2, <1>5, <3>1 DEF Lower
    <3>5. \A d \in 1 .. z : ~Walks(d, m)' /\ ~Matches(d, m)'
      BY <1>2, <3>2, <3>4 DEF Walks, Matches, Levels, n
    <3>6. \A d \in 1 .. z : \A p : Reading(d, p)' => d \in 1 .. n /\ Reading(d, p)
      BY <3>4 DEF Reading
    <3>14. \A p : Dead(p) => Dead(p)'
      BY <3>3, <3>6 DEF Dead, Levels, n, z
    <3>7. Free(m)'
      BY <3>2, <3>3, <3>14 DEF Free, Given, Unheld
    <3>8. Over(m)'
      BY <3>5, <3>7 DEF Over, Levels, z
    <3>9. ~Given(m)'
      BY <3>7 DEF Free
    <3>10. ChangeOk(m)'
      BY <1>3, <2>2, <3>1, <3>3, <3>5, <3>7, <3>9 DEF ChangeOk, Changes, Levels, z, Given
    <3>11. Passed(m, n - 1)
      BY <1>2, <1>5, <3>1, <3>8 DEF Passed, Requeues, Settles, n, z
    <3>12. Near(m, n - 1)
      BY <1>1, <1>3, <1>7, <1>10, <1>11, <3>11 DEF Near, Same, Quiet
    <3>13. handler[m] \in Proc \cup {NoProc}
      BY <1>3 DEF TypeOK
    <3> QED
      BY <1>3, <3>10, <3>12, <3>13, NearStep DEF BaseInv
  <2> QED
    BY <2>1, <2>2
<1>14. UNCHANGED <<active, channel>> /\ state' = state
  BY <1>1 DEF Quiet
<1>15. \A d \in Added(n - 1) : At(stack', d).op # "deactivate"
  BY <1>8
<1> QED
  BY <1>7, <1>9, <1>10, <1>12, <1>13, <1>14, <1>15, PlainStep

(* The state of a request changes. *)

\* The frame that changes the state of m is replaced.
Replaces(m) ==
    LET n == Len(stack) IN
    /\ n \in Nat \ {0} /\ Len(stack') \in Nat /\ Len(stack') >= n - 1 /\ Lower(n - 1)
    /\ At(stack, n).op = "change" /\ At(stack, n).msg = m
    /\ \A d \in Added(n - 1) : At(stack', d).op \in {"deliver", "report"} /\ At(stack', d).msg = m
    /\ UNCHANGED <<alive, plan, rpc, active, channel, signalled, undelivered, delivered>>

\* A change of state, with what it calls.
LEMMA ChangeStep ==
    ASSUME TypeOK, BaseInv, NEW m \in Msg, Replaces(m), \A x \in Msg \ {m} : Same(x),
           RequestInv(m)'
    PROVE  BaseInv'
<1> DEFINE n == Len(stack)
           z == Len(stack')
<1>1. /\ n \in Nat \ {0} /\ z \in Nat /\ z >= n - 1 /\ Lower(n - 1)
      /\ At(stack, n).op = "change" /\ At(stack, n).msg = m
      /\ \A d \in Added(n - 1) : At(stack', d).op \in {"deliver", "report"} /\ At(stack', d).msg = m
      /\ UNCHANGED <<alive, plan, rpc, active, channel, signalled, undelivered, delivered>>
  BY DEF Replaces
<1>2. Calls(n - 1)
  BY <1>1 DEF Calls
<1> HIDE DEF n, z
<1>3. Plain(n - 1)
  BY <1>1 DEF Plain, Cursors
<1>4. Served
  BY <1>1 DEF Served
<1>5. ListsStay
  BY <1>1, UndeliveredStay DEF BaseInv
<1>6. ASSUME NEW x \in Msg \ {m} PROVE RequestInv(x)'
  <2>1. Passed(x, n - 1)
    BY <1>1 DEF Passed, Walks, Requeues, Settles, n
  <2>2. Elsewhere(x, n - 1)
    BY <1>1 DEF Elsewhere
  <2>3. Aside(x, n - 1)
    BY <1>1, <1>2, <2>1, <2>2 DEF Aside, Near, Same
  <2>4. handler[x] \in Proc \cup {NoProc}
    BY DEF TypeOK
  <2> QED
    BY <2>3, <2>4, AsideStep DEF BaseInv
<1>7. state[m] # "CREATED"
  <2>1. Changes(m)
    BY <1>1 DEF Changes, n
  <2> QED
    BY <2>1 DEF BaseInv, RequestInv, ChangeOk
<1>8. \A x \in Msg : state[x] = "CREATED" => state'[x] = "CREATED"
  BY <1>7 DEF Same
<1>9. \A x \in Msg : RequestInv(x)'
  BY <1>6
<1>10. \A d \in Added(n - 1) : At(stack', d).op # "deactivate"
  BY <1>1
<1> QED
  BY <1>1, <1>2, <1>3, <1>4, <1>5, <1>8, <1>9, <1>10, PlainStep

-----------------------------------------------------------------------------

\* m becomes s, a final state.
Ends(m, s) ==
    LET n == Len(stack) IN
    /\ Replaces(m) /\ At(stack, n).to = s /\ s \in Final /\ Len(stack') = n + 1
    /\ At(stack', n).op = "report" /\ At(stack', n + 1).op = "deliver"
    /\ state' = [state EXCEPT ![m] = s]
    /\ reported' = [reported EXCEPT ![m] = @ \cup {s}]
    /\ UNCHANGED <<handler, queued, ret>>

\* The request that ends.
LEMMA EndsSame ==
    ASSUME TypeOK, BaseInv, NEW m \in Msg, NEW s, Ends(m, s)
    PROVE  RequestInv(m)'
<1> DEFINE n == Len(stack)
           z == Len(stack')
<1>1. /\ n \in Nat \ {0} /\ z = n + 1
      /\ \A d \in 1 .. n - 1 : At(stack', d) = At(stack, d)
      /\ At(stack, n).op = "change" /\ At(stack, n).msg = m
      /\ At(stack', n).op = "report" /\ At(stack', n + 1).op = "deliver"
      /\ s \in Final
  BY DEF Ends, Replaces, Lower
<1>2. /\ active' = active /\ queued' = queued /\ delivered' = delivered /\ handler' = handler
      /\ state'[m] = s /\ reported'[m] = reported[m] \cup {s}
  BY DEF Ends, Replaces, TypeOK
<1>3. RequestInv(m) /\ FramesInv
  BY DEF BaseInv
<1>4. Changes(m)
  BY <1>1 DEF Changes
<1>5. /\ \A d \in 1 .. z : \/ d < n /\ d \in 1 .. n /\ At(stack', d) = At(stack, d)
                           \/ d = n \/ d = n + 1
      /\ \A d \in 1 .. n : \/ d < n /\ d \in 1 .. z /\ At(stack', d) = At(stack, d)
                           \/ d = n
  BY <1>1
<1> HIDE DEF n, z
<1>6. /\ state[m] = "SENT" /\ \A d \in 1 .. n : ~Matches(d, m)
      /\ \A p \in Proc : m \in delivered[p] => n > 1 /\ Settles(n - 1, p, m)
  BY <1>3, <1>4 DEF RequestInv, ChangeOk, Levels, n
<1>7. s # "CREATED" /\ s # "QUEUED"
  BY <1>1 DEF Final
<1>8. \A d \in 1 .. z : ~Matches(d, m)'
  BY <1>1, <1>5, <1>6 DEF Matches
<1>9. \A d \in 1 .. z : Requeues(d, m)' => d < n /\ d \in 1 .. n /\ Requeues(d, m)
  BY <1>1, <1>5 DEF Requeues
<1>10. \A d \in 1 .. n : Requeues(d, m) => d < n /\ d \in 1 .. z /\ Requeues(d, m)'
  BY <1>1, <1>5 DEF Requeues
<1>11. ~Changes(m)'
  BY <1>1 DEF Changes, z
<1>12. Created(m)' /\ ChangeOk(m)' /\ BestOk(m)' /\ ReportOk(m)'
  BY <1>1, <1>2, <1>7, <1>8, <1>11 DEF Created, ChangeOk, BestOk, ReportOk, Levels, z
<1>13. OneWalk(m)' /\ Transit(m)' /\ UnreadOk(m)'
  BY <1>1, <1>2 DEF OneWalk, Transit, UnreadOk
<1>14. ReadOk(m)'
  <2> SUFFICES ASSUME NEW p \in Proc, m \in delivered[p]
               PROVE  /\ handler[m] = p
                      /\ active[p] \/ \E d \in 1 .. z : At(stack', d).op = "unanswered" /\ At(stack', d).proc = p
                      /\ \E d \in 1 .. z : Settles(d, p, m)'
    BY <1>1, <1>2 DEF ReadOk, Levels, z
  <2>1. /\ handler[m] = p
        /\ active[p] \/ \E d \in 1 .. n : At(stack, d).op = "unanswered" /\ At(stack, d).proc = p
    BY <1>3 DEF RequestInv, ReadOk, Levels, n
  <2>2. active[p] \/ \E d \in 1 .. z : At(stack', d).op = "unanswered" /\ At(stack', d).proc = p
    BY <1>1, <1>5, <2>1
  <2>3. PICK d \in 1 .. n : d = n - 1 /\ Settles(d, p, m)
    BY <1>1, <1>6
  <2>4. d \in 1 .. z /\ Settles(d, p, m)'
    BY <1>1, <1>5, <2>3 DEF Settles
  <2> QED
    BY <2>1, <2>2, <2>4
<1>15. QueuedOk(m)'
  <2>1. /\ m \in queued <=> \E d \in 1 .. n : Requeues(d, m)
        /\ m \in queued => "QUEUED" \in reported[m] /\ m \in Queueable
        /\ \A d \in 1 .. n : At(stack, d).op = "redeliver" => m \notin At(stack, d).todo
    BY <1>3, <1>6 DEF RequestInv, QueuedOk, Levels, n
  <2>2. m \in queued' <=> \E d \in 1 .. z : Requeues(d, m)'
    BY <1>2, <1>9, <1>10, <2>1
  <2>3. \A d \in 1 .. z : At(stack', d).op = "redeliver" => m \notin At(stack', d).todo
    BY <1>1, <1>5, <2>1
  <2> QED
    BY <1>2, <1>7, <2>1, <2>2, <2>3 DEF QueuedOk, Levels, z
<1>16. \A d \in 1 .. z : \A p : Reading(d, p)' => d \in 1 .. n /\ Reading(d, p)
  BY <1>1, <1>5 DEF Reading
<1>17. Over(m) => Over(m)'
  <2>1. \A p : Dead(p) => Dead(p)'
    BY <1>2, <1>16 DEF Dead, Levels, n, z
  <2>2. Free(m) => Free(m)'
    BY <1>2, <2>1 DEF Free, Given, Unheld
  <2> QED
    BY <1>1, <1>2, <2>2 DEF Over
<1>18. RequeueOk(m)'
  <2> SUFFICES ASSUME NEW d \in 1 .. z, Requeues(d, m)'
               PROVE  /\ d # z
                      /\ \/ Walks(d + 1, m)'
                         \/ At(stack', d + 1).op = "return" /\ (At(stack', d + 1).val \/ Over(m)')
    BY DEF RequeueOk, Levels, z
  <2>1. d < n /\ d \in 1 .. n /\ Requeues(d, m)
    BY <1>9
  <2>2. \/ Walks(d + 1, m)
        \/ At(stack, d + 1).op = "return" /\ (At(stack, d + 1).val \/ Over(m))
    BY <1>3, <2>1 DEF RequeueOk, RequestInv, Levels, n
  <2>3. d + 1 # n
    BY <1>1, <2>1, <2>2 DEF Walks
  <2>4. d + 1 \in 1 .. n - 1 /\ d # z
    BY <1>1, <2>1, <2>3
  <2>5. At(stack', d + 1) = At(stack, d + 1)
    BY <1>1, <2>4
  <2> QED
    BY <1>17, <2>2, <2>4, <2>5 DEF Walks
<1> QED
  BY <1>12, <1>13, <1>14, <1>15, <1>18 DEF RequestInv

\* What is said of the frame that changes the state of m.
LEMMA ChangeRuns ==
    ASSUME TypeOK, Running("change"), NEW m \in Msg, Head(stack).msg = m
    PROVE  /\ stack # << >> /\ Len(stack) \in Nat \ {0} /\ At(stack, Len(stack)) = Head(stack)
           /\ At(stack, Len(stack)).op = "change" /\ Changes(m)
<1>1. stack # << >>
  BY DEF Running
<1>2. /\ Len(stack) \in Nat \ {0} /\ At(stack, Len(stack)) = Head(stack)
      /\ Head(stack).op = "change"
  BY TopAt
<1> QED
  BY <1>1, <1>2 DEF Changes

\* A request ends.
LEMMA ChangeFinalInv == ASSUME TypeOK, BaseInv, ChangeFinal PROVE BaseInv'
<1>1. Running("change") /\ Head(stack) \in Frame /\ Head(stack).op = "change"
  BY TopAt DEF ChangeFinal
<1>2. PICK m \in Msg : m = Head(stack).msg
  BY <1>1, FramesRead
<1>3. PICK s \in Final : s = Head(stack).to
  BY DEF ChangeFinal
<1> DEFINE n == Len(stack)
<1>4. stack # << >> /\ n \in Nat \ {0} /\ At(stack, n) = Head(stack) /\ At(stack, n).op = "change"
  BY <1>1, <1>2, ChangeRuns
<1>5. /\ stack' = <<Deliver(m, TRUE), Report(m)>> \o Tail(stack)
      /\ state' = [state EXCEPT ![m] = s]
      /\ reported' = [reported EXCEPT ![m] = @ \cup {s}]
      /\ UNCHANGED <<alive, plan, rpc, active, channel, signalled, undelivered, delivered,
                     handler, queued, ret>>
  BY <1>2, <1>3 DEF ChangeFinal, Announce, clientVars, procVars
<1>6. /\ Deliver(m, TRUE) \in Frame /\ Deliver(m, TRUE).op = "deliver" /\ Deliver(m, TRUE).msg = m
      /\ Report(m) \in Frame /\ Report(m).op = "report" /\ Report(m).msg = m
  BY FramesMade DEF Deliver, Report
<1>7. /\ Len(stack') = n + 1 /\ Lower(n - 1)
      /\ At(stack', n) = Report(m) /\ At(stack', n + 1) = Deliver(m, TRUE)
  BY <1>4, <1>5, <1>6, Instead
<1>8. \A d \in Added(n - 1) : At(stack', d).op \in {"deliver", "report"} /\ At(stack', d).msg = m
  <2> SUFFICES ASSUME NEW d \in Added(n - 1)
               PROVE  At(stack', d).op \in {"deliver", "report"} /\ At(stack', d).msg = m
    OBVIOUS
  <2>1. d = n \/ d = n + 1
    BY <1>4, <1>7 DEF Added
  <2>2. At(stack', n).op \in {"deliver", "report"} /\ At(stack', n).msg = m
    BY <1>6, <1>7
  <2>3. At(stack', n + 1).op \in {"deliver", "report"} /\ At(stack', n + 1).msg = m
    BY <1>6, <1>7
  <2> QED
    BY <2>1, <2>2, <2>3
<1> HIDE DEF n
<1>9. Replaces(m)
  <2>1. At(stack, n).op = "change" /\ At(stack, n).msg = m
    BY <1>2, <1>4
  <2>2. Len(stack') \in Nat /\ Len(stack') >= n - 1 /\ n \in Nat \ {0}
    BY <1>4, <1>7
  <2>3. UNCHANGED <<alive, plan, rpc, active, channel, signalled, undelivered, delivered>>
    BY <1>5
  <2>4. \A d \in Added(n - 1) : At(stack', d).op \in {"deliver", "report"} /\ At(stack', d).msg = m
    BY <1>8
  <2> QED
    BY <1>7, <2>1, <2>2, <2>3, <2>4 DEF Replaces, n
<1>10. Ends(m, s)
  BY <1>3, <1>4, <1>5, <1>6, <1>7, <1>9 DEF Ends, n
<1>11. RequestInv(m)'
  BY <1>10, EndsSame
<1>12. \A x \in Msg \ {m} : Same(x)
  BY <1>5 DEF Same, TypeOK
<1> QED
  BY <1>9, <1>11, <1>12, ChangeStep

-----------------------------------------------------------------------------

\* m goes into the queue of the session.
Waits(m) ==
    LET n == Len(stack) IN
    /\ Replaces(m) /\ At(stack, n).to = "QUEUED" /\ Len(stack') = n + 1
    /\ At(stack', n).op = "deliver" /\ At(stack', n + 1).op = "report"
    /\ state' = [state EXCEPT ![m] = "QUEUED"]
    /\ reported' = [reported EXCEPT ![m] = @ \cup {"QUEUED"}]
    /\ queued' = queued \cup {m}
    /\ UNCHANGED <<handler, ret>>

\* The request that is queued.
LEMMA WaitsSame ==
    ASSUME TypeOK, BaseInv, NEW m \in Msg, Waits(m)
    PROVE  RequestInv(m)'
<1> DEFINE n == Len(stack)
           z == Len(stack')
<1>1. /\ n \in Nat \ {0} /\ z = n + 1
      /\ \A d \in 1 .. n - 1 : At(stack', d) = At(stack, d)
      /\ At(stack, n).op = "change" /\ At(stack, n).msg = m /\ At(stack, n).to = "QUEUED"
      /\ At(stack', n).op = "deliver" /\ At(stack', n + 1).op = "report"
  BY DEF Waits, Replaces, Lower
<1>2. /\ active' = active /\ delivered' = delivered /\ handler' = handler
      /\ state'[m] = "QUEUED" /\ "QUEUED" \in reported'[m] /\ m \in queued'
  BY DEF Waits, Replaces, TypeOK
<1>3. RequestInv(m)
  BY DEF BaseInv
<1>4. Changes(m)
  BY <1>1 DEF Changes
<1>5. /\ \A d \in 1 .. z : \/ d < n /\ d \in 1 .. n /\ At(stack', d) = At(stack, d)
                           \/ d = n \/ d = n + 1
      /\ z \in Nat
  BY <1>1
<1> HIDE DEF n, z
<1>6. /\ state[m] = "SENT" /\ Free(m) /\ m \in Queueable /\ "QUEUED" \notin reported[m]
      /\ \A d \in 1 .. n : ~Walks(d, m) /\ ~Matches(d, m)
  BY <1>1, <1>3, <1>4 DEF RequestInv, ChangeOk, Levels, n
<1>7. \A d \in 1 .. n : ~Requeues(d, m)
  BY <1>3, <1>6 DEF RequestInv, QueuedOk, Levels, n
<1>8. /\ \A d \in 1 .. z : Walks(d, m)' => d = n
      /\ \A d \in 1 .. z : ~Matches(d, m)'
      /\ \A d \in 1 .. z : ~Requeues(d, m)'
  <2> SUFFICES ASSUME NEW d \in 1 .. z
               PROVE  (Walks(d, m)' => d = n) /\ ~Matches(d, m)' /\ ~Requeues(d, m)'
    OBVIOUS
  <2>1. CASE d < n
    BY <1>1, <1>5, <1>6, <1>7, <2>1 DEF Walks, Matches, Requeues
  <2>2. CASE d = n
    BY <1>1, <2>2 DEF Walks, Matches, Requeues
  <2>3. CASE d = n + 1
    BY <1>1, <2>3 DEF Walks, Matches, Requeues
  <2> QED
    BY <1>5, <2>1, <2>2, <2>3
<1>9. \A d \in 1 .. z : \A p : Reading(d, p)' => d \in 1 .. n /\ Reading(d, p)
  BY <1>1, <1>5 DEF Reading
<1>10. Free(m)'
  <2>1. \A p : Dead(p) => Dead(p)'
    BY <1>2, <1>9 DEF Dead, Levels, n, z
  <2> QED
    BY <1>2, <1>6, <2>1 DEF Free, Given, Unheld
<1>11. ~Given(m)' /\ (handler[m] # NoProc => Dead(handler[m])')
  BY <1>2, <1>10 DEF Free, Unheld
<1>12. handler[m] # NoProc => ~active[handler[m]] /\ \A d \in 1 .. z : ~Reading(d, handler[m])'
  BY <1>2, <1>11 DEF Dead, Levels, z
<1>13. ~Changes(m)'
  BY <1>1 DEF Changes, z
<1>14. Created(m)' /\ ChangeOk(m)' /\ BestOk(m)' /\ ReportOk(m)'
  BY <1>2, <1>8, <1>13 DEF Created, ChangeOk, BestOk, ReportOk, Levels, z
<1>15. OneWalk(m)'
  BY <1>8 DEF OneWalk, Levels, z
<1>16. Transit(m)'
  <2> SUFFICES ASSUME NEW d \in 1 .. z, Walks(d, m)', handler[m] # NoProc
               PROVE  /\ \A c \in 1 .. z : c < d => ~Reading(c, handler[m])'
                      /\ At(stack', d).op = "match" => Dead(handler[m])'
                      /\ ~active[handler[m]]
    BY <1>2 DEF Transit, Levels, z
  <2>1. \A c \in 1 .. z : c < d => ~Reading(c, handler[m])'
    BY <1>12
  <2>2. At(stack', d).op = "match" => Dead(handler[m])'
    BY <1>11
  <2> QED
    BY <1>12, <2>1, <2>2
<1>17. ReadOk(m)'
  BY <1>11 DEF ReadOk, Given
<1>18. UnreadOk(m)'
  <2> SUFFICES ASSUME handler[m] # NoProc
               PROVE  ~Given(m)' /\ ~active[handler[m]] /\ \A e \in 1 .. z : ~Reading(e, handler[m])'
    BY <1>2 DEF UnreadOk, Levels, z
  <2> QED
    BY <1>11, <1>12
<1>19. QueuedOk(m)'
  BY <1>2, <1>6, <1>8, <1>10 DEF QueuedOk, Levels, z
<1>20. RequeueOk(m)'
  BY <1>8 DEF RequeueOk, Levels, z
<1> QED
  BY <1>14, <1>15, <1>16, <1>17, <1>18, <1>19, <1>20 DEF RequestInv

\* A request is queued.
LEMMA ChangeQueuedInv == ASSUME TypeOK, BaseInv, ChangeQueued PROVE BaseInv'
<1>1. Running("change") /\ Head(stack) \in Frame /\ Head(stack).op = "change"
  BY TopAt DEF ChangeQueued
<1>2. PICK m \in Msg : m = Head(stack).msg
  BY <1>1, FramesRead
<1> DEFINE n == Len(stack)
<1>4. stack # << >> /\ n \in Nat \ {0} /\ At(stack, n) = Head(stack) /\ At(stack, n).op = "change"
  BY <1>1, <1>2, ChangeRuns
<1>5. /\ stack' = <<Report(m), Deliver(m, TRUE)>> \o Tail(stack)
      /\ Head(stack).to = "QUEUED"
      /\ state' = [state EXCEPT ![m] = "QUEUED"]
      /\ reported' = [reported EXCEPT ![m] = @ \cup {"QUEUED"}]
      /\ queued' = queued \cup {m}
      /\ UNCHANGED <<alive, plan, rpc, active, channel, signalled, undelivered, delivered,
                     handler, ret>>
  BY <1>2 DEF ChangeQueued, clientVars, procVars
<1>6. /\ Deliver(m, TRUE) \in Frame /\ Deliver(m, TRUE).op = "deliver" /\ Deliver(m, TRUE).msg = m
      /\ Report(m) \in Frame /\ Report(m).op = "report" /\ Report(m).msg = m
  BY FramesMade DEF Deliver, Report
<1>7. /\ Len(stack') = n + 1 /\ Lower(n - 1)
      /\ At(stack', n) = Deliver(m, TRUE) /\ At(stack', n + 1) = Report(m)
  BY <1>4, <1>5, <1>6, Instead
<1>8. \A d \in Added(n - 1) : At(stack', d).op \in {"deliver", "report"} /\ At(stack', d).msg = m
  <2> SUFFICES ASSUME NEW d \in Added(n - 1)
               PROVE  At(stack', d).op \in {"deliver", "report"} /\ At(stack', d).msg = m
    OBVIOUS
  <2>1. d = n \/ d = n + 1
    BY <1>4, <1>7 DEF Added
  <2>2. At(stack', n).op \in {"deliver", "report"} /\ At(stack', n).msg = m
    BY <1>6, <1>7
  <2>3. At(stack', n + 1).op \in {"deliver", "report"} /\ At(stack', n + 1).msg = m
    BY <1>6, <1>7
  <2> QED
    BY <2>1, <2>2, <2>3
<1> HIDE DEF n
<1>9. Replaces(m)
  <2>1. At(stack, n).op = "change" /\ At(stack, n).msg = m
    BY <1>2, <1>4
  <2>2. Len(stack') \in Nat /\ Len(stack') >= n - 1 /\ n \in Nat \ {0}
    BY <1>4, <1>7
  <2>3. UNCHANGED <<alive, plan, rpc, active, channel, signalled, undelivered, delivered>>
    BY <1>5
  <2>4. \A d \in Added(n - 1) : At(stack', d).op \in {"deliver", "report"} /\ At(stack', d).msg = m
    BY <1>8
  <2> QED
    BY <1>7, <2>1, <2>2, <2>3, <2>4 DEF Replaces, n
<1>10. Waits(m)
  BY <1>4, <1>5, <1>6, <1>7, <1>9 DEF Waits, n
<1>11. RequestInv(m)'
  BY <1>10, WaitsSame
<1>12. \A x \in Msg \ {m} : Same(x)
  BY <1>5 DEF Same, TypeOK
<1> QED
  BY <1>9, <1>11, <1>12, ChangeStep

-----------------------------------------------------------------------------

\* m is rejected by its handler, in the RPC that the server serves.
LEMMA RejectedSame ==
    ASSUME TypeOK, BaseInv, NEW m \in Msg, Changes(m), At(stack, Len(stack)).to = "REJECTED",
           Len(stack') = Len(stack), At(stack', Len(stack)).op = "deliver",
           handler'[m] = NoProc, state'[m] = "SENT",
           UNCHANGED <<delivered, reported, queued>>
    PROVE  RequestInv(m)'
<1>1. RequestInv(m)
  BY DEF BaseInv
<1>2. Len(stack) = 1 /\ ~Given(m) /\ state[m] = "SENT"
  BY <1>1 DEF RequestInv, ChangeOk
<1>3. At(stack, 1).op = "change" /\ At(stack', 1).op = "deliver" /\ Len(stack') = 1
  BY <1>2 DEF Changes
<1>4. Levels = {1} /\ Levels' = {1}
  BY <1>2, <1>3 DEF Levels
<1>5. \A d \in {1} : At(stack, d).op = "change" /\ At(stack', d).op = "deliver"
  BY <1>3
<1>6. ~Given(m)'
  BY <1>2 DEF Given
<1>7. ~Changes(m)'
  BY <1>3 DEF Changes
<1>8. Created(m)' /\ ChangeOk(m)' /\ BestOk(m)' /\ ReportOk(m)'
  BY <1>4, <1>5, <1>7 DEF Created, ChangeOk, BestOk, ReportOk, Matches, Reports
<1>9. OneWalk(m)' /\ Transit(m)' /\ UnreadOk(m)'
  BY <1>4 DEF OneWalk, Transit, UnreadOk
<1>10. ReadOk(m)'
  BY <1>6 DEF ReadOk, Given
<1>11. m \notin queued
  BY <1>1, <1>2, <1>4, <1>5 DEF RequestInv, QueuedOk, Requeues
<1>12. QueuedOk(m)' /\ RequeueOk(m)'
  BY <1>4, <1>5, <1>11 DEF QueuedOk, RequeueOk, Requeues
<1> QED
  BY <1>8, <1>9, <1>10, <1>12 DEF RequestInv

\* A request is rejected.
LEMMA ChangeRejectedInv == ASSUME TypeOK, BaseInv, ChangeRejected PROVE BaseInv'
<1>1. Running("change") /\ Head(stack) \in Frame /\ Head(stack).op = "change"
  BY TopAt DEF ChangeRejected
<1>2. PICK m \in Msg : m = Head(stack).msg
  BY <1>1, FramesRead
<1> DEFINE n == Len(stack)
<1>4. /\ stack # << >> /\ n \in Nat \ {0} /\ At(stack, n) = Head(stack) /\ At(stack, n).op = "change"
      /\ Changes(m)
  BY <1>1, <1>2, ChangeRuns
<1>5. /\ stack' = <<Deliver(m, FALSE)>> \o Tail(stack)
      /\ Head(stack).to = "REJECTED"
      /\ state' = [state EXCEPT ![m] = "SENT"]
      /\ handler' = [handler EXCEPT ![m] = NoProc]
      /\ UNCHANGED <<alive, plan, rpc, active, channel, signalled, undelivered, delivered,
                     reported, queued, ret>>
  BY <1>2 DEF ChangeRejected, Rematch, clientVars, procVars
<1>6. Deliver(m, FALSE) \in Frame /\ Deliver(m, FALSE).op = "deliver" /\ Deliver(m, FALSE).msg = m
  BY FramesMade DEF Deliver
<1>7. Len(stack') = n /\ Lower(n - 1) /\ At(stack', n) = Deliver(m, FALSE)
  BY <1>4, <1>5, <1>6, Instead
<1>8. \A d \in Added(n - 1) : At(stack', d).op = "deliver" /\ At(stack', d).msg = m
  <2> SUFFICES ASSUME NEW d \in Added(n - 1) PROVE At(stack', d).op = "deliver" /\ At(stack', d).msg = m
    OBVIOUS
  <2>1. d = n
    BY <1>4, <1>7 DEF Added
  <2> QED
    BY <1>6, <1>7, <2>1
<1> HIDE DEF n
<1>9. Replaces(m)
  <2>1. At(stack, n).op = "change" /\ At(stack, n).msg = m
    BY <1>2, <1>4
  <2>2. Len(stack') \in Nat /\ Len(stack') >= n - 1 /\ n \in Nat \ {0}
    BY <1>4, <1>7
  <2>3. UNCHANGED <<alive, plan, rpc, active, channel, signalled, undelivered, delivered>>
    BY <1>5
  <2>4. \A d \in Added(n - 1) : At(stack', d).op \in {"deliver", "report"} /\ At(stack', d).msg = m
    BY <1>8
  <2> QED
    BY <1>7, <2>1, <2>2, <2>3, <2>4 DEF Replaces, n
<1>10. handler'[m] = NoProc /\ state'[m] = "SENT"
  BY <1>5 DEF TypeOK
<1>11. RequestInv(m)'
  BY <1>4, <1>5, <1>6, <1>7, <1>10, RejectedSame DEF n
<1>12. \A x \in Msg \ {m} : Same(x)
  BY <1>5 DEF Same, TypeOK
<1> QED
  BY <1>9, <1>11, <1>12, ChangeStep

(* A client is given up. *)

\* The client p is not active any more, and what it held is to be failed.
Gives(p) ==
    LET n == Len(stack) IN
    /\ n \in Nat \ {0} /\ Len(stack') = n + 2 /\ Lower(n - 1)
    /\ At(stack, n).op = "deactivate" /\ At(stack, n).proc = p
    /\ At(stack', n).op = "forget"
    /\ At(stack', n + 1).op = "unanswered" /\ At(stack', n + 1).proc = p
    /\ At(stack', n + 2).op = "unread" /\ At(stack', n + 2).proc = p
    /\ active[p] /\ active' = [active EXCEPT ![p] = FALSE]
    /\ channel' = [channel EXCEPT ![p] = FALSE]
    /\ UNCHANGED <<alive, plan, rpc, signalled, undelivered, delivered, state, handler,
                   reported, queued, ret>>

\* A request and a procid that is given up: what the procid held is now for its
\* deactivation to fail.
LEMMA GivesSame ==
    ASSUME TypeOK, FramesInv, NEW m \in Msg, RequestInv(m), NEW p \in Proc, Gives(p)
    PROVE  RequestInv(m)'
<1> DEFINE n == Len(stack)
           z == Len(stack')
           h == handler[m]
<1>1. /\ n \in Nat \ {0} /\ z = n + 2
      /\ \A d \in 1 .. n - 1 : At(stack', d) = At(stack, d)
      /\ At(stack, n).op = "deactivate" /\ At(stack, n).proc = p
      /\ At(stack', n).op = "forget"
      /\ At(stack', n + 1).op = "unanswered" /\ At(stack', n + 1).proc = p
      /\ At(stack', n + 2).op = "unread" /\ At(stack', n + 2).proc = p
      /\ active[p]
  BY DEF Gives, Lower
<1>2. /\ \A q \in Proc : active'[q] <=> active[q] /\ q # p
      /\ state' = state /\ handler' = handler /\ reported' = reported
      /\ queued' = queued /\ delivered' = delivered /\ undelivered' = undelivered /\ ret' = ret
  BY DEF Gives, TypeOK
<1>3. /\ \A d \in 1 .. z : \/ d < n /\ d \in 1 .. n /\ At(stack', d) = At(stack, d)
                           \/ d = n \/ d = n + 1 \/ d = n + 2
      /\ \A d \in 1 .. n : \/ d < n /\ d \in 1 .. z /\ At(stack', d) = At(stack, d)
                           \/ d = n
      /\ n \in 1 .. n /\ n + 1 \in 1 .. z /\ n + 2 \in 1 .. z /\ z \in Nat
  BY <1>1
<1>4. h \in Proc \cup {NoProc}
  BY DEF TypeOK
<1> HIDE DEF n, z
<1>5. \A d \in 1 .. z :
        /\ (At(stack', d).op \in {"deliver", "match", "report", "requeue", "redeliver", "orphaned"}) =>
              d < n /\ d \in 1 .. n /\ At(stack', d) = At(stack, d)
        /\ At(stack', d).op = "unread" =>
              \/ d < n /\ d \in 1 .. n /\ At(stack', d) = At(stack, d)
              \/ d = n + 2 /\ At(stack', d).proc = p
  BY <1>1, <1>3
<1>6. /\ \A d \in 1 .. z : Walks(d, m)' => d < n /\ d \in 1 .. n /\ At(stack', d) = At(stack, d) /\ Walks(d, m)
      /\ \A d \in 1 .. z : Matches(d, m)' => d < n /\ d \in 1 .. n /\ At(stack', d) = At(stack, d) /\ Matches(d, m)
      /\ \A d \in 1 .. z : Reports(d, m)' => d < n /\ d \in 1 .. n /\ Reports(d, m)
      /\ \A d \in 1 .. z : Requeues(d, m)' => d < n /\ d \in 1 .. n /\ Requeues(d, m)
      /\ \A d \in 1 .. n : Requeues(d, m) => d < n /\ d \in 1 .. z /\ Requeues(d, m)'
      /\ \A d \in 1 .. z : \A q : Reading(d, q)' => \/ d < n /\ d \in 1 .. n /\ Reading(d, q)
                                                    \/ d = n + 2 /\ q = p
  BY <1>1, <1>3, <1>5 DEF Walks, Matches, Reports, Requeues, Reading
<1>7. \A d \in 1 .. n : \A q : Deactivates(d, q) => q = p \/ (d \in 1 .. z /\ Deactivates(d, q)')
  BY <1>1, <1>3 DEF Deactivates
<1>8. \A q \in Proc : Dead(q) => Dead(q)'
  <2> SUFFICES ASSUME NEW q \in Proc, ~active[q], \A d \in 1 .. n : ~Reading(d, q)
               PROVE  ~active'[q] /\ \A d \in 1 .. z : ~Reading(d, q)'
    BY DEF Dead, Levels, n, z
  <2> QED
    BY <1>1, <1>2, <1>6
<1>9. ~Given(m) => ~Given(m)'
  BY <1>2 DEF Given
<1>10. Unheld(m) => Unheld(m)'
  BY <1>2, <1>4, <1>8 DEF Unheld
<1>11. Free(m) => Free(m)'
  BY <1>9, <1>10 DEF Free
<1>12. Over(m) => Over(m)'
  BY <1>2, <1>6, <1>11 DEF Over, Levels, n, z
<1>13. Created(m)'
  BY <1>2, <1>6, <1>9 DEF RequestInv, Created, Levels, n, z
<1>14. ChangeOk(m)'
  <2>1. ~Changes(m)'
    BY <1>1 DEF Changes, z
  <2> QED
    BY <2>1 DEF ChangeOk
<1>15. BestOk(m)'
  <2> SUFFICES ASSUME NEW d \in 1 .. z, Matches(d, m)', At(stack', d).best # NoProc
               PROVE  /\ state[m] = "SENT"
                      /\ \A c \in 1 .. z : c < d =>
                            ~ (At(stack', c).op = "unread" /\ At(stack', c).proc = At(stack', d).best)
    BY <1>2 DEF BestOk, Levels, z, Reading
  <2>1. d < n /\ d \in 1 .. n /\ At(stack', d) = At(stack, d) /\ Matches(d, m)
    BY <1>6
  <2>2. PICK b : b = At(stack, d).best
    OBVIOUS
  <2>3. state[m] = "SENT" /\ \A c \in 1 .. n : c < d => ~Reading(c, b)
    BY <2>1, <2>2 DEF RequestInv, BestOk, Levels, n
  <2>4. \A c \in 1 .. z : c < d => c # n + 2
    BY <1>1, <2>1
  <2>5. \A c \in 1 .. z : c < d => ~Reading(c, b)'
    BY <1>6, <2>3, <2>4
  <2>6. \A c \in 1 .. z : c < d => ~ (At(stack', c).op = "unread" /\ At(stack', c).proc = b)
    BY <2>5 DEF Reading
  <2> QED
    BY <2>1, <2>2, <2>3, <2>6
<1>16. ReportOk(m)' /\ OneWalk(m)'
  BY <1>2, <1>6 DEF RequestInv, ReportOk, OneWalk, Levels, n, z
<1>17. Transit(m)'
  <2> SUFFICES ASSUME NEW d \in 1 .. z, Walks(d, m)', state[m] \notin Final, h # NoProc
               PROVE  /\ \A c \in 1 .. z : c < d => ~Reading(c, h)'
                      /\ At(stack', d).op = "match" => Dead(h)'
                      /\ ~active'[h] \/ \E c \in 1 .. z : c > d /\ Deactivates(c, h)'
    BY <1>2 DEF Transit, Levels, z, Reading, Deactivates, Dead
  <2>1. d < n /\ d \in 1 .. n /\ At(stack', d) = At(stack, d) /\ Walks(d, m) /\ h \in Proc
    BY <1>4, <1>6
  <2>2. /\ \A c \in 1 .. n : c < d => ~Reading(c, h)
        /\ At(stack, d).op = "match" => Dead(h)
        /\ ~active[h] \/ \E c \in 1 .. n : c > d /\ Deactivates(c, h)
    BY <2>1 DEF RequestInv, Transit, Levels, n
  <2>3. \A c \in 1 .. z : c < d => ~Reading(c, h)'
    <3>1. \A c \in 1 .. z : c < d => c # n + 2
      BY <1>1, <2>1
    <3>2. PICK q : q = h
      OBVIOUS
    <3>3. \A c \in 1 .. z : c < d => ~Reading(c, q)'
      BY <1>6, <2>2, <3>1, <3>2
    <3> QED
      BY <1>2, <3>2, <3>3 DEF Reading
  <2>4. At(stack', d).op = "match" => Dead(h)'
    BY <1>2, <1>8, <2>1, <2>2 DEF Dead, Reading
  <2>5. ~active'[h] \/ \E c \in 1 .. z : c > d /\ Deactivates(c, h)'
    <3>1. CASE h = p
      BY <1>2, <2>1, <3>1
    <3>2. CASE h # p
      <4>1. CASE ~active[h]
        BY <1>2, <2>1, <4>1
      <4>2. ASSUME NEW c \in 1 .. n, c > d, Deactivates(c, h)
            PROVE  \E b \in 1 .. z : b > d /\ Deactivates(b, h)'
        <5>1. c \in 1 .. z /\ Deactivates(c, h)'
          BY <1>1, <1>2, <1>3, <3>2, <4>2 DEF Deactivates
        <5> QED
          BY <4>2, <5>1
      <4> QED
        BY <2>2, <4>1, <4>2
    <3> QED
      BY <3>1, <3>2
  <2> QED
    BY <2>3, <2>4, <2>5
<1>18. ReadOk(m)'
  <2> SUFFICES ASSUME NEW q \in Proc, m \in delivered[q]
               PROVE  /\ h = q
                      /\ active'[q] \/ \E d \in 1 .. z : At(stack', d).op = "unanswered" /\ At(stack', d).proc = q
                      /\ \/ state[m] = "SENT" /\ \A d \in 1 .. z : ~Walks(d, m)'
                         \/ state[m] \in Final /\ \E d \in 1 .. z : Settles(d, q, m)'
    BY <1>2 DEF ReadOk, Levels, z
  <2>1. /\ h = q
        /\ active[q] \/ \E d \in 1 .. n : At(stack, d).op = "unanswered" /\ At(stack, d).proc = q
        /\ \/ state[m] = "SENT" /\ \A d \in 1 .. n : ~Walks(d, m)
           \/ state[m] \in Final /\ \E d \in 1 .. n : Settles(d, q, m)
    BY DEF RequestInv, ReadOk, Levels, n
  <2>2. active'[q] \/ \E d \in 1 .. z : At(stack', d).op = "unanswered" /\ At(stack', d).proc = q
    BY <1>1, <1>2, <1>3, <2>1
  <2>3. \A d \in 1 .. n : Settles(d, q, m) => d \in 1 .. z /\ Settles(d, q, m)'
    BY <1>1, <1>3 DEF Settles
  <2>4. \A d \in 1 .. z : Walks(d, m)' => \E c \in 1 .. n : Walks(c, m)
    BY <1>6
  <2> QED
    BY <2>1, <2>2, <2>3, <2>4
<1>19. UnreadOk(m)'
  <2> SUFFICES ASSUME h # NoProc, Has(undelivered[h], m), state[m] \notin Final
               PROVE  /\ ~Given(m)'
                      /\ active'[h] =>
                           /\ state[m] = "SENT"
                           /\ \A d \in 1 .. z : Walks(d, m)' => At(stack', d).op = "deliver"
                                /\ \E c \in 1 .. z : c > d /\ Deactivates(c, h)'
                      /\ \A e \in 1 .. z : Reading(e, h)' =>
                           /\ state[m] = "SENT"
                           /\ \A d \in 1 .. z : Walks(d, m)' => At(stack', d).op = "deliver" /\ d < e
    BY <1>2 DEF UnreadOk, Levels, z, Deactivates, Reading
  <2>1. /\ ~Given(m)
        /\ active[h] =>
             /\ state[m] = "SENT"
             /\ \A d \in 1 .. n : Walks(d, m) => At(stack, d).op = "deliver"
                    /\ \E c \in 1 .. n : c > d /\ Deactivates(c, h)
        /\ \A e \in 1 .. n : Reading(e, h) =>
             /\ state[m] = "SENT"
             /\ \A d \in 1 .. n : Walks(d, m) => At(stack, d).op = "deliver" /\ d < e
        /\ h \in Proc
    BY <1>4 DEF RequestInv, UnreadOk, Levels, n
  <2>2. ASSUME active'[h]
        PROVE  /\ state[m] = "SENT"
               /\ \A d \in 1 .. z : Walks(d, m)' => At(stack', d).op = "deliver"
                                /\ \E c \in 1 .. z : c > d /\ Deactivates(c, h)'
    <3>1. active[h] /\ h # p
      BY <1>2, <2>1, <2>2
    <3>2. ASSUME NEW d \in 1 .. z, Walks(d, m)'
          PROVE  At(stack', d).op = "deliver" /\ \E c \in 1 .. z : c > d /\ Deactivates(c, h)'
      <4>1. d < n /\ d \in 1 .. n /\ At(stack', d) = At(stack, d) /\ Walks(d, m)
        BY <1>6, <3>2
      <4>2. At(stack, d).op = "deliver"
        BY <2>1, <3>1, <4>1
      <4>3. PICK c \in 1 .. n : c > d /\ Deactivates(c, h)
        BY <2>1, <3>1, <4>1
      <4>4. c \in 1 .. z /\ Deactivates(c, h)'
        BY <1>1, <1>2, <1>3, <3>1, <4>3 DEF Deactivates
      <4> QED
        BY <4>1, <4>2, <4>3, <4>4
    <3> QED
      BY <2>1, <3>1, <3>2
  <2>3. ASSUME NEW e \in 1 .. z, Reading(e, h)'
        PROVE  /\ state[m] = "SENT"
               /\ \A d \in 1 .. z : Walks(d, m)' => At(stack', d).op = "deliver" /\ d < e
    <3>1. (e < n /\ e \in 1 .. n /\ Reading(e, h)) \/ (e = n + 2 /\ h = p)
      BY <1>2, <1>5, <2>3 DEF Reading
    <3>2. CASE e < n /\ e \in 1 .. n /\ Reading(e, h)
      BY <1>6, <2>1, <3>2
    <3>3. CASE e = n + 2 /\ h = p
      <4>1. state[m] = "SENT" /\ \A d \in 1 .. n : Walks(d, m) => At(stack, d).op = "deliver"
        BY <1>1, <2>1, <3>3
      <4>2. \A d \in 1 .. z : d < n => d < e
        BY <1>1, <3>3
      <4> QED
        BY <1>6, <4>1, <4>2
    <3> QED
      BY <3>1, <3>2, <3>3
  <2> QED
    BY <1>9, <2>1, <2>2, <2>3
<1>20. QueuedOk(m)'
  <2>1. state'[m] = "QUEUED" => Free(m)'
    BY <1>2, <1>11 DEF RequestInv, QueuedOk
  <2>2. (\E d \in 1 .. n : Requeues(d, m)) <=> (\E d \in 1 .. z : Requeues(d, m)')
    BY <1>6
  <2>3. \A d \in 1 .. z : Requeues(d, m)' => state'[m] # "QUEUED"
    BY <1>2, <1>6 DEF RequestInv, QueuedOk, Levels, n
  <2>4. \A d \in 1 .. z : At(stack', d).op = "redeliver" /\ m \in At(stack', d).todo => state'[m] = "QUEUED"
    BY <1>2, <1>5 DEF RequestInv, QueuedOk, Levels, n
  <2>5. /\ m \in queued <=> (state[m] = "QUEUED" \/ \E d \in 1 .. n : Requeues(d, m))
        /\ m \in queued => "QUEUED" \in reported[m] /\ m \in Queueable
    BY DEF RequestInv, QueuedOk, Levels, n
  <2>6. /\ m \in queued' <=> (state'[m] = "QUEUED" \/ \E d \in 1 .. z : Requeues(d, m)')
        /\ m \in queued' => "QUEUED" \in reported'[m] /\ m \in Queueable
    BY <1>2, <2>2, <2>5
  <2> QED
    BY <2>1, <2>3, <2>4, <2>6 DEF QueuedOk, Levels, z
<1>21. RequeueOk(m)'
  <2> SUFFICES ASSUME NEW d \in 1 .. z, Requeues(d, m)'
               PROVE  /\ d # z
                      /\ \/ Walks(d + 1, m)'
                         \/ At(stack', d + 1).op = "return" /\ (At(stack', d + 1).val \/ Over(m)')
    BY DEF RequeueOk, Levels, z
  <2>1. d < n /\ d \in 1 .. n /\ Requeues(d, m)
    BY <1>6
  <2>2. \/ Walks(d + 1, m)
        \/ At(stack, d + 1).op = "return" /\ (At(stack, d + 1).val \/ Over(m))
    BY <2>1 DEF RequeueOk, RequestInv, Levels, n
  <2>3. d + 1 # n
    BY <1>1, <2>1, <2>2 DEF Walks
  <2>4. d + 1 \in 1 .. n - 1 /\ d # z
    BY <1>1, <2>1, <2>3
  <2>5. At(stack', d + 1) = At(stack, d + 1)
    BY <1>1, <2>4
  <2> QED
    BY <1>12, <2>2, <2>4, <2>5 DEF Walks
<1> QED
  BY <1>13, <1>14, <1>15, <1>16, <1>17, <1>18, <1>19, <1>20, <1>21 DEF RequestInv

\* A procid is given up.
LEMMA GivesInv ==
    ASSUME TypeOK, BaseInv, NEW p \in Proc, Gives(p)
    PROVE  BaseInv'
<1> DEFINE n == Len(stack)
           z == Len(stack')
<1>1. /\ n \in Nat \ {0} /\ z = n + 2
      /\ \A d \in 1 .. n - 1 : At(stack', d) = At(stack, d)
      /\ At(stack, n).op = "deactivate" /\ At(stack, n).proc = p
      /\ At(stack', n).op = "forget"
      /\ At(stack', n + 1).op = "unanswered" /\ At(stack', n + 1).proc = p
      /\ At(stack', n + 2).op = "unread" /\ At(stack', n + 2).proc = p
      /\ active[p]
  BY DEF Gives, Lower
<1>2. /\ \A q \in Proc : active'[q] <=> active[q] /\ q # p
      /\ \A q \in Proc : q # p => channel'[q] = channel[q]
      /\ UNCHANGED <<alive, plan, rpc, signalled, undelivered, state>>
  BY DEF Gives, TypeOK
<1>3. /\ \A d \in 1 .. z : \/ d < n /\ d \in 1 .. n /\ At(stack', d) = At(stack, d)
                           \/ d = n \/ d = n + 1 \/ d = n + 2
      /\ n \in 1 .. n /\ z \in Nat
  BY <1>1
<1> HIDE DEF n, z
<1>4. \A d \in 1 .. z :
        /\ At(stack', d).op \in {"orphaned", "deactivate", "redeliver", "requeue", "change"} =>
              d < n /\ d \in 1 .. n /\ At(stack', d) = At(stack, d)
        /\ At(stack', d).op \in {"unread", "unanswered"} =>
              \/ d < n /\ d \in 1 .. n /\ At(stack', d) = At(stack, d)
              \/ d > n /\ At(stack', d).proc = p
  BY <1>1, <1>3
<1>5. FramesInv /\ ListsInv /\ CallsInv
  BY DEF BaseInv
<1>6. \A d \in 1 .. n : /\ At(stack, d).op \in Cursors => ~active[At(stack, d).proc]
                        /\ At(stack, d).op = "change" => d = n
  BY <1>5 DEF FramesInv, DeadFrames, Tops, Levels, n
<1>7. \A d \in 1 .. n : At(stack, d).op \in Cursors => At(stack, d).proc \in Proc
  <2> SUFFICES ASSUME NEW d \in 1 .. n, At(stack, d).op \in Cursors PROVE At(stack, d).proc \in Proc
    OBVIOUS
  <2>1. At(stack, d) \in Frame
    BY FrameAt DEF TypeOK, n
  <2> QED
    BY <2>1, FramesRead DEF Cursors
<1>8. Tops'
  BY <1>1, <1>3, <1>4, <1>6 DEF Tops, Levels, z
<1>9. DeadFrames'
  <2> SUFFICES ASSUME NEW d \in 1 .. z, At(stack', d).op \in Cursors
               PROVE  ~active'[At(stack', d).proc]
    BY DEF DeadFrames, Levels, z
  <2>1. \/ d \in 1 .. n /\ At(stack', d) = At(stack, d)
        \/ At(stack', d).proc = p
    BY <1>4 DEF Cursors
  <2> QED
    BY <1>2, <1>6, <1>7, <2>1
<1>10. Nested'
  <2> SUFFICES ASSUME NEW c \in 1 .. z, NEW d \in 1 .. z, At(stack', d).op \in {"unread", "unanswered"},
                      At(stack', c).op = "orphaned", c < d
               PROVE  At(stack', c).proc # At(stack', d).proc
    BY DEF Nested, Levels, z
  <2>1. c \in 1 .. n /\ At(stack', c) = At(stack, c)
    BY <1>4
  <2>2. CASE d \in 1 .. n /\ At(stack', d) = At(stack, d)
    BY <1>5, <2>1, <2>2 DEF FramesInv, Nested, Levels, n
  <2>3. CASE At(stack', d).proc = p
    BY <1>1, <1>6, <2>1, <2>3 DEF Cursors
  <2> QED
    BY <1>4, <2>2, <2>3
<1>11. OneCursor'
  BY <1>4, <1>5 DEF FramesInv, OneCursor, Levels, n, z
<1>12. QueueFrames'
  <2>1. \A d \in 1 .. n : /\ At(stack, d).op = "redeliver" => d = 1
                          /\ At(stack, d).op = "requeue" =>
                                /\ d = 2 /\ At(stack, 1).op = "redeliver"
                                /\ At(stack, d).msg \notin At(stack, 1).todo
    BY <1>5 DEF FramesInv, QueueFrames, Levels, n
  <2>2. n > 2 => At(stack', 1) = At(stack, 1)
    BY <1>1
  <2> QED
    BY <1>4, <2>1, <2>2 DEF QueueFrames, Levels, z
<1>13. ListsInv'
  <2>1. NoneTwice'
    BY <1>2, <1>5 DEF ListsInv, NoneTwice
  <2>2. CursorKept'
    BY <1>2, <1>4, <1>5 DEF ListsInv, CursorKept, Levels, n, z
  <2> QED
    BY <2>1, <2>2 DEF ListsInv
<1>14. CallsInv'
  <2>1. Linked' /\ LastCall' /\ NotPlanned' /\ Asked'
    BY <1>2, <1>5 DEF CallsInv, Linked, LastCall, NotPlanned, Asked, Awaits
  <2>2. Losing'
    BY <1>2, <1>4, <1>5 DEF CallsInv, Losing, Levels, Awaits, n, z
  <2>3. p \notin alive /\ ~Awaits(p)
    BY <1>1, <1>3, <1>5 DEF CallsInv, Losing, Levels, n
  <2>4. Lost'
    BY <1>2, <1>5, <2>3 DEF CallsInv, Lost, Awaits
  <2> QED
    BY <2>1, <2>2, <2>4 DEF CallsInv
<1>15. ASSUME NEW m \in Msg PROVE RequestInv(m)' /\ Sending(m)'
  <2>1. RequestInv(m)'
    BY GivesSame DEF BaseInv
  <2>2. Sending(m)'
    BY <1>2, SendingStep DEF BaseInv
  <2> QED
    BY <2>1, <2>2
<1> QED
  BY <1>8, <1>9, <1>10, <1>11, <1>12, <1>13, <1>14, <1>15 DEF BaseInv, FramesInv

\* The deactivation of a procid begins, or finds it inactive.
LEMMA RunDeactivateInv == ASSUME TypeOK, BaseInv, RunDeactivate PROVE BaseInv'
<1>1. /\ Running("deactivate") /\ Head(stack) \in Frame /\ Head(stack).op = "deactivate"
      /\ stack # << >> /\ Len(stack) \in Nat \ {0} /\ At(stack, Len(stack)) = Head(stack)
  BY TopAt DEF RunDeactivate, Running
<1>2. PICK p \in Proc : p = Head(stack).proc
  BY <1>1, FramesRead
<1>3. CASE ~active[p]
  <2>1. Quiet /\ stack' = Tail(stack)
    BY <1>2, <1>3 DEF RunDeactivate, Quiet, clientVars, msgVars
  <2> QED
    BY <1>1, <1>2, <1>3, <2>1, QuietPop
<1>4. CASE active[p]
  <2>1. /\ active' = [active EXCEPT ![p] = FALSE] /\ channel' = [channel EXCEPT ![p] = FALSE]
        /\ stack' = <<Unread(p), Unanswered(p), Forget(p)>> \o Tail(stack)
        /\ UNCHANGED <<alive, plan, rpc, signalled, undelivered, delivered, state, handler,
                       reported, queued, ret>>
    BY <1>2, <1>4 DEF RunDeactivate, clientVars, msgVars
  <2>2. /\ Unread(p) \in Frame /\ Unread(p).op = "unread" /\ Unread(p).proc = p
        /\ Unanswered(p) \in Frame /\ Unanswered(p).op = "unanswered" /\ Unanswered(p).proc = p
        /\ Forget(p) \in Frame /\ Forget(p).op = "forget"
    BY FramesMade DEF Unread, Unanswered, Forget
  <2>3. /\ Len(stack') = Len(stack) + 2 /\ Lower(Len(stack) - 1)
        /\ At(stack', Len(stack)) = Forget(p)
        /\ At(stack', Len(stack) + 1) = Unanswered(p)
        /\ At(stack', Len(stack) + 2) = Unread(p)
    BY <1>1, <2>1, <2>2, Instead
  <2>4. Gives(p)
    BY <1>1, <1>2, <1>4, <2>1, <2>2, <2>3 DEF Gives
  <2> QED
    BY <2>4, GivesInv
<1> QED
  BY <1>3, <1>4

-----------------------------------------------------------------------------
(* A message of the client is failed, under a cursor. *)

\* The cursor r of p stands on m, whose state may be changed first.
Fouls(p, m, r) ==
    LET n == Len(stack)
        z == Len(stack')
        g == At(stack', n + 1)
    IN /\ n \in Nat \ {0} /\ z \in {n + 1, n + 2} /\ Lower(n)
       /\ At(stack, n).op \in {"unread", "unanswered"} /\ At(stack, n).proc = p
       /\ g.op = "orphaned" /\ g.proc = p /\ g.msg = m /\ g.wasRead = r
       /\ z = n + 2 => At(stack', z).op = "change" /\ At(stack', z).msg = m
       /\ ~r => undelivered[p] # << >> /\ Head(undelivered[p]).msg = m
       /\ Quiet /\ ret' = ret

\* The deactivation of a procid takes up one of its messages.
LEMMA FoulsInv ==
    ASSUME TypeOK, BaseInv, NEW p \in Proc, NEW m \in Msg, NEW r \in BOOLEAN, Fouls(p, m, r),
           Len(stack') = Len(stack) + 2 => ChangeOk(m)'
    PROVE  BaseInv'
<1> DEFINE n == Len(stack)
           z == Len(stack')
<1>1. /\ n \in Nat \ {0} /\ z \in {n + 1, n + 2}
      /\ \A d \in 1 .. n : At(stack', d) = At(stack, d)
      /\ At(stack, n).op \in {"unread", "unanswered"} /\ At(stack, n).proc = p
      /\ At(stack', n + 1).op = "orphaned" /\ At(stack', n + 1).proc = p
      /\ At(stack', n + 1).msg = m /\ At(stack', n + 1).wasRead = r
      /\ z = n + 2 => At(stack', z).op = "change" /\ At(stack', z).msg = m
      /\ ~r => undelivered[p] # << >> /\ Head(undelivered[p]).msg = m
      /\ Lower(n) /\ Quiet
  BY DEF Fouls, Lower
<1>2. /\ \A d \in 1 .. z : \/ d <= n /\ d \in 1 .. n /\ At(stack', d) = At(stack, d)
                           \/ d = n + 1 /\ d > n
                           \/ d = n + 2 /\ d = z /\ d > n
      /\ n \in 1 .. n /\ n + 1 \in 1 .. z /\ z \in Nat
      /\ \A d \in 1 .. n : d \in 1 .. z /\ At(stack', d) = At(stack, d)
  BY <1>1
<1>3. Calls(n)
  BY <1>1 DEF Calls
<1> HIDE DEF n, z
<1>4. FramesInv /\ ListsInv /\ CallsInv
  BY DEF BaseInv
<1>5. \A d \in 1 .. z :
        /\ At(stack', d).op \in {"unread", "unanswered", "redeliver", "requeue", "deactivate"} =>
              d \in 1 .. n /\ At(stack', d) = At(stack, d)
        /\ At(stack', d).op = "orphaned" =>
              (d \in 1 .. n /\ At(stack', d) = At(stack, d)) \/ d = n + 1
        /\ At(stack', d).op = "change" => d = z
  <2>1. \A d \in 1 .. n : At(stack, d).op = "change" => d = n
    BY <1>4 DEF FramesInv, Tops, Levels, n
  <2>2. At(stack, n).op # "change"
    BY <1>1
  <2> QED
    BY <1>1, <1>2, <2>1, <2>2
<1>6. active' = active /\ undelivered' = undelivered
  BY <1>1 DEF Quiet
<1>7. \A c \in 1 .. n : At(stack, c).op = "orphaned" => At(stack, c).proc # p
  <2> SUFFICES ASSUME NEW c \in 1 .. n, At(stack, c).op = "orphaned" PROVE At(stack, c).proc # p
    OBVIOUS
  <2>0. At(stack, n).op \in {"unread", "unanswered"}
    BY <1>1
  <2>1. c < n
    BY <1>1, <2>0
  <2> QED
    BY <1>1, <1>2, <1>4, <2>0, <2>1 DEF FramesInv, Nested, Levels, n
<1>8. Tops'
  BY <1>5 DEF Tops, Levels, z
<1>9. DeadFrames'
  <2>1. \A d \in 1 .. n : At(stack, d).op \in Cursors => ~active[At(stack, d).proc]
    BY <1>4 DEF FramesInv, DeadFrames, Levels, n
  <2>2. ~active[p]
    BY <1>1, <1>2, <2>1 DEF Cursors
  <2> QED
    BY <1>1, <1>5, <1>6, <2>1, <2>2 DEF DeadFrames, Levels, z, Cursors
<1>10. Nested'
  <2> SUFFICES ASSUME NEW c \in 1 .. z, NEW d \in 1 .. z, At(stack', d).op \in {"unread", "unanswered"},
                      At(stack', c).op = "orphaned", c < d
               PROVE  At(stack', c).proc # At(stack', d).proc
    BY DEF Nested, Levels, z
  <2>1. d \in 1 .. n /\ At(stack', d) = At(stack, d)
    BY <1>5
  <2>2. c \in 1 .. n /\ At(stack', c) = At(stack, c)
    BY <1>2, <2>1
  <2> QED
    BY <1>4, <2>1, <2>2 DEF FramesInv, Nested, Levels, n
<1>11. OneCursor'
  <2> SUFFICES ASSUME NEW c \in 1 .. z, NEW d \in 1 .. z, At(stack', d).op = "orphaned",
                      At(stack', c).op = "orphaned", ~At(stack', c).wasRead, ~At(stack', d).wasRead,
                      At(stack', c).proc = At(stack', d).proc
               PROVE  c = d
    BY DEF OneCursor, Levels, z
  <2>1. \/ c \in 1 .. n /\ d \in 1 .. n /\ At(stack', c) = At(stack, c) /\ At(stack', d) = At(stack, d)
        \/ c = n + 1 /\ d = n + 1
    BY <1>1, <1>5, <1>7
  <2> QED
    BY <1>4, <2>1 DEF FramesInv, OneCursor, Levels, n
<1>12. QueueFrames'
  <2>1. At(stack', 1) = At(stack, 1)
    BY <1>1
  <2> QED
    BY <1>4, <1>5, <2>1 DEF FramesInv, QueueFrames, Levels, n, z
<1>13. ListsInv'
  <2>1. NoneTwice'
    BY <1>4, <1>6 DEF ListsInv, NoneTwice
  <2>2. CursorKept'
    BY <1>1, <1>4, <1>5, <1>6 DEF ListsInv, CursorKept, Levels, n, z
  <2> QED
    BY <2>1, <2>2 DEF ListsInv
<1>14. CallsInv'
  <2>1. \A d \in Added(n) : At(stack', d).op # "deactivate"
    BY <1>1, <1>2 DEF Added, z
  <2>2. Served /\ UNCHANGED <<active, channel>>
    BY <1>1 DEF Served, Quiet
  <2> QED
    BY <1>3, <1>4, <2>1, <2>2, CallsStep
<1>15. ASSUME NEW x \in Msg PROVE RequestInv(x)'
  <2>1. \A d \in Added(n) : \/ d = n + 1
                            \/ d = n + 2 /\ d = z /\ At(stack', d).op = "change" /\ At(stack', d).msg = m
    BY <1>1, <1>2 DEF Added, z
  <2>2. Elsewhere(x, n)
    BY <1>1, <2>1 DEF Elsewhere
  <2>3. n # n - 1
    BY <1>1
  <2>4. Passed(x, n)
    BY <1>1, <2>3 DEF Passed, n
  <2>5. Same(x) /\ active' = active
    BY <1>1 DEF Same, Quiet
  <2>6. Near(x, n)
    BY <1>3, <2>2, <2>4, <2>5 DEF Near, Same
  <2>7. handler[x] \in Proc \cup {NoProc}
    BY DEF TypeOK
  <2>8. CASE x # m \/ z = n + 1
    <3>1. \A d \in Added(n) : At(stack', d).op = "change" => At(stack', d).msg # x
      BY <1>1, <2>1, <2>8
    <3>2. Aside(x, n)
      BY <2>6, <3>1 DEF Aside
    <3> QED
      BY <1>4, <2>7, <3>2, AsideStep DEF BaseInv
  <2>9. CASE x = m /\ z = n + 2
    <3>1. ChangeOk(x)'
      BY <2>9 DEF n, z
    <3> QED
      BY <1>4, <2>6, <2>7, <3>1, NearStep DEF BaseInv
  <2> QED
    BY <1>1, <2>8, <2>9
<1>16. \A x \in Msg : Sending(x)'
  BY <1>1, SendingStep DEF BaseInv, Quiet
<1> QED
  BY <1>8, <1>9, <1>10, <1>11, <1>12, <1>13, <1>14, <1>15, <1>16 DEF BaseInv, FramesInv

\* A request that p was to handle, and has not read, may fail.
LEMMA UnreadFails ==
    ASSUME TypeOK, BaseInv, NEW p \in Proc, NEW m \in Msg, Fouls(p, m, FALSE),
           At(stack, Len(stack)).op = "unread", Len(stack') = Len(stack) + 2,
           At(stack', Len(stack) + 2).to = "FAILED",
           Has(undelivered[p], m), handler[m] = p, state[m] \notin Final
    PROVE  ChangeOk(m)'
<1> DEFINE n == Len(stack)
           z == Len(stack')
<1>1. /\ n \in Nat \ {0} /\ z = n + 2
      /\ \A d \in 1 .. n : At(stack', d) = At(stack, d)
      /\ At(stack, n).op = "unread" /\ At(stack, n).proc = p
      /\ At(stack', n + 1).op = "orphaned"
      /\ At(stack', z).op = "change" /\ At(stack', z).msg = m /\ At(stack', z).to = "FAILED"
      /\ state' = state /\ delivered' = delivered
  BY DEF Fouls, Lower, Quiet
<1>2. \A d \in 1 .. z : \/ d \in 1 .. n /\ At(stack', d) = At(stack, d)
                        \/ d = n + 1
                        \/ d = z
  BY <1>1
<1>3. n \in 1 .. n
  BY <1>1
<1> HIDE DEF n, z
<1>4. p # NoProc
  BY SessionAssumption
<1>5. Reading(n, p)
  BY <1>1 DEF Reading
<1>6. /\ ~Given(m) /\ state[m] = "SENT"
      /\ \A d \in 1 .. n : Walks(d, m) => At(stack, d).op = "deliver"
  BY <1>3, <1>4, <1>5 DEF BaseInv, RequestInv, UnreadOk, Levels, n
<1>7. \A d \in 1 .. n : ~Matches(d, m)
  BY <1>6 DEF Matches, Walks
<1>8. \A d \in 1 .. z : ~Matches(d, m)'
  BY <1>1, <1>2, <1>7 DEF Matches
<1> QED
  BY <1>1, <1>6, <1>8 DEF ChangeOk, Levels, z, Given

\* A request that p has read, and owes an update for, may fail.
LEMMA UnansweredFails ==
    ASSUME TypeOK, BaseInv, NEW p \in Proc, NEW m \in Msg, Fouls(p, m, TRUE),
           At(stack, Len(stack)).op = "unanswered", Len(stack') = Len(stack) + 2,
           At(stack', Len(stack) + 2).to = "FAILED",
           m \in delivered[p]
    PROVE  ChangeOk(m)'
<1> DEFINE n == Len(stack)
           z == Len(stack')
<1>1. /\ n \in Nat \ {0} /\ z = n + 2
      /\ \A d \in 1 .. n : At(stack', d) = At(stack, d)
      /\ At(stack, n).op = "unanswered" /\ At(stack, n).proc = p
      /\ At(stack', n + 1).op = "orphaned" /\ At(stack', n + 1).proc = p
      /\ At(stack', n + 1).msg = m /\ At(stack', n + 1).wasRead
      /\ At(stack', z).op = "change" /\ At(stack', z).msg = m /\ At(stack', z).to = "FAILED"
      /\ state' = state /\ delivered' = delivered
  BY DEF Fouls, Lower, Quiet
<1>2. /\ \A d \in 1 .. z : \/ d \in 1 .. n /\ At(stack', d) = At(stack, d)
                           \/ d = n + 1
                           \/ d = z
      /\ n \in 1 .. n /\ z > 1 /\ z - 1 = n + 1
  BY <1>1
<1> HIDE DEF n, z
<1>3. /\ handler[m] = p
      /\ \/ state[m] = "SENT" /\ \A d \in 1 .. n : ~Walks(d, m)
         \/ \E d \in 1 .. n : Settles(d, p, m)
  BY DEF BaseInv, RequestInv, ReadOk, Levels, n
<1>4. \A d \in 1 .. n : ~Settles(d, p, m)
  <2> SUFFICES ASSUME NEW d \in 1 .. n, At(stack, d).op = "orphaned", At(stack, d).proc = p PROVE FALSE
    BY DEF Settles
  <2>1. d < n
    BY <1>1
  <2> QED
    BY <1>1, <1>2, <2>1 DEF BaseInv, FramesInv, Nested, Levels, n
<1>5. state[m] = "SENT" /\ \A d \in 1 .. n : ~Matches(d, m)
  BY <1>3, <1>4 DEF Matches, Walks
<1>6. \A d \in 1 .. z : ~Matches(d, m)'
  BY <1>1, <1>2, <1>5 DEF Matches
<1>7. \A q \in Proc : m \in delivered'[q] => q = p
  BY <1>1, <1>3 DEF BaseInv, RequestInv, ReadOk
<1>8. At(stack', z - 1).op = "orphaned" /\ At(stack', z - 1).proc = p
      /\ At(stack', z - 1).msg = m /\ At(stack', z - 1).wasRead
  BY <1>1, <1>2
<1>9. \A q \in Proc : m \in delivered'[q] => z > 1 /\ Settles(Len(stack) - 1, q, m)'
  BY <1>2, <1>7, <1>8 DEF Settles, z
<1> QED
  BY <1>1, <1>5, <1>6, <1>9 DEF ChangeOk, Levels, z

\* A message that was not read fails, if its list belongs to its handler.
LEMMA RunUnreadInv == ASSUME TypeOK, BaseInv, RunUnread PROVE BaseInv'
<1>1. /\ Running("unread") /\ Head(stack) \in Frame /\ Head(stack).op = "unread"
      /\ stack # << >> /\ Len(stack) \in Nat \ {0} /\ At(stack, Len(stack)) = Head(stack)
  BY TopAt DEF RunUnread, Running
<1>2. PICK p \in Proc : p = Head(stack).proc
  BY <1>1, FramesRead
<1> DEFINE u == undelivered[p]
           e == Head(u)
<1>3. Quiet /\ ret' = ret
  BY DEF RunUnread, Quiet, clientVars, procVars, msgVars
<1>4. \/ stack' = Tail(stack)
      \/ u # << >> /\ stack' = FailUnread(p, e) \o <<Orphaned(p, e.msg, FALSE)>> \o stack
  BY <1>2 DEF RunUnread
<1>5. CASE stack' = Tail(stack)
  BY <1>1, <1>3, <1>5, QuietPop
<1>6. CASE u # << >> /\ stack' = FailUnread(p, e) \o <<Orphaned(p, e.msg, FALSE)>> \o stack
  <2>1. u \in Seq(Entry) /\ e \in Entry /\ e = u[1] /\ 1 \in 1 .. Len(u)
    BY <1>6, HeadTailProperties, EmptySeq DEF TypeOK
  <2>2. e.msg \in Msg /\ (e.seen = "LIVE" => e = Live(e.msg))
    BY <2>1 DEF Entry, Live
  <2>3. PICK m \in Msg : m = e.msg
    BY <2>2
  <2> DEFINE o == Orphaned(p, m, FALSE)
             c == Change(m, "FAILED")
  <2>4. /\ o \in Frame /\ o.op = "orphaned" /\ o.proc = p /\ o.msg = m /\ o.wasRead = FALSE
        /\ c \in Frame /\ c.op = "change" /\ c.msg = m /\ c.to = "FAILED"
    BY FramesMade DEF Orphaned, Change, Final
  <2> HIDE DEF o, c, u, e
  <2>5. CASE e.seen = "LIVE" /\ Processing(p, m)
    <3>1. FailUnread(p, e) = <<c>>
      BY <2>3, <2>5 DEF FailUnread, c
    <3>2. stack' = <<c, o>> \o stack
      <4>1. stack' = <<c>> \o <<o>> \o stack
        BY <1>6, <2>3, <3>1 DEF o
      <4>2. <<c>> \o <<o>> = <<c, o>>
        BY <2>4, PushPush DEF TypeOK
      <4> QED
        BY <4>1, <4>2
    <3>3. /\ Len(stack') = Len(stack) + 2 /\ Lower(Len(stack))
          /\ At(stack', Len(stack) + 1) = o /\ At(stack', Len(stack) + 2) = c
      BY <2>4, <3>2, Called
    <3>4. Fouls(p, m, FALSE)
      BY <1>1, <1>2, <1>3, <1>6, <2>3, <2>4, <3>3 DEF Fouls, u, e
    <3>5. Has(undelivered[p], m)
      BY <2>1, <2>2, <2>3, <2>5 DEF Has, u
    <3>6. ChangeOk(m)'
      BY <1>1, <2>4, <2>5, <3>3, <3>4, <3>5, UnreadFails DEF Processing
    <3> QED
      BY <3>4, <3>6, FoulsInv
  <2>6. CASE ~(e.seen = "LIVE" /\ Processing(p, m))
    <3>1. FailUnread(p, e) = << >>
      BY <2>3, <2>6 DEF FailUnread
    <3>2. stack' = <<o>> \o stack
      <4>1. << >> \o (<<o>> \o stack) = <<o>> \o stack
        BY <2>4, PushOne DEF TypeOK
      <4>2. stack' = << >> \o <<o>> \o stack
        BY <1>6, <2>3, <3>1 DEF o
      <4>3. << >> \o <<o>> = <<o>>
        OBVIOUS
      <4> QED
        BY <4>2, <4>3
    <3>3. /\ Len(stack') = Len(stack) + 1 /\ Lower(Len(stack))
          /\ At(stack', Len(stack) + 1) = o
      BY <2>4, <3>2, Called
    <3>5. Len(stack') # Len(stack) + 2
      BY <1>1, <3>3
    <3>4. Fouls(p, m, FALSE)
      BY <1>1, <1>2, <1>3, <1>6, <2>3, <2>4, <3>3, <3>5 DEF Fouls, u, e
    <3> QED
      BY <3>4, <3>5, FoulsInv
  <2> QED
    BY <2>5, <2>6
<1> QED
  BY <1>4, <1>5, <1>6

\* A request that was read and not answered fails.
LEMMA RunUnansweredInv == ASSUME TypeOK, BaseInv, RunUnanswered PROVE BaseInv'
<1>1. /\ Running("unanswered") /\ Head(stack) \in Frame /\ Head(stack).op = "unanswered"
      /\ stack # << >> /\ Len(stack) \in Nat \ {0} /\ At(stack, Len(stack)) = Head(stack)
  BY TopAt DEF RunUnanswered, Running
<1>2. PICK p \in Proc : p = Head(stack).proc
  BY <1>1, FramesRead
<1>3. Quiet /\ ret' = ret
  BY DEF RunUnanswered, Quiet, clientVars, procVars, msgVars
<1>4. \/ delivered[p] = {} /\ stack' = Tail(stack)
      \/ \E m \in delivered[p] : stack' = FailUnanswered(p, m) \o stack
  BY <1>2 DEF RunUnanswered
<1>5. CASE delivered[p] = {} /\ stack' = Tail(stack)
  BY <1>1, <1>2, <1>3, <1>5, QuietPop
<1>6. CASE \E m \in delivered[p] : stack' = FailUnanswered(p, m) \o stack
  <2>1. PICK m \in delivered[p] : stack' = FailUnanswered(p, m) \o stack
    BY <1>6
  <2>2. m \in Msg
    BY DEF TypeOK
  <2> DEFINE o == Orphaned(p, m, TRUE)
             c == Change(m, "FAILED")
  <2>3. /\ o \in Frame /\ o.op = "orphaned" /\ o.proc = p /\ o.msg = m /\ o.wasRead = TRUE
        /\ c \in Frame /\ c.op = "change" /\ c.msg = m /\ c.to = "FAILED"
    BY <2>2, FramesMade DEF Orphaned, Change, Final
  <2>4. stack' = <<c, o>> \o stack
    BY <2>1 DEF FailUnanswered
  <2> HIDE DEF o, c
  <2>5. /\ Len(stack') = Len(stack) + 2 /\ Lower(Len(stack))
        /\ At(stack', Len(stack) + 1) = o /\ At(stack', Len(stack) + 2) = c
    BY <2>3, <2>4, Called
  <2>6. Fouls(p, m, TRUE)
    BY <1>1, <1>2, <1>3, <2>3, <2>5 DEF Fouls
  <2>7. ChangeOk(m)'
    BY <1>1, <2>2, <2>3, <2>5, <2>6, UnansweredFails
  <2> QED
    BY <2>2, <2>6, <2>7, FoulsInv
<1> QED
  BY <1>4, <1>5, <1>6

(* The queue of the session. *)

\* m is taken up again.
TakesUp(m) ==
    /\ Len(stack) = 1 /\ Len(stack') = 3
    /\ At(stack, 1).op = "redeliver" /\ m \in At(stack, 1).todo
    /\ At(stack', 1).op = "redeliver" /\ At(stack', 1).todo = At(stack, 1).todo \ {m}
    /\ At(stack', 2).op = "requeue" /\ At(stack', 2).msg = m
    /\ At(stack', 3).op = "deliver" /\ At(stack', 3).msg = m
    /\ state' = [state EXCEPT ![m] = "SENT"]
    /\ UNCHANGED <<alive, plan, rpc, active, channel, signalled, undelivered, delivered,
                   handler, reported, queued, ret>>

\* The queued request that is taken up.
LEMMA TakesUpSame ==
    ASSUME TypeOK, BaseInv, NEW m \in Msg, TakesUp(m)
    PROVE  RequestInv(m)'
<1>1. /\ 1 .. Len(stack) = {1} /\ 1 .. Len(stack') = {1, 2, 3} /\ Len(stack') = 3
      /\ At(stack, 1).op = "redeliver" /\ m \in At(stack, 1).todo
      /\ At(stack', 1).op = "redeliver" /\ m \notin At(stack', 1).todo
      /\ At(stack', 2).op = "requeue" /\ At(stack', 2).msg = m
      /\ At(stack', 3).op = "deliver" /\ At(stack', 3).msg = m
  BY DEF TakesUp
<1>2. /\ state'[m] = "SENT" /\ handler' = handler /\ active' = active /\ delivered' = delivered
      /\ queued' = queued /\ reported' = reported
  BY DEF TakesUp, TypeOK
<1>3. RequestInv(m)
  BY DEF BaseInv
<1>4. state[m] = "QUEUED" /\ Free(m)
  BY <1>1, <1>3 DEF RequestInv, QueuedOk, Levels
<1>5. m \in queued /\ "QUEUED" \in reported[m] /\ m \in Queueable
  BY <1>3, <1>4 DEF RequestInv, QueuedOk
<1>6. ~Given(m)' /\ (handler[m] # NoProc => ~active[handler[m]])
  BY <1>2, <1>4 DEF Free, Given, Unheld, Dead
<1>7. /\ \A d \in {1, 2, 3} : Walks(d, m)' => d = 3
      /\ \A d \in {1, 2, 3} : ~Matches(d, m)' /\ ~Reports(d, m)'
      /\ \A d \in {1, 2, 3} : Requeues(d, m)' <=> d = 2
      /\ \A d \in {1, 2, 3} : \A p : ~Reading(d, p)'
  BY <1>1 DEF Walks, Matches, Reports, Requeues, Reading
<1>8. ~Changes(m)'
  BY <1>1 DEF Changes
<1>9. Created(m)' /\ ChangeOk(m)' /\ BestOk(m)' /\ ReportOk(m)'
  BY <1>1, <1>2, <1>7, <1>8 DEF Created, ChangeOk, BestOk, ReportOk, Levels
<1>10. OneWalk(m)'
  BY <1>1, <1>7 DEF OneWalk, Levels
<1>11. Transit(m)'
  <2> SUFFICES ASSUME NEW d \in {1, 2, 3}, Walks(d, m)', handler[m] # NoProc
               PROVE  /\ \A c \in {1, 2, 3} : ~Reading(c, handler[m])'
                      /\ At(stack', d).op # "match"
                      /\ ~active[handler[m]]
    BY <1>1, <1>2 DEF Transit, Levels
  <2>1. d = 3
    BY <1>7
  <2>2. \A c \in {1, 2, 3} : ~Reading(c, handler[m])'
    BY <1>7
  <2> QED
    BY <1>1, <1>6, <2>1, <2>2
<1>12. ReadOk(m)'
  BY <1>6 DEF ReadOk, Given
<1>13. UnreadOk(m)'
  <2> SUFFICES ASSUME handler[m] # NoProc
               PROVE  ~Given(m)' /\ ~active[handler[m]] /\ \A e \in {1, 2, 3} : ~Reading(e, handler[m])'
    BY <1>1, <1>2 DEF UnreadOk, Levels
  <2>1. \A e \in {1, 2, 3} : ~Reading(e, handler[m])'
    BY <1>7
  <2> QED
    BY <1>6, <2>1
<1>14. QueuedOk(m)'
  <2>1. \E d \in {1, 2, 3} : Requeues(d, m)'
    BY <1>7
  <2>2. \A d \in {1, 2, 3} : At(stack', d).op = "redeliver" => m \notin At(stack', d).todo
    BY <1>1
  <2> QED
    BY <1>1, <1>2, <1>5, <2>1, <2>2 DEF QueuedOk, Levels
<1>15. RequeueOk(m)'
  <2> SUFFICES ASSUME NEW d \in {1, 2, 3}, Requeues(d, m)'
               PROVE  d # 3 /\ Walks(d + 1, m)'
    BY <1>1 DEF RequeueOk, Levels
  <2>1. d = 2
    BY <1>7
  <2>2. Walks(3, m)'
    BY <1>1 DEF Walks
  <2> QED
    BY <2>1, <2>2
<1> QED
  BY <1>9, <1>10, <1>11, <1>12, <1>13, <1>14, <1>15 DEF RequestInv

\* A queued request is taken up.
LEMMA TakesUpInv ==
    ASSUME TypeOK, BaseInv, NEW m \in Msg, TakesUp(m)
    PROVE  BaseInv'
<1>1. /\ Len(stack) = 1 /\ Len(stack') = 3 /\ 1 .. Len(stack) = {1} /\ 1 .. Len(stack') = {1, 2, 3}
      /\ At(stack, 1).op = "redeliver"
      /\ At(stack', 1).op = "redeliver" /\ At(stack', 1).todo = At(stack, 1).todo \ {m}
      /\ At(stack', 2).op = "requeue" /\ At(stack', 2).msg = m
      /\ At(stack', 3).op = "deliver" /\ At(stack', 3).msg = m
  BY DEF TakesUp
<1>2. /\ UNCHANGED <<alive, plan, rpc, active, channel, signalled, undelivered, delivered,
                     handler, reported, queued, ret>>
      /\ \A x \in Msg : x # m => state'[x] = state[x]
  BY DEF TakesUp, TypeOK
<1>3. \A d \in {1, 2, 3} : /\ At(stack', d).op \in {"redeliver", "requeue", "deliver"}
                           /\ At(stack', d).op = "redeliver" => d = 1
                           /\ At(stack', d).op = "requeue" => d = 2
  BY <1>1
<1>4. FramesInv'
  <2>1. Tops' /\ DeadFrames' /\ Nested' /\ OneCursor'
    BY <1>1, <1>3 DEF Tops, DeadFrames, Nested, OneCursor, Levels, Cursors
  <2>2. QueueFrames'
    BY <1>1, <1>3 DEF QueueFrames, Levels
  <2> QED
    BY <2>1, <2>2 DEF FramesInv
<1>5. Calls(0)
  BY <1>1 DEF Calls, Lower
<1>6. Added(0) = {1, 2, 3}
  BY <1>1 DEF Added
<1>7. ListsInv'
  <2>1. NoneTwice'
    BY <1>2 DEF BaseInv, ListsInv, NoneTwice
  <2>2. CursorKept'
    BY <1>1, <1>3 DEF CursorKept, Levels
  <2> QED
    BY <2>1, <2>2 DEF ListsInv
<1>8. CallsInv'
  <2>1. Served
    BY <1>2 DEF Served
  <2> QED
    BY <1>2, <1>3, <1>5, <1>6, <2>1, CallsStep DEF BaseInv
<1>9. ASSUME NEW x \in Msg PROVE RequestInv(x)'
  <2>1. CASE x = m
    BY <2>1, TakesUpSame
  <2>2. CASE x # m
    <3>1. x \in At(stack, 1).todo => state[x] = "QUEUED"
      BY <1>1 DEF BaseInv, RequestInv, QueuedOk, Levels
    <3>2. Elsewhere(x, 0)
      BY <1>1, <1>6, <2>2, <3>1 DEF Elsewhere
    <3>3. Passed(x, 0)
      BY <1>1 DEF Passed, Walks, Requeues, Settles
    <3>4. Near(x, 0)
      BY <1>2, <1>5, <2>2, <3>2, <3>3 DEF Near
    <3>5. Aside(x, 0)
      BY <1>3, <1>6, <3>4 DEF Aside
    <3>6. handler[x] \in Proc \cup {NoProc}
      BY DEF TypeOK
    <3> QED
      BY <3>5, <3>6, AsideStep DEF BaseInv
  <2> QED
    BY <2>1, <2>2
<1>10. ASSUME NEW x \in Msg PROVE Sending(x)'
  <2>1. state[m] = "QUEUED"
    BY <1>1 DEF TakesUp, BaseInv, RequestInv, QueuedOk, Levels
  <2>2. state[x] = "CREATED" => state'[x] = "CREATED"
    BY <1>2, <2>1
  <2> QED
    BY <1>2, <2>2, SendingStep DEF BaseInv
<1> QED
  BY <1>4, <1>7, <1>8, <1>9, <1>10 DEF BaseInv

\* The queue is offered to a new handler.
LEMMA RunRedeliverInv == ASSUME TypeOK, BaseInv, RunRedeliver PROVE BaseInv'
<1>1. /\ Running("redeliver") /\ Head(stack) \in Frame /\ Head(stack).op = "redeliver"
      /\ stack # << >> /\ Len(stack) \in Nat \ {0} /\ At(stack, Len(stack)) = Head(stack)
  BY TopAt DEF RunRedeliver, Running
<1>2. PICK ms \in SUBSET Msg : ms = Head(stack).todo
  BY <1>1, FramesRead
<1>3. /\ UNCHANGED <<alive, plan, rpc, active, channel, signalled, undelivered, delivered,
                     handler, reported, queued, ret>>
      /\ \/ stack' = Tail(stack) /\ state' = state
         \/ \E m \in ms :
               /\ state' = [state EXCEPT ![m] = "SENT"]
               /\ stack' = <<Deliver(m, TRUE), Requeue(m), Redeliver(ms \ {m})>> \o Tail(stack)
  BY <1>2 DEF RunRedeliver, clientVars, procVars
<1>4. CASE stack' = Tail(stack) /\ state' = state
  <2>1. Quiet
    BY <1>3, <1>4 DEF Quiet
  <2> QED
    BY <1>1, <1>4, <2>1, QuietPop
<1>5. ASSUME NEW m \in ms, state' = [state EXCEPT ![m] = "SENT"],
             stack' = <<Deliver(m, TRUE), Requeue(m), Redeliver(ms \ {m})>> \o Tail(stack)
      PROVE  BaseInv'
  <2>1. m \in Msg /\ ms \ {m} \in SUBSET Msg
    OBVIOUS
  <2>2. /\ Deliver(m, TRUE) \in Frame /\ Deliver(m, TRUE).op = "deliver" /\ Deliver(m, TRUE).msg = m
        /\ Requeue(m) \in Frame /\ Requeue(m).op = "requeue" /\ Requeue(m).msg = m
        /\ Redeliver(ms \ {m}) \in Frame /\ Redeliver(ms \ {m}).op = "redeliver"
        /\ Redeliver(ms \ {m}).todo = ms \ {m}
    BY <2>1, FramesMade DEF Deliver, Requeue, Redeliver
  <2>3. Len(stack) = 1
    <3>1. Len(stack) \in Levels
      BY <1>1 DEF Levels
    <3> QED
      BY <1>1, <3>1 DEF BaseInv, FramesInv, QueueFrames
  <2>4. /\ Len(stack') = 3 /\ At(stack', 1) = Redeliver(ms \ {m})
        /\ At(stack', 2) = Requeue(m) /\ At(stack', 3) = Deliver(m, TRUE)
    <3>1. /\ Len(stack') = Len(stack) + 2 /\ At(stack', Len(stack)) = Redeliver(ms \ {m})
          /\ At(stack', Len(stack) + 1) = Requeue(m) /\ At(stack', Len(stack) + 2) = Deliver(m, TRUE)
      BY <1>1, <1>5, <2>2, Instead
    <3>2. Len(stack) + 1 = 2 /\ Len(stack) + 2 = 3
      BY <2>3
    <3> QED
      BY <2>3, <3>1, <3>2, Zenon
  <2>5. At(stack, 1).op = "redeliver" /\ At(stack, 1).todo = ms
    BY <1>1, <1>2, <2>3
  <2>6. TakesUp(m)
    BY <1>3, <1>5, <2>2, <2>3, <2>4, <2>5 DEF TakesUp
  <2> QED
    BY <2>1, <2>6, TakesUpInv
<1> QED
  BY <1>3, <1>4, <1>5

\* m has been offered again: it leaves the queue, or waits in it again.
Offered(m) ==
    /\ Len(stack) = 2 /\ Len(stack') = 1 /\ Lower(1)
    /\ At(stack, 1).op = "redeliver" /\ m \notin At(stack, 1).todo
    /\ At(stack, 2).op = "requeue" /\ At(stack, 2).msg = m
    /\ \/ ret /\ queued' = queued \ {m} /\ state' = state
       \/ ~ret /\ state' = [state EXCEPT ![m] = "QUEUED"] /\ queued' = queued
    /\ UNCHANGED <<alive, plan, rpc, active, channel, signalled, undelivered, delivered,
                   handler, reported, ret>>

\* The queued request that was offered.
LEMMA OfferedSame ==
    ASSUME TypeOK, BaseInv, NEW m \in Msg, Offered(m)
    PROVE  RequestInv(m)'
<1>1. /\ 1 .. Len(stack) = {1, 2} /\ 1 .. Len(stack') = {1} /\ Len(stack) = 2 /\ Len(stack') = 1
      /\ At(stack', 1) = At(stack, 1)
      /\ At(stack, 1).op = "redeliver" /\ m \notin At(stack, 1).todo
      /\ At(stack, 2).op = "requeue" /\ At(stack, 2).msg = m
  BY DEF Offered, Lower
<1>2. /\ handler' = handler /\ active' = active /\ delivered' = delivered
      /\ undelivered' = undelivered /\ reported' = reported
  BY DEF Offered
<1>3. RequestInv(m)
  BY DEF BaseInv
<1>4. \A d \in {1, 2} : At(stack, d).op \in {"redeliver", "requeue"}
  BY <1>1
<1>5. /\ \A d \in {1, 2} : ~Walks(d, m) /\ \A p : ~Settles(d, p, m) /\ ~Reading(d, p)
      /\ Requeues(2, m)
  BY <1>1, <1>4 DEF Walks, Settles, Reading, Requeues
<1>6. /\ \A d \in {1} : ~Walks(d, m)' /\ ~Matches(d, m)' /\ ~Reports(d, m)' /\ ~Requeues(d, m)'
      /\ \A d \in {1} : \A p : ~Reading(d, p)'
      /\ \A d \in {1} : At(stack', d).op = "redeliver" /\ m \notin At(stack', d).todo
  BY <1>1 DEF Walks, Matches, Reports, Requeues, Reading
<1>7. /\ m \in queued /\ state[m] # "QUEUED" /\ "QUEUED" \in reported[m] /\ m \in Queueable
  BY <1>1, <1>3, <1>5 DEF RequestInv, QueuedOk, Levels
<1>8. state[m] # "CREATED"
  BY <1>3, <1>7 DEF RequestInv, Created
<1>9. ~ret => Free(m)
  BY <1>1, <1>3, <1>5 DEF RequestInv, RequeueOk, Levels
<1>10. ~Changes(m)'
  BY <1>1 DEF Changes
<1>11. ChangeOk(m)' /\ BestOk(m)' /\ ReportOk(m)' /\ OneWalk(m)' /\ Transit(m)' /\ RequeueOk(m)'
  BY <1>1, <1>6, <1>10 DEF ChangeOk, BestOk, ReportOk, OneWalk, Transit, RequeueOk, Levels
<1>12. \A p \in Proc : m \in delivered[p] => handler[m] = p /\ active[p] /\ state[m] = "SENT"
  BY <1>1, <1>3, <1>4, <1>5 DEF RequestInv, ReadOk, Levels
<1>13. Free(m) => Free(m)'
  <2>1. \A p : Dead(p) => Dead(p)'
    BY <1>1, <1>2, <1>6 DEF Dead, Levels
  <2> QED
    BY <1>2, <2>1 DEF Free, Unheld, Given
<1>14. CASE ret /\ queued' = queued \ {m} /\ state' = state
  <2>1. Created(m)'
    BY <1>8, <1>14 DEF Created
  <2>2. ReadOk(m)'
    BY <1>1, <1>2, <1>6, <1>12, <1>14 DEF ReadOk, Levels
  <2>3. QueuedOk(m)'
    BY <1>1, <1>6, <1>7, <1>14 DEF QueuedOk, Levels
  <2>4. UnreadOk(m)'
    <3> SUFFICES ASSUME handler[m] # NoProc, Has(undelivered[handler[m]], m), state[m] \notin Final
                 PROVE  /\ ~Given(m)'
                        /\ active[handler[m]] => state[m] = "SENT"
                        /\ \A e \in {1} : ~Reading(e, handler[m])'
      BY <1>1, <1>2, <1>6, <1>14 DEF UnreadOk, Levels
    <3>1. ~Given(m) /\ (active[handler[m]] => state[m] = "SENT")
      BY <1>3 DEF RequestInv, UnreadOk
    <3>2. \A e \in {1} : ~Reading(e, handler[m])'
      BY <1>6
    <3> QED
      BY <1>2, <3>1, <3>2 DEF Given
  <2> QED
    BY <1>11, <2>1, <2>2, <2>3, <2>4 DEF RequestInv
<1>15. CASE ~ret /\ state' = [state EXCEPT ![m] = "QUEUED"] /\ queued' = queued
  <2>1. state'[m] = "QUEUED"
    BY <1>15 DEF TypeOK
  <2>2. Free(m)'
    BY <1>9, <1>13, <1>15
  <2>3. Created(m)'
    BY <2>1 DEF Created
  <2>4. ReadOk(m)'
    BY <2>2 DEF ReadOk, Free, Given
  <2>5. QueuedOk(m)'
    BY <1>1, <1>2, <1>6, <1>7, <1>15, <2>1, <2>2 DEF QueuedOk, Levels
  <2>6. UnreadOk(m)'
    <3> SUFFICES ASSUME handler[m] # NoProc
                 PROVE  ~Given(m)' /\ ~active[handler[m]] /\ \A e \in {1} : ~Reading(e, handler[m])'
      BY <1>1, <1>2 DEF UnreadOk, Levels
    <3>1. ~Given(m)' /\ ~active[handler[m]]
      BY <1>2, <2>2 DEF Free, Unheld, Dead
    <3>2. \A e \in {1} : ~Reading(e, handler[m])'
      BY <1>6
    <3> QED
      BY <3>1, <3>2
  <2> QED
    BY <1>11, <2>3, <2>4, <2>5, <2>6 DEF RequestInv
<1> QED
  BY <1>14, <1>15 DEF Offered

\* A queued request was offered: it is gone, or queued again.
LEMMA OfferedInv ==
    ASSUME TypeOK, BaseInv, NEW m \in Msg, Offered(m)
    PROVE  BaseInv'
<1>1. /\ Len(stack) = 2 /\ Len(stack') = 1 /\ Lower(1)
      /\ At(stack, 2).op = "requeue" /\ At(stack, 2).msg = m
      /\ UNCHANGED <<alive, plan, rpc, active, channel, signalled, undelivered, delivered,
                     handler, reported, ret>>
  BY DEF Offered
<1>2. /\ \A x \in Msg : x # m => state'[x] = state[x] /\ (x \in queued' <=> x \in queued)
      /\ state[m] = "CREATED" => state'[m] = "CREATED"
  <2>1. Requeues(2, m) /\ 2 \in 1 .. Len(stack)
    BY <1>1 DEF Requeues
  <2>2. state[m] # "CREATED"
    BY <2>1 DEF BaseInv, RequestInv, QueuedOk, Created, Levels
  <2> QED
    BY <2>2 DEF Offered, TypeOK
<1>3. Calls(1)
  BY <1>1 DEF Calls
<1>4. Added(1) = {}
  BY <1>1 DEF Added
<1>5. Plain(1)
  BY <1>4 DEF Plain
<1>6. Served /\ UNCHANGED <<active, channel>>
  BY <1>1 DEF Served
<1>7. ListsStay
  BY <1>1, UndeliveredStay DEF BaseInv
<1>8. ASSUME NEW x \in Msg PROVE RequestInv(x)'
  <2>1. CASE x = m
    BY <2>1, OfferedSame
  <2>2. CASE x # m
    <3>1. Elsewhere(x, 1)
      BY <1>4 DEF Elsewhere
    <3>2. Passed(x, 1)
      BY <1>1, <2>2 DEF Passed, Walks, Requeues, Settles
    <3>3. Near(x, 1)
      BY <1>1, <1>2, <1>3, <2>2, <3>1, <3>2 DEF Near
    <3>4. Aside(x, 1)
      BY <1>4, <3>3 DEF Aside
    <3>5. handler[x] \in Proc \cup {NoProc}
      BY DEF TypeOK
    <3> QED
      BY <3>4, <3>5, AsideStep DEF BaseInv
  <2> QED
    BY <2>1, <2>2
<1>9. \A x \in Msg : state[x] = "CREATED" => state'[x] = "CREATED"
  BY <1>2
<1> QED
  BY <1>3, <1>4, <1>5, <1>6, <1>7, <1>8, <1>9, PlainStep

\* What was offered in vain is queued again.
LEMMA RunRequeueInv == ASSUME TypeOK, BaseInv, RunRequeue PROVE BaseInv'
<1>1. /\ Running("requeue") /\ Head(stack) \in Frame /\ Head(stack).op = "requeue"
      /\ stack # << >> /\ Len(stack) \in Nat \ {0} /\ At(stack, Len(stack)) = Head(stack)
  BY TopAt DEF RunRequeue, Running
<1>2. PICK m \in Msg : m = Head(stack).msg
  BY <1>1, FramesRead
<1>3. /\ stack' = Tail(stack)
      /\ IF ret THEN queued' = queued \ {m} /\ state' = state
         ELSE state' = [state EXCEPT ![m] = "QUEUED"] /\ queued' = queued
      /\ UNCHANGED <<alive, plan, rpc, active, channel, signalled, undelivered, delivered,
                     handler, reported, ret>>
  BY <1>2 DEF RunRequeue, Dequeue, RevertToQueued, clientVars, procVars
<1>4. Len(stack') = Len(stack) - 1 /\ Lower(Len(stack) - 1)
  BY <1>1, <1>3, Returned
<1>5. Len(stack) \in Levels
  BY <1>1 DEF Levels
<1>6. Len(stack) = 2 /\ At(stack, 1).op = "redeliver" /\ m \notin At(stack, 1).todo
  BY <1>1, <1>2, <1>5 DEF BaseInv, FramesInv, QueueFrames
<1>7. Len(stack') = 1 /\ Lower(1)
  <2>1. Len(stack) - 1 = 1
    BY <1>6
  <2> QED
    BY <1>4, <2>1, Zenon
<1>8. At(stack, 2).op = "requeue" /\ At(stack, 2).msg = m
  BY <1>1, <1>2, <1>6
<1>9. Offered(m)
  BY <1>3, <1>6, <1>7, <1>8 DEF Offered
<1> QED
  BY <1>9, OfferedInv

(* The clients. *)

\* The server does not move.
Still == UNCHANGED <<active, channel, signalled, undelivered, delivered, state, handler,
                     reported, queued, stack, ret>>

\* When the server does not move, the invariant depends on the calls only.
LEMMA StillStep ==
    ASSUME BaseInv, Still, CallsInv', \A m \in Msg : Sending(m)'
    PROVE  BaseInv'
<1>1. UNCHANGED <<active, undelivered, delivered, state, handler, reported, queued, stack, ret>>
  BY DEF Still
<1>2. FramesInv'
  <2>1. Tops' /\ DeadFrames'
    BY <1>1 DEF BaseInv, FramesInv, Tops, DeadFrames, Levels
  <2>2. Nested' /\ OneCursor' /\ QueueFrames'
    BY <1>1 DEF BaseInv, FramesInv, Nested, OneCursor, QueueFrames, Levels
  <2> QED
    BY <2>1, <2>2 DEF FramesInv
<1>3. ListsInv'
  BY <1>1 DEF BaseInv, ListsInv, CursorKept, NoneTwice, Levels
<1>4. ASSUME NEW m \in Msg PROVE RequestInv(m)'
  <2>1. RequestInv(m)
    BY DEF BaseInv
  <2>2. Levels' = Levels
    BY <1>1 DEF Levels
  <2>3. \A d : /\ Walks(d, m)' <=> Walks(d, m)
               /\ Matches(d, m)' <=> Matches(d, m)
               /\ Reports(d, m)' <=> Reports(d, m)
               /\ Requeues(d, m)' <=> Requeues(d, m)
    BY <1>1 DEF Walks, Matches, Reports, Requeues
  <2>4. \A d, p : /\ Reading(d, p)' <=> Reading(d, p)
                  /\ Settles(d, p, m)' <=> Settles(d, p, m)
                  /\ Deactivates(d, p)' <=> Deactivates(d, p)
    BY <1>1 DEF Reading, Settles, Deactivates
  <2>5. Given(m)' <=> Given(m)
    BY <1>1 DEF Given
  <2>6. \A p : Dead(p)' <=> Dead(p)
    BY <1>1, <2>2, <2>4 DEF Dead
  <2>7. Unheld(m)' <=> Unheld(m)
    BY <1>1, <2>6 DEF Unheld, Dead, Reading, Levels
  <2>8. Free(m)' <=> Free(m)
    BY <2>5, <2>7 DEF Free
  <2>9. Over(m)' <=> Over(m)
    BY <1>1, <2>2, <2>3, <2>8 DEF Over
  <2>10. Created(m)'
    BY <1>1, <2>1, <2>2, <2>3, <2>5 DEF RequestInv, Created
  <2>11. ChangeOk(m)'
    BY <1>1, <2>1, <2>2, <2>3, <2>5, <2>8
       DEF RequestInv, ChangeOk, Changes, Settles
  <2>12. BestOk(m)'
    BY <1>1, <2>1, <2>2, <2>3 DEF RequestInv, BestOk, Reading
  <2>13. ReportOk(m)' /\ OneWalk(m)'
    BY <1>1, <2>1, <2>2, <2>3 DEF RequestInv, ReportOk, OneWalk
  <2>14. Transit(m)'
    BY <1>1, <2>1, <2>2, <2>3 DEF RequestInv, Transit, Reading, Deactivates, Dead, Levels
  <2>15. ReadOk(m)'
    BY <1>1, <2>1, <2>2, <2>3, <2>4 DEF RequestInv, ReadOk
  <2>16. UnreadOk(m)'
    BY <1>1, <2>1, <2>2, <2>3, <2>5 DEF RequestInv, UnreadOk, Reading, Deactivates
  <2>17. QueuedOk(m)'
    BY <1>1, <2>1, <2>2, <2>3, <2>8 DEF RequestInv, QueuedOk
  <2>18. RequeueOk(m)'
    BY <1>1, <2>1, <2>2, <2>8, <2>9 DEF RequestInv, RequeueOk, Requeues, Walks
  <2> QED
    BY <2>10, <2>11, <2>12, <2>13, <2>14, <2>15, <2>16, <2>17, <2>18 DEF RequestInv
<1> QED
  BY <1>2, <1>3, <1>4 DEF BaseInv

\* The RPCs of p are those that it had, and one more.
LEMMA AskedCalls ==
    ASSUME TypeOK, NEW p \in Proc, NEW c \in Call, Ask(p, c)
    PROVE  /\ p \in alive /\ Still /\ alive' = alive
           /\ \A q \in Proc : q # p => rpc'[q] = rpc[q]
           /\ Len(rpc[p]) \in Nat /\ Len(rpc'[p]) = Len(rpc[p]) + 1
           /\ \A i \in 1 .. Len(rpc[p]) : rpc'[p][i] = rpc[p][i] /\ rpc[p][i].call \in OneWay
           /\ rpc'[p][Len(rpc[p]) + 1] = c
<1> DEFINE s == rpc[p]
<1>1. s \in Seq(Call) /\ DOMAIN s = 1 .. Len(s) /\ Len(s) \in Nat
  BY LenProperties DEF TypeOK
<1>2. rpc'[p] = Append(s, c) /\ \A q \in Proc : q # p => rpc'[q] = rpc[q]
  BY DEF Ask, TypeOK
<1> HIDE DEF s
<1>3. /\ Len(Append(s, c)) = Len(s) + 1
      /\ \A i \in 1 .. Len(s) : Append(s, c)[i] = s[i]
      /\ Append(s, c)[Len(s) + 1] = c
  BY <1>1, AppendProperties
<1>4. p \in alive /\ Still /\ alive' = alive /\ \A i \in 1 .. Len(s) : s[i].call \in OneWay
  BY <1>1 DEF Ask, Still, procVars, msgVars, s
<1> QED
  BY <1>1, <1>2, <1>3, <1>4 DEF s

\* A client calls.
LEMMA AskInv ==
    ASSUME TypeOK, BaseInv, NEW p \in Proc, NEW c \in Call, Ask(p, c),
           \A q \in Proc : plan'[q] \subseteq plan[q],
           c.call = "next" => signalled[p],
           c.call = "send" => /\ c \in plan[p] /\ c \notin plan'[p]
                              /\ Sender[c.msg] = p /\ state[c.msg] = "CREATED"
    PROVE  BaseInv'
<1> DEFINE n == Len(rpc[p])
<1>1. /\ p \in alive /\ Still /\ alive' = alive
      /\ \A q \in Proc : q # p => rpc'[q] = rpc[q]
      /\ n \in Nat /\ Len(rpc'[p]) = n + 1
      /\ \A i \in 1 .. n : rpc'[p][i] = rpc[p][i] /\ rpc[p][i].call \in OneWay
      /\ rpc'[p][n + 1] = c
  BY AskedCalls
<1>2. /\ \A i \in 1 .. n + 1 : i \in 1 .. n \/ i = n + 1
      /\ \A i \in 1 .. n + 1 : i < n + 1 => i \in 1 .. n
  BY <1>1
<1> HIDE DEF n
<1>3. CallsInv
  BY DEF BaseInv
<1>4. /\ active' = active /\ channel' = channel /\ signalled' = signalled /\ stack' = stack
      /\ state' = state
  BY <1>1 DEF Still
<1>5. LastCall'
  <2> SUFFICES ASSUME NEW q \in Proc, NEW i \in 1 .. Len(rpc'[q]), i < Len(rpc'[q])
               PROVE  rpc'[q][i].call \in OneWay
    BY DEF LastCall
  <2>1. CASE q = p
    BY <1>1, <1>2, <2>1
  <2>2. CASE q # p
    BY <1>1, <1>3, <2>2 DEF CallsInv, LastCall
  <2> QED
    BY <2>1, <2>2
<1>6. \A q \in Proc : Awaits(q)' => Awaits(q) \/ (q = p /\ c.call = "next")
  <2> SUFFICES ASSUME NEW q \in Proc, NEW i \in 1 .. Len(rpc'[q]), rpc'[q][i].call = "next"
               PROVE  Awaits(q) \/ (q = p /\ c.call = "next")
    BY DEF Awaits
  <2>1. CASE q = p
    BY <1>1, <1>2, <2>1 DEF Awaits, n
  <2>2. CASE q # p
    BY <1>1, <2>2 DEF Awaits
  <2> QED
    BY <2>1, <2>2
<1>7. Linked' /\ NotPlanned' /\ Asked'
  BY <1>3, <1>4, <1>6 DEF CallsInv, Linked, NotPlanned, Asked
<1>8. Lost'
  BY <1>1, <1>3, <1>4, <1>6 DEF CallsInv, Lost
<1>9. Losing'
  <2> SUFFICES ASSUME NEW d \in Levels, At(stack, d).op = "deactivate"
               PROVE  At(stack, d).proc \notin alive /\ ~Awaits(At(stack, d).proc)'
    BY <1>1, <1>4 DEF Losing, Levels, Awaits
  <2>1. At(stack, d).proc \notin alive /\ ~Awaits(At(stack, d).proc)
    BY <1>3 DEF CallsInv, Losing
  <2>2. At(stack, d) \in Frame
    BY FrameAt DEF TypeOK, Levels
  <2>3. PICK q \in Proc : q = At(stack, d).proc
    BY <2>2, FramesRead
  <2>4. ~Awaits(q)'
    BY <1>1, <1>6, <2>1, <2>3
  <2> QED
    BY <1>4, <2>1, <2>3, <2>4 DEF Awaits
<1>10. CallsInv'
  BY <1>5, <1>7, <1>8, <1>9 DEF CallsInv
<1>11. ASSUME NEW m \in Msg PROVE Sending(m)'
  <2> DEFINE w == [call |-> "send", msg |-> m]
  <2> SUFFICES ASSUME NEW q \in Proc, NEW i \in 1 .. Len(rpc'[q]), rpc'[q][i] = w
               PROVE  /\ Sender[m] = q /\ state[m] = "CREATED" /\ w \notin plan'[q]
                      /\ \A j \in 1 .. Len(rpc'[q]) : rpc'[q][j] = w => i = j
    BY <1>4 DEF Sending
  <2>1. w.call = "send" /\ w.msg = m
    OBVIOUS
  <2>2. \A k \in 1 .. Len(rpc[q]) : rpc[q][k] = w =>
           /\ Sender[m] = q /\ state[m] = "CREATED" /\ w \notin plan[q]
           /\ \A j \in 1 .. Len(rpc[q]) : rpc[q][j] = w => k = j
    BY DEF BaseInv, Sending
  <2> HIDE DEF w
  <2>3. CASE q # p
    BY <1>1, <2>2, <2>3
  <2>4. CASE q = p /\ c = w
    <3>1. \A k \in 1 .. n : rpc[p][k] # w
      BY <2>1, <2>2, <2>4 DEF n
    <3>2. \A k \in 1 .. n + 1 : rpc'[p][k] = w => k = n + 1
      BY <1>1, <1>2, <3>1
    <3> QED
      BY <1>1, <2>1, <2>4, <3>2
  <2>5. CASE q = p /\ c # w
    <3>1. \A k \in 1 .. n + 1 : rpc'[p][k] = w => k \in 1 .. n /\ rpc[p][k] = w
      BY <1>1, <1>2, <2>5
    <3> QED
      BY <1>1, <2>2, <2>5, <3>1 DEF n
  <2> QED
    BY <2>3, <2>4, <2>5
<1> QED
  BY <1>1, <1>10, <1>11, StillStep

\* What a client does keeps the invariant.
LEMMA ClientInv == ASSUME TypeOK, BaseInv, NEW p \in Proc, Client(p) PROVE BaseInv'
<1>1. CASE AskPlanned(p)
  <2>1. PICK c \in plan[p] :
           /\ c.call = "send" => Sender[c.msg] = p /\ state[c.msg] = "CREATED"
           /\ Ask(p, c)
           /\ plan' = [plan EXCEPT ![p] = @ \ {c}]
    BY <1>1 DEF AskPlanned
  <2>2. c \in Call
    BY DEF TypeOK
  <2>3. plan'[p] = plan[p] \ {c} /\ \A q \in Proc : plan'[q] \subseteq plan[q]
    BY <2>1 DEF TypeOK
  <2>4. c.call = "next" => c = [call |-> "next"]
    BY <2>2 DEF Call
  <2>5. c.call # "next"
    BY <2>4 DEF BaseInv, CallsInv, NotPlanned
  <2> QED
    BY <2>1, <2>2, <2>3, <2>5, AskInv
<1>2. CASE AskNext(p)
  <2>1. PICK c \in Call : c = [call |-> "next"]
    BY DEF Call
  <2>2. c.call = "next" /\ Ask(p, c) /\ signalled[p] /\ plan' = plan
    BY <1>2, <2>1 DEF AskNext
  <2> QED
    BY <2>2, AskInv
<1>3. CASE AskUpdate(p)
  <2>1. PICK m \in delivered[p] : \E s \in {"REJECTED"} \cup Final :
           Ask(p, [call |-> "update", msg |-> m, to |-> s])
    BY <1>3 DEF AskUpdate
  <2>2. PICK s \in {"REJECTED"} \cup Final : Ask(p, [call |-> "update", msg |-> m, to |-> s])
    BY <2>1
  <2>3. m \in Msg
    BY DEF TypeOK
  <2>4. PICK c \in Call : c = [call |-> "update", msg |-> m, to |-> s]
    BY <2>3 DEF Call
  <2>5. c.call = "update" /\ Ask(p, c) /\ plan' = plan
    BY <1>3, <2>2, <2>4 DEF AskUpdate
  <2> QED
    BY <2>5, AskInv
<1>4. CASE Die(p)
  <2>1. Still /\ alive' = alive \ {p} /\ UNCHANGED <<plan, rpc>>
    BY <1>4 DEF Die, Still, procVars, msgVars
  <2>2. CallsInv'
    BY <2>1 DEF BaseInv, CallsInv, Linked, LastCall, NotPlanned, Asked, Lost, Losing, Awaits,
                Levels, Still
  <2>3. \A m \in Msg : Sending(m)'
    BY <2>1, SendingStep DEF BaseInv, Still
  <2> QED
    BY <2>1, <2>2, <2>3, StillStep
<1> QED
  BY <1>1, <1>2, <1>3, <1>4 DEF Client

(* The main loop. *)

\* The RPC c of p is taken off its socket by the idle server.
Takes(p, c) ==
    /\ stack = << >> /\ rpc[p] # << >> /\ c = Head(rpc[p])
    /\ rpc' = [rpc EXCEPT ![p] = Tail(@)]
    /\ alive' \subseteq alive
    /\ UNCHANGED <<plan, active, channel>>

\* What is left of the RPCs when one is taken off a socket.
LEMMA TakesCalls ==
    ASSUME TypeOK, CallsInv, NEW p \in Proc, NEW c, Takes(p, c)
    PROVE  /\ \A q \in Proc : q # p => rpc'[q] = rpc[q]
           /\ Len(rpc'[p]) \in Nat /\ Len(rpc[p]) \in Nat
           /\ \A i \in 1 .. Len(rpc'[p]) : i + 1 \in 1 .. Len(rpc[p]) /\ rpc'[p][i] = rpc[p][i + 1]
           /\ 1 \in 1 .. Len(rpc[p]) /\ rpc[p][1] = c
           /\ \A q \in Proc : Awaits(q)' => Awaits(q)
           /\ c.call \notin OneWay => ~Awaits(p)'
           /\ LastCall'
<1> DEFINE s == rpc[p]
           t == Tail(s)
<1>1. s \in Seq(Call) /\ s # << >> /\ c = Head(s)
  BY DEF TypeOK, Takes
<1>2. rpc'[p] = t /\ \A q \in Proc : q # p => rpc'[q] = rpc[q]
  BY DEF Takes, TypeOK
<1> HIDE DEF s
<1>3. /\ Len(s) \in Nat \ {0} /\ t \in Seq(Call) /\ Len(t) = Len(s) - 1
      /\ \A j \in 1 .. Len(t) : t[j] = s[j+1]
      /\ Head(s) = s[1]
  BY <1>1, EmptySeq, HeadTailProperties
<1> HIDE DEF t
<1>4. /\ \A i \in 1 .. Len(t) : i + 1 \in 1 .. Len(s) /\ t[i] = s[i + 1]
      /\ 1 \in 1 .. Len(s) /\ s[1] = c /\ Len(t) \in Nat
  BY <1>1, <1>3
<1>5. \A i \in 1 .. Len(s) : i < Len(s) => s[i].call \in OneWay
  BY DEF CallsInv, LastCall, s
<1>6. \A q \in Proc : Awaits(q)' => Awaits(q)
  <2> SUFFICES ASSUME NEW q \in Proc, NEW i \in 1 .. Len(rpc'[q]), rpc'[q][i].call = "next"
               PROVE  Awaits(q)
    BY DEF Awaits
  <2>1. CASE q = p
    BY <1>2, <1>4, <2>1 DEF Awaits, s
  <2>2. CASE q # p
    BY <1>2, <2>2 DEF Awaits
  <2> QED
    BY <2>1, <2>2
<1>7. c.call \notin OneWay => Len(t) = 0
  BY <1>3, <1>4, <1>5
<1>8. c.call \notin OneWay => ~Awaits(p)'
  BY <1>2, <1>7 DEF Awaits
<1>9. LastCall'
  <2> SUFFICES ASSUME NEW q \in Proc, NEW i \in 1 .. Len(rpc'[q]), i < Len(rpc'[q])
               PROVE  rpc'[q][i].call \in OneWay
    BY DEF LastCall
  <2>1. CASE q = p
    <3>1. i \in 1 .. Len(t) /\ i < Len(t) /\ rpc'[q][i] = t[i]
      BY <1>2, <2>1
    <3>2. i + 1 \in 1 .. Len(s) /\ i + 1 < Len(s) /\ t[i] = s[i + 1]
      BY <1>3, <1>4, <3>1
    <3> QED
      BY <1>5, <3>1, <3>2
  <2>2. CASE q # p
    BY <1>2, <2>2 DEF CallsInv, LastCall
  <2> QED
    BY <2>1, <2>2
<1> QED
  BY <1>2, <1>3, <1>4, <1>6, <1>8, <1>9 DEF s

\* No cursor is among the frames of a call that begins.
Fresh == \A d \in 1 .. Len(stack') :
    /\ At(stack', d).op \notin Cursors \cup {"requeue"}
    /\ At(stack', d).op = "redeliver" => d = 1
    /\ At(stack', d).op = "change" => d = Len(stack')

\* Frames that begin a call of the main loop are fit for the idle server.
LEMMA FreshFrames == ASSUME Fresh PROVE FramesInv' /\ CursorKept'
<1>1. Tops' /\ DeadFrames' /\ QueueFrames'
  BY DEF Fresh, Tops, DeadFrames, QueueFrames, Levels
<1>2. Nested' /\ OneCursor' /\ CursorKept'
  BY DEF Fresh, Nested, OneCursor, CursorKept, Levels, Cursors
<1> QED
  BY <1>1, <1>2 DEF FramesInv

\* A call of the main loop begins: the requests, the lists and the signals have to
\* be looked at for each call, the rest follows.
LEMMA TakesInv ==
    ASSUME TypeOK, BaseInv, NEW p \in Proc, NEW c, NEW Lonely, Takes(p, c), Fresh,
           \A d \in 1 .. Len(stack') : At(stack', d).op = "deactivate" => At(stack', d).proc \in Lonely,
           \A q \in Lonely : q \notin alive' /\ ~Awaits(q)',
           \A q \in Proc : Awaits(q)' => signalled'[q],
           \A q \in Proc : Once(undelivered[q]) => Once(undelivered'[q]),
           \A m \in Msg : state'[m] = state[m] \/ c = [call |-> "send", msg |-> m],
           \A m \in Msg : RequestInv(m)'
    PROVE  BaseInv'
<1>0. CallsInv
  BY DEF BaseInv
<1>1. /\ \A q \in Proc : q # p => rpc'[q] = rpc[q]
      /\ Len(rpc'[p]) \in Nat /\ Len(rpc[p]) \in Nat
      /\ \A i \in 1 .. Len(rpc'[p]) : i + 1 \in 1 .. Len(rpc[p]) /\ rpc'[p][i] = rpc[p][i + 1]
      /\ 1 \in 1 .. Len(rpc[p]) /\ rpc[p][1] = c
  BY <1>0, TakesCalls
<1>2. LastCall' /\ \A q \in Proc : Awaits(q)' => Awaits(q)
  BY <1>0, TakesCalls
<1>3. UNCHANGED <<plan, active, channel>> /\ alive' \subseteq alive
  BY DEF Takes
<1>4. ListsInv'
  <2>1. NoneTwice'
    BY DEF BaseInv, ListsInv, NoneTwice
  <2> QED
    BY <2>1, FreshFrames DEF ListsInv
<1>5. CallsInv'
  <2>1. Linked' /\ NotPlanned' /\ Asked' /\ Lost'
    BY <1>0, <1>2, <1>3 DEF CallsInv, Linked, NotPlanned, Asked, Lost
  <2>2. Losing'
    <3> SUFFICES ASSUME NEW d \in 1 .. Len(stack'), At(stack', d).op = "deactivate",
                        NEW q, q = At(stack', d).proc
                 PROVE  q \notin alive' /\ ~(\E i \in 1 .. Len(rpc'[q]) : rpc'[q][i].call = "next")
      BY DEF Losing, Levels, Awaits
    <3>1. q \in Lonely
      OBVIOUS
    <3> QED
      BY <3>1 DEF Awaits
  <2> QED
    BY <1>2, <2>1, <2>2 DEF CallsInv
<1>6. ASSUME NEW m \in Msg PROVE Sending(m)'
  <2> DEFINE w == [call |-> "send", msg |-> m]
  <2> SUFFICES ASSUME NEW q \in Proc, NEW i \in 1 .. Len(rpc'[q]), rpc'[q][i] = w
               PROVE  /\ Sender[m] = q /\ state'[m] = "CREATED" /\ w \notin plan[q]
                      /\ \A j \in 1 .. Len(rpc'[q]) : rpc'[q][j] = w => i = j
    BY <1>3 DEF Sending
  <2>1. \A b \in Proc : \A k \in 1 .. Len(rpc[b]) : rpc[b][k] = w =>
           /\ Sender[m] = b /\ state[m] = "CREATED" /\ w \notin plan[b]
           /\ \A j \in 1 .. Len(rpc[b]) : rpc[b][j] = w => k = j
    BY DEF BaseInv, Sending
  <2>2. state'[m] = state[m] \/ c = w
    OBVIOUS
  <2> HIDE DEF w
  <2>3. CASE q # p
    <3>1. /\ Sender[m] = q /\ state[m] = "CREATED" /\ w \notin plan[q]
          /\ \A j \in 1 .. Len(rpc'[q]) : rpc'[q][j] = w => i = j
      BY <1>1, <2>1, <2>3
    <3>2. c # w
      BY <1>1, <2>1, <2>3, <3>1
    <3> QED
      BY <2>2, <3>1, <3>2
  <2>4. CASE q = p
    <3>1. i + 1 \in 1 .. Len(rpc[p]) /\ rpc[p][i + 1] = w
      BY <1>1, <2>4
    <3>2. /\ Sender[m] = q /\ state[m] = "CREATED" /\ w \notin plan[q]
          /\ \A j \in 1 .. Len(rpc[p]) : rpc[p][j] = w => i + 1 = j
      BY <2>1, <2>4, <3>1
    <3>3. c # w
      <4>1. i + 1 # 1
        BY <1>1
      <4> QED
        BY <1>1, <3>2, <4>1
    <3>4. ASSUME NEW j \in 1 .. Len(rpc'[q]), rpc'[q][j] = w PROVE i = j
      <4>1. j + 1 \in 1 .. Len(rpc[p]) /\ rpc[p][j + 1] = w
        BY <1>1, <2>4, <3>4
      <4>2. i + 1 = j + 1
        BY <3>2, <4>1
      <4>3. i \in Nat /\ j \in Nat
        BY <1>1, <2>4
      <4> QED
        BY <4>2, <4>3
    <3> QED
      BY <2>2, <3>2, <3>3, <3>4
  <2> QED
    BY <2>3, <2>4
<1> QED
  BY <1>4, <1>5, <1>6, FreshFrames DEF BaseInv

\* The same of a call that gives up no procid.
LEMMA TakesServed ==
    ASSUME TypeOK, BaseInv, NEW p \in Proc, NEW c, Takes(p, c), Fresh,
           \A d \in 1 .. Len(stack') : At(stack', d).op # "deactivate",
           \A q \in Proc : Awaits(q)' => signalled'[q],
           \A q \in Proc : Once(undelivered[q]) => Once(undelivered'[q]),
           \A m \in Msg : state'[m] = state[m] \/ c = [call |-> "send", msg |-> m],
           \A m \in Msg : RequestInv(m)'
    PROVE  BaseInv'
<1> DEFINE none == {}
<1>1. \A d \in 1 .. Len(stack') : At(stack', d).op = "deactivate" => At(stack', d).proc \in none
  OBVIOUS
<1>2. \A q \in none : q \notin alive' /\ ~Awaits(q)'
  OBVIOUS
<1> HIDE DEF none
<1> QED
  BY <1>1, <1>2, TakesInv

\* A request that the call that begins does not concern, but for its state.
LEMMA IdleNear ==
    ASSUME TypeOK, BaseInv, NEW m \in Msg, stack = << >>, Len(stack') \in Nat,
           active' = active, Same(m), ChangeOk(m)',
           \A d \in 1 .. Len(stack') :
              /\ At(stack', d).op \in {"deliver", "match", "report", "requeue"} => At(stack', d).msg # m
              /\ At(stack', d).op # "unread"
              /\ At(stack', d).op = "redeliver" /\ m \in At(stack', d).todo => state[m] = "QUEUED"
    PROVE  RequestInv(m)'
<1>1. Len(stack) = 0
  OBVIOUS
<1>2. Calls(0) /\ Added(0) = 1 .. Len(stack')
  BY <1>1 DEF Calls, Lower, Added
<1>3. Elsewhere(m, 0)
  BY <1>2 DEF Elsewhere
<1>4. Passed(m, 0)
  BY <1>1 DEF Passed
<1>5. Near(m, 0)
  BY <1>2, <1>3, <1>4 DEF Near, Same
<1>6. handler[m] \in Proc \cup {NoProc}
  BY DEF TypeOK
<1> QED
  BY <1>5, <1>6, NearStep DEF BaseInv

\* A request that the call that begins does not concern.
LEMMA IdleAside ==
    ASSUME TypeOK, BaseInv, NEW m \in Msg, stack = << >>, Len(stack') \in Nat,
           active' = active, Same(m),
           \A d \in 1 .. Len(stack') :
              /\ At(stack', d).op \in {"deliver", "match", "report", "requeue", "change"} => At(stack', d).msg # m
              /\ At(stack', d).op # "unread"
              /\ At(stack', d).op = "redeliver" /\ m \in At(stack', d).todo => state[m] = "QUEUED"
    PROVE  RequestInv(m)'
<1>1. ~Changes(m)'
  BY DEF Changes
<1>2. ChangeOk(m)'
  BY <1>1 DEF ChangeOk
<1> QED
  BY <1>2, IdleNear

\* The RPC that the main loop serves is one of p's.
LEMMA ServeTakes ==
    ASSUME TypeOK, NEW p \in Proc, NEW name, Serve(p, name),
           alive' \subseteq alive, UNCHANGED <<plan, active, channel>>
    PROVE  /\ \E c \in Call : c = Head(rpc[p]) /\ c.call = name /\ Takes(p, c)
           /\ stack = << >> /\ heap = "intact" /\ Len(stack) = 0
<1>1. stack = << >> /\ heap = "intact" /\ rpc[p] # << >> /\ Head(rpc[p]).call = name
  BY DEF Serve, Idle
<1>2. rpc' = [rpc EXCEPT ![p] = Tail(@)]
  BY DEF Serve
<1>3. rpc[p] \in Seq(Call)
  BY DEF TypeOK
<1>4. Head(rpc[p]) \in Call
  BY <1>1, <1>3, HeadTailProperties
<1>5. Takes(p, Head(rpc[p]))
  BY <1>1, <1>2 DEF Takes
<1> QED
  BY <1>1, <1>4, <1>5

\* A client that awaits the reply of an RPC has been signalled.
LEMMA AskedKept ==
    ASSUME TypeOK, BaseInv, NEW p \in Proc, NEW c, Takes(p, c),
           \A q \in Proc : q # p \/ c.call # "next" => signalled'[q] = signalled[q]
    PROVE  \A q \in Proc : Awaits(q)' => signalled'[q]
<1> SUFFICES ASSUME NEW q \in Proc, Awaits(q)' PROVE signalled'[q]
  OBVIOUS
<1>1. CallsInv
  BY DEF BaseInv
<1>2. Awaits(q) /\ (c.call \notin OneWay => ~Awaits(p)')
  BY <1>1, TakesCalls
<1>3. signalled[q]
  BY <1>1, <1>2 DEF CallsInv, Asked
<1>4. CASE q = p /\ c.call = "next"
  BY <1>2, <1>4 DEF OneWay
<1>5. CASE ~(q = p /\ c.call = "next")
  BY <1>3, <1>5
<1> QED
  BY <1>4, <1>5

\* A pattern is registered or unregistered: no request is concerned.
LEMMA ServePatternInv ==
    ASSUME TypeOK, BaseInv, NEW p \in Proc, ServeRegister(p) \/ ServeUnregister(p)
    PROVE  BaseInv'
<1>1. /\ Serve(p, "register") \/ Serve(p, "unregister")
      /\ UNCHANGED <<alive, plan, active, channel, signalled, undelivered,
                   delivered, queued, stack>>
      /\ UNCHANGED <<state, handler, reported>>
  BY DEF ServeRegister, ServeUnregister, msgVars
<1>2. stack = << >> /\ Len(stack) = 0
  BY <1>1, ServeTakes
<1>3. PICK c \in Call : /\ c = Head(rpc[p]) /\ c.call \in {"register", "unregister"} /\ Takes(p, c)
  BY <1>1, ServeTakes
<1>4. Fresh
  BY <1>1, <1>2 DEF Fresh
<1>5. \A q \in Proc : Awaits(q)' => signalled'[q]
  BY <1>1, <1>3, AskedKept
<1>6. ASSUME NEW m \in Msg PROVE RequestInv(m)'
  <2>1. Same(m)
    BY <1>1 DEF Same
  <2> QED
    BY <1>1, <1>2, <2>1, IdleAside
<1> QED
  BY <1>1, <1>2, <1>3, <1>4, <1>5, <1>6, TakesServed

\* The requests of the queue are delivered again.
LEMMA ServeJoinInv ==
    ASSUME TypeOK, BaseInv, NEW p \in Proc, ServeJoin(p)
    PROVE  BaseInv'
<1>1. /\ Serve(p, "join")
      /\ UNCHANGED <<alive, plan, active, channel, signalled, undelivered, delivered, queued>>
      /\ UNCHANGED <<state, handler, reported>>
      /\ stack' = <<Redeliver(queued)>> \/ stack' = << >>
  BY DEF ServeJoin, msgVars
<1>2. stack = << >> /\ Len(stack) = 0
  BY <1>1, ServeTakes
<1>3. PICK c \in Call : /\ c = Head(rpc[p]) /\ c.call = "join" /\ Takes(p, c)
  BY <1>1, ServeTakes
<1>4. Redeliver(queued) \in Frame
  BY FramesMade DEF TypeOK
<1>5. \/ Len(stack') = 1 /\ At(stack', 1) = Redeliver(queued)
      \/ Len(stack') = 0
  BY <1>1, <1>2, <1>4, Called0
<1>6. \A d \in 1 .. Len(stack') : d = 1 /\ At(stack', d) = Redeliver(queued)
  <2> DEFINE z == Len(stack')
  <2>1. z \in {0, 1} /\ (z = 1 => At(stack', 1) = Redeliver(queued))
    BY <1>5
  <2> HIDE DEF z
  <2>2. \A d \in 1 .. z : d = 1 /\ z = 1
    BY <2>1
  <2> QED
    BY <2>1, <2>2 DEF z
<1>7. \A d \in 1 .. Len(stack') : d = 1 /\ At(stack', d).op = "redeliver" /\ At(stack', d).todo = queued
  BY <1>6 DEF Redeliver
<1>8. Fresh
  BY <1>7 DEF Fresh, Cursors
<1>9. \A q \in Proc : Awaits(q)' => signalled'[q]
  BY <1>1, <1>3, AskedKept
<1>10. ASSUME NEW m \in Msg PROVE RequestInv(m)'
  <2>1. Same(m)
    BY <1>1 DEF Same
  <2>2. m \in queued => state[m] = "QUEUED"
    BY <1>2 DEF BaseInv, RequestInv, QueuedOk, Levels
  <2>3. Len(stack') \in Nat
    BY <1>5
  <2> QED
    BY <1>1, <1>2, <1>7, <2>1, <2>2, <2>3, IdleAside
<1> QED
  BY <1>1, <1>3, <1>7, <1>8, <1>9, <1>10, TakesServed

\* A request that is sent, and that nobody has been given.
LEMMA SentInv ==
    ASSUME NEW m \in Msg, state'[m] = "SENT", handler'[m] = NoProc, ~Given(m)', m \notin queued',
           Len(stack') \in {1, 2}, At(stack', 1).op = "deliver",
           Len(stack') = 2 => At(stack', 2) = Change(m, "FAILED")
    PROVE  RequestInv(m)'
<1> DEFINE z == Len(stack')
<1>1. /\ z \in {1, 2} /\ At(stack', 1).op = "deliver"
      /\ z = 2 => At(stack', 2).op = "change" /\ At(stack', 2).msg = m /\ At(stack', 2).to = "FAILED"
  BY DEF Change
<1> HIDE DEF z
<1>2. \A d \in 1 .. z : d = 1 \/ (d = 2 /\ z = 2)
  BY <1>1
<1>3. \A d \in 1 .. z : /\ At(stack', d).op \in {"deliver", "change"}
                        /\ At(stack', d).op = "deliver" => d = 1
                        /\ At(stack', d).op = "change" => At(stack', d).to = "FAILED"
  BY <1>1, <1>2
<1>4. Created(m)' /\ ReportOk(m)' /\ BestOk(m)' /\ RequeueOk(m)'
  BY <1>3 DEF Created, ReportOk, BestOk, RequeueOk, Levels, z, Reports, Matches, Requeues
<1>5. ChangeOk(m)'
  <2>1. z \in 1 .. z
    BY <1>1
  <2>2. Changes(m)' => At(stack', z).to = "FAILED"
    BY <1>3, <2>1 DEF Changes, z
  <2>3. \A d \in 1 .. z : ~Matches(d, m)'
    BY <1>3 DEF Matches
  <2>4. \A p \in Proc : m \notin delivered'[p]
    BY DEF Given
  <2> QED
    BY <2>2, <2>3, <2>4 DEF ChangeOk, Levels, z
<1>6. OneWalk(m)'
  BY <1>3 DEF OneWalk, Levels, z, Walks
<1>7. Transit(m)' /\ UnreadOk(m)'
  BY DEF Transit, UnreadOk
<1>8. ReadOk(m)'
  BY DEF ReadOk, Given
<1>9. QueuedOk(m)'
  BY <1>3 DEF QueuedOk, Levels, z, Requeues
<1> QED
  BY <1>4, <1>5, <1>6, <1>7, <1>8, <1>9 DEF RequestInv

\* A request is sent.
LEMMA ServeSendInv ==
    ASSUME TypeOK, BaseInv, NEW p \in Proc, ServeSend(p)
    PROVE  BaseInv'
<1>1. /\ Serve(p, "send")
      /\ UNCHANGED <<alive, plan, active, channel, signalled, undelivered, delivered, queued>>
      /\ UNCHANGED <<handler, reported>>
  BY DEF ServeSend
<1>2. stack = << >> /\ Len(stack) = 0
  BY <1>1, ServeTakes
<1>3. PICK c \in Call : /\ c = Head(rpc[p]) /\ c.call = "send" /\ Takes(p, c)
  BY <1>1, ServeTakes
<1> DEFINE m == c.msg
<1>4. m \in Msg /\ c = [call |-> "send", msg |-> m]
  BY <1>3 DEF Call
<1>5. /\ state' = [state EXCEPT ![m] = "SENT"]
      /\ \/ stack' = <<Change(m, "FAILED"), Deliver(m, TRUE)>>
         \/ stack' = <<Deliver(m, TRUE)>>
  BY <1>3 DEF ServeSend
<1>6. state[m] = "CREATED"
  <2>1. 1 \in 1 .. Len(rpc[p]) /\ rpc[p][1] = c
    BY <1>3, TakesCalls DEF BaseInv
  <2>2. Sending(m)
    BY <1>4 DEF BaseInv
  <2> HIDE DEF m
  <2> QED
    BY <1>4, <2>1, <2>2 DEF Sending
<1> HIDE DEF m
<1>7. PICK f \in Frame, g \in Frame : f = Change(m, "FAILED") /\ g = Deliver(m, TRUE)
  <2>1. Deliver(m, TRUE) \in Frame /\ Change(m, "FAILED") \in Frame
    BY <1>4, FramesMade DEF Final
  <2> QED
    BY <2>1
<1>15. stack' = <<f, g>> \/ stack' = <<g>>
  BY <1>5, <1>7
<1>8. /\ Len(stack') \in {1, 2} /\ At(stack', 1) = g
      /\ Len(stack') = 2 => At(stack', 2) = f
  <2>1. ASSUME stack' = <<g>>
        PROVE  Len(stack') = 1 /\ At(stack', 1) = g
    BY <1>2, <2>1, Called0
  <2>2. ASSUME stack' = <<f, g>>
        PROVE  Len(stack') = 2 /\ At(stack', 1) = g /\ At(stack', 2) = f
    BY <1>2, <2>2, Called0
  <2> QED
    BY <1>15, <2>1, <2>2
<1>9. \A d \in 1 .. Len(stack') : \/ At(stack', d) = g
                                  \/ At(stack', d) = f /\ d = Len(stack')
  <2> DEFINE z == Len(stack')
  <2>1. /\ z \in {1, 2} /\ At(stack', 1) = g
        /\ z = 2 => At(stack', 2) = f
    BY <1>8
  <2> HIDE DEF z
  <2>2. \A d \in 1 .. z : d = 1 \/ (d = 2 /\ z = 2)
    BY <2>1
  <2> QED
    BY <2>1, <2>2 DEF z
<1>10. \A d \in 1 .. Len(stack') : /\ At(stack', d).op \in {"deliver", "change"}
                                   /\ At(stack', d).msg = m
                                   /\ At(stack', d).op = "change" => d = Len(stack')
  BY <1>7, <1>9 DEF Deliver, Change
<1>11. Fresh
  BY <1>10 DEF Fresh, Cursors
<1>12. \A q \in Proc : Awaits(q)' => signalled'[q]
  BY <1>1, <1>3, AskedKept
<1>13. ASSUME NEW o \in Msg PROVE RequestInv(o)'
  <2>1. CASE o = m
    <3>1. Created(m)
      BY <1>4 DEF BaseInv, RequestInv
    <3>2. handler[m] = NoProc /\ ~Given(m) /\ m \notin queued
      BY <1>6, <3>1 DEF Created
    <3>3. handler'[m] = NoProc /\ ~Given(m)' /\ m \notin queued'
      BY <1>1, <3>2 DEF Given
    <3>4. state'[m] = "SENT"
      BY <1>4, <1>5 DEF TypeOK
    <3>5. At(stack', 1).op = "deliver" /\ Len(stack') \in {1, 2}
      BY <1>7, <1>8 DEF Deliver
    <3>6. Len(stack') = 2 => At(stack', 2) = Change(m, "FAILED")
      BY <1>7, <1>8
    <3>7. RequestInv(m)'
      BY <1>4, <3>3, <3>4, <3>5, <3>6, SentInv
    <3> QED
      BY <2>1, <3>7
  <2>2. CASE o # m
    <3>1. state'[o] = state[o]
      BY <1>5, <2>2 DEF TypeOK
    <3>2. Same(o)
      BY <1>1, <3>1 DEF Same
    <3>3. Len(stack') \in Nat
      BY <1>8
    <3> QED
      BY <1>1, <1>2, <1>10, <2>2, <3>2, <3>3, IdleAside
  <2> QED
    BY <2>1, <2>2
<1>14. \A o \in Msg : state'[o] = state[o] \/ c = [call |-> "send", msg |-> o]
  BY <1>4, <1>5 DEF TypeOK
<1> QED
  <2>1. \A d \in 1 .. Len(stack') : At(stack', d).op # "deactivate"
    BY <1>10
  <2>2. \A q \in Proc : undelivered'[q] = undelivered[q]
    BY <1>1
  <2> QED
    BY <1>3, <1>11, <1>12, <1>13, <1>14, <2>1, <2>2, TakesServed

\* A request that its handler takes out of its list, to answer it.
LEMMA TakenInv ==
    ASSUME TypeOK, NEW m \in Msg, RequestInv(m), NEW p \in Proc, stack = << >>, stack' = << >>,
           UNCHANGED <<active, state, handler, reported, queued>>,
           handler[m] = p, active[p], state[m] \notin Final, Has(undelivered[p], m),
           ~Has(undelivered'[p], m),
           \A q \in Proc : m \in delivered'[q] => q = p \/ m \in delivered[q]
    PROVE  RequestInv(m)'
<1>1. p # NoProc
  BY SessionAssumption
<1>2. ~Given(m) /\ state[m] = "SENT"
  BY <1>1 DEF RequestInv, UnreadOk
<1>3. Len(stack') = 0 /\ Len(stack) = 0
  OBVIOUS
<1> DEFINE z == Len(stack')
           n == Len(stack)
<1>4. 1 .. z = {} /\ 1 .. n = {} /\ ~(z > 0)
  BY <1>3
<1> HIDE DEF z, n
<1>5. Created(m)' /\ ReportOk(m)' /\ BestOk(m)' /\ RequeueOk(m)' /\ OneWalk(m)' /\ Transit(m)'
  BY <1>2, <1>4 DEF Created, ReportOk, BestOk, RequeueOk, OneWalk, Transit, Levels, z
<1>6. ChangeOk(m)'
  BY <1>4 DEF ChangeOk, Changes, z
<1>7. ReadOk(m)'
  BY <1>2, <1>4 DEF ReadOk, Given, Levels, z
<1>8. UnreadOk(m)'
  BY DEF UnreadOk
<1>9. QueuedOk(m)'
  BY <1>2, <1>4 DEF RequestInv, QueuedOk, Levels, n, z
<1> QED
  BY <1>5, <1>6, <1>7, <1>8, <1>9 DEF RequestInv

\* A client reads the first message of its list.
LEMMA ServeNextInv ==
    ASSUME TypeOK, BaseInv, NEW p \in Proc, ServeNext(p)
    PROVE  BaseInv'
<1>1. /\ Serve(p, "next")
      /\ UNCHANGED <<alive, plan, active, channel, queued, stack>>
      /\ UNCHANGED <<state, handler, reported>>
  BY DEF ServeNext, msgVars
<1>2. stack = << >> /\ Len(stack) = 0 /\ stack' = << >>
  BY <1>1, ServeTakes
<1>3. PICK c \in Call : /\ c = Head(rpc[p]) /\ c.call = "next" /\ Takes(p, c)
  BY <1>1, ServeTakes
<1>4. Fresh
  BY <1>2 DEF Fresh
<1>5. ~Awaits(p)' /\ \A q \in Proc : Awaits(q)' => Awaits(q)
  BY <1>3, TakesCalls DEF BaseInv, OneWay
<1>6. active[p]
  <2>1. 1 \in 1 .. Len(rpc[p]) /\ rpc[p][1] = c
    BY <1>3, TakesCalls DEF BaseInv
  <2>2. Awaits(p)
    BY <1>3, <2>1 DEF Awaits
  <2> QED
    BY <2>2 DEF BaseInv, CallsInv, Lost
<1>7. \A q \in Proc : Awaits(q)' => signalled'[q]
  <2> SUFFICES ASSUME NEW q \in Proc, Awaits(q)' PROVE signalled'[q]
    OBVIOUS
  <2>1. q # p /\ signalled[q]
    BY <1>5 DEF BaseInv, CallsInv, Asked
  <2> QED
    BY <2>1 DEF ServeNext, TypeOK
<1> DEFINE u == undelivered[p]
           t == undelivered'[p]
           live == u # << >> /\ Head(u).seen = "LIVE"
           o    == Head(u).msg
<1>8. u \in Seq(Entry) /\ undelivered' = [undelivered EXCEPT ![p] = IF u # << >> THEN Tail(@) ELSE @]
  BY DEF ServeNext, TypeOK
<1>9. /\ \A q \in Proc : q # p => undelivered'[q] = undelivered[q]
      /\ t = IF u # << >> THEN Tail(u) ELSE u
  BY <1>8 DEF TypeOK
<1>10. \A q \in Proc, m \in Msg : m \in delivered'[q] =>
           m \in delivered[q] \/ (q = p /\ m = o /\ live /\ Processing(p, m))
  BY DEF ServeNext, TypeOK
<1>11. \A e \in Entry : e.seen = "LIVE" => e = Live(e.msg)
  BY DEF Entry, Live
<1>12. u # << >> => Head(u) \in Entry /\ 1 \in 1 .. Len(u) /\ Head(u) = u[1]
  BY <1>8, EmptySeq, HeadTailProperties
<1>13. live => Head(u) = Live(o) /\ Has(u, o)
  BY <1>11, <1>12 DEF Has
<1>14. /\ \A m \in Msg : Has(t, m) => Has(u, m)
       /\ Once(u) => Once(t) /\ (live => \A m \in Msg : m = o => ~Has(t, m))
  BY <1>8, <1>9, <1>13, PoppedList
<1>15. Once(u)
  BY DEF BaseInv, ListsInv, NoneTwice
<1> HIDE DEF u, t, live, o
<1>16. ASSUME NEW m \in Msg PROVE RequestInv(m)'
  <2>1. CASE m = o /\ live /\ Processing(p, m)
    <3>1. handler[m] = p /\ state[m] \notin Final
      BY <2>1 DEF Processing
    <3>2. Has(undelivered[p], m) /\ ~Has(undelivered'[p], m)
      BY <1>13, <1>14, <1>15, <2>1 DEF u, t
    <3>3. RequestInv(m)
      BY DEF BaseInv
    <3>4. \A q \in Proc : m \in delivered'[q] => q = p \/ m \in delivered[q]
      BY <1>10
    <3> QED
      BY <1>1, <1>2, <1>6, <3>1, <3>2, <3>3, <3>4, TakenInv
  <2>2. CASE ~(m = o /\ live /\ Processing(p, m))
    <3>1. \A q \in Proc : m \in delivered'[q] => m \in delivered[q]
      BY <1>10, <2>2
    <3>2. \A q \in Proc : Has(undelivered'[q], m) => Has(undelivered[q], m)
      BY <1>9, <1>14 DEF u, t
    <3>3. Same(m)
      BY <1>1, <3>1, <3>2 DEF Same
    <3> QED
      BY <1>1, <1>2, <3>3, IdleAside
  <2> QED
    BY <2>1, <2>2
<1>17. \A q \in Proc : Once(undelivered[q]) => Once(undelivered'[q])
  BY <1>9, <1>14 DEF u, t
<1>18. \A d \in 1 .. Len(stack') : At(stack', d).op # "deactivate"
  BY <1>2
<1>19. \A m \in Msg : state'[m] = state[m] \/ c = [call |-> "send", msg |-> m]
  BY <1>1
<1> QED
  BY <1>3, <1>4, <1>7, <1>16, <1>17, <1>18, <1>19, TakesServed

\* A client answers a request that it has read.
LEMMA ServeUpdateInv ==
    ASSUME TypeOK, BaseInv, NEW p \in Proc, ServeUpdate(p)
    PROVE  BaseInv'
<1>1. /\ Serve(p, "update")
      /\ UNCHANGED <<alive, plan, active, channel, signalled, undelivered, queued>>
      /\ UNCHANGED <<state, handler, reported>>
  BY DEF ServeUpdate, msgVars
<1>2. stack = << >> /\ Len(stack) = 0
  BY <1>1, ServeTakes
<1>3. PICK c \in Call : /\ c = Head(rpc[p]) /\ c.call = "update" /\ Takes(p, c)
  BY <1>1, ServeTakes
<1>4. c.msg \in Msg /\ c.to \in {"REJECTED"} \cup Final
  BY <1>3 DEF Call
<1>5. PICK m \in Msg, to \in {"REJECTED"} \cup Final : m = c.msg /\ to = c.to
  BY <1>4
<1>6. PICK f \in Frame : f = Change(m, to)
  BY <1>5, FramesMade
<1>7. /\ f.op = "change" /\ f.msg = m /\ f.to = to
  BY <1>6 DEF Change
<1>8. \/ stack' = <<f>> /\ m \in delivered[p] /\ delivered' = [delivered EXCEPT ![p] = @ \ {m}]
      \/ stack' = << >> /\ delivered' = delivered
  BY <1>3, <1>5, <1>6 DEF ServeUpdate, Settle
<1>9. \A q \in Proc : delivered'[q] \subseteq delivered[q]
  BY <1>8 DEF TypeOK
<1>10. \A o \in Msg : Same(o)
  BY <1>1, <1>9 DEF Same
<1>11. \A q \in Proc : Awaits(q)' => signalled'[q]
  BY <1>1, <1>3, AskedKept
<1>12. \A o \in Msg : state'[o] = state[o] \/ c = [call |-> "send", msg |-> o]
  BY <1>1
<1>13. \A q \in Proc : Once(undelivered[q]) => Once(undelivered'[q])
  BY <1>1
<1>14. CASE stack' = << >> /\ delivered' = delivered
  <2>1. Len(stack') = 0
    BY <1>14
  <2>2. Fresh /\ \A d \in 1 .. Len(stack') : At(stack', d).op # "deactivate"
    BY <2>1 DEF Fresh
  <2>3. \A o \in Msg : RequestInv(o)'
    BY <1>1, <1>2, <1>10, <2>1, IdleAside
  <2> QED
    BY <1>3, <1>11, <1>12, <1>13, <2>2, <2>3, TakesServed
<1>15. CASE stack' = <<f>> /\ m \in delivered[p] /\ delivered' = [delivered EXCEPT ![p] = @ \ {m}]
  <2>1. Len(stack') = 1 /\ At(stack', 1) = f
    BY <1>2, <1>15, Called0
  <2>2. \A d \in 1 .. Len(stack') : d = 1 /\ d = Len(stack')
    BY <2>1
  <2>3. Fresh /\ \A d \in 1 .. Len(stack') : At(stack', d).op # "deactivate"
    BY <1>7, <2>1, <2>2 DEF Fresh, Cursors
  <2>4. handler[m] = p /\ state[m] = "SENT" /\ \A q \in Proc : m \in delivered[q] => q = p
    <3>1. ReadOk(m)
      BY DEF BaseInv, RequestInv
    <3>2. \A d \in Levels : FALSE
      BY <1>2 DEF Levels
    <3> QED
      BY <1>15, <3>1, <3>2 DEF ReadOk
  <2>5. ~Given(m)'
    BY <1>15, <2>4 DEF Given, TypeOK
  <2>6. ChangeOk(m)'
    <3>1. \A d \in Levels' : ~Matches(d, m)'
      BY <1>7, <2>1, <2>2 DEF Levels, Matches
    <3>2. state'[m] = "SENT"
      BY <1>1, <2>4
    <3>3. At(stack', Len(stack')).to # "QUEUED"
      BY <1>7, <2>1 DEF Final
    <3>4. \A q \in Proc : m \notin delivered'[q]
      BY <2>5 DEF Given
    <3> QED
      BY <2>1, <2>5, <3>1, <3>2, <3>3, <3>4 DEF ChangeOk
  <2>7. ASSUME NEW o \in Msg PROVE RequestInv(o)'
    <3>1. \A d \in 1 .. Len(stack') : At(stack', d).op = "change" /\ At(stack', d).msg = m
      BY <1>7, <2>1, <2>2
    <3>2. CASE o = m
      BY <1>1, <1>2, <1>10, <2>1, <2>6, <3>1, <3>2, IdleNear
    <3>3. CASE o # m
      BY <1>1, <1>2, <1>10, <2>1, <3>1, <3>3, IdleAside
    <3> QED
      BY <3>2, <3>3
  <2> QED
    BY <1>3, <1>11, <1>12, <1>13, <2>3, <2>7, TakesServed
<1> QED
  BY <1>8, <1>14, <1>15

\* A procid is given up from the main loop: no request is concerned yet.
LEMMA GivenUp ==
    ASSUME TypeOK, BaseInv, NEW p \in Proc, stack = << >>,
           stack' = << >> \/ stack' = <<Deactivate(p)>>,
           UNCHANGED <<active, undelivered, delivered, state, handler, reported, queued>>
    PROVE  /\ Fresh /\ \A m \in Msg : RequestInv(m)'
           /\ \A d \in 1 .. Len(stack') : At(stack', d).op = "deactivate" =>
                At(stack', d).proc \in {p}
<1>1. PICK f \in Frame : f = Deactivate(p) /\ f.op = "deactivate" /\ f.proc = p
  BY FramesMade DEF Deactivate
<1>2. /\ stack' = << >> => Len(stack') = 0
      /\ stack' = <<f>> => Len(stack') = 1 /\ At(stack', 1) = f
  BY Called0
<1> DEFINE z == Len(stack')
<1>3. z \in {0, 1} /\ (z = 1 => At(stack', 1) = f)
  BY <1>1, <1>2
<1> HIDE DEF z
<1>4. \A d \in 1 .. z : d = 1 /\ z = 1
  BY <1>3
<1>5. \A d \in 1 .. z : At(stack', d).op = "deactivate" /\ At(stack', d).proc = p
  BY <1>1, <1>3, <1>4
<1>6. Fresh
  BY <1>5 DEF Fresh, Cursors, z
<1>7. ASSUME NEW m \in Msg PROVE RequestInv(m)'
  <2>1. Same(m)
    BY DEF Same
  <2>2. z \in Nat
    BY <1>3
  <2> QED
    BY <1>5, <2>1, <2>2, IdleAside DEF z
<1> QED
  BY <1>5, <1>6, <1>7 DEF z

\* tt_close: the client is gone before its procid is given up.
LEMMA ServeCloseInv ==
    ASSUME TypeOK, BaseInv, NEW p \in Proc, ServeClose(p)
    PROVE  BaseInv'
<1>1. /\ Serve(p, "close")
      /\ alive' = alive \ {p}
      /\ UNCHANGED <<plan, active, channel, signalled, undelivered, delivered, queued>>
      /\ UNCHANGED <<state, handler, reported>>
      /\ stack' = << >> \/ stack' = <<Deactivate(p)>>
  BY DEF ServeClose, msgVars
<1>2. alive' \subseteq alive
  BY <1>1
<1>3. stack = << >> /\ Len(stack) = 0
  BY <1>1, <1>2, ServeTakes
<1>4. PICK c \in Call : /\ c = Head(rpc[p]) /\ c.call = "close" /\ Takes(p, c)
  BY <1>1, <1>2, ServeTakes
<1>5. ~Awaits(p)'
  BY <1>4, TakesCalls DEF BaseInv, OneWay
<1>6. \A q \in Proc : Awaits(q)' => signalled'[q]
  BY <1>1, <1>4, AskedKept
<1>7. /\ Fresh /\ \A m \in Msg : RequestInv(m)'
      /\ \A d \in 1 .. Len(stack') : At(stack', d).op = "deactivate" => At(stack', d).proc \in {p}
  BY <1>1, <1>3, GivenUp
<1>8. \A q \in {p} : q \notin alive' /\ ~Awaits(q)'
  BY <1>1, <1>5
<1>9. /\ \A q \in Proc : Once(undelivered[q]) => Once(undelivered'[q])
      /\ \A m \in Msg : state'[m] = state[m] \/ c = [call |-> "send", msg |-> m]
  BY <1>1
<1> DEFINE one == {p}
<1>10. /\ \A d \in 1 .. Len(stack') : At(stack', d).op = "deactivate" => At(stack', d).proc \in one
       /\ \A q \in one : q \notin alive' /\ ~Awaits(q)'
  BY <1>7, <1>8
<1> HIDE DEF one
<1> QED
  BY <1>4, <1>6, <1>7, <1>9, <1>10, TakesInv

\* The channel of a client that died is lost.
LEMMA HangupInv ==
    ASSUME TypeOK, BaseInv, NEW p \in Proc, Hangup(p)
    PROVE  BaseInv'
<1>1. /\ stack = << >> /\ stack' = <<Deactivate(p)>> /\ p \notin alive /\ rpc[p] = << >>
      /\ UNCHANGED <<alive, plan, rpc, active, channel, signalled, undelivered, delivered,
                     queued, state, handler, reported>>
  BY DEF Hangup, Idle, clientVars, msgVars
<1>2. /\ Fresh /\ \A m \in Msg : RequestInv(m)'
      /\ \A d \in 1 .. Len(stack') : At(stack', d).op = "deactivate" => At(stack', d).proc \in {p}
  BY <1>1, GivenUp
<1>3. ListsInv'
  BY <1>1, <1>2, FreshFrames DEF BaseInv, ListsInv, NoneTwice
<1>4. CallsInv'
  <2>1. Linked' /\ LastCall' /\ NotPlanned' /\ Asked' /\ Lost'
    BY <1>1 DEF BaseInv, CallsInv, Linked, LastCall, NotPlanned, Asked, Lost, Awaits
  <2>2. Losing'
    <3> SUFFICES ASSUME NEW d \in 1 .. Len(stack'), At(stack', d).op = "deactivate",
                        NEW q, q = At(stack', d).proc
                 PROVE  q \notin alive' /\ ~(\E i \in 1 .. Len(rpc'[q]) : rpc'[q][i].call = "next")
      BY DEF Losing, Levels, Awaits
    <3>1. q = p
      BY <1>2
    <3>2. Len(rpc'[p]) = 0
      BY <1>1
    <3> QED
      BY <1>1, <3>1, <3>2
  <2> QED
    BY <2>1, <2>2 DEF CallsInv
<1>5. \A m \in Msg : Sending(m)'
  BY <1>1 DEF BaseInv, Sending
<1> QED
  BY <1>2, <1>3, <1>4, <1>5, FreshFrames DEF BaseInv

-----------------------------------------------------------------------------
(* The invariant of the session, and what follows from it. *)

\* The server's own steps keep the invariant, unless they free an element.
LEMMA RunInv == ASSUME TypeOK, BaseInv, Run, heap' = "intact" PROVE BaseInv'
<1>0. ListsInv
  BY DEF BaseInv
<1>1. CASE RunDeliver \/ MatchInactive \/ MatchHandler \/ MatchObserver
  BY <1>0, <1>1, RunDeliverWalks, MatchInactiveWalks, MatchHandlerWalks, MatchObserverWalks, WalkInv
<1>2. CASE MatchHosed
  BY <1>2 DEF MatchHosed
<1>3. CASE GiveToHandler
  BY <1>0, <1>3, GiveToHandlerGives, GaveInv
<1>4. CASE NoHandler \/ RunReturn \/ ChangeRepeated \/ ChangeFinal \/ ChangeQueued \/ ChangeRejected
  BY <1>4, NoHandlerInv, RunReturnInv, ChangeRepeatedInv, ChangeFinalInv, ChangeQueuedInv,
     ChangeRejectedInv
<1>5. CASE RunReport \/ RunDeactivate \/ RunUnread \/ RunUnanswered \/ RunOrphaned \/ RunForget
  BY <1>5, RunReportInv, RunDeactivateInv, RunUnreadInv, RunUnansweredInv, RunOrphanedInv,
     RunForgetInv
<1>6. CASE RunRedeliver \/ RunRequeue
  BY <1>6, RunRedeliverInv, RunRequeueInv
<1> QED
  BY <1>1, <1>2, <1>3, <1>4, <1>5, <1>6 DEF Run

\* A session that begins: nobody has asked for anything.
LEMMA SessionInit == ASSUME ReadsWhenSignalled, Init PROVE SessionInv
<1>1. Len(stack) = 0 /\ \A p \in Proc : Len(rpc[p]) = 0 /\ Len(undelivered[p]) = 0
  BY DEF Init
<1>2. Levels = {} /\ \A p \in Proc : 1 .. Len(rpc[p]) = {} /\ 1 .. Len(undelivered[p]) = {}
  BY <1>1 DEF Levels
<1>3. FramesInv
  BY <1>2 DEF FramesInv, Tops, DeadFrames, Nested, OneCursor, QueueFrames
<1>4. ListsInv
  BY <1>2 DEF ListsInv, CursorKept, NoneTwice, Once
<1>5. CallsInv
  <2>1. NotPlanned
    BY DEF Init, NotPlanned, ReadsWhenSignalled
  <2>2. Linked /\ LastCall /\ Asked /\ Lost /\ Losing
    BY <1>2 DEF Init, Linked, LastCall, Asked, Awaits, Lost, Losing
  <2> QED
    BY <2>1, <2>2 DEF CallsInv
<1>6. ASSUME NEW m \in Msg PROVE RequestInv(m) /\ Sending(m)
  <2>1. state[m] = "CREATED" /\ handler[m] = NoProc /\ reported[m] = {} /\ m \notin queued
    BY DEF Init
  <2>2. ~Given(m) /\ \A p \in Proc : ~Has(undelivered[p], m)
    BY <1>2 DEF Init, Given, Has
  <2>3. Created(m) /\ ChangeOk(m)
    BY <1>1, <1>2, <2>1, <2>2 DEF Created, ChangeOk, Changes
  <2>4. BestOk(m) /\ ReportOk(m) /\ OneWalk(m) /\ Transit(m) /\ RequeueOk(m)
    BY <1>2 DEF BestOk, ReportOk, OneWalk, Transit, RequeueOk
  <2>5. ReadOk(m) /\ UnreadOk(m)
    BY <2>1, <2>2 DEF ReadOk, UnreadOk, Given
  <2>6. QueuedOk(m)
    BY <1>2, <2>1 DEF QueuedOk
  <2>7. Sending(m)
    BY <1>2 DEF Sending
  <2> QED
    BY <2>3, <2>4, <2>5, <2>6, <2>7 DEF RequestInv
<1> QED
  BY <1>3, <1>4, <1>5, <1>6 DEF SessionInv, BaseInv

\* A list element that was freed stays freed.
LEMMA HeapStays == ASSUME [Next]_vars, heap' = "intact" PROVE heap = "intact"
<1>1. CASE Run
  BY <1>1 DEF Run, Running, RunDeliver, MatchHosed, MatchInactive, MatchHandler, MatchObserver,
              MatchEnded, GiveToHandler, NoHandler, RunReturn, ChangeRepeated, ChangeFinal,
              ChangeQueued, ChangeRejected, RunReport, RunDeactivate, RunUnread, RunUnanswered,
              RunOrphaned, RunForget, RunRedeliver, RunRequeue
<1>2. ASSUME NEW p \in Proc, Client(p) PROVE heap = "intact"
  BY <1>2 DEF Client, AskPlanned, AskNext, AskUpdate, Die, Ask
<1>3. ASSUME NEW p \in Proc, ServeRpc(p) PROVE heap = "intact"
  BY <1>3 DEF ServeRpc, ServeRegister, ServeUnregister, ServeJoin, ServeSend, ServeNext,
              ServeUpdate, ServeClose, Serve, Idle
<1>4. ASSUME NEW p \in Proc, Hangup(p) PROVE heap = "intact"
  BY <1>4 DEF Hangup, Idle
<1>5. CASE UNCHANGED vars
  BY <1>5 DEF vars
<1> QED
  BY <1>1, <1>2, <1>3, <1>4, <1>5 DEF Next

\* Every step keeps the invariant.
LEMMA SessionStep == ASSUME TypeOK, SessionInv, [Next]_vars PROVE SessionInv'
<1> SUFFICES ASSUME heap' = "intact" PROVE BaseInv'
  BY DEF SessionInv
<1>1. heap = "intact"
  BY HeapStays
<1>2. BaseInv
  BY <1>1 DEF SessionInv
<1>3. CASE Run
  BY <1>2, <1>3, RunInv
<1>4. ASSUME NEW p \in Proc, Client(p) PROVE BaseInv'
  BY <1>2, <1>4, ClientInv
<1>5. ASSUME NEW p \in Proc, ServeRpc(p) PROVE BaseInv'
  BY <1>2, <1>5, ServePatternInv, ServeJoinInv, ServeSendInv, ServeNextInv, ServeUpdateInv,
     ServeCloseInv DEF ServeRpc
<1>6. ASSUME NEW p \in Proc, Hangup(p) PROVE BaseInv'
  BY <1>2, <1>6, HangupInv
<1>7. CASE UNCHANGED vars
  <2>1. Still /\ UNCHANGED <<alive, plan, rpc>>
    BY <1>7 DEF vars, Still
  <2>2. CallsInv' /\ \A m \in Msg : Sending(m)'
    BY <1>2, <2>1 DEF BaseInv, CallsInv, Linked, LastCall, NotPlanned, Asked, Lost, Losing, Awaits,
                      Levels, Sending, Still
  <2> QED
    BY <1>2, <2>1, <2>2, StillStep
<1> QED
  BY <1>3, <1>4, <1>5, <1>6, <1>7 DEF Next

\* Types and the invariant hold throughout.
LEMMA SessionAlways == ASSUME ReadsWhenSignalled PROVE Spec => [](TypeOK /\ SessionInv)
<1>1. Init => SessionInv
  BY SessionInit
<1>2. TypeOK /\ SessionInv /\ [Next]_vars => SessionInv'
  BY SessionStep
<1> QED
  BY <1>1, <1>2, TypeCorrect, PTL DEF Spec

\* A request read and not answered has one owner.
LEMMA OwnersApart == ASSUME SessionInv PROVE OneOwner
<1> SUFFICES ASSUME Idle, NEW m \in Msg, NEW p \in Proc, m \in delivered[p]
             PROVE  /\ active[p] /\ state[m] = "SENT" /\ handler[m] = p
                    /\ \A q \in Proc \ {p} : ~Holds(q, m)
  BY DEF OneOwner
<1>1. Len(stack) = 0
  BY DEF Idle
<1>2. \A d \in Levels : FALSE
  BY <1>1 DEF Levels
<1>3. ReadOk(m)
  BY DEF SessionInv, Idle, BaseInv, RequestInv
<1>4. \A q \in Proc : m \in delivered[q] => handler[m] = q
  BY <1>3 DEF ReadOk
<1>5. active[p] /\ state[m] = "SENT"
  BY <1>2, <1>3 DEF ReadOk
<1> QED
  BY <1>4, <1>5 DEF Holds, Processing

\* The queue and the states of the requests agree.
LEMMA QueueAgrees == ASSUME TypeOK, SessionInv PROVE QueueKept
<1> SUFFICES ASSUME Idle PROVE queued = {m \in Msg : state[m] = "QUEUED"}
  BY DEF QueueKept
<1>1. Len(stack) = 0
  BY DEF Idle
<1>2. \A d \in Levels : FALSE
  BY <1>1 DEF Levels
<1>3. \A m \in Msg : QueuedOk(m)
  BY DEF SessionInv, Idle, BaseInv, RequestInv
<1>4. \A m \in Msg : m \in queued <=> state[m] = "QUEUED"
  BY <1>2, <1>3 DEF QueuedOk
<1> QED
  BY <1>4 DEF TypeOK

\* Between two RPCs a request that has been read and not answered is SENT, its
\* handler is the active process that read it, and nobody else holds it:
\* whatever the clients send, reject and die of, and however deep the failures nest.
THEOREM OneOwnerAlways == ASSUME ReadsWhenSignalled PROVE Spec => []OneOwner
<1>1. TypeOK /\ SessionInv => OneOwner
  BY OwnersApart
<1> QED
  BY <1>1, SessionAlways, PTL

\* Between two RPCs the queue of the session is made of the QUEUED requests: what
\* was delivered has left it, what was offered in vain is back.
THEOREM QueueKeptAlways == ASSUME ReadsWhenSignalled PROVE Spec => []QueueKept
<1>1. TypeOK /\ SessionInv => QueueKept
  BY QueueAgrees
<1> QED
  BY <1>1, SessionAlways, PTL

-----------------------------------------------------------------------------
(* A request that has ended stays as it ended. *)

\* A request that the session may not queue leaves no final state: it is SENT
\* when it is given to a handler and when its state changes.
LEMMA FinalStays ==
    ASSUME TypeOK, SessionInv, Next, NEW m \in Msg \ Queueable, state[m] \in Final
    PROVE  state'[m] = state[m]
<1>0. /\ state[m] # "SENT" /\ state[m] # "QUEUED" /\ state[m] # "CREATED"
      /\ state \in [Msg -> State]
  BY DEF Final, TypeOK
<1>1. CASE GiveToHandler
  <2>1. Running("match") /\ Head(stack).best # NoProc
        /\ state' = [state EXCEPT ![Head(stack).msg] = "SENT"]
    BY <1>1 DEF GiveToHandler, MatchEnded
  <2>2. /\ Len(stack) \in Nat \ {0} /\ At(stack, Len(stack)) = Head(stack) /\ heap = "intact"
        /\ Head(stack).op = "match"
    BY <2>1, TopAt
  <2>3. Head(stack).msg # m
    <3>1. BestOk(m)
      BY <2>2 DEF SessionInv, BaseInv, RequestInv
    <3>2. Len(stack) \in Levels
      BY <2>2 DEF Levels
    <3> QED
      BY <1>0, <2>1, <2>2, <3>1, <3>2 DEF BestOk, Matches
  <2> QED
    BY <1>0, <2>1, <2>3
<1>2. CASE ChangeFinal \/ ChangeQueued \/ ChangeRejected
  <2>1. Running("change") /\ \E s \in State : state' = [state EXCEPT ![Head(stack).msg] = s]
    BY <1>2 DEF ChangeFinal, ChangeQueued, ChangeRejected, State
  <2>2. /\ Len(stack) \in Nat \ {0} /\ At(stack, Len(stack)) = Head(stack) /\ heap = "intact"
        /\ Head(stack).op = "change"
    BY <2>1, TopAt
  <2>3. Head(stack).msg # m
    <3>1. ChangeOk(m)
      BY <2>2 DEF SessionInv, BaseInv, RequestInv
    <3> QED
      BY <1>0, <2>2, <3>1 DEF ChangeOk, Changes
  <2> QED
    BY <1>0, <2>1, <2>3
<1>3. CASE RunRedeliver \/ RunRequeue
  <2>1. /\ Running("redeliver") \/ Running("requeue")
        /\ \/ state' = state
           \/ \E s \in State : state' = [state EXCEPT ![Head(stack).msg] = s] /\ Head(stack).op = "requeue"
           \/ \E s \in State, o \in Head(stack).todo :
                 state' = [state EXCEPT ![o] = s] /\ Head(stack).op = "redeliver"
    BY <1>3 DEF RunRedeliver, RunRequeue, RevertToQueued, Running, State
  <2>2. /\ Len(stack) \in Nat \ {0} /\ At(stack, Len(stack)) = Head(stack) /\ heap = "intact"
    BY <2>1, TopAt
  <2>3. QueuedOk(m) /\ Len(stack) \in Levels
    BY <2>2 DEF SessionInv, BaseInv, RequestInv, Levels
  <2>4. Head(stack).op = "requeue" => Head(stack).msg # m
    BY <2>2, <2>3 DEF QueuedOk, Requeues
  <2>5. Head(stack).op = "redeliver" => m \notin Head(stack).todo
    BY <1>0, <2>2, <2>3 DEF QueuedOk
  <2> QED
    BY <1>0, <2>1, <2>4, <2>5
<1>4. CASE Run /\ ~GiveToHandler /\ ~ChangeFinal /\ ~ChangeQueued /\ ~ChangeRejected
               /\ ~RunRedeliver /\ ~RunRequeue
  BY <1>4 DEF Run, RunDeliver, MatchHosed, MatchInactive, MatchHandler, MatchObserver, NoHandler,
              RunReturn, ChangeRepeated, RunReport, RunDeactivate, RunUnread, RunUnanswered,
              RunOrphaned, RunForget, msgVars
<1>5. ASSUME NEW p \in Proc, ServeSend(p) PROVE state'[m] = state[m]
  <2>1. Serve(p, "send") /\ state' = [state EXCEPT ![Head(rpc[p]).msg] = "SENT"]
        /\ UNCHANGED <<alive, plan, active, channel>>
    BY <1>5 DEF ServeSend
  <2>2. PICK c \in Call : c = Head(rpc[p]) /\ c.call = "send" /\ Takes(p, c)
    BY <2>1, ServeTakes
  <2>3. BaseInv
    BY <2>1 DEF SessionInv, Serve, Idle
  <2>4. 1 \in 1 .. Len(rpc[p]) /\ rpc[p][1] = c
    BY <2>2, <2>3, TakesCalls DEF BaseInv
  <2>5. c.msg # m
    <3>1. Sending(m)
      BY <2>3 DEF BaseInv
    <3>2. c = [call |-> "send", msg |-> c.msg]
      BY <2>2 DEF Call
    <3> QED
      BY <1>0, <2>4, <3>1, <3>2 DEF Sending
  <2> QED
    BY <1>0, <2>1, <2>2, <2>5
<1>6. ASSUME NEW p \in Proc, Client(p) \/ Hangup(p) \/ (ServeRpc(p) /\ ~ServeSend(p))
      PROVE  state'[m] = state[m]
  BY <1>6 DEF Client, AskPlanned, AskNext, AskUpdate, Die, Ask, Hangup, ServeRpc, ServeRegister,
              ServeUnregister, ServeJoin, ServeNext, ServeUpdate, ServeClose, msgVars
<1> QED
  BY <1>1, <1>2, <1>3, <1>4, <1>5, <1>6 DEF Next, Run

\* A request that the session may not queue stays as it ended, whichever way its
\* handlers answer or die.
THEOREM FinalKept ==
    ASSUME ReadsWhenSignalled
    PROVE  Spec => [][\A m \in Msg \ Queueable : state[m] \in Final => state'[m] = state[m]]_vars
<1>1. TypeOK /\ SessionInv /\ [Next]_vars =>
         [\A m \in Msg \ Queueable : state[m] \in Final => state'[m] = state[m]]_vars
  BY FinalStays
<1> QED
  BY <1>1, SessionAlways, PTL DEF Spec

\* Where no request is queued, the requests that have ended stay as they ended.
THEOREM FinalIsFinalAlways ==
    ASSUME ReadsWhenSignalled, Queueable = {} PROVE Spec => FinalIsFinal
<1>1. TypeOK /\ SessionInv /\ [Next]_vars =>
         [\A m \in Msg : state[m] \in Final => state'[m] = state[m]]_vars
  BY FinalStays
<1> QED
  BY <1>1, SessionAlways, PTL DEF Spec, FinalIsFinal

=============================================================================
