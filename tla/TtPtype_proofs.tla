---------------------------- MODULE TtPtype_proofs ---------------------------
(* Theorems about TtPtype, for every set of instances, clients and requests. *)
EXTENDS TtPtype, SequenceTheorems, FiniteSetTheorems, TLAPS

-----------------------------------------------------------------------------
(* Frames and the call stack. *)

\* Every constructor of a frame makes a frame.
LEMMA FramesMade ==
    /\ \A m \in Msg : Deliver(m) \in Frame /\ Requeue(m) \in Frame /\ Flushed(m) \in Frame
    /\ \A m \in Msg, s \in {"REJECTED"} \cup Final : Change(m, s) \in Frame
    /\ \A p \in Proc : Started(p) \in Frame /\ Deactivate(p) \in Frame
    /\ Replied \in Frame /\ Flush \in Frame /\ FailQueue \in Frame
    /\ \A p \in Proc, m \in Msg, s \in {"REJECTED"} \cup Final : Update(p, m, s) \in Frame
    /\ \A ms \in SUBSET Msg : Redeliver(ms) \in Frame
BY DEF Frame, Deliver, Requeue, Flushed, Change, Started, Deactivate, Replied,
       Flush, FailQueue, Update, Redeliver

\* What the frame of each kind carries.
LEMMA FramesRead ==
    ASSUME NEW f \in Frame
    PROVE  /\ f.op \in {"deliver", "requeue", "flushed"} => f.msg \in Msg
           /\ f.op = "change" => f.msg \in Msg /\ f.to \in {"REJECTED"} \cup Final
           /\ f.op \in {"started", "deactivate"} => f.proc \in Proc
           /\ f.op = "update" => /\ f.proc \in Proc /\ f.msg \in Msg
                                 /\ f.to \in {"REJECTED"} \cup Final
           /\ f.op = "redeliver" => f.todo \in SUBSET Msg
BY DEF Frame

\* While a frame runs, it and what is below it are frames.
LEMMA RunningFrame ==
    ASSUME TypeOK, NEW op, Running(op)
    PROVE  Head(stack) \in Frame /\ Tail(stack) \in Seq(Frame) /\ Head(stack).op = op
BY HeadTailProperties DEF TypeOK, Running

\* Short stacks, and pushing frames on a stack of frames.
LEMMA Push ==
    ASSUME NEW s \in Seq(Frame)
    PROVE  /\ << >> \in Seq(Frame)
           /\ \A f \in Frame : <<f>> \in Seq(Frame) /\ <<f>> \o s \in Seq(Frame)
           /\ \A f, g \in Frame : <<f, g>> \in Seq(Frame) /\ <<f, g>> \o s \in Seq(Frame)
           /\ \A f, g, h \in Frame : <<f, g, h>> \o s \in Seq(Frame)
<1>1. \A f, g, h \in Frame : /\ <<f>> \in Seq(Frame) /\ <<f, g>> \in Seq(Frame)
                             /\ <<f, g, h>> \in Seq(Frame)
  OBVIOUS
<1> QED
  BY <1>1, ConcatProperties

-----------------------------------------------------------------------------
(* Type correctness. *)

\* add_message keeps the types of what it changes.
LEMMA AddMessageType ==
    ASSUME TypeOK, NEW p \in Proc, NEW m \in Msg,
           NEW ok \in Seq(Frame), NEW bad \in Seq(Frame), AddMessage(p, m, ok, bad)
    PROVE  stack' \in Seq(Frame) /\ undelivered' \in [Proc -> Seq(Msg)]
<1>1. <<Deactivate(p)>> \o bad \in Seq(Frame)
  BY FramesMade, Push
<1>2. \A s \in Seq(Msg) : \A i \in DOMAIN s : Append(RemoveAt(s, i), m) \in Seq(Msg)
  <2> SUFFICES ASSUME NEW s \in Seq(Msg), NEW i \in DOMAIN s
               PROVE  Append(RemoveAt(s, i), m) \in Seq(Msg)
    OBVIOUS
  <2>1. SubSeq(s, 1, i-1) \in Seq(Msg) /\ SubSeq(s, i+1, Len(s)) \in Seq(Msg)
    OBVIOUS
  <2> QED
    BY <2>1, ConcatProperties, AppendProperties DEF RemoveAt
<1>3. \A s \in Seq(Msg) : Append(s, m) \in Seq(Msg)
  OBVIOUS
<1>4. undelivered[p] \in Seq(Msg)
  BY DEF TypeOK
<1>5. \E list \in Seq(Msg) : undelivered' = [undelivered EXCEPT ![p] = list]
  BY <1>2, <1>3, <1>4 DEF AddMessage
<1>6. undelivered' \in [Proc -> Seq(Msg)]
  BY <1>5 DEF TypeOK
<1>7. stack' \in Seq(Frame)
  BY <1>1 DEF AddMessage
<1> QED
  BY <1>6, <1>7

\* The failure of a set of requests keeps the types.
LEMMA FailAllType ==
    ASSUME TypeOK, NEW ms, FailAll(ms)
    PROVE  state' \in [Msg -> State] /\ reported' \in [Msg -> SUBSET State]
BY DEF FailAll, TypeOK, State, Final

\* What launch changes keeps its type, whether or not the fork succeeds.
LEMMA LaunchType ==
    ASSUME TypeOK, \/ Launch
                   \/ LaunchFails
                   \/ UNCHANGED <<procVars, launching, startPid>>
    PROVE  /\ born' \subseteq Inst /\ alive' \subseteq Proc
           /\ launching' \in BOOLEAN /\ startPid' \in Inst \cup {NoProc}
           /\ UNCHANGED <<asked, startCopies, rpc, zombies, sigchld>>
BY DEF Launch, LaunchFails, TypeOK, Proc, procVars

\* The empty queue is a queue.
LEMMA NoMsg == << >> \in Seq(Msg)
OBVIOUS

\* Dequeuing keeps the type of the ptype's queue.
LEMMA DequeueType == ASSUME TypeOK, Dequeue PROVE ptypeQueue' \in Seq(Msg)
BY HeadTailProperties DEF TypeOK, Dequeue

\* Every step of the server's own code keeps the types.
LEMMA RunType == ASSUME TypeOK, Run PROVE TypeOK'
<1> USE DEF procVars, loopVars, ptypeVars, clientVars, msgVars
<1>1. CASE DeliverToHandler
  <2> DEFINE m == Head(stack).msg
  <2>1. m \in Msg /\ stack \in Seq(Frame) /\ Tail(stack) \in Seq(Frame)
    BY <1>1, RunningFrame, FramesRead DEF DeliverToHandler, TypeOK
  <2>2. PICK p \in Proc : /\ handler' = [handler EXCEPT ![m] = p] /\ ret' = TRUE
                          /\ AddMessage(p, m, Tail(stack), stack)
    BY <1>1 DEF DeliverToHandler
  <2>3. stack' \in Seq(Frame) /\ undelivered' \in [Proc -> Seq(Msg)]
    BY <2>1, <2>2, AddMessageType
  <2>4. handler' \in [Msg -> Proc \cup {NoProc}]
    BY <2>1, <2>2 DEF TypeOK
  <2> QED
    BY <1>1, <2>2, <2>3, <2>4 DEF DeliverToHandler, TypeOK
<1>2. CASE DeliverInVain
  BY <1>2, RunningFrame DEF DeliverInVain, TypeOK
<1>3. CASE NotAgain
  BY <1>3, RunningFrame DEF NotAgain, TypeOK
<1>4. CASE Start
  <2> DEFINE m == Head(stack).msg
             last == IF m \in AlsoQueued /\ "QUEUED" \notin reported[m] THEN "QUEUED"
                                                                        ELSE "STARTED"
  <2>1. m \in Msg /\ Tail(stack) \in Seq(Frame)
    BY <1>4, RunningFrame, FramesRead DEF Start
  <2>2. last \in State /\ "STARTED" \in State
    BY DEF State
  <2>3. /\ ptypeQueue' = Append(ptypeQueue, m)
        /\ reported' = [reported EXCEPT ![m] = @ \cup {"STARTED", last}]
        /\ state' = [state EXCEPT ![m] = last]
        /\ queued' = queued \/ queued' = queued \cup {m}
    BY <1>4 DEF Start
  <2>4. ptypeQueue' \in Seq(Msg)
    BY <2>1, <2>3, AppendProperties DEF TypeOK
  <2>5. reported' \in [Msg -> SUBSET State] /\ state' \in [Msg -> State]
    <3> HIDE DEF m, last
    <3> QED
      BY <2>1, <2>2, <2>3 DEF TypeOK
  <2>6. queued' \subseteq Msg
    BY <2>1, <2>3 DEF TypeOK
  <2>7. /\ born' \subseteq Inst /\ alive' \subseteq Proc
        /\ launching' \in BOOLEAN /\ startPid' \in Inst \cup {NoProc}
        /\ UNCHANGED <<asked, startCopies, rpc, zombies, sigchld>>
    BY <1>4, LaunchType DEF Start
  <2>8. /\ UNCHANGED <<loopVars, clientVars, handler, tried, isStart>>
        /\ stack' = Tail(stack) /\ ret' = FALSE
    BY <1>4 DEF Start
  <2> HIDE DEF m, last
  <2> QED
    BY <2>1, <2>4, <2>5, <2>6, <2>7, <2>8 DEF TypeOK
<1>5. CASE StartFails
  <2> DEFINE m == Head(stack).msg
  <2>1. m \in Msg /\ Tail(stack) \in Seq(Frame)
    BY <1>5, RunningFrame, FramesRead DEF StartFails
  <2>2. stack' \in Seq(Frame)
    BY <1>5, <2>1, FramesMade, Push DEF StartFails, Final
  <2>3. reported' \in [Msg -> SUBSET State]
    BY <1>5, <2>1 DEF StartFails, TypeOK, State
  <2> QED
    BY <1>5, <2>2, <2>3 DEF StartFails, LaunchFails, TypeOK
<1>6. CASE ChangeFinal
  <2>1. Head(stack).msg \in Msg /\ Head(stack).to \in State /\ Tail(stack) \in Seq(Frame)
    BY <1>6, RunningFrame, FramesRead DEF ChangeFinal, State
  <2>2. state' \in [Msg -> State] /\ reported' \in [Msg -> SUBSET State]
    <3> DEFINE m == Head(stack).msg
               s == Head(stack).to
    <3>1. \/ UNCHANGED <<state, reported>>
          \/ /\ state' = [state EXCEPT ![m] = s]
             /\ reported' = [reported EXCEPT ![m] = @ \cup {s}]
      BY <1>6 DEF ChangeFinal
    <3>2. m \in Msg /\ s \in State
      BY <2>1
    <3>3. [state EXCEPT ![m] = s] \in [Msg -> State]
      BY <3>2 DEF TypeOK
    <3>4. [reported EXCEPT ![m] = @ \cup {s}] \in [Msg -> SUBSET State]
      <4> HIDE DEF m, s
      <4> QED
        BY <3>2 DEF TypeOK
    <3> QED
      BY <3>1, <3>3, <3>4 DEF TypeOK
  <2> QED
    BY <1>6, <2>1, <2>2 DEF ChangeFinal, TypeOK
<1>7. CASE ChangeRejected
  <2> DEFINE m == Head(stack).msg
  <2>1. m \in Msg /\ Tail(stack) \in Seq(Frame)
    BY <1>7, RunningFrame, FramesRead DEF ChangeRejected
  <2>2. stack' \in Seq(Frame)
    BY <1>7, <2>1, FramesMade, Push DEF ChangeRejected
  <2>3. tried' \in [Msg -> SUBSET Proc] /\ reported' \in [Msg -> SUBSET State]
    <3>1. CASE handler[m] = NoProc
      BY <1>7, <3>1 DEF ChangeRejected, TypeOK
    <3>2. CASE handler[m] # NoProc
      <4>1. /\ tried' = [tried EXCEPT ![m] = @ \cup {handler[m]}]
            /\ reported' = [reported EXCEPT ![m] = ForgetStarted(@)]
        BY <1>7, <3>2 DEF ChangeRejected
      <4>2. handler[m] \in Proc
        BY <2>1, <3>2 DEF TypeOK
      <4> HIDE DEF m
      <4> QED
        BY <2>1, <4>1, <4>2 DEF ForgetStarted, TypeOK
    <3> QED
      BY <3>1, <3>2
  <2>4. handler' \in [Msg -> Proc \cup {NoProc}] /\ state' \in [Msg -> State]
    BY <1>7, <2>1 DEF ChangeRejected, SoughtAgain, TypeOK, State
  <2> QED
    BY <1>7, <2>2, <2>3, <2>4 DEF ChangeRejected, TypeOK
<1>8. CASE RunDeactivate
  <2>1. Head(stack).proc \in Proc /\ Tail(stack) \in Seq(Frame)
    BY <1>8, RunningFrame, FramesRead DEF RunDeactivate
  <2>2. /\ state' \in [Msg -> State] /\ reported' \in [Msg -> SUBSET State]
        /\ tried' \in [Msg -> SUBSET Proc]
        /\ undelivered' \in [Proc -> Seq(Msg)] /\ delivered' \in [Proc -> SUBSET Msg]
        /\ active' \subseteq Proc /\ watched' \subseteq Proc /\ registered' \subseteq Proc
    <3>1. CASE Head(stack).proc \in active
      <4> DEFINE p == Head(stack).proc
                 all == ToSet(undelivered[p]) \cup delivered[p]
      <4>1. /\ FailAll(OwedBy(p))
            /\ tried' = [m \in Msg |-> IF m \in all THEN tried[m] \ {p} ELSE tried[m]]
            /\ undelivered' = [undelivered EXCEPT ![p] = << >>]
            /\ delivered' = [delivered EXCEPT ![p] = {}]
            /\ active' = active \ {p}
            /\ watched' = watched \ {p}
            /\ registered' = registered \ {p}
        BY <1>8, <3>1 DEF RunDeactivate
      <4>2. state' \in [Msg -> State] /\ reported' \in [Msg -> SUBSET State]
        BY <4>1, FailAllType
      <4>3. tried' \in [Msg -> SUBSET Proc]
        <5>1. \A m \in Msg : tried[m] \in SUBSET Proc /\ tried[m] \ {p} \in SUBSET Proc
          BY DEF TypeOK
        <5> HIDE DEF p, all
        <5> QED
          BY <4>1, <5>1
      <4>4. undelivered' \in [Proc -> Seq(Msg)] /\ delivered' \in [Proc -> SUBSET Msg]
        BY <4>1, NoMsg DEF TypeOK
      <4>5. active' \subseteq Proc /\ watched' \subseteq Proc /\ registered' \subseteq Proc
        BY <4>1 DEF TypeOK
      <4> QED
        BY <4>2, <4>3, <4>4, <4>5
    <3>2. CASE Head(stack).proc \notin active
      BY <1>8, <3>2 DEF RunDeactivate, TypeOK
    <3> QED
      BY <3>1, <3>2
  <2> QED
    BY <1>8, <2>1, <2>2 DEF RunDeactivate, TypeOK
<1>9. CASE RunUpdate
  <2>1. /\ Head(stack).proc \in Proc /\ Head(stack).msg \in Msg
        /\ Head(stack).to \in {"REJECTED"} \cup Final /\ Tail(stack) \in Seq(Frame)
    BY <1>9, RunningFrame, FramesRead DEF RunUpdate
  <2>2. stack' \in Seq(Frame)
    BY ZenonT(40), <1>9, <2>1, FramesMade, Push DEF RunUpdate
  <2>3. delivered' \in [Proc -> SUBSET Msg]
    BY <1>9, <2>1 DEF RunUpdate, TypeOK
  <2> QED
    BY <1>9, <2>2, <2>3 DEF RunUpdate, TypeOK
<1>10. CASE RunStarted
  <2> DEFINE p == Head(stack).proc
             m == Head(ptypeQueue)
  <2>1. p \in Proc /\ Tail(stack) \in Seq(Frame)
    BY <1>10, RunningFrame, FramesRead DEF RunStarted
  <2>2. CASE ptypeQueue = << >>
    BY <1>10, <2>1, <2>2 DEF RunStarted, TypeOK
  <2>3. CASE ptypeQueue # << >>
    <3>1. m \in Msg
      BY <2>3, HeadTailProperties DEF TypeOK
    <3>2. /\ Dequeue /\ handler' = [handler EXCEPT ![m] = p] /\ Marked(m)
          /\ AddMessage(p, m, Tail(stack), <<FailQueue>> \o Tail(stack))
      BY <1>10, <2>3 DEF RunStarted
    <3>3. <<FailQueue>> \o Tail(stack) \in Seq(Frame)
      BY <2>1, FramesMade, Push
    <3>4. stack' \in Seq(Frame) /\ undelivered' \in [Proc -> Seq(Msg)]
      BY <2>1, <3>1, <3>2, <3>3, AddMessageType
    <3>5. handler' \in [Msg -> Proc \cup {NoProc}] /\ isStart' \in [Msg -> BOOLEAN]
      BY <2>1, <3>1, <3>2 DEF Marked, TypeOK
    <3>6. ptypeQueue' \in Seq(Msg)
      BY <3>2, DequeueType
    <3> QED
      BY <1>10, <3>4, <3>5, <3>6 DEF RunStarted, TypeOK
  <2> QED
    BY <2>2, <2>3
<1>11. CASE RunFailQueue
  <2>1. state' \in [Msg -> State] /\ reported' \in [Msg -> SUBSET State]
    BY <1>11, FailAllType DEF RunFailQueue, LaunchFailed
  <2>2. Tail(stack) \in Seq(Frame)
    BY <1>11, RunningFrame DEF RunFailQueue
  <2>3. ptypeQueue' \in Seq(Msg) /\ launching' \in BOOLEAN
    BY <1>11, NoMsg DEF RunFailQueue, LaunchFailed
  <2> QED
    BY <1>11, <2>1, <2>2, <2>3 DEF RunFailQueue, TypeOK
<1>12. CASE RunReplied
  <2>1. Tail(stack) \in Seq(Frame)
    BY <1>12, RunningFrame DEF RunReplied
  <2>2. stack' \in Seq(Frame)
    BY <1>12, <2>1, FramesMade, Push DEF RunReplied
  <2> QED
    BY <1>12, <2>2 DEF RunReplied, TypeOK
<1>13. CASE RunFlush
  <2> DEFINE m == Head(ptypeQueue)
  <2>1. Tail(stack) \in Seq(Frame)
    BY <1>13, RunningFrame DEF RunFlush
  <2>2. CASE ptypeQueue = << >>
    BY <1>13, <2>1, <2>2 DEF RunFlush, TypeOK
  <2>3. CASE ptypeQueue # << >>
    <3>1. m \in Msg
      BY <2>3, HeadTailProperties DEF TypeOK
    <3>2. stack' \in Seq(Frame)
      BY <1>13, <2>1, <2>3, <3>1, FramesMade, Push DEF RunFlush
    <3>3. state' \in [Msg -> State]
      BY <1>13, <2>3, <3>1 DEF RunFlush, TypeOK, State
    <3> QED
      BY <1>13, <3>2, <3>3 DEF RunFlush, TypeOK
  <2> QED
    BY <2>2, <2>3
<1>14. CASE RunFlushed
  <2>1. Tail(stack) \in Seq(Frame)
    BY <1>14, RunningFrame DEF RunFlushed
  <2>2. stack' \in Seq(Frame)
    BY <1>14, <2>1, FramesMade, Push DEF RunFlushed
  <2>3. ptypeQueue' \in Seq(Msg)
    BY <1>14, DequeueType DEF RunFlushed, TypeOK
  <2>4. /\ born' \subseteq Inst /\ alive' \subseteq Proc
        /\ launching' \in BOOLEAN /\ startPid' \in Inst \cup {NoProc}
        /\ UNCHANGED <<asked, startCopies, rpc, zombies, sigchld>>
    BY <1>14, LaunchType DEF RunFlushed, Relaunch
  <2> QED
    BY <1>14, <2>2, <2>3, <2>4 DEF RunFlushed, TypeOK
<1>15. CASE RunRedeliver
  <2> DEFINE todo == Head(stack).todo
  <2>1. todo \subseteq Msg /\ Tail(stack) \in Seq(Frame)
    BY <1>15, RunningFrame, FramesRead DEF RunRedeliver
  <2>2. CASE todo = {} /\ stack' = Tail(stack) /\ UNCHANGED state
    BY <1>15, <2>1, <2>2 DEF RunRedeliver, TypeOK
  <2>3. ASSUME NEW m \in todo, state' = [state EXCEPT ![m] = "SENT"],
               stack' = <<Deliver(m), Requeue(m), Redeliver(todo \ {m})>> \o Tail(stack)
        PROVE  TypeOK'
    <3>1. stack' \in Seq(Frame)
      BY <2>1, <2>3, FramesMade, Push
    <3>2. state' \in [Msg -> State]
      BY <2>1, <2>3 DEF TypeOK, State
    <3> QED
      BY <1>15, <3>1, <3>2 DEF RunRedeliver, TypeOK
  <2> QED
    BY <1>15, <2>2, <2>3 DEF RunRedeliver
<1>16. CASE RunRequeue
  <2>1. Head(stack).msg \in Msg /\ Tail(stack) \in Seq(Frame)
    BY <1>16, RunningFrame, FramesRead DEF RunRequeue
  <2>2. state' \in [Msg -> State] /\ queued' \subseteq Msg
    BY <1>16, <2>1 DEF RunRequeue, TypeOK, State
  <2> QED
    BY <1>16, <2>1, <2>2 DEF RunRequeue, TypeOK
<1> QED
  BY <1>1, <1>2, <1>3, <1>4, <1>5, <1>6, <1>7, <1>8, <1>9, <1>10, <1>11, <1>12,
     <1>13, <1>14, <1>15, <1>16 DEF Run

\* So does a step of a process.
LEMMA AskType ==
    ASSUME TypeOK, NEW p \in Proc, NEW call \in Call, Ask(p, call),
           asked' \in [Proc -> SUBSET {"connect", "register", "accept"}]
    PROVE  TypeOK'
<1>1. Append(rpc[p], call) \in Seq(Call)
  BY AppendProperties DEF TypeOK
<1>2. rpc' \in [Proc -> Seq(Call)]
  BY <1>1 DEF Ask, TypeOK
<1> QED
  BY <1>2 DEF Ask, TypeOK, loopVars, ptypeVars, clientVars, msgVars

LEMMA ProcessType ==
    ASSUME TypeOK, \/ AskSend
                   \/ \E p \in Proc : Process(p)
    PROVE  TypeOK'
<1>1. CASE AskSend
  <2>1. PICK m \in Msg : Ask(Sender, [call |-> "send", msg |-> m]) /\ UNCHANGED asked
    BY <1>1 DEF AskSend
  <2>2. [call |-> "send", msg |-> m] \in Call /\ Sender \in Proc
    BY PtypeAssumption DEF Call, Proc
  <2>3. asked' \in [Proc -> SUBSET {"connect", "register", "accept"}]
    BY <2>1 DEF TypeOK
  <2> QED
    BY <2>1, <2>2, <2>3, AskType
<1>2. ASSUME NEW p \in Proc, Process(p) PROVE TypeOK'
  <2>1. CASE AskConnect(p)
    BY <2>1, AskType DEF AskConnect, Once, Call, TypeOK
  <2>2. CASE AskRegister(p)
    BY <2>2, AskType DEF AskRegister, Once, Call, TypeOK
  <2>3. CASE AskNext(p)
    BY <2>3, AskType DEF AskNext, Call, TypeOK
  <2>4. CASE AskAccept(p)
    BY <2>4, AskType DEF AskAccept, Once, Call, TypeOK
  <2>5. CASE AskUpdate(p)
    <3>1. PICK m \in delivered[p], s \in Answers :
             Ask(p, [call |-> "update", msg |-> m, to |-> s, start |-> m \in startCopies[p]])
      BY <2>5 DEF AskUpdate
    <3>2. m \in Msg /\ s \in {"REJECTED"} \cup Final
      BY <3>1, PtypeAssumption DEF TypeOK
    <3>3. (m \in startCopies[p]) \in BOOLEAN
      OBVIOUS
    <3>4. [call |-> "update", msg |-> m, to |-> s, start |-> m \in startCopies[p]] \in Call
      <4> DEFINE b == m \in startCopies[p]
      <4> HIDE DEF b
      <4>1. b \in BOOLEAN => [call |-> "update", msg |-> m, to |-> s, start |-> b] \in Call
        BY <3>2 DEF Call
      <4> QED
        BY <3>3, <4>1 DEF b
    <3>5. asked' \in [Proc -> SUBSET {"connect", "register", "accept"}]
      BY <2>5 DEF AskUpdate, TypeOK
    <3> QED
      BY <3>1, <3>4, <3>5, AskType
  <2>6. CASE Exit(p)
    <3>1. alive' \subseteq Proc /\ zombies' \subseteq Inst /\ sigchld' \in BOOLEAN
      BY <2>6 DEF Exit, TypeOK
    <3> QED
      BY <2>6, <3>1 DEF Exit, TypeOK, loopVars, ptypeVars, clientVars, msgVars
  <2> QED
    BY <1>2, <2>1, <2>2, <2>3, <2>4, <2>5, <2>6 DEF Process
<1> QED
  BY <1>1, <1>2

\* What an RPC carries, and what serving it leaves in the socket.
LEMMA ServeType ==
    ASSUME TypeOK, NEW p \in Proc, NEW name, Serve(p, name)
    PROVE  /\ rpc' \in [Proc -> Seq(Call)]
           /\ Head(rpc[p]) \in Call /\ Head(rpc[p]).call = name
           /\ stack = << >>
<1>1. rpc[p] \in Seq(Call) /\ rpc[p] # << >>
  BY DEF Serve, TypeOK
<1>2. Head(rpc[p]) \in Call /\ Tail(rpc[p]) \in Seq(Call)
  BY <1>1, HeadTailProperties
<1> QED
  BY <1>2 DEF Serve, TypeOK, Waiting

\* So does the service of every RPC, and the loss of a client.
LEMMA TrafficType == ASSUME TypeOK, Traffic PROVE TypeOK'
<1> USE DEF procVars, loopVars, ptypeVars, clientVars, msgVars
<1>0. << >> \in Seq(Frame) /\ Sender \in Proc
  BY PtypeAssumption DEF Proc
<1>1. CASE ServeSend
  <2> DEFINE m == Head(rpc[Sender]).msg
  <2>1. rpc' \in [Proc -> Seq(Call)] /\ m \in Msg
    BY <1>0, <1>1, ServeType DEF ServeSend, Call
  <2>2. stack' \in Seq(Frame) /\ state' \in [Msg -> State]
    BY <1>0, <1>1, <2>1, FramesMade, Push DEF ServeSend, TypeOK, State
  <2> QED
    BY <1>1, <2>1, <2>2 DEF ServeSend, Serve, TypeOK
<1>2. ASSUME NEW p \in Proc, ServeRpc(p) PROVE TypeOK'
  <2>1. CASE ServeConnect(p)
    <3>1. rpc' \in [Proc -> Seq(Call)] /\ stack = << >>
      BY <2>1, ServeType DEF ServeConnect
    <3>2. stack' \in Seq(Frame)
      BY <1>0, <2>1, <3>1, FramesMade, Push DEF ServeConnect
    <3>3. known' \subseteq Proc /\ watched' \subseteq Proc /\ active' \subseteq Proc
      BY <2>1 DEF ServeConnect, TypeOK
    <3> QED
      BY <2>1, <3>1, <3>2, <3>3 DEF ServeConnect, Serve, TypeOK
  <2>2. CASE ServeRegister(p)
    <3>1. rpc' \in [Proc -> Seq(Call)]
      BY <2>2, ServeType DEF ServeRegister
    <3>2. stack' \in Seq(Frame)
      BY <1>0, <2>2, FramesMade, Push DEF ServeRegister, TypeOK
    <3>3. known' \subseteq Proc /\ registered' \subseteq Proc
      BY <2>2 DEF ServeRegister, TypeOK
    <3> QED
      BY <2>2, <3>1, <3>2, <3>3 DEF ServeRegister, Serve, TypeOK
  <2>3. CASE ServeNext(p)
    <3> DEFINE list == undelivered[p]
               m    == Head(list)
    <3>1. rpc' \in [Proc -> Seq(Call)]
      BY <2>3, ServeType DEF ServeNext
    <3>2. list \in Seq(Msg) /\ (list # << >> => m \in Msg /\ Tail(list) \in Seq(Msg))
      BY HeadTailProperties DEF TypeOK
    <3>3. undelivered' \in [Proc -> Seq(Msg)]
      <4>1. undelivered' = undelivered
               \/ (list # << >> /\ undelivered' = [undelivered EXCEPT ![p] = Tail(@)])
        BY <2>3 DEF ServeNext
      <4> QED
        BY <3>2, <4>1 DEF TypeOK
    <3>4. /\ delivered' = delivered
                \/ (list # << >> /\ delivered' = [delivered EXCEPT ![p] = @ \cup {m}])
          /\ startCopies' = startCopies
                \/ (list # << >> /\ startCopies' = [startCopies EXCEPT ![p] = @ \cup {m}])
      BY <2>3 DEF ServeNext
    <3>5. delivered' \in [Proc -> SUBSET Msg] /\ startCopies' \in [Proc -> SUBSET Msg]
      <4>1. list # << >> => /\ [delivered EXCEPT ![p] = @ \cup {m}] \in [Proc -> SUBSET Msg]
                            /\ [startCopies EXCEPT ![p] = @ \cup {m}] \in [Proc -> SUBSET Msg]
        <5> HIDE DEF list, m
        <5> QED
          BY <3>2 DEF TypeOK
      <4> QED
        BY <3>4, <4>1 DEF TypeOK
    <3> QED
      BY <2>3, <3>1, <3>3, <3>5 DEF ServeNext, Serve, TypeOK
  <2>4. CASE ServeAccept(p)
    <3>1. rpc' \in [Proc -> Seq(Call)]
      BY <2>4, ServeType DEF ServeAccept
    <3>2. stack' \in Seq(Frame) /\ known' \subseteq Proc
      BY <1>0, <2>4, FramesMade, Push DEF ServeAccept, TypeOK
    <3> QED
      BY <2>4, <3>1, <3>2 DEF ServeAccept, Serve, TypeOK
  <2>5. CASE ServeUpdate(p)
    <3> DEFINE u == Head(rpc[p])
    <3>1. rpc' \in [Proc -> Seq(Call)] /\ u \in Call /\ u.call = "update"
      BY <2>5, ServeType DEF ServeUpdate
    <3>2. u.msg \in Msg /\ u.to \in {"REJECTED"} \cup Final
      BY <3>1 DEF Call
    <3>3. Update(p, u.msg, u.to) \in Frame /\ Replied \in Frame
      BY <3>2, FramesMade
    <3>4. \/ stack' = << >>
          \/ stack' = <<Replied>> \o <<Update(p, u.msg, u.to)>>
          \/ stack' = << >> \o <<Update(p, u.msg, u.to)>>
      BY <2>5 DEF ServeUpdate
    <3>5. stack' \in Seq(Frame)
      BY ZenonT(40), <1>0, <3>3, <3>4, Push, ConcatProperties
    <3> QED
      BY <2>5, <3>1, <3>5 DEF ServeUpdate, Serve, TypeOK
  <2> QED
    BY <1>2, <2>1, <2>2, <2>3, <2>4, <2>5 DEF ServeRpc
<1>3. ASSUME NEW p \in Proc, Hangup(p) PROVE TypeOK'
  <2>1. stack' \in Seq(Frame)
    BY <1>0, <1>3, FramesMade, Push DEF Hangup
  <2> QED
    BY <1>3, <2>1 DEF Hangup, TypeOK
<1> QED
  BY <1>1, <1>2, <1>3 DEF Traffic

\* So does the main loop.
LEMMA LoopType == ASSUME TypeOK, Loop PROVE TypeOK'
<1> USE DEF procVars, loopVars, ptypeVars, clientVars, msgVars, Goto, LoopKeeps
<1>1. CASE Clear
  BY <1>1 DEF Clear, TypeOK
<1>2. CASE Notified
  BY <1>2 DEF Notified, TypeOK
<1>3. CASE Notify
  <2>1. fout' \in Slot
    BY <1>3, PtypeAssumption DEF Notify, NextSlot, Slot, TypeOK
  <2>2. /\ state' \in [Msg -> State] /\ reported' \in [Msg -> SUBSET State]
        /\ launching' \in BOOLEAN /\ ptypeQueue' \in Seq(Msg)
    <3>1. CASE LaunchFailed
      BY <3>1, FailAllType, NoMsg DEF LaunchFailed
    <3>2. CASE UNCHANGED <<state, reported, launching, ptypeQueue>>
      BY <3>2 DEF TypeOK
    <3> QED
      BY <1>3, <3>1, <3>2 DEF Notify
  <2> QED
    BY <1>3, <2>1, <2>2 DEF Notify, TypeOK
<1>4. CASE Test
  BY <1>4 DEF Test, TypeOK
<1>5. CASE Poll
  BY <1>5 DEF Poll, TypeOK
<1> QED
  BY <1>1, <1>2, <1>3, <1>4, <1>5 DEF Loop

\* So does the signal handler, whenever it runs: it stays in the ring.
LEMMA SigchldType == ASSUME TypeOK, Sigchld PROVE TypeOK'
<1>1. PICK p \in zombies : /\ zombies' = zombies \ {p}
                           /\ failedProcs' = [failedProcs EXCEPT ![fin] = p]
  BY DEF Sigchld
<1>2. fin' \in Slot
  BY PtypeAssumption DEF Sigchld, NextSlot, Slot, TypeOK
<1>3. failedProcs' \in [Slot -> Inst \cup {NoProc}] /\ zombies' \subseteq Inst
  BY <1>1 DEF TypeOK
<1>4. pc' \in {"clear", "check", "test", "poll", "wait", "bottom"}
  BY DEF Sigchld, TypeOK
<1> QED
  BY <1>2, <1>3, <1>4 DEF Sigchld, TypeOK, ptypeVars, clientVars, msgVars

\* Whatever the processes do, and whenever they exit, every variable keeps its
\* type: the call stack of ttsession is made of frames of its functions, what
\* waits on the ptype are requests, and the cursors stay inside the ring.
THEOREM PtypeTypeCorrect == Spec => []TypeOK
<1>1. Init => TypeOK
  <2> SUFFICES ASSUME Init PROVE TypeOK
    OBVIOUS
  <2>1. fin \in Slot /\ fout \in Slot /\ failedProcs \in [Slot -> Inst \cup {NoProc}]
    BY PtypeAssumption DEF Init, Slot
  <2>2. /\ rpc \in [Proc -> Seq(Call)] /\ undelivered \in [Proc -> Seq(Msg)]
        /\ ptypeQueue \in Seq(Msg) /\ stack \in Seq(Frame)
    BY NoMsg DEF Init
  <2>3. /\ state \in [Msg -> State] /\ handler \in [Msg -> Proc \cup {NoProc}]
        /\ tried \in [Msg -> SUBSET Proc] /\ reported \in [Msg -> SUBSET State]
        /\ isStart \in [Msg -> BOOLEAN]
    BY DEF Init, State
  <2> QED
    BY <2>1, <2>2, <2>3 DEF Init, TypeOK, Proc
<1>2. TypeOK /\ [Next]_vars => TypeOK'
  <2> SUFFICES ASSUME TypeOK, [Next]_vars PROVE TypeOK'
    OBVIOUS
  <2>1. CASE UNCHANGED vars
    BY <2>1 DEF TypeOK, vars
  <2>2. CASE Next
    BY <2>2, RunType, LoopType, TrafficType, SigchldType, ProcessType DEF Next, Server
  <2> QED
    BY <2>1, <2>2
<1> QED
  BY <1>1, <1>2, PTL DEF Spec

-----------------------------------------------------------------------------
(* Nobody forgets to launch an instance. *)

\* A walk over the ptype's queue is in progress.
Flushing(s) == \E i \in DOMAIN s : s[i].op \in {"flush", "flushed"}

\* QueueLaunched made inductive: while the server runs, requests may wait on a
\* ptype that is not being launched, as long as the walk that is to deliver
\* them, or to launch an instance for the first it cannot, is under way.
QueueLaunchedInv == ptypeQueue # << >> /\ ~launching => Flushing(stack)

\* A walk stays in progress when other functions are called, or return.
LEMMA FlushingBelow ==
    ASSUME NEW s \in Seq(Frame), Flushing(s)
    PROVE  /\ \A f \in Frame : Flushing(<<f>> \o s)
           /\ \A f, g \in Frame : Flushing(<<f, g>> \o s)
           /\ \A f, g, h \in Frame : Flushing(<<f, g, h>> \o s)
           /\ Head(s).op \notin {"flush", "flushed"} => Flushing(Tail(s))
<1>1. PICK i \in 1 .. Len(s) : s[i].op \in {"flush", "flushed"}
  BY DEF Flushing
<1>2. ASSUME NEW t \in Seq(Frame) PROVE Flushing(t \o s)
  <2>1. /\ t \o s \in Seq(Frame) /\ Len(t) \in Nat
        /\ i + Len(t) \in 1 .. Len(t \o s) /\ (t \o s)[i + Len(t)] = s[i]
    BY <1>2, ConcatProperties
  <2>2. i + Len(t) \in DOMAIN (t \o s)
    BY <2>1
  <2> QED
    BY <1>1, <2>1, <2>2 DEF Flushing
<1>3. \A f, g, h \in Frame : /\ <<f>> \in Seq(Frame) /\ <<f, g>> \in Seq(Frame)
                             /\ <<f, g, h>> \in Seq(Frame)
  OBVIOUS
<1>4. ASSUME Head(s).op \notin {"flush", "flushed"} PROVE Flushing(Tail(s))
  <2>1. s # << >> /\ i # 1
    BY <1>1, <1>4
  <2>2. i - 1 \in DOMAIN Tail(s) /\ Tail(s)[i - 1] = s[i]
    BY <2>1
  <2> QED
    BY <1>1, <2>2 DEF Flushing
<1> QED
  BY <1>2, <1>3, <1>4

\* A walk is in progress when its frame is on top.
LEMMA FlushingOnTop ==
    ASSUME NEW s \in Seq(Frame), NEW f \in Frame, f.op \in {"flush", "flushed"}
    PROVE  Flushing(<<f>> \o s)
<1>1. <<f>> \in Seq(Frame)
  OBVIOUS
<1>2. 1 \in DOMAIN (<<f>> \o s) /\ (<<f>> \o s)[1] = f
  BY <1>1, ConcatProperties
<1> QED
  BY <1>2 DEF Flushing

\* A step that launches nothing, adds nothing to an empty queue and ends no walk.
LEMMA QueueLaunchedKept ==
    ASSUME QueueLaunchedInv, launching => launching',
           ptypeQueue' # << >> => ptypeQueue # << >>, Flushing(stack) => Flushing(stack')
    PROVE  QueueLaunchedInv'
BY DEF QueueLaunchedInv

\* The server's own code keeps QueueLaunchedInv.
LEMMA RunQueueLaunched ==
    ASSUME TypeOK, QueueLaunchedInv, Run
    PROVE  QueueLaunchedInv'
<1> USE DEF procVars, loopVars, ptypeVars, clientVars, msgVars
<1>0. stack \in Seq(Frame) /\ ptypeQueue \in Seq(Msg) /\ launching \in BOOLEAN
  BY DEF TypeOK
<1>1. CASE DeliverInVain \/ NotAgain \/ ChangeFinal \/ RunDeactivate \/ RunRequeue
  <2>1. /\ stack' = Tail(stack) /\ UNCHANGED <<launching, ptypeQueue>>
        /\ Head(stack).op \notin {"flush", "flushed"}
    BY <1>1 DEF DeliverInVain, NotAgain, ChangeFinal, RunDeactivate, RunRequeue, Running
  <2>2. Flushing(stack) => Flushing(stack')
    BY <1>0, <2>1, FlushingBelow
  <2> QED
    BY <2>1, <2>2, QueueLaunchedKept
<1>2. CASE DeliverToHandler
  <2>1. Head(stack).op = "deliver" /\ UNCHANGED <<launching, ptypeQueue>>
    BY <1>2 DEF DeliverToHandler, Running
  <2>2. PICK p \in Proc : stack' = Tail(stack) \/ stack' = <<Deactivate(p)>> \o stack
    BY <1>2 DEF DeliverToHandler, AddMessage
  <2>3. Deactivate(p) \in Frame
    BY FramesMade
  <2>4. Flushing(stack) => Flushing(stack')
    BY <1>0, <2>1, <2>2, <2>3, FlushingBelow
  <2> QED
    BY <2>1, <2>4, QueueLaunchedKept
<1>3. CASE Start
  <2>1. stack' = Tail(stack) /\ Head(stack).op = "deliver"
    BY <1>3 DEF Start, Running
  <2>2. CASE FirstInLine
    BY <1>3, <2>2 DEF Start, Launch, QueueLaunchedInv
  <2>3. CASE ~FirstInLine
    <3>1. Flushing(stack) => Flushing(stack')
      BY <1>0, <2>1, FlushingBelow
    <3>2. UNCHANGED launching /\ (launching \/ ptypeQueue # << >>)
      BY <1>3, <2>3 DEF Start, FirstInLine
    <3> QED
      BY <3>1, <3>2 DEF QueueLaunchedInv
  <2> QED
    BY <2>2, <2>3
<1>4. CASE StartFails
  BY <1>4 DEF StartFails, LaunchFails, QueueLaunchedInv
<1>5. CASE ChangeRejected
  <2>1. /\ stack' = <<Deliver(Head(stack).msg)>> \o Tail(stack)
        /\ Head(stack).op = "change" /\ UNCHANGED <<launching, ptypeQueue>>
    BY <1>5 DEF ChangeRejected, Running
  <2>2. Deliver(Head(stack).msg) \in Frame /\ Tail(stack) \in Seq(Frame)
    BY <1>5, RunningFrame, FramesRead, FramesMade DEF ChangeRejected
  <2>3. Flushing(stack) => Flushing(stack')
    BY <1>0, <2>1, <2>2, FlushingBelow
  <2> QED
    BY <2>1, <2>3, QueueLaunchedKept
<1>6. CASE RunUpdate
  <2>1. /\ Head(stack).op = "update" /\ UNCHANGED <<launching, ptypeQueue>>
        /\ \/ stack' = <<Change(Head(stack).msg, Head(stack).to)>> \o Tail(stack)
           \/ stack' = Tail(stack)
    BY <1>6 DEF RunUpdate, Running
  <2>2. /\ Change(Head(stack).msg, Head(stack).to) \in Frame
        /\ Tail(stack) \in Seq(Frame)
    BY <1>6, RunningFrame, FramesRead, FramesMade DEF RunUpdate
  <2>3. Flushing(stack) => Flushing(stack')
    BY <1>0, <2>1, <2>2, FlushingBelow
  <2> QED
    BY <2>1, <2>3, QueueLaunchedKept
<1>7. CASE RunStarted
  <2>1. Head(stack).op = "started" /\ UNCHANGED launching /\ Tail(stack) \in Seq(Frame)
    BY <1>7, RunningFrame DEF RunStarted, Running
  <2>2. Flushing(stack) => Flushing(Tail(stack))
    BY <1>0, <2>1, FlushingBelow
  <2>3. \/ stack' = Tail(stack)
        \/ stack' = <<Deactivate(Head(stack).proc)>> \o (<<FailQueue>> \o Tail(stack))
    BY <1>7 DEF RunStarted, AddMessage
  <2>4. /\ Deactivate(Head(stack).proc) \in Frame /\ FailQueue \in Frame
        /\ <<FailQueue>> \o Tail(stack) \in Seq(Frame)
    BY <1>7, <2>1, RunningFrame, FramesRead, FramesMade, Push DEF RunStarted
  <2>5. Flushing(stack) => Flushing(stack')
    BY <2>1, <2>2, <2>3, <2>4, FlushingBelow
  <2>6. ptypeQueue' # << >> => ptypeQueue # << >>
    BY <1>7 DEF RunStarted, Dequeue
  <2> QED
    BY <2>1, <2>5, <2>6, QueueLaunchedKept
<1>8. CASE RunFailQueue
  BY <1>8 DEF RunFailQueue, LaunchFailed, QueueLaunchedInv
<1>9. CASE RunReplied
  <2>1. Tail(stack) \in Seq(Frame) /\ Head(stack).op = "replied" /\ UNCHANGED ptypeQueue
    BY <1>9, RunningFrame DEF RunReplied
  <2>2. CASE launching
    <3>1. stack' = <<Flush>> \o Tail(stack)
      BY <1>9, <2>2 DEF RunReplied
    <3>2. Flushing(stack')
      BY <2>1, <3>1, FramesMade, FlushingOnTop DEF Flush
    <3> QED
      BY <3>2 DEF QueueLaunchedInv
  <2>3. CASE ~launching
    <3>1. Flushing(stack) => Flushing(stack')
      BY <1>0, <1>9, <2>1, <2>3, FlushingBelow DEF RunReplied
    <3> QED
      BY <2>1, <2>3, <3>1, QueueLaunchedKept
  <2> QED
    BY <2>2, <2>3
<1>10. CASE RunFlush
  <2>1. Tail(stack) \in Seq(Frame) /\ UNCHANGED <<launching, ptypeQueue>>
    BY <1>10, RunningFrame DEF RunFlush
  <2>2. CASE ptypeQueue = << >>
    BY <2>1, <2>2 DEF QueueLaunchedInv
  <2>3. CASE ptypeQueue # << >>
    <3> DEFINE m == Head(ptypeQueue)
    <3>1. m \in Msg
      BY <1>0, <2>3, HeadTailProperties
    <3>2. stack' = <<Deliver(m), Flushed(m)>> \o Tail(stack)
      BY <1>10, <2>3 DEF RunFlush
    <3>3. Deliver(m) \in Frame /\ Flushed(m) \in Frame /\ Flushed(m).op = "flushed"
      BY <3>1, FramesMade DEF Flushed
    <3>4. stack' = <<Deliver(m)>> \o (<<Flushed(m)>> \o Tail(stack))
      BY <2>1, <3>2, <3>3
    <3>5. Flushing(stack')
      BY <2>1, <3>3, <3>4, Push, FlushingOnTop, FlushingBelow
    <3> QED
      BY <3>5 DEF QueueLaunchedInv
  <2> QED
    BY <2>2, <2>3
<1>11. CASE RunFlushed
  <2>1. Tail(stack) \in Seq(Frame)
    BY <1>11, RunningFrame DEF RunFlushed
  <2>2. CASE ret
    <3>1. stack' = <<Flush>> \o Tail(stack)
      BY <1>11, <2>2 DEF RunFlushed
    <3>2. Flushing(stack')
      BY <2>1, <3>1, FramesMade, FlushingOnTop DEF Flush
    <3> QED
      BY <3>2 DEF QueueLaunchedInv
  <2>3. CASE ~ret
    BY <1>11, <2>3 DEF RunFlushed, Relaunch, Launch, LaunchFails, QueueLaunchedInv
  <2> QED
    BY <2>2, <2>3
<1>12. CASE RunRedeliver
  <2>1. /\ Head(stack).op = "redeliver" /\ UNCHANGED <<launching, ptypeQueue>>
        /\ Head(stack).todo \subseteq Msg /\ Tail(stack) \in Seq(Frame)
    BY <1>12, RunningFrame, FramesRead DEF RunRedeliver
  <2>2. Flushing(stack) => Flushing(Tail(stack))
    BY <1>0, <2>1, FlushingBelow
  <2>3. CASE stack' = Tail(stack)
    BY <2>1, <2>2, <2>3, QueueLaunchedKept
  <2>4. ASSUME NEW m \in Head(stack).todo,
               stack' = <<Deliver(m), Requeue(m), Redeliver(Head(stack).todo \ {m})>>
                           \o Tail(stack)
        PROVE  QueueLaunchedInv'
    <3>1. /\ Deliver(m) \in Frame /\ Requeue(m) \in Frame
          /\ Redeliver(Head(stack).todo \ {m}) \in Frame
      BY <2>1, FramesMade
    <3>2. Flushing(stack) => Flushing(stack')
      BY <2>1, <2>2, <2>4, <3>1, FlushingBelow
    <3> QED
      BY <2>1, <3>2, QueueLaunchedKept
  <2> QED
    BY <1>12, <2>3, <2>4 DEF RunRedeliver
<1> QED
  BY <1>1, <1>2, <1>3, <1>4, <1>5, <1>6, <1>7, <1>8, <1>9, <1>10, <1>11, <1>12 DEF Run

\* Whoever exits, rejects or fails to be forked: between two RPCs, requests wait
\* on a ptype only while an instance of it is being launched.
THEOREM QueueLaunchedAlways == Spec => []QueueLaunched
<1>1. Init => QueueLaunchedInv
  BY DEF Init, QueueLaunchedInv
<1>2. TypeOK /\ QueueLaunchedInv /\ [Next]_vars => QueueLaunchedInv'
  <2> SUFFICES ASSUME TypeOK, QueueLaunchedInv, [Next]_vars PROVE QueueLaunchedInv'
    OBVIOUS
  <2> USE DEF procVars, loopVars, ptypeVars, clientVars, msgVars
  <2>1. ASSUME UNCHANGED <<launching, ptypeQueue, stack>> PROVE QueueLaunchedInv'
    BY <2>1 DEF QueueLaunchedInv, Flushing
  <2>2. ASSUME stack = << >>, UNCHANGED <<launching, ptypeQueue>> PROVE QueueLaunchedInv'
    BY <2>2 DEF QueueLaunchedInv, Flushing
  <2>3. CASE Run
    BY <2>3, RunQueueLaunched
  <2>4. CASE Loop
    <3>1. CASE Clear \/ Notified \/ Test \/ Poll
      BY <2>1, <3>1 DEF Clear, Notified, Test, Poll, LoopKeeps
    <3>2. CASE Notify
      <4>1. CASE LaunchFailed
        BY <4>1 DEF LaunchFailed, QueueLaunchedInv
      <4>2. CASE UNCHANGED <<state, reported, launching, ptypeQueue>>
        BY <2>1, <3>2, <4>2 DEF Notify
      <4> QED
        BY <3>2, <4>1, <4>2 DEF Notify
    <3> QED
      BY <2>4, <3>1, <3>2 DEF Loop
  <2>5. CASE ServeSend
    BY <2>2, <2>5 DEF ServeSend, Serve, Waiting
  <2>6. ASSUME NEW p \in Proc, ServeRpc(p) PROVE QueueLaunchedInv'
    BY <2>2, <2>6 DEF ServeRpc, ServeConnect, ServeRegister, ServeNext, ServeAccept,
                      ServeUpdate, Serve, Waiting
  <2>7. ASSUME NEW p \in Proc, Hangup(p) PROVE QueueLaunchedInv'
    BY <2>2, <2>7 DEF Hangup, Waiting
  <2>8. CASE Sigchld
    BY <2>1, <2>8 DEF Sigchld
  <2>9. CASE AskSend
    BY <2>1, <2>9 DEF AskSend, Ask
  <2>10. ASSUME NEW p \in Proc, Process(p) PROVE QueueLaunchedInv'
    BY <2>1, <2>10 DEF Process, AskConnect, AskRegister, AskNext, AskAccept, AskUpdate,
                       Exit, Ask
  <2>11. CASE UNCHANGED vars
    BY <2>1, <2>11 DEF vars
  <2> QED
    BY <2>3, <2>4, <2>5, <2>6, <2>7, <2>8, <2>9, <2>10, <2>11 DEF Next, Server, Traffic
<1>3. QueueLaunchedInv => QueueLaunched
  BY DEF QueueLaunchedInv, QueueLaunched, Idle, Flushing
<1> QED
  BY <1>1, <1>2, <1>3, PtypeTypeCorrect, PTL DEF Spec

-----------------------------------------------------------------------------
(* The exits of the instances. *)

\* Slot i of the ring holds an exit that was recorded and not looked at.
Live(i) == IF fout <= fin THEN fout <= i /\ i < fin ELSE fout <= i \/ i < fin

\* The ring is never overrun: recording an exit does not make it look empty.
Overruns   == fin' # fin /\ fin' = fout
NotOverrun == [][~Overruns]_vars

\* The slot after the last is the first.
LEMMA NextOfSlot ==
    ASSUME NEW i \in Slot
    PROVE  NextSlot(i) = IF i = MaxPids - 1 THEN 0 ELSE i + 1
BY PtypeAssumption DEF NextSlot, Slot

\* A recorded exit fills a slot; the others hold what they held.
LEMMA Recorded ==
    ASSUME TypeOK, Sigchld, fin' # fout
    PROVE  /\ \A i \in Slot : Live(i)' <=> Live(i) \/ i = fin
           /\ ~Live(fin)
<1>1. /\ fin \in 0 .. MaxPids - 1 /\ fout \in 0 .. MaxPids - 1 /\ MaxPids \in Nat
      /\ fout' = fout /\ fin' = IF fin = MaxPids - 1 THEN 0 ELSE fin + 1
  BY NextOfSlot, PtypeAssumption DEF TypeOK, Sigchld, Slot
<1>2. \A i \in 0 .. MaxPids - 1 : Live(i)' <=> Live(i) \/ i = fin
  BY <1>1 DEF Live
<1>3. ~Live(fin)
  BY <1>1 DEF Live
<1> QED
  BY <1>2, <1>3 DEF Slot

\* A look at the oldest exit empties its slot.
LEMMA LookedAt ==
    ASSUME TypeOK, Notify
    PROVE  \A i \in Slot : Live(i)' <=> Live(i) /\ i # fout
<1>1. /\ fin \in 0 .. MaxPids - 1 /\ fout \in 0 .. MaxPids - 1 /\ MaxPids \in Nat
      /\ fin' = fin /\ fin # fout /\ fout' = IF fout = MaxPids - 1 THEN 0 ELSE fout + 1
  BY NextOfSlot, PtypeAssumption DEF TypeOK, Notify, Slot
<1>2. \A i \in 0 .. MaxPids - 1 : Live(i)' <=> Live(i) /\ i # fout
  BY <1>1 DEF Live
<1> QED
  BY <1>2 DEF Slot

\* Only these steps touch the processes, the ring and the launch.
LEMMA OtherSteps ==
    ASSUME [Next]_vars
    PROVE  \/ UNCHANGED <<born, alive, zombies, failedProcs, fin, fout, startPid>> /\ (launching' => launching)
           \/ UNCHANGED <<zombies, failedProcs, fin, fout>> /\ (Launch \/ LaunchFails)
           \/ \E p \in Proc : Exit(p)
           \/ Notify
           \/ Sigchld
<1> USE DEF procVars, loopVars, ptypeVars, clientVars, msgVars
<1> DEFINE Same == UNCHANGED <<born, alive, zombies, failedProcs, fin, fout, startPid>>
                      /\ (launching' => launching)
<1>1. CASE Run
  <2>1. CASE Start \/ StartFails \/ RunFlushed
    BY <2>1 DEF Start, StartFails, RunFlushed, Relaunch, Launch, LaunchFails
  <2>2. CASE DeliverToHandler \/ DeliverInVain \/ NotAgain \/ ChangeFinal \/ ChangeRejected \/ RunDeactivate
    BY <2>2 DEF DeliverToHandler, DeliverInVain, NotAgain, ChangeFinal, ChangeRejected, RunDeactivate
  <2>3. CASE RunUpdate \/ RunStarted \/ RunFailQueue \/ RunReplied \/ RunFlush \/ RunRedeliver \/ RunRequeue
    BY <2>3 DEF RunUpdate, RunStarted, RunFailQueue, LaunchFailed, RunReplied, RunFlush, RunRedeliver, RunRequeue
  <2> QED
    BY <1>1, <2>1, <2>2, <2>3 DEF Run
<1>2. CASE Loop
  BY <1>2 DEF Loop, Clear, Notified, Test, Poll, LoopKeeps
<1>3. CASE Traffic
  <2>1. ServeSend => Same
    BY DEF ServeSend, Serve
  <2>2. ASSUME NEW p \in Proc, ServeRpc(p) PROVE Same
    <3>1. ServeConnect(p) \/ ServeRegister(p) => Same
      BY DEF ServeConnect, ServeRegister, Serve
    <3>2. ServeNext(p) \/ ServeAccept(p) \/ ServeUpdate(p) => Same
      BY DEF ServeNext, ServeAccept, ServeUpdate, Serve
    <3> QED
      BY <2>2, <3>1, <3>2 DEF ServeRpc
  <2>3. ASSUME NEW p \in Proc, Hangup(p) PROVE Same
    BY <2>3 DEF Hangup
  <2> HIDE DEF Same
  <2>4. Same
    BY <1>3, <2>1, <2>2, <2>3 DEF Traffic
  <2> QED
    BY <2>4 DEF Same
<1>4. CASE AskSend
  BY <1>4 DEF AskSend, Ask
<1>5. ASSUME NEW p \in Proc, Process(p) PROVE Same \/ Exit(p)
  BY <1>5 DEF Process, AskConnect, AskRegister, AskNext, AskAccept, AskUpdate, Ask
<1>6. CASE UNCHANGED vars
  BY <1>6 DEF vars
<1> QED
  BY <1>1, <1>2, <1>3, <1>4, <1>5, <1>6 DEF Next, Server

\* LaunchWatched made inductive: it holds inside an RPC, too.
Watching == launching => Noticeable(startPid)

\* If fork never fails and the ring is never overrun: the exit of the instance
\* that the ptype waits for is known to the server, or will be.
THEOREM LaunchWatchedAlways ==
    ASSUME ~ForkFails PROVE Spec /\ NotOverrun => []LaunchWatched
<1>1. Init => Watching
  BY DEF Init, Watching
<1>2. TypeOK /\ Watching /\ [Next]_vars /\ [~Overruns]_vars => Watching'
  <2> SUFFICES ASSUME TypeOK, Watching, [Next]_vars, ~Overruns \/ UNCHANGED vars, launching'
               PROVE  Noticeable(startPid)'
    BY DEF Watching
  <2> DEFINE Kept(p) == p \in alive \cup zombies \/ \E i \in Slot : failedProcs[i] = p /\ Live(i)
  <2>0. /\ Noticeable(startPid) <=> Kept(startPid)
        /\ Noticeable(startPid)' <=> Kept(startPid)'
    BY DEF Noticeable, Live
  <2>1. CASE UNCHANGED <<born, alive, zombies, failedProcs, fin, fout, startPid>> /\ (launching' => launching)
    BY <2>1 DEF Watching, Noticeable
  <2>2. CASE Launch \/ LaunchFails
    BY <2>2 DEF Launch, LaunchFails, Noticeable
  <2>3. ASSUME NEW p \in Proc, Exit(p) PROVE Noticeable(startPid)'
    <3>1. /\ UNCHANGED <<failedProcs, fin, fout, startPid, launching>> /\ alive' = alive \ {p}
          /\ zombies' = IF p \in Inst THEN zombies \cup {p} ELSE zombies
      BY <2>3 DEF Exit, loopVars, ptypeVars
    <3>2. p \notin Inst => startPid # p
      BY PtypeAssumption DEF TypeOK, Proc
    <3> QED
      BY <3>1, <3>2 DEF Watching, Noticeable
  <2>4. CASE Notify
    <3>1. /\ UNCHANGED <<alive, zombies, failedProcs, startPid>> /\ launching
          /\ failedProcs[fout] # startPid
      BY <2>4 DEF Notify, StartFailed, Oldest, LaunchFailed, procVars, TypeOK
    <3>2. Kept(startPid)
      BY <2>0, <3>1 DEF Watching
    <3>3. Kept(startPid)'
      BY <2>4, <3>1, <3>2, LookedAt
    <3> QED
      BY <2>0, <3>3
  <2>5. CASE Sigchld
    <3>1. /\ fin \in Slot /\ fin' = NextSlot(fin) /\ UNCHANGED <<alive, fout, startPid, launching>>
          /\ failedProcs \in [Slot -> Inst \cup {NoProc}]
      BY <2>5 DEF Sigchld, TypeOK, ptypeVars
    <3>2. fin' # fin
      BY <3>1, NextOfSlot, PtypeAssumption DEF Slot
    <3>3. fin' # fout
      BY <3>2 DEF Overruns, vars
    <3>4. PICK p \in zombies : zombies' = zombies \ {p} /\ failedProcs' = [failedProcs EXCEPT ![fin] = p]
      BY <2>5 DEF Sigchld
    <3>5. (\A i \in Slot : Live(i)' <=> Live(i) \/ i = fin) /\ ~Live(fin)
      BY <2>5, <3>3, Recorded
    <3>6. Kept(startPid)
      BY <2>0, <3>1 DEF Watching
    <3>7. failedProcs'[fin] = p /\ \A i \in Slot \ {fin} : failedProcs'[i] = failedProcs[i]
      BY <3>1, <3>4
    <3>8. Kept(startPid)'
      BY <3>1, <3>4, <3>5, <3>6, <3>7
    <3> QED
      BY <2>0, <3>8
  <2> QED
    BY <2>1, <2>2, <2>3, <2>4, <2>5, OtherSteps
<1>3. Watching => LaunchWatched
  BY DEF Watching, LaunchWatched
<1> QED
  BY <1>1, <1>2, <1>3, PtypeTypeCorrect, PTL DEF Spec, NotOverrun

\* An instance runs, or waits to be waited for, or is recorded, once.
Ring ==
    /\ alive \cap Inst \subseteq born /\ zombies \subseteq born \ alive
    /\ \A i \in Slot : Live(i) => failedProcs[i] \in born \ (alive \cup zombies)
    /\ \A i, j \in Slot : Live(i) /\ Live(j) /\ failedProcs[i] = failedProcs[j] => i = j

\* With fewer instances than slots an exit finds a free slot besides its own.
LEMMA RoomLeft ==
    ASSUME IsFiniteSet(Inst), Cardinality(Inst) < MaxPids, TypeOK, Ring, Sigchld
    PROVE  fin' # fout
<1> SUFFICES ASSUME fin' = fout PROVE FALSE
  OBVIOUS
<1>1. PICK p \in zombies : failedProcs' = [failedProcs EXCEPT ![fin] = p]
  BY DEF Sigchld
<1>2. /\ fin \in 0 .. MaxPids - 1 /\ fout \in 0 .. MaxPids - 1 /\ MaxPids \in Nat \ {0, 1}
      /\ fout = IF fin = MaxPids - 1 THEN 0 ELSE fin + 1
  BY NextOfSlot, PtypeAssumption DEF TypeOK, Sigchld, Slot
<1>3. \A i \in Slot : i # fin => Live(i)
  BY <1>2 DEF Live, Slot
<1> DEFINE f == [i \in Slot |-> IF i = fin THEN p ELSE failedProcs[i]]
<1>4. \A i \in Slot : f[i] \in Inst
  BY <1>3 DEF Ring, TypeOK
<1>5. \A i \in Slot : i # fin => f[i] # p
  BY <1>3 DEF Ring
<1>6. ASSUME NEW i \in Slot, NEW j \in Slot, f[i] = f[j] PROVE i = j
  BY <1>3, <1>5, <1>6 DEF Ring
<1>7. f \in Injection(Slot, Inst)
  BY <1>4, <1>6 DEF Injection, IsInjective
<1>8. Cardinality(Slot) <= Cardinality(Inst)
  BY <1>7, FS_Injection
<1>9. Cardinality(Slot) = MaxPids
  BY <1>2, FS_Interval DEF Slot
<1>10. Cardinality(Inst) \in Nat
  BY FS_CardinalityType
<1> QED
  BY <1>2, <1>8, <1>9, <1>10

\* As long as fewer instances are launched than the ring has slots, it is not
\* overrun.
THEOREM NotOverrunAlways ==
    ASSUME IsFiniteSet(Inst), Cardinality(Inst) < MaxPids PROVE Spec => NotOverrun
<1>1. Init => Ring
  <2> SUFFICES ASSUME Init PROVE Ring
    OBVIOUS
  <2>1. \A i \in Slot : ~Live(i)
    BY PtypeAssumption DEF Init, Live, Slot
  <2> QED
    BY <2>1, PtypeAssumption DEF Init, Ring
<1>2. TypeOK /\ Ring /\ [Next]_vars => Ring' /\ [~Overruns]_vars
  <2> SUFFICES ASSUME TypeOK, Ring, [Next]_vars PROVE Ring' /\ ~Overruns
    OBVIOUS
  <2>1. CASE UNCHANGED <<born, alive, zombies, failedProcs, fin, fout, startPid>> /\ (launching' => launching)
    BY <2>1 DEF Ring, Live, Overruns
  <2>2. CASE UNCHANGED <<zombies, failedProcs, fin, fout>> /\ (Launch \/ LaunchFails)
    <3>1. CASE Launch
      <4>1. PICK p \in Inst \ born : born' = born \cup {p} /\ alive' = alive \cup {p}
        BY <3>1 DEF Launch
      <4>2. \A i \in Slot : Live(i)' <=> Live(i)
        BY <2>2 DEF Live
      <4> QED
        BY <2>2, <4>1, <4>2 DEF Ring, Overruns
    <3>2. CASE LaunchFails
      <4>1. \A i \in Slot : Live(i)' <=> Live(i)
        BY <2>2 DEF Live
      <4> QED
        BY <2>2, <3>2, <4>1 DEF LaunchFails, procVars, Ring, Overruns
    <3> QED
      BY <2>2, <3>1, <3>2
  <2>3. ASSUME NEW p \in Proc, Exit(p) PROVE Ring' /\ ~Overruns
    <3>1. /\ UNCHANGED <<born, failedProcs, fin, fout>> /\ alive' = alive \ {p} /\ p \in alive
          /\ zombies' = IF p \in Inst THEN zombies \cup {p} ELSE zombies
      BY <2>3 DEF Exit, loopVars
    <3>2. \A i \in Slot : Live(i)' <=> Live(i)
      BY <3>1 DEF Live
    <3> QED
      BY <3>1, <3>2 DEF Ring, Overruns
  <2>4. CASE Notify
    <3>1. UNCHANGED <<born, alive, zombies, failedProcs, fin>>
      BY <2>4 DEF Notify, procVars
    <3>2. \A i \in Slot : Live(i)' => Live(i)
      BY <2>4, LookedAt
    <3> QED
      BY <3>1, <3>2 DEF Ring, Overruns
  <2>5. CASE Sigchld
    <3>1. fin \in Slot /\ UNCHANGED <<born, alive>> /\ failedProcs \in [Slot -> Inst \cup {NoProc}]
      BY <2>5 DEF Sigchld, TypeOK
    <3>2. PICK p \in zombies : zombies' = zombies \ {p} /\ failedProcs' = [failedProcs EXCEPT ![fin] = p]
      BY <2>5 DEF Sigchld
    <3>3. fin' # fout
      BY <2>5, RoomLeft
    <3>4. (\A i \in Slot : Live(i)' <=> Live(i) \/ i = fin) /\ ~Live(fin)
      BY <2>5, <3>3, Recorded
    <3>5. failedProcs'[fin] = p /\ \A i \in Slot \ {fin} : failedProcs'[i] = failedProcs[i]
      BY <3>1, <3>2
    <3>6. \A i \in Slot : Live(i) => failedProcs[i] # p
      BY DEF Ring
    <3> QED
      BY <3>1, <3>2, <3>3, <3>4, <3>5, <3>6 DEF Ring, Overruns
  <2> QED
    BY <2>1, <2>2, <2>3, <2>4, <2>5, OtherSteps
<1> QED
  BY <1>1, <1>2, PtypeTypeCorrect, PTL DEF Spec, NotOverrun

-----------------------------------------------------------------------------
(* Where a request is while applications are started for it.               *)
(*                                                                         *)
(* The invariant has a part about the server (Orderly) and one about each  *)
(* request that is not of disposition queue as well (PlaceOf).  Each       *)
(* action has a lemma that says it keeps both; what an action is not about *)
(* is kept by Bystander, which only asks that the request is apart from    *)
(* the call stack before and after.                                        *)

-----------------------------------------------------------------------------
(* The queue of the ptype and the lists of the clients. *)

\* m is in the list u, and is in it once.
Has(u, m)    == \E i \in 1 .. Len(u) : u[i] = m
Single(u, m) == \A i, j \in 1 .. Len(u) : u[i] = m /\ u[j] = m => i = j

\* What has been appended is at the end of the list.
LEMMA AppendedList ==
    ASSUME NEW u \in Seq(Msg), NEW e \in Msg
    PROVE  LET t == Append(u, e)
           IN /\ \A m \in Msg : Has(t, m) <=> Has(u, m) \/ e = m
              /\ \A m \in Msg : Single(u, m) /\ (m = e => ~Has(u, m)) => Single(t, m)
              /\ t # << >> /\ (u # << >> => Head(t) = Head(u))
<1> DEFINE t == Append(u, e)
<1>1. /\ Len(u) \in Nat /\ t \in Seq(Msg) /\ Len(t) = Len(u) + 1
      /\ \A j \in 1 .. Len(u) : t[j] = u[j]
      /\ t[Len(u) + 1] = e
  BY LenProperties, AppendProperties
<1> HIDE DEF t
<1>2. \A m \in Msg : Has(t, m) <=> Has(u, m) \/ e = m
  BY <1>1 DEF Has
<1>3. ASSUME NEW m \in Msg, Single(u, m), m = e => ~Has(u, m) PROVE Single(t, m)
  <2>1. \A j \in 1 .. Len(u) : m = e => u[j] # m
    BY <1>3 DEF Has
  <2> QED
    BY <1>1, <1>3, <2>1 DEF Single
<1>4. t # << >> /\ (u # << >> => Head(t) = Head(u))
  <2>1. Len(t) > 0 /\ (u # << >> => Len(u) > 0)
    BY <1>1, EmptySeq
  <2> QED
    BY <1>1, <2>1
<1> QED
  BY <1>2, <1>3, <1>4 DEF t

\* Without its first element a list has the others.
LEMMA PoppedList ==
    ASSUME NEW u \in Seq(Msg), u # << >>
    PROVE  LET t == Tail(u)
           IN /\ t \in Seq(Msg) /\ Head(u) \in Msg /\ Has(u, Head(u))
              /\ \A m \in Msg : Has(t, m) => Has(u, m)
              /\ \A m \in Msg : Has(u, m) /\ Head(u) # m => Has(t, m)
              /\ \A m \in Msg : Single(u, m) => Single(t, m) /\ (Head(u) = m => ~Has(t, m))
<1> DEFINE t == Tail(u)
<1>1. /\ t \in Seq(Msg) /\ Len(t) = Len(u) - 1 /\ Len(u) \in Nat \ {0}
      /\ \A j \in 1 .. Len(t) : t[j] = u[j+1]
      /\ Head(u) = u[1] /\ Head(u) \in Msg
  BY EmptySeq, HeadTailProperties
<1> HIDE DEF t
<1>2. \A m \in Msg : Has(t, m) => Has(u, m)
  BY <1>1 DEF Has
<1>3. ASSUME NEW m \in Msg, Has(u, m), Head(u) # m PROVE Has(t, m)
  <2>1. PICK k \in 1 .. Len(u) : u[k] = m
    BY <1>3 DEF Has
  <2>2. k - 1 \in 1 .. Len(t) /\ t[k-1] = u[k]
    BY <1>1, <1>3, <2>1
  <2> QED
    BY <2>1, <2>2 DEF Has
<1>4. ASSUME NEW m \in Msg, Single(u, m) PROVE Single(t, m)
  BY <1>1, <1>4 DEF Single
<1>5. ASSUME NEW m \in Msg, Single(u, m), Head(u) = m PROVE ~Has(t, m)
  BY <1>1, <1>5 DEF Has, Single
<1>6. Has(u, Head(u))
  BY <1>1 DEF Has
<1> QED
  BY <1>1, <1>2, <1>3, <1>4, <1>5, <1>6 DEF t

\* An element moved to the end leaves the others as they were, one place up.
LEMMA Moved ==
    ASSUME NEW u \in Seq(Msg), NEW i \in DOMAIN u, NEW e \in Msg
    PROVE  LET t == Append(RemoveAt(u, i), e)
           IN /\ t \in Seq(Msg) /\ Len(t) = Len(u)
              /\ \A j \in 1 .. Len(u) :
                    t[j] = IF j < i THEN u[j] ELSE IF j < Len(u) THEN u[j+1] ELSE e
<1> DEFINE a == SubSeq(u, 1, i-1)
           b == SubSeq(u, i+1, Len(u))
           r == a \o b
<1>1. Len(u) \in Nat /\ i \in 1 .. Len(u)
  BY LenProperties
<1>2. \A k \in 1 .. Len(u) : u[k] \in Msg
  BY ElementOfSeq
<1>3. a \in Seq(Msg) /\ Len(a) = i - 1 /\ \A j \in 1 .. i - 1 : a[j] = u[j]
  <2>1. \A k \in 1 .. i-1 : u[k] \in Msg
    BY <1>1, <1>2
  <2>2. /\ a \in Seq(Msg) /\ Len(a) = IF 1 <= i-1 THEN i-1-1+1 ELSE 0
        /\ \A j \in 1 .. i-1-1+1 : a[j] = u[1+j-1]
    BY <1>1, <2>1, SubSeqProperties
  <2> QED
    BY <1>1, <2>2
<1>4. /\ b \in Seq(Msg) /\ Len(b) = Len(u) - i
      /\ \A j \in 1 .. Len(u) - i : b[j] = u[i+j]
  <2>1. \A k \in i+1 .. Len(u) : u[k] \in Msg
    BY <1>1, <1>2
  <2>2. /\ b \in Seq(Msg) /\ Len(b) = IF i+1 <= Len(u) THEN Len(u)-(i+1)+1 ELSE 0
        /\ \A j \in 1 .. Len(u)-(i+1)+1 : b[j] = u[i+1+j-1]
    BY <1>1, <2>1, SubSeqProperties
  <2> QED
    BY <1>1, <2>2
<1> HIDE DEF a, b
<1>5. /\ r \in Seq(Msg) /\ Len(r) = Len(a) + Len(b)
      /\ \A j \in 1 .. Len(a) + Len(b) : r[j] = IF j <= Len(a) THEN a[j] ELSE b[j - Len(a)]
  BY <1>3, <1>4, ConcatProperties
<1>6. r = RemoveAt(u, i)
  BY DEF RemoveAt, a, b
<1> HIDE DEF r
<1>9. ASSUME NEW j \in 1 .. Len(u) - 1
      PROVE  r[j] = IF j < i THEN u[j] ELSE u[j+1]
  <2>1. CASE j < i
    <3>1. j \in 1 .. i - 1 /\ j \in 1 .. Len(a) + Len(b) /\ j <= Len(a)
      BY <1>1, <1>3, <1>4, <2>1
    <3>2. r[j] = a[j] /\ a[j] = u[j]
      BY <1>3, <1>5, <3>1
    <3> QED
      BY <2>1, <3>2
  <2>2. CASE ~(j < i)
    <3>1. j - (i-1) \in 1 .. Len(u) - i /\ i + (j - (i-1)) = j + 1
      BY <1>1, <2>2
    <3>2. b[j - (i-1)] = u[j+1]
      BY <1>4, <3>1
    <3>3. j \in 1 .. Len(a) + Len(b) /\ ~(j <= Len(a)) /\ Len(a) = i-1
      BY <1>1, <1>3, <1>4, <2>2
    <3>4. r[j] = b[j - Len(a)]
      BY <1>5, <3>3
    <3> QED
      BY <2>2, <3>2, <3>3, <3>4
  <2> QED
    BY <2>1, <2>2
<1>10. Len(r) = Len(u) - 1
  BY <1>1, <1>3, <1>4, <1>5
<1>7. /\ Append(r, e) \in Seq(Msg) /\ Len(Append(r, e)) = Len(r) + 1
      /\ \A j \in 1 .. Len(r) : Append(r, e)[j] = r[j]
      /\ Append(r, e)[Len(r) + 1] = e
  BY <1>5, AppendProperties
<1>8. ASSUME NEW j \in 1 .. Len(u)
      PROVE  Append(r, e)[j] = IF j < i THEN u[j] ELSE IF j < Len(u) THEN u[j+1] ELSE e
  <2> DEFINE t == Append(r, e)
  <2> HIDE DEF t
  <2>1. CASE j = Len(u)
    BY <1>1, <1>7, <1>9, <1>10, <2>1 DEF t
  <2>2. CASE j < Len(u)
    BY <1>1, <1>7, <1>9, <1>10, <2>2 DEF t
  <2>3. j = Len(u) \/ j < Len(u)
    BY <1>1
  <2>4. t[j] = IF j < i THEN u[j] ELSE IF j < Len(u) THEN u[j+1] ELSE e
    BY <2>1, <2>2, <2>3 DEF t
  <2> QED
    BY <2>4 DEF t
<1> QED
  BY <1>1, <1>6, <1>7, <1>8, <1>10

\* The list has the same elements afterwards, and the others as often.
LEMMA MovedList ==
    ASSUME NEW u \in Seq(Msg), NEW i \in DOMAIN u, NEW e \in Msg, u[i] = e
    PROVE  LET t == Append(RemoveAt(u, i), e)
           IN \A m \in Msg : m # e => (Has(t, m) <=> Has(u, m)) /\ (Single(u, m) => Single(t, m))
<1> DEFINE t == Append(RemoveAt(u, i), e)
<1>1. /\ t \in Seq(Msg) /\ Len(t) = Len(u)
      /\ \A j \in 1 .. Len(u) :
            t[j] = IF j < i THEN u[j] ELSE IF j < Len(u) THEN u[j+1] ELSE e
  BY Moved
<1> HIDE DEF t
<1>2. Len(u) \in Nat /\ i \in 1 .. Len(u)
  BY LenProperties
<1>3. ASSUME NEW m \in Msg, m # e, Has(t, m) PROVE Has(u, m)
  <2>1. PICK k \in 1 .. Len(t) : t[k] = m
    BY <1>3 DEF Has
  <2>2. t[k] = u[k] \/ (k < Len(u) /\ t[k] = u[k+1])
    BY <1>1, <1>2, <1>3, <2>1
  <2>3. k \in 1 .. Len(u) /\ (k < Len(u) => k + 1 \in 1 .. Len(u))
    BY <1>1, <1>2
  <2> QED
    BY <1>2, <2>1, <2>2, <2>3 DEF Has
<1>4. ASSUME NEW m \in Msg, m # e, NEW k \in 1 .. Len(u), u[k] = m PROVE Has(t, m)
  <2>1. CASE k < i
    BY <1>1, <1>2, <1>4, <2>1 DEF Has
  <2>2. CASE k > i
    <3>1. t[k-1] = u[k]
      BY <1>1, <1>2, <2>2
    <3>2. k - 1 \in 1 .. Len(t)
      BY <1>1, <1>2, <2>2
    <3> QED
      BY <1>4, <3>1, <3>2 DEF Has
  <2>3. k # i
    BY <1>4
  <2> QED
    BY <1>2, <2>1, <2>2, <2>3
<1>5. ASSUME NEW m \in Msg, m # e, Single(u, m), NEW j \in 1 .. Len(t), NEW k \in 1 .. Len(t),
             t[j] = m, t[k] = m
      PROVE  j = k
  <2> DEFINE old(n) == IF n < i THEN n ELSE n + 1
  <2>1. /\ j \in 1 .. Len(u) /\ k \in 1 .. Len(u)
        /\ ~(j >= i /\ j = Len(u)) /\ ~(k >= i /\ k = Len(u))
    BY <1>1, <1>2, <1>5
  <2>2. /\ old(j) \in 1 .. Len(u) /\ t[j] = u[old(j)]
        /\ old(k) \in 1 .. Len(u) /\ t[k] = u[old(k)]
    BY <1>1, <1>2, <2>1
  <2>3. old(j) = old(k)
    BY <1>5, <2>2 DEF Single
  <2> QED
    BY <1>2, <2>1, <2>3
<1>6. \A m \in Msg : m # e => (Has(t, m) <=> Has(u, m))
  BY <1>3, <1>4 DEF Has
<1>7. \A m \in Msg : m # e /\ Single(u, m) => Single(t, m)
  BY <1>5 DEF Single
<1> QED
  BY <1>6, <1>7 DEF t

\* What add_message does to the lists and to the stack.
LEMMA AddMessageEffect ==
    ASSUME TypeOK, NEW p \in Proc, NEW x \in Msg, NEW ok, NEW bad, AddMessage(p, x, ok, bad)
    PROVE  /\ \A q \in Proc, m \in Msg : m # x =>
                 /\ Has(undelivered'[q], m) <=> Has(undelivered[q], m)
                 /\ Single(undelivered[q], m) => Single(undelivered'[q], m)
           /\ \A q \in Proc \ {p} : undelivered'[q] = undelivered[q]
           /\ ~Has(undelivered[p], x) => Has(undelivered'[p], x) /\ Single(undelivered'[p], x)
           /\ stack' = ok \/ stack' = <<Deactivate(p)>> \o bad
<1> DEFINE u == undelivered[p]
<1>1. u \in Seq(Msg) /\ DOMAIN u = 1 .. Len(u) /\ undelivered \in [Proc -> Seq(Msg)]
  BY LenProperties DEF TypeOK
<1>2. stack' = ok \/ stack' = <<Deactivate(p)>> \o bad
  BY DEF AddMessage
<1>3. \/ \E i \in DOMAIN u : u[i] = x /\ undelivered' = [undelivered EXCEPT ![p] = Append(RemoveAt(u, i), x)]
      \/ x \notin ToSet(u) /\ undelivered' = [undelivered EXCEPT ![p] = Append(u, x)]
  BY DEF AddMessage
<1> HIDE DEF u
<1>4. ASSUME NEW i \in DOMAIN u, u[i] = x, undelivered' = [undelivered EXCEPT ![p] = Append(RemoveAt(u, i), x)]
      PROVE  /\ \A m \in Msg : m # x => /\ Has(undelivered'[p], m) <=> Has(u, m)
                                        /\ Single(u, m) => Single(undelivered'[p], m)
             /\ Has(u, x) /\ \A q \in Proc \ {p} : undelivered'[q] = undelivered[q]
  <2>1. undelivered'[p] = Append(RemoveAt(u, i), x)
    BY <1>1, <1>4
  <2>2. \A m \in Msg : m # x => /\ Has(undelivered'[p], m) <=> Has(u, m)
                                /\ Single(u, m) => Single(undelivered'[p], m)
    BY <1>1, <1>4, <2>1, MovedList
  <2>3. Has(u, x)
    BY <1>1, <1>4 DEF Has
  <2> QED
    BY <1>1, <1>4, <2>2, <2>3
<1>5. ASSUME x \notin ToSet(u), undelivered' = [undelivered EXCEPT ![p] = Append(u, x)]
      PROVE  /\ \A m \in Msg : m # x => /\ Has(undelivered'[p], m) <=> Has(u, m)
                                        /\ Single(u, m) => Single(undelivered'[p], m)
             /\ Has(undelivered'[p], x) /\ Single(undelivered'[p], x)
             /\ \A q \in Proc \ {p} : undelivered'[q] = undelivered[q]
  <2>1. undelivered'[p] = Append(u, x)
    BY <1>1, <1>5
  <2>2. ~Has(u, x)
    BY <1>1, <1>5 DEF Has, ToSet
  <2>3. Single(u, x)
    BY <2>2 DEF Has, Single
  <2>4. /\ \A m \in Msg : Has(undelivered'[p], m) <=> Has(u, m) \/ x = m
        /\ \A m \in Msg : Single(u, m) /\ (m = x => ~Has(u, m)) => Single(undelivered'[p], m)
    BY <1>1, <2>1, AppendedList
  <2> QED
    BY <1>1, <1>5, <2>2, <2>3, <2>4
<1> QED
  BY <1>2, <1>3, <1>4, <1>5 DEF u

-----------------------------------------------------------------------------
(* The call stack, from the top. *)

\* s is what an RPC or a new pattern leaves to be done when the rest returns.
Ends(s) ==
    \/ s = << >>
    \/ Tail(s) = << >> /\ Head(s).op = "update"
    \/ Tail(s) = << >> /\ Head(s).op = "redeliver" /\ Head(s).todo \subseteq AlsoQueued

\* s is what a delivery may return to: an RPC, or one of the loops that deliver.
Under(s) ==
    \/ Ends(s)
    \/ s # << >> /\ Ends(Tail(s)) /\ Head(s).op = "flushed"
    \/ s # << >> /\ Ends(Tail(s)) /\ Head(s).op = "requeue" /\ Head(s).msg \in AlsoQueued

\* A request is being delivered, or is about to change its state.
Delivers(s) == s # << >> /\ Head(s).op \in {"deliver", "change"}

\* What is done when nobody is being given up.
Works(s) ==
    \/ Under(s)
    \/ /\ Delivers(s) /\ Under(Tail(s))
       /\ Tail(s) # << >> => /\ Head(Tail(s)).op \in {"flushed", "requeue"}
                             /\ Head(Tail(s)).msg = Head(s).msg
    \/ s # << >> /\ Ends(Tail(s)) /\ Head(s).op \in {"flush", "replied"}
    \/ s # << >> /\ Tail(s) = << >> /\ Head(s).op \in {"started", "failqueue"}

\* A client is given up at the top of the stack only.
Dying(s) == s # << >> /\ Head(s).op = "deactivate"
Work(s)  == IF Dying(s) THEN Tail(s) ELSE s
Shape(s) ==
    /\ Works(Work(s))
    /\ Dying(s) => Tail(s) = << >> \/ Head(Tail(s)).op \in {"deliver", "failqueue"}

\* m is the request that is delivered or changes, or that the walk over the
\* ptype's queue has come to.
Moves(s, m)   == Delivers(Work(s)) /\ Head(Work(s)).msg = m
Flushes(s, m) ==
    LET r == IF Delivers(Work(s)) THEN Tail(Work(s)) ELSE Work(s)
    IN r # << >> /\ Head(r).op = "flushed" /\ Head(r).msg = m
Apart(s, m)   == ~Moves(s, m) /\ ~Flushes(s, m)

\* A frame that is pushed is on top of what was there.
LEMMA PushOne ==
    ASSUME NEW f \in Frame, NEW s \in Seq(Frame)
    PROVE  /\ <<f>> \o s \in Seq(Frame) /\ <<f>> \o s # << >>
           /\ Head(<<f>> \o s) = f /\ Tail(<<f>> \o s) = s
OBVIOUS

\* Two frames are pushed one after the other, and three.
LEMMA PushMore ==
    ASSUME NEW f \in Frame, NEW g \in Frame, NEW h \in Frame, NEW s \in Seq(Frame)
    PROVE  /\ <<f, g>> \o s = <<f>> \o (<<g>> \o s)
           /\ <<f, g, h>> \o s = <<f>> \o (<<g>> \o (<<h>> \o s))
<1>1. <<f>> \in Seq(Frame) /\ <<g>> \in Seq(Frame) /\ <<h>> \in Seq(Frame) /\ <<g, h>> \in Seq(Frame)
  OBVIOUS
<1>2. ASSUME NEW x \in Frame, NEW y \in Frame PROVE <<x, y>> = <<x>> \o <<y>>
  <2> DEFINE a == <<x>>
             b == <<y>>
             c == <<x, y>>
  <2>1. /\ a \in Seq(Frame) /\ Len(a) = 1 /\ a[1] = x /\ b \in Seq(Frame) /\ Len(b) = 1 /\ b[1] = y
        /\ c \in Seq(Frame) /\ Len(c) = 2 /\ c[1] = x /\ c[2] = y
    OBVIOUS
  <2> HIDE DEF a, b, c
  <2>2. /\ a \o b \in Seq(Frame) /\ Len(a \o b) = Len(a) + Len(b)
        /\ \A i \in 1 .. Len(a) + Len(b) : (a \o b)[i] = IF i <= Len(a) THEN a[i] ELSE b[i - Len(a)]
    BY <2>1, ConcatProperties
  <2>3. Len(a \o b) = 2 /\ (a \o b)[1] = x /\ (a \o b)[2] = y
    BY <2>1, <2>2
  <2>4. c = a \o b
    BY <2>1, <2>2, <2>3, SeqEqual
  <2> QED
    BY <2>4 DEF a, b, c
<1>3. <<f, g, h>> = <<f>> \o <<g, h>>
  OBVIOUS
<1>4. (<<f>> \o <<g>>) \o s = <<f>> \o (<<g>> \o s)
  BY <1>1, ConcatAssociative
<1>5. (<<f>> \o <<g, h>>) \o s = <<f>> \o (<<g, h>> \o s)
  BY <1>1, ConcatAssociative
<1>6. (<<g>> \o <<h>>) \o s = <<g>> \o (<<h>> \o s)
  BY <1>1, ConcatAssociative
<1> QED
  BY <1>2, <1>3, <1>4, <1>5, <1>6

\* What is under a delivery is a stack of its own, with nothing delivered.
LEMMA UnderShape ==
    ASSUME NEW s, Under(s)
    PROVE  /\ Shape(s) /\ ~Dying(s) /\ \A m : ~Moves(s, m)
           /\ \A m : Flushes(s, m) <=> s # << >> /\ Head(s).op = "flushed" /\ Head(s).msg = m
           /\ Ends(s) => \A m : Apart(s, m)
BY DEF Under, Ends, Shape, Works, Work, Dying, Moves, Flushes, Delivers, Apart

\* What the top of the stack says of the rest, and of the requests it is about.
LEMMA TopShape ==
    ASSUME NEW s, s # << >>, Shape(s)
    PROVE  LET f == Head(s)
               t == Tail(s)
           IN /\ f.op \in {"deliver", "change"} =>
                   /\ Under(t) /\ (t # << >> => Head(t).op \in {"flushed", "requeue"} /\ Head(t).msg = f.msg)
                   /\ \A m : Moves(s, m) <=> m = f.msg
                   /\ \A m : Flushes(s, m) <=> Flushes(t, m)
                   /\ \A m : Flushes(s, m) => m = f.msg
              /\ f.op = "deactivate" =>
                   /\ Shape(t) /\ ~Dying(t)
                   /\ t # << >> => Head(t).op \in {"deliver", "failqueue"}
                   /\ \A m : (Moves(s, m) <=> Moves(t, m)) /\ (Flushes(s, m) <=> Flushes(t, m))
              /\ f.op = "flushed" => Ends(t) /\ \A m : ~Moves(s, m) /\ (Flushes(s, m) <=> m = f.msg)
              /\ f.op \in {"flush", "replied"} => Ends(t) /\ \A m : Apart(s, m)
              /\ f.op = "requeue" => Ends(t) /\ f.msg \in AlsoQueued /\ \A m : Apart(s, m)
              /\ f.op \in {"update", "redeliver", "started", "failqueue"} =>
                   t = << >> /\ \A m : Apart(s, m)
              /\ f.op = "redeliver" => f.todo \subseteq AlsoQueued
<1> DEFINE f == Head(s)
           t == Tail(s)
<1>1. f.op # "deactivate" => Works(s)
  BY DEF Shape, Work, Dying
<1> USE <1>1 DEF Works, Under, Ends
<1>2. ASSUME f.op \in {"deliver", "change"}
      PROVE  /\ Under(t) /\ (t # << >> => Head(t).op \in {"flushed", "requeue"} /\ Head(t).msg = f.msg)
             /\ \A m : Moves(s, m) <=> m = f.msg
             /\ \A m : Flushes(s, m) <=> Flushes(t, m)
             /\ \A m : Flushes(s, m) => m = f.msg
  <2>1. /\ Under(t) /\ (t # << >> => Head(t).op \in {"flushed", "requeue"} /\ Head(t).msg = f.msg)
        /\ Delivers(s) /\ Work(s) = s
    BY <1>2 DEF Delivers, Work, Dying
  <2>2. \A m : Moves(s, m) <=> m = f.msg
    BY <2>1 DEF Moves
  <2>3. \A m : Flushes(s, m) <=> t # << >> /\ Head(t).op = "flushed" /\ Head(t).msg = m
    BY <2>1 DEF Flushes
  <2>4. \A m : Flushes(t, m) <=> t # << >> /\ Head(t).op = "flushed" /\ Head(t).msg = m
    BY <2>1, UnderShape
  <2> QED
    BY <2>1, <2>2, <2>3, <2>4
<1>3. ASSUME f.op = "deactivate"
      PROVE  /\ Shape(t) /\ ~Dying(t)
             /\ t # << >> => Head(t).op \in {"deliver", "failqueue"}
             /\ \A m : (Moves(s, m) <=> Moves(t, m)) /\ (Flushes(s, m) <=> Flushes(t, m))
  BY <1>3 DEF Shape, Work, Dying, Moves, Flushes
<1>4. ASSUME f.op = "flushed"
      PROVE  Ends(t) /\ \A m : ~Moves(s, m) /\ (Flushes(s, m) <=> m = f.msg)
  BY <1>4 DEF Delivers, Work, Dying, Moves, Flushes
<1>5. ASSUME f.op \in {"flush", "replied"} PROVE Ends(t) /\ \A m : Apart(s, m)
  BY <1>5 DEF Delivers, Work, Dying, Moves, Flushes, Apart
<1>6. ASSUME f.op = "requeue" PROVE Ends(t) /\ f.msg \in AlsoQueued /\ \A m : Apart(s, m)
  BY <1>6 DEF Delivers, Work, Dying, Moves, Flushes, Apart
<1>7. ASSUME f.op \in {"update", "redeliver", "started", "failqueue"}
      PROVE  t = << >> /\ (\A m : Apart(s, m)) /\ (f.op = "redeliver" => f.todo \subseteq AlsoQueued)
  BY <1>7 DEF Delivers, Work, Dying, Moves, Flushes, Apart
<1> QED
  BY <1>2, <1>3, <1>4, <1>5, <1>6, <1>7

\* What the top of the stack must be for the stack to have its shape.
LEMMA ShapeOf ==
    ASSUME NEW s, s # << >>
    PROVE  LET f == Head(s)
               t == Tail(s)
           IN /\ /\ f.op \in {"deliver", "change"} /\ Under(t)
                 /\ t # << >> => Head(t).op \in {"flushed", "requeue"} /\ Head(t).msg = f.msg
                 => Shape(s)
              /\ f.op = "deactivate" /\ t = << >> => Shape(s)
              /\ f.op = "deactivate" /\ Shape(t) /\ t # << >> /\ Head(t).op \in {"deliver", "failqueue"}
                 => Shape(s)
              /\ f.op \in {"flushed", "flush", "replied"} /\ Ends(t) => Shape(s)
              /\ f.op = "flushed" /\ Ends(t) => Under(s)
              /\ f.op = "requeue" /\ Ends(t) /\ f.msg \in AlsoQueued => Under(s)
              /\ f.op = "redeliver" /\ t = << >> /\ f.todo \subseteq AlsoQueued => Ends(s)
              /\ f.op \in {"update", "started", "failqueue"} /\ t = << >> => Shape(s)
              /\ f.op = "update" /\ t = << >> => Ends(s)
<1> DEFINE f == Head(s)
           t == Tail(s)
<1>1. ASSUME f.op = "deactivate", Shape(t), Head(t).op \in {"deliver", "failqueue"}, t # << >> PROVE Shape(s)
  BY <1>1 DEF Shape, Work, Dying
<1>2. ASSUME f.op = "deactivate", t = << >> PROVE Shape(s)
  BY <1>2 DEF Shape, Work, Dying, Works, Under, Ends
<1>3. ASSUME f.op \in {"deliver", "change"}, Under(t),
             t # << >> => Head(t).op \in {"flushed", "requeue"} /\ Head(t).msg = f.msg
      PROVE  Shape(s)
  BY <1>3 DEF Shape, Work, Dying, Works, Delivers
<1>4. ASSUME f.op \in {"flushed", "flush", "replied"}, Ends(t) PROVE Shape(s)
  BY <1>4 DEF Shape, Work, Dying, Works, Under
<1>5. ASSUME f.op \in {"update", "started", "failqueue"}, t = << >> PROVE Shape(s)
  BY <1>5 DEF Shape, Work, Dying, Works, Under, Ends
<1> QED
  BY <1>1, <1>2, <1>3, <1>4, <1>5 DEF Under, Ends

\* An empty stack has its shape, and is about nothing.
LEMMA NoShape == Shape(<< >>) /\ Under(<< >>) /\ Ends(<< >>) /\ \A m : Apart(<< >>, m)
BY DEF Shape, Work, Dying, Works, Under, Ends, Apart, Moves, Flushes, Delivers

-----------------------------------------------------------------------------
(* The inductive invariant. *)

\* p has m, read or not.
Listed(p, m) == Has(undelivered[p], m) \/ m \in delivered[p]

\* The walk over the ptype's queue is at the head of the queue.
Walk == \A m \in Msg : Flushes(stack, m) => ptypeQueue # << >> /\ Head(ptypeQueue) = m

\* The server works inside one turn of its main loop.
Inside == pc \in {"clear", "check", "poll", "wait", "bottom"} => stack = << >>

\* The process that has connected, and has not been given its start message, is
\* active.
Connected == Running("started") => Head(stack).proc \in active

Orderly == Shape(stack) /\ Walk /\ Inside /\ Connected /\ queued \subseteq AlsoQueued

\* m is sent once.
IsSend(i, m) == rpc[Sender][i].call = "send" /\ rpc[Sender][i].msg = m
SentOnce(m) == \A i \in 1 .. Len(rpc[Sender]) : IsSend(i, m) =>
    state[m] = "CREATED" /\ \A j \in 1 .. Len(rpc[Sender]) : IsSend(j, m) => j = i

\* Until m is sent it is nowhere.
Fresh(m) == state[m] = "CREATED" =>
    reported[m] = {} /\ ~Moves(stack, m) /\ ~Has(ptypeQueue, m) /\ \A p \in Proc : ~Listed(p, m)

\* What has ended stays ended.
Ended(m) == state[m] # "QUEUED" /\ (reported[m] \cap Final # {} => state[m] \in Final)

\* No list has m twice.
InOne(m) ==
    /\ Single(ptypeQueue, m)
    /\ \A p \in Proc : Single(undelivered[p], m) /\ (Has(undelivered[p], m) => m \notin delivered[p])

\* Who has m is its handler, and nothing else is done with m, unless he is
\* being given up, or the walk is about to take m out of the queue.
Given(m) == \A p \in Proc : Listed(p, m) =>
    /\ handler[m] = p /\ p \in active /\ state[m] \in {"SENT", "STARTED"}
    /\ Moves(stack, m) => Dying(stack) /\ Head(stack).proc = p
    /\ Has(ptypeQueue, m) => Flushes(stack, m)

\* What waits on the ptype has been started and has not ended, and is not
\* delivered but by the walk.
Waits(m) == Has(ptypeQueue, m) =>
    /\ "STARTED" \in reported[m]
    /\ Flushes(stack, m) \/ (state[m] \in {"SENT", "STARTED"} /\ ~Moves(stack, m))

\* What is being delivered seeks a handler or has failed meanwhile; it will be
\* started if nobody is found.  What is about to change is nowhere else.
Moving(m) == Moves(stack, m) =>
    LET f == Head(Work(stack)) IN
    \/ /\ f.op = "deliver" /\ state[m] \in {"SENT"} \cup Final
       /\ state[m] = "SENT" => "STARTED" \notin reported[m] \/ Flushes(stack, m)
    \/ /\ f.op = "change" /\ state[m] \in {"SENT", "STARTED"} /\ ~Has(ptypeQueue, m)
       /\ f.to = "REJECTED" => handler[m] # NoProc

\* The walk is told whether m was delivered.
Told(m) == Flushes(stack, m) /\ ~Moves(stack, m) =>
    IF ret THEN state[m] \in Final \/ \E p \in Proc : Listed(p, m)
           ELSE state[m] = "SENT" /\ \A p \in Proc : ~Listed(p, m)

\* What has been sent and has not ended is somewhere.
Somewhere(m) == state[m] \in {"SENT", "STARTED"} =>
    Moves(stack, m) \/ Has(ptypeQueue, m) \/ \E p \in Proc : Listed(p, m)

PlaceOf(m) == /\ SentOnce(m) /\ Fresh(m) /\ Ended(m) /\ InOne(m) /\ Given(m)
              /\ Waits(m) /\ Moving(m) /\ Told(m) /\ Somewhere(m)

Places == \A m \in Msg \ AlsoQueued : PlaceOf(m)

\* What a step leaves alone of a request it is not about.
LEMMA Bystander ==
    ASSUME NEW m \in Msg, PlaceOf(m), SentOnce(m)',
           Apart(stack, m), Apart(stack, m)',
           state'[m] = state[m], reported'[m] = reported[m], handler'[m] = handler[m],
           Has(ptypeQueue, m)' <=> Has(ptypeQueue, m), Single(ptypeQueue, m)',
           \A p \in Proc : /\ Has(undelivered'[p], m) <=> Has(undelivered[p], m)
                           /\ Single(undelivered'[p], m)
                           /\ m \in delivered'[p] <=> m \in delivered[p]
                           /\ Listed(p, m) /\ p \in active => p \in active'
    PROVE  PlaceOf(m)'
<1>1. \A p \in Proc : Listed(p, m)' <=> Listed(p, m)
  BY DEF Listed
<1>2. Fresh(m)' /\ Ended(m)'
  BY <1>1 DEF PlaceOf, Fresh, Ended, Apart
<1>3. InOne(m)'
  BY DEF PlaceOf, InOne
<1>4. Given(m)'
  BY <1>1 DEF PlaceOf, Given, Apart
<1>5. Waits(m)' /\ Moving(m)' /\ Told(m)'
  BY <1>1 DEF PlaceOf, Waits, Moving, Told, Apart
<1>6. Somewhere(m)'
  BY <1>1 DEF PlaceOf, Somewhere, Apart
<1> QED
  BY <1>2, <1>3, <1>4, <1>5, <1>6 DEF PlaceOf

-----------------------------------------------------------------------------
(* The clients, the main loop and the RPCs. *)

\* The calls that wait are those that did, and perhaps a new one at the end.
LEMMA CallAdded ==
    ASSUME TypeOK, NEW p \in Proc, NEW c \in Call, rpc' = [rpc EXCEPT ![p] = Append(@, c)],
           NEW m \in Msg, SentOnce(m), state[m] = "CREATED" => state'[m] = "CREATED",
           p = Sender /\ c.call = "send" /\ c.msg = m => /\ state'[m] = "CREATED"
                                          /\ \A i \in 1 .. Len(rpc[Sender]) : ~IsSend(i, m)
    PROVE  SentOnce(m)'
<1> DEFINE u == rpc[Sender]
           v == rpc'[Sender]
<1>1. u \in Seq(Call) /\ Sender \in Proc /\ rpc \in [Proc -> Seq(Call)]
  BY PtypeAssumption DEF TypeOK, Proc
<1>2. v = u \/ (p = Sender /\ v = Append(u, c))
  BY <1>1
<1>3. \A i \in 1 .. Len(u) : u[i].call = "send" /\ u[i].msg = m =>
         state[m] = "CREATED" /\ \A j \in 1 .. Len(u) : u[j].call = "send" /\ u[j].msg = m => j = i
  BY DEF SentOnce, IsSend
<1>4. p = Sender /\ c.call = "send" /\ c.msg = m =>
         /\ state'[m] = "CREATED"
         /\ \A i \in 1 .. Len(u) : ~(u[i].call = "send" /\ u[i].msg = m)
  BY DEF IsSend
<1>5. SUFFICES \A i \in 1 .. Len(v) : v[i].call = "send" /\ v[i].msg = m =>
         state'[m] = "CREATED" /\ \A j \in 1 .. Len(v) : v[j].call = "send" /\ v[j].msg = m => j = i
  BY DEF SentOnce, IsSend
<1> HIDE DEF u, v
<1>6. CASE v = u
  BY <1>3, <1>6
<1>7. CASE p = Sender /\ v = Append(u, c)
  <2>1. /\ Len(u) \in Nat /\ Len(v) = Len(u) + 1 /\ v[Len(u) + 1] = c
        /\ \A i \in 1 .. Len(u) : v[i] = u[i]
    BY <1>1, <1>7, LenProperties, AppendProperties
  <2>2. \A i \in 1 .. Len(v) : i \in 1 .. Len(u) \/ i = Len(u) + 1
    BY <2>1
  <2>3. CASE c.call = "send" /\ c.msg = m
    BY <1>4, <1>7, <2>1, <2>2, <2>3
  <2>4. CASE ~(c.call = "send" /\ c.msg = m)
    BY <1>3, <2>1, <2>2, <2>4
  <2> QED
    BY <2>3, <2>4
<1> QED
  BY <1>2, <1>6, <1>7

\* The first call is taken.
LEMMA CallTaken ==
    ASSUME TypeOK, NEW p \in Proc, rpc[p] # << >>, rpc' = [rpc EXCEPT ![p] = Tail(@)],
           NEW m \in Msg, SentOnce(m)
    PROVE  /\ (state[m] = "CREATED" => state'[m] = "CREATED") => SentOnce(m)'
           /\ p = Sender /\ Head(rpc[p]).call = "send" /\ Head(rpc[p]).msg = m =>
                 state[m] = "CREATED" /\ SentOnce(m)'
<1> DEFINE u == rpc[Sender]
           v == rpc'[Sender]
<1>1. u \in Seq(Call) /\ Sender \in Proc /\ rpc \in [Proc -> Seq(Call)]
  BY PtypeAssumption DEF TypeOK, Proc
<1>2. v = u \/ (p = Sender /\ u # << >> /\ v = Tail(u))
  BY <1>1
<1>3. \A i \in 1 .. Len(u) : u[i].call = "send" /\ u[i].msg = m =>
         state[m] = "CREATED" /\ \A j \in 1 .. Len(u) : u[j].call = "send" /\ u[j].msg = m => j = i
  BY DEF SentOnce, IsSend
<1>4. (\A i \in 1 .. Len(v) : v[i].call = "send" /\ v[i].msg = m =>
         state'[m] = "CREATED" /\ \A j \in 1 .. Len(v) : v[j].call = "send" /\ v[j].msg = m => j = i)
         => SentOnce(m)'
  BY DEF SentOnce, IsSend
<1>5. p = Sender => v = Tail(u) /\ u # << >> /\ Head(rpc[p]) = Head(u)
  BY <1>1
<1> HIDE DEF u, v
<1>6. CASE v = u
  BY <1>3, <1>4, <1>6, <1>5 , EmptySeq, HeadTailProperties, <1>1
<1>7. CASE u # << >> /\ v = Tail(u)
  <2>1. /\ Len(u) \in Nat \ {0} /\ Len(v) = Len(u) - 1 /\ Head(u) = u[1]
        /\ \A i \in 1 .. Len(v) : v[i] = u[i+1]
    BY <1>1, <1>7, EmptySeq, HeadTailProperties
  <2>2. \A i \in 1 .. Len(v) : i + 1 \in 1 .. Len(u)
    BY <2>1
  <2>3. ASSUME state[m] = "CREATED" => state'[m] = "CREATED" PROVE SentOnce(m)'
    <3>1. ASSUME NEW i \in 1 .. Len(v), v[i].call = "send", v[i].msg = m
          PROVE  /\ state'[m] = "CREATED"
                 /\ \A j \in 1 .. Len(v) : v[j].call = "send" /\ v[j].msg = m => j = i
      <4>1. i + 1 \in 1 .. Len(u) /\ u[i+1].call = "send" /\ u[i+1].msg = m
        BY <2>1, <2>2, <3>1
      <4>2. /\ state[m] = "CREATED"
            /\ \A j \in 1 .. Len(u) : u[j].call = "send" /\ u[j].msg = m => j = i + 1
        BY <1>3, <4>1
      <4>3. ASSUME NEW j \in 1 .. Len(v), v[j].call = "send", v[j].msg = m PROVE j = i
        <5>1. j + 1 \in 1 .. Len(u) /\ u[j+1].call = "send" /\ u[j+1].msg = m
          BY <2>1, <2>2, <4>3
        <5>2. j + 1 = i + 1
          BY <4>2, <5>1
        <5> QED
          BY <2>1, <5>2
      <4> QED
        BY <2>3, <4>2, <4>3
    <3> QED
      BY <1>4, <3>1
  <2>4. ASSUME Head(u).call = "send", Head(u).msg = m PROVE state[m] = "CREATED" /\ SentOnce(m)'
    <3>1. 1 \in 1 .. Len(u) /\ u[1].call = "send" /\ u[1].msg = m
      BY <2>1, <2>4
    <3>2. \A i \in 1 .. Len(v) : ~(v[i].call = "send" /\ v[i].msg = m)
      BY <1>3, <2>1, <2>2, <3>1
    <3> QED
      BY <1>3, <1>4, <3>1, <3>2
  <2> QED
    BY <1>5, <2>3, <2>4
<1> QED
  BY <1>2, <1>6, <1>7

\* Nothing waits elsewhere than before.
LEMMA CallsKept ==
    ASSUME NEW m \in Msg, SentOnce(m), rpc' = rpc, state[m] = "CREATED" => state'[m] = "CREATED"
    PROVE  SentOnce(m)'
BY DEF SentOnce, IsSend

\* A step that leaves requests, lists and stack alone.
LEMMA Quiet ==
    ASSUME Orderly, Places, Inside',
           UNCHANGED <<ptypeQueue, active, undelivered, delivered, state, handler, reported,
                       queued, stack, ret>>,
           \A m \in Msg \ AlsoQueued : SentOnce(m)'
    PROVE  Orderly' /\ Places'
<1>1. Orderly'
  BY DEF Orderly, Walk, Connected, Running
<1>2. ASSUME NEW m \in Msg \ AlsoQueued PROVE PlaceOf(m)'
  <2>1. PlaceOf(m)
    BY DEF Places
  <2>2. \A p \in Proc : Listed(p, m)' <=> Listed(p, m)
    BY DEF Listed
  <2>3. Fresh(m)' /\ Ended(m)' /\ InOne(m)'
    BY <2>1, <2>2 DEF PlaceOf, Fresh, Ended, InOne
  <2>4. Given(m)' /\ Waits(m)'
    BY <2>1, <2>2 DEF PlaceOf, Given, Waits
  <2>5. Moving(m)'
    BY <2>1 DEF PlaceOf, Moving
  <2>6. Told(m)' /\ Somewhere(m)'
    BY <2>1, <2>2 DEF PlaceOf, Told, Somewhere
  <2> QED
    BY <2>3, <2>4, <2>5, <2>6 DEF PlaceOf
<1> QED
  BY <1>1, <1>2 DEF Places

\* What clients ask for, and the exit of a process, change no request.
LEMMA ClientPlaces ==
    ASSUME TypeOK, Orderly, Places, AskSend \/ \E p \in Proc : Process(p)
    PROVE  Orderly' /\ Places'
<1> USE DEF loopVars, ptypeVars, clientVars, msgVars
<1>1. ASSUME NEW p \in Proc, NEW c \in Call, Ask(p, c), c.call # "send" PROVE Orderly' /\ Places'
  <2>1. rpc' = [rpc EXCEPT ![p] = Append(@, c)] /\ state' = state
    BY <1>1 DEF Ask
  <2>2. \A m \in Msg \ AlsoQueued : SentOnce(m)'
    BY <1>1, <2>1, CallAdded DEF Places, PlaceOf
  <2>3. Inside'
    BY <1>1 DEF Ask, Inside, Orderly
  <2> QED
    BY <1>1, <2>2, <2>3, Quiet DEF Ask
<1>2. CASE AskSend
  <2>1. PICK x \in Msg : /\ state[x] = "CREATED" /\ [call |-> "send", msg |-> x] \notin ToSet(rpc[Sender])
                         /\ Ask(Sender, [call |-> "send", msg |-> x])
    BY <1>2 DEF AskSend
  <2> DEFINE c == [call |-> "send", msg |-> x]
  <2>2. c \in Call /\ c.call = "send" /\ c.msg = x /\ Sender \in Proc
    BY PtypeAssumption DEF Call, Proc
  <2>3. \A i \in 1 .. Len(rpc[Sender]) : ~IsSend(i, x)
    <3> SUFFICES ASSUME NEW i \in 1 .. Len(rpc[Sender]), IsSend(i, x) PROVE FALSE
      OBVIOUS
    <3>1. rpc[Sender][i] \in Call
      BY <2>2, ElementOfSeq DEF TypeOK
    <3>2. rpc[Sender][i] = c
      BY <3>1 DEF Call, IsSend
    <3>3. c \in ToSet(rpc[Sender])
      BY <2>2, <3>2, LenProperties DEF ToSet, TypeOK
    <3> QED
      BY <2>1, <3>3
  <2>4. rpc' = [rpc EXCEPT ![Sender] = Append(@, c)] /\ state' = state
    BY <2>1 DEF Ask
  <2> HIDE DEF c
  <2>5. \A m \in Msg \ AlsoQueued : SentOnce(m)'
    BY <2>1, <2>2, <2>3, <2>4, CallAdded DEF Places, PlaceOf
  <2>6. Inside'
    BY <2>1 DEF Ask, Inside, Orderly
  <2> QED
    BY <2>1, <2>5, <2>6, Quiet DEF Ask
<1>3. ASSUME NEW p \in Proc, Process(p) PROVE Orderly' /\ Places'
  <2>1. CASE AskConnect(p)
    <3>1. [call |-> "connect"] \in Call
      BY DEF Call
    <3> QED
      BY <1>1, <2>1, <3>1 DEF AskConnect
  <2>2. CASE AskRegister(p)
    <3>1. [call |-> "register"] \in Call
      BY DEF Call
    <3> QED
      BY <1>1, <2>2, <3>1 DEF AskRegister
  <2>3. CASE AskNext(p)
    <3>1. [call |-> "next"] \in Call
      BY DEF Call
    <3> QED
      BY <1>1, <2>3, <3>1 DEF AskNext
  <2>4. CASE AskAccept(p)
    <3>1. [call |-> "accept"] \in Call
      BY DEF Call
    <3> QED
      BY <1>1, <2>4, <3>1 DEF AskAccept
  <2>5. CASE AskUpdate(p)
    <3>1. PICK m \in delivered[p], s \in Answers :
             Ask(p, [call |-> "update", msg |-> m, to |-> s, start |-> m \in startCopies[p]])
      BY <2>5 DEF AskUpdate
    <3>2. m \in Msg /\ s \in {"REJECTED"} \cup Final
      BY PtypeAssumption DEF TypeOK
    <3>3. [call |-> "update", msg |-> m, to |-> s, start |-> m \in startCopies[p]] \in Call
      BY <3>2 DEF Call
    <3> QED
      BY <1>1, <3>1, <3>3
  <2>6. CASE Exit(p)
    <3>1. \A m \in Msg \ AlsoQueued : SentOnce(m)'
      BY <2>6, CallsKept DEF Exit, Places, PlaceOf
    <3>2. Inside'
      BY <2>6 DEF Exit, Inside, Orderly
    <3> QED
      BY <2>6, <3>1, <3>2, Quiet DEF Exit
  <2> QED
    BY <1>3, <2>1, <2>2, <2>3, <2>4, <2>5, <2>6 DEF Process
<1> QED
  BY <1>2, <1>3

\* All that waits on the ptype fails; what does not is left alone.
LEMMA QueueFails ==
    ASSUME TypeOK, Places, LaunchFailed, rpc' = rpc,
           UNCHANGED <<active, undelivered, delivered, handler>>,
           \A m \in Msg : Apart(stack, m) /\ Apart(stack, m)'
    PROVE  Places'
<1> SUFFICES ASSUME NEW m \in Msg \ AlsoQueued PROVE PlaceOf(m)'
  BY DEF Places
<1>1. PlaceOf(m)
  BY DEF Places
<1>2. ptypeQueue' = << >> /\ FailAll(ToSet(ptypeQueue))
  BY DEF LaunchFailed
<1>3. m \in ToSet(ptypeQueue) <=> Has(ptypeQueue, m)
  <2>1. ptypeQueue \in Seq(Msg)
    BY DEF TypeOK
  <2> QED
    BY <2>1, LenProperties DEF ToSet, Has
<1>4. ~Has(ptypeQueue', m) /\ Single(ptypeQueue', m)
  BY <1>2 DEF Has, Single
<1>5. CASE ~Has(ptypeQueue, m)
  <2>1. state'[m] = state[m] /\ reported'[m] = reported[m]
    BY <1>2, <1>3, <1>5 DEF FailAll
  <2>2. SentOnce(m)'
    BY <1>1, <2>1, CallsKept DEF PlaceOf
  <2>3. Has(ptypeQueue, m)' <=> Has(ptypeQueue, m)
    BY <1>4, <1>5
  <2>4. Single(ptypeQueue, m)'
    BY <1>4
  <2> QED
    BY <1>1, <2>1, <2>2, <2>3, <2>4, Bystander DEF PlaceOf, InOne
<1>6. CASE Has(ptypeQueue, m)
  <2>1. state[m] \in {"SENT", "STARTED"} /\ Apart(stack, m) /\ Apart(stack, m)'
    BY <1>1, <1>6 DEF PlaceOf, Waits, Apart
  <2>2. "FAILED" \notin reported[m] /\ \A p \in Proc : ~Listed(p, m)
    BY <1>1, <1>6, <2>1 DEF PlaceOf, Ended, Given, Apart, Final
  <2>3. state'[m] = "FAILED"
    BY <1>2, <1>3, <1>6, <2>2 DEF FailAll
  <2>4. \A p \in Proc : ~Listed(p, m)'
    BY <2>2 DEF Listed
  <2>5. SentOnce(m)'
    BY <1>1, <2>1, CallsKept DEF PlaceOf
  <2>6. Fresh(m)' /\ Ended(m)' /\ Given(m)' /\ Waits(m)' /\ Moving(m)' /\ Told(m)' /\ Somewhere(m)'
    BY <1>4, <2>1, <2>3, <2>4 DEF Fresh, Ended, Given, Waits, Moving, Told, Somewhere, Apart, Final
  <2>7. InOne(m)'
    BY <1>1, <1>4 DEF PlaceOf, InOne
  <2> QED
    BY <2>5, <2>6, <2>7 DEF PlaceOf
<1> QED
  BY <1>5, <1>6

\* The main loop and the signal handler.
LEMMA LoopPlaces ==
    ASSUME TypeOK, Orderly, Places, Loop \/ Sigchld
    PROVE  Orderly' /\ Places'
<1> USE DEF procVars, ptypeVars, clientVars, msgVars, LoopKeeps
<1>1. ASSUME Inside', rpc' = rpc,
             UNCHANGED <<ptypeQueue, active, undelivered, delivered, state, handler, reported,
                         queued, stack, ret>>
      PROVE  Orderly' /\ Places'
  <2>1. \A m \in Msg \ AlsoQueued : SentOnce(m)'
    BY <1>1, CallsKept DEF Places, PlaceOf
  <2> QED
    BY <1>1, <2>1, Quiet
<1>2. CASE Clear \/ Notified \/ Test \/ Poll
  <2>1. Inside'
    BY <1>2 DEF Clear, Notified, Test, Poll, Goto, Inside
  <2> QED
    BY <1>1, <1>2, <2>1 DEF Clear, Notified, Test, Poll
<1>3. CASE Sigchld
  <2>1. Inside'
    BY <1>3 DEF Sigchld, Inside, Orderly, TypeOK
  <2> QED
    BY <1>1, <1>3, <2>1 DEF Sigchld
<1>4. CASE Notify
  <2>1. stack = << >> /\ Inside' /\ stack' = stack
    BY <1>4 DEF Notify, Inside, Orderly
  <2>2. CASE LaunchFailed
    <3>1. \A m \in Msg : Apart(stack, m) /\ Apart(stack, m)'
      BY <2>1, NoShape
    <3>2. Places'
      BY <1>4, <2>2, <3>1, QueueFails DEF Notify
    <3>3. Orderly'
      BY <1>4, <2>1, <3>1 DEF Notify, Orderly, Walk, Connected, Running, Apart
    <3> QED
      BY <3>2, <3>3
  <2>3. CASE UNCHANGED <<state, reported, launching, ptypeQueue>>
    BY <1>1, <1>4, <2>1, <2>3 DEF Notify
  <2> QED
    BY <1>4, <2>2, <2>3 DEF Notify
<1> QED
  BY <1>2, <1>3, <1>4 DEF Loop

\* An RPC or a lost channel that changes no request, and leaves to be done what
\* is about none.
LEMMA Served ==
    ASSUME TypeOK, Orderly, Places, stack = << >>, pc' = "test",
           UNCHANGED <<ptypeQueue, undelivered, delivered, state, handler, reported, queued>>,
           \A m \in Msg \ AlsoQueued : SentOnce(m)',
           active \subseteq active',
           Shape(stack'), \A m \in Msg : Apart(stack', m), Connected'
    PROVE  Orderly' /\ Places'
<1>1. Orderly'
  BY DEF Orderly, Walk, Inside, Apart
<1>2. ASSUME NEW m \in Msg \ AlsoQueued PROVE PlaceOf(m)'
  <2>1. PlaceOf(m) /\ SentOnce(m)'
    BY DEF Places
  <2>2. Apart(stack, m) /\ Apart(stack, m)'
    BY NoShape
  <2>3. Single(ptypeQueue, m)'
    BY <2>1 DEF PlaceOf, InOne
  <2>4. \A q \in Proc : /\ Has(undelivered'[q], m) <=> Has(undelivered[q], m)
                        /\ Single(undelivered'[q], m)
                        /\ m \in delivered'[q] <=> m \in delivered[q]
                        /\ Listed(q, m) /\ q \in active => q \in active'
    BY <2>1 DEF PlaceOf, InOne
  <2> QED
    BY <2>1, <2>2, <2>3, <2>4, Bystander
<1> QED
  BY <1>1, <1>2 DEF Places

\* A stack of one frame.
LEMMA OneFrame ==
    ASSUME NEW f \in Frame
    PROVE  <<f>> \in Seq(Frame) /\ <<f>> # << >> /\ Head(<<f>>) = f /\ Tail(<<f>>) = << >>
OBVIOUS

\* The RPCs of the clients, and their loss.
LEMMA ServeRpcPlaces ==
    ASSUME TypeOK, Orderly, Places, NEW p \in Proc,
           ServeConnect(p) \/ ServeRegister(p) \/ ServeAccept(p) \/ ServeUpdate(p) \/ Hangup(p)
    PROVE  Orderly' /\ Places'
<1> USE DEF ptypeVars, clientVars, msgVars, procVars
<1>0. stack = << >> /\ pc' = "test"
  BY DEF ServeConnect, ServeRegister, ServeAccept, ServeUpdate, Hangup, Serve, Waiting
<1>1. \A m \in Msg \ AlsoQueued : SentOnce(m)'
  <2>1. CASE Hangup(p)
    BY <2>1, CallsKept DEF Hangup, Places, PlaceOf
  <2>2. CASE ~Hangup(p)
    <3>1. rpc[p] # << >> /\ rpc' = [rpc EXCEPT ![p] = Tail(@)] /\ state' = state
      BY <2>2 DEF ServeConnect, ServeRegister, ServeAccept, ServeUpdate, Serve
    <3> QED
      BY <3>1, CallTaken DEF Places, PlaceOf
  <2> QED
    BY <2>1, <2>2
<1>2. CASE ServeConnect(p)
  <2>1. CASE p \in alive
    <3>1. stack' = <<Started(p)>> /\ active' = active \cup {p}
      BY <1>2, <2>1 DEF ServeConnect
    <3>2. Started(p) \in Frame /\ Started(p).op = "started" /\ Started(p).proc = p
      BY FramesMade DEF Started
    <3> DEFINE s == <<Started(p)>>
    <3>3. s # << >> /\ Head(s) = Started(p) /\ Tail(s) = << >>
      BY <3>2, OneFrame
    <3> HIDE DEF s
    <3>4. Shape(s)
      BY <3>2, <3>3, ShapeOf
    <3>5. \A m \in Msg : Apart(s, m)
      BY <3>2, <3>3, <3>4, TopShape
    <3>6. stack' = s
      BY <3>1 DEF s
    <3>7. Connected'
      BY <3>1, <3>2, <3>3, <3>6 DEF Connected
    <3> QED
      BY <1>0, <1>1, <1>2, <3>1, <3>4, <3>5, <3>6, <3>7, Served DEF ServeConnect, Serve
  <2>2. CASE p \notin alive
    <3>1. stack' = << >> /\ active' = active
      BY <1>0, <1>2, <2>2 DEF ServeConnect
    <3>2. Connected'
      BY <3>1 DEF Connected, Running
    <3> QED
      BY <1>0, <1>1, <1>2, <3>1, <3>2, NoShape, Served DEF ServeConnect, Serve
  <2> QED
    BY <2>1, <2>2
<1>3. ASSUME NEW f \in Frame, stack' = <<f>>, active' = active,
             \/ f.op = "redeliver" /\ f.todo \subseteq AlsoQueued
             \/ f.op \in {"update", "deactivate", "replied"}
      PROVE  Shape(stack') /\ (\A m \in Msg : Apart(stack', m)) /\ Connected'
  <2> DEFINE s == <<f>>
  <2>1. s # << >> /\ Head(s) = f /\ Tail(s) = << >>
    BY OneFrame
  <2> HIDE DEF s
  <2>2. Ends(<< >>)
    BY NoShape
  <2>3. Ends(s) \/ Shape(s)
    BY <1>3, <2>1, <2>2, ShapeOf
  <2>4. Ends(s) => Shape(s)
    BY UnderShape DEF Under
  <2>5. Shape(s) /\ stack' = s
    BY <1>3, <2>3, <2>4 DEF s
  <2>6. \A m \in Msg : Apart(s, m)
    BY <1>3, <2>1, <2>5, TopShape, NoShape DEF Apart
  <2>7. Connected'
    BY <1>3, <2>1, <2>5 DEF Connected, Running
  <2> QED
    BY <2>5, <2>6, <2>7
<1>4. CASE ServeRegister(p)
  <2>1. stack' = <<Redeliver(queued)>> /\ active' = active
    BY <1>4 DEF ServeRegister
  <2>2. Redeliver(queued) \in Frame /\ Redeliver(queued).op = "redeliver"
        /\ Redeliver(queued).todo \subseteq AlsoQueued
    BY FramesMade DEF Redeliver, TypeOK, Orderly
  <2>3. Shape(stack') /\ (\A m \in Msg : Apart(stack', m)) /\ Connected'
    BY <1>3, <2>1, <2>2
  <2> QED
    BY <1>0, <1>1, <1>4, <2>1, <2>3, Served DEF ServeRegister, Serve
<1>5. CASE ServeAccept(p)
  <2>1. stack' = <<Replied>> /\ active' = active
    BY <1>5 DEF ServeAccept
  <2>2. Replied \in Frame /\ Replied.op = "replied"
    BY FramesMade DEF Replied
  <2>3. Shape(stack') /\ (\A m \in Msg : Apart(stack', m)) /\ Connected'
    BY <1>3, <2>1, <2>2
  <2> QED
    BY <1>0, <1>1, <1>5, <2>1, <2>3, Served DEF ServeAccept, Serve
<1>6. CASE Hangup(p)
  <2>1. stack' = <<Deactivate(p)>> /\ active' = active
    BY <1>6 DEF Hangup
  <2>2. Deactivate(p) \in Frame /\ Deactivate(p).op = "deactivate"
    BY FramesMade DEF Deactivate
  <2>3. Shape(stack') /\ (\A m \in Msg : Apart(stack', m)) /\ Connected'
    BY <1>3, <2>1, <2>2
  <2> QED
    BY <1>0, <1>1, <1>6, <2>1, <2>3, Served DEF Hangup
<1>7. CASE ServeUpdate(p)
  <2> DEFINE u == Head(rpc[p])
             f == Update(p, u.msg, u.to)
  <2>1. u \in Call /\ u.call = "update"
    BY <1>7, HeadTailProperties DEF ServeUpdate, Serve, TypeOK
  <2>2. u.msg \in Msg /\ u.to \in {"REJECTED"} \cup Final
    BY <2>1 DEF Call
  <2>3. f \in Frame /\ f.op = "update"
    BY <2>2, FramesMade DEF Update
  <2>4. stack' = IF p \notin known THEN << >> ELSE (IF u.start THEN <<Replied>> ELSE << >>) \o <<f>>
    BY <1>7 DEF ServeUpdate
  <2>5. active' = active
    BY <1>7 DEF ServeUpdate
  <2> HIDE DEF f, u
  <2>6. Shape(stack') /\ (\A m \in Msg : Apart(stack', m)) /\ Connected'
    <3>1. CASE p \notin known
      BY <2>4, <3>1, NoShape DEF Connected, Running
    <3>2. CASE p \in known /\ ~u.start
      <4>1. stack' = <<f>>
        BY <2>3, <2>4, <3>2
      <4> QED
        BY <1>3, <2>3, <2>5, <4>1
    <3>3. CASE p \in known /\ u.start
      <4> DEFINE t == <<f>>
                 s == <<Replied>> \o t
      <4>1. t \in Seq(Frame) /\ t # << >> /\ Head(t) = f /\ Tail(t) = << >>
        BY <2>3, OneFrame
      <4>2. stack' = s
        BY <2>4, <3>3
      <4> HIDE DEF t
      <4>3. Ends(t)
        BY <2>3, <4>1, ShapeOf
      <4>4. Replied \in Frame /\ Replied.op = "replied"
        BY FramesMade DEF Replied
      <4>5. s # << >> /\ Head(s) = Replied /\ Tail(s) = t
        BY <4>1, <4>4, PushOne
      <4> HIDE DEF s
      <4>6. Shape(s)
        BY <4>3, <4>4, <4>5, ShapeOf
      <4>7. \A m \in Msg : Apart(s, m)
        BY <4>4, <4>5, <4>6, TopShape
      <4>8. Connected'
        BY <4>2, <4>4, <4>5 DEF Connected, Running
      <4> QED
        BY <4>2, <4>6, <4>7, <4>8
    <3> QED
      BY <3>1, <3>2, <3>3
  <2> QED
    BY <1>0, <1>1, <1>7, <2>5, <2>6, Served DEF ServeUpdate, Serve
<1> QED
  BY <1>2, <1>4, <1>5, <1>6, <1>7

\* A request is sent: it is nowhere yet.
LEMMA ServeSendPlaces ==
    ASSUME TypeOK, Orderly, Places, ServeSend
    PROVE  Orderly' /\ Places'
<1> USE DEF ptypeVars, clientVars, msgVars
<1> DEFINE x == Head(rpc[Sender]).msg
           s == <<Deliver(x)>>
<1>1. /\ stack = << >> /\ pc' = "test" /\ stack' = s
      /\ rpc[Sender] # << >> /\ rpc' = [rpc EXCEPT ![Sender] = Tail(@)]
      /\ Head(rpc[Sender]).call = "send" /\ state' = [state EXCEPT ![x] = "SENT"]
      /\ UNCHANGED <<ptypeQueue, active, undelivered, delivered, handler, reported, queued>>
  BY DEF ServeSend, Serve, Waiting
<1>2. Sender \in Proc /\ x \in Msg
  <2>1. Sender \in Proc
    BY PtypeAssumption DEF Proc
  <2>2. Head(rpc[Sender]) \in Call
    BY <1>1, <2>1, HeadTailProperties DEF TypeOK
  <2> QED
    BY <1>1, <2>1, <2>2 DEF Call
<1>3. Deliver(x) \in Frame /\ Deliver(x).op = "deliver" /\ Deliver(x).msg = x
  BY <1>2, FramesMade DEF Deliver
<1>4. s # << >> /\ Head(s) = Deliver(x) /\ Tail(s) = << >>
  BY <1>3, OneFrame
<1> HIDE DEF s
<1>5. Shape(s)
  BY <1>3, <1>4, ShapeOf, NoShape
<1>6. \A m \in Msg : (Moves(s, m) <=> m = x) /\ ~Flushes(s, m)
  <2>1. \A m \in Msg : Moves(s, m) <=> m = x
    BY <1>3, <1>4, <1>5, TopShape
  <2>2. \A m \in Msg : Flushes(s, m) <=> Flushes(<< >>, m)
    BY ZenonT(40), <1>3, <1>4, <1>5, TopShape
  <2> QED
    BY <2>1, <2>2, NoShape DEF Apart
<1>7. Orderly'
  BY <1>1, <1>3, <1>4, <1>5, <1>6 DEF Orderly, Walk, Inside, Connected, Running
<1>8. ASSUME NEW m \in Msg \ AlsoQueued PROVE PlaceOf(m)'
  <2>1. PlaceOf(m) /\ Apart(stack, m)
    BY <1>1, NoShape DEF Places
  <2>2. CASE m # x
    <3>1. state'[m] = state[m]
      BY <1>1, <1>2, <2>2 DEF TypeOK
    <3>2. SentOnce(m)'
      BY <1>1, <1>2, <2>1, <3>1, CallTaken DEF PlaceOf
    <3>3. Apart(stack, m)'
      BY <1>1, <1>6, <2>2 DEF Apart
    <3>4. Single(ptypeQueue, m)' /\ \A q \in Proc : Single(undelivered'[q], m)
      BY <1>1, <2>1 DEF PlaceOf, InOne
    <3> QED
      BY <1>1, <2>1, <3>1, <3>2, <3>3, <3>4, Bystander
  <2>3. CASE m = x
    <3>1. state[m] = "CREATED" /\ SentOnce(m)'
      BY <1>1, <1>2, <2>1, <2>3, CallTaken DEF PlaceOf
    <3>2. reported[m] = {} /\ ~Has(ptypeQueue, m) /\ \A q \in Proc : ~Listed(q, m)
      BY <2>1, <3>1 DEF PlaceOf, Fresh
    <3>3. /\ reported'[m] = {} /\ ~Has(ptypeQueue', m) /\ \A q \in Proc : ~Listed(q, m)'
          /\ state'[m] = "SENT"
      BY <1>1, <1>2, <2>3, <3>2 DEF Listed, TypeOK
    <3>4. Moves(stack, m)' /\ ~Flushes(stack, m)' /\ Head(Work(stack'))= Deliver(x)
      BY <1>1, <1>3, <1>4, <1>6, <2>3 DEF Work, Dying
    <3>5. Fresh(m)' /\ Ended(m)' /\ Given(m)' /\ Waits(m)'
      BY <3>3 DEF Fresh, Ended, Given, Waits
    <3>6. InOne(m)'
      BY <1>1, <2>1 DEF PlaceOf, InOne
    <3>7. Moving(m)'
      BY <1>3, <3>3, <3>4 DEF Moving
    <3>8. Told(m)' /\ Somewhere(m)'
      BY <3>4 DEF Told, Somewhere
    <3> QED
      BY <3>1, <3>5, <3>6, <3>7, <3>8 DEF PlaceOf
  <2> QED
    BY <2>2, <2>3
<1> QED
  BY <1>7, <1>8 DEF Places

\* A request that is read stays with the process that has read it.
LEMMA ServeNextPlaces ==
    ASSUME TypeOK, Orderly, Places, NEW p \in Proc, ServeNext(p)
    PROVE  Orderly' /\ Places'
<1> USE DEF ptypeVars, clientVars, msgVars
<1> DEFINE u    == undelivered[p]
           x    == Head(u)
           owes == u # << >> /\ Processing(p, x)
<1>1. /\ stack = << >> /\ pc' = "test" /\ stack' = stack
      /\ rpc[p] # << >> /\ rpc' = [rpc EXCEPT ![p] = Tail(@)]
      /\ UNCHANGED <<ptypeQueue, active, handler, state, reported, queued>>
      /\ undelivered' = IF u = << >> THEN undelivered ELSE [undelivered EXCEPT ![p] = Tail(@)]
      /\ delivered' = IF owes THEN [delivered EXCEPT ![p] = @ \cup {x}] ELSE delivered
  BY DEF ServeNext, Serve, Waiting
<1>2. \A m \in Msg : Apart(stack, m) /\ Apart(stack, m)'
  BY <1>1, NoShape
<1>3. Orderly'
  BY <1>1, <1>2, NoShape DEF Orderly, Walk, Inside, Connected, Running, Apart
<1>4. \A m \in Msg \ AlsoQueued : SentOnce(m)'
  BY <1>1, CallTaken DEF Places, PlaceOf
<1>5. CASE u = << >>
  <2>1. UNCHANGED <<undelivered, delivered>>
    BY <1>1, <1>5
  <2>2. Connected'
    BY <1>1 DEF Connected, Running
  <2> QED
    BY <1>1, <1>2, <1>4, <2>1, <2>2, NoShape, Served
<1>6. CASE u # << >>
  <2>0. u \in Seq(Msg) /\ undelivered \in [Proc -> Seq(Msg)] /\ delivered \in [Proc -> SUBSET Msg]
    BY DEF TypeOK
  <2> DEFINE t == Tail(u)
  <2>1. /\ t \in Seq(Msg) /\ x \in Msg /\ Has(u, x)
        /\ \A m \in Msg : Has(t, m) => Has(u, m)
        /\ \A m \in Msg : Has(u, m) /\ x # m => Has(t, m)
        /\ \A m \in Msg : Single(u, m) => Single(t, m) /\ (x = m => ~Has(t, m))
    BY <1>6, <2>0, PoppedList
  <2>2. undelivered'[p] = t /\ \A q \in Proc \ {p} : undelivered'[q] = undelivered[q]
    BY <1>1, <1>6, <2>0
  <2>3. /\ \A q \in Proc, m \in Msg \ {x} : m \in delivered'[q] <=> m \in delivered[q]
        /\ \A q \in Proc \ {p} : delivered'[q] = delivered[q]
        /\ owes => x \in delivered'[p]
    BY <1>1, <2>0
  <2> HIDE DEF t, x, u
  <2>4. ASSUME NEW m \in Msg \ AlsoQueued PROVE PlaceOf(m)'
    <3>1. PlaceOf(m) /\ SentOnce(m)'
      BY <1>4 DEF Places
    <3>2. \A q \in Proc : Single(undelivered[q], m) /\ (Has(undelivered[q], m) => m \notin delivered[q])
      BY <3>1 DEF PlaceOf, InOne
    <3>3. Single(ptypeQueue, m)'
      BY <1>1, <3>1 DEF PlaceOf, InOne
    <3>4. CASE m # x
      <4>1. \A q \in Proc : /\ Has(undelivered'[q], m) <=> Has(undelivered[q], m)
                            /\ Single(undelivered'[q], m)
                            /\ m \in delivered'[q] <=> m \in delivered[q]
        BY <2>1, <2>2, <2>3, <3>2, <3>4 DEF u
      <4> QED
        BY <1>1, <1>2, <3>1, <3>3, <4>1, Bystander
    <3>5. CASE m = x
      <4>1. Listed(p, m) /\ handler[m] = p /\ state[m] \in {"SENT", "STARTED"}
        BY <2>1, <3>1, <3>5 DEF PlaceOf, Given, Listed, u
      <4>2. owes
        BY <1>6, <3>5, <4>1 DEF Processing, Final
      <4>3. \A q \in Proc : Single(undelivered'[q], m) /\ (Has(undelivered'[q], m) => m \notin delivered'[q])
        BY <2>1, <2>2, <2>3, <3>2, <3>5 DEF u
      <4>4. \A q \in Proc : Listed(q, m)' <=> Listed(q, m)
        BY <2>2, <2>3, <3>5, <4>1, <4>2 DEF Listed
      <4>5. Fresh(m)' /\ Ended(m)' /\ Given(m)' /\ Waits(m)' /\ Moving(m)'
        BY <1>1, <3>1, <4>4 DEF PlaceOf, Fresh, Ended, Given, Waits, Moving
      <4>6. Told(m)' /\ Somewhere(m)'
        BY <1>1, <1>2, <3>1, <4>4 DEF PlaceOf, Told, Somewhere, Apart
      <4>7. InOne(m)'
        BY <3>3, <4>3 DEF InOne
      <4> QED
        BY <3>1, <4>5, <4>6, <4>7 DEF PlaceOf
    <3> QED
      BY <3>4, <3>5
  <2> QED
    BY <1>3, <2>4 DEF Places
<1> QED
  BY <1>5, <1>6

-----------------------------------------------------------------------------
(* The server's own code. *)

\* A step of the server inside an RPC, by what it leaves on the stack.
LEMMA Stacked ==
    ASSUME Orderly, stack # << >>, pc' = pc, Shape(stack'), Walk',
           stack' # << >> => Head(stack').op # "started",
           queued' \subseteq AlsoQueued
    PROVE  Orderly'
BY DEF Orderly, Inside, Connected, Running

\* A request the step of the server is not about, and the list of nobody
\* changes for it.
LEMMA Spared ==
    ASSUME NEW m \in Msg, PlaceOf(m), rpc' = rpc,
           Apart(stack, m), Apart(stack', m),
           state'[m] = state[m], reported'[m] = reported[m], handler'[m] = handler[m],
           UNCHANGED <<undelivered, delivered, active>>,
           ptypeQueue' = ptypeQueue \/ ((Has(ptypeQueue', m) <=> Has(ptypeQueue, m)) /\ Single(ptypeQueue', m))
    PROVE  PlaceOf(m)'
<1>1. SentOnce(m)'
  BY CallsKept DEF PlaceOf
<1>2. Single(ptypeQueue, m)' /\ \A p \in Proc : Single(undelivered[p], m)'
  BY DEF PlaceOf, InOne
<1> QED
  BY <1>1, <1>2, Bystander

\* What is left when a delivery or a change of state is done.
LEMMA Delivered ==
    ASSUME TypeOK, Orderly, Running("deliver") \/ Running("change")
    PROVE  LET x == Head(stack).msg
               t == Tail(stack)
           IN /\ x \in Msg /\ t \in Seq(Frame) /\ Under(t) /\ Shape(t) /\ stack # << >>
              /\ ~Dying(stack) /\ ~Dying(t) /\ Work(stack) = stack
              /\ t # << >> => Head(t).op \in {"flushed", "requeue"} /\ Head(t).msg = x
              /\ \A m : (Moves(stack, m) <=> m = x) /\ ~Moves(t, m)
              /\ \A m : (Flushes(t, m) <=> Flushes(stack, m)) /\ (Flushes(stack, m) => m = x)
              /\ \A m : m # x => Apart(stack, m) /\ Apart(t, m)
<1>1. stack # << >> /\ Head(stack).op \in {"deliver", "change"} /\ Shape(stack)
  BY DEF Running, Orderly
<1>2. Head(stack) \in Frame /\ Tail(stack) \in Seq(Frame)
  BY RunningFrame
<1>3. Head(stack).msg \in Msg
  BY <1>1, <1>2, FramesRead
<1>4. ~Dying(stack) /\ Work(stack) = stack
  BY <1>1 DEF Dying, Work
<1> DEFINE x == Head(stack).msg
           t == Tail(stack)
<1>5. /\ Under(t) /\ (t # << >> => Head(t).op \in {"flushed", "requeue"} /\ Head(t).msg = x)
      /\ \A m : Moves(stack, m) <=> m = x
      /\ \A m : Flushes(stack, m) <=> Flushes(t, m)
      /\ \A m : Flushes(stack, m) => m = x
  BY <1>1, TopShape
<1>6. Shape(t) /\ ~Dying(t) /\ \A m : ~Moves(t, m)
  BY <1>5, UnderShape
<1> QED
  BY <1>1, <1>2, <1>3, <1>4, <1>5, <1>6 DEF Apart

\* A delivery or a change of state is done, and the walk is where it was.
LEMMA Popped ==
    ASSUME TypeOK, Orderly, Running("deliver") \/ Running("change"),
           stack' = Tail(stack), pc' = pc, queued' \subseteq AlsoQueued,
           ptypeQueue # << >> => ptypeQueue' # << >> /\ Head(ptypeQueue') = Head(ptypeQueue)
    PROVE  Orderly'
<1> DEFINE t == Tail(stack)
<1>1. /\ Shape(t) /\ stack # << >> /\ (t # << >> => Head(t).op \in {"flushed", "requeue"})
      /\ \A m : Flushes(t, m) <=> Flushes(stack, m)
  BY Delivered
<1> HIDE DEF t
<1>2. stack' = t
  BY DEF t
<1>3. Walk'
  BY <1>1, <1>2 DEF Walk, Orderly
<1>4. Shape(stack') /\ (stack' # << >> => Head(stack').op # "started")
  BY <1>1, <1>2
<1> QED
  BY <1>1, <1>3, <1>4, Stacked

\* The request that is delivered is with nobody, and it waits on the ptype only
\* if the walk has come to it.
LEMMA Delivering ==
    ASSUME TypeOK, Orderly, Places, Running("deliver") \/ Running("change"),
           Head(stack).msg \notin AlsoQueued
    PROVE  LET x == Head(stack).msg
           IN /\ x \in Msg /\ PlaceOf(x) /\ Moves(stack, x) /\ Head(Work(stack)) = Head(stack)
              /\ \A p \in Proc : ~Listed(p, x)
              /\ Has(ptypeQueue, x) <=> Flushes(stack, x)
              /\ Has(ptypeQueue, x) => "STARTED" \in reported[x]
<1> DEFINE x == Head(stack).msg
<1>1. x \in Msg /\ Moves(stack, x) /\ ~Dying(stack) /\ Head(Work(stack)) = Head(stack)
  BY Delivered
<1>2. PlaceOf(x)
  BY <1>1 DEF Places
<1>3. \A p \in Proc : ~Listed(p, x)
  BY <1>1, <1>2 DEF PlaceOf, Given
<1>4. Has(ptypeQueue, x) => Flushes(stack, x) /\ "STARTED" \in reported[x]
  BY <1>1, <1>2 DEF PlaceOf, Waits
<1>5. Flushes(stack, x) => Has(ptypeQueue, x)
  <2>1. ASSUME Flushes(stack, x) PROVE ptypeQueue # << >> /\ Head(ptypeQueue) = x
    BY <1>1, <2>1 DEF Orderly, Walk
  <2>2. ptypeQueue \in Seq(Msg)
    BY DEF TypeOK
  <2> QED
    BY <2>1, <2>2, PoppedList
<1> QED
  BY <1>1, <1>2, <1>3, <1>4, <1>5

\* A handler is found: the request is put in its list.
LEMMA DeliverToHandlerPlaces ==
    ASSUME TypeOK, Orderly, Places, DeliverToHandler
    PROVE  Orderly' /\ Places'
<1> USE DEF procVars, loopVars, ptypeVars, clientVars, msgVars
<1> DEFINE x == Head(stack).msg
           t == Tail(stack)
<1>0. Running("deliver")
  BY DEF DeliverToHandler
<1>1. PICK p \in Proc : /\ Willing(p, x) /\ handler' = [handler EXCEPT ![x] = p] /\ ret' = TRUE
                        /\ AddMessage(p, x, t, stack)
  BY DEF DeliverToHandler
<1>2. UNCHANGED <<rpc, pc, ptypeQueue, active, delivered, state, reported, queued>>
  BY DEF DeliverToHandler
<1>3. /\ x \in Msg /\ t \in Seq(Frame) /\ Under(t) /\ Shape(t) /\ stack # << >>
      /\ ~Dying(stack) /\ ~Dying(t) /\ Work(stack) = stack
      /\ t # << >> => Head(t).op \in {"flushed", "requeue"} /\ Head(t).msg = x
      /\ \A m : (Moves(stack, m) <=> m = x) /\ ~Moves(t, m)
      /\ \A m : (Flushes(t, m) <=> Flushes(stack, m)) /\ (Flushes(stack, m) => m = x)
      /\ \A m : m # x => Apart(stack, m) /\ Apart(t, m)
  BY <1>0, Delivered
<1>4. /\ \A q \in Proc, m \in Msg : m # x =>
            /\ Has(undelivered'[q], m) <=> Has(undelivered[q], m)
            /\ Single(undelivered[q], m) => Single(undelivered'[q], m)
      /\ \A q \in Proc \ {p} : undelivered'[q] = undelivered[q]
      /\ ~Has(undelivered[p], x) => Has(undelivered'[p], x) /\ Single(undelivered'[p], x)
      /\ stack' = t \/ stack' = <<Deactivate(p)>> \o stack
  BY ZenonT(40), <1>1, <1>3, AddMessageEffect
<1>5. Deactivate(p) \in Frame /\ Deactivate(p).op = "deactivate" /\ Deactivate(p).proc = p
  BY FramesMade DEF Deactivate
<1> DEFINE d == <<Deactivate(p)>> \o stack
<1>6. d # << >> /\ Head(d) = Deactivate(p) /\ Tail(d) = stack
  BY <1>5, PushOne DEF TypeOK
<1> HIDE DEF d
<1>7. Head(stack).op = "deliver" /\ Shape(stack)
  BY <1>0 DEF Running, Orderly
<1>8. Shape(d)
  BY <1>3, <1>5, <1>6, <1>7, ShapeOf
<1>9. \A m : (Moves(d, m) <=> Moves(stack, m)) /\ (Flushes(d, m) <=> Flushes(stack, m))
  BY <1>5, <1>6, <1>8, TopShape
<1>10. stack' = t \/ stack' = d
  BY <1>4 DEF d
<1> HIDE DEF x, t
<1>11. Shape(stack') /\ \A m : Flushes(stack', m) <=> Flushes(stack, m)
  BY <1>3, <1>8, <1>9, <1>10
<1>12. Orderly'
  <2>1. Walk'
    BY <1>2, <1>11 DEF Walk, Orderly
  <2>2. stack' # << >> => Head(stack').op # "started"
    BY <1>3, <1>5, <1>6, <1>10
  <2>3. queued' \subseteq AlsoQueued
    BY <1>2 DEF Orderly
  <2> QED
    BY <1>2, <1>3, <1>11, <2>1, <2>2, <2>3, Stacked
<1>13. ASSUME NEW m \in Msg \ AlsoQueued PROVE PlaceOf(m)'
  <2>0. PlaceOf(m)
    BY DEF Places
  <2>1. SentOnce(m)'
    BY <1>2, <2>0, CallsKept DEF PlaceOf
  <2>2. CASE m # x
    <3>1. Apart(stack, m) /\ Apart(stack, m)'
      BY <1>3, <1>9, <1>10, <2>2 DEF Apart
    <3>2. handler'[m] = handler[m]
      BY <1>1, <1>3, <2>2 DEF TypeOK
    <3>3. \A q \in Proc : Single(undelivered'[q], m) /\ (Has(undelivered'[q], m) <=> Has(undelivered[q], m))
      BY <1>4, <2>0, <2>2 DEF PlaceOf, InOne
    <3>4. Single(ptypeQueue, m)'
      BY <1>2, <2>0 DEF PlaceOf, InOne
    <3> QED
      BY <1>2, <2>0, <2>1, <3>1, <3>2, <3>3, <3>4, Bystander
  <2>3. CASE m = x
    <3>1. /\ Moves(stack, m) /\ Head(Work(stack)) = Head(stack)
          /\ \A q \in Proc : ~Listed(q, m)
          /\ Has(ptypeQueue, m) <=> Flushes(stack, m)
      BY <1>0, <2>3, Delivering DEF x
    <3>2. p \in active /\ state[m] = "SENT" /\ handler'[m] = p
      BY <1>1, <2>3 DEF Willing, TypeOK
    <3>3. /\ Has(undelivered'[p], m) /\ Single(undelivered'[p], m) /\ m \notin delivered'[p]
          /\ \A q \in Proc \ {p} : /\ undelivered'[q] = undelivered[q] /\ delivered'[q] = delivered[q]
      BY <1>2, <1>4, <2>3, <3>1 DEF Listed
    <3>4. Listed(p, m)' /\ \A q \in Proc : Listed(q, m)' => q = p
      BY <3>1, <3>3 DEF Listed
    <3>5. Moves(stack, m)' => stack' = d /\ Dying(stack') /\ Head(stack').proc = p /\ Work(stack') = stack
      BY <1>3, <1>5, <1>6, <1>10 DEF Dying, Work
    <3>6. Flushes(stack', m) <=> Flushes(stack, m)
      BY <1>11
    <3>7. Fresh(m)' /\ Ended(m)'
      BY <1>2, <2>0, <3>2 DEF PlaceOf, Fresh, Ended
    <3>8. InOne(m)'
      BY <1>2, <2>0, <3>3 DEF PlaceOf, InOne
    <3>9. Given(m)'
      BY <1>2, <3>1, <3>2, <3>4, <3>5, <3>6 DEF Given
    <3>10. Waits(m)'
      BY <1>2, <2>0, <3>1, <3>6 DEF PlaceOf, Waits
    <3>11. Moving(m)'
      BY <1>2, <2>0, <3>1, <3>5, <3>6, <1>7, <3>2 DEF PlaceOf, Moving
    <3>12. Told(m)'
      BY <1>1, <3>4 DEF Told
    <3>13. Somewhere(m)'
      BY <3>4 DEF Somewhere
    <3> QED
      BY <2>1, <3>7, <3>8, <3>9, <3>10, <3>11, <3>12, <3>13 DEF PlaceOf
  <2> QED
    BY <2>2, <2>3
<1> QED
  BY <1>12, <1>13 DEF Places

\* The requests that are not delivered, when a delivery is done.
LEMMA Aside ==
    ASSUME TypeOK, Orderly, Places, Running("deliver") \/ Running("change"),
           \A m : m # Head(stack).msg => Apart(stack', m),
           rpc' = rpc, UNCHANGED <<undelivered, delivered, active>>,
           NEW m \in Msg \ AlsoQueued, m # Head(stack).msg,
           state'[m] = state[m], reported'[m] = reported[m], handler'[m] = handler[m],
           ptypeQueue' = ptypeQueue \/ ((Has(ptypeQueue', m) <=> Has(ptypeQueue, m)) /\ Single(ptypeQueue', m))
    PROVE  PlaceOf(m)'
<1>1. PlaceOf(m)
  BY DEF Places
<1>2. Apart(stack, m)
  BY Delivered
<1> QED
  BY <1>1, <1>2, Spared

\* The delivery of a request ends without a handler: it has failed meanwhile,
\* or has been started before.
LEMMA NobodyPlaces ==
    ASSUME TypeOK, Orderly, Places, DeliverInVain \/ NotAgain
    PROVE  Orderly' /\ Places'
<1> USE DEF procVars, loopVars, ptypeVars, clientVars, msgVars
<1> DEFINE x == Head(stack).msg
           t == Tail(stack)
<1>0. Running("deliver")
  BY DEF DeliverInVain, NotAgain
<1>1. /\ stack' = t
      /\ UNCHANGED <<rpc, pc, ptypeQueue, active, delivered, undelivered, state, handler, reported, queued>>
      /\ \/ state[x] # "SENT" /\ ret' = TRUE
         \/ state[x] = "SENT" /\ "STARTED" \in reported[x] /\ ret' = FALSE
  BY DEF DeliverInVain, NotAgain
<1>2. /\ Head(stack).op = "deliver" /\ ~Dying(t)
      /\ \A m : ~Moves(t, m) /\ (Flushes(t, m) <=> Flushes(stack, m))
      /\ \A m : m # x => Apart(t, m)
  BY <1>0, Delivered DEF Running
<1>3. Orderly'
  BY <1>0, <1>1, Popped DEF Orderly
<1>4. ASSUME NEW m \in Msg \ AlsoQueued PROVE PlaceOf(m)'
  <2>1. CASE m # x
    BY <1>0, <1>1, <1>2, <2>1, Aside
  <2>2. CASE m = x
    <3>1. /\ PlaceOf(m) /\ Moves(stack, m) /\ Head(Work(stack)) = Head(stack)
          /\ \A q \in Proc : ~Listed(q, m)
          /\ Has(ptypeQueue, m) <=> Flushes(stack, m)
          /\ Has(ptypeQueue, m) => "STARTED" \in reported[m]
      BY <1>0, <2>2, Delivering
    <3> HIDE DEF x, t
    <3>2. ~Moves(stack', m) /\ (Flushes(stack', m) <=> Flushes(stack, m))
      BY <1>1, <1>2
    <3>3. \A q \in Proc : ~Listed(q, m)'
      BY <1>1, <3>1 DEF Listed
    <3>4. state[m] \in {"SENT"} \cup Final /\ (state[m] = "SENT" => "STARTED" \notin reported[m] \/ Flushes(stack, m))
      BY <1>2, <3>1 DEF PlaceOf, Moving
    <3>5. SentOnce(m)'
      BY <1>1, <3>1, CallsKept DEF PlaceOf
    <3>6. Fresh(m)' /\ Ended(m)' /\ InOne(m)' /\ Given(m)' /\ Moving(m)'
      BY <1>1, <3>1, <3>2, <3>3 DEF PlaceOf, Fresh, Ended, InOne, Given, Moving
    <3>7. Waits(m)'
      BY <1>1, <3>1, <3>2 DEF Waits
    <3>8. Told(m)' /\ Somewhere(m)'
      BY <1>1, <2>2, <3>1, <3>3, <3>4 DEF Told, Somewhere, Final
    <3> QED
      BY <3>5, <3>6, <3>7, <3>8 DEF PlaceOf
  <2> QED
    BY <2>1, <2>2
<1> QED
  BY <1>3, <1>4 DEF Places

\* A request that was not started waits on the ptype.
LEMMA StartPlaces ==
    ASSUME TypeOK, Orderly, Places, Start
    PROVE  Orderly' /\ Places'
<1> USE DEF procVars, loopVars, ptypeVars, clientVars, msgVars
<1> DEFINE x    == Head(stack).msg
           t    == Tail(stack)
           also == x \in AlsoQueued /\ "QUEUED" \notin reported[x]
           last == IF also THEN "QUEUED" ELSE "STARTED"
<1>0. Running("deliver")
  BY DEF Start
<1>1. /\ stack' = t /\ state[x] = "SENT" /\ "STARTED" \notin reported[x]
      /\ UNCHANGED <<pc, active, delivered, undelivered, handler>>
      /\ ptypeQueue' = Append(ptypeQueue, x)
      /\ reported' = [reported EXCEPT ![x] = @ \cup {"STARTED", last}]
      /\ state' = [state EXCEPT ![x] = last]
      /\ queued' = IF also THEN queued \cup {x} ELSE queued
  BY DEF Start
<1>2. rpc' = rpc
  BY DEF Start, Launch
<1>3. /\ x \in Msg /\ Head(stack).op = "deliver" /\ ~Dying(t)
      /\ \A m : ~Moves(t, m) /\ (Flushes(t, m) <=> Flushes(stack, m))
      /\ \A m : m # x => Apart(t, m)
  BY <1>0, Delivered DEF Running
<1>4. ptypeQueue \in Seq(Msg)
  BY DEF TypeOK
<1>5. /\ \A m \in Msg : Has(ptypeQueue', m) <=> Has(ptypeQueue, m) \/ x = m
      /\ \A m \in Msg : Single(ptypeQueue, m) /\ (m = x => ~Has(ptypeQueue, m)) => Single(ptypeQueue', m)
      /\ ptypeQueue' # << >> /\ (ptypeQueue # << >> => Head(ptypeQueue') = Head(ptypeQueue))
  BY <1>1, <1>3, <1>4, AppendedList
<1>6. queued' \subseteq AlsoQueued
  BY <1>1 DEF Orderly
<1>7. Orderly'
  BY <1>0, <1>1, <1>5, <1>6, Popped
<1>8. ASSUME NEW m \in Msg \ AlsoQueued PROVE PlaceOf(m)'
  <2>0. PlaceOf(m)
    BY DEF Places
  <2>1. CASE m # x
    <3>1. state'[m] = state[m] /\ reported'[m] = reported[m] /\ handler'[m] = handler[m]
      BY <1>1, <1>3, <2>1 DEF TypeOK
    <3>2. (Has(ptypeQueue', m) <=> Has(ptypeQueue, m)) /\ Single(ptypeQueue', m)
      BY <1>5, <2>0, <2>1 DEF PlaceOf, InOne
    <3> QED
      BY <1>0, <1>1, <1>2, <1>3, <2>1, <3>1, <3>2, Aside
  <2>2. CASE m = x
    <3>1. /\ PlaceOf(m) /\ \A q \in Proc : ~Listed(q, m)
          /\ Has(ptypeQueue, m) <=> Flushes(stack, m)
          /\ Has(ptypeQueue, m) => "STARTED" \in reported[m]
      BY <1>0, <2>2, Delivering
    <3>2. state'[m] = "STARTED" /\ reported'[m] = reported[m] \cup {"STARTED"}
      BY <1>1, <1>3, <2>2 DEF TypeOK
    <3>3. reported[m] \cap Final = {} /\ ~Has(ptypeQueue, m)
      BY <1>1, <2>0, <2>2, <3>1 DEF PlaceOf, Ended, Final
    <3>4. Has(ptypeQueue', m) /\ Single(ptypeQueue', m)
      BY <1>5, <2>0, <2>2, <3>3 DEF PlaceOf, InOne
    <3> HIDE DEF x, t, also, last
    <3>5. ~Moves(stack', m) /\ ~Flushes(stack', m)
      BY <1>1, <1>3, <3>1, <3>3
    <3>6. \A q \in Proc : ~Listed(q, m)'
      BY <1>1, <3>1 DEF Listed
    <3>7. SentOnce(m)'
      BY <1>1, <1>2, <2>0, <2>2, CallsKept DEF PlaceOf
    <3>8. Fresh(m)' /\ Ended(m)' /\ Given(m)' /\ Waits(m)' /\ Moving(m)' /\ Told(m)' /\ Somewhere(m)'
      BY <3>2, <3>3, <3>4, <3>5, <3>6 DEF Fresh, Ended, Given, Waits, Moving, Told, Somewhere, Final
    <3>9. InOne(m)'
      BY <1>1, <2>0, <3>4 DEF PlaceOf, InOne
    <3> QED
      BY <3>7, <3>8, <3>9 DEF PlaceOf
  <2> QED
    BY <2>1, <2>2
<1> QED
  BY <1>7, <1>8 DEF Places

\* A change of state is pushed or pulled above what a delivery leaves.
LEMMA Above ==
    ASSUME TypeOK, Orderly, Running("deliver") \/ Running("change"),
           NEW f \in Frame, f.op \in {"deliver", "change"}, f.msg = Head(stack).msg,
           stack' = <<f>> \o Tail(stack), pc' = pc, queued' \subseteq AlsoQueued,
           ptypeQueue' = ptypeQueue
    PROVE  /\ Orderly' /\ Head(Work(stack')) = f
           /\ \A m : (Moves(stack', m) <=> m = f.msg) /\ (Flushes(stack', m) <=> Flushes(stack, m))
           /\ \A m : m # f.msg => Apart(stack', m)
<1> DEFINE t == Tail(stack)
           s == <<f>> \o t
<1>1. /\ t \in Seq(Frame) /\ Under(t) /\ stack # << >>
      /\ t # << >> => Head(t).op \in {"flushed", "requeue"} /\ Head(t).msg = f.msg
      /\ \A m : Flushes(t, m) <=> Flushes(stack, m)
      /\ \A m : Flushes(stack, m) => m = f.msg
  BY Delivered
<1> HIDE DEF t
<1>2. s # << >> /\ Head(s) = f /\ Tail(s) = t
  BY <1>1, PushOne
<1>3. stack' = s
  BY DEF t
<1> HIDE DEF s
<1>4. Shape(s)
  BY <1>1, <1>2, ShapeOf
<1>5. \A m : (Moves(s, m) <=> m = f.msg) /\ (Flushes(s, m) <=> Flushes(stack, m))
  BY <1>1, <1>2, <1>4, TopShape
<1>6. Walk'
  BY <1>3, <1>5 DEF Walk, Orderly
<1>7. Orderly'
  BY <1>1, <1>2, <1>3, <1>4, <1>6, Stacked
<1>8. Head(Work(stack')) = f
  BY <1>2, <1>3 DEF Work, Dying
<1> QED
  BY <1>1, <1>3, <1>5, <1>7, <1>8 DEF Apart

\* No instance can be launched: the request is to fail.
LEMMA StartFailsPlaces ==
    ASSUME TypeOK, Orderly, Places, StartFails
    PROVE  Orderly' /\ Places'
<1> USE DEF procVars, loopVars, ptypeVars, clientVars, msgVars
<1> DEFINE x == Head(stack).msg
           f == Change(x, "FAILED")
<1>0. Running("deliver")
  BY DEF StartFails
<1>1. /\ stack' = <<f>> \o Tail(stack) /\ state[x] = "SENT" /\ ptypeQueue = << >>
      /\ UNCHANGED <<rpc, pc, ptypeQueue, active, delivered, undelivered, handler, state, queued>>
      /\ reported' = [reported EXCEPT ![x] = @ \cup {"STARTED"}]
  BY DEF StartFails, FirstInLine, LaunchFails
<1>2. x \in Msg
  BY <1>0, Delivered
<1>3. f \in Frame /\ f.op = "change" /\ f.msg = x /\ f.to = "FAILED"
  BY <1>2, FramesMade DEF Change, Final
<1> HIDE DEF f
<1>4. /\ Orderly' /\ Head(Work(stack')) = f
      /\ \A m : (Moves(stack', m) <=> m = x) /\ (Flushes(stack', m) <=> Flushes(stack, m))
      /\ \A m : m # x => Apart(stack', m)
  BY <1>0, <1>1, <1>3, Above DEF Orderly
<1>5. ASSUME NEW m \in Msg \ AlsoQueued PROVE PlaceOf(m)'
  <2>1. CASE m # x
    <3>1. reported'[m] = reported[m]
      BY <1>1, <1>2, <2>1 DEF TypeOK
    <3> QED
      BY <1>0, <1>1, <1>4, <2>1, <3>1, Aside
  <2>2. CASE m = x
    <3>1. /\ PlaceOf(m) /\ \A q \in Proc : ~Listed(q, m)
          /\ Has(ptypeQueue, m) <=> Flushes(stack, m)
      BY <1>0, <2>2, Delivering
    <3>2. reported'[m] = reported[m] \cup {"STARTED"}
      BY <1>1, <1>2, <2>2 DEF TypeOK
    <3> HIDE DEF x
    <3>3. reported[m] \cap Final = {}
      BY <1>1, <2>2, <3>1 DEF PlaceOf, Ended, Final
    <3>4. ~Has(ptypeQueue', m)
      BY <1>1 DEF Has
    <3>5. Moves(stack', m) /\ ~Flushes(stack', m)
      BY <1>1, <1>4, <2>2, <3>1, <3>4
    <3>6. \A q \in Proc : ~Listed(q, m)'
      BY <1>1, <3>1 DEF Listed
    <3>7. SentOnce(m)'
      BY <1>1, <3>1, CallsKept DEF PlaceOf
    <3>8. Fresh(m)' /\ Ended(m)' /\ Given(m)' /\ Waits(m)' /\ Told(m)' /\ Somewhere(m)'
      BY <1>1, <2>2, <3>2, <3>3, <3>4, <3>5, <3>6 DEF Fresh, Ended, Given, Waits, Told, Somewhere, Final
    <3>9. Moving(m)'
      BY <1>1, <1>3, <1>4, <2>2, <3>4 DEF Moving
    <3>10. InOne(m)'
      BY <1>1, <3>1 DEF PlaceOf, InOne
    <3> QED
      BY <3>7, <3>8, <3>9, <3>10 DEF PlaceOf
  <2> QED
    BY <2>1, <2>2
<1> QED
  BY <1>4, <1>5 DEF Places

\* A request enters a final state, which it does once.
LEMMA ChangeFinalPlaces ==
    ASSUME TypeOK, Orderly, Places, ChangeFinal
    PROVE  Orderly' /\ Places'
<1> USE DEF procVars, loopVars, ptypeVars, clientVars, msgVars
<1> DEFINE x == Head(stack).msg
           t == Tail(stack)
           s == Head(stack).to
<1>0. Running("change")
  BY DEF ChangeFinal
<1>1. /\ stack' = t /\ s \in Final
      /\ UNCHANGED <<rpc, pc, ptypeQueue, active, delivered, undelivered, handler, queued>>
      /\ IF s \in reported[x] THEN UNCHANGED <<state, reported>>
         ELSE /\ state' = [state EXCEPT ![x] = s]
              /\ reported' = [reported EXCEPT ![x] = @ \cup {s}]
  BY DEF ChangeFinal
<1>2. /\ x \in Msg /\ Head(stack).op = "change" /\ ~Dying(t)
      /\ \A m : ~Moves(t, m) /\ (Flushes(t, m) <=> Flushes(stack, m))
      /\ \A m : m # x => Apart(t, m)
  BY <1>0, Delivered DEF Running
<1>3. Orderly'
  BY <1>0, <1>1, Popped DEF Orderly
<1>4. ASSUME NEW m \in Msg \ AlsoQueued PROVE PlaceOf(m)'
  <2>1. CASE m # x
    <3>1. state'[m] = state[m] /\ reported'[m] = reported[m]
      BY <1>1, <1>2, <2>1 DEF TypeOK
    <3> QED
      BY <1>0, <1>1, <1>2, <2>1, <3>1, Aside
  <2>2. CASE m = x
    <3>1. /\ PlaceOf(m) /\ Moves(stack, m) /\ Head(Work(stack)) = Head(stack)
          /\ \A q \in Proc : ~Listed(q, m)
          /\ Has(ptypeQueue, m) <=> Flushes(stack, m)
      BY <1>0, <2>2, Delivering
    <3>2. state[m] \in {"SENT", "STARTED"} /\ ~Has(ptypeQueue, m)
      BY <1>2, <3>1 DEF PlaceOf, Moving
    <3>3. s \notin reported[m]
      BY <1>1, <3>1, <3>2 DEF PlaceOf, Ended, Final
    <3>4. state'[m] = s
      BY <1>1, <1>2, <2>2, <3>3 DEF TypeOK
    <3> HIDE DEF x, t, s
    <3>5. ~Moves(stack', m) /\ ~Flushes(stack', m) /\ ~Has(ptypeQueue', m)
      BY <1>1, <1>2, <3>1, <3>2
    <3>6. \A q \in Proc : ~Listed(q, m)'
      BY <1>1, <3>1 DEF Listed
    <3>7. SentOnce(m)'
      BY <1>1, <3>1, <3>2, CallsKept DEF PlaceOf
    <3>8. Fresh(m)' /\ Ended(m)' /\ Given(m)' /\ Waits(m)' /\ Moving(m)' /\ Told(m)' /\ Somewhere(m)'
      BY <1>1, <3>4, <3>5, <3>6 DEF Fresh, Ended, Given, Waits, Moving, Told, Somewhere, Final
    <3>9. InOne(m)'
      BY <1>1, <3>1 DEF PlaceOf, InOne
    <3> QED
      BY <3>7, <3>8, <3>9 DEF PlaceOf
  <2> QED
    BY <2>1, <2>2
<1> QED
  BY <1>3, <1>4 DEF Places

\* A rejected request seeks another handler.
LEMMA ChangeRejectedPlaces ==
    ASSUME TypeOK, Orderly, Places, ChangeRejected
    PROVE  Orderly' /\ Places'
<1> USE DEF procVars, loopVars, ptypeVars, clientVars, msgVars
<1> DEFINE x == Head(stack).msg
           f == Deliver(x)
<1>0. Running("change")
  BY DEF ChangeRejected
<1>1. /\ stack' = <<f>> \o Tail(stack) /\ Head(stack).to = "REJECTED"
      /\ UNCHANGED <<rpc, pc, ptypeQueue, active, delivered, undelivered, queued>>
      /\ IF handler[x] = NoProc THEN UNCHANGED reported
         ELSE reported' = [reported EXCEPT ![x] = @ \ {"STARTED"}]
      /\ handler' = [handler EXCEPT ![x] = NoProc]
      /\ state' = [state EXCEPT ![x] = "SENT"]
  BY DEF ChangeRejected, SoughtAgain, ForgetStarted
<1>2. x \in Msg /\ Head(stack).op = "change"
  BY <1>0, Delivered DEF Running
<1>3. f \in Frame /\ f.op = "deliver" /\ f.msg = x
  BY <1>2, FramesMade DEF Deliver
<1> HIDE DEF f
<1>4. /\ Orderly' /\ Head(Work(stack')) = f
      /\ \A m : (Moves(stack', m) <=> m = x) /\ (Flushes(stack', m) <=> Flushes(stack, m))
      /\ \A m : m # x => Apart(stack', m)
  BY <1>0, <1>1, <1>3, Above DEF Orderly
<1>5. ASSUME NEW m \in Msg \ AlsoQueued PROVE PlaceOf(m)'
  <2>1. CASE m # x
    <3>1. reported'[m] = reported[m] /\ state'[m] = state[m] /\ handler'[m] = handler[m]
      BY <1>1, <1>2, <2>1 DEF TypeOK
    <3> QED
      BY <1>0, <1>1, <1>4, <2>1, <3>1, Aside
  <2>2. CASE m = x
    <3>1. /\ PlaceOf(m) /\ Moves(stack, m) /\ Head(Work(stack)) = Head(stack)
          /\ \A q \in Proc : ~Listed(q, m)
          /\ Has(ptypeQueue, m) <=> Flushes(stack, m)
      BY <1>0, <2>2, Delivering
    <3>2. state[m] \in {"SENT", "STARTED"} /\ ~Has(ptypeQueue, m) /\ handler[m] # NoProc
      BY <1>1, <1>2, <3>1 DEF PlaceOf, Moving
    <3>3. state'[m] = "SENT" /\ reported'[m] = reported[m] \ {"STARTED"}
      BY <1>1, <1>2, <2>2, <3>2 DEF TypeOK
    <3>4. reported[m] \cap Final = {}
      BY <3>1, <3>2 DEF PlaceOf, Ended, Final
    <3> HIDE DEF x
    <3>5. Moves(stack', m) /\ ~Flushes(stack', m) /\ ~Has(ptypeQueue', m)
      BY <1>1, <1>4, <2>2, <3>1, <3>2
    <3>6. \A q \in Proc : ~Listed(q, m)'
      BY <1>1, <3>1 DEF Listed
    <3>7. SentOnce(m)'
      BY <1>1, <3>1, <3>2, CallsKept DEF PlaceOf
    <3>8. Fresh(m)' /\ Ended(m)' /\ Given(m)' /\ Waits(m)' /\ Told(m)' /\ Somewhere(m)'
      BY <3>3, <3>4, <3>5, <3>6 DEF Fresh, Ended, Given, Waits, Told, Somewhere, Final
    <3>9. Moving(m)'
      BY <1>3, <1>4, <3>3 DEF Moving
    <3>10. InOne(m)'
      BY <1>1, <3>1 DEF PlaceOf, InOne
    <3> QED
      BY <3>7, <3>8, <3>9, <3>10 DEF PlaceOf
  <2> QED
    BY <2>1, <2>2
<1> QED
  BY <1>4, <1>5 DEF Places

\* A client is given up: what it owes fails.
LEMMA DeactivatePlaces ==
    ASSUME TypeOK, Orderly, Places, RunDeactivate
    PROVE  Orderly' /\ Places'
<1> USE DEF procVars, loopVars, ptypeVars, clientVars, msgVars
<1> DEFINE t == Tail(stack)
<1>00. Running("deactivate") /\ Head(stack).proc \in Proc /\ t \in Seq(Frame)
  BY RunningFrame, FramesRead DEF RunDeactivate
<1>01. PICK p \in Proc : p = Head(stack).proc
  BY <1>00
<1>0. Running("deactivate") /\ p \in Proc /\ t \in Seq(Frame)
  BY <1>00
<1>1. /\ stack' = t
      /\ UNCHANGED <<rpc, pc, ptypeQueue, handler, queued, ret>>
      /\ p \in active =>
           /\ FailAll(OwedBy(p))
           /\ undelivered' = [undelivered EXCEPT ![p] = << >>]
           /\ delivered' = [delivered EXCEPT ![p] = {}]
           /\ active' = active \ {p}
      /\ p \notin active => UNCHANGED <<state, reported, undelivered, delivered, active>>
  BY <1>01 DEF RunDeactivate
<1>2. /\ Dying(stack) /\ Head(stack).proc = p /\ stack # << >> /\ Shape(stack)
      /\ Shape(t) /\ ~Dying(t) /\ (t # << >> => Head(t).op \in {"deliver", "failqueue"})
      /\ \A m : (Moves(stack, m) <=> Moves(t, m)) /\ (Flushes(stack, m) <=> Flushes(t, m))
      /\ Work(stack) = t /\ Work(t) = t
  <2>1. stack # << >> /\ Head(stack).op = "deactivate" /\ Shape(stack)
    BY <1>0 DEF Running, Orderly
  <2>2. /\ Shape(t) /\ ~Dying(t) /\ (t # << >> => Head(t).op \in {"deliver", "failqueue"})
        /\ \A m : (Moves(stack, m) <=> Moves(t, m)) /\ (Flushes(stack, m) <=> Flushes(t, m))
    BY <2>1, TopShape
  <2>3. Dying(stack)
    BY <2>1 DEF Dying
  <2>4. Work(stack) = t /\ Work(t) = t
    BY <2>2, <2>3 DEF Work
  <2> QED
    BY <1>01, <2>1, <2>2, <2>3, <2>4
<1>3. \A m : Flushes(t, m) => Moves(t, m)
  <2>1. ASSUME NEW m, Flushes(t, m) PROVE Moves(t, m)
    <3>1. t # << >>
      BY <2>1, NoShape DEF Apart
    <3>2. CASE Head(t).op = "deliver"
      BY <1>2, <2>1, <3>1, <3>2, TopShape
    <3>3. CASE Head(t).op = "failqueue"
      BY <1>2, <2>1, <3>1, <3>3, TopShape DEF Apart
    <3> QED
      BY <1>2, <3>1, <3>2, <3>3
  <2> QED
    BY <2>1
<1> HIDE DEF t
<1>4. Orderly'
  <2>1. Walk'
    BY <1>1, <1>2 DEF Walk, Orderly
  <2>2. stack' # << >> => Head(stack').op # "started"
    BY <1>1, <1>2
  <2>3. queued' \subseteq AlsoQueued
    BY <1>1 DEF Orderly
  <2> QED
    BY <1>1, <1>2, <2>1, <2>2, <2>3, Stacked
<1>5. ASSUME NEW m \in Msg \ AlsoQueued PROVE PlaceOf(m)'
  <2>0. PlaceOf(m)
    BY DEF Places
  <2>1. \A q \in Proc : Listed(q, m) =>
           /\ handler[m] = q /\ q \in active /\ state[m] \in {"SENT", "STARTED"}
           /\ (Moves(stack, m) => p = q)
           /\ (Has(ptypeQueue, m) => Flushes(stack, m))
    BY <1>2, <2>0 DEF PlaceOf, Given
  <2>2. CASE Listed(p, m)
    <3>1. p \in active /\ handler[m] = p /\ state[m] \in {"SENT", "STARTED"}
      BY <1>0, <2>1, <2>2
    <3>2. m \in OwedBy(p)
      <4>1. CASE m \in delivered[p]
        BY <4>1 DEF OwedBy
      <4>2. CASE Has(undelivered[p], m)
        <5>1. undelivered[p] \in Seq(Msg)
          BY <1>0 DEF TypeOK
        <5>2. m \in ToSet(undelivered[p])
          BY <4>2, <5>1, LenProperties DEF ToSet, Has
        <5>3. Processing(p, m)
          BY <3>1 DEF Processing, Final
        <5> QED
          BY <5>2, <5>3 DEF OwedBy
      <4> QED
        BY <2>2, <4>1, <4>2 DEF Listed
    <3>3. "FAILED" \notin reported[m]
      BY <2>0, <3>1 DEF PlaceOf, Ended, Final
    <3>4. state'[m] = "FAILED" /\ reported'[m] = reported[m] \cup {"FAILED"}
      BY <1>1, <3>1, <3>2, <3>3 DEF FailAll
    <3>5. \A q \in Proc : ~Listed(q, m)'
      <4>1. undelivered'[p] = << >> /\ delivered'[p] = {}
        BY <1>0, <1>1, <3>1 DEF TypeOK
      <4>2. ~Listed(p, m)'
        BY <4>1 DEF Listed, Has
      <4>3. ASSUME NEW q \in Proc, q # p PROVE ~Listed(q, m)'
        <5>1. ~Listed(q, m)
          BY <2>1, <3>1, <4>3
        <5>2. undelivered'[q] = undelivered[q] /\ delivered'[q] = delivered[q]
          BY <1>0, <1>1, <3>1, <4>3 DEF TypeOK
        <5> QED
          BY <5>1, <5>2 DEF Listed
      <4> QED
        BY <4>2, <4>3
    <3>6. \A q \in Proc : Single(undelivered'[q], m) /\ (Has(undelivered'[q], m) => m \notin delivered'[q])
      <4>1. undelivered'[p] = << >> /\ \A q \in Proc \ {p} : undelivered'[q] = undelivered[q]
        BY <1>0, <1>1, <3>1 DEF TypeOK
      <4>2. \A q \in Proc : Single(undelivered'[q], m)
        BY <2>0, <4>1 DEF PlaceOf, InOne, Single
      <4> QED
        BY <3>5, <4>2 DEF Listed
    <3>7. SentOnce(m)'
      BY <1>1, <2>0, <3>1, CallsKept DEF PlaceOf
    <3>8. (Moves(stack', m) <=> Moves(stack, m)) /\ (Flushes(stack', m) <=> Flushes(stack, m))
      BY <1>1, <1>2
    <3>9. InOne(m)'
      BY <1>1, <2>0, <3>6 DEF PlaceOf, InOne
    <3>10. Fresh(m)' /\ Ended(m)' /\ Given(m)' /\ Somewhere(m)'
      BY <3>4, <3>5 DEF Fresh, Ended, Given, Somewhere, Final
    <3>11. Waits(m)'
      BY <1>1, <2>0, <2>1, <2>2, <1>0, <3>4, <3>8 DEF PlaceOf, Waits
    <3>12. Moving(m)'
      <4>1. Moves(stack', m) => t # << >> /\ Head(t).op # "change"
        BY <1>1, <1>2 DEF Moves, Delivers
      <4>2. Work(stack') = t
        BY <1>1, <1>2
      <4> QED
        BY <1>2, <2>0, <3>4, <3>8, <4>1, <4>2 DEF PlaceOf, Moving, Final
    <3>13. Told(m)'
      BY <1>1, <1>2, <1>3 DEF Told
    <3> QED
      BY <3>7, <3>9, <3>10, <3>11, <3>12, <3>13 DEF PlaceOf
  <2>3. CASE ~Listed(p, m)
    <3>1. m \notin OwedBy(p)
      <4>1. undelivered[p] \in Seq(Msg)
        BY <1>0 DEF TypeOK
      <4>2. m \in ToSet(undelivered[p]) => Has(undelivered[p], m)
        BY <4>1, LenProperties DEF ToSet, Has
      <4> QED
        BY <2>3, <4>2 DEF OwedBy, Listed
    <3>2. state'[m] = state[m] /\ reported'[m] = reported[m]
      BY <1>1, <3>1 DEF FailAll
    <3>3. \A q \in Proc : /\ q # p => undelivered'[q] = undelivered[q] /\ delivered'[q] = delivered[q]
                          /\ q # p /\ q \in active => q \in active'
      BY <1>0, <1>1 DEF TypeOK
    <3>4. Single(undelivered'[p], m) /\ ~Listed(p, m)'
      <4>1. CASE p \in active
        <5>1. undelivered'[p] = << >> /\ delivered'[p] = {}
          BY <1>0, <1>1, <4>1 DEF TypeOK
        <5> QED
          BY <5>1 DEF Single, Listed, Has
      <4>2. CASE p \notin active
        <5>1. undelivered'[p] = undelivered[p] /\ delivered'[p] = delivered[p]
          BY <1>1, <4>2
        <5> QED
          BY <1>0, <2>0, <2>3, <5>1 DEF PlaceOf, InOne, Listed
      <4> QED
        BY <4>1, <4>2
    <3>5. \A q \in Proc : Listed(q, m)' <=> Listed(q, m)
      BY <2>3, <3>3, <3>4 DEF Listed
    <3>6. (Moves(stack', m) <=> Moves(stack, m)) /\ (Flushes(stack', m) <=> Flushes(stack, m))
          /\ Work(stack') = Work(stack)
      BY <1>1, <1>2
    <3>7. SentOnce(m)'
      BY <1>1, <2>0, <3>2, CallsKept DEF PlaceOf
    <3>8. InOne(m)'
      <4>1. \A q \in Proc : Single(undelivered'[q], m) /\ (Has(undelivered'[q], m) => m \notin delivered'[q])
        BY <2>0, <3>3, <3>4 DEF PlaceOf, InOne, Listed
      <4> QED
        BY <1>1, <2>0, <4>1 DEF PlaceOf, InOne
    <3>9. Fresh(m)' /\ Ended(m)' /\ Somewhere(m)'
      BY <1>1, <2>0, <3>2, <3>5, <3>6 DEF PlaceOf, Fresh, Ended, Somewhere
    <3>10. Given(m)'
      <4>1. \A q \in Proc : Listed(q, m) => q # p /\ ~Moves(stack, m) /\ q \in active'
        BY <2>1, <2>3, <3>3
      <4> QED
        BY <1>1, <2>1, <3>2, <3>5, <3>6, <4>1 DEF Given
    <3>11. Waits(m)' /\ Moving(m)'
      BY <1>1, <2>0, <3>2, <3>6 DEF PlaceOf, Waits, Moving
    <3>12. Told(m)'
      BY <1>1, <1>2, <1>3 DEF Told
    <3> QED
      BY <3>7, <3>8, <3>9, <3>10, <3>11, <3>12 DEF PlaceOf
  <2> QED
    BY <2>2, <2>3
<1> QED
  BY <1>4, <1>5 DEF Places

\* A step that leaves the requests and lists alone, above what was there.
LEMMA Idles ==
    ASSUME TypeOK, Orderly, Places, \A m \in Msg : Apart(stack, m) /\ Apart(stack', m),
           rpc' = rpc, UNCHANGED <<ptypeQueue, undelivered, delivered, active, handler, reported>>,
           \A m \in Msg \ AlsoQueued : state'[m] = state[m]
    PROVE  Places'
BY Spared DEF Places

\* Only who owes an update changes a request.
LEMMA UpdatePlaces ==
    ASSUME TypeOK, Orderly, Places, RunUpdate
    PROVE  Orderly' /\ Places'
<1> USE DEF procVars, loopVars, ptypeVars, clientVars, msgVars
<1> DEFINE p == Head(stack).proc
           x == Head(stack).msg
           f == Change(x, Head(stack).to)
<1>0. Running("update") /\ Head(stack) \in Frame /\ Head(stack).op = "update"
  BY RunningFrame DEF RunUpdate
<1>1. p \in Proc /\ x \in Msg /\ Head(stack).to \in {"REJECTED"} \cup Final
  BY <1>0, FramesRead
<1>2. stack # << >> /\ Tail(stack) = << >> /\ (\A m : Apart(stack, m)) /\ ~Dying(stack)
  BY <1>0, TopShape DEF Orderly, Running, Dying
<1>3. /\ UNCHANGED <<rpc, pc, ptypeQueue, handler, queued, ret, state, reported, undelivered, active>>
      /\ IF x \in delivered[p]
         THEN delivered' = [delivered EXCEPT ![p] = @ \ {x}] /\ stack' = <<f>> \o << >>
         ELSE delivered' = delivered /\ stack' = << >>
  BY <1>2 DEF RunUpdate
<1>4. f \in Frame /\ f.op = "change" /\ f.msg = x
  BY <1>1, FramesMade DEF Change
<1> HIDE DEF f
<1>5. CASE x \notin delivered[p]
  <2>1. stack' = << >> /\ Walk' /\ queued' \subseteq AlsoQueued
    BY <1>3, <1>5, NoShape DEF Walk, Apart, Orderly
  <2>2. Orderly'
    BY <1>2, <1>3, <2>1, NoShape, Stacked
  <2>3. Places'
    BY <1>2, <1>3, <1>5, <2>1, NoShape, Idles
  <2> QED
    BY <2>2, <2>3
<1>6. CASE x \in delivered[p]
  <2> DEFINE s == <<f>> \o << >>
  <2>1. s # << >> /\ Head(s) = f /\ Tail(s) = << >>
    BY <1>4, NoMsg, PushOne, Push
  <2> HIDE DEF s
  <2>2. stack' = s /\ delivered' = [delivered EXCEPT ![p] = @ \ {x}]
    BY <1>3, <1>6 DEF s
  <2>3. Shape(s)
    BY <1>4, <2>1, ShapeOf, NoShape
  <2>4. \A m : (Moves(s, m) <=> m = x) /\ ~Flushes(s, m)
    BY <1>4, <2>1, <2>3, TopShape, NoShape DEF Apart
  <2>5. Work(s) = s
    BY <1>4, <2>1 DEF Work, Dying
  <2>6. Walk' /\ (stack' # << >> => Head(stack').op # "started") /\ queued' \subseteq AlsoQueued
    BY <1>3, <1>4, <2>1, <2>2, <2>4 DEF Walk, Orderly
  <2>7. Orderly'
    BY <1>2, <1>3, <2>2, <2>3, <2>6, Stacked
  <2>8. ASSUME NEW m \in Msg \ AlsoQueued PROVE PlaceOf(m)'
    <3>0. PlaceOf(m) /\ Apart(stack, m)
      BY <1>2 DEF Places
    <3>1. SentOnce(m)'
      BY <1>3, <3>0, CallsKept DEF PlaceOf
    <3>2. CASE m # x
      <4>1. \A q \in Proc : m \in delivered'[q] <=> m \in delivered[q]
        BY <1>1, <2>2, <3>2 DEF TypeOK
      <4>2. Apart(stack, m)'
        BY <2>2, <2>4, <3>2 DEF Apart
      <4>3. Single(ptypeQueue, m)' /\ \A q \in Proc : Single(undelivered'[q], m)
        BY <1>3, <3>0 DEF PlaceOf, InOne
      <4> QED
        BY <1>3, <3>0, <3>1, <4>1, <4>2, <4>3, Bystander
    <3>3. CASE m = x
      <4>1. Listed(p, m) /\ ~Has(undelivered[p], m)
        BY <1>1, <1>6, <3>0, <3>3 DEF Listed, PlaceOf, InOne
      <4>2. /\ handler[m] = p /\ state[m] \in {"SENT", "STARTED"} /\ ~Has(ptypeQueue, m)
            /\ \A q \in Proc : Listed(q, m) => q = p
        BY <1>1, <3>0, <4>1 DEF PlaceOf, Given, Apart
      <4>3. \A q \in Proc : ~Listed(q, m)'
        <5>1. m \notin delivered'[p] /\ \A q \in Proc \ {p} : delivered'[q] = delivered[q]
          BY <1>1, <2>2, <3>3 DEF TypeOK
        <5> QED
          BY <1>3, <4>1, <4>2, <5>1 DEF Listed
      <4>4. handler[m] # NoProc /\ reported[m] \cap Final = {}
        BY <1>1, <3>0, <4>2, PtypeAssumption DEF Proc, PlaceOf, Ended, Final
      <4>5. Moves(stack', m) /\ ~Flushes(stack', m) /\ Head(Work(stack')) = f
        BY <2>1, <2>2, <2>4, <2>5, <3>3
      <4>6. InOne(m)'
        <5>1. \A q \in Proc : Single(undelivered'[q], m) /\ m \notin delivered'[q]
          BY <1>3, <3>0, <4>3 DEF PlaceOf, InOne, Listed
        <5> QED
          BY <1>3, <3>0, <5>1 DEF PlaceOf, InOne
      <4>7. Fresh(m)' /\ Ended(m)' /\ Given(m)' /\ Waits(m)' /\ Told(m)' /\ Somewhere(m)'
        BY <1>3, <4>2, <4>3, <4>4, <4>5 DEF Fresh, Ended, Given, Waits, Told, Somewhere
      <4>8. Moving(m)'
        BY <1>3, <1>4, <4>2, <4>4, <4>5 DEF Moving
      <4> QED
        BY <3>1, <4>6, <4>7, <4>8 DEF PlaceOf
    <3> QED
      BY <3>2, <3>3
  <2> QED
    BY <2>7, <2>8 DEF Places
<1> QED
  BY <1>5, <1>6

\* A step that changes neither requests nor lists, and is about no request
\* before or after.
LEMMA IdlesOn ==
    ASSUME TypeOK, Orderly, Places, stack # << >>,
           \A m : Apart(stack, m), \A m : Apart(stack', m), Shape(stack'),
           stack' # << >> => Head(stack').op # "started",
           UNCHANGED <<rpc, pc, ptypeQueue, undelivered, delivered, active, handler, reported>>,
           queued' \subseteq AlsoQueued,
           \A m \in Msg \ AlsoQueued : state'[m] = state[m]
    PROVE  Orderly' /\ Places'
<1>1. Walk'
  BY DEF Walk, Apart
<1>2. Orderly'
  BY <1>1, Stacked
<1>3. Places'
  BY Idles
<1> QED
  BY <1>2, <1>3

\* What an RPC leaves to be done starts nobody.
LEMMA EndsOn ==
    ASSUME NEW s, Ends(s)
    PROVE  Shape(s) /\ (s # << >> => Head(s).op # "started") /\ \A m : Apart(s, m)
BY UnderShape DEF Under, Ends

\* The process that has connected is given the request that waits longest.
LEMMA StartedPlaces ==
    ASSUME TypeOK, Orderly, Places, RunStarted
    PROVE  Orderly' /\ Places'
<1> USE DEF procVars, loopVars, ptypeVars, clientVars, msgVars
<1>00. Running("started") /\ Head(stack).proc \in Proc
  BY RunningFrame, FramesRead DEF RunStarted
<1>01. PICK p \in Proc : p = Head(stack).proc
  BY <1>00
<1>1. Running("started") /\ p \in active /\ stack # << >> /\ Tail(stack) = << >> /\ \A m : Apart(stack, m)
  <2>1. p \in active
    BY <1>00, <1>01 DEF Orderly, Connected
  <2>2. Shape(stack) /\ stack # << >> /\ Head(stack).op = "started"
    BY <1>00 DEF Running, Orderly
  <2>3. Tail(stack) = << >> /\ \A m : Apart(stack, m)
    BY <2>2, TopShape
  <2> QED
    BY <1>00, <2>1, <2>2, <2>3
<1>2. UNCHANGED <<rpc, pc, active, delivered, state, reported, queued, ret>>
  BY DEF RunStarted
<1>3. CASE ptypeQueue = << >>
  <2>1. stack' = << >> /\ UNCHANGED <<ptypeQueue, handler, undelivered>>
    BY <1>1, <1>3 DEF RunStarted
  <2> QED
    BY <1>1, <1>2, <2>1, NoShape, IdlesOn DEF Orderly
<1>4. CASE ptypeQueue # << >>
  <2>1. PICK x \in Msg : x = Head(ptypeQueue)
    BY <1>4, PoppedList DEF TypeOK
  <2>2. /\ ptypeQueue' = Tail(ptypeQueue) /\ handler' = [handler EXCEPT ![x] = p]
        /\ AddMessage(p, x, << >>, <<FailQueue>> \o << >>)
    BY <1>01, <1>1, <1>4, <2>1 DEF RunStarted, Dequeue
  <2>3. /\ Has(ptypeQueue, x)
        /\ \A m \in Msg : Has(ptypeQueue', m) => Has(ptypeQueue, m)
        /\ \A m \in Msg : Has(ptypeQueue, m) /\ x # m => Has(ptypeQueue', m)
        /\ \A m \in Msg : Single(ptypeQueue, m) => Single(ptypeQueue', m) /\ (x = m => ~Has(ptypeQueue', m))
    BY <1>4, <2>1, <2>2, PoppedList DEF TypeOK
  <2>4. /\ \A q \in Proc, m \in Msg : m # x =>
              /\ Has(undelivered'[q], m) <=> Has(undelivered[q], m)
              /\ Single(undelivered[q], m) => Single(undelivered'[q], m)
        /\ \A q \in Proc \ {p} : undelivered'[q] = undelivered[q]
        /\ ~Has(undelivered[p], x) => Has(undelivered'[p], x) /\ Single(undelivered'[p], x)
        /\ stack' = << >> \/ stack' = <<Deactivate(p)>> \o (<<FailQueue>> \o << >>)
    BY <2>2, AddMessageEffect
  <2>5. Shape(stack') /\ (stack' # << >> => Head(stack').op # "started") /\ \A m : Apart(stack', m)
    <3>1. CASE stack' = << >>
      BY <3>1, NoShape
    <3>2. CASE stack' = <<Deactivate(p)>> \o (<<FailQueue>> \o << >>)
      <4> DEFINE t == <<FailQueue>> \o << >>
                 s == <<Deactivate(p)>> \o t
      <4>1. /\ FailQueue \in Frame /\ FailQueue.op = "failqueue"
            /\ Deactivate(p) \in Frame /\ Deactivate(p).op = "deactivate"
        BY FramesMade DEF Deactivate, FailQueue
      <4>2. t \in Seq(Frame) /\ t # << >> /\ Head(t) = FailQueue /\ Tail(t) = << >>
        BY <4>1, PushOne, Push
      <4> HIDE DEF t
      <4>3. s # << >> /\ Head(s) = Deactivate(p) /\ Tail(s) = t
        BY <4>1, <4>2, PushOne
      <4>4. stack' = s
        BY <3>2 DEF t
      <4> HIDE DEF s
      <4>5. Shape(t)
        BY <4>1, <4>2, ShapeOf
      <4>6. \A m : Apart(t, m)
        BY <4>1, <4>2, <4>5, TopShape
      <4>7. Shape(s)
        BY <4>1, <4>2, <4>3, <4>5, ShapeOf
      <4>8. \A m : Apart(s, m)
        BY <4>1, <4>3, <4>6, <4>7, TopShape DEF Apart
      <4> QED
        BY <4>1, <4>3, <4>4, <4>7, <4>8
    <3> QED
      BY <2>4, <3>1, <3>2
  <2>6. Orderly'
    <3>1. Walk' /\ queued' \subseteq AlsoQueued
      BY <1>2, <2>5 DEF Walk, Apart, Orderly
    <3> QED
      BY <1>1, <1>2, <2>5, <3>1, Stacked
  <2>7. ASSUME NEW m \in Msg \ AlsoQueued PROVE PlaceOf(m)'
    <3>0. PlaceOf(m) /\ Apart(stack, m) /\ Apart(stack', m)
      BY <1>1, <2>5 DEF Places
    <3>1. SentOnce(m)'
      BY <1>2, <3>0, CallsKept DEF PlaceOf
    <3>2. CASE m # x
      <4>1. handler'[m] = handler[m]
        BY <2>2, <3>2 DEF TypeOK
      <4>2. (Has(ptypeQueue, m)' <=> Has(ptypeQueue, m)) /\ Single(ptypeQueue, m)'
        BY <2>3, <3>0, <3>2 DEF PlaceOf, InOne
      <4>3. \A q \in Proc : Single(undelivered'[q], m) /\ (Has(undelivered'[q], m) <=> Has(undelivered[q], m))
        BY <2>4, <3>0, <3>2 DEF PlaceOf, InOne
      <4> QED
        BY <1>2, <3>0, <3>1, <4>1, <4>2, <4>3, Bystander
    <3>3. CASE m = x
      <4>1. /\ \A q \in Proc : ~Listed(q, m)
            /\ state[m] \in {"SENT", "STARTED"} /\ Single(ptypeQueue, m)
        BY <2>3, <3>0, <3>3 DEF PlaceOf, Given, Waits, Apart, InOne
      <4>2. ~Has(ptypeQueue', m) /\ Single(ptypeQueue', m)
        BY <2>3, <3>3, <4>1
      <4>3. /\ Has(undelivered'[p], m) /\ Single(undelivered'[p], m) /\ m \notin delivered'[p]
            /\ \A q \in Proc \ {p} : undelivered'[q] = undelivered[q] /\ delivered'[q] = delivered[q]
        BY <1>2, <2>4, <3>3, <4>1 DEF Listed
      <4>4. Listed(p, m)' /\ \A q \in Proc : Listed(q, m)' => q = p
        BY <4>1, <4>3 DEF Listed
      <4>5. handler'[m] = p
        BY <2>2, <3>3 DEF TypeOK
      <4>6. InOne(m)'
        BY <3>0, <4>2, <4>3 DEF PlaceOf, InOne
      <4>7. Fresh(m)' /\ Ended(m)' /\ Given(m)' /\ Waits(m)' /\ Moving(m)' /\ Told(m)' /\ Somewhere(m)'
        BY <1>1, <1>2, <3>0, <4>1, <4>2, <4>4, <4>5
           DEF PlaceOf, Fresh, Ended, Given, Waits, Moving, Told, Somewhere, Apart
      <4> QED
        BY <3>1, <4>6, <4>7 DEF PlaceOf
    <3> QED
      BY <3>2, <3>3
  <2> QED
    BY <2>6, <2>7 DEF Places
<1> QED
  BY <1>3, <1>4

\* All that waits on the ptype fails.
LEMMA FailQueuePlaces ==
    ASSUME TypeOK, Orderly, Places, RunFailQueue
    PROVE  Orderly' /\ Places'
<1> USE DEF procVars, loopVars, ptypeVars, clientVars, msgVars
<1>1. stack # << >> /\ Tail(stack) = << >> /\ \A m : Apart(stack, m)
  BY TopShape DEF RunFailQueue, Running, Orderly
<1>2. /\ stack' = << >> /\ LaunchFailed
      /\ UNCHANGED <<rpc, pc, active, undelivered, delivered, handler, queued>>
  BY <1>1 DEF RunFailQueue
<1>3. Places'
  BY <1>1, <1>2, NoShape, QueueFails
<1>4. Walk' /\ queued' \subseteq AlsoQueued
  BY <1>2, NoShape DEF Walk, Apart, Orderly
<1>5. Orderly'
  BY <1>1, <1>2, <1>4, NoShape, Stacked
<1> QED
  BY <1>3, <1>5

\* The ptype is unblocked: the walk over its queue is about to begin.
LEMMA RepliedPlaces ==
    ASSUME TypeOK, Orderly, Places, RunReplied
    PROVE  Orderly' /\ Places'
<1> USE DEF procVars, loopVars, ptypeVars, clientVars, msgVars
<1> DEFINE t == Tail(stack)
           s == <<Flush>> \o t
<1>1. stack # << >> /\ t \in Seq(Frame) /\ Ends(t) /\ \A m : Apart(stack, m)
  BY RunningFrame, TopShape DEF RunReplied, Running, Orderly
<1>2. /\ stack' = s \/ stack' = t
      /\ UNCHANGED <<rpc, pc, ptypeQueue, active, undelivered, delivered, handler, reported, state, queued>>
  BY DEF RunReplied
<1> HIDE DEF t
<1>3. Flush \in Frame /\ Flush.op = "flush"
  BY FramesMade DEF Flush
<1>4. s # << >> /\ Head(s) = Flush /\ Tail(s) = t
  BY <1>1, <1>3, PushOne
<1> HIDE DEF s
<1>5. Shape(s)
  BY <1>1, <1>3, <1>4, ShapeOf
<1>6. \A m : Apart(s, m)
  BY <1>3, <1>4, <1>5, TopShape
<1>7. Shape(stack') /\ (stack' # << >> => Head(stack').op # "started") /\ \A m : Apart(stack', m)
  BY <1>1, <1>2, <1>3, <1>4, <1>5, <1>6, EndsOn
<1> QED
  BY <1>1, <1>2, <1>7, IdlesOn DEF Orderly

\* The walk comes to the request at the head of the queue.
LEMMA FlushPlaces ==
    ASSUME TypeOK, Orderly, Places, RunFlush
    PROVE  Orderly' /\ Places'
<1> USE DEF procVars, loopVars, ptypeVars, clientVars, msgVars
<1> DEFINE t == Tail(stack)
<1>1. stack # << >> /\ t \in Seq(Frame) /\ Ends(t) /\ \A m : Apart(stack, m)
  BY RunningFrame, TopShape DEF RunFlush, Running, Orderly
<1>2. UNCHANGED <<rpc, pc, ptypeQueue, active, undelivered, delivered, handler, reported, queued>>
  BY DEF RunFlush
<1>3. CASE ptypeQueue = << >>
  <2>1. stack' = t /\ state' = state
    BY <1>3 DEF RunFlush
  <2> QED
    BY <1>1, <1>2, <2>1, EndsOn, IdlesOn DEF Orderly
<1>4. CASE ptypeQueue # << >>
  <2>1. PICK x \in Msg : x = Head(ptypeQueue) /\ Has(ptypeQueue, x)
    BY <1>4, PoppedList DEF TypeOK
  <2>2. state' = [state EXCEPT ![x] = "SENT"] /\ stack' = <<Deliver(x), Flushed(x)>> \o t
    BY <1>4, <2>1 DEF RunFlush
  <2>3. /\ Deliver(x) \in Frame /\ Deliver(x).op = "deliver" /\ Deliver(x).msg = x
        /\ Flushed(x) \in Frame /\ Flushed(x).op = "flushed" /\ Flushed(x).msg = x
    BY FramesMade DEF Deliver, Flushed
  <2> HIDE DEF t
  <2> DEFINE r == <<Flushed(x)>> \o t
             s == <<Deliver(x)>> \o r
  <2>4. r \in Seq(Frame) /\ r # << >> /\ Head(r) = Flushed(x) /\ Tail(r) = t
    BY <1>1, <2>3, PushOne
  <2>5. stack' = s
    BY <1>1, <2>2, <2>3, PushMore
  <2> HIDE DEF r
  <2>6. s # << >> /\ Head(s) = Deliver(x) /\ Tail(s) = r
    BY <2>3, <2>4, PushOne
  <2> HIDE DEF s
  <2>7. Under(r) /\ Shape(r)
    BY <1>1, <2>3, <2>4, ShapeOf
  <2>8. \A m : Flushes(r, m) <=> m = x
    BY <2>3, <2>4, <2>7, TopShape
  <2>9. Shape(s)
    BY <2>3, <2>4, <2>6, <2>7, ShapeOf
  <2>10. \A m : (Moves(s, m) <=> m = x) /\ (Flushes(s, m) <=> m = x)
    BY <2>3, <2>6, <2>8, <2>9, TopShape
  <2>11. Head(Work(s)) = Deliver(x)
    BY <2>3, <2>6 DEF Work, Dying
  <2>12. Orderly'
    <3>1. Walk' /\ queued' \subseteq AlsoQueued /\ (stack' # << >> => Head(stack').op # "started")
      BY <1>2, <1>4, <2>1, <2>3, <2>5, <2>6, <2>10 DEF Walk, Orderly
    <3> QED
      BY <1>1, <1>2, <2>5, <2>9, <3>1, Stacked
  <2>13. ASSUME NEW m \in Msg \ AlsoQueued PROVE PlaceOf(m)'
    <3>0. PlaceOf(m) /\ Apart(stack, m)
      BY <1>1 DEF Places
    <3>1. CASE m # x
      <4>1. state'[m] = state[m]
        BY <2>2, <3>1 DEF TypeOK
      <4>2. Apart(stack', m)
        BY <2>5, <2>10, <3>1 DEF Apart
      <4> QED
        BY <1>2, <3>0, <4>1, <4>2, Spared
    <3>2. CASE m = x
      <4>1. /\ state[m] \in {"SENT", "STARTED"} /\ "STARTED" \in reported[m]
            /\ \A q \in Proc : ~Listed(q, m)
        BY <2>1, <3>0, <3>2 DEF PlaceOf, Waits, Given, Apart
      <4>2. state'[m] = "SENT" /\ reported[m] \cap Final = {}
        BY <2>2, <3>0, <3>2, <4>1 DEF TypeOK, PlaceOf, Ended, Final
      <4>3. Moves(stack', m) /\ Flushes(stack', m) /\ Head(Work(stack')) = Deliver(x)
        BY <2>5, <2>10, <2>11, <3>2
      <4>4. \A q \in Proc : ~Listed(q, m)'
        BY <1>2, <4>1 DEF Listed
      <4>5. SentOnce(m)'
        BY <1>2, <3>0, <4>1, CallsKept DEF PlaceOf
      <4>6. InOne(m)'
        BY <1>2, <3>0 DEF PlaceOf, InOne
      <4>7. Fresh(m)' /\ Ended(m)' /\ Given(m)' /\ Waits(m)' /\ Told(m)' /\ Somewhere(m)'
        BY <1>2, <4>1, <4>2, <4>3, <4>4 DEF Fresh, Ended, Given, Waits, Told, Somewhere
      <4>8. Moving(m)'
        BY <2>3, <4>2, <4>3 DEF Moving
      <4> QED
        BY <4>5, <4>6, <4>7, <4>8 DEF PlaceOf
    <3> QED
      BY <3>1, <3>2
  <2> QED
    BY <2>12, <2>13 DEF Places
<1> QED
  BY <1>3, <1>4

\* A request the walk has delivered leaves the queue; the walk ends at one that
\* it could not deliver.
LEMMA FlushedPlaces ==
    ASSUME TypeOK, Orderly, Places, RunFlushed
    PROVE  Orderly' /\ Places'
<1> USE DEF procVars, loopVars, ptypeVars, clientVars, msgVars
<1> DEFINE t == Tail(stack)
<1>1. /\ stack # << >> /\ t \in Seq(Frame) /\ Ends(t) /\ Head(stack).msg \in Msg
      /\ \A m : ~Moves(stack, m) /\ (Flushes(stack, m) <=> m = Head(stack).msg)
  BY RunningFrame, FramesRead, TopShape DEF RunFlushed, Running, Orderly
<1>2. PICK x \in Msg : x = Head(stack).msg
  BY <1>1
<1>3. /\ \A m : ~Moves(stack, m) /\ (Flushes(stack, m) <=> m = x)
      /\ ptypeQueue # << >> /\ Head(ptypeQueue) = x
  BY <1>1, <1>2 DEF Orderly, Walk
<1>4. UNCHANGED <<rpc, pc, active, undelivered, delivered, state, handler, reported, queued, ret>>
  BY DEF RunFlushed, Relaunch, Launch, LaunchFails
<1>5. /\ ret => ptypeQueue' = Tail(ptypeQueue) /\ stack' = <<Flush>> \o t
      /\ ~ret => ptypeQueue' = ptypeQueue /\ stack' = t
  BY <1>3 DEF RunFlushed, Dequeue
<1>6. /\ Has(ptypeQueue, x)
      /\ \A m \in Msg : Has(Tail(ptypeQueue), m) => Has(ptypeQueue, m)
      /\ \A m \in Msg : Has(ptypeQueue, m) /\ x # m => Has(Tail(ptypeQueue), m)
      /\ \A m \in Msg : Single(ptypeQueue, m) =>
            Single(Tail(ptypeQueue), m) /\ (x = m => ~Has(Tail(ptypeQueue), m))
  BY <1>3, PoppedList DEF TypeOK
<1> HIDE DEF t
<1>7. Shape(stack') /\ (stack' # << >> => Head(stack').op # "started") /\ \A m : Apart(stack', m)
  <2> DEFINE s == <<Flush>> \o t
  <2>1. Flush \in Frame /\ Flush.op = "flush"
    BY FramesMade DEF Flush
  <2>2. s # << >> /\ Head(s) = Flush /\ Tail(s) = t
    BY <1>1, <2>1, PushOne
  <2>3. stack' = s \/ stack' = t
    BY <1>5 DEF TypeOK
  <2> HIDE DEF s
  <2>4. Shape(s)
    BY <1>1, <2>1, <2>2, ShapeOf
  <2>5. \A m : Apart(s, m)
    BY <2>1, <2>2, <2>4, TopShape
  <2> QED
    BY <1>1, <2>1, <2>2, <2>3, <2>4, <2>5, EndsOn
<1>8. Orderly'
  <2>1. Walk' /\ queued' \subseteq AlsoQueued
    BY <1>4, <1>7 DEF Walk, Apart, Orderly
  <2> QED
    BY <1>1, <1>4, <1>7, <2>1, Stacked
<1>9. ASSUME NEW m \in Msg \ AlsoQueued PROVE PlaceOf(m)'
  <2>0. PlaceOf(m) /\ Apart(stack', m)
    BY <1>7 DEF Places
  <2>1. SentOnce(m)'
    BY <1>4, <2>0, CallsKept DEF PlaceOf
  <2>2. Single(ptypeQueue, m)' /\ (m # x => (Has(ptypeQueue', m) <=> Has(ptypeQueue, m)))
    BY <1>5, <1>6, <2>0 DEF PlaceOf, InOne
  <2>3. CASE m # x
    BY <1>3, <1>4, <2>0, <2>2, <2>3, Spared DEF Apart
  <2>4. CASE m = x
    <3>1. /\ state[m] # "CREATED" /\ "STARTED" \in reported[m]
          /\ IF ret THEN state[m] \in Final \/ \E q \in Proc : Listed(q, m)
                    ELSE state[m] = "SENT" /\ \A q \in Proc : ~Listed(q, m)
      BY <1>3, <1>6, <2>0, <2>4 DEF PlaceOf, Fresh, Waits, Told
    <3>2. \A q \in Proc : Listed(q, m)' <=> Listed(q, m)
      BY <1>4 DEF Listed
    <3>3. ret => ~Has(ptypeQueue', m)
      BY <1>5, <1>6, <2>0, <2>4 DEF PlaceOf, InOne
    <3>4. ~ret => Has(ptypeQueue', m)
      BY <1>5, <1>6, <2>4
    <3>5. InOne(m)'
      BY <1>4, <2>0, <2>2 DEF PlaceOf, InOne
    <3>6. Fresh(m)' /\ Ended(m)' /\ Moving(m)' /\ Told(m)'
      BY <1>4, <2>0, <3>1 DEF PlaceOf, Fresh, Ended, Moving, Told, Apart
    <3>7. CASE ret
      BY <1>4, <2>0, <2>1, <3>1, <3>2, <3>3, <3>5, <3>6, <3>7
         DEF PlaceOf, Given, Waits, Somewhere, Apart, Final
    <3>8. CASE ~ret
      BY <1>4, <2>0, <2>1, <3>1, <3>2, <3>4, <3>5, <3>6, <3>8
         DEF PlaceOf, Given, Waits, Somewhere, Apart
    <3> QED
      BY <3>7, <3>8
  <2> QED
    BY <2>3, <2>4
<1> QED
  BY <1>8, <1>9 DEF Places

\* What waits in the session's queue is offered again.
LEMMA RedeliverPlaces ==
    ASSUME TypeOK, Orderly, Places, RunRedeliver
    PROVE  Orderly' /\ Places'
<1> USE DEF procVars, loopVars, ptypeVars, clientVars, msgVars
<1> DEFINE todo == Head(stack).todo
<1>1. /\ stack # << >> /\ Tail(stack) = << >> /\ todo \subseteq AlsoQueued /\ todo \subseteq Msg
      /\ \A m : Apart(stack, m)
  BY RunningFrame, FramesRead, TopShape DEF RunRedeliver, Running, Orderly
<1>2. UNCHANGED <<rpc, pc, ptypeQueue, active, undelivered, delivered, handler, reported, queued>>
  BY DEF RunRedeliver
<1>3. CASE stack' = << >> /\ state' = state
  BY <1>1, <1>2, <1>3, NoShape, IdlesOn DEF Orderly
<1>4. ASSUME NEW x \in todo, state' = [state EXCEPT ![x] = "SENT"],
             stack' = <<Deliver(x), Requeue(x), Redeliver(todo \ {x})>> \o << >>
      PROVE  Orderly' /\ Places'
  <2>1. /\ Deliver(x) \in Frame /\ Deliver(x).op = "deliver" /\ Deliver(x).msg = x
        /\ Requeue(x) \in Frame /\ Requeue(x).op = "requeue" /\ Requeue(x).msg = x
        /\ x \in AlsoQueued
    BY <1>1, FramesMade DEF Deliver, Requeue
  <2>01. PICK e \in Frame : e = Redeliver(todo \ {x})
    BY <1>1, FramesMade
  <2>02. e.op = "redeliver" /\ e.todo \subseteq AlsoQueued
    BY <1>1, <2>01 DEF Redeliver
  <2> DEFINE q == <<e>> \o << >>
             r == <<Requeue(x)>> \o q
             s == <<Deliver(x)>> \o r
  <2>2. stack' = s
    <3>1. stack' = <<Deliver(x), Requeue(x), e>> \o << >>
      BY <1>4, <2>01
    <3>2. << >> \in Seq(Frame)
      OBVIOUS
    <3>3. <<Deliver(x), Requeue(x), e>> \o << >> = s
      BY <2>1, <3>2, PushMore, ZenonT(30)
    <3> QED
      BY <3>1, <3>3
  <2>3. q \in Seq(Frame) /\ q # << >> /\ Head(q) = e /\ Tail(q) = << >>
    BY PushOne, Push
  <2> HIDE DEF q
  <2>4. r \in Seq(Frame) /\ r # << >> /\ Head(r) = Requeue(x) /\ Tail(r) = q
    BY <2>1, <2>3, PushOne
  <2> HIDE DEF r
  <2>5. s # << >> /\ Head(s) = Deliver(x) /\ Tail(s) = r
    BY <2>1, <2>4, PushOne
  <2> HIDE DEF s
  <2>6. Ends(q)
    BY <2>02, <2>3, ShapeOf
  <2>7. Under(r)
    BY <2>1, <2>4, <2>6, ShapeOf
  <2>8. Shape(s)
    BY <2>1, <2>4, <2>5, <2>7, ShapeOf
  <2>9. \A m : (Moves(s, m) <=> m = x) /\ ~Flushes(s, m)
    <3>1. \A m : ~Flushes(r, m)
      BY <2>1, <2>4, <2>7, UnderShape
    <3> QED
      BY ZenonT(40), <2>1, <2>5, <2>8, <3>1, TopShape
  <2>10. Orderly'
    <3>1. Walk' /\ queued' \subseteq AlsoQueued /\ (stack' # << >> => Head(stack').op # "started")
      BY <1>2, <2>1, <2>2, <2>5, <2>9 DEF Walk, Orderly
    <3> QED
      BY <1>1, <1>2, <2>2, <2>8, <3>1, Stacked
  <2>11. ASSUME NEW m \in Msg \ AlsoQueued PROVE PlaceOf(m)'
    <3>1. m # x /\ state'[m] = state[m]
      BY <1>4, <2>1 DEF TypeOK
    <3>2. Apart(stack', m)
      BY <2>2, <2>9, <3>1 DEF Apart
    <3> QED
      BY <1>1, <1>2, <3>1, <3>2, Spared DEF Places
  <2> QED
    BY <2>10, <2>11 DEF Places
<1> QED
  BY <1>1, <1>3, <1>4 DEF RunRedeliver

\* A request that was offered again stays in the session's queue, or leaves it.
LEMMA RequeuePlaces ==
    ASSUME TypeOK, Orderly, Places, RunRequeue
    PROVE  Orderly' /\ Places'
<1> USE DEF procVars, loopVars, ptypeVars, clientVars, msgVars
<1> DEFINE x == Head(stack).msg
<1>1. /\ stack # << >> /\ Ends(Tail(stack)) /\ x \in AlsoQueued /\ x \in Msg
      /\ \A m : Apart(stack, m)
  BY RunningFrame, FramesRead, TopShape DEF RunRequeue, Running, Orderly
<1>2. /\ stack' = Tail(stack)
      /\ UNCHANGED <<rpc, pc, ptypeQueue, active, undelivered, delivered, handler, reported>>
      /\ queued' = queued \ {x} \/ queued' = queued
      /\ state' = [state EXCEPT ![x] = "QUEUED"] \/ state' = state
  BY DEF RunRequeue
<1>3. queued' \subseteq AlsoQueued
  BY <1>2 DEF Orderly
<1>4. \A m \in Msg \ AlsoQueued : state'[m] = state[m]
  BY <1>1, <1>2 DEF TypeOK
<1> QED
  BY <1>1, <1>2, <1>3, <1>4, EndsOn, IdlesOn

-----------------------------------------------------------------------------
(* The theorems about places. *)

\* The server's own code keeps every request in its place.
LEMMA RunPlaces ==
    ASSUME TypeOK, Orderly, Places, Run
    PROVE  Orderly' /\ Places'
BY DeliverToHandlerPlaces, NobodyPlaces, StartPlaces, StartFailsPlaces, ChangeFinalPlaces,
   ChangeRejectedPlaces, DeactivatePlaces, UpdatePlaces, StartedPlaces, FailQueuePlaces,
   RepliedPlaces, FlushPlaces, FlushedPlaces, RedeliverPlaces, RequeuePlaces DEF Run

\* The invariant is inductive.
THEOREM PlacesAlways == Spec => [](Orderly /\ Places)
<1>1. Init => Orderly /\ Places
  <2> SUFFICES ASSUME Init PROVE Orderly /\ Places
    OBVIOUS
  <2> USE DEF Init
  <2>1. Orderly
    BY NoShape DEF Orderly, Walk, Inside, Connected, Running, Apart
  <2>2. ASSUME NEW m \in Msg PROVE PlaceOf(m)
    <3>1. Apart(stack, m) /\ Sender \in Proc
      BY NoShape, PtypeAssumption DEF Proc
    <3>2. ~Has(ptypeQueue, m) /\ Single(ptypeQueue, m)
      BY DEF Has, Single
    <3>3. \A p \in Proc : ~Listed(p, m) /\ Single(undelivered[p], m)
      BY DEF Has, Single, Listed
    <3>4. SentOnce(m)
      BY <3>1 DEF SentOnce, IsSend
    <3>5. /\ Fresh(m) /\ Ended(m) /\ Given(m) /\ Waits(m) /\ Moving(m) /\ Told(m) /\ Somewhere(m)
      BY <3>1, <3>2, <3>3 DEF Fresh, Ended, Given, Waits, Moving, Told, Somewhere, Apart
    <3>6. InOne(m)
      BY <3>2, <3>3 DEF InOne, Listed
    <3> QED
      BY <3>4, <3>5, <3>6 DEF PlaceOf
  <2> QED
    BY <2>1, <2>2 DEF Places
<1>2. TypeOK /\ (Orderly /\ Places) /\ [Next]_vars => (Orderly /\ Places)'
  <2> SUFFICES ASSUME TypeOK, Orderly, Places, [Next]_vars PROVE Orderly' /\ Places'
    OBVIOUS
  <2>1. CASE Traffic
    BY <2>1, ServeSendPlaces, ServeNextPlaces, ServeRpcPlaces DEF Traffic, ServeRpc
  <2>2. CASE UNCHANGED vars
    <3>1. \A m \in Msg \ AlsoQueued : SentOnce(m)'
      BY <2>2, CallsKept DEF vars, Places, PlaceOf
    <3>2. Inside'
      BY <2>2 DEF vars, Inside, Orderly
    <3> QED
      BY <2>2, <3>1, <3>2, Quiet DEF vars
  <2> QED
    BY <2>1, <2>2, RunPlaces, LoopPlaces, ClientPlaces DEF Next, Server
<1> QED
  BY <1>1, <1>2, PtypeTypeCorrect, PTL DEF Spec

\* Who has a request, read or not.
LEMMA HoldsListed ==
    ASSUME TypeOK, NEW p \in Proc, NEW m \in Msg, Holds(p, m)
    PROVE  Listed(p, m)
<1>1. undelivered[p] \in Seq(Msg)
  BY DEF TypeOK
<1>2. m \in ToSet(undelivered[p]) => Has(undelivered[p], m)
  BY <1>1, LenProperties DEF ToSet, Has
<1> QED
  BY <1>2 DEF Holds, Listed

\* However answers, rejections, launches that fail and exits follow each other:
\* between two RPCs, a request of disposition start is in the ptype's queue,
\* once, or with one process.
THEOREM OnePlaceAlways == Spec => []OnePlace
<1>1. TypeOK /\ Orderly /\ Places => OnePlace
  <2> SUFFICES ASSUME TypeOK, Places, stack = << >>, NEW m \in Msg \ AlsoQueued
               PROVE  /\ \A i, j \in DOMAIN ptypeQueue :
                            ptypeQueue[i] = m /\ ptypeQueue[j] = m => i = j
                      /\ m \in ToSet(ptypeQueue) => /\ state[m] \notin Final
                                                    /\ \A p \in Proc : ~Holds(p, m)
                      /\ \A p, q \in Proc : Holds(p, m) /\ Holds(q, m) => p = q
    BY DEF OnePlace, Idle
  <2>1. PlaceOf(m) /\ Apart(stack, m)
    BY NoShape DEF Places
  <2>2. ptypeQueue \in Seq(Msg) /\ DOMAIN ptypeQueue = 1 .. Len(ptypeQueue)
    BY LenProperties DEF TypeOK
  <2>3. \A i, j \in DOMAIN ptypeQueue : ptypeQueue[i] = m /\ ptypeQueue[j] = m => i = j
    BY <2>1, <2>2 DEF PlaceOf, InOne, Single
  <2>4. m \in ToSet(ptypeQueue) => Has(ptypeQueue, m)
    BY <2>2 DEF ToSet, Has
  <2>5. Has(ptypeQueue, m) => state[m] \notin Final /\ \A p \in Proc : ~Listed(p, m)
    BY <2>1 DEF PlaceOf, Waits, Given, Apart, Final
  <2>6. \A p, q \in Proc : Listed(p, m) /\ Listed(q, m) => p = q
    BY <2>1 DEF PlaceOf, Given
  <2> QED
    BY <2>3, <2>4, <2>5, <2>6, HoldsListed
<1> QED
  BY <1>1, PlacesAlways, PtypeTypeCorrect, PTL

\* Between two RPCs, a request of disposition start that was sent and has not
\* ended waits on the ptype or is with an active process.
THEOREM PtypeNoneLostAlways == Spec => []NoneLost
<1>1. TypeOK /\ Orderly /\ Places => NoneLost
  <2> SUFFICES ASSUME TypeOK, Places, stack = << >>, NEW m \in Msg \ AlsoQueued,
                      state[m] \in {"SENT", "STARTED"}
               PROVE  m \in ToSet(ptypeQueue) \/ \E p \in Proc : Holds(p, m)
    BY DEF NoneLost, Idle
  <2>1. PlaceOf(m) /\ Apart(stack, m)
    BY NoShape DEF Places
  <2>2. CASE Has(ptypeQueue, m)
    <3>1. ptypeQueue \in Seq(Msg) /\ DOMAIN ptypeQueue = 1 .. Len(ptypeQueue)
      BY LenProperties DEF TypeOK
    <3> QED
      BY <2>2, <3>1 DEF ToSet, Has
  <2>3. CASE ~Has(ptypeQueue, m)
    <3>1. PICK p \in Proc : Listed(p, m)
      BY <2>1, <2>3 DEF PlaceOf, Somewhere, Apart
    <3>2. p \in active /\ Processing(p, m)
      BY <2>1, <3>1 DEF PlaceOf, Given, Processing, Final
    <3>3. undelivered[p] \in Seq(Msg) /\ DOMAIN undelivered[p] = 1 .. Len(undelivered[p])
      BY LenProperties DEF TypeOK
    <3>4. Has(undelivered[p], m) => m \in ToSet(undelivered[p])
      BY <3>3 DEF ToSet, Has
    <3> QED
      BY <3>1, <3>2, <3>4 DEF Listed, Holds
  <2> QED
    BY <2>2, <2>3
<1> QED
  BY <1>1, PlacesAlways, PtypeTypeCorrect, PTL

-----------------------------------------------------------------------------
(* One launch at a time. *)

\* While the walk over the ptype's queue is under way, the ptype is not being
\* launched.
Calm == Flushing(stack) => ~launching

\* What is pushed above a walk, or returns to it, is not another.
LEMMA FlushingAbove ==
    ASSUME NEW s \in Seq(Frame)
    PROVE  /\ \A f \in Frame : f.op \notin {"flush", "flushed"} /\ Flushing(<<f>> \o s) => Flushing(s)
           /\ s # << >> /\ Flushing(Tail(s)) => Flushing(s)
<1>1. ASSUME NEW f \in Frame, f.op \notin {"flush", "flushed"}, Flushing(<<f>> \o s) PROVE Flushing(s)
  <2>1. <<f>> \o s \in Seq(Frame) /\ Head(<<f>> \o s) = f /\ Tail(<<f>> \o s) = s
    BY PushOne
  <2> QED
    BY <1>1, <2>1, FlushingBelow
<1>2. ASSUME s # << >>, Flushing(Tail(s)) PROVE Flushing(s)
  <2>1. Head(s) \in Frame /\ Tail(s) \in Seq(Frame) /\ s = <<Head(s)>> \o Tail(s)
    BY <1>2, HeadTailProperties
  <2> QED
    BY <1>2, <2>1, FlushingBelow
<1> QED
  BY <1>1, <1>2

\* Under a delivery, a walk is at the request that is delivered.
LEMMA WalkUnder ==
    ASSUME NEW s \in Seq(Frame), Flushing(s)
    PROVE  ~Ends(s) /\ (Under(s) => s # << >> /\ Head(s).op = "flushed")
<1>1. ASSUME NEW t \in Seq(Frame), Ends(t) PROVE ~Flushing(t)
  <2>1. t = << >> \/ (t # << >> /\ Tail(t) = << >> /\ Head(t).op \in {"update", "redeliver"})
    BY <1>1 DEF Ends
  <2>2. ~Flushing(<< >>)
    BY DEF Flushing
  <2> QED
    BY <2>1, <2>2, FlushingBelow
<1>2. ASSUME Under(s) PROVE s # << >> /\ Head(s).op = "flushed"
  <2>1. s # << >> /\ Ends(Tail(s)) /\ Head(s).op \in {"flushed", "requeue"} /\ Tail(s) \in Seq(Frame)
    BY <1>1, <1>2, HeadTailProperties DEF Under
  <2>2. Head(s).op # "requeue"
    BY <1>1, <2>1, FlushingBelow
  <2> QED
    BY <2>1, <2>2
<1> QED
  BY <1>1, <1>2

\* A request that is delivered to nobody while the walk has come to it launches
\* nothing, as it is in the queue.
LEMMA NotInWalk ==
    ASSUME TypeOK, Orderly, Running("deliver"), Flushing(stack)
    PROVE  ptypeQueue # << >>
<1> DEFINE t == Tail(stack)
<1>1. /\ t \in Seq(Frame) /\ Under(t) /\ Head(stack).msg \in Msg
      /\ t # << >> => Head(t).msg = Head(stack).msg
      /\ \A m : Flushes(t, m) <=> Flushes(stack, m)
  BY Delivered
<1>2. Flushing(t)
  BY FlushingBelow DEF Running, TypeOK
<1> HIDE DEF t
<1>3. t # << >> /\ Head(t).op = "flushed"
  BY <1>1, <1>2, WalkUnder
<1>4. Flushes(stack, Head(stack).msg)
  BY <1>1, <1>3, UnderShape
<1> QED
  BY <1>1, <1>4 DEF Orderly, Walk

\* The server's own code launches no instance while one is being launched.
LEMMA RunCalm ==
    ASSUME TypeOK, Orderly, Calm, Run
    PROVE  Calm' /\ (born' # born => ~launching)
<1> USE DEF procVars, loopVars, ptypeVars, clientVars, msgVars
<1> DEFINE t == Tail(stack)
<1>0. stack \in Seq(Frame) /\ stack # << >> /\ t \in Seq(Frame) /\ Head(stack) \in Frame /\ launching \in BOOLEAN
  <2>1. stack \in Seq(Frame) /\ launching \in BOOLEAN
    BY DEF TypeOK
  <2>2. stack # << >>
    BY DEF Run, Running, DeliverToHandler, DeliverInVain, NotAgain, Start, StartFails, ChangeFinal,
           ChangeRejected, RunDeactivate, RunUpdate, RunStarted, RunFailQueue, RunReplied, RunFlush,
           RunFlushed, RunRedeliver, RunRequeue
  <2> QED
    BY <2>1, <2>2, HeadTailProperties
<1>1. ASSUME launching' = launching \/ ~launching', Flushing(stack') => Flushing(stack), born' = born
      PROVE  Calm' /\ (born' # born => ~launching)
  BY <1>1 DEF Calm
<1>2. Flushing(t) => Flushing(stack)
  BY <1>0, FlushingAbove
<1>3. ASSUME NEW f \in Frame, f.op \notin {"flush", "flushed"}
      PROVE  /\ Flushing(<<f>> \o t) => Flushing(stack)
             /\ Flushing(<<f>> \o stack) => Flushing(stack)
  BY <1>0, <1>2, <1>3, FlushingAbove
<1>4. CASE DeliverInVain \/ NotAgain \/ ChangeFinal \/ RunDeactivate \/ RunRequeue
  <2>1. stack' = t /\ UNCHANGED <<launching, born>>
    BY <1>4 DEF DeliverInVain, NotAgain, ChangeFinal, RunDeactivate, RunRequeue
  <2> QED
    BY <1>1, <1>2, <2>1
<1>5. CASE DeliverToHandler
  <2>1. PICK p \in Proc : stack' = t \/ stack' = <<Deactivate(p)>> \o stack
    BY <1>5 DEF DeliverToHandler, AddMessage
  <2>2. Deactivate(p) \in Frame /\ Deactivate(p).op = "deactivate"
    BY FramesMade DEF Deactivate
  <2>3. UNCHANGED <<launching, born>>
    BY <1>5 DEF DeliverToHandler
  <2>4. Flushing(stack') => Flushing(stack)
    BY <1>2, <1>3, <2>1, <2>2
  <2> QED
    BY <1>1, <2>3, <2>4
<1>6. CASE Start
  <2>1. stack' = t /\ Running("deliver")
    BY <1>6 DEF Start
  <2>2. CASE FirstInLine
    <3>1. ~launching /\ ptypeQueue = << >>
      BY <2>2 DEF FirstInLine
    <3>2. ~Flushing(stack')
      BY <1>2, <2>1, <3>1, NotInWalk
    <3> QED
      BY <3>1, <3>2 DEF Calm
  <2>3. CASE ~FirstInLine
    <3>1. UNCHANGED <<launching, born>>
      BY <1>6, <2>3 DEF Start
    <3> QED
      BY <1>1, <1>2, <2>1, <3>1
  <2> QED
    BY <2>2, <2>3
<1>7. CASE StartFails
  <2>1. stack' = <<Change(Head(stack).msg, "FAILED")>> \o t /\ Running("deliver")
        /\ born' = born /\ ptypeQueue = << >>
    BY <1>7 DEF StartFails, FirstInLine, LaunchFails
  <2>2. Head(stack).msg \in Msg
    BY <2>1, Delivered
  <2>3. Change(Head(stack).msg, "FAILED") \in Frame /\ Change(Head(stack).msg, "FAILED").op = "change"
    BY <2>2, FramesMade DEF Change, Final
  <2>4. ~Flushing(stack')
    BY <1>3, <2>1, <2>3, NotInWalk
  <2> QED
    BY <2>1, <2>4 DEF Calm
<1>8. CASE ChangeRejected
  <2>1. stack' = <<Deliver(Head(stack).msg)>> \o t /\ UNCHANGED <<launching, born>> /\ Running("change")
    BY <1>8 DEF ChangeRejected
  <2>2. Head(stack).msg \in Msg
    BY <2>1, Delivered
  <2>3. Deliver(Head(stack).msg) \in Frame /\ Deliver(Head(stack).msg).op = "deliver"
    BY <2>2, FramesMade DEF Deliver
  <2> QED
    BY <1>1, <1>3, <2>1, <2>3
<1>9. CASE RunUpdate
  <2>1. /\ UNCHANGED <<launching, born>> /\ Running("update")
        /\ stack' = t \/ stack' = <<Change(Head(stack).msg, Head(stack).to)>> \o t
    BY <1>9 DEF RunUpdate
  <2>2. Head(stack).msg \in Msg /\ Head(stack).to \in {"REJECTED"} \cup Final
    BY <1>0, <2>1, FramesRead DEF Running
  <2>3. /\ Change(Head(stack).msg, Head(stack).to) \in Frame
        /\ Change(Head(stack).msg, Head(stack).to).op = "change"
    BY <2>2, FramesMade DEF Change
  <2>4. Flushing(stack') => Flushing(stack)
    BY <1>2, <1>3, <2>1, <2>3
  <2> QED
    BY <1>1, <2>1, <2>4
<1>10. CASE RunStarted
  <2>1. Running("started") /\ UNCHANGED <<launching, born>>
    BY <1>10 DEF RunStarted
  <2>2. Head(stack).proc \in Proc
    BY <1>0, <2>1, FramesRead DEF Running
  <2>3. stack' = t \/ stack' = <<Deactivate(Head(stack).proc)>> \o (<<FailQueue>> \o t)
    BY <1>10 DEF RunStarted, AddMessage
  <2>4. /\ FailQueue \in Frame /\ FailQueue.op = "failqueue"
        /\ Deactivate(Head(stack).proc) \in Frame /\ Deactivate(Head(stack).proc).op = "deactivate"
    BY <2>2, FramesMade DEF FailQueue, Deactivate
  <2>5. <<FailQueue>> \o t \in Seq(Frame)
    BY <1>0, <2>4, Push
  <2>6. Flushing(<<FailQueue>> \o t) => Flushing(t)
    BY <1>0, <2>4, FlushingAbove
  <2> DEFINE d == Deactivate(Head(stack).proc)
             r == <<FailQueue>> \o t
  <2>7. d \in Frame /\ d.op = "deactivate" /\ r \in Seq(Frame)
    BY <2>4, <2>5
  <2> HIDE DEF d, r
  <2>8. Flushing(<<d>> \o r) => Flushing(r)
    BY <2>7, FlushingAbove
  <2>9. Flushing(stack') => Flushing(stack)
    BY <1>2, <2>3, <2>6, <2>8 DEF d, r
  <2> QED
    BY <1>1, <2>1, <2>9
<1>11. CASE RunFailQueue \/ RunReplied
  BY <1>11 DEF RunFailQueue, RunReplied, LaunchFailed, Calm
<1>12. CASE RunFlush
  <2>1. Running("flush") /\ UNCHANGED <<launching, born>>
    BY <1>12 DEF RunFlush
  <2>2. stack = <<Head(stack)>> \o t /\ Head(stack).op = "flush"
    BY <1>0, <2>1, HeadTailProperties DEF Running
  <2>3. Flushing(stack)
    BY <1>0, <2>2, FlushingOnTop
  <2> QED
    BY <2>1, <2>3 DEF Calm
<1>13. CASE RunFlushed
  <2>1. Running("flushed")
    BY <1>13 DEF RunFlushed
  <2>2. stack = <<Head(stack)>> \o t /\ Head(stack).op = "flushed" /\ Ends(t)
    BY <1>0, <2>1, HeadTailProperties, TopShape DEF Running, Orderly
  <2>3. ~launching
    BY <1>0, <2>2, FlushingOnTop DEF Calm
  <2>4. CASE ret
    BY <1>13, <2>3, <2>4 DEF RunFlushed, Calm
  <2>5. CASE ~ret
    <3>1. stack' = t
      BY <1>13, <2>5 DEF RunFlushed
    <3>2. ~Flushing(stack')
      BY <1>0, <2>2, <3>1, WalkUnder
    <3> QED
      BY <2>3, <3>2 DEF Calm
  <2> QED
    BY <2>4, <2>5
<1>14. CASE RunRedeliver
  <2>1. Running("redeliver") /\ UNCHANGED <<launching, born>>
    BY <1>14 DEF RunRedeliver
  <2>2. Head(stack).todo \subseteq Msg
    BY <1>0, <2>1, FramesRead DEF Running
  <2>3. CASE stack' = t
    BY <1>1, <1>2, <2>1, <2>3
  <2>4. ASSUME NEW x \in Head(stack).todo,
               stack' = <<Deliver(x), Requeue(x), Redeliver(Head(stack).todo \ {x})>> \o t
        PROVE  Flushing(stack') => Flushing(stack)
    <3>1. /\ Deliver(x) \in Frame /\ Deliver(x).op = "deliver"
          /\ Requeue(x) \in Frame /\ Requeue(x).op = "requeue"
      BY <2>2, FramesMade DEF Deliver, Requeue
    <3>2. PICK e \in Frame : e = Redeliver(Head(stack).todo \ {x})
      BY <2>2, FramesMade
    <3>3. e.op = "redeliver"
      BY <3>2 DEF Redeliver
    <3> HIDE DEF t
    <3>4. <<e>> \o t \in Seq(Frame) /\ <<Requeue(x)>> \o (<<e>> \o t) \in Seq(Frame)
      BY <1>0, <3>1, Push
    <3>5. <<Deliver(x), Requeue(x), e>> \o t = <<Deliver(x)>> \o (<<Requeue(x)>> \o (<<e>> \o t))
      BY <1>0, <3>1, PushMore, ZenonT(30)
    <3>6. stack' = <<Deliver(x)>> \o (<<Requeue(x)>> \o (<<e>> \o t))
      BY <2>4, <3>2, <3>5
    <3>7. Flushing(stack') => Flushing(<<Requeue(x)>> \o (<<e>> \o t))
      BY <3>1, <3>4, <3>6, FlushingAbove
    <3>8. Flushing(<<Requeue(x)>> \o (<<e>> \o t)) => Flushing(<<e>> \o t)
      BY <3>1, <3>4, FlushingAbove
    <3>9. Flushing(<<e>> \o t) => Flushing(t)
      BY <1>0, <3>3, FlushingAbove
    <3> QED
      BY <1>2, <3>7, <3>8, <3>9
  <2> QED
    BY <1>1, <1>14, <2>1, <2>3, <2>4 DEF RunRedeliver
<1> QED
  BY <1>4, <1>5, <1>6, <1>7, <1>8, <1>9, <1>10, <1>11, <1>12, <1>13, <1>14 DEF Run

\* What clients do, RPCs, the main loop and signals launch nothing.
LEMMA OthersCalm ==
    ASSUME TypeOK, Orderly, Calm,
           AskSend \/ (\E p \in Proc : Process(p)) \/ Loop \/ Traffic \/ Sigchld \/ UNCHANGED vars
    PROVE  Calm' /\ born' = born
<1> USE DEF procVars, loopVars, ptypeVars, clientVars, msgVars
<1>1. CASE AskSend
  BY <1>1 DEF AskSend, Ask, Calm
<1>2. ASSUME NEW p \in Proc, Process(p) PROVE Calm' /\ born' = born
  <2>1. UNCHANGED <<launching, born, stack>>
    BY <1>2 DEF Process, AskConnect, AskRegister, AskNext, AskAccept, AskUpdate, Exit, Ask
  <2> QED
    BY <2>1 DEF Calm
<1>3. CASE Loop
  BY <1>3 DEF Loop, Clear, Notified, Notify, Test, Poll, LoopKeeps, LaunchFailed, Calm
<1>4. CASE Sigchld \/ UNCHANGED vars
  BY <1>4 DEF Sigchld, vars, Calm
<1>5. CASE Traffic
  <2>1. UNCHANGED <<launching, born>>
    BY <1>5 DEF Traffic, ServeSend, ServeRpc, ServeConnect, ServeRegister, ServeNext, ServeAccept,
                ServeUpdate, Hangup, Serve
  <2>2. ASSUME NEW f \in Frame, f.op \notin {"flush", "flushed"} PROVE ~Flushing(<<f>>)
    <3>1. <<f>> \in Seq(Frame) /\ Head(<<f>>) = f /\ Tail(<<f>>) = << >>
      BY OneFrame
    <3>2. ~Flushing(<< >>)
      BY DEF Flushing
    <3> QED
      BY <2>2, <3>1, <3>2, FlushingBelow
  <2>3. ~Flushing(<< >>)
    BY DEF Flushing
  <2>4. CASE ServeSend
    <3> DEFINE f == Deliver(Head(rpc[Sender]).msg)
    <3>1. stack' = <<f>> /\ Sender \in Proc /\ rpc[Sender] # << >> /\ Head(rpc[Sender]).call = "send"
      BY <2>4, PtypeAssumption DEF ServeSend, Serve, Proc
    <3>2. Head(rpc[Sender]) \in Call
      BY <3>1, HeadTailProperties DEF TypeOK
    <3>3. f \in Frame /\ f.op = "deliver"
      BY <3>1, <3>2, FramesMade DEF Deliver, Call
    <3> HIDE DEF f
    <3> QED
      BY <2>1, <2>2, <3>1, <3>3 DEF Calm
  <2>5. ASSUME NEW p \in Proc, ServeRpc(p) \/ Hangup(p) PROVE ~Flushing(stack')
    <3>1. CASE ServeConnect(p)
      <4>1. stack' = << >> \/ stack' = <<Started(p)>>
        BY <3>1 DEF ServeConnect, Serve, Waiting
      <4>2. Started(p) \in Frame /\ Started(p).op = "started"
        BY FramesMade DEF Started
      <4> QED
        BY <2>2, <2>3, <4>1, <4>2
    <3>2. CASE ServeRegister(p)
      <4>1. stack' = <<Redeliver(queued)>> /\ Redeliver(queued) \in Frame /\ Redeliver(queued).op = "redeliver"
        BY <3>2, FramesMade DEF ServeRegister, Redeliver, TypeOK
      <4> QED
        BY <2>2, <4>1
    <3>3. CASE ServeNext(p)
      BY <2>3, <3>3 DEF ServeNext, Serve, Waiting
    <3>4. CASE ServeAccept(p)
      <4>1. stack' = <<Replied>> /\ Replied \in Frame /\ Replied.op = "replied"
        BY <3>4, FramesMade DEF ServeAccept, Replied
      <4> QED
        BY <2>2, <4>1
    <3>5. CASE Hangup(p)
      <4>1. stack' = <<Deactivate(p)>> /\ Deactivate(p) \in Frame /\ Deactivate(p).op = "deactivate"
        BY <3>5, FramesMade DEF Hangup, Deactivate
      <4> QED
        BY <2>2, <4>1
    <3>6. CASE ServeUpdate(p)
      <4> DEFINE u == Head(rpc[p])
                 f == Update(p, u.msg, u.to)
      <4>1. u \in Call /\ u.call = "update"
        BY <3>6, HeadTailProperties DEF ServeUpdate, Serve, TypeOK
      <4>2. u.msg \in Msg /\ u.to \in {"REJECTED"} \cup Final
        BY <4>1 DEF Call
      <4>3. /\ f \in Frame /\ f.op = "update"
            /\ Replied \in Frame /\ Replied.op = "replied"
        BY <4>2, FramesMade DEF Update, Replied
      <4>4. stack' = IF p \notin known THEN << >> ELSE (IF u.start THEN <<Replied>> ELSE << >>) \o <<f>>
        BY <3>6 DEF ServeUpdate
      <4> HIDE DEF f, u
      <4>5. <<f>> \in Seq(Frame) /\ << >> \o <<f>> = <<f>> /\ ~Flushing(<<f>>)
        BY <2>2, <4>3
      <4>6. ~Flushing(<<Replied>> \o <<f>>)
        BY <4>3, <4>5, FlushingAbove
      <4>7. stack' = << >> \/ stack' = <<f>> \/ stack' = <<Replied>> \o <<f>>
        BY <4>4, <4>5
      <4> QED
        BY <2>3, <4>5, <4>6, <4>7
    <3> QED
      BY <2>5, <3>1, <3>2, <3>3, <3>4, <3>5, <3>6 DEF ServeRpc
  <2> QED
    BY <1>5, <2>1, <2>4, <2>5 DEF Traffic, Calm
<1> QED
  BY <1>1, <1>2, <1>3, <1>4, <1>5

\* An instance is launched only when none is being launched.
THEOREM LaunchedOnceAlways == Spec => LaunchedOnce
<1>1. Init => Calm
  BY DEF Init, Calm
<1>2. TypeOK /\ (Orderly /\ Places) /\ Calm /\ [Next]_vars => Calm' /\ [born' # born => ~launching]_vars
  <2> SUFFICES ASSUME TypeOK, Orderly, Calm, [Next]_vars
               PROVE  Calm' /\ (born' # born => ~launching)
    OBVIOUS
  <2>1. Run \/ AskSend \/ (\E p \in Proc : Process(p)) \/ Loop \/ Traffic \/ Sigchld \/ UNCHANGED vars
    BY DEF Next, Server
  <2> QED
    BY <2>1, RunCalm, OthersCalm
<1> QED
  BY <1>1, <1>2, PlacesAlways, PtypeTypeCorrect, PTL DEF Spec, LaunchedOnce

=============================================================================
