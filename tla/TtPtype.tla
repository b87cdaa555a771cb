------------------------------- MODULE TtPtype -------------------------------
(***************************************************************************)
(* Starting applications in a ToolTalk session.  A request for a process   *)
(* type (ptype) whose disposition is TT_START, and that no client handles, *)
(* makes ttsession fork an instance of the ptype; the request waits on the *)
(* ptype until the instance connects, and the requests that follow it wait *)
(* until the instance has accepted or answered the first.                  *)
(* Sources: slib/mp_ptype.C, slib/mp_s_procid.C, slib/mp_s_message.C,      *)
(* slib/mp_s_session.C, slib/mp_s_mp.C, slib/mp_rpc_server.C and           *)
(* bin/ttsession/mp_server.C under src/cde/lib/tt.                         *)
(*                                                                         *)
(* The main loop of the server is spelt out, since the exit of an instance *)
(* reaches it through a signal handler.  One ptype is modelled.  Clients   *)
(* that observe, and what the sender of a request is told, are left to     *)
(* TtSession; a message put in a client's list is taken to be signalled    *)
(* (TtSession!Wakeup).                                                     *)
(***************************************************************************)
EXTENDS Naturals, Sequences, SequencesExt

CONSTANTS
    Inst,           \* processes ttsession may fork as instances of the ptype
    User,           \* processes started by the user, connected from the start
    Sender,         \* the user's process that sends the requests
    NoProc,         \* the null procid, and the pid before the first launch
    Msg,            \* the requests, of disposition TT_START
    AlsoQueued,     \* those of disposition TT_QUEUE + TT_START
    Mortal,         \* the processes that may exit at any moment
    Answers,        \* how processes answer
    Accepts,        \* processes may call tt_message_accept
    ForkFails,      \* fork may fail
    Coalesce,       \* an instance may exit while a SIGCHLD is still pending
    MaxPids,        \* MAXPIDS: slots of the failed_procs ring
    MaxPending      \* bound: the RPCs of a client that wait to be served

Proc  == Inst \cup User
Final == {"FAILED", "HANDLED"}
State == {"CREATED", "SENT", "STARTED", "QUEUED"} \cup Final
Slot  == 0 .. MaxPids - 1

Call == [call : {"connect", "register", "next", "accept"}]
          \cup [call : {"send"}, msg : Msg]
          \cup [call : {"update"}, msg : Msg, to : {"REJECTED"} \cup Final, start : BOOLEAN]

\* The frames of the call stack, one per function that may be suspended.
Frame == [op : {"deliver", "requeue", "flushed"}, msg : Msg]
           \cup [op : {"change"}, msg : Msg, to : {"REJECTED"} \cup Final]
           \cup [op : {"started", "deactivate"}, proc : Proc]
           \cup [op : {"replied", "flush", "failqueue"}]
           \cup [op : {"update"}, proc : Proc, msg : Msg, to : {"REJECTED"} \cup Final]
           \cup [op : {"redeliver"}, todo : SUBSET Msg]

ASSUME PtypeAssumption ==
    /\ Inst \cap User = {}
    /\ NoProc \notin Inst \cup User
    /\ Sender \in User \ Mortal
    /\ AlsoQueued \subseteq Msg
    /\ Answers \subseteq {"REJECTED"} \cup Final
    /\ Accepts \in BOOLEAN /\ ForkFails \in BOOLEAN /\ Coalesce \in BOOLEAN
    /\ MaxPids \in Nat \ {0, 1}
    /\ MaxPending \in Nat \ {0}

VARIABLES
    \* the processes
    born,           \* the instances forked so far
    alive,          \* the processes that run
    asked,          \* what each process has asked for and asks for once
    startCopies,    \* the start messages each process has read
    rpc,            \* the RPCs of each client not served yet, oldest first
    zombies,        \* the instances that exited and were not waited for
    sigchld,        \* SIGCHLD is pending
    \* the main loop of ttsession
    pc,             \* where the main loop is
    exitMainLoop,   \* exit_main_loop
    failedProcs, fin, fout,     \* the ring of exited children
    \* the ptype
    launching,      \* _launching
    startPid,       \* _start_pid
    ptypeQueue,     \* _queued_messages of the ptype
    \* the clients, as the server sees them
    known,          \* active_procs
    watched,        \* _active_fds: channels whose loss the main loop sees
    active,         \* the procids that are active
    registered,     \* the procids with handler patterns of the ptype
    undelivered,    \* _undelivered, a list per procid
    delivered,      \* _delivered, the requests each procid owes an update for
    \* the requests
    state, handler, tried, reported,
    isStart,        \* _TT_MSG_IS_START_MSG, in the server's copy
    queued,         \* _queued_messages of the session
    stack, ret      \* call stack of the server, result of the last call

procVars   == <<born, alive, asked, startCopies, rpc, zombies, sigchld>>
loopVars   == <<pc, exitMainLoop, failedProcs, fin, fout>>
ptypeVars  == <<launching, startPid, ptypeQueue>>
clientVars == <<known, watched, active, registered, undelivered, delivered>>
msgVars    == <<state, handler, tried, reported, isStart>>
vars == <<born, alive, asked, startCopies, rpc, zombies, sigchld,
          pc, exitMainLoop, failedProcs, fin, fout,
          launching, startPid, ptypeQueue,
          known, watched, active, registered, undelivered, delivered,
          state, handler, tried, reported, isStart, queued, stack, ret>>

Init ==
    /\ born = {} /\ alive = User
    /\ asked = [p \in Proc |-> {}]
    /\ startCopies = [p \in Proc |-> {}]
    /\ rpc = [p \in Proc |-> << >>]
    /\ zombies = {} /\ sigchld = FALSE
    /\ pc = "clear"
    /\ exitMainLoop = FALSE
    /\ failedProcs = [i \in Slot |-> NoProc] /\ fin = 0 /\ fout = 0
    /\ launching = FALSE /\ startPid = NoProc /\ ptypeQueue = << >>
    /\ known = User /\ watched = User /\ active = User
    /\ registered = {}
    /\ undelivered = [p \in Proc |-> << >>]
    /\ delivered = [p \in Proc |-> {}]
    /\ state = [m \in Msg |-> "CREATED"]
    /\ handler = [m \in Msg |-> NoProc]
    /\ tried = [m \in Msg |-> {}]
    /\ reported = [m \in Msg |-> {}]
    /\ isStart = [m \in Msg |-> FALSE]
    /\ queued = {}
    /\ stack = << >> /\ ret = TRUE

-----------------------------------------------------------------------------
(* Frames of the call stack. *)

Deliver(m)    == [op |-> "deliver", msg |-> m]
Requeue(m)    == [op |-> "requeue", msg |-> m]
Flushed(m)    == [op |-> "flushed", msg |-> m]
Change(m, s)  == [op |-> "change", msg |-> m, to |-> s]
Started(p)    == [op |-> "started", proc |-> p]
Deactivate(p) == [op |-> "deactivate", proc |-> p]
Replied       == [op |-> "replied"]
Flush         == [op |-> "flush"]
FailQueue     == [op |-> "failqueue"]
Update(p, m, s) == [op |-> "update", proc |-> p, msg |-> m, to |-> s]
Redeliver(ms) == [op |-> "redeliver", todo |-> ms]

Running(op) == stack # << >> /\ Head(stack).op = op

\* _Tt_procid::processing: p handles m, and m is not final.
Processing(p, m) == state[m] \notin Final /\ handler[m] = p

-----------------------------------------------------------------------------
(* Processes. *)

\* A client waits for the reply of an RPC, unless it sends or updates.
OneWay == {"send", "update"}

\* The server is blocked in select.
Waiting == pc = "wait" /\ stack = << >>

\* What a live client asks for does not depend on what the server is doing, and
\* is not looked at before the next select: it is enough to let clients ask
\* while the server waits.  They exit at any time.
Ask(p, call) ==
    /\ Waiting
    /\ p \in alive
    /\ Len(rpc[p]) < MaxPending
    /\ \A i \in DOMAIN rpc[p] : rpc[p][i].call \in OneWay
    /\ rpc' = [rpc EXCEPT ![p] = Append(@, call)]
    /\ UNCHANGED <<born, alive, startCopies, zombies, sigchld, loopVars, ptypeVars,
                   clientVars, msgVars, queued, stack, ret>>

Once(p, what) ==
    /\ what \notin asked[p]
    /\ asked' = [asked EXCEPT ![p] = @ \cup {what}]

AskSend ==
    \E m \in Msg :
        /\ state[m] = "CREATED"
        /\ [call |-> "send", msg |-> m] \notin ToSet(rpc[Sender])
        /\ Ask(Sender, [call |-> "send", msg |-> m])
        /\ UNCHANGED asked

\* tt_open and tt_fd: a started process hands the start token back.
AskConnect(p) ==
    /\ p \in born /\ Once(p, "connect")
    /\ Ask(p, [call |-> "connect"])

\* tt_ptype_declare and tt_session_join.
AskRegister(p) ==
    /\ p \in User \/ "connect" \in asked[p]
    /\ Once(p, "register")
    /\ Ask(p, [call |-> "register"])

\* tt_message_receive; the user's processes also look when there is nothing.
AskNext(p) ==
    /\ undelivered[p] # << >> \/ p \in User
    /\ Ask(p, [call |-> "next"])
    /\ UNCHANGED asked

\* tt_message_accept of a start message unblocks the ptype, and leaves the
\* message as it is, which may be answered already.
AskAccept(p) ==
    /\ Accepts /\ startCopies[p] # {}
    /\ Once(p, "accept")
    /\ Ask(p, [call |-> "accept"])

\* tt_message_reply, tt_message_fail or tt_message_reject, once.
AskUpdate(p) ==
    /\ \E m \in delivered[p], s \in Answers :
          /\ \A i \in DOMAIN rpc[p] : rpc[p][i].call = "update" => rpc[p][i].msg # m
          /\ Ask(p, [call |-> "update", msg |-> m, to |-> s,
                     start |-> m \in startCopies[p]])
    /\ UNCHANGED asked

\* A process exits or crashes; of an instance the server is signalled.
Exit(p) ==
    /\ p \in Mortal \cap alive
    /\ p \in Inst => Coalesce \/ ~sigchld
    /\ alive' = alive \ {p}
    /\ IF p \in Inst THEN zombies' = zombies \cup {p} /\ sigchld' = TRUE
                     ELSE UNCHANGED <<zombies, sigchld>>
    /\ UNCHANGED <<born, asked, startCopies, rpc, loopVars, ptypeVars, clientVars,
                   msgVars, queued, stack, ret>>

Process(p) == \/ AskConnect(p) \/ AskRegister(p) \/ AskNext(p)
              \/ AskAccept(p) \/ AskUpdate(p) \/ Exit(p)

-----------------------------------------------------------------------------
(* Delivery. *)

\* add_message: a message in the list moves to its end, without a byte.  A dead
\* process may still be sent one; if that fails it is deactivated at once.  ok
\* and bad are the stacks to go on with.
AddMessage(p, m, ok, bad) ==
    LET list == undelivered[p] IN
    \/ \E i \in DOMAIN list :
          /\ list[i] = m
          /\ undelivered' = [undelivered EXCEPT ![p] = Append(RemoveAt(list, i), m)]
          /\ stack' = ok
    \/ /\ m \notin ToSet(list)
       /\ undelivered' = [undelivered EXCEPT ![p] = Append(list, m)]
       /\ stack' = ok \/ (p \notin alive /\ stack' = <<Deactivate(p)>> \o bad)

\* A pattern of p may match m: m seeks a handler, and p was not tried.
Willing(p, m) == p \in registered \cap active /\ state[m] = "SENT" /\ p \notin tried[m]

\* deliver finds a handler; which one, is the choice of the pattern scores.
DeliverToHandler ==
    /\ Running("deliver")
    /\ LET m == Head(stack).msg IN
       \E p \in Proc :
          /\ Willing(p, m)
          /\ handler' = [handler EXCEPT ![m] = p]
          /\ ret' = TRUE
          /\ AddMessage(p, m, Tail(stack), stack)
    /\ UNCHANGED <<procVars, loopVars, ptypeVars, known, watched, active, registered,
                   delivered, state, tried, reported, isStart, queued>>

\* Nobody is willing, or the walk ended at the pattern of an inactive procid.
NobodyFound(m) ==
    \/ \A p \in Proc : ~Willing(p, m)
    \/ registered \ active # {}

\* A request that is not looking for a handler is left alone.
DeliverInVain ==
    /\ Running("deliver")
    /\ state[Head(stack).msg] # "SENT"
    /\ ret' = TRUE
    /\ stack' = Tail(stack)
    /\ UNCHANGED <<procVars, loopVars, ptypeVars, clientVars, msgVars, queued>>

\* Faulty: the pid is not recorded.
LaunchForgets ==
    /\ launching' = TRUE
    /\ \E p \in Inst \ born :
          /\ born' = born \cup {p} /\ alive' = alive \cup {p}
    /\ UNCHANGED <<startPid, asked, startCopies, rpc, zombies, sigchld>>

\* launch: fork an instance.  _launching is set before the fork.
Launch ==
    /\ launching' = TRUE
    /\ \E p \in Inst \ born :
          /\ born' = born \cup {p} /\ alive' = alive \cup {p}
          /\ startPid' = p
    /\ UNCHANGED <<asked, startCopies, rpc, zombies, sigchld>>

LaunchFails ==
    /\ ForkFails
    /\ launching' = TRUE
    /\ UNCHANGED <<startPid, procVars>>

\* handle_no_recipients: a request that has been started is not started again.
NotAgain ==
    /\ Running("deliver")
    /\ LET m == Head(stack).msg
       IN state[m] = "SENT" /\ NobodyFound(m) /\ "STARTED" \in reported[m]
    /\ ret' = FALSE
    /\ stack' = Tail(stack)
    /\ UNCHANGED <<procVars, loopVars, ptypeVars, clientVars, msgVars, queued>>

\* Faulty: an instance is launched for every request.
AlwaysLaunch == TRUE

\* start: only the first request in the ptype's queue launches an instance.
FirstInLine == ~launching /\ ptypeQueue = << >>

\* A request not started yet, or rejected since, is put in the ptype's queue,
\* and in the session's if it is of disposition TT_QUEUE and was not before.
Start ==
    /\ Running("deliver")
    /\ LET m == Head(stack).msg
           also == m \in AlsoQueued /\ "QUEUED" \notin reported[m]
           last == IF also THEN "QUEUED" ELSE "STARTED"
       IN /\ state[m] = "SENT" /\ NobodyFound(m) /\ "STARTED" \notin reported[m]
          /\ ptypeQueue' = Append(ptypeQueue, m)
          /\ reported' = [reported EXCEPT ![m] = @ \cup {"STARTED", last}]
          /\ state' = [state EXCEPT ![m] = last]
          /\ queued' = IF also THEN queued \cup {m} ELSE queued
    /\ IF FirstInLine THEN Launch ELSE UNCHANGED <<procVars, launching, startPid>>
    /\ ret' = FALSE
    /\ stack' = Tail(stack)
    /\ UNCHANGED <<loopVars, clientVars, handler, tried, isStart>>

\* The launch fails: the request leaves the queue, and fails.
StartFails ==
    /\ Running("deliver") /\ FirstInLine
    /\ LET m == Head(stack).msg
       IN /\ state[m] = "SENT" /\ NobodyFound(m) /\ "STARTED" \notin reported[m]
          /\ reported' = [reported EXCEPT ![m] = @ \cup {"STARTED"}]
          /\ stack' = <<Change(m, "FAILED")>> \o Tail(stack)
    /\ LaunchFails
    /\ ret' = FALSE
    /\ UNCHANGED <<loopVars, ptypeQueue, clientVars, state, handler, tried, isStart, queued>>

-----------------------------------------------------------------------------
(* State changes, and the loss of a client. *)

\* change_state to a final state, entered once.
ChangeFinal ==
    /\ Running("change") /\ Head(stack).to \in Final
    /\ LET m == Head(stack).msg
           s == Head(stack).to
       IN IF s \in reported[m]
          THEN UNCHANGED <<state, reported>>
          ELSE /\ state' = [state EXCEPT ![m] = s]
               /\ reported' = [reported EXCEPT ![m] = @ \cup {s}]
    /\ stack' = Tail(stack)
    /\ UNCHANGED <<procVars, loopVars, ptypeVars, clientVars, handler, tried, isStart,
                   queued, ret>>

\* The state of a request that seeks another handler.
SoughtAgain == "SENT"

\* A rejected request may be started again.
ForgetStarted(s) == s \ {"STARTED"}

\* rejected: another handler is sought, or another instance is started.
ChangeRejected ==
    /\ Running("change") /\ Head(stack).to = "REJECTED"
    /\ LET m == Head(stack).msg
       IN /\ IF handler[m] = NoProc
             THEN UNCHANGED <<tried, reported>>
             ELSE /\ tried' = [tried EXCEPT ![m] = @ \cup {handler[m]}]
                  /\ reported' = [reported EXCEPT ![m] = ForgetStarted(@)]
          /\ handler' = [handler EXCEPT ![m] = NoProc]
          /\ state' = [state EXCEPT ![m] = SoughtAgain]
          /\ stack' = <<Deliver(m)>> \o Tail(stack)
    /\ UNCHANGED <<procVars, loopVars, ptypeVars, clientVars, isStart, queued, ret>>

\* The requests a list or a set of requests fails, each once.
FailAll(ms) ==
    LET failing == {m \in ms : "FAILED" \notin reported[m]}
    IN /\ state' = [m \in Msg |-> IF m \in failing THEN "FAILED" ELSE state[m]]
       /\ reported' = [m \in Msg |-> IF m \in failing THEN reported[m] \cup {"FAILED"}
                                                      ELSE reported[m]]

\* Faulty: only what p has not read yet fails.
UnreadOf(p) == {m \in ToSet(undelivered[p]) : Processing(p, m)}

\* The requests p was to handle, read or not.
OwedBy(p) == {m \in ToSet(undelivered[p]) : Processing(p, m)} \cup delivered[p]

\* deactivate: see TtSession for what happens on the way.
RunDeactivate ==
    /\ Running("deactivate")
    /\ LET p == Head(stack).proc
           all == ToSet(undelivered[p]) \cup delivered[p]
       IN IF p \in active
          THEN /\ FailAll(OwedBy(p))
               /\ tried' = [m \in Msg |-> IF m \in all THEN tried[m] \ {p} ELSE tried[m]]
               /\ undelivered' = [undelivered EXCEPT ![p] = << >>]
               /\ delivered' = [delivered EXCEPT ![p] = {}]
               /\ active' = active \ {p}
               /\ watched' = watched \ {p}
               /\ registered' = registered \ {p}
          ELSE UNCHANGED <<state, reported, tried, undelivered, delivered, active,
                           watched, registered>>
    /\ stack' = Tail(stack)
    /\ UNCHANGED <<procVars, loopVars, ptypeVars, known, handler, isStart, queued, ret>>

-----------------------------------------------------------------------------
(* The ptype. *)

\* Faulty: the request stays in the queue.
Peek == UNCHANGED ptypeQueue

\* The first request, if there is one, leaves the queue.
Dequeue == ptypeQueue' = IF ptypeQueue = << >> THEN << >> ELSE Tail(ptypeQueue)

\* Faulty: nobody is to unblock the ptype.
Unmarked(m) == UNCHANGED isStart

\* set_start_message: the answer to m unblocks the ptype.
Marked(m) == isStart' = [isStart EXCEPT ![m] = TRUE]

\* proc_started: the first request in the queue is given to the process that
\* connected with the start token; if that fails, so do all the others.
RunStarted ==
    /\ Running("started")
    /\ LET p == Head(stack).proc
           m == Head(ptypeQueue)
       IN IF ptypeQueue = << >>
          THEN stack' = Tail(stack) /\ UNCHANGED <<ptypeQueue, handler, isStart, undelivered>>
          ELSE /\ Dequeue
               /\ handler' = [handler EXCEPT ![m] = p]
               /\ Marked(m)
               /\ AddMessage(p, m, Tail(stack), <<FailQueue>> \o Tail(stack))
    /\ UNCHANGED <<procVars, loopVars, launching, startPid, known, watched, active,
                   registered, delivered, state, tried, reported, queued, ret>>

\* launch_failed: what waits on the ptype fails.
LaunchFailed ==
    /\ FailAll(ToSet(ptypeQueue))
    /\ ptypeQueue' = << >>
    /\ launching' = FALSE

RunFailQueue ==
    /\ Running("failqueue")
    /\ LaunchFailed
    /\ stack' = Tail(stack)
    /\ UNCHANGED <<procVars, loopVars, startPid, clientVars, handler, tried, isStart,
                   queued, ret>>

\* proc_replied: the instance has accepted or answered its start message.
RunReplied ==
    /\ Running("replied")
    /\ launching' = FALSE
    /\ stack' = IF launching THEN <<Flush>> \o Tail(stack) ELSE Tail(stack)
    /\ UNCHANGED <<procVars, loopVars, startPid, ptypeQueue, clientVars, msgVars, queued, ret>>

\* The requests in the ptype's queue are delivered in order ...
RunFlush ==
    /\ Running("flush")
    /\ LET m == Head(ptypeQueue)
       IN IF ptypeQueue = << >>
          THEN stack' = Tail(stack) /\ UNCHANGED state
          ELSE /\ state' = [state EXCEPT ![m] = "SENT"]
               /\ stack' = <<Deliver(m), Flushed(m)>> \o Tail(stack)
    /\ UNCHANGED <<procVars, loopVars, ptypeVars, clientVars, handler, tried, reported,
                   isStart, queued, ret>>

\* Faulty: nothing is launched for the requests that are left.
NoRelaunch == launching' = FALSE /\ UNCHANGED <<startPid, procVars>>

\* The flag is set even if the fork has failed.
Relaunch == Launch \/ LaunchFails

\* ... until one finds no handler: another instance is launched for it.
RunFlushed ==
    /\ Running("flushed")
    /\ IF ret
       THEN /\ Dequeue
            /\ stack' = <<Flush>> \o Tail(stack)
            /\ UNCHANGED <<launching, startPid, procVars>>
       ELSE /\ Relaunch
            /\ stack' = Tail(stack)
            /\ UNCHANGED ptypeQueue
    /\ UNCHANGED <<loopVars, clientVars, msgVars, queued, ret>>

\* pattern_added: the requests in the session's queue are offered again.
RunRedeliver ==
    /\ Running("redeliver")
    /\ LET todo == Head(stack).todo
       IN \/ todo = {} /\ stack' = Tail(stack) /\ UNCHANGED state
          \/ \E m \in todo :
                /\ state' = [state EXCEPT ![m] = "SENT"]
                /\ stack' = <<Deliver(m), Requeue(m), Redeliver(todo \ {m})>> \o Tail(stack)
    /\ UNCHANGED <<procVars, loopVars, ptypeVars, clientVars, handler, tried, reported,
                   isStart, queued, ret>>

RunRequeue ==
    /\ Running("requeue")
    /\ LET m == Head(stack).msg
       IN IF ret THEN queued' = queued \ {m} /\ UNCHANGED state
                 ELSE state' = [state EXCEPT ![m] = "QUEUED"] /\ UNCHANGED queued
    /\ stack' = Tail(stack)
    /\ UNCHANGED <<procVars, loopVars, ptypeVars, clientVars, handler, tried, reported,
                   isStart, ret>>

-----------------------------------------------------------------------------
(* RPCs of the clients. *)

\* select returns and svc_getreqset serves an RPC.  One is served at a time:
\* an exit recorded before others that select has found too may as well be
\* recorded after them.
Serve(p, name) ==
    /\ Waiting
    /\ rpc[p] # << >> /\ Head(rpc[p]).call = name
    /\ rpc' = [rpc EXCEPT ![p] = Tail(@)]
    /\ pc' = "test"
    /\ UNCHANGED <<born, alive, asked, zombies, sigchld, exitMainLoop,
                   failedProcs, fin, fout, ptypeVars, queued, ret>>

\* set_fd_channel: ttsession connects to the client's socket, which a process
\* that has died no longer has, and activates the procid.
ServeConnect(p) ==
    /\ Serve(p, "connect")
    /\ known' = known \cup {p}
    /\ IF p \in alive
       THEN /\ watched' = watched \cup {p} /\ active' = active \cup {p}
            /\ stack' = <<Started(p)>>
       ELSE UNCHANGED <<watched, active, stack>>
    /\ UNCHANGED <<startCopies, registered, undelivered, delivered, msgVars>>

\* declare_ptype and s_join; the former offers what is queued to all, even if p
\* is not active.
ServeRegister(p) ==
    /\ Serve(p, "register")
    /\ known' = known \cup {p}
    /\ registered' = registered \cup {p}
    /\ stack' = <<Redeliver(queued)>>
    /\ UNCHANGED <<startCopies, watched, active, undelivered, delivered, msgVars>>

\* dispatch.
ServeSend ==
    /\ Serve(Sender, "send")
    /\ LET m == Head(rpc[Sender]).msg
       IN state' = [state EXCEPT ![m] = "SENT"] /\ stack' = <<Deliver(m)>>
    /\ UNCHANGED <<startCopies, clientVars, handler, tried, reported, isStart>>

\* next_message: a request p is to handle is remembered as delivered.
ServeNext(p) ==
    /\ Serve(p, "next")
    /\ LET list == undelivered[p]
           m    == Head(list)
           owes == list # << >> /\ Processing(p, m)
       IN /\ undelivered' = IF list = << >> THEN undelivered
                            ELSE [undelivered EXCEPT ![p] = Tail(@)]
          /\ delivered' = IF owes THEN [delivered EXCEPT ![p] = @ \cup {m}] ELSE delivered
          /\ startCopies' = IF owes /\ isStart[m]
                            THEN [startCopies EXCEPT ![p] = @ \cup {m}] ELSE startCopies
    /\ UNCHANGED <<known, watched, active, registered, msgVars, stack>>

\* unblock_ptype.
ServeAccept(p) ==
    /\ Serve(p, "accept")
    /\ known' = known \cup {p}
    /\ stack' = <<Replied>>
    /\ UNCHANGED <<startCopies, watched, active, registered, undelivered, delivered, msgVars>>

\* update_message: the ptype is unblocked before the update is looked at.
ServeUpdate(p) ==
    /\ Serve(p, "update")
    /\ LET u == Head(rpc[p])
       IN stack' = IF p \notin known THEN << >>
                   ELSE (IF u.start THEN <<Replied>> ELSE << >>) \o <<Update(p, u.msg, u.to)>>
    /\ UNCHANGED <<startCopies, clientVars, msgVars>>

\* Only a request p owes an update for changes.
RunUpdate ==
    /\ Running("update")
    /\ LET p == Head(stack).proc
           m == Head(stack).msg
       IN IF m \in delivered[p]
          THEN /\ delivered' = [delivered EXCEPT ![p] = @ \ {m}]
               /\ stack' = <<Change(m, Head(stack).to)>> \o Tail(stack)
          ELSE /\ stack' = Tail(stack)
               /\ UNCHANGED delivered
    /\ UNCHANGED <<procVars, loopVars, ptypeVars, known, watched, active, registered,
                   undelivered, msgVars, queued, ret>>

ServeRpc(p) == \/ ServeConnect(p) \/ ServeRegister(p) \/ ServeNext(p)
               \/ ServeAccept(p) \/ ServeUpdate(p)

\* The server runs its topmost frame.
Run == \/ DeliverToHandler \/ DeliverInVain \/ NotAgain \/ Start \/ StartFails
       \/ ChangeFinal \/ ChangeRejected \/ RunDeactivate \/ RunUpdate
       \/ RunStarted \/ RunFailQueue \/ RunReplied \/ RunFlush \/ RunFlushed
       \/ RunRedeliver \/ RunRequeue

-----------------------------------------------------------------------------
(* The main loop. *)

NextSlot(i) == (i + 1) % MaxPids

Goto(from, to) == pc = from /\ stack = << >> /\ pc' = to

LoopKeeps == UNCHANGED <<procVars, ptypeVars, clientVars, msgVars, queued, stack, ret>>

\* exit_main_loop = 0.
Clear ==
    /\ Goto("clear", "check")
    /\ exitMainLoop' = FALSE
    /\ UNCHANGED <<failedProcs, fin, fout>> /\ LoopKeeps

\* notify_start_failure is called twice, before and after exit_main_loop = 0.
Notified ==
    /\ fin = fout
    /\ Goto("check", "test") \/ Goto("bottom", "clear")
    /\ UNCHANGED <<exitMainLoop, failedProcs, fin, fout>> /\ LoopKeeps

\* The instance whose exit was recorded is the one that is being started.
StartFailed(pid) == pid = startPid /\ launching

\* Faulty: the slot to be filled next is read.
Newest == failedProcs[fin]

Oldest == failedProcs[fout]

\* One turn of notify_start_failure.
Notify ==
    /\ pc \in {"check", "bottom"} /\ fin # fout
    /\ fout' = NextSlot(fout)
    /\ IF StartFailed(Oldest) THEN LaunchFailed
       ELSE UNCHANGED <<state, reported, launching, ptypeQueue>>
    /\ UNCHANGED <<procVars, pc, exitMainLoop, failedProcs, fin, startPid,
                   clientVars, handler, tried, isStart, queued, stack, ret>>

\* main_loop, and run_until inside it, go on unless an exit was recorded.
Test ==
    /\ Goto("test", IF ~exitMainLoop /\ fin = fout THEN "poll" ELSE "bottom")
    /\ UNCHANGED <<exitMainLoop, failedProcs, fin, fout>> /\ LoopKeeps

\* run_until enters select, without a timeout.
Poll ==
    /\ Goto("poll", "wait")
    /\ UNCHANGED <<exitMainLoop, failedProcs, fin, fout>> /\ LoopKeeps

\* main_loop gives up a client whose channel was lost, after its RPCs.
Hangup(p) ==
    /\ Waiting
    /\ p \in watched \ alive /\ rpc[p] = << >>
    /\ pc' = "test"
    /\ known' = known \ {p}
    /\ watched' = watched \ {p}
    /\ stack' = <<Deactivate(p)>>
    /\ UNCHANGED <<procVars, exitMainLoop, failedProcs, fin, fout, ptypeVars,
                   active, registered, undelivered, delivered, msgVars, queued, ret>>

Loop == Clear \/ Notified \/ Notify \/ Test \/ Poll

\* sig_handler: one child is waited for and recorded.  A select in progress
\* is interrupted; one that is about to begin is not.
Sigchld ==
    /\ sigchld
    /\ sigchld' = FALSE
    /\ \E p \in zombies :
          /\ zombies' = zombies \ {p}
          /\ failedProcs' = [failedProcs EXCEPT ![fin] = p]
    /\ fin' = NextSlot(fin)
    /\ exitMainLoop' = TRUE
    /\ pc' = IF pc = "wait" THEN "test" ELSE pc
    /\ UNCHANGED <<born, alive, asked, startCopies, rpc, fout, ptypeVars,
                   clientVars, msgVars, queued, stack, ret>>

-----------------------------------------------------------------------------

Traffic == ServeSend \/ \E p \in Proc : ServeRpc(p) \/ Hangup(p)

Server == Run \/ Loop \/ Traffic

Next == \/ Server \/ Sigchld \/ AskSend
        \/ \E p \in Proc \ {Sender} : Process(p)

\* ttsession runs, and signals reach it.  Nothing is assumed of the others.
Fairness == WF_vars(Server) /\ WF_vars(Sigchld)

Spec == Init /\ [][Next]_vars /\ Fairness

-----------------------------------------------------------------------------
(* Properties. *)

TypeOK ==
    /\ born \subseteq Inst /\ alive \subseteq Proc
    /\ asked \in [Proc -> SUBSET {"connect", "register", "accept"}]
    /\ startCopies \in [Proc -> SUBSET Msg]
    /\ rpc \in [Proc -> Seq(Call)]
    /\ zombies \subseteq Inst /\ sigchld \in BOOLEAN
    /\ pc \in {"clear", "check", "test", "poll", "wait", "bottom"}
    /\ exitMainLoop \in BOOLEAN
    /\ failedProcs \in [Slot -> Inst \cup {NoProc}]
    /\ fin \in Slot /\ fout \in Slot
    /\ launching \in BOOLEAN /\ startPid \in Inst \cup {NoProc}
    /\ ptypeQueue \in Seq(Msg)
    /\ known \subseteq Proc /\ watched \subseteq Proc /\ active \subseteq Proc
    /\ registered \subseteq Proc
    /\ undelivered \in [Proc -> Seq(Msg)]
    /\ delivered \in [Proc -> SUBSET Msg]
    /\ state \in [Msg -> State]
    /\ handler \in [Msg -> Proc \cup {NoProc}]
    /\ tried \in [Msg -> SUBSET Proc]
    /\ reported \in [Msg -> SUBSET State]
    /\ isStart \in [Msg -> BOOLEAN]
    /\ queued \subseteq Msg
    /\ stack \in Seq(Frame) /\ ret \in BOOLEAN

\* The server is between two RPCs.
Idle == stack = << >>

\* p has m, and is to answer it.
Holds(p, m) ==
    /\ p \in active
    /\ m \in delivered[p] \/ (m \in ToSet(undelivered[p]) /\ Processing(p, m))

\* Between two RPCs, requests wait on the ptype only while it is being
\* launched: nobody forgets to launch an instance for them.
QueueLaunched == Idle /\ ptypeQueue # << >> => launching

\* The exit of p is known to the server, or will be.
Noticeable(p) ==
    \/ p \in alive \cup zombies
    \/ \E i \in Slot : /\ failedProcs[i] = p
                       /\ IF fout <= fin THEN fout <= i /\ i < fin
                                         ELSE fout <= i \/ i < fin

\* Between two RPCs, while the ptype is being launched, there is an instance
\* that was launched for it and whose exit, if it exits, will end the launch.
LaunchWatched == Idle /\ launching => Noticeable(startPid)

\* Between two RPCs, a request of disposition start is in one place: in the
\* ptype's queue, once, or with one process, and it has not ended.
OnePlace ==
    Idle => \A m \in Msg \ AlsoQueued :
       /\ \A i, j \in DOMAIN ptypeQueue : ptypeQueue[i] = m /\ ptypeQueue[j] = m => i = j
       /\ m \in ToSet(ptypeQueue) => /\ state[m] \notin Final
                                     /\ \A p \in Proc : ~Holds(p, m)
       /\ \A p, q \in Proc : Holds(p, m) /\ Holds(q, m) => p = q

\* Between two RPCs, a request of disposition queue and start that a process has
\* received waits in neither queue.
QueuedUntilReceived ==
    Idle => \A m \in AlsoQueued : (\E p \in Proc : m \in delivered[p]) =>
               m \notin ToSet(ptypeQueue) /\ m \notin queued

\* Between two RPCs, a request of disposition start that has been sent and has
\* not ended is in the ptype's queue or with an active process.
NoneLost ==
    Idle => \A m \in Msg \ AlsoQueued : state[m] \in {"SENT", "STARTED"} =>
               m \in ToSet(ptypeQueue) \/ \E p \in Proc : Holds(p, m)

\* launch says of _launching that it will only be cleared when the instance has
\* appeared.  Then at most one is on its way: launched, alive and not connected.
OneLaunch == \A p, q \in Inst :
    p \in (born \cap alive) \ known /\ q \in (born \cap alive) \ known => p = q

\* No instance is launched while the ptype is being launched, neither for a
\* request that arrives nor in the walk over the queue that an answer begins.
LaunchedOnce == [][born' # born => ~launching]_vars

\* Requests that wait on the ptype wait for something: an instance that has
\* not connected, one whose exit is to be noticed, or the answer to a start
\* message.
Unblocked ==
    Idle /\ ptypeQueue # << >> =>
       \/ \E p \in born \cap alive :
             "connect" \in asked[p] => [call |-> "connect"] \in ToSet(rpc[p])
       \/ startPid \notin alive
       \/ \E p \in active : \E m \in Msg : isStart[m] /\ Holds(p, m)
       \/ \E p \in Proc : \E i \in DOMAIN rpc[p] : rpc[p][i].call = "update" /\ rpc[p][i].start

\* They do as long as one instance at a time is on its way.  An answer that
\* comes late clears the flag of the next launch; then one instance takes what
\* another was launched for, and nobody unblocks the ptype.
UnblockedWhileOne == []OneLaunch => []Unblocked

\* The exit of the instance being launched ends the launch.
ExitNoticed == \A p \in Inst :
    launching /\ startPid = p /\ p \notin alive ~> ~launching \/ startPid # p

\* ... as long as clients keep the main loop busy.
ExitNoticedInTraffic == []<><<Traffic>>_vars => ExitNoticed

=============================================================================
