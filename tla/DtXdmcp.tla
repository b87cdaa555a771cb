------------------------------ MODULE DtXdmcp ------------------------------
(***************************************************************************)
(* dtlogin gives login sessions to X terminals that ask for them with      *)
(* XDMCP (cde1/dtlogin: socket.c, protodpy.c, choose.c, dpylist.c, dm.c).  *)
(*                                                                         *)
(* Datagrams may be lost, duplicated and overtaken.  dtlogin keeps a proto *)
(* display for every session that it has accepted but not started, and a   *)
(* display for every one that it has started.  It never sends anything     *)
(* twice: the terminal repeats what it has asked until it is answered.     *)
(*                                                                         *)
(* The terminal is external; its states are those of the protocol, which   *)
(* the repository describes in cde1/dtlogin/protocol.                      *)
(***************************************************************************)
EXTENDS Naturals, Integers, FiniteSets, Sequences

CONSTANTS
  Terminal,  \* X terminals, one display each
  Pid,       \* bound: process ids, for the sessions at one time
  Faults,    \* what may go wrong, or be chosen by a user
  MaxFaults  \* bound: how often

NoPid == -1

(* resend: a terminal asks again before it has been answered; boot: it is  *)
(* switched off and on; lose, duplicate: a datagram is; fork: there is no  *)
(* process; fail: a session cannot open its display; quit: a user leaves,  *)
(* or chooses a host; age: a proto display gets older than PROTO_TIMEOUT;  *)
(* expire: a choice gets older than 15 seconds; stop: dtlogin is           *)
(* restarted, or its host is.                                              *)
Fault == {"resend", "boot", "lose", "duplicate", "fork", "fail", "quit",
          "age", "expire", "stop"}

ASSUME XdmcpAssumption ==
  /\ Pid \subseteq Nat
  /\ Faults \subseteq Fault /\ MaxFaults \in Nat

VARIABLES
  protos,    \* protoDisplays
  displays,  \* displays of origin FromXDMCP
  lastId,    \* globalSessionID
  indirect,  \* indirectUsers
  choice,    \* choices
  chosen,    \* connections of choosers that wait at chooserFd
  procs,     \* the session processes
  net,       \* datagrams on their way
  term,      \* what the terminals know
  left       \* what is left of MaxFaults

lists == <<protos, displays, lastId>>
chooser == <<indirect, choice, chosen>>
vars == <<lists, chooser, procs, net, term, left>>

Host == {"here", "there"}
Address == [at : Terminal, port : Nat]

ProtoDisplay == [from : Address, sessionID : Nat, old : BOOLEAN]

Display == [name : Terminal, from : Address, sessionID : Nat,
            pid : Pid \cup {NoPid}, running : BOOLEAN]

(* open: connected to the terminal; cut: the terminal has closed the       *)
(* connection; told: dtlogin has sent SIGTERM.                             *)
Process == [of : Terminal, sessionID : Nat, chooses : BOOLEAN, told : BOOLEAN,
            life : {"opening", "open", "cut", "dead", "failed"}]

NoProc == [life |-> "gone"]

(* accept holds the authorization that the session will show; again is an  *)
(* Accept without one.                                                     *)
Datagram ==
  [kind : {"query", "indirect", "request", "manage", "keepalive"},
   from : Address, sessionID : Nat]
  \cup
  [kind : {"willing", "forward", "accept", "again", "refuse", "failed", "alive",
           "dead"},
   to : Address, sessionID : Nat]

Knowledge == [state : {"query", "request", "manage", "run", "away"},
              port : Nat, sessionID : Nat, authorized : BOOLEAN]

Alive(p) == procs[p].life \in {"opening", "open", "cut"}
Dead(p) == procs[p].life \in {"dead", "failed"}
Free == {p \in Pid : procs[p] = NoProc}
NextPid == CHOOSE p \in Free : TRUE

Spend(f) == f \in Faults /\ left > 0 /\ left' = left - 1
-----------------------------------------------------------------------------
(* Datagrams. *)

Asks(t, m) == "from" \in DOMAIN m /\ m.from.at = t
Tells(t, m) == "to" \in DOMAIN m /\ m.to.at = t

AddressOf(t) == [at |-> t, port |-> term[t].port]

Ask(kind, t, id) == [kind |-> kind, from |-> AddressOf(t), sessionID |-> id]

(* What is sent to a port that is no longer there is gone. *)
Reply(kind, to, id) ==
  IF to = AddressOf(to.at) THEN {[kind |-> kind, to |-> to, sessionID |-> id]}
  ELSE {}

(* m has been read, and R is sent; m may come a second time. *)
Answer(m, R) ==
  \/ net' = (net \ {m}) \cup R /\ UNCHANGED left
  \/ Spend("duplicate") /\ net' = net \cup R

Lose(m) ==
  /\ Spend("lose") /\ net' = net \ {m}
  /\ UNCHANGED <<lists, chooser, procs, term>>
-----------------------------------------------------------------------------
(* The chooser.  A turn of WaitForSomething accepts one connection, if one *)
(* waits, and reads one datagram after that.                               *)

(* Faulty: the connections are accepted after the datagram.                *)
NotHeard == choice

Heard == IF chosen = <<>> THEN choice
         ELSE [choice EXCEPT ![Head(chosen).of] = Head(chosen).host]

ProcessChooserSocket ==
  /\ choice' = Heard
  /\ chosen' = IF chosen = <<>> THEN <<>> ELSE Tail(chosen)

ChooserTurn ==
  /\ chosen # <<>> /\ ProcessChooserSocket
  /\ UNCHANGED <<lists, indirect, procs, net, term, left>>

(* IndirectChoice forgets a choice that is too old. *)
Expire(t) ==
  /\ choice[t] # "none" /\ Spend("expire")
  /\ choice' = [choice EXCEPT ![t] = "none"]
  /\ UNCHANGED <<lists, indirect, chosen, procs, net, term>>
-----------------------------------------------------------------------------
(* The handlers of ProcessRequestSocket, after ProcessChooserSocket.       *)

query_respond(m) ==
  /\ m.kind = "query"
  /\ indirect' = indirect \ {m.from.at}
  /\ Answer(m, Reply("willing", m.from, 0))
  /\ UNCHANGED <<lists, procs>>

indirect_respond(m) ==
  /\ m.kind = "indirect"
  /\ \/ /\ Heard[m.from.at] = "there"
        /\ Answer(m, Reply("forward", m.from, 0))
        /\ UNCHANGED indirect
     \/ /\ Heard[m.from.at] # "there"
        /\ indirect' = indirect \cup {m.from.at}
        /\ Answer(m, Reply("willing", m.from, 0))
  /\ UNCHANGED <<lists, procs>>

FindProtoDisplay(a) == {q \in protos : q.from = a}
FindDisplayByAddress(a) == {d \in displays : d.from = a}
FindDisplayBySessionID(id) == {d \in displays : d.sessionID = id}

(* Faulty: the display of a former session is not looked for.              *)
NoDisplay(t) == {}

FindDisplayByName(t) == {d \in displays : d.name = t}

NextSessionID == lastId + 1

(* TimeoutProtoDisplays comes first. *)
NewProtoDisplay(a) ==
  {q \in protos : ~q.old}
    \cup {[from |-> a, sessionID |-> NextSessionID, old |-> FALSE]}

(* Faulty: a Request that comes again gets a new session.                  *)
AcceptAnew(m) ==
  /\ m.kind = "request"
  /\ protos' = NewProtoDisplay(m.from)
  /\ lastId' = NextSessionID
  /\ Answer(m, Reply("accept", m.from, NextSessionID))
  /\ UNCHANGED <<displays, indirect, procs>>

(* An Accept that is sent again is sent without the authorization.         *)
request_respond(m) ==
  /\ m.kind = "request"
  /\ \/ /\ \E q \in FindProtoDisplay(m.from) :
             Answer(m, Reply("again", m.from, q.sessionID))
        /\ UNCHANGED lists
     \/ /\ FindProtoDisplay(m.from) = {}
        /\ protos' = NewProtoDisplay(m.from)
        /\ lastId' = NextSessionID
        /\ Answer(m, Reply("accept", m.from, NextSessionID))
        /\ UNCHANGED displays
  /\ UNCHANGED <<indirect, procs>>

(* StopDisplay sends SIGTERM to the session of a foreign display, and      *)
(* removes it.  What it does to the process table:                         *)
Terminated(D) ==
  [p \in Pid |-> IF p \in {d.pid : d \in D} /\ Alive(p)
                 THEN [procs[p] EXCEPT !.told = TRUE] ELSE procs[p]]

SameSession(m) ==
  /\ FindProtoDisplay(m.from) = {}
  /\ \E d \in FindDisplayByAddress(m.from) : d.sessionID = m.sessionID

Matching(m) == {q \in FindProtoDisplay(m.from) : q.sessionID = m.sessionID}

(* Faulty: the proto display stays.                                        *)
Kept(q) == protos

DisposeProtoDisplay(q) == protos \ {q}

(* The session that q stands for takes the place of any other.  If there   *)
(* is no process for it, its display stays without one.                    *)
StartSession(q, m) ==
  LET t == q.from.at
      old == FindDisplayByName(t)
      d == [name |-> t, from |-> q.from, sessionID |-> q.sessionID,
            pid |-> NoPid, running |-> FALSE]
      useChooser == t \in indirect /\ Heard[t] = "none"
  IN /\ protos' = DisposeProtoDisplay(q)
     /\ indirect' = indirect \ {t}
     /\ \/ /\ Free # {}
           /\ displays' = (displays \ old)
                            \cup {[d EXCEPT !.pid = NextPid, !.running = TRUE]}
           /\ procs' = [Terminated(old) EXCEPT
                ![NextPid] = [of |-> t, sessionID |-> q.sessionID,
                              chooses |-> useChooser, told |-> FALSE,
                              life |-> "opening"]]
           /\ Answer(m, {})
        \/ /\ Spend("fork")
           /\ displays' = (displays \ old) \cup {d}
           /\ procs' = Terminated(old)
           /\ net' = net \ {m}

(* Faulty: an outdated Manage is left without an answer.                   *)
Silence(m) == {}

send_refuse(m) == Reply("refuse", m.from, m.sessionID)

manage(m) ==
  /\ m.kind = "manage"
  /\ \/ /\ SameSession(m)
        /\ Answer(m, {})
        /\ UNCHANGED <<lists, indirect, procs>>
     \/ /\ Matching(m) = {} /\ ~SameSession(m)
        /\ Answer(m, send_refuse(m))
        /\ UNCHANGED <<lists, indirect, procs>>
     \/ /\ \E q \in Matching(m) : StartSession(q, m)
        /\ UNCHANGED lastId

(* Whose display is asked about. *)
Asked(m) ==
  IF FindDisplayBySessionID(m.sessionID) # {}
  THEN FindDisplayBySessionID(m.sessionID) ELSE FindDisplayByAddress(m.from)

send_alive(m) ==
  /\ m.kind = "keepalive"
  /\ \/ \E d \in Asked(m) :
          /\ d.running
          /\ Answer(m, Reply(IF d.sessionID = m.sessionID THEN "alive" ELSE "dead",
                             m.from, d.sessionID))
     \/ /\ \A d \in Asked(m) : ~d.running
        /\ Answer(m, Reply("dead", m.from, 0))
  /\ UNCHANGED <<lists, indirect, procs>>

PacketTurn(m) ==
  /\ ProcessChooserSocket
  /\ \/ query_respond(m) \/ indirect_respond(m) \/ request_respond(m)
     \/ manage(m) \/ send_alive(m)
  /\ UNCHANGED term
-----------------------------------------------------------------------------
(* What else dtlogin does. *)

(* A session has ended.  However it did, its display is stopped; if it     *)
(* could not open the display, the terminal is told so.                    *)
ProcessChildDeath(p) ==
  /\ Dead(p)
  /\ procs' = [procs EXCEPT ![p] = NoProc]
  /\ displays' = {d \in displays : d.pid # p}
  /\ net' = net \cup UNION {
       IF procs[p].life = "failed" THEN Reply("failed", d.from, d.sessionID) ELSE {} :
       d \in {e \in displays : e.pid = p}}
  /\ UNCHANGED <<protos, lastId, chooser, term, left>>

Age(q) ==
  /\ ~q.old /\ Spend("age")
  /\ protos' = (protos \ {q}) \cup {[q EXCEPT !.old = TRUE]}
  /\ UNCHANGED <<displays, lastId, chooser, procs, net, term>>

(* dtlogin is stopped, or its host is; it starts with empty lists and with *)
(* session ids from 1.                                                     *)
Stop ==
  /\ Spend("stop")
  /\ protos' = {} /\ displays' = {} /\ lastId' = 0
  /\ indirect' = {} /\ choice' = [t \in Terminal |-> "none"] /\ chosen' = <<>>
  /\ \/ procs' = Terminated(displays)
     \/ procs' = [p \in Pid |-> NoProc]
  /\ UNCHANGED <<net, term>>
-----------------------------------------------------------------------------
(* Sessions. *)

(* The connections to t are closed. *)
Closed(t) ==
  [p \in Pid |-> IF procs[p].life = "open" /\ procs[p].of = t
                 THEN [procs[p] EXCEPT !.life = "cut"] ELSE procs[p]]

(* p ends.  A terminal in a session closes all connections with the first. *)
Ends(p, how) ==
  LET t == procs[p].of
      resets == procs[p].life = "open" /\ term[t].state = "run"
  IN /\ procs' = [(IF resets THEN Closed(t) ELSE procs) EXCEPT
                    ![p] = [procs[p] EXCEPT !.life = how]]
     /\ term' = IF resets THEN [term EXCEPT ![t].state = "query"] ELSE term

(* The Accept for a session held the authorization that its process        *)
(* shows; a terminal that has had another one since turns it away.         *)
Authorized(p) ==
  LET k == term[procs[p].of]
  IN /\ k.state \in {"manage", "run"}
     /\ k.sessionID = procs[p].sessionID /\ k.authorized

OpenDisplay(p) ==
  /\ procs[p].life = "opening" /\ ~procs[p].told /\ Authorized(p)
  /\ procs' = [procs EXCEPT ![p].life = "open"]
  /\ term' = [term EXCEPT ![procs[p].of].state = "run"]
  /\ UNCHANGED <<lists, chooser, net, left>>

OpenFails(p) ==
  /\ procs[p].life = "opening" /\ Ends(p, "failed")
  /\ IF Authorized(p) THEN Spend("fail") ELSE UNCHANGED left
  /\ UNCHANGED <<lists, chooser, net>>

(* SIGTERM or the loss of its display ends a session. *)
End(p) ==
  /\ Alive(p) /\ (procs[p].told \/ procs[p].life = "cut")
  /\ \E how \in {"dead", "failed"} : Ends(p, how)
  /\ UNCHANGED <<lists, chooser, net, left>>

Quit(p) ==
  /\ procs[p].life = "open" /\ Spend("quit") /\ Ends(p, "dead")
  /\ UNCHANGED <<lists, chooser, net>>

(* The user picks a host; the chooser says so to dtlogin, and ends. *)
Choose(p, h) ==
  /\ procs[p].life = "open" /\ procs[p].chooses /\ Spend("quit")
  /\ chosen' = Append(chosen, [of |-> procs[p].of, host |-> h])
  /\ Ends(p, "dead")
  /\ UNCHANGED <<lists, indirect, choice, net>>
-----------------------------------------------------------------------------
(* Terminals. *)

Asking(t) ==
  CASE term[t].state = "query" ->
         {Ask("query", t, 0), Ask("indirect", t, 0)}
    [] term[t].state = "request" -> {Ask("request", t, 0)}
    [] term[t].state = "manage" -> {Ask("manage", t, term[t].sessionID)}
    [] term[t].state = "run" -> {Ask("keepalive", t, term[t].sessionID)}
    [] OTHER -> {}

(* A question is asked, and asked again after a timeout; too early at      *)
(* times, while it or the answer is still on its way.                      *)
OnTheirWay(t) == {m \in net : Asks(t, m) \/ Tells(t, m)}

Send(t) ==
  /\ IF OnTheirWay(t) = {} THEN UNCHANGED left ELSE Spend("resend")
  /\ \E m \in Asking(t) : net' = net \cup {m}
  /\ UNCHANGED <<lists, chooser, procs, term>>

Becomes(t, s) == term' = [term EXCEPT ![t].state = s]

Receive(t, m) ==
  LET k == term[t] IN
  /\ m \in net /\ Tells(t, m)
  /\ net' = net \ {m}
  /\ CASE k.state = "query" /\ m.kind = "willing" ->
            Becomes(t, "request") /\ UNCHANGED procs
       [] k.state = "query" /\ m.kind = "forward" ->
            Becomes(t, "away") /\ UNCHANGED procs
       [] k.state = "request" /\ m.kind \in {"accept", "again"} ->
            /\ term' = [term EXCEPT ![t] =
                 [@ EXCEPT !.state = "manage", !.sessionID = m.sessionID,
                           !.authorized = m.kind = "accept"]]
            /\ procs' = Closed(t)
       [] k.state = "manage" /\ m.kind = "refuse" /\ m.sessionID = k.sessionID ->
            Becomes(t, "request") /\ UNCHANGED procs
       [] k.state = "manage" /\ m.kind = "failed" /\ m.sessionID = k.sessionID ->
            Becomes(t, "query") /\ UNCHANGED procs
       [] k.state = "run" /\ m.kind = "dead" ->
            Becomes(t, "query") /\ procs' = Closed(t)
       [] OTHER -> UNCHANGED <<term, procs>>
  /\ UNCHANGED <<lists, chooser, left>>

Fresh(port) ==
  [state |-> "query", port |-> port, sessionID |-> 0, authorized |-> FALSE]

(* Off and on again; or a session with another host ends. *)
Boot(t) ==
  /\ Spend("boot")
  /\ term' = [term EXCEPT ![t] = Fresh(term[t].port + 1)]
  /\ procs' = Closed(t)
  /\ net' = {m \in net : ~Tells(t, m)}
  /\ UNCHANGED <<lists, chooser>>
-----------------------------------------------------------------------------
Init ==
  /\ protos = {} /\ displays = {} /\ lastId = 0
  /\ indirect = {} /\ choice = [t \in Terminal |-> "none"] /\ chosen = <<>>
  /\ procs = [p \in Pid |-> NoProc]
  /\ net = {}
  /\ term = [t \in Terminal |-> Fresh(0)]
  /\ left = MaxFaults

Serve(t) == \E m \in net : Asks(t, m) /\ PacketTurn(m)
Hear(t) == \E m \in net : Receive(t, m)

Next ==
  \/ \E t \in Terminal : Serve(t) \/ Hear(t) \/ Send(t) \/ Boot(t) \/ Expire(t)
  \/ ChooserTurn \/ Stop
  \/ \E p \in Pid :
       \/ ProcessChildDeath(p) \/ OpenDisplay(p) \/ OpenFails(p) \/ End(p)
       \/ Quit(p) \/ \E h \in Host : Choose(p, h)
  \/ \E q \in protos : Age(q)
  \/ \E m \in net : Lose(m)

Spec ==
  /\ Init /\ [][Next]_vars
  /\ \A t \in Terminal : WF_vars(Serve(t)) /\ WF_vars(Hear(t)) /\ WF_vars(Send(t))
  /\ \A p \in Pid : WF_vars(ProcessChildDeath(p)) /\ WF_vars(OpenDisplay(p) \/ OpenFails(p))
                    /\ WF_vars(End(p))
  /\ WF_vars(ChooserTurn)
-----------------------------------------------------------------------------
(* Every variable keeps its type.                                          *)
TypeOK ==
  /\ \A q \in protos : q \in ProtoDisplay
  /\ \A d \in displays : d \in Display
  /\ lastId \in Nat
  /\ indirect \subseteq Terminal
  /\ choice \in [Terminal -> Host \cup {"none"}]
  /\ chosen \in Seq([of : Terminal, host : Host])
  /\ procs \in [Pid -> Process \cup {NoProc}]
  /\ \A m \in net : m \in Datagram
  /\ term \in [Terminal -> Knowledge]
  /\ left \in 0..MaxFaults

(* A terminal has one display, and whatever process is still to serve it   *)
(* is that display's, of its session: a session replaced by another, by a  *)
(* terminal that came back or a datagram that came late, has been told.    *)
OneSession ==
  /\ \A d, e \in displays : d.name = e.name => d = e
  /\ \A p \in Pid : Alive(p) /\ ~procs[p].told =>
       \E d \in displays : /\ d.pid = p /\ d.name = procs[p].of
                           /\ d.sessionID = procs[p].sessionID

(* A session id stands for one session, proposed or started, whatever is   *)
(* repeated; an address has one proto display.                             *)
IdsApart ==
  /\ \A x, y \in protos \cup displays : x.sessionID = y.sessionID => x = y
  /\ \A q, r \in protos : q.from = r.from => q = r

(* A session is never replaced by an older one of the same address, in     *)
(* whatever order Requests and Manages arrive.                             *)
NewestKept ==
  [][\A d \in displays, e \in displays' :
       d.name = e.name /\ d.from = e.from => d.sessionID <= e.sessionID]_vars

(* What the user of t has told a chooser last, if dtlogin can know.        *)
Waiting(t) == {i \in DOMAIN chosen : chosen[i].of = t}

LastChoice(t) ==
  IF Waiting(t) = {} THEN choice[t]
  ELSE chosen[CHOOSE i \in Waiting(t) : \A j \in Waiting(t) : j <= i].host

(* A choice of t's user waits behind another connection; one is accepted   *)
(* in a turn.                                                              *)
Behind(t) == \E i \in Waiting(t) : i > 1

(* A terminal whose user has chosen another host is taken for a client of  *)
(* this one, or its user gets a chooser after having chosen.               *)
Overlooked(t) ==
  \/ t \in indirect' \ indirect /\ LastChoice(t) = "there"
  \/ \E p \in Pid : /\ procs[p] = NoProc /\ procs'[p] # NoProc
                     /\ procs'[p].of = t /\ procs'[p].chooses
                     /\ LastChoice(t) # "none"

(* A choice is heeded by the very next datagram, unless the connection     *)
(* that tells it waits behind one of another chooser.                      *)
ChoiceHonoured ==
  [][\A t \in Terminal : Overlooked(t) => Behind(t)]_vars

Served(t) ==
  \/ term[t].state = "away"
  \/ term[t].state = "run" /\ \E p \in Pid : procs[p].life = "open" /\ procs[p].of = t

(* dtlogin takes t's session for started, and there is no process for it.  *)
Abandoned(t) ==
  \E d \in displays : d.name = t /\ d.from = AddressOf(t) /\ d.pid = NoPid

(* After a restart ids begin anew: another terminal's session has the id   *)
(* that t asks about, and t is told that its own, long gone, is alive.     *)
Confused(t) ==
  term[t].state = "run" /\ \E d \in displays : d.name # t /\ d.sessionID = term[t].sessionID

(* Every terminal gets a session again and again, through loss, crashes    *)
(* and restarts, unless dtlogin could not fork for it or takes the session *)
(* of another terminal for it.                                             *)
Settles == \A t \in Terminal : []<>(Served(t) \/ Abandoned(t) \/ Confused(t))

(* The README names the runs in which the following are violated.          *)

(* No terminal turns away the process of the session that it asked for.    *)
Admitted ==
  [][\A p \in Pid : procs[p] # NoProc /\ OpenFails(p) =>
       procs[p].sessionID # term[procs[p].of].sessionID]_vars

(* A Refuse is for a session that is not, or not any more, the started one.*)
RefuseTrue ==
  [][\A m \in net' \ net : m.kind = "refuse" =>
       \A d \in displays : d.sessionID # m.sessionID]_vars

(* A choice is heeded by the very next datagram, wherever it waits.        *)
HonouredAtOnce == [][\A t \in Terminal : ~Overlooked(t)]_vars

(* An Alive is for a session of the terminal that asks.                    *)
AliveTrue ==
  [][\A m \in net' \ net : m.kind = "alive" =>
       \E p \in Pid : procs[p] # NoProc /\ procs[p].of = m.to.at
                      /\ procs[p].sessionID = m.sessionID]_vars

(* NewestKept, for a terminal that has changed its address.                *)
NewestOfAll ==
  [][\A d \in displays, e \in displays' :
       d.name = e.name => d.sessionID <= e.sessionID]_vars
=============================================================================
