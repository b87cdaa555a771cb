-------------------------- MODULE DtXdmcp_proofs --------------------------
(***************************************************************************)
(* Proofs about DtXdmcp, for any terminals, processes and faults: types,   *)
(* that a terminal has one session and a session id one session, that an   *)
(* address never gets an older session in place of a newer one, and when   *)
(* the choice of a user is heeded.                                         *)
(***************************************************************************)
EXTENDS DtXdmcp, SequenceTheorems, TLAPS

(* No id is ahead of globalSessionID. *)
Bounded ==
  /\ \A q \in protos : q.sessionID <= lastId
  /\ \A d \in displays : d.sessionID <= lastId

(* Ids are apart, within a list and across the lists. *)
Apart ==
  /\ \A q, r \in protos : q.sessionID = r.sessionID => q = r
  /\ \A d, e \in displays : d.sessionID = e.sessionID => d = e
  /\ \A q \in protos, d \in displays : q.sessionID # d.sessionID

OneProto == \A q, r \in protos : q.from = r.from => q = r

(* What is proposed to an address is newer than what it has. *)
Newer ==
  \A q \in protos, d \in displays : q.from = d.from => d.sessionID < q.sessionID

ListsInv == Bounded /\ Apart /\ OneProto /\ Newer

XdmcpInv == TypeOK /\ ListsInv /\ OneSession

Questions == {"query", "indirect", "request", "manage", "keepalive"}
Answers ==
  {"willing", "forward", "accept", "again", "refuse", "failed", "alive", "dead"}
-----------------------------------------------------------------------------
(* Types of what is sent and received. *)

LEMMA QuestionType ==
  ASSUME NEW m \in Datagram, m.kind \in Questions
  PROVE  m.from \in Address /\ m.sessionID \in Nat /\ m.from.at \in Terminal
BY DEF Datagram, Questions, Address

LEMMA AnswerType ==
  ASSUME NEW m \in Datagram, m.kind \in Answers
  PROVE  m.sessionID \in Nat
BY DEF Datagram, Answers

LEMMA ReplyType ==
  ASSUME NEW kind \in Answers, NEW to \in Address, NEW id \in Nat
  PROVE  \A r \in Reply(kind, to, id) : r \in Datagram
BY DEF Reply, Answers, Datagram

LEMMA AddressType ==
  ASSUME TypeOK, NEW t \in Terminal
  PROVE  AddressOf(t) \in Address
BY DEF TypeOK, AddressOf, Address, Knowledge

LEMMA SpendType ==
  ASSUME TypeOK, NEW f, Spend(f)
  PROVE  left' \in 0..MaxFaults
BY XdmcpAssumption DEF TypeOK, Spend, XdmcpAssumption

LEMMA SentType ==
  ASSUME TypeOK, NEW m \in net, NEW R, \A r \in R : r \in Datagram, Answer(m, R)
  PROVE  /\ \A n \in net' : n \in Datagram
         /\ left' \in 0..MaxFaults
<1>1. CASE UNCHANGED left
  BY <1>1 DEF TypeOK, Answer
<1>2. CASE Spend("duplicate")
  BY <1>2, SpendType DEF TypeOK, Answer
<1>. QED BY <1>1, <1>2 DEF Answer

LEMMA HeardType ==
  ASSUME TypeOK
  PROVE  Heard \in [Terminal -> Host \cup {"none"}]
<1>1. CASE chosen = <<>>
  BY <1>1 DEF TypeOK, Heard
<1>2. CASE chosen # <<>>
  <2>1. Head(chosen).of \in Terminal /\ Head(chosen).host \in Host
    <3>1. Head(chosen) \in [of : Terminal, host : Host]
      BY <1>2, HeadTailProperties DEF TypeOK
    <3>. QED BY <3>1
  <2>. QED BY <1>2, <2>1 DEF TypeOK, Heard
<1>. QED BY <1>1, <1>2

LEMMA ChosenTail ==
  ASSUME TypeOK, ProcessChooserSocket
  PROVE  /\ choice' \in [Terminal -> Host \cup {"none"}]
         /\ chosen' \in Seq([of : Terminal, host : Host])
BY HeardType DEF TypeOK, ProcessChooserSocket
-----------------------------------------------------------------------------
(* Types of processes and displays. *)

LEMMA LivingType ==
  ASSUME TypeOK, NEW p \in Pid, procs[p].life # "gone"
  PROVE  procs[p] \in Process /\ procs[p].of \in Terminal /\ procs[p].sessionID \in Nat
BY DEF TypeOK, Process, NoProc

LEMMA LivesDiffer ==
  ASSUME TypeOK, NEW p \in Pid
  PROVE  /\ Alive(p) => procs[p].life # "gone"
         /\ Dead(p) => procs[p].life # "gone"
BY DEF Alive, Dead

LEMMA TerminatedType ==
  ASSUME TypeOK, NEW D
  PROVE  Terminated(D) \in [Pid -> Process \cup {NoProc}]
<1>. SUFFICES ASSUME NEW p \in Pid, Alive(p)
     PROVE  [procs[p] EXCEPT !.told = TRUE] \in Process
  BY DEF Terminated, TypeOK
<1>. QED BY LivingType, LivesDiffer DEF Process

LEMMA ClosedType ==
  ASSUME TypeOK, NEW t
  PROVE  Closed(t) \in [Pid -> Process \cup {NoProc}]
<1>. SUFFICES ASSUME NEW p \in Pid, procs[p].life = "open"
     PROVE  [procs[p] EXCEPT !.life = "cut"] \in Process
  BY DEF Closed, TypeOK
<1>. QED BY LivingType DEF Process

LEMMA EndsType ==
  ASSUME TypeOK, NEW p \in Pid, NEW how \in {"dead", "failed"},
         procs[p].life # "gone", Ends(p, how)
  PROVE  /\ procs' \in [Pid -> Process \cup {NoProc}]
         /\ term' \in [Terminal -> Knowledge]
<1>1. [procs[p] EXCEPT !.life = how] \in Process
  BY LivingType DEF Process
<1>2. procs[p].of \in Terminal
  BY LivingType
<1>3. procs' \in [Pid -> Process \cup {NoProc}]
  BY <1>1, ClosedType DEF Ends, TypeOK
<1>4. [term[procs[p].of] EXCEPT !.state = "query"] \in Knowledge
  BY <1>2 DEF TypeOK, Knowledge
<1>5. term' \in [Terminal -> Knowledge]
  BY <1>2, <1>4 DEF Ends, TypeOK
<1>. QED BY <1>3, <1>5

LEMMA NextPidFree ==
  ASSUME Free # {}
  PROVE  NextPid \in Pid /\ procs[NextPid] = NoProc
BY DEF Free, NextPid
-----------------------------------------------------------------------------
(* Types of the lists. *)

NetType(N) == \A m \in N : m \in Datagram

ListType ==
  /\ \A q \in protos : q \in ProtoDisplay
  /\ \A d \in displays : d \in Display
  /\ lastId \in Nat

LEMMA StartType ==
  ASSUME TypeOK, NEW m \in net, NEW q \in protos, UNCHANGED lastId,
         StartSession(q, m)
  PROVE  /\ ListType'
         /\ indirect' \subseteq Terminal
         /\ procs' \in [Pid -> Process \cup {NoProc}]
         /\ NetType(net')
         /\ left' \in 0..MaxFaults
<1> DEFINE t == q.from.at
           old == FindDisplayByName(t)
           d == [name |-> t, from |-> q.from, sessionID |-> q.sessionID,
                 pid |-> NoPid, running |-> FALSE]
<1>1. q.from \in Address /\ t \in Terminal /\ q.sessionID \in Nat
  BY DEF TypeOK, ProtoDisplay, Address
<1>2. d \in Display
  BY <1>1 DEF Display
<1>3. protos' = protos \ {q} /\ indirect' = indirect \ {t}
  BY DEF StartSession, DisposeProtoDisplay
<1>4. CASE Free # {} /\ Answer(m, {}) /\ UNCHANGED lastId
           /\ displays' = (displays \ old)
                            \cup {[d EXCEPT !.pid = NextPid, !.running = TRUE]}
           /\ \E c \in BOOLEAN :
                procs' = [Terminated(old) EXCEPT ![NextPid] =
                  [of |-> t, sessionID |-> q.sessionID, chooses |-> c,
                   told |-> FALSE, life |-> "opening"]]
  <2>1. [d EXCEPT !.pid = NextPid, !.running = TRUE] \in Display
    BY <1>1, <1>4, NextPidFree DEF Display
  <2>2. \A c \in BOOLEAN :
          [of |-> t, sessionID |-> q.sessionID, chooses |-> c,
           told |-> FALSE, life |-> "opening"] \in Process
    BY <1>1 DEF Process
  <2>3. procs' \in [Pid -> Process \cup {NoProc}]
    <3> PICK c \in BOOLEAN :
                procs' = [Terminated(old) EXCEPT ![NextPid] =
                  [of |-> t, sessionID |-> q.sessionID, chooses |-> c,
                   told |-> FALSE, life |-> "opening"]]
      BY <1>4
    <3> HIDE DEF old
    <3>. QED BY <2>2, TerminatedType, NextPidFree, <1>4
  <2>4. NetType(net') /\ left' \in 0..MaxFaults
    BY <1>4, SentType DEF NetType
  <2>. QED BY <1>3, <1>4, <2>1, <2>3, <2>4 DEF ListType, TypeOK
<1>5. CASE Spend("fork") /\ UNCHANGED lastId
           /\ displays' = (displays \ old) \cup {d}
           /\ procs' = Terminated(old) /\ net' = net \ {m}
  <2>1. left' \in 0..MaxFaults
    BY <1>5, SpendType
  <2>2. procs' \in [Pid -> Process \cup {NoProc}]
    <3> HIDE DEF old
    <3>. QED BY <1>5, TerminatedType
  <2>. QED BY <1>2, <1>3, <1>5, <2>1, <2>2 DEF ListType, NetType, TypeOK
<1>. QED BY <1>4, <1>5 DEF StartSession

LEMMA RequestType ==
  ASSUME TypeOK, NEW m \in net, request_respond(m)
  PROVE  /\ ListType' /\ NetType(net') /\ left' \in 0..MaxFaults
         /\ indirect' = indirect /\ procs' = procs
<1>1. m.from \in Address
  BY QuestionType DEF request_respond, Questions, TypeOK
<1>2. NextSessionID \in Nat
  BY DEF NextSessionID, TypeOK
<1>3. CASE FindProtoDisplay(m.from) # {} /\ UNCHANGED lists
           /\ \E q \in FindProtoDisplay(m.from) :
                Answer(m, Reply("again", m.from, q.sessionID))
  <2>1. PICK q \in FindProtoDisplay(m.from) :
          Answer(m, Reply("again", m.from, q.sessionID))
    BY <1>3
  <2>2. q.sessionID \in Nat
    BY <2>1 DEF FindProtoDisplay, TypeOK, ProtoDisplay
  <2>3. \A r \in Reply("again", m.from, q.sessionID) : r \in Datagram
    BY <1>1, <2>2, ReplyType DEF Answers
  <2>4. NetType(net') /\ left' \in 0..MaxFaults
    BY <2>1, <2>3, SentType DEF NetType
  <2>. QED BY <1>3, <2>4 DEF ListType, TypeOK, lists, request_respond
<1>4. CASE /\ protos' = NewProtoDisplay(m.from) /\ lastId' = NextSessionID
           /\ Answer(m, Reply("accept", m.from, NextSessionID))
           /\ UNCHANGED displays
  <2>1. \A r \in Reply("accept", m.from, NextSessionID) : r \in Datagram
    BY <1>1, <1>2, ReplyType DEF Answers
  <2>2. NetType(net') /\ left' \in 0..MaxFaults
    BY <1>4, <2>1, SentType DEF NetType
  <2>3. \A q \in protos' : q \in ProtoDisplay
    <3>1. [from |-> m.from, sessionID |-> NextSessionID, old |-> FALSE] \in ProtoDisplay
      BY <1>1, <1>2 DEF ProtoDisplay
    <3>. QED BY <3>1, <1>4 DEF NewProtoDisplay, TypeOK
  <2>. QED BY <1>2, <1>4, <2>2, <2>3 DEF ListType, TypeOK, request_respond
<1>. QED BY <1>3, <1>4 DEF request_respond

LEMMA ManageType ==
  ASSUME TypeOK, NEW m \in net, manage(m)
  PROVE  /\ ListType' /\ NetType(net') /\ left' \in 0..MaxFaults
         /\ indirect' \subseteq Terminal
         /\ procs' \in [Pid -> Process \cup {NoProc}]
<1>1. m.from \in Address /\ m.sessionID \in Nat
  BY QuestionType DEF manage, Questions, TypeOK
<1>2. CASE Answer(m, {}) /\ UNCHANGED <<lists, indirect, procs>>
  BY <1>2, SentType DEF NetType, ListType, TypeOK, lists
<1>3. CASE Answer(m, send_refuse(m)) /\ UNCHANGED <<lists, indirect, procs>>
  <2>1. \A r \in send_refuse(m) : r \in Datagram
    BY <1>1, ReplyType DEF send_refuse, Answers
  <2>. QED BY <1>3, <2>1, SentType DEF NetType, ListType, TypeOK, lists
<1>4. CASE (\E q \in Matching(m) : StartSession(q, m)) /\ UNCHANGED lastId
  <2>1. PICK q \in Matching(m) : StartSession(q, m)
    BY <1>4
  <2>2. q \in protos
    BY <2>1 DEF Matching, FindProtoDisplay
  <2>. QED BY <1>4, <2>1, <2>2, StartType
<1>. QED BY <1>2, <1>3, <1>4 DEF manage

LEMMA OtherType ==
  ASSUME TypeOK, NEW m \in net,
         query_respond(m) \/ indirect_respond(m) \/ send_alive(m)
  PROVE  /\ NetType(net') /\ left' \in 0..MaxFaults
         /\ indirect' \subseteq Terminal /\ UNCHANGED <<lists, procs>>
<1>1. m.from \in Address /\ m.from.at \in Terminal /\ m.sessionID \in Nat
  BY QuestionType DEF query_respond, indirect_respond, send_alive, Questions, TypeOK
<1>2. \A kind \in Answers, id \in Nat :
        \A r \in Reply(kind, m.from, id) : r \in Datagram
  BY <1>1, ReplyType
<1>3. \A kind \in Answers, id \in Nat : Answer(m, Reply(kind, m.from, id))
        => NetType(net') /\ left' \in 0..MaxFaults
  BY <1>2, SentType DEF NetType
<1>4. CASE query_respond(m)
  BY <1>3, <1>4 DEF query_respond, Answers, TypeOK
<1>5. CASE indirect_respond(m)
  BY <1>1, <1>3, <1>5 DEF indirect_respond, Answers, TypeOK
<1>6. CASE send_alive(m)
  <2>1. \A d \in Asked(m) : d.sessionID \in Nat
    BY DEF Asked, FindDisplayBySessionID, FindDisplayByAddress, TypeOK, Display
  <2>2. NetType(net') /\ left' \in 0..MaxFaults
    BY <1>3, <1>6, <2>1 DEF send_alive, Answers
  <2>. QED BY <1>6, <2>2 DEF send_alive, TypeOK
<1>. QED BY <1>4, <1>5, <1>6
-----------------------------------------------------------------------------
(* What the steps of the sessions and terminals preserve. *)

LEMMA ReapType ==
  ASSUME TypeOK, NEW p \in Pid, ProcessChildDeath(p)
  PROVE  NetType(net')
<1>1. \A d \in displays : d.from \in Address /\ d.sessionID \in Nat
  BY DEF TypeOK, Display
<1>2. \A d \in displays :
        NetType(IF procs[p].life = "failed" THEN Reply("failed", d.from, d.sessionID)
                ELSE {})
  BY <1>1, ReplyType DEF NetType, Answers
<1>. QED BY <1>2 DEF ProcessChildDeath, NetType, TypeOK

LEMMA SendType ==
  ASSUME TypeOK, NEW t \in Terminal, Send(t)
  PROVE  NetType(net') /\ left' \in 0..MaxFaults
<1>1. AddressOf(t) \in Address /\ term[t].sessionID \in Nat
  BY AddressType DEF TypeOK, Knowledge
<1>2. \A kind \in Questions, id \in Nat : Ask(kind, t, id) \in Datagram
  BY <1>1 DEF Ask, Questions, Datagram
<1>3. NetType(Asking(t))
  BY <1>1, <1>2 DEF NetType, Asking, Questions
<1>4. NetType(net')
  BY <1>3 DEF Send, NetType, TypeOK
<1>. QED BY <1>4, SpendType DEF Send, TypeOK

LEMMA ReceiveType ==
  ASSUME TypeOK, NEW t \in Terminal, NEW m, Receive(t, m)
  PROVE  /\ NetType(net')
         /\ term' \in [Terminal -> Knowledge]
         /\ procs' \in [Pid -> Process \cup {NoProc}]
<1>1. NetType(net')
  BY DEF Receive, NetType, TypeOK
<1>2. procs' \in [Pid -> Process \cup {NoProc}]
  BY ClosedType DEF Receive, TypeOK
<1>3. m \in Datagram /\ (m.kind \in Answers => m.sessionID \in Nat)
  BY AnswerType DEF Receive, TypeOK
<1>4. term' \in [Terminal -> Knowledge]
  <2>1. \A s \in {"query", "request", "away"} : [term[t] EXCEPT !.state = s] \in Knowledge
    BY DEF TypeOK, Knowledge
  <2>2. \A s \in {"query", "request", "away"} :
          Becomes(t, s) => term' \in [Terminal -> Knowledge]
    BY <2>1 DEF Becomes, TypeOK
  <2>3. ASSUME m.kind \in {"accept", "again"},
               term' = [term EXCEPT ![t] =
                 [@ EXCEPT !.state = "manage", !.sessionID = m.sessionID,
                           !.authorized = m.kind = "accept"]]
        PROVE  term' \in [Terminal -> Knowledge]
    <3>1. m.sessionID \in Nat
      BY <1>3, <2>3 DEF Answers
    <3>2. [term[t] EXCEPT !.state = "manage", !.sessionID = m.sessionID,
                          !.authorized = m.kind = "accept"] \in Knowledge
      BY <3>1 DEF TypeOK, Knowledge
    <3>. QED BY <2>3, <3>2 DEF TypeOK
  <2>. QED BY <2>2, <2>3 DEF Receive, TypeOK
<1>. QED BY <1>1, <1>2, <1>4

LEMMA TermOpen ==
  ASSUME TypeOK, NEW p \in Pid, OpenDisplay(p)
  PROVE  /\ procs' \in [Pid -> Process \cup {NoProc}]
         /\ term' \in [Terminal -> Knowledge]
<1>1. procs[p] \in Process /\ procs[p].of \in Terminal
  BY LivingType DEF OpenDisplay
<1>2. [procs[p] EXCEPT !.life = "open"] \in Process
  BY <1>1 DEF Process
<1>3. [term[procs[p].of] EXCEPT !.state = "run"] \in Knowledge
  BY <1>1 DEF TypeOK, Knowledge
<1>. QED BY <1>1, <1>2, <1>3 DEF OpenDisplay, TypeOK

LEMMA FreshType ==
  ASSUME NEW port \in Nat
  PROVE  Fresh(port) \in Knowledge
BY DEF Fresh, Knowledge

(* What the variables hold, at any time. *)
THEOREM XdmcpTypes == Spec => []TypeOK
<1>1. Init => TypeOK
  BY XdmcpAssumption, FreshType DEF Init, TypeOK, XdmcpAssumption
<1>2. TypeOK /\ [Next]_vars => TypeOK'
  <2> SUFFICES ASSUME TypeOK, [Next]_vars PROVE TypeOK'
    OBVIOUS
  <2>1. ASSUME NEW t \in Terminal, Serve(t) PROVE TypeOK'
    <3>1. PICK m \in net : PacketTurn(m)
      BY <2>1 DEF Serve
    <3>2. /\ choice' \in [Terminal -> Host \cup {"none"}]
          /\ chosen' \in Seq([of : Terminal, host : Host]) /\ UNCHANGED term
      BY <3>1, ChosenTail DEF PacketTurn
    <3>3. CASE request_respond(m)
      BY <3>2, <3>3, RequestType DEF TypeOK, ListType, NetType
    <3>4. CASE manage(m)
      BY <3>2, <3>4, ManageType DEF TypeOK, ListType, NetType
    <3>5. CASE query_respond(m) \/ indirect_respond(m) \/ send_alive(m)
      BY <3>2, <3>5, OtherType DEF TypeOK, NetType, lists
    <3>. QED BY <3>1, <3>3, <3>4, <3>5 DEF PacketTurn
  <2>2. ASSUME NEW t \in Terminal, Hear(t) PROVE TypeOK'
    BY <2>2, ReceiveType DEF Hear, Receive, TypeOK, NetType, lists, chooser
  <2>3. ASSUME NEW t \in Terminal, Send(t) PROVE TypeOK'
    BY <2>3, SendType DEF Send, TypeOK, NetType, lists, chooser
  <2>4. ASSUME NEW t \in Terminal, Boot(t) PROVE TypeOK'
    <3>0. term[t].port + 1 \in Nat
      BY <2>4 DEF TypeOK, Knowledge
    <3>1. Fresh(term[t].port + 1) \in Knowledge
      BY <3>0, FreshType
    <3>. QED BY <2>4, <3>1, SpendType, ClosedType DEF Boot, TypeOK, lists, chooser
  <2>5. ASSUME NEW t \in Terminal, Expire(t) PROVE TypeOK'
    BY <2>5, SpendType DEF Expire, TypeOK, lists
  <2>6. CASE ChooserTurn
    BY <2>6, ChosenTail DEF ChooserTurn, TypeOK, lists
  <2>7. CASE Stop
    BY <2>7, SpendType, TerminatedType DEF Stop, TypeOK
  <2>8. ASSUME NEW p \in Pid, ProcessChildDeath(p) PROVE TypeOK'
    BY <2>8, ReapType DEF ProcessChildDeath, TypeOK, NetType, chooser
  <2>9. ASSUME NEW p \in Pid, OpenDisplay(p) PROVE TypeOK'
    BY <2>9, TermOpen DEF OpenDisplay, TypeOK, lists, chooser
  <2>10. ASSUME NEW p \in Pid, OpenFails(p) \/ End(p) \/ Quit(p) PROVE TypeOK'
    <3>1. procs[p].life # "gone"
      BY <2>10, LivesDiffer DEF OpenFails, End, Quit
    <3>2. left' \in 0..MaxFaults
      BY <2>10, SpendType DEF OpenFails, End, Quit, TypeOK
    <3>3. PICK how \in {"dead", "failed"} : Ends(p, how)
      BY <2>10 DEF OpenFails, End, Quit
    <3>4. UNCHANGED <<lists, chooser, net>>
      BY <2>10 DEF OpenFails, End, Quit
    <3>. QED BY <3>1, <3>2, <3>3, <3>4, EndsType DEF TypeOK, lists, chooser
  <2>11. ASSUME NEW p \in Pid, NEW h \in Host, Choose(p, h) PROVE TypeOK'
    <3>1. procs[p].life # "gone" /\ procs[p].of \in Terminal
      BY <2>11, LivingType DEF Choose
    <3>2. [of |-> procs[p].of, host |-> h] \in [of : Terminal, host : Host]
      BY <3>1
    <3>3. chosen' \in Seq([of : Terminal, host : Host])
      BY <2>11, <3>2, AppendProperties DEF Choose, TypeOK
    <3>. QED BY <2>11, <3>1, <3>3, EndsType, SpendType DEF Choose, TypeOK, lists
  <2>12. ASSUME NEW q \in protos, Age(q) PROVE TypeOK'
    BY <2>12, SpendType DEF Age, TypeOK, ProtoDisplay, chooser
  <2>13. ASSUME NEW m \in net, Lose(m) PROVE TypeOK'
    BY <2>13, SpendType DEF Lose, TypeOK, lists, chooser
  <2>14. CASE UNCHANGED vars
    BY <2>14 DEF vars, TypeOK, lists, chooser
  <2>. QED BY <2>1, <2>2, <2>3, <2>4, <2>5, <2>6, <2>7, <2>8, <2>9, <2>10, <2>11,
              <2>12, <2>13, <2>14 DEF Next
<1>. QED BY <1>1, <1>2, PTL DEF Spec
-----------------------------------------------------------------------------
(* Ids. *)

LEMMA ListTypes ==
  ASSUME TypeOK
  PROVE  /\ \A q \in protos : q.sessionID \in Nat
         /\ \A d \in displays : d.sessionID \in Nat
         /\ lastId \in Nat
BY DEF TypeOK, ProtoDisplay, Display

(* Steps that take from the lists, or make a proto display old. *)
LEMMA FewerLists ==
  ASSUME ListsInv, lastId' = lastId,
         \A q \in protos' : \E r \in protos :
           q.from = r.from /\ q.sessionID = r.sessionID,
         \A q, r \in protos' : q.sessionID = r.sessionID => q = r,
         displays' \subseteq displays
  PROVE  ListsInv'
<1>1. Bounded'
  BY DEF ListsInv, Bounded
<1>2. Apart'
  BY DEF ListsInv, Apart
<1>3. OneProto'
  BY DEF ListsInv, OneProto, Apart
<1>4. Newer'
  BY DEF ListsInv, Newer
<1>. QED BY <1>1, <1>2, <1>3, <1>4 DEF ListsInv

LEMMA SameLists ==
  ASSUME ListsInv, UNCHANGED lastId, protos' \subseteq protos,
         displays' \subseteq displays
  PROVE  ListsInv'
BY FewerLists DEF ListsInv, Apart

LEMMA RequestIds ==
  ASSUME TypeOK, ListsInv, NEW m \in net, request_respond(m)
  PROVE  ListsInv' /\ displays' = displays
<1>1. CASE UNCHANGED lists
  BY <1>1, SameLists DEF lists
<1>2. CASE /\ FindProtoDisplay(m.from) = {}
           /\ protos' = NewProtoDisplay(m.from) /\ lastId' = NextSessionID
           /\ UNCHANGED displays
  <2>1. \A q \in protos' : q \in protos \/ (q.from = m.from /\ q.sessionID = lastId + 1
                                            /\ q.old = FALSE)
    BY <1>2 DEF NewProtoDisplay, NextSessionID
  <2>2. \A q \in protos : q.from # m.from
    BY <1>2 DEF FindProtoDisplay
  <2>3. \A q, r \in protos' : q \notin protos /\ r \notin protos => q = r
    BY <1>2 DEF NewProtoDisplay
  <2>4. Bounded'
    BY <1>2, <2>1, ListTypes DEF ListsInv, Bounded, NextSessionID
  <2>5. Apart'
    BY <1>2, <2>1, <2>3, ListTypes DEF ListsInv, Bounded, Apart
  <2>6. OneProto'
    BY <2>1, <2>2, <2>3 DEF ListsInv, OneProto
  <2>7. Newer'
    BY <1>2, <2>1, ListTypes DEF ListsInv, Bounded, Newer
  <2>. QED BY <1>2, <2>4, <2>5, <2>6, <2>7 DEF ListsInv
<1>. QED BY <1>1, <1>2 DEF request_respond, lists

(* What StartSession does to the lists: q gives way to its display. *)
LEMMA StartLists ==
  ASSUME NEW q \in protos, NEW m, StartSession(q, m)
  PROVE  /\ protos' = protos \ {q}
         /\ \E e \in displays' :
              /\ displays' = (displays \ FindDisplayByName(q.from.at)) \cup {e}
              /\ e.name = q.from.at /\ e.from = q.from /\ e.sessionID = q.sessionID
<1> DEFINE d == [name |-> q.from.at, from |-> q.from, sessionID |-> q.sessionID,
                 pid |-> NoPid, running |-> FALSE]
           e == [d EXCEPT !.pid = NextPid, !.running = TRUE]
           rest == displays \ FindDisplayByName(q.from.at)
<1>1. displays' = rest \cup {e} \/ displays' = rest \cup {d}
  BY DEF StartSession
<1>2. d.name = q.from.at /\ d.from = q.from /\ d.sessionID = q.sessionID
  OBVIOUS
<1>3. e.name = q.from.at /\ e.from = q.from /\ e.sessionID = q.sessionID
  OBVIOUS
<1>4. protos' = protos \ {q}
  BY DEF StartSession, DisposeProtoDisplay
<1> HIDE DEF d, e
<1>. QED BY <1>1, <1>2, <1>3, <1>4

LEMMA StartIds ==
  ASSUME TypeOK, ListsInv, NEW q \in protos, NEW m, StartSession(q, m),
         UNCHANGED lastId
  PROVE  ListsInv'
<1>1. PICK e \in displays' :
        /\ displays' = (displays \ FindDisplayByName(q.from.at)) \cup {e}
        /\ e.from = q.from /\ e.sessionID = q.sessionID
  BY StartLists
<1>2. protos' = protos \ {q}
  BY StartLists
<1>3. \A d \in displays' : d \in displays \/ d = e
  BY <1>1
<1>4. Bounded'
  BY <1>1, <1>2, <1>3 DEF ListsInv, Bounded
<1>5. Apart'
  BY <1>1, <1>2, <1>3 DEF ListsInv, Apart
<1>6. OneProto'
  BY <1>2 DEF ListsInv, OneProto
<1>7. Newer'
  BY <1>1, <1>2, <1>3 DEF ListsInv, Newer, OneProto
<1>. QED BY <1>4, <1>5, <1>6, <1>7 DEF ListsInv
-----------------------------------------------------------------------------
(* Sessions. *)

OneDisplay == \A d, e \in displays : d.name = e.name => d = e

(* p is served by its display, or is to end. *)
Accounted(p) ==
  Alive(p) /\ ~procs[p].told =>
    \E d \in displays : /\ d.pid = p /\ d.name = procs[p].of
                        /\ d.sessionID = procs[p].sessionID

LEMMA OneSessionParts == OneSession <=> OneDisplay /\ \A p \in Pid : Accounted(p)
BY DEF OneSession, OneDisplay, Accounted

(* No process comes to life or changes hands. *)
Quieter(p) ==
  Alive(p)' /\ ~procs'[p].told =>
    /\ Alive(p) /\ ~procs[p].told
    /\ procs'[p].of = procs[p].of /\ procs'[p].sessionID = procs[p].sessionID

LEMMA SameDisplays ==
  ASSUME OneSession, UNCHANGED displays, \A p \in Pid : Quieter(p)
  PROVE  OneSession'
BY DEF OneSession, Quieter

LEMMA TerminatedQuiet ==
  ASSUME TypeOK, NEW D, NEW p \in Pid, procs'[p] = Terminated(D)[p]
  PROVE  Quieter(p) /\ (Alive(p)' /\ ~procs'[p].told => p \notin {d.pid : d \in D})
<1>1. CASE p \in {d.pid : d \in D} /\ Alive(p)
  <2>1. procs[p] \in Process
    BY <1>1, LivesDiffer, LivingType
  <2>2. procs'[p].told
    BY <1>1, <2>1 DEF Terminated, Process
  <2>. QED BY <2>2 DEF Quieter
<1>2. CASE ~(p \in {d.pid : d \in D} /\ Alive(p))
  <2>1. procs'[p] = procs[p]
    BY <1>2 DEF Terminated
  <2>. QED BY <1>2, <2>1 DEF Quieter, Alive
<1>. QED BY <1>1, <1>2

LEMMA ClosedQuiet ==
  ASSUME TypeOK, NEW t, NEW p \in Pid, procs'[p] = Closed(t)[p]
  PROVE  Quieter(p)
<1>1. CASE procs[p].life = "open" /\ procs[p].of = t
  <2>1. procs[p] \in Process
    BY <1>1, LivingType
  <2>. QED BY <1>1, <2>1 DEF Quieter, Alive, Closed, Process
<1>2. CASE ~(procs[p].life = "open" /\ procs[p].of = t)
  BY <1>2 DEF Quieter, Alive, Closed
<1>. QED BY <1>1, <1>2

LEMMA EndsQuiet ==
  ASSUME TypeOK, NEW p \in Pid, NEW how \in {"dead", "failed"},
         procs[p].life # "gone", Ends(p, how)
  PROVE  \A r \in Pid : Quieter(r)
<1>. SUFFICES ASSUME NEW r \in Pid PROVE Quieter(r)
  OBVIOUS
<1>1. CASE r = p
  <2>1. procs'[p].life = how
    BY LivingType, ClosedType DEF Ends, TypeOK, Process
  <2>. QED BY <1>1, <2>1 DEF Quieter, Alive
<1>2. CASE r # p
  <2>1. procs'[r] = procs[r] \/ procs'[r] = Closed(procs[p].of)[r]
    BY <1>2, ClosedType DEF Ends, TypeOK
  <2>2. CASE procs'[r] = procs[r]
    BY <2>2 DEF Quieter, Alive
  <2>. QED BY <2>1, <2>2, ClosedQuiet
<1>. QED BY <1>1, <1>2

LEMMA StartOne ==
  ASSUME TypeOK, OneSession, NEW q \in protos, NEW m, StartSession(q, m)
  PROVE  OneSession'
<1> DEFINE t == q.from.at
           old == FindDisplayByName(t)
<1>1. OneDisplay'
  BY StartLists DEF OneSession, OneDisplay, FindDisplayByName
<1>2. ASSUME NEW p \in Pid, procs'[p] = Terminated(old)[p] PROVE Accounted(p)'
  <2>1. Quieter(p) /\ (Alive(p)' /\ ~procs'[p].told => p \notin {d.pid : d \in old})
    BY <1>2, TerminatedQuiet
  <2>2. \A d \in displays : d.pid = p /\ p \notin {e.pid : e \in old} => d \in displays'
    BY StartLists
  <2>. QED BY <2>1, <2>2 DEF OneSession, Accounted, Quieter
<1>3. CASE procs' = Terminated(old)
  BY <1>1, <1>2, <1>3, OneSessionParts DEF OneSession, OneDisplay, Accounted, Alive
<1>4. ASSUME NEW n \in Pid, NEW c \in BOOLEAN, NEW e,
             displays' = (displays \ old) \cup {e},
             e.pid = n, e.name = t, e.sessionID = q.sessionID,
             procs' = [Terminated(old) EXCEPT ![n] =
               [of |-> t, sessionID |-> q.sessionID, chooses |-> c,
                told |-> FALSE, life |-> "opening"]]
      PROVE  OneSession'
  <2>1. Terminated(old) \in [Pid -> Process \cup {NoProc}]
    <3> HIDE DEF old
    <3>. QED BY TerminatedType
  <2>2. Accounted(n)'
    <3>1. procs'[n].of = t /\ procs'[n].sessionID = q.sessionID
      BY <1>4, <2>1
    <3>2. e \in displays'
      BY <1>4
    <3>. QED BY <1>4, <3>1, <3>2 DEF Accounted
  <2>3. \A p \in Pid : p # n => procs'[p] = Terminated(old)[p]
    BY <1>4, <2>1
  <2>4. \A p \in Pid : Accounted(p)'
    <3>1. TAKE p \in Pid
    <3>2. CASE p = n
      BY <2>2, <3>2
    <3>3. CASE p # n
      BY <1>2, <2>3, <3>3
    <3>. QED BY <3>2, <3>3
  <2>. QED BY <1>1, <2>4 DEF OneSession, OneDisplay, Accounted, Alive
<1>5. CASE procs' # Terminated(old)
  <2>1. NextPid \in Pid
    BY <1>5, NextPidFree DEF StartSession
  <2>2. PICK c \in BOOLEAN :
          procs' = [Terminated(old) EXCEPT ![NextPid] =
               [of |-> t, sessionID |-> q.sessionID, chooses |-> c,
                told |-> FALSE, life |-> "opening"]]
    <3>1. procs' = Terminated(old) \/ \E c \in BOOLEAN :
            procs' = [Terminated(old) EXCEPT ![NextPid] =
               [of |-> t, sessionID |-> q.sessionID, chooses |-> c,
                told |-> FALSE, life |-> "opening"]]
      BY DEF StartSession
    <3>. QED BY <1>5, <3>1
  <2> DEFINE d == [name |-> t, from |-> q.from, sessionID |-> q.sessionID,
                   pid |-> NoPid, running |-> FALSE]
             e == [d EXCEPT !.pid = NextPid, !.running = TRUE]
  <2>3. e.pid = NextPid /\ e.name = t /\ e.sessionID = q.sessionID
    OBVIOUS
  <2>4. displays' = (displays \ old) \cup {e}
    <3>1. displays' = (displays \ old) \cup {e} \/ procs' = Terminated(old)
      BY DEF StartSession
    <3>. QED BY <1>5, <3>1
  <2> HIDE DEF e
  <2>. QED BY <2>1, <2>2, <2>3, <2>4, <1>4
<1>. QED BY <1>3, <1>5
-----------------------------------------------------------------------------
(* The lists of socket.c, protodpy.c and dpylist.c agree, and agree with   *)
(* the processes, after every datagram, death and fault.                   *)
THEOREM Inductive == Spec => []XdmcpInv
<1>1. Init => ListsInv /\ OneSession
  BY DEF Init, ListsInv, Bounded, Apart, OneProto, Newer, OneSession, Alive, NoProc
<1>2. TypeOK /\ ListsInv /\ OneSession /\ [Next]_vars => ListsInv' /\ OneSession'
  <2> SUFFICES ASSUME TypeOK, ListsInv, OneSession, [Next]_vars
               PROVE  ListsInv' /\ OneSession'
    OBVIOUS
  <2>0. (\A p \in Pid : procs'[p] = procs[p]) => \A p \in Pid : Quieter(p)
    BY DEF Quieter, Alive
  <2>1. ASSUME NEW t \in Terminal, Serve(t) PROVE ListsInv' /\ OneSession'
    <3>1. PICK m \in net : PacketTurn(m)
      BY <2>1 DEF Serve
    <3>2. CASE request_respond(m)
      <4>1. procs' = procs
        BY <3>2, RequestType
      <4>. QED BY <2>0, <3>2, <4>1, RequestIds, SameDisplays
    <3>3. CASE manage(m) /\ ~UNCHANGED lists
      <4>1. PICK q \in Matching(m) : StartSession(q, m) /\ UNCHANGED lastId
        BY <3>3 DEF manage
      <4>2. q \in protos
        BY DEF Matching, FindProtoDisplay
      <4>. QED BY <4>1, <4>2, StartIds, StartOne
    <3>4. CASE UNCHANGED <<lists, procs>>
      BY <2>0, <3>4, SameLists, SameDisplays DEF lists
    <3>5. CASE manage(m) /\ UNCHANGED lists
      <4>1. CASE UNCHANGED procs
        BY <3>4, <3>5, <4>1
      <4>2. CASE ~UNCHANGED procs
        <5>1. PICK q \in Matching(m) : StartSession(q, m) /\ UNCHANGED lastId
          BY <3>5, <4>2 DEF manage
        <5>2. q \in protos
          BY DEF Matching, FindProtoDisplay
        <5>. QED BY <5>1, <5>2, StartIds, StartOne
      <4>. QED BY <4>1, <4>2
    <3>6. CASE query_respond(m) \/ indirect_respond(m) \/ send_alive(m)
      BY <3>4, <3>6, OtherType
    <3>. QED BY <3>1, <3>2, <3>3, <3>5, <3>6 DEF PacketTurn
  <2>2. ASSUME NEW t \in Terminal, Hear(t) PROVE ListsInv' /\ OneSession'
    <3>1. UNCHANGED lists /\ (procs' = procs \/ procs' = Closed(t))
      BY <2>2 DEF Hear, Receive
    <3>2. \A p \in Pid : Quieter(p)
      BY <2>0, <3>1, ClosedQuiet
    <3>. QED BY <3>1, <3>2, SameLists, SameDisplays DEF lists
  <2>3. ASSUME NEW t \in Terminal, Boot(t) PROVE ListsInv' /\ OneSession'
    <3>1. UNCHANGED lists /\ procs' = Closed(t)
      BY <2>3 DEF Boot
    <3>2. \A p \in Pid : Quieter(p)
      BY <3>1, ClosedQuiet
    <3>. QED BY <3>1, <3>2, SameLists, SameDisplays DEF lists
  <2>4. CASE UNCHANGED <<lists, procs>>
    BY <2>0, <2>4, SameLists, SameDisplays DEF lists
  <2>5. CASE Stop
    <3>1. ListsInv'
      BY <2>5 DEF Stop, ListsInv, Bounded, Apart, OneProto, Newer
    <3>2. ASSUME NEW p \in Pid PROVE ~(Alive(p)' /\ ~procs'[p].told)
      <4>1. CASE procs' = Terminated(displays)
        <5>1. Quieter(p) /\ (Alive(p)' /\ ~procs'[p].told
                              => p \notin {d.pid : d \in displays})
          BY <4>1, TerminatedQuiet
        <5>. QED BY <5>1 DEF Quieter, OneSession
      <4>2. CASE procs' = [r \in Pid |-> NoProc]
        BY <4>2 DEF Alive, NoProc
      <4>. QED BY <2>5, <4>1, <4>2 DEF Stop
    <3>3. OneSession'
      BY <2>5, <3>2 DEF Stop, OneSession
    <3>. QED BY <3>1, <3>3
  <2>6. ASSUME NEW p \in Pid, ProcessChildDeath(p) PROVE ListsInv' /\ OneSession'
    <3>1. ListsInv'
      BY <2>6, SameLists DEF ProcessChildDeath
    <3>2. \A r \in Pid : Quieter(r) /\ (Alive(r)' => r # p)
      BY <2>6 DEF ProcessChildDeath, Quieter, Alive, NoProc, TypeOK
    <3>3. displays' = {d \in displays : d.pid # p}
      BY <2>6 DEF ProcessChildDeath
    <3>. QED BY <3>1, <3>2, <3>3 DEF OneSession, Quieter
  <2>7. ASSUME NEW p \in Pid, OpenDisplay(p) PROVE ListsInv' /\ OneSession'
    <3>1. \A r \in Pid : Quieter(r)
      BY <2>7, LivingType DEF OpenDisplay, Quieter, Alive, TypeOK, Process
    <3>. QED BY <2>7, <3>1, SameLists, SameDisplays DEF OpenDisplay, lists
  <2>8. ASSUME NEW p \in Pid, OpenFails(p) \/ End(p) \/ Quit(p)
                                \/ \E h \in Host : Choose(p, h)
        PROVE ListsInv' /\ OneSession'
    <3>1. procs[p].life # "gone"
      BY <2>8, LivesDiffer DEF OpenFails, End, Quit, Choose
    <3>2. PICK how \in {"dead", "failed"} : Ends(p, how)
      BY <2>8 DEF OpenFails, End, Quit, Choose
    <3>3. UNCHANGED lists
      BY <2>8 DEF OpenFails, End, Quit, Choose
    <3>. QED BY <3>1, <3>2, <3>3, EndsQuiet, SameLists, SameDisplays DEF lists
  <2>9. ASSUME NEW q \in protos, Age(q) PROVE ListsInv' /\ OneSession'
    <3>1. [q EXCEPT !.old = TRUE].from = q.from
          /\ [q EXCEPT !.old = TRUE].sessionID = q.sessionID
      BY <2>9 DEF TypeOK, ProtoDisplay
    <3>2. \A r \in protos' : r = [q EXCEPT !.old = TRUE] \/ (r \in protos /\ r # q)
      BY <2>9 DEF Age
    <3>3. ListsInv'
      <4>1. \A r \in protos' : \E s \in protos :
              r.from = s.from /\ r.sessionID = s.sessionID
        BY <3>1, <3>2
      <4>2. \A r, s \in protos' : r.sessionID = s.sessionID => r = s
        BY <3>1, <3>2 DEF ListsInv, Apart
      <4>. QED BY <2>9, <4>1, <4>2, FewerLists DEF Age
    <3>. QED BY <2>0, <2>9, <3>3, SameDisplays DEF Age
  <2>10. CASE UNCHANGED vars
    BY <2>4, <2>10 DEF vars
  <2>11. \A t \in Terminal : Send(t) \/ Expire(t) => UNCHANGED <<lists, procs>>
    BY DEF Send, Expire
  <2>12. ChooserTurn => UNCHANGED <<lists, procs>>
    BY DEF ChooserTurn
  <2>13. \A m \in net : Lose(m) => UNCHANGED <<lists, procs>>
    BY DEF Lose
  <2>. QED BY <2>1, <2>2, <2>3, <2>4, <2>5, <2>6, <2>7, <2>8, <2>9, <2>10, <2>11,
              <2>12, <2>13 DEF Next
<1>. QED BY <1>1, <1>2, XdmcpTypes, PTL DEF Spec, XdmcpInv

(* Whatever the network and the terminals do, a terminal has one session.  *)
THEOREM OneSessionAlways == Spec => []OneSession
BY Inductive, PTL DEF XdmcpInv

(* However often a question is repeated, an id stands for one session.     *)
THEOREM IdsApartAlways == Spec => []IdsApart
<1>1. XdmcpInv => IdsApart
  BY DEF XdmcpInv, ListsInv, Apart, OneProto, IdsApart
<1>. QED BY <1>1, Inductive, PTL

(* In whatever order they arrive, an older session never takes the place   *)
(* of a newer one of the same address.                                     *)
THEOREM NewestAlways == Spec => NewestKept
<1>1. XdmcpInv /\ [Next]_vars =>
        [\A d \in displays, e \in displays' :
           d.name = e.name /\ d.from = e.from => d.sessionID <= e.sessionID]_vars
  <2> SUFFICES ASSUME XdmcpInv, [Next]_vars, NEW d \in displays, NEW e \in displays',
                      d.name = e.name, d.from = e.from
               PROVE  d.sessionID <= e.sessionID
    OBVIOUS
  <2>1. d.sessionID \in Nat
    BY ListTypes DEF XdmcpInv
  <2>2. CASE e \in displays
    BY <2>1, <2>2 DEF XdmcpInv, OneSession
  <2>3. CASE e \notin displays
    <3>1. PICK t \in Terminal : Serve(t)
      BY <2>3 DEF Next, vars, lists, Hear, Receive, Send, Boot, Expire, ChooserTurn,
        Stop, ProcessChildDeath, OpenDisplay, OpenFails, End, Quit, Choose, Age, Lose
    <3>2. PICK m \in net : PacketTurn(m)
      BY <3>1 DEF Serve
    <3>3. manage(m)
      BY <2>3, <3>2 DEF PacketTurn, query_respond, indirect_respond, request_respond,
        send_alive, lists
    <3>4. PICK q \in Matching(m) : StartSession(q, m)
      BY <2>3, <3>3 DEF manage, lists
    <3>5. q \in protos
      BY DEF Matching, FindProtoDisplay
    <3>6. e.from = q.from /\ e.sessionID = q.sessionID
      BY <2>3, <3>4, <3>5, StartLists
    <3>. QED BY <2>1, <3>5, <3>6, ListTypes DEF XdmcpInv, ListsInv, Newer
  <2>. QED BY <2>2, <2>3
<1>. QED BY <1>1, Inductive, PTL DEF Spec, NewestKept
-----------------------------------------------------------------------------
(* Choices. *)

(* What dtlogin hears before it reads a datagram is all that t's user has  *)
(* chosen, if no choice of his waits behind another connection.            *)
LEMMA Foremost ==
  ASSUME TypeOK, NEW t \in Terminal, ~Behind(t)
  PROVE  LastChoice(t) = Heard[t]
<1>1. chosen \in Seq([of : Terminal, host : Host]) /\ choice \in [Terminal -> Host \cup {"none"}]
  BY DEF TypeOK
<1>2. Waiting(t) \subseteq {1}
  BY <1>1 DEF Behind, Waiting
<1>3. CASE Waiting(t) = {}
  <2>1. CASE chosen = <<>>
    BY <1>3, <2>1 DEF LastChoice, Heard
  <2>2. CASE chosen # <<>>
    <3>1. 1 \in DOMAIN chosen /\ Head(chosen) = chosen[1]
      BY <1>1, <2>2
    <3>2. Head(chosen).of # t
      BY <1>3, <3>1 DEF Waiting
    <3>. QED BY <1>1, <1>3, <2>2, <3>2 DEF LastChoice, Heard
  <2>. QED BY <2>1, <2>2
<1>4. CASE Waiting(t) = {1}
  <2>1. 1 \in DOMAIN chosen /\ chosen[1].of = t
    BY <1>4 DEF Waiting
  <2>2. chosen # <<>> /\ Head(chosen) = chosen[1]
    BY <1>1, <2>1
  <2>3. (CHOOSE i \in Waiting(t) : \A j \in Waiting(t) : j <= i) = 1
    BY <1>4
  <2>4. LastChoice(t) = chosen[1].host
    BY <1>4, <2>3 DEF LastChoice
  <2>. QED BY <1>1, <2>1, <2>2, <2>4 DEF Heard
<1>. QED BY <1>2, <1>3, <1>4

LEMMA TerminatedNone ==
  ASSUME NEW D, NEW p \in Pid, procs[p] = NoProc
  PROVE  Terminated(D)[p] = NoProc
BY DEF Terminated, Alive, NoProc

LEMMA ClosedNone ==
  ASSUME NEW t, NEW p \in Pid, procs[p] = NoProc
  PROVE  Closed(t)[p] = NoProc
BY DEF Closed, NoProc

(* No process comes from a session's end. *)
LEMMA EndsNone ==
  ASSUME TypeOK, NEW p \in Pid, procs[p] = NoProc, NEW r \in Pid, NEW how,
         procs[r].life # "gone", Ends(r, how)
  PROVE  procs'[p] = NoProc
<1>1. p # r
  BY DEF NoProc
<1>2. procs'[p] = procs[p] \/ procs'[p] = Closed(procs[r].of)[p]
  BY <1>1, ClosedType DEF Ends, TypeOK
<1>. QED BY <1>2, ClosedNone

LEMMA StartHeard ==
  ASSUME TypeOK, NEW q \in protos, NEW m, StartSession(q, m),
         NEW p \in Pid, procs[p] = NoProc, procs'[p] # NoProc, procs'[p].chooses
  PROVE  Heard[procs'[p].of] = "none"
<1> DEFINE t == q.from.at
           old == FindDisplayByName(t)
           useChooser == t \in indirect /\ Heard[t] = "none"
<1>1. Terminated(old)[p] = NoProc
  <2> HIDE DEF old
  <2>. QED BY TerminatedNone
<1>2. /\ Free # {}
      /\ procs' = [Terminated(old) EXCEPT ![NextPid] =
                    [of |-> t, sessionID |-> q.sessionID, chooses |-> useChooser,
                     told |-> FALSE, life |-> "opening"]]
  BY <1>1 DEF StartSession
<1>3. Terminated(old) \in [Pid -> Process \cup {NoProc}] /\ NextPid \in Pid
  <2> HIDE DEF old
  <2>. QED BY <1>2, TerminatedType, NextPidFree
<1>4. p = NextPid
  <2> HIDE DEF old, useChooser
  <2>. QED BY <1>1, <1>2, <1>3
<1>5. procs'[p].of = t /\ procs'[p].chooses = useChooser
  <2> HIDE DEF old, useChooser
  <2>. QED BY <1>2, <1>3, <1>4
<1>. QED BY <1>5

(* A process comes only from a Manage, and chooses if no choice was heard. *)
LEMMA ChooserHeard ==
  ASSUME TypeOK, [Next]_vars,
         NEW p \in Pid, procs[p] = NoProc, procs'[p] # NoProc, procs'[p].chooses
  PROVE  Heard[procs'[p].of] = "none"
<1>1. ASSUME NEW t \in Terminal, Serve(t) PROVE Heard[procs'[p].of] = "none"
  <2>1. PICK m \in net : PacketTurn(m)
    BY <1>1 DEF Serve
  <2>2. manage(m)
    BY <2>1 DEF PacketTurn, query_respond, indirect_respond, request_respond, send_alive
  <2>3. PICK q \in Matching(m) : StartSession(q, m)
    BY <2>2 DEF manage
  <2>4. q \in protos
    BY DEF Matching, FindProtoDisplay
  <2>. QED BY <2>3, <2>4, StartHeard
<1>2. ASSUME NEW t \in Terminal, Hear(t) \/ Boot(t) PROVE FALSE
  <2>1. procs' = procs \/ procs' = Closed(t)
    BY <1>2 DEF Hear, Receive, Boot
  <2>. QED BY <2>1, ClosedNone
<1>3. ASSUME NEW t \in Terminal, Send(t) \/ Expire(t) PROVE FALSE
  BY <1>3 DEF Send, Expire
<1>4. ChooserTurn => FALSE
  BY DEF ChooserTurn
<1>5. Stop => FALSE
  BY TerminatedNone DEF Stop
<1>6. ASSUME NEW r \in Pid, ProcessChildDeath(r) \/ OpenDisplay(r) PROVE FALSE
  BY <1>6 DEF ProcessChildDeath, OpenDisplay, TypeOK, NoProc
<1>7. ASSUME NEW r \in Pid, OpenFails(r) \/ End(r) \/ Quit(r)
                             \/ \E h \in Host : Choose(r, h)
      PROVE  FALSE
  <2>1. procs[r].life # "gone"
    BY <1>7, LivesDiffer DEF OpenFails, End, Quit, Choose
  <2>2. PICK how \in {"dead", "failed"} : Ends(r, how)
    BY <1>7 DEF OpenFails, End, Quit, Choose
  <2>. QED BY <2>1, <2>2, EndsNone
<1>8. ASSUME NEW q \in protos, Age(q) PROVE FALSE
  BY <1>8 DEF Age
<1>9. ASSUME NEW m \in net, Lose(m) PROVE FALSE
  BY <1>9 DEF Lose
<1>10. CASE UNCHANGED vars
  BY <1>10 DEF vars
<1>. QED BY <1>1, <1>2, <1>3, <1>4, <1>5, <1>6, <1>7, <1>8, <1>9, <1>10 DEF Next

(* A terminal is taken for a client only by an indirect query. *)
LEMMA ClientHeard ==
  ASSUME TypeOK, [Next]_vars, NEW t \in indirect' \ indirect
  PROVE  Heard[t] # "there"
<1>1. PICK u \in Terminal : Serve(u)
  BY DEF Next, vars, chooser, Hear, Receive, Send, Boot, Expire, ChooserTurn, Stop,
    ProcessChildDeath, OpenDisplay, OpenFails, End, Quit, Choose, Age, Lose
<1>2. PICK m \in net : PacketTurn(m)
  BY <1>1 DEF Serve
<1>3. ~manage(m)
  BY DEF manage, StartSession
<1>4. indirect_respond(m)
  BY <1>2, <1>3 DEF PacketTurn, query_respond, request_respond, send_alive
<1>. QED BY <1>4 DEF indirect_respond

(* However many terminals and choosers there are, a choice is heeded by    *)
(* the very next datagram, unless it waits behind another connection.      *)
THEOREM ChoiceHonouredAlways == Spec => ChoiceHonoured
<1>1. TypeOK /\ [Next]_vars =>
        [\A t \in Terminal : Overlooked(t) => Behind(t)]_vars
  <2> SUFFICES ASSUME TypeOK, [Next]_vars, NEW t \in Terminal, Overlooked(t), ~Behind(t)
               PROVE  FALSE
    OBVIOUS
  <2>1. LastChoice(t) = Heard[t]
    BY Foremost
  <2>. QED BY <2>1, ClientHeard, ChooserHeard DEF Overlooked
<1>. QED BY <1>1, XdmcpTypes, PTL DEF Spec, ChoiceHonoured
=============================================================================
