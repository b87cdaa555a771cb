-------------------------- MODULE TtSignal_proofs --------------------------
(***************************************************************************)
(* No signal to a ToolTalk client is lost, and none is left over but by    *)
(* the calls it makes without one, whatever the number of messages; and    *)
(* TtSession is right about signals.                                       *)
(***************************************************************************)
EXTENDS TtSignal, TLAPS

\* The bytes the server believes unread: one if the flag is set, and one more
\* that it has told the client to read.
Owed == flag + (IF Clearing THEN 1 ELSE 0)

\* While the channel works, the flag is set when there are messages, and the
\* bytes that are owed have been sent; those left over are no more than the
\* calls made without a signal, and fewer while a call is under way with no
\* byte to read, for this call may yet leave one.
\* A client without a channel has no messages.
IInv ==
    /\ On => /\ (flag = 1) <=> (undelivered > 0)
             /\ Sent \in Owed .. Owed + calls
             /\ call # "idle" /\ bytes = 0 => Sent < Owed + calls
    /\ ~On => undelivered = 0

LEMMA InitIInv == Init => TypeOK /\ IInv
<1> SUFFICES ASSUME Init PROVE TypeOK /\ IInv
  OBVIOUS
<1>1. call \in Rpc
  BY DEF Init, Rpc
<1>2. TypeOK
  BY <1>1 DEF Init, TypeOK
<1>3. IInv
  BY DEF Init, IInv, Owed, Sent, Clearing, On
<1> QED
  BY <1>2, <1>3

\* The server and the client keep the types.
LEMMA NextTypeOK == TypeOK /\ [Next]_vars => TypeOK'
<1> SUFFICES ASSUME TypeOK, [Next]_vars PROVE TypeOK'
  OBVIOUS
<1> USE DEF TypeOK, Rpc, Reply, On, Known
<1>1. CASE Signal
  BY <1>1 DEF Signal, Post
<1>2. CASE SignalFails
  BY <1>2 DEF SignalFails, Post
<1>3. CASE Hangup
  BY <1>3 DEF Hangup
<1>4. CASE ServeNext
  BY <1>4 DEF ServeNext, HasMessage, Last
<1>5. CASE Look \/ LookUnprompted
  BY <1>5 DEF Look, LookUnprompted
<1>6. CASE Finish
  BY <1>6 DEF Finish, OneLess
<1>7. CASE Arrive
  BY <1>7 DEF Arrive
<1>8. CASE UNCHANGED vars
  BY <1>8 DEF vars
<1> QED
  BY <1>1, <1>2, <1>3, <1>4, <1>5, <1>6, <1>7, <1>8 DEF Next, Server, Client

\* A new byte, the coming of an old one and its reading may cross in any order.
LEMMA NextIInv == TypeOK /\ IInv /\ [Next]_vars => IInv'
<1> SUFFICES ASSUME TypeOK, IInv, [Next]_vars PROVE IInv'
  OBVIOUS
<1> USE DEF TypeOK, IInv, Owed, Sent, Rpc, Reply, Clearing, On, Known
<1>1. CASE Signal
  BY <1>1 DEF Signal, Post
<1>2. CASE SignalFails
  BY <1>2 DEF SignalFails, Post
<1>3. CASE Hangup
  BY <1>3 DEF Hangup
<1>4. CASE ServeNext
  BY <1>4 DEF ServeNext, HasMessage, Last
<1>5. CASE Look \/ LookUnprompted
  <2>1. CASE Look
    BY <2>1 DEF Look, Readable
  <2>2. CASE LookUnprompted
    BY <2>2 DEF LookUnprompted
  <2> QED
    BY <1>5, <2>1, <2>2
<1>6. CASE Finish
  BY <1>6 DEF Finish, OneLess
<1>7. CASE Arrive
  BY <1>7 DEF Arrive
<1>8. CASE UNCHANGED vars
  BY <1>8 DEF vars
<1> QED
  BY <1>1, <1>2, <1>3, <1>4, <1>5, <1>6, <1>7, <1>8 DEF Next, Server, Client

LEMMA Invariance == Spec => [](TypeOK /\ IInv)
  BY InitIInv, NextTypeOK, NextIInv, PTL DEF Spec

\* Every variable keeps its type.
THEOREM SignalTypeCorrect == Spec => []TypeOK
  BY Invariance, PTL

\* No wake-up is lost: for a client with messages a byte has been sent besides
\* the one it has been told to read.
THEOREM AwakeAlways == Spec => []Awake
<1>1. TypeOK /\ IInv => Awake
  BY DEF TypeOK, IInv, Owed, Awake, Sent, Clearing, On
<1> QED
  BY <1>1, Invariance, PTL

\* Between two calls, no signal is left over but by calls the client made
\* without one, and each of those leaves one at most.
THEOREM QuietAlways == Spec => []Quiet
<1>1. TypeOK /\ IInv => Quiet
  BY DEF TypeOK, IInv, Owed, Quiet, Sent, Clearing, On
<1> QED
  BY <1>1, Invariance, PTL

\* The channel is silent at first.
LEMMA BellInit == Init => Bell!BInit
  BY DEF Init, On, Bell!BInit

\* Each step of the server is one that TtBell allows, or does not concern it.
LEMMA BellStep == TypeOK /\ IInv /\ [Next]_vars => [Bell!BNext]_(Bell!bvars)
<1> SUFFICES ASSUME TypeOK, IInv, [Next]_vars PROVE [Bell!BNext]_(Bell!bvars)
  OBVIOUS
<1> USE DEF On, Known, TypeOK, IInv, Bell!BNext, Bell!bvars
<1>1. CASE Signal
  <2>1. Bell!Put
    BY <1>1 DEF Signal, Post, Bell!Put
  <2> QED
    BY <2>1
<1>2. CASE SignalFails
  <2>1. Bell!Lose
    BY <1>2 DEF SignalFails, Post, Bell!Lose
  <2> QED
    BY <2>1
<1>3. CASE Hangup
  <2>1. Bell!Lose
    BY <1>3 DEF Hangup, Bell!Lose
  <2> QED
    BY <2>1
<1>4. CASE ServeNext
  <2>1. CASE On /\ flag = 1
    <3>1. Bell!Look
      BY <1>4, <2>1 DEF ServeNext, HasMessage, Last, Bell!Look
    <3> QED
      BY <3>1
  <2>2. CASE On /\ flag = 0
    BY <1>4, <2>2 DEF ServeNext, HasMessage, Last
  <2>3. CASE ~On
    BY <1>4, <2>3 DEF ServeNext, HasMessage, Last
  <2> QED
    BY <2>1, <2>2, <2>3
<1>5. CASE Client
  BY <1>5 DEF Client, Look, LookUnprompted, Finish
<1>6. CASE Arrive
  BY <1>6 DEF Arrive
<1>7. CASE UNCHANGED vars
  BY <1>7 DEF vars
<1> QED
  BY <1>1, <1>2, <1>3, <1>4, <1>5, <1>6, <1>7 DEF Next, Server

\* TtSession is right about signals, whatever the number of messages: the
\* safety part of ImplementsBell.
THEOREM SignalImplementsBell == Spec => Bell!BInit /\ [][Bell!BNext]_(Bell!bvars)
  BY BellInit, BellStep, Invariance, PTL DEF Spec

=============================================================================
