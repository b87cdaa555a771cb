--------------------------- MODULE TtMatch_proofs ---------------------------
(***************************************************************************)
(* Which handler gets a ToolTalk request, for any number of clients,       *)
(* patterns and requests, and however well they match.                     *)
(***************************************************************************)
EXTENDS TtMatch, TLAPS

-----------------------------------------------------------------------------
(* Sequences of patterns. *)

LEMMA Empty == << >> \in Seq(Pat) /\ ToSet(<< >>) = {}
  BY DEF ToSet

LEMMA Pushed ==
  ASSUME NEW pat \in Pat, NEW s \in Seq(Pat)
  PROVE  <<pat>> \o s \in Seq(Pat)
  OBVIOUS

LEMMA Removed ==
  ASSUME NEW s \in Seq(Pat), NEW i \in DOMAIN s
  PROVE  RemoveAt(s, i) \in Seq(Pat)
  BY DEF RemoveAt

LEMMA Joined ==
  ASSUME NEW s \in Seq(Pat), NEW t \in Seq(Pat)
  PROVE  s \o t \in Seq(Pat) /\ ToSet(s \o t) = ToSet(s) \cup ToSet(t)
<1>1. s \o t \in Seq(Pat)
  OBVIOUS
<1>2. ASSUME NEW e \in ToSet(s \o t) PROVE e \in ToSet(s) \cup ToSet(t)
  <2>1. PICK i \in DOMAIN (s \o t) : (s \o t)[i] = e
    BY <1>2 DEF ToSet
  <2>2. CASE i <= Len(s)
    BY <2>1, <2>2 DEF ToSet
  <2>3. CASE i > Len(s)
    <3>1. i - Len(s) \in DOMAIN t /\ t[i - Len(s)] = e
      BY <2>1, <2>3
    <3> QED
      BY <3>1 DEF ToSet
  <2> QED
    BY <2>1, <2>2, <2>3
<1>3. ASSUME NEW e \in ToSet(s) PROVE e \in ToSet(s \o t)
  <2>1. PICK i \in DOMAIN s : s[i] = e
    BY <1>3 DEF ToSet
  <2>2. i \in DOMAIN (s \o t) /\ (s \o t)[i] = e
    BY <2>1
  <2> QED
    BY <2>2 DEF ToSet
<1>4. ASSUME NEW e \in ToSet(t) PROVE e \in ToSet(s \o t)
  <2>1. PICK i \in DOMAIN t : t[i] = e
    BY <1>4 DEF ToSet
  <2>2. i + Len(s) \in DOMAIN (s \o t) /\ (s \o t)[i + Len(s)] = e
    BY <2>1
  <2> QED
    BY <2>2 DEF ToSet
<1> QED
  BY <1>1, <1>2, <1>3, <1>4

LEMMA HeadAndTail ==
  ASSUME NEW s \in Seq(Pat), s # << >>
  PROVE  /\ Head(s) \in Pat /\ Tail(s) \in Seq(Pat)
         /\ ToSet(s) = {Head(s)} \cup ToSet(Tail(s))
<1>1. Head(s) \in Pat /\ Tail(s) \in Seq(Pat) /\ Head(s) = s[1] /\ 1 \in DOMAIN s
  OBVIOUS
<1>2. ASSUME NEW e \in ToSet(s) PROVE e \in {Head(s)} \cup ToSet(Tail(s))
  <2>1. PICK i \in DOMAIN s : s[i] = e
    BY <1>2 DEF ToSet
  <2>2. CASE i = 1
    BY <1>1, <2>1, <2>2
  <2>3. CASE i # 1
    <3>1. i - 1 \in DOMAIN Tail(s) /\ Tail(s)[i - 1] = e
      BY <2>1, <2>3
    <3> QED
      BY <3>1 DEF ToSet
  <2> QED
    BY <2>2, <2>3
<1>3. ASSUME NEW e \in ToSet(Tail(s)) PROVE e \in ToSet(s)
  <2>1. PICK i \in DOMAIN Tail(s) : Tail(s)[i] = e
    BY <1>3 DEF ToSet
  <2>2. i + 1 \in DOMAIN s /\ s[i + 1] = e
    BY <2>1
  <2> QED
    BY <2>2 DEF ToSet
<1>4. Head(s) \in ToSet(s)
  BY <1>1 DEF ToSet
<1> QED
  BY <1>1, <1>2, <1>3, <1>4

LEMMA RegisteredPat == TypeOK => Registered \subseteq Pat
  BY DEF TypeOK, Registered, ToSet

-----------------------------------------------------------------------------
(* Types. *)

LEMMA WalkType == NoWalk \in Walk
  BY Empty DEF NoWalk, Walk

LEMMA InitType == Init => TypeOK
<1> SUFFICES ASSUME Init PROVE TypeOK
  OBVIOUS
<1>1. walk \in Walk
  BY WalkType DEF Init
<1>2. opless_pats \in Seq(Pat) /\ opful_pats \in Seq(Pat)
  BY Empty DEF Init
<1> QED
  BY <1>1, <1>2 DEF Init, TypeOK

\* Any time up to the next one may be given to a pattern.
LEMMA StampType ==
  ASSUME TypeOK, NEW pat \in Pat, NEW t \in 0 .. now + 1
  PROVE  [timestamp EXCEPT ![pat] = t] \in [Pat -> 0 .. now + 1]
<1>1. \A q \in Pat : timestamp[q] \in 0 .. now + 1
  BY DEF TypeOK
<1> QED
  BY <1>1 DEF TypeOK

LEMMA OrderType ==
  ASSUME TypeOK, NEW pat \in Pat
  PROVE  Latest(pat) \subseteq Pat \X Pat /\ Earliest(pat) \subseteq Pat \X Pat
<1>1. later \subseteq Pat \X Pat
  BY DEF TypeOK
<1>2. {<<pat, other>> : other \in Pat} \subseteq Pat \X Pat
  OBVIOUS
<1>3. {<<other, pat>> : other \in {o \in Pat \ {pat} : <<o, o>> \in later}} \subseteq Pat \X Pat
  <2> DEFINE stamped == {o \in Pat \ {pat} : <<o, o>> \in later}
  <2>1. stamped \subseteq Pat
    OBVIOUS
  <2> HIDE DEF stamped
  <2>2. {<<other, pat>> : other \in stamped} \subseteq Pat \X Pat
    BY <2>1
  <2> QED
    BY <2>2 DEF stamped
<1>4. {pair \in later : pair[2] # pat} \subseteq later
  OBVIOUS
<1>5. {pair \in later : pair[1] # pat} \subseteq later
  OBVIOUS
<1>6. Latest(pat) \subseteq Pat \X Pat
  BY <1>1, <1>2, <1>4, Zenon DEF Latest
<1>7. Earliest(pat) \subseteq Pat \X Pat
  BY <1>1, <1>3, <1>5, Zenon DEF Earliest
<1> QED
  BY <1>6, <1>7

LEMMA RegisterType ==
  ASSUME TypeOK, NEW pat \in Pat, Register(pat) PROVE TypeOK'
<1>1. now \in Nat /\ now' = now + 1 /\ now' \in Nat
  BY DEF TypeOK, Register, Tick
<1>2. timestamp' \in [Pat -> 0 .. now']
  <2>1. 0 \in 0 .. now + 1 /\ now + 1 \in 0 .. now + 1
    BY <1>1
  <2>2. CASE Category[pat] = "HANDLE_PUSH"
    BY <1>1, <2>1, <2>2, StampType DEF Register, Tick, Stamp
  <2>3. CASE Category[pat] # "HANDLE_PUSH"
    BY <1>1, <2>1, <2>3, StampType DEF Register
  <2> QED
    BY <2>2, <2>3
<1>3. later' \subseteq Pat \X Pat
  BY OrderType DEF Register
<1>4. opless_pats' \in Seq(Pat) /\ opful_pats' \in Seq(Pat)
  BY Pushed DEF Register, TypeOK
<1>5. UNCHANGED <<holder, tried, walk, best, active, leaving>>
  BY DEF Register
<1>6. (walk \in Walk)'
  BY <1>5 DEF TypeOK, Walk
<1>7. stale' \subseteq Pat
  BY DEF Register, TypeOK
<1> QED
  BY <1>1, <1>2, <1>3, <1>4, <1>5, <1>6, <1>7 DEF TypeOK

LEMMA DeleteType ==
  ASSUME TypeOK, NEW pat, Delete(pat)
  PROVE  /\ opless_pats' \in Seq(Pat) /\ opful_pats' \in Seq(Pat)
         /\ stale' \subseteq Pat
         /\ UNCHANGED <<timestamp, now, holder, tried, walk, best, active, later>>
  BY Removed DEF TypeOK, Delete

LEMMA DeliverType ==
  ASSUME TypeOK, NEW m \in Request, Deliver(m)
  PROVE  walk' \in Walk /\ best' = NoPat
  BY Joined DEF TypeOK, Deliver, Walk, Pats2match

LEMMA MatchHandlerType ==
  ASSUME TypeOK, NEW m \in Request, MatchHandler(m) PROVE TypeOK'
<1>1. walk.todo \in Seq(Pat) /\ walk.todo # << >>
  BY DEF TypeOK, MatchHandler, Walking, Walk
<1>2. Head(walk.todo) \in Pat /\ Tail(walk.todo) \in Seq(Pat)
  BY <1>1
<1>3. walk' \in Walk
  BY <1>2 DEF TypeOK, MatchHandler, Walk
<1>4. best' \in Pat \cup {NoPat}
  BY <1>2 DEF TypeOK, MatchHandler
<1> QED
  BY <1>3, <1>4 DEF TypeOK, MatchHandler, regVars

LEMMA MatchInactiveType ==
  ASSUME TypeOK, NEW m \in Request, MatchInactive(m) PROVE TypeOK'
<1>1. << >> \in Seq(Pat)
  OBVIOUS
<1>2. walk' \in Walk
  BY <1>1 DEF TypeOK, MatchInactive, Walk
<1> QED
  BY <1>2 DEF TypeOK, MatchInactive, regVars

\* A pattern that is matched takes the time, which ticks after a whole walk.
LEMMA MatchType ==
  ASSUME TypeOK, NEW pat \in Pat, Match(pat)
  PROVE  /\ now' \in Nat /\ timestamp' \in [Pat -> 0 .. now']
         /\ later' \subseteq Pat \X Pat
         /\ walk' \in Walk /\ best' = NoPat
         /\ UNCHANGED <<opless_pats, opful_pats, stale, tried>>
<1>1. now \in Nat /\ now' \in {now, now + 1}
  BY DEF TypeOK, Match, Tick
<1>2. timestamp' \in [Pat -> 0 .. now']
  <2>1. \A q \in Pat : timestamp[q] \in 0 .. now'
    BY <1>1 DEF TypeOK
  <2>2. now' \in 0 .. now'
    BY <1>1
  <2>3. CASE Category[pat] = "HANDLE_ROTATE"
    BY <2>1, <2>2, <2>3 DEF TypeOK, Match, Stamp
  <2>4. CASE Category[pat] # "HANDLE_ROTATE"
    BY <2>1, <2>4 DEF TypeOK, Match
  <2> QED
    BY <2>3, <2>4
<1>3. later' \subseteq Pat \X Pat
  <2>1. Unordered(pat) \subseteq later /\ later \subseteq Pat \X Pat
    BY DEF Unordered, TypeOK
  <2> QED
    BY <2>1, OrderType DEF Match
<1> QED
  BY <1>1, <1>2, <1>3, WalkType DEF Match

LEMMA GiveUpType ==
  ASSUME TypeOK, NEW p \in Proc, GiveUp(p)
  PROVE  /\ active' \subseteq Proc /\ leaving' \subseteq Proc
         /\ holder' \in [Request -> Proc \cup {NoProc}]
  BY DEF TypeOK, GiveUp

LEMMA NextType == TypeOK /\ [Next]_vars => TypeOK'
<1> SUFFICES ASSUME TypeOK, [Next]_vars PROVE TypeOK'
  OBVIOUS
<1>1. ASSUME NEW pat \in Pat, Register(pat) PROVE TypeOK'
  BY <1>1, RegisterType
<1>2. ASSUME NEW pat \in Pat, Unregister(pat) PROVE TypeOK'
  BY <1>2, DeleteType DEF Unregister, TypeOK
<1>3. ASSUME NEW m \in Request, Send(m) PROVE TypeOK'
  BY <1>3, DeliverType DEF Send, TypeOK, regVars
<1>4. ASSUME NEW m \in Request, MatchHandler(m) PROVE TypeOK'
  BY <1>4, MatchHandlerType
<1>5. ASSUME NEW m \in Request, GiveToHandler(m) PROVE TypeOK'
  <2>1. best \in Pat /\ Owner[best] \in Proc
    BY <1>5, MatchAssumption DEF GiveToHandler, TypeOK
  <2> QED
    BY <1>5, <2>1, MatchType DEF GiveToHandler, TypeOK
<1>6. ASSUME NEW m \in Request, HandlerIsDead(m) PROVE TypeOK'
  <2>1. best \in Pat /\ Owner[best] \in Proc
    BY <1>6, MatchAssumption DEF HandlerIsDead, TypeOK
  <2>2. Match(best) /\ GiveUp(Owner[best])
    BY <1>6 DEF HandlerIsDead
  <2> QED
    BY <2>1, <2>2, MatchType, GiveUpType DEF TypeOK
<1>7. ASSUME NEW m \in Request, NoHandler(m) PROVE TypeOK'
  BY <1>7, WalkType DEF NoHandler, TypeOK, regVars
<1>8. ASSUME NEW m \in Request, Reject(m) PROVE TypeOK'
  BY <1>8, DeliverType DEF Reject, TypeOK, regVars
<1>9. ASSUME NEW m \in Request, Reply(m) PROVE TypeOK'
  BY <1>9 DEF Reply, TypeOK, regVars
<1>10. ASSUME NEW p \in Proc, Hangup(p) PROVE TypeOK'
  BY <1>10, GiveUpType DEF Hangup, TypeOK, regVars
<1>11. ASSUME NEW p \in Proc, Forget(p) PROVE TypeOK'
  <2>1. CASE (\E pat \in Registered : Delete(pat)) /\ UNCHANGED leaving
    BY <2>1, DeleteType DEF TypeOK
  <2>2. CASE /\ leaving' = {}
             /\ UNCHANGED <<regVars, holder, tried, walk, best, active>>
    BY <2>2 DEF TypeOK, regVars
  <2> QED
    BY <1>11, <2>1, <2>2 DEF Forget
<1>12. ASSUME NEW p \in Proc, Activate(p) PROVE TypeOK'
  BY <1>12 DEF Activate, TypeOK, regVars
<1>13. ASSUME NEW m \in Request, MatchInactive(m) PROVE TypeOK'
  BY <1>13, MatchInactiveType
<1>14. CASE UNCHANGED vars
  BY <1>14 DEF vars, TypeOK
<1> QED
  BY <1>1, <1>2, <1>3, <1>4, <1>5, <1>6, <1>7, <1>8, <1>9, <1>10, <1>11, <1>12, <1>13,
     <1>14 DEF Next

\* Every variable keeps its type, and no pattern is stamped ahead of the clock.
THEOREM MatchTypeCorrect == Spec => []TypeOK
  BY InitType, NextType, PTL DEF Spec

-----------------------------------------------------------------------------
(* The clock. *)

\* A pattern that was matched, or as a push pattern registered, after another
\* one has the later time; of two registered push patterns one is the later.
Clock ==
    /\ \A p \in Pat : <<p, p>> \in later => timestamp[p] > 0
    /\ \A p, q \in Pat : <<p, q>> \in later /\ p # q => timestamp[p] > timestamp[q]
    /\ \A p, q \in Registered :
          Category[p] = "HANDLE_PUSH" /\ Category[q] = "HANDLE_PUSH" /\ p # q =>
              <<p, q>> \in later \/ <<q, p>> \in later

LEMMA LatestPairs ==
  ASSUME NEW pat \in Pat, NEW p \in Pat, NEW q \in Pat
  PROVE  <<p, q>> \in Latest(pat) <=> p = pat \/ (q # pat /\ <<p, q>> \in later)
  BY DEF Latest

LEMMA EarliestPairs ==
  ASSUME NEW pat \in Pat, NEW p \in Pat, NEW q \in Pat
  PROVE  <<p, q>> \in Earliest(pat)
            <=> p # pat /\ (<<p, q>> \in later \/ (q = pat /\ <<p, p>> \in later))
  BY DEF Earliest

\* A pattern that takes the next time becomes the latest.
LEMMA LatestClock ==
  ASSUME TypeOK, Clock, NEW pat \in Pat,
         now' = now + 1, timestamp' = [timestamp EXCEPT ![pat] = now + 1],
         later' = Latest(pat), Registered' \subseteq Registered \cup {pat}
  PROVE  Clock'
<1>1. \A q \in Pat : timestamp[q] \in Nat /\ timestamp[q] <= now
  BY DEF TypeOK
<1>2. now \in Nat
  BY DEF TypeOK
<1>3. \A q \in Pat : timestamp'[q] = IF q = pat THEN now + 1 ELSE timestamp[q]
  BY DEF TypeOK
<1>4. ASSUME NEW p \in Pat, <<p, p>> \in later' PROVE timestamp'[p] > 0
  BY <1>1, <1>2, <1>3, <1>4, LatestPairs DEF Clock
<1>5. ASSUME NEW p \in Pat, NEW q \in Pat, <<p, q>> \in later', p # q
      PROVE  timestamp'[p] > timestamp'[q]
  BY <1>1, <1>2, <1>3, <1>5, LatestPairs DEF Clock
<1>6. ASSUME NEW p \in Registered', NEW q \in Registered', p # q,
             Category[p] = "HANDLE_PUSH", Category[q] = "HANDLE_PUSH"
      PROVE  <<p, q>> \in later' \/ <<q, p>> \in later'
  <2>1. p \in Pat /\ q \in Pat
    BY RegisteredPat
  <2>2. CASE p = pat \/ q = pat
    BY <2>1, <2>2, LatestPairs
  <2>3. CASE p # pat /\ q # pat
    BY <1>6, <2>1, <2>3, LatestPairs DEF Clock
  <2> QED
    BY <2>2, <2>3
<1> QED
  BY <1>4, <1>5, <1>6 DEF Clock

\* A handle or rotate pattern that is registered has no time yet.
LEMMA EarliestClock ==
  ASSUME TypeOK, Clock, NEW pat \in Pat, Category[pat] # "HANDLE_PUSH",
         timestamp' = [timestamp EXCEPT ![pat] = 0],
         later' = Earliest(pat), Registered' \subseteq Registered \cup {pat}
  PROVE  Clock'
<1>1. \A q \in Pat : timestamp[q] \in Nat
  BY DEF TypeOK
<1>2. \A q \in Pat : timestamp'[q] = IF q = pat THEN 0 ELSE timestamp[q]
  BY DEF TypeOK
<1>3. ASSUME NEW p \in Pat, <<p, p>> \in later' PROVE timestamp'[p] > 0
  BY <1>1, <1>2, <1>3, EarliestPairs DEF Clock
<1>4. ASSUME NEW p \in Pat, NEW q \in Pat, <<p, q>> \in later', p # q
      PROVE  timestamp'[p] > timestamp'[q]
  <2>1. p # pat /\ (<<p, q>> \in later \/ (q = pat /\ <<p, p>> \in later))
    BY <1>4, EarliestPairs
  <2>2. timestamp[p] > 0 /\ (q # pat => timestamp[p] > timestamp[q])
    BY <1>1, <1>4, <2>1 DEF Clock
  <2> QED
    BY <1>2, <2>1, <2>2
<1>5. ASSUME NEW p \in Registered', NEW q \in Registered', p # q,
             Category[p] = "HANDLE_PUSH", Category[q] = "HANDLE_PUSH"
      PROVE  <<p, q>> \in later' \/ <<q, p>> \in later'
  <2>1. p \in Pat /\ q \in Pat /\ p # pat /\ q # pat
    BY <1>5, RegisteredPat
  <2>2. p \in Registered /\ q \in Registered
    BY <2>1
  <2>3. <<p, q>> \in later \/ <<q, p>> \in later
    BY <1>5, <2>2 DEF Clock
  <2> QED
    BY <2>1, <2>3, EarliestPairs
<1> QED
  BY <1>3, <1>4, <1>5 DEF Clock

\* A rotate pattern that a walk cut short has matched may take a time that
\* another one has; it is out of the order.
LEMMA UnorderedClock ==
  ASSUME TypeOK, Clock, NEW pat \in Pat, Category[pat] = "HANDLE_ROTATE",
         timestamp' = [timestamp EXCEPT ![pat] = now],
         later' = Unordered(pat), Registered' = Registered
  PROVE  Clock'
<1>1. \A p \in Pat, q \in Pat :
         <<p, q>> \in later' <=> <<p, q>> \in later /\ p # pat /\ q # pat
  BY DEF Unordered
<1>2. \A q \in Pat : q # pat => timestamp'[q] = timestamp[q]
  BY DEF TypeOK
<1>3. ASSUME NEW p \in Pat, <<p, p>> \in later' PROVE timestamp'[p] > 0
  BY <1>1, <1>2, <1>3 DEF Clock
<1>4. ASSUME NEW p \in Pat, NEW q \in Pat, <<p, q>> \in later', p # q
      PROVE  timestamp'[p] > timestamp'[q]
  BY <1>1, <1>2, <1>4 DEF Clock
<1>5. ASSUME NEW p \in Registered', NEW q \in Registered', p # q,
             Category[p] = "HANDLE_PUSH", Category[q] = "HANDLE_PUSH"
      PROVE  <<p, q>> \in later' \/ <<q, p>> \in later'
  <2>1. p \in Pat /\ q \in Pat /\ p # pat /\ q # pat
    BY <1>5, RegisteredPat
  <2>2. <<p, q>> \in later \/ <<q, p>> \in later
    BY <1>5 DEF Clock
  <2> QED
    BY <1>1, <2>1, <2>2
<1> QED
  BY <1>3, <1>4, <1>5 DEF Clock

\* Nothing but a registration and a match changes the times.
LEMMA SameClock ==
  ASSUME Clock, UNCHANGED <<timestamp, later>>, Registered' \subseteq Registered
  PROVE  Clock'
  BY DEF Clock

LEMMA SubSeqSet ==
  ASSUME NEW s \in Seq(Pat), NEW i \in 1 .. Len(s) + 1, NEW j \in 0 .. Len(s)
  PROVE  SubSeq(s, i, j) \in Seq(Pat) /\ ToSet(SubSeq(s, i, j)) \subseteq ToSet(s)
<1>1. SubSeq(s, i, j) \in Seq(Pat)
  OBVIOUS
<1>2. ASSUME NEW e \in ToSet(SubSeq(s, i, j)) PROVE e \in ToSet(s)
  <2>1. PICK k \in DOMAIN SubSeq(s, i, j) : SubSeq(s, i, j)[k] = e
    BY <1>2 DEF ToSet
  <2>2. i + k - 1 \in DOMAIN s /\ s[i + k - 1] = e
    BY <2>1
  <2> QED
    BY <2>2 DEF ToSet
<1> QED
  BY <1>1, <1>2

\* What is deleted was registered; nothing else comes.
LEMMA RemovedSet ==
  ASSUME NEW s \in Seq(Pat), NEW i \in DOMAIN s
  PROVE  ToSet(RemoveAt(s, i)) \subseteq ToSet(s)
<1> DEFINE front == SubSeq(s, 1, i - 1)
           back  == SubSeq(s, i + 1, Len(s))
<1>1. 1 \in 1 .. Len(s) + 1 /\ i - 1 \in 0 .. Len(s)
  OBVIOUS
<1>2. i + 1 \in 1 .. Len(s) + 1 /\ Len(s) \in 0 .. Len(s)
  OBVIOUS
<1>3. front \in Seq(Pat) /\ ToSet(front) \subseteq ToSet(s)
  BY <1>1, SubSeqSet
<1>4. back \in Seq(Pat) /\ ToSet(back) \subseteq ToSet(s)
  BY <1>2, SubSeqSet
<1>5. RemoveAt(s, i) = front \o back
  BY DEF RemoveAt
<1> HIDE DEF front, back
<1> QED
  BY <1>3, <1>4, <1>5, Joined

LEMMA DeleteSet ==
  ASSUME TypeOK, NEW pat, Delete(pat) PROVE Registered' \subseteq Registered
  BY RemovedSet DEF TypeOK, Delete, Registered

LEMMA PushedSet ==
  ASSUME NEW pat \in Pat, NEW s \in Seq(Pat)
  PROVE  ToSet(<<pat>> \o s) = {pat} \cup ToSet(s)
<1>1. <<pat>> \in Seq(Pat) /\ ToSet(<<pat>>) = {pat}
  BY DEF ToSet
<1> QED
  BY <1>1, Joined

LEMMA NextClock == TypeOK /\ Clock /\ [Next]_vars => Clock'
<1> SUFFICES ASSUME TypeOK, Clock, [Next]_vars PROVE Clock'
  OBVIOUS
<1>1. ASSUME NEW pat \in Pat, Register(pat) PROVE Clock'
  <2>1. Registered' = Registered \cup {pat}
    <3>1. opless_pats \in Seq(Pat) /\ opful_pats \in Seq(Pat)
      BY DEF TypeOK
    <3>2. \/ opless_pats' = <<pat>> \o opless_pats /\ opful_pats' = opful_pats
          \/ opful_pats' = <<pat>> \o opful_pats /\ opless_pats' = opless_pats
      BY <1>1 DEF Register
    <3>3. \/ ToSet(opless_pats)' = {pat} \cup ToSet(opless_pats)
             /\ ToSet(opful_pats)' = ToSet(opful_pats)
          \/ ToSet(opful_pats)' = {pat} \cup ToSet(opful_pats)
             /\ ToSet(opless_pats)' = ToSet(opless_pats)
      BY <3>1, <3>2, PushedSet
    <3> QED
      BY <3>3 DEF Registered
  <2>2. CASE Category[pat] = "HANDLE_PUSH"
    BY <1>1, <2>1, <2>2, LatestClock DEF Register, Tick, Stamp
  <2>3. CASE Category[pat] # "HANDLE_PUSH"
    BY <1>1, <2>1, <2>3, EarliestClock DEF Register
  <2> QED
    BY <2>2, <2>3
<1>2. ASSUME NEW pat, Delete(pat) PROVE Clock'
  BY <1>2, DeleteSet, SameClock DEF Delete
<1>3. CASE UNCHANGED regVars
  <2>1. Registered' = Registered
    BY <1>3 DEF regVars, Registered
  <2> QED
    BY <1>3, <2>1, SameClock DEF regVars
<1>4. ASSUME best \in Pat, Match(best) PROVE Clock'
  <2>1. Registered' = Registered
    BY <1>4 DEF Match, Registered
  <2>2. CASE Category[best] = "HANDLE_ROTATE" /\ ~walk.cut
    BY <1>4, <2>1, <2>2, LatestClock DEF Match, Tick, Stamp
  <2>3. CASE Category[best] = "HANDLE_ROTATE" /\ walk.cut
    BY <1>4, <2>1, <2>3, UnorderedClock DEF Match, Stamp
  <2>4. CASE Category[best] # "HANDLE_ROTATE"
    BY <1>4, <2>1, <2>4, SameClock DEF Match
  <2> QED
    BY <2>2, <2>3, <2>4
<1>5. ASSUME NEW m \in Request, GiveToHandler(m) \/ HandlerIsDead(m) PROVE Clock'
  BY <1>4, <1>5 DEF GiveToHandler, HandlerIsDead, TypeOK
<1>6. ASSUME NEW m \in Request,
             \/ Send(m) \/ MatchHandler(m) \/ MatchInactive(m)
             \/ NoHandler(m) \/ Reject(m) \/ Reply(m)
      PROVE  UNCHANGED regVars
  BY <1>6 DEF Send, MatchHandler, MatchInactive, NoHandler, Reject, Reply
<1>7. ASSUME NEW p \in Proc, Hangup(p) \/ Activate(p) PROVE UNCHANGED regVars
  BY <1>7 DEF Hangup, Activate
<1>8. ASSUME NEW p \in Proc, Forget(p) PROVE Clock'
  BY <1>2, <1>3, <1>8 DEF Forget
<1>9. CASE UNCHANGED vars
  BY <1>3, <1>9 DEF vars, regVars
<1> QED
  BY <1>1, <1>2, <1>3, <1>5, <1>6, <1>7, <1>8, <1>9 DEF Next, Unregister

LEMMA InitClock == Init => Clock
<1> SUFFICES ASSUME Init PROVE Clock
  OBVIOUS
<1>1. Registered = {}
  BY Empty DEF Init, Registered
<1> QED
  BY <1>1 DEF Init, Clock

-----------------------------------------------------------------------------
(* The walk. *)

\* What m's walk has passed.
Seen(m) == Eligible(m) \ ToSet(walk.todo)

\* What is still to be walked is registered, and the best one so far eligible.
\* Only a pattern of an inactive procid cuts a walk short.
Passing(m) ==
    /\ leaving = {}
    /\ ToSet(walk.todo) \subseteq Registered
    /\ best # NoPat => best \in Eligible(m)
    /\ walk.cut => walk.todo = << >> /\ ~RegistrantsActive

\* As long as nothing eligible has been passed there is no best one.
NoneSoFar(m) == best = NoPat => Seen(m) = {}

\* The best one so far has the highest category.
Highest(m) ==
    best # NoPat => \A pat \in Seen(m) : Rank(Category[pat]) <= Rank(Category[best])

\* What has been passed of the best one's category.
Passed(m) == {pat \in Seen(m) : Category[pat] = Category[best]}

\* Among handle and rotate patterns it is the best match, ...
BestSoFar(m) ==
    best # NoPat /\ Category[best] # "HANDLE_PUSH" =>
        \A pat \in Passed(m) : Score[m][pat] <= Score[m][best]

\* ... among rotate patterns that match as well the coldest, ...
ColdestSoFar(m) ==
    best # NoPat /\ Category[best] = "HANDLE_ROTATE" =>
        \A pat \in Passed(m) :
            Score[m][pat] = Score[m][best] => timestamp[best] <= timestamp[pat]

\* ... and among push patterns the newest, if all match equally well.
NewestSoFar(m) ==
    /\ best # NoPat /\ Category[best] = "HANDLE_PUSH"
    /\ \A p, q \in Eligible(m) :
          Category[p] = "HANDLE_PUSH" /\ Category[q] = "HANDLE_PUSH"
              => Score[m][p] = Score[m][q]
    => \A pat \in Passed(m) : timestamp[pat] <= timestamp[best]

Choice ==
    \A m \in Request : walk.request = {m} =>
        /\ Passing(m)
        /\ ~walk.cut => /\ NoneSoFar(m) /\ Highest(m)
                        /\ BestSoFar(m) /\ ColdestSoFar(m) /\ NewestSoFar(m)

LEMMA Ranks ==
    \A p, q \in Pat :
        Rank(Category[p]) <= Rank(Category[q])
            <=> \/ Category[p] = "HANDLE"
                \/ Category[p] = "HANDLE_ROTATE" /\ Category[q] # "HANDLE"
                \/ Category[q] = "HANDLE_PUSH"
  BY MatchAssumption DEF Rank, Categories

LEMMA StartChoice ==
  ASSUME TypeOK, NEW m \in Request, Deliver(m), leaving' = {},
         UNCHANGED <<opless_pats, opful_pats>>
  PROVE  Choice'
<1>1. walk'.request = {m} /\ walk'.todo = Pats2match /\ ~walk'.cut /\ best' = NoPat
  BY DEF Deliver
<1>2. Registered' = Registered
  BY DEF Registered
<1>3. ToSet(walk'.todo) = Registered
  BY <1>1, Joined DEF Pats2match, TypeOK, Registered
<1>4. Seen(m)' = {}
  BY <1>2, <1>3 DEF Seen, Eligible
<1>5. Passing(m)'
  BY <1>1, <1>2, <1>3 DEF Passing
<1>6. /\ NoneSoFar(m)' /\ Highest(m)'
      /\ BestSoFar(m)' /\ ColdestSoFar(m)' /\ NewestSoFar(m)'
  BY <1>1, <1>4 DEF NoneSoFar, Highest, BestSoFar, ColdestSoFar, NewestSoFar
<1>7. \A n \in Request : walk'.request = {n} => n = m
  BY <1>1
<1> QED
  BY <1>5, <1>6, <1>7 DEF Choice

LEMMA StepChoice ==
  ASSUME TypeOK, Choice, NEW m \in Request, MatchHandler(m)
  PROVE  Choice'
<1> DEFINE h == Head(walk.todo)
<1>1. walk.todo \in Seq(Pat) /\ walk.todo # << >> /\ walk.request = {m}
  BY DEF TypeOK, MatchHandler, Walking, Walk
<1>2. h \in Pat /\ ToSet(walk.todo) = {h} \cup ToSet(Tail(walk.todo))
  BY <1>1, HeadAndTail
<1>3. walk'.request = {m} /\ walk'.todo = Tail(walk.todo) /\ walk'.cut = walk.cut
  BY <1>1 DEF MatchHandler, TypeOK, Walk
<1>4. UNCHANGED <<opless_pats, opful_pats, stale, timestamp, tried, leaving>>
  BY DEF MatchHandler, regVars
<1>5. Registered' = Registered /\ Eligible(m)' = Eligible(m)
  BY <1>4 DEF Registered, Eligible
<1>6. /\ ~walk.cut /\ Passing(m) /\ NoneSoFar(m) /\ Highest(m)
      /\ BestSoFar(m) /\ ColdestSoFar(m) /\ NewestSoFar(m)
  BY <1>1 DEF Choice, Passing
<1>7. Seen(m)' \subseteq Seen(m) \cup ({h} \cap Eligible(m))
  BY <1>2, <1>3, <1>5 DEF Seen
<1>8. /\ Seen(m) \subseteq Eligible(m) /\ Eligible(m) \subseteq Pat
      /\ h \in Registered /\ h \notin stale
  BY <1>2, <1>6, RegisteredPat DEF Seen, Eligible, Passing, MatchHandler
<1>9. best \in Pat \cup {NoPat} /\ NoPat \notin Pat
  BY MatchAssumption DEF TypeOK
<1>10. \A pat \in Pat : Score[m][pat] \in Nat /\ timestamp[pat] \in Nat
  BY MatchAssumption DEF TypeOK
<1>11. \A pat \in Pat : Category[pat] \in {"HANDLE", "HANDLE_ROTATE", "HANDLE_PUSH"}
  BY MatchAssumption DEF Categories
<1>12. best' = IF Owner[h] \notin tried[m] /\ Better(m, h) THEN h ELSE best
  BY DEF MatchHandler
<1>13. ToSet(walk'.todo) \subseteq Registered' /\ leaving' = {} /\ ~walk'.cut
  BY <1>2, <1>3, <1>4, <1>5, <1>6 DEF Passing
<1> HIDE DEF h
<1> SUFFICES /\ Passing(m)' /\ NoneSoFar(m)' /\ Highest(m)'
             /\ BestSoFar(m)' /\ ColdestSoFar(m)' /\ NewestSoFar(m)'
  <2>1. \A n \in Request : walk'.request = {n} => n = m
    BY <1>3
  <2> QED
    BY <2>1 DEF Choice
<1>14. CASE h \notin Eligible(m)
  <2>1. best' = best
    BY <1>8, <1>12, <1>14, <1>10, <1>2 DEF Eligible, Better
  <2>2. Seen(m)' \subseteq Seen(m)
    BY <1>7, <1>14
  <2>3. Passed(m)' \subseteq Passed(m)
    BY <2>1, <2>2 DEF Passed
  <2>4. Passing(m)' /\ NoneSoFar(m)'
    BY <1>5, <1>6, <1>13, <2>1, <2>2 DEF Passing, NoneSoFar
  <2>5. Highest(m)'
    BY <1>6, <2>1, <2>2 DEF Highest
  <2>6. BestSoFar(m)' /\ ColdestSoFar(m)' /\ NewestSoFar(m)'
    BY <1>4, <1>5, <1>6, <2>1, <2>3 DEF BestSoFar, ColdestSoFar, NewestSoFar
  <2> QED
    BY <2>4, <2>5, <2>6
<1>15. CASE h \in Eligible(m) /\ ~Better(m, h)
  <2>1. best' = best
    BY <1>12, <1>15
  <2>2. best \in Pat /\ (CategoryExcludes(h) \/ Excludes(m, h))
    BY <1>9, <1>15 DEF Better, Eligible
  <2>3. Passed(m)' \subseteq Passed(m) \cup {pat \in {h} : Category[h] = Category[best]}
    BY <1>7, <2>1 DEF Passed
  <2>4. Passing(m)' /\ NoneSoFar(m)'
    BY <1>5, <1>6, <1>9, <1>13, <2>1, <2>2 DEF Passing, NoneSoFar
  <2>5. Rank(Category[h]) <= Rank(Category[best])
    BY <1>2, <1>11, <2>2, Ranks DEF CategoryExcludes, Excludes
  <2>6. Highest(m)'
    BY <1>6, <1>7, <1>9, <2>1, <2>2, <2>5 DEF Highest
  <2>7. BestSoFar(m)'
    <3>1. Category[best] # "HANDLE_PUSH" /\ Category[h] = Category[best]
             => Score[m][h] <= Score[m][best]
      <4> SUFFICES ASSUME Category[best] # "HANDLE_PUSH", Category[h] = Category[best]
                   PROVE  Score[m][h] <= Score[m][best]
        OBVIOUS
      <4>1. CASE Category[h] = "HANDLE_ROTATE"
        BY <1>2, <1>10, <2>2, <4>1 DEF CategoryExcludes, Excludes, RotateExcludes
      <4>2. CASE Category[h] = "HANDLE"
        BY <1>2, <1>10, <2>2, <4>2 DEF CategoryExcludes, Excludes
      <4> QED
        BY <1>2, <1>11, <4>1, <4>2
    <3> QED
      BY <1>6, <1>9, <2>1, <2>2, <2>3, <3>1 DEF BestSoFar
  <2>8. ColdestSoFar(m)'
    <3>1. /\ Category[best] = "HANDLE_ROTATE" /\ Category[h] = Category[best]
          /\ Score[m][h] = Score[m][best]
          => timestamp[best] <= timestamp[h]
      BY <1>2, <1>10, <2>2 DEF CategoryExcludes, Excludes, RotateExcludes
    <3> QED
      BY <1>4, <1>6, <1>9, <2>1, <2>2, <2>3, <3>1 DEF ColdestSoFar
  <2>9. NewestSoFar(m)'
    <3>1. Category[best] = "HANDLE_PUSH" /\ Category[h] = Category[best]
             => timestamp[h] <= timestamp[best]
      BY <1>2, <1>10, <2>2 DEF CategoryExcludes, Excludes, NewestWins
    <3> QED
      BY <1>4, <1>5, <1>6, <1>9, <2>1, <2>2, <2>3, <3>1 DEF NewestSoFar
  <2> QED
    BY <2>4, <2>6, <2>7, <2>8, <2>9
<1>16. CASE h \in Eligible(m) /\ Better(m, h)
  <2>1. best' = h
    BY <1>12, <1>16 DEF Eligible
  <2>2. best # NoPat => ~CategoryExcludes(h) /\ ~Excludes(m, h)
    BY <1>16 DEF Better
  <2>3. h # NoPat
    BY <1>2, <1>9
  <2>4. Passing(m)' /\ NoneSoFar(m)'
    BY <1>5, <1>13, <1>16, <2>1, <2>3 DEF Passing, NoneSoFar
  <2>5. ASSUME NEW pat \in Seen(m), pat # h
        PROVE  /\ best \in Eligible(m) /\ best \in Pat
               /\ Rank(Category[pat]) <= Rank(Category[best])
    BY <1>6, <1>8, <1>9 DEF Passing, NoneSoFar, Highest
  <2>6. best \in Pat => Rank(Category[best]) <= Rank(Category[h])
    BY <1>2, <1>9, <1>11, <2>2, Ranks DEF CategoryExcludes
  <2>7. ASSUME NEW pat \in Seen(m)', pat # h
        PROVE  /\ pat \in Seen(m) /\ pat \in Pat /\ best \in Pat /\ best \in Eligible(m)
               /\ Rank(Category[pat]) <= Rank(Category[best])
               /\ Rank(Category[best]) <= Rank(Category[h])
    BY <1>7, <1>8, <2>5, <2>6, <2>7
  <2>8. \A p \in Pat : Rank(Category[p]) \in 0 .. 2
    BY <1>11 DEF Rank
  <2>9. \A p, q \in Pat : Rank(Category[p]) = Rank(Category[q]) => Category[p] = Category[q]
    BY <1>11 DEF Rank
  <2>10. Highest(m)'
    BY <1>2, <2>1, <2>7, <2>8 DEF Highest
  <2>11. ASSUME NEW pat \in Passed(m)', pat # h
         PROVE  /\ pat \in Passed(m) /\ pat \in Pat /\ best \in Pat /\ best \in Eligible(m)
                /\ Category[best] = Category[h] /\ Category[pat] = Category[h]
    <3>1. pat \in Seen(m)' /\ Category[pat] = Category[h]
      BY <2>1, <2>11 DEF Passed
    <3>2. /\ pat \in Seen(m) /\ pat \in Pat /\ best \in Pat /\ best \in Eligible(m)
          /\ Rank(Category[best]) = Rank(Category[h])
      BY <1>2, <2>7, <2>8, <2>11, <3>1
    <3> QED
      BY <1>2, <2>9, <3>1, <3>2 DEF Passed
  <2>12. BestSoFar(m)'
    <3> SUFFICES ASSUME Category[h] # "HANDLE_PUSH", NEW pat \in Passed(m)', pat # h
                 PROVE  Score[m][pat] <= Score[m][h]
      BY <1>2, <1>10, <2>1 DEF BestSoFar
    <3>1. Score[m][pat] <= Score[m][best]
      BY <1>6, <1>9, <2>11 DEF BestSoFar
    <3>2. Score[m][best] <= Score[m][h]
      <4>1. best \in Pat /\ Category[best] = Category[h] /\ ~Excludes(m, h)
        BY <1>9, <2>2, <2>11
      <4>2. CASE Category[h] = "HANDLE_ROTATE"
        BY <1>2, <1>10, <4>1, <4>2 DEF Excludes, RotateExcludes
      <4>3. CASE Category[h] = "HANDLE"
        BY <1>2, <1>10, <4>1, <4>3 DEF Excludes
      <4> QED
        BY <1>2, <1>11, <4>2, <4>3
    <3> QED
      BY <1>2, <1>10, <2>11, <3>1, <3>2
  <2>13. ColdestSoFar(m)'
    <3> SUFFICES ASSUME Category[h] = "HANDLE_ROTATE", NEW pat \in Passed(m)', pat # h,
                        Score[m][pat] = Score[m][h]
                 PROVE  timestamp[h] <= timestamp[pat]
      BY <1>2, <1>4, <1>10, <2>1 DEF ColdestSoFar
    <3>1. Score[m][pat] <= Score[m][best]
      BY <1>6, <1>9, <2>11 DEF BestSoFar
    <3>2. /\ Score[m][best] <= Score[m][h]
          /\ Score[m][best] = Score[m][h] => timestamp[best] >= timestamp[h]
      BY <1>2, <1>9, <1>10, <2>2, <2>11 DEF Excludes, RotateExcludes
    <3>3. Score[m][pat] = Score[m][best]
      BY <1>2, <1>10, <2>11, <3>1, <3>2
    <3>4. timestamp[best] <= timestamp[pat]
      BY <1>6, <1>9, <2>11, <3>3 DEF ColdestSoFar
    <3> QED
      BY <1>2, <1>10, <2>11, <3>2, <3>3, <3>4
  <2>14. NewestSoFar(m)'
    <3> SUFFICES ASSUME Category[h] = "HANDLE_PUSH", NEW pat \in Passed(m)', pat # h,
                        \A p, q \in Eligible(m) :
                          Category[p] = "HANDLE_PUSH" /\ Category[q] = "HANDLE_PUSH"
                             => Score[m][p] = Score[m][q]
                 PROVE  timestamp[pat] <= timestamp[h]
      BY <1>2, <1>4, <1>5, <1>10, <2>1 DEF NewestSoFar
    <3>1. Score[m][best] = Score[m][h]
      BY <1>16, <2>11
    <3>2. timestamp[pat] <= timestamp[best]
      BY <1>6, <1>9, <2>11 DEF NewestSoFar
    <3>3. timestamp[best] < timestamp[h]
      BY <1>2, <1>9, <1>10, <2>2, <2>11, <3>1 DEF Excludes, NewestWins
    <3> QED
      BY <1>2, <1>10, <2>11, <3>2, <3>3
  <2> QED
    BY <2>4, <2>10, <2>12, <2>13, <2>14
<1> QED
  BY <1>14, <1>15, <1>16

\* A walk that is cut short keeps an eligible pattern, if it has any.
LEMMA CutChoice ==
  ASSUME TypeOK, Choice, NEW m \in Request, MatchInactive(m)
  PROVE  Choice'
<1>1. walk.todo \in Seq(Pat) /\ walk.todo # << >> /\ walk.request = {m}
  BY DEF TypeOK, MatchInactive, Walking, Walk
<1>2. Head(walk.todo) \in ToSet(walk.todo) /\ Head(walk.todo) \in stale
  BY <1>1, HeadAndTail DEF MatchInactive
<1>3. walk'.request = {m} /\ walk'.todo = << >> /\ walk'.cut
  BY <1>1 DEF MatchInactive, TypeOK, Walk
<1>4. UNCHANGED <<opless_pats, opful_pats, stale, tried, best, leaving>>
  BY DEF MatchInactive, regVars
<1>5. /\ Registered' = Registered /\ Eligible(m)' = Eligible(m)
      /\ RegistrantsActive' = RegistrantsActive
  BY <1>4 DEF Registered, Eligible, RegistrantsActive
<1>6. Passing(m)
  BY <1>1 DEF Choice
<1>7. ~RegistrantsActive
  BY <1>2, <1>6 DEF Passing, RegistrantsActive
<1>8. Passing(m)'
  BY <1>3, <1>4, <1>5, <1>6, <1>7, Empty DEF Passing
<1>9. \A n \in Request : walk'.request = {n} => n = m
  BY <1>3
<1> QED
  BY <1>3, <1>8, <1>9 DEF Choice

\* Registration, answers and deaths wait until the walk is over.
LEMMA NextChoice == TypeOK /\ Choice /\ [Next]_vars => Choice'
<1> SUFFICES ASSUME TypeOK, Choice, [Next]_vars PROVE Choice'
  OBVIOUS
<1>1. CASE walk'.request = {}
  BY <1>1 DEF Choice
<1>2. NoWalk.request = {}
  BY DEF NoWalk
<1>3. ASSUME NEW pat \in Pat, Register(pat) \/ Unregister(pat) PROVE walk'.request = {}
  BY <1>2, <1>3 DEF Register, Unregister, Delete, Idle
<1>4. ASSUME NEW m \in Request, Send(m) \/ Reject(m) PROVE Choice'
  BY <1>4, StartChoice DEF Send, Reject, Idle, regVars
<1>5. ASSUME NEW m \in Request, MatchHandler(m) PROVE Choice'
  BY <1>5, StepChoice
<1>6. ASSUME NEW m \in Request,
             GiveToHandler(m) \/ HandlerIsDead(m) \/ NoHandler(m) \/ Reply(m)
      PROVE  walk'.request = {}
  BY <1>2, <1>6 DEF GiveToHandler, HandlerIsDead, NoHandler, Reply, Match, Idle
<1>7. ASSUME NEW p \in Proc, Hangup(p) \/ Activate(p) PROVE walk'.request = {}
  BY <1>2, <1>7 DEF Hangup, Activate, Idle
<1>8. ASSUME NEW p \in Proc, Forget(p) PROVE Choice'
  <2>1. leaving # {} /\ walk' = walk
    BY <1>8 DEF Forget, Delete
  <2>2. \A m \in Request : walk'.request # {m}
    BY <2>1 DEF Choice, Passing
  <2> QED
    BY <2>2 DEF Choice
<1>9. ASSUME NEW m \in Request, MatchInactive(m) PROVE Choice'
  BY <1>9, CutChoice
<1>10. CASE UNCHANGED vars
  BY <1>10 DEF vars, Choice, Passing, NoneSoFar, Highest, BestSoFar, ColdestSoFar,
               NewestSoFar, Passed, Seen, Eligible, Registered, RegistrantsActive
<1> QED
  BY <1>1, <1>3, <1>4, <1>5, <1>6, <1>7, <1>8, <1>9, <1>10 DEF Next

LEMMA InitChoice == Init => Choice
  BY DEF Init, NoWalk, Choice

LEMMA Invariance == Spec => [](TypeOK /\ Clock /\ Choice)
<1>1. Init => TypeOK /\ Clock /\ Choice
  BY InitType, InitClock, InitChoice
<1>2. TypeOK /\ Clock /\ Choice /\ [Next]_vars => (TypeOK /\ Clock /\ Choice)'
  BY NextType, NextClock, NextChoice
<1> QED
  BY <1>1, <1>2, PTL DEF Spec

-----------------------------------------------------------------------------
(* The choice. *)

\* At the end of a walk with all registrants active, everything eligible has
\* been passed.
LEMMA EndOfWalk ==
  ASSUME TypeOK, Choice, NEW m \in Request, Walked(m), RegistrantsActive
  PROVE  /\ Seen(m) = Eligible(m) /\ Eligible(m) \subseteq Pat
         /\ Passing(m) /\ NoneSoFar(m) /\ Highest(m)
         /\ BestSoFar(m) /\ ColdestSoFar(m) /\ NewestSoFar(m)
  BY Empty, RegisteredPat DEF Choice, Walked, Seen, Eligible, Passing

\* A request goes to an eligible pattern, and while all registrants are active
\* to one of the highest category there is.
THEOREM TrumpsAlways == Spec => []Trumps
<1>1. TypeOK /\ Choice => Trumps
  <2> SUFFICES ASSUME TypeOK, Choice, NEW m \in Request, Chosen(m, Categories)
               PROVE  /\ best \in Eligible(m)
                      /\ RegistrantsActive =>
                            \A pat \in Eligible(m) :
                                Rank(Category[pat]) <= Rank(Category[best])
    BY DEF Trumps
  <2>1. best \in Eligible(m)
    BY DEF Chosen, Walked, Choice, Passing
  <2> QED
    BY <2>1, EndOfWalk DEF Chosen, Highest
<1> QED
  BY <1>1, Invariance, PTL

\* While all registrants are active, a request fails only if nobody is left who
\* matches it.
THEOREM FailsLastAlways == Spec => []FailsLast
<1>1. TypeOK /\ Choice => FailsLast
  BY EndOfWalk DEF FailsLast, NoneSoFar
<1> QED
  BY <1>1, Invariance, PTL

\* While all registrants are active, no better handle or rotate pattern is
\* passed over.
THEOREM BestMatchAlways == Spec => []BestMatch
<1>1. TypeOK /\ Choice => BestMatch
  BY EndOfWalk DEF BestMatch, ChosenOfAll, Chosen, BestSoFar, Passed, Rivals
<1> QED
  BY <1>1, Invariance, PTL

\* Rotate patterns take turns while all registrants are active; a match by a
\* walk that was cut short does not count.
THEOREM LeastRecentAlways == Spec => []LeastRecent
<1> SUFFICES ASSUME TypeOK, Clock, Choice PROVE LeastRecent
  BY Invariance, PTL
<1> SUFFICES ASSUME NEW m \in Request, ChosenOfAll(m, {"HANDLE_ROTATE"}),
                    NEW pat \in Ties(m) \ {best}, <<best, pat>> \in later
             PROVE  FALSE
  BY DEF LeastRecent
<1>1. Walked(m) /\ RegistrantsActive /\ best # NoPat /\ best \in Pat /\ Category[best] = "HANDLE_ROTATE"
  BY DEF ChosenOfAll, Chosen, TypeOK
<1>2. pat \in Passed(m) /\ pat \in Pat /\ Score[m][pat] = Score[m][best]
  BY <1>1, EndOfWalk DEF Ties, Rivals, Passed
<1>3. timestamp[best] <= timestamp[pat]
  BY <1>1, <1>2, EndOfWalk DEF ColdestSoFar
<1>4. timestamp[best] > timestamp[pat]
  BY <1>1, <1>2 DEF Clock
<1>5. timestamp[best] \in Nat /\ timestamp[pat] \in Nat
  BY <1>1, <1>2 DEF TypeOK
<1> QED
  BY <1>3, <1>4, <1>5

\* The newest of equal push patterns is chosen while all registrants are active.
THEOREM NewestAlways == Spec => []Newest
<1> SUFFICES ASSUME TypeOK, Clock, Choice PROVE Newest
  BY Invariance, PTL
<1> SUFFICES ASSUME NEW m \in Request, ChosenOfAll(m, {"HANDLE_PUSH"}), Rivals(m) = Ties(m),
                    NEW pat \in Ties(m) \ {best}
             PROVE  <<best, pat>> \in later
  BY DEF Newest
<1>1. Walked(m) /\ RegistrantsActive /\ best # NoPat /\ best \in Pat /\ Category[best] = "HANDLE_PUSH"
  BY DEF ChosenOfAll, Chosen, TypeOK
<1>2. pat \in Passed(m) /\ pat \in Pat /\ Category[pat] = "HANDLE_PUSH"
  BY <1>1, EndOfWalk DEF Ties, Rivals, Passed
<1>3. \A p, q \in Eligible(m) :
         Category[p] = "HANDLE_PUSH" /\ Category[q] = "HANDLE_PUSH"
            => Score[m][p] = Score[m][q]
  BY <1>1 DEF Rivals, Ties
<1>4. timestamp[pat] <= timestamp[best]
  BY <1>1, <1>2, <1>3, EndOfWalk DEF NewestSoFar
<1>5. pat \in Registered /\ best \in Registered
  BY <1>1, <1>2, EndOfWalk DEF Passing, Passed, Seen, Eligible
<1>6. <<best, pat>> \in later \/ <<pat, best>> \in later
  BY <1>1, <1>2, <1>5 DEF Clock
<1>7. <<pat, best>> \in later => timestamp[pat] > timestamp[best]
  BY <1>1, <1>2 DEF Clock
<1>8. timestamp[best] \in Nat /\ timestamp[pat] \in Nat
  BY <1>1, <1>2 DEF TypeOK
<1> QED
  BY <1>4, <1>6, <1>7, <1>8

=============================================================================
