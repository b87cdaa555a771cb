--------------------------- MODULE DtLogin_proofs ---------------------------
(***************************************************************************)
(* Proofs about DtLogin, for all values of its constants: types, that      *)
(* until SIGTERM a display never has two X servers, and that dtlogin knows *)
(* each child it has not told to end.                                      *)
(***************************************************************************)
EXTENDS DtLogin, FiniteSetTheorems, TLAPS

(* The live X servers and gettys are known to their displays. *)
Serving(S) == {p \in Live(S) : S.procs[p].kind \in {"server", "getty"}}

Own(S) ==
  \A p \in Serving(S) : /\ S.procs[p].of \in S.displays
                        /\ S.dpy[S.procs[p].of].serverPid = p

Unserved(S, d) == \A p \in Serving(S) : S.procs[p].of # d

(* A pass visits each display once; what it stands on, or goes on with, is *)
(* listed.                                                                 *)
PassOK ==
  /\ pass.next \notin pass.left
  /\ pass.cur # None => pass.cur \notin pass.left /\ pass.cur # pass.next
  /\ pc \in {"pause", "retry"} => pass.cur # None

OnPass == pc \in {"start", "pause", "retry"}

Listed ==
  /\ OnPass => pass.next \in dm.displays \cup {None}
  /\ pc \in {"pause", "retry"} => pass.cur \in dm.displays
  /\ pc = "retry" => Unserved(dm, pass.cur)

(* What holds until SIGTERM. *)
InService == sockets => ~shutdown /\ Own(dm) /\ Listed

LoginInv == TypeOK /\ PassOK

ServedInv == LoginInv /\ InService
-----------------------------------------------------------------------------
(* What the operators on the list of displays preserve. *)

LEMMA Constants ==
  /\ Local \subseteq Displays /\ Lines \subseteq Local /\ None \notin Displays
  /\ Pids \subseteq Nat /\ ServerAttempts \in Nat \ {0}
  /\ NoPid \notin Pids /\ NoPid \in PidOrNone
  /\ \A f \in Files : f \subseteq Displays
BY LoginAssumption DEF LoginAssumption, NoPid, PidOrNone

LEMMA SetType ==
  ASSUME NEW S \in State, NEW d \in Displays, NEW r \in DisplayRecord
  PROVE  /\ Set(S, d, r) \in State
         /\ Set(S, d, r).displays = S.displays
         /\ Set(S, d, r).procs = S.procs
         /\ Set(S, d, r).wakeup = S.wakeup
         /\ Set(S, d, r).dpy = [S.dpy EXCEPT ![d] = r]
BY DEF Set, State

(* A display may be given any record that names the server it has. *)
LEMMA SetOwn ==
  ASSUME NEW S \in State, NEW d \in Displays, NEW r \in DisplayRecord,
         r.serverPid = S.dpy[d].serverPid \/ Unserved(S, d)
  PROVE  /\ Own(S) => Own(Set(S, d, r))
         /\ \A e : Unserved(S, e) => Unserved(Set(S, d, r), e)
<1> DEFINE T == Set(S, d, r)
<1>1. /\ T.displays = S.displays /\ T.procs = S.procs
      /\ T.dpy = [S.dpy EXCEPT ![d] = r]
  BY SetType
<1>2. Serving(T) = Serving(S)
  BY <1>1 DEF Serving, Live
<1>3. \A p \in Serving(S) : S.procs[p] \in Process
  BY DEF Serving, Live, State
<1>4. S.dpy \in [Displays -> DisplayRecord] /\ S.displays \subseteq Displays
  BY DEF State
<1> HIDE DEF T
<1>5. Own(S) => Own(T)
  BY <1>1, <1>2, <1>3, <1>4 DEF Own, Unserved
<1>6. \A e : Unserved(S, e) => Unserved(T, e)
  BY <1>1, <1>2 DEF Unserved
<1> QED BY <1>5, <1>6 DEF T

LEMMA StatusSafe ==
  ASSUME NEW S \in State, NEW d \in Displays, NEW s \in Statuses
  PROVE  /\ Status(S, d, s) \in State
         /\ Status(S, d, s).displays = S.displays
         /\ Status(S, d, s).procs = S.procs
         /\ Own(S) => Own(Status(S, d, s))
         /\ \A e : Unserved(S, e) => Unserved(Status(S, d, s), e)
<1> DEFINE r == [S.dpy[d] EXCEPT !.status = s]
<1>1. r \in DisplayRecord /\ r.serverPid = S.dpy[d].serverPid
  BY DEF State, DisplayRecord
<1> HIDE DEF r
<1>2. /\ Set(S, d, r) \in State /\ Set(S, d, r).displays = S.displays
      /\ Set(S, d, r).procs = S.procs
  BY <1>1, SetType
<1>3. /\ Own(S) => Own(Set(S, d, r))
      /\ \A e : Unserved(S, e) => Unserved(Set(S, d, r), e)
  BY <1>1, SetOwn
<1> QED BY <1>2, <1>3 DEF Status, r

LEMMA TimerSafe ==
  ASSUME NEW S \in State, NEW t \in {-1, 0, 1}
  PROVE  /\ Timer(S, t) \in State
         /\ Timer(S, t).displays = S.displays
         /\ Timer(S, t).procs = S.procs
         /\ Timer(S, t).dpy = S.dpy
         /\ Own(S) => Own(Timer(S, t))
         /\ \A e : Unserved(S, e) => Unserved(Timer(S, t), e)
<1>1. /\ Timer(S, t) \in State /\ Timer(S, t).displays = S.displays
      /\ Timer(S, t).procs = S.procs /\ Timer(S, t).dpy = S.dpy
  BY DEF Timer, State
<1> QED BY <1>1 DEF Own, Unserved, Serving, Live

LEMMA TerminateSafe ==
  ASSUME NEW S \in State, NEW P
  PROVE  /\ TerminateProcess(S, P) \in State
         /\ TerminateProcess(S, P).displays = S.displays
         /\ TerminateProcess(S, P).dpy = S.dpy
         /\ TerminateProcess(S, P).wakeup = S.wakeup
         /\ Own(S) => Own(TerminateProcess(S, P))
         /\ \A e : Unserved(S, e) => Unserved(TerminateProcess(S, P), e)
<1> DEFINE T == TerminateProcess(S, P)
<1>1. /\ T \in State /\ T.displays = S.displays /\ T.dpy = S.dpy
      /\ T.wakeup = S.wakeup
  BY DEF TerminateProcess, State, Process
<1>2. \A p \in Pids : /\ T.procs[p].kind = S.procs[p].kind
                      /\ T.procs[p].of = S.procs[p].of
                      /\ p \in Live(T) <=> p \in Live(S)
  BY DEF TerminateProcess, State, Process, Live
<1> HIDE DEF T
<1>3. Serving(T) = Serving(S)
  BY <1>2 DEF Serving, Live
<1>4. Serving(S) \subseteq Pids
  BY DEF Serving, Live
<1>5. Own(S) => Own(T)
  BY <1>1, <1>2, <1>3, <1>4 DEF Own
<1>6. \A e : Unserved(S, e) => Unserved(T, e)
  BY <1>2, <1>3, <1>4 DEF Unserved
<1> QED BY <1>1, <1>5, <1>6 DEF T

LEMMA RemoveSafe ==
  ASSUME NEW S \in State, NEW D \in SUBSET Displays
  PROVE  /\ RemoveDisplay(S, D) \in State
         /\ RemoveDisplay(S, D).displays = S.displays \ D
         /\ RemoveDisplay(S, D).procs = S.procs
         /\ \A d \in Displays \ D : RemoveDisplay(S, D).dpy[d] = S.dpy[d]
         /\ Own(S) /\ (\A d \in D : Unserved(S, d)) => Own(RemoveDisplay(S, D))
<1> DEFINE T == RemoveDisplay(S, D)
<1>1. Fresh \in DisplayRecord
  BY Constants DEF Fresh, DisplayRecord, Statuses
<1>2. T \in State
  BY <1>1 DEF RemoveDisplay, State
<1>3. /\ T.displays = S.displays \ D /\ T.procs = S.procs
      /\ \A d \in Displays \ D : T.dpy[d] = S.dpy[d]
  BY DEF RemoveDisplay, State
<1> HIDE DEF T
<1>4. Serving(T) = Serving(S)
  BY <1>3 DEF Serving, Live
<1>5. S.displays \subseteq Displays
  BY DEF State
<1>6. Own(S) /\ (\A d \in D : Unserved(S, d)) => Own(T)
  BY <1>3, <1>4, <1>5 DEF Own, Unserved
<1> QED BY <1>2, <1>3, <1>6 DEF T

(* The process that fork returns is new, and the server of nothing. *)
LEMMA ForkedSafe ==
  ASSUME NEW S \in State, CanFork(S), NEW d \in Displays,
         NEW k \in {"server", "session", "getty"}
  PROVE  /\ NextPid(S) \in Pids
         /\ Forked(S, NextPid(S), k, d) \in State
         /\ Forked(S, NextPid(S), k, d).displays = S.displays
         /\ Forked(S, NextPid(S), k, d).dpy = S.dpy
         /\ \A p \in Serving(Forked(S, NextPid(S), k, d)) :
               \/ /\ p \in Serving(S)
                  /\ Forked(S, NextPid(S), k, d).procs[p] = S.procs[p]
               \/ /\ p = NextPid(S) /\ k # "session"
                  /\ Forked(S, NextPid(S), k, d).procs[p].of = d
<1>1. NextPid(S) \in Free(S)
  BY DEF CanFork, NextPid
<1>2. NextPid(S) \in Pids
  BY <1>1 DEF Free
<1> DEFINE n == NextPid(S)
           r == [kind |-> k, of |-> d, life |-> "alive", code |-> "none"]
           T == Forked(S, n, k, d)
<1>3. r \in Process
  BY DEF Process
<1> HIDE DEF n, r
<1>4. /\ T \in State /\ T.displays = S.displays /\ T.dpy = S.dpy
      /\ T.procs = [S.procs EXCEPT ![n] = r]
  BY <1>2, <1>3 DEF Forked, State, n, r
<1> HIDE DEF T
<1>5. S.procs \in [Pids -> Process]
  BY DEF State
<1>6. \A p \in Serving(T) :
        \/ p \in Serving(S) /\ T.procs[p] = S.procs[p]
        \/ p = n /\ k # "session" /\ T.procs[p].of = d
  BY <1>2, <1>4, <1>5 DEF Serving, Live, n, r
<1> QED BY <1>2, <1>4, <1>6 DEF T, n

LEMMA ServerForkedSafe ==
  ASSUME NEW S \in State, CanFork(S), NEW d \in Displays,
         NEW k \in {"server", "getty"}
  PROVE  /\ ServerForked(S, d, k) \in State
         /\ ServerForked(S, d, k).displays = S.displays
         /\ Own(S) /\ d \in S.displays /\ Unserved(S, d)
              => Own(ServerForked(S, d, k))
<1> DEFINE n == NextPid(S)
           F == Forked(S, n, k, d)
           r == [F.dpy[d] EXCEPT !.serverPid = n]
           T == Set(F, d, r)
<1>1. /\ n \in Pids /\ F \in State /\ F.displays = S.displays /\ F.dpy = S.dpy
      /\ \A p \in Serving(F) :
           \/ p \in Serving(S) /\ F.procs[p] = S.procs[p]
           \/ p = n /\ F.procs[p].of = d
  BY ForkedSafe
<1> HIDE DEF n, F
<1>2. r \in DisplayRecord /\ r.serverPid = n
  BY <1>1 DEF State, DisplayRecord, PidOrNone
<1>3. S.dpy \in [Displays -> DisplayRecord] /\ S.displays \subseteq Displays
  BY DEF State
<1> HIDE DEF r
<1>4. /\ T \in State /\ T.displays = S.displays /\ T.procs = F.procs
      /\ T.dpy = [S.dpy EXCEPT ![d] = r]
  BY <1>1, <1>2, SetType
<1> HIDE DEF T
<1>5. Serving(T) = Serving(F)
  BY <1>4 DEF Serving, Live
<1>6. ASSUME Own(S), d \in S.displays, Unserved(S, d) PROVE Own(T)
  BY <1>1, <1>2, <1>3, <1>4, <1>5, <1>6 DEF Own, Unserved
<1> QED BY <1>4, <1>6 DEF ServerForked, ServerPid, T, r, F, n

(* A session's id is no server's, since it is new. *)
LEMMA SessionForkedSafe ==
  ASSUME NEW S \in State, CanFork(S), NEW d \in Displays
  PROVE  LET T == Set(Forked(S, NextPid(S), "session", d), d,
                      [S.dpy[d] EXCEPT !.pid = NextPid(S), !.status = "running"])
         IN T \in State /\ T.displays = S.displays /\ (Own(S) => Own(T))
<1> DEFINE n == NextPid(S)
           F == Forked(S, n, "session", d)
           r == [S.dpy[d] EXCEPT !.pid = n, !.status = "running"]
           T == Set(F, d, r)
<1>1. /\ n \in Pids /\ F \in State /\ F.displays = S.displays /\ F.dpy = S.dpy
      /\ \A p \in Serving(F) : p \in Serving(S) /\ F.procs[p] = S.procs[p]
  BY ForkedSafe
<1> HIDE DEF n, F
<1>2. r \in DisplayRecord /\ r.serverPid = F.dpy[d].serverPid
  BY <1>1 DEF State, DisplayRecord, PidOrNone, Statuses
<1> HIDE DEF r
<1>3. T \in State /\ T.displays = S.displays
  BY <1>1, <1>2, SetType
<1>4. Own(S) => Own(F)
  BY <1>1 DEF Own
<1>5. Own(F) => Own(T)
  BY <1>1, <1>2, SetOwn
<1> QED BY <1>3, <1>4, <1>5 DEF T, r, F, n

(* A display without server is served by nobody: no process has its id. *)
LEMMA NobodyServes ==
  ASSUME NEW S \in State, Own(S), NEW d \in Displays, S.dpy[d].serverPid \notin Live(S)
  PROVE  Unserved(S, d)
BY DEF Own, Unserved, Serving

LEMMA NoServer ==
  ASSUME NEW S \in State, Own(S), NEW d \in Displays, S.dpy[d].serverPid = NoPid
  PROVE  Unserved(S, d)
<1>1. NoPid \notin Live(S)
  BY Constants DEF Live
<1> QED BY <1>1, NobodyServes

LEMMA StopSafe ==
  ASSUME NEW S \in State, NEW D \in SUBSET Displays, NEW down \in BOOLEAN
  PROVE  /\ StopDisplay(S, D, down) \in State
         /\ StopDisplay(S, D, down).displays \subseteq S.displays
         /\ S.displays \ D \subseteq StopDisplay(S, D, down).displays
         /\ Own(S) => Own(StopDisplay(S, D, down))
<1> DEFINE served == Served(S, D)
           removed == {d \in D \ served : d \notin Local \/ down}
           K == TerminateProcess(S, ProcessesOf(S, D))
           R == RemoveDisplay(K, removed)
           T == [R EXCEPT !.dpy = [d \in Displays |->
                   IF d \in served
                   THEN [R.dpy[d] EXCEPT !.status = StoppedStatus(d, down)]
                   ELSE R.dpy[d]]]
<1>1. /\ K \in State /\ K.displays = S.displays /\ K.dpy = S.dpy
      /\ Own(S) => Own(K)
  BY TerminateSafe
<1>2. removed \in SUBSET Displays /\ removed \subseteq D
  OBVIOUS
<1>3. \A d \in removed : S.dpy[d].serverPid = NoPid
  BY DEF Served
<1> HIDE DEF served, removed, K
<1>4. /\ R \in State /\ R.displays = S.displays \ removed
      /\ Own(K) /\ (\A d \in removed : Unserved(K, d)) => Own(R)
  BY <1>1, <1>2, RemoveSafe
<1> HIDE DEF R
<1>5. \A d \in Displays : StoppedStatus(d, down) \in Statuses
  BY DEF StoppedStatus, Statuses
<1>6. T \in State /\ T.displays = R.displays /\ T.procs = R.procs
      /\ \A d \in Displays : T.dpy[d].serverPid = R.dpy[d].serverPid
  <2> DEFINE f == [d \in Displays |->
                     IF d \in served
                     THEN [R.dpy[d] EXCEPT !.status = StoppedStatus(d, down)]
                     ELSE R.dpy[d]]
  <2>1. R.dpy \in [Displays -> DisplayRecord]
    BY <1>4 DEF State
  <2>2. f \in [Displays -> DisplayRecord]
    BY <1>5, <2>1 DEF DisplayRecord
  <2>3. \A d \in Displays : f[d].serverPid = R.dpy[d].serverPid
    BY <2>1 DEF DisplayRecord
  <2> HIDE DEF f
  <2>4. /\ [R EXCEPT !.dpy = f] \in State
        /\ [R EXCEPT !.dpy = f].displays = R.displays
        /\ [R EXCEPT !.dpy = f].procs = R.procs
        /\ [R EXCEPT !.dpy = f].dpy = f
    BY <1>4, <2>2 DEF State
  <2> QED BY <2>3, <2>4 DEF f
<1>7. ASSUME Own(S) PROVE Own(T)
  <2>1. \A d \in removed : Unserved(K, d)
    BY <1>1, <1>2, <1>3, <1>7, NoServer
  <2>2. Own(R)
    BY <1>1, <1>4, <1>7, <2>1
  <2>3. Serving(T) = Serving(R) /\ R.displays \subseteq Displays
    BY <1>4, <1>6 DEF Serving, Live, State
  <2> QED BY <1>6, <2>2, <2>3 DEF Own
<1>8. T.displays \subseteq S.displays /\ S.displays \ D \subseteq T.displays
  BY <1>2, <1>4, <1>6
<1> QED BY <1>6, <1>4, <1>7, <1>8 DEF StopDisplay, T, R, K, removed, served

LEMMA RestartSafe ==
  ASSUME NEW S \in State, NEW d \in Displays, NEW force
  PROVE  /\ RestartDisplay(S, d, force) \in State
         /\ RestartDisplay(S, d, force).displays = S.displays
         /\ Own(S) => Own(RestartDisplay(S, d, force))
<1> DEFINE K == TerminateProcess(S, {S.dpy[d].serverPid})
<1>1. K \in State /\ K.displays = S.displays /\ (Own(S) => Own(K))
  BY TerminateSafe
<1>2. "phoenix" \in Statuses /\ "notRunning" \in Statuses
  BY DEF Statuses
<1> HIDE DEF K
<1>3. /\ Status(K, d, "phoenix") \in State
      /\ Status(K, d, "phoenix").displays = S.displays
      /\ Own(S) => Own(Status(K, d, "phoenix"))
  BY <1>1, <1>2, StatusSafe
<1>4. /\ Status(S, d, "notRunning") \in State
      /\ Status(S, d, "notRunning").displays = S.displays
      /\ Own(S) => Own(Status(S, d, "notRunning"))
  BY <1>2, StatusSafe
<1> QED BY <1>3, <1>4 DEF RestartDisplay, K

LEMMA RescannedSafe ==
  ASSUME NEW S \in State, file \in Files
  PROVE  /\ Rescanned(S) \in State
         /\ S.displays \subseteq Rescanned(S).displays
         /\ Rescanned(S).procs = S.procs
         /\ Own(S) => Own(Rescanned(S))
<1> DEFINE T == Rescanned(S)
<1>1. file \subseteq Displays
  BY Constants
<1>2. /\ T \in State /\ S.displays \subseteq T.displays /\ T.procs = S.procs
      /\ \A d \in Displays : T.dpy[d].serverPid = S.dpy[d].serverPid
  BY <1>1 DEF Rescanned, State, DisplayRecord
<1> HIDE DEF T
<1>3. Serving(T) = Serving(S) /\ S.displays \subseteq Displays
  BY <1>2 DEF Serving, Live, State
<1>4. Own(S) => Own(T)
  BY <1>2, <1>3 DEF Own
<1> QED BY <1>2, <1>4 DEF T

LEMMA ReapedSafe ==
  ASSUME NEW S \in State, NEW p \in Pids
  PROVE  /\ Reaped(S, p) \in State
         /\ Reaped(S, p).displays = S.displays
         /\ Reaped(S, p).dpy = S.dpy
         /\ p \notin Live(Reaped(S, p))
         /\ Own(S) => Own(Reaped(S, p))
         /\ \A e : Unserved(S, e) => Unserved(Reaped(S, p), e)
<1> DEFINE T == Reaped(S, p)
<1>1. NoProc \in Process
  BY DEF NoProc, Process
<1>2. /\ T \in State /\ T.displays = S.displays /\ T.dpy = S.dpy
      /\ T.procs = [S.procs EXCEPT ![p] = NoProc]
  BY <1>1 DEF Reaped, State
<1> HIDE DEF T
<1>3. p \notin Live(T) /\ S.procs \in [Pids -> Process]
  BY <1>2 DEF Live, NoProc, State
<1>4. \A q \in Serving(T) : q \in Serving(S) /\ T.procs[q] = S.procs[q]
  BY <1>2, <1>3 DEF Serving, Live, NoProc
<1>5. /\ Own(S) => Own(T)
      /\ \A e : Unserved(S, e) => Unserved(T, e)
  BY <1>2, <1>4 DEF Own, Unserved
<1> QED BY <1>2, <1>3, <1>5 DEF T
-----------------------------------------------------------------------------
(* What becomes of a display when a child has died. *)

LEMMA ServerPidSafe ==
  ASSUME NEW S \in State, NEW d \in Displays
  PROVE  LET T == ServerPid(S, d, NoPid)
         IN /\ T \in State /\ T.displays = S.displays /\ T.procs = S.procs
            /\ Own(S) /\ Unserved(S, d) => Own(T)
            /\ \A e : Unserved(S, d) /\ Unserved(S, e) => Unserved(T, e)
<1> DEFINE r == [S.dpy[d] EXCEPT !.serverPid = NoPid]
<1>1. r \in DisplayRecord
  BY Constants DEF State, DisplayRecord
<1> HIDE DEF r
<1>3. /\ Set(S, d, r) \in State /\ Set(S, d, r).displays = S.displays
      /\ Set(S, d, r).procs = S.procs
  BY <1>1, SetType
<1>4. ASSUME Unserved(S, d)
      PROVE  /\ Own(S) => Own(Set(S, d, r))
             /\ \A e : Unserved(S, e) => Unserved(Set(S, d, r), e)
  BY <1>1, <1>4, SetOwn
<1> QED BY <1>3, <1>4 DEF ServerPid, r

LEMMA StartGettySafe ==
  ASSUME NEW S0 \in State, NEW d \in Displays, NEW prompting \in BOOLEAN,
         NEW T \in StartGetty(S0, d, prompting)
  PROVE  /\ T \in State
         /\ Own(S0) /\ d \in S0.displays /\ Unserved(S0, d) => Own(T)
<1> DEFINE S == ServerPid(S0, d, NoPid)
           r == [S.dpy[d] EXCEPT !.status = "phoenix", !.startTries = 0]
           P == Set(S, d, r)
           G == ServerForked(P, d, "getty")
<1>1. /\ S \in State /\ S.displays = S0.displays
      /\ Own(S0) /\ Unserved(S0, d) => Own(S) /\ Unserved(S, d)
  BY ServerPidSafe
<1>2. \/ T = Status(S, d, "notRunning")
      \/ T = Suspend(S, d)
      \/ CanFork(P) /\ T = G
      \/ T = Status(P, d, "notRunning")
  BY DEF StartGetty
<1> HIDE DEF S
<1>3. r \in DisplayRecord /\ r.serverPid = S.dpy[d].serverPid
  <2>1. S.dpy[d] \in DisplayRecord
    BY <1>1 DEF State
  <2> QED BY <2>1 DEF DisplayRecord, Statuses
<1> HIDE DEF r
<1>4. /\ P \in State /\ P.displays = S.displays
      /\ Own(S) => Own(P)
      /\ Unserved(S, d) => Unserved(P, d)
  BY <1>1, <1>3, SetType, SetOwn
<1> HIDE DEF P
<1>5. "notRunning" \in Statuses /\ "suspended" \in Statuses
  BY DEF Statuses
<1>6. CASE T = Status(S, d, "notRunning")
  BY <1>1, <1>5, <1>6, StatusSafe
<1>7. CASE T = Suspend(S, d)
  <2>1. /\ Status(S, d, "suspended") \in State
        /\ Own(S) => Own(Status(S, d, "suspended"))
    BY <1>1, <1>5, StatusSafe
  <2> QED BY <1>1, <1>7, <2>1, TimerSafe DEF Suspend
<1>8. CASE CanFork(P) /\ T = G
  <2>1. G \in State /\ (Own(P) /\ d \in P.displays /\ Unserved(P, d) => Own(G))
    BY <1>4, <1>8, ServerForkedSafe
  <2> QED BY <1>1, <1>4, <1>8, <2>1
<1>9. CASE T = Status(P, d, "notRunning")
  BY <1>1, <1>4, <1>5, <1>9, StatusSafe
<1> QED BY <1>2, <1>6, <1>7, <1>8, <1>9

LEMMA SessionDiedSafe ==
  ASSUME NEW S0 \in State, NEW d \in Displays, NEW c, NEW down \in BOOLEAN
  PROVE  LET T == SessionDied(S0, d, c, down)
         IN T \in State /\ (Own(S0) => Own(T))
<1> DEFINE r == [S0.dpy[d] EXCEPT !.pid = NoPid,
                    !.startTries = TriesAfter(S0.dpy[d], d, c),
                    !.unexpected = @ /\ c # "obeysess"]
           S == Set(S0, d, r)
           force == c \in {"reserver", "openfailed", "term"}
<1>1. S0.dpy[d] \in DisplayRecord
  BY DEF State
<1>2. TriesAfter(S0.dpy[d], d, c) \in Nat
  BY <1>1 DEF TriesAfter, DisplayRecord
<1>3. r \in DisplayRecord /\ r.serverPid = S0.dpy[d].serverPid
  BY <1>1, <1>2, Constants DEF DisplayRecord
<1>4. \/ SessionDied(S0, d, c, down) = StopDisplay(S, {d}, down)
      \/ SessionDied(S0, d, c, down) = RestartDisplay(S, d, force)
  BY DEF SessionDied
<1> HIDE DEF r
<1>5. S \in State /\ (Own(S0) => Own(S))
  BY <1>3, SetType, SetOwn
<1> HIDE DEF S
<1>6. /\ StopDisplay(S, {d}, down) \in State
      /\ Own(S) => Own(StopDisplay(S, {d}, down))
  BY <1>5, StopSafe
<1>7. /\ RestartDisplay(S, d, force) \in State
      /\ Own(S) => Own(RestartDisplay(S, d, force))
  BY <1>5, RestartSafe
<1> QED BY <1>4, <1>5, <1>6, <1>7

LEMMA ServerDiedSafe ==
  ASSUME NEW S0 \in State, NEW d \in S0.displays, NEW T \in ServerDied(S0, d)
  PROVE  T \in State /\ (Own(S0) /\ Unserved(S0, d) => Own(T))
<1> DEFINE S == ServerPid(S0, d, NoPid)
           r == [S.dpy[d] EXCEPT !.unexpected = TRUE]
           U == Set(S, d, r)
<1>1. d \in Displays /\ S0.dpy[d] \in DisplayRecord
  BY DEF State
<1>2. /\ S \in State /\ S.displays = S0.displays
      /\ Own(S0) /\ Unserved(S0, d) => Own(S) /\ Unserved(S, d)
  BY <1>1, ServerPidSafe
<1>3. \/ T = RemoveDisplay(S, {d})
      \/ T = Status(S, d, "notRunning")
      \/ T = TerminateProcess(U, {S0.dpy[d].pid})
      \/ T = S
      \/ \E g \in BOOLEAN : T \in StartGetty(S, d, g)
  BY <1>1 DEF ServerDied, DisplayRecord, Statuses
<1> HIDE DEF S
<1>4. r \in DisplayRecord /\ r.serverPid = S.dpy[d].serverPid
  BY <1>1, <1>2 DEF State, DisplayRecord
<1> HIDE DEF r
<1>5. U \in State /\ (Own(S) => Own(U))
  BY <1>1, <1>2, <1>4, SetType, SetOwn
<1> HIDE DEF U
<1>6. CASE T = RemoveDisplay(S, {d})
  BY <1>1, <1>2, <1>6, RemoveSafe
<1>7. CASE T = Status(S, d, "notRunning")
  <2>1. "notRunning" \in Statuses
    BY DEF Statuses
  <2> QED BY <1>1, <1>2, <1>7, <2>1, StatusSafe
<1>8. CASE T = TerminateProcess(U, {S0.dpy[d].pid})
  BY <1>2, <1>5, <1>8, TerminateSafe
<1>9. CASE T = S
  BY <1>2, <1>9
<1>10. ASSUME NEW g \in BOOLEAN, T \in StartGetty(S, d, g)
       PROVE  T \in State /\ (Own(S0) /\ Unserved(S0, d) => Own(T))
  BY <1>1, <1>2, <1>10, StartGettySafe
<1> QED BY <1>3, <1>6, <1>7, <1>8, <1>9, <1>10

LEMMA DeathOfSafe ==
  ASSUME NEW S \in State, NEW p \in Pids, NEW c, shutdown \in BOOLEAN,
         p \notin Live(S), NEW T \in DeathOf(S, p, c)
  PROVE  T \in State /\ (Own(S) => Own(T))
<1>0. S.displays \subseteq Displays
  BY DEF State
<1>1. \/ \E d \in S.displays : T = SessionDied(S, d, c, shutdown)
      \/ \E d \in S.displays : S.dpy[d].serverPid = p /\ T \in ServerDied(S, d)
      \/ T = S
  BY DEF DeathOf
<1>2. ASSUME NEW d \in S.displays, T = SessionDied(S, d, c, shutdown)
      PROVE  T \in State /\ (Own(S) => Own(T))
  BY <1>0, <1>2, SessionDiedSafe
<1>3. ASSUME NEW d \in S.displays, S.dpy[d].serverPid = p, T \in ServerDied(S, d)
      PROVE  T \in State /\ (Own(S) => Own(T))
  <2>1. Own(S) => Unserved(S, d)
    BY <1>0, <1>3, NobodyServes
  <2> QED BY <1>3, <2>1, ServerDiedSafe
<1> QED BY <1>1, <1>2, <1>3

LEMMA ChildDeathSafe ==
  ASSUME TypeOK, NEW p \in Pids, ProcessChildDeath(p)
  PROVE  /\ dm' \in State /\ (Own(dm) => Own(dm'))
         /\ modified' = FALSE /\ UNCHANGED <<file, edits>>
<1> DEFINE R == IF modified THEN Rescanned(dm) ELSE dm
           S == Reaped(R, p)
<1>1. dm \in State /\ file \in Files /\ shutdown \in BOOLEAN
  BY DEF TypeOK
<1>2. R \in State /\ (Own(dm) => Own(R))
  BY <1>1, RescannedSafe
<1>3. /\ dm' \in DeathOf(S, p, dm.procs[p].code)
      /\ modified' = FALSE /\ UNCHANGED <<file, edits>>
  BY DEF ProcessChildDeath
<1> HIDE DEF R
<1>4. S \in State /\ p \notin Live(S) /\ (Own(R) => Own(S))
  BY <1>2, ReapedSafe
<1> HIDE DEF S
<1>5. dm' \in State /\ (Own(S) => Own(dm'))
  BY <1>1, <1>3, <1>4, DeathOfSafe
<1> QED BY <1>2, <1>3, <1>4, <1>5
-----------------------------------------------------------------------------
(* A pass over the displays. *)

LEMMA BeginPassSafe ==
  ASSUME NEW S \in State, NEW after \in {"boot", "rescan", "loop"},
         BeginPass(S, after)
  PROVE  /\ pc' = "start" /\ pass' \in PassRecord /\ PassOK'
         /\ pass'.next \in S.displays \cup {None}
<1>1. S.displays \subseteq Displays
  BY DEF State
<1>2. PICK n \in SavedNext(S.displays) :
        pass' = [cur |-> None, next |-> n, left |-> S.displays \ {n},
                 attempt |-> 0, after |-> after]
  BY DEF BeginPass
<1>3. n \in S.displays \cup {None}
  BY DEF SavedNext
<1>4. 0 \in 0..ServerAttempts
  BY Constants
<1>5. pc' = "start" /\ pass' \in PassRecord
  BY <1>1, <1>2, <1>3, <1>4 DEF BeginPass, PassRecord
<1>6. PassOK'
  BY <1>2, <1>5 DEF PassOK
<1> QED BY <1>2, <1>3, <1>5, <1>6

LEMMA TurnSafe ==
  ASSUME LoginInv, pass.next \in Displays, NEW n \in 0..ServerAttempts,
         NEW at \in {"start", "pause", "retry"}, Turn(pass.next, n, at)
  PROVE  /\ pc' = at /\ pass' \in PassRecord /\ PassOK'
         /\ pass'.next \in dm.displays \cup {None} /\ pass'.next # pass.next
         /\ at # "start" => pass'.cur = pass.next
<1>1. /\ pass \in PassRecord /\ pass.next \notin pass.left
      /\ dm.displays \subseteq Displays
  BY DEF LoginInv, TypeOK, PassOK, State
<1>2. PICK m \in SavedNext(pass.left \cap dm.displays) :
        pass' = [pass EXCEPT !.cur = IF at = "start" THEN None ELSE pass.next,
                             !.next = m, !.left = @ \ {m}, !.attempt = n]
  BY DEF Turn
<1>3. m = None \/ m \in pass.left \cap dm.displays
  BY DEF SavedNext
<1>4. m # pass.next /\ None \notin Displays
  BY <1>1, <1>3, Constants
<1>5. /\ pass'.next = m /\ pass'.left = pass.left \ {m}
      /\ pass'.cur = (IF at = "start" THEN None ELSE pass.next)
      /\ pass' \in PassRecord
  BY <1>1, <1>2, <1>3 DEF PassRecord
<1>6. pc' = at
  BY DEF Turn
<1>7. PassOK'
  BY <1>1, <1>4, <1>5, <1>6 DEF PassOK
<1> QED BY <1>3, <1>4, <1>5, <1>6, <1>7

LEMMA PollSafe ==
  ASSUME NEW S0 \in State, NEW d \in Displays, NEW S \in PollSuspended(S0, d)
  PROVE  S \in State /\ S.displays = S0.displays /\ (Own(S0) => Own(S))
<1> DEFINE r == [S0.dpy[d] EXCEPT !.status = "notRunning", !.startTries = 0]
           T == Set(S0, d, r)
<1>1. r \in DisplayRecord /\ r.serverPid = S0.dpy[d].serverPid
  <2>1. S0.dpy[d] \in DisplayRecord
    BY DEF State
  <2> QED BY <2>1 DEF DisplayRecord, Statuses
<1>2. S = S0 \/ S = Timer(S0, 1) \/ S = Timer(T, -1)
  BY DEF PollSuspended
<1> HIDE DEF r
<1>3. T \in State /\ T.displays = S0.displays /\ (Own(S0) => Own(T))
  BY <1>1, SetType, SetOwn
<1> HIDE DEF T
<1>4. CASE S = Timer(S0, 1)
  BY <1>4, TimerSafe
<1>5. CASE S = Timer(T, -1)
  BY <1>3, <1>5, TimerSafe
<1> QED BY <1>2, <1>4, <1>5

LEMMA ForkSessionSafe ==
  ASSUME NEW S \in State, NEW d \in Displays, ForkSession(S, d)
  PROVE  dm' \in State /\ dm'.displays = S.displays /\ (Own(S) => Own(dm'))
<1>1. CASE dm' = S
  BY <1>1
<1>2. CASE CanFork(S) /\ dm' = Set(Forked(S, NextPid(S), "session", d), d,
                  [S.dpy[d] EXCEPT !.pid = NextPid(S), !.status = "running"])
  BY <1>2, SessionForkedSafe
<1> QED BY <1>1, <1>2 DEF ForkSession

(* What a visit to d does to the list, and where it goes on. *)
Visited(d) ==
  \E n \in {0, 1}, at \in {"start", "pause", "retry"} :
    /\ Turn(d, n, at)
    /\ dm' \in State
    /\ dm.displays \ {d} \subseteq dm'.displays
    /\ ~ReadyEarly /\ ~shutdown /\ Own(dm) /\ d \in dm.displays =>
         /\ Own(dm')
         /\ at # "start" => d \in dm'.displays
         /\ at = "retry" => Unserved(dm', d)

LEMMA CheckPresentSafe ==
  ASSUME TypeOK, NEW d \in Displays, CheckPresent(d)
  PROVE  Visited(d)
<1>1. dm \in State
  BY DEF TypeOK
<1>2. PICK S \in PollSuspended(dm, d) :
        LET r == S.dpy[d]
            T == Set(S, d, [r EXCEPT !.startTries = @ + 1])
        IN CASE r.status # "notRunning" -> dm' = S /\ Turn(d, 0, "start")
             [] shutdown /\ r.status = "notRunning" ->
                  dm' = RemoveDisplay(S, {d}) /\ Turn(d, 0, "start")
             [] OTHER ->
                  \/ /\ d \notin Local \/ r.serverPid # NoPid
                     /\ ForkSession(S, d) /\ Turn(d, 0, "start")
                  \/ /\ d \in Local /\ r.serverPid = NoPid
                     /\ r.startTries >= StartAttempts
                     /\ dm' = RemoveDisplay(S, {d}) /\ Turn(d, 0, "start")
                  \/ /\ d \in Local /\ r.serverPid = NoPid
                     /\ r.startTries < StartAttempts
                     /\ \/ /\ CanFork(T) /\ dm' = ServerForked(T, d, "server")
                           /\ \E at \in ServerStage : Turn(d, 1, at)
                        \/ ForkMayFail(T) /\ dm' = T /\ Turn(d, 1, "retry")
  BY DEF CheckPresent
<1> DEFINE r == [S.dpy[d] EXCEPT !.startTries = @ + 1]
           T == Set(S, d, r)
<1>3. S \in State /\ S.displays = dm.displays /\ (Own(dm) => Own(S))
  BY <1>1, PollSafe
<1>4. S.dpy[d] \in DisplayRecord
  BY <1>3 DEF State
<1>5. \/ dm' = S /\ Turn(d, 0, "start")
      \/ shutdown /\ dm' = RemoveDisplay(S, {d}) /\ Turn(d, 0, "start")
      \/ ForkSession(S, d) /\ Turn(d, 0, "start")
      \/ /\ S.dpy[d].serverPid = NoPid
         /\ dm' = RemoveDisplay(S, {d}) /\ Turn(d, 0, "start")
      \/ /\ S.dpy[d].serverPid = NoPid
         /\ CanFork(T) /\ dm' = ServerForked(T, d, "server")
         /\ \E at \in ServerStage : Turn(d, 1, at)
      \/ S.dpy[d].serverPid = NoPid /\ dm' = T /\ Turn(d, 1, "retry")
  BY <1>2
<1>6. r \in DisplayRecord /\ r.serverPid = S.dpy[d].serverPid
  BY <1>4 DEF DisplayRecord
<1> HIDE DEF r
<1>7. /\ T \in State /\ T.displays = S.displays /\ (Own(S) => Own(T))
      /\ Unserved(S, d) => Unserved(T, d)
  BY <1>3, <1>6, SetType, SetOwn
<1> HIDE DEF T
<1>8. ASSUME S.dpy[d].serverPid = NoPid, Own(S) PROVE Unserved(S, d)
  BY <1>3, <1>8, NoServer
<1>9. CASE dm' = S /\ Turn(d, 0, "start")
  BY <1>3, <1>9 DEF Visited
<1>10. CASE shutdown /\ dm' = RemoveDisplay(S, {d}) /\ Turn(d, 0, "start")
  <2>1. dm' \in State /\ dm'.displays = dm.displays \ {d}
    BY <1>3, <1>10, RemoveSafe
  <2> QED BY <1>10, <2>1 DEF Visited
<1>11. CASE ForkSession(S, d) /\ Turn(d, 0, "start")
  <2>1. dm' \in State /\ dm'.displays = S.displays /\ (Own(S) => Own(dm'))
    BY <1>3, <1>11, ForkSessionSafe
  <2> QED BY <1>3, <1>11, <2>1 DEF Visited
<1>12. CASE /\ S.dpy[d].serverPid = NoPid
            /\ dm' = RemoveDisplay(S, {d}) /\ Turn(d, 0, "start")
  <2>1. /\ dm' \in State /\ dm'.displays = dm.displays \ {d}
        /\ Own(S) /\ Unserved(S, d) => Own(dm')
    BY <1>3, <1>12, RemoveSafe
  <2> QED BY <1>3, <1>8, <1>12, <2>1 DEF Visited
<1>13. CASE /\ S.dpy[d].serverPid = NoPid
            /\ CanFork(T) /\ dm' = ServerForked(T, d, "server")
            /\ \E at \in ServerStage : Turn(d, 1, at)
  <2>1. PICK at \in ServerStage : Turn(d, 1, at)
    BY <1>13
  <2>2. at \in {"pause", "retry"} /\ (~ReadyEarly => at = "pause")
    BY DEF ServerStage
  <2>3. /\ dm' \in State /\ dm'.displays = dm.displays
        /\ Own(T) /\ d \in T.displays /\ Unserved(T, d) => Own(dm')
    BY <1>3, <1>7, <1>13, ServerForkedSafe
  <2> QED BY <1>3, <1>7, <1>8, <1>13, <2>1, <2>2, <2>3 DEF Visited
<1>14. CASE S.dpy[d].serverPid = NoPid /\ dm' = T /\ Turn(d, 1, "retry")
  BY <1>3, <1>7, <1>8, <1>14 DEF Visited
<1> QED BY <1>5, <1>9, <1>10, <1>11, <1>12, <1>13, <1>14
-----------------------------------------------------------------------------
(* Every action preserves the invariant. *)

Kept == LoginInv' /\ (~ReadyEarly /\ InService => InService')

LEMMA InitInv == Init => LoginInv /\ InService
<1> SUFFICES ASSUME Init PROVE LoginInv /\ InService
  OBVIOUS
<1> USE DEF Init
<1>1. file \subseteq Displays /\ None \notin Displays
  BY Constants
<1>2. Fresh \in DisplayRecord /\ NoProc \in Process
  BY Constants DEF Fresh, DisplayRecord, Statuses, NoProc, Process
<1>3. dm \in State
  BY <1>1, <1>2 DEF State
<1>4. PICK n \in SavedNext(file) :
        pass = [cur |-> None, next |-> n, left |-> file \ {n}, attempt |-> 0,
                after |-> "boot"]
  OBVIOUS
<1>5. n \in file \cup {None}
  BY DEF SavedNext
<1>6. 0 \in 0..ServerAttempts /\ 0 \in 0..MaxEdits
  BY Constants, LoginAssumption DEF LoginAssumption
<1>7. pass \in PassRecord
  BY <1>1, <1>4, <1>5, <1>6 DEF PassRecord
<1>8. TypeOK
  BY <1>3, <1>6, <1>7 DEF TypeOK, Stage
<1>9. PassOK
  BY <1>4 DEF PassOK
<1>10. Own(dm)
  BY DEF Own, Serving, Live, NoProc
<1>11. Listed
  BY <1>4, <1>5 DEF Listed, OnPass
<1> QED BY <1>8, <1>9, <1>10, <1>11 DEF LoginInv, InService

LEMMA CheckKept == LoginInv /\ CheckDisplayStatus => Kept
<1> SUFFICES ASSUME LoginInv, CheckDisplayStatus PROVE Kept
  OBVIOUS
<1> DEFINE d == pass.next
<1>1. TypeOK /\ dm \in State /\ pass \in PassRecord
  BY DEF LoginInv, TypeOK
<1>2. /\ pc = "start" /\ d \in Displays
      /\ UNCHANGED <<xservers, signals, sockets, heap>>
  BY <1>1 DEF CheckDisplayStatus, PassRecord
<1>3. Visited(d) /\ shutdown' \in {shutdown, FALSE}
  <2>1. CASE dm' = StopDisplay(dm, {d}, TRUE) /\ shutdown' = FALSE /\ Turn(d, 0, "start")
    <3>1. /\ dm' \in State /\ dm.displays \ {d} \subseteq dm'.displays
          /\ Own(dm) => Own(dm')
      BY <1>1, <1>2, <2>1, StopSafe
    <3> QED BY <2>1, <3>1 DEF Visited
  <2>2. CASE CheckPresent(d) /\ UNCHANGED shutdown
    BY <1>1, <1>2, <2>2, CheckPresentSafe
  <2> QED BY <2>1, <2>2 DEF CheckDisplayStatus
<1> HIDE DEF d
<1>4. PICK n \in {0, 1}, at \in {"start", "pause", "retry"} :
        /\ Turn(d, n, at)
        /\ dm' \in State
        /\ dm.displays \ {d} \subseteq dm'.displays
        /\ ~ReadyEarly /\ ~shutdown /\ Own(dm) /\ d \in dm.displays =>
             /\ Own(dm')
             /\ at # "start" => d \in dm'.displays
             /\ at = "retry" => Unserved(dm', d)
  BY <1>3 DEF Visited
<1>5. n \in 0..ServerAttempts
  BY Constants
<1>6. /\ pc' = at /\ pass' \in PassRecord /\ PassOK'
      /\ pass'.next \in dm.displays \cup {None} /\ pass'.next # d
      /\ at # "start" => pass'.cur = d
  BY <1>2, <1>4, <1>5, TurnSafe DEF d
<1>7. LoginInv'
  BY <1>1, <1>2, <1>3, <1>4, <1>6
  DEF LoginInv, TypeOK, Stage, xservers, signals
<1>8. ASSUME ~ReadyEarly, InService, sockets' PROVE InService'
  <2>1. ~shutdown /\ Own(dm) /\ d \in dm.displays
    BY <1>2, <1>8, Constants DEF InService, Listed, OnPass, d
  <2>2. ~shutdown'
    BY <1>1, <1>3, <2>1
  <2>3. /\ Own(dm') /\ (at # "start" => d \in dm'.displays)
        /\ at = "retry" => Unserved(dm', d)
    BY <1>4, <1>8, <2>1
  <2>4. Listed'
    BY <1>4, <1>6, <2>3 DEF Listed
  <2> QED BY <2>2, <2>3, <2>4 DEF InService
<1> QED BY <1>7, <1>8 DEF Kept, InService

LEMMA PauseReapsKept == LoginInv /\ PauseReaps => Kept
<1> SUFFICES ASSUME LoginInv, PauseReaps PROVE Kept
  OBVIOUS
<1>1. dm \in State /\ pass \in PassRecord
  BY DEF LoginInv, TypeOK
<1>2. PICK p \in Dead(dm) :
        /\ dm' = Reaped(dm, p)
        /\ pc' = IF p = dm.dpy[pass.cur].serverPid THEN "retry" ELSE "pause"
  BY DEF PauseReaps
<1>3. /\ pc = "pause"
      /\ UNCHANGED <<xservers, signals, shutdown, sockets, pass, heap>>
  BY DEF PauseReaps
<1>4. /\ dm' \in State /\ dm'.displays = dm.displays /\ dm'.dpy = dm.dpy
      /\ p \notin Live(dm') /\ (Own(dm) => Own(dm'))
  BY <1>1, <1>2, ReapedSafe DEF Dead
<1>5. LoginInv'
  BY <1>2, <1>3, <1>4
  DEF LoginInv, TypeOK, PassOK, Stage, xservers, signals
<1>6. ASSUME InService, sockets' PROVE InService'
  <2>1. /\ ~shutdown' /\ Own(dm') /\ pass.cur \in dm.displays
        /\ pass.next \in dm.displays \cup {None}
    BY <1>3, <1>4, <1>6 DEF InService, Listed, OnPass
  <2>2. pass.cur \in Displays
    BY <1>1, <2>1 DEF State
  <2>3. ASSUME pc' = "retry" PROVE Unserved(dm', pass.cur)
    BY <1>2, <1>4, <2>1, <2>2, <2>3, NobodyServes
  <2> QED BY <1>2, <1>3, <1>4, <2>1, <2>3 DEF InService, Listed
<1> QED BY <1>5, <1>6 DEF Kept, InService

LEMMA PauseEndsKept == LoginInv /\ PauseEnds => Kept
<1> SUFFICES ASSUME LoginInv, PauseEnds PROVE Kept
  OBVIOUS
<1>1. dm \in State /\ pass \in PassRecord
  BY DEF LoginInv, TypeOK
<1>2. /\ pc = "pause" /\ ForkSession(dm, pass.cur) /\ pc' = "start"
      /\ pass' = [pass EXCEPT !.cur = None, !.attempt = 0]
      /\ UNCHANGED <<xservers, signals, shutdown, sockets, heap>>
  BY DEF PauseEnds, Return
<1>3. pass.cur \in Displays
  BY <1>1, <1>2 DEF LoginInv, PassOK, PassRecord
<1>4. dm' \in State /\ dm'.displays = dm.displays /\ (Own(dm) => Own(dm'))
  BY <1>1, <1>2, <1>3, ForkSessionSafe
<1>5. 0 \in 0..ServerAttempts
  BY Constants
<1>6. /\ pass' \in PassRecord /\ pass'.next = pass.next
      /\ pass'.left = pass.left /\ pass'.cur = None
  BY <1>1, <1>2, <1>5 DEF PassRecord
<1>7. LoginInv'
  BY <1>2, <1>4, <1>6
  DEF LoginInv, TypeOK, PassOK, Stage, xservers, signals
<1>8. ASSUME InService, sockets' PROVE InService'
  BY <1>2, <1>4, <1>6, <1>8 DEF InService, Listed, OnPass
<1> QED BY <1>7, <1>8 DEF Kept, InService

LEMMA RetryKept == LoginInv /\ RetryServer => Kept
<1> SUFFICES ASSUME LoginInv, RetryServer PROVE Kept
  OBVIOUS
<1> DEFINE d == pass.cur
<1>1. dm \in State /\ pass \in PassRecord
  BY DEF LoginInv, TypeOK
<1>2. pc = "retry" /\ UNCHANGED <<xservers, signals, shutdown, sockets, heap>>
  BY DEF RetryServer
<1>3. d \in Displays /\ d \notin pass.left /\ d # pass.next
  BY <1>1, <1>2 DEF LoginInv, PassOK, PassRecord
<1>4. CASE /\ MoreAttempts(pass.attempt)
           /\ \/ /\ CanFork(dm) /\ dm' = ServerForked(dm, d, "server")
                 /\ pc' \in ServerStage
              \/ ForkMayFail(dm) /\ UNCHANGED <<dm, pc>>
           /\ pass' = [pass EXCEPT !.attempt = @ + 1]
  <2>1. pass.attempt + 1 \in 0..ServerAttempts
    BY <1>1, <1>4, Constants DEF MoreAttempts, PassRecord
  <2>2. /\ pass' \in PassRecord /\ pass'.next = pass.next
        /\ pass'.left = pass.left /\ pass'.cur = d
    BY <1>1, <1>4, <2>1 DEF PassRecord
  <2>3. CASE /\ CanFork(dm) /\ dm' = ServerForked(dm, d, "server")
             /\ pc' \in ServerStage
    <3>1. pc' \in {"pause", "retry"} /\ (~ReadyEarly => pc' = "pause")
      BY <2>3 DEF ServerStage
    <3>2. /\ dm' \in State /\ dm'.displays = dm.displays
          /\ Own(dm) /\ d \in dm.displays /\ Unserved(dm, d) => Own(dm')
      BY <1>1, <1>3, <2>3, ServerForkedSafe
    <3>3. LoginInv'
      BY <1>2, <1>3, <2>2, <3>1, <3>2
      DEF LoginInv, TypeOK, PassOK, Stage, xservers, signals
    <3>4. ASSUME ~ReadyEarly, InService, sockets' PROVE InService'
      BY <1>2, <2>2, <3>1, <3>2, <3>4 DEF InService, Listed, OnPass
    <3> QED BY <3>3, <3>4 DEF Kept, InService
  <2>4. CASE UNCHANGED <<dm, pc>>
    <3>1. LoginInv'
      BY <1>2, <2>2, <2>4
      DEF LoginInv, TypeOK, PassOK, Stage, xservers, signals
    <3>2. ASSUME InService, sockets' PROVE InService'
      BY <1>2, <2>2, <2>4, <3>2 DEF InService, Listed, OnPass
    <3> QED BY <3>1, <3>2 DEF Kept, InService
  <2> QED BY <1>4, <2>3, <2>4
<1>5. CASE dm' = RemoveDisplay(dm, {d}) /\ Return
  <2>1. /\ dm' \in State /\ dm'.displays = dm.displays \ {d}
        /\ Own(dm) /\ Unserved(dm, d) => Own(dm')
    BY <1>1, <1>3, <1>5, RemoveSafe
  <2>2. 0 \in 0..ServerAttempts
    BY Constants
  <2>3. /\ pc' = "start" /\ pass' \in PassRecord /\ pass'.next = pass.next
        /\ pass'.left = pass.left /\ pass'.cur = None
    BY <1>1, <1>5, <2>2 DEF PassRecord, Return
  <2>4. LoginInv'
    BY <1>2, <2>1, <2>3
    DEF LoginInv, TypeOK, PassOK, Stage, xservers, signals
  <2>5. ASSUME InService, sockets' PROVE InService'
    BY <1>2, <1>3, <2>1, <2>3, <2>5 DEF InService, Listed, OnPass
  <2> QED BY <2>4, <2>5 DEF Kept, InService
<1> QED BY <1>4, <1>5 DEF RetryServer

(* Steps of the main loop that begin no pass and leave the list alone. *)
LEMMA ElsewhereKept ==
  ASSUME LoginInv, UNCHANGED <<dm, pass, shutdown, sockets>>,
         TypeOK', ~OnPass'
  PROVE  Kept
<1>1. pc' \notin {"start", "pause", "retry"}
  BY DEF OnPass
<1>2. LoginInv'
  BY <1>1 DEF LoginInv, PassOK
<1>3. ASSUME InService, sockets' PROVE InService'
  BY <1>1, <1>3 DEF InService, Listed, OnPass
<1> QED BY <1>2, <1>3 DEF Kept, InService

(* Steps that begin a pass over the list they leave behind. *)
LEMMA BegunKept ==
  ASSUME LoginInv, NEW after \in {"boot", "rescan", "loop"},
         dm' \in State, BeginPass(dm', after), Own(dm) => Own(dm'),
         UNCHANGED <<shutdown, sockets>>,
         pc' \in Stage /\ pass' \in PassRecord => TypeOK'
  PROVE  Kept
<1>1. /\ pc' = "start" /\ pass' \in PassRecord /\ PassOK'
      /\ pass'.next \in dm'.displays \cup {None}
  BY BeginPassSafe
<1>2. LoginInv'
  BY <1>1 DEF LoginInv, Stage
<1>3. ASSUME InService, sockets' PROVE InService'
  BY <1>1, <1>3 DEF InService, Listed
<1> QED BY <1>2, <1>3 DEF Kept, InService

LEMMA EndPassKept == LoginInv /\ EndPass => Kept
<1> SUFFICES ASSUME LoginInv, EndPass PROVE Kept
  OBVIOUS
<1>1. /\ pc' \in {"test", "loop"} /\ {rescan', childReady', armed'} \subseteq BOOLEAN
      /\ UNCHANGED <<dm, xservers, interrupted, shutdown, sockets, pass, heap>>
  BY DEF EndPass, LoginInv, TypeOK
<1>2. TypeOK' /\ ~OnPass'
  BY <1>1 DEF LoginInv, TypeOK, Stage, OnPass, xservers
<1> QED BY <1>1, <1>2, ElsewhereKept

LEMMA LoopKept == LoginInv /\ Loop => Kept
<1> SUFFICES ASSUME LoginInv, Loop PROVE Kept
  OBVIOUS
<1>1. /\ dm \in State /\ file \in Files
      /\ UNCHANGED <<xservers, signals, shutdown, sockets, heap>>
  BY DEF LoginInv, TypeOK, Loop
<1>2. CASE pc' \in {"done", "test"} /\ UNCHANGED <<dm, pass>>
  <2>1. TypeOK' /\ ~OnPass'
    BY <1>1, <1>2 DEF LoginInv, TypeOK, Stage, OnPass, xservers, signals
  <2> QED BY <1>1, <1>2, <2>1, ElsewhereKept
<1>3. CASE dm' = Rescanned(dm) /\ BeginPass(dm', "rescan")
  <2>1. dm' \in State /\ (Own(dm) => Own(dm'))
    BY <1>1, <1>3, RescannedSafe
  <2>2. pc' \in Stage /\ pass' \in PassRecord => TypeOK'
    BY <1>1, <2>1 DEF LoginInv, TypeOK, xservers, signals
  <2> QED BY <1>1, <1>3, <2>1, <2>2, BegunKept
<1> QED BY <1>2, <1>3 DEF Loop

LEMMA WaitForSomethingKept == LoginInv /\ WaitForSomething => Kept
<1> SUFFICES ASSUME LoginInv, WaitForSomething PROVE Kept
  OBVIOUS
<1>1. /\ pc' \in {"entering", "reap", "wait", "select"} /\ interrupted' = FALSE
      /\ UNCHANGED <<dm, xservers, rescan, childReady, armed, shutdown, sockets,
                     pass, heap>>
  BY DEF WaitForSomething
<1>2. TypeOK' /\ ~OnPass'
  BY <1>1 DEF LoginInv, TypeOK, Stage, OnPass, xservers
<1> QED BY <1>1, <1>2, ElsewhereKept

LEMMA AfterSelectKept == LoginInv /\ AfterSelect => Kept
<1> SUFFICES ASSUME LoginInv, AfterSelect PROVE Kept
  OBVIOUS
<1>1. /\ dm \in State /\ interrupted' = FALSE
      /\ UNCHANGED <<dm, xservers, rescan, childReady, armed, shutdown, sockets,
                     heap>>
  BY DEF LoginInv, TypeOK, AfterSelect
<1>2. pc' \in Stage /\ pass' \in PassRecord => TypeOK'
  BY <1>1 DEF LoginInv, TypeOK, xservers
<1>3. CASE pc' \in {"reap", "wait"} /\ UNCHANGED pass
  <2>1. TypeOK' /\ ~OnPass'
    BY <1>2, <1>3 DEF LoginInv, TypeOK, Stage, OnPass
  <2> QED BY <1>1, <1>3, <2>1, ElsewhereKept
<1>4. CASE BeginPass(dm, "loop")
  BY <1>1, <1>2, <1>4, BegunKept
<1> QED BY <1>3, <1>4 DEF AfterSelect

LEMMA WaitForChildKept == LoginInv /\ WaitForChild => Kept
<1> SUFFICES ASSUME LoginInv, WaitForChild PROVE Kept
  OBVIOUS
<1>0. TypeOK /\ dm \in State
  BY DEF LoginInv, TypeOK
<1>1. ASSUME NEW p \in Dead(dm), ProcessChildDeath(p)
      PROVE  /\ dm' \in State /\ (Own(dm) => Own(dm'))
             /\ modified' = FALSE /\ UNCHANGED <<file, edits>>
  BY <1>0, <1>1, ChildDeathSafe DEF Dead
<1>2. CASE /\ pc = "reap" /\ UNCHANGED <<pc, childReady, armed>>
           /\ \E p \in Dead(dm) : ProcessChildDeath(p)
           /\ UNCHANGED <<rescan, interrupted, shutdown, sockets, pass, heap>>
  <2>1. /\ dm' \in State /\ (Own(dm) => Own(dm'))
        /\ modified' = FALSE /\ UNCHANGED <<file, edits>>
    BY <1>1, <1>2
  <2>2. LoginInv'
    BY <1>2, <2>1 DEF LoginInv, TypeOK, PassOK
  <2>3. ASSUME InService, sockets' PROVE InService'
    BY <1>2, <2>1, <2>3 DEF InService, Listed, OnPass
  <2> QED BY <2>2, <2>3 DEF Kept, InService
<1>3. CASE /\ UNCHANGED <<dm, xservers>> /\ childReady' = FALSE /\ armed' = TRUE
           /\ pc' = "sleep"
           /\ UNCHANGED <<rescan, interrupted, shutdown, sockets, pass, heap>>
  <2>1. TypeOK' /\ ~OnPass'
    BY <1>3 DEF LoginInv, TypeOK, Stage, OnPass, xservers
  <2> QED BY <1>3, <2>1, ElsewhereKept
<1>4. CASE /\ pc' = "reap" /\ UNCHANGED pass
           /\ UNCHANGED <<dm, xservers, signals, shutdown, sockets, heap>>
  <2>1. TypeOK' /\ ~OnPass'
    BY <1>4 DEF LoginInv, TypeOK, Stage, OnPass, xservers, signals
  <2> QED BY <1>4, <2>1, ElsewhereKept
<1>5. CASE /\ BeginPass(dm, "loop")
           /\ UNCHANGED <<dm, xservers, signals, shutdown, sockets, heap>>
  <2>1. pc' \in Stage /\ pass' \in PassRecord => TypeOK'
    BY <1>5 DEF LoginInv, TypeOK, xservers, signals
  <2> QED BY <1>0, <1>5, <2>1, BegunKept
<1>6. CASE /\ \/ \E p \in Dead(dm) : ProcessChildDeath(p)
              \/ UNCHANGED <<dm, xservers>>
           /\ BeginPass(dm', "loop")
           /\ UNCHANGED <<signals, shutdown, sockets, heap>>
  <2>1. /\ dm' \in State /\ (Own(dm) => Own(dm'))
        /\ modified' \in {modified, FALSE} /\ UNCHANGED <<file, edits>>
    BY <1>0, <1>1, <1>6 DEF xservers
  <2>2. pc' \in Stage /\ pass' \in PassRecord => TypeOK'
    BY <1>6, <2>1 DEF LoginInv, TypeOK, signals
  <2> QED BY <1>6, <2>1, <2>2, BegunKept
<1> QED BY <1>2, <1>3, <1>4, <1>5, <1>6 DEF WaitForChild

LEMMA StopAllKept == LoginInv /\ StopAll => Kept
<1> SUFFICES ASSUME LoginInv, StopAll PROVE Kept
  OBVIOUS
<1>1. dm \in State /\ dm.displays \in SUBSET Displays
  BY DEF LoginInv, TypeOK, State
<1>2. /\ dm' = StopDisplay(dm, dm.displays, TRUE)
      /\ shutdown' = TRUE /\ sockets' = FALSE /\ interrupted' = Interrupts
      /\ heap' \in {"corrupt", heap}
      /\ UNCHANGED <<xservers, rescan, childReady, armed, pc, pass>>
  BY DEF StopAll
<1>3. dm' \in State
  BY <1>1, <1>2, StopSafe
<1>4. Interrupts \in BOOLEAN
  BY DEF Interrupts, LoginInv, TypeOK
<1>5. LoginInv'
  BY <1>2, <1>3, <1>4 DEF LoginInv, TypeOK, PassOK, xservers
<1> QED BY <1>2, <1>5 DEF Kept, InService

LEMMA OthersKept == LoginInv /\ (RescanNotify \/ Edit) => Kept
<1> SUFFICES ASSUME LoginInv, RescanNotify \/ Edit PROVE Kept
  OBVIOUS
<1>1. Interrupts \in BOOLEAN
  BY DEF Interrupts, LoginInv, TypeOK
<1>2. edits + 1 \in 0..MaxEdits \/ ~Edit
  BY LoginAssumption DEF LoginAssumption, LoginInv, TypeOK, Edit
<1>3. UNCHANGED <<dm, pc, pass, shutdown, sockets, heap, armed, childReady>>
  BY DEF RescanNotify, Edit, signals
<1>4. TypeOK'
  <2>1. CASE RescanNotify
    BY <1>1, <2>1 DEF RescanNotify, LoginInv, TypeOK, xservers
  <2>2. CASE Edit
    BY <1>2, <2>2 DEF Edit, LoginInv, TypeOK, signals
  <2> QED BY <2>1, <2>2
<1>5. LoginInv'
  BY <1>3, <1>4 DEF LoginInv, PassOK
<1>6. ASSUME InService, sockets' PROVE InService'
  BY <1>3, <1>6 DEF InService, Listed, OnPass
<1> QED BY <1>5, <1>6 DEF Kept, InService

LEMMA ExitKept == ASSUME LoginInv, NEW p \in Pids, Exit(p) PROVE Kept
<1>1. /\ dm \in State /\ dm.procs[p] \in Process
      /\ dm.procs \in [Pids -> Process]
  BY DEF LoginInv, TypeOK, State
<1>2. PICK c \in (IF dm.procs[p].kind = "session" THEN ExitCodes ELSE {"none"}) :
        dm' = [dm EXCEPT !.procs = [dm.procs EXCEPT
                 ![p] = [dm.procs[p] EXCEPT !.life = "dead", !.code = c]]]
  BY DEF Exit
<1>3. /\ armed' = FALSE /\ childReady' = (childReady \/ armed)
      /\ interrupted' = IF armed THEN Interrupts ELSE interrupted
      /\ UNCHANGED <<xservers, rescan, shutdown, sockets, pc, pass, heap>>
  BY DEF Exit
<1>4. c \in Codes \cup {"none"}
  BY LoginAssumption DEF LoginAssumption
<1> DEFINE r == [dm.procs[p] EXCEPT !.life = "dead", !.code = c]
<1>5. r \in Process /\ r.life = "dead"
  BY <1>1, <1>4 DEF Process
<1> HIDE DEF r
<1>6. /\ dm' \in State /\ dm'.displays = dm.displays /\ dm'.dpy = dm.dpy
      /\ dm'.procs = [dm.procs EXCEPT ![p] = r]
  BY <1>1, <1>2, <1>5 DEF State, r
<1>7. \A q \in Serving(dm') : q \in Serving(dm) /\ dm'.procs[q] = dm.procs[q]
  BY <1>1, <1>5, <1>6 DEF Serving, Live
<1>8. /\ Own(dm) => Own(dm')
      /\ \A e : Unserved(dm, e) => Unserved(dm', e)
  BY <1>6, <1>7 DEF Own, Unserved
<1>9. Interrupts \in BOOLEAN
  BY DEF Interrupts, LoginInv, TypeOK
<1>10. LoginInv'
  BY <1>3, <1>6, <1>9 DEF LoginInv, TypeOK, PassOK, xservers
<1>11. ASSUME InService, sockets' PROVE InService'
  BY <1>3, <1>6, <1>8, <1>11 DEF InService, Listed, OnPass
<1> QED BY <1>10, <1>11 DEF Kept, InService

LEMMA StepInv == LoginInv /\ [Next]_vars => Kept
<1> SUFFICES ASSUME LoginInv, [Next]_vars PROVE Kept
  OBVIOUS
<1>1. CASE UNCHANGED vars
  <2>1. LoginInv'
    BY <1>1 DEF LoginInv, TypeOK, PassOK, vars, xservers, signals
  <2>2. InService => InService'
    BY <1>1 DEF InService, Listed, OnPass, vars
  <2> QED BY <2>1, <2>2 DEF Kept
<1>2. CASE Main
  BY <1>2, CheckKept, PauseReapsKept, PauseEndsKept, RetryKept, EndPassKept,
     LoopKept, WaitForSomethingKept, AfterSelectKept, WaitForChildKept
  DEF Main, SelectReturns
<1>3. CASE Packet
  BY <1>3, AfterSelectKept DEF Packet
<1>4. CASE StopAll
  BY <1>4, StopAllKept
<1>5. CASE RescanNotify \/ Edit
  BY <1>5, OthersKept
<1>6. CASE \E p \in Pids : Exit(p)
  BY <1>6, ExitKept
<1> QED BY <1>1, <1>2, <1>3, <1>4, <1>5, <1>6 DEF Next
-----------------------------------------------------------------------------
(* Every variable has its type, whatever dtlogin is configured to do; this *)
(* includes that no more servers are tried than serverAttempts (StartServer*)
(* in server.c).                                                           *)
THEOREM LoginTypeCorrect == Spec => []TypeOK
<1>1. Init => LoginInv
  BY InitInv
<1>2. LoginInv /\ [Next]_vars => LoginInv'
  BY StepInv DEF Kept
<1>3. LoginInv => TypeOK
  BY DEF LoginInv
<1> QED BY <1>1, <1>2, <1>3, PTL DEF Spec

LEMMA OwnIsOne == ASSUME TypeOK, Own(dm), NEW d \in Displays
  PROVE Cardinality({p \in Live(dm) : dm.procs[p].of = d
                       /\ dm.procs[p].kind \in {"server", "getty"}}) <= 1
<1> DEFINE Q == {p \in Live(dm) : dm.procs[p].of = d
                    /\ dm.procs[p].kind \in {"server", "getty"}}
<1>1. \A p, q \in Q : p = q
  BY DEF Own, Serving
<1>2. CASE Q = {}
  BY <1>2, FS_EmptySet
<1>3. CASE Q # {}
  <2>1. PICK p : Q = {p}
    BY <1>1, <1>3
  <2>2. Cardinality(Q) = 1
    BY <2>1, FS_Singleton
  <2> QED BY <2>2
<1> QED BY <1>2, <1>3

(* If SIGUSR1 of a server does not come before serverPause waits for it,   *)
(* no display has two X servers, or a server and a getty, until SIGTERM:   *)
(* every server that lives is the one its display knows (dm.c:1192).       *)
THEOREM OneServerAlways == ASSUME ~ReadyEarly PROVE Spec => []OneServer
<1>1. Init => ServedInv
  BY InitInv DEF ServedInv
<1>2. ServedInv /\ [Next]_vars => ServedInv'
  BY StepInv DEF ServedInv, Kept
<1>3. ServedInv => OneServer
  BY OwnIsOne DEF ServedInv, LoginInv, InService, OneServer
<1> QED BY <1>1, <1>2, <1>3, PTL DEF Spec
-----------------------------------------------------------------------------
(* No child is lost sight of. *)

(* The children that nobody has told to end. *)
Alive(S) == {p \in Pids : S.procs[p].life = "alive"}

(* Each is known to a display; a display that is not running has no        *)
(* session; a display that is not listed has nothing.                      *)
Seen(S) ==
  \A p \in Alive(S) : \E d \in S.displays : p \in {S.dpy[d].pid, S.dpy[d].serverPid}
Resting(S) ==
  \A d \in Displays : S.dpy[d].status # "running" => S.dpy[d].pid \notin Alive(S)
Blank(S) ==
  \A d \in Displays \ S.displays :
    /\ S.dpy[d].pid = NoPid /\ S.dpy[d].serverPid = NoPid
    /\ S.dpy[d].status = "notRunning"
Sound(S) == Seen(S) /\ Resting(S) /\ Blank(S)

(* After SIGTERM no server is wanted. *)
Down(S) ==
  \A d \in Displays :
    S.dpy[d].status # "suspended" /\ S.dpy[d].serverPid \notin Alive(S)

LEMMA Records ==
  ASSUME NEW S \in State
  PROVE  /\ S.dpy \in [Displays -> DisplayRecord] /\ S.displays \subseteq Displays
         /\ S.procs \in [Pids -> Process]
         /\ NoPid \notin Alive(S)
BY Constants DEF State, Alive

(* The record of d is changed, and keeps the children it has. *)
LEMMA Changed ==
  ASSUME NEW S \in State, NEW T \in State, NEW d \in S.displays, NEW r,
         T.displays = S.displays, T.dpy = [S.dpy EXCEPT ![d] = r],
         Alive(T) \subseteq Alive(S),
         {S.dpy[d].pid, S.dpy[d].serverPid} \cap Alive(T) \subseteq {r.pid, r.serverPid},
         r.status # "running" => r.pid \notin Alive(T)
  PROVE  /\ T.dpy[d] = r
         /\ Sound(S) => Sound(T)
         /\ Down(S) /\ r.status # "suspended" /\ r.serverPid \notin Alive(T) => Down(T)
<1>1. S.dpy \in [Displays -> DisplayRecord] /\ S.displays \subseteq Displays
  BY Records
<1>2. T.dpy[d] = r /\ \A e \in Displays \ {d} : T.dpy[e] = S.dpy[e]
  BY <1>1
<1>3. ASSUME Sound(S) PROVE Sound(T)
  <2>1. ASSUME NEW p \in Alive(T)
        PROVE  \E e \in T.displays : p \in {T.dpy[e].pid, T.dpy[e].serverPid}
    <3>1. PICK e \in S.displays : p \in {S.dpy[e].pid, S.dpy[e].serverPid}
      BY <1>3, <2>1 DEF Sound, Seen
    <3>2. CASE e = d
      BY <1>2, <2>1, <3>1, <3>2
    <3>3. CASE e # d
      BY <1>1, <1>2, <3>1, <3>3
    <3> QED BY <3>2, <3>3
  <2>2. Resting(T)
    BY <1>2, <1>3 DEF Sound, Resting
  <2>3. Blank(T)
    BY <1>2, <1>3 DEF Sound, Blank
  <2> QED BY <2>1, <2>2, <2>3 DEF Sound, Seen
<1>4. ASSUME Down(S), r.status # "suspended", r.serverPid \notin Alive(T) PROVE Down(T)
  BY <1>2, <1>4 DEF Down
<1> QED BY <1>2, <1>3, <1>4

(* The list stays, children end. *)
LEMMA Fewer ==
  ASSUME NEW S \in State, NEW T \in State, T.displays = S.displays, T.dpy = S.dpy,
         Alive(T) \subseteq Alive(S)
  PROVE  (Sound(S) => Sound(T)) /\ (Down(S) => Down(T))
<1>1. Sound(S) => Seen(T)
  BY DEF Sound, Seen
<1>2. Sound(S) => Resting(T) /\ Blank(T)
  BY DEF Sound, Resting, Blank
<1>3. Down(S) => Down(T)
  BY DEF Down
<1> QED BY <1>1, <1>2, <1>3 DEF Sound

LEMMA SetSound ==
  ASSUME NEW S \in State, NEW d \in S.displays, NEW r \in DisplayRecord,
         {S.dpy[d].pid, S.dpy[d].serverPid} \cap Alive(S) \subseteq {r.pid, r.serverPid},
         r.status # "running" => r.pid \notin Alive(S)
  PROVE  LET T == Set(S, d, r)
         IN /\ T \in State /\ T.displays = S.displays /\ Alive(T) = Alive(S)
            /\ T.dpy[d] = r
            /\ Sound(S) => Sound(T)
            /\ Down(S) /\ r.status # "suspended" /\ r.serverPid \notin Alive(S) => Down(T)
<1> DEFINE T == Set(S, d, r)
<1>1. d \in Displays
  BY Records
<1>2. /\ T \in State /\ T.displays = S.displays /\ T.procs = S.procs
      /\ T.dpy = [S.dpy EXCEPT ![d] = r]
  BY <1>1, SetType
<1> HIDE DEF T
<1>3. Alive(T) = Alive(S)
  BY <1>2 DEF Alive
<1>4. /\ T.dpy[d] = r
      /\ Sound(S) => Sound(T)
      /\ Down(S) /\ r.status # "suspended" /\ r.serverPid \notin Alive(T) => Down(T)
  BY <1>2, <1>3, Changed
<1> QED BY <1>2, <1>3, <1>4 DEF T

(* A display without a session may have any status. *)
LEMMA StatusSound ==
  ASSUME NEW S \in State, NEW d \in S.displays, NEW s \in Statuses,
         S.dpy[d].pid \notin Alive(S)
  PROVE  LET T == Status(S, d, s)
         IN /\ T \in State /\ T.displays = S.displays /\ Alive(T) = Alive(S)
            /\ T.dpy[d] = [S.dpy[d] EXCEPT !.status = s]
            /\ Sound(S) => Sound(T)
            /\ Down(S) /\ s # "suspended" => Down(T)
<1> DEFINE r == [S.dpy[d] EXCEPT !.status = s]
<1>0. S.dpy[d] \in DisplayRecord /\ d \in Displays
  BY Records
<1>1. /\ r \in DisplayRecord /\ r.serverPid = S.dpy[d].serverPid
      /\ r.pid = S.dpy[d].pid /\ r.status = s
  BY <1>0 DEF DisplayRecord
<1> HIDE DEF r
<1>2. Down(S) => r.serverPid \notin Alive(S)
  BY <1>0, <1>1 DEF Down
<1>3. LET T == Set(S, d, r)
      IN /\ T \in State /\ T.displays = S.displays /\ Alive(T) = Alive(S)
         /\ T.dpy[d] = r
         /\ Sound(S) => Sound(T)
         /\ Down(S) /\ r.status # "suspended" /\ r.serverPid \notin Alive(S) => Down(T)
  BY <1>1, SetSound
<1> QED BY <1>1, <1>2, <1>3 DEF Status, r

LEMMA TimerSound ==
  ASSUME NEW S \in State, NEW t \in {-1, 0, 1}
  PROVE  LET T == Timer(S, t)
         IN /\ T \in State /\ T.displays = S.displays /\ T.dpy = S.dpy
            /\ Alive(T) = Alive(S)
            /\ Sound(S) => Sound(T)
            /\ Down(S) => Down(T)
<1> DEFINE T == Timer(S, t)
<1>1. T \in State /\ T.displays = S.displays /\ T.dpy = S.dpy /\ T.procs = S.procs
  BY TimerSafe
<1> HIDE DEF T
<1>2. Alive(T) = Alive(S)
  BY <1>1 DEF Alive
<1>3. (Sound(S) => Sound(T)) /\ (Down(S) => Down(T))
  BY <1>1, <1>2, Fewer
<1> QED BY <1>1, <1>2, <1>3 DEF T

LEMMA TerminateSound ==
  ASSUME NEW S \in State, NEW P
  PROVE  LET T == TerminateProcess(S, P)
         IN /\ T \in State /\ T.displays = S.displays /\ T.dpy = S.dpy
            /\ Alive(T) = Alive(S) \ P
            /\ Sound(S) => Sound(T)
            /\ Down(S) => Down(T)
<1> DEFINE T == TerminateProcess(S, P)
<1>1. T \in State /\ T.displays = S.displays /\ T.dpy = S.dpy
  BY TerminateSafe
<1>2. Alive(T) = Alive(S) \ P
  BY Records DEF TerminateProcess, Alive, Process, State
<1> HIDE DEF T
<1>3. (Sound(S) => Sound(T)) /\ (Down(S) => Down(T))
  BY <1>1, <1>2, Fewer
<1> QED BY <1>1, <1>2, <1>3 DEF T

LEMMA ReapedSound ==
  ASSUME NEW S \in State, NEW p \in Pids
  PROVE  LET T == Reaped(S, p)
         IN /\ T \in State /\ T.displays = S.displays /\ T.dpy = S.dpy
            /\ Alive(T) = Alive(S) \ {p}
            /\ Sound(S) => Sound(T)
            /\ Down(S) => Down(T)
<1> DEFINE T == Reaped(S, p)
<1>1. T \in State /\ T.displays = S.displays /\ T.dpy = S.dpy
  BY ReapedSafe
<1>2. T.procs = [S.procs EXCEPT ![p] = NoProc]
  BY DEF Reaped, State
<1> HIDE DEF T
<1>3. Alive(T) = Alive(S) \ {p}
  BY <1>2, Records DEF Alive, NoProc
<1>4. (Sound(S) => Sound(T)) /\ (Down(S) => Down(T))
  BY <1>1, <1>3, Fewer
<1> QED BY <1>1, <1>3, <1>4 DEF T

(* Displays without children may go. *)
LEMMA RemoveSound ==
  ASSUME NEW S \in State, NEW D \in SUBSET Displays,
         \A d \in D : {S.dpy[d].pid, S.dpy[d].serverPid} \cap Alive(S) = {}
  PROVE  LET T == RemoveDisplay(S, D)
         IN /\ T \in State /\ T.displays = S.displays \ D /\ Alive(T) = Alive(S)
            /\ \A d \in Displays : T.dpy[d] = IF d \in D THEN Fresh ELSE S.dpy[d]
            /\ Sound(S) => Sound(T)
            /\ Down(S) => Down(T)
<1> DEFINE T == RemoveDisplay(S, D)
<1>1. T \in State /\ T.displays = S.displays \ D /\ T.procs = S.procs
  BY RemoveSafe
<1>2. \A d \in Displays : T.dpy[d] = IF d \in D THEN Fresh ELSE S.dpy[d]
  BY DEF RemoveDisplay, State
<1> HIDE DEF T
<1>3. Alive(T) = Alive(S) /\ NoPid \notin Alive(S) /\ S.displays \subseteq Displays
  BY <1>1, Records DEF Alive
<1>4. Fresh.pid = NoPid /\ Fresh.serverPid = NoPid /\ Fresh.status = "notRunning"
  BY DEF Fresh
<1>5. ASSUME Sound(S) PROVE Sound(T)
  <2>1. ASSUME NEW p \in Alive(T)
        PROVE  \E e \in T.displays : p \in {T.dpy[e].pid, T.dpy[e].serverPid}
    <3>1. PICK e \in S.displays : p \in {S.dpy[e].pid, S.dpy[e].serverPid}
      BY <1>3, <1>5, <2>1 DEF Sound, Seen
    <3>2. e \notin D
      BY <1>3, <2>1, <3>1
    <3> QED BY <1>1, <1>2, <1>3, <3>1, <3>2
  <2>2. Resting(T)
    BY <1>2, <1>3, <1>4, <1>5 DEF Sound, Resting
  <2>3. Blank(T)
    BY <1>1, <1>2, <1>4, <1>5 DEF Sound, Blank
  <2> QED BY <2>1, <2>2, <2>3 DEF Sound, Seen
<1>6. Down(S) => Down(T)
  BY <1>2, <1>3, <1>4 DEF Down
<1> QED BY <1>1, <1>2, <1>3, <1>5, <1>6 DEF T

(* A new child is known to nobody yet. *)
LEMMA ForkedSound ==
  ASSUME NEW S \in State, CanFork(S), NEW d \in S.displays,
         NEW k \in {"server", "session", "getty"}
  PROVE  LET n == NextPid(S)
             F == Forked(S, n, k, d)
         IN /\ n \in Pids /\ n \notin Alive(S)
            /\ \A e \in S.displays : n # S.dpy[e].pid /\ n # S.dpy[e].serverPid
            /\ F \in State /\ F.displays = S.displays /\ F.dpy = S.dpy
            /\ Alive(F) = Alive(S) \cup {n}
<1> DEFINE n == NextPid(S)
           F == Forked(S, n, k, d)
<1>1. n \in Free(S)
  BY DEF CanFork, NextPid
<1>2. d \in Displays
  BY Records
<1>3. F \in State /\ F.displays = S.displays /\ F.dpy = S.dpy /\ n \in Pids
  BY <1>2, ForkedSafe
<1>4. n \notin Alive(S)
  BY <1>1 DEF Free, Alive, NoProc
<1>5. \A e \in S.displays : n # S.dpy[e].pid /\ n # S.dpy[e].serverPid
  BY <1>1 DEF Free, Named
<1>6. F.procs = [S.procs EXCEPT ![n] =
                   [kind |-> k, of |-> d, life |-> "alive", code |-> "none"]]
  BY DEF Forked, State
<1> HIDE DEF F, n
<1>7. Alive(F) = Alive(S) \cup {n}
  BY <1>3, <1>6, Records DEF Alive
<1> QED BY <1>3, <1>4, <1>5, <1>7 DEF F, n

(* The child that a display is given joins those it has. *)
LEMMA GivenSound ==
  ASSUME NEW S \in State, CanFork(S), NEW d \in S.displays,
         NEW k \in {"server", "session", "getty"}, NEW r \in DisplayRecord,
         NextPid(S) \in {r.pid, r.serverPid},
         {S.dpy[d].pid, S.dpy[d].serverPid} \cap Alive(S) \subseteq {r.pid, r.serverPid},
         r.status # "running" => r.pid \notin Alive(S) \cup {NextPid(S)},
         Sound(S)
  PROVE  LET T == Set(Forked(S, NextPid(S), k, d), d, r)
         IN /\ T \in State /\ T.displays = S.displays
            /\ Alive(T) = Alive(S) \cup {NextPid(S)} /\ T.dpy[d] = r /\ Sound(T)
            /\ Down(S) /\ r.status # "suspended"
                 /\ r.serverPid \notin Alive(S) \cup {NextPid(S)} => Down(T)
<1> DEFINE n == NextPid(S)
           F == Forked(S, n, k, d)
           T == Set(F, d, r)
<1>1. /\ n \in Pids /\ n \notin Alive(S)
      /\ \A e \in S.displays : n # S.dpy[e].pid /\ n # S.dpy[e].serverPid
      /\ F \in State /\ F.displays = S.displays /\ F.dpy = S.dpy
      /\ Alive(F) = Alive(S) \cup {n}
  BY ForkedSound
<1> HIDE DEF n, F
<1>2. /\ d \in Displays /\ S.displays \subseteq Displays
      /\ S.dpy \in [Displays -> DisplayRecord] /\ NoPid \notin Pids
  BY Records, Constants
<1>3. /\ T \in State /\ T.displays = S.displays /\ T.procs = F.procs
      /\ T.dpy = [S.dpy EXCEPT ![d] = r]
  BY <1>1, <1>2, SetType
<1> HIDE DEF T
<1>4. Alive(T) = Alive(S) \cup {n}
  BY <1>1, <1>3 DEF Alive
<1>5. T.dpy[d] = r /\ \A e \in Displays \ {d} : T.dpy[e] = S.dpy[e]
  BY <1>2, <1>3
<1>6. n \in {r.pid, r.serverPid} /\ (r.status # "running" => r.pid \notin Alive(T))
  BY <1>4 DEF n
<1>7. ASSUME NEW p \in Alive(T)
      PROVE  \E e \in T.displays : p \in {T.dpy[e].pid, T.dpy[e].serverPid}
  <2>1. CASE p = n
    BY <1>3, <1>5, <1>6, <2>1
  <2>2. CASE p # n
    <3>1. p \in Alive(S)
      BY <1>4, <1>7, <2>2
    <3>2. PICK e \in S.displays : p \in {S.dpy[e].pid, S.dpy[e].serverPid}
      BY <3>1 DEF Sound, Seen
    <3>3. CASE e = d
      BY <1>3, <1>5, <3>1, <3>2, <3>3
    <3>4. CASE e # d
      BY <1>2, <1>3, <1>5, <3>2, <3>4
    <3> QED BY <3>3, <3>4
  <2> QED BY <2>1, <2>2
<1>8. \A e \in Displays : n # S.dpy[e].pid /\ n # S.dpy[e].serverPid
  BY <1>1, <1>2 DEF Sound, Blank
<1>9. Resting(T)
  BY <1>4, <1>5, <1>6, <1>8 DEF Sound, Resting
<1>10. Blank(T)
  BY <1>3, <1>5 DEF Sound, Blank
<1>11. ASSUME Down(S), r.status # "suspended", r.serverPid \notin Alive(S) \cup {n}
       PROVE  Down(T)
  BY <1>4, <1>5, <1>8, <1>11 DEF Down
<1> QED BY <1>3, <1>4, <1>5, <1>7, <1>9, <1>10, <1>11 DEF Sound, Seen, T, F, n
-----------------------------------------------------------------------------
(* What becomes of the children of a display that is stopped, restarted,   *)
(* or told of a death.                                                     *)

(* What StopDisplay stops has been told to end. *)
LEMMA StopSound ==
  ASSUME NEW S \in State, NEW D \in SUBSET S.displays, NEW down \in BOOLEAN, Sound(S)
  PROVE  LET T == StopDisplay(S, D, down)
         IN /\ T \in State /\ T.displays \subseteq S.displays
            /\ S.displays \ D \subseteq T.displays
            /\ \A d \in D \cap T.displays : S.dpy[d].status # "running" => T.dpy[d].status # "running"
            /\ Sound(T)
            /\ down /\ (Down(S) \/ D = S.displays) => Down(T)
<1> DEFINE served == Served(S, D)
           removed == {d \in D \ served : d \notin Local \/ down}
           K == TerminateProcess(S, ProcessesOf(S, D))
           R == RemoveDisplay(K, removed)
           f == [d \in Displays |-> IF d \in served
                                    THEN [R.dpy[d] EXCEPT !.status = StoppedStatus(d, down)]
                                    ELSE R.dpy[d]]
           T == [R EXCEPT !.dpy = f]
<1>0. /\ S.displays \subseteq Displays /\ NoPid \notin Alive(S)
      /\ S.dpy \in [Displays -> DisplayRecord]
  BY Records
<1>1. /\ K \in State /\ K.displays = S.displays /\ K.dpy = S.dpy
      /\ Alive(K) = Alive(S) \ ProcessesOf(S, D)
      /\ Sound(K) /\ (Down(S) => Down(K))
  BY TerminateSound
<1>2. /\ removed \in SUBSET Displays /\ removed \subseteq D /\ served \subseteq D
      /\ removed \cap served = {} /\ (down => D = removed \cup served)
  BY <1>0 DEF Served
<1>3. \A d \in D : {S.dpy[d].pid, S.dpy[d].serverPid} \cap Alive(K) = {}
  BY <1>1 DEF ProcessesOf
<1> HIDE DEF served, removed, K
<1>4. /\ R \in State /\ R.displays = S.displays \ removed /\ Alive(R) = Alive(K)
      /\ \A d \in Displays : R.dpy[d] = IF d \in removed THEN Fresh ELSE S.dpy[d]
      /\ Sound(R) /\ (Down(K) => Down(R))
  BY <1>1, <1>2, <1>3, RemoveSound
<1> HIDE DEF R
<1>5. \A d \in Displays : /\ StoppedStatus(d, down) \in Statuses \ {"running"}
                          /\ down => StoppedStatus(d, down) = "zombie"
  BY DEF StoppedStatus, Statuses
<1>6. R.dpy \in [Displays -> DisplayRecord]
  BY <1>4, Records
<1>7. /\ f \in [Displays -> DisplayRecord]
      /\ \A d \in Displays : /\ f[d].pid = R.dpy[d].pid
                             /\ f[d].serverPid = R.dpy[d].serverPid
                             /\ f[d].status = IF d \in served THEN StoppedStatus(d, down)
                                                              ELSE R.dpy[d].status
  BY <1>5, <1>6 DEF DisplayRecord
<1> HIDE DEF f
<1>8. T \in State /\ T.displays = R.displays /\ T.procs = R.procs /\ T.dpy = f
  BY <1>4, <1>7 DEF State
<1> HIDE DEF T
<1>9. Alive(T) = Alive(K)
  BY <1>4, <1>8 DEF Alive
<1>10. \A d \in Displays : /\ T.dpy[d].pid = R.dpy[d].pid
                           /\ T.dpy[d].serverPid = R.dpy[d].serverPid
                           /\ T.dpy[d].status = IF d \in served THEN StoppedStatus(d, down)
                                                                ELSE R.dpy[d].status
  BY <1>7, <1>8
<1>11. Seen(T)
  <2>1. R.displays \subseteq Displays
    BY <1>4, Records
  <2> QED BY <1>4, <1>8, <1>9, <1>10, <2>1 DEF Sound, Seen
<1>12. Resting(T)
  <2>1. ASSUME NEW d \in served PROVE T.dpy[d].pid \notin Alive(T)
    BY <1>0, <1>2, <1>3, <1>4, <1>9, <1>10, <2>1
  <2> QED BY <1>4, <1>9, <1>10, <2>1 DEF Sound, Resting
<1>13. Blank(T)
  <2>1. \A d \in Displays \ T.displays : d \notin served
    BY <1>2, <1>4, <1>8
  <2> QED BY <1>4, <1>8, <1>10, <2>1 DEF Sound, Blank
<1>14. ASSUME NEW d \in D \cap T.displays, S.dpy[d].status # "running"
       PROVE  T.dpy[d].status # "running"
  BY <1>0, <1>4, <1>5, <1>8, <1>10, <1>14
<1>15. ASSUME down, Down(S) PROVE Down(T)
  BY <1>1, <1>4, <1>5, <1>9, <1>10, <1>15 DEF Down
<1>16. ASSUME down, D = S.displays PROVE Down(T)
  <2>1. ASSUME NEW d \in Displays
        PROVE  T.dpy[d].status # "suspended" /\ T.dpy[d].serverPid \notin Alive(T)
    <3>1. CASE d \in served
      BY <1>2, <1>3, <1>4, <1>5, <1>9, <1>10, <1>16, <3>1
    <3>2. CASE d \in removed
      BY <1>1, <1>0, <1>2, <1>4, <1>9, <1>10, <3>2 DEF Fresh
    <3>3. CASE d \notin served \cup removed
      <4>1. d \in Displays \ S.displays
        BY <1>2, <1>16, <3>3
      <4>2. S.dpy[d].serverPid = NoPid /\ S.dpy[d].status = "notRunning"
        BY <4>1 DEF Sound, Blank
      <4> QED BY <1>0, <1>1, <1>4, <1>9, <1>10, <3>3, <4>2
    <3> QED BY <3>1, <3>2, <3>3
  <2> QED BY <2>1 DEF Down
<1>17. T.displays \subseteq S.displays /\ S.displays \ D \subseteq T.displays
  BY <1>2, <1>4, <1>8
<1> QED
  BY <1>8, <1>11, <1>12, <1>13, <1>14, <1>15, <1>16, <1>17
  DEF Sound, StopDisplay, T, f, R, K, removed, served

LEMMA RestartSound ==
  ASSUME NEW S \in State, NEW d \in S.displays, NEW force,
         S.dpy[d].pid \notin Alive(S), Sound(S)
  PROVE  LET T == RestartDisplay(S, d, force)
         IN T \in State /\ Sound(T) /\ (Down(S) => Down(T))
<1> DEFINE K == TerminateProcess(S, {S.dpy[d].serverPid})
<1>1. /\ K \in State /\ K.displays = S.displays /\ K.dpy = S.dpy
      /\ Alive(K) = Alive(S) \ {S.dpy[d].serverPid}
      /\ Sound(K) /\ (Down(S) => Down(K))
  BY TerminateSound
<1>2. "phoenix" \in Statuses /\ "notRunning" \in Statuses
  BY DEF Statuses
<1> HIDE DEF K
<1>3. LET T == Status(K, d, "phoenix")
      IN T \in State /\ Sound(T) /\ (Down(S) => Down(T))
  BY <1>1, <1>2, StatusSound
<1>4. LET T == Status(S, d, "notRunning")
      IN T \in State /\ Sound(T) /\ (Down(S) => Down(T))
  BY <1>2, StatusSound
<1> QED BY <1>3, <1>4 DEF RestartDisplay, K

(* The file names displays that are listed, or have nothing. *)
LEMMA RescannedSound ==
  ASSUME NEW S \in State, file \in Files, Sound(S)
  PROVE  LET T == Rescanned(S)
         IN /\ T \in State /\ Alive(T) = Alive(S) /\ Sound(T)
            /\ Down(S) => Down(T)
<1> DEFINE T == Rescanned(S)
<1>1. /\ S.dpy \in [Displays -> DisplayRecord] /\ S.displays \subseteq Displays
      /\ file \subseteq Displays
  BY Records, Constants
<1>2. T \in State /\ S.displays \subseteq T.displays /\ T.procs = S.procs
  BY RescannedSafe
<1>3. \A d \in Displays : /\ T.dpy[d].pid = S.dpy[d].pid
                          /\ T.dpy[d].serverPid = S.dpy[d].serverPid
                          /\ T.dpy[d].status = S.dpy[d].status
  BY <1>1 DEF Rescanned, State, DisplayRecord
<1> HIDE DEF T
<1>4. Alive(T) = Alive(S)
  BY <1>2 DEF Alive
<1>5. Seen(T)
  BY <1>1, <1>2, <1>3, <1>4 DEF Sound, Seen
<1>6. Resting(T) /\ Blank(T)
  BY <1>2, <1>3, <1>4 DEF Sound, Resting, Blank
<1>7. Down(S) => Down(T)
  BY <1>3, <1>4 DEF Down
<1> QED BY <1>2, <1>4, <1>5, <1>6, <1>7 DEF Sound, T

(* A display whose server is dead has none. *)
LEMMA ServerPidSound ==
  ASSUME NEW S \in State, NEW d \in S.displays, S.dpy[d].serverPid \notin Alive(S), Sound(S)
  PROVE  LET T == ServerPid(S, d, NoPid)
         IN /\ T \in State /\ T.displays = S.displays /\ Alive(T) = Alive(S)
            /\ T.dpy[d] = [S.dpy[d] EXCEPT !.serverPid = NoPid]
            /\ Sound(T) /\ (Down(S) => Down(T))
<1> DEFINE r == [S.dpy[d] EXCEPT !.serverPid = NoPid]
<1>1. S.dpy[d] \in DisplayRecord /\ d \in Displays /\ NoPid \notin Alive(S)
  BY Records
<1>2. /\ r \in DisplayRecord /\ r.pid = S.dpy[d].pid /\ r.serverPid = NoPid
      /\ r.status = S.dpy[d].status
  BY <1>1, Constants DEF DisplayRecord
<1>3. r.status # "running" => r.pid \notin Alive(S)
  BY <1>1, <1>2 DEF Sound, Resting
<1>4. Down(S) => r.status # "suspended"
  BY <1>1, <1>2 DEF Down
<1> HIDE DEF r
<1>5. LET T == Set(S, d, r)
      IN /\ T \in State /\ T.displays = S.displays /\ Alive(T) = Alive(S)
         /\ T.dpy[d] = r
         /\ Sound(S) => Sound(T)
         /\ Down(S) /\ r.status # "suspended" /\ r.serverPid \notin Alive(S) => Down(T)
  BY <1>2, <1>3, SetSound
<1> QED BY <1>1, <1>2, <1>4, <1>5 DEF ServerPid, r

(* A getty is started for a display without children. *)
LEMMA StartGettySound ==
  ASSUME NEW S0 \in State, NEW d \in S0.displays, NEW prompting \in BOOLEAN,
         NEW T \in StartGetty(S0, d, prompting),
         {S0.dpy[d].pid, S0.dpy[d].serverPid} \cap Alive(S0) = {}, Sound(S0)
  PROVE  T \in State /\ Sound(T)
<1> DEFINE S == ServerPid(S0, d, NoPid)
           r == [S.dpy[d] EXCEPT !.status = "phoenix", !.startTries = 0]
           P == Set(S, d, r)
           n == NextPid(P)
           F == Forked(P, n, "getty", d)
           g == [F.dpy[d] EXCEPT !.serverPid = n]
           G == Set(F, d, g)
<1>0. S0.dpy[d] \in DisplayRecord /\ d \in Displays /\ NoPid \notin Alive(S0)
  BY Records
<1>1. /\ S \in State /\ S.displays = S0.displays /\ Alive(S) = Alive(S0)
      /\ S.dpy[d] = [S0.dpy[d] EXCEPT !.serverPid = NoPid] /\ Sound(S)
  BY ServerPidSound
<1>2. \/ T = Status(S, d, "notRunning")
      \/ T = Suspend(S, d)
      \/ CanFork(P) /\ T = G
      \/ T = Status(P, d, "notRunning")
  BY DEF StartGetty, ServerForked, ServerPid
<1>3. S.dpy[d].pid \notin Alive(S) /\ S.dpy[d].serverPid = NoPid /\ S.dpy[d] \in DisplayRecord
  BY <1>0, <1>1, Constants DEF DisplayRecord
<1> HIDE DEF S
<1>4. /\ r \in DisplayRecord /\ r.serverPid = NoPid /\ r.pid = S.dpy[d].pid
      /\ r.status = "phoenix"
  BY <1>3 DEF DisplayRecord, Statuses
<1> HIDE DEF r
<1>5. P \in State /\ P.displays = S.displays /\ Alive(P) = Alive(S) /\ P.dpy[d] = r /\ Sound(P)
  <2>1. /\ {S.dpy[d].pid, S.dpy[d].serverPid} \cap Alive(S) \subseteq {r.pid, r.serverPid}
        /\ r.status # "running" => r.pid \notin Alive(S)
    BY <1>0, <1>1, <1>3, <1>4
  <2>2. d \in S.displays /\ S \in State /\ Sound(S) /\ r \in DisplayRecord
    BY <1>1, <1>4
  <2> QED BY <2>1, <2>2, SetSound
<1> HIDE DEF P
<1>6. "notRunning" \in Statuses /\ "suspended" \in Statuses
  BY DEF Statuses
<1>7. CASE T = Status(S, d, "notRunning")
  BY <1>1, <1>3, <1>6, <1>7, StatusSound
<1>8. CASE T = Suspend(S, d)
  <2>1. Status(S, d, "suspended") \in State /\ Sound(Status(S, d, "suspended"))
    BY <1>1, <1>3, <1>6, StatusSound
  <2> QED BY <1>8, <2>1, TimerSound DEF Suspend
<1>9. CASE CanFork(P) /\ T = G
  <2>1. /\ n \in Pids /\ n # P.dpy[d].pid /\ F.dpy = P.dpy
    BY <1>1, <1>5, <1>9, ForkedSound
  <2>2. /\ g \in DisplayRecord /\ g.pid = r.pid /\ g.serverPid = n /\ g.status = "phoenix"
    <3> HIDE DEF n, F
    <3> QED BY <1>4, <1>5, <2>1 DEF DisplayRecord, PidOrNone
  <2> HIDE DEF g
  <2>3. G \in State /\ Sound(G)
    <3>1. {P.dpy[d].pid, P.dpy[d].serverPid} \cap Alive(P) = {}
      BY <1>0, <1>1, <1>3, <1>4, <1>5
    <3>2. g.status # "running" => g.pid \notin Alive(P) \cup {n}
      BY <1>3, <1>4, <1>5, <2>1, <2>2
    <3> QED BY <1>1, <1>5, <1>9, <2>2, <3>1, <3>2, GivenSound
  <2> QED BY <1>9, <2>3
<1>10. CASE T = Status(P, d, "notRunning")
  BY <1>1, <1>3, <1>4, <1>5, <1>6, <1>10, StatusSound
<1> QED BY <1>2, <1>7, <1>8, <1>9, <1>10

(* The session of d has been reaped. *)
LEMMA SessionDiedSound ==
  ASSUME NEW S0 \in State, NEW d \in S0.displays, NEW c, NEW down \in BOOLEAN,
         S0.dpy[d].pid \notin Alive(S0), Sound(S0)
  PROVE  LET T == SessionDied(S0, d, c, down)
         IN T \in State /\ Sound(T) /\ (down /\ Down(S0) => Down(T))
<1> DEFINE r == [S0.dpy[d] EXCEPT !.pid = NoPid,
                    !.startTries = TriesAfter(S0.dpy[d], d, c),
                    !.unexpected = @ /\ c # "obeysess"]
           S == Set(S0, d, r)
           force == c \in {"reserver", "openfailed", "term"}
<1>1. S0.dpy[d] \in DisplayRecord /\ d \in Displays /\ NoPid \notin Alive(S0)
  BY Records
<1>2. TriesAfter(S0.dpy[d], d, c) \in Nat
  BY <1>1 DEF TriesAfter, DisplayRecord
<1>3. /\ r \in DisplayRecord /\ r.serverPid = S0.dpy[d].serverPid /\ r.pid = NoPid
      /\ r.status = S0.dpy[d].status
  BY <1>1, <1>2, Constants DEF DisplayRecord
<1>4. \/ SessionDied(S0, d, c, down) = StopDisplay(S, {d}, down)
      \/ SessionDied(S0, d, c, down) = RestartDisplay(S, d, force)
  BY DEF SessionDied
<1> HIDE DEF r
<1>5. Down(S0) => r.status # "suspended" /\ r.serverPid \notin Alive(S0)
  BY <1>1, <1>3 DEF Down
<1>6. /\ S \in State /\ S.displays = S0.displays /\ Alive(S) = Alive(S0)
      /\ S.dpy[d] = r /\ Sound(S) /\ (Down(S0) => Down(S))
  BY <1>1, <1>3, <1>5, SetSound
<1> HIDE DEF S
<1>7. LET T == StopDisplay(S, {d}, down)
      IN T \in State /\ Sound(T) /\ (down /\ Down(S) => Down(T))
  BY <1>6, StopSound
<1>8. LET T == RestartDisplay(S, d, force)
      IN T \in State /\ Sound(T) /\ (Down(S) => Down(T))
  BY <1>1, <1>3, <1>6, RestartSound
<1> QED BY <1>4, <1>6, <1>7, <1>8

(* The server of d has been reaped. *)
LEMMA ServerDiedSound ==
  ASSUME NEW S0 \in State, NEW d \in S0.displays, NEW T \in ServerDied(S0, d),
         S0.dpy[d].serverPid \notin Alive(S0), Sound(S0)
  PROVE  T \in State /\ Sound(T) /\ (Down(S0) => Down(T))
<1> DEFINE S == ServerPid(S0, d, NoPid)
           r == [S.dpy[d] EXCEPT !.unexpected = TRUE]
           U == Set(S, d, r)
           s == S0.dpy[d].status
<1>0. S0.dpy[d] \in DisplayRecord /\ d \in Displays /\ NoPid \notin Alive(S0)
  BY Records
<1>1. s \in Statuses /\ (s # "running" => S0.dpy[d].pid \notin Alive(S0))
  BY <1>0 DEF DisplayRecord, Sound, Resting
<1>2. /\ S \in State /\ S.displays = S0.displays /\ Alive(S) = Alive(S0)
      /\ S.dpy[d] = [S0.dpy[d] EXCEPT !.serverPid = NoPid]
      /\ Sound(S) /\ (Down(S0) => Down(S))
  BY ServerPidSound
<1>3. \/ s = "zombie" /\ T = RemoveDisplay(S, {d})
      \/ s = "phoenix" /\ T = Status(S, d, "notRunning")
      \/ s = "running" /\ T = TerminateProcess(U, {S0.dpy[d].pid})
      \/ T = S
      \/ s = "suspended" /\ \E g \in BOOLEAN : T \in StartGetty(S, d, g)
  BY <1>1 DEF ServerDied, Statuses
<1>4. /\ S.dpy[d].serverPid = NoPid /\ S.dpy[d].pid = S0.dpy[d].pid
      /\ S.dpy[d].status = s /\ S.dpy[d] \in DisplayRecord
  BY <1>0, <1>2, Constants DEF DisplayRecord
<1> HIDE DEF S, s
<1>5. CASE s = "zombie" /\ T = RemoveDisplay(S, {d})
  <2>1. {S.dpy[d].pid, S.dpy[d].serverPid} \cap Alive(S) = {}
    BY <1>0, <1>1, <1>2, <1>4, <1>5
  <2>2. {d} \in SUBSET Displays /\ \A e \in {d} : {S.dpy[e].pid, S.dpy[e].serverPid} \cap Alive(S) = {}
    BY <1>0, <2>1
  <2>3. LET R == RemoveDisplay(S, {d})
        IN R \in State /\ (Sound(S) => Sound(R)) /\ (Down(S) => Down(R))
    BY <1>2, <2>2, RemoveSound
  <2> QED BY <1>2, <1>5, <2>3
<1>6. CASE s = "phoenix" /\ T = Status(S, d, "notRunning")
  <2>1. "notRunning" \in Statuses
    BY DEF Statuses
  <2> QED BY <1>1, <1>2, <1>4, <1>6, <2>1, StatusSound
<1>7. CASE s = "running" /\ T = TerminateProcess(U, {S0.dpy[d].pid})
  <2>1. /\ r \in DisplayRecord /\ r.serverPid = NoPid /\ r.pid = S.dpy[d].pid
        /\ r.status = "running"
    BY <1>4, <1>7 DEF DisplayRecord
  <2> HIDE DEF r
  <2>2. U \in State /\ Sound(U) /\ (Down(S) => Down(U))
    BY <1>0, <1>2, <1>4, <2>1, SetSound
  <2> QED BY <1>2, <1>7, <2>2, TerminateSound
<1>8. CASE T = S
  BY <1>2, <1>8
<1>9. ASSUME s = "suspended", NEW g \in BOOLEAN, T \in StartGetty(S, d, g)
      PROVE  T \in State /\ Sound(T) /\ ~Down(S0)
  <2>1. T \in State /\ Sound(T)
    <3>1. {S.dpy[d].pid, S.dpy[d].serverPid} \cap Alive(S) = {}
      BY <1>0, <1>1, <1>2, <1>4, <1>9
    <3>2. S \in State /\ d \in S.displays /\ Sound(S)
      BY <1>2
    <3> QED BY <1>9, <3>1, <3>2, StartGettySound
  <2> QED BY <1>0, <1>9, <2>1 DEF Down, s
<1> QED BY <1>3, <1>5, <1>6, <1>7, <1>8, <1>9

LEMMA DeathOfSound ==
  ASSUME NEW S \in State, NEW p \in Pids, NEW c, shutdown \in BOOLEAN,
         p \notin Alive(S), NEW T \in DeathOf(S, p, c), Sound(S)
  PROVE  T \in State /\ Sound(T) /\ (shutdown /\ Down(S) => Down(T))
<1>1. \/ \E d \in S.displays : S.dpy[d].pid = p /\ T = SessionDied(S, d, c, shutdown)
      \/ \E d \in S.displays : S.dpy[d].serverPid = p /\ T \in ServerDied(S, d)
      \/ T = S
  BY DEF DeathOf
<1>2. ASSUME NEW d \in S.displays, S.dpy[d].pid = p, T = SessionDied(S, d, c, shutdown)
      PROVE  T \in State /\ Sound(T) /\ (shutdown /\ Down(S) => Down(T))
  BY <1>2, SessionDiedSound
<1>3. ASSUME NEW d \in S.displays, S.dpy[d].serverPid = p, T \in ServerDied(S, d)
      PROVE  T \in State /\ Sound(T) /\ (shutdown /\ Down(S) => Down(T))
  BY <1>3, ServerDiedSound
<1> QED BY <1>1, <1>2, <1>3

LEMMA ChildDeathSound ==
  ASSUME TypeOK, NEW p \in Pids, ProcessChildDeath(p), Sound(dm)
  PROVE  Sound(dm') /\ (shutdown /\ Down(dm) => Down(dm'))
<1> DEFINE R == IF modified THEN Rescanned(dm) ELSE dm
           S == Reaped(R, p)
<1>1. dm \in State /\ file \in Files /\ shutdown \in BOOLEAN
  BY DEF TypeOK
<1>2. R \in State /\ Sound(R) /\ (Down(dm) => Down(R))
  BY <1>1, RescannedSound
<1>3. dm' \in DeathOf(S, p, dm.procs[p].code)
  BY DEF ProcessChildDeath
<1> HIDE DEF R
<1>4. S \in State /\ p \notin Alive(S) /\ Sound(S) /\ (Down(R) => Down(S))
  BY <1>2, ReapedSound
<1> HIDE DEF S
<1>5. dm' \in State /\ Sound(dm') /\ (shutdown /\ Down(S) => Down(dm'))
  BY <1>1, <1>3, <1>4, DeathOfSound
<1> QED BY <1>2, <1>4, <1>5
-----------------------------------------------------------------------------
(* The invariant, and what a visit of a pass does to it. *)

(* Where a pass stands: what it goes on with is listed; so is the display  *)
(* whose server is being started, which has no session; before a retry it  *)
(* has no server either.                                                   *)
Standing ==
  /\ OnPass => pass.next \in dm.displays \cup {None}
  /\ pc \in {"pause", "retry"} =>
       /\ pass.cur \in dm.displays /\ dm.dpy[pass.cur].status # "running"
       /\ pass.attempt >= 1
  /\ pc = "retry" => dm.dpy[pass.cur].serverPid \notin Alive(dm)

Tended == Sound(dm) /\ (shutdown => ~sockets /\ Down(dm)) /\ Standing

InSight == heap = "intact" /\ (sockets \/ ServerAttempts = 1) => Tended

LEMMA PollSound ==
  ASSUME NEW S0 \in State, NEW d \in S0.displays, NEW S \in PollSuspended(S0, d),
         Sound(S0)
  PROVE  /\ S \in State /\ S.displays = S0.displays /\ Alive(S) = Alive(S0)
         /\ Sound(S) /\ (Down(S0) => Down(S))
<1> DEFINE r == [S0.dpy[d] EXCEPT !.status = "notRunning", !.startTries = 0]
           T == Set(S0, d, r)
<1>1. S0.dpy[d] \in DisplayRecord /\ d \in Displays
  BY Records
<1>2. /\ r \in DisplayRecord /\ r.serverPid = S0.dpy[d].serverPid
      /\ r.pid = S0.dpy[d].pid /\ r.status = "notRunning"
  BY <1>1 DEF DisplayRecord, Statuses
<1>3. \/ S = S0 \/ S = Timer(S0, 1)
      \/ S0.dpy[d].status = "suspended" /\ S = Timer(T, -1)
  <2>1. S = S0 \/ S = Timer(S0, 1) \/ S = Timer(T, -1)
    BY DEF PollSuspended
  <2>2. S0.dpy[d].status # "suspended" => S = S0
    BY DEF PollSuspended
  <2> HIDE DEF T
  <2> QED BY <2>1, <2>2
<1> HIDE DEF r
<1>4. CASE S = S0
  BY <1>4
<1>5. CASE S = Timer(S0, 1)
  <2>1. LET U == Timer(S0, 1)
        IN /\ U \in State /\ U.displays = S0.displays /\ Alive(U) = Alive(S0)
           /\ Sound(U) /\ (Down(S0) => Down(U))
    BY TimerSound
  <2> HIDE DEF T
  <2> QED BY <1>5, <2>1
<1>6. CASE S0.dpy[d].status = "suspended" /\ S = Timer(T, -1)
  <2>1. r.pid \notin Alive(S0) /\ (Down(S0) => r.serverPid \notin Alive(S0))
    BY <1>1, <1>2, <1>6 DEF Sound, Resting, Down
  <2>2. {S0.dpy[d].pid, S0.dpy[d].serverPid} \cap Alive(S0) \subseteq {r.pid, r.serverPid}
    BY <1>2
  <2>3. /\ T \in State /\ T.displays = S0.displays /\ Alive(T) = Alive(S0)
        /\ Sound(T)
        /\ Down(S0) /\ r.status # "suspended" /\ r.serverPid \notin Alive(S0) => Down(T)
    BY <1>2, <2>1, <2>2, SetSound
  <2> HIDE DEF T
  <2> QED BY <1>2, <1>6, <2>1, <2>3, TimerSound
<1> QED BY <1>3, <1>4, <1>5, <1>6

(* The session that is forked for d. *)
LEMMA ForkSessionSound ==
  ASSUME NEW S \in State, NEW d \in S.displays, ForkSession(S, d),
         S.dpy[d].pid \notin Alive(S), Sound(S)
  PROVE  /\ dm' \in State /\ dm'.displays = S.displays
         /\ Sound(dm') /\ (Down(S) => Down(dm'))
<1> DEFINE n == NextPid(S)
           r == [S.dpy[d] EXCEPT !.pid = n, !.status = "running"]
           T == Set(Forked(S, n, "session", d), d, r)
<1>1. CASE dm' = S
  BY <1>1
<1>2. CASE CanFork(S) /\ dm' = T
  <2>0. S.dpy[d] \in DisplayRecord /\ d \in Displays
    BY Records
  <2>1. n \in Pids /\ n # S.dpy[d].serverPid
    BY <1>2, ForkedSound
  <2>2. /\ r \in DisplayRecord /\ r.pid = n /\ r.status = "running"
        /\ r.serverPid = S.dpy[d].serverPid
    <3> HIDE DEF n
    <3> QED BY <2>0, <2>1 DEF DisplayRecord, PidOrNone, Statuses
  <2> HIDE DEF r
  <2>3. /\ n \in {r.pid, r.serverPid}
        /\ {S.dpy[d].pid, S.dpy[d].serverPid} \cap Alive(S) \subseteq {r.pid, r.serverPid}
        /\ r.status # "running" => r.pid \notin Alive(S) \cup {n}
        /\ Down(S) => r.status # "suspended" /\ r.serverPid \notin Alive(S) \cup {n}
    BY <2>0, <2>1, <2>2 DEF Down
  <2>4. /\ T \in State /\ T.displays = S.displays /\ Sound(T)
        /\ Down(S) /\ r.status # "suspended"
             /\ r.serverPid \notin Alive(S) \cup {n} => Down(T)
    BY <1>2, <2>2, <2>3, GivenSound
  <2> QED BY <1>2, <2>3, <2>4
<1> QED BY <1>1, <1>2 DEF ForkSession

(* The server that is forked for d, which has none. *)
LEMMA ServerForkedSound ==
  ASSUME NEW S \in State, NEW d \in S.displays, CanFork(S),
         S.dpy[d].status # "running", S.dpy[d].serverPid \notin Alive(S), Sound(S)
  PROVE  LET T == ServerForked(S, d, "server")
         IN /\ T \in State /\ T.displays = S.displays /\ Sound(T)
            /\ T.dpy[d].status = S.dpy[d].status
<1> DEFINE n == NextPid(S)
           F == Forked(S, n, "server", d)
           r == [F.dpy[d] EXCEPT !.serverPid = n]
           T == Set(F, d, r)
<1>0. S.dpy[d] \in DisplayRecord /\ d \in Displays
  BY Records
<1>1. n \in Pids /\ n # S.dpy[d].pid /\ F.dpy = S.dpy
  BY ForkedSound
<1>2. S.dpy[d].pid \notin Alive(S)
  BY <1>0 DEF Sound, Resting
<1>3. /\ r \in DisplayRecord /\ r.serverPid = n /\ r.pid = S.dpy[d].pid
      /\ r.status = S.dpy[d].status
  <2> HIDE DEF n, F
  <2> QED BY <1>0, <1>1 DEF DisplayRecord, PidOrNone
<1> HIDE DEF r
<1>4. /\ n \in {r.pid, r.serverPid}
      /\ {S.dpy[d].pid, S.dpy[d].serverPid} \cap Alive(S) \subseteq {r.pid, r.serverPid}
      /\ r.status # "running" => r.pid \notin Alive(S) \cup {n}
  BY <1>1, <1>2, <1>3
<1>5. T \in State /\ T.displays = S.displays /\ T.dpy[d] = r /\ Sound(T)
  BY <1>3, <1>4, GivenSound
<1> QED BY <1>3, <1>5 DEF ServerForked, ServerPid, T, r, F, n

(* What a visit to d leaves behind. *)
Met(d) ==
  \E n \in {0, 1}, at \in {"start", "pause", "retry"} :
    /\ Turn(d, n, at)
    /\ dm' \in State /\ dm.displays \ {d} \subseteq dm'.displays
    /\ Sound(dm') /\ (shutdown => Down(dm'))
    /\ at # "start" => d \in dm'.displays /\ dm'.dpy[d].status # "running" /\ n = 1
    /\ at = "retry" => dm'.dpy[d].serverPid \notin Alive(dm')

LEMMA CheckPresentSound ==
  ASSUME TypeOK, ~ReadyEarly, NEW d \in dm.displays, CheckPresent(d), Sound(dm),
         shutdown => Down(dm)
  PROVE  Met(d)
<1>1. dm \in State
  BY DEF TypeOK
<1>2. PICK S \in PollSuspended(dm, d) :
        LET r == S.dpy[d]
            T == Set(S, d, [r EXCEPT !.startTries = @ + 1])
        IN CASE r.status # "notRunning" -> dm' = S /\ Turn(d, 0, "start")
             [] shutdown /\ r.status = "notRunning" ->
                  dm' = RemoveDisplay(S, {d}) /\ Turn(d, 0, "start")
             [] OTHER ->
                  \/ /\ d \notin Local \/ r.serverPid # NoPid
                     /\ ForkSession(S, d) /\ Turn(d, 0, "start")
                  \/ /\ d \in Local /\ r.serverPid = NoPid
                     /\ r.startTries >= StartAttempts
                     /\ dm' = RemoveDisplay(S, {d}) /\ Turn(d, 0, "start")
                  \/ /\ d \in Local /\ r.serverPid = NoPid
                     /\ r.startTries < StartAttempts
                     /\ \/ /\ CanFork(T) /\ dm' = ServerForked(T, d, "server")
                           /\ \E at \in ServerStage : Turn(d, 1, at)
                        \/ ForkMayFail(T) /\ dm' = T /\ Turn(d, 1, "retry")
  BY DEF CheckPresent
<1> DEFINE r == [S.dpy[d] EXCEPT !.startTries = @ + 1]
           T == Set(S, d, r)
<1>3. /\ S \in State /\ S.displays = dm.displays
      /\ Sound(S) /\ (shutdown => Down(S))
  BY <1>1, PollSound
<1>4. S.dpy[d] \in DisplayRecord /\ d \in Displays /\ NoPid \notin Alive(S)
  BY <1>3, Records
<1>5. \/ dm' = S /\ Turn(d, 0, "start")
      \/ /\ S.dpy[d].status = "notRunning" /\ (shutdown \/ S.dpy[d].serverPid = NoPid)
         /\ dm' = RemoveDisplay(S, {d}) /\ Turn(d, 0, "start")
      \/ /\ S.dpy[d].status = "notRunning"
         /\ ForkSession(S, d) /\ Turn(d, 0, "start")
      \/ /\ ~shutdown /\ S.dpy[d].status = "notRunning" /\ S.dpy[d].serverPid = NoPid
         /\ CanFork(T) /\ dm' = ServerForked(T, d, "server")
         /\ \E at \in ServerStage : Turn(d, 1, at)
      \/ /\ ~shutdown /\ S.dpy[d].status = "notRunning" /\ S.dpy[d].serverPid = NoPid
         /\ dm' = T /\ Turn(d, 1, "retry")
  BY <1>2
<1>6. /\ r \in DisplayRecord /\ r.serverPid = S.dpy[d].serverPid
      /\ r.pid = S.dpy[d].pid /\ r.status = S.dpy[d].status
  BY <1>4 DEF DisplayRecord
<1> HIDE DEF r
<1>7. ASSUME S.dpy[d].status = "notRunning" PROVE S.dpy[d].pid \notin Alive(S)
  BY <1>3, <1>4, <1>7 DEF Sound, Resting
<1>8. CASE dm' = S /\ Turn(d, 0, "start")
  BY <1>3, <1>8 DEF Met
<1>9. CASE /\ S.dpy[d].status = "notRunning" /\ (shutdown \/ S.dpy[d].serverPid = NoPid)
           /\ dm' = RemoveDisplay(S, {d}) /\ Turn(d, 0, "start")
  <2>1. S.dpy[d].serverPid \notin Alive(S)
    BY <1>3, <1>4, <1>9 DEF Down
  <2>2. {d} \in SUBSET Displays
        /\ \A e \in {d} : {S.dpy[e].pid, S.dpy[e].serverPid} \cap Alive(S) = {}
    BY <1>4, <1>7, <1>9, <2>1
  <2>3. /\ dm' \in State /\ dm'.displays = S.displays \ {d}
        /\ Sound(dm') /\ (Down(S) => Down(dm'))
    BY <1>3, <1>9, <2>2, RemoveSound
  <2> QED BY <1>3, <1>9, <2>3 DEF Met
<1>10. CASE /\ S.dpy[d].status = "notRunning"
            /\ ForkSession(S, d) /\ Turn(d, 0, "start")
  <2>1. /\ dm' \in State /\ dm'.displays = S.displays
        /\ Sound(dm') /\ (Down(S) => Down(dm'))
    BY <1>3, <1>7, <1>10, ForkSessionSound
  <2> QED BY <1>3, <1>10, <2>1 DEF Met
<1>11. ASSUME S.dpy[d].status = "notRunning", S.dpy[d].serverPid = NoPid
       PROVE  /\ T \in State /\ T.displays = dm.displays /\ Sound(T)
              /\ T.dpy[d].status = "notRunning" /\ T.dpy[d].serverPid \notin Alive(T)
  <2>1. /\ {S.dpy[d].pid, S.dpy[d].serverPid} \cap Alive(S) \subseteq {r.pid, r.serverPid}
        /\ r.status # "running" => r.pid \notin Alive(S)
    BY <1>6, <1>7, <1>11
  <2>2. T \in State /\ T.displays = S.displays /\ Alive(T) = Alive(S) /\ T.dpy[d] = r /\ Sound(T)
    BY <1>3, <1>6, <2>1, SetSound
  <2> QED BY <1>3, <1>4, <1>6, <1>11, <2>2
<1> HIDE DEF T
<1>12. CASE /\ ~shutdown /\ S.dpy[d].status = "notRunning" /\ S.dpy[d].serverPid = NoPid
            /\ CanFork(T) /\ dm' = ServerForked(T, d, "server")
            /\ \E at \in ServerStage : Turn(d, 1, at)
  <2>1. /\ dm' \in State /\ dm'.displays = T.displays /\ Sound(dm')
        /\ dm'.dpy[d].status = T.dpy[d].status
    BY <1>11, <1>12, ServerForkedSound
  <2>2. Turn(d, 1, "pause")
    BY <1>12 DEF ServerStage
  <2> QED BY <1>11, <1>12, <2>1, <2>2 DEF Met
<1>13. CASE /\ ~shutdown /\ S.dpy[d].status = "notRunning" /\ S.dpy[d].serverPid = NoPid
            /\ dm' = T /\ Turn(d, 1, "retry")
  BY <1>11, <1>13 DEF Met
<1> QED BY <1>5, <1>8, <1>9, <1>10, <1>12, <1>13
-----------------------------------------------------------------------------
(* Every action preserves it. *)

(* What a step does while the heap is intact and the bound on the attempts *)
(* holds; the heap stays so, and sockets may be closed.                    *)
Looked == heap' = "intact" /\ (sockets' \/ ServerAttempts = 1) => Tended'

LEMMA CheckLooked ==
  ASSUME LoginInv, Tended, ~ReadyEarly, CheckDisplayStatus PROVE Looked
<1> DEFINE d == pass.next
<1>1. TypeOK /\ dm \in State /\ pass \in PassRecord
  BY DEF LoginInv, TypeOK
<1>2. /\ pc = "start" /\ d \in dm.displays /\ d \in Displays
      /\ UNCHANGED <<xservers, signals, sockets, heap>>
  BY <1>1, Constants DEF CheckDisplayStatus, PassRecord, Tended, Standing, OnPass, State
<1>3. Sound(dm) /\ (shutdown => Down(dm) /\ ~sockets)
  BY DEF Tended
<1>4. Met(d) /\ (shutdown' => shutdown)
  <2>1. CASE dm' = StopDisplay(dm, {d}, TRUE) /\ shutdown' = FALSE /\ Turn(d, 0, "start")
    <3>1. {d} \in SUBSET dm.displays
      BY <1>2
    <3>2. /\ dm' \in State /\ dm.displays \ {d} \subseteq dm'.displays /\ Sound(dm')
          /\ Down(dm) => Down(dm')
      BY <1>1, <1>3, <2>1, <3>1, StopSound
    <3> QED BY <1>3, <2>1, <3>2 DEF Met
  <2>2. CASE CheckPresent(d) /\ UNCHANGED shutdown
    BY <1>1, <1>2, <1>3, <2>2, CheckPresentSound
  <2> QED BY <2>1, <2>2 DEF CheckDisplayStatus
<1> HIDE DEF d
<1>5. PICK n \in {0, 1}, at \in {"start", "pause", "retry"} :
        /\ Turn(d, n, at)
        /\ dm' \in State /\ dm.displays \ {d} \subseteq dm'.displays
        /\ Sound(dm') /\ (shutdown => Down(dm'))
        /\ at # "start" => d \in dm'.displays /\ dm'.dpy[d].status # "running" /\ n = 1
        /\ at = "retry" => dm'.dpy[d].serverPid \notin Alive(dm')
  BY <1>4 DEF Met
<1>6. n \in 0..ServerAttempts
  BY Constants
<1>7. /\ pc' = at /\ pass'.next \in dm.displays \cup {None} /\ pass'.next # d
      /\ at # "start" => pass'.cur = d
  BY <1>2, <1>5, <1>6, TurnSafe DEF d
<1>8. pass'.attempt = n
  BY <1>1, <1>5 DEF Turn, PassRecord
<1>9. Standing'
  BY <1>5, <1>7, <1>8 DEF Standing
<1>10. shutdown' => ~sockets' /\ Down(dm')
  BY <1>2, <1>3, <1>4, <1>5
<1> QED BY <1>5, <1>9, <1>10 DEF Looked, Tended

LEMMA PauseReapsLooked ==
  ASSUME LoginInv, Tended, PauseReaps PROVE Looked
<1>1. dm \in State
  BY DEF LoginInv, TypeOK
<1>2. PICK p \in Dead(dm) :
        /\ dm' = Reaped(dm, p)
        /\ pc' = IF p = dm.dpy[pass.cur].serverPid THEN "retry" ELSE "pause"
  BY DEF PauseReaps
<1>3. pc = "pause" /\ UNCHANGED <<xservers, signals, shutdown, sockets, pass, heap>>
  BY DEF PauseReaps
<1>4. /\ dm'.displays = dm.displays /\ dm'.dpy = dm.dpy /\ p \notin Alive(dm')
      /\ Sound(dm) => Sound(dm')
      /\ Down(dm) => Down(dm')
  BY <1>1, <1>2, ReapedSound DEF Dead
<1>5. Standing'
  BY <1>2, <1>3, <1>4 DEF Tended, Standing, OnPass
<1> QED BY <1>3, <1>4, <1>5 DEF Looked, Tended

LEMMA PauseEndsLooked ==
  ASSUME LoginInv, Tended, PauseEnds PROVE Looked
<1>1. dm \in State /\ pass \in PassRecord
  BY DEF LoginInv, TypeOK
<1>2. /\ pc = "pause" /\ ForkSession(dm, pass.cur) /\ pc' = "start"
      /\ pass' = [pass EXCEPT !.cur = None, !.attempt = 0]
      /\ UNCHANGED <<xservers, signals, shutdown, sockets, heap>>
  BY DEF PauseEnds, Return
<1>3. /\ pass.cur \in dm.displays /\ pass.next \in dm.displays \cup {None}
      /\ dm.dpy[pass.cur].status # "running"
  BY <1>2 DEF Tended, Standing, OnPass
<1>4. dm.dpy[pass.cur].pid \notin Alive(dm)
  BY <1>1, <1>3, Records DEF Tended, Sound, Resting
<1>5. /\ dm'.displays = dm.displays /\ Sound(dm') /\ (Down(dm) => Down(dm'))
  BY <1>1, <1>2, <1>3, <1>4, ForkSessionSound DEF Tended
<1>6. pass'.next = pass.next
  BY <1>1, <1>2 DEF PassRecord
<1>7. Standing'
  BY <1>2, <1>3, <1>5, <1>6 DEF Standing
<1> QED BY <1>2, <1>5, <1>7 DEF Looked, Tended

(* A second attempt is made only where there are several, which is until   *)
(* SIGTERM.                                                                *)
LEMMA RetryLooked ==
  ASSUME LoginInv, Tended, ~ReadyEarly, sockets \/ ServerAttempts = 1, RetryServer
  PROVE  Looked
<1> DEFINE d == pass.cur
<1>1. dm \in State /\ pass \in PassRecord /\ dm.displays \subseteq Displays
  BY DEF LoginInv, TypeOK, State
<1>2. pc = "retry" /\ UNCHANGED <<xservers, signals, shutdown, sockets, heap>>
  BY DEF RetryServer
<1>3. /\ d \in dm.displays /\ pass.next \in dm.displays \cup {None}
      /\ dm.dpy[d].status # "running" /\ pass.attempt >= 1
      /\ dm.dpy[d].serverPid \notin Alive(dm) /\ d # pass.next
  BY <1>2, Constants, <1>1 DEF Tended, Standing, OnPass, LoginInv, PassOK
<1>4. CASE /\ MoreAttempts(pass.attempt)
           /\ \/ /\ CanFork(dm) /\ dm' = ServerForked(dm, d, "server")
                 /\ pc' \in ServerStage
              \/ ForkMayFail(dm) /\ UNCHANGED <<dm, pc>>
           /\ pass' = [pass EXCEPT !.attempt = @ + 1]
  <2>1. pass.attempt \in Nat /\ pass.attempt < ServerAttempts /\ ServerAttempts \in Nat
    BY <1>1, <1>4, Constants DEF MoreAttempts, PassRecord
  <2>2. sockets /\ ~shutdown
    BY <1>3, <2>1 DEF Tended
  <2>3. pass'.next = pass.next /\ pass'.cur = d /\ pass'.attempt >= 1
    BY <1>1, <1>3, <1>4, <2>1 DEF PassRecord
  <2>4. CASE CanFork(dm) /\ dm' = ServerForked(dm, d, "server") /\ pc' \in ServerStage
    <3>1. pc' = "pause"
      BY <2>4 DEF ServerStage
    <3>2. /\ dm'.displays = dm.displays /\ Sound(dm')
          /\ dm'.dpy[d].status = dm.dpy[d].status
      BY <1>1, <1>3, <2>4, ServerForkedSound DEF Tended
    <3>3. Standing'
      BY <1>3, <2>3, <3>1, <3>2 DEF Standing
    <3> QED BY <1>2, <2>2, <3>2, <3>3 DEF Looked, Tended
  <2>5. CASE UNCHANGED <<dm, pc>>
    <3>1. Standing'
      BY <1>2, <1>3, <2>3, <2>5 DEF Standing
    <3> QED BY <1>2, <2>5, <3>1 DEF Looked, Tended
  <2> QED BY <1>4, <2>4, <2>5
<1>5. CASE dm' = RemoveDisplay(dm, {d}) /\ Return
  <2>1. dm.dpy[d].pid \notin Alive(dm)
    BY <1>1, <1>3 DEF Tended, Sound, Resting
  <2>2. {d} \in SUBSET Displays
        /\ \A e \in {d} : {dm.dpy[e].pid, dm.dpy[e].serverPid} \cap Alive(dm) = {}
    BY <1>1, <1>3, <2>1
  <2>3. /\ dm'.displays = dm.displays \ {d}
        /\ Sound(dm) => Sound(dm')
        /\ Down(dm) => Down(dm')
    BY <1>1, <1>5, <2>2, RemoveSound
  <2>4. pc' = "start" /\ pass'.next = pass.next
    BY <1>1, <1>5 DEF Return, PassRecord
  <2>5. Standing'
    BY <1>3, <2>3, <2>4 DEF Standing
  <2> QED BY <1>2, <2>3, <2>5 DEF Looked, Tended
<1> QED BY <1>4, <1>5 DEF RetryServer

(* Steps outside a pass that leave the list alone, and those that begin one.*)
LEMMA ElsewhereLooked ==
  ASSUME Tended, UNCHANGED <<dm, shutdown, sockets>>, ~OnPass'
  PROVE  Looked
<1>1. Standing'
  BY DEF Standing, OnPass
<1> QED BY <1>1 DEF Looked, Tended

LEMMA BegunLooked ==
  ASSUME Tended, NEW after \in {"boot", "rescan", "loop"},
         dm' \in State, BeginPass(dm', after),
         Sound(dm'), shutdown /\ Down(dm) => Down(dm'),
         UNCHANGED <<shutdown, sockets>>
  PROVE  Looked
<1>1. pc' = "start" /\ pass'.next \in dm'.displays \cup {None}
  BY BeginPassSafe
<1>2. Standing'
  BY <1>1 DEF Standing
<1> QED BY <1>2 DEF Looked, Tended

LEMMA LoopLooked == ASSUME LoginInv, Tended, Loop PROVE Looked
<1>1. /\ dm \in State /\ file \in Files
      /\ UNCHANGED <<xservers, signals, shutdown, sockets, heap>>
  BY DEF LoginInv, TypeOK, Loop
<1>2. CASE pc' \in {"done", "test"} /\ UNCHANGED <<dm, pass>>
  BY <1>1, <1>2, ElsewhereLooked DEF OnPass
<1>3. CASE dm' = Rescanned(dm) /\ BeginPass(dm', "rescan")
  <2>1. dm' \in State /\ Sound(dm') /\ (Down(dm) => Down(dm'))
    BY <1>1, <1>3, RescannedSound DEF Tended
  <2> QED BY <1>1, <1>3, <2>1, BegunLooked
<1> QED BY <1>2, <1>3 DEF Loop

LEMMA AfterSelectLooked == ASSUME LoginInv, Tended, AfterSelect PROVE Looked
<1>1. dm \in State /\ UNCHANGED <<dm, shutdown, sockets>>
  BY DEF LoginInv, TypeOK, AfterSelect
<1>2. CASE pc' \in {"reap", "wait"} /\ UNCHANGED pass
  BY <1>1, <1>2, ElsewhereLooked DEF OnPass
<1>3. CASE BeginPass(dm, "loop")
  BY <1>1, <1>3, BegunLooked DEF Tended
<1> QED BY <1>2, <1>3 DEF AfterSelect

LEMMA WaitForChildLooked == ASSUME LoginInv, Tended, WaitForChild PROVE Looked
<1>0. TypeOK /\ dm \in State
  BY DEF LoginInv, TypeOK
<1>1. ASSUME NEW p \in Dead(dm), ProcessChildDeath(p)
      PROVE  dm' \in State /\ Sound(dm') /\ (shutdown /\ Down(dm) => Down(dm'))
  BY <1>0, <1>1, ChildDeathSafe, ChildDeathSound DEF Dead, Tended
<1>2. UNCHANGED <<shutdown, sockets>>
  BY DEF WaitForChild
<1>3. CASE /\ pc' = "reap" /\ \E p \in Dead(dm) : ProcessChildDeath(p)
  <2>1. Sound(dm') /\ (shutdown /\ Down(dm) => Down(dm'))
    BY <1>1, <1>3
  <2>2. Standing'
    BY <1>3 DEF Standing, OnPass
  <2> QED BY <1>2, <2>1, <2>2 DEF Looked, Tended
<1>4. CASE pc' \in {"sleep", "reap"} /\ UNCHANGED dm
  BY <1>2, <1>4, ElsewhereLooked DEF OnPass
<1>5. CASE BeginPass(dm, "loop") /\ UNCHANGED dm
  BY <1>0, <1>2, <1>5, BegunLooked DEF Tended
<1>6. CASE /\ (\E p \in Dead(dm) : ProcessChildDeath(p)) \/ UNCHANGED dm
           /\ BeginPass(dm', "loop")
  <2>1. dm' \in State /\ Sound(dm') /\ (shutdown /\ Down(dm) => Down(dm'))
    BY <1>0, <1>1, <1>6 DEF Tended
  <2> QED BY <1>2, <1>6, <2>1, BegunLooked
<1> QED BY <1>3, <1>4, <1>5, <1>6 DEF WaitForChild

(* SIGTERM during a pass: what the pass stands on has not been freed, so it*)
(* is still listed.                                                        *)
LEMMA StopAllLooked == ASSUME LoginInv, Tended, StopAll PROVE Looked
<1>1. dm \in State /\ dm.displays \in SUBSET dm.displays
  BY DEF LoginInv, TypeOK
<1>2. /\ dm' = StopDisplay(dm, dm.displays, TRUE)
      /\ shutdown' = TRUE /\ sockets' = FALSE /\ UNCHANGED <<pc, pass>>
      /\ heap' = "intact" => {pass.cur, pass.next} \cap (dm.displays \ dm'.displays) = {}
  BY DEF StopAll
<1>3. /\ Sound(dm') /\ Down(dm')
      /\ \A d \in dm.displays \cap dm'.displays :
           dm.dpy[d].status # "running" => dm'.dpy[d].status # "running"
      /\ dm' \in State
  BY <1>1, <1>2, StopSound DEF Tended
<1>4. ASSUME heap' = "intact" PROVE Standing'
  <2>1. /\ OnPass => pass.next \in dm'.displays \cup {None}
        /\ pc \in {"pause", "retry"} => /\ pass.cur \in dm'.displays
                                        /\ dm'.dpy[pass.cur].status # "running"
                                        /\ pass.attempt >= 1
    BY <1>2, <1>3, <1>4 DEF Tended, Standing
  <2>2. pc = "retry" => dm'.dpy[pass.cur].serverPid \notin Alive(dm')
    BY <1>3, <2>1, Records DEF Down, State
  <2> QED BY <1>2, <2>1, <2>2 DEF Standing, OnPass
<1> QED BY <1>2, <1>3, <1>4 DEF Looked, Tended

LEMMA ExitLooked == ASSUME LoginInv, Tended, NEW p \in Pids, Exit(p) PROVE Looked
<1>1. dm \in State /\ dm.procs \in [Pids -> Process]
  BY DEF LoginInv, TypeOK, State
<1>2. PICK c \in (IF dm.procs[p].kind = "session" THEN ExitCodes ELSE {"none"}) :
        dm' = [dm EXCEPT !.procs = [dm.procs EXCEPT
                 ![p] = [dm.procs[p] EXCEPT !.life = "dead", !.code = c]]]
  BY DEF Exit
<1>3. UNCHANGED <<shutdown, sockets, pc, pass, heap>>
  BY DEF Exit
<1>4. dm' \in State
  BY ExitKept DEF Kept, LoginInv, TypeOK
<1>5. dm'.displays = dm.displays /\ dm'.dpy = dm.dpy /\ Alive(dm') \subseteq Alive(dm)
  BY <1>1, <1>2 DEF State, Alive, Process
<1>6. (Sound(dm) => Sound(dm')) /\ (Down(dm) => Down(dm'))
  BY <1>1, <1>4, <1>5, Fewer
<1>7. Standing'
  BY <1>3, <1>5 DEF Tended, Standing, OnPass
<1> QED BY <1>3, <1>6, <1>7 DEF Looked, Tended

LEMMA InSightStep ==
  ASSUME LoginInv, ~ReadyEarly, InSight, [Next]_vars PROVE InSight'
<1> SUFFICES ASSUME heap' = "intact", sockets' \/ ServerAttempts = 1 PROVE Looked
  BY DEF InSight, Looked
<1>1. heap = "intact" /\ (sockets \/ ServerAttempts = 1)
  <2>1. CASE UNCHANGED vars
    BY <2>1 DEF vars
  <2>2. CASE Main
    <3>1. heap = "intact"
      BY <2>2 DEF Main
    <3>2. UNCHANGED sockets
      BY <2>2 DEF Main, CheckDisplayStatus, PauseReaps, PauseEnds, RetryServer, EndPass,
        Loop, WaitForSomething, SelectReturns, AfterSelect, WaitForChild
    <3> QED BY <3>1, <3>2
  <2>3. CASE heap = "intact" /\ Packet
    BY <2>3 DEF Packet, AfterSelect
  <2>4. CASE StopAll
    BY <2>4 DEF StopAll, Up
  <2>5. CASE RescanNotify \/ Edit
    BY <2>5 DEF RescanNotify, Edit, Up
  <2>6. CASE \E p \in Pids : Exit(p)
    BY <2>6 DEF Exit, Up
  <2> QED BY <2>1, <2>2, <2>3, <2>4, <2>5, <2>6 DEF Next
<1>2. Tended
  BY <1>1 DEF InSight
<1>3. CASE UNCHANGED vars \/ RescanNotify \/ Edit
  <2>1. UNCHANGED <<dm, shutdown, sockets, pc, pass>>
    BY <1>3 DEF vars, RescanNotify, Edit
  <2> QED BY <1>2, <2>1 DEF Looked, Tended, Standing, OnPass
<1>4. CASE EndPass \/ WaitForSomething
  <2>1. UNCHANGED <<dm, shutdown, sockets>> /\ ~OnPass'
    BY <1>4 DEF EndPass, WaitForSomething, OnPass
  <2> QED BY <1>2, <2>1, ElsewhereLooked
<1>5. CASE Main
  BY <1>1, <1>2, <1>4, <1>5, CheckLooked, PauseReapsLooked, PauseEndsLooked, RetryLooked,
     LoopLooked, AfterSelectLooked, WaitForChildLooked
  DEF Main, SelectReturns
<1>6. CASE Packet
  BY <1>2, <1>6, AfterSelectLooked DEF Packet
<1>7. CASE StopAll
  BY <1>2, <1>7, StopAllLooked
<1>8. CASE \E p \in Pids : Exit(p)
  BY <1>2, <1>8, ExitLooked
<1> QED BY <1>3, <1>5, <1>6, <1>7, <1>8 DEF Next

LEMMA InitInSight == Init => InSight
<1> SUFFICES ASSUME Init PROVE Tended
  BY DEF InSight
<1>1. Alive(dm) = {}
  BY DEF Init, Alive, NoProc
<1>2. Sound(dm)
  BY <1>1 DEF Init, Sound, Seen, Resting, Blank, Fresh
<1>3. Standing
  BY DEF Init, Standing, OnPass, SavedNext
<1> QED BY <1>2, <1>3 DEF Init, Tended

(* If SIGUSR1 of a server does not come before serverPause waits for it,   *)
(* dtlogin knows every child that it has not told to end, as long as no    *)
(* freed display has been used, until SIGTERM, and after it where          *)
(* StartServer makes one attempt.                                          *)
THEOREM WatchedAlways == ASSUME ~ReadyEarly PROVE Spec => []Watched
<1>1. Init => LoginInv /\ InSight
  BY InitInv, InitInSight
<1>2. LoginInv /\ InSight /\ [Next]_vars => LoginInv' /\ InSight'
  BY StepInv, InSightStep DEF Kept
<1>3. InSight => Watched
  BY DEF InSight, Tended, Sound, Seen, Alive, Watched
<1> QED BY <1>1, <1>2, <1>3, PTL DEF Spec
=============================================================================
