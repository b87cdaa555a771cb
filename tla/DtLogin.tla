------------------------------ MODULE DtLogin ------------------------------
(***************************************************************************)
(* dtlogin keeps an X server and a login session on every display of the   *)
(* Xservers file (cde1/dtlogin: dm.c, server.c, socket.c, dpylist.c,       *)
(* file.c), as built for Solaris (sun and SVR4 defined, SYSV not).         *)
(*                                                                         *)
(* One process: a main loop that starts what is missing, waits, reaps dead *)
(* children and decides for each what becomes of its display; and the      *)
(* handlers of SIGCHLD, SIGHUP and SIGTERM, which come in between.         *)
(* Functions that work on the list of displays are operators from a record *)
(* S, the value of dm, to the record they leave behind.                    *)
(***************************************************************************)
EXTENDS Naturals, Integers, FiniteSets

CONSTANTS
  Displays,       \* names that may appear in the Xservers file
  Local,          \* those of type local: their X server is started here
  Lines,          \* those with a gettyLine, a terminal for a text login
  Pids,           \* process ids
  None,           \* no display
  Files,          \* contents of Xservers, sets of displays
  StartAttempts,  \* resource startAttempts
  ServerAttempts, \* resource serverAttempts
  TerminateServer,\* resource terminateServer
  ReadyEarly,     \* SIGUSR1 may come before serverPause waits for it
  ForkFails,      \* fork may fail
  ExitCodes,      \* how sessions end
  Edits,          \* the edits that Xservers may see, pairs of contents
  MaxEdits        \* bound: how many of them

NoPid == -1

Codes == {"obeysess", "remanage", "unmanage", "reserver", "openfailed",
          "suspend", "term"}

Statuses == {"notRunning", "running", "phoenix", "suspended", "zombie"}

ASSUME LoginAssumption ==
  /\ Local \subseteq Displays /\ Lines \subseteq Local
  /\ None \notin Displays
  /\ Pids \subseteq Nat
  /\ Files \subseteq SUBSET Displays /\ Files # {}
  /\ StartAttempts \in Nat \ {0} /\ ServerAttempts \in Nat \ {0}
  /\ ExitCodes \subseteq Codes /\ Edits \subseteq Files \X Files
  /\ MaxEdits \in Nat
  /\ {TerminateServer, ReadyEarly, ForkFails} \subseteq BOOLEAN

VARIABLES
  dm,         \* the list of displays, the child processes and wakeupTime
  file,       \* what Xservers says
  modified,   \* its mtime differs from ServersModTime
  edits,      \* edits so far
  rescan,     \* Rescan
  childReady, \* ChildReady
  armed,      \* the handler of SIGCHLD is installed
  shutdown,   \* shutdown
  sockets,    \* AnyWellKnownSockets()
  interrupted,\* a handler ran since the blocking call began
  pc,         \* where the main loop is
  pass,       \* ForEachDisplay(CheckDisplayStatus) in progress
  heap        \* "corrupt" once a freed display has been used

signals == <<rescan, childReady, armed, interrupted>>
xservers == <<file, modified, edits>>
vars == <<dm, xservers, signals, shutdown, sockets, pc, pass, heap>>

Fresh == [status |-> "notRunning", missing |-> FALSE, pid |-> NoPid,
          serverPid |-> NoPid, startTries |-> 0, unexpected |-> FALSE]

NoProc == [kind |-> "none", of |-> None, life |-> "gone", code |-> "none"]

PidOrNone == Pids \cup {NoPid}

DisplayRecord == [status : Statuses, missing : BOOLEAN, pid : PidOrNone,
                  serverPid : PidOrNone, startTries : Nat,
                  unexpected : BOOLEAN]

Process == [kind : {"none", "server", "session", "getty"},
            of : Displays \cup {None},
            life : {"gone", "alive", "told", "dead"},
            code : Codes \cup {"none"}]

State == [displays : SUBSET Displays, dpy : [Displays -> DisplayRecord],
          procs : [Pids -> Process], wakeup : {-1, 0, 1}]

(* loop: the condition of the loop in main; test, entering, select:        *)
(* WaitForSomething before, just before and in select; reap, sleep, wait:  *)
(* WaitForChild; start: between two displays of a pass; pause, retry:      *)
(* StartServer in serverPause and in sleep(openDelay).                     *)
Stage == {"loop", "test", "entering", "select", "reap", "sleep", "wait",
          "start", "pause", "retry", "done"}

PassRecord == [cur : Displays \cup {None}, next : Displays \cup {None},
               left : SUBSET Displays, attempt : 0..ServerAttempts,
               after : {"boot", "rescan", "loop"}]

(* Named by a display, even if the process is long gone: such an id is not *)
(* given to another process (the kernel counts up to a large number).      *)
Named(S) == UNION {{S.dpy[d].pid, S.dpy[d].serverPid} : d \in S.displays}
Free(S) == {p \in Pids : S.procs[p] = NoProc} \ Named(S)
NextPid(S) == CHOOSE p \in Free(S) : TRUE
Forked(S, p, k, d) ==
  [S EXCEPT !.procs = [S.procs EXCEPT
     ![p] = [kind |-> k, of |-> d, life |-> "alive", code |-> "none"]]]

CanFork(S) == Free(S) # {}
ForkMayFail(S) == ForkFails \/ ~CanFork(S)

Live(S) == {p \in Pids : S.procs[p].life \in {"alive", "told"}}
Dead(S) == {p \in Pids : S.procs[p].life = "dead"}

Reaped(S, p) == [S EXCEPT !.procs = [S.procs EXCEPT ![p] = NoProc]]

(* kill with SIGTERM; a process that is dead or unknown takes no notice. *)
TerminateProcess(S, P) ==
  [S EXCEPT !.procs = [p \in Pids |->
     IF p \in P /\ S.procs[p].life = "alive"
     THEN [S.procs[p] EXCEPT !.life = "told"] ELSE S.procs[p]]]

Set(S, d, r) == [S EXCEPT !.dpy = [S.dpy EXCEPT ![d] = r]]
Status(S, d, s) == Set(S, d, [S.dpy[d] EXCEPT !.status = s])
ServerPid(S, d, p) == Set(S, d, [S.dpy[d] EXCEPT !.serverPid = p])
Timer(S, t) == [S EXCEPT !.wakeup = t]

ServerForked(S, d, k) == ServerPid(Forked(S, NextPid(S), k, d), d, NextPid(S))
-----------------------------------------------------------------------------
(* Operations on the list.  RemoveDisplay and StopDisplay are given a set, *)
(* since StopAll applies them to every display at once.                    *)

RemoveDisplay(S, D) ==
  [S EXCEPT
     !.displays = @ \ D,
     !.dpy = [d \in Displays |-> IF d \in D THEN Fresh ELSE S.dpy[d]],
     !.wakeup = IF \E d \in D : S.dpy[d].status = "suspended" THEN -1 ELSE @]

(* The parts of StopDisplay; down is the value of shutdown at the call.    *)
(* A display with a server stays in the list until that is reaped.         *)
ServedByNone(S, D) == {}
Served(S, D) == {d \in D : S.dpy[d].serverPid # NoPid}

StoppedStatus(d, down) == IF d \in Local /\ ~down THEN "suspended" ELSE "zombie"

ServersOf(S, D) == {S.dpy[d].serverPid : d \in D}
ProcessesOf(S, D) == UNION {{S.dpy[d].pid, S.dpy[d].serverPid} : d \in D}

StopDisplay(S, D, down) ==
  LET served == Served(S, D)
      removed == {d \in D \ served : d \notin Local \/ down}
      R == RemoveDisplay(TerminateProcess(S, ProcessesOf(S, D)), removed)
  IN [R EXCEPT !.dpy = [d \in Displays |->
        IF d \in served THEN [R.dpy[d] EXCEPT !.status = StoppedStatus(d, down)]
        ELSE R.dpy[d]]]

RestartDisplay(S, d, forceReserver) ==
  IF S.dpy[d].serverPid # NoPid /\ (forceReserver \/ TerminateServer)
  THEN Status(TerminateProcess(S, {S.dpy[d].serverPid}), d, "phoenix")
  ELSE Status(S, d, "notRunning")

(* ForEachDisplay(MarkDisplay); ScanServers() *)
Rescanned(S) ==
  [S EXCEPT
     !.displays = @ \cup file,
     !.dpy = [d \in Displays |->
        IF d \in S.displays \cup file
        THEN [S.dpy[d] EXCEPT !.missing = d \notin file] ELSE S.dpy[d]]]

(* A text login is in use on the line of d: look again later. *)
Suspend(S, d) == Timer(Status(S, d, "suspended"), 0)

(* The possible results of StartGetty; prompting is GettyRunning(d). *)
StartGetty(S0, d, prompting) ==
  LET S == ServerPid(S0, d, NoPid)
      P == Set(S, d, [S.dpy[d] EXCEPT !.status = "phoenix", !.startTries = 0])
  IN IF d \notin Lines THEN {Status(S, d, "notRunning")}
     ELSE IF prompting
     THEN {Suspend(S, d)}
     ELSE (IF CanFork(P) THEN {ServerForked(P, d, "getty")} ELSE {})
          \cup (IF ForkMayFail(P) THEN {Status(P, d, "notRunning")} ELSE {})
-----------------------------------------------------------------------------
(* ProcessChildDeath, for the session of d that ended with code c. *)

TriesAfter(r, d, c) ==
  CASE c = "reserver" -> 0
    [] c = "obeysess" -> IF r.unexpected THEN r.startTries ELSE 0
    [] c = "openfailed" -> IF d \in Local THEN r.startTries ELSE r.startTries + 1
    [] OTHER -> IF d \in Local THEN r.startTries ELSE 0

SessionDied(S0, d, c, down) ==
  LET r == S0.dpy[d]
      S == Set(S0, d, [r EXCEPT !.pid = NoPid, !.startTries = TriesAfter(r, d, c),
                                !.unexpected = @ /\ c # "obeysess"])
      stops == \/ c = "unmanage"
               \/ c = "suspend" /\ d \in Local
               \/ c # "suspend" /\ r.status = "zombie"
               \/ c = "openfailed" /\ S.dpy[d].startTries >= StartAttempts
  IN IF stops THEN StopDisplay(S, {d}, down)
     ELSE RestartDisplay(S, d, c \in {"reserver", "openfailed", "term"})

(* The possible results for the X server, or getty, of d. *)
ServerDied(S0, d) ==
  LET r == S0.dpy[d]
      S == ServerPid(S0, d, NoPid)
  IN CASE r.status = "zombie" -> {RemoveDisplay(S, {d})}
       [] r.status = "phoenix" -> {Status(S, d, "notRunning")}
       [] r.status = "running" ->
            {TerminateProcess(Set(S, d, [S.dpy[d] EXCEPT !.unexpected = TRUE]),
                              {r.pid})}
       [] r.status = "notRunning" -> {S}
       [] r.status = "suspended" ->
            UNION {StartGetty(S, d, g) : g \in BOOLEAN}

(* RescanIfMod comes first; then p is looked for among the sessions and    *)
(* then among the servers.                                                 *)
DeathOf(S, p, c) ==
  LET ofSession == {d \in S.displays : S.dpy[d].pid = p}
      ofServer == {d \in S.displays : S.dpy[d].serverPid = p}
  IN IF ofSession # {} THEN {SessionDied(S, d, c, shutdown) : d \in ofSession}
     ELSE IF ofServer # {} THEN UNION {ServerDied(S, d) : d \in ofServer}
     ELSE {S}

ProcessChildDeath(p) ==
  /\ \E S \in {Reaped(IF modified THEN Rescanned(dm) ELSE dm, p)} :
       dm' \in DeathOf(S, p, dm.procs[p].code)
  /\ modified' = FALSE /\ UNCHANGED <<file, edits>>
-----------------------------------------------------------------------------
(* A pass of StartDisplays.  ForEachDisplay saves the next display before  *)
(* it deals with the current one.  The order of the list is left open.     *)

SavedNext(D) == IF D = {} THEN {None} ELSE D

BeginPass(S, after) ==
  /\ pc' = "start"
  /\ \E n \in SavedNext(S.displays) :
       pass' = [cur |-> None, next |-> n, left |-> S.displays \ {n},
                attempt |-> 0, after |-> after]

Turn(d, n, at) ==
  /\ \E m \in SavedNext(pass.left \cap dm.displays) :
       pass' = [pass EXCEPT !.cur = IF at = "start" THEN None ELSE d, !.next = m,
                            !.left = @ \ {m}, !.attempt = n]
  /\ pc' = at

(* The visit of the current display ends here. *)
Return == pc' = "start" /\ pass' = [pass EXCEPT !.cur = None, !.attempt = 0]

ForkSession(S, d) ==
  \/ /\ CanFork(S)
     /\ dm' = Set(Forked(S, NextPid(S), "session", d), d,
                  [S.dpy[d] EXCEPT !.pid = NextPid(S), !.status = "running"])
  \/ ForkMayFail(S) /\ dm' = S

(* StartServerOnce up to serverPause.  If the server is ready before, the  *)
(* pause asks waitpid for children of dtlogin's own process group, has     *)
(* none (CleanUpChild) and takes ECHILD to mean that the server is dead.   *)
ServerStage == {"pause"} \cup (IF ReadyEarly THEN {"retry"} ELSE {})

(* The polling of a text login in CheckDisplayStatus: the possible results.*)
PollSuspended(S, d) ==
  IF S.dpy[d].status # "suspended" \/ S.wakeup = -1 THEN {S}
  ELSE (IF S.wakeup = 0 THEN {Timer(S, 1)}
        ELSE {Timer(Set(S, d, [S.dpy[d] EXCEPT !.status = "notRunning",
                                               !.startTries = 0]), -1)})
       \cup (IF d \in Lines THEN {Timer(S, 1)} ELSE {})

(* CheckDisplayStatus for an entry that is in the file. *)
CheckPresent(d) ==
  \E S \in PollSuspended(dm, d) :
    LET r == S.dpy[d]
        T == Set(S, d, [r EXCEPT !.startTries = @ + 1])
    IN CASE r.status # "notRunning" -> dm' = S /\ Turn(d, 0, "start")
         [] shutdown /\ r.status = "notRunning" ->
              dm' = RemoveDisplay(S, {d}) /\ Turn(d, 0, "start")
         [] OTHER ->
              \/ /\ d \notin Local \/ r.serverPid # NoPid
                 /\ ForkSession(S, d) /\ Turn(d, 0, "start")
              \/ /\ d \in Local /\ r.serverPid = NoPid
                 /\ r.startTries >= StartAttempts
                 /\ dm' = RemoveDisplay(S, {d}) /\ Turn(d, 0, "start")
              \/ /\ d \in Local /\ r.serverPid = NoPid
                 /\ r.startTries < StartAttempts
                 /\ \/ /\ CanFork(T) /\ dm' = ServerForked(T, d, "server")
                       /\ \E at \in ServerStage : Turn(d, 1, at)
                    \/ ForkMayFail(T) /\ dm' = T /\ Turn(d, 1, "retry")

CheckDisplayStatus ==
  /\ pc = "start" /\ pass.next # None
  /\ LET d == pass.next IN
     \/ /\ dm.dpy[d].missing
        /\ dm' = StopDisplay(dm, {d}, TRUE) /\ shutdown' = FALSE
        /\ Turn(d, 0, "start")
     \/ ~dm.dpy[d].missing /\ CheckPresent(d) /\ UNCHANGED shutdown
  /\ UNCHANGED <<xservers, signals, sockets, heap>>

(* serverPause: wait returns a dead child, of whatever kind.  The server   *)
(* has then failed to start; the death of any other is not processed.      *)
PauseReaps ==
  /\ pc = "pause"
  /\ \E p \in Dead(dm) :
       /\ dm' = Reaped(dm, p)
       /\ pc' = IF p = dm.dpy[pass.cur].serverPid THEN "retry" ELSE "pause"
  /\ UNCHANGED <<xservers, signals, shutdown, sockets, pass, heap>>

(* serverPause: SIGUSR1 from the server, or the alarm; both mean success.  *)
PauseEnds ==
  /\ pc = "pause"
  /\ ForkSession(dm, pass.cur) /\ Return
  /\ UNCHANGED <<xservers, signals, shutdown, sockets, heap>>

MoreAttempts(n) == n < ServerAttempts

(* StartServer after a failure: try again, or give the display up. *)
RetryServer ==
  LET d == pass.cur IN
  /\ pc = "retry"
  /\ \/ /\ MoreAttempts(pass.attempt)
        /\ \/ /\ CanFork(dm) /\ dm' = ServerForked(dm, d, "server")
              /\ pc' \in ServerStage
           \/ ForkMayFail(dm) /\ UNCHANGED <<dm, pc>>
        /\ pass' = [pass EXCEPT !.attempt = @ + 1]
     \/ /\ ~MoreAttempts(pass.attempt)
        /\ dm' = RemoveDisplay(dm, {d}) /\ Return
  /\ UNCHANGED <<xservers, signals, shutdown, sockets, heap>>

(* What follows the pass: after the first, the handler of SIGCHLD is       *)
(* installed, and told of children that are dead already; after that of    *)
(* RescanServers, Rescan is cleared and WaitForSomething called.           *)
EndPass ==
  /\ pc = "start" /\ pass.next = None
  /\ pc' = IF pass.after = "rescan" THEN "test" ELSE "loop"
  /\ rescan' = (rescan /\ pass.after # "rescan")
  /\ IF pass.after = "boot"
     THEN childReady' = (Dead(dm) # {}) /\ armed' = (Dead(dm) = {})
     ELSE UNCHANGED <<childReady, armed>>
  /\ UNCHANGED <<dm, xservers, interrupted, shutdown, sockets, pass, heap>>
-----------------------------------------------------------------------------
(* The loop of main, WaitForSomething and WaitForChild. *)

Loop ==
  /\ pc = "loop"
  /\ \/ /\ ~sockets /\ dm.displays = {} /\ pc' = "done" /\ UNCHANGED <<dm, pass>>
     \/ /\ sockets \/ dm.displays # {}
        /\ \/ rescan /\ dm' = Rescanned(dm) /\ BeginPass(dm', "rescan")
           \/ ~rescan /\ pc' = "test" /\ UNCHANGED <<dm, pass>>
  /\ UNCHANGED <<xservers, signals, shutdown, sockets, heap>>

WaitForSomething ==
  /\ \/ /\ pc = "test"
        /\ pc' = IF (sockets /\ ~childReady) \/ dm.wakeup > 0 THEN "entering"
                 ELSE IF sockets THEN "reap" ELSE "wait"
     \/ pc = "entering" /\ pc' = "select"
  /\ interrupted' = FALSE
  /\ UNCHANGED <<dm, xservers, rescan, childReady, armed, shutdown, sockets,
                 pass, heap>>

AfterSelect ==
  /\ pc = "select"
  /\ \/ childReady /\ pc' = (IF sockets THEN "reap" ELSE "wait") /\ UNCHANGED pass
     \/ ~childReady /\ BeginPass(dm, "loop")
  /\ interrupted' = FALSE
  /\ UNCHANGED <<dm, xservers, rescan, childReady, armed, shutdown, sockets, heap>>

WakesByOthers == interrupted \/ dm.wakeup # -1

(* A signal, the timeout, or the sockets closed before the call. *)
Wakes == interrupted \/ dm.wakeup # -1 \/ ~sockets

SelectReturns == Wakes /\ AfterSelect

(* A datagram, or a connection of a chooser. *)
Packet == sockets /\ AfterSelect

WaitForChild ==
  \/ /\ pc = "reap"
     /\ \/ /\ \E p \in Dead(dm) : ProcessChildDeath(p)
           /\ UNCHANGED <<pc, childReady, armed>>
        \/ /\ Dead(dm) = {} /\ UNCHANGED <<dm, xservers>>
           /\ childReady' = FALSE /\ armed' = TRUE /\ pc' = "sleep"
     /\ UNCHANGED <<rescan, interrupted, shutdown, sockets, pass, heap>>
  \/ /\ pc = "sleep"
     /\ \/ childReady /\ pc' = "reap" /\ UNCHANGED pass
        \/ ~childReady /\ BeginPass(dm, "loop")
     /\ UNCHANGED <<dm, xservers, signals, shutdown, sockets, heap>>
  \/ /\ pc = "wait"
     /\ \/ \E p \in Dead(dm) : ProcessChildDeath(p)
        \/ /\ Dead(dm) = {} /\ (interrupted \/ Live(dm) = {})
           /\ UNCHANGED <<dm, xservers>>
     /\ BeginPass(dm', "loop")
     /\ UNCHANGED <<signals, shutdown, sockets, heap>>
-----------------------------------------------------------------------------
(* Signals, children and the administrator. *)

Up == pc # "done" /\ heap = "intact"
Interrupts == interrupted \/ pc \in {"select", "wait"}

(* StopAll.  A display without a server is freed; if a pass stands on it,  *)
(* or will go on with it, the pass uses freed memory.                      *)
StopAll ==
  /\ Up
  /\ dm' = StopDisplay(dm, dm.displays, TRUE)
  /\ shutdown' = TRUE /\ sockets' = FALSE /\ interrupted' = Interrupts
  /\ heap' = IF {pass.cur, pass.next} \cap (dm.displays \ dm'.displays) # {}
             THEN "corrupt" ELSE heap
  /\ UNCHANGED <<xservers, rescan, childReady, armed, pc, pass>>

(* RescanNotify; its handler is installed after the first pass. *)
RescanNotify ==
  /\ Up /\ ~(pass.after = "boot" /\ pc \in {"start", "pause", "retry"})
  /\ rescan' = TRUE /\ interrupted' = Interrupts
  /\ UNCHANGED <<dm, xservers, childReady, armed, shutdown, sockets, pc, pass, heap>>

(* A process ends.  ChildNotify sets ChildReady; the handler is reset by   *)
(* its call, until signal installs it again.                               *)
Exit(p) ==
  /\ Up /\ p \in Live(dm)
  /\ \E c \in (IF dm.procs[p].kind = "session" THEN ExitCodes ELSE {"none"}) :
       /\ c = "suspend" => dm.procs[p].of \in Local
       /\ dm' = [dm EXCEPT !.procs = [dm.procs EXCEPT
                    ![p] = [dm.procs[p] EXCEPT !.life = "dead", !.code = c]]]
  /\ childReady' = (childReady \/ armed) /\ armed' = FALSE
  /\ interrupted' = IF armed THEN Interrupts ELSE interrupted
  /\ UNCHANGED <<xservers, rescan, shutdown, sockets, pc, pass, heap>>

Edit ==
  /\ Up /\ edits < MaxEdits
  /\ file' \in {g \in Files : <<file, g>> \in Edits}
  /\ modified' = TRUE /\ edits' = edits + 1
  /\ UNCHANGED <<dm, signals, shutdown, sockets, pc, pass, heap>>
-----------------------------------------------------------------------------
(* InitResources, ScanServers and the start of the first pass. *)
Init ==
  /\ file \in Files
  /\ dm = [displays |-> file, dpy |-> [d \in Displays |-> Fresh],
           procs |-> [p \in Pids |-> NoProc], wakeup |-> -1]
  /\ modified = FALSE /\ edits = 0
  /\ rescan = FALSE /\ childReady = FALSE /\ armed = FALSE /\ interrupted = FALSE
  /\ shutdown = FALSE /\ sockets = TRUE
  /\ pc = "start"
  /\ \E n \in SavedNext(file) :
       pass = [cur |-> None, next |-> n, left |-> file \ {n}, attempt |-> 0,
               after |-> "boot"]
  /\ heap = "intact"

Main ==
  /\ heap = "intact"
  /\ \/ CheckDisplayStatus \/ PauseReaps \/ PauseEnds \/ RetryServer \/ EndPass
     \/ Loop \/ WaitForSomething \/ SelectReturns \/ WaitForChild

Next ==
  \/ Main
  \/ heap = "intact" /\ Packet
  \/ StopAll \/ RescanNotify \/ Edit
  \/ \E p \in Pids : Exit(p)

Told(p) == dm.procs[p].life = "told" /\ Exit(p)

Spec ==
  /\ Init /\ [][Next]_vars
  /\ WF_vars(Main)
  /\ \A p \in Pids : WF_vars(Told(p))
-----------------------------------------------------------------------------
(* Every variable has its type. *)
TypeOK ==
  /\ dm \in State
  /\ file \in Files /\ edits \in 0..MaxEdits
  /\ {modified, rescan, childReady, armed, interrupted, shutdown, sockets}
       \subseteq BOOLEAN
  /\ pc \in Stage /\ pass \in PassRecord
  /\ heap \in {"intact", "corrupt"}

(* Until SIGTERM two X servers never run for one display, nor a server and *)
(* the getty that dtlogin started on its line: a display that is stopped,  *)
(* restarted, dropped from the file and entered again waits for the old    *)
(* one's death (dm.c:855, RemoveDisplay of a zombie; dm.c:1192 tests       *)
(* serverPid).                                                             *)
OneServer ==
  sockets => \A d \in Displays :
    Cardinality({p \in Live(dm) : dm.procs[p].of = d
                                  /\ dm.procs[p].kind \in {"server", "getty"}}) <= 1

(* dtlogin does not lose sight of a child that nobody has told to end:     *)
(* it is the session or the server of a display, so that none survives the *)
(* exit of dtlogin (dm.c:323, AnyDisplaysLeft).  With serverAttempts above *)
(* 1, its default, only until SIGTERM: StartServer tries again after it.   *)
Watched ==
  heap = "intact" /\ (sockets \/ ServerAttempts = 1) =>
    \A p \in Pids : dm.procs[p].life = "alive" =>
      \E d \in dm.displays : p \in {dm.dpy[d].pid, dm.dpy[d].serverPid}

(* A display that has been given up for a text login is looked at again:   *)
(* the timer of WaitForSomething runs (dm.c:1780 sets it, dm.c:932-967     *)
(* use it).                                                                *)
LoginPolled ==
  \A d \in dm.displays :
    dm.dpy[d].status = "suspended" /\ dm.dpy[d].serverPid = NoPid => dm.wakeup # -1

(* After SIGTERM dtlogin stops all displays and exits (dm.c:524), unless   *)
(* the handler has freed a display that the interrupted pass goes on with, *)
(* or shutdown has been cleared since, which happens when an entry is      *)
(* found to be missing (dm.c:924).                                         *)
ShutdownEnds ==
  [](sockets \/ shutdown) => (~sockets ~> (pc = "done" \/ heap = "corrupt"))

(* "Keep a sub-daemon running for each entry" (dm.c:306-307): a display    *)
(* that counts as running and has no session is not left so.               *)
KeptRunning ==
  \A d \in Displays :
    d \in dm.displays /\ dm.dpy[d].status = "running" /\ dm.dpy[d].pid = NoPid
      ~> ~(d \in dm.displays /\ dm.dpy[d].status = "running" /\ dm.dpy[d].pid = NoPid)
=============================================================================
