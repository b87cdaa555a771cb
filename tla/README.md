# Verification of CDE's coordination code

CDE (Common Desktop Environment) is a collection of X programs that are tied
together by a few protocols.  This project models those protocols in TLA+,
checks the models with TLC and proves theorems about them with TLAPS.  It begins
with the one everything else leans on: ToolTalk, the message service through
which desktop programs send each other requests, and its server, `ttsession`.
Then comes the process the desktop itself leans on: `dtlogin`, which keeps an X
server and a session on every display, and gives sessions to X terminals.

Paths below are relative to `src/cde`; `slib/` and `lib/mp/` abbreviate
`lib/tt/slib/` and `lib/tt/lib/mp/`; files of dtlogin are in `cde1/dtlogin/`.

## 1. Inventory

### ToolTalk message server (`slib/`, `bin/ttsession`)

| part | state it keeps | operations | partners |
|---|---|---|---|
| request `_Tt_s_message` | `_state`, `_handler`, `_tried`, `_state_reported`, list of voters | dispatch, deliver, match_patterns, change_state, rejected, queued, started, handle_no_recipients | procids, session queue, ptypes |
| procid `_Tt_s_procid` | `_flags` (active, channel, signalled), `_undelivered`, `_delivered`, `_patterns`, on-exit messages | add_message, signal_new_message, next_message, update_message, add/del_pattern, activate, deactivate | the client process by a signalling socket and by RPC |
| session `_Tt_s_session` | `_queued_messages` | queue_message, pattern_added, s_join, s_quit | messages, procids |
| server `_Tt_s_mp` | `active_procs`, `_active_fds`, pattern tables | find_proc, main_loop, s_remove_procid | RPC server |
| RPC server | svc file descriptors | run_until | select(2) |
| ptype `_Tt_ptype` | `_launching`, `_startmsg`, `_queued_messages` | start, launch, proc_started, proc_replied, launch_failed | child processes, messages |
| offers | eligible voters, ballots | add_eligible_voter, add_voter, count_ballots | procids |
| patterns, signatures | categories, ops, scopes, timestamps | match, `_tt_excludes` | deliver |
| file scope | lists of sessions per file | hdispatch, queued file messages | rpc.ttdbserverd, other sessions |

What is hard here: the server is single threaded, but its functions call each
other recursively through a dying client.  Delivering to a client signals it; a
signal that fails deactivates the client on the spot; deactivating fails the
requests it held; every failure is delivered, to clients that may be dead too.
Lists are walked with cursors while all this edits them.  Clients die at any
moment, with RPCs of theirs still unread in the server's sockets, and sends and
updates are one-way RPCs, so that a client is ahead of what the server knows.

Correctness: a request has one owner at a time and is never handed twice to the
same process; none is lost; its end is final and reported once to its sender;
observers see its states in order; a client with messages is awake; the
recursion ends.

### Display manager (`cde1/dtlogin`)

| part | state it keeps | operations | partners |
|---|---|---|---|
| display (`struct display`) | `status`, `state`, `pid`, `serverPid`, `startTries` | StopDisplay, RestartDisplay, RemoveDisplay, CheckDisplayStatus | X server, session process |
| main loop | `Rescan`, `ChildReady`, `shutdown`, `wakeupTime` | StartDisplays, RescanServers, WaitForSomething, WaitForChild, ProcessChildDeath | handlers of SIGCHLD, SIGHUP, SIGTERM |
| server start | `receivedUsr1`, `serverPauseRet` | StartServer, serverPause, CleanUpChild | SIGUSR1 of the X server, an alarm |
| getty | the line's utmp entry | StartGetty, GettyRunning | the text login on the console |
| session, greeter | exit code of the child | ManageSession, ManageGreeter | the main process, by `wait` |
| XDMCP | `protoDisplays`, `globalSessionID`, displays of origin FromXDMCP | query_respond, indirect_respond, request_respond, manage, send_alive | X terminals, by datagrams |
| chooser | `indirectUsers`, `choices` | ProcessChooserSocket, IndirectChoice, UseChooser | chooser programs, by a socket |

What is hard here: one process does everything, and signals come between any two
of its steps; the handler of SIGTERM works on the list of displays itself, also
while the main loop walks it.  Children die at any moment, in any order, and what
becomes of a display is decided from the way its session ended and the status it
has by then.  The Xservers file is edited meanwhile.

With X terminals it is the network that does not keep order: a datagram is lost,
comes twice or comes late, a terminal is switched off and on, and dtlogin's host
too.  dtlogin sends nothing twice by itself; it must give the same answer to the
same question, and know an old question when it sees one.

Correctness: no display has two servers; no child is lost sight of; a display
in the file is served; dtlogin exits when told to; a terminal has one session, the
one it asked for last, and gets one in the end.

### The other components

* **ToolTalk client library** (`lib/mp/mp_c_*.C`): local copies of messages,
  `_unvoted` offers, clearing of the signal.  Hard: order of RPC replies,
  one-way RPCs and bytes in the signalling channel.
* **ToolTalk database server** (`lib/tt/bin/ttdbserverd`, `lib/tt/lib/db`,
  `lib/tt/mini_isam`): file-scope tables, object database, an ISAM B-tree.
  Correct when index and records agree after each operation and after errors.
* **Session start-up** (`lib/mp/mp_desktop.C`, `bin/ttsession`): one server per
  display, through an X property and a lock.
* **SPC** (`lib1/DtSvc/DtEncap`, `cde1/dtspcd`, `cde1/dtexec`): runs commands on
  other hosts; a state machine per connection, a child process per request.
  Correct when the end of a child, of a pipe and of the connection are each
  seen once, in any order.
* **dtsession**: WM_SAVE_YOURSELF round with clients that do not answer; locking.
* **rpc.cmsd** (`cde1/dtcm/server`): calendar files, client callbacks, garbage
  collection.
* **dtmail**: mailbox locks shared with other mail programs.
* **dsdm**: ownership of the drop-site selection.
* **dtwm, dtfile, dtterm, dtpad, dtcalc, dticon, dtstyle, dthelp and others**:
  sequential GUI programs driven by X events; tools that read and write files;
  vendored code (ksh-93, c-client).  Not planned.

## 2. Plan

Most important first.  A module of proofs goes with each module that has some.

1. `TtSession`, `TtRequest` - requests through one session:
   **done** for dispositions discard and queue (section 3).
2. `TtPtype` - launching an instance, start message, queue per ptype, exit of
   instances and the main loop: **done** for one ptype (section 3).
3. `TtOffer` - eligible voters and ballots: **done** for one offer (section 3).
4. `TtSignal`, `TtBell` - the byte in the channel against `clear_signal`, on both
   sides, implementing "a client with messages will look": **done** for one client.
5. `TtMatch` - `_tt_excludes` and `match_handler` over any order of registrations,
   deaths and rejections: **done** for dynamic patterns.
6. `DtLogin` - displays, servers, sessions and signals of dtlogin: **done** for the
   displays of the Xservers file.
7. `DtXdmcp` - the handshake of XDMCP with lost and repeated datagrams, the
   sessions of X terminals and the chooser: **done** for socket.c and protodpy.c.
8. Opening of procids, on-exit messages, TT_HANDLER addressing added to
   `TtSession`; file scope over two sessions.
9. SPC connection, dtsession's save round, dsdm.

Theorem wanted next: `UnblockedWhileOne` of `TtPtype`, for launches that do not fail
and requests that are not also of disposition queue.

## 3. What is modelled

### `TtSession`

The server's call stack is a variable, `stack`: a sequence of frames, one for
every function that may be suspended while something below it runs.  A step of
`Run` executes the topmost frame up to its next call.  Thus the recursion is
modelled to whatever depth the code reaches, and a client may die between any
two steps.

| frame | code suspended |
|---|---|
| `deliver`, `match` | `_Tt_s_message::deliver`, `match_patterns` with its cursor |
| `change` | `change_state` about to enter `to` |
| `report` | `report_state_change` |
| `return` | the value `deliver` returns |
| `deactivate`, `unread`, `unanswered`, `orphaned`, `forget` | the parts of `_Tt_s_procid::deactivate` |
| `redeliver`, `requeue` | the loop of `_Tt_s_session::pattern_added` |

`ServeRegister`, `ServeUnregister`, `ServeJoin`, `ServeSend`, `ServeNext`,
`ServeUpdate` and `ServeClose` are the RPC handlers; `Hangup` is the main loop
finding a signalling channel lost.  All need an empty stack (`Idle`).
`AskPlanned`, `AskNext`, `AskUpdate` put an RPC of a client in its socket `rpc`,
and `Die` ends the client.  A client waits for the answer of an RPC unless it
is a send or an update.

Once the walk of a list has used a freed element the program's behaviour is
undefined; `heap` becomes "corrupt" and the server stops.  What the properties
say is what holds until then; the run `heap` shows the case itself.

Abstractions, each of which admits more behaviours than the code unless noted:

* The order of patterns in a list and their match scores: any pattern may come
  next, and a later handler may or may not beat the best one.  The first match
  is always taken.
* `OplessToo` says whether patterns without an op exist beside those with the
  op.  In that case `deliver` walks a copy of the lists, otherwise the table's
  own list.  It is fixed per run (the code decides at every delivery).
* Clients begin opened, with a channel; opening (`set_fd_channel`, `activate`)
  is not modelled, so no procid becomes active again.
* Signalling a live client succeeds; signalling a dead one may succeed or fail
  until a byte is in its channel, and nothing is sent after that.
* The RPCs a client wrote before it died are served before the loss of its
  channel is handled: `run_until` calls `svc_getreqset` on the same `select`
  that reported the loss (`slib/mp_rpc_server.C:325-346`).
  This takes it that they fit the buffer of one read.
* A message to a ptype the server does not know (`BadAddress`) fails in
  `dispatch` and is delivered all the same: `_tt_rpc_dispatch_2` says XXX there.
* History variables: `told` (what `next_message` showed the sender) and
  `given` (which processes got the request).  No guard reads them.

Left out: notices and offers, start disposition, TT_HANDLER addressing, static
observers, file scope, request timeouts, on-exit messages, RPC errors,
authentication, and the contents of messages.

### `TtPtype`

A request of disposition TT_START that nobody handles waits in `ptypeQueue`
while ttsession launches an instance of the ptype (`launching`, `startPid`).
The instance connects with a start token and is given the first request
(`RunStarted`); when it accepts or answers it, the others are delivered in turn,
and for the first that finds no handler another instance is launched
(`RunReplied`, `RunFlush`, `RunFlushed`).  An instance that exits meanwhile makes
everything in the queue fail (`Notify`).

The way of that exit is modelled step by step, since it comes by a signal: the
kernel (`zombies`, `sigchld`), the handler (`Sigchld`, one `waitpid`), the ring
`failedProcs` with `fin` and `fout`, `exitMainLoop`, and `pc`, where the service
loop of `main` and the loops inside it are:

| `pc` | next statement |
|---|---|
| `clear`, `check` | `exit_main_loop = 0`; the first `notify_start_failure` |
| `test` | the conditions of `main_loop` and `run_until` |
| `poll`, `wait` | about to enter `select`; blocked in it |
| `bottom` | the second `notify_start_failure` |

As in `TtSession` a stack of frames stands for the calls in progress
(`deliver`, `requeue`, `flushed`, `change`, `started`, `deactivate`, `replied`,
`flush`, `failqueue`, `update`, `redeliver`).  What `TtSession` checks in detail
is coarser here: `deactivate` is one step, observers and what the sender is told
are left out, and a message in a list is taken to be signalled.

Other abstractions: one ptype, whose instances are the processes forked, each
one process (the shell that `launch` starts and the application are not told
apart); an instance connects, then registers, each at most once; clients ask for
something only while the server is in `select`, but exit at any time;
`registered \ active # {}` may end a walk of patterns early (`RegistrantsActive`,
section 4).
Constants switch on what a run is not about: `Accepts` (tt_message_accept),
`ForkFails`, `Coalesce` (two exits for one SIGCHLD), `AlsoQueued` (requests of
disposition queue and start).

### `TtRequest`

What a sender may expect: a request is new, open or ended; an open one has at
most one holder; a process is given a request once; the end is final.
`TtSession!Implements` maps the state to `phase`, and the active process that
has the request in `_delivered`, or unread and as its handler, to `holder`.

### `TtOffer`

One offer, from `ServeSend` to the report to its sender.  Again a stack of frames
stands for the calls in progress:

| frame | code suspended |
|---|---|
| `match` | `match_patterns`, with the patterns still to visit and the best so far |
| `ballots` | about to enter `count_ballots` |
| `report` | `report_state_change` |
| `deactivate`, `unread`, `unanswered`, `forget` | the parts of `_Tt_s_procid::deactivate` |

`AddMessage` is `_Tt_s_procid::add_message`, with its three ends: an old client
abstains at once, an element already in the list moves to its end, a new one is
counted (`yetToVote`) and signalled.  A client votes with `AskVote`, and once more
by `AskNext`, since tt_message_receive abstains from the last offer
(`hand` is `_unvoted`).  An entry of a list is either the offer itself or an
observer's copy in the state it was made in; `Votable` is the test with which
`_Tt_procid::processing` and the server decide whether an entry is to be voted on.

Left out: queued and started offers, file scope, static observers, the walk of a
table's own list (`TtSession!heap` shows what that does).  A client of an older
version abstains when it is handed the offer, having been counted by nobody: that
is the code's arithmetic (`slib/mp_s_message.C:1784`), and `miscounted` remembers
it.  `asked`, `miscounted` and `told` are history variables.

### `TtSignal`, `TtBell`

The signalling channel of one client: `Signal` is `add_message` with
`signal_new_message`, `ServeNext` is `_tt_rpc_next_message`; `Look` and `Finish`
are the two halves of tt_message_receive around its RPC, so that the server may
send the next byte after it has said "clear the signal" and before the client
does.  The byte is sent on a connection of its own (`slib/mp_s_procid.C:904`) and is
in `transit` until it comes (`Arrive`), before or after any answer.  A client that asks
without having been signalled (`LookUnprompted`) may therefore be told to read a byte
that is not there yet: `clear_signal` reads nothing (`lib/mp/mp_c_procid.C:861`), and
the byte, when it comes, is left over.  `SignalFails` and `Hangup` end the channel; the
client's process lives on and reads end of file for ever.

`TtBell` is what `TtSession` assumes of all this: a client is signalled or not, a
look takes one message, the last one takes the signal.  `TtSignal!ImplementsBell`
is the refinement, with the client as signalled while the server's flag is set
and the channel works.

### `TtMatch`

The choice of a handler.  `Register` is `add_pattern`, with the clock and the
pattern's own list (with or without an operation); `Send` and `Reject` start a
walk over the copy of both lists, `MatchHandler` is one turn of `match_patterns`
with `match_handler` and both tests of `_tt_excludes`; `GiveToHandler`,
`HandlerIsDead` and `NoHandler` are its three ends.  `MatchInactive` is the fourth
turn of the loop: at a pattern whose registrant is not active `match_patterns` returns
(`slib/mp_s_message.C:1127`), the rest of the patterns is not visited, and the clock does
not tick (`:1176`).  Such patterns (`stale`) come from an `add_pattern` that is served
after the client was deactivated, and nobody deletes them: a client that comes back
(`Activate`) is another procid.  How well a pattern matches
is a parameter, `Score`: the matching of fields is pure data.  `later` is history:
which pattern was matched (or, a push pattern, registered) after which, by walks that
were not cut short; after one that was, a pattern may have the same time as another.

While a stale pattern is registered the code makes no promise about what lies behind it:
the five properties say so with `RegistrantsActive`, all but the first half of `Trumps`
(the request goes to an eligible pattern, which a stale one is not).

### `DtLogin`

The main process of dtlogin, as built for Solaris (`sun` and `SVR4` defined,
`SYSV` not).  The list of displays, the children and `wakeupTime` are one record,
`dm`; functions that work on it (`StopDisplay`, `RestartDisplay`, `StartGetty`,
`ProcessChildDeath` and others) are operators from one value of `dm` to the next,
or to the set of possible ones.  `pc` says where the main loop is:

| `pc` | next statement |
|---|---|
| `loop` | the condition of the loop in `main` |
| `start` | `ForEachDisplay(CheckDisplayStatus)`, between two displays |
| `pause`, `retry` | `StartServer` inside `serverPause`, and after a failure |
| `test`, `entering`, `select` | `WaitForSomething` before, just before and in `select` |
| `reap`, `sleep`, `wait` | `WaitForChild`, with sockets and without |

The handlers `StopAll`, `RescanNotify` and `Exit` (which includes `ChildNotify`)
may run at each of these points.  `ForEachDisplay` saves the next display before
it visits the current one; if `StopAll` frees either, the pass goes on in freed
memory, and `heap` becomes "corrupt".

Abstractions: the order of the list of displays is left open; a process id that
a display still names is not given to a new process; a session ends with one of
`ExitCodes`; a text login on the line of a display is in use or not, as it may
be.  Left out: displays of XDMCP (see `DtXdmcp`), the remote greeter,
authorisation files, reloading of the resources, and what `ResetLocalGreeter`
changes.  `ReadyEarly`, `ForkFails` and the two limits on attempts are parameters.

### `DtXdmcp`

What dtlogin does for X terminals, as built with `socket.c` and `protodpy.c`, in a
build whose main loop is in `WaitForSomething` (with a socket open, it always is).

| variable | code |
|---|---|
| `protos` | `protoDisplays`: sessions accepted and not started; `old` after PROTO_TIMEOUT |
| `displays` | the displays of origin FromXDMCP: sessions started |
| `lastId` | `globalSessionID` |
| `indirect`, `choice`, `chosen` | `indirectUsers`, `choices`, chooser connections not accepted yet |
| `procs` | the processes that StartDisplay has forked |
| `net`, `term` | datagrams on their way; the X terminals |

`Serve(t)` is one turn of `WaitForSomething` that reads a datagram: one connection of
the chooser's socket is accepted first, then `query_respond`, `indirect_respond`,
`request_respond`, `manage` or `send_alive` runs.  `ChooserTurn` is a turn without a
datagram.  `ProcessChildDeath` and `Stop` are the rest of dtlogin, `OpenDisplay`,
`OpenFails` and `End` its sessions.

The X terminal is not in the repository.  Its states (`Knowledge`, `Asking`,
`Receive`) are those of `cde1/dtlogin/protocol`: it asks until it is answered,
ignores what does not fit its state, and closes its connections when it starts anew.
It turns away a session that does not show the authorization of the Accept it has
acted on (`Authorized`); an Accept that dtlogin repeats holds none (kind `again`).

What may go wrong is named in `Fault`, and each case takes one of `MaxFaults`.  The
same budget covers choices of the users (a session left, a host chosen) and
timeouts of dtlogin, so a run has any mixture of them.  An answer sent to
a port that a rebooted terminal has left is not sent.

Left out: declining, refusals by the access file, broadcast and forwarded queries,
XDM-AUTHENTICATION, memory exhaustion; every terminal has the entry CHOOSER in
Xaccess, and one display.  A session's content is only that it runs, fails to open
its display, or ends.

## 4. What is checked

Runs of `MCTtSession`, with three clients: `a` sends `m1`, `b` and `c`
register and may die, leave or both; `c` also sends `m2` where there are two
messages.

| run | setting | properties | what it shows |
|---|---|---|---|
| `two` | `m1`, `m2`; b handles or observes, c sends `m2` and handles, possibly its own request; or `m1` alone, b handles, c handles and observes; b and c may die | OneOwner, NoneLost, SenderTold, FinalIsFinal, Implements | ownership and end of requests with two failures nested in one another |
| `live` | `m1`; c may die, b unregisters and closes; a and c observe | ObserverOrder, ServerReturns, OrphanEnds | recursion ends; orphans end; order at observers |
| `queue` | `m1` queueable, `m2` to an unknown ptype; b handles and joins; c handles, observes, and joins or else sends `m2`; c may die; table lists walked in place | Wakeup, QueueKept | the session queue and the signalling flag |
| `heap` | as `live`, b may die too, no copy of the lists | HeapIntact | violated, see below |

Runs of `MCTtPtype`: `snd` sends `m1` and `m2`; `i1`, `i2` and, in `launchlive`, `i3`
may be launched, in any order; `usr` is another client.

| run | setting | properties | what it shows |
|---|---|---|---|
| `launch` | `m1` start, `m2` start and queue; both instances may exit; they reply or reject; fork may fail | QueueLaunched, OnePlace, NoneLost, LaunchedOnce | requests that wait on the ptype and the flag that says it is launched agree, whatever is rejected, relaunched or lost on the way; nothing is launched while that flag is set |
| `launchlive` | `m1`, `m2` start; three instances, which accept their start message and do not answer it; `i1` may exit; `usr` registers as a handler and keeps asking for messages | LaunchWatched, UnblockedWhileOne, ExitNoticedInTraffic | as long as one instance at a time is on its way, nothing waits for something that cannot happen |

The other parts:

| run | setting | properties | what it shows |
|---|---|---|---|
| `offer` (`MCTtOffer`) | `a` sends; b, c observe or handle in several mixtures, also the sender itself; d is an old client; b, c may die or close | TypeOK, AllVoted, NoneStuck, VotesMatch, SenderTold, Returned | every vote counts once, the offer waits only for clients that are there, and comes back |
| `signal` (`TtSignal`) | five messages, three calls without a signal, a byte that comes late, a channel that may fail or be lost | Awake, Quiet, ImplementsBell, Settles | no wake-up is lost; only a call without a signal may leave a byte over; every message is read |
| `match` (`MCTtMatch`) | two push, three rotate and a handle pattern; those of p name no operation, s may die and leave a pattern; for request x all tie, y prefers one of each category | Trumps, FailsLast, BestMatch, LeastRecent, Newest | while all registrants are active the choice is the one that categories, scores and times call for; none ever falls on a stale pattern |
| `login` (`MCDtLogin`) | a console with a text line and an X terminal; the console's entry is removed and added while processes end; SIGHUP, SIGTERM at any moment; servers survive their sessions | OneServer, Watched, ShutdownEnds | one server per display, no child forgotten, an end when told to |
| `xdmcp` (`MCDtXdmcp`) | one X terminal, two process ids, three faults of any kind at any moment | OneSession, IdsApart, NewestKept, ChoiceHonoured, Settles | the terminal and dtlogin agree on one session, the newest, however datagrams are lost, repeated and overtaken, and get there; a choice is heeded at once unless it waits behind another |
| `loginstuck` (`MCDtLogin`) | the console alone, servers end with their sessions | KeptRunning | violated, see below |

`TypeOK` is checked in `offer`; of the other modules it is proved (section 5).
`NoneLost` and `FinalIsFinal` of `TtSession` are not checked with queueable
requests: there they fail, for the reason `QueueWaits` shows (below).
`ObserverOrder` leaves out `BadAddress` requests, whose FAILED copy is sent twice.
`AllVoted`, `VotesMatch` and `SenderTold` of `TtOffer` leave out the offers in which
someone abstained while the voters were still being counted; what happens to those
is below, under `ReturnedWhenAllVoted`.  `OneServer` speaks of the time until
SIGTERM, `Watched` does so if there is more than one server attempt.

**Bounds.**  `TtSession`: `MaxPending = 2` RPCs of a client wait at most; that is
enough for an answer and a next message, or a registration, to be behind a one-way
send.  Each client does what it plans once, `plan` being one of the constant
`Plans`, its calls in any order; fetching and answering are not planned and happen
whenever the client can.  Three clients are needed for a sender, the handler
that dies and one that may take over; two requests for a client to be handler of
one and sender of the other.  The depth of the stack has no bound.

`TtPtype`: two launches let an exit, an answer or a rejection of one instance
cross the launch of the next, which is what `QueueLaunched`, `OnePlace`, `NoneLost`
and `LaunchedOnce` depend on; they are proved for any number of instances and
requests (section 5).  When the instances are used up the server of the model stops
at the next launch.  For the flag to be cleared too early, and yet another instance
launched, three are needed: with two, `OneLaunch` and `Unblocked` hold, with three
they do not (below), hence the three of `launchlive` and the condition of
`UnblockedWhileOne`.  In `launchlive` TLC reaches states with two instances on their
way, but finds none in which that leaves requests waiting for nothing: this takes a third
request as well, and two exits.  `MaxPids = 4` slots exceed
the exits possible, so the ring does not overflow (256 slots in the code); that it
does not if there are fewer instances than slots is proved.

`TtOffer`: a client has at most `MaxPending = 1` RPC in its socket before it
votes or fetches (which puts two at once); a vote is sent at most twice.  Three
observers and handlers let one voter die while another votes and a third has not
read.  `TtSignal`: five messages and three calls without a signal let a byte be
left over, sent and cleared several times over.  `TtMatch`: `MaxNow = 6` bounds
registrations and matches together, so that three rotate patterns can be
registered and two be matched.  The instance lets a stale pattern hide what lies
behind it in every way that counts: without `RegistrantsActive` TLC refutes all five
properties in it.  `DtLogin`: four process ids, since an old
server, an old session and both successors may be there at once; two edits take
the console out of the file and put it back.  `DtXdmcp`: three faults are what it takes for a
Request and a Manage to be repeated and a terminal to come back from another port, or
for a late datagram to meet a restarted dtlogin; there are 280 thousand states.  Two
process ids are for an old session that has been told to end and for its successor; a
third session waits until one of them is reaped.  (With three ids, 700 thousand
states, the properties hold as well.)
One terminal, so that neither `Behind` nor `Confused`, the two cases that
`ChoiceHonoured` and `Settles` leave out, arises in the run.  With `Terminal = {t1, t2}`
both arise, and the five properties hold too: with one fault of any kind (258 thousand
states), with `Faults = {"quit"}` and `MaxFaults = 2` (286 thousand), and with
`Faults = {"stop"}` and `MaxFaults = 2` (960 thousand); all faults at once are too many
for two terminals.  All but `Settles` are proved for any number of terminals.  The
ports and ids are bounded by the faults that raise them.

**Fairness.**  `TtSession`: weak fairness of `Run`, because the server is one
thread that does not wait inside a handler, and of `ServeRpc(p)` and `Hangup(p)`
for each client, because `run_until` serves every descriptor that `select`
reports, in every pass.  `TtPtype`: weak fairness of `Server`, one thread, and of
`Sigchld`, since signals are not blocked; `ExitNoticedInTraffic` assumes besides
that the server is given RPCs again and again, as part of the property.
`TtOffer`: the server as in `TtSession`, and `AskNext(p)`: a client looks when it
is signalled and does not keep an offer for ever, the duty that
`lib/tt/internal_doc/README:1588` puts on it.  `TtSignal`: `ServeNext` of the
server, `Look` and `Finish` of a client that selects on its channel, and `Arrive`: TCP
brings the byte as long as the connection holds.  `TtMatch`
has no liveness property.  `DtLogin`: weak fairness of `Main`, one process whose
waits all end by a signal, by an alarm or by the death of a child, and of
`Told(p)`: a process that was sent SIGTERM ends.  Nothing is assumed of processes
that were not.  `DtXdmcp`: weak fairness, for each terminal, of `Send` and `Hear`, since
a terminal repeats its question until it is answered (`protocol:746`), and of `Serve`,
since dtlogin reads every datagram in turn; of reaping, of opening the display, and
of the end of a process that was told or lost its display; of `ChooserTurn`.  A lost
datagram takes a fault, and faults are finite: this is the usual assumption that not
every repetition is lost.

`CHECK_DEADLOCK FALSE` in every run because clients that have done what they
planned, or have died, leave the server at rest; `DtLogin` ends on purpose, and
stops, like `TtSession`, when the heap is corrupt.

### Findings

* **heap**.  `match_patterns` delivers to a dead observer; the failed signal
  deactivates it inside the walk; `del_pattern` deletes the list element
  under the walk's cursor (`slib/mp_s_message.C:1121`).
  `lib/tt/lib/util/tt_object_list.C:436` warns of exactly this.  The same
  happens to the cursor of `deactivate` when a request a client sent to itself
  is moved to the end of its list (`slib/mp_s_procid.C:113`).
* **loginstuck**.  The X server of a local display dies under the greeter.  The
  greeter is told to end and exits with UNMANAGE_DISPLAY; `StopDisplay` finds no
  server, and for a local display it then does nothing (`dm.c:1465`).  The
  display counts as running and has neither server nor session; `dm.c:306`
  promises a sub-daemon for each entry.

### Known disagreements without a run of their own

TLC refutes the following formulas, which the modules state, in the settings
given.  To see a trace, put the formula into the cfg named.

| formula | setting | what happens |
|---|---|---|
| `TtSession!RegistrantsActive` | `heap` with `OplessToo = TRUE` | an `add_pattern` served after its client was deactivated leaves a pattern nobody removes; `match_patterns` returns at it and ignores those behind |
| `TtSession!QueueWaits` | `queue` | a client joins that cannot handle a queued request: the request is reported FAILED, then put back to QUEUED, and its later, real failure is not reported |
| `TtPtype!QueuedUntilReceived` | `launch` | a request of dispositions queue and start is in the ptype's queue and in the session's; delivery from one does not remove it from the other (`slib/mp_s_message.C:1492`): the instance started for it receives it, and when a process joins, `pattern_added` sets its state back to TT_SENT and delivers it again; the manual page of tt_message_disposition has it queued until a process receives it |
| `TtPtype!ExitNoticed` | `launchlive` | the main loop tests `exit_main_loop` and then blocks in `select`; a SIGCHLD between the two is not looked at until some client sends an RPC |
| `TtPtype!LaunchWatched` | `launchlive` with `ForkFails = TRUE` | `launch` sets `_launching` before `fork` and leaves it set when that fails: later requests queue behind a launch that no exit will end |
| `TtPtype!ExitNoticedInTraffic` | `launchlive` with `Coalesce = TRUE`, `Mortal = {i1, i2}` | one `waitpid` per SIGCHLD leaves the second of two children unnoticed |
| `TtPtype!OneLaunch` | `launchlive` | the exit of an instance is noticed while its acceptance is still in the socket; the next request launches a second instance, then the acceptance of the first is served, and `proc_replied` clears `_launching` without a look at whose answer it is (`slib/mp_ptype.C:428`): a third instance is launched while the second is on its way; the comment `slib/mp_ptype.C:270-272` has the flag cleared only when the process that is being started has appeared |
| `TtPtype!Unblocked` | `launchlive` with `Msg = {m1, m2, m3}`, `User = {snd}`, `Mortal = {i1, i2}`, `Accepts = FALSE`, `Answers = {"HANDLED"}`, `MaxPids = 5` | the same, and the instance that connects first is given what another was launched for: the last requests wait on a ptype nobody is launched for, with `_launching` set |
| `TtOffer!NoneStuck` | `offer` with `Registries <- Both` | a client that observes and is the best match dies during the walk: its copy is abstained for while it is still to be counted as handler; `lib/tt/internal_doc/README:1649` expects the offer to end |
| `TtOffer!ReturnedWhenAllVoted` | `offer` | an abstention during the hand-out is counted against voters not counted yet (`slib/mp_s_message.C:1784`), and the offer is returned while others still vote; `internal_doc/README:1558` has it returned when all have |
| `TtSignal!WontLoop` | `signal` | a client the server has dropped goes on asking for messages: the server says "clear the signal" with its error (`slib/mp_rpc_implement.C:741`), the client heeds it only with a message (`lib/mp/mp_c_procid.C:570-605`) |
| `TtSignal!Sleeps` | `signal` | a call without a signal takes the last message while its byte is on the way: `clear_signal` finds nothing to read (`lib/mp/mp_c_procid.C:861`); when the byte comes the client looks, gets an answer without a message, and such an answer clears nothing (`:570-605`): it looks again, for ever, until the next message.  With `Unprompted = 0` TLC finds `Sleeps` to hold |
| `TtMatch!Trumps`, `FailsLast`, `BestMatch`, `LeastRecent`, `Newest` without `RegistrantsActive` | `match` | the walk ends at a stale pattern with patterns of active clients unvisited: the request fails, or goes to a lower category, a worse match, a rotate pattern matched more recently or an older push pattern before it |
| `TtMatch!RegistrantsActive` | `match` | as for `TtSession` above |
| `TtMatch!BestPush` | `match` | a push pattern that matches less well replaces a better one if it comes later in the walk; `internal_doc/README:1930` says that the best matching ones are found first |
| `DtLogin!OneServer`, `Watched` | `login` with `ReadyEarly = TRUE` | SIGUSR1 comes before `serverPause` waits: it asks `waitpid` for its own process group, where no child is, takes ECHILD for the death of the server, and starts another, or drops the display and forgets the server (`server.c:314`) |
| `DtLogin!OneServer` without `sockets =>` | `login` with two local displays, five pids, any contents and edits of the file | the session whose server was starting at SIGTERM is started all the same; once an entry is missing `shutdown` is cleared (`dm.c:924`), and SIGHUP brings a display back whose server is still dying |
| `DtLogin!Watched` without its condition | `login` with `ServerAttempts = 2` | `StartServer` tries again after SIGTERM |
| `DtLogin!LoginPolled` | `login` with two displays with a line | one `wakeupTime` for all: the first that is taken up again stops the polling for the others (`dm.c:954`) |
| `DtLogin!KeptRunning` | `loginstuck` with two local displays in the file and no session that ends with `unmanage` | `serverPause` reaps children of other displays and drops their pids (`server.c:309`) |
| `DtXdmcp!Admitted` | `xdmcp` with `Faults = {"lose"}`, `MaxFaults = 1` | the Accept for a repeated Request is sent without authorization (`socket.c:896`) while the session uses the one made at the first: the terminal turns it away and starts over; `protocol:628` has a lost Accept mended by a repeated Request |
| `DtXdmcp!RefuseTrue` | `xdmcp` with `Faults = {"resend", "duplicate"}`, `MaxFaults = 2` | a Manage that comes again when its session is started and another one is proposed is refused, instead of being ignored as a duplicate (`socket.c:1090-1096`) |
| `DtXdmcp!AliveTrue` | `xdmcp` with `Terminal = {t1, t2}`, `Faults = {"stop"}`, `MaxFaults = 1` | ids start at 1 again (`socket.c:822`): Alive is said to a terminal for the session of another; the comment `xdmcp.c:680-682` says why they should not |
| `DtXdmcp!NewestOfAll` | `xdmcp` with `Faults = {"resend", "boot", "duplicate", "lose"}`, `MaxFaults = 4` | a late Manage from a terminal's former port ends its new session: displays are found by name and proto displays by address |
| `DtXdmcp!HonouredAtOnce` | `xdmcp` with `Terminal = {t1, t2}`, `Faults = {"quit"}`, `MaxFaults = 2` | one chooser connection is accepted before a datagram is read (`socket.c:318`); with two choosers ended, the second user is asked to choose again (`ChoiceHonoured` leaves this out: `Behind`) |
| `DtXdmcp!Settles` without `Confused` | `xdmcp` with `Terminal = {t1, t2}`, `Faults = {"stop"}`, `MaxFaults = 1` | the host is restarted and an idle terminal asks whether its session lives; the session that another terminal has got since has the same id (`socket.c:821`), and so the answer is Alive each time: the terminal never starts anew |
| `DtXdmcp!Settles` without `Abandoned` | `xdmcp` with `Faults = {"fork"}`, `MaxFaults = 1` | after a failed fork the display stays listed without a process, and every repeated Manage is ignored as a duplicate (`dm.c:1377`, `socket.c:1097`) |

Seen in the code, without a formula: `dm.c:327` clears `Rescan` after
`RescanServers`, and with it a SIGHUP that came meanwhile; `_last_proc_hit`
answers `find_proc` without a look at `active_procs` (`slib/mp_s_mp.C:446`);
`internal_doc/README:1926` has patterns with an operation come first, while
`slib/mp_s_message.C:1004` puts those without before them.

## 5. What is proved

`TtSession_proofs`, for all values of the constants that satisfy
`SessionAssumption`:

* `TypeCorrect == Spec => []TypeOK`.  `TypeOK` is inductive; in particular the
  stack is always a sequence of well-formed frames.  Lemmas give the type of
  what each group of actions does: `AddMessageType` for the operator every
  delivery goes through, `RunType`, `ClientType`, `RpcType`, `HangupType`.
* `WakeupAlways == Spec => []Wakeup`.  An active procid with unread messages
  has its channel and its signalled flag.  `Wakeup` alone is not inductive: an
  active procid without a channel and without messages would break it at the
  next delivery.  `WakeupInv` adds that an active procid has
  its channel and works for every nested delivery, since it speaks of no frame.

Who holds a request, in the same module:

* The invariant is `SessionInv`, which says `BaseInv` as long as no freed list element
  was read (`HeapIntact`; after that the program may do anything and the model stops).
  None of the properties is inductive, because deliveries and failures nest to any
  depth, and each level of the call stack has lists and states in hand that are
  not yet, or no longer, what they are between two RPCs.  So `BaseInv` describes the
  stack level by level, from the outermost call:
  `FramesInv` says which frames may be at once (the loops of `deactivate` run for
  inactive procids, and at most one cursor stands on a list; the walk over the queue is
  the outermost call); `ListsInv` that the message under a cursor is still the
  first of its list and no request is twice in one; `CallsInv` which RPCs may be on
  a socket.  `RequestInv` says of each request: if read by a process then that is its
  handler, active or about to fail it (`ReadOk`); if with a handler that has not read
  it, nobody else has (`UnreadOk`); only one call delivers it (`OneWalk`), and its former
  handler is lost (`Transit`); its best match is not a procid whose list is being failed
  by a call below (`BestOk`); its state changes only where nobody has it
  (`ChangeOk`); if queued or being offered again then with nobody, unless delivered
  (`QueuedOk`, `RequeueOk`).  TLC checked each part on the runs before it was proved.
* Each action has a lemma, and most rest on `Aside`, what it means that a step leaves
  a request alone, and on the levels that stay (`Lower`) and come (`Added`).
* `OneOwnerAlways`, `QueueKeptAlways` (`[]OneOwner`, `[]QueueKept`): what `SessionInv`
  says when the stack is empty.
* `FinalKept`: a request that is not also of disposition queue never leaves the state
  in which it ended.  `FinalIsFinalAlways` is the property of the runs, for
  `Queueable = {}`, as in the run two.  The condition is needed: `pattern_added` offers
  a queued request again and `handle_no_recipients` fails it on the way, so that it goes
  through FAILED and back (`RunRequeue`).

`TtDelivery_proofs`, about the same model: what becomes of a request.  Each theorem adds
an invariant of its own to `SessionInv`.

* `ImplementsAlways`: with `Queueable = {}` the session implements `TtRequest`.  Beyond
  `SessionInv` this takes that no process is given a request twice (`GivenInv`: whoever
  was given it and is active is its handler or among those tried, until it has ended; and the
  best match found is not among them) and that whoever has read it is its handler (`ReadInv`).  One lemma per kind
  of step maps it to Submit, Give, Yield, Lose or End, or to a stutter: `SendMaps`,
  `GiveMaps`, `FinalMaps`, `RejectedMaps`, `UpdateMaps`, `DeactivateMaps`; `RequestStep`
  puts them together.  The abstract specification states no fairness, so this is all of
  `Implements`.
* `NoneLostAlways`: with `Queueable = {}`, `[]NoneLost`.  While the server is busy a
  request under way may be with nobody: it is being matched, or its failure is on the
  stack, or it is in the list of a procid that is being failed.  `LossInv` says that it is
  always in one of these places (`Placed`), and what this takes: who is signalled is active
  (`Wired`); it is in no list of a live process but its handler's (`OthersDead`), nor of the
  best match found so far (`BestNew`), so that giving it to that one appends it and does not
  move an entry for which no byte was sent; a cursor takes it out of a list only when it
  has ended, ends above that cursor, or is another's by now (`TakenEnded`); it is not
  rejected unread (`RejectRead`); its ends are reported when it ends (`Unended`), so that
  `change_state` never finds it failed already and returns without a word.
  `PlaceStays` says what a step may do without moving m, `FramesSpared` puts this in terms
  of the frames that come and the one that goes, and one lemma per action applies it.
  With
  queueable requests `NoneLost` is false, for the reason `QueueWaits` shows (section 4).
* `SenderToldAlways`: with `Queueable = {}`, `[]SenderTold`.  Between the step that ends a
  request and the one that puts it in the sender's list there may be a whole walk over the
  observers, whose failures end other requests.  `ToldInv` follows one request through it:
  an active sender is to be told by a `report` frame, of which there is one
  (`ReportedOnce`), or has the request in its list, or has been shown the end, and
  always only one of the three (`ToldOnce`).  That the list has no copy of it already when
  the report is made is the hard part, since the sender may itself be the handler: `EndRead` says
  that a request whose state is being changed has been read by its handler, or the handler
  is lost.  `Calm` names the steps that concern neither the end nor the sender;
  `EndTold`, `ReportTold` and `NextTold` are about the three that do.
* `ObserverOrderAlways`: with `Queueable = {}`, `[]ObserverOrder`, at every step and not
  only between RPCs.  Two walks may show one request at once only if one of them follows
  its end, and then the copies must not be interleaved.  `ShowInv` says that one frame at
  a time shows it to observers (`ShownOnce`), that what is shown is the state as sent and not yet
  given to anybody, or the end, and that observers the walk has not come to have no copy
  in that state (`ShowNew`); that no change of state waits while it is shown
  (`ChangeUnshown`); and that copies are of states the request was in (`SeenOk`).  Then an
  observer's list changes by one copy at its end, or loses copies (`Thins`), which keeps
  `OrderInv`.  Requests in `BadAddress` are left out, as in the property; with queueable
  requests the order is left to TLC.

All of them assume `ReadsWhenSignalled`: the plans of the clients leave
`tt_message_receive` to `AskNext`, that is, clients read only when the channel is
readable, as all runs have it and as clients that watch `tt_fd` do.  With a call
that reads without a signal, a "next" sent just before the client died could be
served after a failed signal deactivated it, and would give it a request that nobody fails.

`TtPtype_proofs`, for all values of the constants that satisfy
`PtypeAssumption`:

* `PtypeTypeCorrect == Spec => []TypeOK`, along the same lines.  It needs
  `MaxPids > 0` of the ring, and that whoever takes the head of the ptype's queue
  has looked whether there is one.
* `QueueLaunchedAlways == Spec => []QueueLaunched`.  Between two RPCs requests
  wait on a ptype only while it is being launched.  While the server runs this
  is false: `proc_replied` clears `_launching` and then walks the queue.
  `QueueLaunchedInv` therefore says that requests wait, and nothing is launched,
  only while a frame of that walk is on the stack, at whatever depth.
  `FlushingBelow` shows that what is called inside the walk, and returns, does
  not take the frame away; and the walk ends with the queue empty or with
  `_launching` set.  Since a failed fork sets `_launching` as well, the theorem
  does not say that there is an instance: the next one does.
* `LaunchWatchedAlways == ASSUME ~ForkFails PROVE Spec /\ NotOverrun => []LaunchWatched`.
  Inside an RPC, too, a ptype that is being launched has an instance whose exit the
  server knows of or will hear of: it lives, is a zombie, or is between the cursors of
  the ring.  `OtherSteps` and `NextOfSlot` are about the ring, whose cursors wrap around.  Both
  conditions are needed: with a fork that fails the property is false (section 4), and
  a ring that is overrun forgets exits, as the comment `bin/ttsession/mp_server.C:107-111`
  says of it.  No overrun is a condition on the behaviour, not on the constants;
  `NotOverrunAlways` shows that it holds whenever there are fewer instances than slots:
  each slot in use holds the pid of an exit of its own.

The rest of `TtPtype_proofs` is about where a request is.  As in the properties,
requests that are of disposition queue as well are left out; these are in two places at
once (section 4).

* `PlacesAlways == Spec => [](Orderly /\ Places)` is the invariant.  `Orderly` is about
  the server: the call stack has one of few shapes (`Shape`: one frame that
  works, frames that may call it, and at the bottom the handler of an RPC); the walk over
  the ptype's queue stands on the head of that queue; the main loop runs on an empty
  stack; an instance whose registration is being served is active.  `Places` says for
  each request in turn (`PlaceOf`) where it may be: sent at most once (`SentOnce`), nowhere
  before that (`Fresh`), final once it is reported so (`Ended`); in one list, queue or frame
  only (`InOne`); with whoever has it, it has a state that says so (`Given`, `Waits`,
  `Moving`, `Told`); and if it is not ended, somewhere (`Somewhere`).  There is a
  lemma for each action, and they all rest on `Bystander`: a step keeps the place
  of a request that it and the call stack do not mention.
* `OnePlaceAlways`, `PtypeNoneLostAlways` (`[]OnePlace`, `[]NoneLost`): what this says when
  the stack is empty.
* `LaunchedOnceAlways == Spec => LaunchedOnce`.  `Calm`: while the walk over the queue
  runs, nothing is being launched.  A request the walk delivers in vain starts
  nothing itself, since it is still in the queue (`NotInWalk`); only the frame that ends
  the walk launches.
* `OneLaunch` and `Unblocked` were to be proved next and are false (section 4): what
  stopped the proof, an answer that is served after the exit of its instance was
  noticed, is in TLC's reach with three instances.

`TtOffer_proofs`, for all clients, patterns and answers that satisfy
`OfferAssumption`:

* `OfferTypeCorrect == Spec => []TypeOK`.  That `yetToVote` is an integer, not a
  natural number, is all the type says; a copy may be made in any state, also in
  one of voting: if a client that still owes a vote (of an offer miscounted) dies while the
  walk that shows TT_RETURNED to the observers goes on, its abstention sets the
  state under that walk.
* `VotesMatchAlways`, `AllVotedAlways` and `SenderToldAlways` (`[]VotesMatch`,
  `[]AllVoted`, `[]SenderTold`), from one invariant, `OfferInv`.  None of the three
  is inductive: they speak of lists that a nested `deactivate` is just then giving
  up, and of a counter that says only how many votes are missing, not whose.
  `Balance` is the core: what a client has voted, and what it has still to vote on in
  its two lists, is what it was asked; and `yetToVote` is the number of ballots
  outstanding, of all clients together (`BallotsOf(Duty)`, a set of
  pairs, so that one more or one less is a lemma about cardinality).  `Before` and
  `After` say what the lists hold until the offer is returned and from then on;
  `Walks` says that until then the walk is on top of the stack, or one of the
  frames that give up a client which has something to vote on, so that the
  walk is not left for a second one; `Telling` says that the sender is still to be
  told, about to be, or has been, which with `SentOnce` makes it once.  `Dead`
  ties the frames that give a client up to its flag.

  All of it is conditional on `~miscounted`, as are the properties (section 3):
  the code does count wrong when a client of the older protocol abstains
  during the hand-out.
* `NoneStuckAlways == Spec => [](~miscounted => NoneStuck)`.  `NoneStuck` itself is false
  for some sets of patterns (section 4), all of them cases of a miscount.  `Awaited`
  says that `count_ballots` is about to run whenever no vote is missing, and `Abandoned` that
  what an inactive client has to vote on is being given up by a frame on the stack.  With
  `Balance` an offer under way then has a ballot outstanding, and between two RPCs it
  is that of an active client.

`TtSignal_proofs`, for all `MaxPosts`, `Unprompted` and `Lossy`: `SignalTypeCorrect`,
`AwakeAlways`, `QuietAlways`, and `SignalImplementsBell`, the step simulation of the
bell (its liveness is left to TLC).  All follow from one invariant that counts
bytes, on their way or come: on a working channel one is owed for the flag, and one more
while the client has been told to clear and has not yet (`Owed`); those sent and not read
are no fewer, and exceed them by no more than the calls made without a signal.  That is
inductive only with its last part: while a call is under way and there is no byte to read,
the excess is smaller than that, since the call may end by reading nothing.

`TtMatch_proofs`, for all patterns, clients, requests, categories and scores:
`MatchTypeCorrect`, `TrumpsAlways`, `FailsLastAlways`, `BestMatchAlways`,
`LeastRecentAlways`, `NewestAlways`.  `TypeOK` is strengthened twice.  `Clock` says
that the times order the patterns as `later` does, whatever walks were cut short.
`Choice` is the invariant of the walk: `best` is eligible, and a walk is cut short only if
a stale pattern is registered; in any other walk what has been visited and is eligible
does not beat `best`, and what is eligible is registered and therefore visited or still to
come.

`DtLogin_proofs`, for all displays, pids, files and limits:

* `LoginTypeCorrect == Spec => []TypeOK`.  Inductive with `PassOK`: a pass visits
  each display once.
* `OneServerAlways == ASSUME ~ReadyEarly PROVE Spec => []OneServer`.  `InService` is
  the invariant: until SIGTERM every living server or getty belongs to a display
  in the list, whose record names it (`Own`); a pass stands on, and goes on with,
  displays of the list only, and tries a server again only for a display without
  one (`Listed`).  The argument is one lemma per function of the program, for any
  record it is given.
* `WatchedAlways == ASSUME ~ReadyEarly PROVE Spec => []Watched`, from `InSight`.  That
  every child is known (`Seen`) is not inductive: `RemoveDisplay` frees a record with
  the pids it holds.  `Resting` says that a display without status running has no
  session left that was not told to end, `Blank` that a display out of the list has
  nothing.  After SIGTERM no display is suspended and no server untold (`Down`), so
  that the pass may free what is not running (`dm.c:1033`).  `Standing` is about the
  pass that a handler interrupts: unless freed memory has been used, what it stands on
  and goes on with is still in the list, has no session while its server is being
  started, and no server when that is tried again.  A second attempt after SIGTERM
  would start a server nobody stops, hence the condition of the property.  Again
  one lemma per function (`StopSound`, `SessionDiedSound`, ...) and one per action.

`DtXdmcp_proofs`, for all terminals, process ids, faults and budgets:

* `XdmcpTypes == Spec => []TypeOK`.
* `OneSessionAlways`, `IdsApartAlways` (`[]OneSession`, `[]IdsApart`) and
  `NewestAlways == Spec => NewestKept`, from the invariant `XdmcpInv`: no id is ahead of
  the counter (`Bounded`), ids are apart within and across the two lists (`Apart`), an
  address has one proto display (`OneProto`), and what is proposed to an address is
  newer than what it has (`Newer`).  `NewestKept` rests on the last: the session that
  takes a place comes from `protos`.  The budget of faults plays no part in them, so
  they hold however often datagrams are lost or repeated.  For `OneSession` the
  lemmas `TerminatedQuiet`, `ClosedQuiet` and `EndsQuiet` say that whatever happens to a
  process leaves it no less accounted for.
* `ChoiceHonouredAlways == Spec => ChoiceHonoured`.  Needs `TypeOK` only: if no choice of
  t's user is behind another connection, what dtlogin hears before it reads the datagram
  is the last one (`Foremost`); and only an indirect query makes t a client, only a
  Manage starts a chooser (`ClientHeard`, `ChooserHeard`).

Only model-checked: the other properties.  `OneLaunch` and `Unblocked` of `TtPtype` are
false for some constants (section 4).  `UnblockedWhileOne`,
`ServerReturns`, `OrphanEnds`, `ExitNoticedInTraffic`, `Returned`, both `Settles` and
`ShutdownEnds` are temporal; all but the first are liveness properties under fairness,
which TLAPS does not do.

## 6. Not modelled

* **ToolTalk**: notices, TT_HANDLER addressing, static signatures, several
  ptypes, request timeouts, on-exit messages, opening of procids; file scope with
  `rpc.ttdbserverd`, the object database and the mini ISAM; start-up and locking
  of the server; the C API, the type compiler and the tools.  The first group
  would extend modules that exist; matching of fields is pure data.
* **dtlogin**: the greeter's conversation, the remote greeter, making of
  authorizations, the Xaccess file, reloading of resources; `xdmcp.c`, the variant of
  `socket.c` for X11R6.
* **SPC, dtsession, dsdm, rpc.cmsd, dtmail**: they have protocols worth a module
  each, and are candidates of the plan.
* **dtwm, dtfile, dtterm, dtpad, dtcalc, dticon, dtstyle, dthelp, widgets, and the
  batch tools**: sequential programs whose correctness is in what they draw or
  write, not in an order of steps.
* **Vendored code** (ksh-93, c-client) is not CDE's own.

The model covers a small share of the lines of the repository, since most of
these are user interface code, message catalogues and vendored programs.
