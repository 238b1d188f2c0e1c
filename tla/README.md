# A formal model of kpf

kpf keeps `kubectl port-forward` sessions alive: a background daemon owns the
forwards, command line clients and a terminal UI ask it to start, stop and
restart them over a Unix socket, and a state file lets a new daemon take up the
forwards of the one before. This directory holds TLA+ modules translated from
the Go sources under `src/`, the TLC configurations that check them on small
instances, and proofs that the TLA+ proof system (TLAPS) checks.

1. [The system](#the-system)
2. [The modules](#the-modules)
3. [The runs](#the-runs)
4. [Fairness](#fairness)
5. [What is proved](#what-is-proved)
6. [Where code and comments disagree](#where-code-and-comments-disagree)
7. [What is not modelled](#what-is-not-modelled)
8. [Plan](#plan)
9. [How to run](#how-to-run)

## The system

### Components

| component | sources | state it keeps | operations |
|---|---|---|---|
| one port-forward | `internal/forward/forwarder.go`, `reconnect.go`, `errors.go`, `events.go`, `spec.go` | status, last error, the current portforwarder, `stopCh`, `doneCh`, subscriber channels, backoff, count of missing pods | `Run`, `runOnce`, `dial`, `runHealthCheck`, `Stop`, `Subscribe`, `broadcast`, `shutdown` |
| registry of forwards | `internal/forward/manager.go` | `forwards`, `nextSeq`, `history`, subscribers | `Start`, `Stop`, `StopAll`, `Shutdown`, `List`, `Get`, `ClaimedPorts`, `LivePorts`, `Subscribe`, `relayEvents` |
| persistence and restore | `internal/daemon/handler.go`, `internal/state/state.go` | `state.json`, the persistence goroutine, its channel | `startPersistence`, `persistForward`, `restoreOnStart`, `Store.Mutate` |
| IPC handlers | `internal/daemon/handler.go` | none of its own; the sequence number of events | start, stop, restart, stop all, list, get, shutdown, event and log streams |
| listener audit | `internal/daemon/audit.go` | none | `computeParity` against the live ports and the file |
| IPC server, client, framing | `internal/ipc/*.go` | connections, request ids, subscriptions | `Serve`, `Call`, `Subscribe`, frames |
| daemon life cycle | `cmd/kpf/main.go`, `internal/state/daemon_file.go`, `internal/daemon/proc.go`, `internal/config/paths.go` | `daemon.json`, the socket, the process | start, ensure running, stop, signals |
| command line | `cmd/kpf/main.go` | the table of a watched list | flags to requests, output |
| terminal UI | `internal/tui/*.go` | the wizard's step and choices, the port editor, the active view | messages of user, daemon and cluster |
| Kubernetes queries | `internal/k8s/*.go` | none | resources, the choice of a pod, its ports |
| kubeconfig files | `internal/kubeconfig/*.go` | none | scanning and loading |

### How they interact

- A request arrives on a connection; the server runs its handler in a goroutine
  of that request. The handler calls the manager, whose methods take `m.mu` for
  single reads and writes of its maps and not for a whole operation.
- `Manager.Start` creates a `Forward`, a relay goroutine that copies its events to
  the manager's subscribers, and the goroutine of `Run`. `Run` starts two more
  for each attempt: `ForwardPorts` of client-go and the health check.
- Statuses travel forward -> channel of 32 -> relay -> channel of 64 -> persistence
  goroutine -> `state.json`. Every send drops the event when the channel is full.
- `Stop` closes `stopCh` and waits for `doneCh`, which the last of `Run`'s deferred
  calls closes. The manager deletes its entry after that.
- `handleShutdown` answers first and then, in a goroutine, stops all forwards, closes the
  manager's channels, waits for the persistence goroutine and exits.
- A new daemon reads `state.json` and starts every record it finds there under the
  record's id, one goroutine for each.

### What is hard, and what correctness means

*One port-forward.* Three goroutines of an attempt, concurrent callers of `Stop`,
and selects that choose at random between a stop, the end of the connection and
readiness. Right means: nothing is left behind when a stop returns; no goroutine
survives into the next attempt; a forward is given up only after the documented
number of consecutive missing pods; a stop always ends; a lost connection is dialed
again, and a dead port does not keep the others.

*The registry.* The check of the ports, the check of the id, the history and the
registration are separate critical sections, and stops wait outside the lock.
Right means: the registry has every forward that is alive, under an id of its own;
only ended forwards leave it; a restart repeats what is running; every request
returns.

*Persistence.* Lossy channels, a record computed when an event is handled and not
when it was sent, failing writes, crashes, and a shutdown that has to drain what it
closes. Right means: the file catches up with the forwards; what ended is not
revived; a shutdown ends.

*IPC.* One connection is served by one goroutine, deadlines are shared by several calls,
a stream takes its connection for good, buffers fill, and either side may
leave. Right means: a call finds its own answer or none; a stream shows what happened, in
order, from its subscription on; a handler returns when its client has left.

*Life cycle of the daemon.* Two files without a lock, commands that check, remove, spawn and
poll, and a process that may die between any two steps. Right means: one daemon at a time;
the files lead to it; every command and every daemon that was told to stop ends.

*Terminal UI.* `Update` runs alone, but each command is a goroutine whose message arrives
between any two keys. Right means: Enter comes back after every start; a stop
goes out for a key and only once; the table catches up with the daemon.

*Queries.* Functions over the objects of a cluster, arguments and directories, each
right when its result is what a short definition says it should be, whatever its loops went through.

## The modules

| module | models | extends / instantiates |
|---|---|---|
| `ForwardLifecycle` | what a forward promises to the code around it | |
| `Forward` | one forward, goroutine by goroutine | instantiates `ForwardLifecycle` |
| `ForwardProofs` | theorems about `Forward` | `Forward` |
| `Manager` | the registry and the requests that change it | |
| `ManagerProofs` | theorems about `Manager`: types, and clients that start and stop | `Manager` |
| `ManagerSequentialProofs` | theorems about `Manager`: one request at a time, of any kind | `ManagerProofs` |
| `Persistence` | events, `state.json`, shutdown, crash and restore | |
| `PersistenceProofs` | theorems about `Persistence` | `Persistence` |
| `Daemon` | daemon processes, their two files, the commands around them | |
| `DaemonProofs` | theorems about `Daemon` | `Daemon` |
| `Ipc` | connections, calls, event and log streams | |
| `IpcProofs` | theorems about `Ipc` | `Ipc` |
| `Wizard` | the terminal UI and its commands | |
| `WizardProofs` | theorems about `Wizard` | `Wizard` |
| `Queries` | what computes without the daemon: pods, ports, arguments, rows, kubeconfigs | |
| `QueriesProofs` | theorems about `Queries` | `Queries` |
| `MCManager`, `MCPersistence`, `MCDaemon`, `MCIpc`, `MCWizard` | the definitions their configurations need | the module each names |

In each module, an operator whose comment starts with "Slip" is not the code: it
is a mistake one could make there, kept beside the definition it would replace.
For each property, `PROJECT.json` names a slip that breaks it.

### Forward

The state follows the fields of `Forward` and the local variables of `Run`. `pc` is
where `Run` stands:

| `pc` | code |
|---|---|
| `dial` | `runOnce` before and in `f.dial` |
| `awaitReady` | the first select of `runOnce` |
| `drainUnready` | its stop case, receiving from `pfErrCh` |
| `awaitDrop` | the second select |
| `joinProbe` | its drop case, receiving from `healthDone` |
| `drainReady`, `joinStopped` | its stop case, the two receives |
| `failed` | back in `Run` with an error |
| `backoff` | the select between the timer and `stopCh` |
| `closeSubs`, `closePf`, `closeDone` | the deferred `shutdown`, in its two halves, and `close(doneCh)` |

A case of a select is an action of its own, enabled when the channel is ready, so
any order Go may choose is explored. The health check dials the ports one by one
(`ProbeDials`, `ProbeFails`), because a listener may die, and another process may
take or leave a port, in between. An error is one of two classes, the two
`isPodMissing` tells apart; `nil` is a third value since `errMsgOr` turns it into an
error. `hist` is a history variable: how the last attempts ended.

`ForwardPorts` is external. The model lets it fail before it is ready, listen on
those ports nobody else has, end when `stopCh` is closed, and end at any time because the
connection is lost. `Close` closes the listeners and no more: it neither ends
`ForwardPorts` nor the connection. With
`ReturnMayKeep` it may even return without having closed its listeners, which is the
reason the comment of `shutdown` gives for calling `Close`. `Foreign` is the set of
ports other processes may take and release.

`ForwardLifecycle` is the contract the manager and the persistence goroutine rely on:
terminal statuses are final, "stopped" needs a request, subscriber channels close
after the terminal status and before `doneCh`, and no port is held once `doneCh` is closed.
`Forward!ImplementsLifecycle` is the refinement, with `holding <- listeners # {}`.

### Manager

An action is one critical section, or one step outside the lock. The program
counter of a caller is the place of a request between two of them:

| `pc` | code |
|---|---|
| `check` | `checkLocalPortsFree`, claimed ports of registered forwards |
| `listen` | its `net.Listen`, and `ResolveOnePod` |
| `allocate` | id given and looked up, or generated from `nextSeq` |
| `remember`, `register`, `launch`, `poll` | `m.history`, `m.forwards`, `go f.Run()`, the wait for a status |
| `stopLookup`, `stopWait`, `stopDelete` | `Manager.Stop` |
| `restart...` | `handleForwardRestart`: a stop, then a start of the remembered spec |
| `stopEach`, `stopEachWait` | `StopAll`, then the new map |

A forward is a record of id, port and phase, the shape `ForwardLifecycle` gives it. The
constants say which requests clients send (`Ops`) and which records a previous daemon
left (`Restored`).

### Persistence

`persistForward` uses an event only for its id and asks the manager for the rest,
so an event is an id, and a forward's channel is the number of events in it. The
change of a status (`SetStatus`) and its broadcast are two steps, as in the
code, and so are `m.Get` in `persistForward` (`Get`) and the write (`Mutate`). The file maps an
id to the status that was written or to "none". `Store.Mutate` is one step: it
renames a finished temporary file, and no other process of the model writes. A
write may fail; the error is ignored in the code. `missed` is a history variable: the ids whose last event the
manager's channel dropped or whose last write failed. `daemon` goes through the
steps of the shutdown goroutine; `Crash` stands for a kill and for a signal, after
which the process exits without `Shutdown`.

`LocalPort` gives each id the local port of its spec, and two ids may share one: the audit sees ports, not
ids. The audit is two steps, since `auditListeners` asks the manager first and the file after
(`AuditLive`, `Report`). `LivePorts` is what `GetPorts` says, and that answers from a closed `Ready`
channel, so a forward counts as live from its first success until its next dial. The
model has the half of the report that names missing records, and the constant `Audits` says which
daemons are audited.

### Daemon

`record` is `daemon.json` (a process id, `Torn` between the truncation and the write, or nothing),
`sock` the daemon that bound the socket file. Each step is one system call that others
can see.

| `cmd[u].pc` | code in `main.go` |
|---|---|
| `read`, `probe`, `stat` | `ReadDaemonFile`, `checkAlive`, `os.Stat` of the socket |
| `clean`, `spawn`, `poll` | the removal of the socket, `spawnDaemon`, the poll of five seconds |
| `term`, `wait` | `daemonStop`: SIGTERM, the poll of the socket, SIGKILL |
| `dial`, `open` | a call, a TUI, or a command that follows a stream; `conn` is the daemon that accepted it |

| `at[d]` | code |
|---|---|
| `spawned`, `torn`, `recorded`, `handling` | `daemonRun` up to `signal.Notify` |
| `cleaned`, `serving` | `Serve`: the removal of the old socket, the listener |
| `draining`, `unlink`, `unrecord` | `ln.Close`, `wg.Wait`, the removals after it |
| `exited`, `killed` | over by itself, or by a crash, a SIGKILL or the `os.Exit(0)` of `handleShutdown` |

The three kinds of connection end differently. A call is answered or times out. A TUI keeps its event
stream until the user quits or, after an hour without a frame, its reader meets the deadline (`client.go:175`) and the watcher
closes the client and dials again (`main.go:188`): `StreamExpires`. `kpf forward events -f` and
`kpf logs -f` keep theirs until stdin ends (`main.go:928`, `main.go:1069`); their reader meets the same deadline but closes nothing,
so their connection then goes only if the runtime happens to collect it, which the model allows and nothing obliges.

`Exists` is what `kill(pid, 0)` says: it is also true of a dead child whose parent runs and
has not waited for it. `hasty` is a history variable: whether some command that acts on files and
processes began while another one did, or while a daemon was in transit.

### Ipc

A client is one `ipc.Client` and the program around it: `doctor` calls several times
under one context, `events` and `logs` subscribe, `list` is the client of `runListWatch`. `toSrv` and
`toCli` are the two directions of a connection, `serve` is the goroutine `handleConn`, which reads no
request while it streams. `chan` and `subs` are the subscriber channels of the manager. Events are numbered as
they are published. `since`, `lost` and `shown` are history variables. A program whose stream has been idle for an
hour is "deaf": its reader has returned, everything else stays (`IdleOut`). A handler is "blocked" from the moment it has taken an event the socket has no
room for: it holds that event, so its channel has a place more (`Room`), and it does not see the end of its context. `Cancel`
is a signal, `Flush` is `Manager.Shutdown`, `ExitDaemon` the end of the process, by itself or not.

### Wizard

`step`, `spec`, `starting` are the fields of `Model`; `nsList` and `objList` say *whose* namespaces and
objects a list shows, which is what late answers confuse. `page` is the port step. `under` is a bag:
messages on their way to `Update` and commands that have not answered, in any order. A key
adds the message of its command, an answer is handled whatever the step is by then, as
`app.go` does. `running` are the daemon's forwards, known by their local ports. A
forward the daemon runs may not have bound its ports yet, hence the `\E bound` in `Submit`.

### Queries

A behaviour chooses one input and runs the function it is for. An iteration of a loop of the code is a
step, with the loop's own variables (`ready`, `newest`, `seen`), so what a loop preserves is an invariant; `out` is
what the function returns. On the port page the user may type local ports between the loops. `sort` is the one
thing left as a definition: a permutation in order.

## The runs

The runs take about twelve minutes together on two cores, the longest one two and a half.

| run | instance | what it shows |
|---|---|---|
| `ForwardSafety` | 2 ports, both open to other processes, 2 callers of `Stop`, 3 missing pods to be stale, fair; 48,721 states | the safety properties of a forward, the refinement of `ForwardLifecycle`, and: a stop ends in every state, a lost connection does not stay ready, a dead port does not keep the others |
| `ManagerSequential` | 1 client, all requests, 2 ports, 1 restored record whose id no start generates, 4 starts | what the registry guarantees when requests do not overlap: the registry has every live forward, claimed ports are exclusive, the history matches |
| `ManagerConcurrent` | 2 clients, all requests, 1 port, 1 restored record, 2 starts, fair | every request returns, what was stopped leaves for good |
| `PersistenceShutdown` | 1 id, 1 daemon, 2 forwards of the id, shutdown, writes that fail, both channels of capacity 1, fair; 389,838 states | `FileCatchesUp` while events of the first forward are still on their way and those of the second follow; a shutdown ends |
| `PersistenceRestart` | 2 ids with one local port, 2 daemons, crashes, writes that fail, the second daemon audited, fair; 238,812 states | `FileCatchesUp` across restarts, ended forwards leave the file, a record no forward stands behind is reported unless its port is another's |
| `Daemon` | 2 terminals, 2 processes, every command, crashes at every step, fair; 197,210 states | one daemon and files that lead to it while commands do not overlap; every command ends, and every signalled daemon that no following command keeps |
| `Ipc` | a doctor, an event stream, the client of a list watch; buffers and channels of 1, 2 calls, 3 events, fair; 85,494 states | a call finds its own answer, a stream is served, faithful and shown while its reader reads, handlers return |
| `Wizard` | 1 of each choice, 2 messages under way when a key is pressed, fair; 248,568 states | Enter comes back, a stop goes out once, the active view catches up |
| `Queries` | 3 pods, 3 ports out of 0, 80, 443, 65535, 65536, 5 rows, 2 directories of 2 names; 829,012 states | the result of each function against its definition |
| `ForwardDeadPort`, `ManagerRestoreCollision`, `IpcLogs` | the smallest instances | [disagreements](#where-code-and-comments-disagree), each a counterexample |

Runs switch the deadlock check off, since a forward ends, a client need not send
anything, a daemon stays down, a user may quit, and a function has one input.

### Why the bounds are enough

- Two ports: the health check distinguishes a first port that is alive from a second one
  that is dead, and `ForwardPorts` may get some of its ports and not others.
- Two callers: what can go wrong in `Manager` goes wrong between two requests; `Ops` and `Restored` make
  sure the second one can be any of them. Three starts leave room for a forward that
  reuses the place of another while a third is under way.
- `MaxStaleAttempts` is 3 in the code and in the run. A run of three
  needs a count that was reset in the middle, so 3 shows what 2 would not.
- Capacity 1 instead of 32 and 64: with one place, "full" and "empty" are one event
  apart, so every drop the real channels can suffer happens in a handful of
  steps. Larger capacities add states in which nothing new is
  possible.
- Two daemons: a record is written by one and read by the next.
- Two processes and two terminals in `Daemon`: one daemon that leaves or has died while another one comes, started
  by the terminal that watches or by the other. A process id is given once, so the number of processes bounds how often a
  daemon is spawned, and a command that may spawn begins only while one is left for it.
- Capacities of 1 in `Ipc` for 64 events and a socket buffer: the wire fills up, the handler blocks with an event in its
  hands, the channel overflows, and a third event finds room again. Two calls: the second may find what the first left.
- Two ids with one port in `PersistenceRestart`: a lost record whose port another forward has taken. One forward in each
  daemon there: `PersistenceShutdown` has two of them, and their number is no matter to the proof of `FileCatchesUp`.
- `Room` in `Wizard` bounds keys, events of the daemon and ticks, not answers: with two messages under way, the
  answer of an older question can overtake that of a newer one. One place
  and one object are enough for the properties checked: the same object chosen twice already gives two answers
  of which the first may come last, and `starting` and the table do not depend on which object it was.
- `Queries`: three pods, so that a ready one may lie between two others; three ports, so that a repeated one may have another
  between; numbers at and past both ends of the range; more rows than fit, exactly as many, and a height of zero or less.
- No run uses symmetry, since most of them check liveness.

### Properties worth a remark

`FileCatchesUp` says that for every forward of this daemon the file agrees with the
manager, or an event that will repair it is on its way, or the id is in `missed`. It
implies that what a full channel of the *forward* drops is harmless: the channel is
then not empty, and whichever event of it arrives writes the current status. What the
channel of the *manager* drops is not harmless, because it may be full of events of
other forwards; this is the term `missed`. A forward that `StopAll` lost (below) is
exempt, since the manager does not know it.

`DropIsHandled` has a premise: a lost connection is not by itself noticed. After
`ForwardPorts` has returned, `runOnce` waits for the health check, and the health check waits for a dial that fails.
While another process (or a listener that was kept open) answers
on all ports, the forward stays "ready" with no connection behind it. The comment
at `forwarder.go:256` ("probe exits via its own stopCh branch on pf.Close") does not
hold: `pf.Close` does not close the `stopCh` that branch reads.

`DeadPortReleasesTheOthers` is what is left of the promise the comment of `runHealthCheck` makes. A dead port is
noticed, and the listeners of all ports are closed. But the comment goes on that `ForwardPorts` then returns, and it
does not: it waits for `stopCh` or for the connection. So a forward with a dead listener and a live connection is "ready" with no
listener, and with no health check either, until the connection ends or somebody stops it. `DeadPortNoticed` is the comment as a formula, and
the run `ForwardDeadPort` its counterexample.

`EndedLeaveTheFile` says what "leaves the file" takes: that the record is gone, that no event of the id is on its way, and that the persistence goroutine
holds nothing of it (`Gone`). Nothing but a new forward of that id can write the record again from there. It names three exceptions. The
id is used again; its last event was lost to a full channel of the manager, or the write failed; the daemon dies
while that last event is under way. In the last two the record is still there and the next daemon revives the
forward: this is what the code does, and no comment says otherwise.

`MissingIsReported` has ports on one side and records on the other, as the audit has. A record whose port a forward of another
id has claimed since is not reported (`Taken`): `computeParity` compares ports.

`EventsAreShownWhileRead` is about events taken while the reader of the program reads. Without that condition it
would be false: see the remark on `SubscribeEvents` below.

`SignalledEnd` does not say when: a TUI may hold its stream for an hour. A command that follows a stream may hold the
daemon for ever, and the property says that nothing else can.

`HistoryMatchesRegistry` holds because an id is normally given once, so the spec
remembered under it is that of its only forwards, and a restart repeats it. Where
ids collide (`ManagerRestoreCollision`) the history is overwritten as well: the restart of one
forward would then start the spec of the other. It is therefore checked, and proved, with records
whose ids no start generates.

`ClaimedPortsAreExclusive` is checked for one client at a time: it is what the code
achieves. With two clients both may pass the check before either registers.

`OneDaemon` and `FilesTellTheTruth` have the premise `~hasty`: they say what the two files
are worth to whoever waits for one command and its daemon to settle, *whatever crashed*,
and at whichever step. Without the premise both are false (see the remarks below), and nothing
in the code claims otherwise.

`OneAnswerPerCall` is what makes it harmless that `Call` takes any frame for its answer:
the one caller that calls again after a time-out, `doctor`, does so under a context that has
expired, and so never reads.

`StopsWereAsked` compares bags before and after a step: the number of stop requests of a
forward grows only when that of its key presses shrinks.

## Fairness

- *Goroutines run.* Weak fairness of each goroutine's steps: `Run`, the health check,
  the goroutines of the server, relays, the persistence goroutine. Go's scheduler is preemptive, and
  none of these waits for a lock somebody keeps.
- *A ready case of a select is chosen some day.* Strong fairness of the stop case in the
  backoff and in the health check, which lose and regain the race with a timer or a tick. Go picks
  among ready cases at random.
- *The dial ends.* Weak fairness of "`ForwardPorts` fails or listens": the
  transport has time-outs. A `ForwardPorts` whose `stopCh` is closed
  returns. One that was only closed does not have to.
- *A forward that was told to stop finishes.* Assumed in `Manager` and
  `Persistence`; it is `StopTerminates`, checked in `Forward`.
- *Commands poll and time out.* Weak fairness of the steps of a command and of a booting or leaving daemon in
  `Daemon`; a call is answered or its deadline passes. After a signal the handlers have returned and send nothing, so the hour after
  which a TUI's reader gives up does pass: weak fairness of `StreamExpires` for a TUI and a daemon that was
  signalled. A command that follows a stream may do so for ever, which is why
  `SignalledEnd` excuses a daemon one keeps.
- *Handlers and clients run.* Weak fairness per connection in `Ipc`, of a client's deadline too. No client has to
  close, no event has to happen.
- *Answers come.* In `Wizard`, a command returns (a call has a deadline of 30 seconds) and its message is handled. A list that
  is asked for again and again does not fail for ever: strong fairness of `ListAnswered`. Without it
  a daemon that never answers would refute `ViewCatchesUp`, rightly.
- *An audit that was asked for is made*, in `Persistence`.
- Nothing else is assumed of users, pods, the cluster or other processes: they may do
  nothing for ever, or take and release ports for ever.

## What is proved

Theorems hold for all values of the constants under the named assumptions of the
modules (`ForwardAssumption`, `ManagerAssumption`, and so on: capacities are positive, "nothing" is
none of the values it stands beside). TLC evaluates each assumption in the
runs of its module. Every safety property of the runs
is a theorem; hypotheses beyond the assumptions are named where they are needed.

| module | theorem | property of a run |
|---|---|---|
| `ForwardProofs` | `TypeCorrect`, `DoneIsClean`, `AttemptsAreSeparate`, `StaleIsDeserved` | `TypeOK`, `DoneLeavesNothing`, `NoGoroutineOutlivesItsAttempt`, `StaleAfterMissingInARow` |
| | `ForwardImplementsLifecycle` | `ImplementsLifecycle` |
| | `InvariantHolds`, `StopIsLast`, `ReadyHasProbe` | none |
| `ManagerProofs` | `TypeCorrect` | `TypeOK` |
| | `LiveForwardsAreRegistered`, `LiveIdsAreUnique`, `OnlyTheEndedLeave`: starts, stops and restored records only, `RecordsAreApart` | `EveryLiveForwardIsRegistered`, `IdsAreUnique`, `OnlyEndedForwardsLeave` |
| | `StartsAndStopsAreSafe` | none |
| `ManagerSequentialProofs` | `PortsAreExclusive`, `HistoryIsRight`, `LiveAreRegistered`, `IdsStayUnique`, `OnlyTheDoneLeave`: one request at a time, `RecordsAreApart` | `ClaimedPortsAreExclusive`, `HistoryMatchesRegistry`, `EveryLiveForwardIsRegistered`, `IdsAreUnique`, `OnlyEndedForwardsLeave` |
| | `OneAtATimeIsSafe` | none |
| `PersistenceProofs` | `TypeCorrect`, `CatchesUp` | `TypeOK`, `FileCatchesUp` |
| `DaemonProofs` | `TypeCorrect`, `NeverTwo`, `Truth` | `TypeOK`, `OneDaemon`, `FilesTellTheTruth` |
| `IpcProofs` | `TypeCorrect`, `OwnAnswer`, `StreamsServed`, `Faithfulness` | `TypeOK`, `OneAnswerPerCall`, `EventStreamsAreServed`, `StreamIsFaithful` |
| `WizardProofs` | `TypeCorrect`, `EnterIsHeard`, `StopsAsked` | `TypeOK`, `SwallowedWhileStarting`, `StopsWereAsked` |
| `QueriesProofs` | `BestPodAlwaysPicked`, `SubmittedPairsAlwaysStart`, `CursorStaysShown`, `KubeconfigsFoundOnce` | `BestPodIsPicked`, `SubmittedPairsCanStart`, `CursorIsShown`, `KubeconfigsOnce` |
| | `LoopInvariants` | none |

*Forward*. `IInv` is inductive: the types; `StatusInv`, which ties the
status and the channels to the place of `Run`; `GoroutineInv`, which says in which
places the two goroutines of an attempt can be alive and what keeps ports bound; and
`CountInv`, which says that the counter is the length of the run of "missing" that
ends the history. None of the properties is inductive alone: that no port is
bound at the end, for example, needs that only `f.pf` keeps ports bound, that
`ForwardPorts` has been joined before `shutdown`, and that `shutdown` closes `f.pf`.
In the refinement each action maps to one of `ForwardLifecycle` or changes none
of its variables.

`IdsAreUnique`, which the table names twice, is the property `ManagerRestoreCollision` shows violated: the theorems say
that without such a collision it holds. It follows from `EveryLiveForwardIsRegistered`, so no run checks it beside that.

*Manager, any number of clients.* `TypeOK` holds for every mix of requests and every set of
records. The other theorems of `ManagerProofs` assume
`Ops \subseteq {"start", "stop"}` and `RecordsAreApart`: no record has an id that a start of this daemon generates. Any number
of records may be restored while clients start and stop. `nextSeq` begins at 0 in every daemon, so
the second hypothesis is false for a daemon that is used for long enough (`ManagerRestoreCollision`); the theorems show that this
collision is all that is wrong with restoring. And a `StopAll` or a restart that overlaps a start loses forwards
([remarks](#where-code-and-comments-disagree)). `StartStopInv` is
inductive there: a start owns its number, an id that is generated or comes from a record (`Used`) belongs
to one start or one forward, the registry holds forwards under their own ids, and
a stop waits for the forward that has the id it was given.

*Manager, one request at a time.* `OneAtATime` says there is at most one caller; then every kind of request
is allowed and every record may be restored, any number of them one after the other, while the forwards go on by
themselves. `RecordsAreApart` is assumed here too. `SequentialInv` has, besides
the properties, what makes them inductive: ids come from `nextSeq` or from a record (`IdsAreUsed`), a start has checked
the port it will claim and its id is free (`StartInv`), a stop or restart deletes the very forward it has
waited for (`RemovalInv`), and whatever `StopAll` will wipe is waited for or still to be (`StopAllInv`). Two clients break `StartInv`, a
start during `StopAll` breaks `StopAllInv`: those are the races the remarks list, so the hypothesis is the
code's and not the proof's.

*Persistence*. `FileCatchesUp` alone is not inductive, since the goroutine writes a record it read before: `WriteInv` says
that such a record is current, or an event that will repair it has been sent, or was lost. `RegistryInv` says that the
registry knows forwards under their own ids and that `doneCh` closes after the terminal status; without it a
removal could hit a forward whose last event has not gone out. There is no
hypothesis: crashes, failing writes, shutdowns, restores and audits are all steps of the proof.

*Daemon*. `OneDaemon` and `FilesTellTheTruth` are one induction. `FileInv` says for each state of a daemon what
the two files hold, `ActorInv` what the one command that acts may rely on between two system calls: that what it
read is still so, that no daemon is in transit, and, before it spawns, that none is alive. Both have the
premise `~hasty`, the history variable that is set when a command begins while another one acts or a daemon
comes or goes; everything else, a crash at every step included, is in.

*Ipc*. `IInv` says of each connection separately where its program, the two directions of its wire, the handler and the subscriber
channel can be together. `CallInv` follows one request: it is on the wire, or in the handler, or its answer is the only
frame coming back, or the server is gone. `StreamInv` follows a subscription from the request on; once
it streams, what has been shown, what is on the wire, what the handler holds and what waits in the channel, one after
the other, are the events since the subscription (`Faithful`), so a step that moves an event
from one to the next changes nothing. Other connections matter only through what the manager publishes.

*Wizard*. Lemmas on bags say what sending, dropping and replying do to the messages under way, and `KeysSend` and `MessagesSend`
which messages each step sends. `SwallowedWhileStarting` is then inductive beside the types, since no step takes a
start request away without clearing the flag. `StopsAsked` needs the types, for it counts copies, and that two
messages of one kind and one forward are equal.

*Queries*. What a loop computes is an induction over its input, which the prover cannot do on data; but a run of the loop is a
behaviour, and there it is an inductive invariant like any other. `Picking` says that `ready` and `newest` are the best of the pods
passed. `Offering` says that what `PodPorts` has seen is what it returns, that rows keep their remote ports and, as long
as nobody types, distinct local ones, and that the pairs collected come from included rows above. `Finding` says that the result
is what is in the directories passed and in the passed part of the one being merged, each once and in order: an entry
that was not seen belongs to a directory that was not scanned before (`NewEntryIsLast`). The properties are the invariants at the exits.

The strengthenings `IInv` of `Persistence`, `Daemon` and `Ipc` and `SequentialInv` of `Manager` are in the modules themselves, so that TLC can evaluate
them; it found each of them to hold, on the instances of the runs or on smaller and larger ones, before its
proof was begun. The configurations list the properties only.

Only model-checked:

- Everything under fairness (`StopTerminates`, `DropIsHandled`, `DeadPortReleasesTheOthers`, `RequestsReturn`, `StoppedForwardsLeave`, `EndedLeaveTheFile`,
  `ShutdownEnds`, `MissingIsReported`, `CommandsEnd`, `SignalledEnd`, `EventsAreShownWhileRead`, `HandlersReturn`, `ViewCatchesUp`): the
  prover has no rule for liveness under fairness.

## Where code and comments disagree

Each of these is a run in which TLC finds the statement violated.

| run | the statement | what the code does |
|---|---|---|
| `ManagerRestoreCollision` | "the forward's unique identifier" (`forwarder.go:71`) | `nextSeq` starts at 0 in a new daemon and a generated id is not looked up, so it can be the id of a restored forward, which it replaces in the registry |
| `ForwardDeadPort` | `Close` "causes ForwardPorts() to return ... The outer Run() loop then surfaces this as a drop and reconnects" (`forwarder.go:336`) | client-go's `Close` closes the listeners; `ForwardPorts` goes on with its connection, and the forward stays "ready" with no listener and no health check |
| `IpcLogs` | `handleForwardLogs` "subscribes the calling connection to log events" (`handler.go:343`) | `runLogs` marshals its params and `SubscribeEvents` marshals them again (`main.go:895`); the handler cannot decode the string, its error is passed over, and the command waits for ever |

Seen while modelling and not kept as runs.

The forwards and their registry:

- `bo.attempt = 0` after every wait (`forwarder.go:185`): each wait is drawn from the first interval,
  where `forwarder.go:132` says "exponential backoff".
- Two concurrent starts may both pass the check of claimed ports that "closes the window" (`manager.go:387`),
  since it and the registration are not one critical section.
- `StopAll` "terminates every forward" (`manager.go:270`) of a snapshot, and then replaces the map (`manager.go:282`), with
  what was registered meanwhile.
- Nothing refuses a spec that has one local port twice (`manager.go:391`); a service with one port in
  TCP and UDP offers such a spec (`ports.go:41`). `SubmittedPairsCanStart` is therefore about pods.
- A restart that overlaps the start of the same id: the lookup at `manager.go:101` and the
  registration are apart.
- `LivePorts` reports ports of a portforwarder that has ended.

Persistence and the audit:

- `restoreOnStart` rehydrates "any forwards that were active at the previous shutdown" (`handler.go:71`), but
  the shutdown stops them, and each stop removes the record (`handler.go:205`): only a signal or a crash leaves records.
- The record of a forward has no context, so a restored forward uses the current context of its kubeconfig.
- When `Store.Load` fails, the audit reports every live port as an orphan; `doctor` compares with an empty list when its
  own list call failed (`main.go:751`).

Commands and the daemon:

- Commands that overlap: both may find no daemon and spawn one (`main.go:272`, `main.go:356`), the second removes
  the socket of the first and overwrites its record, and a daemon that leaves removes the files of its successor
  (`server.go:126`).
- After a crash, `ensureDaemon` of the terminal that spawned the daemon still sees its zombie as alive
  (`main.go:266`), and anyone sees a process that was given the same id.
- `kpf ls -w` never connects its client (`main.go:541`): every refresh fails.
- A stream is acknowledged before it subscribes (`handler.go:324`): events in between are not sent.
- `SubscribeEvents` says "The stream ends when ctx is cancelled, the connection errors, or the daemon closes" (`client.go:145`). Its
  reader also ends after an hour without a frame (`client.go:175`), and does not end when the context is cancelled
  while it reads. After an idle hour `kpf forward events -f` and `kpf logs -f` wait on and show nothing that comes later.
- `kpf daemon stop` says "daemon stopped" once the socket is gone, which closing the listener does at once; `Serve` then waits
  for its connections (`server.go:113`), and the forwards, which die with the daemon (kpf README, line 216), live on
  for as long: up to an hour for the stream of a TUI, until its stdin ends for `kpf logs -f`.

The terminal UI:

- A second Enter before the first one's message has arrived starts the forward twice (`app.go:154` sets
  `starting` too late for it; the kpf README, line 315, speaks of duplicate Enter). The second start is refused by the claimed ports,
  or by the race above not even that.
- Tab divides by zero on a page without ports, and shift+tab there selects row -1 (`step_portmap.go:271`).
- Every visit of the active view arms a further tick (`app.go:192`), so refreshes multiply while the user goes to and fro.
- Every list puts the cursor back on the first row (`app.go:289`), at the next refresh at the latest.
- The answer of an older port query replaces the pod but not the object's name, and opens the port step wherever the user is (`app.go:230`).

Queries:

- Two rows of the port page may be edited to one local port: each can be listened on when Enter probes it, nobody compares them
  (`step_portmap.go:179`, `manager.go:391`), and client-go cannot bind the second (hence `~in.edited` in `SubmittedPairsCanStart`).
- The ports of a service are the service's, not the targets' (`ports.go:41`), and go to the pod as they are.
- The selector of a workload ignores `matchExpressions`.
- Two names of one directory (relative and absolute) list its kubeconfigs twice; only equal paths are recognised.

## What is not modelled

- The wire format and the frame limit, flags, output, views and styles, filters and window sizes; messages, log texts, byte counts.
- client-go, the API server and the kernel, beyond what the code uses of them.
- `RemoveSpec` and the other operations without a caller.
- The random length of waits: a timer is a step that may happen at any time.
- Durations: `Start` may stop polling at any time, whatever the status.
- Windows: process handling is different there; the forwards are not.
- The lists of namespaces, objects and pods: requests passed on, and formatting.
- The orphan half of the audit: it is about listeners nobody registered, for which the model of the registry has no
  place.
- Process ids that are used again; nothing in the code could tell.
- Loading of kubeconfigs, which is client-go's.
- What a record holds besides its status.

## Plan

Done: the modules of all components, and a theorem for every safety property the prover can reach
([above](#what-is-proved)).

Left, in this order:

1. `Manager`: one theorem for `StopAll` and restarts of several clients, with a premise on what may overlap, in the
   manner of `hasty` in `Daemon`.
2. `Persistence`: the step relation behind `EndedLeaveTheFile`, that from `Gone` nothing but a new forward of the id
   writes its record.
3. `Wizard`: that the table always shows an answer the daemon once gave. It wants a history of `running`; which of
   two answers is the later one the wizard cannot know.

## How to run

```
tlc -config ForwardSafety.cfg Forward
tlc -config ManagerSequential.cfg MCManager
tlc -config PersistenceShutdown.cfg MCPersistence
tlc -config PersistenceRestart.cfg MCPersistence
tlc -config Daemon.cfg MCDaemon
tlc -config Ipc.cfg MCIpc
tlc -config Wizard.cfg MCWizard
tlc -config Queries.cfg Queries
for m in Forward Manager ManagerSequential Persistence Daemon Ipc Wizard Queries; do tlapm ${m}Proofs.tla; done
```

`PROJECT.json` lists every run with its module, configuration and properties, the lines of
code each definition models, and the hazards the properties are for.
