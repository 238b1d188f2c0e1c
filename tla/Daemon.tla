------------------------------- MODULE Daemon -------------------------------
(***************************************************************************)
(* The life of the daemon process as the commands of cmd/kpf/main.go see   *)
(* it: two files, daemon.json and the socket, tell every command whether a *)
(* daemon runs.  The commands check, remove, spawn and poll; the daemon    *)
(* writes its record, listens, drains its connections after a signal and   *)
(* removes both files.  No lock orders any of this, and a process may die  *)
(* between any two steps.                                                  *)
(*                                                                         *)
(* A command is two kinds of step: what it does to files and processes,    *)
(* and the connection it may hold ("open"): a TUI and its event stream, a  *)
(* call like `kpf ls`, or a command that follows a stream until its stdin  *)
(* ends (`kpf forward events -f`, `kpf logs -f`).  A process id is never   *)
(* used again.                                                             *)
(***************************************************************************)
EXTENDS Naturals, FiniteSets

CONSTANTS
  Pids,   \* the daemons that may be spawned: a bound
  Users,  \* the terminals, each running one command at a time
  None,   \* no process
  Torn    \* the content of daemon.json between truncate and write

ASSUME DaemonAssumption == None \notin Pids /\ Torn \notin Pids /\ None # Torn

VARIABLES
  record,    \* daemon.json: a pid, Torn, or None when there is no file
  sock,      \* the socket file: the daemon that bound it, or None
  at,        \* what each daemon is doing
  cancelled, \* the daemons whose context a signal cancelled
  parent,    \* the running command that spawned a daemon, or None
  cmd,       \* the commands: [op, pc, pid], pid read from the record
  conn,      \* the daemon a user's connection is accepted by, or None
  hasty      \* history: a command began while something was in transit

files == <<record, sock>>
procs == <<at, cancelled, parent>>
vars == <<record, sock, at, cancelled, parent, cmd, conn, hasty>>

Spawning == {"start", "tui"}
Dialing  == {"call", "follow"}  \* these need the socket only
Streaming == {"tui", "follow"}  \* these keep an event stream
Ops == Spawning \cup Dialing \cup {"stop"}
Booting == {"spawned", "torn", "recorded", "handling", "cleaned"}
Leaving == {"draining", "unlink", "unrecord"}
Dead == {"exited", "killed"}

TypeOK ==
  /\ record \in Pids \cup {None, Torn}
  /\ sock \in Pids \cup {None}
  /\ at \in [Pids -> {"unborn", "serving"} \cup Booting \cup Leaving \cup Dead]
  /\ cancelled \subseteq Pids
  /\ parent \in [Pids -> Users \cup {None}]
  /\ cmd \in [Users -> [op : Ops, pid : Pids \cup {None},
       pc : {"idle", "read", "probe", "stat", "clean", "spawn", "poll",
             "term", "wait", "dial", "open"}]]
  /\ conn \in [Users -> Pids \cup {None}]
  /\ hasty \in BOOLEAN

Idle == [op |-> "call", pc |-> "idle", pid |-> None]

Init ==
  /\ record = None /\ sock = None
  /\ at = [d \in Pids |-> "unborn"]
  /\ cancelled = {}
  /\ parent = [d \in Pids |-> None]
  /\ cmd = [u \in Users |-> Idle]
  /\ conn = [u \in Users |-> None]
  /\ hasty = FALSE

Alive(d) == at[d] \notin Dead \cup {"unborn"}
InTransit(d) == Alive(d) /\ (at[d] # "serving" \/ d \in cancelled)
Busy(u) == cmd[u].pc \notin {"idle", "open"}

\* The commands that act on files and processes.
Acting(u) == Busy(u) /\ cmd[u].op \notin Dialing

\* kill(pid, 0) also succeeds for a zombie, a dead child nobody waited for:
\* the command that spawned the daemon released it and still runs.
Exists(d) == d \in Pids /\ (Alive(d) \/ (at[d] \in Dead /\ parent[d] # None))

-----------------------------------------------------------------------------
(* Commands                                                                *)

Goto(u, pc) == cmd' = [cmd EXCEPT ![u].pc = pc]
Forget(u, pc) == cmd' = [cmd EXCEPT ![u].pc = pc, ![u].pid = None]

\* The process of the command exits: its zombies are reaped.
Exit(u) ==
  /\ cmd' = [cmd EXCEPT ![u] = Idle]
  /\ parent' = [d \in Pids |-> IF parent[d] = u THEN None ELSE parent[d]]

\* Bound: a command that may spawn begins only while a pid is left for it.
Begin(u, op) ==
  /\ cmd[u].pc = "idle"
  /\ op \in Spawning => Cardinality({d \in Pids : at[d] = "unborn"}) >
       Cardinality({v \in Users : Busy(v) /\ cmd[v].op \in Spawning})
  /\ cmd' = [cmd EXCEPT ![u] = [op |-> op, pid |-> None,
                                pc |-> IF op \in Dialing THEN "dial" ELSE "read"]]
  /\ hasty' = (hasty \/ (op \notin Dialing /\ (\/ \E v \in Users \ {u} : Acting(v)
                                               \/ \E d \in Pids : InTransit(d))))
  /\ UNCHANGED <<files, procs, conn>>

\* Slip: an unreadable record is taken for one.
ReadTornRecord(u) ==
  /\ cmd[u].pc = "read"
  /\ cmd' = [cmd EXCEPT ![u].pid = record,
                         ![u].pc = IF record = None THEN "clean" ELSE "probe"]
  /\ UNCHANGED <<files, procs, conn, hasty>>

\* ReadDaemonFile, and what each command does when it fails: stop reports
\* "not running" or an error, the others find no daemon alive.
ReadRecord(u) ==
  /\ cmd[u].pc = "read"
  /\ \/ /\ record \in Pids
        /\ cmd' = [cmd EXCEPT ![u].pid = record,
                              ![u].pc = IF cmd[u].op = "stop" THEN "term" ELSE "probe"]
        /\ UNCHANGED parent
     \/ /\ record \notin Pids
        /\ IF cmd[u].op = "stop" THEN Exit(u) ELSE Goto(u, "clean") /\ UNCHANGED parent
  /\ UNCHANGED <<files, at, cancelled, conn, hasty>>

\* Slip: the record alone does not keep a command from spawning.
ProbeNothing(u) ==
  /\ cmd[u].pc = "probe"
  /\ Forget(u, "clean")
  /\ UNCHANGED <<files, procs, conn, hasty>>

\* checkAlive: ensureDaemon is done when the process exists, daemonStart
\* still looks for the socket.
Probe(u) ==
  /\ cmd[u].pc = "probe"
  /\ Forget(u, IF ~Exists(cmd[u].pid) THEN "clean"
               ELSE IF cmd[u].op = "tui" THEN "open" ELSE "stat")
  /\ UNCHANGED <<files, procs, conn, hasty>>

\* Slip: the record is removed before the socket is looked for.
RemoveThenStat(u) ==
  /\ cmd[u].pc = "stat"
  /\ record' = None
  /\ IF sock # None THEN Exit(u) ELSE Goto(u, "clean") /\ UNCHANGED parent
  /\ UNCHANGED <<sock, at, cancelled, conn, hasty>>

\* daemonStart with a live process: already running, or a stale record.
StatSocket(u) ==
  /\ cmd[u].pc = "stat"
  /\ IF sock # None
       THEN Exit(u) /\ UNCHANGED record
       ELSE Goto(u, "clean") /\ record' = None /\ UNCHANGED parent
  /\ UNCHANGED <<sock, at, cancelled, conn, hasty>>

\* os.Remove of the socket "left by a crashed process", whoever owns it.
CleanSocket(u) ==
  /\ cmd[u].pc = "clean"
  /\ sock' = None
  /\ Goto(u, "spawn")
  /\ UNCHANGED <<record, procs, conn, hasty>>

Spawn(u) ==
  /\ cmd[u].pc = "spawn"
  /\ \E d \in Pids :
       /\ at[d] = "unborn"
       /\ at' = [at EXCEPT ![d] = "spawned"]
       /\ parent' = [parent EXCEPT ![d] = u]
  /\ Goto(u, "poll")
  /\ UNCHANGED <<files, cancelled, conn, hasty>>

\* The socket exists, anyone's socket: the TUI opens, start reports success.
PollReady(u) ==
  /\ cmd[u].pc = "poll"
  /\ sock # None
  /\ IF cmd[u].op = "tui" THEN Goto(u, "open") /\ UNCHANGED parent ELSE Exit(u)
  /\ UNCHANGED <<files, at, cancelled, conn, hasty>>

\* Slip: the poll has no deadline.
PollAgain(u) ==
  /\ cmd[u].pc = "poll"
  /\ sock = None
  /\ UNCHANGED vars

\* "daemon did not become ready in 5s"; the spawned process lives on.
PollTimeout(u) ==
  /\ cmd[u].pc = "poll"
  /\ sock = None
  /\ Exit(u)
  /\ UNCHANGED <<files, at, cancelled, conn, hasty>>

\* Before signal.Notify a SIGTERM kills; after it cancels the context.
HandlesSignals(d) == Alive(d) /\ at[d] \notin {"spawned", "torn", "recorded"}

DropConnections(d) == conn' = [u \in Users |-> IF conn[u] = d THEN None ELSE conn[u]]

\* daemonStop: SIGTERM; a process that is gone has its files removed.
Terminate(u) ==
  LET d == cmd[u].pid IN
  /\ cmd[u].pc = "term"
  /\ IF Exists(d)
       THEN /\ Goto(u, "wait")
            /\ IF HandlesSignals(d)
                 THEN cancelled' = cancelled \cup {d} /\ UNCHANGED at
                 ELSE at' = [at EXCEPT ![d] = "killed"] /\ UNCHANGED cancelled
            /\ UNCHANGED <<files, parent>>
       ELSE record' = None /\ sock' = None /\ Exit(u) /\ UNCHANGED <<at, cancelled>>
  /\ UNCHANGED <<conn, hasty>>

\* The socket is gone: "daemon stopped", though the daemon may still wait for
\* its connections.
WaitDone(u) ==
  /\ cmd[u].pc = "wait"
  /\ sock = None
  /\ Exit(u)
  /\ UNCHANGED <<files, at, cancelled, conn, hasty>>

\* "daemon did not stop in 5s; sending SIGKILL".
WaitTimeout(u) ==
  LET d == cmd[u].pid IN
  /\ cmd[u].pc = "wait"
  /\ sock # None
  /\ at' = [at EXCEPT ![d] = IF Alive(d) THEN "killed" ELSE @]
  /\ IF Alive(d) THEN DropConnections(d) ELSE UNCHANGED conn
  /\ Exit(u)
  /\ UNCHANGED <<files, cancelled, hasty>>

\* A client dials: only a bound socket with a listener behind it answers.
\* A command that fails to exits; the TUI's watcher tries again every two
\* seconds, while a command that follows a stream never dials again.
Dial(u) ==
  /\ cmd[u].pc \in {"dial", "open"} /\ conn[u] = None
  /\ cmd[u].pc = "open" => cmd[u].op = "tui"
  /\ IF sock # None /\ at[sock] = "serving"
       THEN /\ conn' = [conn EXCEPT ![u] = sock]
            /\ Goto(u, "open") /\ UNCHANGED parent
       ELSE cmd[u].op \in Dialing /\ Exit(u) /\ UNCHANGED conn
  /\ UNCHANGED <<files, at, cancelled, hasty>>

\* Slip: a call without a deadline waits for its answer.
HangupOfStream(u) ==
  /\ cmd[u].pc = "open" /\ cmd[u].op \in Streaming
  /\ conn' = [conn EXCEPT ![u] = None]
  /\ Exit(u)
  /\ UNCHANGED <<files, at, cancelled, hasty>>

\* A call is answered or times out; the user of a TUI quits; the stdin of a
\* command that follows a stream ends.
Hangup(u) ==
  /\ cmd[u].pc = "open"
  /\ conn' = [conn EXCEPT ![u] = None]
  /\ Exit(u)
  /\ UNCHANGED <<files, at, cancelled, hasty>>

\* No frame for an hour: the reader of a stream meets its deadline.  The TUI's
\* watcher closes its client and dials again.  A command that follows a stream
\* closes nothing: only a finalizer of the runtime may close its connection.
StreamExpires(u) ==
  /\ cmd[u].pc = "open" /\ cmd[u].op \in Streaming
  /\ conn[u] # None
  /\ conn' = [conn EXCEPT ![u] = None]
  /\ UNCHANGED <<files, procs, cmd, hasty>>

CommandStep(u) ==
  \/ ReadRecord(u) \/ Probe(u) \/ StatSocket(u) \/ CleanSocket(u) \/ Spawn(u)
  \/ PollReady(u) \/ PollTimeout(u) \/ Terminate(u) \/ WaitDone(u) \/ WaitTimeout(u)

-----------------------------------------------------------------------------
(* The daemon                                                              *)

Move(d, from, to) == at[d] = from /\ at' = [at EXCEPT ![d] = to]

\* os.WriteFile truncates daemon.json before it writes.
TruncateRecord(d) ==
  /\ Move(d, "spawned", "torn")
  /\ record' = Torn
  /\ UNCHANGED <<sock, cancelled, parent, cmd, conn, hasty>>

WriteRecord(d) ==
  /\ Move(d, "torn", "recorded")
  /\ record' = d
  /\ UNCHANGED <<sock, cancelled, parent, cmd, conn, hasty>>

NotifySignals(d) ==
  /\ Move(d, "recorded", "handling")
  /\ UNCHANGED <<files, cancelled, parent, cmd, conn, hasty>>

\* Serve: remove a stale socket, then bind; a socket bound in between is an
\* error, and os.Exit(1) skips the deferred removals.
ServeClean(d) ==
  /\ Move(d, "handling", "cleaned")
  /\ sock' = None
  /\ UNCHANGED <<record, cancelled, parent, cmd, conn, hasty>>

Listen(d) ==
  /\ Move(d, "cleaned", IF sock = None THEN "serving" ELSE "exited")
  /\ sock' = IF sock = None THEN d ELSE sock
  /\ UNCHANGED <<record, cancelled, parent, cmd, conn, hasty>>

\* ctx is done: ln.Close unlinks the path, whoever bound it last.
CloseListener(d) ==
  /\ d \in cancelled
  /\ Move(d, "serving", "draining")
  /\ sock' = None
  /\ UNCHANGED <<record, cancelled, parent, cmd, conn, hasty>>

\* wg.Wait: a handler reads its connection until the client hangs up.
\* Then Serve and a deferred call each remove the socket path.
RemoveSocket(d) ==
  /\ \/ Move(d, "draining", "unlink") /\ \A u \in Users : conn[u] # d
     \/ Move(d, "unlink", "unrecord")
  /\ sock' = None
  /\ UNCHANGED <<record, cancelled, parent, cmd, conn, hasty>>

RemoveRecord(d) ==
  /\ Move(d, "unrecord", "exited")
  /\ record' = None
  /\ UNCHANGED <<sock, cancelled, parent, cmd, conn, hasty>>

\* A crash, a SIGKILL, or the os.Exit(0) of handleShutdown: files stay.
Crash(d) ==
  /\ Alive(d)
  /\ at' = [at EXCEPT ![d] = "killed"]
  /\ DropConnections(d)
  /\ UNCHANGED <<files, cancelled, parent, cmd, hasty>>

DaemonStep(d) ==
  \/ TruncateRecord(d) \/ WriteRecord(d) \/ NotifySignals(d) \/ ServeClean(d)
  \/ Listen(d) \/ CloseListener(d) \/ RemoveSocket(d) \/ RemoveRecord(d)

-----------------------------------------------------------------------------
Next ==
  \/ \E u \in Users :
       \/ \E op \in Ops : Begin(u, op)
       \/ CommandStep(u) \/ Dial(u) \/ Hangup(u) \/ StreamExpires(u)
  \/ \E d \in Pids : DaemonStep(d) \/ Crash(d)

Spec == Init /\ [][Next]_vars

\* Processes run and commands poll; a call is answered or times out.  After a
\* signal the handlers return and send nothing more, so the hour of a TUI's
\* stream passes.  Nobody has to begin a command, to quit a TUI, to end the
\* stdin of a command, or to crash.
FairSpec ==
  /\ Spec
  /\ \A u \in Users : /\ WF_vars(CommandStep(u))
                      /\ WF_vars(Dial(u) /\ cmd[u].op \in Dialing)
                      /\ WF_vars(Hangup(u) /\ cmd[u].op = "call")
                      /\ WF_vars(StreamExpires(u) /\ cmd[u].op = "tui" /\ conn[u] \in cancelled)
  /\ \A d \in Pids : WF_vars(DaemonStep(d))

-----------------------------------------------------------------------------
(* Properties                                                              *)

\* Whoever waits for each command and its daemon to settle never gets a
\* second daemon, whatever crashed in between: ensureDaemon and daemonStart
\* spawn only where no daemon is alive.
OneDaemon ==
  ~hasty => \A d, e \in Pids : Alive(d) /\ Alive(e) => d = e

\* Under the same condition the files tell the truth: a daemon that serves can
\* be dialled and is found by its record, since no command removes a file of
\* it, and one that left by its own return is in neither file.  (A daemon that
\* could not bind leaves by os.Exit and its record stays.)
FilesTellTheTruth ==
  ~hasty => \A d \in Pids :
    /\ at[d] = "serving" => sock = d /\ record = d
    /\ at[d] = "exited" => sock # d /\ record # d

\* Every command ends, or has its daemon: no poll outlives its deadline.
CommandsEnd ==
  \A u \in Users : (cmd[u].pc = "read") ~> (cmd[u].pc \in {"idle", "open"})

\* A command that follows a stream keeps a connection of the daemon.
Followed(d) == \E u \in Users : conn[u] = d /\ cmd[u].op = "follow"

\* A daemon that was signalled ends, after an hour at most if a TUI keeps its
\* stream, unless from some point on a command that follows a stream keeps it.
SignalledEnd ==
  \A d \in Pids : (d \in cancelled) ~> (at[d] \in Dead \/ []Followed(d))

-----------------------------------------------------------------------------
(* The parts of the inductive invariant                                    *)

CommandInv ==
  \A u \in Users :
    /\ cmd[u].op \in Dialing => cmd[u].pc \in {"idle", "dial", "open"}
    /\ cmd[u].pc \in {"probe", "term", "wait"} => cmd[u].pid \in Pids

\* What the two files hold, in each state of a daemon.
FileInv ==
  \A d \in Pids :
    /\ sock = d => at[d] \in {"serving", "killed"}
    /\ record = d => at[d] \notin {"unborn", "spawned", "torn", "exited"}
    /\ at[d] \in Booting => sock = None
    /\ at[d] \in {"recorded", "handling", "cleaned", "serving"} => record = d
    /\ at[d] = "serving" => sock = d
    /\ at[d] \in Leaving => d \in cancelled

\* What the one command that acts may rely on, at each of its steps.
ActorInv ==
  \A u \in Users : Acting(u) =>
    /\ \A v \in Users : Acting(v) => v = u
    /\ cmd[u].pc \in {"read", "probe", "stat", "term"} => \A d \in Pids : ~InTransit(d)
    /\ cmd[u].pc \in {"probe", "term", "wait"} => \A d \in Pids : Alive(d) => cmd[u].pid = d
    /\ cmd[u].pc \in {"clean", "spawn"} => \A d \in Pids : ~Alive(d)
    /\ cmd[u].pc = "spawn" => sock = None

\* The inductive invariant.
IInv ==
  /\ TypeOK
  /\ CommandInv
  /\ OneDaemon
  /\ ~hasty => FileInv /\ ActorInv
=============================================================================
