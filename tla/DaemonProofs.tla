----------------------------- MODULE DaemonProofs -----------------------------
(***************************************************************************)
(* Theorems about Daemon: its types, and that whoever waits for commands   *)
(* and daemons to settle never gets a second daemon and can trust the two  *)
(* files, for any number of terminals and daemons.                         *)
(***************************************************************************)
EXTENDS Daemon, TLAPS

-----------------------------------------------------------------------------
(* Types                                                                   *)

States == {"unborn", "serving"} \cup Booting \cup Leaving \cup Dead

Pcs == {"idle", "read", "probe", "stat", "clean", "spawn", "poll",
        "term", "wait", "dial", "open"}

Commands == [op : Ops, pid : Pids \cup {None}, pc : Pcs]

\* The other commands stay, and what is written to the command of u.
LEMMA GotoFacts ==
  ASSUME TypeOK, NEW u \in Users, NEW pc \in Pcs, Goto(u, pc)
  PROVE  /\ cmd' \in [Users -> Commands]
         /\ \A v \in Users \ {u} : cmd'[v] = cmd[v]
         /\ cmd'[u].pc = pc /\ cmd'[u].op = cmd[u].op /\ cmd'[u].pid = cmd[u].pid
BY DEF TypeOK, Goto, Commands, Pcs

LEMMA ForgetFacts ==
  ASSUME TypeOK, NEW u \in Users, NEW pc \in Pcs, Forget(u, pc)
  PROVE  /\ cmd' \in [Users -> Commands]
         /\ \A v \in Users \ {u} : cmd'[v] = cmd[v]
         /\ cmd'[u].pc = pc /\ cmd'[u].op = cmd[u].op
<1>1. cmd \in [Users -> Commands]
  BY DEF TypeOK, Commands, Pcs
<1>2. cmd' = [cmd EXCEPT ![u] = [cmd[u] EXCEPT !.pc = pc, !.pid = None]]
  BY DEF Forget
<1>3. [cmd[u] EXCEPT !.pc = pc, !.pid = None] \in Commands
  BY <1>1 DEF Commands
<1>4. QED
  BY <1>1, <1>2, <1>3 DEF Commands

LEMMA ExitFacts ==
  ASSUME TypeOK, NEW u \in Users, Exit(u)
  PROVE  /\ cmd' \in [Users -> Commands]
         /\ \A v \in Users \ {u} : cmd'[v] = cmd[v]
         /\ cmd'[u].pc = "idle" /\ cmd'[u].op = "call"
         /\ parent' \in [Pids -> Users \cup {None}]
BY DEF TypeOK, Exit, Idle, Commands, Pcs, Ops, Dialing

LEMMA MoveFacts ==
  ASSUME TypeOK, NEW d \in Pids, NEW from, NEW to \in States, Move(d, from, to)
  PROVE  /\ at' \in [Pids -> States]
         /\ \A e \in Pids \ {d} : at'[e] = at[e]
         /\ at[d] = from /\ at'[d] = to
BY DEF TypeOK, Move, States

LEMMA InitType == Init => TypeOK /\ CommandInv
<1> SUFFICES ASSUME Init PROVE TypeOK /\ CommandInv
  OBVIOUS
<1>1. cmd \in [Users -> Commands]
  BY DEF Init, Idle, Commands, Ops, Dialing, Pcs
<1>2. TypeOK
  BY <1>1 DEF Init, TypeOK, Commands, Pcs
<1>3. CommandInv
  BY DEF Init, CommandInv, Idle
<1>4. QED
  BY <1>2, <1>3

LEMMA BeginType ==
  ASSUME TypeOK, CommandInv, NEW u \in Users, NEW op \in Ops, Begin(u, op)
  PROVE  TypeOK' /\ CommandInv'
<1>1. /\ cmd' \in [Users -> Commands]
      /\ \A v \in Users \ {u} : cmd'[v] = cmd[v]
      /\ cmd'[u].op = op /\ cmd'[u].pc = IF op \in Dialing THEN "dial" ELSE "read"
  BY DEF TypeOK, Begin, Commands, Pcs
<1>2. hasty' \in BOOLEAN
  BY DEF TypeOK, Begin
<1>3. TypeOK'
  BY <1>1, <1>2 DEF TypeOK, Begin, Commands, Pcs, files, procs
<1>4. CommandInv'
  BY <1>1 DEF CommandInv
<1>5. QED
  BY <1>3, <1>4

LEMMA CommandType ==
  ASSUME TypeOK, CommandInv, NEW u \in Users, CommandStep(u)
  PROVE  TypeOK' /\ CommandInv'
<1> USE DEF files, procs
<1>1. CASE ReadRecord(u)
  <2>1. CASE record \in Pids
    <3>1. /\ cmd' \in [Users -> Commands]
          /\ \A v \in Users \ {u} : cmd'[v] = cmd[v]
          /\ cmd'[u].op = cmd[u].op /\ cmd'[u].pid \in Pids
          /\ cmd'[u].pc \in {"term", "probe"} /\ cmd[u].pc = "read"
      BY <1>1, <2>1 DEF ReadRecord, TypeOK, Commands, Pcs
    <3>2. QED
      BY <1>1, <2>1, <3>1 DEF ReadRecord, TypeOK, CommandInv, Commands, Pcs
  <2>2. CASE record \notin Pids
    <3>1. Exit(u) \/ (Goto(u, "clean") /\ parent' = parent /\ cmd[u].pc = "read")
      BY <1>1, <2>2 DEF ReadRecord
    <3>2. QED
      BY <1>1, <3>1, ExitFacts, GotoFacts DEF ReadRecord, TypeOK, CommandInv, Commands, Pcs
  <2>3. QED
    BY <2>1, <2>2
<1>2. CASE Probe(u)
  <2>1. PICK pc \in {"clean", "open", "stat"} : Forget(u, pc) /\ cmd[u].pc = "probe"
    BY <1>2 DEF Probe
  <2>2. QED
    BY <1>2, <2>1, ForgetFacts DEF Probe, TypeOK, CommandInv, Commands, Pcs
<1>3. CASE StatSocket(u)
  <2>1. /\ Exit(u) \/ (Goto(u, "clean") /\ parent' = parent /\ cmd[u].pc = "stat")
        /\ record' \in {record, None}
    BY <1>3 DEF StatSocket
  <2>2. QED
    BY <1>3, <2>1, ExitFacts, GotoFacts DEF StatSocket, TypeOK, CommandInv, Commands, Pcs
<1>4. CASE CleanSocket(u)
  BY <1>4, GotoFacts DEF CleanSocket, TypeOK, CommandInv, Commands, Pcs
<1>5. CASE Spawn(u)
  <2>1. Goto(u, "poll") /\ cmd[u].pc = "spawn"
    BY <1>5 DEF Spawn
  <2>2. at' \in [Pids -> States] /\ parent' \in [Pids -> Users \cup {None}]
    BY <1>5 DEF Spawn, TypeOK, States, Booting
  <2>3. /\ cmd' \in [Users -> Commands]
        /\ \A v \in Users \ {u} : cmd'[v] = cmd[v]
        /\ cmd'[u].pc = "poll" /\ cmd'[u].op = cmd[u].op
    BY <2>1, GotoFacts DEF Pcs
  <2>4. QED
    BY <1>5, <2>1, <2>2, <2>3 DEF Spawn, TypeOK, CommandInv, Commands, Pcs, States
<1>6. CASE PollReady(u)
  <2>1. Exit(u) \/ (Goto(u, "open") /\ parent' = parent /\ cmd[u].pc = "poll")
    BY <1>6 DEF PollReady
  <2>2. QED
    BY <1>6, <2>1, ExitFacts, GotoFacts DEF PollReady, TypeOK, CommandInv, Commands, Pcs
<1>7. CASE PollTimeout(u)
  BY <1>7, ExitFacts DEF PollTimeout, TypeOK, CommandInv, Commands, Pcs
<1>8. CASE Terminate(u)
  <2>1. cmd[u].pc = "term" /\ cmd[u].pid \in Pids
    BY <1>8 DEF Terminate, CommandInv
  <2>2. /\ Exit(u) \/ (Goto(u, "wait") /\ parent' = parent)
        /\ record' \in {record, None} /\ sock' \in {sock, None}
        /\ UNCHANGED <<conn, hasty>>
    BY <1>8 DEF Terminate
  <2>3. cancelled' \subseteq Pids /\ at' \in [Pids -> States]
    BY <1>8, <2>1 DEF Terminate, TypeOK, States, Dead
  <2>4. /\ cmd' \in [Users -> Commands] /\ parent' \in [Pids -> Users \cup {None}]
        /\ \A v \in Users \ {u} : cmd'[v] = cmd[v]
        /\ \/ cmd'[u].pc = "idle" /\ cmd'[u].op = "call"
           \/ cmd'[u].pc = "wait" /\ cmd'[u].op = cmd[u].op /\ cmd'[u].pid = cmd[u].pid
    <3>1. "wait" \in Pcs /\ parent \in [Pids -> Users \cup {None}]
      BY DEF Pcs, TypeOK
    <3>2. QED
      BY <2>2, <3>1, ExitFacts, GotoFacts
  <2>5. TypeOK'
    BY <2>2, <2>3, <2>4 DEF TypeOK, Commands, Pcs, States
  <2>6. CommandInv'
    BY <2>1, <2>4 DEF CommandInv
  <2>7. QED
    BY <2>5, <2>6
<1>9. CASE WaitDone(u)
  BY <1>9, ExitFacts DEF WaitDone, TypeOK, CommandInv, Commands, Pcs
<1>10. CASE WaitTimeout(u)
  <2>1. cmd[u].pid \in Pids
    BY <1>10 DEF WaitTimeout, CommandInv
  <2>2. at' \in [Pids -> States] /\ conn' \in [Users -> Pids \cup {None}]
    BY <1>10, <2>1 DEF WaitTimeout, TypeOK, States, Dead, DropConnections
  <2>3. QED
    BY <1>10, <2>2, ExitFacts DEF WaitTimeout, TypeOK, CommandInv, Commands, Pcs, States
<1>11. QED
  BY <1>1, <1>2, <1>3, <1>4, <1>5, <1>6, <1>7, <1>8, <1>9, <1>10 DEF CommandStep

LEMMA ConnectionType ==
  ASSUME TypeOK, CommandInv, NEW u \in Users, Dial(u) \/ Hangup(u)
  PROVE  TypeOK' /\ CommandInv'
<1>1. Exit(u) \/ (Goto(u, "open") /\ parent' = parent)
  BY DEF Dial, Hangup
<1>2. conn' \in [Users -> Pids \cup {None}]
  BY DEF Dial, Hangup, TypeOK
<1>3. UNCHANGED <<record, sock, at, cancelled, hasty>>
  BY DEF Dial, Hangup, files
<1>4. cmd' \in [Users -> Commands] /\ parent' \in [Pids -> Users \cup {None}]
  <2>1. "open" \in Pcs /\ parent \in [Pids -> Users \cup {None}]
    BY DEF Pcs, TypeOK
  <2>2. QED
    BY <1>1, <2>1, ExitFacts, GotoFacts
<1>5. TypeOK'
  BY <1>2, <1>3, <1>4 DEF TypeOK, Commands, Pcs
<1>6. cmd'[u].pc \in {"idle", "open"} /\ \A v \in Users \ {u} : cmd'[v] = cmd[v]
  BY <1>1, ExitFacts, GotoFacts DEF Pcs
<1>7. CommandInv'
  BY <1>6 DEF CommandInv
<1>8. QED
  BY <1>5, <1>7

LEMMA DaemonType ==
  ASSUME TypeOK, CommandInv, NEW d \in Pids, DaemonStep(d) \/ Crash(d)
  PROVE  TypeOK' /\ CommandInv'
<1>1. at' \in [Pids -> States]
  BY DEF DaemonStep, Crash, TruncateRecord, WriteRecord, NotifySignals, ServeClean, Listen,
         CloseListener, RemoveSocket, RemoveRecord, Move, TypeOK, States, Booting, Leaving, Dead
<1>2. record' \in Pids \cup {None, Torn} /\ sock' \in Pids \cup {None}
  BY DEF DaemonStep, Crash, TruncateRecord, WriteRecord, NotifySignals, ServeClean, Listen,
         CloseListener, RemoveSocket, RemoveRecord, TypeOK, files
<1>3. conn' \in [Users -> Pids \cup {None}] /\ UNCHANGED <<cancelled, parent, cmd, hasty>>
  BY DEF DaemonStep, Crash, TruncateRecord, WriteRecord, NotifySignals, ServeClean, Listen,
         CloseListener, RemoveSocket, RemoveRecord, TypeOK, DropConnections
<1>4. QED
  BY <1>1, <1>2, <1>3 DEF TypeOK, CommandInv, States

\* The end of a stream's hour takes a connection and nothing else.
LEMMA ExpiryType ==
  ASSUME TypeOK, CommandInv, NEW u \in Users, StreamExpires(u)
  PROVE  TypeOK' /\ CommandInv'
<1>1. conn' \in [Users -> Pids \cup {None}]
  BY DEF StreamExpires, TypeOK
<1>2. UNCHANGED <<record, sock, at, cancelled, parent, cmd, hasty>>
  BY DEF StreamExpires, files, procs
<1>3. QED
  BY <1>1, <1>2 DEF TypeOK, CommandInv

-----------------------------------------------------------------------------
(* One daemon, and files that tell the truth                               *)

OneAlive == \A d, e \in Pids : Alive(d) /\ Alive(e) => d = e

Settled == OneAlive /\ FileInv /\ ActorInv

\* A command that takes a step is the one that acts.
LEMMA TheActor ==
  ASSUME TypeOK, CommandInv, ActorInv, NEW u \in Users, CommandStep(u)
  PROVE  /\ Acting(u)
         /\ \A v \in Users \ {u} : ~Acting(v)
<1>1. cmd[u].pc \notin {"idle", "dial", "open"}
  BY DEF CommandStep, ReadRecord, Probe, StatSocket, CleanSocket, Spawn, PollReady, PollTimeout,
         Terminate, WaitDone, WaitTimeout
<1>2. Acting(u)
  BY <1>1 DEF CommandInv, Acting, Busy
<1>3. QED
  BY <1>2 DEF ActorInv

LEMMA InitSettled == Init => Settled
BY DaemonAssumption DEF Init, Settled, OneAlive, FileInv, ActorInv, Alive, Acting, Busy, Idle,
   Booting, Leaving, Dead

LEMMA BeginSettled ==
  ASSUME TypeOK, CommandInv, Settled, NEW u \in Users, NEW op \in Ops, Begin(u, op), ~hasty'
  PROVE  Settled'
<1>1. /\ \A v \in Users \ {u} : cmd'[v] = cmd[v]
      /\ cmd'[u].op = op /\ cmd'[u].pc = IF op \in Dialing THEN "dial" ELSE "read"
  BY DEF TypeOK, Begin
<1>2. UNCHANGED <<record, sock, at, cancelled>>
  BY DEF Begin, files, procs
<1>3. op \notin Dialing => (\A v \in Users \ {u} : ~Acting(v)) /\ \A d \in Pids : ~InTransit(d)
  BY DEF Begin, Acting, TypeOK
<1>4. OneAlive' /\ FileInv'
  BY <1>2 DEF Settled, OneAlive, FileInv, Alive
<1>5. ASSUME NEW v \in Users \ {u} PROVE Acting(v)' <=> Acting(v)
  BY <1>1 DEF Acting, Busy
<1>6. Acting(u)' => op \notin Dialing
  BY <1>1 DEF Acting
<1>7. ActorInv'
  BY <1>1, <1>2, <1>3, <1>5, <1>6 DEF Settled, ActorInv, Alive, InTransit
<1>8. QED
  BY <1>4, <1>7 DEF Settled

\* After a step of the one that acts, only its own entry has to be looked at.
LEMMA OnlyTheActor ==
  ASSUME ActorInv, NEW u \in Users, \A v \in Users \ {u} : ~Acting(v) /\ cmd'[v] = cmd[v],
         Acting(u)' =>
           /\ cmd'[u].pc \in {"read", "probe", "stat", "term"} => \A d \in Pids : ~InTransit(d)'
           /\ cmd'[u].pc \in {"probe", "term", "wait"} => \A d \in Pids : Alive(d)' => cmd'[u].pid = d
           /\ cmd'[u].pc \in {"clean", "spawn"} => \A d \in Pids : ~Alive(d)'
           /\ cmd'[u].pc = "spawn" => sock' = None
  PROVE  ActorInv'
<1>1. \A v \in Users \ {u} : ~Acting(v)'
  BY DEF Acting, Busy
<1>2. QED
  BY <1>1 DEF ActorInv

\* A command that returns leaves the files and the daemons as they are.
LEMMA LeaveSettled ==
  ASSUME TypeOK, Settled, NEW u \in Users, \A v \in Users \ {u} : ~Acting(v),
         Exit(u) \/ Goto(u, "open"), UNCHANGED <<record, sock, at, cancelled>>
  PROVE  Settled'
<1>1. /\ \A v \in Users \ {u} : cmd'[v] = cmd[v]
      /\ cmd'[u].pc \in {"idle", "open"}
  BY ExitFacts, GotoFacts DEF Pcs
<1>2. ~Acting(u)'
  BY <1>1 DEF Acting, Busy
<1>3. ActorInv'
  BY <1>1, <1>2, OnlyTheActor DEF Settled
<1>4. QED
  BY <1>3 DEF Settled, OneAlive, FileInv, Alive

LEMMA CommandSettled ==
  ASSUME TypeOK, CommandInv, Settled, NEW u \in Users, CommandStep(u)
  PROVE  Settled'
<1> USE DEF files, procs, Settled
<1>a. Acting(u) /\ \A v \in Users \ {u} : ~Acting(v)
  BY TheActor
<1>b. DaemonAssumption
  BY DaemonAssumption
<1>1. CASE ReadRecord(u)
  <2>1. CASE Exit(u)
    BY <1>1, <1>a, <2>1, LeaveSettled DEF ReadRecord
  <2>2. CASE ~Exit(u)
    <3>1. /\ \A v \in Users \ {u} : cmd'[v] = cmd[v]
          /\ \/ cmd'[u].pc = "clean" /\ record \notin Pids
             \/ cmd'[u].pc \in {"probe", "term"} /\ cmd'[u].pid = record
          /\ cmd[u].pc = "read"
      BY <1>1, <2>2, GotoFacts DEF ReadRecord, TypeOK, Pcs
    <3>2. UNCHANGED <<record, sock, at, cancelled>>
      BY <1>1 DEF ReadRecord
    <3>3. \A d \in Pids : ~InTransit(d)
      BY <1>a, <3>1 DEF ActorInv
    <3>4. \A d \in Pids : Alive(d) => record = d
      BY <3>3 DEF InTransit, FileInv
    <3>5. ActorInv'
      BY <1>a, <3>1, <3>2, <3>3, <3>4, OnlyTheActor DEF InTransit, Alive
    <3>6. QED
      BY <3>2, <3>5 DEF OneAlive, FileInv, Alive
  <2>3. QED
    BY <2>1, <2>2
<1>2. CASE Probe(u)
  <2>1. PICK pc \in {"clean", "open", "stat"} :
          Forget(u, pc) /\ cmd[u].pc = "probe" /\ (pc = "clean" <=> ~Exists(cmd[u].pid))
    BY <1>2 DEF Probe
  <2>2. (\A v \in Users \ {u} : cmd'[v] = cmd[v]) /\ cmd'[u].pc = pc
    BY <2>1, ForgetFacts DEF Pcs
  <2>3. UNCHANGED <<record, sock, at, cancelled>>
    BY <1>2 DEF Probe
  <2>4. /\ \A d \in Pids : ~InTransit(d)
        /\ \A d \in Pids : Alive(d) => cmd[u].pid = d
    BY <1>a, <2>1 DEF ActorInv
  <2>5. pc = "clean" => \A d \in Pids : ~Alive(d)
    BY <2>1, <2>4 DEF Exists
  <2>6. ActorInv'
    BY <1>a, <2>2, <2>3, <2>4, <2>5, OnlyTheActor DEF InTransit, Alive
  <2>7. QED
    BY <2>3, <2>6 DEF OneAlive, FileInv, Alive
<1>3. CASE StatSocket(u)
  <2>1. CASE sock # None
    BY <1>3, <1>a, <2>1, LeaveSettled DEF StatSocket
  <2>2. CASE sock = None
    <3>1. (\A v \in Users \ {u} : cmd'[v] = cmd[v]) /\ cmd'[u].pc = "clean" /\ cmd[u].pc = "stat"
      BY <1>3, <2>2, GotoFacts DEF StatSocket, Pcs
    <3>2. record' = None /\ UNCHANGED <<sock, at, cancelled>>
      BY <1>3, <2>2 DEF StatSocket
    <3>3. \A d \in Pids : ~Alive(d)
      BY <1>a, <1>b, <2>2, <3>1 DEF ActorInv, InTransit, FileInv
    <3>4. ActorInv'
      BY <1>a, <3>1, <3>2, <3>3, OnlyTheActor DEF Alive
    <3>5. FileInv'
      BY <1>b, <3>2, <3>3 DEF FileInv, Alive, Dead
    <3>6. QED
      BY <3>2, <3>4, <3>5 DEF OneAlive, Alive
  <2>3. QED
    BY <2>1, <2>2
<1>4. CASE CleanSocket(u)
  <2>1. (\A v \in Users \ {u} : cmd'[v] = cmd[v]) /\ cmd'[u].pc = "spawn" /\ cmd[u].pc = "clean"
    BY <1>4, GotoFacts DEF CleanSocket, Pcs
  <2>2. sock' = None /\ UNCHANGED <<record, at, cancelled>>
    BY <1>4 DEF CleanSocket
  <2>3. \A d \in Pids : ~Alive(d)
    BY <1>a, <2>1 DEF ActorInv
  <2>4. ActorInv'
    BY <1>a, <2>1, <2>2, <2>3, OnlyTheActor DEF Alive
  <2>5. FileInv'
    BY <1>b, <2>2, <2>3 DEF FileInv, Alive, Dead
  <2>6. QED
    BY <2>2, <2>4, <2>5 DEF OneAlive, Alive
<1>5. CASE Spawn(u)
  <2>1. Goto(u, "poll") /\ cmd[u].pc = "spawn"
    BY <1>5 DEF Spawn
  <2>2. (\A v \in Users \ {u} : cmd'[v] = cmd[v]) /\ cmd'[u].pc = "poll"
    BY <2>1, GotoFacts DEF Pcs
  <2>3. UNCHANGED <<record, sock, cancelled>>
    BY <1>5 DEF Spawn
  <2>4. sock = None /\ \A d \in Pids : ~Alive(d)
    BY <1>a, <2>1 DEF ActorInv
  <2>5. PICK d \in Pids : at[d] = "unborn" /\ at' = [at EXCEPT ![d] = "spawned"]
    BY <1>5 DEF Spawn
  <2>6. at'[d] = "spawned" /\ \A e \in Pids \ {d} : at'[e] = at[e]
    BY <2>5 DEF TypeOK
  <2>7. ActorInv'
    BY <1>a, <2>2, OnlyTheActor
  <2>8. OneAlive'
    BY <2>4, <2>6 DEF OneAlive, Alive
  <2>9. FileInv'
    BY <1>b, <2>3, <2>4, <2>5, <2>6 DEF FileInv, Alive, Booting, Leaving, Dead
  <2>10. QED
    BY <2>7, <2>8, <2>9
<1>6. CASE PollReady(u) \/ PollTimeout(u) \/ WaitDone(u)
  BY <1>6, <1>a, LeaveSettled DEF PollReady, PollTimeout, WaitDone
<1>7. CASE Terminate(u)
  <2>1. cmd[u].pc = "term" /\ cmd[u].pid \in Pids
    BY <1>7 DEF Terminate, CommandInv
  <2>2. \A d \in Pids : Alive(d) => d = cmd[u].pid /\ at[d] = "serving"
    BY <1>a, <2>1 DEF ActorInv, InTransit
  <2>3. CASE Exists(cmd[u].pid)
    <3>1. Goto(u, "wait") /\ UNCHANGED <<record, sock>>
      BY <1>7, <2>3 DEF Terminate
    <3>2. /\ \A v \in Users \ {u} : cmd'[v] = cmd[v]
          /\ cmd'[u].pc = "wait" /\ cmd'[u].pid = cmd[u].pid
      BY <3>1, GotoFacts DEF Pcs
    <3>3. /\ \A d \in Pids \ {cmd[u].pid} : at'[d] = at[d]
          /\ at'[cmd[u].pid] = at[cmd[u].pid]
               \/ (at'[cmd[u].pid] = "killed" /\ ~HandlesSignals(cmd[u].pid))
          /\ cancelled \subseteq cancelled'
      BY <1>7, <2>1, <2>3 DEF Terminate, TypeOK
    <3>4. \A d \in Pids : Alive(d)' => Alive(d)
      BY <3>3 DEF Alive, Dead
    <3>5. ActorInv'
      BY <1>a, <2>2, <3>2, <3>4, OnlyTheActor
    <3>6. at[cmd[u].pid] \in Dead \/ at'[cmd[u].pid] = at[cmd[u].pid]
      BY <2>1, <2>2, <2>3, <3>3 DEF Exists, HandlesSignals
    <3>7. FileInv'
      BY <1>b, <2>1, <3>1, <3>3, <3>6 DEF FileInv, Dead, Booting, Leaving
    <3>8. QED
      BY <3>4, <3>5, <3>7 DEF OneAlive
  <2>4. CASE ~Exists(cmd[u].pid)
    <3>1. /\ record' = None /\ sock' = None /\ Exit(u)
          /\ UNCHANGED <<at, cancelled>>
      BY <1>7, <2>4 DEF Terminate
    <3>2. \A d \in Pids : ~Alive(d)
      BY <2>2, <2>4 DEF Exists
    <3>3. (\A v \in Users \ {u} : cmd'[v] = cmd[v]) /\ cmd'[u].pc = "idle"
      BY <3>1, ExitFacts
    <3>4. ActorInv'
      BY <1>a, <3>3, OnlyTheActor DEF Acting, Busy
    <3>5. FileInv'
      BY <1>b, <3>1, <3>2 DEF FileInv, Alive, Dead
    <3>6. QED
      BY <3>1, <3>4, <3>5 DEF OneAlive, Alive
  <2>5. QED
    BY <2>3, <2>4
<1>8. CASE WaitTimeout(u)
  <2>1. cmd[u].pc = "wait" /\ cmd[u].pid \in Pids /\ Exit(u)
    BY <1>8 DEF WaitTimeout, CommandInv
  <2>2. (\A v \in Users \ {u} : cmd'[v] = cmd[v]) /\ cmd'[u].pc = "idle"
    BY <2>1, ExitFacts
  <2>3. /\ UNCHANGED <<record, sock, cancelled>>
        /\ \A d \in Pids : at'[d] = at[d] \/ (at'[d] = "killed" /\ Alive(d))
    BY <1>8, <2>1 DEF WaitTimeout, TypeOK
  <2>4. ActorInv'
    BY <1>a, <2>2, OnlyTheActor DEF Acting, Busy
  <2>5. OneAlive'
    BY <2>3 DEF OneAlive, Alive, Dead
  <2>6. FileInv'
    BY <1>b, <2>3 DEF FileInv, Alive, Dead, Booting, Leaving
  <2>7. QED
    BY <2>4, <2>5, <2>6
<1>9. QED
  BY <1>1, <1>2, <1>3, <1>4, <1>5, <1>6, <1>7, <1>8 DEF CommandStep

LEMMA ConnectionSettled ==
  ASSUME TypeOK, CommandInv, Settled, NEW u \in Users, Dial(u) \/ Hangup(u)
  PROVE  Settled'
<1>1. Exit(u) \/ Goto(u, "open")
  BY DEF Dial, Hangup
<1>2. /\ \A v \in Users \ {u} : cmd'[v] = cmd[v]
      /\ cmd'[u].pc \in {"idle", "open"}
  BY <1>1, ExitFacts, GotoFacts DEF Pcs
<1>3. UNCHANGED <<record, sock, at, cancelled>>
  BY DEF Dial, Hangup, files
<1>4. ~Acting(u)'
  BY <1>2 DEF Acting, Busy
<1>5. \A v \in Users \ {u} : Acting(v)' <=> Acting(v)
  BY <1>2 DEF Acting, Busy
<1>6. ActorInv'
  BY <1>2, <1>3, <1>4, <1>5 DEF Settled, ActorInv, InTransit, Alive
<1>7. QED
  BY <1>3, <1>6 DEF Settled, OneAlive, FileInv, Alive

LEMMA ExpirySettled ==
  ASSUME Settled, NEW u \in Users, StreamExpires(u)
  PROVE  Settled'
<1>1. UNCHANGED <<record, sock, at, cancelled, cmd>>
  BY DEF StreamExpires, files, procs
<1>2. QED
  BY <1>1 DEF Settled, OneAlive, FileInv, ActorInv, InTransit, Alive, Acting, Busy

\* A daemon moves: no command relies on a daemon in transit that is not its own.
LEMMA DaemonSettled ==
  ASSUME TypeOK, CommandInv, Settled, NEW d \in Pids, DaemonStep(d)
  PROVE  Settled'
<1> USE DEF Settled
<1>a. /\ InTransit(d) /\ Alive(d)
      /\ \A e \in Pids \ {d} : ~Alive(e)
      /\ UNCHANGED <<cancelled, cmd>>
  <2>1. UNCHANGED <<cancelled, cmd>>
    BY DEF DaemonStep, TruncateRecord, WriteRecord, NotifySignals, ServeClean, Listen,
           CloseListener, RemoveSocket, RemoveRecord
  <2>2. at[d] \in Booting \cup Leaving \/ (at[d] = "serving" /\ d \in cancelled)
    BY DEF DaemonStep, TruncateRecord, WriteRecord, NotifySignals, ServeClean, Listen,
           CloseListener, RemoveSocket, RemoveRecord, Move, Booting, Leaving
  <2>3. InTransit(d) /\ Alive(d)
    BY <2>2 DEF InTransit, Alive, Booting, Leaving, Dead
  <2>4. QED
    BY <2>1, <2>3 DEF OneAlive
<1>b. \A e \in Pids \ {d} : at'[e] = at[e]
  BY DEF DaemonStep, TruncateRecord, WriteRecord, NotifySignals, ServeClean, Listen,
         CloseListener, RemoveSocket, RemoveRecord, Move, TypeOK
<1>c. OneAlive'
  BY <1>a, <1>b DEF OneAlive, Alive
<1>d. ActorInv'
  <2>1. \A u \in Users : Acting(u) => cmd[u].pc \notin {"read", "probe", "stat", "term", "clean", "spawn"}
    BY <1>a DEF ActorInv
  <2>2. \A u \in Users : Acting(u)' <=> Acting(u)
    BY <1>a DEF Acting, Busy
  <2>3. \A e \in Pids : Alive(e)' => e = d
    BY <1>a, <1>b DEF Alive
  <2>4. QED
    BY <1>a, <2>1, <2>2, <2>3 DEF ActorInv
<1>e. FileInv'
  <2>1. CASE TruncateRecord(d)
    BY <1>a, <1>b, <2>1, DaemonAssumption
       DEF TruncateRecord, Move, TypeOK, FileInv, Alive, Booting, Leaving, Dead
  <2>2. CASE WriteRecord(d)
    BY <1>a, <1>b, <2>2, DaemonAssumption
       DEF WriteRecord, Move, TypeOK, FileInv, Alive, Booting, Leaving, Dead
  <2>3. CASE NotifySignals(d) \/ ServeClean(d)
    BY <1>a, <1>b, <2>3, DaemonAssumption
       DEF NotifySignals, ServeClean, files, Move, TypeOK, FileInv, Alive, Booting, Leaving, Dead
  <2>4. CASE Listen(d)
    <3>1. sock = None /\ at'[d] = "serving" /\ sock' = d /\ record' = record /\ record = d
      BY <2>4 DEF Listen, Move, TypeOK, FileInv, Booting
    <3>2. QED
      BY <1>a, <1>b, <3>1 DEF FileInv, Alive, Booting, Leaving, Dead
  <2>5. CASE CloseListener(d)
    BY <1>a, <1>b, <2>5, DaemonAssumption
       DEF CloseListener, Move, TypeOK, FileInv, Alive, Booting, Leaving, Dead
  <2>6. CASE RemoveSocket(d)
    BY <1>a, <1>b, <2>6, DaemonAssumption
       DEF RemoveSocket, Move, TypeOK, FileInv, Alive, Booting, Leaving, Dead
  <2>7. CASE RemoveRecord(d)
    <3>1. at[d] = "unrecord" /\ at'[d] = "exited" /\ record' = None /\ sock' = sock
      BY <2>7 DEF RemoveRecord, Move, TypeOK
    <3>2. QED
      BY <1>a, <1>b, <3>1, DaemonAssumption DEF FileInv, Alive, Booting, Leaving, Dead
  <2>8. QED
    BY <2>1, <2>2, <2>3, <2>4, <2>5, <2>6, <2>7 DEF DaemonStep
<1>f. QED
  BY <1>c, <1>d, <1>e

LEMMA CrashSettled ==
  ASSUME TypeOK, CommandInv, Settled, NEW d \in Pids, Crash(d)
  PROVE  Settled'
<1>1. /\ at'[d] = "killed" /\ Alive(d)
      /\ \A e \in Pids \ {d} : at'[e] = at[e]
  BY DEF Crash, TypeOK
<1>2. UNCHANGED <<record, sock, cancelled, cmd>>
  BY DEF Crash, files
<1>3. \A e \in Pids : (Alive(e)' => Alive(e)) /\ (InTransit(e)' => InTransit(e))
  BY <1>1, <1>2 DEF Alive, InTransit, Dead
<1>4. FileInv'
  BY <1>1, <1>2, DaemonAssumption DEF Settled, FileInv, Alive, Booting, Leaving, Dead
<1>5. ActorInv'
  BY <1>2, <1>3 DEF Settled, ActorInv, Acting, Busy
<1>6. QED
  BY <1>3, <1>4, <1>5 DEF Settled, OneAlive

-----------------------------------------------------------------------------
(* The theorems                                                            *)

\* The inductive invariant: types, what a command has read, and, while nobody
\* was hasty, one daemon, the two files in each state of it, and what the one
\* command that acts relies on (main.go, server.go, daemon_file.go).
THEOREM InductiveInvariant == Spec => []IInv
<1>1. Init => IInv
  BY InitType, InitSettled DEF IInv, Settled, OneDaemon, OneAlive
<1>2. IInv /\ [Next]_vars => IInv'
  <2>1. SUFFICES ASSUME IInv, [Next]_vars PROVE IInv'
    OBVIOUS
  <2>2. TypeOK /\ CommandInv /\ (~hasty => Settled)
    BY <2>1 DEF IInv, Settled, OneDaemon, OneAlive
  <2>3. SUFFICES TypeOK' /\ CommandInv' /\ (~hasty' => Settled')
    BY DEF IInv, Settled, OneDaemon, OneAlive
  <2>4. ASSUME NEW u \in Users, NEW op \in Ops, Begin(u, op)
        PROVE  TypeOK' /\ CommandInv' /\ (~hasty' => Settled')
    <3>1. ~hasty' => ~hasty
      BY <2>4 DEF Begin
    <3>2. QED
      BY <2>2, <2>4, <3>1, BeginType, BeginSettled
  <2>5. ASSUME NEW u \in Users, CommandStep(u)
        PROVE  TypeOK' /\ CommandInv' /\ (~hasty' => Settled')
    <3>1. hasty' = hasty
      BY <2>5 DEF CommandStep, ReadRecord, Probe, StatSocket, CleanSocket, Spawn, PollReady,
                  PollTimeout, Terminate, WaitDone, WaitTimeout
    <3>2. QED
      BY <2>2, <2>5, <3>1, CommandType, CommandSettled
  <2>6. ASSUME NEW u \in Users, Dial(u) \/ Hangup(u)
        PROVE  TypeOK' /\ CommandInv' /\ (~hasty' => Settled')
    <3>1. hasty' = hasty
      BY <2>6 DEF Dial, Hangup
    <3>2. QED
      BY <2>2, <2>6, <3>1, ConnectionType, ConnectionSettled
  <2>7. ASSUME NEW u \in Users, StreamExpires(u)
         PROVE  TypeOK' /\ CommandInv' /\ (~hasty' => Settled')
    <3>1. hasty' = hasty
      BY <2>7 DEF StreamExpires
    <3>2. QED
      BY <2>2, <2>7, <3>1, ExpiryType, ExpirySettled
  <2>8. ASSUME NEW d \in Pids, DaemonStep(d) \/ Crash(d)
        PROVE  TypeOK' /\ CommandInv' /\ (~hasty' => Settled')
    <3>1. hasty' = hasty
      BY <2>8 DEF DaemonStep, Crash, TruncateRecord, WriteRecord, NotifySignals, ServeClean, Listen,
                  CloseListener, RemoveSocket, RemoveRecord
    <3>2. QED
      BY <2>2, <2>8, <3>1, DaemonType, DaemonSettled, CrashSettled
  <2>9. CASE UNCHANGED vars
    BY <2>2, <2>9 DEF TypeOK, CommandInv, Settled, OneAlive, FileInv, ActorInv, Alive, InTransit,
                      Acting, Busy, vars
  <2>10. QED
    BY <2>1, <2>4, <2>5, <2>6, <2>7, <2>8, <2>9 DEF Next
<1>3. QED
  BY <1>1, <1>2, PTL DEF Spec

\* Every variable keeps its type, for any number of terminals and daemons.
THEOREM TypeCorrect == Spec => []TypeOK
<1>1. IInv => TypeOK
  BY DEF IInv
<1>2. QED
  BY <1>1, InductiveInvariant, PTL

\* Without hasty commands there is never a second daemon, whatever crashes
\* between two steps (ensureDaemon, daemonStart).
THEOREM NeverTwo == Spec => []OneDaemon
<1>1. IInv => OneDaemon
  BY DEF IInv
<1>2. QED
  BY <1>1, InductiveInvariant, PTL

\* Nor does a file lie about a daemon: the one that serves is in both, one that
\* returned is in neither (ensureDaemon, daemonStart, daemonStop, Serve).
THEOREM Truth == Spec => []FilesTellTheTruth
<1>1. IInv => FilesTellTheTruth
  BY DEF IInv, FilesTellTheTruth, FileInv
<1>2. QED
  BY <1>1, InductiveInvariant, PTL
=============================================================================
