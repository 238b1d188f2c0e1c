------------------------------ MODULE Manager ------------------------------
(***************************************************************************)
(* The registry of forwards of internal/forward/manager.go and the         *)
(* requests that change it: Start, Stop, StopAll, the restart handler and  *)
(* the restore goroutines of internal/daemon/handler.go.  Every request    *)
(* runs in a goroutine of its own and takes m.mu only for single reads and *)
(* writes of the maps, so an action here is one critical section.          *)
(*                                                                         *)
(* A forward is seen as ForwardLifecycle shows it: it holds its local port *)
(* or not, and it is done after it was stopped or has become stale.  A     *)
(* spec is its optional id and one local port.                             *)
(***************************************************************************)
EXTENDS Naturals, FiniteSets

CONSTANTS
  Callers,     \* the goroutines that serve requests
  Ports,       \* the local ports requests may name
  Ops,         \* the requests clients send, a subset of Requests
  Restored,    \* the records of state.json: ids and their ports
  MaxStarts    \* bound on the calls of Start, so on nextSeq too

Requests == {"start", "stop", "restart", "stopAll"}

NoId == 0
NoForward == 0
Nums == 1 .. MaxStarts            \* one forward for each call of Start
Ids == Nums \cup DOMAIN Restored  \* "fwd_%04d" is one to one

ASSUME ManagerAssumption ==
  /\ MaxStarts \in Nat
  /\ Ops \subseteq Requests
  /\ DOMAIN Restored \subseteq Nat \ {0}
  /\ Restored \in [DOMAIN Restored -> Ports]
  /\ NoId \notin Ports

VARIABLES
  forwards,   \* m.forwards: the forward registered under an id, or NoForward
  nextSeq,    \* m.nextSeq
  history,    \* m.history: the port of the spec last started under an id
  fwd,        \* the forwards: [id, port, phase]
  stopCh,     \* the forwards whose stopCh is closed
  starts,     \* how many calls of Start there were
  toRestore,  \* the records restoreOnStart has yet to hand to Start
  pc,         \* where a caller is
  req         \* its request: [id, port, num (of its Start), todo (StopAll)]

vars == <<forwards, nextSeq, history, fwd, stopCh, starts, toRestore, pc, req>>

Phases == {"none", "new", "running", "bound", "done"}
Locations == {"idle", "check", "listen", "allocate", "remember", "register",
              "launch", "poll", "stopLookup", "stopWait", "stopDelete",
              "restartLookup", "restartStop", "restartWait", "restartDelete",
              "stopEach", "stopEachWait"}

LookupPcs == {"stopLookup", "restartLookup"}

Live(i) == fwd[i].phase \in {"new", "running", "bound"}

Request == [id : Ids \cup {NoId}, port : Ports \cup {NoId},
            num : Nums \cup {NoForward}, todo : SUBSET Nums]

TypeOK ==
  /\ forwards \in [Ids -> Nums \cup {NoForward}]
  /\ nextSeq \in 0 .. MaxStarts
  /\ history \in [Ids -> Ports \cup {NoId}]
  /\ fwd \in [Nums -> [id : Ids \cup {NoId}, port : Ports \cup {NoId}, phase : Phases]]
  /\ stopCh \subseteq Nums
  /\ starts \in 0 .. MaxStarts
  /\ toRestore \subseteq DOMAIN Restored
  /\ pc \in [Callers -> Locations]
  /\ req \in [Callers -> Request]
  /\ \A c \in Callers : pc[c] \in LookupPcs => req[c].id # NoId

NoRequest == [id |-> NoId, port |-> NoId, num |-> NoForward, todo |-> {}]

Init ==
  /\ forwards = [id \in Ids |-> NoForward]
  /\ nextSeq = 0
  /\ history = [id \in Ids |-> NoId]
  /\ fwd = [i \in Nums |-> [id |-> NoId, port |-> NoId, phase |-> "none"]]
  /\ stopCh = {}
  /\ starts = 0
  /\ toRestore = DOMAIN Restored
  /\ pc = [c \in Callers |-> "idle"]
  /\ req = [c \in Callers |-> NoRequest]

-----------------------------------------------------------------------------

Goto(c, from, to) == pc[c] = from /\ pc' = [pc EXCEPT ![c] = to]

Registry  == <<forwards, nextSeq, history>>
Forwards  == <<fwd, stopCh>>

\* The bound on Start leaves room for the restarts that are under way.
Restarting == {c \in Callers : pc[c] \in {"restartLookup", "restartWait",
                                         "restartDelete", "restartStop"}}
RoomToStart == starts + Cardinality(Restarting) < MaxStarts

\* A call of Start: the number names the forward it may create.
CallStart(c, id, port, from) ==
  /\ starts < MaxStarts
  /\ Goto(c, from, "check")
  /\ starts' = starts + 1
  /\ req' = [req EXCEPT ![c] = [NoRequest EXCEPT !.id = id, !.port = port,
                                                 !.num = starts + 1]]
  /\ UNCHANGED <<Registry, Forwards>>

BeginStart(c) ==
  /\ "start" \in Ops
  /\ RoomToStart
  /\ \E p \in Ports : CallStart(c, NoId, p, "idle")
  /\ UNCHANGED toRestore

\* restoreOnStart: one goroutine for each record.
BeginRestore(c) ==
  /\ RoomToStart
  /\ \E id \in toRestore :
       /\ CallStart(c, id, Restored[id], "idle")
       /\ toRestore' = toRestore \ {id}

BeginStop(c) ==
  /\ "stop" \in Ops
  /\ Goto(c, "idle", "stopLookup")
  /\ \E id \in Ids : req' = [req EXCEPT ![c] = [NoRequest EXCEPT !.id = id]]
  /\ UNCHANGED <<Registry, Forwards, starts, toRestore>>

\* handleForwardRestart answers "not found" unless the history has the id.
BeginRestart(c) ==
  /\ "restart" \in Ops
  /\ RoomToStart
  /\ Goto(c, "idle", "restartLookup")
  /\ \E id \in Ids :
       /\ history[id] # NoId
       /\ req' = [req EXCEPT ![c] = [NoRequest EXCEPT !.id = id, !.port = history[id]]]
  /\ UNCHANGED <<Registry, Forwards, starts, toRestore>>

\* StopAll takes its snapshot.
BeginStopAll(c) ==
  /\ "stopAll" \in Ops
  /\ Goto(c, "idle", "stopEach")
  /\ req' = [req EXCEPT ![c] =
       [NoRequest EXCEPT !.todo = {forwards[id] : id \in Ids} \ {NoForward}]]
  /\ UNCHANGED <<Registry, Forwards, starts, toRestore>>

-----------------------------------------------------------------------------
(* Manager.Start                                                           *)

Claimed == {fwd[forwards[id]].port : id \in {k \in Ids : forwards[k] # NoForward}}

Reject(c, from) ==
  /\ Goto(c, from, "idle")
  /\ UNCHANGED <<Registry, Forwards, starts, toRestore, req>>

Proceed(c, from, to) ==
  /\ Goto(c, from, to)
  /\ UNCHANGED <<Registry, Forwards, starts, toRestore, req>>

\* Slip: only the kernel is asked.
CheckNothing(c) == Proceed(c, "check", "listen")

\* checkLocalPortsFree: the ports of the registered forwards ...
CheckClaimed(c) ==
  IF req[c].port \in Claimed THEN Reject(c, "check") ELSE Proceed(c, "check", "listen")

\* ... and the kernel's answer; then ResolveOnePod, which may fail.
TryListenAndResolve(c) ==
  \/ Reject(c, "listen")
  \/ /\ \A i \in Nums : ~(fwd[i].phase = "bound" /\ fwd[i].port = req[c].port)
     /\ Proceed(c, "listen", "allocate")

\* A caller's id must be free; a generated id is not looked up.
Allocate(c) ==
  \/ /\ req[c].id # NoId
     /\ forwards[req[c].id] # NoForward
     /\ Reject(c, "allocate")
  \/ /\ req[c].id # NoId
     /\ forwards[req[c].id] = NoForward
     /\ Proceed(c, "allocate", "remember")
  \/ /\ req[c].id = NoId
     /\ nextSeq < MaxStarts
     /\ Goto(c, "allocate", "remember")
     /\ nextSeq' = nextSeq + 1
     /\ req' = [req EXCEPT ![c].id = nextSeq + 1]
     /\ UNCHANGED <<forwards, history, Forwards, starts, toRestore>>

\* Slip: the spec is not kept.
RememberNothing(c) == Proceed(c, "remember", "register")

Remember(c) ==
  /\ Goto(c, "remember", "register")
  /\ history' = [history EXCEPT ![req[c].id] = req[c].port]
  /\ UNCHANGED <<forwards, nextSeq, Forwards, starts, toRestore, req>>

Register(c) ==
  /\ Goto(c, "register", "launch")
  /\ forwards' = [forwards EXCEPT ![req[c].id] = req[c].num]
  /\ fwd' = [fwd EXCEPT ![req[c].num] =
               [id |-> req[c].id, port |-> req[c].port, phase |-> "new"]]
  /\ UNCHANGED <<nextSeq, history, stopCh, starts, toRestore, req>>

\* go f.Run()
Launch(c) ==
  /\ Goto(c, "launch", "poll")
  /\ fwd' = [fwd EXCEPT ![req[c].num].phase = "running"]
  /\ UNCHANGED <<Registry, stopCh, starts, toRestore, req>>

\* Start polls the status until it is ready or stopped, or the time is up.
Poll(c) == Proceed(c, "poll", "idle")

-----------------------------------------------------------------------------
(* Manager.Stop, the restart handler's use of it, and StopAll              *)

\* Slip: a stop waits but does not signal.
SignalNobody(i) == UNCHANGED stopCh

\* f.Stop(): close stopCh, once.
SignalStop(i) == stopCh' = stopCh \cup {i}

\* Slip: the second result of the map lookup is ignored.
LookupUnchecked(c, from, found, missing) ==
  /\ Goto(c, from, found)
  /\ SignalStop(forwards[req[c].id])
  /\ req' = [req EXCEPT ![c].num = forwards[req[c].id]]
  /\ UNCHANGED <<Registry, fwd, starts, toRestore>>

Lookup(c, from, found, missing) ==
  /\ pc[c] = from
  /\ LET i == forwards[req[c].id]
     IN  \/ i = NoForward /\ Proceed(c, from, missing)
         \/ /\ i # NoForward
            /\ Goto(c, from, found)
            /\ SignalStop(i)
            /\ req' = [req EXCEPT ![c].num = i]
            /\ UNCHANGED <<Registry, fwd, starts, toRestore>>

\* Slip: nobody waits for doneCh.
AwaitNothing(c, from, to) == Proceed(c, from, to)

\* ... and wait for doneCh.
AwaitDone(c, from, to) ==
  /\ Proceed(c, from, to)
  /\ fwd[req[c].num].phase = "done"

\* Slip: the entry stays.
DeleteNothing(c, from, to) == Proceed(c, from, to)

\* delete(m.forwards, id), whatever is registered there by now.
Delete(c, from, to) ==
  /\ Goto(c, from, to)
  /\ forwards' = [forwards EXCEPT ![req[c].id] = NoForward]
  /\ UNCHANGED <<nextSeq, history, Forwards, starts, toRestore, req>>

Stop(c) ==
  \/ Lookup(c, "stopLookup", "stopWait", "idle")
  \/ AwaitDone(c, "stopWait", "stopDelete")
  \/ Delete(c, "stopDelete", "idle")

\* A restart stops what is there and starts the remembered spec again.
Restart(c) ==
  \/ Lookup(c, "restartLookup", "restartWait", "restartStop")
  \/ AwaitDone(c, "restartWait", "restartDelete")
  \/ Delete(c, "restartDelete", "restartStop")
  \/ /\ CallStart(c, req[c].id, req[c].port, "restartStop")
     /\ UNCHANGED toRestore

StopEach(c) ==
  \E i \in req[c].todo :
    /\ Goto(c, "stopEach", "stopEachWait")
    /\ SignalStop(i)
    /\ req' = [req EXCEPT ![c].num = i, ![c].todo = @ \ {i}]
    /\ UNCHANGED <<Registry, fwd, starts, toRestore>>

\* Slip: the map is replaced before the forwards were stopped.
WipeAtOnce(c) ==
  /\ Goto(c, "stopEach", "idle")
  /\ forwards' = [id \in Ids |-> NoForward]
  /\ UNCHANGED <<nextSeq, history, Forwards, starts, toRestore, req>>

\* m.forwards = make(map[string]*Forward)
Wipe(c) ==
  /\ req[c].todo = {}
  /\ Goto(c, "stopEach", "idle")
  /\ forwards' = [id \in Ids |-> NoForward]
  /\ UNCHANGED <<nextSeq, history, Forwards, starts, toRestore, req>>

StopAll(c) ==
  \/ StopEach(c)
  \/ AwaitDone(c, "stopEachWait", "stopEach")
  \/ Wipe(c)

-----------------------------------------------------------------------------
(* The forwards                                                            *)

Move(i, from, to) ==
  /\ fwd[i].phase = from
  /\ fwd' = [fwd EXCEPT ![i].phase = to]
  /\ UNCHANGED <<Registry, stopCh, starts, toRestore, pc, req>>

Bind(i) ==
  /\ \A j \in Nums : ~(fwd[j].phase = "bound" /\ fwd[j].port = fwd[i].port)
  /\ Move(i, "running", "bound")

Unbind(i) == Move(i, "bound", "running")

\* Stopped, or stale without anybody having asked.
Finish(i) == Move(i, "running", "done")

-----------------------------------------------------------------------------

Start(c) ==
  \/ CheckClaimed(c) \/ TryListenAndResolve(c) \/ Allocate(c)
  \/ Remember(c) \/ Register(c) \/ Launch(c) \/ Poll(c)

Begin(c) ==
  \/ BeginStart(c) \/ BeginRestore(c)
  \/ BeginStop(c) \/ BeginRestart(c) \/ BeginStopAll(c)

Serve(c) == Start(c) \/ Stop(c) \/ Restart(c) \/ StopAll(c)

Next ==
  \/ \E c \in Callers : Begin(c) \/ Serve(c)
  \/ \E i \in Nums : Bind(i) \/ Unbind(i) \/ Finish(i)

Spec == Init /\ [][Next]_vars

\* Goroutines run, and a forward whose stop was requested finishes:
\* StopTerminates of module Forward.  Nobody has to send requests.
Fairness ==
  /\ \A c \in Callers : WF_vars(Serve(c))
  /\ \A i \in Nums : WF_vars(i \in stopCh /\ (Unbind(i) \/ Finish(i)))
                  /\ SF_vars(i \in stopCh /\ Finish(i))

FairSpec == Spec /\ Fairness

-----------------------------------------------------------------------------
(* Properties                                                              *)

\* "Manager owns the lifetime of every active Forward": a forward that has not
\* ended is the one registered under its id, so that List shows it, Stop ends
\* it and ClaimedPorts counts its port.
EveryLiveForwardIsRegistered ==
  \A i \in Nums : Live(i) => forwards[fwd[i].id] = i

\* "ID returns the forward's unique identifier": two forwards that have not
\* ended never share an id, also when one was restored or restarted.
IdsAreUnique ==
  \A i, j \in Nums : Live(i) /\ Live(j) /\ fwd[i].id = fwd[j].id => i = j

\* No two registered forwards claim the same local port: the check of claimed
\* ports "closes the window" between two submissions (checkLocalPortsFree).
ClaimedPortsAreExclusive ==
  \A k, l \in Ids :
    /\ forwards[k] # NoForward
    /\ forwards[l] # NoForward
    /\ fwd[forwards[k]].port = fwd[forwards[l]].port
    => k = l

\* A restart repeats what is running: the spec remembered under an id is the
\* spec of the forward registered under it (history, Spec, Start).
HistoryMatchesRegistry ==
  \A id \in Ids : forwards[id] # NoForward =>
    fwd[forwards[id]].id = id /\ fwd[forwards[id]].port = history[id]

\* "StopAll terminates every forward and waits for them all to settle": what
\* it takes out of the registry has ended; so has what Stop takes out.
OnlyEndedForwardsLeave ==
  [][\A id \in Ids :
       forwards[id] # NoForward /\ forwards'[id] # forwards[id]
         => ~Live(forwards[id])]_forwards

\* Every request comes to an end: no two of them wait for each other, and
\* none waits for a forward that nobody told to stop.
RequestsReturn == \A c \in Callers : pc[c] # "idle" ~> pc[c] = "idle"

\* A forward that was told to stop ends and leaves the registry for good, or
\* its id is registered for another forward (Stop, StopAll, restart).
StoppedForwardsLeave ==
  \A i \in Nums :
    i \in stopCh ~> [](~Live(i) /\ \A id \in Ids : forwards[id] # i)

-----------------------------------------------------------------------------
(* Why starts and stops alone keep the registry sound, as long as no start *)
(* generates the id of a record (nextSeq begins at 0 in every daemon, so   *)
(* one may: the run ManagerRestoreCollision)                               *)

RecordsAreApart == DOMAIN Restored \cap Nums = {}

Starting == {"check", "listen", "allocate", "remember", "register", "launch"}
Waiting  == {"stopWait", "stopDelete"}
Created(i) == fwd[i].phase # "none"

\* Only starts and stops are under way.
OnlyStartsAndStops ==
  \A c \in Callers : pc[c] \in {"idle", "poll", "stopLookup"} \cup Starting \cup Waiting

\* The ids that were generated, and those of the records handed to Start.
Used == (1 .. nextSeq) \cup (DOMAIN Restored \ toRestore)

\* A start that has been given an id and has not given it to a forward yet.
HasId(c) ==
  pc[c] \in {"check", "listen", "allocate", "remember", "register"} /\ req[c].id # NoId

\* A start owns the forward it is about to create, and nobody else does.
NumsAreOwned ==
  /\ \A c \in Callers : pc[c] \in Starting =>
       /\ req[c].num \in 1 .. starts
       /\ fwd[req[c].num].phase = IF pc[c] = "launch" THEN "new" ELSE "none"
  /\ \A c, d \in Callers :
       pc[c] \in Starting /\ pc[d] \in Starting /\ req[c].num = req[d].num => c = d
  /\ \A i \in Nums : Created(i) => i <= starts

\* An id is used once: it belongs to one start or to one forward.
IdsAreFresh ==
  /\ \A c \in Callers : pc[c] \in {"remember", "register"} => req[c].id # NoId
  /\ \A c \in Callers : HasId(c) =>
       req[c].id \in Used /\ \A i \in Nums : Created(i) => fwd[i].id # req[c].id
  /\ \A c, d \in Callers : HasId(c) /\ HasId(d) /\ req[c].id = req[d].id => c = d
  /\ \A i \in Nums : Created(i) => fwd[i].id \in Used
  /\ \A i, j \in Nums : Created(i) /\ Created(j) /\ fwd[i].id = fwd[j].id => i = j

\* The registry holds forwards under their own ids, and every live one.
RegistryIsSound ==
  /\ \A id \in Ids : forwards[id] # NoForward =>
       Created(forwards[id]) /\ fwd[forwards[id]].id = id
  /\ EveryLiveForwardIsRegistered

\* A stop waits for the forward that has the id it was given.
StopsAreRight ==
  \A c \in Callers : pc[c] \in Waiting =>
    /\ req[c].num \in Nums
    /\ Created(req[c].num)
    /\ fwd[req[c].num].id = req[c].id
    /\ pc[c] = "stopDelete" => fwd[req[c].num].phase = "done"

StartStopInv ==
  /\ TypeOK
  /\ OnlyStartsAndStops
  /\ NumsAreOwned
  /\ IdsAreFresh
  /\ RegistryIsSound
  /\ StopsAreRight

-----------------------------------------------------------------------------
(* Why the registry is sound when no two requests are under way: every     *)
(* request then finds it as the last one left it.                          *)

OneAtATime == \A c, d \in Callers : c = d

Restarts == {"restartLookup", "restartWait", "restartDelete", "restartStop"}
Removing == {"stopWait", "stopDelete", "restartWait", "restartDelete"}

\* Only an id in use is ever remembered, registered or given to a forward.
IdsAreUsed ==
  /\ \A id \in Ids : forwards[id] # NoForward \/ history[id] # NoId => id \in Used
  /\ \A i \in Nums : Created(i) => fwd[i].id \in Used

\* A start has checked its port and owns the slot it will register in.
StartInv(c) ==
  /\ pc[c] \in {"check", "listen", "allocate"} => req[c].id \in {NoId} \cup Used
  /\ pc[c] \in {"remember", "register"} =>
       req[c].id \in Used /\ forwards[req[c].id] = NoForward
  /\ pc[c] \in {"listen", "allocate", "remember", "register"} => req[c].port \notin Claimed
  /\ pc[c] = "register" => history[req[c].id] = req[c].port

\* A stop or a restart waits for the forward it will delete.
RemovalInv(c) ==
  /\ pc[c] \in Restarts => req[c].id \in Used
  /\ pc[c] \in Removing => req[c].num \in Nums /\ forwards[req[c].id] = req[c].num
  /\ pc[c] \in {"stopDelete", "restartDelete"} => fwd[req[c].num].phase = "done"

\* StopAll has waited for what is registered, or has yet to.
StopAllInv(c) ==
  pc[c] \in {"stopEach", "stopEachWait"} => \A id \in Ids : forwards[id] # NoForward =>
    \/ forwards[id] \in req[c].todo
    \/ fwd[forwards[id]].phase = "done"
    \/ pc[c] = "stopEachWait" /\ forwards[id] = req[c].num

SequentialInv ==
  /\ TypeOK
  /\ NumsAreOwned
  /\ RegistryIsSound
  /\ HistoryMatchesRegistry
  /\ ClaimedPortsAreExclusive
  /\ IdsAreUsed
  /\ \A c \in Callers : StartInv(c) /\ RemovalInv(c) /\ StopAllInv(c)
=============================================================================
