---------------------------- MODULE Persistence ----------------------------
(***************************************************************************)
(* How state.json follows the forwards, and how a daemon that starts again *)
(* gets them back: the events a forward broadcasts, the relay goroutine of *)
(* Manager.Start, the persistence goroutine and restoreOnStart of          *)
(* internal/daemon/handler.go, the Store of internal/state/state.go, and   *)
(* Manager.Shutdown with the exit that follows it; and the parity audit of *)
(* internal/daemon/audit.go, which compares live ports with the file.      *)
(*                                                                         *)
(* persistForward looks at an event only for its id and writes what the    *)
(* manager says now, so an event here is the id, and a forward's channel   *)
(* is how many events are in it.  A record is the status it was written    *)
(* with, and the local port of a spec goes with its id; module Manager     *)
(* covers the checks of ports, and requests that race for an id.           *)
(***************************************************************************)
EXTENDS Naturals, Sequences, FiniteSets

CONSTANTS
  Ids,        \* the ids forwards may have
  LocalPort,  \* the local port of each id's spec; ids may share one
  SubCap,     \* the capacity of a forward's subscriber channel (32)
  QueueCap,   \* the capacity of the manager's subscriber channel (64)
  WritesFail, \* TRUE: a write of state.json may fail
  Shutdowns,  \* TRUE: a client may ask the daemon to shut down
  Audits,     \* bound: the daemons that get to their parity audit
  MaxStarts,  \* bound on the forwards of one daemon
  MaxBoots    \* bound on the daemons

NoId == "no id" \* the zero value of an id

ASSUME PersistenceAssumption ==
  /\ NoId \notin Ids
  /\ LocalPort \in [Ids -> Nat]
  /\ SubCap \in Nat \ {0}
  /\ QueueCap \in Nat \ {0}
  /\ WritesFail \in BOOLEAN
  /\ Shutdowns \in BOOLEAN
  /\ Audits \subseteq 1 .. MaxBoots
  /\ MaxStarts \in Nat
  /\ MaxBoots \in Nat \ {0}

NoForward == 0
Nums == 1 .. MaxStarts

Active   == {"starting", "ready", "dropped"}
Terminal == {"stopped", "stale"}

VARIABLES
  disk,      \* state.json: the status recorded for an id, or "none"
  daemon,    \* "up", the steps of handleShutdown's goroutine, or "down"
  boots,     \* how many daemons there were
  toRestore, \* the records restoreOnStart has yet to hand to Start
  forwards,  \* m.forwards: the forward registered under an id, or NoForward
  created,   \* how many forwards this daemon created
  fwd,       \* the forwards: [id, status, told, done]
  stopCh,    \* the forwards whose stopCh is closed
  chan,      \* the events in the channel from a forward to its relay
  queue,     \* the events in the channel from the manager to the goroutine
  open,      \* TRUE until Shutdown closes that channel
  writer,    \* the persistence goroutine: [at, id, rec]
  todo,      \* Shutdown: the forwards StopAll has yet to stop
  stopping,  \* Shutdown: the forward StopAll waits for, or NoForward
  missed,    \* history: ids whose last event was lost, or its write failed
  audit,     \* what LivePorts told a running audit, or NoAudit
  alarm      \* the ports the last audit reported without a listener

daemonVars  == <<daemon, boots, toRestore, todo, stopping>>
forwardVars == <<forwards, created, fwd, stopCh>>
auditVars   == <<audit, alarm>>
fileVars    == <<disk, writer, missed, audit, alarm>>
vars == <<daemonVars, forwardVars, chan, queue, open, fileVars>>

Idle == [at |-> "receive", id |-> NoId, rec |-> "none"]
NoAudit == {NoForward}
Unborn == [id |-> NoId, status |-> "none", told |-> TRUE, done |-> FALSE]

Recorded == Active \cup {"none"}

PortsOf(ids) == {LocalPort[id] : id \in ids}

TypeOK ==
  /\ disk \in [Ids -> Recorded]
  /\ daemon \in {"up", "stopAll", "closeSubs", "flush", "down"}
  /\ boots \in 1 .. MaxBoots
  /\ toRestore \subseteq Ids
  /\ forwards \in [Ids -> Nums \cup {NoForward}]
  /\ created \in 0 .. MaxStarts
  /\ fwd \in [Nums -> [id : Ids \cup {NoId}, status : Active \cup Terminal \cup {"none"},
                       told : BOOLEAN, done : BOOLEAN]]
  /\ stopCh \subseteq Nums
  /\ chan \in [Nums -> 0 .. SubCap]
  /\ queue \in Seq(Ids) /\ Len(queue) <= QueueCap
  /\ open \in BOOLEAN
  /\ writer \in [at : {"receive", "get", "write", "exited"}, id : Ids \cup {NoId}, rec : Recorded]
  /\ todo \subseteq Nums
  /\ stopping \in Nums \cup {NoForward}
  /\ missed \subseteq Ids
  /\ audit = NoAudit \/ audit \subseteq Nums
  /\ alarm \subseteq PortsOf(Ids)

Init ==
  /\ forwards = [id \in Ids |-> NoForward]
  /\ created = 0
  /\ fwd = [i \in Nums |-> Unborn]
  /\ stopCh = {}
  /\ chan = [i \in Nums |-> 0]
  /\ queue = << >>
  /\ open = TRUE
  /\ writer = Idle
  /\ todo = {}
  /\ stopping = NoForward
  /\ missed = {}
  /\ audit = NoAudit
  /\ alarm = {}
  /\ disk = [id \in Ids |-> "none"]
  /\ daemon = "up"
  /\ boots = 1
  /\ toRestore = {}

Up == daemon # "down"
Alive(i) == fwd[i].status \in Active

-----------------------------------------------------------------------------
(* Forwards come, change their status and go                               *)

\* Manager.Start: relay, register, run.  Nothing is broadcast yet.
Create(id) ==
  /\ Up
  /\ created < MaxStarts
  /\ forwards[id] = NoForward
  /\ created' = created + 1
  /\ forwards' = [forwards EXCEPT ![id] = created + 1]
  /\ fwd' = [fwd EXCEPT ![created + 1] =
       [id |-> id, status |-> "starting", told |-> TRUE, done |-> FALSE]]
  /\ UNCHANGED <<stopCh, chan, queue, open, fileVars, daemon, boots, todo, stopping>>

StartForward(id) == Create(id) /\ UNCHANGED toRestore

\* restoreOnStart: the spec of the record, without its context, under its id.
Restore(id) ==
  /\ id \in toRestore
  /\ Create(id)
  /\ toRestore' = toRestore \ {id}

\* Start refuses a restored spec: port in use, no pod, cluster unreachable.
RestoreFails(id) ==
  /\ Up
  /\ id \in toRestore
  /\ toRestore' = toRestore \ {id}
  /\ UNCHANGED <<daemon, boots, todo, stopping>>
  /\ UNCHANGED <<forwardVars, chan, queue, open, fileVars>>

\* Slip: a change of status that is not broadcast.
SetStatusSilently(i, status) ==
  /\ Up
  /\ fwd' = [fwd EXCEPT ![i].status = status]
  /\ UNCHANGED <<forwards, created, stopCh, daemonVars, chan, queue, open, fileVars>>

\* f.setStatus; the broadcast that follows it is a step of its own.
SetStatus(i, status) ==
  /\ Up
  /\ fwd[i].told
  /\ fwd' = [fwd EXCEPT ![i].status = status, ![i].told = FALSE]
  /\ UNCHANGED <<forwards, created, stopCh, daemonVars, chan, queue, open, fileVars>>

BecomeReady(i) == fwd[i].status \in {"starting", "dropped"} /\ SetStatus(i, "ready")

Drop(i) == Alive(i) /\ SetStatus(i, "dropped")

GoStale(i) == Alive(i) /\ SetStatus(i, "stale")

Halt(i) == Alive(i) /\ i \in stopCh /\ SetStatus(i, "stopped")

\* Slip: a channel without a bound.
SendUnbounded(i) == chan' = [chan EXCEPT ![i] = @ + 1]

\* A full channel drops the event.
Send(i) == chan' = [chan EXCEPT ![i] = IF @ < SubCap THEN @ + 1 ELSE @]

Broadcast(i) ==
  /\ Up
  /\ ~fwd[i].told
  /\ fwd' = [fwd EXCEPT ![i].told = TRUE]
  /\ Send(i)
  /\ UNCHANGED <<forwards, created, stopCh, daemonVars, queue, open, fileVars>>

\* lineSink: ForwardPorts writes a line.
Log(i) ==
  /\ Up
  /\ Alive(i)
  /\ Send(i)
  /\ UNCHANGED <<forwardVars, daemonVars, queue, open, fileVars>>

\* shutdown and close(doneCh), once the last status was broadcast.
Finish(i) ==
  /\ Up
  /\ fwd[i].status \in Terminal
  /\ fwd[i].told
  /\ ~fwd[i].done
  /\ fwd' = [fwd EXCEPT ![i].done = TRUE]
  /\ UNCHANGED <<forwards, created, stopCh, daemonVars, chan, queue, open, fileVars>>

RequestStop(id) ==
  /\ Up
  /\ forwards[id] # NoForward
  /\ stopCh' = stopCh \cup {forwards[id]}
  /\ UNCHANGED <<forwards, created, fwd, daemonVars, chan, queue, open, fileVars>>

\* Manager.Stop after doneCh.
Unregister(id) ==
  /\ Up
  /\ forwards[id] \in stopCh
  /\ fwd[forwards[id]].done
  /\ forwards' = [forwards EXCEPT ![id] = NoForward]
  /\ UNCHANGED <<created, fwd, stopCh, daemonVars, chan, queue, open, fileVars>>

-----------------------------------------------------------------------------
(* The relay and the persistence goroutine                                 *)

\* relayEvents: a full subscriber channel, or none, drops the event.
Relay(i) ==
  /\ Up
  /\ chan[i] > 0
  /\ chan' = [chan EXCEPT ![i] = @ - 1]
  /\ IF open /\ Len(queue) < QueueCap
       THEN queue' = Append(queue, fwd[i].id) /\ UNCHANGED missed
       ELSE missed' = missed \cup {fwd[i].id} /\ UNCHANGED queue
  /\ UNCHANGED <<auditVars, forwardVars, daemonVars, open, disk, writer>>

Receive ==
  /\ Up
  /\ writer.at = "receive"
  /\ queue # << >>
  /\ queue' = Tail(queue)
  /\ writer' = [Idle EXCEPT !.at = "get", !.id = Head(queue)]
  /\ missed' = missed \ {Head(queue)}
  /\ UNCHANGED <<auditVars, forwardVars, daemonVars, chan, open, disk>>

\* What persistForward is to write: nothing if the forward is gone or over.
Current(id) ==
  IF forwards[id] # NoForward /\ Alive(forwards[id]) THEN fwd[forwards[id]].status ELSE "none"

\* m.Get and the decision between a removal and an upsert.
Get ==
  /\ Up
  /\ writer.at = "get"
  /\ writer' = [writer EXCEPT !.at = "write", !.rec = Current(writer.id)]
  /\ UNCHANGED <<auditVars, forwardVars, daemonVars, chan, queue, open, disk, missed>>

\* Slip: records are inserted and replaced but never removed.
MutateKeeps ==
  /\ Up
  /\ writer.at = "write"
  /\ writer' = Idle
  /\ disk' = [disk EXCEPT ![writer.id] = IF writer.rec = "none" THEN @ ELSE writer.rec]
  /\ UNCHANGED <<auditVars, missed, forwardVars, daemonVars, chan, queue, open>>

\* Store.Mutate: load, change, write to a temporary file, rename.
Mutate ==
  /\ Up
  /\ writer.at = "write"
  /\ writer' = Idle
  /\ \/ disk' = [disk EXCEPT ![writer.id] = writer.rec] /\ UNCHANGED missed
     \/ WritesFail /\ missed' = missed \cup {writer.id} /\ UNCHANGED disk
  /\ UNCHANGED <<auditVars, forwardVars, daemonVars, chan, queue, open>>

\* The range over the closed channel ends: persistWG.Done.
ExitWriter ==
  /\ Up
  /\ writer.at = "receive"
  /\ queue = << >>
  /\ ~open
  /\ writer' = [Idle EXCEPT !.at = "exited"]
  /\ UNCHANGED <<auditVars, forwardVars, daemonVars, chan, queue, open, disk, missed>>

-----------------------------------------------------------------------------
(* The parity audit: auditListeners, every minute                          *)

\* Manager.LivePorts: a forward is live when GetPorts of its f.pf answers,
\* which it does once the Ready channel is closed: before the status says
\* ready, and after a drop, until the next dial replaces f.pf.
AuditLive ==
  /\ Up /\ boots \in Audits
  /\ audit = NoAudit
  /\ LET known == {i \in {forwards[id] : id \in Ids} \ {NoForward} : ~fwd[i].done}
     IN  \E late \in SUBSET {i \in known : fwd[i].status # "ready"} :
           audit' = {i \in known : fwd[i].status = "ready"} \cup late
  /\ UNCHANGED <<alarm, disk, writer, missed, forwardVars, daemonVars, chan, queue, open>>

\* Slip: the ports are those of the registered forwards, not of the file.
ReportRegistered ==
  /\ Up /\ audit # NoAudit
  /\ alarm' = PortsOf({id \in Ids : forwards[id] # NoForward}) \ PortsOf({fwd[i].id : i \in audit})
  /\ audit' = NoAudit
  /\ UNCHANGED <<disk, writer, missed, forwardVars, daemonVars, chan, queue, open>>

\* State.Load, a moment later, and computeParity, which compares ports: the
\* port of a record counts as live whichever forward has it.
Report ==
  /\ Up /\ audit # NoAudit
  /\ alarm' = PortsOf({id \in Ids : disk[id] # "none"}) \ PortsOf({fwd[i].id : i \in audit})
  /\ audit' = NoAudit
  /\ UNCHANGED <<disk, writer, missed, forwardVars, daemonVars, chan, queue, open>>

-----------------------------------------------------------------------------
(* Shutdown, crash, start                                                  *)

Phase(from, to) ==
  /\ daemon = from
  /\ daemon' = to
  /\ UNCHANGED <<boots, toRestore>>

\* handleShutdown answers and goes on in a goroutine: first StopAll, ...
Shutdown ==
  /\ Shutdowns
  /\ Phase("up", "stopAll")
  /\ todo' = {forwards[id] : id \in Ids} \ {NoForward}
  /\ UNCHANGED <<stopping, forwardVars, chan, queue, open, fileVars>>

StopNext(i) ==
  /\ Phase("stopAll", "stopAll")
  /\ stopping = NoForward
  /\ i \in todo
  /\ stopping' = i
  /\ todo' = todo \ {i}
  /\ stopCh' = stopCh \cup {i}
  /\ UNCHANGED <<forwards, created, fwd, chan, queue, open, fileVars>>

AwaitDone ==
  /\ Phase("stopAll", "stopAll")
  /\ stopping # NoForward
  /\ fwd[stopping].done
  /\ stopping' = NoForward
  /\ UNCHANGED <<todo, forwardVars, chan, queue, open, fileVars>>

Wipe ==
  /\ todo = {}
  /\ stopping = NoForward
  /\ Phase("stopAll", "closeSubs")
  /\ forwards' = [id \in Ids |-> NoForward]
  /\ UNCHANGED <<todo, stopping, created, fwd, stopCh>>
  /\ UNCHANGED <<chan, queue, open, fileVars>>

\* Slip: the subscribers are forgotten, their channels stay open.
CloseNoSubs ==
  /\ Phase("closeSubs", "flush")
  /\ UNCHANGED <<open, todo, stopping, forwardVars, chan, queue, fileVars>>

\* ... then the subscriber channels are closed and forgotten, ...
CloseSubs ==
  /\ Phase("closeSubs", "flush")
  /\ open' = FALSE
  /\ UNCHANGED <<todo, stopping, forwardVars, chan, queue, fileVars>>

\* ... then WaitPersistence and os.Exit.
Exit ==
  /\ writer.at = "exited"
  /\ Phase("flush", "down")
  /\ UNCHANGED <<todo, stopping, forwardVars, chan, queue, open, disk, writer, missed>>
  /\ audit' = NoAudit /\ alarm' = {}

\* A signal (the daemon exits without Shutdown), a kill, a power failure; of
\* the last daemon it would only end the behaviour.
Crash ==
  /\ Up
  /\ boots < MaxBoots
  /\ Phase(daemon, "down")
  /\ UNCHANGED <<todo, stopping, forwardVars, chan, queue, open, disk, writer, missed>>
  /\ audit' = NoAudit /\ alarm' = {}

\* A new process with whatever is on the disk.  NewHandler: startPersistence,
\* then restoreOnStart reads the records.
Boot ==
  /\ daemon = "down"
  /\ boots < MaxBoots
  /\ boots' = boots + 1
  /\ daemon' = "up"
  /\ forwards' = [id \in Ids |-> NoForward]
  /\ created' = 0
  /\ fwd' = [i \in Nums |-> Unborn]
  /\ stopCh' = {}
  /\ chan' = [i \in Nums |-> 0]
  /\ queue' = << >>
  /\ open' = TRUE
  /\ writer' = Idle
  /\ todo' = {}
  /\ stopping' = NoForward
  /\ missed' = {}
  /\ audit' = NoAudit
  /\ alarm' = {}
  /\ toRestore' = {id \in Ids : disk[id] \notin Terminal \cup {"none"}}
  /\ UNCHANGED <<disk>>

-----------------------------------------------------------------------------

Run(i) == Halt(i) \/ Broadcast(i) \/ Finish(i)

Forwards ==
  \/ \E id \in Ids :
       \/ StartForward(id)
       \/ Restore(id) \/ RestoreFails(id) \/ RequestStop(id) \/ Unregister(id)
  \/ \E i \in Nums : BecomeReady(i) \/ Drop(i) \/ GoStale(i) \/ Log(i) \/ Run(i)

Persist == Receive \/ Get \/ Mutate \/ ExitWriter

Audit == AuditLive \/ Report

Exiting ==
  \/ \E i \in Nums : StopNext(i)
  \/ AwaitDone \/ Wipe \/ CloseSubs \/ Exit

Next ==
  \/ Forwards
  \/ \E i \in Nums : Relay(i)
  \/ Persist
  \/ Audit
  \/ Shutdown \/ Exiting
  \/ Crash \/ Boot

Spec == Init /\ [][Next]_vars

\* The goroutines of a daemon that is not killed run; a forward that was told
\* to stop does so (StopTerminates of module Forward).
Fairness ==
  /\ \A i \in Nums : SF_vars(Halt(i)) /\ WF_vars(Broadcast(i)) /\ WF_vars(Finish(i))
  /\ \A i \in Nums : WF_vars(Relay(i))
  /\ WF_vars(Persist)
  /\ WF_vars(Audit)
  /\ WF_vars(Exiting)

FairSpec == Spec /\ Fairness

-----------------------------------------------------------------------------
(* Properties                                                              *)

Born(id) == \E i \in Nums : fwd[i].id = id

\* A forward that has not announced anything has no record of its own yet.
Unannounced(id) == forwards[id] # NoForward /\ fwd[forwards[id]].status = "starting"

Agrees(id) == Unannounced(id) \/ disk[id] = Current(id)

\* StopAll wiped the registry with a forward in it that was started meanwhile:
\* it lives, but m.Get does not know it.
Orphaned(id) == \E i \in Nums : fwd[i].id = id /\ Alive(i) /\ forwards[id] # i

\* An event of the forward has yet to reach the persistence goroutine.
Sent(id) ==
  \/ \E i \in Nums : fwd[i].id = id /\ (~fwd[i].told \/ chan[i] > 0)
  \/ \E k \in 1 .. Len(queue) : queue[k] = id

\* An event of the forward is on its way to the file.
Owed(id) ==
  \/ Sent(id)
  \/ writer.at = "get" /\ writer.id = id
  \/ writer.at = "write" /\ writer.id = id /\ writer.rec = Current(id)

\* state.json says of every forward of this daemon what the manager says,
\* unless an event is on its way that will repair it, or the last one was
\* dropped by the manager's channel or not written.  So what a full channel
\* of the forward itself drops does no harm, and a crash costs no more than
\* the events in flight (broadcast, relayEvents, persistForward).
FileCatchesUp ==
  \A id \in Ids :
    Born(id) /\ ~Orphaned(id) => Agrees(id) \/ Owed(id) \/ id \in missed

\* Nothing of the forward is in the file, nor on its way there.
Gone(id) == disk[id] = "none" /\ ~Sent(id) /\ writer.id # id

Ended(id) == Born(id) /\ Current(id) = "none" /\ ~Orphaned(id)

\* The record of a forward that ended leaves the file, and no event or write
\* that could bring it back is left, unless its id is used again, its last event
\* was dropped by the manager's channel or not written, or the daemon goes down
\* with that event still in flight.  In the last two cases, and in no other, the
\* next daemon finds a record to revive (persistForward's removal).
EndedLeaveTheFile ==
  \A id \in Ids :
    Ended(id) ~> \/ Gone(id)
                 \/ Current(id) # "none"
                 \/ id \in missed
                 \/ daemon = "down" /\ Owed(id)

\* A record that no forward stands behind, because its restore was refused, has
\* its port reported by the audit, or it is written over, or the daemon ends
\* (restoreOnStart, auditListeners: nothing else ever looks at such a record).
\* A record whose port another forward has taken is not reported: the audit
\* compares ports, and cannot tell whose they are.
Lost(id) == disk[id] # "none" /\ forwards[id] = NoForward /\ id \notin toRestore

Taken(id) == \E j \in Ids : forwards[j] # NoForward /\ LocalPort[j] = LocalPort[id]

MissingIsReported ==
  \A id \in Ids :
    boots \in Audits /\ Lost(id) ~>
      LocalPort[id] \in alarm \/ ~Lost(id) \/ Taken(id) \/ daemon # "up"

\* A shutdown comes to an end: StopAll waits only for forwards that stop, and
\* WaitPersistence for a goroutine whose channel is closed (handleShutdown).
ShutdownEnds == daemon = "stopAll" ~> daemon = "down"

-----------------------------------------------------------------------------
(* The parts of the inductive invariant                                    *)

\* Forwards are numbered as they are created, the registry knows them under
\* their own ids, and doneCh is closed after the last status.
RegistryInv ==
  /\ \A i \in Nums : i > created => fwd[i] = Unborn /\ chan[i] = 0
  /\ \A i \in Nums : i <= created => fwd[i].id \in Ids
  /\ \A i \in Nums : fwd[i].done => fwd[i].status \in Terminal
  /\ \A id \in Ids : forwards[id] # NoForward =>
       forwards[id] <= created /\ fwd[forwards[id]].id = id
  /\ writer.at \in {"get", "write"} => writer.id \in Ids

\* What is about to be written may be stale only if it will be written over,
\* or would have been: without this a write could undo an agreement.
WriteInv ==
  writer.at = "write" =>
    LET id == writer.id
    IN  Orphaned(id) \/ ~Born(id) \/ Unannounced(id) \/ writer.rec = Current(id)
          \/ Sent(id) \/ id \in missed

\* The inductive invariant.
IInv == TypeOK /\ RegistryInv /\ WriteInv /\ FileCatchesUp

=============================================================================
