--------------------------- MODULE PersistenceProofs ---------------------------
(***************************************************************************)
(* Theorems about Persistence: its types, and that state.json catches up   *)
(* with the forwards, for all ids, capacities, starts and restarts.        *)
(***************************************************************************)
EXTENDS Persistence, TLAPS

-----------------------------------------------------------------------------
(* Types                                                                   *)

LEMMA ConstantFacts ==
  /\ Nums \subseteq Nat \ {0} /\ NoForward \notin Nums
  /\ NoId \notin Ids
  /\ SubCap \in Nat \ {0} /\ QueueCap \in Nat \ {0} /\ MaxStarts \in Nat /\ MaxBoots \in Nat \ {0}
BY PersistenceAssumption DEF Nums, NoForward

ForwardRecord ==
  [id : Ids \cup {NoId}, status : Active \cup Terminal \cup {"none"},
   told : BOOLEAN, done : BOOLEAN]

LEMMA RecordFacts ==
  ASSUME NEW r \in ForwardRecord, NEW b \in BOOLEAN
  PROVE  /\ [r EXCEPT !.told = b] \in ForwardRecord /\ [r EXCEPT !.done = b] \in ForwardRecord
         /\ \A s \in Active \cup Terminal : [r EXCEPT !.status = s] \in ForwardRecord
BY DEF ForwardRecord

\* What the queue may become: one element less, or one more while it has room.
LEMMA QueueFacts ==
  ASSUME NEW q \in Seq(Ids), NEW x \in Ids
  PROVE  /\ Append(q, x) \in Seq(Ids) /\ Len(Append(q, x)) = Len(q) + 1
         /\ \A k \in 1 .. Len(q) : Append(q, x)[k] = q[k]
         /\ Append(q, x)[Len(q) + 1] = x
         /\ Len(q) \in Nat
OBVIOUS

LEMMA DequeueFacts ==
  ASSUME NEW q \in Seq(Ids), q # << >>
  PROVE  /\ Tail(q) \in Seq(Ids) /\ Len(Tail(q)) = Len(q) - 1
         /\ Head(q) \in Ids /\ Head(q) = q[1]
         /\ \A k \in 1 .. Len(q) - 1 : Tail(q)[k] = q[k + 1]
         /\ Len(q) \in Nat \ {0}
OBVIOUS

LEMMA InitInvariant == Init => TypeOK /\ RegistryInv
<1> SUFFICES ASSUME Init PROVE TypeOK /\ RegistryInv
  OBVIOUS
<1>1. TypeOK
  BY ConstantFacts DEF Init, TypeOK, Unborn, Idle, Recorded, Active, NoAudit, NoForward
<1>2. RegistryInv
  BY ConstantFacts DEF Init, RegistryInv, Unborn, Idle, NoForward, Nums
<1>3. QED
  BY <1>1, <1>2

-----------------------------------------------------------------------------
(* Steps of forwards keep the types and the registry                       *)

LEMMA CreateType ==
  ASSUME TypeOK, RegistryInv, NEW id \in Ids, Create(id), toRestore' \subseteq Ids
  PROVE  TypeOK' /\ RegistryInv'
<1>1. created + 1 \in Nums
  BY ConstantFacts DEF Create, TypeOK, Nums
<1>2. TypeOK'
  BY <1>1, ConstantFacts DEF Create, TypeOK, fileVars, Active
<1>3. RegistryInv'
  BY <1>1, ConstantFacts DEF Create, TypeOK, RegistryInv, fileVars, Terminal, Nums, NoForward
<1>4. QED
  BY <1>2, <1>3

LEMMA StatusType ==
  ASSUME TypeOK, RegistryInv, NEW i \in Nums, NEW status \in Active \cup Terminal,
         SetStatus(i, status), Alive(i) \/ fwd[i].status \in {"starting", "dropped"}
  PROVE  TypeOK' /\ RegistryInv'
<1>1. i <= created /\ ~fwd[i].done
  BY DEF TypeOK, RegistryInv, Alive, Active, Terminal, Unborn, Nums
<1>2. TypeOK'
  <2> DEFINE f == [fwd EXCEPT ![i].status = status]
  <2>1. fwd \in [Nums -> ForwardRecord]
    BY DEF TypeOK, ForwardRecord
  <2>2. f \in [Nums -> ForwardRecord]
    BY <2>1, RecordFacts
  <2>3. fwd' = [f EXCEPT ![i].told = FALSE]
    BY <2>1 DEF SetStatus
  <2> HIDE DEF f
  <2>4. fwd' \in [Nums -> ForwardRecord]
    BY <2>2, <2>3, RecordFacts
  <2>5. QED
    BY <2>4 DEF SetStatus, TypeOK, ForwardRecord, fileVars, daemonVars
<1>3. RegistryInv'
  BY <1>1, ConstantFacts DEF SetStatus, TypeOK, RegistryInv, fileVars, daemonVars
<1>4. QED
  BY <1>2, <1>3

LEMMA SendType ==
  ASSUME TypeOK, NEW i \in Nums, Send(i)
  PROVE  /\ chan' \in [Nums -> 0 .. SubCap]
         /\ chan'[i] > 0
         /\ \A j \in Nums \ {i} : chan'[j] = chan[j]
BY ConstantFacts DEF Send, TypeOK

LEMMA BroadcastType ==
  ASSUME TypeOK, RegistryInv, NEW i \in Nums, Broadcast(i)
  PROVE  TypeOK' /\ RegistryInv'
<1>1. i <= created
  BY DEF Broadcast, TypeOK, RegistryInv, Unborn, Nums
<1>2. /\ chan' \in [Nums -> 0 .. SubCap]
      /\ \A j \in Nums \ {i} : chan'[j] = chan[j]
  BY SendType DEF Broadcast
<1>3. TypeOK'
  <2>1. fwd \in [Nums -> ForwardRecord]
    BY DEF TypeOK, ForwardRecord
  <2>2. fwd' \in [Nums -> ForwardRecord]
    BY <2>1, RecordFacts DEF Broadcast
  <2>3. QED
    BY <1>2, <2>2 DEF Broadcast, TypeOK, ForwardRecord, fileVars, daemonVars
<1>4. RegistryInv'
  BY <1>1, <1>2 DEF Broadcast, TypeOK, RegistryInv, fileVars, daemonVars, Nums
<1>5. QED
  BY <1>3, <1>4

LEMMA LogType ==
  ASSUME TypeOK, RegistryInv, NEW i \in Nums, Log(i)
  PROVE  TypeOK' /\ RegistryInv'
<1>1. i <= created
  BY DEF Log, Alive, Active, TypeOK, RegistryInv, Unborn, Nums
<1>2. TypeOK'
  BY SendType DEF Log, TypeOK, fileVars, daemonVars, forwardVars
<1>3. RegistryInv'
  BY <1>1, SendType DEF Log, TypeOK, RegistryInv, fileVars, daemonVars, forwardVars, Nums
<1>4. QED
  BY <1>2, <1>3

LEMMA FinishType ==
  ASSUME TypeOK, RegistryInv, NEW i \in Nums, Finish(i)
  PROVE  TypeOK' /\ RegistryInv'
<1>1. i <= created
  BY DEF Finish, Terminal, TypeOK, RegistryInv, Unborn, Nums
<1>2. TypeOK'
  <2>1. fwd \in [Nums -> ForwardRecord]
    BY DEF TypeOK, ForwardRecord
  <2>2. fwd' \in [Nums -> ForwardRecord]
    BY <2>1, RecordFacts DEF Finish
  <2>3. QED
    BY <2>2 DEF Finish, TypeOK, ForwardRecord, fileVars, daemonVars
<1>3. RegistryInv'
  BY <1>1 DEF Finish, TypeOK, RegistryInv, fileVars, daemonVars, Nums
<1>4. QED
  BY <1>2, <1>3

LEMMA StopType ==
  ASSUME TypeOK, RegistryInv, NEW id \in Ids, RequestStop(id) \/ Unregister(id)
  PROVE  TypeOK' /\ RegistryInv'
<1>1. TypeOK'
  BY DEF RequestStop, Unregister, TypeOK, fileVars, daemonVars
<1>2. RegistryInv'
  BY DEF RequestStop, Unregister, TypeOK, RegistryInv, fileVars, daemonVars
<1>3. QED
  BY <1>1, <1>2

-----------------------------------------------------------------------------
(* Steps of the goroutines of the daemon                                   *)

LEMMA RelayType ==
  ASSUME TypeOK, RegistryInv, NEW i \in Nums, Relay(i)
  PROVE  TypeOK' /\ RegistryInv' /\ fwd[i].id \in Ids
<1>1. i <= created /\ fwd[i].id \in Ids
  BY DEF Relay, TypeOK, RegistryInv, Nums
<1>2. chan' \in [Nums -> 0 .. SubCap]
  BY ConstantFacts DEF Relay, TypeOK
<1>3. queue' \in Seq(Ids) /\ Len(queue') <= QueueCap
  <2>1. queue \in Seq(Ids) /\ Len(queue) <= QueueCap
    BY DEF TypeOK
  <2>2. queue' = queue \/ (Len(queue) < QueueCap /\ queue' = Append(queue, fwd[i].id))
    BY DEF Relay
  <2>3. QED
    BY <1>1, <2>1, <2>2, QueueFacts, ConstantFacts
<1>4. TypeOK'
  BY <1>1, <1>2, <1>3 DEF Relay, TypeOK, auditVars, forwardVars, daemonVars
<1>5. RegistryInv'
  BY <1>1 DEF Relay, TypeOK, RegistryInv, auditVars, forwardVars, daemonVars, Nums
<1>6. QED
  BY <1>1, <1>4, <1>5

LEMMA CurrentType == ASSUME TypeOK, NEW id \in Ids PROVE Current(id) \in Recorded
BY DEF TypeOK, Current, Alive, Recorded, NoForward

LEMMA PersistType ==
  ASSUME TypeOK, RegistryInv, Persist
  PROVE  TypeOK' /\ RegistryInv'
<1>1. CASE Receive
  <2>1. Head(queue) \in Ids /\ Tail(queue) \in Seq(Ids) /\ Len(Tail(queue)) <= QueueCap
    BY <1>1, DequeueFacts, ConstantFacts DEF Receive, TypeOK
  <2>2. QED
    BY <1>1, <2>1 DEF Receive, Idle, Recorded, TypeOK, RegistryInv, auditVars, forwardVars, daemonVars
<1>2. CASE Get
  BY <1>2, CurrentType DEF Get, TypeOK, RegistryInv, auditVars, forwardVars, daemonVars
<1>3. CASE Mutate
  BY <1>3 DEF Mutate, Idle, Recorded, TypeOK, RegistryInv, auditVars, forwardVars, daemonVars
<1>4. CASE ExitWriter
  BY <1>4 DEF ExitWriter, Idle, Recorded, TypeOK, RegistryInv, auditVars, forwardVars, daemonVars
<1>5. QED
  BY <1>1, <1>2, <1>3, <1>4 DEF Persist

LEMMA AuditType ==
  ASSUME TypeOK, RegistryInv, Audit
  PROVE  TypeOK' /\ RegistryInv'
<1>1. CASE AuditLive
  <2>1. audit' \subseteq Nums
    BY <1>1 DEF AuditLive, TypeOK
  <2>2. QED
    BY <1>1, <2>1 DEF AuditLive, TypeOK, RegistryInv, forwardVars, daemonVars
<1>2. CASE Report
  <2>1. alarm' \subseteq PortsOf(Ids) /\ audit' = NoAudit
    BY <1>2 DEF Report, PortsOf
  <2>2. QED
    BY <1>2, <2>1 DEF Report, TypeOK, RegistryInv, forwardVars, daemonVars, PortsOf
<1>3. QED
  BY <1>1, <1>2 DEF Audit

LEMMA ShutdownType ==
  ASSUME TypeOK, RegistryInv, Shutdown \/ Exiting \/ Crash
  PROVE  TypeOK' /\ RegistryInv'
<1>1. CASE Shutdown
  BY <1>1 DEF Shutdown, Phase, TypeOK, RegistryInv, forwardVars, fileVars
<1>2. ASSUME NEW i \in Nums, StopNext(i) PROVE TypeOK' /\ RegistryInv'
  BY <1>2 DEF StopNext, Phase, TypeOK, RegistryInv, fileVars
<1>3. CASE AwaitDone
  BY <1>3 DEF AwaitDone, Phase, TypeOK, RegistryInv, forwardVars, fileVars
<1>4. CASE Wipe
  BY <1>4 DEF Wipe, Phase, TypeOK, RegistryInv, fileVars
<1>5. CASE CloseSubs
  BY <1>5 DEF CloseSubs, Phase, TypeOK, RegistryInv, forwardVars, fileVars
<1>6. CASE Exit
  BY <1>6 DEF Exit, Phase, TypeOK, RegistryInv, forwardVars
<1>7. CASE Crash
  BY <1>7 DEF Crash, Phase, TypeOK, RegistryInv, forwardVars
<1>8. QED
  BY <1>1, <1>2, <1>3, <1>4, <1>5, <1>6, <1>7 DEF Exiting

LEMMA BootType ==
  ASSUME TypeOK, RegistryInv, Boot
  PROVE  TypeOK' /\ RegistryInv'
<1>1. TypeOK'
  BY ConstantFacts DEF Boot, TypeOK, Unborn, Idle, Recorded, Active, NoAudit, NoForward
<1>2. RegistryInv'
  BY ConstantFacts DEF Boot, RegistryInv, Unborn, Idle, NoForward, Nums
<1>3. QED
  BY <1>1, <1>2

-----------------------------------------------------------------------------
(* The file catches up                                                     *)

\* What excuses a difference between a record, or one about to be written,
\* and what the manager says.
Excused(id) == Orphaned(id) \/ ~Born(id) \/ Unannounced(id) \/ Sent(id) \/ id \in missed

\* A step of the forwards and their channels: excuses stay, and a change of
\* what the manager says gives one.
KeepsExcuses ==
  \A id \in Ids : /\ Excused(id) => Excused(id)'
                  /\ Current(id)' = Current(id) \/ Excused(id)'

LEMMA KeepsCatchingUp ==
  ASSUME FileCatchesUp, WriteInv, RegistryInv, KeepsExcuses, UNCHANGED <<disk, writer>>
  PROVE  FileCatchesUp' /\ WriteInv'
<1>1. FileCatchesUp'
  BY DEF FileCatchesUp, KeepsExcuses, Excused, Agrees, Owed
<1>2. WriteInv'
  BY DEF WriteInv, RegistryInv, KeepsExcuses, Excused
<1>3. QED
  BY <1>1, <1>2

LEMMA FrameKeepsExcuses ==
  ASSUME UNCHANGED <<fwd, forwards, chan, queue, missed>>
  PROVE  KeepsExcuses
BY DEF KeepsExcuses, Excused, Orphaned, Born, Unannounced, Sent, Current, Alive

LEMMA CreateKeepsExcuses ==
  ASSUME TypeOK, RegistryInv, NEW id \in Ids, Create(id)
  PROVE  KeepsExcuses
<1>1. created + 1 \in Nums
  BY ConstantFacts DEF Create, TypeOK, Nums
<1>2. fwd[created + 1] = Unborn /\ chan[created + 1] = 0
  BY <1>1 DEF RegistryInv, TypeOK
<1>3. Unannounced(id)'
  BY <1>1, ConstantFacts DEF Create, Unannounced, TypeOK
<1>4. \A j \in Nums \ {created + 1} : fwd'[j] = fwd[j]
  BY DEF Create, TypeOK
<1>5. ASSUME NEW other \in Ids \ {id}
      PROVE  Current(other)' = Current(other) /\ (Excused(other) => Excused(other)')
  <2>1. forwards'[other] = forwards[other] /\ forwards[other] # created + 1
    BY <1>1 DEF Create, TypeOK, RegistryInv, NoForward
  <2>2. fwd'[created + 1].id # other /\ fwd[created + 1].id # other
    BY <1>1, <1>2, ConstantFacts DEF Create, TypeOK, Unborn
  <2>3. /\ Born(other)' <=> Born(other)
        /\ Orphaned(other)' <=> Orphaned(other)
        /\ Sent(other)' <=> Sent(other)
    BY <1>4, <2>1, <2>2 DEF Create, fileVars, Born, Orphaned, Sent, Alive
  <2>4. forwards[other] # NoForward => forwards[other] \in Nums \ {created + 1}
    BY <2>1 DEF TypeOK
  <2>5. Current(other)' = Current(other) /\ (Unannounced(other)' <=> Unannounced(other))
    BY <1>4, <2>1, <2>4 DEF Current, Unannounced, Alive
  <2>6. QED
    BY <2>3, <2>5 DEF Excused, Create, fileVars
<1>6. QED
  BY <1>3, <1>5 DEF KeepsExcuses, Excused

LEMMA StatusKeepsExcuses ==
  ASSUME TypeOK, RegistryInv, NEW i \in Nums, NEW status \in Active \cup Terminal,
         SetStatus(i, status)
  PROVE  KeepsExcuses
<1>1. \A j \in Nums \ {i} : fwd'[j] = fwd[j]
  BY DEF SetStatus, TypeOK
<1>2. fwd'[i].id = fwd[i].id /\ ~fwd'[i].told
  BY DEF SetStatus, TypeOK
<1>3. ASSUME NEW id \in Ids, id = fwd[i].id PROVE Sent(id)'
  BY <1>2, <1>3 DEF Sent
<1>4. ASSUME NEW other \in Ids, other # fwd[i].id
      PROVE  Current(other)' = Current(other) /\ (Excused(other) => Excused(other)')
  <2>1. forwards'[other] = forwards[other] /\ forwards[other] # i
    BY ConstantFacts, <1>4 DEF SetStatus, RegistryInv, TypeOK
  <2>2. /\ Born(other)' <=> Born(other)
        /\ Orphaned(other)' <=> Orphaned(other)
        /\ Sent(other)' <=> Sent(other)
    BY <1>1, <1>2, <1>4, <2>1 DEF SetStatus, fileVars, Born, Orphaned, Sent, Alive
  <2>3. forwards[other] # NoForward => forwards[other] \in Nums \ {i}
    BY <2>1 DEF TypeOK
  <2>4. Current(other)' = Current(other) /\ (Unannounced(other)' <=> Unannounced(other))
    BY <1>1, <2>1, <2>3 DEF Current, Unannounced, Alive
  <2>5. QED
    BY <2>2, <2>4 DEF Excused, SetStatus, fileVars
<1>5. QED
  BY <1>3, <1>4 DEF KeepsExcuses, Excused

\* Statuses and ids stay, channels grow or trade "not told" for an event.
LEMMA SendKeepsExcuses ==
  ASSUME TypeOK, NEW i \in Nums, Broadcast(i) \/ Log(i)
  PROVE  KeepsExcuses
<1>1. /\ chan'[i] > 0
      /\ \A j \in Nums \ {i} : chan'[j] = chan[j]
  BY SendType DEF Broadcast, Log
<1>2. \A j \in Nums : fwd'[j].id = fwd[j].id /\ fwd'[j].status = fwd[j].status
  <2>1. fwd \in [Nums -> ForwardRecord]
    BY DEF TypeOK, ForwardRecord
  <2>2. CASE Broadcast(i)
    BY <2>1, <2>2 DEF Broadcast, ForwardRecord
  <2>3. CASE Log(i)
    BY <2>3 DEF Log, forwardVars
  <2>4. QED
    BY <2>2, <2>3
<1>3. \A j \in Nums \ {i} : fwd'[j].told = fwd[j].told
  BY DEF Broadcast, Log, forwardVars, TypeOK
<1>4. forwards' = forwards /\ queue' = queue /\ missed' = missed
  BY DEF Broadcast, Log, forwardVars, fileVars
<1>5. ASSUME NEW id \in Ids PROVE Sent(id) => Sent(id)'
  BY <1>1, <1>2, <1>3, <1>4 DEF Sent
<1>6. ASSUME NEW id \in Ids
      PROVE  /\ Current(id)' = Current(id)
             /\ Unannounced(id) <=> Unannounced(id)'
             /\ Born(id) <=> Born(id)'
             /\ Orphaned(id) <=> Orphaned(id)'
  <2>1. (Born(id) <=> Born(id)') /\ (Orphaned(id) <=> Orphaned(id)')
    BY <1>2, <1>4 DEF Born, Orphaned, Alive
  <2>2. forwards[id] # NoForward => forwards[id] \in Nums
    BY DEF TypeOK
  <2>3. Current(id)' = Current(id) /\ (Unannounced(id) <=> Unannounced(id)')
    BY <1>2, <1>4, <2>2 DEF Current, Unannounced, Alive
  <2>4. QED
    BY <2>1, <2>3
<1>7. QED
  BY <1>4, <1>5, <1>6 DEF KeepsExcuses, Excused

LEMMA FinishKeepsExcuses ==
  ASSUME TypeOK, NEW i \in Nums, Finish(i)
  PROVE  KeepsExcuses
<1>1. \A j \in Nums : /\ fwd'[j].id = fwd[j].id /\ fwd'[j].status = fwd[j].status
                      /\ fwd'[j].told = fwd[j].told
  BY DEF Finish, TypeOK
<1>2. UNCHANGED <<forwards, chan, queue, missed>>
  BY DEF Finish, fileVars
<1>3. ASSUME NEW id \in Ids
      PROVE  /\ Current(id)' = Current(id)
             /\ Unannounced(id) <=> Unannounced(id)'
             /\ Born(id) <=> Born(id)'
             /\ Orphaned(id) <=> Orphaned(id)'
             /\ Sent(id) <=> Sent(id)'
  BY <1>1, <1>2 DEF Current, Unannounced, Born, Orphaned, Sent, Alive, TypeOK
<1>4. QED
  BY <1>2, <1>3 DEF KeepsExcuses, Excused

\* Only a forward that is over leaves the registry, so nothing changes for
\* the file.
LEMMA UnregisterKeepsExcuses ==
  ASSUME TypeOK, RegistryInv, NEW id \in Ids, Unregister(id)
  PROVE  KeepsExcuses
<1>1. forwards[id] \in Nums /\ fwd[forwards[id]].status \in Terminal
  BY DEF Unregister, TypeOK, RegistryInv
<1>2. UNCHANGED <<fwd, chan, queue, missed>>
  BY DEF Unregister, fileVars
<1>3. forwards' = [forwards EXCEPT ![id] = NoForward]
  BY DEF Unregister
<1>4. ASSUME NEW other \in Ids
      PROVE  /\ Current(other)' = Current(other)
             /\ Unannounced(other) => Unannounced(other)'
             /\ Born(other) <=> Born(other)'
             /\ Orphaned(other) => Orphaned(other)'
             /\ Sent(other) <=> Sent(other)'
  <2>1. Born(other) <=> Born(other)'
    BY <1>2 DEF Born
  <2>2. Sent(other) <=> Sent(other)'
    BY <1>2 DEF Sent
  <2>3. Current(other)' = Current(other) /\ (Unannounced(other) => Unannounced(other)')
    BY <1>1, <1>2, <1>3 DEF Current, Unannounced, Alive, Active, Terminal, TypeOK
  <2>4. Orphaned(other) => Orphaned(other)'
    BY <1>1, <1>2, <1>3, ConstantFacts DEF Orphaned, Alive, TypeOK
  <2>5. QED
    BY <2>1, <2>2, <2>3, <2>4
<1>5. QED
  BY <1>2, <1>4 DEF KeepsExcuses, Excused

\* An event moves on to the queue, or is counted as missed.
LEMMA RelayKeepsExcuses ==
  ASSUME TypeOK, RegistryInv, NEW i \in Nums, Relay(i)
  PROVE  KeepsExcuses
<1>1. fwd[i].id \in Ids
  BY RelayType
<1>2. UNCHANGED <<fwd, forwards>>
  BY DEF Relay, forwardVars
<1>3. \A j \in Nums \ {i} : chan'[j] = chan[j]
  BY DEF Relay, TypeOK
<1>4. missed \subseteq missed'
  BY DEF Relay
<1>5. /\ fwd[i].id \in missed' \/ \E k \in 1 .. Len(queue') : queue'[k] = fwd[i].id
      /\ \A id : (\E k \in 1 .. Len(queue) : queue[k] = id)
                  => (\E k \in 1 .. Len(queue') : queue'[k] = id)
  <2>1. CASE queue' = queue /\ missed' = missed \cup {fwd[i].id}
    BY <2>1
  <2>2. CASE queue' = Append(queue, fwd[i].id)
    <3>1. queue \in Seq(Ids)
      BY DEF TypeOK
    <3>2. Len(queue) \in Nat /\ Len(queue') = Len(queue) + 1
      BY <1>1, <2>2, <3>1, QueueFacts
    <3>3. queue'[Len(queue) + 1] = fwd[i].id /\ \A k \in 1 .. Len(queue) : queue'[k] = queue[k]
      BY <1>1, <2>2, <3>1, QueueFacts
    <3>4. QED
      BY <3>2, <3>3
  <2>3. QED
    BY <2>1, <2>2 DEF Relay
<1>6. ASSUME NEW id \in Ids
      PROVE  Sent(id) => Sent(id)' \/ id \in missed'
  BY <1>2, <1>3, <1>5 DEF Sent
<1>7. ASSUME NEW id \in Ids
      PROVE  /\ Current(id)' = Current(id)
             /\ Unannounced(id) <=> Unannounced(id)'
             /\ Born(id) <=> Born(id)'
             /\ Orphaned(id) <=> Orphaned(id)'
  BY <1>2 DEF Current, Unannounced, Born, Orphaned, Alive
<1>8. QED
  BY <1>4, <1>6, <1>7 DEF KeepsExcuses, Excused

\* A forward that StopAll forgets is over, or orphaned.
LEMMA WipeKeepsExcuses ==
  ASSUME TypeOK, RegistryInv, Wipe
  PROVE  KeepsExcuses
<1>1. UNCHANGED <<fwd, chan, queue, missed>>
  BY DEF Wipe, fileVars
<1>2. \A id \in Ids : forwards'[id] = NoForward
  BY DEF Wipe
<1>3. ASSUME NEW id \in Ids PROVE Orphaned(id) => Orphaned(id)'
  BY <1>1, <1>2, ConstantFacts DEF Orphaned, Alive
<1>4. ASSUME NEW id \in Ids
      PROVE  Current(id)' = Current(id) \/ Orphaned(id)'
  <2>1. Current(id)' = "none"
    BY <1>2 DEF Current
  <2>2. CASE forwards[id] # NoForward /\ Alive(forwards[id])
    <3>1. forwards[id] \in Nums /\ fwd[forwards[id]].id = id
      BY <2>2 DEF TypeOK, RegistryInv
    <3>2. QED
      BY <1>1, <1>2, <2>2, <3>1 DEF Orphaned, Alive
  <2>3. QED
    BY <2>1, <2>2 DEF Current
<1>5. ASSUME NEW id \in Ids
      PROVE  Unannounced(id) => Orphaned(id)'
  <2>1. SUFFICES ASSUME Unannounced(id) PROVE Orphaned(id)'
    OBVIOUS
  <2>2. forwards[id] \in Nums /\ fwd[forwards[id]].id = id /\ Alive(forwards[id])
    BY <2>1 DEF TypeOK, RegistryInv, Unannounced, Alive, Active
  <2>3. QED
    BY <1>1, <1>2, <2>2, ConstantFacts DEF Orphaned, Alive
<1>6. ASSUME NEW id \in Ids PROVE (Born(id) <=> Born(id)') /\ (Sent(id) <=> Sent(id)')
  BY <1>1 DEF Born, Sent
<1>7. QED
  BY <1>1, <1>3, <1>4, <1>5, <1>6 DEF KeepsExcuses, Excused

-----------------------------------------------------------------------------
(* Steps that move the writer, and the start of a daemon                   *)

LEMMA ReceiveCatchesUp ==
  ASSUME TypeOK, RegistryInv, FileCatchesUp, Receive
  PROVE  FileCatchesUp' /\ WriteInv'
<1>1. /\ queue \in Seq(Ids) /\ queue # << >>
      /\ UNCHANGED <<fwd, forwards, chan, disk>>
  BY DEF Receive, TypeOK, forwardVars
<1>2. writer'.at = "get" /\ writer'.id = Head(queue) /\ missed' = missed \ {Head(queue)}
  BY DEF Receive, Idle
<1>3. ASSUME NEW id \in Ids, id # Head(queue), NEW k \in 1 .. Len(queue), queue[k] = id
      PROVE  \E n \in 1 .. Len(queue') : queue'[n] = id
  <2>1. /\ Len(queue) \in Nat \ {0} /\ Len(queue') = Len(queue) - 1
        /\ Head(queue) = queue[1]
        /\ \A n \in 1 .. Len(queue) - 1 : queue'[n] = queue[n + 1]
    BY <1>1, DequeueFacts DEF Receive
  <2>2. k - 1 \in 1 .. Len(queue') /\ queue'[k - 1] = queue[k]
    BY <1>3, <2>1
  <2>3. QED
    BY <1>3, <2>2
<1>4. ASSUME NEW id \in Ids, id # Head(queue)
      PROVE  Excused(id) => Excused(id)'
  <2>1. Sent(id) => Sent(id)'
    BY <1>1, <1>3, <1>4 DEF Sent
  <2>2. (Orphaned(id) <=> Orphaned(id)') /\ (Born(id) <=> Born(id)')
          /\ (Unannounced(id) <=> Unannounced(id)')
    BY <1>1 DEF Orphaned, Born, Unannounced, Alive
  <2>3. QED
    BY <1>2, <1>4, <2>1, <2>2 DEF Excused
<1>5. \A id \in Ids : Current(id)' = Current(id)
  BY <1>1 DEF Current, Alive
<1>6. writer.at = "receive"
  BY DEF Receive
<1>7. FileCatchesUp'
  BY <1>1, <1>2, <1>4, <1>5, <1>6 DEF FileCatchesUp, Excused, Agrees, Owed
<1>8. WriteInv'
  BY <1>2 DEF WriteInv
<1>9. QED
  BY <1>7, <1>8

LEMMA GetCatchesUp ==
  ASSUME TypeOK, RegistryInv, FileCatchesUp, Get
  PROVE  FileCatchesUp' /\ WriteInv'
<1>1. KeepsExcuses
  BY FrameKeepsExcuses DEF Get, forwardVars
<1>2. \A id \in Ids : Current(id)' = Current(id)
  BY DEF Get, forwardVars, Current, Alive
<1>3. /\ writer'.at = "write" /\ writer'.id = writer.id /\ writer.id \in Ids
      /\ writer'.rec = Current(writer.id) /\ writer.at = "get"
  BY DEF Get, TypeOK, RegistryInv
<1>4. FileCatchesUp'
  BY <1>1, <1>2, <1>3 DEF FileCatchesUp, KeepsExcuses, Excused, Agrees, Owed, Get
<1>5. ASSUME NEW id \in Ids, id = writer'.id PROVE writer'.rec = Current(id)'
  BY <1>2, <1>3, <1>5
<1>6. WriteInv'
  BY <1>3, <1>5 DEF WriteInv
<1>7. QED
  BY <1>4, <1>6

LEMMA MutateCatchesUp ==
  ASSUME TypeOK, RegistryInv, FileCatchesUp, WriteInv, Mutate
  PROVE  FileCatchesUp' /\ WriteInv'
<1>1. UNCHANGED <<fwd, forwards, chan, queue>> /\ missed \subseteq missed'
  BY DEF Mutate, forwardVars
<1>2. ASSUME NEW id \in Ids
      PROVE  (Excused(id) => Excused(id)') /\ Current(id)' = Current(id)
  BY <1>1 DEF Excused, Orphaned, Born, Unannounced, Sent, Current, Alive
<1>3. /\ writer.at = "write" /\ writer.id \in Ids /\ writer'.at = "receive"
      /\ \/ disk' = [disk EXCEPT ![writer.id] = writer.rec]
         \/ disk' = disk /\ writer.id \in missed'
  BY DEF Mutate, RegistryInv, Idle
<1>4. ASSUME NEW id \in Ids, id = writer.id
      PROVE  Excused(id)' \/ disk'[id] = Current(id)'
  BY <1>2, <1>3, <1>4 DEF WriteInv, Excused, TypeOK
<1>5. ASSUME NEW id \in Ids, id # writer.id
      PROVE  Excused(id)' \/ disk'[id] = Current(id)'
  <2>1. disk'[id] = disk[id]
    BY <1>3, <1>5 DEF TypeOK
  <2>2. QED
    BY <1>2, <1>3, <1>5, <2>1 DEF FileCatchesUp, Excused, Agrees, Owed
<1>6. FileCatchesUp'
  BY <1>4, <1>5 DEF FileCatchesUp, Excused, Agrees, Owed
<1>7. QED
  BY <1>3, <1>6 DEF WriteInv

LEMMA ExitWriterCatchesUp ==
  ASSUME FileCatchesUp, ExitWriter
  PROVE  FileCatchesUp' /\ WriteInv'
<1>1. KeepsExcuses
  BY FrameKeepsExcuses DEF ExitWriter, forwardVars
<1>2. \A id \in Ids : Current(id)' = Current(id)
  BY DEF ExitWriter, forwardVars, Current, Alive
<1>3. writer.at = "receive" /\ writer'.at = "exited" /\ disk' = disk
  BY DEF ExitWriter, Idle
<1>4. FileCatchesUp'
  BY <1>1, <1>2, <1>3 DEF FileCatchesUp, KeepsExcuses, Excused, Agrees, Owed
<1>5. QED
  BY <1>3, <1>4 DEF WriteInv

LEMMA StillCatchesUp ==
  ASSUME FileCatchesUp, WriteInv, UNCHANGED <<fwd, forwards, chan, queue, missed, disk, writer>>
  PROVE  FileCatchesUp' /\ WriteInv'
BY DEF FileCatchesUp, WriteInv, Owed, Sent, Agrees, Current, Unannounced, Born, Orphaned, Alive

\* A new daemon has no forwards yet.
LEMMA InitCatchesUp == Init => FileCatchesUp /\ WriteInv
BY ConstantFacts DEF Init, FileCatchesUp, WriteInv, Born, Unborn, Idle

LEMMA BootCatchesUp == Boot => FileCatchesUp' /\ WriteInv'
BY ConstantFacts DEF Boot, FileCatchesUp, WriteInv, Born, Unborn, Idle

-----------------------------------------------------------------------------
(* The steps together                                                      *)

LEMMA ForwardsKeep ==
  ASSUME IInv, Forwards
  PROVE  IInv'
<1> USE DEF IInv
<1>1. ASSUME NEW id \in Ids, StartForward(id) \/ Restore(id) PROVE IInv'
  <2>1. Create(id) /\ toRestore' \subseteq Ids
    BY <1>1 DEF StartForward, Restore, TypeOK
  <2>2. UNCHANGED <<disk, writer>>
    BY <2>1 DEF Create, fileVars
  <2>3. KeepsExcuses
    BY <2>1, CreateKeepsExcuses
  <2>4. TypeOK' /\ RegistryInv'
    BY <2>1, CreateType
  <2>5. QED
    BY <2>2, <2>3, <2>4, KeepsCatchingUp
<1>2. ASSUME NEW id \in Ids, RestoreFails(id) PROVE IInv'
  <2>1. TypeOK' /\ RegistryInv'
    BY <1>2 DEF RestoreFails, TypeOK, RegistryInv, forwardVars, fileVars
  <2>2. QED
    BY <1>2, <2>1, StillCatchesUp DEF RestoreFails, forwardVars, fileVars
<1>3. ASSUME NEW id \in Ids, RequestStop(id) PROVE IInv'
  <2>1. TypeOK' /\ RegistryInv'
    BY <1>3, StopType
  <2>2. QED
    BY <1>3, <2>1, StillCatchesUp DEF RequestStop, fileVars
<1>4. ASSUME NEW id \in Ids, Unregister(id) PROVE IInv'
  <2>1. TypeOK' /\ RegistryInv'
    BY <1>4, StopType
  <2>2. KeepsExcuses
    BY <1>4, UnregisterKeepsExcuses
  <2>3. UNCHANGED <<disk, writer>>
    BY <1>4 DEF Unregister, fileVars
  <2>4. QED
    BY <2>1, <2>2, <2>3, KeepsCatchingUp
<1>5. ASSUME NEW i \in Nums, BecomeReady(i) \/ Drop(i) \/ GoStale(i) \/ Halt(i) PROVE IInv'
  <2>1. PICK status \in Active \cup Terminal :
          SetStatus(i, status) /\ (Alive(i) \/ fwd[i].status \in {"starting", "dropped"})
    BY <1>5 DEF BecomeReady, Drop, GoStale, Halt, Active, Terminal
  <2>2. TypeOK' /\ RegistryInv'
    BY <2>1, StatusType
  <2>3. KeepsExcuses
    BY <2>1, StatusKeepsExcuses
  <2>4. UNCHANGED <<disk, writer>>
    BY <2>1 DEF SetStatus, fileVars
  <2>5. QED
    BY <2>2, <2>3, <2>4, KeepsCatchingUp
<1>6. ASSUME NEW i \in Nums, Broadcast(i) \/ Log(i) PROVE IInv'
  <2>1. TypeOK' /\ RegistryInv'
    BY <1>6, BroadcastType, LogType
  <2>2. KeepsExcuses
    BY <1>6, SendKeepsExcuses
  <2>3. UNCHANGED <<disk, writer>>
    BY <1>6 DEF Broadcast, Log, fileVars
  <2>4. QED
    BY <2>1, <2>2, <2>3, KeepsCatchingUp
<1>7. ASSUME NEW i \in Nums, Finish(i) PROVE IInv'
  <2>1. TypeOK' /\ RegistryInv'
    BY <1>7, FinishType
  <2>2. KeepsExcuses
    BY <1>7, FinishKeepsExcuses
  <2>3. UNCHANGED <<disk, writer>>
    BY <1>7 DEF Finish, fileVars
  <2>4. QED
    BY <2>1, <2>2, <2>3, KeepsCatchingUp
<1>8. QED
  BY <1>1, <1>2, <1>3, <1>4, <1>5, <1>6, <1>7 DEF Forwards, Run

LEMMA DaemonKeeps ==
  ASSUME IInv, (\E i \in Nums : Relay(i)) \/ Persist \/ Audit
  PROVE  IInv'
<1> USE DEF IInv
<1>1. ASSUME NEW i \in Nums, Relay(i) PROVE IInv'
  <2>1. TypeOK' /\ RegistryInv'
    BY <1>1, RelayType
  <2>2. KeepsExcuses
    BY <1>1, RelayKeepsExcuses
  <2>3. UNCHANGED <<disk, writer>>
    BY <1>1 DEF Relay
  <2>4. QED
    BY <2>1, <2>2, <2>3, KeepsCatchingUp
<1>2. CASE Persist
  <2>1. TypeOK' /\ RegistryInv'
    BY <1>2, PersistType
  <2>2. FileCatchesUp' /\ WriteInv'
    BY <1>2, ReceiveCatchesUp, GetCatchesUp, MutateCatchesUp, ExitWriterCatchesUp DEF Persist
  <2>3. QED
    BY <2>1, <2>2
<1>3. CASE Audit
  <2>1. TypeOK' /\ RegistryInv'
    BY <1>3, AuditType
  <2>2. QED
    BY <1>3, <2>1, StillCatchesUp DEF Audit, AuditLive, Report, forwardVars
<1>4. QED
  BY <1>1, <1>2, <1>3

LEMMA ExitKeeps ==
  ASSUME IInv, Shutdown \/ Exiting \/ Crash \/ Boot
  PROVE  IInv'
<1> USE DEF IInv
<1>1. TypeOK' /\ RegistryInv'
  BY ShutdownType, BootType
<1>2. CASE Wipe
  <2>1. KeepsExcuses
    BY <1>2, WipeKeepsExcuses
  <2>2. QED
    BY <1>1, <1>2, <2>1, KeepsCatchingUp DEF Wipe, fileVars
<1>3. CASE Boot
  BY <1>1, <1>3, BootCatchesUp
<1>4. CASE ~Wipe /\ ~Boot
  <2>1. UNCHANGED <<fwd, forwards, chan, queue, missed, disk, writer>>
    BY <1>4 DEF Shutdown, Exiting, StopNext, AwaitDone, CloseSubs, Exit, Crash, forwardVars, fileVars
  <2>2. QED
    BY <1>1, <2>1, StillCatchesUp
<1>5. QED
  BY <1>2, <1>3, <1>4

-----------------------------------------------------------------------------
(* The theorems                                                            *)

\* The inductive invariant: types, the registry, what the persistence goroutine
\* is about to write, and the file itself (handler.go, state.go, manager.go).
THEOREM InductiveInvariant == Spec => []IInv
<1>1. Init => IInv
  BY InitInvariant, InitCatchesUp DEF IInv
<1>2. IInv /\ [Next]_vars => IInv'
  <2>1. SUFFICES ASSUME IInv, [Next]_vars PROVE IInv'
    OBVIOUS
  <2>2. CASE Next
    BY <2>1, <2>2, ForwardsKeep, DaemonKeeps, ExitKeeps DEF Next
  <2>3. CASE UNCHANGED vars
    <3>1. TypeOK' /\ RegistryInv'
      BY <2>1, <2>3 DEF IInv, TypeOK, RegistryInv, vars, daemonVars, forwardVars, fileVars
    <3>2. QED
      BY <2>1, <2>3, <3>1, StillCatchesUp DEF IInv, vars, forwardVars, fileVars
  <2>4. QED
    BY <2>1, <2>2, <2>3
<1>3. QED
  BY <1>1, <1>2, PTL DEF Spec

\* Channels and queue keep their capacities, and every variable its type, for
\* any number of ids, forwards and daemons.
THEOREM TypeCorrect == Spec => []TypeOK
<1>1. IInv => TypeOK
  BY DEF IInv
<1>2. QED
  BY <1>1, InductiveInvariant, PTL

\* What state.json says of a forward is what the manager says, or an event on
\* its way will repair it, or the last event was lost: however requests, status
\* changes, writes, shutdowns, crashes and restarts interleave, and whatever the
\* capacities of the channels (broadcast, relayEvents, persistForward).
THEOREM CatchesUp == Spec => []FileCatchesUp
<1>1. IInv => FileCatchesUp
  BY DEF IInv
<1>2. QED
  BY <1>1, InductiveInvariant, PTL
=============================================================================
