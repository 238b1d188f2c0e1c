----------------------- MODULE ManagerSequentialProofs -----------------------
(***************************************************************************)
(* Theorems about Manager with every request there is, restarts, StopAll   *)
(* and the restoring of records included, but one at a time and without a  *)
(* record that has the id of a later start: the registry then never goes   *)
(* wrong.  The runs show what two of them, or such a record, can do to it. *)
(***************************************************************************)
EXTENDS ManagerProofs

LEMMA RegisteredNums ==
  ASSUME TypeOK, NEW id \in Ids, forwards[id] # NoForward
  PROVE  forwards[id] \in Nums
BY DEF TypeOK

LEMMA ClaimedPort ==
  ASSUME NEW id \in Ids, forwards[id] # NoForward
  PROVE  fwd[forwards[id]].port \in Claimed
BY DEF Claimed

\* The ids and ports of what is registered stay.
LEMMA RegistryKept ==
  ASSUME SequentialInv, UNCHANGED <<forwards, history>>, Used \subseteq Used',
         \A i \in Nums : /\ fwd'[i].id = fwd[i].id /\ fwd'[i].port = fwd[i].port
                         /\ Created(i)' <=> Created(i)
                         /\ Live(i)' => Live(i)
  PROVE  /\ RegistryIsSound' /\ HistoryMatchesRegistry' /\ ClaimedPortsAreExclusive'
         /\ IdsAreUsed'
         /\ Claimed' = Claimed
<1>1. \A id \in Ids : forwards[id] # NoForward => forwards[id] \in Nums
  BY DEF SequentialInv, TypeOK
<1>2. RegistryIsSound'
  BY SoundFrame DEF SequentialInv
<1>3. HistoryMatchesRegistry'
  BY <1>1 DEF SequentialInv, HistoryMatchesRegistry
<1>4. ClaimedPortsAreExclusive'
  BY <1>1 DEF SequentialInv, ClaimedPortsAreExclusive
<1>5. IdsAreUsed'
  BY DEF SequentialInv, IdsAreUsed
<1>6. Claimed' = Claimed
  BY <1>1 DEF Claimed
<1>7. QED
  BY <1>2, <1>3, <1>4, <1>5, <1>6

LEMMA SameForwards ==
  ASSUME SequentialInv, UNCHANGED <<forwards, history, fwd>>, Used \subseteq Used'
  PROVE  /\ RegistryIsSound' /\ HistoryMatchesRegistry' /\ ClaimedPortsAreExclusive'
         /\ IdsAreUsed'
         /\ Claimed' = Claimed
<1>1. \A i \in Nums : /\ fwd'[i].id = fwd[i].id /\ fwd'[i].port = fwd[i].port
                      /\ Created(i)' <=> Created(i)
                      /\ Live(i)' => Live(i)
  BY DEF Created, Live
<1>2. QED
  BY <1>1, RegistryKept

\* The only caller stays out of a start, or stays in it.
LEMMA OwnedKept ==
  ASSUME SequentialInv, OneAtATime, NEW c \in Callers, UNCHANGED <<starts, fwd>>,
         pc'[c] \in Starting =>
           /\ pc[c] \in Starting /\ req'[c].num = req[c].num
           /\ pc'[c] = "launch" <=> pc[c] = "launch"
  PROVE  NumsAreOwned'
BY DEF SequentialInv, OneAtATime, NumsAreOwned, Created

\* The last part of the invariant is about the only caller.
LEMMA OnlyCaller ==
  ASSUME OneAtATime, NEW c \in Callers, StartInv(c)', RemovalInv(c)', StopAllInv(c)'
  PROVE  \A d \in Callers : StartInv(d)' /\ RemovalInv(d)' /\ StopAllInv(d)'
BY DEF OneAtATime

\* A request moves on, or ends, and has changed nothing.
LEMMA PassStays ==
  ASSUME SequentialInv, OneAtATime, TypeOK', NEW c \in Callers, NEW from, NEW to,
         Proceed(c, from, to) \/ (Reject(c, from) /\ to = "idle"),
         \/ to = "idle"
         \/ from = "check" /\ to = "listen" /\ req[c].port \notin Claimed
         \/ from = "listen" /\ to = "allocate"
         \/ /\ from = "allocate" /\ to = "remember"
            /\ req[c].id # NoId /\ forwards[req[c].id] = NoForward
         \/ from = "restartLookup" /\ to = "restartStop"
         \/ /\ <<from, to>> \in {<<"stopWait", "stopDelete">>, <<"restartWait", "restartDelete">>,
                                 <<"stopEachWait", "stopEach">>}
            /\ fwd[req[c].num].phase = "done"
  PROVE  SequentialInv'
<1>1. Goto(c, from, to) /\ UNCHANGED <<forwards, nextSeq, history, fwd, starts, toRestore, req>>
  BY DEF Proceed, Reject, Registry, Forwards
<1>2. pc[c] = from /\ pc'[c] = to
  BY <1>1, OneMoves DEF SequentialInv
<1>u. Used' = Used
  BY <1>1, UsedKept
<1>3. /\ RegistryIsSound' /\ HistoryMatchesRegistry' /\ ClaimedPortsAreExclusive'
      /\ IdsAreUsed'
      /\ Claimed' = Claimed
  BY <1>1, <1>u, SameForwards
<1>4. NumsAreOwned'
  BY <1>1, <1>2, OwnedKept DEF Starting
<1>5. StartInv(c)'
  <2>1. to = "remember" => req[c].id \in Used
    BY <1>2 DEF SequentialInv, StartInv
  <2>2. QED
    BY <1>1, <1>2, <1>3, <1>u, <2>1 DEF SequentialInv, StartInv
<1>6. RemovalInv(c)'
  BY <1>1, <1>2, <1>u DEF SequentialInv, RemovalInv, Restarts, Removing
<1>7. StopAllInv(c)'
  <2>1. CASE to = "stopEach"
    <3>1. StopAllInv(c) /\ from = "stopEachWait" /\ fwd[req[c].num].phase = "done"
      BY <1>2, <2>1 DEF SequentialInv
    <3>2. QED
      BY <1>1, <1>2, <2>1, <3>1 DEF StopAllInv
  <2>2. CASE to # "stopEach"
    BY <1>2, <2>2 DEF StopAllInv
  <2>3. QED
    BY <2>1, <2>2
<1>8. QED
  BY <1>1, <1>3, <1>4, <1>5, <1>6, <1>7, OnlyCaller DEF SequentialInv

\* A call of Start, by a client, by a restart or for a record.
LEMMA CallStartStays ==
  ASSUME SequentialInv, OneAtATime, TypeOK', NEW c \in Callers, NEW id \in {NoId} \cup Used',
         NEW port, NEW from, CallStart(c, id, port, from), Used \subseteq Used'
  PROVE  SequentialInv'
<1>1. /\ Goto(c, from, "check") /\ UNCHANGED <<forwards, history, fwd>>
      /\ starts < MaxStarts /\ starts' = starts + 1
  BY DEF CallStart, Registry, Forwards
<1>2. pc[c] = from /\ pc'[c] = "check"
  BY <1>1, OneMoves DEF SequentialInv
<1>3. req'[c].id = id /\ req'[c].num = starts + 1
  BY DEF CallStart, NoRequest, SequentialInv, TypeOK
<1>4. /\ RegistryIsSound' /\ HistoryMatchesRegistry' /\ ClaimedPortsAreExclusive'
      /\ IdsAreUsed'
  BY <1>1, SameForwards
<1>5. starts \in Nat /\ starts + 1 \in Nums /\ starts + 1 \in 1 .. starts'
  BY <1>1, ConstantFacts DEF SequentialInv, TypeOK, Nums
<1>6. NumsAreOwned'
  <2>1. fwd[starts + 1].phase = "none"
    BY <1>5 DEF SequentialInv, NumsAreOwned, Created
  <2>2. \A i \in Nums : Created(i)' => i <= starts'
    <3>1. SUFFICES ASSUME NEW i \in Nums, Created(i)' PROVE i <= starts'
      OBVIOUS
    <3>2. i <= starts /\ i \in Nat
      BY <1>1, <3>1 DEF SequentialInv, NumsAreOwned, Created, Nums
    <3>3. QED
      BY <1>1, <1>5, <3>2
  <2>3. QED
    BY <1>1, <1>2, <1>3, <1>5, <2>1, <2>2 DEF OneAtATime, NumsAreOwned
<1>7. StartInv(c)' /\ RemovalInv(c)' /\ StopAllInv(c)'
  BY <1>1, <1>2, <1>3 DEF StartInv, RemovalInv, StopAllInv, Restarts, Removing
<1>8. QED
  BY <1>4, <1>6, <1>7, OnlyCaller DEF SequentialInv

\* A stop, a restart or a StopAll begins.
LEMMA BeginStays ==
  ASSUME RecordsAreApart, SequentialInv, OneAtATime, TypeOK', NEW c \in Callers, Begin(c)
  PROVE  SequentialInv'
<1>t. TypeOK
  BY DEF SequentialInv
<1>1. CASE BeginStart(c)
  <2>1. PICK p \in Ports : CallStart(c, NoId, p, "idle")
    BY <1>1 DEF BeginStart
  <2>2. Used' = Used
    BY <1>1, <2>1, UsedKept DEF BeginStart, CallStart, Registry
  <2>3. QED
    BY <2>1, <2>2, CallStartStays
<1>2. CASE BeginRestore(c)
  <2>1. PICK id \in toRestore :
          CallStart(c, id, Restored[id], "idle") /\ toRestore' = toRestore \ {id}
    BY <1>2 DEF BeginRestore
  <2>2. Used \subseteq Used' /\ id \in Used'
    BY <1>t, <2>1, RecordIsNew DEF CallStart, Registry
  <2>3. QED
    BY <2>1, <2>2, CallStartStays
<1>3. CASE BeginStop(c) \/ BeginRestart(c) \/ BeginStopAll(c)
  <2>1. PICK to \in {"stopLookup", "restartLookup", "stopEach"} :
          /\ Goto(c, "idle", to)
          /\ to = "restartLookup" => BeginRestart(c)
          /\ to = "stopEach" => BeginStopAll(c)
    BY <1>3 DEF BeginStop, BeginRestart, BeginStopAll
  <2>2. UNCHANGED <<forwards, nextSeq, history, fwd, starts, toRestore>>
    BY <1>3 DEF BeginStop, BeginRestart, BeginStopAll, Registry, Forwards
  <2>u. Used' = Used
    BY <2>2, UsedKept
  <2>3. pc[c] = "idle" /\ pc'[c] = to
    BY <1>t, <2>1, OneMoves
  <2>4. RegistryIsSound' /\ HistoryMatchesRegistry' /\ ClaimedPortsAreExclusive' /\ IdsAreUsed'
    BY <2>2, <2>u, SameForwards
  <2>5. NumsAreOwned'
    BY <2>1, <2>2, <2>3, OwnedKept DEF Starting
  <2>6. StartInv(c)'
    BY <2>3 DEF StartInv
  <2>7. RemovalInv(c)'
    <3>1. CASE to = "restartLookup"
      <4>1. BeginRestart(c)
        BY <2>1, <3>1
      <4>2. PICK id \in Ids :
              /\ history[id] # NoId
              /\ req' = [req EXCEPT ![c] = [NoRequest EXCEPT !.id = id, !.port = history[id]]]
        BY <4>1 DEF BeginRestart
      <4>3. id \in Used
        BY <4>2 DEF SequentialInv, IdsAreUsed
      <4>4. req'[c].id = id
        BY <1>t, <4>2 DEF NoRequest, TypeOK
      <4>5. QED
        BY <2>2, <2>3, <2>u, <3>1, <4>3, <4>4 DEF RemovalInv, Removing
    <3>2. CASE to # "restartLookup"
      BY <2>3, <3>2 DEF RemovalInv, Restarts, Removing
    <3>3. QED
      BY <3>1, <3>2
  <2>8. StopAllInv(c)'
    <3>1. CASE to = "stopEach"
      <4>1. BeginStopAll(c)
        BY <2>1, <3>1
      <4>2. req'[c].todo = {forwards[id] : id \in Ids} \ {NoForward}
        BY <1>t, <4>1 DEF BeginStopAll, NoRequest, TypeOK
      <4>3. QED
        BY <2>2, <4>2 DEF StopAllInv
    <3>2. CASE to # "stopEach"
      BY <2>3, <3>2 DEF StopAllInv
    <3>3. QED
      BY <3>1, <3>2
  <2>9. QED
    BY <2>2, <2>4, <2>5, <2>6, <2>7, <2>8, OnlyCaller DEF SequentialInv
<1>4. QED
  BY <1>1, <1>2, <1>3 DEF Begin

-----------------------------------------------------------------------------
(* Start                                                                   *)

\* A generated id is none of those that are remembered or registered.
LEMMA GeneratedStays ==
  ASSUME RecordsAreApart, SequentialInv, OneAtATime, TypeOK', NEW c \in Callers, req[c].id = NoId, Allocate(c)
  PROVE  SequentialInv'
<1>1. /\ Goto(c, "allocate", "remember") /\ nextSeq' = nextSeq + 1
      /\ req' = [req EXCEPT ![c].id = nextSeq + 1] /\ nextSeq < MaxStarts
      /\ UNCHANGED <<forwards, history, fwd, starts, toRestore>>
  BY DEF Allocate, Forwards
<1>2. pc[c] = "allocate" /\ pc'[c] = "remember"
  BY <1>1, OneMoves DEF SequentialInv
<1>3. /\ Used \subseteq Used' /\ nextSeq + 1 \in Used' \ Used
      /\ nextSeq + 1 \in Ids
  <2>1. nextSeq + 1 \in Nums
    BY <1>1, ConstantFacts DEF SequentialInv, TypeOK, Nums
  <2>2. QED
    BY <1>1, <2>1, NextIsNew, ConstantFacts DEF SequentialInv
<1>4. req'[c].id = nextSeq + 1 /\ req'[c].num = req[c].num /\ req'[c].port = req[c].port
  BY <1>1 DEF SequentialInv, TypeOK, Request
<1>5. forwards[nextSeq + 1] = NoForward
  BY <1>3 DEF SequentialInv, IdsAreUsed
<1>6. RegistryIsSound' /\ HistoryMatchesRegistry' /\ ClaimedPortsAreExclusive' /\ Claimed' = Claimed
  BY <1>1 DEF SequentialInv, RegistryIsSound, EveryLiveForwardIsRegistered, Created, Live,
              HistoryMatchesRegistry, ClaimedPortsAreExclusive, Claimed
<1>7. IdsAreUsed'
  BY <1>1, <1>3 DEF SequentialInv, IdsAreUsed, Created
<1>8. NumsAreOwned'
  BY <1>1, <1>2, <1>4, OwnedKept DEF Starting
<1>9. StartInv(c)' /\ RemovalInv(c)' /\ StopAllInv(c)'
  BY <1>1, <1>2, <1>3, <1>4, <1>5, <1>6
     DEF SequentialInv, StartInv, RemovalInv, StopAllInv, Restarts, Removing
<1>10. QED
  BY <1>1, <1>6, <1>7, <1>8, <1>9, OnlyCaller DEF SequentialInv

LEMMA RememberStays ==
  ASSUME SequentialInv, OneAtATime, TypeOK', NEW c \in Callers, Remember(c)
  PROVE  SequentialInv'
<1>1. /\ Goto(c, "remember", "register")
      /\ history' = [history EXCEPT ![req[c].id] = req[c].port]
      /\ UNCHANGED <<forwards, nextSeq, fwd, starts, toRestore, req>>
  BY DEF Remember, Forwards
<1>2. pc[c] = "remember" /\ pc'[c] = "register"
  BY <1>1, OneMoves DEF SequentialInv
<1>3. /\ req[c].id \in Used /\ forwards[req[c].id] = NoForward /\ req[c].port \notin Claimed
      /\ Used' = Used
  BY <1>1, <1>2, UsedKept DEF SequentialInv, StartInv
<1>4. req[c].id \in Ids
  BY <1>3, UsedIds DEF SequentialInv
<1>5. history'[req[c].id] = req[c].port /\ \A id \in Ids \ {req[c].id} : history'[id] = history[id]
  BY <1>1, <1>4 DEF SequentialInv, TypeOK
<1>6. RegistryIsSound' /\ ClaimedPortsAreExclusive' /\ Claimed' = Claimed
  BY <1>1 DEF SequentialInv, RegistryIsSound, EveryLiveForwardIsRegistered, Created, Live,
              ClaimedPortsAreExclusive, Claimed
<1>7. HistoryMatchesRegistry'
  BY <1>1, <1>3, <1>5 DEF SequentialInv, HistoryMatchesRegistry
<1>8. IdsAreUsed'
  BY <1>1, <1>3, <1>5 DEF SequentialInv, IdsAreUsed, Created
<1>9. NumsAreOwned'
  BY <1>1, <1>2, OwnedKept DEF Starting
<1>10. StartInv(c)' /\ RemovalInv(c)' /\ StopAllInv(c)'
  BY <1>1, <1>2, <1>3, <1>5, <1>6
     DEF StartInv, RemovalInv, StopAllInv, Restarts, Removing
<1>11. QED
  BY <1>1, <1>6, <1>7, <1>8, <1>9, <1>10, OnlyCaller DEF SequentialInv

\* The slot is free and so is the port, the forward is not there yet.
LEMMA RegisterStays ==
  ASSUME SequentialInv, OneAtATime, TypeOK', NEW c \in Callers, Register(c)
  PROVE  SequentialInv'
<1> DEFINE n == req[c].num
           new == [id |-> req[c].id, port |-> req[c].port, phase |-> "new"]
<1>1. /\ Goto(c, "register", "launch")
      /\ forwards' = [forwards EXCEPT ![req[c].id] = n]
      /\ fwd' = [fwd EXCEPT ![n] = new]
      /\ UNCHANGED <<nextSeq, history, starts, toRestore, req>>
  BY DEF Register
<1>2. pc[c] = "register" /\ pc'[c] = "launch"
  BY <1>1, OneMoves DEF SequentialInv
<1>3. /\ req[c].id \in Used /\ forwards[req[c].id] = NoForward /\ req[c].port \notin Claimed
      /\ history[req[c].id] = req[c].port
      /\ Used' = Used
  BY <1>1, <1>2, UsedKept DEF SequentialInv, StartInv
<1>4. req[c].id \in Ids
  BY <1>3, UsedIds DEF SequentialInv
<1>5. n \in Nums /\ n \in 1 .. starts /\ fwd[n].phase = "none" /\ n # NoForward
  BY <1>2, OwnedNums, ConstantFacts DEF SequentialInv, NumsAreOwned, Starting
<1>6. /\ forwards'[req[c].id] = n
      /\ \A id \in Ids \ {req[c].id} : forwards'[id] = forwards[id]
      /\ fwd'[n] = new
      /\ \A i \in Nums \ {n} : fwd'[i] = fwd[i]
  BY <1>1, <1>4, <1>5 DEF SequentialInv, TypeOK
<1>7. \A id \in Ids : forwards[id] # NoForward =>
        forwards[id] \in Nums \ {n} /\ fwd[forwards[id]].port # req[c].port
  BY <1>3, <1>5, RegisteredNums, ClaimedPort DEF SequentialInv, RegistryIsSound, Created
<1> HIDE DEF n
<1>8. RegistryIsSound'
  <2>1. \A id \in Ids : forwards'[id] # NoForward =>
          Created(forwards[id])' /\ fwd'[forwards'[id]].id = id
    BY <1>6, <1>7 DEF SequentialInv, RegistryIsSound, Created
  <2>2. \A i \in Nums : Live(i)' => forwards'[fwd'[i].id] = i
    <3>1. SUFFICES ASSUME NEW i \in Nums \ {n}, Live(i)' PROVE forwards'[fwd'[i].id] = i
      BY <1>6
    <3>2. Live(i) /\ fwd'[i] = fwd[i] /\ Created(i)
      BY <1>6, <3>1 DEF Live, Created
    <3>3. forwards[fwd[i].id] = i
      BY <3>2 DEF SequentialInv, RegistryIsSound, EveryLiveForwardIsRegistered
    <3>4. fwd[i].id \in Ids
      <4>1. fwd[i].id \in Used
        BY <3>2 DEF SequentialInv, IdsAreUsed
      <4>2. QED
        BY <4>1, UsedIds DEF SequentialInv
    <3>5. QED
      BY <1>3, <1>6, <3>2, <3>3, <3>4, ConstantFacts
  <2>3. QED
    BY <2>1, <2>2 DEF RegistryIsSound, EveryLiveForwardIsRegistered
<1>9. HistoryMatchesRegistry'
  BY <1>1, <1>3, <1>6, <1>7 DEF SequentialInv, HistoryMatchesRegistry
<1>10. ClaimedPortsAreExclusive'
  BY <1>6, <1>7 DEF SequentialInv, ClaimedPortsAreExclusive
<1>11. IdsAreUsed'
  BY <1>1, <1>3, <1>6 DEF SequentialInv, IdsAreUsed, Created
<1>12. NumsAreOwned'
  <2>1. \A i \in Nums : Created(i)' => i <= starts
    BY <1>5, <1>6 DEF SequentialInv, NumsAreOwned, Created
  <2>2. req'[c].num = n /\ fwd'[n].phase = "new"
    BY <1>1, <1>6 DEF n
  <2>3. QED
    BY <1>1, <1>2, <1>5, <2>1, <2>2 DEF OneAtATime, NumsAreOwned
<1>13. StartInv(c)' /\ RemovalInv(c)' /\ StopAllInv(c)'
  BY <1>2 DEF StartInv, RemovalInv, StopAllInv, Restarts, Removing
<1>14. QED
  BY <1>1, <1>8, <1>9, <1>10, <1>11, <1>12, <1>13, OnlyCaller DEF SequentialInv

\* A forward runs, binds, unbinds or ends: its id and port are the same.
LEMMA PhaseStays ==
  ASSUME SequentialInv, OneAtATime, TypeOK', NEW i \in Nums,
         NEW to \in {"running", "bound", "done"},
         fwd' = [fwd EXCEPT ![i].phase = to],
         UNCHANGED <<forwards, nextSeq, history, starts, toRestore, req>>,
         \/ UNCHANGED pc /\ fwd[i].phase \in {"running", "bound"}
         \/ \E c \in Callers : Goto(c, "launch", "poll") /\ i = req[c].num
  PROVE  SequentialInv'
<1>1. /\ fwd'[i].phase = to
      /\ \A j \in Nums : fwd'[j].id = fwd[j].id /\ fwd'[j].port = fwd[j].port
      /\ \A j \in Nums \ {i} : fwd'[j] = fwd[j]
  BY DEF SequentialInv, TypeOK
<1>2. /\ fwd[i].phase \in {"new", "running", "bound"}
      /\ \A c \in Callers : pc'[c] \in Starting => req[c].num # i
      /\ \A c \in Callers : pc'[c] = pc[c] \/ pc'[c] = "poll"
  <2>1. CASE UNCHANGED pc /\ fwd[i].phase \in {"running", "bound"}
    BY <2>1 DEF SequentialInv, NumsAreOwned
  <2>2. CASE \E c \in Callers : Goto(c, "launch", "poll") /\ i = req[c].num
    <3>1. PICK c \in Callers : Goto(c, "launch", "poll") /\ i = req[c].num
      BY <2>2
    <3>2. pc[c] = "launch" /\ pc'[c] = "poll"
      BY <3>1, OneMoves DEF SequentialInv
    <3>3. QED
      BY <3>1, <3>2 DEF SequentialInv, OneAtATime, NumsAreOwned, Starting
  <2>3. QED
    BY <2>1, <2>2
<1>3. \A j \in Nums : /\ Created(j)' <=> Created(j)
                      /\ Live(j)' => Live(j)
                      /\ fwd[j].phase = "done" => fwd'[j].phase = "done"
  BY <1>1, <1>2 DEF Created, Live
<1>4. /\ RegistryIsSound' /\ HistoryMatchesRegistry' /\ ClaimedPortsAreExclusive'
      /\ IdsAreUsed'
      /\ Claimed' = Claimed
  <2>1. \A j \in Nums : /\ fwd'[j].id = fwd[j].id /\ fwd'[j].port = fwd[j].port
                        /\ Created(j)' <=> Created(j)
                        /\ Live(j)' => Live(j)
    BY <1>1, <1>3
  <2>2. UNCHANGED <<forwards, history>> /\ Used' = Used
    BY UsedKept
  <2>3. QED
    BY <2>1, <2>2, RegistryKept
<1>5. NumsAreOwned'
  <2>1. \A j \in Nums : Created(j)' => j <= starts
    BY <1>3 DEF SequentialInv, NumsAreOwned, Created
  <2>2. \A c \in Callers : pc'[c] \in Starting =>
          /\ pc'[c] = pc[c] /\ req[c].num \in 1 .. starts
          /\ fwd'[req[c].num] = fwd[req[c].num]
    BY <1>1, <1>2, OwnedNums DEF SequentialInv, NumsAreOwned, Starting
  <2>3. \A c \in Callers : pc'[c] \in Starting =>
          /\ req'[c].num \in 1 .. starts'
          /\ fwd'[req'[c].num].phase = IF pc'[c] = "launch" THEN "new" ELSE "none"
    <3>1. SUFFICES ASSUME NEW c \in Callers, pc'[c] \in Starting
                   PROVE  /\ req'[c].num \in 1 .. starts'
                          /\ fwd'[req'[c].num].phase = IF pc'[c] = "launch" THEN "new" ELSE "none"
      OBVIOUS
    <3>2. req'[c] = req[c] /\ starts' = starts /\ pc[c] \in Starting
      BY <2>2, <3>1
    <3>3. fwd[req[c].num].phase = IF pc[c] = "launch" THEN "new" ELSE "none"
      BY <3>2 DEF SequentialInv, NumsAreOwned
    <3>4. QED
      BY <2>2, <3>1, <3>2, <3>3
  <2>4. QED
    BY <2>1, <2>3 DEF OneAtATime, NumsAreOwned
<1>6. \A c \in Callers : StartInv(c)'
  BY <1>2, <1>4, UsedKept DEF SequentialInv, StartInv
<1>7. \A c \in Callers : RemovalInv(c)'
  BY <1>2, <1>3, UsedKept DEF SequentialInv, RemovalInv, Restarts, Removing
<1>8. \A c \in Callers : StopAllInv(c)'
  <2>1. \A id \in Ids : forwards[id] # NoForward => forwards[id] \in Nums
    BY DEF SequentialInv, TypeOK
  <2>2. QED
    BY <1>2, <1>3, <2>1 DEF SequentialInv, StopAllInv
<1>9. QED
  BY <1>4, <1>5, <1>6, <1>7, <1>8 DEF SequentialInv

LEMMA StartStays ==
  ASSUME RecordsAreApart, SequentialInv, OneAtATime, TypeOK', NEW c \in Callers, Start(c)
  PROVE  SequentialInv'
<1>1. CASE CheckClaimed(c)
  BY <1>1, PassStays DEF CheckClaimed
<1>2. CASE TryListenAndResolve(c)
  BY <1>2, PassStays DEF TryListenAndResolve
<1>3. CASE Allocate(c)
  <2>1. CASE req[c].id = NoId
    BY <1>3, <2>1, GeneratedStays
  <2>2. CASE req[c].id # NoId
    <3>1. \/ Reject(c, "allocate")
          \/ forwards[req[c].id] = NoForward /\ Proceed(c, "allocate", "remember")
      BY <1>3, <2>2 DEF Allocate
    <3>2. QED
      BY <2>2, <3>1, PassStays
  <2>3. QED
    BY <2>1, <2>2
<1>4. CASE Launch(c)
  <2>1. pc[c] = "launch"
    BY <1>4 DEF Launch, Goto
  <2>2. req[c].num \in Nums
    BY <2>1, OwnedNums DEF SequentialInv, Starting
  <2>3. QED
    BY <1>4, <2>2, PhaseStays DEF Launch, Registry
<1>5. CASE Poll(c)
  BY <1>5, PassStays DEF Poll
<1>6. QED
  BY <1>1, <1>2, <1>3, <1>4, <1>5, RememberStays, RegisterStays DEF Start

-----------------------------------------------------------------------------
(* Stop, restart and StopAll                                               *)

LEMMA LookupStays ==
  ASSUME SequentialInv, OneAtATime, TypeOK', NEW c \in Callers, NEW from, NEW to, NEW missing,
         <<from, to, missing>> \in {<<"stopLookup", "stopWait", "idle">>,
                                   <<"restartLookup", "restartWait", "restartStop">>},
         Lookup(c, from, to, missing)
  PROVE  SequentialInv'
<1> DEFINE i == forwards[req[c].id]
<1>1. CASE i = NoForward /\ Proceed(c, from, missing)
  BY <1>1, PassStays
<1>2. CASE /\ i # NoForward /\ Goto(c, from, to)
           /\ req' = [req EXCEPT ![c].num = i]
           /\ UNCHANGED <<Registry, fwd, starts, toRestore>>
  <2>1. UNCHANGED <<forwards, nextSeq, history, fwd, starts, toRestore>>
    BY <1>2 DEF Registry
  <2>2. pc[c] = from /\ pc'[c] = to
    BY <1>2, OneMoves DEF SequentialInv
  <2>3. req'[c].id = req[c].id /\ req'[c].num = i
    BY <1>2 DEF SequentialInv, TypeOK, Request
  <2>4. req[c].id \in Ids
    BY <2>2 DEF SequentialInv, TypeOK, Request, LookupPcs
  <2>5. i \in Nums
    BY <1>2, <2>4, RegisteredNums DEF SequentialInv
  <2> HIDE DEF i
  <2>u. Used' = Used
    BY <2>1, UsedKept
  <2>6. RegistryIsSound' /\ HistoryMatchesRegistry' /\ ClaimedPortsAreExclusive' /\ IdsAreUsed'
    BY <2>1, <2>u, SameForwards
  <2>7. NumsAreOwned'
    BY <2>1, <2>2, OwnedKept DEF Starting
  <2>8. StartInv(c)' /\ StopAllInv(c)'
    BY <2>2 DEF StartInv, StopAllInv
  <2>9. RemovalInv(c)'
    <3>1. from = "restartLookup" => req[c].id \in Used
      BY <2>2 DEF SequentialInv, RemovalInv, Restarts
    <3>2. forwards'[req'[c].id] = i
      BY <2>1, <2>3 DEF i
    <3>3. QED
      BY <2>1, <2>2, <2>3, <2>5, <2>u, <3>1, <3>2 DEF RemovalInv, Restarts, Removing
  <2>10. QED
    BY <2>1, <2>6, <2>7, <2>8, <2>9, OnlyCaller DEF SequentialInv
<1>3. QED
  BY <1>1, <1>2 DEF Lookup

LEMMA AwaitStays ==
  ASSUME SequentialInv, OneAtATime, TypeOK', NEW c \in Callers, NEW from, NEW to,
         <<from, to>> \in {<<"stopWait", "stopDelete">>, <<"restartWait", "restartDelete">>,
                          <<"stopEachWait", "stopEach">>},
         AwaitDone(c, from, to)
  PROVE  SequentialInv'
BY PassStays DEF AwaitDone

\* Only ended forwards leave the registry.
LEMMA RemoveStays ==
  ASSUME SequentialInv, OneAtATime, TypeOK', NEW c \in Callers, NEW from,
         NEW to \in {"idle", "restartStop"}, Goto(c, from, to),
         to = "restartStop" => from = "restartDelete",
         UNCHANGED <<nextSeq, history, fwd, starts, toRestore, req>>,
         \A id \in Ids : \/ forwards'[id] = forwards[id]
                         \/ /\ forwards'[id] = NoForward
                            /\ forwards[id] # NoForward => fwd[forwards[id]].phase = "done"
  PROVE  SequentialInv'
<1>1. pc[c] = from /\ pc'[c] = to
  BY OneMoves DEF SequentialInv
<1>2. \A i \in Nums : Created(i)' = Created(i) /\ Live(i)' = Live(i) /\ (Live(i) => Created(i))
  BY DEF Created, Live
<1>3. \A id \in Ids : forwards[id] # NoForward => forwards[id] \in Nums
  BY DEF SequentialInv, TypeOK
<1>4. RegistryIsSound'
  <2>1. \A id \in Ids : forwards'[id] # NoForward =>
          Created(forwards[id])' /\ fwd'[forwards'[id]].id = id
    BY DEF SequentialInv, RegistryIsSound, Created
  <2>2. ASSUME NEW i \in Nums, Live(i)' PROVE forwards'[fwd'[i].id] = i
    <3>1. Live(i) /\ Created(i) /\ forwards[fwd[i].id] = i
      BY <1>2, <2>2 DEF SequentialInv, RegistryIsSound, EveryLiveForwardIsRegistered
    <3>2. fwd[i].id \in Ids
      <4>1. fwd[i].id \in Used
        BY <3>1 DEF SequentialInv, IdsAreUsed
      <4>2. QED
        BY <4>1, UsedIds DEF SequentialInv
    <3>3. fwd[i].phase # "done" /\ i # NoForward
      BY <3>1, ConstantFacts DEF Live
    <3>4. QED
      BY <3>1, <3>2, <3>3
  <2>3. \A id \in Ids : forwards'[id] # NoForward => forwards'[id] = forwards[id]
    OBVIOUS
  <2>4. QED
    BY <2>1, <2>2, <2>3 DEF RegistryIsSound, EveryLiveForwardIsRegistered, Created
<1>u. Used' = Used
  BY UsedKept
<1>5. HistoryMatchesRegistry' /\ ClaimedPortsAreExclusive' /\ IdsAreUsed'
  BY <1>2, <1>u DEF SequentialInv, HistoryMatchesRegistry, ClaimedPortsAreExclusive, IdsAreUsed, Created
<1>6. NumsAreOwned'
  BY <1>1, OwnedKept DEF Starting
<1>7. StartInv(c)' /\ StopAllInv(c)'
  BY <1>1 DEF StartInv, StopAllInv
<1>8. RemovalInv(c)'
  <2>1. to = "restartStop" => req[c].id \in Used
    BY <1>1 DEF SequentialInv, RemovalInv, Restarts
  <2>2. QED
    BY <1>1, <1>u, <2>1 DEF RemovalInv, Restarts, Removing
<1>9. QED
  BY <1>4, <1>5, <1>6, <1>7, <1>8, OnlyCaller DEF SequentialInv

\* What a stop or a restart deletes is the forward it waited for.
LEMMA DeleteFacts ==
  ASSUME SequentialInv, NEW c \in Callers, NEW from \in {"stopDelete", "restartDelete"}, NEW to,
         Delete(c, from, to)
  PROVE  \A id \in Ids : \/ forwards'[id] = forwards[id]
                         \/ /\ forwards'[id] = NoForward
                            /\ forwards[id] # NoForward => fwd[forwards[id]].phase = "done"
<1>1. pc[c] = from /\ forwards' = [forwards EXCEPT ![req[c].id] = NoForward]
  BY DEF Delete, Goto
<1>2. fwd[forwards[req[c].id]].phase = "done"
  BY <1>1 DEF SequentialInv, RemovalInv, Removing
<1>3. QED
  BY <1>1, <1>2 DEF SequentialInv, TypeOK

\* What StopAll takes out it has waited for.
LEMMA WipeFacts ==
  ASSUME SequentialInv, NEW c \in Callers, Wipe(c)
  PROVE  \A id \in Ids : \/ forwards'[id] = forwards[id]
                         \/ /\ forwards'[id] = NoForward
                            /\ forwards[id] # NoForward => fwd[forwards[id]].phase = "done"
BY DEF SequentialInv, StopAllInv, Wipe, Goto

LEMMA StopEachStays ==
  ASSUME SequentialInv, OneAtATime, TypeOK', NEW c \in Callers, StopEach(c)
  PROVE  SequentialInv'
<1>1. PICK i \in req[c].todo :
        /\ Goto(c, "stopEach", "stopEachWait")
        /\ req' = [req EXCEPT ![c].num = i, ![c].todo = @ \ {i}]
        /\ UNCHANGED <<Registry, fwd, starts, toRestore>>
  BY DEF StopEach
<1>2. UNCHANGED <<forwards, nextSeq, history, fwd, starts, toRestore>>
  BY <1>1 DEF Registry
<1>3. pc[c] = "stopEach" /\ pc'[c] = "stopEachWait"
  BY <1>1, OneMoves DEF SequentialInv
<1>4. req'[c].num = i /\ req'[c].todo = req[c].todo \ {i}
  <2>1. req[c] \in Request
    BY DEF SequentialInv, TypeOK
  <2>2. req'[c] = [req[c] EXCEPT !.num = i, !.todo = req[c].todo \ {i}]
    BY <1>1 DEF SequentialInv, TypeOK
  <2>3. QED
    BY <2>1, <2>2 DEF Request
<1>5. RegistryIsSound' /\ HistoryMatchesRegistry' /\ ClaimedPortsAreExclusive' /\ IdsAreUsed'
  BY <1>2, UsedKept, SameForwards
<1>6. NumsAreOwned'
  BY <1>2, <1>3, OwnedKept DEF Starting
<1>7. StartInv(c)' /\ RemovalInv(c)'
  BY <1>3 DEF StartInv, RemovalInv, Restarts, Removing
<1>8. StopAllInv(c)'
  BY <1>2, <1>3, <1>4 DEF SequentialInv, StopAllInv
<1>9. QED
  BY <1>2, <1>5, <1>6, <1>7, <1>8, OnlyCaller DEF SequentialInv

LEMMA StopStays ==
  ASSUME SequentialInv, OneAtATime, TypeOK', NEW c \in Callers, Stop(c) \/ Restart(c) \/ StopAll(c)
  PROVE  SequentialInv'
<1>1. CASE Lookup(c, "stopLookup", "stopWait", "idle")
  BY <1>1, LookupStays
<1>2. CASE Lookup(c, "restartLookup", "restartWait", "restartStop")
  BY <1>2, LookupStays
<1>3. CASE \/ AwaitDone(c, "stopWait", "stopDelete")
           \/ AwaitDone(c, "restartWait", "restartDelete")
           \/ AwaitDone(c, "stopEachWait", "stopEach")
  BY <1>3, AwaitStays
<1>4. CASE Delete(c, "stopDelete", "idle")
  <2>1. Goto(c, "stopDelete", "idle") /\ UNCHANGED <<nextSeq, history, fwd, starts, toRestore, req>>
    BY <1>4 DEF Delete, Forwards
  <2>2. QED
    BY <1>4, <2>1, DeleteFacts, RemoveStays
<1>5. CASE Delete(c, "restartDelete", "restartStop")
  <2>1. /\ Goto(c, "restartDelete", "restartStop")
        /\ UNCHANGED <<nextSeq, history, fwd, starts, toRestore, req>>
    BY <1>5 DEF Delete, Forwards
  <2>2. QED
    BY <1>5, <2>1, DeleteFacts, RemoveStays
<1>6. CASE CallStart(c, req[c].id, req[c].port, "restartStop") /\ UNCHANGED toRestore
  <2>1. pc[c] = "restartStop"
    BY <1>6 DEF CallStart, Goto
  <2>2. req[c].id \in Used
    BY <2>1 DEF SequentialInv, RemovalInv, Restarts
  <2>3. Used' = Used
    BY <1>6, UsedKept DEF CallStart, Registry
  <2>4. QED
    BY <1>6, <2>2, <2>3, CallStartStays
<1>7. CASE Wipe(c)
  <2>1. /\ Goto(c, "stopEach", "idle")
        /\ UNCHANGED <<nextSeq, history, fwd, starts, toRestore, req>>
    BY <1>7 DEF Wipe, Forwards
  <2>2. QED
    BY <1>7, <2>1, WipeFacts, RemoveStays
<1>8. QED
  BY <1>1, <1>2, <1>3, <1>4, <1>5, <1>6, <1>7, StopEachStays DEF Stop, Restart, StopAll

-----------------------------------------------------------------------------
(* The theorems                                                            *)

LEMMA SequentialNext ==
  ASSUME OneAtATime, RecordsAreApart, SequentialInv, [Next]_vars
  PROVE  SequentialInv'
<1>1. TypeOK'
  BY NextType DEF SequentialInv
<1>2. ASSUME NEW i \in Nums, Bind(i) \/ Unbind(i) \/ Finish(i) PROVE SequentialInv'
  <2>1. PICK from \in {"running", "bound"}, to \in {"running", "bound", "done"} : Move(i, from, to)
    BY <1>2 DEF Bind, Unbind, Finish
  <2>2. QED
    BY <1>1, <2>1, PhaseStays DEF Move, Registry
<1>3. CASE UNCHANGED vars
  <2>1. UNCHANGED <<forwards, nextSeq, history, fwd, starts, toRestore, pc, req>>
    BY <1>3 DEF vars
  <2>2. RegistryIsSound' /\ HistoryMatchesRegistry' /\ ClaimedPortsAreExclusive' /\ IdsAreUsed'
        /\ Claimed' = Claimed
    BY <2>1, UsedKept, SameForwards
  <2>3. NumsAreOwned'
    BY <2>1 DEF SequentialInv, NumsAreOwned, Created
  <2>4. \A c \in Callers : StartInv(c)' /\ RemovalInv(c)' /\ StopAllInv(c)'
    BY <2>1, <2>2, UsedKept DEF SequentialInv, StartInv, RemovalInv, StopAllInv
  <2>5. QED
    BY <1>1, <2>1, <2>2, <2>3, <2>4 DEF SequentialInv
<1>4. QED
  BY <1>1, <1>2, <1>3, BeginStays, StartStays, StopStays DEF Next, Serve

\* Requests come one at a time, and no start generates the id of a record: the
\* invariant that explains the registry holds through every start, restored
\* record, stop, restart and StopAll, and whatever the forwards do themselves.
THEOREM OneAtATimeIsSafe ==
  ASSUME OneAtATime, RecordsAreApart
  PROVE  Spec => []SequentialInv
<1>1. Init => SequentialInv
  <2> SUFFICES ASSUME Init PROVE SequentialInv
    OBVIOUS
  <2>1. TypeOK
    BY InitType
  <2>2. \A i \in Nums : ~Created(i) /\ ~Live(i)
    BY DEF Init, Created, Live
  <2>3. /\ RegistryIsSound /\ HistoryMatchesRegistry /\ ClaimedPortsAreExclusive
        /\ IdsAreUsed
    BY <2>2 DEF Init, RegistryIsSound, EveryLiveForwardIsRegistered, HistoryMatchesRegistry,
       ClaimedPortsAreExclusive, IdsAreUsed
  <2>4. NumsAreOwned
    BY <2>2 DEF Init, NumsAreOwned, Starting
  <2>5. \A c \in Callers : StartInv(c) /\ RemovalInv(c) /\ StopAllInv(c)
    BY DEF Init, StartInv, RemovalInv, StopAllInv, Restarts, Removing
  <2>6. QED
    BY <2>1, <2>3, <2>4, <2>5 DEF Init, SequentialInv
<1>2. SequentialInv /\ [Next]_vars => SequentialInv'
  BY SequentialNext
<1>3. QED
  BY <1>1, <1>2, PTL DEF Spec

\* Two registered forwards never claim one port (checkLocalPortsFree), also
\* when one of them was restarted.
THEOREM PortsAreExclusive ==
  ASSUME OneAtATime, RecordsAreApart
  PROVE  Spec => []ClaimedPortsAreExclusive
<1>1. SequentialInv => ClaimedPortsAreExclusive
  BY DEF SequentialInv
<1>2. QED
  BY <1>1, OneAtATimeIsSafe, PTL

\* A restart repeats what runs: the spec remembered under an id is that of the
\* forward registered there (Manager.Start, Manager.Spec).
THEOREM HistoryIsRight ==
  ASSUME OneAtATime, RecordsAreApart
  PROVE  Spec => []HistoryMatchesRegistry
<1>1. SequentialInv => HistoryMatchesRegistry
  BY DEF SequentialInv
<1>2. QED
  BY <1>1, OneAtATimeIsSafe, PTL

\* A forward that has not ended is registered under its id, through restarts
\* and StopAll.
THEOREM LiveAreRegistered ==
  ASSUME OneAtATime, RecordsAreApart
  PROVE  Spec => []EveryLiveForwardIsRegistered
<1>1. SequentialInv => EveryLiveForwardIsRegistered
  BY DEF SequentialInv, RegistryIsSound
<1>2. QED
  BY <1>1, OneAtATimeIsSafe, PTL

\* Two forwards that have not ended never share an id, also when one of them
\* was restarted: the forward it replaces has ended (handleForwardRestart).
THEOREM IdsStayUnique ==
  ASSUME OneAtATime, RecordsAreApart
  PROVE  Spec => []IdsAreUnique
<1>1. SequentialInv => IdsAreUnique
  BY DEF SequentialInv, RegistryIsSound, EveryLiveForwardIsRegistered, IdsAreUnique
<1>2. QED
  BY <1>1, OneAtATimeIsSafe, PTL

\* What Stop, a restart or StopAll takes out of the registry has ended: each
\* waits for doneCh first.
THEOREM OnlyTheDoneLeave ==
  ASSUME OneAtATime, RecordsAreApart
  PROVE  Spec => OnlyEndedForwardsLeave
<1> DEFINE Leaves ==
      \A id \in Ids :
        forwards[id] # NoForward /\ forwards'[id] # forwards[id] => ~Live(forwards[id])
<1>1. SequentialInv /\ [Next]_vars => [Leaves]_forwards
  <2> SUFFICES ASSUME SequentialInv, [Next]_vars, NEW id \in Ids,
                      forwards[id] # NoForward, forwards'[id] # forwards[id]
               PROVE  ~Live(forwards[id])
    OBVIOUS
  <2>1. ASSUME NEW c \in Callers, Register(c) PROVE FALSE
    <3>1. forwards' = [forwards EXCEPT ![req[c].id] = req[c].num] /\ pc[c] = "register"
      BY <2>1 DEF Register, Goto
    <3>2. forwards[req[c].id] = NoForward
      BY <3>1 DEF SequentialInv, StartInv
    <3>3. QED
      BY <3>1, <3>2 DEF SequentialInv, TypeOK
  <2>2. ASSUME NEW c \in Callers,
               \/ Delete(c, "stopDelete", "idle")
               \/ Delete(c, "restartDelete", "restartStop")
               \/ Wipe(c)
        PROVE  fwd[forwards[id]].phase = "done"
    BY <2>2, DeleteFacts, WipeFacts
  <2>3. ASSUME NEW c \in Callers, Begin(c) PROVE FALSE
    BY <2>3 DEF Begin, BeginStart, BeginRestore, BeginStop, BeginRestart, BeginStopAll,
                CallStart, Registry
  <2>4. ASSUME NEW c \in Callers, Start(c) PROVE FALSE
    BY <2>1, <2>4 DEF Start, CheckClaimed, TryListenAndResolve, Allocate, Remember, Launch,
                      Poll, Proceed, Reject, Registry
  <2>5. ASSUME NEW c \in Callers, Stop(c) \/ Restart(c) \/ StopAll(c)
        PROVE  fwd[forwards[id]].phase = "done"
    BY <2>2, <2>5 DEF Stop, Restart, StopAll, StopEach, Lookup, AwaitDone, CallStart, Proceed,
                      Registry
  <2>6. ASSUME NEW i \in Nums, Bind(i) \/ Unbind(i) \/ Finish(i) PROVE FALSE
    BY <2>6 DEF Bind, Unbind, Finish, Move, Registry
  <2>7. fwd[forwards[id]].phase = "done"
    BY <2>3, <2>4, <2>5, <2>6 DEF Next, Serve, vars
  <2>8. QED
    BY <2>7 DEF Live
<1>2. QED
  BY <1>1, OneAtATimeIsSafe, PTL DEF Spec, OnlyEndedForwardsLeave
=============================================================================
