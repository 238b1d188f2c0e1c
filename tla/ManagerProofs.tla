---------------------------- MODULE ManagerProofs ----------------------------
(***************************************************************************)
(* Theorems about Manager: types for every mix of requests, and the        *)
(* soundness of the registry when clients only start and stop.             *)
(***************************************************************************)
EXTENDS Manager, TLAPS

-----------------------------------------------------------------------------
(* Types                                                                   *)

LEMMA ConstantFacts ==
  /\ Nums \subseteq Ids
  /\ NoForward \notin Nums /\ NoId \notin Ids /\ NoId \notin Ports
  /\ MaxStarts \in Nat
  /\ NoRequest \in Request
BY ManagerAssumption DEF Nums, Ids, NoForward, NoId, NoRequest, Request

\* What the bodies shared by several actions do to the types.
LEMMA GotoType ==
  ASSUME TypeOK, NEW c \in Callers, NEW from, NEW to \in Locations, Goto(c, from, to)
  PROVE  pc' \in [Callers -> Locations]
BY DEF TypeOK, Goto

LEMMA RequestType ==
  ASSUME TypeOK, NEW c \in Callers, NEW r \in Request, req' = [req EXCEPT ![c] = r]
  PROVE  req' \in [Callers -> Request] /\ req'[c] = r
BY DEF TypeOK

\* A lookup has an id: only the caller that moved can disturb that.
LEMMA LookupsKept ==
  ASSUME TypeOK, NEW c \in Callers, NEW from, NEW to, Goto(c, from, to),
         \A d \in Callers \ {c} : req'[d] = req[d],
         to \in LookupPcs => req'[c].id # NoId
  PROVE  \A d \in Callers : pc'[d] \in LookupPcs => req'[d].id # NoId
BY DEF TypeOK, Goto

LEMMA OthersKeepRequests ==
  ASSUME TypeOK, NEW c \in Callers, NEW r, req' = [req EXCEPT ![c] = r]
  PROVE  \A d \in Callers \ {c} : req'[d] = req[d]
BY DEF TypeOK

LEMMA PassType ==
  ASSUME TypeOK, NEW c \in Callers, NEW from, NEW to \in Locations \ LookupPcs,
         Proceed(c, from, to) \/ Reject(c, from)
  PROVE  TypeOK'
<1>1. "idle" \in Locations \ LookupPcs
  BY DEF Locations, LookupPcs
<1>2. pc' \in [Callers -> Locations]
  BY <1>1, GotoType DEF Proceed, Reject
<1>3. \A d \in Callers : pc'[d] \in LookupPcs => req'[d].id # NoId
  BY <1>1, LookupsKept DEF Proceed, Reject
<1>4. QED
  BY <1>2, <1>3 DEF TypeOK, Proceed, Reject, Registry, Forwards

LEMMA CallStartType ==
  ASSUME TypeOK, NEW c \in Callers, NEW id \in Ids \cup {NoId},
         NEW port \in Ports \cup {NoId}, NEW from, CallStart(c, id, port, from),
         toRestore' \subseteq DOMAIN Restored
  PROVE  TypeOK'
<1>1. starts' \in Nums /\ starts' \in 0 .. MaxStarts
  BY ConstantFacts DEF CallStart, TypeOK, Nums
<1>2. pc' \in [Callers -> Locations]
  BY GotoType DEF CallStart, Locations
<1>3. req' \in [Callers -> Request]
  <2>1. [NoRequest EXCEPT !.id = id, !.port = port, !.num = starts + 1] \in Request
    BY <1>1, ConstantFacts DEF CallStart, Request, NoRequest
  <2>2. QED
    BY <2>1, RequestType DEF CallStart
<1>4. \A d \in Callers : pc'[d] \in LookupPcs => req'[d].id # NoId
  BY LookupsKept, OthersKeepRequests DEF CallStart, LookupPcs
<1>5. QED
  BY <1>1, <1>2, <1>3, <1>4 DEF CallStart, TypeOK, Registry, Forwards

LEMMA BeginType == ASSUME TypeOK, NEW c \in Callers, Begin(c) PROVE TypeOK'
<1>1. CASE BeginStart(c)
  <2>1. PICK p \in Ports : CallStart(c, NoId, p, "idle")
    BY <1>1 DEF BeginStart
  <2>2. QED
    BY <1>1, <2>1, CallStartType DEF BeginStart, TypeOK
<1>2. CASE BeginRestore(c)
  <2>1. PICK id \in toRestore :
          CallStart(c, id, Restored[id], "idle") /\ toRestore' = toRestore \ {id}
    BY <1>2 DEF BeginRestore
  <2>2. id \in Ids /\ Restored[id] \in Ports
    BY ManagerAssumption DEF TypeOK, Ids
  <2>3. QED
    BY <2>1, <2>2, CallStartType DEF TypeOK
<1>3. CASE BeginStop(c)
  <2>1. PICK id \in Ids : req' = [req EXCEPT ![c] = [NoRequest EXCEPT !.id = id]]
    BY <1>3 DEF BeginStop
  <2>2. [NoRequest EXCEPT !.id = id] \in Request
    BY ConstantFacts DEF Request, NoRequest
  <2>3. req' \in [Callers -> Request]
    BY <2>1, <2>2, RequestType
  <2>4. pc' \in [Callers -> Locations]
    BY <1>3, GotoType DEF BeginStop, Locations
  <2>5. \A d \in Callers : pc'[d] \in LookupPcs => req'[d].id # NoId
    <3>1. req'[c].id = id /\ id # NoId
      BY <2>1, <2>2, RequestType, ConstantFacts DEF NoRequest
    <3>2. QED
      BY <1>3, <2>1, <3>1, LookupsKept, OthersKeepRequests DEF BeginStop
  <2>6. QED
    BY <1>3, <2>3, <2>4, <2>5 DEF BeginStop, TypeOK, Registry, Forwards
<1>4. CASE BeginRestart(c)
  <2>1. PICK id \in Ids :
          req' = [req EXCEPT ![c] = [NoRequest EXCEPT !.id = id, !.port = history[id]]]
    BY <1>4 DEF BeginRestart
  <2>2. [NoRequest EXCEPT !.id = id, !.port = history[id]] \in Request
    BY ConstantFacts DEF Request, NoRequest, TypeOK
  <2>3. req' \in [Callers -> Request]
    BY <2>1, <2>2, RequestType
  <2>4. pc' \in [Callers -> Locations]
    BY <1>4, GotoType DEF BeginRestart, Locations
  <2>5. \A d \in Callers : pc'[d] \in LookupPcs => req'[d].id # NoId
    <3>1. req'[c].id = id /\ id # NoId
      BY <2>1, <2>2, RequestType, ConstantFacts DEF NoRequest
    <3>2. QED
      BY <1>4, <2>1, <3>1, LookupsKept, OthersKeepRequests DEF BeginRestart
  <2>6. QED
    BY <1>4, <2>3, <2>4, <2>5 DEF BeginRestart, TypeOK, Registry, Forwards
<1>5. CASE BeginStopAll(c)
  <2> DEFINE snapshot == {forwards[id] : id \in Ids} \ {NoForward}
  <2>1. snapshot \subseteq Nums
    BY DEF TypeOK
  <2>2. [NoRequest EXCEPT !.todo = snapshot] \in Request
    BY <2>1, ConstantFacts DEF Request, NoRequest
  <2> HIDE DEF snapshot
  <2>3. req' \in [Callers -> Request]
    BY <1>5, <2>2, RequestType DEF BeginStopAll, snapshot
  <2>4. pc' \in [Callers -> Locations]
    BY <1>5, GotoType DEF BeginStopAll, Locations
  <2>5. \A d \in Callers : pc'[d] \in LookupPcs => req'[d].id # NoId
    BY <1>5, LookupsKept, OthersKeepRequests DEF BeginStopAll, LookupPcs
  <2>6. QED
    BY <1>5, <2>3, <2>4, <2>5 DEF BeginStopAll, TypeOK, Registry, Forwards
<1>6. QED
  BY <1>1, <1>2, <1>3, <1>4, <1>5 DEF Begin

\* Two schemes for the steps below: the caller moves on and keeps its
\* request, or it keeps the other callers' requests.
LEMMA MoveOnType ==
  ASSUME TypeOK, NEW c \in Callers, NEW from, NEW to \in Locations \ LookupPcs,
         Goto(c, from, to), \A d \in Callers \ {c} : req'[d] = req[d]
  PROVE  /\ pc' \in [Callers -> Locations]
         /\ \A d \in Callers : pc'[d] \in LookupPcs => req'[d].id # NoId
BY GotoType, LookupsKept

LEMMA StartType == ASSUME TypeOK, NEW c \in Callers, Start(c) PROVE TypeOK'
<1>0. {"idle", "listen", "allocate", "remember", "register", "launch", "poll"}
        \subseteq Locations \ LookupPcs
  BY DEF Locations, LookupPcs
<1>1. CASE CheckClaimed(c)
  BY <1>0, <1>1, PassType DEF CheckClaimed
<1>2. CASE TryListenAndResolve(c)
  BY <1>0, <1>2, PassType DEF TryListenAndResolve
<1>3. CASE Allocate(c)
  <2>1. CASE Reject(c, "allocate") \/ Proceed(c, "allocate", "remember")
    BY <1>0, <2>1, PassType
  <2>2. CASE /\ nextSeq < MaxStarts
             /\ Goto(c, "allocate", "remember")
             /\ nextSeq' = nextSeq + 1
             /\ req' = [req EXCEPT ![c].id = nextSeq + 1]
             /\ UNCHANGED <<forwards, history, Forwards, starts, toRestore>>
    <3>1. nextSeq + 1 \in Ids /\ nextSeq' \in 0 .. MaxStarts
      BY <2>2, ConstantFacts DEF TypeOK, Nums
    <3>2. req' \in [Callers -> Request]
      BY <2>2, <3>1 DEF TypeOK, Request
    <3>3. \A d \in Callers \ {c} : req'[d] = req[d]
      BY <2>2 DEF TypeOK
    <3>4. QED
      BY <1>0, <2>2, <3>1, <3>2, <3>3, MoveOnType DEF TypeOK, Forwards
  <2>3. QED
    BY <1>3, <2>1, <2>2 DEF Allocate
<1>4. CASE Remember(c)
  <2>1. history' \in [Ids -> Ports \cup {NoId}]
    BY <1>4 DEF Remember, TypeOK, Request
  <2>2. QED
    BY <1>0, <1>4, <2>1, MoveOnType DEF Remember, TypeOK, Forwards
<1>5. CASE Register(c)
  <2>2. req[c] \in Request
    BY DEF TypeOK
  <2>3. forwards' \in [Ids -> Nums \cup {NoForward}]
    BY <1>5, <2>2 DEF Register, TypeOK, Request
  <2>4. [id |-> req[c].id, port |-> req[c].port, phase |-> "new"]
          \in [id : Ids \cup {NoId}, port : Ports \cup {NoId}, phase : Phases]
    BY <2>2 DEF Request, Phases
  <2>5. fwd' \in [Nums -> [id : Ids \cup {NoId}, port : Ports \cup {NoId}, phase : Phases]]
    BY <1>5, <2>4 DEF Register, TypeOK
  <2>6. QED
    BY <1>0, <1>5, <2>3, <2>5, MoveOnType DEF Register, TypeOK
<1>6. CASE Launch(c)
  <2>1. fwd' \in [Nums -> [id : Ids \cup {NoId}, port : Ports \cup {NoId}, phase : Phases]]
    BY <1>6 DEF Launch, TypeOK, Phases
  <2>2. QED
    BY <1>0, <1>6, <2>1, MoveOnType DEF Launch, TypeOK, Registry
<1>7. CASE Poll(c)
  BY <1>0, <1>7, PassType DEF Poll
<1>8. QED
  BY <1>1, <1>2, <1>3, <1>4, <1>5, <1>6, <1>7 DEF Start

LEMMA LookupType ==
  ASSUME TypeOK, NEW c \in Callers, NEW from \in LookupPcs,
         NEW found \in Locations \ LookupPcs, NEW missing \in Locations \ LookupPcs,
         Lookup(c, from, found, missing)
  PROVE  TypeOK'
<1> DEFINE i == forwards[req[c].id]
<1>1. CASE i = NoForward
  BY <1>1, PassType DEF Lookup
<1>2. CASE i # NoForward
  <2>1. /\ Goto(c, from, found)
        /\ SignalStop(i)
        /\ req' = [req EXCEPT ![c].num = i]
        /\ UNCHANGED <<Registry, fwd, starts, toRestore>>
    BY <1>2 DEF Lookup
  <2>2. req[c].id \in Ids
    BY DEF TypeOK, Request, Lookup
  <2>3. i \in Nums
    BY <1>2, <2>2 DEF TypeOK
  <2> HIDE DEF i
  <2>4. req' \in [Callers -> Request]
    BY <2>1, <2>3 DEF TypeOK, Request
  <2>5. \A d \in Callers \ {c} : req'[d] = req[d]
    BY <2>1 DEF TypeOK
  <2>6. QED
    BY <2>1, <2>3, <2>4, <2>5, MoveOnType DEF TypeOK, SignalStop, Registry
<1>3. QED
  BY <1>1, <1>2

LEMMA DeleteType ==
  ASSUME TypeOK, NEW c \in Callers, NEW from, NEW to \in Locations \ LookupPcs,
         Delete(c, from, to)
  PROVE  TypeOK'
<1>1. forwards' \in [Ids -> Nums \cup {NoForward}]
  BY DEF Delete, TypeOK
<1>2. QED
  BY <1>1, MoveOnType DEF Delete, TypeOK, Forwards

LEMMA StopType == ASSUME TypeOK, NEW c \in Callers, Stop(c) PROVE TypeOK'
<1>1. {"stopWait", "stopDelete", "idle"} \subseteq Locations \ LookupPcs
  BY DEF Locations, LookupPcs
<1>2. CASE Lookup(c, "stopLookup", "stopWait", "idle")
  BY <1>1, <1>2, LookupType DEF LookupPcs
<1>3. CASE AwaitDone(c, "stopWait", "stopDelete")
  BY <1>1, <1>3, PassType DEF AwaitDone
<1>4. CASE Delete(c, "stopDelete", "idle")
  BY <1>1, <1>4, DeleteType
<1>5. QED
  BY <1>2, <1>3, <1>4 DEF Stop

LEMMA RestartType == ASSUME TypeOK, NEW c \in Callers, Restart(c) PROVE TypeOK'
<1>1. {"restartWait", "restartDelete", "restartStop"} \subseteq Locations \ LookupPcs
  BY DEF Locations, LookupPcs
<1>2. CASE Lookup(c, "restartLookup", "restartWait", "restartStop")
  BY <1>1, <1>2, LookupType DEF LookupPcs
<1>3. CASE AwaitDone(c, "restartWait", "restartDelete")
  BY <1>1, <1>3, PassType DEF AwaitDone
<1>4. CASE Delete(c, "restartDelete", "restartStop")
  BY <1>1, <1>4, DeleteType
<1>5. CASE CallStart(c, req[c].id, req[c].port, "restartStop") /\ UNCHANGED toRestore
  <2>1. /\ req[c].id \in Ids \cup {NoId}
        /\ req[c].port \in Ports \cup {NoId}
        /\ toRestore' \subseteq DOMAIN Restored
    BY <1>5 DEF TypeOK, Request
  <2>2. QED
    BY <1>5, <2>1, CallStartType
<1>6. QED
  BY <1>2, <1>3, <1>4, <1>5 DEF Restart

LEMMA StopAllType == ASSUME TypeOK, NEW c \in Callers, StopAll(c) PROVE TypeOK'
<1>0. {"stopEach", "stopEachWait", "idle"} \subseteq Locations \ LookupPcs
  BY DEF Locations, LookupPcs
<1>1. CASE StopEach(c)
  <2>1. PICK i \in req[c].todo :
          /\ Goto(c, "stopEach", "stopEachWait")
          /\ SignalStop(i)
          /\ req' = [req EXCEPT ![c].num = i, ![c].todo = @ \ {i}]
          /\ UNCHANGED <<Registry, fwd, starts, toRestore>>
    BY <1>1 DEF StopEach
  <2>2. i \in Nums
    BY DEF TypeOK, Request
  <2>3. req' \in [Callers -> Request]
    BY <2>1, <2>2 DEF TypeOK, Request
  <2>4. \A d \in Callers \ {c} : req'[d] = req[d]
    BY <2>1 DEF TypeOK
  <2>5. QED
    BY <1>0, <2>1, <2>2, <2>3, <2>4, MoveOnType DEF TypeOK, SignalStop, Registry
<1>2. CASE AwaitDone(c, "stopEachWait", "stopEach")
  BY <1>0, <1>2, PassType DEF AwaitDone
<1>3. CASE Wipe(c)
  BY <1>0, <1>3, MoveOnType DEF Wipe, TypeOK, Forwards
<1>4. QED
  BY <1>1, <1>2, <1>3 DEF StopAll

LEMMA ForwardsType ==
  ASSUME TypeOK, NEW i \in Nums, Bind(i) \/ Unbind(i) \/ Finish(i)
  PROVE  TypeOK'
<1>1. PICK from, to \in Phases : Move(i, from, to)
  BY DEF Bind, Unbind, Finish, Phases
<1>2. fwd' \in [Nums -> [id : Ids \cup {NoId}, port : Ports \cup {NoId}, phase : Phases]]
  BY <1>1 DEF Move, TypeOK
<1>3. QED
  BY <1>1, <1>2 DEF Move, TypeOK, Registry

LEMMA InitType == Init => TypeOK
<1>1. NoRequest \in Request /\ NoForward \notin Nums /\ MaxStarts \in Nat
  BY ConstantFacts
<1>2. 0 \in 0 .. MaxStarts
  BY <1>1
<1>3. QED
  BY <1>1, <1>2 DEF Init, TypeOK, Phases, Locations, LookupPcs

LEMMA NextType == TypeOK /\ [Next]_vars => TypeOK'
<1> SUFFICES ASSUME TypeOK, [Next]_vars PROVE TypeOK'
  OBVIOUS
<1>1. CASE \E c \in Callers : Begin(c) \/ Serve(c)
  BY <1>1, BeginType, StartType, StopType, RestartType, StopAllType DEF Serve
<1>2. CASE \E i \in Nums : Bind(i) \/ Unbind(i) \/ Finish(i)
  BY <1>2, ForwardsType
<1>3. CASE UNCHANGED vars
  BY <1>3 DEF vars, TypeOK
<1>4. QED
  BY <1>1, <1>2, <1>3 DEF Next

\* The state keeps its types whatever the requests and the restored records:
\* in particular nobody looks up a forward without an id (Stop, restart).
THEOREM TypeCorrect == Spec => []TypeOK
BY InitType, NextType, PTL DEF Spec

-----------------------------------------------------------------------------
(* Starts and stops                                                        *)

\* A step moves one caller.
LEMMA OneMoves ==
  ASSUME TypeOK, NEW c \in Callers, NEW from, NEW to, Goto(c, from, to)
  PROVE  pc[c] = from /\ pc'[c] = to /\ \A d \in Callers \ {c} : pc'[d] = pc[d]
BY DEF TypeOK, Goto

\* The four lemmas that follow say what each part of the invariant depends on.

\* No start begins, and the forwards have the phases the starts expect.
LEMMA OwnedFrame ==
  ASSUME NumsAreOwned, UNCHANGED starts,
         \A d \in Callers : pc'[d] \in Starting =>
           /\ pc[d] \in Starting
           /\ req'[d].num = req[d].num
           /\ fwd'[req[d].num].phase = IF pc'[d] = "launch" THEN "new" ELSE "none",
         \A i \in Nums : Created(i)' => i <= starts
  PROVE  NumsAreOwned'
BY DEF NumsAreOwned

\* The ids of the forwards and of the starts: none is lost.
LEMMA UsedIds ==
  ASSUME TypeOK
  PROVE  Used \subseteq Ids /\ NoId \notin Used /\ NoForward \notin Used
<1>1. 1 .. nextSeq \subseteq Nums
  BY ConstantFacts DEF TypeOK, Nums
<1>2. QED
  BY <1>1, ConstantFacts, ManagerAssumption DEF Used, Ids, NoForward, NoId

LEMMA UsedKept ==
  ASSUME UNCHANGED <<nextSeq, toRestore>>
  PROVE  Used' = Used
BY DEF Used

\* No forward gets an id, no start is given one.
LEMMA FreshFrame ==
  ASSUME IdsAreFresh, Used \subseteq Used',
         \A i \in Nums : Created(i)' => Created(i) /\ fwd'[i].id = fwd[i].id,
         \A d \in Callers : HasId(d)' => HasId(d) /\ req'[d].id = req[d].id,
         \A d \in Callers : pc'[d] \in {"remember", "register"} =>
           /\ pc[d] \in {"remember", "register"} \/ HasId(d)
           /\ req'[d].id = req[d].id
  PROVE  IdsAreFresh'
<1>1. \A d \in Callers : pc'[d] \in {"remember", "register"} => req'[d].id # NoId
  BY DEF IdsAreFresh, HasId
<1>2. \A d \in Callers : HasId(d)' =>
        req'[d].id \in Used' /\ \A i \in Nums : Created(i)' => fwd'[i].id # req'[d].id
  BY DEF IdsAreFresh
<1>3. \A c, d \in Callers : HasId(c)' /\ HasId(d)' /\ req'[c].id = req'[d].id => c = d
  BY DEF IdsAreFresh
<1>4. \A i \in Nums : Created(i)' => fwd'[i].id \in Used'
  BY DEF IdsAreFresh
<1>5. \A i, j \in Nums : Created(i)' /\ Created(j)' /\ fwd'[i].id = fwd'[j].id => i = j
  BY DEF IdsAreFresh
<1>6. QED
  BY <1>1, <1>2, <1>3, <1>4, <1>5 DEF IdsAreFresh

\* One start is given an id that nobody had.
LEMMA FreshGiven ==
  ASSUME IdsAreFresh, Used \subseteq Used', UNCHANGED fwd, NEW c \in Callers,
         \A d \in Callers \ {c} : req'[d] = req[d] /\ pc'[d] = pc[d],
         req'[c].id \in Used' \ Used, req'[c].id # NoId
  PROVE  IdsAreFresh'
<1>1. \A d \in Callers \ {c} : HasId(d)' => HasId(d) /\ req'[d].id = req[d].id
  BY DEF HasId
<1>2. \A i \in Nums : Created(i)' => Created(i) /\ fwd'[i].id = fwd[i].id
  BY DEF Created
<1>3. \A d \in Callers : pc'[d] \in {"remember", "register"} => req'[d].id # NoId
  BY DEF IdsAreFresh
<1>4. \A i \in Nums : Created(i)' => fwd'[i].id \in Used
  BY <1>2 DEF IdsAreFresh
<1>5. \A d \in Callers \ {c} : HasId(d)' => req'[d].id \in Used
  BY <1>1 DEF IdsAreFresh
<1>6. \A d \in Callers : HasId(d)' =>
        req'[d].id \in Used' /\ \A i \in Nums : Created(i)' => fwd'[i].id # req'[d].id
  <2>1. \A d \in Callers \ {c} : HasId(d)' =>
          \A i \in Nums : Created(i)' => fwd'[i].id # req'[d].id
    BY <1>1, <1>2 DEF IdsAreFresh
  <2>2. \A i \in Nums : Created(i)' => fwd'[i].id # req'[c].id
    BY <1>4
  <2>3. QED
    BY <1>5, <2>1, <2>2
<1>7. \A d, e \in Callers : HasId(d)' /\ HasId(e)' /\ req'[d].id = req'[e].id => d = e
  <2>1. \A d \in Callers \ {c} : HasId(d)' => req'[d].id # req'[c].id
    BY <1>5
  <2>2. \A d, e \in Callers \ {c} : HasId(d)' /\ HasId(e)' /\ req'[d].id = req'[e].id => d = e
    BY <1>1 DEF IdsAreFresh
  <2>3. QED
    BY <2>1, <2>2
<1>8. \A i, j \in Nums : Created(i)' /\ Created(j)' /\ fwd'[i].id = fwd'[j].id => i = j
  BY <1>2 DEF IdsAreFresh
<1>9. QED
  BY <1>3, <1>4, <1>6, <1>7, <1>8 DEF IdsAreFresh

\* The registry stays as it is, and no forward comes to life.
LEMMA SoundFrame ==
  ASSUME TypeOK, RegistryIsSound, UNCHANGED forwards,
         \A i \in Nums : Created(i) => Created(i)' /\ fwd'[i].id = fwd[i].id,
         \A i \in Nums : Live(i)' => Live(i) /\ fwd'[i].id = fwd[i].id
  PROVE  RegistryIsSound'
<1>1. \A id \in Ids : forwards[id] # NoForward => forwards[id] \in Nums
  BY DEF TypeOK
<1>2. QED
  BY <1>1 DEF RegistryIsSound, EveryLiveForwardIsRegistered

\* Nobody starts to wait, and what is done stays done.
LEMMA StopsFrame ==
  ASSUME StopsAreRight,
         \A d \in Callers : pc'[d] \in Waiting =>
           /\ pc[d] \in Waiting
           /\ req'[d].num = req[d].num /\ req'[d].id = req[d].id
           /\ pc'[d] = "stopDelete" =>
                pc[d] = "stopDelete" \/ fwd[req[d].num].phase = "done",
         \A i \in Nums : Created(i) => Created(i)' /\ fwd'[i].id = fwd[i].id,
         \A i \in Nums : fwd[i].phase = "done" => fwd'[i].phase = "done"
  PROVE  StopsAreRight'
BY DEF StopsAreRight

\* What a step does that leaves the forwards alone.
LEMMA ForwardsFrame ==
  ASSUME UNCHANGED fwd
  PROVE  \A i \in Nums : /\ fwd'[i].id = fwd[i].id /\ fwd'[i].phase = fwd[i].phase
                         /\ Created(i)' = Created(i) /\ Live(i)' = Live(i)
BY DEF Created, Live

\* A caller moves to a place of the right kind.
LEMMA OnlyFrame ==
  ASSUME TypeOK, OnlyStartsAndStops,
         NEW c \in Callers, NEW from, Goto(c, from, pc'[c]),
         pc'[c] \in {"idle", "poll", "stopLookup"} \cup Starting \cup Waiting
  PROVE  OnlyStartsAndStops'
BY OneMoves DEF OnlyStartsAndStops

\* A start has a number in the range.
LEMMA OwnedNums ==
  ASSUME TypeOK, NumsAreOwned, NEW d \in Callers, pc[d] \in Starting
  PROVE  req[d].num \in 1 .. starts /\ req[d].num \in Nums
BY ConstantFacts DEF NumsAreOwned, TypeOK, Nums

\* A start that moves on without touching anything, or any request that ends.
LEMMA PassKeeps ==
  ASSUME StartStopInv, TypeOK', NEW c \in Callers, NEW from, NEW to,
         Proceed(c, from, to) \/ (Reject(c, from) /\ to = "idle"),
         \/ to = "idle"
         \/ from = "check" /\ to = "listen"
         \/ from = "listen" /\ to = "allocate"
         \/ from = "allocate" /\ to = "remember" /\ req[c].id # NoId
  PROVE  StartStopInv'
<1> USE DEF StartStopInv
<1>1. Goto(c, from, to) /\ UNCHANGED <<forwards, nextSeq, fwd, starts, toRestore, req>>
  BY DEF Proceed, Reject, Registry, Forwards
<1>2. pc[c] = from /\ pc'[c] = to /\ \A d \in Callers \ {c} : pc'[d] = pc[d]
  BY <1>1, OneMoves
<1>3. OnlyStartsAndStops'
  BY <1>1, <1>2, OnlyFrame DEF Starting
<1>4. \A d \in Callers :
        /\ pc'[d] \in Starting => pc[d] \in Starting /\ (pc'[d] = "launch" <=> pc[d] = "launch")
        /\ pc'[d] \in {"remember", "register"} => pc'[d] = pc[d] \/ HasId(d)
        /\ pc'[d] \in Waiting => pc'[d] = pc[d]
        /\ HasId(d)' => HasId(d)
  BY <1>1, <1>2 DEF Starting, Waiting, HasId
<1>5. NumsAreOwned'
  BY <1>1, <1>4, OwnedFrame, ForwardsFrame DEF NumsAreOwned
<1>6. IdsAreFresh'
  BY <1>1, <1>4, FreshFrame, ForwardsFrame, UsedKept
<1>7. RegistryIsSound'
  BY <1>1, SoundFrame, ForwardsFrame
<1>8. StopsAreRight'
  BY <1>1, <1>4, StopsFrame, ForwardsFrame
<1>9. QED
  BY <1>3, <1>5, <1>6, <1>7, <1>8

\* A start takes a number that no start and no forward has, and an id that
\* nobody has if it comes with one.
LEMMA CallStartKeeps ==
  ASSUME StartStopInv, TypeOK', NEW c \in Callers, NEW id, NEW p,
         CallStart(c, id, p, "idle"),
         Used \subseteq Used', id = NoId \/ id \in Used' \ Used
  PROVE  StartStopInv'
<1> USE DEF StartStopInv
<1>1. /\ UNCHANGED <<forwards, nextSeq, fwd>>
      /\ Goto(c, "idle", "check")
      /\ starts < MaxStarts /\ starts' = starts + 1
  BY DEF CallStart, Registry, Forwards
<1>2. req'[c].id = id /\ req'[c].num = starts + 1
  BY DEF CallStart, NoRequest, TypeOK
<1>3. \A d \in Callers \ {c} : req'[d] = req[d] /\ pc'[d] = pc[d]
  BY <1>1, OneMoves, OthersKeepRequests DEF CallStart
<1>4. pc[c] = "idle" /\ pc'[c] = "check"
  BY <1>1, OneMoves
<1>5. starts \in Nat /\ starts + 1 \in Nums
  BY <1>1, ConstantFacts DEF TypeOK, Nums
<1>6. OnlyStartsAndStops'
  BY <1>1, <1>4, OnlyFrame DEF Starting
<1>7. NumsAreOwned'
  <2>1. fwd[starts + 1].phase = "none"
    BY <1>5 DEF NumsAreOwned, Created
  <2>2. \A d \in Callers \ {c} : pc'[d] \in Starting =>
          req'[d].num \in 1 .. starts /\ req'[d].num # req'[c].num
    BY <1>2, <1>3, <1>5 DEF NumsAreOwned
  <2>3. \A d \in Callers : pc'[d] \in Starting =>
          /\ req'[d].num \in 1 .. starts'
          /\ fwd'[req'[d].num].phase = IF pc'[d] = "launch" THEN "new" ELSE "none"
    BY <1>1, <1>2, <1>3, <1>4, <1>5, <2>1, <2>2 DEF NumsAreOwned
  <2>4. \A d, e \in Callers :
          pc'[d] \in Starting /\ pc'[e] \in Starting /\ req'[d].num = req'[e].num => d = e
    BY <1>3, <2>2 DEF NumsAreOwned
  <2>5. \A i \in Nums : Created(i)' => i <= starts'
    BY <1>1, <1>5, ForwardsFrame DEF NumsAreOwned, Nums
  <2>6. QED
    BY <2>3, <2>4, <2>5 DEF NumsAreOwned
<1>8. IdsAreFresh'
  <2>1. CASE id = NoId
    <3>1. \A d \in Callers : HasId(d)' => HasId(d) /\ req'[d].id = req[d].id
      BY <1>2, <1>3, <2>1 DEF HasId
    <3>2. \A d \in Callers : pc'[d] \in {"remember", "register"} =>
            pc[d] \in {"remember", "register"} /\ req'[d].id = req[d].id
      BY <1>3, <1>4
    <3>3. QED
      BY <1>1, <3>1, <3>2, FreshFrame, ForwardsFrame
  <2>2. CASE id \in Used' \ Used
    <3>1. id # NoId
      <4>1. nextSeq' \in Nat
        BY DEF TypeOK
      <4>2. QED
        BY <2>2, <4>1, ManagerAssumption DEF Used, NoId
    <3>2. QED
      BY <1>1, <1>2, <1>3, <2>2, <3>1, FreshGiven
  <2>3. QED
    BY <2>1, <2>2
<1>9. RegistryIsSound'
  BY <1>1, SoundFrame, ForwardsFrame
<1>10. StopsAreRight'
  <2>1. \A d \in Callers : pc'[d] \in Waiting => d # c
    BY <1>4 DEF Waiting
  <2>2. QED
    BY <1>1, <1>3, <2>1, StopsFrame, ForwardsFrame
<1>11. QED
  BY <1>6, <1>7, <1>8, <1>9, <1>10

LEMMA BeginStartKeeps ==
  ASSUME StartStopInv, TypeOK', NEW c \in Callers, BeginStart(c)
  PROVE  StartStopInv'
<1>1. PICK p \in Ports : CallStart(c, NoId, p, "idle")
  BY DEF BeginStart
<1>2. Used' = Used
  BY <1>1, UsedKept DEF BeginStart, CallStart, Registry
<1>3. QED
  BY <1>1, <1>2, CallStartKeeps

\* The id of a record is in use from here on: no start generates it, and the
\* record is not handed out twice.
LEMMA RecordIsNew ==
  ASSUME RecordsAreApart, TypeOK, NEW id \in toRestore,
         UNCHANGED nextSeq, toRestore' = toRestore \ {id}
  PROVE  Used \subseteq Used' /\ id \in Used' \ Used
<1>1. 1 .. nextSeq \subseteq Nums
  BY ConstantFacts DEF TypeOK, Nums
<1>2. id \in DOMAIN Restored /\ toRestore \subseteq DOMAIN Restored
  BY DEF TypeOK
<1>3. id \notin 1 .. nextSeq
  BY <1>1, <1>2 DEF RecordsAreApart
<1>4. QED
  BY <1>2, <1>3 DEF Used

LEMMA BeginRestoreKeeps ==
  ASSUME RecordsAreApart, StartStopInv, TypeOK', NEW c \in Callers, BeginRestore(c)
  PROVE  StartStopInv'
<1>1. PICK id \in toRestore :
        CallStart(c, id, Restored[id], "idle") /\ toRestore' = toRestore \ {id}
  BY DEF BeginRestore
<1>2. Used \subseteq Used' /\ id \in Used' \ Used
  BY <1>1, RecordIsNew DEF StartStopInv, CallStart, Registry
<1>3. QED
  BY <1>1, <1>2, CallStartKeeps

LEMMA BeginStopKeeps ==
  ASSUME StartStopInv, TypeOK', NEW c \in Callers, BeginStop(c)
  PROVE  StartStopInv'
<1> USE DEF StartStopInv
<1>1. /\ Goto(c, "idle", "stopLookup")
      /\ UNCHANGED <<forwards, nextSeq, fwd, starts, toRestore>>
  BY DEF BeginStop, Registry, Forwards
<1>2. \A d \in Callers \ {c} : req'[d] = req[d] /\ pc'[d] = pc[d]
  BY <1>1, OneMoves, OthersKeepRequests DEF BeginStop
<1>3. pc'[c] = "stopLookup" /\ "stopLookup" \notin Starting \cup Waiting
  BY <1>1, OneMoves DEF Starting, Waiting
<1>4. OnlyStartsAndStops'
  BY <1>1, <1>3, OnlyFrame
<1>5. NumsAreOwned'
  BY <1>1, <1>2, <1>3, OwnedFrame, ForwardsFrame DEF NumsAreOwned
<1>6. IdsAreFresh'
  <2>1. \A d \in Callers : pc'[d] \in {"remember", "register"} \/ HasId(d)' => d # c
    BY <1>3 DEF HasId
  <2>2. QED
    BY <1>1, <1>2, <2>1, FreshFrame, ForwardsFrame, UsedKept DEF HasId
<1>7. RegistryIsSound'
  BY <1>1, SoundFrame, ForwardsFrame
<1>8. StopsAreRight'
  BY <1>1, <1>2, <1>3, StopsFrame, ForwardsFrame
<1>9. QED
  BY <1>4, <1>5, <1>6, <1>7, <1>8

\* An id that is generated was not in use.
LEMMA NextIsNew ==
  ASSUME RecordsAreApart, TypeOK, nextSeq < MaxStarts,
         nextSeq' = nextSeq + 1, UNCHANGED toRestore
  PROVE  Used \subseteq Used' /\ nextSeq + 1 \in Used' \ Used /\ nextSeq + 1 # NoId
<1>1. nextSeq \in Nat /\ nextSeq + 1 \in Nums
  BY ConstantFacts DEF TypeOK, Nums
<1>2. nextSeq + 1 \notin DOMAIN Restored
  BY <1>1 DEF RecordsAreApart
<1>3. /\ 1 .. nextSeq \subseteq 1 .. nextSeq' /\ nextSeq + 1 \in 1 .. nextSeq'
      /\ nextSeq + 1 \notin 1 .. nextSeq
  BY <1>1
<1>4. QED
  BY <1>1, <1>2, <1>3 DEF Used, NoId

\* A start that left the id to the manager is given one that is not in use.
LEMMA GeneratedKeeps ==
  ASSUME RecordsAreApart, StartStopInv, TypeOK', NEW c \in Callers, Allocate(c),
         req[c].id = NoId
  PROVE  StartStopInv'
<1> USE DEF StartStopInv
<1>1. /\ Goto(c, "allocate", "remember")
      /\ nextSeq' = nextSeq + 1 /\ nextSeq < MaxStarts
      /\ req' = [req EXCEPT ![c].id = nextSeq + 1]
      /\ UNCHANGED <<forwards, fwd, starts, toRestore>>
  BY DEF Allocate, Forwards
<1>2. \A d \in Callers \ {c} : req'[d] = req[d] /\ pc'[d] = pc[d]
  BY <1>1, OneMoves DEF TypeOK
<1>3. pc[c] = "allocate" /\ pc'[c] = "remember"
  BY <1>1, OneMoves
<1>4. req'[c].id = nextSeq + 1 /\ req'[c].num = req[c].num
  BY <1>1 DEF TypeOK, Request
<1>5. nextSeq \in Nat
  BY DEF TypeOK
<1>6. OnlyStartsAndStops'
  BY <1>1, <1>3, OnlyFrame DEF Starting
<1>7. NumsAreOwned'
  <2>1. \A d \in Callers : pc'[d] \in Starting =>
          pc[d] \in Starting /\ req'[d].num = req[d].num /\ (pc'[d] = "launch" <=> pc[d] = "launch")
    BY <1>2, <1>3, <1>4 DEF Starting
  <2>2. QED
    BY <1>1, <2>1, OwnedFrame, ForwardsFrame DEF NumsAreOwned
<1>8. IdsAreFresh'
  <2>1. Used \subseteq Used' /\ nextSeq + 1 \in Used' \ Used /\ nextSeq + 1 # NoId
    BY <1>1, NextIsNew
  <2>2. QED
    BY <1>1, <1>2, <1>4, <2>1, FreshGiven
<1>9. RegistryIsSound'
  BY <1>1, SoundFrame, ForwardsFrame
<1>10. StopsAreRight'
  <2>1. \A d \in Callers : pc'[d] \in Waiting => d # c
    BY <1>3 DEF Waiting
  <2>2. QED
    BY <1>1, <1>2, <2>1, StopsFrame, ForwardsFrame
<1>11. QED
  BY <1>6, <1>7, <1>8, <1>9, <1>10

\* One that came with an id keeps it, or is rejected.
LEMMA AllocateKeeps ==
  ASSUME RecordsAreApart, StartStopInv, TypeOK', NEW c \in Callers, Allocate(c)
  PROVE  StartStopInv'
<1>1. CASE req[c].id = NoId
  BY <1>1, GeneratedKeeps
<1>2. CASE req[c].id # NoId
  <2>1. Reject(c, "allocate") \/ Proceed(c, "allocate", "remember")
    BY <1>2 DEF Allocate
  <2>2. QED
    BY <1>2, <2>1, PassKeeps
<1>3. QED
  BY <1>1, <1>2

LEMMA RememberKeeps ==
  ASSUME StartStopInv, TypeOK', NEW c \in Callers, Remember(c)
  PROVE  StartStopInv'
<1> USE DEF StartStopInv
<1>1. Goto(c, "remember", "register") /\ UNCHANGED <<forwards, nextSeq, fwd, starts, toRestore, req>>
  BY DEF Remember, Forwards
<1>2. pc[c] = "remember" /\ pc'[c] = "register" /\ \A d \in Callers \ {c} : pc'[d] = pc[d]
  BY <1>1, OneMoves
<1>3. OnlyStartsAndStops'
  BY <1>1, <1>2, OnlyFrame DEF Starting
<1>4. \A d \in Callers :
        /\ pc'[d] \in Starting => pc[d] \in Starting /\ (pc'[d] = "launch" <=> pc[d] = "launch")
        /\ pc'[d] \in Waiting => pc'[d] = pc[d]
        /\ pc'[d] \in {"remember", "register"} => pc[d] \in {"remember", "register"}
        /\ HasId(d)' => HasId(d)
  BY <1>1, <1>2 DEF Starting, Waiting, HasId
<1>5. NumsAreOwned'
  BY <1>1, <1>4, OwnedFrame, ForwardsFrame DEF NumsAreOwned
<1>6. IdsAreFresh'
  BY <1>1, <1>4, FreshFrame, ForwardsFrame, UsedKept
<1>7. RegistryIsSound'
  BY <1>1, SoundFrame, ForwardsFrame
<1>8. StopsAreRight'
  BY <1>1, <1>4, StopsFrame, ForwardsFrame
<1>9. QED
  BY <1>3, <1>5, <1>6, <1>7, <1>8

\* The number and the id of the start become those of the new forward.
LEMMA RegisterKeeps ==
  ASSUME StartStopInv, TypeOK', NEW c \in Callers, Register(c)
  PROVE  StartStopInv'
<1> USE DEF StartStopInv
<1> DEFINE n == req[c].num
           k == req[c].id
<1>1. Goto(c, "register", "launch") /\ UNCHANGED <<nextSeq, starts, toRestore, req>>
  BY DEF Register
<1>2. pc[c] = "register" /\ pc'[c] = "launch" /\ \A d \in Callers \ {c} : pc'[d] = pc[d]
  BY <1>1, OneMoves
<1>3. /\ n \in 1 .. starts /\ n \in Nums
      /\ fwd[n].phase = "none"
      /\ \A d \in Callers \ {c} : pc[d] \in Starting => req[d].num # n
  BY <1>2, OwnedNums DEF NumsAreOwned, Starting
<1>4. /\ HasId(c) /\ k \in Used /\ k \in Ids
      /\ \A i \in Nums : Created(i) => fwd[i].id # k
      /\ \A d \in Callers \ {c} : HasId(d) => req[d].id # k
  <2>1. HasId(c)
    BY <1>2 DEF IdsAreFresh, HasId
  <2>2. QED
    BY <2>1, UsedIds DEF IdsAreFresh
<1>5. /\ fwd'[n].id = k /\ fwd'[n].phase = "new"
      /\ \A i \in Nums \ {n} : fwd'[i] = fwd[i]
  BY <1>3 DEF Register, TypeOK
<1>6. /\ Created(n)' /\ ~Created(n)
      /\ \A i \in Nums \ {n} : Created(i)' = Created(i) /\ Live(i)' = Live(i)
  BY <1>1, <1>3, <1>5 DEF Created, Live
<1>7. OnlyStartsAndStops'
  BY <1>1, <1>2, OnlyFrame DEF Starting
<1>8. NumsAreOwned'
  <2>1. \A d \in Callers \ {c} : pc'[d] \in Starting =>
          /\ pc[d] \in Starting
          /\ fwd'[req[d].num].phase = IF pc'[d] = "launch" THEN "new" ELSE "none"
    BY <1>2, <1>3, <1>5, OwnedNums DEF NumsAreOwned
  <2>2. \A i \in Nums : Created(i)' => i <= starts
    BY <1>3, <1>6 DEF NumsAreOwned
  <2>3. "register" \in Starting
    BY DEF Starting
  <2>4. QED
    BY <1>1, <1>2, <1>5, <2>1, <2>2, <2>3, OwnedFrame
<1>9. IdsAreFresh'
  <2>1. \A d \in Callers : HasId(d)' => d # c /\ HasId(d) /\ req'[d].id = req[d].id
    BY <1>1, <1>2 DEF HasId
  <2>2. \A d \in Callers : pc'[d] \in {"remember", "register"} => req'[d].id # NoId
    BY <1>1, <1>2 DEF IdsAreFresh
  <2>3. Used' = Used
    BY <1>1, UsedKept
  <2>4. \A d \in Callers : HasId(d)' =>
          req'[d].id \in Used' /\ \A i \in Nums : Created(i)' => fwd'[i].id # req'[d].id
    BY <1>4, <1>5, <1>6, <2>1, <2>3 DEF IdsAreFresh
  <2>5. \A d, e \in Callers : HasId(d)' /\ HasId(e)' /\ req'[d].id = req'[e].id => d = e
    BY <2>1 DEF IdsAreFresh
  <2>6. \A i \in Nums : Created(i)' => fwd'[i].id \in Used'
    BY <1>4, <1>5, <1>6, <2>3 DEF IdsAreFresh
  <2>7. \A i, j \in Nums : Created(i)' /\ Created(j)' /\ fwd'[i].id = fwd'[j].id => i = j
    BY <1>4, <1>5, <1>6 DEF IdsAreFresh
  <2>8. QED
    BY <2>2, <2>4, <2>5, <2>6, <2>7 DEF IdsAreFresh
<1>10. RegistryIsSound'
  <2>1. forwards'[k] = n /\ \A id \in Ids \ {k} : forwards'[id] = forwards[id]
    BY <1>4 DEF Register, TypeOK
  <2>2. \A id \in Ids \ {k} : forwards[id] # NoForward =>
          forwards[id] \in Nums \ {n} /\ Created(forwards[id]) /\ fwd[forwards[id]].id = id
    BY <1>6 DEF RegistryIsSound, TypeOK
  <2>3. \A i \in Nums \ {n} : Live(i) => Created(i) /\ fwd[i].id # k /\ fwd[i].id \in Ids
    <3>1. \A i \in Nums : Created(i) => fwd[i].id \in Ids
      BY UsedIds DEF IdsAreFresh
    <3>2. QED
      BY <1>4, <3>1 DEF Live, Created
  <2>4. \A id \in Ids : forwards'[id] # NoForward =>
          fwd'[forwards'[id]].phase # "none" /\ fwd'[forwards'[id]].id = id
    BY <1>5, <2>1, <2>2 DEF Created
  <2>5. EveryLiveForwardIsRegistered'
    BY <1>5, <1>6, <2>1, <2>3 DEF RegistryIsSound, EveryLiveForwardIsRegistered
  <2>6. QED
    BY <2>4, <2>5 DEF RegistryIsSound, Created
<1>11. StopsAreRight'
  <2>1. \A d \in Callers : pc'[d] \in Waiting => pc'[d] = pc[d]
    BY <1>2 DEF Waiting
  <2>2. \A i \in Nums : Created(i) => Created(i)' /\ fwd'[i].id = fwd[i].id
    BY <1>5, <1>6
  <2>3. \A i \in Nums : fwd[i].phase = "done" => fwd'[i].phase = "done"
    BY <1>3, <1>5
  <2>4. QED
    BY <1>1, <2>1, <2>2, <2>3, StopsFrame
<1>12. QED
  BY <1>7, <1>8, <1>9, <1>10, <1>11

LEMMA LaunchKeeps ==
  ASSUME StartStopInv, TypeOK', NEW c \in Callers, Launch(c)
  PROVE  StartStopInv'
<1> USE DEF StartStopInv
<1> DEFINE n == req[c].num
<1>1. Goto(c, "launch", "poll") /\ UNCHANGED <<forwards, nextSeq, starts, toRestore, req>>
  BY DEF Launch, Registry
<1>2. pc[c] = "launch" /\ pc'[c] = "poll" /\ \A d \in Callers \ {c} : pc'[d] = pc[d]
  BY <1>1, OneMoves
<1>3. /\ n \in Nums /\ fwd[n].phase = "new"
      /\ \A d \in Callers \ {c} : pc[d] \in Starting => req[d].num # n
  BY <1>2, OwnedNums DEF NumsAreOwned, Starting
<1>4. /\ fwd'[n].id = fwd[n].id /\ fwd'[n].phase = "running"
      /\ \A i \in Nums \ {n} : fwd'[i] = fwd[i]
  BY <1>3 DEF Launch, TypeOK
<1>5. \A i \in Nums : /\ Created(i)' = Created(i) /\ Live(i)' = Live(i)
                      /\ fwd'[i].id = fwd[i].id
  BY <1>3, <1>4 DEF Created, Live
<1>6. OnlyStartsAndStops'
  BY <1>1, <1>2, OnlyFrame
<1>7. "poll" \notin Starting \cup Waiting
  BY DEF Starting, Waiting
<1>8. NumsAreOwned'
  <2>1. \A d \in Callers : pc'[d] \in Starting =>
          /\ pc[d] \in Starting
          /\ fwd'[req[d].num].phase = IF pc'[d] = "launch" THEN "new" ELSE "none"
    BY <1>2, <1>3, <1>4, <1>7, OwnedNums DEF NumsAreOwned
  <2>2. QED
    BY <1>1, <1>5, <2>1, OwnedFrame DEF NumsAreOwned
<1>9. IdsAreFresh'
  <2>1. \A d \in Callers : HasId(d)' => HasId(d)
    BY <1>1, <1>2 DEF HasId
  <2>2. QED
    BY <1>1, <1>2, <1>5, <2>1, FreshFrame, UsedKept
<1>10. RegistryIsSound'
  BY <1>1, <1>5, SoundFrame
<1>11. StopsAreRight'
  <2>1. \A i \in Nums : fwd[i].phase = "done" => fwd'[i].phase = "done"
    BY <1>3, <1>4
  <2>2. QED
    BY <1>1, <1>2, <1>5, <1>7, <2>1, StopsFrame
<1>12. QED
  BY <1>6, <1>8, <1>9, <1>10, <1>11

\* A stop finds the forward under its own id, ...
LEMMA FoundKeeps ==
  ASSUME StartStopInv, TypeOK', NEW c \in Callers,
         forwards[req[c].id] # NoForward,
         Goto(c, "stopLookup", "stopWait"),
         req' = [req EXCEPT ![c].num = forwards[req[c].id]],
         UNCHANGED <<Registry, fwd, starts, toRestore>>
  PROVE  StartStopInv'
<1> USE DEF StartStopInv
<1>1. UNCHANGED <<forwards, nextSeq>>
  BY DEF Registry
<1>2. \A d \in Callers \ {c} : req'[d] = req[d] /\ pc'[d] = pc[d]
  BY OneMoves DEF TypeOK
<1>3. /\ pc[c] = "stopLookup" /\ pc'[c] = "stopWait"
      /\ "stopWait" \notin Starting /\ "stopWait" \in Waiting
  BY OneMoves DEF Starting, Waiting
<1>4. /\ req[c].id \in Ids
      /\ req'[c].id = req[c].id
      /\ req'[c].num = forwards[req[c].id]
  BY <1>3 DEF TypeOK, Request, LookupPcs
<1>5. OnlyStartsAndStops'
  BY <1>3, OnlyFrame
<1>6. NumsAreOwned'
  BY <1>2, <1>3, OwnedFrame, ForwardsFrame DEF NumsAreOwned
<1>7. IdsAreFresh'
  <2>1. \A d \in Callers : pc'[d] \in {"remember", "register"} \/ HasId(d)' => d # c
    BY <1>3 DEF HasId
  <2>2. QED
    BY <1>1, <1>2, <2>1, FreshFrame, ForwardsFrame, UsedKept DEF HasId
<1>8. RegistryIsSound'
  BY <1>1, SoundFrame, ForwardsFrame
<1>9. StopsAreRight'
  <2>1. /\ forwards[req[c].id] \in Nums
        /\ Created(forwards[req[c].id])
        /\ fwd[forwards[req[c].id]].id = req[c].id
    BY <1>4 DEF RegistryIsSound, TypeOK
  <2>2. \A d \in Callers : pc'[d] \in Waiting =>
          /\ req'[d].num \in Nums
          /\ Created(req'[d].num)
          /\ fwd[req'[d].num].id = req'[d].id
          /\ pc'[d] = "stopDelete" => fwd[req'[d].num].phase = "done"
    BY <1>2, <1>3, <1>4, <2>1 DEF StopsAreRight
  <2>3. QED
    BY <2>2 DEF StopsAreRight, Created
<1>10. QED
  BY <1>5, <1>6, <1>7, <1>8, <1>9

LEMMA LookupKeeps ==
  ASSUME StartStopInv, TypeOK', NEW c \in Callers, Lookup(c, "stopLookup", "stopWait", "idle")
  PROVE  StartStopInv'
BY PassKeeps, FoundKeeps DEF Lookup

\* ... waits for it, ...
LEMMA AwaitDoneKeeps ==
  ASSUME StartStopInv, TypeOK', NEW c \in Callers, AwaitDone(c, "stopWait", "stopDelete")
  PROVE  StartStopInv'
<1> USE DEF StartStopInv
<1>1. /\ Goto(c, "stopWait", "stopDelete")
      /\ UNCHANGED <<forwards, nextSeq, fwd, starts, toRestore, req>>
      /\ fwd[req[c].num].phase = "done"
  BY DEF AwaitDone, Proceed, Registry, Forwards
<1>2. pc[c] = "stopWait" /\ pc'[c] = "stopDelete" /\ \A d \in Callers \ {c} : pc'[d] = pc[d]
  BY <1>1, OneMoves
<1>3. /\ "stopDelete" \notin Starting
      /\ {"stopWait", "stopDelete"} = Waiting
  BY DEF Starting, Waiting
<1>4. OnlyStartsAndStops'
  BY <1>1, <1>2, <1>3, OnlyFrame
<1>5. NumsAreOwned'
  BY <1>1, <1>2, <1>3, OwnedFrame, ForwardsFrame DEF NumsAreOwned
<1>6. IdsAreFresh'
  <2>1. \A d \in Callers : HasId(d)' => HasId(d)
    BY <1>1, <1>2 DEF HasId
  <2>2. QED
    BY <1>1, <1>2, <2>1, FreshFrame, ForwardsFrame, UsedKept
<1>7. RegistryIsSound'
  BY <1>1, SoundFrame, ForwardsFrame
<1>8. StopsAreRight'
  BY <1>1, <1>2, <1>3, StopsFrame, ForwardsFrame
<1>9. QED
  BY <1>4, <1>5, <1>6, <1>7, <1>8

\* ... and takes it out, which is done and the only one of its id.
LEMMA DeleteKeeps ==
  ASSUME StartStopInv, TypeOK', NEW c \in Callers, Delete(c, "stopDelete", "idle")
  PROVE  StartStopInv'
<1> USE DEF StartStopInv
<1>1. /\ Goto(c, "stopDelete", "idle")
      /\ UNCHANGED <<nextSeq, fwd, starts, toRestore, req>>
      /\ forwards' = [forwards EXCEPT ![req[c].id] = NoForward]
  BY DEF Delete, Forwards
<1>2. pc[c] = "stopDelete" /\ pc'[c] = "idle" /\ \A d \in Callers \ {c} : pc'[d] = pc[d]
  BY <1>1, OneMoves
<1>3. "idle" \notin Starting \cup Waiting
  BY DEF Starting, Waiting
<1>4. OnlyStartsAndStops'
  BY <1>1, <1>2, OnlyFrame
<1>5. NumsAreOwned'
  BY <1>1, <1>2, <1>3, OwnedFrame, ForwardsFrame DEF NumsAreOwned
<1>6. IdsAreFresh'
  <2>1. \A d \in Callers : HasId(d)' => HasId(d)
    BY <1>1, <1>2 DEF HasId
  <2>2. QED
    BY <1>1, <1>2, <2>1, FreshFrame, ForwardsFrame, UsedKept
<1>7. RegistryIsSound'
  <2>1. \A id \in Ids : forwards'[id] # NoForward => forwards'[id] = forwards[id]
    BY <1>1 DEF TypeOK
  <2>2. /\ req[c].num \in Nums
        /\ fwd[req[c].num].id = req[c].id
        /\ Created(req[c].num)
        /\ ~Live(req[c].num)
    BY <1>2 DEF StopsAreRight, Waiting, Live
  <2>3. \A i \in Nums : Live(i) => fwd[i].id # req[c].id
    BY <2>2 DEF IdsAreFresh, Live, Created
  <2>4. \A i \in Nums : Live(i) => forwards'[fwd[i].id] = i
    <3>1. \A i \in Nums : Live(i) => fwd[i].id \in Ids
      BY UsedIds DEF IdsAreFresh, Live, Created
    <3>2. QED
      BY <1>1, <2>3, <3>1 DEF RegistryIsSound, EveryLiveForwardIsRegistered, TypeOK
  <2>5. \A id \in Ids : forwards'[id] # NoForward =>
          Created(forwards'[id]) /\ fwd[forwards'[id]].id = id
    BY <2>1 DEF RegistryIsSound
  <2>6. QED
    BY <1>1, <2>4, <2>5 DEF RegistryIsSound, EveryLiveForwardIsRegistered, Live, Created
<1>8. StopsAreRight'
  BY <1>1, <1>2, <1>3, StopsFrame, ForwardsFrame
<1>9. QED
  BY <1>4, <1>5, <1>6, <1>7, <1>8

\* A forward that ends stays registered until a stop takes it out.
LEMMA MoveKeeps ==
  ASSUME StartStopInv, TypeOK', NEW i \in Nums, NEW from \in {"running", "bound"},
         NEW to \in {"running", "bound", "done"}, Move(i, from, to)
  PROVE  StartStopInv'
<1> USE DEF StartStopInv
<1>1. UNCHANGED <<forwards, nextSeq, starts, toRestore, req, pc>>
  BY DEF Move, Registry
<1>2. /\ fwd[i].phase = from /\ fwd'[i].phase = to /\ fwd'[i].id = fwd[i].id
      /\ \A j \in Nums \ {i} : fwd'[j] = fwd[j]
  BY DEF Move, TypeOK
<1>3. \A j \in Nums : /\ Created(j)' = Created(j)
                      /\ Live(j)' => Live(j)
                      /\ fwd'[j].id = fwd[j].id
  BY <1>2 DEF Created, Live
<1>4. \A d \in Callers : pc[d] \in Starting => req[d].num # i /\ req[d].num \in Nums
  BY <1>2, OwnedNums DEF NumsAreOwned
<1>5. OnlyStartsAndStops'
  BY <1>1 DEF OnlyStartsAndStops
<1>6. NumsAreOwned'
  <2>1. \A d \in Callers : pc[d] \in Starting =>
          fwd'[req[d].num].phase = IF pc[d] = "launch" THEN "new" ELSE "none"
    BY <1>2, <1>4 DEF NumsAreOwned
  <2>2. QED
    BY <1>1, <1>3, <2>1, OwnedFrame DEF NumsAreOwned
<1>7. IdsAreFresh'
  <2>1. \A d \in Callers : HasId(d)' => HasId(d)
    BY <1>1 DEF HasId
  <2>2. QED
    BY <1>1, <1>3, <2>1, FreshFrame, UsedKept
<1>8. RegistryIsSound'
  BY <1>1, <1>3, SoundFrame
<1>9. StopsAreRight'
  <2>1. \A j \in Nums : fwd[j].phase = "done" => fwd'[j].phase = "done"
    BY <1>2
  <2>2. QED
    BY <1>1, <1>3, <2>1, StopsFrame
<1>10. QED
  BY <1>5, <1>6, <1>7, <1>8, <1>9

LEMMA NoOtherRequests ==
  ASSUME StartStopInv, NEW c \in Callers
  PROVE  ~Restart(c) /\ ~StopAll(c)
<1>1. pc[c] \in {"idle", "poll", "stopLookup"} \cup Starting \cup Waiting
  BY DEF StartStopInv, OnlyStartsAndStops
<1>2. QED
  BY <1>1 DEF Restart, StopAll, StopEach, Wipe, Lookup, AwaitDone, Delete, Proceed, Goto,
              CallStart, Starting, Waiting

LEMMA StartStopNext ==
  ASSUME Ops \subseteq {"start", "stop"}, RecordsAreApart, StartStopInv, [Next]_vars
  PROVE  StartStopInv'
<1>1. TypeOK'
  BY NextType DEF StartStopInv
<1>2. ASSUME NEW c \in Callers, Begin(c) PROVE StartStopInv'
  <2>1. ~BeginRestart(c) /\ ~BeginStopAll(c)
    BY DEF BeginRestart, BeginStopAll
  <2>2. QED
    BY <1>1, <1>2, <2>1, BeginStartKeeps, BeginRestoreKeeps, BeginStopKeeps DEF Begin
<1>3. ASSUME NEW c \in Callers, Start(c) PROVE StartStopInv'
  <2>1. CASE CheckClaimed(c)
    BY <1>1, <2>1, PassKeeps DEF CheckClaimed
  <2>2. CASE TryListenAndResolve(c)
    BY <1>1, <2>2, PassKeeps DEF TryListenAndResolve
  <2>3. CASE Poll(c)
    BY <1>1, <2>3, PassKeeps DEF Poll
  <2>4. QED
    BY <1>1, <1>3, <2>1, <2>2, <2>3, AllocateKeeps, RememberKeeps, RegisterKeeps,
       LaunchKeeps DEF Start
<1>4. ASSUME NEW c \in Callers, Stop(c) PROVE StartStopInv'
  BY <1>1, <1>4, LookupKeeps, AwaitDoneKeeps, DeleteKeeps DEF Stop
<1>5. ASSUME NEW c \in Callers PROVE ~Restart(c) /\ ~StopAll(c)
  BY NoOtherRequests
<1>6. ASSUME NEW i \in Nums, Bind(i) \/ Unbind(i) \/ Finish(i) PROVE StartStopInv'
  BY <1>1, <1>6, MoveKeeps DEF Bind, Unbind, Finish
<1>7. CASE UNCHANGED vars
  BY <1>7 DEF vars, StartStopInv, TypeOK, OnlyStartsAndStops, NumsAreOwned, IdsAreFresh,
              Used, HasId, RegistryIsSound, EveryLiveForwardIsRegistered, StopsAreRight, Created, Live
<1>8. QED
  BY <1>2, <1>3, <1>4, <1>5, <1>6, <1>7 DEF Next, Serve

\* A daemon restores its records while clients start and stop forwards: as long
\* as no start generates the id of a record, the invariant that explains why the
\* registry is sound holds for any number of clients, records, ports and starts.
THEOREM StartsAndStopsAreSafe ==
  ASSUME Ops \subseteq {"start", "stop"}, RecordsAreApart
  PROVE  Spec => []StartStopInv
<1>1. Init => StartStopInv
  <2>1. Init => TypeOK
    BY InitType
  <2>2. QED
    BY <2>1, ConstantFacts DEF Init, StartStopInv, OnlyStartsAndStops, NumsAreOwned,
       IdsAreFresh, HasId, RegistryIsSound, EveryLiveForwardIsRegistered, StopsAreRight,
       Created, Live, Starting, Waiting
<1>2. StartStopInv /\ [Next]_vars => StartStopInv'
  BY StartStopNext
<1>3. QED
  BY <1>1, <1>2, PTL DEF Spec

\* So a forward that has not ended can be listed and stopped (Manager.Start
\* registers it before it runs, Manager.Stop waits before it deletes) ...
THEOREM LiveForwardsAreRegistered ==
  ASSUME Ops \subseteq {"start", "stop"}, RecordsAreApart
  PROVE  Spec => []EveryLiveForwardIsRegistered
<1>1. StartStopInv => EveryLiveForwardIsRegistered
  BY DEF StartStopInv, RegistryIsSound
<1>2. QED
  BY <1>1, StartsAndStopsAreSafe, PTL

\* ... and its id is its own (nextSeq under m.mu, Manager.Start).
THEOREM LiveIdsAreUnique ==
  ASSUME Ops \subseteq {"start", "stop"}, RecordsAreApart
  PROVE  Spec => []IdsAreUnique
<1>1. StartStopInv => IdsAreUnique
  BY DEF StartStopInv, IdsAreFresh, IdsAreUnique, Created, Live
<1>2. QED
  BY <1>1, StartsAndStopsAreSafe, PTL

\* And no forward leaves the registry while it lives, nor is it replaced
\* (the wait for doneCh in Manager.Stop, the fresh id in Manager.Start).
THEOREM OnlyTheEndedLeave ==
  ASSUME Ops \subseteq {"start", "stop"}, RecordsAreApart
  PROVE  Spec => OnlyEndedForwardsLeave
<1> DEFINE Leaves ==
      \A id \in Ids :
        forwards[id] # NoForward /\ forwards'[id] # forwards[id] => ~Live(forwards[id])
<1>1. StartStopInv /\ StartStopInv' /\ [Next]_vars => [Leaves]_forwards
  <2> SUFFICES ASSUME StartStopInv, StartStopInv', [Next]_vars, NEW id \in Ids,
                      forwards[id] # NoForward, forwards'[id] # forwards[id],
                      Live(forwards[id])
               PROVE  FALSE
    OBVIOUS
  <2>1. forwards[id] \in Nums
    BY DEF StartStopInv, TypeOK
  <2>2. Created(forwards[id]) /\ fwd[forwards[id]].id = id
    BY DEF StartStopInv, RegistryIsSound
  <2>3. ASSUME NEW c \in Callers, Register(c) PROVE FALSE
    <3>1. id = req[c].id
      BY <2>3 DEF Register, StartStopInv, TypeOK
    <3>2. QED
      BY <2>1, <2>2, <2>3, <3>1 DEF Register, Goto, StartStopInv, IdsAreFresh, HasId
  <2>4. ASSUME NEW c \in Callers, Delete(c, "stopDelete", "idle") PROVE FALSE
    <3>1. id = req[c].id
      BY <2>4 DEF Delete, StartStopInv, TypeOK
    <3>2. /\ req[c].num \in Nums
          /\ Created(req[c].num)
          /\ fwd[req[c].num].id = id
          /\ fwd[req[c].num].phase = "done"
      BY <2>4, <3>1 DEF Delete, Goto, StartStopInv, StopsAreRight, Waiting
    <3>3. req[c].num = forwards[id]
      BY <2>1, <2>2, <3>2 DEF StartStopInv, IdsAreFresh
    <3>4. QED
      BY <3>2, <3>3 DEF Live
  <2>5. ASSUME NEW c \in Callers PROVE ~Restart(c) /\ ~StopAll(c)
    BY NoOtherRequests
  <2>6. ASSUME NEW c \in Callers, Begin(c) PROVE FALSE
    BY <2>6 DEF Begin, BeginStart, BeginRestore, BeginStop, BeginRestart, BeginStopAll,
                CallStart, Registry
  <2>7. ASSUME NEW c \in Callers, Start(c) PROVE FALSE
    BY <2>3, <2>7 DEF Start, CheckClaimed, TryListenAndResolve, Allocate, Remember, Launch,
                      Poll, Proceed, Reject, Registry
  <2>8. ASSUME NEW c \in Callers, Stop(c) PROVE FALSE
    BY <2>4, <2>8 DEF Stop, Lookup, AwaitDone, Proceed, Registry
  <2>9. ASSUME NEW i \in Nums, Bind(i) \/ Unbind(i) \/ Finish(i) PROVE FALSE
    BY <2>9 DEF Bind, Unbind, Finish, Move, Registry
  <2>10. QED
    BY <2>5, <2>6, <2>7, <2>8, <2>9 DEF Next, Serve, vars
<1>2. QED
  BY <1>1, StartsAndStopsAreSafe, PTL DEF Spec, OnlyEndedForwardsLeave
=============================================================================
