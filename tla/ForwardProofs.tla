---------------------------- MODULE ForwardProofs ----------------------------
(***************************************************************************)
(* Theorems about Forward, for every set of ports and of callers, every    *)
(* limit of stale attempts, and every environment that Foreign and         *)
(* ReturnMayKeep allow.  IInv is inductive; the safety properties and the  *)
(* step simulation of ForwardLifecycle follow from it.                     *)
(***************************************************************************)
EXTENDS Forward, TLAPS

-----------------------------------------------------------------------------
(* What each kind of step leaves alone                                     *)

\* Only Run's goroutine moves Run's variables.
LEMMA OthersKeepRun ==
  ForwardPorts \/ HealthCheck \/ Stop \/ Machine => UNCHANGED runVars
BY DEF ForwardPorts, FpFails, FpListens, FpStops, FpLost, ReturnFp,
   HealthCheck, ProbeStops, ProbeTick, ProbePasses, ProbeDials, ProbeFails,
   Stop, CallStop, StopReturns, Machine, ListenerDies, OthersBind, OthersRelease

\* Run closes subs and doneCh and never stopCh; the others leave all three
\* alone, except that a caller of Stop closes stopCh.
LEMMA ChanSteps ==
  /\ ForwardPorts \/ HealthCheck \/ Machine \/ RunOnce => UNCHANGED chanVars
  /\ Stop => UNCHANGED <<subs, doneCh>> /\ stopCh' \in {stopCh, TRUE}
  /\ Run => stopCh' = stopCh
<1>1. ForwardPorts \/ HealthCheck \/ Machine => UNCHANGED chanVars
  BY DEF ForwardPorts, FpFails, FpListens, FpStops, FpLost, ReturnFp,
     HealthCheck, ProbeStops, ProbeTick, ProbePasses, ProbeDials, ProbeFails,
     Machine, ListenerDies, OthersBind, OthersRelease
<1>2. RunOnce => UNCHANGED chanVars
  BY DEF RunOnce, DialFails, DialSucceeds, BecomeReady, FailBeforeReady,
     StopBeforeReady, DrainUnready, SeeDrop, DropOrStop, StopWhileReady,
     DrainReady, JoinStopped
<1>3. Stop => UNCHANGED <<subs, doneCh>> /\ stopCh' \in {stopCh, TRUE}
  BY DEF Stop, CallStop, StopReturns, chanVars
<1>4. Run => stopCh' = stopCh
  BY <1>2 DEF Run, GiveUp, Drop, StopInBackoff, Reconnect, CloseSubs, ClosePf,
     CloseDone, chanVars
<1>5. QED
  BY <1>1, <1>2, <1>3, <1>4

\* Between attempts, runOnce changes none of Run's counters.
LEMMA RunOnceKeepsCounters == RunOnce => UNCHANGED <<notFoundCount, attempt, hist>>
BY DEF RunOnce, DialFails, DialSucceeds, BecomeReady, FailBeforeReady,
   StopBeforeReady, DrainUnready, SeeDrop, DropOrStop, StopWhileReady,
   DrainReady, JoinStopped, FailWith, Stopped, Goto

-----------------------------------------------------------------------------
(* The initial state                                                       *)

LEMMA InitIInv == Init => IInv
<1> SUFFICES ASSUME Init PROVE IInv
  OBVIOUS
<1>1. RunTypeOK
  BY ForwardAssumption DEF Init, RunTypeOK, Locations, Error
<1>2. PfTypeOK
  BY DEF Init, PfTypeOK
<1>3. TypeOK
  BY <1>1, <1>2 DEF Init, TypeOK
<1>4. StatusInv
  BY DEF Init, StatusInv, Closing, Lifecycle!Terminal
<1>5. GoroutineInv
  BY DEF Init, GoroutineInv, Closing
<1>6. CountInv
  BY ForwardAssumption DEF Init, CountInv, Closing
<1>7. QED
  BY <1>3, <1>4, <1>5, <1>6 DEF IInv

-----------------------------------------------------------------------------
(* Types                                                                   *)

LEMMA RememberType ==
  ASSUME RunTypeOK, err \in Error, Remember
  PROVE  hist' \in [1 .. MaxStaleAttempts -> Error \cup {"none"}]
BY ForwardAssumption DEF RunTypeOK, Remember

LEMMA NextRunTypeOK == ASSUME IInv, [Next]_vars PROVE RunTypeOK'
<1>0. RunTypeOK /\ CountInv /\ PfTypeOK
  BY DEF IInv, TypeOK
<1>1. CASE RunOnce
  <2>1. /\ pc' \in Locations
        /\ status' \in {"starting", "ready", "dropped", "stopped", "stale"}
    BY <1>0, <1>1 DEF RunTypeOK, Locations, RunOnce, DialFails, DialSucceeds,
       BecomeReady, FailBeforeReady, StopBeforeReady, DrainUnready, SeeDrop,
       DropOrStop, StopWhileReady, DrainReady, JoinStopped, FailWith, Stopped, Goto
  <2>2. err' \in Error \cup {"nil"}
    BY <1>0, <1>1 DEF RunTypeOK, CountInv, PfTypeOK, Error, ErrOr, RunOnce,
       DialFails, DialSucceeds, BecomeReady, FailBeforeReady, StopBeforeReady,
       DrainUnready, SeeDrop, DropOrStop, StopWhileReady, DrainReady,
       JoinStopped, FailWith, Stopped, Goto
  <2>3. QED
    BY <1>0, <1>1, <2>1, <2>2, RunOnceKeepsCounters DEF RunTypeOK
<1>2. CASE GiveUp \/ Drop
  <2>1. err \in Error
    BY <1>0, <1>2 DEF CountInv, GiveUp, Drop
  <2>2. hist' \in [1 .. MaxStaleAttempts -> Error \cup {"none"}]
    BY <1>0, <1>2, <2>1, RememberType DEF GiveUp, Drop
  <2>3. notFoundCount' \in 0 .. MaxStaleAttempts
    BY <1>0, <1>2, ForwardAssumption DEF RunTypeOK, CountInv, StatusInv, IInv,
       Closing, Lifecycle!Terminal, GiveUp, Drop
  <2>4. /\ pc' \in Locations
        /\ status' \in {"starting", "ready", "dropped", "stopped", "stale"}
        /\ err' = err
        /\ attempt' \in {0, 1}
    BY <1>0, <1>2 DEF RunTypeOK, CountInv, Closing, Locations, GiveUp, Drop
  <2>5. QED
    BY <1>0, <2>2, <2>3, <2>4 DEF RunTypeOK
<1>3. CASE StopInBackoff \/ Reconnect \/ CloseSubs \/ ClosePf \/ CloseDone
  <2>1. UNCHANGED <<err, notFoundCount, hist>>
    BY <1>3 DEF StopInBackoff, Reconnect, CloseSubs, ClosePf, CloseDone, Stopped, Goto
  <2>2. /\ pc' \in Locations
        /\ status' \in {"starting", "ready", "dropped", "stopped", "stale"}
        /\ attempt' \in {0, 1}
    BY <1>0, <1>3 DEF RunTypeOK, Locations, StopInBackoff, Reconnect, CloseSubs,
       ClosePf, CloseDone, Stopped, Goto
  <2>3. QED
    BY <1>0, <2>1, <2>2 DEF RunTypeOK
<1>4. CASE ForwardPorts \/ HealthCheck \/ Stop \/ Machine
  BY <1>0, <1>4, OthersKeepRun DEF RunTypeOK, runVars
<1>5. CASE UNCHANGED vars
  BY <1>0, <1>5 DEF RunTypeOK, vars, runVars
<1>6. QED
  BY <1>1, <1>2, <1>3, <1>4, <1>5 DEF Next, Run

LEMMA NextPfTypeOK == ASSUME TypeOK, [Next]_vars PROVE PfTypeOK'
<1>0. PfTypeOK
  BY DEF TypeOK
<1>1. CASE RunOnce
  BY <1>0, <1>1 DEF PfTypeOK, RunOnce, DialFails, DialSucceeds, BecomeReady,
     FailBeforeReady, StopBeforeReady, DrainUnready, SeeDrop, DropOrStop,
     StopWhileReady, DrainReady, JoinStopped, ReceivePfErr, JoinProbe,
     pfVars, probeVars
<1>2. CASE GiveUp \/ Drop \/ StopInBackoff \/ Reconnect \/ CloseSubs \/ ClosePf \/ CloseDone
  BY <1>0, <1>2 DEF PfTypeOK, GiveUp, Drop, StopInBackoff, Reconnect, CloseSubs,
     ClosePf, CloseDone, pfVars, probeVars
<1>3. CASE ForwardPorts
  BY <1>0, <1>3 DEF PfTypeOK, Error, ForwardPorts, FpFails, FpListens, FpStops,
     FpLost, ReturnFp, probeVars
<1>4. CASE HealthCheck
  BY <1>0, <1>4 DEF PfTypeOK, HealthCheck, ProbeStops, ProbeTick, ProbePasses,
     ProbeDials, ProbeFails, pfVars
<1>5. CASE Stop
  BY <1>0, <1>5 DEF PfTypeOK, Stop, CallStop, StopReturns, pfVars, probeVars
<1>6. CASE Machine
  BY <1>0, <1>6 DEF PfTypeOK, Machine, ListenerDies, OthersBind, OthersRelease,
     pfVars, probeVars
<1>7. CASE UNCHANGED vars
  BY <1>0, <1>7 DEF PfTypeOK, vars, pfVars, probeVars
<1>8. QED
  BY <1>1, <1>2, <1>3, <1>4, <1>5, <1>6, <1>7 DEF Next, Run

LEMMA NextTypeOK == ASSUME IInv, [Next]_vars PROVE TypeOK'
<1>0. TypeOK
  BY DEF IInv
<1>1. RunTypeOK' /\ PfTypeOK'
  BY <1>0, NextRunTypeOK, NextPfTypeOK
<1>2. {stopCh, subs, doneCh}' \subseteq BOOLEAN
  <2>1. CASE Run
    BY <1>0, <2>1, ChanSteps DEF TypeOK, Run, GiveUp, Drop, StopInBackoff,
       Reconnect, CloseSubs, ClosePf, CloseDone, chanVars
  <2>2. CASE ForwardPorts \/ HealthCheck \/ Stop \/ Machine
    BY <1>0, <2>2, ChanSteps DEF TypeOK, chanVars
  <2>3. CASE UNCHANGED vars
    BY <1>0, <2>3 DEF TypeOK, vars, chanVars
  <2>4. QED
    BY <2>1, <2>2, <2>3 DEF Next
<1>3. {hasPf, ready, closed}' \subseteq BOOLEAN
  <2>1. CASE RunOnce
    BY <1>0, <2>1 DEF TypeOK, RunOnce, DialFails, DialSucceeds, BecomeReady,
       FailBeforeReady, StopBeforeReady, DrainUnready, SeeDrop, DropOrStop,
       StopWhileReady, DrainReady, JoinStopped, ReceivePfErr, pfVars
  <2>2. CASE Run /\ ~RunOnce
    BY <1>0, <2>2 DEF TypeOK, Run, GiveUp, Drop, StopInBackoff, Reconnect,
       CloseSubs, ClosePf, CloseDone, pfVars
  <2>3. CASE ForwardPorts \/ HealthCheck
    BY <1>0, <2>3 DEF TypeOK, ForwardPorts, FpFails, FpListens, FpStops, FpLost,
       ReturnFp, HealthCheck, ProbeStops, ProbeTick, ProbePasses,
       ProbeDials, ProbeFails, pfVars
  <2>4. CASE Stop \/ Machine
    BY <1>0, <2>4 DEF TypeOK, Stop, CallStop, StopReturns, Machine, ListenerDies,
       OthersBind, OthersRelease, pfVars
  <2>5. CASE UNCHANGED vars
    BY <1>0, <2>5 DEF TypeOK, vars, pfVars
  <2>6. QED
    BY <2>1, <2>2, <2>3, <2>4, <2>5 DEF Next
<1>4. caller' \in [Callers -> {"idle", "waiting", "returned"}]
  <2>1. CASE Stop
    BY <1>0, <2>1 DEF TypeOK, Stop, CallStop, StopReturns
  <2>2. CASE Run
    BY <1>0, <2>2 DEF TypeOK, Run, RunOnce, DialFails, DialSucceeds, BecomeReady,
       FailBeforeReady, StopBeforeReady, DrainUnready, SeeDrop, DropOrStop,
       StopWhileReady, DrainReady, JoinStopped, GiveUp, Drop, StopInBackoff,
       Reconnect, CloseSubs, ClosePf, CloseDone
  <2>3. CASE ForwardPorts \/ HealthCheck \/ Machine
    BY <1>0, <2>3 DEF TypeOK, ForwardPorts, FpFails, FpListens, FpStops, FpLost,
       ReturnFp, HealthCheck, ProbeStops, ProbeTick, ProbePasses,
       ProbeDials, ProbeFails, Machine, ListenerDies, OthersBind, OthersRelease
  <2>4. CASE UNCHANGED vars
    BY <1>0, <2>4 DEF TypeOK, vars
  <2>5. QED
    BY <2>1, <2>2, <2>3, <2>4 DEF Next
<1>5. QED
  BY <1>1, <1>2, <1>3, <1>4 DEF TypeOK

-----------------------------------------------------------------------------
(* The three parts of the invariant                                        *)

LEMMA NextStatusInv == ASSUME IInv, [Next]_vars PROVE StatusInv'
<1> USE DEF Closing, Lifecycle!Terminal
<1>0. TypeOK /\ RunTypeOK /\ StatusInv
  BY DEF IInv, TypeOK
<1>1. CASE RunOnce
  <2>1. UNCHANGED <<stopCh, subs, doneCh, caller>>
    BY <1>1, ChanSteps DEF chanVars, RunOnce, DialFails, DialSucceeds, BecomeReady,
       FailBeforeReady, StopBeforeReady, DrainUnready, SeeDrop, DropOrStop,
       StopWhileReady, DrainReady, JoinStopped
  <2>2. QED
    BY <1>0, <1>1, <2>1 DEF StatusInv, RunTypeOK, RunOnce, DialFails, DialSucceeds,
       BecomeReady, FailBeforeReady, StopBeforeReady, DrainUnready, SeeDrop,
       DropOrStop, StopWhileReady, DrainReady, JoinStopped, FailWith, Stopped, Goto
<1>2. CASE GiveUp \/ Drop \/ StopInBackoff \/ Reconnect
  BY <1>0, <1>2 DEF StatusInv, GiveUp, Drop, StopInBackoff, Reconnect, Stopped,
     chanVars
<1>3. CASE CloseSubs \/ ClosePf \/ CloseDone
  BY <1>0, <1>3 DEF StatusInv, CloseSubs, ClosePf, CloseDone, Goto, chanVars
<1>4. CASE ForwardPorts \/ HealthCheck \/ Machine
  <2>1. UNCHANGED <<runVars, chanVars, caller>>
    BY <1>4, OthersKeepRun, ChanSteps DEF ForwardPorts, FpFails, FpListens, FpStops,
       FpLost, ReturnFp, HealthCheck, ProbeStops, ProbeTick, ProbePasses,
       ProbeDials, ProbeFails, Machine, ListenerDies, OthersBind, OthersRelease
  <2>2. QED
    BY <1>0, <2>1 DEF StatusInv, runVars, chanVars
<1>5. CASE Stop
  <2>1. UNCHANGED runVars /\ UNCHANGED <<subs, doneCh>> /\ stopCh' \in {stopCh, TRUE}
    BY <1>5, OthersKeepRun, ChanSteps
  <2>2. \A c \in Callers : caller'[c] = "returned" => caller[c] = "returned" \/ doneCh
    BY <1>0, <1>5 DEF TypeOK, Stop, CallStop, StopReturns
  <2>3. QED
    BY <1>0, <2>1, <2>2 DEF StatusInv, runVars
<1>6. CASE UNCHANGED vars
  BY <1>0, <1>6 DEF StatusInv, vars, runVars, chanVars
<1>7. QED
  BY <1>1, <1>2, <1>3, <1>4, <1>5, <1>6 DEF Next, Run

LEMMA NextGoroutineInv == ASSUME IInv, [Next]_vars PROVE GoroutineInv'
<1> USE DEF Closing
<1>0. TypeOK /\ StatusInv /\ GoroutineInv
  BY DEF IInv
<1>1. CASE RunOnce
  BY <1>0, <1>1 DEF GoroutineInv, StatusInv, RunOnce, DialFails, DialSucceeds,
     BecomeReady, FailBeforeReady, StopBeforeReady, DrainUnready, SeeDrop,
     DropOrStop, StopWhileReady, DrainReady, JoinStopped, FailWith, Stopped, Goto,
     ReceivePfErr, JoinProbe, chanVars, pfVars, probeVars
<1>2. CASE GiveUp \/ Drop \/ StopInBackoff \/ Reconnect \/ CloseSubs \/ ClosePf \/ CloseDone
  BY <1>0, <1>2 DEF GoroutineInv, GiveUp, Drop, StopInBackoff, Reconnect, CloseSubs,
     ClosePf, CloseDone, Stopped, Goto, chanVars, pfVars, probeVars
<1>3. CASE ForwardPorts
  BY <1>0, <1>3, OthersKeepRun DEF GoroutineInv, ForwardPorts, FpFails, FpListens,
     FpStops, FpLost, ReturnFp, runVars, chanVars, probeVars
<1>4. CASE HealthCheck
  BY <1>0, <1>4, OthersKeepRun DEF GoroutineInv, HealthCheck, ProbeStops, ProbeTick,
     ProbePasses, ProbeDials, ProbeFails, runVars, chanVars, pfVars
<1>5. CASE Stop
  BY <1>0, <1>5 DEF GoroutineInv, TypeOK, Stop, CallStop, StopReturns, runVars,
     chanVars, pfVars, probeVars
<1>6. CASE Machine
  BY <1>0, <1>6 DEF GoroutineInv, Machine, ListenerDies, OthersBind, OthersRelease,
     runVars, chanVars, pfVars, probeVars
<1>7. CASE UNCHANGED vars
  BY <1>0, <1>7 DEF GoroutineInv, vars, runVars, chanVars, pfVars, probeVars
<1>8. QED
  BY <1>1, <1>2, <1>3, <1>4, <1>5, <1>6, <1>7 DEF Next, Run

\* The history moves only when an attempt fails, and then by one place.
LEMMA NextCountInv == ASSUME IInv, [Next]_vars PROVE CountInv'
<1> USE DEF Closing, Lifecycle!Terminal
<1>0. /\ RunTypeOK /\ PfTypeOK /\ StatusInv /\ CountInv
      /\ MaxStaleAttempts \in Nat \ {0}
      /\ notFoundCount \in 0 .. MaxStaleAttempts
  BY ForwardAssumption DEF IInv, TypeOK, RunTypeOK
<1>1. CASE RunOnce
  <2>1. status' = "stale" <=> status = "stale"
    BY <1>0, <1>1 DEF StatusInv, RunOnce, DialFails, DialSucceeds, BecomeReady,
       FailBeforeReady, StopBeforeReady, DrainUnready, SeeDrop, DropOrStop,
       StopWhileReady, DrainReady, JoinStopped, FailWith, Stopped, Goto
  <2>2. pc' \in {"failed", "joinProbe"} => err' \in Error
    BY <1>0, <1>1 DEF CountInv, PfTypeOK, Error, ErrOr, RunOnce, DialFails,
       DialSucceeds, BecomeReady, FailBeforeReady, StopBeforeReady, DrainUnready,
       SeeDrop, DropOrStop, StopWhileReady, DrainReady, JoinStopped, FailWith,
       Stopped, Goto
  <2>3. pc \notin {"backoff"} \cup Closing /\ pc' # "backoff"
    BY <1>1 DEF RunOnce, DialFails, DialSucceeds, BecomeReady, FailBeforeReady,
       StopBeforeReady, DrainUnready, SeeDrop, DropOrStop, StopWhileReady,
       DrainReady, JoinStopped, FailWith, Stopped, Goto
  <2>4. QED
    BY <1>0, <1>1, <2>1, <2>2, <2>3, RunOnceKeepsCounters DEF CountInv
<1>2. CASE GiveUp
  <2>1. /\ notFoundCount' = MaxStaleAttempts
        /\ notFoundCount = MaxStaleAttempts - 1
    BY <1>0, <1>2 DEF GiveUp, CountInv, StatusInv
  <2>2. \A i \in 1 .. MaxStaleAttempts : hist'[i] = "missing"
    BY <1>0, <1>2, <2>1 DEF GiveUp, CountInv, Remember
  <2>3. QED
    BY <1>0, <1>2, <2>1, <2>2 DEF GiveUp, CountInv
<1>3. CASE Drop
  <2>1. err \in Error
    BY <1>0, <1>3 DEF Drop, CountInv
  <2>2. /\ notFoundCount' \in Nat
        /\ notFoundCount' < MaxStaleAttempts
    BY <1>0, <1>3 DEF Drop, CountInv, StatusInv
  <2>3. \A i \in 1 .. notFoundCount' : hist'[i] = "missing"
    BY <1>0, <1>3 DEF Drop, CountInv, Remember
  <2>4. hist'[notFoundCount' + 1] # "missing"
    <3>1. CASE err = "missing"
      <4>1. notFoundCount' + 1 \in 2 .. MaxStaleAttempts
        BY <1>0, <1>3, <3>1, <2>2 DEF Drop
      <4>2. hist'[notFoundCount' + 1] = hist[notFoundCount + 1]
        BY <1>0, <1>3, <3>1, <4>1 DEF Drop, Remember
      <4>3. QED
        BY <1>0, <1>3, <3>1, <2>2, <4>2 DEF Drop, CountInv
    <3>2. CASE err # "missing"
      BY <1>0, <1>3, <3>2 DEF Drop, Remember
    <3>3. QED
      BY <3>1, <3>2
  <2>5. QED
    BY <1>0, <1>3, <2>1, <2>2, <2>3, <2>4 DEF Drop, CountInv
<1>4. CASE StopInBackoff \/ Reconnect \/ CloseSubs \/ ClosePf \/ CloseDone
  BY <1>0, <1>4 DEF CountInv, StatusInv, StopInBackoff, Reconnect, CloseSubs,
     ClosePf, CloseDone, Stopped, Goto
<1>5. CASE ForwardPorts \/ HealthCheck \/ Stop \/ Machine
  BY <1>0, <1>5, OthersKeepRun DEF CountInv, runVars
<1>6. CASE UNCHANGED vars
  BY <1>0, <1>6 DEF CountInv, vars, runVars
<1>7. QED
  BY <1>1, <1>2, <1>3, <1>4, <1>5, <1>6 DEF Next, Run

-----------------------------------------------------------------------------
(* The theorems                                                            *)

\* IInv holds in every reachable state of a forward.
THEOREM InvariantHolds == Spec => []IInv
<1>1. IInv /\ [Next]_vars => IInv'
  BY NextTypeOK, NextStatusInv, NextGoroutineInv, NextCountInv DEF IInv
<1>2. QED
  BY InitIInv, <1>1, PTL DEF Spec

\* Every variable keeps its type.
THEOREM TypeCorrect == Spec => []TypeOK
<1>1. IInv => TypeOK
  BY DEF IInv
<1>2. QED
  BY InvariantHolds, <1>1, PTL

\* Once doneCh is closed, so once Stop returns, no port is bound and no
\* goroutine of the forward is left (shutdown, runOnce's receives).
THEOREM DoneIsClean == Spec => []DoneLeavesNothing
<1>1. IInv => DoneLeavesNothing
  BY DEF IInv, StatusInv, GoroutineInv, Closing, DoneLeavesNothing
<1>2. QED
  BY InvariantHolds, <1>1, PTL

\* No ForwardPorts and no health check survives the attempt it was started by.
THEOREM AttemptsAreSeparate == Spec => []NoGoroutineOutlivesItsAttempt
<1>1. IInv => NoGoroutineOutlivesItsAttempt
  BY DEF IInv, GoroutineInv, NoGoroutineOutlivesItsAttempt
<1>2. QED
  BY InvariantHolds, <1>1, PTL

\* A forward is stale exactly after MaxStaleAttempts "not found" in a row.
THEOREM StaleIsDeserved == Spec => []StaleAfterMissingInARow
<1>1. ASSUME IInv PROVE StaleAfterMissingInARow
  <2>1. status = "stale" => \A i \in 1 .. MaxStaleAttempts : hist[i] = "missing"
    BY <1>1 DEF IInv, CountInv
  <2>2. ASSUME pc = "backoff"
        PROVE  \E i \in 1 .. MaxStaleAttempts : hist[i] # "missing"
    <3>1. notFoundCount \in 0 .. MaxStaleAttempts /\ status # "stale"
      BY <1>1, <2>2 DEF IInv, TypeOK, RunTypeOK, StatusInv, Closing, Lifecycle!Terminal
    <3>2. notFoundCount + 1 \in 1 .. MaxStaleAttempts
      BY <1>1, <3>1, ForwardAssumption DEF IInv, CountInv
    <3>3. hist[notFoundCount + 1] # "missing"
      BY <1>1, <3>1, <3>2, ForwardAssumption DEF IInv, CountInv
    <3>4. QED
      BY <3>2, <3>3
  <2>3. QED
    BY <2>1, <2>2 DEF StaleAfterMissingInARow
<1>2. QED
  BY InvariantHolds, <1>1, PTL

\* Whoever returns from Stop finds the forward terminated and the ports free.
THEOREM StopIsLast == Spec => []StopReturnsLast
<1>1. IInv => StopReturnsLast
  BY DEF IInv, StatusInv, GoroutineInv, Closing, StopReturnsLast
<1>2. QED
  BY InvariantHolds, <1>1, PTL

\* While Run waits for a drop, Ready was closed and a health check is there.
THEOREM ReadyHasProbe == Spec => []ReadyIsWatched
<1>1. IInv => ReadyIsWatched
  BY DEF IInv, GoroutineInv, ReadyIsWatched
<1>2. QED
  BY InvariantHolds, <1>1, PTL

-----------------------------------------------------------------------------
(* The forward implements ForwardLifecycle                                 *)

LEMMA InitRefines == Init => Lifecycle!Init
BY DEF Init, Lifecycle!Init

\* Every step of Run is the abstract step its name says, or moves listeners.
LEMMA RunRefines ==
  ASSUME IInv, Run
  PROVE  [Lifecycle!Next]_(Lifecycle!vars)
<1> USE DEF Closing, Lifecycle!Terminal, Lifecycle!Active, Lifecycle!vars, Lifecycle!Next
<1>0. TypeOK /\ RunTypeOK /\ StatusInv /\ GoroutineInv
  BY DEF IInv, TypeOK
<1>1. CASE DialFails \/ FailBeforeReady \/ StopBeforeReady \/ SeeDrop
           \/ StopWhileReady \/ DrainReady \/ Reconnect
  BY <1>1 DEF DialFails, FailBeforeReady, StopBeforeReady, SeeDrop, StopWhileReady,
     DrainReady, Reconnect, FailWith, Goto, ReceivePfErr, chanVars, pfVars
<1>2. CASE DialSucceeds
  <2>1. Lifecycle!MoveListeners
    BY <1>0, <1>2 DEF DialSucceeds, Goto, StatusInv, chanVars, Lifecycle!MoveListeners
  <2>2. QED
    BY <2>1
<1>3. CASE BecomeReady
  <2>1. Lifecycle!BecomeReady
    BY <1>0, <1>3 DEF BecomeReady, StatusInv, chanVars, pfVars, Lifecycle!BecomeReady
  <2>2. QED
    BY <2>1
<1>4. CASE DrainUnready \/ JoinStopped \/ StopInBackoff
  <2>1. status \in Lifecycle!Active
    BY <1>0, <1>4 DEF RunTypeOK, StatusInv, DrainUnready, JoinStopped, StopInBackoff
  <2>2. Lifecycle!Halt
    BY <1>0, <1>4, <2>1 DEF DrainUnready, JoinStopped, StopInBackoff, Stopped,
       ReceivePfErr, StatusInv, chanVars, pfVars, Lifecycle!Halt
  <2>3. QED
    BY <2>2
<1>5. CASE DropOrStop
  <2>1. status \in Lifecycle!Active
    BY <1>0, <1>5 DEF RunTypeOK, StatusInv, DropOrStop
  <2>2. CASE stopCh
    <3>1. Lifecycle!Halt
      BY <1>5, <2>1, <2>2 DEF DropOrStop, Stopped, chanVars, pfVars, Lifecycle!Halt
    <3>2. QED
      BY <3>1
  <2>3. CASE ~stopCh
    BY <1>5, <2>3 DEF DropOrStop, FailWith, chanVars, pfVars
  <2>4. QED
    BY <2>2, <2>3
<1>6. CASE GiveUp
  <2>1. Lifecycle!GoStale
    BY <1>0, <1>6 DEF RunTypeOK, StatusInv, GiveUp, chanVars, pfVars, Lifecycle!GoStale
  <2>2. QED
    BY <2>1
<1>7. CASE Drop
  <2>1. Lifecycle!Drop
    BY <1>0, <1>7 DEF RunTypeOK, StatusInv, Drop, chanVars, pfVars, Lifecycle!Drop
  <2>2. QED
    BY <2>1
<1>8. CASE CloseSubs
  <2>1. Lifecycle!CloseSubs
    BY <1>0, <1>8 DEF StatusInv, CloseSubs, Goto, pfVars, Lifecycle!CloseSubs
  <2>2. QED
    BY <2>1
<1>9. CASE ClosePf
  <2>1. Lifecycle!MoveListeners
    BY <1>0, <1>9 DEF StatusInv, ClosePf, Goto, chanVars, Lifecycle!MoveListeners
  <2>2. QED
    BY <2>1
<1>10. CASE CloseDone
  <2>1. Lifecycle!Finish
    BY <1>0, <1>10 DEF StatusInv, GoroutineInv, CloseDone, Goto, pfVars, Lifecycle!Finish
  <2>2. QED
    BY <2>1
<1>11. QED
  BY <1>1, <1>2, <1>3, <1>4, <1>5, <1>6, <1>7, <1>8, <1>9, <1>10 DEF Run, RunOnce

\* The other goroutines and the machine move listeners, and a caller of Stop
\* requests the stop.  All their steps on listeners come before doneCh closes.
LEMMA OthersRefine ==
  ASSUME IInv, ForwardPorts \/ HealthCheck \/ Stop \/ Machine
  PROVE  [Lifecycle!Next]_(Lifecycle!vars)
<1> USE DEF Closing, Lifecycle!vars, Lifecycle!Next
<1>0. TypeOK /\ StatusInv /\ GoroutineInv
  BY DEF IInv
<1>1. UNCHANGED runVars
  BY OthersKeepRun
<1>2. CASE Stop
  <2>1. UNCHANGED <<status, subs, doneCh, listeners>>
    BY <1>1, <1>2 DEF Stop, CallStop, StopReturns, runVars, chanVars, pfVars
  <2>2. CASE UNCHANGED stopCh
    BY <2>1, <2>2
  <2>3. CASE stopCh' = TRUE
    <3>1. Lifecycle!RequestStop
      BY <2>1, <2>3 DEF Lifecycle!RequestStop
    <3>2. QED
      BY <3>1
  <2>4. QED
    BY <1>2, <2>2, <2>3, ChanSteps
<1>3. CASE ForwardPorts \/ HealthCheck \/ Machine
  <2>1. UNCHANGED <<status, stopCh, subs, doneCh>>
    BY <1>1, <1>3, ChanSteps DEF runVars, chanVars
  <2>2. doneCh => UNCHANGED listeners
    BY <1>0, <1>3 DEF StatusInv, GoroutineInv, ForwardPorts, FpFails, FpListens,
       FpStops, FpLost, ReturnFp, HealthCheck, ProbeStops, ProbeTick,
       ProbePasses, ProbeDials, ProbeFails, Machine, ListenerDies, OthersBind,
       OthersRelease, pfVars
  <2>3. CASE UNCHANGED listeners
    BY <2>1, <2>3
  <2>4. CASE ~doneCh
    <3>1. Lifecycle!MoveListeners
      BY <2>1, <2>4 DEF Lifecycle!MoveListeners
    <3>2. QED
      BY <3>1
  <2>5. QED
    BY <2>2, <2>3, <2>4
<1>4. QED
  BY <1>2, <1>3

\* The forward of forwarder.go implements the abstract forward.
THEOREM ForwardImplementsLifecycle == Spec => ImplementsLifecycle
<1>1. IInv /\ [Next]_vars => [Lifecycle!Next]_(Lifecycle!vars)
  <2> SUFFICES ASSUME IInv, [Next]_vars
               PROVE  [Lifecycle!Next]_(Lifecycle!vars)
    OBVIOUS
  <2>1. CASE Run
    BY <2>1, RunRefines
  <2>2. CASE ForwardPorts \/ HealthCheck \/ Stop \/ Machine
    BY <2>2, OthersRefine
  <2>3. CASE UNCHANGED vars
    BY <2>3 DEF vars, runVars, chanVars, pfVars, Lifecycle!vars
  <2>4. QED
    BY <2>1, <2>2, <2>3 DEF Next
<1>2. QED
  BY InitRefines, InvariantHolds, <1>1, PTL DEF Spec, ImplementsLifecycle, Lifecycle!Spec
=============================================================================
