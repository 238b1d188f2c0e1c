------------------------------ MODULE Forward ------------------------------
(***************************************************************************)
(* One port-forward of internal/forward/forwarder.go: the goroutine of     *)
(* Run, the goroutine it starts for ForwardPorts (client-go, external),    *)
(* the health-check goroutine, the callers of Stop, and what the machine   *)
(* around them does to the local ports.                                    *)
(***************************************************************************)
EXTENDS Naturals, FiniteSets

CONSTANTS
  Ports,              \* the local ports of spec.Ports
  Callers,            \* the goroutines that may call Stop
  MaxStaleAttempts,   \* forward.MaxStaleAttempts
  Foreign,            \* the ports other processes may bind (a subset of Ports)
  ReturnMayKeep       \* TRUE: ForwardPorts may return with listeners open

ASSUME ForwardAssumption ==
  /\ Ports # {}
  /\ MaxStaleAttempts \in Nat \ {0}
  /\ Foreign \subseteq Ports
  /\ ReturnMayKeep \in BOOLEAN

VARIABLES
  pc,             \* where the goroutine of Run is
  status,         \* f.status
  err,            \* the class of the error runOnce returned last
  notFoundCount,  \* Run's local counter
  attempt,        \* bo.attempt
  hist,           \* history: how the last attempts ended, newest first
  stopCh,         \* TRUE once f.stopCh is closed
  subs,           \* TRUE while the subscriber channels are open
  doneCh,         \* TRUE once f.doneCh is closed
  hasPf,          \* f.pf # nil
  fp,             \* the goroutine of ForwardPorts; "returned": pfErrCh is full
  fpErr,          \* the class of the error in pfErrCh
  ready,          \* TRUE once f.pf.Ready is closed
  closed,         \* TRUE once Close was called on f.pf
  listeners,      \* the local ports f.pf listens on
  probe,          \* the goroutine of runHealthCheck
  left,           \* the ports the current probe still has to dial
  foreign,        \* the local ports other processes listen on
  caller          \* where each caller of Stop is

runVars  == <<pc, status, err, notFoundCount, attempt, hist>>
chanVars == <<stopCh, subs, doneCh>>
pfVars   == <<hasPf, fp, fpErr, ready, closed, listeners>>
probeVars == <<probe, left>>
vars == <<runVars, chanVars, pfVars, probeVars, foreign, caller>>

\* isPodMissing splits errors in two classes; "nil" is no error.
Error == {"missing", "other"}

Locations == {"dial", "awaitReady", "drainUnready", "awaitDrop", "joinProbe",
              "drainReady", "joinStopped", "failed", "backoff",
              "closeSubs", "closePf", "closeDone", "exited"}

RunTypeOK ==
  /\ pc \in Locations
  /\ status \in {"starting", "ready", "dropped", "stopped", "stale"}
  /\ err \in Error \cup {"nil"}
  /\ notFoundCount \in 0 .. MaxStaleAttempts
  /\ attempt \in {0, 1}
  /\ hist \in [1 .. MaxStaleAttempts -> Error \cup {"none"}]

PfTypeOK ==
  /\ fp \in {"idle", "dialing", "serving", "returned"}
  /\ fpErr \in Error \cup {"nil"}
  /\ listeners \in SUBSET Ports
  /\ probe \in {"none", "ticking", "dialing", "exited"}
  /\ left \in SUBSET Ports
  /\ foreign \in SUBSET Foreign

TypeOK ==
  /\ RunTypeOK
  /\ PfTypeOK
  /\ {stopCh, subs, doneCh, hasPf, ready, closed} \subseteq BOOLEAN
  /\ caller \in [Callers -> {"idle", "waiting", "returned"}]

Init ==
  /\ pc = "dial"
  /\ status = "starting"
  /\ err = "nil"
  /\ notFoundCount = 0
  /\ attempt = 0
  /\ hist = [i \in 1 .. MaxStaleAttempts |-> "none"]
  /\ stopCh = FALSE
  /\ subs = TRUE
  /\ doneCh = FALSE
  /\ hasPf = FALSE
  /\ fp = "idle"
  /\ fpErr = "nil"
  /\ ready = FALSE
  /\ closed = FALSE
  /\ listeners = {}
  /\ probe = "none"
  /\ left = {}
  /\ foreign \in SUBSET Foreign
  /\ caller = [c \in Callers |-> "idle"]

-----------------------------------------------------------------------------
(* runOnce                                                                 *)

\* A failed attempt goes to Run's error handling.
FailWith(e) ==
  /\ pc' = "failed"
  /\ err' = e
  /\ UNCHANGED <<status, notFoundCount, attempt, hist>>

\* runOnce saw the stop: the status is set and Run returns through its defers.
Stopped ==
  /\ pc' = "closeSubs"
  /\ status' = "stopped"
  /\ UNCHANGED <<err, notFoundCount, attempt, hist>>

Goto(location) ==
  /\ pc' = location
  /\ UNCHANGED <<status, err, notFoundCount, attempt, hist>>

\* Receiving from pfErrCh ends the goroutine of ForwardPorts.
ReceivePfErr ==
  /\ fp = "returned"
  /\ fp' = "idle"
  /\ UNCHANGED <<hasPf, fpErr, ready, closed, listeners>>

\* errMsgOr: a nil error gets a text of its own, which is not "not found".
ErrOr(e) == IF e = "nil" THEN "other" ELSE e

\* dial fails before it replaces f.pf (kubeconfig, transport, bad address).
DialFails ==
  /\ pc = "dial"
  /\ \E e \in Error : FailWith(e)
  /\ UNCHANGED <<chanVars, pfVars, probeVars, foreign, caller>>

\* dial closes the previous portforwarder and installs a new one; runOnce
\* starts ForwardPorts on it.
DialSucceeds ==
  /\ pc = "dial"
  /\ Goto("awaitReady")
  /\ hasPf' = TRUE
  /\ fp' = "dialing"
  /\ fpErr' = "nil"
  /\ ready' = FALSE
  /\ closed' = FALSE
  /\ listeners' = {}
  /\ UNCHANGED <<chanVars, probeVars, foreign, caller>>

\* The first select, one action per case.
BecomeReady ==
  /\ pc = "awaitReady"
  /\ ready
  /\ pc' = "awaitDrop"
  /\ status' = "ready"
  /\ probe' = "ticking"
  /\ UNCHANGED <<err, notFoundCount, attempt, hist, left>>
  /\ UNCHANGED <<chanVars, pfVars, foreign, caller>>

FailBeforeReady ==
  /\ pc = "awaitReady"
  /\ ReceivePfErr
  /\ FailWith(ErrOr(fpErr))
  /\ UNCHANGED <<chanVars, probeVars, foreign, caller>>

StopBeforeReady ==
  /\ pc = "awaitReady"
  /\ stopCh
  /\ Goto("drainUnready")
  /\ UNCHANGED <<chanVars, pfVars, probeVars, foreign, caller>>

\* Slip: the stop returns without waiting for ForwardPorts.
DrainUnreadySkipped ==
  /\ pc = "drainUnready"
  /\ Stopped
  /\ UNCHANGED <<chanVars, pfVars, probeVars, foreign, caller>>

DrainUnready ==
  /\ pc = "drainUnready"
  /\ ReceivePfErr
  /\ Stopped
  /\ UNCHANGED <<chanVars, probeVars, foreign, caller>>

\* The second select.  On a drop runOnce first waits for the health check.
SeeDrop ==
  /\ pc = "awaitDrop"
  /\ ReceivePfErr
  /\ pc' = "joinProbe"
  /\ err' = ErrOr(fpErr)
  /\ UNCHANGED <<status, notFoundCount, attempt, hist>>
  /\ UNCHANGED <<chanVars, probeVars, foreign, caller>>

JoinProbe ==
  /\ probe = "exited"
  /\ probe' = "none"
  /\ UNCHANGED left

\* Slip: the drop is handled without waiting for the health check.
DropWithoutJoin ==
  /\ pc = "joinProbe"
  /\ IF stopCh THEN Stopped ELSE FailWith(err)
  /\ UNCHANGED <<chanVars, pfVars, probeVars, foreign, caller>>

DropOrStop ==
  /\ pc = "joinProbe"
  /\ JoinProbe
  /\ IF stopCh THEN Stopped ELSE FailWith(err)
  /\ UNCHANGED <<chanVars, pfVars, foreign, caller>>

StopWhileReady ==
  /\ pc = "awaitDrop"
  /\ stopCh
  /\ Goto("drainReady")
  /\ UNCHANGED <<chanVars, pfVars, probeVars, foreign, caller>>

DrainReady ==
  /\ pc = "drainReady"
  /\ ReceivePfErr
  /\ Goto("joinStopped")
  /\ UNCHANGED <<chanVars, probeVars, foreign, caller>>

JoinStopped ==
  /\ pc = "joinStopped"
  /\ JoinProbe
  /\ Stopped
  /\ UNCHANGED <<chanVars, pfVars, foreign, caller>>

-----------------------------------------------------------------------------
(* Run: what follows a failed attempt, and the deferred calls              *)

\* The history variable: the outcome of the attempt that just failed.
Remember ==
  hist' = [i \in 1 .. MaxStaleAttempts |-> IF i = 1 THEN err ELSE hist[i - 1]]

GiveUp ==
  /\ pc = "failed"
  /\ err = "missing"
  /\ notFoundCount + 1 >= MaxStaleAttempts
  /\ notFoundCount' = notFoundCount + 1
  /\ pc' = "closeSubs"
  /\ status' = "stale"
  /\ Remember
  /\ UNCHANGED <<err, attempt>>
  /\ UNCHANGED <<chanVars, pfVars, probeVars, foreign, caller>>

\* Slip: only a success resets the count of missing pods.
DropWithoutReset ==
  /\ pc = "failed"
  /\ err = "missing" => notFoundCount + 1 < MaxStaleAttempts
  /\ notFoundCount' = IF err = "missing" THEN notFoundCount + 1 ELSE notFoundCount
  /\ attempt' = attempt + 1
  /\ pc' = "backoff"
  /\ status' = "dropped"
  /\ Remember
  /\ UNCHANGED err
  /\ UNCHANGED <<chanVars, pfVars, probeVars, foreign, caller>>

Drop ==
  /\ pc = "failed"
  /\ err = "missing" => notFoundCount + 1 < MaxStaleAttempts
  /\ notFoundCount' = IF err = "missing" THEN notFoundCount + 1 ELSE 0
  /\ attempt' = attempt + 1
  /\ pc' = "backoff"
  /\ status' = "dropped"
  /\ Remember
  /\ UNCHANGED err
  /\ UNCHANGED <<chanVars, pfVars, probeVars, foreign, caller>>

StopInBackoff ==
  /\ pc = "backoff"
  /\ stopCh
  /\ Stopped
  /\ UNCHANGED <<chanVars, pfVars, probeVars, foreign, caller>>

\* Slip: the backoff is not reset, so the attempts pass every bound.
ReconnectWithoutReset ==
  /\ pc = "backoff"
  /\ Goto("dial")
  /\ UNCHANGED <<chanVars, pfVars, probeVars, foreign, caller>>

Reconnect ==
  /\ pc = "backoff"
  /\ pc' = "dial"
  /\ attempt' = 0
  /\ UNCHANGED <<status, err, notFoundCount, hist>>
  /\ UNCHANGED <<chanVars, pfVars, probeVars, foreign, caller>>

\* shutdown: first the subscribers, then the portforwarder.
CloseSubs ==
  /\ pc = "closeSubs"
  /\ Goto("closePf")
  /\ subs' = FALSE
  /\ UNCHANGED <<stopCh, doneCh, pfVars, probeVars, foreign, caller>>

\* Slip: shutdown forgets the portforwarder but does not close it.
ForgetPf ==
  /\ pc = "closePf"
  /\ Goto("closeDone")
  /\ hasPf' = FALSE
  /\ UNCHANGED <<fp, fpErr, ready, closed, listeners>>
  /\ UNCHANGED <<chanVars, probeVars, foreign, caller>>

ClosePf ==
  /\ pc = "closePf"
  /\ Goto("closeDone")
  /\ hasPf' = FALSE
  /\ closed' = (closed \/ hasPf)
  /\ listeners' = IF hasPf THEN {} ELSE listeners
  /\ UNCHANGED <<fp, fpErr, ready, chanVars, probeVars, foreign, caller>>

CloseDone ==
  /\ pc = "closeDone"
  /\ Goto("exited")
  /\ doneCh' = TRUE
  /\ UNCHANGED <<stopCh, subs, pfVars, probeVars, foreign, caller>>

-----------------------------------------------------------------------------
(* ForwardPorts (client-go, external)                                      *)

\* ForwardPorts returns e into pfErrCh.  Its listeners are closed, unless
\* ReturnMayKeep lets them stay until somebody calls Close.
ReturnFp(e) ==
  /\ fp' = "returned"
  /\ fpErr' = e
  /\ listeners' \in IF ReturnMayKeep THEN {listeners, {}} ELSE {{}}
  /\ UNCHANGED <<hasPf, ready, closed>>
  /\ UNCHANGED <<runVars, chanVars, probeVars, foreign, caller>>

\* The SPDY dial does not look at stopCh; it fails, or all ports are refused.
FpFails ==
  /\ fp = "dialing"
  /\ \E e \in Error : ReturnFp(e)

\* It listens on the ports it can get and is ready if there is at least one.
FpListens ==
  /\ fp = "dialing"
  /\ Ports \ foreign # {}
  /\ fp' = "serving"
  /\ ready' = TRUE
  /\ listeners' = Ports \ foreign
  /\ UNCHANGED <<hasPf, fpErr, closed>>
  /\ UNCHANGED <<runVars, chanVars, probeVars, foreign, caller>>

FpStops == fp = "serving" /\ stopCh /\ ReturnFp("nil")

\* The stream connection is lost.  Close is no such loss: it closes the
\* listeners, and ForwardPorts waits for stopCh or for the connection.
FpLost == fp = "serving" /\ ReturnFp("other")

-----------------------------------------------------------------------------
(* runHealthCheck and probeLocalPorts                                      *)

\* Slip: the health check looks at the portforwarder, not at stopCh.
ProbeStopsOnClose ==
  /\ probe = "ticking"
  /\ closed
  /\ probe' = "exited"
  /\ UNCHANGED <<left, runVars, chanVars, pfVars, foreign, caller>>

ProbeStops ==
  /\ probe = "ticking"
  /\ stopCh
  /\ probe' = "exited"
  /\ UNCHANGED <<left, runVars, chanVars, pfVars, foreign, caller>>

ProbeTick ==
  /\ probe = "ticking"
  /\ hasPf
  /\ probe' = "dialing"
  /\ left' = Ports
  /\ UNCHANGED <<runVars, chanVars, pfVars, foreign, caller>>

\* The dial only sees that somebody listens on the port.
Dialable(p) == p \in listeners \cup foreign

ProbeDials(p) ==
  /\ probe = "dialing"
  /\ p \in left
  /\ Dialable(p)
  /\ left' = left \ {p}
  /\ UNCHANGED <<probe, runVars, chanVars, pfVars, foreign, caller>>

ProbePasses ==
  /\ probe = "dialing"
  /\ left = {}
  /\ probe' = "ticking"
  /\ UNCHANGED <<left, runVars, chanVars, pfVars, foreign, caller>>

\* Slip: having closed the portforwarder, the health check goes on ticking.
ProbeFailsAndStays(p) ==
  /\ probe = "dialing"
  /\ p \in left
  /\ ~Dialable(p)
  /\ probe' = "ticking"
  /\ left' = {}
  /\ closed' = TRUE
  /\ listeners' = {}
  /\ UNCHANGED <<hasPf, fp, fpErr, ready, runVars, chanVars, foreign, caller>>

\* Slip: the health check ends without closing the portforwarder.
ProbeFailsQuietly(p) ==
  /\ probe = "dialing"
  /\ p \in left
  /\ ~Dialable(p)
  /\ probe' = "exited"
  /\ left' = {}
  /\ UNCHANGED <<runVars, chanVars, pfVars, foreign, caller>>

ProbeFails(p) ==
  /\ probe = "dialing"
  /\ p \in left
  /\ ~Dialable(p)
  /\ probe' = "exited"
  /\ left' = {}
  /\ closed' = TRUE
  /\ listeners' = {}
  /\ UNCHANGED <<hasPf, fp, fpErr, ready, runVars, chanVars, foreign, caller>>

-----------------------------------------------------------------------------
(* The callers of Stop, and the machine                                    *)

CallStop(c) ==
  /\ caller[c] = "idle"
  /\ caller' = [caller EXCEPT ![c] = "waiting"]
  /\ stopCh' = TRUE
  /\ UNCHANGED <<subs, doneCh, runVars, pfVars, probeVars, foreign>>

StopReturns(c) ==
  /\ caller[c] = "waiting"
  /\ doneCh
  /\ caller' = [caller EXCEPT ![c] = "returned"]
  /\ UNCHANGED <<runVars, chanVars, pfVars, probeVars, foreign>>

\* "accept loop crashed or the port was externally closed"
ListenerDies(p) ==
  /\ fp = "serving"
  /\ p \in listeners
  /\ listeners' = listeners \ {p}
  /\ UNCHANGED <<hasPf, fp, fpErr, ready, closed>>
  /\ UNCHANGED <<runVars, chanVars, probeVars, foreign, caller>>

OthersBind(p) ==
  /\ p \in Foreign \ (listeners \cup foreign)
  /\ foreign' = foreign \cup {p}
  /\ UNCHANGED <<runVars, chanVars, pfVars, probeVars, caller>>

OthersRelease(p) ==
  /\ p \in foreign
  /\ foreign' = foreign \ {p}
  /\ UNCHANGED <<runVars, chanVars, pfVars, probeVars, caller>>

-----------------------------------------------------------------------------

RunOnce ==
  \/ DialFails \/ DialSucceeds
  \/ BecomeReady \/ FailBeforeReady \/ StopBeforeReady \/ DrainUnready
  \/ SeeDrop \/ DropOrStop \/ StopWhileReady \/ DrainReady \/ JoinStopped

Run ==
  \/ RunOnce
  \/ GiveUp \/ Drop \/ StopInBackoff \/ Reconnect
  \/ CloseSubs \/ ClosePf \/ CloseDone

ForwardPorts == FpFails \/ FpListens \/ FpStops \/ FpLost

HealthCheck ==
  \/ ProbeStops \/ ProbeTick \/ ProbePasses
  \/ \E p \in Ports : ProbeDials(p) \/ ProbeFails(p)

Stop == \E c \in Callers : CallStop(c) \/ StopReturns(c)

Machine ==
  \E p \in Ports : ListenerDies(p) \/ OthersBind(p) \/ OthersRelease(p)

Next == Run \/ ForwardPorts \/ HealthCheck \/ Stop \/ Machine

Spec == Init /\ [][Next]_vars

\* Every goroutine runs; the SPDY dial ends one way or the other; a stream
\* whose stopCh is closed ends; a select that keeps finding its stop case
\* ready takes it some day (Go picks among the ready cases at random).
\* Nothing obliges users, pods, connections or other processes to act.
Fairness ==
  /\ WF_vars(Run)
  /\ SF_vars(StopInBackoff)
  /\ WF_vars(FpFails \/ FpListens)
  /\ WF_vars(FpStops)
  /\ WF_vars(HealthCheck)
  /\ SF_vars(ProbeStops)
  /\ WF_vars(\E c \in Callers : StopReturns(c))

FairSpec == Spec /\ Fairness

-----------------------------------------------------------------------------
(* Properties                                                              *)

\* What the forward looks like from outside.
Lifecycle == INSTANCE ForwardLifecycle WITH holding <- listeners # {}

\* The forward keeps the promise of ForwardLifecycle: statuses, channel
\* closing, and the return of Stop come in the promised order, whatever the
\* goroutines, the pods and the other processes do (Forward.Run and shutdown).
ImplementsLifecycle == Lifecycle!Spec

\* When doneCh is closed, so when Stop returns, no local port of the forward
\* is bound and none of its goroutines is left: "listeners can stay bound to
\* their local ports even after the forward goroutine returns" is what
\* shutdown and the receives from pfErrCh and healthDone are there to prevent.
DoneLeavesNothing ==
  doneCh => listeners = {} /\ fp = "idle" /\ probe = "none"

\* A goroutine started by one attempt is gone before the next one dials, so
\* the health check never closes the portforwarder of a later attempt and two
\* ForwardPorts never compete for the ports (runOnce's receives).
NoGoroutineOutlivesItsAttempt ==
  pc \in {"dial", "failed", "backoff"} => fp = "idle" /\ probe = "none"

\* A forward is given up exactly when the last MaxStaleAttempts attempts in a
\* row found the pod missing: no other error in between, and never one more
\* attempt after that (Run's notFoundCount).
StaleAfterMissingInARow ==
  LET AllMissing == \A i \in 1 .. MaxStaleAttempts : hist[i] = "missing"
  IN  /\ status = "stale" => AllMissing
      /\ pc = "backoff" => ~AllMissing

\* Whoever called Stop and came back sees a stopped or stale forward, and a
\* stop that returned was not overtaken by a reconnect (Stop, Run).
StopReturnsLast ==
  \A c \in Callers : caller[c] = "returned" =>
    status \in Lifecycle!Terminal /\ listeners = {} /\ pc = "exited"

\* "ready" is announced only with a portforwarder whose Ready is closed, and a
\* health check watches it as long as Run waits for a drop, unless the check
\* itself has closed the portforwarder (runOnce between the two selects).
ReadyIsWatched ==
  pc = "awaitDrop" =>
    ready /\ probe # "none" /\ (probe = "exited" => closed \/ stopCh)

\* A requested stop ends the forward, whatever state it is in.
StopTerminates == stopCh ~> doneCh

\* A forward that lost its connection does not stay "ready", unless somebody
\* else answers on all of its ports: runOnce waits for the health check, which
\* sees no more than that a dial fails (runOnce's receive from healthDone).
DropIsHandled ==
  \A p \in Ports :
    status = "ready" /\ fp # "serving" /\ ~Dialable(p) ~> status # "ready" \/ Dialable(p)

\* A forward one of whose ports stays dead does not keep the others: the health
\* check closes them all (probeLocalPorts).  The forward stays "ready" then, as
\* long as the connection lives: see DeadPortNoticed.
DeadPortReleasesTheOthers ==
  \A p \in Ports :
    status = "ready" /\ ~Dialable(p) ~> status # "ready" \/ Dialable(p) \/ listeners = {}

\* forwarder.go:334-339 says that Close, called for a dead port, makes
\* ForwardPorts return and that Run surfaces this as a drop: a forward one of
\* whose ports stays dead does not stay "ready".
DeadPortNoticed ==
  \A p \in Ports :
    status = "ready" /\ ~Dialable(p) ~> status # "ready" \/ Dialable(p)

-----------------------------------------------------------------------------
(* Why the safety properties hold                                          *)

Closing == {"closeSubs", "closePf", "closeDone", "exited"}

\* The status follows the place Run has reached.
StatusInv ==
  /\ status \in Lifecycle!Terminal <=> pc \in Closing
  /\ pc \in {"backoff", "dial", "awaitReady", "drainUnready"} =>
       status \in {"starting", "dropped"}
  /\ pc \in {"drainUnready", "drainReady", "joinStopped"} => stopCh
  /\ status = "stopped" => stopCh
  /\ subs <=> pc \notin {"closePf", "closeDone", "exited"}
  /\ doneCh <=> pc = "exited"
  /\ \A c \in Callers : caller[c] = "returned" => doneCh

\* The goroutines of an attempt live between their start and their join, and
\* only they and f.pf keep ports bound.
GoroutineInv ==
  /\ pc \in {"dial", "joinProbe", "joinStopped", "failed", "backoff"} \cup Closing
       => fp = "idle"
  /\ pc \in {"dial", "awaitReady", "drainUnready", "failed", "backoff"} \cup Closing
       => probe = "none"
  /\ pc \in {"awaitDrop", "drainReady"} => ready
  /\ pc \in {"awaitDrop", "drainReady", "joinProbe", "joinStopped"} => probe # "none"
  /\ probe = "exited" => closed \/ stopCh
  /\ fp # "idle" => hasPf
  /\ listeners # {} => hasPf
  /\ pc \in {"closeDone", "exited"} => ~hasPf

\* notFoundCount is the length of the run of "missing" that ends the history.
CountInv ==
  /\ \A i \in 1 .. notFoundCount : hist[i] = "missing"
  /\ notFoundCount < MaxStaleAttempts => hist[notFoundCount + 1] # "missing"
  /\ status = "stale" <=> notFoundCount = MaxStaleAttempts
  /\ pc \in {"failed", "joinProbe"} => err \in Error
  /\ pc \notin {"backoff"} \cup Closing => attempt = 0

\* The inductive invariant: the three parts together with the types.
IInv == TypeOK /\ StatusInv /\ GoroutineInv /\ CountInv
=============================================================================
