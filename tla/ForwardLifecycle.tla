-------------------------- MODULE ForwardLifecycle --------------------------
(***************************************************************************)
(* What one port-forward promises to the code around it (the manager, the  *)
(* daemon's persistence goroutine, the IPC watchers): the statuses it goes *)
(* through, when its event channels close, when Stop may return, and that  *)
(* it holds no local port once it is done.  Module Forward describes how   *)
(* internal/forward/forwarder.go keeps this promise.                       *)
(***************************************************************************)

VARIABLES
  status,   \* f.status
  stopCh,   \* TRUE once f.stopCh is closed
  subs,     \* TRUE while the subscriber channels are open
  doneCh,   \* TRUE once f.doneCh is closed
  holding   \* TRUE while some local port of the forward is bound

vars == <<status, stopCh, subs, doneCh, holding>>

Active   == {"starting", "ready", "dropped"}
Terminal == {"stopped", "stale"}
Status   == Active \cup Terminal

TypeOK ==
  /\ status \in Status
  /\ stopCh \in BOOLEAN
  /\ subs \in BOOLEAN
  /\ doneCh \in BOOLEAN
  /\ holding \in BOOLEAN

Init ==
  /\ status = "starting"
  /\ stopCh = FALSE
  /\ subs = TRUE
  /\ doneCh = FALSE
  /\ holding = FALSE

-----------------------------------------------------------------------------

\* The user asks the forward to stop.  Asking again changes nothing.
RequestStop ==
  /\ stopCh' = TRUE
  /\ UNCHANGED <<status, subs, doneCh, holding>>

\* A ready forward was starting or dropped before: ready is announced once
\* per connection.
BecomeReady ==
  /\ status \in {"starting", "dropped"}
  /\ status' = "ready"
  /\ UNCHANGED <<stopCh, subs, doneCh, holding>>

Drop ==
  /\ status \in Active
  /\ status' = "dropped"
  /\ UNCHANGED <<stopCh, subs, doneCh, holding>>

\* Giving up follows earlier failures, all of them announced as drops.
GoStale ==
  /\ status \in Active
  /\ status' = "stale"
  /\ UNCHANGED <<stopCh, subs, doneCh, holding>>

\* Only a requested stop stops a forward.
Halt ==
  /\ stopCh
  /\ status \in Active
  /\ status' = "stopped"
  /\ UNCHANGED <<stopCh, subs, doneCh, holding>>

\* Ports are bound and released while the forward runs, in any status.
MoveListeners ==
  /\ ~doneCh
  /\ holding' \in BOOLEAN
  /\ UNCHANGED <<status, stopCh, subs, doneCh>>

\* The subscriber channels close after the last status is set ...
CloseSubs ==
  /\ status \in Terminal
  /\ subs
  /\ subs' = FALSE
  /\ UNCHANGED <<status, stopCh, doneCh, holding>>

\* ... and whoever waits in Stop wakes up after that, with the ports free.
Finish ==
  /\ ~subs
  /\ ~holding
  /\ ~doneCh
  /\ doneCh' = TRUE
  /\ UNCHANGED <<status, stopCh, subs, holding>>

Next ==
  \/ RequestStop
  \/ BecomeReady
  \/ Drop
  \/ GoStale
  \/ Halt
  \/ MoveListeners
  \/ CloseSubs
  \/ Finish

Spec == Init /\ [][Next]_vars
=============================================================================
