------------------------------- MODULE Wizard -------------------------------
(***************************************************************************)
(* The terminal UI of internal/tui: the root model of app.go with its five *)
(* steps and the active view, the port step of step_portmap.go, and the    *)
(* commands that talk to the daemon.  Update runs alone, but a command is  *)
(* a goroutine whose message comes back when it likes, between any two     *)
(* keys: the messages under way are a bag, delivered in any order.         *)
(*                                                                         *)
(* A forward is known by the local ports it claims, and the pod behind an  *)
(* object by the place and name of that object.  Window sizes, filters and *)
(* the spinner change nothing here; `q` and ctrl+c end the program.        *)
(***************************************************************************)
EXTENDS Naturals, FiniteSets, Bags, BagsExt

CONSTANTS
  Kubes,      \* the kubeconfigs found
  Namespaces, \* the namespaces of each
  Kinds,      \* the kinds of step 3
  Objects,    \* the names of objects, the same everywhere
  Remotes,    \* the remote ports of an object
  Locals,     \* the local ports typed
  Default,    \* the local port a row starts with, per remote port
  NoPorts,    \* the objects that offer no port
  Room,       \* bound on the messages under way when a key is pressed
  None        \* nothing chosen or loaded

ASSUME WizardAssumption ==
  /\ Default \in [Remotes -> Locals]
  /\ NoPorts \subseteq Objects
  /\ Room \in Nat \ {0}
  /\ None \notin Kubes \cup Namespaces \cup Kinds \cup Objects \cup Remotes

VARIABLES
  step,     \* "kube" .. "port", "active", or "quit"
  spec,     \* m.spec: what the user chose so far
  kubes,    \* TRUE: the kubeconfigs are loaded
  nsList,   \* the kubeconfig whose namespaces are listed, or None
  objList,  \* the place whose objects are listed, or None
  page,     \* the port step: [ports, included, local, claimed]
  starting, \* m.starting
  rows,     \* the forwards the active view shows
  cursor,   \* the row under its cursor, or None
  under,    \* the messages and commands under way
  running   \* the daemon's forwards

choices == <<spec, kubes, nsList, objList>>
view == <<rows, cursor>>
vars == <<step, choices, page, starting, view, under, running>>

Steps == {"kube", "ns", "kind", "object", "port", "active"}
Place == [kube : Kubes \cup {None}, ns : Namespaces \cup {None}, kind : Kinds \cup {None}]
Pod == [place : Place, object : Objects]
Forwards == (SUBSET Locals) \ {{}}
NoSpec == [place |-> [kube |-> None, ns |-> None, kind |-> None], object |-> None, pod |-> None]
NoPage == [ports |-> {}, included |-> {}, local |-> Default, claimed |-> {}]

Specs == [place : Place, object : Objects \cup {None}, pod : Pod \cup {None}]
Pairs == (SUBSET (Locals \X Remotes)) \ {{}}

Messages ==
  [t : {"kubeconfigs", "claims", "list", "tick"}]
    \cup [t : {"kubeChosen"}, kube : Kubes] \cup [t : {"namespaces"}, of : Kubes]
    \cup [t : {"nsChosen"}, ns : Namespaces] \cup [t : {"kindChosen"}, kind : Kinds]
    \cup [t : {"resources"}, place : Place]
    \cup [t : {"objectChosen"}, object : Objects, pod : Pod] \cup [t : {"ports"}, pod : Pod]
    \cup [t : {"claimed"}, locals : SUBSET Locals]
    \cup [t : {"portMapReady"}, pairs : Pairs] \cup [t : {"start"}, spec : Specs, pairs : Pairs]
    \cup [t : {"forwards"}, ids : SUBSET Forwards]
    \cup [t : {"stopPressed", "stop", "stopResult"}, id : Forwards]

TypeOK ==
  /\ step \in Steps \cup {"quit"}
  /\ spec \in Specs
  /\ kubes \in BOOLEAN /\ starting \in BOOLEAN
  /\ nsList \in Kubes \cup {None}
  /\ objList \in Place \cup {None}
  /\ page \in [ports : SUBSET Remotes, included : SUBSET Remotes, claimed : SUBSET Locals,
               local : [Remotes -> Locals]]
  /\ page.included \subseteq page.ports
  /\ rows \subseteq Forwards /\ (cursor \in rows \/ (cursor = None /\ rows = {}))
  /\ IsABag(under) /\ DOMAIN under \subseteq Messages
  /\ running \subseteq Forwards

Msg(t) == [t |-> t]

Init ==
  /\ step = "kube" /\ spec = NoSpec
  /\ kubes = FALSE /\ nsList = None /\ objList = None
  /\ page = NoPage
  /\ starting = FALSE
  /\ rows = {} /\ cursor = None
  /\ under = SetToBag({Msg("kubeconfigs")})
  /\ running = {}

First(S) == IF S = {} THEN None ELSE CHOOSE x \in S : TRUE
Copies(m, bag) == IF m \in DOMAIN bag THEN bag[m] ELSE 0
Send(m) == under' = BagAdd(under, m)
Sends(ms) == under' = under (+) SetToBag(ms)

\* A page that was left is never seen again: the port step is entered with a
\* new one.
Goto(s) == step' = s /\ page' = IF s = "port" THEN page ELSE NoPage

-----------------------------------------------------------------------------
(* Keys                                                                    *)

Key == step # "quit" /\ BagCardinality(under) < Room

\* Enter at a list step: the step's own command brings the choice back.
Choose ==
  /\ Key
  /\ \/ /\ step = "kube" /\ kubes
        /\ \E k \in Kubes : Send([t |-> "kubeChosen", kube |-> k])
     \/ /\ step = "ns" /\ nsList # None
        /\ \E n \in Namespaces : Send([t |-> "nsChosen", ns |-> n])
     \/ /\ step = "kind"
        /\ \E k \in Kinds : Send([t |-> "kindChosen", kind |-> k])
     \/ /\ step = "object" /\ objList # None
        /\ \E o \in Objects :
             Send([t |-> "objectChosen", object |-> o, pod |-> [place |-> objList, object |-> o]])
  /\ UNCHANGED <<step, choices, page, starting, view, running>>

\* Space, and the keys that focus a local port and edit it.
EditPorts ==
  /\ Key /\ step = "port"
  /\ \E r \in page.ports :
       \/ page' = [page EXCEPT !.included = IF r \in @ THEN @ \ {r} ELSE @ \cup {r}]
       \/ \E l \in Locals : page' = [page EXCEPT !.local[r] = l]
  /\ UNCHANGED <<step, choices, starting, view, under, running>>

Included == {<<page.local[r], r>> : r \in page.included}
LocalsOf(pairs) == {p[1] : p \in pairs}

\* Enter at the port step: swallowed while a forward starts, refused when
\* nothing is included or a port is taken, as the daemon's answer has it or
\* the probe of the host, which sees the forwards that have bound theirs.
Submit ==
  /\ Key /\ step = "port" /\ ~starting
  /\ Included # {}
  /\ \E bound \in SUBSET running :
       LocalsOf(Included) \cap (page.claimed \cup UNION bound) = {}
  /\ Send([t |-> "portMapReady", pairs |-> Included])
  /\ UNCHANGED <<step, choices, page, starting, view, running>>

Back ==
  /\ Key /\ step # "kube"
  /\ Goto(CASE step = "active" -> "kube" [] step = "port" -> "object"
             [] step = "object" -> "kind" [] step = "kind" -> "ns" [] step = "ns" -> "kube")
  /\ UNCHANGED <<choices, starting, view, under, running>>

\* The key 'a': a load and a tick, also when an older tick is under way.
ShowActive ==
  /\ Key /\ step # "active"
  /\ Goto("active")
  /\ Sends({Msg("list"), Msg("tick")})
  /\ UNCHANGED <<choices, starting, view, running>>

MoveCursor ==
  /\ Key /\ step = "active"
  /\ \E r \in rows : cursor' = r
  /\ UNCHANGED <<step, choices, page, starting, rows, under, running>>

\* d, x or delete: the id is read now, the request goes out later.
PressStop ==
  /\ Key /\ step = "active" /\ cursor # None
  /\ Send([t |-> "stopPressed", id |-> cursor])
  /\ UNCHANGED <<step, choices, page, starting, view, running>>

\* q and ctrl+c: the process ends, with all it held and had under way.
Quit ==
  /\ step # "quit"
  /\ Goto("quit")
  /\ spec' = NoSpec /\ kubes' = FALSE /\ nsList' = None /\ objList' = None
  /\ starting' = FALSE /\ rows' = {} /\ cursor' = None
  /\ under' = EmptyBag
  /\ UNCHANGED running

\* ForwardEventMsg, from the stream of watchForwards: whatever happened, the
\* active view is loaded again.  Bound as for keys.
ForwardEvent ==
  /\ Key /\ step = "active"
  /\ Send(Msg("list"))
  /\ UNCHANGED <<step, choices, page, starting, view, running>>

-----------------------------------------------------------------------------
(* Messages and the commands they stand for                                *)

Take(m) == m \in DOMAIN under /\ step # "quit"
Drop(m) == under' = BagRemove(under, m)
Reply(m, ms) == under' = BagRemove(under, m) (+) SetToBag(ms)

\* A request fails: its message carries the error and only the status line
\* changes, but for the start, which is over.
Fails(m) ==
  /\ Take(m)
  /\ m.t \in {"kubeconfigs", "namespaces", "resources", "ports", "list", "start"}
  /\ Drop(m)
  /\ starting' = (starting /\ m.t # "start")
  /\ kubes' = (kubes /\ m.t # "kubeconfigs")
  /\ UNCHANGED <<step, spec, nsList, objList, page, view, running>>

KubeconfigsLoaded(m) ==
  /\ Take(m) /\ m.t = "kubeconfigs"
  /\ kubes' = TRUE
  /\ Drop(m)
  /\ UNCHANGED <<step, spec, nsList, objList, page, starting, view, running>>

KubeChosen(m) ==
  /\ Take(m) /\ m.t = "kubeChosen"
  /\ Goto("ns")
  /\ spec' = [spec EXCEPT !.place.kube = m.kube]
  /\ nsList' = None
  /\ Reply(m, {[t |-> "namespaces", of |-> m.kube]})
  /\ UNCHANGED <<kubes, objList, starting, view, running>>

\* Whatever the step, and whatever kubeconfig was chosen since.
NamespacesLoaded(m) ==
  /\ Take(m) /\ m.t = "namespaces"
  /\ nsList' = m.of
  /\ Drop(m)
  /\ UNCHANGED <<step, spec, kubes, objList, page, starting, view, running>>

NsChosen(m) ==
  /\ Take(m) /\ m.t = "nsChosen"
  /\ Goto("kind")
  /\ spec' = [spec EXCEPT !.place.ns = m.ns]
  /\ Drop(m)
  /\ UNCHANGED <<kubes, nsList, objList, starting, view, running>>

KindChosen(m) ==
  /\ Take(m) /\ m.t = "kindChosen"
  /\ Goto("object")
  /\ spec' = [spec EXCEPT !.place.kind = m.kind]
  /\ objList' = None
  /\ Reply(m, {[t |-> "resources", place |-> [spec.place EXCEPT !.kind = m.kind]]})
  /\ UNCHANGED <<kubes, nsList, starting, view, running>>

ResourcesLoaded(m) ==
  /\ Take(m) /\ m.t = "resources"
  /\ objList' = m.place
  /\ Drop(m)
  /\ UNCHANGED <<step, spec, kubes, nsList, page, starting, view, running>>

ObjectChosen(m) ==
  /\ Take(m) /\ m.t = "objectChosen"
  /\ spec' = [spec EXCEPT !.object = m.object, !.pod = m.pod]
  /\ Reply(m, {[t |-> "ports", pod |-> [place |-> spec.place, object |-> m.object]]})
  /\ UNCHANGED <<step, kubes, nsList, objList, page, starting, view, running>>

\* The pod and the page of the answer, whatever object was chosen since, and
\* the port step, wherever the user is.
PortsLoaded(m) ==
  /\ Take(m) /\ m.t = "ports"
  /\ spec' = [spec EXCEPT !.pod = m.pod]
  /\ step' = "port"
  /\ page' = [NoPage EXCEPT !.ports = IF m.pod.object \in NoPorts THEN {} ELSE Remotes]
  /\ Reply(m, {Msg("claims")})
  /\ UNCHANGED <<kubes, nsList, objList, starting, view, running>>

\* The daemon answers, and the answer is on its way; an error names no port.
ClaimsAnswered(m) ==
  /\ Take(m) /\ m.t = "claims"
  /\ \E locals \in {UNION running, {}} : Reply(m, {[t |-> "claimed", locals |-> locals]})
  /\ UNCHANGED <<step, choices, page, starting, view, running>>

\* Only the current step sees it, and it may be another page's answer.
ClaimedPortsLoaded(m) ==
  /\ Take(m) /\ m.t = "claimed"
  /\ page' = IF step = "port" THEN [page EXCEPT !.claimed = m.locals] ELSE page
  /\ Drop(m)
  /\ UNCHANGED <<step, choices, starting, view, running>>

\* The spec is read now, not when Enter was pressed.
PortMapReady(m) ==
  /\ Take(m) /\ m.t = "portMapReady"
  /\ starting' = TRUE
  /\ Reply(m, {[t |-> "start", spec |-> spec, pairs |-> m.pairs]})
  /\ UNCHANGED <<step, choices, page, view, running>>

\* Slip: an error leaves the flag that swallows Enter.
RefusedSilently(m) ==
  /\ Take(m) /\ m.t = "start"
  /\ Drop(m)
  /\ UNCHANGED <<step, choices, page, starting, view, running>>

\* Manager.Start refuses a claimed port and a spec with a hole: then
\* ForwardStartedMsg has an error.
Startable(m) ==
  /\ LocalsOf(m.pairs) \cap UNION running = {}
  /\ None \notin {m.spec.object, m.spec.place.kube, m.spec.place.ns, m.spec.place.kind}

StartRefused(m) ==
  /\ Take(m) /\ m.t = "start" /\ ~Startable(m)
  /\ starting' = FALSE
  /\ Drop(m)
  /\ UNCHANGED <<step, choices, page, view, running>>

\* ForwardStartedMsg: the wizard begins again, wherever the user is.
ForwardStarted(m) ==
  /\ Take(m) /\ m.t = "start" /\ Startable(m)
  /\ running' = running \cup {LocalsOf(m.pairs)}
  /\ starting' = FALSE
  /\ Goto("kube")
  /\ spec' = NoSpec
  /\ Reply(m, {Msg("kubeconfigs")})
  /\ UNCHANGED <<kubes, nsList, objList, view>>

\* Slip: the tick is not armed again.
TickActiveOnce(m) ==
  /\ Take(m) /\ m.t = "tick"
  /\ IF step = "active" THEN Reply(m, {Msg("list")}) ELSE Drop(m)
  /\ UNCHANGED <<step, choices, page, starting, view, running>>

\* TickActiveMsg; bound: not while the messages under way fill the room.
TickActive(m) ==
  /\ Take(m) /\ m.t = "tick" /\ BagCardinality(under) <= Room
  /\ IF step = "active" THEN Send(Msg("list")) ELSE Drop(m)
  /\ UNCHANGED <<step, choices, page, starting, view, running>>

ListAnswered(m) ==
  /\ Take(m) /\ m.t = "list"
  /\ Reply(m, {[t |-> "forwards", ids |-> running]})
  /\ UNCHANGED <<step, choices, page, starting, view, running>>

\* Slip: the table is replaced under a cursor that stays where it was.
KeepCursor(m) ==
  /\ Take(m) /\ m.t = "forwards"
  /\ rows' = m.ids
  /\ Drop(m)
  /\ UNCHANGED <<step, choices, page, starting, cursor, running>>

\* A new table: its cursor is on the first row.
ForwardsLoaded(m) ==
  /\ Take(m) /\ m.t = "forwards"
  /\ rows' = m.ids /\ cursor' = First(m.ids)
  /\ Drop(m)
  /\ UNCHANGED <<step, choices, page, starting, running>>

StopForward(m) ==
  /\ Take(m) /\ m.t = "stopPressed"
  /\ Reply(m, {[t |-> "stop", id |-> m.id], Msg("list")})
  /\ UNCHANGED <<step, choices, page, starting, view, running>>

\* The daemon stops it, or does not know it any more; or it does not answer in
\* time.  Whichever it is, a result comes back.
StopAnswered(m) ==
  /\ Take(m) /\ m.t = "stop"
  /\ running' = running \ {m.id} \/ UNCHANGED running
  /\ Reply(m, {[t |-> "stopResult", id |-> m.id]})
  /\ UNCHANGED <<step, choices, page, starting, view>>

\* Slip: the result is handled like the key that asked for it.
StopResultRefires(m) ==
  /\ Take(m) /\ m.t = "stopResult"
  /\ Reply(m, {[t |-> "stop", id |-> m.id], Msg("list")})
  /\ UNCHANGED <<step, choices, page, starting, view, running>>

StopResult(m) ==
  /\ Take(m) /\ m.t = "stopResult"
  /\ Reply(m, {Msg("list")})
  /\ UNCHANGED <<step, choices, page, starting, view, running>>

Keys == Choose \/ EditPorts \/ Submit \/ Back \/ ShowActive \/ MoveCursor \/ PressStop \/ Quit

Request(m) == ClaimsAnswered(m) \/ ListAnswered(m) \/ StopAnswered(m)
Starts(m) == PortMapReady(m) \/ StartRefused(m) \/ ForwardStarted(m)
Refresh(m) == TickActive(m) \/ ForwardsLoaded(m)
Answer(m) ==
  \/ KubeconfigsLoaded(m) \/ KubeChosen(m) \/ NamespacesLoaded(m) \/ NsChosen(m)
  \/ KindChosen(m) \/ ResourcesLoaded(m) \/ ObjectChosen(m) \/ PortsLoaded(m)
  \/ ClaimedPortsLoaded(m) \/ StopForward(m) \/ StopResult(m)

Next ==
  \/ Keys \/ ForwardEvent
  \/ \E m \in DOMAIN under : Fails(m) \/ Request(m) \/ Starts(m) \/ Refresh(m) \/ Answer(m)

Spec == Init /\ [][Next]_vars

\* Commands return (a call has a deadline of 30 s) and their messages are
\* handled; a list asked for again and again does not fail for ever.  A user
\* need not press a key.
FairSpec ==
  /\ Spec
  /\ WF_vars(\E m \in DOMAIN under : Starts(m))
  /\ WF_vars(\E m \in DOMAIN under : Request(m) \/ Answer(m))
  /\ SF_vars(\E m \in DOMAIN under : ListAnswered(m))
  /\ WF_vars(\E m \in DOMAIN under : ForwardsLoaded(m))
  /\ WF_vars(\E m \in DOMAIN under : TickActive(m))

-----------------------------------------------------------------------------
(* Properties                                                              *)

\* Enter is swallowed only while a start request is under way: an error, a
\* refusal or a second start never leaves the wizard deaf to it.
SwallowedWhileStarting == starting => \E m \in DOMAIN under : m.t = "start"

\* A stop request of a forward goes out for a key pressed on its row, once:
\* results and refreshes never ask again.
StopsWereAsked ==
  [][\A id \in Forwards :
       LET stop == [t |-> "stop", id |-> id]
           key == [t |-> "stopPressed", id |-> id]
       IN  Copies(stop, under') > Copies(stop, under) =>
             Copies(key, under') < Copies(key, under)]_vars

\* The user who stays in the active view sees what the daemon runs, though
\* lists answered earlier may arrive later.
ViewCatchesUp == (step = "active") ~> (rows = running \/ step # "active")
=============================================================================
