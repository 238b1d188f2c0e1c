------------------------------ MODULE Queries ------------------------------
(***************************************************************************)
(* The functions of kpf that compute without the daemon, from what a       *)
(* cluster and the disk hold to what a user sees and a start request       *)
(* names: the kubeconfigs found by internal/kubeconfig, the pod and the    *)
(* ports internal/k8s picks, the rows and pairs made of them, the port     *)
(* arguments of the command line, the checks of Manager.Start, and the     *)
(* rows of the active view on the screen.                                  *)
(*                                                                         *)
(* A behaviour chooses one input and runs the function it is for: an       *)
(* iteration of a loop of the code is a step, and out is what the function *)
(* returns.  Each property says of a result what it must be.  Names are    *)
(* numbers in their order, times numbers, labels are a set.                *)
(***************************************************************************)
EXTENDS Integers, Sequences, FiniteSets, SequencesExt

CONSTANTS
  Labels,     \* the labels of pods and selectors
  Times,      \* the times pods were created at
  MaxPods,    \* bound on the pods of a namespace
  Numbers,    \* the port numbers of containers, services and arguments
  MaxPorts,   \* bound on the ports of an object, and on arguments
  MaxRows,    \* bound on the forwards in the active view
  Dirs,       \* the directories scanned
  MaxDirs,    \* bound on how many of them a scan is given
  MaxNames,   \* bound on the file names
  None        \* nil: no input yet, no pod, no answer but an error

Pods == [labels : SUBSET Labels, running : BOOLEAN, containers : {0, 1},
         statuses : {<< >>, <<TRUE>>, <<FALSE>>}, created : Times]

ASSUME QueriesAssumption ==
  /\ MaxPods \in Nat /\ MaxPorts \in Nat /\ MaxRows \in Nat /\ MaxDirs \in Nat /\ MaxNames \in Nat
  /\ Numbers \subseteq Int /\ Times \subseteq Int
  /\ None \notin Pods

VARIABLES
  at,     \* the loop that runs, "start" or "done"
  in,     \* the input
  listed, \* what the loop ranges over
  i,      \* where in it
  dir,    \* ScanDirs: which directory
  ready,  \* pickBestPod: the newest pod that is ready, or None
  newest, \* pickBestPod: the newest pod, or None
  seen,   \* the set PodPorts and ScanDirs remember
  out     \* the result

loop == <<listed, i>>
best == <<ready, newest>>
vars == <<at, in, loop, dir, best, seen, out>>

Init ==
  /\ at = "start" /\ in = None
  /\ listed = << >> /\ i = 1 /\ dir = 1
  /\ ready = None /\ newest = None
  /\ seen = {} /\ out = << >>

UpTo(S, n) == UNION {[1 .. k -> S] : k \in 0 .. n}

\* The elements of a set of numbers in ascending order.
Ascending(S) ==
  {s \in UpTo(S, Cardinality(S)) :
     /\ \A x \in S : \E k \in DOMAIN s : s[k] = x
     /\ \A k, l \in DOMAIN s : k < l => s[k] < s[l]}

\* What sort.Ints may leave of a sequence.
Sorted(s) ==
  {t \in {[k \in DOMAIN s |-> s[p[k]]] : p \in {q \in [DOMAIN s -> DOMAIN s] :
                                           \A k, l \in DOMAIN s : q[k] = q[l] => k = l}} :
     \A k, l \in DOMAIN t : k < l => t[k] <= t[l]}

Run(loopAt, s) == at' = loopAt /\ listed' = s /\ i' = 1
More == i <= Len(listed)
Step == i' = i + 1 /\ UNCHANGED <<at, in, listed, dir>>
Return(value) == at' = "done" /\ out' = value

-----------------------------------------------------------------------------
(* The pod behind a workload                                               *)

IsPodReady(p) == p.running /\ p.containers > 0 /\ FALSE \notin ToSet(p.statuses)

Newer(p, q) == IF q = None \/ p.created > q.created THEN p ELSE q

\* The selector is MatchLabels alone; an empty one is an error, and so is one
\* no pod fits.  What fits is listed in the order of the namespace.
ResolveOnePod ==
  /\ at = "start"
  /\ \E pods \in UpTo(Pods, MaxPods), labels \in SUBSET Labels :
       LET fit == {k \in DOMAIN pods : labels \subseteq pods[k].labels}
       IN  /\ in' = [of |-> "pods", labels |-> labels, pods |-> pods]
           /\ \/ /\ labels = {} \/ fit = {}
                 /\ Return(None)
                 /\ UNCHANGED loop
              \/ /\ labels # {} /\ fit # {}
                 /\ \E order \in Ascending(fit) : Run("pick", [k \in DOMAIN order |-> pods[order[k]]])
                 /\ UNCHANGED out
  /\ UNCHANGED <<dir, best, seen>>

\* Slip: a pod that is not ready takes the place of an older one that is.
PickAnyPod ==
  /\ at = "pick" /\ More
  /\ ready' = Newer(listed[i], ready)
  /\ newest' = Newer(listed[i], newest)
  /\ Step /\ UNCHANGED <<seen, out>>

\* One pass keeps the best of both kinds; the first of equals stays.
PickBestPod ==
  /\ at = "pick" /\ More
  /\ ready' = IF IsPodReady(listed[i]) THEN Newer(listed[i], ready) ELSE ready
  /\ newest' = Newer(listed[i], newest)
  /\ Step /\ UNCHANGED <<seen, out>>

Picked ==
  /\ at = "pick" /\ ~More
  /\ Return(IF ready # None THEN ready ELSE newest)
  /\ UNCHANGED <<in, loop, dir, best, seen>>

-----------------------------------------------------------------------------
(* Ports                                                                   *)

InRange(n) == n > 0 /\ n <= 65535

\* The ports of a pod, or of the pod behind a workload, in the order of its
\* containers, and those of a service; 0 for none.  The API server lets them
\* have no others.
ComputePorts ==
  /\ at = "start"
  /\ \E kind \in {"Pod", "Service"}, ports \in UpTo({n \in Numbers : n = 0 \/ InRange(n)}, MaxPorts) :
       /\ in' = [of |-> "ports", kind |-> kind, edited |-> FALSE, included |-> {}]
       /\ Run("ports", ports)
  /\ UNCHANGED <<dir, best, seen, out>>

\* Slip: what was seen is not remembered.
PodPortsTwice ==
  /\ at = "ports" /\ in.kind = "Pod" /\ More
  /\ out' = IF listed[i] = 0 \/ listed[i] \in seen THEN out ELSE Append(out, listed[i])
  /\ Step /\ UNCHANGED <<best, seen>>

PodPorts ==
  /\ at = "ports" /\ in.kind = "Pod" /\ More
  /\ \/ /\ listed[i] = 0 \/ listed[i] \in seen
        /\ UNCHANGED <<seen, out>>
     \/ /\ listed[i] # 0 /\ listed[i] \notin seen
        /\ seen' = seen \cup {listed[i]} /\ out' = Append(out, listed[i])
  /\ Step /\ UNCHANGED best

ServicePorts ==
  /\ at = "ports" /\ in.kind = "Service" /\ More
  /\ out' = IF listed[i] = 0 THEN out ELSE Append(out, listed[i])
  /\ Step /\ UNCHANGED <<best, seen>>

\* newPortStep: a row for each port, its local port the same number.
Rows ==
  /\ at = "ports" /\ ~More
  /\ \E ports \in Sorted(out) : Run("page", [k \in DOMAIN ports |-> <<ports[k], ports[k]>>])
  /\ out' = << >>
  /\ UNCHANGED <<in, dir, best, seen>>

\* A row gets another local port, whatever number was typed.
EditPort ==
  /\ at = "page"
  /\ \E k \in DOMAIN listed, n \in {m \in Numbers : m > 0} : listed' = [listed EXCEPT ![k][1] = n]
  /\ in' = [in EXCEPT !.edited = TRUE]
  /\ UNCHANGED <<at, i, dir, best, seen, out>>

\* Enter is refused unless each local port that is included can be listened on.
Enter ==
  /\ at = "page"
  /\ \E included \in SUBSET DOMAIN listed :
       /\ \A k \in included : InRange(listed[k][1])
       /\ in' = [in EXCEPT !.included = included]
  /\ Run("pairs", listed)
  /\ UNCHANGED <<dir, best, seen, out>>

\* The pairs of the rows that are included.
CollectPairs ==
  /\ at = "pairs" /\ More
  /\ out' = IF i \in in.included THEN Append(out, listed[i]) ELSE out
  /\ Step /\ UNCHANGED <<best, seen>>

Collected ==
  /\ at = "pairs" /\ ~More
  /\ Return(out)
  /\ UNCHANGED <<in, loop, dir, best, seen>>

ValidateSpec(pairs) ==
  pairs # << >> /\ \A k \in DOMAIN pairs : InRange(pairs[k][1]) /\ InRange(pairs[k][2])

\* Manager.Start listens on each port and closes it again, one by one, so it
\* does not see a port that is there twice; ForwardPorts cannot bind it twice.
Bindable(pairs) == \A k, l \in DOMAIN pairs : pairs[k][1] = pairs[l][1] => k = l

\* An item of the argument is the numbers it has at its colon: none when it is
\* blank, fewer than two when a side is missing or is no number.
SplitPorts ==
  /\ at = "start"
  /\ \E args \in UpTo(UpTo(Numbers, 1) \cup UpTo(Numbers, 2), MaxPorts) :
       in' = [of |-> "args"] /\ Run("args", args)
  /\ UNCHANGED <<dir, best, seen, out>>

Good(item) == Len(item) = 2 /\ InRange(item[1]) /\ InRange(item[2])

ParsePorts ==
  /\ at = "args" /\ More
  /\ \/ /\ listed[i] = << >>
        /\ Step /\ UNCHANGED out
     \/ /\ Good(listed[i])
        /\ out' = Append(out, listed[i])
        /\ Step
     \/ /\ listed[i] # << >> /\ ~Good(listed[i])
        /\ Return(None)
        /\ UNCHANGED <<in, loop, dir>>
  /\ UNCHANGED <<best, seen>>

Parsed ==
  /\ at = "args" /\ ~More
  /\ Return(IF out = << >> THEN None ELSE out)
  /\ UNCHANGED <<in, loop, dir, best, seen>>

-----------------------------------------------------------------------------
(* The active view                                                         *)

Least(a, b) == IF a < b THEN a ELSE b
Most(a, b) == IF a > b THEN a ELSE b

VisibleRows(n, height) == IF height < 1 \/ height > n THEN n ELSE height

\* Slip: the cursor may stand one row below the window.
FirstShownTooHigh(n, cursor, visible) == Most(0, Least(cursor - visible, n - visible))

\* View of the active step: the window ends with the cursor, as far as it can.
FirstShown(n, cursor, visible) == Most(0, Least(cursor - (visible - 1), n - visible))

Window(n, cursor, height) ==
  LET visible == VisibleRows(n, height)
      first == FirstShown(n, cursor, visible)
  IN  first .. first + visible - 1

Show ==
  /\ at = "start"
  /\ \E n \in 0 .. MaxRows : \E cursor \in 0 .. Most(0, n - 1), height \in -1 .. MaxRows + 1 :
       /\ in' = [of |-> "view", n |-> n, cursor |-> cursor, height |-> height]
       /\ Return(Window(n, cursor, height))
  /\ UNCHANGED <<loop, dir, best, seen>>

-----------------------------------------------------------------------------
(* The kubeconfigs                                                         *)

\* A file by its place in the order of names; it is kept when its name and
\* size are those of a kubeconfig and it parses to at least one cluster.
Files == [name : 1 .. MaxNames, hidden : BOOLEAN, kube : BOOLEAN, parses : BOOLEAN]

\* A directory has a name once.
FileSets == {fs \in SUBSET Files : \A f, g \in fs : f.name = g.name => f = g}

Keeps(f) == ~f.hidden /\ f.kube /\ f.parses

Kept(d) == {f.name : f \in {g \in in.files[d] : Keeps(g)}}

ScanDirs ==
  /\ at = "start"
  /\ \E dirs \in UpTo(Dirs, MaxDirs), files \in [Dirs -> FileSets] :
       in' = [of |-> "files", dirs |-> dirs, files |-> files]
  /\ at' = "scan"
  /\ UNCHANGED <<loop, dir, best, seen, out>>

Scan ==
  /\ at = "scan" /\ dir <= Len(in.dirs)
  /\ \E names \in Ascending(Kept(in.dirs[dir])) :
       Run("merge", [k \in DOMAIN names |-> <<in.dirs[dir], names[k]>>])
  /\ UNCHANGED <<in, dir, best, seen, out>>

\* Slip: what was seen is not remembered.
MergeAgain ==
  /\ at = "merge" /\ More
  /\ out' = IF listed[i] \in seen THEN out ELSE Append(out, listed[i])
  /\ Step /\ UNCHANGED <<best, seen>>

Merge ==
  /\ at = "merge" /\ More
  /\ \/ /\ listed[i] \in seen
        /\ UNCHANGED <<seen, out>>
     \/ /\ listed[i] \notin seen
        /\ seen' = seen \cup {listed[i]} /\ out' = Append(out, listed[i])
  /\ Step /\ UNCHANGED best

NextDir ==
  /\ at = "merge" /\ ~More
  /\ at' = "scan" /\ dir' = dir + 1
  /\ UNCHANGED <<in, loop, best, seen, out>>

Scanned ==
  /\ at = "scan" /\ dir > Len(in.dirs)
  /\ Return(out)
  /\ UNCHANGED <<in, loop, dir, best, seen>>

-----------------------------------------------------------------------------
Pick == ResolveOnePod \/ PickBestPod \/ Picked
Submit ==
  ComputePorts \/ PodPorts \/ ServicePorts \/ Rows \/ EditPort \/ Enter \/ CollectPairs \/ Collected
Parse == SplitPorts \/ ParsePorts \/ Parsed
Discover == ScanDirs \/ Scan \/ Merge \/ NextDir \/ Scanned

Next == Pick \/ Submit \/ Parse \/ Show \/ Discover

Spec == Init /\ [][Next]_vars

-----------------------------------------------------------------------------
(* Properties                                                              *)

Answered(to) == at = "done" /\ in.of = to

\* The pod behind a workload carries the labels asked for, is ready when any
\* such pod is, and is the newest of those; only when there is none the
\* answer is an error (ResolveOnePod, pickBestPod's single pass).
BestPodIsPicked ==
  Answered("pods") =>
    LET fit == {p \in ToSet(in.pods) : in.labels # {} /\ in.labels \subseteq p.labels}
    IN  IF fit = {} THEN out = None
        ELSE /\ out \in fit
             /\ \A p \in fit :
                  /\ IsPodReady(p) => IsPodReady(out)
                  /\ IsPodReady(p) = IsPodReady(out) => out.created >= p.created

\* Whatever rows of an object are included, whatever is typed for their local
\* ports, and whatever the command line takes for ports, passes the bounds of
\* the manager; and the pairs of a pod can all be bound as they are offered,
\* though nothing between the page and client-go looks for a port that is
\* there twice (PodPorts, portStep.Update, parsePorts, validateSpec).
SubmittedPairsCanStart ==
  /\ Answered("ports") /\ out # << >> => ValidateSpec(out) /\ (in.kind = "Pod" /\ ~in.edited => Bindable(out))
  /\ Answered("args") /\ out # None => ValidateSpec(out)

\* The row under the cursor is on the screen, and the window is as full as the
\* forwards allow, wherever the cursor moved (View of the active step).
CursorIsShown ==
  Answered("view") /\ in.n > 0 =>
    /\ in.cursor \in out
    /\ out \subseteq 0 .. in.n - 1
    /\ Cardinality(out) = VisibleRows(in.n, in.height)

\* An entry is listed before another one: it has the lesser name in the same
\* directory, or its directory is given before the first mention of the other.
Precedes(a, b) ==
  IF a[1] = b[1] THEN a[2] < b[2]
  ELSE \E k \in DOMAIN in.dirs : in.dirs[k] = a[1] /\ \A l \in 1 .. k : in.dirs[l] # b[1]

\* Every kubeconfig of the directories is listed once, though a directory is
\* scanned twice, and in the order of directories and names (Scan, ScanDirs).
KubeconfigsOnce ==
  Answered("files") =>
    /\ \A k, l \in DOMAIN out : k < l => out[k] # out[l] /\ Precedes(out[k], out[l])
    /\ \A d \in ToSet(in.dirs) : \A f \in in.files[d] : Keeps(f) <=> <<d, f.name>> \in ToSet(out)
    /\ \A e \in ToSet(out) : e[1] \in ToSet(in.dirs)
=============================================================================
