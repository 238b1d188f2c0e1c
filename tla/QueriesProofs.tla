--------------------------- MODULE QueriesProofs ---------------------------
(***************************************************************************)
(* Theorems about Queries, for inputs of any size.  Every property of the  *)
(* module is about a finished run; what holds while a loop is in it is     *)
(* said by the loop invariants Picking, Offering, Parsing and Finding, and *)
(* each property follows from the invariant of its loop at the exit.       *)
(***************************************************************************)
EXTENDS Queries, FiniteSetTheorems, TLAPS

-----------------------------------------------------------------------------
(* The loop invariants                                                     *)

\* Which function a loop belongs to, and that the variables start fresh.
Requests ==
  [of : {"ports"}, kind : {"Pod", "Service"}, edited : BOOLEAN, included : SUBSET Nat]

Serving ==
  /\ at = "start" => /\ i = 1 /\ dir = 1 /\ seen = {} /\ out = << >>
                     /\ ready = None /\ newest = None
  /\ at = "pick" => in.of = "pods"
  /\ at \in {"ports", "page", "pairs"} => in.of = "ports" /\ in \in Requests
  /\ at = "args" => in.of = "args"
  /\ at \in {"scan", "merge"} => in.of = "files"

Fitting == {p \in ToSet(in.pods) : in.labels # {} /\ in.labels \subseteq p.labels}

\* What the loop has passed.
Passed == {listed[k] : k \in 1 .. i - 1}

NewestOf(p, S) == IF S = {} THEN p = None ELSE p \in S /\ \A q \in S : p.created >= q.created

\* pickBestPod: the two candidates are the newest of what was passed.
Picking ==
  at = "pick" =>
    /\ listed \in Seq(Pods) /\ listed # << >> /\ i \in 1 .. Len(listed) + 1
    /\ ToSet(listed) = Fitting
    /\ NewestOf(newest, Passed)
    /\ NewestOf(ready, {p \in Passed : IsPodReady(p)})

Pairs == Int \X Int

Distinct(s) == \A k, l \in DOMAIN s : s[k] = s[l] => k = l

\* PodPorts and newPortStep: a port is in range, and a pod has it once.
Offering ==
  /\ at = "ports" =>
       /\ listed \in Seq(Int) /\ \A k \in DOMAIN listed : listed[k] = 0 \/ InRange(listed[k])
       /\ i \in 1 .. Len(listed) + 1
       /\ out \in Seq(Int) /\ \A k \in DOMAIN out : InRange(out[k])
       /\ in.kind = "Pod" => seen = ToSet(out) /\ Distinct(out)
       /\ ~in.edited
  /\ at \in {"page", "pairs"} =>
       /\ listed \in Seq(Pairs) /\ \A k \in DOMAIN listed : InRange(listed[k][2])
       /\ in.kind = "Pod" /\ ~in.edited => Bindable(listed) /\ Bindable(out)
       /\ out \in Seq(Pairs)
       /\ \A k \in DOMAIN out : InRange(out[k][1]) /\ InRange(out[k][2])
  /\ at = "page" => out = << >>
  /\ at = "pairs" =>
       /\ i \in 1 .. Len(listed) + 1
       /\ \A k \in DOMAIN listed : k \in in.included => InRange(listed[k][1])
       /\ \A k \in DOMAIN out : \E l \in 1 .. i - 1 : out[k] = listed[l]

\* parsePorts: what was taken is good.
Parsing ==
  at = "args" =>
    /\ listed \in Seq(Seq(Int)) /\ i \in 1 .. Len(listed) + 1
    /\ out \in Seq(Seq(Int)) /\ \A k \in DOMAIN out : Good(out[k])

\* The kubeconfigs of the first n directories.
FoundIn(n) == UNION {{<<in.dirs[k], name>> : name \in Kept(in.dirs[k])} : k \in 1 .. n}

\* Scan and ScanDirs: the result is what is in the directories passed, and
\* while one is merged, in the part of it that was passed; each once, in order.
Finding ==
  /\ at \in {"scan", "merge"} =>
       /\ in.dirs \in Seq(Dirs) /\ in.files \in [Dirs -> FileSets]
       /\ dir \in 1 .. Len(in.dirs) + 1
       /\ out \in Seq(Dirs \X Nat) /\ seen = ToSet(out)
       /\ \A k, l \in DOMAIN out : k < l => out[k] # out[l] /\ Precedes(out[k], out[l])
  /\ at = "scan" => ToSet(out) = FoundIn(dir - 1)
  /\ at = "merge" =>
       /\ dir <= Len(in.dirs)
       /\ listed \in Seq(Dirs \X Nat) /\ i \in 1 .. Len(listed) + 1
       /\ \A k \in DOMAIN listed : listed[k][1] = in.dirs[dir]
       /\ \A k, l \in DOMAIN listed : k < l => listed[k][2] < listed[l][2]
       /\ ToSet(listed) = {<<in.dirs[dir], name>> : name \in Kept(in.dirs[dir])}
       /\ ToSet(out) = FoundIn(dir - 1) \cup Passed

IInv == Serving /\ Picking /\ Offering /\ Parsing /\ Finding

-----------------------------------------------------------------------------
(* Lemmas about the operators                                              *)

\* What an element of UpTo is.
LEMMA UpToFacts ==
  ASSUME NEW S, NEW n, NEW s \in UpTo(S, n)
  PROVE  /\ s \in Seq(S) /\ DOMAIN s = 1 .. Len(s)
         /\ \A k \in DOMAIN s : s[k] \in S
<1>1. PICK k \in 0 .. n : s \in [1 .. k -> S]
  BY DEF UpTo
<1>2. k \in Nat
  BY <1>1
<1>3. QED
  BY <1>1, <1>2

\* The set of a sequence, its growth by one element and its passed part.
LEMMA SetOfAppend ==
  ASSUME NEW T, NEW s \in Seq(T), NEW e \in T
  PROVE  /\ ToSet(Append(s, e)) = ToSet(s) \cup {e}
         /\ Append(s, e) \in Seq(T) /\ Len(Append(s, e)) = Len(s) + 1
         /\ DOMAIN Append(s, e) = 1 .. Len(s) + 1
         /\ \A k \in DOMAIN s : Append(s, e)[k] = s[k]
         /\ Append(s, e)[Len(s) + 1] = e
BY DEF ToSet

LEMMA SeqOfSubset ==
  ASSUME NEW S, NEW T, S \subseteq T, NEW s \in Seq(S)
  PROVE  s \in Seq(T)
<1>1. Len(s) \in Nat /\ s \in [1 .. Len(s) -> S]
  OBVIOUS
<1>2. s \in [1 .. Len(s) -> T]
  BY <1>1
<1>3. QED
  BY <1>1, <1>2

\* What holds of the elements of a sequence and of one more holds of both, and
\* a new element keeps them distinct.
LEMMA DistinctAppend ==
  ASSUME NEW T, NEW s \in Seq(T), NEW e \in T, Distinct(s), \A k \in DOMAIN s : s[k] # e
  PROVE  Distinct(Append(s, e))
<1> DEFINE t == Append(s, e)
<1>1. /\ DOMAIN t = 1 .. Len(s) + 1 /\ DOMAIN s = 1 .. Len(s) /\ Len(s) \in Nat
      /\ \A k \in DOMAIN s : t[k] = s[k]
      /\ t[Len(s) + 1] = e
  BY SetOfAppend
<1> HIDE DEF t
<1>2. SUFFICES ASSUME NEW k \in 1 .. Len(s) + 1, NEW l \in 1 .. Len(s) + 1, t[k] = t[l]
               PROVE  k = l
  BY <1>1 DEF Distinct, t
<1>3. CASE k \in 1 .. Len(s) /\ l \in 1 .. Len(s)
  BY <1>1, <1>2, <1>3 DEF Distinct
<1>4. CASE k = Len(s) + 1 /\ l = Len(s) + 1
  BY <1>4
<1>5. CASE k \in 1 .. Len(s) /\ l = Len(s) + 1
  BY <1>1, <1>2, <1>5
<1>6. CASE k = Len(s) + 1 /\ l \in 1 .. Len(s)
  BY <1>1, <1>2, <1>6
<1>7. QED
  BY <1>1, <1>3, <1>4, <1>5, <1>6

\* What is in r was taken from the first n elements of s.
Chosen(r, s, n) == \A k \in DOMAIN r : \E l \in 1 .. n : r[k] = s[l]

\* A sequence of elements of another one, grown by the element the loop is at.
LEMMA ChosenAppend ==
  ASSUME NEW T, NEW r \in Seq(T), NEW s \in Seq(T), NEW n \in 1 .. Len(s),
         Chosen(r, s, n - 1)
  PROVE  Chosen(Append(r, s[n]), s, n)
<1> DEFINE t == Append(r, s[n])
<1>1. s[n] \in T
  OBVIOUS
<1>2. /\ DOMAIN t = 1 .. Len(r) + 1 /\ DOMAIN r = 1 .. Len(r) /\ Len(r) \in Nat
      /\ \A k \in DOMAIN r : t[k] = r[k]
      /\ t[Len(r) + 1] = s[n]
  BY <1>1, SetOfAppend
<1> HIDE DEF t
<1>3. SUFFICES ASSUME NEW k \in DOMAIN t PROVE \E l \in 1 .. n : t[k] = s[l]
  BY DEF t, Chosen
<1>4. CASE k \in DOMAIN r
  <2>1. PICK l \in 1 .. n - 1 : r[k] = s[l]
    BY <1>4 DEF Chosen
  <2>2. l \in 1 .. n /\ t[k] = s[l]
    BY <1>2, <1>4, <2>1
  <2>3. QED
    BY <2>2
<1>5. CASE k = Len(r) + 1
  <2>1. n \in 1 .. n
    OBVIOUS
  <2>2. QED
    BY <1>2, <1>5, <2>1
<1>6. QED
  BY <1>2, <1>3, <1>4, <1>5

LEMMA BindableAppend ==
  ASSUME NEW r \in Seq(Pairs), NEW s \in Seq(Pairs), NEW n \in 1 .. Len(s),
         \A k \in DOMAIN r : \E l \in 1 .. n - 1 : r[k] = s[l],
         Bindable(r), Bindable(s)
  PROVE  Bindable(Append(r, s[n]))
<1> DEFINE t == Append(r, s[n])
<1>1. s[n] \in Pairs /\ DOMAIN s = 1 .. Len(s) /\ Len(s) \in Nat
  OBVIOUS
<1>2. /\ DOMAIN t = 1 .. Len(r) + 1 /\ DOMAIN r = 1 .. Len(r) /\ Len(r) \in Nat
      /\ \A k \in DOMAIN r : t[k] = r[k]
      /\ t[Len(r) + 1] = s[n]
  BY <1>1, SetOfAppend
<1> HIDE DEF t
<1>3. ASSUME NEW k \in DOMAIN r PROVE t[k][1] # s[n][1]
  <2>1. PICK l \in 1 .. n - 1 : r[k] = s[l]
    OBVIOUS
  <2>2. l \in DOMAIN s /\ n \in DOMAIN s /\ l # n
    BY <1>1
  <2>3. QED
    BY <1>2, <2>1, <2>2 DEF Bindable
<1>4. SUFFICES ASSUME NEW k \in 1 .. Len(r) + 1, NEW l \in 1 .. Len(r) + 1, t[k][1] = t[l][1]
               PROVE  k = l
  BY <1>2 DEF Bindable, t
<1>5. CASE k \in DOMAIN r /\ l \in DOMAIN r
  BY <1>2, <1>4, <1>5 DEF Bindable
<1>6. CASE k = Len(r) + 1 /\ l = Len(r) + 1
  BY <1>6
<1>7. CASE k \in DOMAIN r /\ l = Len(r) + 1
  BY <1>2, <1>3, <1>4, <1>7
<1>8. CASE k = Len(r) + 1 /\ l \in DOMAIN r
  BY <1>2, <1>3, <1>4, <1>8
<1>9. (k \in DOMAIN r \/ k = Len(r) + 1) /\ (l \in DOMAIN r \/ l = Len(r) + 1)
  BY <1>2
<1>10. QED
  BY <1>5, <1>6, <1>7, <1>8, <1>9

LEMMA AscendingFacts ==
  ASSUME NEW S, NEW s \in Ascending(S)
  PROVE  /\ s \in Seq(S) /\ DOMAIN s = 1 .. Len(s) /\ ToSet(s) = S
         /\ \A k, l \in DOMAIN s : k < l => s[k] < s[l]
<1>1. s \in UpTo(S, Cardinality(S)) /\ \A x \in S : \E k \in DOMAIN s : s[k] = x
  BY DEF Ascending
<1>2. s \in Seq(S) /\ DOMAIN s = 1 .. Len(s) /\ \A k \in DOMAIN s : s[k] \in S
  BY <1>1, UpToFacts
<1>3. ToSet(s) = S
  BY <1>1, <1>2 DEF ToSet
<1>4. QED
  BY <1>2, <1>3 DEF Ascending

\* sort.Ints: what was in the sequence, in another order.
LEMMA SortedFacts ==
  ASSUME NEW s \in Seq(Int), NEW t \in Sorted(s)
  PROVE  /\ t \in Seq(Int) /\ DOMAIN t = DOMAIN s
         /\ \A k \in DOMAIN t : \E l \in DOMAIN s : t[k] = s[l]
         /\ Distinct(s) => Distinct(t)
<1>1. PICK p \in [DOMAIN s -> DOMAIN s] :
        /\ \A k, l \in DOMAIN s : p[k] = p[l] => k = l
        /\ t = [k \in DOMAIN s |-> s[p[k]]]
  BY DEF Sorted
<1>2. DOMAIN t = 1 .. Len(s) /\ \A k \in DOMAIN s : p[k] \in DOMAIN s /\ t[k] = s[p[k]]
  BY <1>1
<1>3. \A k \in 1 .. Len(s) : t[k] \in Int
  <2>1. DOMAIN s = 1 .. Len(s) /\ \A k \in DOMAIN s : s[k] \in Int
    OBVIOUS
  <2>2. QED
    BY <1>2, <2>1, Zenon
<1>4. t = [k \in 1 .. Len(s) |-> t[k]]
  BY <1>1
<1>5. t \in Seq(Int)
  BY <1>3, <1>4
<1>6. ASSUME Distinct(s) PROVE Distinct(t)
  BY <1>1, <1>2, <1>6 DEF Distinct
<1>7. \A k \in DOMAIN t : \E l \in DOMAIN s : t[k] = s[l]
  <2>1. DOMAIN t = DOMAIN s
    BY <1>2
  <2>2. \A k \in DOMAIN t : p[k] \in DOMAIN s /\ t[k] = s[p[k]]
    BY <1>2, <2>1
  <2>3. QED
    BY <2>2, Zenon
<1>8. DOMAIN t = DOMAIN s
  BY <1>2
<1>9. QED
  BY <1>5, <1>6, <1>7, <1>8

\* A step of a loop passes the element it is at, and no other.
LEMMA StepPasses ==
  ASSUME NEW T, listed \in Seq(T), i \in 1 .. Len(listed) + 1, More, Step, UNCHANGED listed
  PROVE  /\ i \in DOMAIN listed /\ listed[i] \in T
         /\ i' \in 1 .. Len(listed) + 1 /\ i' = i + 1
         /\ Passed' = Passed \cup {listed[i]}
<1>1. i \in 1 .. Len(listed) /\ i' = i + 1
  BY DEF More, Step
<1>2. 1 .. i' - 1 = (1 .. i - 1) \cup {i}
  BY <1>1
<1>3. Passed' = {listed[k] : k \in 1 .. i' - 1}
  BY DEF Passed
<1>4. QED
  BY <1>1, <1>2, <1>3 DEF Passed

\* A loop that is over has passed all it ranges over; one that starts, nothing.
LEMMA AllPassed ==
  ASSUME NEW T, listed \in Seq(T), i \in 1 .. Len(listed) + 1, ~More
  PROVE  Passed = ToSet(listed)
<1>1. i = Len(listed) + 1
  BY DEF More
<1>2. QED
  BY <1>1 DEF Passed, ToSet

LEMMA NonePassed ==
  ASSUME NEW at1, NEW s, Run(at1, s)
  PROVE  Passed' = {}
<1>1. 1 .. i' - 1 = {}
  BY DEF Run
<1>2. QED
  BY <1>1 DEF Passed

-----------------------------------------------------------------------------
(* The steps                                                               *)

LEMMA ServingInit == Init => Serving
BY DEF Init, Serving

\* Each step is of the function whose input it has.
LEMMA StepsServe ==
  ASSUME Serving, Offering
  PROVE  /\ Pick => at' \in {"pick", "done"} /\ in'.of = "pods"
         /\ Submit => at' \in {"ports", "page", "pairs", "done"} /\ in'.of = "ports"
                      /\ in' \in Requests
         /\ Parse => at' \in {"args", "done"} /\ in'.of = "args"
         /\ Show => at' = "done" /\ in'.of = "view"
         /\ Discover => at' \in {"scan", "merge", "done"} /\ in'.of = "files"
<1>1. ASSUME Pick PROVE at' \in {"pick", "done"} /\ in'.of = "pods"
  <2>1. CASE ResolveOnePod
    <3>1. PICK pods \in UpTo(Pods, MaxPods), labels \in SUBSET Labels :
            /\ in' = [of |-> "pods", labels |-> labels, pods |-> pods]
            /\ at' \in {"pick", "done"}
      BY <2>1 DEF ResolveOnePod, Return, Run
    <3>2. QED
      BY <3>1
  <2>2. CASE PickBestPod
    BY <2>2 DEF PickBestPod, Step, Serving
  <2>3. CASE Picked
    BY <2>3 DEF Picked, Return, Serving
  <2>4. QED
    BY <1>1, <2>1, <2>2, <2>3 DEF Pick
<1>2. ASSUME Submit
      PROVE  at' \in {"ports", "page", "pairs", "done"} /\ in'.of = "ports" /\ in' \in Requests
  <2>1. CASE ComputePorts
    BY <2>1 DEF ComputePorts, Run, Requests
  <2>2. CASE PodPorts
    BY <2>2 DEF PodPorts, Step, Serving
  <2>3. CASE ServicePorts
    BY <2>3 DEF ServicePorts, Step, Serving
  <2>4. CASE Rows
    BY <2>4 DEF Rows, Run, Serving
  <2>5. CASE CollectPairs
    BY <2>5 DEF CollectPairs, Step, Serving
  <2>6. CASE Collected
    BY <2>6 DEF Collected, Return, Serving
  <2>7. CASE EditPort
    <3>1. at' = "page" /\ in \in Requests /\ in' = [in EXCEPT !.edited = TRUE]
      BY <2>7 DEF EditPort, Serving
    <3>2. QED
      BY <3>1 DEF Requests
  <2>8. CASE Enter
    <3>1. in \in Requests /\ at = "page"
      BY <2>8 DEF Enter, Serving
    <3>2. PICK included \in SUBSET DOMAIN listed : in' = [in EXCEPT !.included = included]
      BY <2>8 DEF Enter
    <3>3. included \subseteq Nat /\ at' = "pairs"
      BY <2>8, <3>1 DEF Enter, Run, Offering
    <3>4. QED
      BY <3>1, <3>2, <3>3 DEF Requests
  <2>9. QED
    BY <1>2, <2>1, <2>2, <2>3, <2>4, <2>5, <2>6, <2>7, <2>8 DEF Submit
<1>3. ASSUME Parse PROVE at' \in {"args", "done"} /\ in'.of = "args"
  <2>1. CASE SplitPorts
    BY <2>1 DEF SplitPorts, Run
  <2>2. CASE ParsePorts
    BY <2>2 DEF ParsePorts, Step, Return, Serving
  <2>3. CASE Parsed
    BY <2>3 DEF Parsed, Return, Serving
  <2>4. QED
    BY <1>3, <2>1, <2>2, <2>3 DEF Parse
<1>4. ASSUME Show PROVE at' = "done" /\ in'.of = "view"
  BY <1>4 DEF Show, Return
<1>5. ASSUME Discover PROVE at' \in {"scan", "merge", "done"} /\ in'.of = "files"
  <2>1. CASE ScanDirs
    BY <2>1 DEF ScanDirs
  <2>2. CASE Scan
    BY <2>2 DEF Scan, Run, Serving
  <2>3. CASE Merge
    BY <2>3 DEF Merge, Step, Serving
  <2>4. CASE NextDir
    BY <2>4 DEF NextDir, Serving
  <2>5. CASE Scanned
    BY <2>5 DEF Scanned, Return, Serving
  <2>6. QED
    BY <1>5, <2>1, <2>2, <2>3, <2>4, <2>5 DEF Discover
<1>6. QED
  BY <1>1, <1>2, <1>3, <1>4, <1>5

LEMMA ServingNext == Serving /\ Offering /\ [Next]_vars => Serving'
<1> SUFFICES ASSUME Serving, Offering, [Next]_vars PROVE Serving'
  OBVIOUS
<1>1. CASE Next
  BY <1>1, StepsServe DEF Next, Serving
<1>2. CASE UNCHANGED vars
  BY <1>2 DEF vars, loop, best, Serving
<1>3. QED
  BY <1>1, <1>2

\* The newest of a set and one more pod.
LEMMA NewestGrows ==
  ASSUME NEW S \in SUBSET Pods, NEW p, NewestOf(p, S), NEW q \in Pods
  PROVE  NewestOf(Newer(q, p), S \cup {q})
<1>1. \A r \in Pods : r.created \in Int
  BY QueriesAssumption DEF Pods
<1>2. CASE S = {}
  BY <1>1, <1>2 DEF NewestOf, Newer
<1>3. CASE S # {}
  <2>1. p \in Pods /\ p # None
    BY <1>3, QueriesAssumption DEF NewestOf
  <2>2. QED
    BY <1>1, <1>3, <2>1 DEF NewestOf, Newer
<1>4. QED
  BY <1>2, <1>3

\* What the collection of the pairs has to establish.
LEMMA OfferingAtPairs ==
  ASSUME at' = "pairs",
         listed' \in Seq(Pairs), out' \in Seq(Pairs), i' \in 1 .. Len(listed') + 1,
         \A k \in DOMAIN listed' : InRange(listed'[k][2]),
         \A k \in DOMAIN listed' : k \in in'.included => InRange(listed'[k][1]),
         \A k \in DOMAIN out' : InRange(out'[k][1]) /\ InRange(out'[k][2]),
         \A k \in DOMAIN out' : \E l \in 1 .. i' - 1 : out'[k] = listed'[l],
         in'.kind = "Pod" /\ ~in'.edited => Bindable(listed') /\ Bindable(out')
  PROVE  Offering'
BY DEF Offering

LEMMA PickingNext ==
  ASSUME Serving, Offering, Picking, BestPodIsPicked, [Next]_vars
  PROVE  Picking' /\ BestPodIsPicked'
<1>1. CASE ResolveOnePod
  <2>1. PICK pods \in UpTo(Pods, MaxPods) : \E labels \in SUBSET Labels :
          LET fit == {k \in DOMAIN pods : labels \subseteq pods[k].labels}
          IN  /\ in' = [of |-> "pods", labels |-> labels, pods |-> pods]
              /\ \/ (labels = {} \/ fit = {}) /\ Return(None)
                 \/ /\ labels # {} /\ fit # {}
                    /\ \E order \in Ascending(fit) : Run("pick", [k \in DOMAIN order |-> pods[order[k]]])
    BY <1>1 DEF ResolveOnePod
  <2>2. PICK labels \in SUBSET Labels :
          LET fit == {k \in DOMAIN pods : labels \subseteq pods[k].labels}
          IN  /\ in' = [of |-> "pods", labels |-> labels, pods |-> pods]
              /\ \/ (labels = {} \/ fit = {}) /\ Return(None)
                 \/ /\ labels # {} /\ fit # {}
                    /\ \E order \in Ascending(fit) : Run("pick", [k \in DOMAIN order |-> pods[order[k]]])
    BY <2>1
  <2> DEFINE fit == {k \in DOMAIN pods : labels \subseteq pods[k].labels}
             fitting == {p \in ToSet(pods) : labels # {} /\ labels \subseteq p.labels}
  <2>3. in'.of = "pods" /\ in'.labels = labels /\ in'.pods = pods
    BY <2>2
  <2>4. pods \in Seq(Pods) /\ \A k \in DOMAIN pods : pods[k] \in Pods
    BY UpToFacts
  <2>5. labels # {} => fitting = {pods[k] : k \in fit}
    BY DEF ToSet
  <2>6. CASE (labels = {} \/ fit = {}) /\ Return(None)
    <3>1. fitting = {}
      BY <2>5, <2>6
    <3>2. at' = "done" /\ out' = None
      BY <2>6 DEF Return
    <3>3. QED
      BY <2>3, <3>1, <3>2 DEF Picking, BestPodIsPicked, Answered
  <2>7. CASE labels # {} /\ fit # {} /\ ~((labels = {} \/ fit = {}) /\ Return(None))
    <3>1. PICK order \in Ascending(fit) : Run("pick", [k \in DOMAIN order |-> pods[order[k]]])
      BY <2>2, <2>7
    <3>2. at' = "pick" /\ i' = 1 /\ listed' = [k \in DOMAIN order |-> pods[order[k]]]
      BY <3>1 DEF Run
    <3>3. order \in Seq(fit) /\ DOMAIN order = 1 .. Len(order) /\ ToSet(order) = fit
      BY AscendingFacts
    <3>4. \A k \in DOMAIN order : order[k] \in fit
      BY <3>3 DEF ToSet
    <3>5. listed' \in Seq(Pods)
      BY <2>4, <3>2, <3>3, <3>4
    <3>6. ToSet(listed') = {pods[k] : k \in fit}
      <4>1. ToSet(listed') = {pods[order[k]] : k \in DOMAIN order}
        BY <3>2 DEF ToSet
      <4>2. ToSet(order) = {order[k] : k \in DOMAIN order}
        BY DEF ToSet
      <4>3. QED
        BY <3>3, <4>1, <4>2
    <3>7. Fitting' = ToSet(listed')
      BY <2>3, <2>5, <2>7, <3>6 DEF Fitting
    <3>8. listed' # << >>
      BY <2>7, <3>2, <3>3 DEF ToSet
    <3>9. Passed' = {}
      BY <3>1, NonePassed
    <3>10. ready' = None /\ newest' = None
      BY <1>1 DEF ResolveOnePod, Serving, best
    <3>11. NewestOf(newest, Passed)'
      BY <3>9, <3>10 DEF NewestOf
    <3>12. NewestOf(ready, {p \in Passed : IsPodReady(p)})'
      BY <3>9, <3>10 DEF NewestOf
    <3>13. Picking'
      BY <3>2, <3>5, <3>7, <3>8, <3>11, <3>12 DEF Picking
    <3>14. QED
      BY <3>2, <3>13 DEF BestPodIsPicked, Answered
  <2>8. QED
    BY <2>2, <2>6, <2>7
<1>2. CASE PickBestPod
  <2>1. at = "pick" /\ at' = "pick" /\ More /\ Step /\ in' = in /\ listed' = listed
    BY <1>2 DEF PickBestPod, Step
  <2>2. /\ i \in DOMAIN listed /\ listed[i] \in Pods
        /\ i' \in 1 .. Len(listed) + 1
        /\ Passed' = Passed \cup {listed[i]}
    BY <2>1, StepPasses DEF Picking
  <2>3. Passed \subseteq Pods
    BY <2>1 DEF Picking, Passed
  <2>4. NewestOf(newest', Passed')
    BY <1>2, <2>1, <2>2, <2>3, NewestGrows DEF Picking, PickBestPod
  <2>5. NewestOf(ready', {p \in Passed' : IsPodReady(p)})
    <3>1. CASE IsPodReady(listed[i])
      <4>1. {p \in Passed' : IsPodReady(p)} = {p \in Passed : IsPodReady(p)} \cup {listed[i]}
        BY <2>2, <3>1
      <4>2. QED
        BY <1>2, <2>1, <2>2, <2>3, <3>1, <4>1, NewestGrows DEF Picking, PickBestPod
    <3>2. CASE ~IsPodReady(listed[i])
      <4>1. {p \in Passed' : IsPodReady(p)} = {p \in Passed : IsPodReady(p)}
        BY <2>2, <3>2
      <4>2. ready' = ready
        BY <1>2, <3>2 DEF PickBestPod
      <4>3. QED
        BY <2>1, <4>1, <4>2 DEF Picking
    <3>3. QED
      BY <3>1, <3>2
  <2>6. Fitting' = Fitting
    BY <2>1 DEF Fitting
  <2>7. Picking'
    BY <2>1, <2>2, <2>4, <2>5, <2>6 DEF Picking, NewestOf, IsPodReady
  <2>8. QED
    BY <2>1, <2>7 DEF BestPodIsPicked, Answered
<1>3. CASE Picked
  <2>1. at = "pick" /\ ~More /\ in' = in /\ at' = "done"
        /\ out' = IF ready # None THEN ready ELSE newest
    BY <1>3 DEF Picked, Return
  <2>2. Passed = Fitting
    BY <2>1, AllPassed DEF Picking
  <2>3. listed \in Seq(Pods) /\ ToSet(listed) = Fitting /\ listed # << >>
    BY <2>1 DEF Picking
  <2>4. Fitting # {} /\ Fitting \subseteq Pods
    <3>1. 1 \in DOMAIN listed /\ \A k \in DOMAIN listed : listed[k] \in Pods
      BY <2>3
    <3>2. ToSet(listed) # {} /\ ToSet(listed) \subseteq Pods
      BY <3>1 DEF ToSet
    <3>3. QED
      BY <2>3, <3>2
  <2>5. NewestOf(newest, Fitting) /\ NewestOf(ready, {p \in Fitting : IsPodReady(p)})
    BY <2>1, <2>2 DEF Picking
  <2>6. /\ out' \in Fitting
        /\ \A p \in Fitting : /\ IsPodReady(p) => IsPodReady(out')
                              /\ IsPodReady(p) = IsPodReady(out') => out'.created >= p.created
    <3>1. CASE \E p \in Fitting : IsPodReady(p)
      <4>1. /\ ready \in Fitting /\ IsPodReady(ready)
            /\ \A q \in Fitting : IsPodReady(q) => ready.created >= q.created
        BY <2>5, <3>1 DEF NewestOf
      <4>2. out' = ready
        BY <2>1, <2>4, <4>1, QueriesAssumption
      <4>3. QED
        BY <4>1, <4>2
    <3>2. CASE \A p \in Fitting : ~IsPodReady(p)
      <4>1. ready = None /\ newest \in Fitting /\ \A q \in Fitting : newest.created >= q.created
        BY <2>4, <2>5, <3>2 DEF NewestOf
      <4>2. out' = newest
        BY <2>1, <4>1
      <4>3. QED
        BY <3>2, <4>1, <4>2
    <3>3. QED
      BY <3>1, <3>2
  <2>7. QED
    BY <2>1, <2>4, <2>6 DEF Picking, BestPodIsPicked, Answered, Fitting, IsPodReady
<1>4. CASE Submit \/ Parse \/ Show \/ Discover
  BY <1>4, StepsServe DEF Picking, BestPodIsPicked, Answered
<1>5. CASE UNCHANGED vars
  <2>1. /\ at' = at /\ in' = in /\ listed' = listed /\ i' = i
        /\ ready' = ready /\ newest' = newest /\ out' = out
    BY <1>5 DEF vars, loop, best
  <2>2. Passed' = Passed /\ Fitting' = Fitting
    BY <2>1 DEF Passed, Fitting
  <2>3. Picking'
    BY <2>1, <2>2 DEF Picking, NewestOf, IsPodReady
  <2>4. BestPodIsPicked'
    BY <2>1, <2>2 DEF BestPodIsPicked, Answered, NewestOf, IsPodReady
  <2>5. QED
    BY <2>3, <2>4
<1>6. QED
  BY <1>1, <1>2, <1>3, <1>4, <1>5 DEF Next, Pick

LEMMA OfferingNext ==
  ASSUME Serving, Offering, [Next]_vars
  PROVE  Offering'
<1>1. CASE ComputePorts
  <2>1. PICK kind \in {"Pod", "Service"}, ports \in UpTo({n \in Numbers : n = 0 \/ InRange(n)}, MaxPorts) :
          /\ in' = [of |-> "ports", kind |-> kind, edited |-> FALSE, included |-> {}]
          /\ Run("ports", ports)
    BY <1>1 DEF ComputePorts
  <2>3. at' = "ports" /\ listed' = ports /\ i' = 1 /\ in'.kind = kind /\ ~in'.edited
    BY <2>1 DEF Run
  <2>4. ports \in Seq({n \in Numbers : n = 0 \/ InRange(n)})
        /\ \A k \in DOMAIN ports : ports[k] \in {n \in Numbers : n = 0 \/ InRange(n)}
    BY UpToFacts
  <2>5. ports \in Seq(Int) /\ \A k \in DOMAIN ports : ports[k] = 0 \/ InRange(ports[k])
    BY <2>4, SeqOfSubset, QueriesAssumption
  <2>6. out' = << >> /\ seen' = {}
    BY <1>1 DEF ComputePorts, Serving
  <2>7. QED
    BY <2>3, <2>5, <2>6 DEF Offering, Distinct, InRange, ToSet
<1>2. CASE PodPorts
  <2>1. at = "ports" /\ at' = "ports" /\ More /\ Step /\ in' = in /\ listed' = listed /\ in.kind = "Pod"
    BY <1>2 DEF PodPorts, Step
  <2>2. listed \in Seq(Int) /\ i \in 1 .. Len(listed) + 1 /\ out \in Seq(Int)
    BY <2>1 DEF Offering
  <2>3. i \in DOMAIN listed /\ listed[i] \in Int /\ i' \in 1 .. Len(listed) + 1
    BY <2>1, <2>2, StepPasses
  <2>4. seen = ToSet(out) /\ Distinct(out) /\ \A k \in DOMAIN out : InRange(out[k])
    BY <2>1 DEF Offering
  <2>5. CASE seen' = seen /\ out' = out
    BY <2>1, <2>3, <2>5 DEF Offering, Distinct, InRange, ToSet
  <2>6. CASE listed[i] # 0 /\ listed[i] \notin seen /\ seen' = seen \cup {listed[i]} /\ out' = Append(out, listed[i])
    <3>1. InRange(listed[i])
      BY <2>1, <2>3, <2>6 DEF Offering
    <3>2. /\ ToSet(out') = ToSet(out) \cup {listed[i]} /\ out' \in Seq(Int)
          /\ DOMAIN out' = 1 .. Len(out) + 1 /\ DOMAIN out = 1 .. Len(out)
          /\ \A k \in DOMAIN out : out'[k] = out[k]
          /\ out'[Len(out) + 1] = listed[i]
      BY <2>2, <2>3, <2>6, SetOfAppend
    <3>3. \A k \in DOMAIN out : out[k] # listed[i]
      BY <2>4, <2>6 DEF ToSet
    <3>4. Distinct(out') /\ \A k \in DOMAIN out' : InRange(out'[k])
      <4>1. Distinct(out')
        BY <2>2, <2>3, <2>4, <2>6, <3>3, DistinctAppend
      <4>2. \A k \in DOMAIN out' : k \in DOMAIN out \/ k = Len(out) + 1
        BY <2>2, <3>2
      <4>3. \A k \in DOMAIN out' : InRange(out'[k])
        BY <2>4, <3>1, <3>2, <4>2
      <4>4. QED
        BY <4>1, <4>3
    <3>5. seen' = ToSet(out')
      BY <2>4, <2>6, <3>2
    <3>6. QED
      BY <2>1, <2>3, <3>2, <3>4, <3>5 DEF Offering, Distinct, InRange
  <2>7. QED
    BY <1>2, <2>5, <2>6 DEF PodPorts
<1>3. CASE ServicePorts
  <2>1. at = "ports" /\ at' = "ports" /\ More /\ Step /\ in' = in /\ listed' = listed
        /\ in.kind = "Service" /\ out' = IF listed[i] = 0 THEN out ELSE Append(out, listed[i])
    BY <1>3 DEF ServicePorts, Step
  <2>2. listed \in Seq(Int) /\ i \in 1 .. Len(listed) + 1 /\ out \in Seq(Int)
    BY <2>1 DEF Offering
  <2>3. i \in DOMAIN listed /\ listed[i] \in Int /\ i' \in 1 .. Len(listed) + 1
    BY <2>1, <2>2, StepPasses
  <2>4. \A k \in DOMAIN out : InRange(out[k])
    BY <2>1 DEF Offering
  <2>5. out' \in Seq(Int) /\ \A k \in DOMAIN out' : InRange(out'[k])
    <3>1. CASE listed[i] = 0
      BY <2>1, <2>2, <2>4, <3>1
    <3>2. CASE listed[i] # 0
      <4>1. out' = Append(out, listed[i]) /\ InRange(listed[i])
        BY <2>1, <2>3, <3>2 DEF Offering
      <4>2. QED
        BY <2>2, <2>3, <2>4, <4>1, SetOfAppend
    <3>3. QED
      BY <3>1, <3>2
  <2>6. QED
    BY <2>1, <2>3, <2>5 DEF Offering, InRange
<1>4. CASE Rows
  <2>1. at = "ports" /\ in' = in /\ out' = << >>
    BY <1>4 DEF Rows
  <2>2. PICK ports \in Sorted(out) : Run("page", [k \in DOMAIN ports |-> <<ports[k], ports[k]>>])
    BY <1>4 DEF Rows
  <2>3. at' = "page" /\ i' = 1 /\ listed' = [k \in DOMAIN ports |-> <<ports[k], ports[k]>>]
    BY <2>2 DEF Run
  <2>4. out \in Seq(Int) /\ \A k \in DOMAIN out : InRange(out[k])
    BY <2>1 DEF Offering
  <2>5. /\ ports \in Seq(Int) /\ DOMAIN ports = DOMAIN out
        /\ \A k \in DOMAIN ports : \E l \in DOMAIN out : ports[k] = out[l]
        /\ Distinct(out) => Distinct(ports)
    BY <2>4, SortedFacts
  <2>6. listed' \in Seq(Pairs)
    <3>1. DOMAIN ports = 1 .. Len(ports) /\ \A k \in 1 .. Len(ports) : ports[k] \in Int
      BY <2>5
    <3>2. \A k \in 1 .. Len(ports) : <<ports[k], ports[k]>> \in Pairs
      BY <3>1 DEF Pairs
    <3>3. QED
      BY <2>3, <2>5, <3>1, <3>2
  <2>7. \A k \in DOMAIN listed' : InRange(listed'[k][2])
    BY <2>3, <2>4, <2>5
  <2>8. in.kind = "Pod" => Bindable(listed')
    BY <2>1, <2>3, <2>5 DEF Offering, Distinct, Bindable
  <2>9. Bindable(out') /\ out' \in Seq(Pairs) /\ DOMAIN out' = {}
    BY <2>1 DEF Bindable
  <2>10. QED
    BY <2>1, <2>3, <2>6, <2>7, <2>8, <2>9 DEF Offering, InRange, Bindable
<1>5. CASE EditPort
  <2>1. PICK k \in DOMAIN listed, n \in {m \in Numbers : m > 0} : listed' = [listed EXCEPT ![k][1] = n]
    BY <1>5 DEF EditPort
  <2>2. /\ at = "page" /\ at' = "page" /\ out' = out /\ in \in Requests
        /\ in' = [in EXCEPT !.edited = TRUE]
    BY <1>5 DEF EditPort, Serving
  <2>3. listed \in Seq(Pairs) /\ \A l \in DOMAIN listed : InRange(listed[l][2]) /\ listed[l] \in Pairs
    BY <2>2 DEF Offering
  <2>4. n \in Int
    BY QueriesAssumption
  <2>5. listed[k] = <<listed[k][1], listed[k][2]>> /\ listed[k][2] \in Int
    BY <2>3 DEF Pairs
  <2>6. [listed[k] EXCEPT ![1] = n] = <<n, listed[k][2]>>
    BY <2>5
  <2>7. listed' = [listed EXCEPT ![k] = <<n, listed[k][2]>>]
    BY <2>1, <2>6
  <2>8. <<n, listed[k][2]>> \in Pairs
    BY <2>4, <2>5 DEF Pairs
  <2>9. listed' \in Seq(Pairs) /\ DOMAIN listed' = DOMAIN listed
    BY <2>3, <2>7, <2>8
  <2>10. \A l \in DOMAIN listed' : InRange(listed'[l][2])
    BY <2>3, <2>7, <2>9
  <2>11. in'.edited = TRUE
    BY <2>2 DEF Requests
  <2>12. QED
    BY <2>2, <2>9, <2>10, <2>11 DEF Offering, InRange
<1>6. CASE Enter
  <2>1. PICK included \in SUBSET DOMAIN listed :
          /\ \A k \in included : InRange(listed[k][1])
          /\ in' = [in EXCEPT !.included = included]
    BY <1>6 DEF Enter
  <2>2. /\ at = "page" /\ at' = "pairs" /\ listed' = listed /\ i' = 1 /\ out' = out /\ in \in Requests
        /\ out = << >>
    BY <1>6 DEF Enter, Run, Serving, Offering
  <2>3. in'.included = included /\ in'.kind = in.kind /\ in'.edited = in.edited
    BY <2>1, <2>2 DEF Requests
  <2>4. \A k \in DOMAIN listed : k \in included => InRange(listed[k][1])
    BY <2>1
  <2>5. i' \in 1 .. Len(listed') + 1
    <3>1. listed \in Seq(Pairs)
      BY <2>2 DEF Offering
    <3>2. QED
      BY <2>2, <3>1
  <2>6. QED
    BY <2>2, <2>3, <2>4, <2>5 DEF Offering, InRange, Bindable
<1>7. CASE CollectPairs
  <2>1. at = "pairs" /\ at' = "pairs" /\ More /\ Step /\ in' = in /\ listed' = listed
        /\ out' = IF i \in in.included THEN Append(out, listed[i]) ELSE out
    BY <1>7 DEF CollectPairs, Step
  <2>2. /\ listed \in Seq(Pairs) /\ i \in 1 .. Len(listed) + 1 /\ out \in Seq(Pairs)
        /\ \A k \in DOMAIN listed : InRange(listed[k][2])
        /\ \A k \in DOMAIN listed : k \in in.included => InRange(listed[k][1])
        /\ \A k \in DOMAIN out : InRange(out[k][1]) /\ InRange(out[k][2])
        /\ in.kind = "Pod" /\ ~in.edited => Bindable(listed) /\ Bindable(out)
    BY <2>1 DEF Offering
  <2>3. i \in DOMAIN listed /\ listed[i] \in Pairs /\ i' \in 1 .. Len(listed) + 1 /\ i' = i + 1
    BY <2>1, <2>2, StepPasses
  <2>4. \A k \in DOMAIN out : \E l \in 1 .. i - 1 : out[k] = listed[l]
    BY <2>1 DEF Offering
  <2>5. CASE i \notin in.included
    <3>1. out' = out
      BY <2>1, <2>5
    <3>2. \A k \in DOMAIN out : \E l \in 1 .. i' - 1 : out[k] = listed[l]
      <4>1. \A l \in 1 .. i - 1 : l \in 1 .. i' - 1
        BY <2>2, <2>3
      <4>2. QED
        BY <2>4, <4>1, Zenon
    <3>3. \A k \in DOMAIN out' : \E l \in 1 .. i' - 1 : out'[k] = listed'[l]
      BY <2>1, <3>1, <3>2
    <3>4. QED
      BY <2>1, <2>2, <2>3, <3>1, <3>3, OfferingAtPairs
  <2>6. CASE i \in in.included
    <3>1. /\ out' \in Seq(Pairs)
          /\ DOMAIN out' = 1 .. Len(out) + 1 /\ DOMAIN out = 1 .. Len(out)
          /\ \A k \in DOMAIN out : out'[k] = out[k]
          /\ out'[Len(out) + 1] = listed[i]
      BY <2>1, <2>2, <2>3, <2>6, SetOfAppend
    <3>2. \A k \in DOMAIN out' : \E l \in 1 .. i' - 1 : out'[k] = listed'[l]
      <4>1. out' = Append(out, listed[i]) /\ i \in 1 .. Len(listed)
        BY <2>1, <2>2, <2>3, <2>6
      <4>2. Chosen(Append(out, listed[i]), listed, i)
        <5>1. out \in Seq(Pairs) /\ listed \in Seq(Pairs)
          BY <2>2
        <5>2. Chosen(out, listed, i - 1)
          BY <2>4 DEF Chosen
        <5>3. QED
          BY <4>1, <5>1, <5>2, ChosenAppend
      <4>3. i' - 1 = i
        BY <2>2, <2>3
      <4>4. listed' = listed
        BY <2>1
      <4>5. \A l \in 1 .. i : l \in 1 .. i' - 1
        BY <4>3
      <4>6. \A k \in DOMAIN out' : \E l \in 1 .. i : out'[k] = listed[l]
        BY <4>1, <4>2 DEF Chosen
      <4>7. QED
        BY <4>4, <4>5, <4>6, Zenon
    <3>3. ASSUME in.kind = "Pod", ~in.edited PROVE Bindable(out')
      <4>1. Bindable(listed) /\ Bindable(out) /\ out' = Append(out, listed[i])
        BY <2>1, <2>2, <2>6, <3>3
      <4>2. i \in 1 .. Len(listed)
        BY <2>2, <2>3
      <4>3. Bindable(Append(out, listed[i]))
        BY <2>2, <2>4, <4>1, <4>2, BindableAppend
      <4>4. QED
        BY <4>1, <4>3
    <3>4. \A k \in DOMAIN out' : InRange(out'[k][1]) /\ InRange(out'[k][2])
      <4>1. InRange(listed[i][1]) /\ InRange(listed[i][2])
        BY <2>2, <2>3, <2>6, Zenon
      <4>2. \A k \in DOMAIN out' : k \in DOMAIN out \/ k = Len(out) + 1
        <5>1. Len(out) \in Nat
          BY <2>2
        <5>2. QED
          BY <3>1, <5>1
      <4>3. ASSUME NEW k \in DOMAIN out'
            PROVE  InRange(out'[k][1]) /\ InRange(out'[k][2])
        <5>1. CASE k \in DOMAIN out
          <6>1. out'[k] = out[k]
            BY <3>1, <5>1, Zenon
          <6>2. InRange(out[k][1]) /\ InRange(out[k][2])
            BY <2>2, <5>1, Zenon
          <6>3. QED
            BY <6>1, <6>2, Zenon
        <5>2. CASE k = Len(out) + 1
          BY <3>1, <4>1, <5>2, Zenon
        <5>3. QED
          BY <4>2, <5>1, <5>2, Zenon
      <4>4. QED
        BY <4>3, Zenon
    <3>5. /\ listed' \in Seq(Pairs) /\ i' \in 1 .. Len(listed') + 1
          /\ \A k \in DOMAIN listed' : InRange(listed'[k][2])
          /\ \A k \in DOMAIN listed' : k \in in'.included => InRange(listed'[k][1])
          /\ in'.kind = "Pod" /\ ~in'.edited => Bindable(listed')
      BY <2>1, <2>2, <2>3
    <3>6. in'.kind = "Pod" /\ ~in'.edited => Bindable(listed') /\ Bindable(out')
      BY <2>1, <3>3, <3>5
    <3>7. QED
      BY <2>1, <3>1, <3>2, <3>4, <3>5, <3>6, OfferingAtPairs, Zenon
  <2>7. QED
    BY <2>5, <2>6
<1>8. CASE Collected
  BY <1>8 DEF Collected, Return, Offering
<1>9. CASE Pick \/ Parse \/ Show \/ Discover
  BY <1>9, StepsServe DEF Offering
<1>10. CASE UNCHANGED vars
  <2>1. /\ at' = at /\ in' = in /\ listed' = listed /\ i' = i /\ seen' = seen /\ out' = out
    BY <1>10 DEF vars, loop, best
  <2>2. QED
    BY <2>1 DEF Offering, Distinct, InRange, Bindable, ToSet
<1>11. QED
  BY <1>1, <1>2, <1>3, <1>4, <1>5, <1>6, <1>7, <1>8, <1>9, <1>10 DEF Next, Submit

LEMMA ParsingNext ==
  ASSUME Serving, Offering, Parsing, [Next]_vars
  PROVE  Parsing'
<1>1. CASE SplitPorts
  <2>1. PICK args \in UpTo(UpTo(Numbers, 1) \cup UpTo(Numbers, 2), MaxPorts) : Run("args", args)
    BY <1>1 DEF SplitPorts
  <2>2. args \in Seq(UpTo(Numbers, 1) \cup UpTo(Numbers, 2))
        /\ \A k \in DOMAIN args : args[k] \in UpTo(Numbers, 1) \cup UpTo(Numbers, 2)
    BY UpToFacts
  <2>3. \A k \in DOMAIN args : args[k] \in Seq(Numbers)
    BY <2>2, UpToFacts
  <2>4. Seq(Numbers) \subseteq Seq(Int)
    BY SeqOfSubset, QueriesAssumption
  <2>5. args \in Seq(Seq(Int))
    BY <2>2, <2>3, <2>4
  <2>6. at' = "args" /\ listed' = args /\ i' = 1 /\ out' = << >>
    BY <1>1, <2>1 DEF SplitPorts, Run, Serving
  <2>7. QED
    BY <2>5, <2>6 DEF Parsing
<1>2. CASE ParsePorts
  <2>1. at = "args" /\ More
    BY <1>2 DEF ParsePorts
  <2>2. listed \in Seq(Seq(Int)) /\ i \in 1 .. Len(listed) + 1 /\ out \in Seq(Seq(Int))
        /\ \A k \in DOMAIN out : Good(out[k])
    BY <2>1 DEF Parsing
  <2>3. CASE Step /\ out' = out
    <3>1. listed' = listed /\ i' \in 1 .. Len(listed) + 1
      BY <2>1, <2>2, <2>3, StepPasses DEF Step
    <3>2. QED
      BY <2>2, <2>3, <3>1 DEF Parsing, Good, InRange
  <2>4. CASE Step /\ Good(listed[i]) /\ out' = Append(out, listed[i])
    <3>1. listed' = listed /\ i' \in 1 .. Len(listed) + 1 /\ listed[i] \in Seq(Int)
      BY <2>1, <2>2, <2>4, StepPasses DEF Step
    <3>2. /\ out' \in Seq(Seq(Int))
          /\ DOMAIN out' = 1 .. Len(out) + 1 /\ DOMAIN out = 1 .. Len(out)
          /\ \A k \in DOMAIN out : out'[k] = out[k]
          /\ out'[Len(out) + 1] = listed[i]
      BY <2>2, <2>4, <3>1, SetOfAppend
    <3>3. \A k \in DOMAIN out' : Good(out'[k])
      BY <2>2, <2>4, <3>2
    <3>4. QED
      BY <2>2, <3>1, <3>2, <3>3 DEF Parsing, Good, InRange
  <2>5. CASE Return(None)
    BY <2>5 DEF Return, Parsing
  <2>6. QED
    BY <1>2, <2>3, <2>4, <2>5 DEF ParsePorts
<1>3. CASE Parsed
  BY <1>3 DEF Parsed, Return, Parsing
<1>4. CASE Pick \/ Submit \/ Show \/ Discover
  BY <1>4, StepsServe DEF Parsing
<1>5. CASE UNCHANGED vars
  BY <1>5 DEF vars, loop, best, Parsing, Good, InRange
<1>6. QED
  BY <1>1, <1>2, <1>3, <1>4, <1>5 DEF Next, Parse

LEMMA KeptFacts ==
  ASSUME NEW d \in Dirs, in.files \in [Dirs -> FileSets]
  PROVE  /\ Kept(d) \in SUBSET Nat /\ IsFiniteSet(Kept(d))
         /\ \A f \in in.files[d] : Keeps(f) <=> f.name \in Kept(d)
<1>1. in.files[d] \in SUBSET Files
      /\ \A f, g \in in.files[d] : f.name = g.name => f = g
  BY DEF FileSets
<1>2. Kept(d) \subseteq 1 .. MaxNames
  BY <1>1 DEF Kept, Files
<1>3. IsFiniteSet(1 .. MaxNames)
  BY FS_Interval, QueriesAssumption
<1>4. IsFiniteSet(Kept(d))
  BY <1>2, <1>3, FS_Subset
<1>5. ASSUME NEW f \in in.files[d] PROVE Keeps(f) <=> f.name \in Kept(d)
  BY <1>1 DEF Kept
<1>6. QED
  BY <1>2, <1>4, <1>5, QueriesAssumption

Entries == Dirs \X Nat

\* What is found in one directory more.
LEMMA FoundInGrows ==
  ASSUME NEW n \in Nat
  PROVE  FoundIn(n + 1) = FoundIn(n) \cup {<<in.dirs[n + 1], name>> : name \in Kept(in.dirs[n + 1])}
<1>1. 1 .. n + 1 = (1 .. n) \cup {n + 1}
  OBVIOUS
<1>2. QED
  BY <1>1 DEF FoundIn

\* Where a new entry belongs: its directory was not scanned before, or all it
\* keeps were seen; so it comes after whatever is in the result.
LEMMA NewEntryIsLast ==
  ASSUME Finding, at = "merge", More, listed[i] \notin seen, NEW o \in ToSet(out)
  PROVE  o # listed[i] /\ Precedes(o, listed[i])
<1> DEFINE e == listed[i]
           d == in.dirs[dir]
<1>1. /\ listed \in Seq(Entries) /\ i \in 1 .. Len(listed) /\ i \in DOMAIN listed
      /\ dir \in 1 .. Len(in.dirs) /\ in.dirs \in Seq(Dirs) /\ dir \in DOMAIN in.dirs
  BY DEF Finding, More, Entries
<1>2. seen = ToSet(out) /\ ToSet(out) = FoundIn(dir - 1) \cup Passed
  BY DEF Finding
<1>3. e[1] = d /\ e \in {<<d, name>> : name \in Kept(d)}
  BY <1>1 DEF Finding, ToSet
<1>4. o # e
  BY <1>2
<1>5. ASSUME NEW k \in 1 .. dir - 1 PROVE in.dirs[k] # d
  <2>1. SUFFICES ASSUME in.dirs[k] = d PROVE FALSE
    OBVIOUS
  <2>2. e \in FoundIn(dir - 1)
    BY <1>3, <2>1 DEF FoundIn
  <2>3. QED
    BY <1>2, <2>2
<1>6. CASE o \in Passed
  <2>1. PICK l \in 1 .. i - 1 : o = listed[l]
    BY <1>6 DEF Passed
  <2>2. l \in DOMAIN listed /\ l < i
    BY <1>1, <2>1
  <2>3. o[1] = d /\ o[2] < e[2]
    BY <1>1, <2>1, <2>2 DEF Finding
  <2>4. QED
    BY <1>3, <1>4, <2>3 DEF Precedes
<1>7. CASE o \in FoundIn(dir - 1)
  <2>1. PICK k \in 1 .. dir - 1 : o \in {<<in.dirs[k], name>> : name \in Kept(in.dirs[k])}
    BY <1>7 DEF FoundIn
  <2>2. o[1] = in.dirs[k]
    BY <2>1
  <2>3. k \in DOMAIN in.dirs /\ \A l \in 1 .. k : l \in 1 .. dir - 1
    BY <1>1
  <2>4. \A l \in 1 .. k : in.dirs[l] # d
    BY <1>5, <2>3
  <2>5. o[1] # e[1]
    BY <1>3, <1>5, <2>2
  <2>6. QED
    BY <1>3, <1>4, <2>2, <2>3, <2>4, <2>5 DEF Precedes
<1>8. QED
  BY <1>2, <1>6, <1>7

LEMMA FindingNext ==
  ASSUME Serving, Offering, Finding, KubeconfigsOnce, [Next]_vars
  PROVE  Finding' /\ KubeconfigsOnce'
<1>1. CASE ScanDirs
  <2>1. PICK dirs \in UpTo(Dirs, MaxDirs), files \in [Dirs -> FileSets] :
          in' = [of |-> "files", dirs |-> dirs, files |-> files]
    BY <1>1 DEF ScanDirs
  <2>2. at' = "scan" /\ dir' = 1 /\ out' = << >> /\ seen' = {}
    BY <1>1 DEF ScanDirs, Serving
  <2>3. in'.dirs = dirs /\ in'.files = files /\ dirs \in Seq(Dirs)
    BY <2>1, UpToFacts
  <2>4. ToSet(out') = {} /\ out' \in Seq(Entries) /\ DOMAIN out' = {}
    BY <2>2 DEF ToSet
  <2>5. (FoundIn(0))' = {}
    <3>1. 1 .. 0 = {}
      OBVIOUS
    <3>2. QED
      BY <3>1 DEF FoundIn
  <2>6. (FoundIn(dir - 1))' = {}
    BY <2>2, <2>5 DEF FoundIn
  <2>7. dir' \in 1 .. Len(in'.dirs) + 1 /\ in'.files \in [Dirs -> FileSets]
    BY <2>1, <2>2, <2>3
  <2>8. Finding'
    BY <2>2, <2>3, <2>4, <2>6, <2>7 DEF Finding, Precedes, Entries
  <2>9. QED
    BY <2>2, <2>8 DEF KubeconfigsOnce, Answered
<1>2. CASE Scan
  <2>1. at = "scan" /\ dir <= Len(in.dirs) /\ in' = in /\ dir' = dir /\ seen' = seen /\ out' = out
    BY <1>2 DEF Scan
  <2> DEFINE d == in.dirs[dir]
  <2>2. PICK names \in Ascending(Kept(d)) : Run("merge", [k \in DOMAIN names |-> <<d, names[k]>>])
    BY <1>2 DEF Scan
  <2>3. at' = "merge" /\ i' = 1 /\ listed' = [k \in DOMAIN names |-> <<d, names[k]>>] /\ Passed' = {}
    BY <2>2, NonePassed DEF Run
  <2>4. /\ in.dirs \in Seq(Dirs) /\ in.files \in [Dirs -> FileSets] /\ dir \in 1 .. Len(in.dirs) + 1
        /\ d \in Dirs
    BY <2>1 DEF Finding
  <2>5. Kept(d) \in SUBSET Nat
    BY <2>4, KeptFacts
  <2>6. /\ names \in Seq(Kept(d)) /\ DOMAIN names = 1 .. Len(names) /\ ToSet(names) = Kept(d)
        /\ \A k, l \in DOMAIN names : k < l => names[k] < names[l]
    BY <2>4, KeptFacts, AscendingFacts
  <2>7. \A k \in 1 .. Len(names) : <<d, names[k]>> \in Entries
    BY <2>4, <2>5, <2>6 DEF Entries
  <2>8. listed' \in Seq(Entries) /\ i' \in 1 .. Len(listed') + 1
    BY <2>3, <2>6, <2>7
  <2>9. /\ \A k \in DOMAIN listed' : listed'[k][1] = d
        /\ \A k, l \in DOMAIN listed' : k < l => listed'[k][2] < listed'[l][2]
    BY <2>3, <2>6
  <2>10. ToSet(listed') = {<<d, name>> : name \in Kept(d)}
    <3>1. ToSet(listed') = {<<d, names[k]>> : k \in DOMAIN names}
      BY <2>3 DEF ToSet
    <3>2. Kept(d) = {names[k] : k \in DOMAIN names}
      BY <2>6 DEF ToSet
    <3>3. QED
      BY <3>1, <3>2
  <2>11. FoundIn(dir - 1)' = FoundIn(dir - 1) /\ Kept(d)' = Kept(d)
    BY <2>1 DEF FoundIn, Kept, Keeps
  <2>12. ToSet(out') = FoundIn(dir - 1)' \cup Passed'
    BY <2>1, <2>3, <2>11 DEF Finding
  <2>13. Finding'
    BY <2>1, <2>3, <2>8, <2>9, <2>10, <2>11, <2>12 DEF Finding, Precedes, Entries
  <2>14. QED
    BY <2>3, <2>13 DEF KubeconfigsOnce, Answered
<1>3. CASE Merge
  <2>1. at = "merge" /\ at' = "merge" /\ More /\ Step /\ in' = in /\ listed' = listed /\ dir' = dir
    BY <1>3 DEF Merge, Step
  <2>2. /\ listed \in Seq(Entries) /\ i \in 1 .. Len(listed) + 1
        /\ out \in Seq(Entries) /\ seen = ToSet(out)
        /\ ToSet(out) = FoundIn(dir - 1) \cup Passed
    BY <2>1 DEF Finding, Entries
  <2>3. /\ i \in DOMAIN listed /\ listed[i] \in Entries /\ i' \in 1 .. Len(listed) + 1
        /\ Passed' = Passed \cup {listed[i]}
    BY <2>1, <2>2, StepPasses
  <2>4. FoundIn(dir - 1)' = FoundIn(dir - 1) /\ Kept(in.dirs[dir])' = Kept(in.dirs[dir])
    BY <2>1 DEF FoundIn, Kept, Keeps
  <2>5. /\ in.dirs \in Seq(Dirs) /\ in.files \in [Dirs -> FileSets]
        /\ dir \in 1 .. Len(in.dirs) + 1 /\ dir <= Len(in.dirs)
        /\ \A k \in DOMAIN listed : listed[k][1] = in.dirs[dir]
        /\ \A k, l \in DOMAIN listed : k < l => listed[k][2] < listed[l][2]
        /\ ToSet(listed) = {<<in.dirs[dir], name>> : name \in Kept(in.dirs[dir])}
        /\ \A k, l \in DOMAIN out : k < l => out[k] # out[l] /\ Precedes(out[k], out[l])
    BY <2>1 DEF Finding
  <2>6. CASE listed[i] \in seen /\ seen' = seen /\ out' = out
    <3>1. ToSet(out') = FoundIn(dir - 1)' \cup Passed'
      BY <2>2, <2>3, <2>4, <2>6
    <3>2. Finding'
      BY <2>1, <2>2, <2>3, <2>4, <2>5, <2>6, <3>1 DEF Finding, Precedes, Entries
    <3>3. QED
      BY <2>1, <3>2 DEF KubeconfigsOnce, Answered
  <2>7. CASE listed[i] \notin seen /\ seen' = seen \cup {listed[i]} /\ out' = Append(out, listed[i])
    <3>1. /\ ToSet(out') = ToSet(out) \cup {listed[i]} /\ out' \in Seq(Entries)
          /\ DOMAIN out' = 1 .. Len(out) + 1 /\ DOMAIN out = 1 .. Len(out) /\ Len(out) \in Nat
          /\ \A k \in DOMAIN out : out'[k] = out[k]
          /\ out'[Len(out) + 1] = listed[i]
      BY <2>2, <2>3, <2>7, SetOfAppend
    <3>2. \A k \in DOMAIN out : out[k] \in ToSet(out)
      BY DEF ToSet
    <3>3. \A k \in DOMAIN out : out[k] # listed[i] /\ Precedes(out[k], listed[i])
      BY <2>1, <2>7, <3>2, NewEntryIsLast
    <3>4. ASSUME NEW k \in DOMAIN out', NEW l \in DOMAIN out', k < l
          PROVE  out'[k] # out'[l] /\ Precedes(out'[k], out'[l])
      <4>1. k \in DOMAIN out
        BY <3>1, <3>4
      <4>2. CASE l \in DOMAIN out
        BY <2>1, <3>1, <3>4, <4>1, <4>2 DEF Finding
      <4>3. CASE l = Len(out) + 1
        BY <3>1, <3>3, <4>1, <4>3
      <4>4. QED
        BY <3>1, <4>2, <4>3
    <3>5. ToSet(out') = FoundIn(dir - 1)' \cup Passed' /\ seen' = ToSet(out')
      BY <2>1, <2>2, <2>3, <2>4, <2>7, <3>1
    <3>6. \A k, l \in DOMAIN out' : k < l => out'[k] # out'[l] /\ Precedes(out[k], out[l])'
      BY <2>1, <3>4 DEF Precedes
    <3>7. Finding'
      BY <2>1, <2>2, <2>3, <2>4, <2>5, <3>1, <3>5, <3>6 DEF Finding, Entries
    <3>8. QED
      BY <2>1, <3>7 DEF KubeconfigsOnce, Answered
  <2>8. QED
    BY <1>3, <2>6, <2>7 DEF Merge
<1>4. CASE NextDir
  <2>1. at = "merge" /\ ~More /\ at' = "scan" /\ dir' = dir + 1 /\ in' = in /\ seen' = seen /\ out' = out
    BY <1>4 DEF NextDir
  <2>2. /\ listed \in Seq(Entries) /\ i \in 1 .. Len(listed) + 1
        /\ dir \in 1 .. Len(in.dirs) /\ in.dirs \in Seq(Dirs)
    BY <2>1 DEF Finding, Entries
  <2>3. Passed = {<<in.dirs[dir], name>> : name \in Kept(in.dirs[dir])}
    BY <2>1, <2>2, AllPassed DEF Finding
  <2>4. ToSet(out) = FoundIn(dir - 1) \cup {<<in.dirs[dir], name>> : name \in Kept(in.dirs[dir])}
    BY <2>1, <2>3 DEF Finding
  <2>5. ToSet(out) = FoundIn(dir)
    <3>1. dir - 1 \in Nat /\ (dir - 1) + 1 = dir
      BY <2>2
    <3>2. QED
      BY <2>4, <3>1, FoundInGrows
  <2>6. (FoundIn(dir - 1))' = FoundIn(dir)
    <3>1. dir' - 1 = dir
      BY <2>1, <2>2
    <3>2. QED
      BY <2>1, <3>1 DEF FoundIn, Kept, Keeps
  <2>7. dir' \in 1 .. Len(in.dirs) + 1
    BY <2>1, <2>2
  <2>8. QED
    BY <2>1, <2>5, <2>6, <2>7 DEF Finding, Precedes, KubeconfigsOnce, Answered
<1>5. CASE Scanned
  <2>1. at = "scan" /\ dir > Len(in.dirs) /\ at' = "done" /\ in' = in /\ out' = out
    BY <1>5 DEF Scanned, Return
  <2>2. /\ in.dirs \in Seq(Dirs) /\ dir \in 1 .. Len(in.dirs) + 1 /\ in.files \in [Dirs -> FileSets]
        /\ ToSet(out) = FoundIn(dir - 1)
    BY <2>1 DEF Finding
  <2>3. ToSet(out) = FoundIn(Len(in.dirs)) /\ DOMAIN in.dirs = 1 .. Len(in.dirs)
    <3>1. dir - 1 = Len(in.dirs)
      BY <2>1, <2>2
    <3>2. QED
      BY <2>2, <3>1
  <2>4. ASSUME NEW d \in ToSet(in.dirs), NEW f \in in.files[d]
        PROVE  Keeps(f) <=> <<d, f.name>> \in ToSet(out)
    <3>1. PICK k \in DOMAIN in.dirs : d = in.dirs[k]
      BY DEF ToSet
    <3>2. d \in Dirs
      BY <2>2, <3>1
    <3>3. Keeps(f) <=> f.name \in Kept(d)
      BY <2>2, <3>2, KeptFacts
    <3>4. f.name \in Kept(d) => <<d, f.name>> \in FoundIn(Len(in.dirs))
      BY <2>3, <3>1 DEF FoundIn
    <3>5. <<d, f.name>> \in FoundIn(Len(in.dirs)) => f.name \in Kept(d)
      BY DEF FoundIn
    <3>6. QED
      BY <2>3, <3>3, <3>4, <3>5
  <2>5. \A e \in ToSet(out) : e[1] \in ToSet(in.dirs)
    BY <2>3 DEF FoundIn, ToSet
  <2>6. \A k, l \in DOMAIN out : k < l => out[k] # out[l] /\ Precedes(out[k], out[l])
    BY <2>1 DEF Finding
  <2>7. KubeconfigsOnce'
    BY <2>1, <2>4, <2>5, <2>6 DEF KubeconfigsOnce, Precedes, Keeps
  <2>8. QED
    BY <2>1, <2>7 DEF Finding
<1>6. CASE Pick \/ Submit \/ Parse \/ Show
  BY <1>6, StepsServe DEF Finding, KubeconfigsOnce, Answered
<1>7. CASE UNCHANGED vars
  <2>1. /\ at' = at /\ in' = in /\ listed' = listed /\ i' = i /\ dir' = dir
        /\ seen' = seen /\ out' = out
    BY <1>7 DEF vars, loop, best
  <2>2. QED
    BY <2>1 DEF Finding, FoundIn, Kept, Keeps, Passed, Precedes, KubeconfigsOnce, Answered
<1>8. QED
  BY <1>1, <1>2, <1>3, <1>4, <1>5, <1>6, <1>7 DEF Next, Discover

\* What View of the active step is called with: a cursor on a row of a table
\* that is not empty, and any height, none of the window known yet included.
LEMMA WindowFacts ==
  ASSUME NEW n \in Nat \ {0}, NEW cursor \in 0 .. n - 1, NEW height \in Int
  PROVE  /\ cursor \in Window(n, cursor, height)
         /\ Window(n, cursor, height) \subseteq 0 .. n - 1
         /\ Cardinality(Window(n, cursor, height)) = VisibleRows(n, height)
<1> DEFINE visible == VisibleRows(n, height)
           first == FirstShown(n, cursor, visible)
<1>1. visible \in 1 .. n
  BY DEF VisibleRows
<1>2. first \in 0 .. n - visible /\ first <= cursor /\ cursor <= first + visible - 1
  BY <1>1 DEF FirstShown, Most, Least
<1>3. Window(n, cursor, height) = first .. first + visible - 1
  BY DEF Window
<1> HIDE DEF visible, first
<1>4. Cardinality(first .. first + visible - 1) = visible
  <2>1. first \in Int /\ first + visible - 1 \in Int /\ first <= first + visible - 1
    BY <1>1, <1>2
  <2>2. Cardinality(first .. first + visible - 1) = (first + visible - 1) - first + 1
    BY <2>1, FS_Interval
  <2>3. QED
    BY <1>1, <1>2, <2>2
<1>5. QED
  BY <1>1, <1>2, <1>3, <1>4 DEF visible

LEMMA ShowWindow == Show => CursorIsShown'
<1> SUFFICES ASSUME Show PROVE CursorIsShown'
  OBVIOUS
<1>1. PICK n \in 0 .. MaxRows :
        \E cursor \in 0 .. Most(0, n - 1), height \in -1 .. MaxRows + 1 :
          /\ in' = [of |-> "view", n |-> n, cursor |-> cursor, height |-> height]
          /\ Return(Window(n, cursor, height))
  BY DEF Show
<1>2. PICK cursor \in 0 .. Most(0, n - 1), height \in -1 .. MaxRows + 1 :
        /\ in' = [of |-> "view", n |-> n, cursor |-> cursor, height |-> height]
        /\ Return(Window(n, cursor, height))
  BY <1>1
<1>3. in'.n = n /\ in'.cursor = cursor /\ in'.height = height /\ out' = Window(n, cursor, height)
  BY <1>2 DEF Return
<1>4. n \in Nat /\ height \in Int /\ (n > 0 => cursor \in 0 .. n - 1)
  BY QueriesAssumption DEF Most
<1>5. n > 0 => /\ cursor \in Window(n, cursor, height)
               /\ Window(n, cursor, height) \subseteq 0 .. n - 1
               /\ Cardinality(Window(n, cursor, height)) = VisibleRows(n, height)
  BY <1>4, WindowFacts
<1>6. QED
  BY <1>3, <1>5 DEF CursorIsShown, VisibleRows

LEMMA WindowNext ==
  ASSUME Serving, Offering, CursorIsShown, [Next]_vars
  PROVE  CursorIsShown'
<1>1. CASE Show
  BY <1>1, ShowWindow
<1>2. CASE Pick \/ Submit \/ Parse \/ Discover
  BY <1>2, StepsServe DEF CursorIsShown, Answered
<1>3. CASE UNCHANGED vars
  BY <1>3 DEF vars, CursorIsShown, Answered, VisibleRows
<1>4. QED
  BY <1>1, <1>2, <1>3 DEF Next

\* What is submitted can start, by the loop invariants at the exits.
LEMMA SubmittedNext ==
  ASSUME Serving, Offering, Parsing, SubmittedPairsCanStart, [Next]_vars
  PROVE  SubmittedPairsCanStart'
<1>1. CASE Submit
  <2>1. in'.of = "ports"
    BY <1>1, StepsServe
  <2>2. CASE Collected
    <3>1. at = "pairs" /\ in' = in /\ out' = out
      BY <2>2 DEF Collected, Return
    <3>2. /\ \A k \in DOMAIN out : InRange(out[k][1]) /\ InRange(out[k][2])
          /\ in.kind = "Pod" /\ ~in.edited => Bindable(out)
      BY <3>1 DEF Offering
    <3>3. QED
      BY <2>1, <3>1, <3>2 DEF SubmittedPairsCanStart, Answered, ValidateSpec, Bindable, InRange
  <2>3. CASE ~Collected
    <3>1. at' # "done"
      BY <1>1, <2>3 DEF Submit, ComputePorts, PodPorts, ServicePorts, Rows, EditPort, Enter, CollectPairs, Run, Step
    <3>2. QED
      BY <3>1 DEF SubmittedPairsCanStart, Answered
  <2>4. QED
    BY <2>2, <2>3
<1>2. CASE Parse
  <2>1. at' \in {"args", "done"} /\ in'.of = "args"
    BY <1>2, StepsServe
  <2>2. CASE SplitPorts
    BY <2>2 DEF SplitPorts, Run, SubmittedPairsCanStart, Answered
  <2>3. CASE ParsePorts
    BY <2>1, <2>3 DEF ParsePorts, Return, Step, SubmittedPairsCanStart, Answered
  <2>4. CASE Parsed
    <3>1. at = "args" /\ out' = IF out = << >> THEN None ELSE out
      BY <2>4 DEF Parsed, Return
    <3>2. \A k \in DOMAIN out : InRange(out[k][1]) /\ InRange(out[k][2])
      BY <3>1 DEF Parsing, Good
    <3>3. out' # None => ValidateSpec(out')
      BY <3>1, <3>2 DEF ValidateSpec
    <3>4. QED
      BY <2>1, <3>3 DEF SubmittedPairsCanStart, Answered, ValidateSpec, InRange
  <2>5. QED
    BY <1>2, <2>2, <2>3, <2>4 DEF Parse
<1>3. CASE Pick \/ Show \/ Discover
  BY <1>3, StepsServe DEF SubmittedPairsCanStart, Answered
<1>4. CASE UNCHANGED vars
  BY <1>4 DEF vars, SubmittedPairsCanStart, Answered, ValidateSpec, Bindable, InRange
<1>5. QED
  BY <1>1, <1>2, <1>3, <1>4 DEF Next

-----------------------------------------------------------------------------
(* The theorems                                                            *)

Answers == BestPodIsPicked /\ SubmittedPairsCanStart /\ CursorIsShown /\ KubeconfigsOnce

\* The loop invariants and what is said of the results hold together, in every
\* state of every run, whatever the input and however large it is (pickBestPod,
\* PodPorts, newPortStep, parsePorts, Scan, ScanDirs).
THEOREM LoopInvariants == Spec => [](IInv /\ Answers)
<1>1. Init => IInv /\ Answers
  BY DEF Init, IInv, Serving, Picking, Offering, Parsing, Finding,
         Answers, BestPodIsPicked, SubmittedPairsCanStart, CursorIsShown, KubeconfigsOnce, Answered
<1>2. IInv /\ Answers /\ [Next]_vars => (IInv /\ Answers)'
  BY ServingNext, PickingNext, OfferingNext, ParsingNext, FindingNext, WindowNext, SubmittedNext
     DEF IInv, Answers
<1>3. QED
  BY <1>1, <1>2, PTL DEF Spec

\* Behind a workload with any number of pods, the newest ready pod the selector
\* fits is picked, or the newest when none is ready (ResolveOnePod, pickBestPod).
THEOREM BestPodAlwaysPicked == Spec => []BestPodIsPicked
BY LoopInvariants, PTL DEF Answers

\* Whatever ports an object has and whatever rows are included, and whatever
\* argument runStart takes for ports: validateSpec takes it too, and a pod's
\* pairs name no local port twice (PodPorts, newPortStep, parsePorts).
THEOREM SubmittedPairsAlwaysStart == Spec => []SubmittedPairsCanStart
BY LoopInvariants, PTL DEF Answers

\* The window of the active view, for any number of forwards: the row under
\* the cursor is in it, it holds rows only, and as many as fit (View of the
\* active step).
THEOREM CursorStaysShown == Spec => []CursorIsShown
BY LoopInvariants, PTL DEF Answers

\* However often a directory is named and whatever files they have, the result
\* is the kubeconfigs in them, each once, in the order of directories and names
\* (Scan, ScanDirs).
THEOREM KubeconfigsFoundOnce == Spec => []KubeconfigsOnce
BY LoopInvariants, PTL DEF Answers
=============================================================================
