---------------------------- MODULE WizardProofs ----------------------------
(***************************************************************************)
(* Theorems about Wizard: its types, that Enter is swallowed only while a  *)
(* start is under way, and that every stop request was asked for, for any  *)
(* cluster and any number of messages under way.                           *)
(***************************************************************************)
EXTENDS Wizard, TLAPS

-----------------------------------------------------------------------------
(* The messages under way                                                  *)

One(x, y) == IF x = y THEN 1 ELSE 0

LEMMA Added ==
  ASSUME NEW B, IsABag(B), NEW x
  PROVE  /\ IsABag(BagAdd(B, x)) /\ DOMAIN BagAdd(B, x) = DOMAIN B \cup {x}
         /\ \A y : Copies(y, BagAdd(B, x)) = Copies(y, B) + One(x, y)
<1>1. CASE x \in DOMAIN B
  <2>1. BagAdd(B, x) = [e \in DOMAIN B |-> IF e = x THEN B[e] + 1 ELSE B[e]]
    BY <1>1 DEF BagAdd
  <2>2. \A e \in DOMAIN B : B[e] \in Nat /\ B[e] > 0
    BY DEF IsABag
  <2>3. IsABag(BagAdd(B, x)) /\ DOMAIN BagAdd(B, x) = DOMAIN B
    <3>1. \A e \in DOMAIN B :
            (IF e = x THEN B[e] + 1 ELSE B[e]) \in {n \in Nat : n > 0}
      BY <2>2
    <3>2. BagAdd(B, x) \in [DOMAIN B -> {n \in Nat : n > 0}]
      BY <2>1, <3>1
    <3>3. QED
      BY <2>1, <3>2 DEF IsABag
  <2>4. ASSUME NEW y PROVE Copies(y, BagAdd(B, x)) = Copies(y, B) + One(x, y)
    <3>1. CASE y = x
      BY <1>1, <2>1, <3>1 DEF Copies, One
    <3>2. CASE y # x
      BY <1>1, <2>1, <2>2, <3>2 DEF Copies, One
    <3>3. QED
      BY <3>1, <3>2
  <2>5. QED
    BY <1>1, <2>3, <2>4
<1>2. CASE x \notin DOMAIN B
  <2>1. BagAdd(B, x) = [e \in DOMAIN B \cup {x} |-> IF e = x THEN 1 ELSE B[e]]
    BY <1>2 DEF BagAdd
  <2>2. \A e \in DOMAIN B : B[e] \in Nat /\ B[e] > 0
    BY DEF IsABag
  <2>3. IsABag(BagAdd(B, x)) /\ DOMAIN BagAdd(B, x) = DOMAIN B \cup {x}
    <3>1. \A e \in DOMAIN B \cup {x} :
            (IF e = x THEN 1 ELSE B[e]) \in {n \in Nat : n > 0}
      BY <2>2
    <3>2. BagAdd(B, x) \in [DOMAIN B \cup {x} -> {n \in Nat : n > 0}]
      BY <2>1, <3>1
    <3>3. QED
      BY <2>1, <3>2 DEF IsABag
  <2>4. ASSUME NEW y PROVE Copies(y, BagAdd(B, x)) = Copies(y, B) + One(x, y)
    <3>1. Copies(y, B) \in Nat
      BY <2>2 DEF Copies
    <3>2. CASE y = x
      BY <1>2, <2>1, <3>2 DEF Copies, One
    <3>3. CASE y # x
      BY <1>2, <2>1, <3>1, <3>3 DEF Copies, One
    <3>4. QED
      BY <3>2, <3>3
  <2>5. QED
    BY <2>3, <2>4
<1>3. QED
  BY <1>1, <1>2

LEMMA Removed ==
  ASSUME NEW B, IsABag(B), NEW x \in DOMAIN B
  PROVE  /\ IsABag(BagRemove(B, x))
         /\ DOMAIN BagRemove(B, x) \subseteq DOMAIN B
         /\ \A y \in DOMAIN B \ {x} : y \in DOMAIN BagRemove(B, x)
         /\ \A y : Copies(y, BagRemove(B, x)) = Copies(y, B) - One(x, y)
<1>1. \A e \in DOMAIN B : B[e] \in Nat /\ B[e] > 0
  BY DEF IsABag
<1>2. CASE B[x] = 1
  <2>1. BagRemove(B, x) = [e \in DOMAIN B \ {x} |-> B[e]]
    BY <1>2 DEF BagRemove
  <2>2. QED
    BY <1>1, <1>2, <2>1 DEF IsABag, Copies, One
<1>3. CASE B[x] # 1
  <2>1. BagRemove(B, x) = [e \in DOMAIN B |-> IF e = x THEN B[e] - 1 ELSE B[e]]
    BY <1>3 DEF BagRemove
  <2>2. QED
    BY <1>1, <1>3, <2>1 DEF IsABag, Copies, One
<1>4. QED
  BY <1>2, <1>3

LEMMA Joined ==
  ASSUME NEW B, IsABag(B), NEW S
  PROVE  /\ IsABag(B (+) SetToBag(S)) /\ DOMAIN (B (+) SetToBag(S)) = DOMAIN B \cup S
         /\ \A y : Copies(y, B (+) SetToBag(S)) = Copies(y, B) + IF y \in S THEN 1 ELSE 0
<1>1. \A e \in DOMAIN B : B[e] \in Nat /\ B[e] > 0
  BY DEF IsABag
<1>2. SetToBag(S) = [e \in S |-> 1]
  BY DEF SetToBag
<1>3. B (+) SetToBag(S) = [e \in DOMAIN B \cup S |->
        (IF e \in DOMAIN B THEN B[e] ELSE 0) + (IF e \in S THEN 1 ELSE 0)]
  BY <1>2 DEF (+)
<1>4. QED
  BY <1>1, <1>3 DEF IsABag, Copies

LEMMA SendFacts ==
  ASSUME TypeOK, NEW m, Send(m)
  PROVE  /\ IsABag(under') /\ DOMAIN under' = DOMAIN under \cup {m}
         /\ \A y : Copies(y, under') = Copies(y, under) + One(m, y)
BY Added DEF TypeOK, Send

LEMMA SendsFacts ==
  ASSUME TypeOK, NEW ms, Sends(ms)
  PROVE  /\ IsABag(under') /\ DOMAIN under' = DOMAIN under \cup ms
         /\ \A y : Copies(y, under') = Copies(y, under) + IF y \in ms THEN 1 ELSE 0
BY Joined DEF TypeOK, Sends

LEMMA DropFacts ==
  ASSUME TypeOK, NEW m \in DOMAIN under, Drop(m)
  PROVE  /\ IsABag(under') /\ DOMAIN under' \subseteq DOMAIN under
         /\ \A y \in DOMAIN under \ {m} : y \in DOMAIN under'
         /\ \A y : Copies(y, under') = Copies(y, under) - One(m, y)
BY Removed DEF TypeOK, Drop

LEMMA ReplyFacts ==
  ASSUME TypeOK, NEW m \in DOMAIN under, NEW ms, Reply(m, ms)
  PROVE  /\ IsABag(under') /\ DOMAIN under' \subseteq DOMAIN under \cup ms
         /\ \A y \in DOMAIN under \ {m} : y \in DOMAIN under'
         /\ ms \subseteq DOMAIN under'
         /\ \A y : Copies(y, under') = (Copies(y, under) - One(m, y)) + IF y \in ms THEN 1 ELSE 0
<1>1. /\ IsABag(BagRemove(under, m))
      /\ DOMAIN BagRemove(under, m) \subseteq DOMAIN under
      /\ \A y \in DOMAIN under \ {m} : y \in DOMAIN BagRemove(under, m)
      /\ \A y : Copies(y, BagRemove(under, m)) = Copies(y, under) - One(m, y)
  BY Removed DEF TypeOK
<1>2. under' = BagRemove(under, m) (+) SetToBag(ms)
  BY DEF Reply
<1>3. /\ IsABag(under') /\ DOMAIN under' = DOMAIN BagRemove(under, m) \cup ms
      /\ \A y : Copies(y, under') = Copies(y, BagRemove(under, m)) + IF y \in ms THEN 1 ELSE 0
  BY <1>1, <1>2, Joined
<1>4. QED
  BY <1>1, <1>3

\* What is sent or answered is a message, and the bag stays one of messages.
LEMMA MessagesStay ==
  ASSUME TypeOK
  PROVE  /\ \A m \in Messages : Send(m) => IsABag(under') /\ DOMAIN under' \subseteq Messages
         /\ \A ms \in SUBSET Messages :
              Sends(ms) => IsABag(under') /\ DOMAIN under' \subseteq Messages
         /\ \A m \in DOMAIN under :
              Drop(m) => IsABag(under') /\ DOMAIN under' \subseteq Messages
         /\ \A m \in DOMAIN under, ms \in SUBSET Messages :
              Reply(m, ms) => IsABag(under') /\ DOMAIN under' \subseteq Messages
<1>m. DOMAIN under \subseteq Messages
  BY DEF TypeOK
<1>1. ASSUME NEW m \in Messages, Send(m)
      PROVE  IsABag(under') /\ DOMAIN under' \subseteq Messages
  <2>1. IsABag(under') /\ DOMAIN under' = DOMAIN under \cup {m}
    BY <1>1, SendFacts
  <2>2. QED
    BY <1>m, <2>1
<1>2. ASSUME NEW ms \in SUBSET Messages, Sends(ms)
      PROVE  IsABag(under') /\ DOMAIN under' \subseteq Messages
  <2>1. IsABag(under') /\ DOMAIN under' = DOMAIN under \cup ms
    BY <1>2, SendsFacts
  <2>2. QED
    BY <1>m, <2>1
<1>3. ASSUME NEW m \in DOMAIN under, Drop(m)
      PROVE  IsABag(under') /\ DOMAIN under' \subseteq Messages
  <2>1. IsABag(under') /\ DOMAIN under' \subseteq DOMAIN under
    BY <1>3, DropFacts
  <2>2. QED
    BY <1>m, <2>1
<1>4. ASSUME NEW m \in DOMAIN under, NEW ms \in SUBSET Messages, Reply(m, ms)
      PROVE  IsABag(under') /\ DOMAIN under' \subseteq Messages
  <2>1. IsABag(under') /\ DOMAIN under' \subseteq DOMAIN under \cup ms
    BY <1>4, ReplyFacts
  <2>2. QED
    BY <1>m, <2>1
<1>5. QED
  BY <1>1, <1>2, <1>3, <1>4

\* What the commands and the keys send.
LEMMA Sendable ==
  /\ \A t \in {"kubeconfigs", "claims", "list", "tick"} : Msg(t) \in Messages
  /\ \A k \in Kubes : [t |-> "kubeChosen", kube |-> k] \in Messages
  /\ \A k \in Kubes : [t |-> "namespaces", of |-> k] \in Messages
  /\ \A n \in Namespaces : [t |-> "nsChosen", ns |-> n] \in Messages
  /\ \A k \in Kinds : [t |-> "kindChosen", kind |-> k] \in Messages
  /\ \A p \in Place : [t |-> "resources", place |-> p] \in Messages
  /\ \A o \in Objects, p \in Pod : [t |-> "objectChosen", object |-> o, pod |-> p] \in Messages
  /\ \A p \in Pod : [t |-> "ports", pod |-> p] \in Messages
  /\ \A l \in SUBSET Locals : [t |-> "claimed", locals |-> l] \in Messages
  /\ \A p \in Pairs : [t |-> "portMapReady", pairs |-> p] \in Messages
  /\ \A s \in Specs, p \in Pairs : [t |-> "start", spec |-> s, pairs |-> p] \in Messages
  /\ \A ids \in SUBSET Forwards : [t |-> "forwards", ids |-> ids] \in Messages
  /\ \A t \in {"stopPressed", "stop", "stopResult"}, id \in Forwards :
       [t |-> t, id |-> id] \in Messages
BY DEF Messages, Msg

\* What a message brings.
LEMMA Received ==
  ASSUME NEW m \in Messages
  PROVE  /\ m.t = "kubeChosen" => m.kube \in Kubes
         /\ m.t = "namespaces" => m.of \in Kubes
         /\ m.t = "nsChosen" => m.ns \in Namespaces
         /\ m.t = "kindChosen" => m.kind \in Kinds
         /\ m.t = "resources" => m.place \in Place
         /\ m.t = "objectChosen" => m.object \in Objects /\ m.pod \in Pod
         /\ m.t = "ports" => m.pod \in Pod
         /\ m.t = "claimed" => m.locals \in SUBSET Locals
         /\ m.t = "portMapReady" => m.pairs \in Pairs
         /\ m.t = "start" => m.spec \in Specs /\ m.pairs \in Pairs
         /\ m.t = "forwards" => m.ids \in SUBSET Forwards
         /\ m.t \in {"stopPressed", "stop", "stopResult"} =>
              m.id \in Forwards /\ m = [t |-> m.t, id |-> m.id]
BY DEF Messages

-----------------------------------------------------------------------------
(* Types                                                                   *)

Page == [ports : SUBSET Remotes, included : SUBSET Remotes, claimed : SUBSET Locals,
         local : [Remotes -> Locals]]

LEMMA NothingChosen == NoSpec \in Specs /\ NoPage \in Page /\ NoPage.included \subseteq NoPage.ports
<1>1. NoSpec \in Specs
  BY DEF NoSpec, Specs, Place
<1>2. NoPage \in Page
  BY WizardAssumption DEF NoPage, Page
<1>3. QED
  BY <1>1, <1>2 DEF NoPage

LEMMA GotoType ==
  ASSUME TypeOK, NEW s \in Steps \cup {"quit"}, Goto(s)
  PROVE  step' \in Steps \cup {"quit"} /\ page' \in Page /\ page'.included \subseteq page'.ports
<1>1. page \in Page /\ page.included \subseteq page.ports
  BY DEF TypeOK, Page
<1>2. page' = page \/ page' = NoPage
  BY DEF Goto
<1>3. step' = s
  BY DEF Goto
<1>4. QED
  BY <1>1, <1>2, <1>3, NothingChosen

\* Where a key is pressed nothing but the step, the page, the cursor and the
\* messages changes.
LEMMA TypeFrame ==
  ASSUME TypeOK, UNCHANGED <<choices, starting, rows, running>>,
         step' \in Steps \cup {"quit"},
         page' \in Page, page'.included \subseteq page'.ports,
         cursor' = cursor \/ cursor' \in rows,
         IsABag(under'), DOMAIN under' \subseteq Messages
  PROVE  TypeOK'
<1>1. UNCHANGED <<spec, kubes, nsList, objList>>
  BY DEF choices
<1>2. cursor' \in rows' \/ (cursor' = None /\ rows' = {})
  BY DEF TypeOK
<1>3. /\ (page \in Page)' /\ (page.included \subseteq page.ports)'
      /\ (step \in Steps \cup {"quit"})'
  OBVIOUS
<1>4. (IsABag(under) /\ DOMAIN under \subseteq Messages)'
  OBVIOUS
<1>5. /\ (spec \in Specs)' /\ (kubes \in BOOLEAN)' /\ (starting \in BOOLEAN)'
      /\ (nsList \in Kubes \cup {None})' /\ (objList \in Place \cup {None})'
      /\ (rows \subseteq Forwards)' /\ (running \subseteq Forwards)'
  BY <1>1 DEF TypeOK
<1>6. QED
  BY <1>2, <1>3, <1>4, <1>5 DEF TypeOK, Page

LEMMA PairsFacts ==
  ASSUME NEW pairs \in Pairs
  PROVE  LocalsOf(pairs) \in Forwards
BY DEF Pairs, LocalsOf, Forwards

LEMMA FirstFacts ==
  ASSUME NEW S
  PROVE  First(S) \in S \/ (First(S) = None /\ S = {})
BY DEF First

LEMMA KeysType == ASSUME TypeOK, Keys \/ ForwardEvent PROVE TypeOK'
<1>p. page \in Page /\ page.included \subseteq page.ports /\ step \in Steps \cup {"quit"}
  BY DEF TypeOK, Page
<1>m. IsABag(under) /\ DOMAIN under \subseteq Messages
  BY DEF TypeOK
<1>1. CASE Choose
  <2>1. PICK m \in Messages : Send(m)
    <3>1. CASE \E k \in Kubes : Send([t |-> "kubeChosen", kube |-> k])
      BY <3>1, Sendable
    <3>2. CASE \E n \in Namespaces : Send([t |-> "nsChosen", ns |-> n])
      BY <3>2, Sendable
    <3>3. CASE \E k \in Kinds : Send([t |-> "kindChosen", kind |-> k])
      BY <3>3, Sendable
    <3>4. CASE objList # None /\ \E o \in Objects :
                 Send([t |-> "objectChosen", object |-> o, pod |-> [place |-> objList, object |-> o]])
      <4>1. PICK o \in Objects :
              Send([t |-> "objectChosen", object |-> o, pod |-> [place |-> objList, object |-> o]])
        BY <3>4
      <4>2. [place |-> objList, object |-> o] \in Pod
        BY <3>4 DEF TypeOK, Pod
      <4>3. QED
        BY <4>1, <4>2, Sendable
    <3>5. QED
      BY <1>1, <3>1, <3>2, <3>3, <3>4 DEF Choose
  <2>2. IsABag(under') /\ DOMAIN under' \subseteq Messages
    BY <2>1, MessagesStay
  <2>3. QED
    BY <1>1, <1>p, <2>2, TypeFrame DEF Choose, view
<1>2. CASE EditPorts
  <2>1. PICK r \in page.ports :
          \/ page' = [page EXCEPT !.included = IF r \in page.included THEN page.included \ {r}
                                              ELSE page.included \cup {r}]
          \/ \E l \in Locals : page' = [page EXCEPT !.local[r] = l]
    BY <1>2 DEF EditPorts
  <2>2. page' \in Page /\ page'.included \subseteq page'.ports
    BY <1>p, <2>1 DEF Page
  <2>3. UNCHANGED <<step, choices, starting, rows, cursor, running, under>>
    BY <1>2 DEF EditPorts, view
  <2>4. QED
    BY <1>p, <1>m, <2>2, <2>3, TypeFrame
<1>3. CASE Submit
  <2>1. Included \in Pairs
    BY <1>3, <1>p DEF Submit, Included, Pairs, Page
  <2>2. [t |-> "portMapReady", pairs |-> Included] \in Messages
    BY <2>1, Sendable
  <2>3. IsABag(under') /\ DOMAIN under' \subseteq Messages
    <3>1. Send([t |-> "portMapReady", pairs |-> Included])
      BY <1>3 DEF Submit
    <3>2. QED
      BY <2>2, <3>1, MessagesStay
  <2>4. QED
    BY <1>3, <1>p, <2>3, TypeFrame DEF Submit, view
<1>4. CASE Back
  <2>1. PICK s \in Steps : Goto(s)
    <3>1. (CASE step = "active" -> "kube" [] step = "port" -> "object"
             [] step = "object" -> "kind" [] step = "kind" -> "ns" [] step = "ns" -> "kube") \in Steps
      BY <1>4, <1>p DEF Back, Key, Steps
    <3>2. QED
      BY <1>4, <3>1 DEF Back
  <2>2. QED
    BY <1>4, <1>m, <2>1, GotoType, TypeFrame DEF Back, view
<1>5. CASE ShowActive
  <2>1. Goto("active") /\ "active" \in Steps
    BY <1>5 DEF ShowActive, Steps
  <2>2. {Msg("list"), Msg("tick")} \subseteq Messages
    BY Sendable
  <2>3. IsABag(under') /\ DOMAIN under' \subseteq Messages
    <3>1. Sends({Msg("list"), Msg("tick")})
      BY <1>5 DEF ShowActive
    <3>2. QED
      BY <2>2, <3>1, MessagesStay
  <2>4. QED
    BY <1>5, <2>1, <2>3, GotoType, TypeFrame DEF ShowActive, view
<1>6. CASE MoveCursor
  BY <1>6, <1>p, <1>m, TypeFrame DEF MoveCursor
<1>7. CASE PressStop
  <2>1. cursor \in Forwards
    BY <1>7 DEF PressStop, TypeOK
  <2>2. [t |-> "stopPressed", id |-> cursor] \in Messages
    BY <2>1, Sendable
  <2>3. IsABag(under') /\ DOMAIN under' \subseteq Messages
    <3>1. Send([t |-> "stopPressed", id |-> cursor])
      BY <1>7 DEF PressStop
    <3>2. QED
      BY <2>2, <3>1, MessagesStay
  <2>4. QED
    BY <1>7, <1>p, <2>3, TypeFrame DEF PressStop, view
<1>8. CASE Quit
  <2>1. Goto("quit")
    BY <1>8 DEF Quit
  <2>2. step' \in Steps \cup {"quit"} /\ page' \in Page /\ page'.included \subseteq page'.ports
    BY <2>1, GotoType
  <2>3. IsABag(EmptyBag) /\ DOMAIN EmptyBag = {}
    BY DEF EmptyBag, SetToBag, IsABag
  <2>4. QED
    BY <1>8, <2>2, <2>3, NothingChosen DEF Quit, TypeOK, Page
<1>9. CASE ForwardEvent
  <2>1. Msg("list") \in Messages
    BY Sendable
  <2>2. IsABag(under') /\ DOMAIN under' \subseteq Messages
    <3>1. Send(Msg("list"))
      BY <1>9 DEF ForwardEvent
    <3>2. QED
      BY <2>1, <3>1, MessagesStay
  <2>3. QED
    BY <1>9, <1>p, <2>2, TypeFrame DEF ForwardEvent, view
<1>10. QED
  BY <1>1, <1>2, <1>3, <1>4, <1>5, <1>6, <1>7, <1>8, <1>9 DEF Keys

\* A step of a message m that is handled: what it replies are messages.
LEMMA FailsType == ASSUME TypeOK, NEW m \in DOMAIN under, Fails(m) PROVE TypeOK'
<1>1. IsABag(under') /\ DOMAIN under' \subseteq Messages
  BY MessagesStay DEF Fails
<1>2. QED
  BY <1>1 DEF Fails, TypeOK, view

LEMMA RequestType == ASSUME TypeOK, NEW m \in DOMAIN under, Request(m) PROVE TypeOK'
<1>m. m \in Messages
  BY DEF TypeOK
<1>p. page \in Page /\ page.included \subseteq page.ports /\ step \in Steps \cup {"quit"}
  BY DEF TypeOK, Page
<1>1. CASE ClaimsAnswered(m)
  <2>1. PICK locals \in {UNION running, {}} : Reply(m, {[t |-> "claimed", locals |-> locals]})
    BY <1>1 DEF ClaimsAnswered
  <2>2. locals \in SUBSET Locals
    BY <2>1 DEF TypeOK, Forwards
  <2>3. {[t |-> "claimed", locals |-> locals]} \subseteq Messages
    BY <2>2, Sendable
  <2>4. IsABag(under') /\ DOMAIN under' \subseteq Messages
    BY <2>1, <2>3, MessagesStay
  <2>5. QED
    BY <1>1, <1>p, <2>4, TypeFrame DEF ClaimsAnswered, view
<1>2. CASE ListAnswered(m)
  <2>1. {[t |-> "forwards", ids |-> running]} \subseteq Messages
    BY Sendable DEF TypeOK
  <2>2. Reply(m, {[t |-> "forwards", ids |-> running]})
    BY <1>2 DEF ListAnswered
  <2>3. IsABag(under') /\ DOMAIN under' \subseteq Messages
    BY <2>1, <2>2, MessagesStay
  <2>4. QED
    BY <1>2, <1>p, <2>3, TypeFrame DEF ListAnswered, view
<1>3. CASE StopAnswered(m)
  <2>1. m.id \in Forwards
    BY <1>3, <1>m, Received DEF StopAnswered
  <2>2. {[t |-> "stopResult", id |-> m.id]} \subseteq Messages
    BY <2>1, Sendable
  <2>3. Reply(m, {[t |-> "stopResult", id |-> m.id]})
    BY <1>3 DEF StopAnswered
  <2>4. IsABag(under') /\ DOMAIN under' \subseteq Messages
    BY <2>2, <2>3, MessagesStay
  <2>5. running' \subseteq Forwards
    BY <1>3 DEF StopAnswered, TypeOK
  <2>6. UNCHANGED <<step, spec, kubes, nsList, objList, page, starting, rows, cursor>>
    BY <1>3 DEF StopAnswered, choices, view
  <2>7. QED
    BY <2>4, <2>5, <2>6 DEF TypeOK
<1>4. QED
  BY <1>1, <1>2, <1>3 DEF Request

LEMMA StartsType == ASSUME TypeOK, NEW m \in DOMAIN under, Starts(m) PROVE TypeOK'
<1>m. m \in Messages
  BY DEF TypeOK
<1>1. CASE PortMapReady(m)
  <2>1. m.pairs \in Pairs
    BY <1>1, <1>m, Received DEF PortMapReady
  <2>2. [t |-> "start", spec |-> spec, pairs |-> m.pairs] \in Messages
    BY <2>1, Sendable DEF TypeOK
  <2>3. Reply(m, {[t |-> "start", spec |-> spec, pairs |-> m.pairs]})
    BY <1>1 DEF PortMapReady
  <2>4. IsABag(under') /\ DOMAIN under' \subseteq Messages
    BY <2>2, <2>3, MessagesStay
  <2>5. UNCHANGED <<step, spec, kubes, nsList, objList, page, rows, cursor, running>> /\ starting' = TRUE
    BY <1>1 DEF PortMapReady, choices, view
  <2>6. QED
    BY <2>4, <2>5 DEF TypeOK
<1>2. CASE StartRefused(m)
  <2>1. IsABag(under') /\ DOMAIN under' \subseteq Messages
    BY <1>2, MessagesStay DEF StartRefused
  <2>2. UNCHANGED <<step, spec, kubes, nsList, objList, page, rows, cursor, running>> /\ starting' = FALSE
    BY <1>2 DEF StartRefused, choices, view
  <2>3. QED
    BY <2>1, <2>2 DEF TypeOK
<1>3. CASE ForwardStarted(m)
  <2>1. m.pairs \in Pairs
    BY <1>3, <1>m, Received DEF ForwardStarted
  <2>2. running' \subseteq Forwards
    BY <1>3, <2>1, PairsFacts DEF ForwardStarted, TypeOK
  <2>3. Reply(m, {Msg("kubeconfigs")}) /\ {Msg("kubeconfigs")} \subseteq Messages
    BY <1>3, Sendable DEF ForwardStarted
  <2>4. IsABag(under') /\ DOMAIN under' \subseteq Messages
    BY <2>3, MessagesStay
  <2>5. Goto("kube") /\ "kube" \in Steps
    BY <1>3 DEF ForwardStarted, Steps
  <2>6. step' \in Steps \cup {"quit"} /\ page' \in Page /\ page'.included \subseteq page'.ports
    BY <2>5, GotoType
  <2>7. /\ UNCHANGED <<kubes, nsList, objList, rows, cursor>>
        /\ spec' = NoSpec /\ starting' = FALSE
    BY <1>3 DEF ForwardStarted, view
  <2>8. QED
    BY <2>2, <2>4, <2>6, <2>7, NothingChosen DEF TypeOK, Page
<1>4. QED
  BY <1>1, <1>2, <1>3 DEF Starts

LEMMA RefreshType == ASSUME TypeOK, NEW m \in DOMAIN under, Refresh(m) PROVE TypeOK'
<1>m. m \in Messages
  BY DEF TypeOK
<1>p. page \in Page /\ page.included \subseteq page.ports /\ step \in Steps \cup {"quit"}
  BY DEF TypeOK, Page
<1>1. CASE TickActive(m)
  <2>1. Msg("list") \in Messages
    BY Sendable
  <2>2. Send(Msg("list")) \/ Drop(m)
    BY <1>1 DEF TickActive
  <2>3. IsABag(under') /\ DOMAIN under' \subseteq Messages
    BY <2>1, <2>2, MessagesStay
  <2>4. QED
    BY <1>1, <1>p, <2>3, TypeFrame DEF TickActive, view
<1>2. CASE ForwardsLoaded(m)
  <2>1. m.ids \in SUBSET Forwards
    BY <1>2, <1>m, Received DEF ForwardsLoaded
  <2>2. IsABag(under') /\ DOMAIN under' \subseteq Messages
    BY <1>2, MessagesStay DEF ForwardsLoaded
  <2>3. rows' \subseteq Forwards /\ (cursor' \in rows' \/ (cursor' = None /\ rows' = {}))
    BY <1>2, <2>1, FirstFacts DEF ForwardsLoaded
  <2>4. UNCHANGED <<step, spec, kubes, nsList, objList, page, starting, running>>
    BY <1>2 DEF ForwardsLoaded, choices
  <2>5. QED
    BY <2>2, <2>3, <2>4 DEF TypeOK
<1>3. QED
  BY <1>1, <1>2 DEF Refresh

LEMMA AnswerType == ASSUME TypeOK, NEW m \in DOMAIN under, Answer(m) PROVE TypeOK'
<1>m. m \in Messages
  BY DEF TypeOK
<1>p. page \in Page /\ page.included \subseteq page.ports /\ step \in Steps \cup {"quit"}
  BY DEF TypeOK, Page
<1>s. /\ spec \in Specs /\ spec.place \in Place
      /\ spec.object \in Objects \cup {None} /\ spec.pod \in Pod \cup {None}
  BY DEF TypeOK, Specs
<1>1. CASE KubeconfigsLoaded(m)
  <2>1. IsABag(under') /\ DOMAIN under' \subseteq Messages
    BY <1>1, MessagesStay DEF KubeconfigsLoaded
  <2>2. UNCHANGED <<step, spec, nsList, objList, page, starting, rows, cursor, running>> /\ kubes' = TRUE
    BY <1>1 DEF KubeconfigsLoaded, view
  <2>3. QED
    BY <2>1, <2>2 DEF TypeOK
<1>2. CASE KubeChosen(m)
  <2>1. m.kube \in Kubes
    BY <1>2, <1>m, Received DEF KubeChosen
  <2>2. Reply(m, {[t |-> "namespaces", of |-> m.kube]})
    BY <1>2 DEF KubeChosen
  <2>3. {[t |-> "namespaces", of |-> m.kube]} \subseteq Messages
    BY <2>1, Sendable
  <2>4. IsABag(under') /\ DOMAIN under' \subseteq Messages
    BY <2>2, <2>3, MessagesStay
  <2>5. Goto("ns") /\ "ns" \in Steps
    BY <1>2 DEF KubeChosen, Steps
  <2>6. step' \in Steps \cup {"quit"} /\ page' \in Page /\ page'.included \subseteq page'.ports
    BY <2>5, GotoType
  <2>7. spec' \in Specs
    BY <1>2, <1>s, <2>1 DEF KubeChosen, Specs, Place
  <2>8. UNCHANGED <<kubes, objList, starting, rows, cursor, running>> /\ nsList' = None
    BY <1>2 DEF KubeChosen, view
  <2>9. QED
    BY <2>4, <2>6, <2>7, <2>8 DEF TypeOK, Page
<1>3. CASE NamespacesLoaded(m)
  <2>1. IsABag(under') /\ DOMAIN under' \subseteq Messages
    BY <1>3, MessagesStay DEF NamespacesLoaded
  <2>2. nsList' \in Kubes \cup {None}
    BY <1>3, <1>m, Received DEF NamespacesLoaded
  <2>3. UNCHANGED <<step, spec, kubes, objList, page, starting, rows, cursor, running>>
    BY <1>3 DEF NamespacesLoaded, view
  <2>4. QED
    BY <2>1, <2>2, <2>3 DEF TypeOK
<1>4. CASE NsChosen(m)
  <2>1. m.ns \in Namespaces
    BY <1>4, <1>m, Received DEF NsChosen
  <2>2. IsABag(under') /\ DOMAIN under' \subseteq Messages
    BY <1>4, MessagesStay DEF NsChosen
  <2>3. Goto("kind") /\ "kind" \in Steps
    BY <1>4 DEF NsChosen, Steps
  <2>4. step' \in Steps \cup {"quit"} /\ page' \in Page /\ page'.included \subseteq page'.ports
    BY <2>3, GotoType
  <2>5. spec' \in Specs
    BY <1>4, <1>s, <2>1 DEF NsChosen, Specs, Place
  <2>6. UNCHANGED <<kubes, nsList, objList, starting, rows, cursor, running>>
    BY <1>4 DEF NsChosen, view
  <2>7. QED
    BY <2>2, <2>4, <2>5, <2>6 DEF TypeOK, Page
<1>5. CASE KindChosen(m)
  <2>1. m.kind \in Kinds
    BY <1>5, <1>m, Received DEF KindChosen
  <2>2. [spec.place EXCEPT !.kind = m.kind] \in Place
    BY <1>s, <2>1 DEF Place
  <2>3. {[t |-> "resources", place |-> [spec.place EXCEPT !.kind = m.kind]]} \subseteq Messages
    BY <2>2, Sendable
  <2>4. Reply(m, {[t |-> "resources", place |-> [spec.place EXCEPT !.kind = m.kind]]})
    BY <1>5 DEF KindChosen
  <2>5. IsABag(under') /\ DOMAIN under' \subseteq Messages
    BY <2>3, <2>4, MessagesStay
  <2>6. Goto("object") /\ "object" \in Steps
    BY <1>5 DEF KindChosen, Steps
  <2>7. step' \in Steps \cup {"quit"} /\ page' \in Page /\ page'.included \subseteq page'.ports
    BY <2>6, GotoType
  <2>8. spec' \in Specs
    BY <1>5, <1>s, <2>1 DEF KindChosen, Specs, Place
  <2>9. UNCHANGED <<kubes, nsList, starting, rows, cursor, running>> /\ objList' = None
    BY <1>5 DEF KindChosen, view
  <2>10. QED
    BY <2>5, <2>7, <2>8, <2>9 DEF TypeOK, Page
<1>6. CASE ResourcesLoaded(m)
  <2>1. IsABag(under') /\ DOMAIN under' \subseteq Messages
    BY <1>6, MessagesStay DEF ResourcesLoaded
  <2>2. objList' \in Place \cup {None}
    BY <1>6, <1>m, Received DEF ResourcesLoaded
  <2>3. UNCHANGED <<step, spec, kubes, nsList, page, starting, rows, cursor, running>>
    BY <1>6 DEF ResourcesLoaded, view
  <2>4. QED
    BY <2>1, <2>2, <2>3 DEF TypeOK
<1>7. CASE ObjectChosen(m)
  <2>1. m.object \in Objects /\ m.pod \in Pod
    BY <1>7, <1>m, Received DEF ObjectChosen
  <2>2. [place |-> spec.place, object |-> m.object] \in Pod
    BY <1>s, <2>1 DEF Pod
  <2>3. {[t |-> "ports", pod |-> [place |-> spec.place, object |-> m.object]]} \subseteq Messages
    BY <2>2, Sendable
  <2>4. Reply(m, {[t |-> "ports", pod |-> [place |-> spec.place, object |-> m.object]]})
    BY <1>7 DEF ObjectChosen
  <2>5. IsABag(under') /\ DOMAIN under' \subseteq Messages
    BY <2>3, <2>4, MessagesStay
  <2>6. spec' \in Specs
    BY <1>7, <1>s, <2>1 DEF ObjectChosen, Specs
  <2>7. UNCHANGED <<step, kubes, nsList, objList, page, starting, rows, cursor, running>>
    BY <1>7 DEF ObjectChosen, view
  <2>8. QED
    BY <2>5, <2>6, <2>7 DEF TypeOK
<1>8. CASE PortsLoaded(m)
  <2>1. spec' \in Specs
    BY <1>8, <1>m, <1>s, Received DEF PortsLoaded, Specs
  <2>2. Reply(m, {Msg("claims")}) /\ {Msg("claims")} \subseteq Messages
    BY <1>8, Sendable DEF PortsLoaded
  <2>3. IsABag(under') /\ DOMAIN under' \subseteq Messages
    BY <2>2, MessagesStay
  <2>4. PICK ports \in SUBSET Remotes : page' = [NoPage EXCEPT !.ports = ports]
    BY <1>8 DEF PortsLoaded
  <2>5. page' \in Page /\ page'.included \subseteq page'.ports
    BY <2>4, NothingChosen DEF Page, NoPage
  <2>6. UNCHANGED <<kubes, nsList, objList, starting, rows, cursor, running>> /\ step' = "port"
    BY <1>8 DEF PortsLoaded, view
  <2>7. QED
    BY <2>1, <2>3, <2>5, <2>6 DEF TypeOK, Page, Steps
<1>9. CASE ClaimedPortsLoaded(m)
  <2>1. m.locals \in SUBSET Locals
    BY <1>9, <1>m, Received DEF ClaimedPortsLoaded
  <2>2. page' = page \/ page' = [page EXCEPT !.claimed = m.locals]
    BY <1>9 DEF ClaimedPortsLoaded
  <2>3. page' \in Page /\ page'.included \subseteq page'.ports
    BY <1>p, <2>1, <2>2 DEF Page
  <2>4. IsABag(under') /\ DOMAIN under' \subseteq Messages
    BY <1>9, MessagesStay DEF ClaimedPortsLoaded
  <2>5. QED
    BY <1>9, <1>p, <2>3, <2>4, TypeFrame DEF ClaimedPortsLoaded, view
<1>10. CASE StopForward(m)
  <2>1. m.id \in Forwards
    BY <1>10, <1>m, Received DEF StopForward
  <2>2. {[t |-> "stop", id |-> m.id], Msg("list")} \subseteq Messages
    BY <2>1, Sendable
  <2>3. Reply(m, {[t |-> "stop", id |-> m.id], Msg("list")})
    BY <1>10 DEF StopForward
  <2>4. IsABag(under') /\ DOMAIN under' \subseteq Messages
    BY <2>2, <2>3, MessagesStay
  <2>5. QED
    BY <1>10, <1>p, <2>4, TypeFrame DEF StopForward, view
<1>11. CASE StopResult(m)
  <2>1. Reply(m, {Msg("list")}) /\ {Msg("list")} \subseteq Messages
    BY <1>11, Sendable DEF StopResult
  <2>2. IsABag(under') /\ DOMAIN under' \subseteq Messages
    BY <2>1, MessagesStay
  <2>3. QED
    BY <1>11, <1>p, <2>2, TypeFrame DEF StopResult, view
<1>12. QED
  BY <1>1, <1>2, <1>3, <1>4, <1>5, <1>6, <1>7, <1>8, <1>9, <1>10, <1>11 DEF Answer

LEMMA InitType == Init => TypeOK
<1>1. ASSUME Init PROVE IsABag(under) /\ DOMAIN under \subseteq Messages
  <2>1. under = [e \in {Msg("kubeconfigs")} |-> 1]
    BY <1>1 DEF Init, SetToBag
  <2>2. IsABag(under) /\ DOMAIN under = {Msg("kubeconfigs")}
    BY <2>1 DEF IsABag
  <2>3. QED
    BY <2>2, Sendable
<1>2. QED
  BY <1>1, NothingChosen DEF Init, TypeOK, Steps, Page

LEMMA NextType == TypeOK /\ [Next]_vars => TypeOK'
<1> SUFFICES ASSUME TypeOK, [Next]_vars PROVE TypeOK'
  OBVIOUS
<1>1. CASE Keys \/ ForwardEvent
  BY <1>1, KeysType
<1>2. ASSUME NEW m \in DOMAIN under, Fails(m) \/ Request(m) \/ Starts(m) \/ Refresh(m) \/ Answer(m)
      PROVE  TypeOK'
  BY <1>2, FailsType, RequestType, StartsType, RefreshType, AnswerType
<1>3. CASE UNCHANGED vars
  BY <1>3 DEF vars, choices, view, TypeOK
<1>4. QED
  BY <1>1, <1>2, <1>3 DEF Next

\* The types of the wizard, its page and the messages under way, for any
\* cluster, any ports and any room: Update and the commands never put a
\* choice, a page or an answer where another one belongs.
THEOREM TypeCorrect == Spec => []TypeOK
BY InitType, NextType, PTL DEF Spec

-----------------------------------------------------------------------------
(* What the keys and the messages send                                     *)

\* A key, or an event of the stream, drops nothing and asks for no stop; the
\* one that ends the program drops everything.
LEMMA KeysSend ==
  ASSUME Keys \/ ForwardEvent
  PROVE  \/ /\ starting' = starting
            /\ \/ UNCHANGED under
               \/ \E m : m.t # "stop" /\ Send(m)
               \/ Sends({Msg("list"), Msg("tick")})
         \/ starting' = FALSE /\ under' = EmptyBag
<1>1. CASE Choose
  <2>1. \E m : m.t # "stop" /\ Send(m)
    <3>1. CASE \E k \in Kubes : Send([t |-> "kubeChosen", kube |-> k])
      <4>1. PICK k \in Kubes : Send([t |-> "kubeChosen", kube |-> k])
        BY <3>1
      <4>2. [t |-> "kubeChosen", kube |-> k].t # "stop"
        OBVIOUS
      <4>3. QED
        BY <4>1, <4>2
    <3>2. CASE \E n \in Namespaces : Send([t |-> "nsChosen", ns |-> n])
      <4>1. PICK n \in Namespaces : Send([t |-> "nsChosen", ns |-> n])
        BY <3>2
      <4>2. [t |-> "nsChosen", ns |-> n].t # "stop"
        OBVIOUS
      <4>3. QED
        BY <4>1, <4>2
    <3>3. CASE \E k \in Kinds : Send([t |-> "kindChosen", kind |-> k])
      <4>1. PICK k \in Kinds : Send([t |-> "kindChosen", kind |-> k])
        BY <3>3
      <4>2. [t |-> "kindChosen", kind |-> k].t # "stop"
        OBVIOUS
      <4>3. QED
        BY <4>1, <4>2
    <3>4. CASE \E o \in Objects :
                 Send([t |-> "objectChosen", object |-> o, pod |-> [place |-> objList, object |-> o]])
      <4>1. PICK o \in Objects :
              Send([t |-> "objectChosen", object |-> o, pod |-> [place |-> objList, object |-> o]])
        BY <3>4
      <4>2. [t |-> "objectChosen", object |-> o, pod |-> [place |-> objList, object |-> o]].t # "stop"
        OBVIOUS
      <4>3. QED
        BY <4>1, <4>2
    <3>5. QED
      BY <1>1, <3>1, <3>2, <3>3, <3>4 DEF Choose
  <2>2. QED
    BY <1>1, <2>1 DEF Choose
<1>2. CASE EditPorts \/ Back \/ MoveCursor
  BY <1>2 DEF EditPorts, Back, MoveCursor
<1>3. CASE Submit
  <2>1. Send([t |-> "portMapReady", pairs |-> Included]) /\ starting' = starting
    BY <1>3 DEF Submit
  <2>2. [t |-> "portMapReady", pairs |-> Included].t # "stop"
    OBVIOUS
  <2>3. QED
    BY <2>1, <2>2
<1>4. CASE ShowActive
  BY <1>4 DEF ShowActive
<1>5. CASE PressStop
  <2>1. Send([t |-> "stopPressed", id |-> cursor]) /\ starting' = starting
    BY <1>5 DEF PressStop
  <2>2. [t |-> "stopPressed", id |-> cursor].t # "stop"
    OBVIOUS
  <2>3. QED
    BY <2>1, <2>2
<1>6. CASE Quit
  BY <1>6 DEF Quit
<1>7. CASE ForwardEvent
  <2>1. Send(Msg("list")) /\ starting' = starting
    BY <1>7 DEF ForwardEvent
  <2>2. Msg("list").t # "stop"
    BY DEF Msg
  <2>3. QED
    BY <2>1, <2>2
<1>8. QED
  BY <1>1, <1>2, <1>3, <1>4, <1>5, <1>6, <1>7 DEF Keys

\* Only the message of the key that asks for a stop is answered by one, and
\* only an answered start leaves the bag without its message.
LEMMA MessagesSend ==
  ASSUME NEW m, Fails(m) \/ Request(m) \/ Starts(m) \/ Refresh(m) \/ Answer(m)
  PROVE  /\ \/ Drop(m)
            \/ Send(Msg("list"))
            \/ \E x : x.t # "stop" /\ Reply(m, {x})
            \/ m.t = "stopPressed" /\ Reply(m, {[t |-> "stop", id |-> m.id], Msg("list")})
         /\ \/ starting' = FALSE
            \/ starting' = starting /\ m.t # "start"
            \/ \E x : x.t = "start" /\ Reply(m, {x})
<1>k. Msg("list").t # "stop" /\ Msg("claims").t # "stop" /\ Msg("kubeconfigs").t # "stop"
  BY DEF Msg
<1>1. CASE Fails(m)
  BY <1>1 DEF Fails
<1>2. CASE ClaimsAnswered(m)
  <2>1. PICK locals \in {UNION running, {}} : Reply(m, {[t |-> "claimed", locals |-> locals]})
    BY <1>2 DEF ClaimsAnswered
  <2>2. [t |-> "claimed", locals |-> locals].t # "stop"
    OBVIOUS
  <2>3. starting' = starting /\ m.t # "start"
    BY <1>2 DEF ClaimsAnswered
  <2>4. QED
    BY <2>1, <2>2, <2>3
<1>3. CASE ListAnswered(m)
  <2>1. Reply(m, {[t |-> "forwards", ids |-> running]}) /\ starting' = starting /\ m.t # "start"
    BY <1>3 DEF ListAnswered
  <2>2. [t |-> "forwards", ids |-> running].t # "stop"
    OBVIOUS
  <2>3. QED
    BY <2>1, <2>2
<1>4. CASE StopAnswered(m)
  <2>1. Reply(m, {[t |-> "stopResult", id |-> m.id]}) /\ starting' = starting /\ m.t # "start"
    BY <1>4 DEF StopAnswered
  <2>2. [t |-> "stopResult", id |-> m.id].t # "stop"
    OBVIOUS
  <2>3. QED
    BY <2>1, <2>2
<1>5. CASE PortMapReady(m)
  <2>1. Reply(m, {[t |-> "start", spec |-> spec, pairs |-> m.pairs]})
    BY <1>5 DEF PortMapReady
  <2>2. [t |-> "start", spec |-> spec, pairs |-> m.pairs].t = "start"
    OBVIOUS
  <2>3. QED
    BY <2>1, <2>2
<1>6. CASE StartRefused(m)
  BY <1>6 DEF StartRefused
<1>7. CASE ForwardStarted(m)
  BY <1>7, <1>k DEF ForwardStarted
<1>8. CASE TickActive(m) \/ ForwardsLoaded(m)
  BY <1>8 DEF TickActive, ForwardsLoaded
<1>9. CASE KubeconfigsLoaded(m) \/ NamespacesLoaded(m) \/ NsChosen(m) \/ ResourcesLoaded(m)
             \/ ClaimedPortsLoaded(m)
  BY <1>9 DEF KubeconfigsLoaded, NamespacesLoaded, NsChosen, ResourcesLoaded, ClaimedPortsLoaded
<1>10. CASE KubeChosen(m)
  <2>1. Reply(m, {[t |-> "namespaces", of |-> m.kube]}) /\ starting' = starting /\ m.t # "start"
    BY <1>10 DEF KubeChosen
  <2>2. [t |-> "namespaces", of |-> m.kube].t # "stop"
    OBVIOUS
  <2>3. QED
    BY <2>1, <2>2
<1>11. CASE KindChosen(m)
  <2>1. /\ Reply(m, {[t |-> "resources", place |-> [spec.place EXCEPT !.kind = m.kind]]})
        /\ starting' = starting /\ m.t # "start"
    BY <1>11 DEF KindChosen
  <2>2. [t |-> "resources", place |-> [spec.place EXCEPT !.kind = m.kind]].t # "stop"
    OBVIOUS
  <2>3. QED
    BY <2>1, <2>2
<1>12. CASE ObjectChosen(m)
  <2>1. /\ Reply(m, {[t |-> "ports", pod |-> [place |-> spec.place, object |-> m.object]]})
        /\ starting' = starting /\ m.t # "start"
    BY <1>12 DEF ObjectChosen
  <2>2. [t |-> "ports", pod |-> [place |-> spec.place, object |-> m.object]].t # "stop"
    OBVIOUS
  <2>3. QED
    BY <2>1, <2>2
<1>13. CASE PortsLoaded(m)
  BY <1>13, <1>k DEF PortsLoaded
<1>14. CASE StopForward(m)
  BY <1>14 DEF StopForward
<1>15. CASE StopResult(m)
  BY <1>15, <1>k DEF StopResult
<1>16. QED
  BY <1>1, <1>2, <1>3, <1>4, <1>5, <1>6, <1>7, <1>8, <1>9, <1>10, <1>11, <1>12, <1>13, <1>14, <1>15
  DEF Request, Starts, Refresh, Answer

-----------------------------------------------------------------------------
(* Enter                                                                   *)

IInv == TypeOK /\ SwallowedWhileStarting

\* The start that is under way stays there when a message of another kind is
\* handled.
LEMMA StartStays ==
  ASSUME TypeOK, SwallowedWhileStarting, starting' = starting,
         \A m \in DOMAIN under : m.t = "start" => m \in DOMAIN under'
  PROVE  SwallowedWhileStarting'
BY DEF SwallowedWhileStarting

LEMMA SwallowedNext == IInv /\ [Next]_vars => SwallowedWhileStarting'
<1> SUFFICES ASSUME TypeOK, SwallowedWhileStarting, [Next]_vars
             PROVE  SwallowedWhileStarting'
  BY DEF IInv
<1>1. CASE Keys \/ ForwardEvent
  <2>1. CASE starting' = FALSE
    BY <2>1 DEF SwallowedWhileStarting
  <2>2. CASE starting' = starting /\ UNCHANGED under
    BY <2>2, StartStays
  <2>3. ASSUME starting' = starting, NEW m, Send(m) PROVE SwallowedWhileStarting'
    <3>1. DOMAIN under' = DOMAIN under \cup {m}
      BY <2>3, SendFacts
    <3>2. QED
      BY <2>3, <3>1, StartStays
  <2>4. CASE starting' = starting /\ Sends({Msg("list"), Msg("tick")})
    <3>1. DOMAIN under' = DOMAIN under \cup {Msg("list"), Msg("tick")}
      BY <2>4, SendsFacts
    <3>2. QED
      BY <2>4, <3>1, StartStays
  <2>5. QED
    BY <1>1, <2>1, <2>2, <2>3, <2>4, KeysSend
<1>2. ASSUME NEW m \in DOMAIN under,
             Fails(m) \/ Request(m) \/ Starts(m) \/ Refresh(m) \/ Answer(m)
      PROVE  SwallowedWhileStarting'
  <2>1. \A y \in DOMAIN under \ {m} : y \in DOMAIN under'
    <3>1. CASE Drop(m)
      BY <3>1, DropFacts
    <3>2. CASE Send(Msg("list"))
      <4>1. DOMAIN under' = DOMAIN under \cup {Msg("list")}
        BY <3>2, SendFacts
      <4>2. QED
        BY <4>1
    <3>3. ASSUME NEW ms, Reply(m, ms) PROVE \A y \in DOMAIN under \ {m} : y \in DOMAIN under'
      BY <3>3, ReplyFacts
    <3>4. QED
      BY <1>2, <3>1, <3>2, <3>3, MessagesSend
  <2>2. CASE starting' = FALSE
    BY <2>2 DEF SwallowedWhileStarting
  <2>3. CASE starting' = starting /\ m.t # "start"
    BY <2>1, <2>3, StartStays
  <2>4. ASSUME NEW x, x.t = "start", Reply(m, {x}) PROVE SwallowedWhileStarting'
    <3>1. {x} \subseteq DOMAIN under'
      BY <2>4, ReplyFacts
    <3>2. QED
      BY <2>4, <3>1 DEF SwallowedWhileStarting
  <2>5. QED
    BY <1>2, <2>2, <2>3, <2>4, MessagesSend
<1>3. CASE UNCHANGED vars
  BY <1>3, StartStays DEF vars
<1>4. QED
  BY <1>1, <1>2, <1>3 DEF Next

\* Enter is swallowed only while a start request is under way, in every
\* order in which messages arrive and with any number of them under way.
THEOREM EnterIsHeard == Spec => []SwallowedWhileStarting
<1>1. Init => IInv
  BY InitType DEF IInv, Init, SwallowedWhileStarting
<1>2. IInv /\ [Next]_vars => IInv'
  BY NextType, SwallowedNext DEF IInv
<1>3. IInv => SwallowedWhileStarting
  BY DEF IInv
<1>4. QED
  BY <1>1, <1>2, <1>3, PTL DEF Spec

-----------------------------------------------------------------------------
(* Stop requests                                                           *)

StopOf(id) == [t |-> "stop", id |-> id]
KeyOf(id) == [t |-> "stopPressed", id |-> id]
Asked(id) == Copies(StopOf(id), under') > Copies(StopOf(id), under) =>
               Copies(KeyOf(id), under') < Copies(KeyOf(id), under)

\* No more stops than before: nothing was to be asked for.
LEMMA NotMore ==
  ASSUME TypeOK, NEW id,
         \/ UNCHANGED under
         \/ \E m : m.t # "stop" /\ Send(m)
         \/ Sends({Msg("list"), Msg("tick")})
         \/ under' = EmptyBag
         \/ \E m \in DOMAIN under : Drop(m)
         \/ \E m \in DOMAIN under : \E x : x.t # "stop" /\ Reply(m, {x})
  PROVE  ~(Copies(StopOf(id), under') > Copies(StopOf(id), under))
<1>n. Copies(StopOf(id), under) \in Nat
  BY DEF TypeOK, IsABag, Copies
<1>s. \A x : x.t # "stop" => x # StopOf(id)
  BY DEF StopOf
<1>l. Msg("list") # StopOf(id) /\ Msg("tick") # StopOf(id)
  <2>1. Msg("list").t # "stop" /\ Msg("tick").t # "stop"
    BY DEF Msg
  <2>2. QED
    BY <1>s, <2>1
<1>1. CASE UNCHANGED under
  BY <1>1, <1>n
<1>2. ASSUME NEW m, m.t # "stop", Send(m)
      PROVE  ~(Copies(StopOf(id), under') > Copies(StopOf(id), under))
  <2>1. Copies(StopOf(id), under') = Copies(StopOf(id), under) + One(m, StopOf(id))
    BY <1>2, SendFacts
  <2>2. One(m, StopOf(id)) = 0
    BY <1>2, <1>s DEF One
  <2>3. QED
    BY <1>n, <2>1, <2>2
<1>3. CASE Sends({Msg("list"), Msg("tick")})
  <2>1. Copies(StopOf(id), under') =
          Copies(StopOf(id), under) + IF StopOf(id) \in {Msg("list"), Msg("tick")} THEN 1 ELSE 0
    BY <1>3, SendsFacts
  <2>2. QED
    BY <1>n, <1>l, <2>1
<1>4. CASE under' = EmptyBag
  <2>1. Copies(StopOf(id), under') = 0
    BY <1>4 DEF EmptyBag, SetToBag, Copies
  <2>2. QED
    BY <1>n, <2>1
<1>5. ASSUME NEW m \in DOMAIN under, Drop(m)
      PROVE  ~(Copies(StopOf(id), under') > Copies(StopOf(id), under))
  <2>1. Copies(StopOf(id), under') = Copies(StopOf(id), under) - One(m, StopOf(id))
    BY <1>5, DropFacts
  <2>2. One(m, StopOf(id)) \in Nat
    BY DEF One
  <2>3. QED
    BY <1>n, <2>1, <2>2
<1>6. ASSUME NEW m \in DOMAIN under, NEW x, x.t # "stop", Reply(m, {x})
      PROVE  ~(Copies(StopOf(id), under') > Copies(StopOf(id), under))
  <2>1. Copies(StopOf(id), under') = (Copies(StopOf(id), under) - One(m, StopOf(id)))
                                       + IF StopOf(id) \in {x} THEN 1 ELSE 0
    BY <1>6, ReplyFacts
  <2>2. StopOf(id) \notin {x}
    BY <1>6, <1>s
  <2>3. One(m, StopOf(id)) \in Nat
    BY DEF One
  <2>4. QED
    BY <1>n, <2>1, <2>2, <2>3
<1>7. QED
  BY <1>1, <1>2, <1>3, <1>4, <1>5, <1>6

LEMMA NextAsks == TypeOK /\ [Next]_vars => \A id \in Forwards : Asked(id)
<1> SUFFICES ASSUME TypeOK, [Next]_vars, NEW id \in Forwards PROVE Asked(id)
  OBVIOUS
<1>1. CASE Keys \/ ForwardEvent
  <2>1. \/ UNCHANGED under
        \/ \E m : m.t # "stop" /\ Send(m)
        \/ Sends({Msg("list"), Msg("tick")})
        \/ under' = EmptyBag
    BY <1>1, KeysSend
  <2>2. QED
    BY <2>1, NotMore DEF Asked
<1>2. ASSUME NEW m \in DOMAIN under,
             Fails(m) \/ Request(m) \/ Starts(m) \/ Refresh(m) \/ Answer(m)
      PROVE  Asked(id)
  <2>1. CASE Drop(m) \/ \E x : x.t # "stop" /\ Reply(m, {x})
    BY <2>1, NotMore DEF Asked
  <2>2. CASE Send(Msg("list"))
    <3>1. Msg("list").t # "stop"
      BY DEF Msg
    <3>2. QED
      BY <2>2, <3>1, NotMore DEF Asked
  <2>3. CASE m.t = "stopPressed" /\ Reply(m, {StopOf(m.id), Msg("list")})
    <3>1. m = KeyOf(m.id)
      BY <2>3, Received DEF TypeOK, KeyOf
    <3>2. \A y : Copies(y, under') = (Copies(y, under) - One(m, y))
                                      + IF y \in {StopOf(m.id), Msg("list")} THEN 1 ELSE 0
      BY <2>3, ReplyFacts
    <3>3. Copies(KeyOf(id), under) \in Nat /\ Copies(StopOf(id), under) \in Nat
      BY DEF TypeOK, IsABag, Copies
    <3>4. CASE id = m.id
      <4>1. KeyOf(id) = m /\ KeyOf(id).t = "stopPressed"
        BY <3>1, <3>4 DEF KeyOf
      <4>2. KeyOf(id) # StopOf(m.id) /\ KeyOf(id) # Msg("list")
        <5>1. StopOf(m.id).t = "stop" /\ Msg("list").t = "list"
          BY DEF StopOf, Msg
        <5>2. QED
          BY <4>1, <5>1
      <4>3. Copies(KeyOf(id), under') = Copies(KeyOf(id), under) - 1
        BY <3>2, <3>3, <4>1, <4>2 DEF One
      <4>4. QED
        BY <3>3, <4>3 DEF Asked
    <3>5. CASE id # m.id
      <4>1. StopOf(id) # StopOf(m.id)
        <5>1. StopOf(id).id = id /\ StopOf(m.id).id = m.id
          BY DEF StopOf
        <5>2. QED
          BY <3>5, <5>1
      <4>2. StopOf(id) # Msg("list")
        <5>1. StopOf(id).t = "stop" /\ Msg("list").t = "list"
          BY DEF StopOf, Msg
        <5>2. QED
          BY <5>1
      <4>3. Copies(StopOf(id), under') = Copies(StopOf(id), under) - One(m, StopOf(id))
        BY <3>2, <3>3, <4>1, <4>2 DEF One
      <4>4. One(m, StopOf(id)) \in Nat
        BY DEF One
      <4>5. QED
        BY <3>3, <4>3, <4>4 DEF Asked
    <3>6. QED
      BY <3>4, <3>5
  <2>4. QED
    BY <1>2, <2>1, <2>2, <2>3, MessagesSend DEF StopOf
<1>3. CASE UNCHANGED vars
  BY <1>3, NotMore DEF vars, Asked
<1>4. QED
  BY <1>1, <1>2, <1>3 DEF Next

\* Every stop request answers a key pressed on the row of its forward, and
\* each key is answered once: results, ticks and events never ask again.
THEOREM StopsAsked == Spec => StopsWereAsked
<1>1. TypeOK /\ [Next]_vars =>
        [\A id \in Forwards :
           LET stop == [t |-> "stop", id |-> id]
               key == [t |-> "stopPressed", id |-> id]
           IN  Copies(stop, under') > Copies(stop, under) =>
                 Copies(key, under') < Copies(key, under)]_vars
  BY NextAsks DEF Asked, StopOf, KeyOf
<1>2. QED
  BY <1>1, TypeCorrect, PTL DEF Spec, StopsWereAsked
=============================================================================
