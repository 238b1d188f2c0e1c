------------------------------- MODULE IpcProofs -------------------------------
(***************************************************************************)
(* Theorems about Ipc: its types, that a call finds its own answer, that   *)
(* an event stream is served, and that it shows the manager's events in    *)
(* order and without gaps, for any number of clients and any capacities.   *)
(***************************************************************************)
EXTENDS Ipc, TLAPS

-----------------------------------------------------------------------------
(* Types                                                                   *)

LEMMA ConstantFacts ==
  /\ WireCap \in Nat \ {0} /\ SubCap \in Nat \ {0} /\ MaxCalls \in Nat \ {0}
  /\ MaxEvents \in Nat
BY IpcAssumption

LEMMA AppendFacts ==
  ASSUME NEW S, NEW q \in Seq(S), NEW x \in S
  PROVE  /\ Append(q, x) \in Seq(S) /\ Len(Append(q, x)) = Len(q) + 1
         /\ \A i \in 1 .. Len(q) : Append(q, x)[i] = q[i]
         /\ Append(q, x)[Len(q) + 1] = x
         /\ Len(q) \in Nat
OBVIOUS

LEMMA TailFacts ==
  ASSUME NEW S, NEW q \in Seq(S), q # << >>
  PROVE  /\ Tail(q) \in Seq(S) /\ Len(Tail(q)) = Len(q) - 1
         /\ Head(q) \in S /\ Head(q) = q[1]
         /\ \A i \in 1 .. Len(q) - 1 : Tail(q)[i] = q[i + 1]
         /\ Len(q) \in Nat \ {0}
OBVIOUS

Pcs == {"new", "idle", "waiting", "streaming", "deaf", "closed"}

ClientRecord == [pc : Pcs, calls : 0 .. MaxCalls, expired : BOOLEAN, result : Results]

ServeRecord ==
  [at : {"none", "read", "handle", "subscribe", "stream", "blocked", "closed"},
   req : 0 .. MaxCalls]

\* A channel has room for SubCap events, and for one more while its handler
\* holds the first of them.
LEMMA RoomFacts ==
  ASSUME NEW c \in Clients
  PROVE  /\ Room(c) \in Nat /\ SubCap <= Room(c) /\ Room(c) <= SubCap + 1
         /\ serve[c].at # "blocked" => Room(c) = SubCap
BY ConstantFacts DEF Room

\* What is written to the record of c; the others stay.
LEMMA BecomeFacts ==
  ASSUME TypeOK, NEW c \in Clients, NEW pc \in Pcs, NEW result \in Results,
         Become(c, pc, result)
  PROVE  /\ client' \in [Clients -> ClientRecord]
         /\ \A d \in Clients \ {c} : client'[d] = client[d]
         /\ client'[c].pc = pc
         /\ client'[c].calls = client[c].calls /\ client'[c].expired = client[c].expired
<1>1. client \in [Clients -> ClientRecord]
  BY DEF TypeOK, ClientRecord, Pcs
<1>2. client'[c] = [client[c] EXCEPT !.pc = pc, !.result = result]
  BY <1>1 DEF Become
<1>3. client'[c] \in ClientRecord
  BY <1>1, <1>2 DEF ClientRecord
<1>4. QED
  BY <1>1, <1>2, <1>3 DEF Become, ClientRecord

LEMMA AtFacts ==
  ASSUME TypeOK, NEW c \in Clients, NEW at \in {"none", "read", "subscribe", "stream", "blocked", "closed"},
         At(c, at)
  PROVE  /\ serve' \in [Clients -> ServeRecord]
         /\ \A d \in Clients \ {c} : serve'[d] = serve[d]
         /\ serve'[c].at = at /\ serve'[c].req = serve[c].req
BY DEF TypeOK, At, ServeRecord

\* What a handler writes: nothing to a closed client, else one more frame.
LEMMA WriteFacts ==
  ASSUME TypeOK, NEW c \in Clients, CanWrite(c),
         NEW kind \in {"ok", "fail", "event"}, NEW n \in Nat, Write(c, kind, n)
  PROVE  /\ toCli' \in [Clients -> Seq(Frames)]
         /\ \A d \in Clients \ {c} : toCli'[d] = toCli[d]
         /\ \A d \in Clients : Len(toCli'[d]) <= WireCap
         /\ Closed(c) => toCli' = toCli
         /\ Len(toCli[c]) \in Nat
         /\ ~Closed(c) =>
              /\ Len(toCli'[c]) = Len(toCli[c]) + 1
              /\ \A i \in 1 .. Len(toCli[c]) : toCli'[c][i] = toCli[c][i]
              /\ toCli'[c][Len(toCli[c]) + 1].kind = kind /\ toCli'[c][Len(toCli[c]) + 1].n = n
<1>1. [kind |-> kind, n |-> n] \in Frames
  BY DEF Frames
<1>2. toCli \in [Clients -> Seq(Frames)] /\ \A d \in Clients : Len(toCli[d]) <= WireCap
  BY DEF TypeOK
<1>3. CASE Closed(c)
  BY <1>2, <1>3 DEF Write
<1>4. CASE ~Closed(c)
  <2>1. PICK frame \in Frames : frame = [kind |-> kind, n |-> n]
    BY <1>1
  <2>2. /\ Append(toCli[c], frame) \in Seq(Frames)
        /\ Len(Append(toCli[c], frame)) = Len(toCli[c]) + 1
        /\ \A i \in 1 .. Len(toCli[c]) : Append(toCli[c], frame)[i] = toCli[c][i]
        /\ Append(toCli[c], frame)[Len(toCli[c]) + 1] = frame
        /\ Len(toCli[c]) \in Nat
    BY <1>2, AppendFacts
  <2>3. toCli' = [toCli EXCEPT ![c] = Append(toCli[c], frame)]
    BY <1>4, <2>1 DEF Write
  <2>4. toCli'[c] = Append(toCli[c], frame)
    BY <1>2, <2>3
  <2>5. Len(toCli[c]) < WireCap
    BY <1>4 DEF CanWrite
  <2>6. toCli' \in [Clients -> Seq(Frames)] /\ \A d \in Clients : Len(toCli'[d]) <= WireCap
    BY <1>2, <2>2, <2>3, <2>5, ConstantFacts
  <2>7. /\ Len(toCli'[c]) = Len(toCli[c]) + 1
        /\ \A i \in 1 .. Len(toCli[c]) : toCli'[c][i] = toCli[c][i]
        /\ toCli'[c][Len(toCli[c]) + 1] = frame
    BY <2>2, <2>4
  <2>8. frame.kind = kind /\ frame.n = n
    BY <2>1
  <2>9. QED
    BY <1>2, <1>4, <2>2, <2>3, <2>6, <2>7, <2>8
<1>5. QED
  BY <1>3, <1>4

LEMMA InitType == Init => TypeOK
<1> SUFFICES ASSUME Init PROVE TypeOK
  OBVIOUS
<1>1. client \in [Clients -> ClientRecord]
  BY ConstantFacts DEF Init, ClientRecord, Pcs, Results
<1>2. QED
  BY <1>1, ConstantFacts DEF Init, TypeOK, Room, ClientRecord, Pcs

\* Received numbers are those of calls and events.
LEMMA HeadFacts ==
  ASSUME TypeOK, NEW c \in Clients, FrameInv(c), toCli[c] # << >>
  PROVE  /\ Tail(toCli[c]) \in Seq(Frames) /\ Len(Tail(toCli[c])) = Len(toCli[c]) - 1
         /\ Len(toCli[c]) \in Nat \ {0}
         /\ \A i \in 1 .. Len(toCli[c]) - 1 : Tail(toCli[c])[i] = toCli[c][i + 1]
         /\ Head(toCli[c]) = toCli[c][1] /\ Head(toCli[c]) \in Frames
         /\ Head(toCli[c]).kind = "event" => Head(toCli[c]).n \in 1 .. MaxEvents
<1>1. toCli[c] \in Seq(Frames)
  BY DEF TypeOK
<1>2. Len(toCli[c]) \in Nat \ {0} /\ Head(toCli[c]) = toCli[c][1]
  BY <1>1
<1>3. Head(toCli[c]).kind = "event" => Head(toCli[c]).n \in 1 .. MaxEvents
  BY <1>2 DEF FrameInv
<1>4. QED
  BY <1>1, <1>2, <1>3

LEMMA ClientType ==
  ASSUME TypeOK, NEW c \in Clients, FrameInv(c), ProgramInv(c), ClientStep(c) \/ Close(c)
  PROVE  TypeOK' /\ FrameInv(c)'
<1> USE DEF srvVars, cliVars, Room
<1>t. /\ client \in [Clients -> ClientRecord]
      /\ toSrv \in [Clients -> Seq(1 .. MaxCalls)]
      /\ toCli \in [Clients -> Seq(Frames)]
      /\ shown \in [Clients -> Seq(1 .. MaxEvents)]
      /\ Len(toCli[c]) \in Nat
  BY DEF TypeOK, ClientRecord, Pcs
<1>1. CASE Connect(c)
  <2>1. client' \in [Clients -> ClientRecord]
    BY <1>1, BecomeFacts DEF Connect, Pcs, Results
  <2>2. serve' \in [Clients -> ServeRecord]
    BY <1>1, AtFacts DEF Connect, At, TypeOK, ServeRecord
  <2>3. \A d \in Clients : Len(chan[d]) <= Room(d)'
    <3>1. \A d \in Clients : Len(chan[d]) <= Room(d)
      BY DEF TypeOK
    <3>2. \A d \in Clients \ {c} : serve'[d] = serve[d]
      BY <1>1 DEF Connect, TypeOK
    <3>3. serve[c].at # "blocked"
      BY <1>1 DEF Connect, ProgramInv
    <3>4. Len(chan[c]) <= SubCap
      BY <3>1, <3>3
    <3>5. Len(chan[c]) <= Room(c)'
      <4>1. serve' = serve \/ serve'[c].at = "read"
        BY <1>1 DEF Connect, TypeOK
      <4>2. QED
        BY <3>3, <3>4, <4>1
    <3>6. QED
      BY <3>1, <3>2, <3>5
  <2>4. QED
    BY <1>1, <2>1, <2>2, <2>3 DEF Connect, TypeOK, FrameInv, ClientRecord, Pcs, ServeRecord
<1>2. CASE Call(c)
  <2>1. client[c].calls + 1 \in 1 .. MaxCalls /\ client[c].calls + 1 \in 0 .. MaxCalls
    BY <1>2, <1>t, ConstantFacts DEF Call, ClientRecord
  <2>2. toSrv' \in [Clients -> Seq(1 .. MaxCalls)]
    <3>1. Append(toSrv[c], client[c].calls + 1) \in Seq(1 .. MaxCalls)
      BY <2>1, <1>t
    <3>2. toSrv' = toSrv \/ toSrv' = [toSrv EXCEPT ![c] = Append(toSrv[c], client[c].calls + 1)]
      BY <1>2 DEF Call
    <3>3. QED
      BY <1>t, <3>1, <3>2
  <2>3. client'[c] \in ClientRecord
    <3>1. CASE client[c].pc = "new"
      <4>1. client'[c] = [client[c] EXCEPT !.result = "notRunning"]
        BY <1>2, <1>t, <3>1 DEF Call
      <4>2. QED
        BY <1>t, <2>1, <4>1 DEF ClientRecord, Results
    <3>2. CASE client[c].pc = "idle"
      <4>1. PICK pc \in Pcs, x \in Results :
              client'[c] = [client[c] EXCEPT !.calls = client[c].calls + 1, !.pc = pc, !.result = x]
        BY <1>2, <1>t, <3>2 DEF Call, Pcs, Results
      <4>2. QED
        BY <1>t, <2>1, <4>1 DEF ClientRecord
    <3>3. QED
      BY <1>2, <3>1, <3>2 DEF Call
  <2>4. client' \in [Clients -> ClientRecord]
    BY <1>2, <1>t, <2>3 DEF Call
  <2>5. QED
    BY <1>2, <2>2, <2>4 DEF Call, TypeOK, FrameInv, ClientRecord, Pcs
<1>3. CASE Answer(c) \/ Receive(c)
  <2>1. client' \in [Clients -> ClientRecord]
    BY <1>3, <1>t, BecomeFacts DEF Answer, Receive, Pcs, Results
  <2>2. /\ toCli' = [toCli EXCEPT ![c] = Tail(toCli[c])]
        /\ toCli[c] # << >>
    BY <1>3 DEF Answer, Receive
  <2>3. /\ toCli' \in [Clients -> Seq(Frames)] /\ FrameInv(c)'
        /\ \A d \in Clients : Len(toCli'[d]) <= WireCap
    <3>1. /\ Tail(toCli[c]) \in Seq(Frames) /\ Len(Tail(toCli[c])) = Len(toCli[c]) - 1
          /\ \A i \in 1 .. Len(toCli[c]) - 1 : Tail(toCli[c])[i] = toCli[c][i + 1]
      BY <2>2, HeadFacts
    <3>2. \A d \in Clients : Len(toCli[d]) <= WireCap
      BY DEF TypeOK
    <3>3. toCli'[c] = Tail(toCli[c]) /\ \A d \in Clients \ {c} : toCli'[d] = toCli[d]
      BY <1>t, <2>2
    <3>4. FrameInv(c)'
      <4>1. SUFFICES ASSUME NEW i \in 1 .. Len(toCli'[c]), toCli'[c][i].kind = "event"
                     PROVE  toCli'[c][i].n \in 1 .. MaxEvents
        BY DEF FrameInv
      <4>2. i \in 1 .. Len(toCli[c]) - 1 /\ i + 1 \in 1 .. Len(toCli[c])
        BY <1>t, <3>1, <3>3, <4>1
      <4>3. toCli'[c][i] = toCli[c][i + 1]
        BY <3>1, <3>3, <4>2
      <4>4. QED
        BY <4>1, <4>2, <4>3 DEF FrameInv
    <3>5. \A d \in Clients : Len(toCli'[d]) <= WireCap
      <4>1. Len(toCli'[c]) <= WireCap
        <5>1. Len(toCli[c]) <= WireCap /\ WireCap \in Nat
          BY <3>2, ConstantFacts
        <5>2. Len(toCli'[c]) = Len(toCli[c]) - 1
          BY <3>1, <3>3
        <5>3. QED
          BY <1>t, <5>1, <5>2
      <4>2. QED
        BY <3>2, <3>3, <4>1
    <3>6. toCli' \in [Clients -> Seq(Frames)]
      BY <1>t, <2>2, <3>1
    <3>7. QED
      BY <3>4, <3>5, <3>6
  <2>4. shown' \in [Clients -> Seq(1 .. MaxEvents)]
    <3>1. CASE shown' = [shown EXCEPT ![c] = Append(shown[c], Head(toCli[c]).n)]
               /\ Head(toCli[c]).n \in 1 .. MaxEvents
      BY <1>t, <3>1
    <3>2. QED
      BY <1>3, <1>t, <2>2, <3>1, HeadFacts DEF Answer, Receive
  <2>5. QED
    BY <1>3, <2>1, <2>3, <2>4 DEF Answer, Receive, TypeOK, ClientRecord, Pcs
<1>4. CASE Expire(c)
  <2>1. client'[c] \in ClientRecord
    <3>1. client'[c] = [client[c] EXCEPT !.pc = "idle", !.expired = TRUE, !.result = "timeout"]
      BY <1>4, <1>t DEF Expire
    <3>2. QED
      BY <1>t, <3>1 DEF ClientRecord, Pcs, Results
  <2>2. client' \in [Clients -> ClientRecord]
    BY <1>4, <1>t, <2>1 DEF Expire
  <2>3. QED
    BY <1>4, <2>2 DEF Expire, TypeOK, FrameInv, ClientRecord, Pcs
<1>5. CASE Subscribe(c)
  <2>1. 1 \in 0 .. MaxCalls /\ 1 \in 1 .. MaxCalls
    BY ConstantFacts
  <2>2. client'[c] \in ClientRecord
    <3>1. client'[c] = [client[c] EXCEPT !.pc = "streaming", !.calls = 1]
      BY <1>5, <1>t DEF Subscribe
    <3>2. QED
      BY <1>t, <2>1, <3>1 DEF ClientRecord, Pcs
  <2>3. client' \in [Clients -> ClientRecord]
    BY <1>5, <1>t, <2>2 DEF Subscribe
  <2>4. toSrv' \in [Clients -> Seq(1 .. MaxCalls)]
    <3>1. Append(toSrv[c], 1) \in Seq(1 .. MaxCalls)
      BY <2>1, <1>t
    <3>2. QED
      BY <1>5, <1>t, <3>1 DEF Subscribe
  <2>5. QED
    BY <1>5, <2>3, <2>4 DEF Subscribe, TypeOK, FrameInv, ClientRecord, Pcs
<1>6. CASE ReadEnd(c)
  <2>1. client' \in [Clients -> ClientRecord]
    BY <1>6, BecomeFacts DEF ReadEnd, Pcs, Results
  <2>2. QED
    BY <1>6, <2>1 DEF ReadEnd, TypeOK, FrameInv, ClientRecord, Pcs
<1>7. CASE Close(c)
  <2>1. client'[c] \in ClientRecord
    <3>1. client'[c] = [client[c] EXCEPT !.pc = "closed"]
      BY <1>7, <1>t DEF Close
    <3>2. QED
      BY <1>t, <3>1 DEF ClientRecord, Pcs
  <2>2. client' \in [Clients -> ClientRecord]
    BY <1>7, <1>t, <2>1 DEF Close
  <2>3. /\ toCli' \in [Clients -> Seq(Frames)] /\ Len(toCli'[c]) = 0
        /\ \A d \in Clients \ {c} : toCli'[d] = toCli[d]
    BY <1>7 DEF Close, TypeOK
  <2>4. TypeOK'
    <3>1. \A d \in Clients : Len(toCli'[d]) <= WireCap
      <4>1. \A d \in Clients : Len(toCli[d]) <= WireCap
        BY DEF TypeOK
      <4>2. WireCap \in Nat
        BY ConstantFacts
      <4>3. QED
        BY <2>3, <4>1, <4>2
    <3>2. UNCHANGED <<server, toSrv, chan, serve, subs, lost, since, pub, shown>>
      BY <1>7 DEF Close, srvVars
    <3>3. QED
      BY <2>2, <2>3, <3>1, <3>2 DEF TypeOK, ClientRecord, Pcs
  <2>5. FrameInv(c)'
    BY <2>3 DEF FrameInv
  <2>6. QED
    BY <2>4, <2>5
<1>8. QED
  BY <1>1, <1>2, <1>3, <1>4, <1>5, <1>6, <1>7 DEF ClientStep

LEMMA HandlerType ==
  ASSUME TypeOK, NEW c \in Clients, FrameInv(c), HandlerStep(c)
  PROVE  TypeOK' /\ FrameInv(c)'
<1> USE DEF srvVars, cliVars, Room
<1>t. /\ toSrv \in [Clients -> Seq(1 .. MaxCalls)]
      /\ toCli \in [Clients -> Seq(Frames)]
      /\ chan \in [Clients -> Seq(1 .. MaxEvents)]
      /\ serve \in [Clients -> ServeRecord]
      /\ \A d \in Clients : Len(chan[d]) \in Nat /\ Len(chan[d]) <= Room(d)
  BY DEF TypeOK, ServeRecord
<1>1. CASE ReadRequest(c)
  <2>1. /\ toSrv[c] \in Seq(1 .. MaxCalls) /\ toSrv[c] # << >>
        /\ toSrv' = [toSrv EXCEPT ![c] = Tail(toSrv[c])]
        /\ serve' = [serve EXCEPT ![c] = [at |-> "handle", req |-> Head(toSrv[c])]]
    BY <1>1, <1>t DEF ReadRequest
  <2>2. Tail(toSrv[c]) \in Seq(1 .. MaxCalls) /\ Head(toSrv[c]) \in 0 .. MaxCalls
    <3>1. Tail(toSrv[c]) \in Seq(1 .. MaxCalls) /\ Head(toSrv[c]) \in 1 .. MaxCalls
      BY <2>1, TailFacts
    <3>2. QED
      BY <3>1, ConstantFacts
  <2>3. toSrv' \in [Clients -> Seq(1 .. MaxCalls)] /\ serve' \in [Clients -> ServeRecord]
    BY <1>t, <2>1, <2>2 DEF ServeRecord
  <2>4. \A d \in Clients : Len(chan[d]) <= Room(d)'
    <3>1. \A d \in Clients \ {c} : serve'[d] = serve[d]
      BY <1>t, <2>1
    <3>2. serve[c].at # "blocked"
      BY <1>1 DEF ReadRequest
    <3>3. serve'[c].at # "blocked"
      BY <1>t, <2>1
    <3>4. QED
      BY <1>t, <3>1, <3>2, <3>3
  <2>5. QED
    BY <1>1, <2>3, <2>4 DEF ReadRequest, TypeOK, FrameInv, ServeRecord
<1>2. CASE HandlerReturns(c) \/ StreamEnds(c) \/ Block(c)
  <2>1. serve' \in [Clients -> ServeRecord]
    BY <1>2, AtFacts DEF HandlerReturns, StreamEnds, Block
  <2>2. \A d \in Clients : Len(chan[d]) <= Room(d)'
    <3>1. /\ \A d \in Clients \ {c} : serve'[d] = serve[d]
          /\ serve[c].at # "blocked"
      BY <1>2, AtFacts DEF HandlerReturns, StreamEnds, Block
    <3>2. SubCap <= Room(c)'
      BY RoomFacts, ConstantFacts
    <3>3. Len(chan[c]) <= SubCap
      BY <1>t, <3>1
    <3>4. Len(chan[c]) <= Room(c)'
      BY <1>t, <3>2, <3>3, ConstantFacts
    <3>5. QED
      BY <1>t, <3>1, <3>4
  <2>3. QED
    BY <1>2, <2>1, <2>2 DEF HandlerReturns, StreamEnds, Block, TypeOK, FrameInv, ServeRecord
<1>3. CASE Handle(c)
  <2>1. PICK kind \in {"ok", "fail"} : Write(c, kind, serve[c].req)
    BY <1>3 DEF Handle
  <2>2. serve[c].req \in Nat
    BY <1>t, ConstantFacts DEF ServeRecord
  <2>3. serve' \in [Clients -> ServeRecord]
    <3>1. PICK at \in {"subscribe", "read"} : At(c, at)
      BY <1>3 DEF Handle
    <3>2. QED
      BY <3>1, AtFacts
  <2>4. /\ toCli' \in [Clients -> Seq(Frames)]
        /\ \A d \in Clients : Len(toCli'[d]) <= WireCap
        /\ Closed(c) => toCli' = toCli
        /\ Len(toCli[c]) \in Nat
        /\ ~Closed(c) =>
             /\ Len(toCli'[c]) = Len(toCli[c]) + 1
             /\ \A i \in 1 .. Len(toCli[c]) : toCli'[c][i] = toCli[c][i]
             /\ toCli'[c][Len(toCli[c]) + 1].kind = kind
    BY <1>3, <2>1, <2>2, WriteFacts DEF Handle
  <2>5. FrameInv(c)'
    <3>1. CASE Closed(c)
      BY <2>4, <3>1 DEF FrameInv
    <3>2. CASE ~Closed(c)
      BY <2>4, <3>2 DEF FrameInv
    <3>3. QED
      BY <3>1, <3>2
  <2>6. \A d \in Clients : Len(chan[d]) <= Room(d)'
    <3>1. PICK at \in {"subscribe", "read"} : At(c, at)
      BY <1>3 DEF Handle
    <3>2. (\A d \in Clients \ {c} : serve'[d] = serve[d]) /\ serve'[c].at = at
      BY <3>1, AtFacts
    <3>3. serve[c].at # "blocked"
      BY <1>3 DEF Handle
    <3>4. QED
      BY <1>t, <3>1, <3>2, <3>3
  <2>7. QED
    BY <1>3, <2>3, <2>4, <2>5, <2>6 DEF Handle, TypeOK, ServeRecord
<1>4. CASE SubscribeManager(c)
  <2>1. serve' \in [Clients -> ServeRecord]
    BY <1>4, AtFacts DEF SubscribeManager
  <2>2. \A d \in Clients : Len(chan[d]) <= Room(d)'
    <3>1. (\A d \in Clients \ {c} : serve'[d] = serve[d]) /\ serve'[c].at = "stream"
      BY <1>4, AtFacts DEF SubscribeManager
    <3>2. serve[c].at # "blocked"
      BY <1>4 DEF SubscribeManager
    <3>3. QED
      BY <1>t, <3>1, <3>2
  <2>3. QED
    BY <1>4, <2>1, <2>2 DEF SubscribeManager, TypeOK, FrameInv, ServeRecord
<1>5. CASE Stream(c)
  <2>1. serve' \in [Clients -> ServeRecord]
    <3>1. PICK at \in {"stream", "read"} : At(c, at)
      BY <1>5 DEF Stream
    <3>2. QED
      BY <3>1, AtFacts
  <2>2. /\ chan[c] \in Seq(1 .. MaxEvents) /\ chan[c] # << >>
        /\ chan' = [chan EXCEPT ![c] = Tail(chan[c])]
        /\ Write(c, "event", Head(chan[c])) /\ CanWrite(c)
    BY <1>5, <1>t DEF Stream
  <2>3. /\ Tail(chan[c]) \in Seq(1 .. MaxEvents) /\ Len(Tail(chan[c])) = Len(chan[c]) - 1
        /\ Len(chan[c]) \in Nat
        /\ Head(chan[c]) \in 1 .. MaxEvents
    BY <2>2, TailFacts
  <2>4. /\ chan' \in [Clients -> Seq(1 .. MaxEvents)]
        /\ \A d \in Clients : Len(chan'[d]) <= Room(d)'
    <3>1. /\ \A d \in Clients \ {c} : serve'[d] = serve[d]
          /\ serve'[c].at # "blocked"
      BY <1>5, AtFacts DEF Stream
    <3>2. chan' \in [Clients -> Seq(1 .. MaxEvents)]
      BY <1>t, <2>2, <2>3
    <3>3. chan'[c] = Tail(chan[c]) /\ \A d \in Clients \ {c} : chan'[d] = chan[d]
      BY <1>t, <2>2
    <3>4. Len(chan'[c]) <= SubCap
      BY <1>t, <2>3, <3>3, ConstantFacts
    <3>5. QED
      BY <1>t, <3>1, <3>2, <3>3, <3>4
  <2>5. Head(chan[c]) \in Nat
    BY <2>3, ConstantFacts
  <2>6. /\ toCli' \in [Clients -> Seq(Frames)]
        /\ \A d \in Clients : Len(toCli'[d]) <= WireCap
        /\ Closed(c) => toCli' = toCli
        /\ Len(toCli[c]) \in Nat
        /\ ~Closed(c) =>
             /\ Len(toCli'[c]) = Len(toCli[c]) + 1
             /\ \A i \in 1 .. Len(toCli[c]) : toCli'[c][i] = toCli[c][i]
             /\ toCli'[c][Len(toCli[c]) + 1].n = Head(chan[c])
    BY <2>2, <2>5, WriteFacts
  <2>7. FrameInv(c)'
    <3>1. CASE Closed(c)
      BY <2>6, <3>1 DEF FrameInv
    <3>2. CASE ~Closed(c)
      <4>1. \A k \in 1 .. Len(toCli'[c]) :
              k \in 1 .. Len(toCli[c]) \/ k = Len(toCli[c]) + 1
        BY <2>6, <3>2
      <4>2. \A k \in 1 .. Len(toCli'[c]) : k \notin 1 .. Len(toCli[c]) =>
              toCli'[c][k].n = Head(chan[c])
        BY <2>6, <3>2, <4>1
      <4>3. QED
        BY <2>3, <2>6, <3>2, <4>1, <4>2 DEF FrameInv
    <3>3. QED
      BY <3>1, <3>2
  <2>8. QED
    BY <1>5, <2>1, <2>4, <2>6, <2>7 DEF Stream, TypeOK, ServeRecord
<1>6. QED
  BY <1>1, <1>2, <1>3, <1>4, <1>5 DEF HandlerStep

LEMMA ServerType ==
  ASSUME TypeOK, Publish \/ Cancel \/ Flush \/ ExitDaemon
  PROVE  TypeOK'
<1> USE DEF srvVars, cliVars, Room
<1>1. CASE Publish
  <2>1. pub + 1 \in 1 .. MaxEvents
    BY <1>1, ConstantFacts DEF Publish, TypeOK
  <2>2. ASSUME NEW c \in Clients
        PROVE  chan'[c] \in Seq(1 .. MaxEvents) /\ Len(chan'[c]) <= Room(c)
    <3>1. chan[c] \in Seq(1 .. MaxEvents) /\ Len(chan[c]) <= Room(c)
      BY DEF TypeOK
    <3>2. /\ Append(chan[c], pub + 1) \in Seq(1 .. MaxEvents)
          /\ Len(Append(chan[c], pub + 1)) = Len(chan[c]) + 1 /\ Len(chan[c]) \in Nat
      BY <2>1, <3>1, AppendFacts
    <3>3. chan'[c] = chan[c] \/ (chan'[c] = Append(chan[c], pub + 1) /\ Len(chan[c]) < Room(c))
      BY <1>1 DEF Publish
    <3>4. CASE chan'[c] = Append(chan[c], pub + 1) /\ Len(chan[c]) < Room(c)
      BY <3>2, <3>4, RoomFacts
    <3>5. QED
      BY <3>1, <3>3, <3>4
  <2>3. chan' \in [Clients -> Seq(1 .. MaxEvents)]
    BY <1>1, <2>2 DEF Publish
  <2>4. pub' \in 0 .. MaxEvents /\ lost' \subseteq Clients
    BY <1>1, <2>1 DEF Publish, TypeOK
  <2>5. QED
    BY <1>1, <2>2, <2>3, <2>4 DEF Publish, TypeOK
<1>2. CASE Cancel \/ Flush
  BY <1>2 DEF Cancel, Flush, TypeOK
<1>3. CASE ExitDaemon
  <2>1. serve' \in [Clients -> ServeRecord]
    BY <1>3, ConstantFacts DEF ExitDaemon, ServeRecord
  <2>2. QED
    BY <1>3, <2>1, ConstantFacts DEF ExitDaemon, TypeOK, ServeRecord
<1>4. QED
  BY <1>1, <1>2, <1>3

-----------------------------------------------------------------------------
(* The other connections                                                   *)

Untouched(c) ==
  /\ UNCHANGED <<server, pub>>
  /\ client'[c] = client[c] /\ toSrv'[c] = toSrv[c] /\ toCli'[c] = toCli[c]
  /\ serve'[c] = serve[c] /\ chan'[c] = chan[c] /\ shown'[c] = shown[c] /\ since'[c] = since[c]
  /\ c \in subs' <=> c \in subs
  /\ c \in lost' <=> c \in lost

LEMMA PipelineStays ==
  ASSUME NEW c \in Clients, toCli'[c] = toCli[c], chan'[c] = chan[c], shown'[c] = shown[c]
  PROVE  Pipeline(c)' = Pipeline(c)
BY DEF Pipeline

LEMMA UntouchedStays ==
  ASSUME NEW c \in Clients, Untouched(c), ConnectionInv(c)
  PROVE  ConnectionInv(c)'
<1>1. Pipeline(c)' = Pipeline(c)
  BY PipelineStays DEF Untouched
<1>2. Faithful(c)' <=> Faithful(c)
  BY <1>1 DEF Faithful, Untouched
<1>3. StreamInv(c)'
  BY <1>1, <1>2 DEF ConnectionInv, StreamInv, Streaming, InStream, Fresh, Closed, Untouched
<1>4. FrameInv(c)' /\ ProgramInv(c)' /\ CallInv(c)'
  BY DEF ConnectionInv, FrameInv, ProgramInv, InStream, CallInv, Quiet, Served, Untouched
<1>5. QED
  BY <1>3, <1>4 DEF ConnectionInv

\* A step of one connection leaves the others alone.
LEMMA OthersStay ==
  ASSUME TypeOK, NEW c \in Clients, ClientStep(c) \/ IdleOut(c) \/ Close(c) \/ HandlerStep(c),
         NEW d \in Clients \ {c}
  PROVE  Untouched(d)
<1> USE DEF srvVars, cliVars, TypeOK, Untouched, Become, At, Write
<1>1. ASSUME ClientStep(c) \/ IdleOut(c) \/ Close(c) PROVE Untouched(d)
  BY <1>1 DEF IdleOut, ClientStep, Connect, Call, Answer, Expire, Subscribe, Receive, ReadEnd, Close
<1>2. ASSUME HandlerStep(c) PROVE Untouched(d)
  BY <1>2 DEF HandlerStep, ReadRequest, HandlerReturns, Handle, SubscribeManager, Stream, Block, StreamEnds
<1>3. QED
  BY <1>1, <1>2

-----------------------------------------------------------------------------
(* A call finds its own answer                                             *)

LEMMA OneElement ==
  ASSUME NEW S, NEW q \in Seq(S), NEW x \in S
  PROVE  /\ Append(<< >>, x) = <<x>>
         /\ q = <<x>> => q # << >> /\ Head(q) = x /\ Tail(q) = << >> /\ Len(q) = 1
         /\ Len(q) = 1 => q # << >> /\ Head(q) = q[1] /\ Tail(q) = << >>
         /\ q = << >> <=> Len(q) = 0
<1>1. Append(<< >>, x) = <<x>>
  OBVIOUS
<1>2. q = <<x>> => q # << >> /\ Head(q) = x /\ Tail(q) = << >> /\ Len(q) = 1
  OBVIOUS
<1>3. \A t \in Seq(S) : t = << >> <=> Len(t) = 0
  OBVIOUS
<1>4. Len(q) = 1 => q # << >> /\ Head(q) = q[1] /\ Tail(q) = << >>
  <2>1. SUFFICES ASSUME Len(q) = 1 PROVE q # << >> /\ Head(q) = q[1] /\ Tail(q) = << >>
    OBVIOUS
  <2>2. q # << >>
    BY <2>1
  <2>3. Tail(q) \in Seq(S) /\ Len(Tail(q)) = Len(q) - 1 /\ Head(q) = q[1]
    BY <2>2, TailFacts
  <2>4. Len(Tail(q)) = 0
    BY <2>1, <2>3
  <2>5. Tail(q) = << >>
    BY <1>3, <2>3, <2>4, Zenon
  <2>6. QED
    BY <2>2, <2>3, <2>5
<1>5. QED
  BY <1>1, <1>2, <1>3, <1>4

LEMMA ClientCalls ==
  ASSUME TypeOK, NEW c \in Clients, ConnectionInv(c), ClientStep(c) \/ Close(c)
  PROVE  ProgramInv(c)' /\ CallInv(c)'
<1> USE DEF srvVars, cliVars, ConnectionInv
<1>t. /\ client \in [Clients -> ClientRecord]
      /\ toSrv \in [Clients -> Seq(1 .. MaxCalls)]
      /\ toCli \in [Clients -> Seq(Frames)]
      /\ serve \in [Clients -> ServeRecord]
  BY DEF TypeOK, ClientRecord, Pcs, ServeRecord
<1>1. CASE Connect(c)
  <2>1. /\ client'[c].pc \in {"idle", "closed"}
        /\ client'[c].pc = "idle" => serve'[c].at = "read"
    BY <1>1, <1>t, BecomeFacts DEF Connect, Pcs, Results, ServeRecord
  <2>2. /\ toSrv' = toSrv /\ toCli' = toCli /\ toSrv[c] = << >> /\ toCli[c] = << >>
        /\ serve'[c].at \in {"none", "closed", "read"}
    BY <1>1, <1>t DEF Connect, ProgramInv, InStream, ServeRecord
  <2>3. QED
    BY <2>1, <2>2 DEF ProgramInv, InStream, CallInv, Quiet
<1>2. CASE Call(c)
  <2>1. CASE Program[c] = "list"
    BY <1>2, <1>t, <2>1 DEF Call, ProgramInv, InStream, CallInv, ClientRecord
  <2>2. CASE Program[c] = "doctor"
    <3>1. client[c].pc = "idle" /\ toCli' = toCli /\ serve' = serve
      BY <1>2, <2>2 DEF Call
    <3>2. CASE client[c].expired
      <4>1. client'[c].pc = "idle" /\ client'[c].expired
        <5>1. client'[c] = [client[c] EXCEPT !.calls = client[c].calls + 1, !.pc = "idle",
                                            !.result = "timeout"]
          BY <1>2, <1>t, <3>1, <3>2 DEF Call
        <5>2. QED
          BY <1>t, <3>2, <5>1 DEF ClientRecord
      <4>2. QED
        BY <2>2, <3>1, <4>1 DEF ProgramInv, InStream, CallInv, Streams
    <3>3. CASE ~client[c].expired
      <4>1. client'[c].pc = "waiting" /\ ~client'[c].expired
              /\ client'[c].calls = client[c].calls + 1
        <5>1. client'[c] = [client[c] EXCEPT !.calls = client[c].calls + 1, !.pc = "waiting",
                                            !.result = "none"]
          BY <1>2, <1>t, <3>1, <3>3 DEF Call
        <5>2. QED
          BY <1>t, <3>3, <5>1 DEF ClientRecord
      <4>2. Quiet(c) /\ client[c].calls + 1 \in 1 .. MaxCalls
        BY <1>2, <1>t, <2>2, <3>1, <3>3, ConstantFacts DEF Call, CallInv, ClientRecord
      <4>3. Served(c) => toSrv'[c] = <<client[c].calls + 1>>
        BY <1>2, <1>t, <3>1, <4>2, OneElement DEF Call, Quiet
      <4>4. ~Served(c) => toSrv' = toSrv
        BY <1>2, <3>1 DEF Call
      <4>5. Served(c) => serve[c].at = "read"
        BY <1>t, <2>2, <4>2 DEF Served, Quiet, ProgramInv, InStream, Streams, ServeRecord
      <4>6. QED
        BY <2>2, <3>1, <4>1, <4>2, <4>3, <4>4, <4>5 DEF ProgramInv, InStream, CallInv, Quiet, Served, Streams
    <3>4. QED
      BY <3>2, <3>3
  <2>3. QED
    BY <1>2, <2>1, <2>2 DEF Call
<1>3. CASE Answer(c)
  <2>1. client'[c].pc = "idle" /\ client'[c].expired = client[c].expired
    BY <1>3, BecomeFacts DEF Answer, Pcs, Results
  <2>2. /\ Program[c] = "doctor" /\ ~client[c].expired /\ client[c].pc = "waiting"
        /\ serve' = serve /\ toSrv' = toSrv /\ toCli'[c] = Tail(toCli[c]) /\ toCli[c] # << >>
    BY <1>3, <1>t DEF Answer, ProgramInv, InStream
  <2>3. Len(toCli[c]) = 1 /\ toSrv[c] = << >> /\ serve[c].at # "handle"
    BY <2>2 DEF CallInv, Quiet
  <2>4. Tail(toCli[c]) = << >>
    BY <1>t, <2>3, OneElement
  <2>5. QED
    BY <2>1, <2>2, <2>3, <2>4 DEF ProgramInv, InStream, CallInv, Quiet, Streams
<1>4. CASE Expire(c)
  <2>1. client'[c].pc = "idle" /\ client'[c].expired
    BY <1>4, <1>t DEF Expire, ClientRecord
  <2>2. QED
    BY <1>4, <2>1 DEF Expire, ProgramInv, InStream, CallInv
<1>5. CASE Subscribe(c)
  <2>1. client'[c].pc = "streaming" /\ Program[c] \in Streams
    BY <1>5, <1>t DEF Subscribe, ClientRecord
  <2>2. QED
    BY <1>5, <2>1 DEF Subscribe, ProgramInv, InStream, CallInv, Streams
<1>6. CASE Receive(c)
  BY <1>6 DEF Receive, ProgramInv, InStream, CallInv, Streams
<1>7. CASE ReadEnd(c)
  <2>1. client'[c].pc = "closed"
    BY <1>7, BecomeFacts DEF ReadEnd, Pcs, Results
  <2>2. QED
    BY <1>7, <2>1 DEF ReadEnd, ProgramInv, InStream, CallInv
<1>8. CASE Close(c)
  <2>1. client'[c].pc = "closed"
    BY <1>8, <1>t DEF Close, ClientRecord
  <2>2. QED
    BY <1>8, <2>1 DEF Close, ProgramInv, InStream, CallInv
<1>9. QED
  BY <1>1, <1>2, <1>3, <1>4, <1>5, <1>6, <1>7, <1>8 DEF ClientStep

LEMMA HandlerCalls ==
  ASSUME TypeOK, NEW c \in Clients, ConnectionInv(c), HandlerStep(c)
  PROVE  ProgramInv(c)' /\ CallInv(c)'
<1> USE DEF srvVars, cliVars, ConnectionInv
<1>t. /\ toSrv \in [Clients -> Seq(1 .. MaxCalls)]
      /\ toCli \in [Clients -> Seq(Frames)]
      /\ serve \in [Clients -> ServeRecord]
      /\ client \in [Clients -> ClientRecord]
  BY DEF TypeOK, ServeRecord, ClientRecord, Pcs
<1>c. client' = client
  BY DEF HandlerStep, ReadRequest, HandlerReturns, Handle, SubscribeManager, Stream, Block, StreamEnds
<1>1. CASE ReadRequest(c)
  <2>1. /\ serve'[c].at = "handle" /\ serve'[c].req = Head(toSrv[c]) /\ serve[c].at = "read"
        /\ toSrv[c] # << >> /\ toSrv'[c] = Tail(toSrv[c]) /\ toCli' = toCli
    BY <1>1, <1>t DEF ReadRequest
  <2>2. ASSUME client[c].pc = "waiting", Program[c] = "doctor", ~client[c].expired
        PROVE  toCli[c] = << >> /\ toSrv[c] = <<client[c].calls>>
    BY <2>1, <2>2 DEF CallInv, Quiet
  <2>3. ASSUME client[c].pc = "waiting", Program[c] = "doctor", ~client[c].expired
        PROVE  Head(toSrv[c]) = client[c].calls /\ Tail(toSrv[c]) = << >>
    <3>1. toSrv[c] = <<client[c].calls>>
      BY <2>2, <2>3
    <3>2. QED
      BY <3>1
  <2>4. client[c].pc # "new"
    BY <2>1 DEF ProgramInv
  <2>5. ~(Program[c] = "doctor" /\ ~client[c].expired /\ client[c].pc = "idle")
    BY <2>1 DEF CallInv, Quiet
  <2>6. QED
    BY <1>c, <2>1, <2>2, <2>3, <2>4, <2>5 DEF ProgramInv, InStream, CallInv
<1>2. CASE HandlerReturns(c) \/ StreamEnds(c) \/ Block(c)
  <2>1. /\ serve'[c].at \in {"closed", "read", "blocked"} /\ toSrv' = toSrv /\ toCli' = toCli
        /\ \/ Closed(c) /\ serve'[c].at = "closed"
           \/ serve[c].at = "stream" /\ serve'[c].at \in {"read", "blocked"}
    BY <1>2, AtFacts DEF HandlerReturns, StreamEnds, Block
  <2>2. QED
    BY <1>c, <2>1 DEF ProgramInv, InStream, CallInv, Closed, Streams
<1>3. CASE Handle(c)
  <2>1. /\ serve'[c].at \in {"subscribe", "read"}
        /\ serve'[c].at = "subscribe" => Program[c] \in Streams
        /\ toSrv' = toSrv /\ serve[c].at = "handle"
    BY <1>3, AtFacts DEF Handle
  <2>2. client[c].pc # "new"
    BY <2>1 DEF ProgramInv
  <2>3. serve[c].req \in Nat
    BY <1>t, ConstantFacts DEF ServeRecord
  <2>4. ~Closed(c) => /\ Len(toCli'[c]) = Len(toCli[c]) + 1
                      /\ toCli'[c][Len(toCli[c]) + 1].n = serve[c].req
    BY <1>3, <2>3, WriteFacts DEF Handle
  <2>5. ASSUME client[c].pc = "waiting", Program[c] = "doctor", ~client[c].expired
        PROVE  /\ Len(toCli'[c]) = 1 /\ toCli'[c][1].n = client[c].calls
               /\ toSrv[c] = << >>
    <3>1. /\ toCli[c] = << >> /\ toSrv[c] = << >> /\ serve[c].req = client[c].calls
          /\ ~Closed(c)
      BY <2>1, <2>5 DEF CallInv, Quiet, Served, Closed
    <3>2. Len(toCli[c]) = 0
      BY <3>1
    <3>3. QED
      BY <2>4, <3>1, <3>2
  <2>6. ~(Program[c] = "doctor" /\ ~client[c].expired /\ client[c].pc = "idle")
    BY <2>1 DEF CallInv, Quiet
  <2>7. QED
    BY <1>c, <2>1, <2>2, <2>5, <2>6 DEF ProgramInv, InStream, CallInv
<1>4. CASE SubscribeManager(c)
  <2>1. /\ serve'[c].at = "stream" /\ serve[c].at = "subscribe"
        /\ toSrv' = toSrv /\ toCli' = toCli
    BY <1>4, AtFacts DEF SubscribeManager
  <2>2. QED
    BY <1>c, <2>1 DEF ProgramInv, InStream, CallInv, Streams
<1>5. CASE Stream(c)
  <2>1. /\ serve'[c].at \in {"stream", "read"} /\ InStream(c)
        /\ toSrv' = toSrv
    BY <1>5, AtFacts DEF Stream
  <2>2. QED
    BY <1>c, <2>1 DEF ProgramInv, InStream, CallInv, Streams
<1>6. QED
  BY <1>1, <1>2, <1>3, <1>4, <1>5 DEF HandlerStep

-----------------------------------------------------------------------------
(* A stream is faithful                                                    *)

LEMMA ConcatFacts ==
  ASSUME NEW s \in Seq(Nat), NEW t \in Seq(Nat)
  PROVE  /\ s \o t \in Seq(Nat) /\ Len(s \o t) = Len(s) + Len(t)
         /\ \A i \in 1 .. Len(s) + Len(t) : (s \o t)[i] = IF i <= Len(s) THEN s[i] ELSE t[i - Len(s)]
         /\ Len(s) \in Nat /\ Len(t) \in Nat
OBVIOUS

LEMMA SameSequence ==
  ASSUME NEW s \in Seq(Nat), NEW t \in Seq(Nat), Len(s) = Len(t),
         \A i \in 1 .. Len(s) : s[i] = t[i]
  PROVE  s = t
OBVIOUS

\* An element moves from the front of one part to the end of the part before.
LEMMA Shift ==
  ASSUME NEW s \in Seq(Nat), NEW t \in Seq(Nat), t # << >>
  PROVE  Append(s, Head(t)) \o Tail(t) = s \o t
<1>1. Head(t) \in Nat /\ Head(t) = t[1] /\ Tail(t) \in Seq(Nat) /\ Len(Tail(t)) = Len(t) - 1
        /\ (\A i \in 1 .. Len(t) - 1 : Tail(t)[i] = t[i + 1]) /\ Len(t) \in Nat \ {0}
  BY TailFacts
<1>2. Append(s, Head(t)) \in Seq(Nat) /\ Len(Append(s, Head(t))) = Len(s) + 1 /\ Len(s) \in Nat
        /\ (\A i \in 1 .. Len(s) : Append(s, Head(t))[i] = s[i])
        /\ Append(s, Head(t))[Len(s) + 1] = Head(t)
  BY <1>1, AppendFacts
<1>3. Append(s, Head(t)) \o Tail(t) \in Seq(Nat) /\ s \o t \in Seq(Nat)
  BY <1>1, <1>2, ConcatFacts
<1>4. Len(Append(s, Head(t)) \o Tail(t)) = Len(s) + Len(t) /\ Len(s \o t) = Len(s) + Len(t)
  BY <1>1, <1>2, ConcatFacts
<1>5. ASSUME NEW i \in 1 .. Len(s) + Len(t)
      PROVE  (Append(s, Head(t)) \o Tail(t))[i] = (s \o t)[i]
  <2>1. (s \o t)[i] = IF i <= Len(s) THEN s[i] ELSE t[i - Len(s)]
    BY ConcatFacts
  <2>2. (Append(s, Head(t)) \o Tail(t))[i]
          = IF i <= Len(s) + 1 THEN Append(s, Head(t))[i] ELSE Tail(t)[i - (Len(s) + 1)]
    BY <1>1, <1>2, ConcatFacts
  <2>3. CASE i <= Len(s)
    BY <1>2, <2>1, <2>2, <2>3
  <2>4. CASE i = Len(s) + 1
    BY <1>1, <1>2, <2>1, <2>2, <2>4
  <2>5. CASE i > Len(s) + 1
    <3>1. i - (Len(s) + 1) \in 1 .. Len(t) - 1 /\ i - (Len(s) + 1) + 1 = i - Len(s)
      BY <1>1, <1>2, <2>5
    <3>2. Tail(t)[i - (Len(s) + 1)] = t[i - Len(s)]
      BY <1>1, <3>1
    <3>3. QED
      BY <1>2, <2>1, <2>2, <2>5, <3>2
  <2>6. QED
    BY <1>1, <1>2, <2>3, <2>4, <2>5
<1>6. QED
  BY <1>3, <1>4, <1>5, SameSequence

LEMMA ConcatAppend ==
  ASSUME NEW s \in Seq(Nat), NEW t \in Seq(Nat), NEW x \in Nat
  PROVE  s \o Append(t, x) = Append(s \o t, x)
OBVIOUS

LEMMA WireFacts ==
  ASSUME NEW q \in Seq(Frames)
  PROVE  /\ Acks(q) \in {0, 1} /\ Acks(q) <= Len(q) /\ Len(q) \in Nat
         /\ OnTheWay(q) \in Seq(Nat) /\ Len(OnTheWay(q)) = Len(q) - Acks(q)
         /\ \A i \in 1 .. Len(q) - Acks(q) : OnTheWay(q)[i] = q[Acks(q) + i].n
<1>1. Acks(q) \in {0, 1} /\ Acks(q) <= Len(q) /\ Len(q) \in Nat
  <2>1. Len(q) \in Nat /\ (q # << >> => Len(q) >= 1)
    OBVIOUS
  <2>2. QED
    BY <2>1 DEF Acks
<1>2. ASSUME NEW i \in 1 .. Len(q) - Acks(q) PROVE q[Acks(q) + i].n \in Nat
  <2>1. Acks(q) + i \in 1 .. Len(q)
    BY <1>1
  <2>2. q[Acks(q) + i] \in Frames
    BY <2>1
  <2>3. QED
    BY <2>2 DEF Frames
<1>3. OnTheWay(q) \in [1 .. Len(q) - Acks(q) -> Nat] /\ Len(q) - Acks(q) \in Nat
  BY <1>1, <1>2 DEF OnTheWay
<1>4. OnTheWay(q) \in Seq(Nat) /\ Len(OnTheWay(q)) = Len(q) - Acks(q)
  BY <1>3
<1>5. \A i \in 1 .. Len(q) - Acks(q) : OnTheWay(q)[i] = q[Acks(q) + i].n
  BY DEF OnTheWay
<1>6. QED
  BY <1>1, <1>4, <1>5

\* A frame that is taken from a wire: an event is the first one under way.
LEMMA WireTail ==
  ASSUME NEW q \in Seq(Frames), q # << >>, OnlyEvents(q)
  PROVE  /\ OnlyEvents(Tail(q))
         /\ Head(q).kind = "event" =>
              /\ OnTheWay(q) # << >> /\ Head(OnTheWay(q)) = Head(q).n
              /\ OnTheWay(Tail(q)) = Tail(OnTheWay(q))
         /\ Head(q).kind # "event" => OnTheWay(Tail(q)) = OnTheWay(q)
<1>1. /\ Tail(q) \in Seq(Frames) /\ Len(Tail(q)) = Len(q) - 1
      /\ Head(q) = q[1]
      /\ \A i \in 1 .. Len(q) - 1 : Tail(q)[i] = q[i + 1]
      /\ Len(q) \in Nat \ {0}
  BY TailFacts
<1>2. OnlyEvents(Tail(q))
  BY <1>1 DEF OnlyEvents
<1>3. Acks(Tail(q)) = 0
  <2>1. SUFFICES ASSUME Tail(q) # << >> PROVE Head(Tail(q)).kind = "event"
    BY DEF Acks
  <2>2. Len(Tail(q)) \in Nat \ {0} /\ Head(Tail(q)) = Tail(q)[1]
    BY <1>1, <2>1, TailFacts
  <2>3. Head(Tail(q)) = q[2] /\ 2 \in 2 .. Len(q)
    BY <1>1, <2>2
  <2>4. QED
    BY <2>3 DEF OnlyEvents
<1>4. /\ OnTheWay(Tail(q)) \in Seq(Nat) /\ Len(OnTheWay(Tail(q))) = Len(q) - 1
      /\ \A i \in 1 .. Len(q) - 1 : OnTheWay(Tail(q))[i] = q[i + 1].n
  <2>1. OnTheWay(Tail(q)) \in Seq(Nat) /\ Len(OnTheWay(Tail(q))) = Len(q) - 1
    <3>1. Tail(q) \in Seq(Frames)
      BY <1>1
    <3>2. /\ OnTheWay(Tail(q)) \in Seq(Nat)
          /\ Len(OnTheWay(Tail(q))) = Len(Tail(q)) - Acks(Tail(q))
      BY <3>1, WireFacts
    <3>3. Len(Tail(q)) - Acks(Tail(q)) = Len(q) - 1
      BY <1>1, <1>3
    <3>4. QED
      BY <3>2, <3>3
  <2>2. ASSUME NEW i \in 1 .. Len(q) - 1 PROVE OnTheWay(Tail(q))[i] = q[i + 1].n
    <3>1. i \in 1 .. Len(Tail(q)) - Acks(Tail(q)) /\ Acks(Tail(q)) + i = i
      BY <1>1, <1>3
    <3>2. OnTheWay(Tail(q))[i] = Tail(q)[i].n
      BY <1>1, <3>1, WireFacts
    <3>3. QED
      BY <1>1, <3>2
  <2>3. QED
    BY <2>1, <2>2
<1>5. CASE Head(q).kind = "event"
  <2>1. /\ OnTheWay(q) \in Seq(Nat) /\ Len(OnTheWay(q)) = Len(q)
        /\ \A i \in 1 .. Len(q) : OnTheWay(q)[i] = q[i].n
    <3>1. Acks(q) = 0
      BY <1>5 DEF Acks
    <3>2. QED
      BY <1>1, <3>1, WireFacts
  <2>2. OnTheWay(q) # << >>
    BY <1>1, <2>1
  <2>3. /\ Head(OnTheWay(q)) = OnTheWay(q)[1]
        /\ Tail(OnTheWay(q)) \in Seq(Nat) /\ Len(Tail(OnTheWay(q))) = Len(q) - 1
        /\ \A i \in 1 .. Len(q) - 1 : Tail(OnTheWay(q))[i] = OnTheWay(q)[i + 1]
    BY <2>1, <2>2, TailFacts
  <2>4. \A i \in 1 .. Len(q) - 1 : Tail(OnTheWay(q))[i] = OnTheWay(Tail(q))[i]
    BY <1>1, <1>4, <2>1, <2>3
  <2>5. Tail(OnTheWay(q)) = OnTheWay(Tail(q))
    BY <1>4, <2>3, <2>4, SameSequence
  <2>6. QED
    <3>1. Head(OnTheWay(q)) = Head(q).n
      BY <1>1, <2>1, <2>3
    <3>2. QED
      BY <1>2, <1>5, <2>2, <2>5, <3>1
<1>6. CASE Head(q).kind # "event"
  <2>1. /\ OnTheWay(q) \in Seq(Nat) /\ Len(OnTheWay(q)) = Len(q) - 1
        /\ \A i \in 1 .. Len(q) - 1 : OnTheWay(q)[i] = q[1 + i].n
    <3>1. Acks(q) = 1
      BY <1>6 DEF Acks
    <3>2. QED
      BY <3>1, WireFacts
  <2>2. \A i \in 1 .. Len(q) - 1 : OnTheWay(q)[i] = OnTheWay(Tail(q))[i]
    BY <1>1, <1>4, <2>1
  <2>3. OnTheWay(Tail(q)) = OnTheWay(q)
    BY <1>4, <2>1, <2>2, SameSequence
  <2>4. QED
    BY <1>2, <1>6, <2>3
<1>7. QED
  BY <1>5, <1>6

\* An event that is written to a wire is the last one under way.
LEMMA WireAppend ==
  ASSUME NEW q \in Seq(Frames), OnlyEvents(q), NEW f \in Frames, f.kind = "event"
  PROVE  OnlyEvents(Append(q, f)) /\ OnTheWay(Append(q, f)) = Append(OnTheWay(q), f.n)
<1>1. /\ Append(q, f) \in Seq(Frames) /\ Len(Append(q, f)) = Len(q) + 1
      /\ \A i \in 1 .. Len(q) : Append(q, f)[i] = q[i]
      /\ Append(q, f)[Len(q) + 1] = f
      /\ Len(q) \in Nat
  BY AppendFacts
<1>2. OnlyEvents(Append(q, f))
  BY <1>1 DEF OnlyEvents
<1>3. Append(q, f) # << >> /\ Head(Append(q, f)) = Append(q, f)[1]
  BY <1>1, TailFacts
<1>4. Acks(Append(q, f)) = Acks(q)
  <2>1. CASE q = << >>
    BY <1>1, <1>3, <2>1 DEF Acks
  <2>2. CASE q # << >>
    <3>1. Head(q) = q[1] /\ Len(q) # 0
      BY <2>2, TailFacts
    <3>2. Head(Append(q, f)) = Head(q)
      BY <1>1, <1>3, <3>1
    <3>3. QED
      BY <1>3, <2>2, <3>2 DEF Acks
  <2>3. QED
    BY <2>1, <2>2
<1>5. /\ Acks(q) \in {0, 1} /\ Acks(q) <= Len(q)
      /\ OnTheWay(q) \in Seq(Nat) /\ Len(OnTheWay(q)) = Len(q) - Acks(q)
      /\ \A i \in 1 .. Len(q) - Acks(q) : OnTheWay(q)[i] = q[Acks(q) + i].n
  BY WireFacts
<1>6. /\ OnTheWay(Append(q, f)) \in Seq(Nat)
      /\ Len(OnTheWay(Append(q, f))) = Len(q) + 1 - Acks(q)
      /\ \A i \in 1 .. Len(q) + 1 - Acks(q) : OnTheWay(Append(q, f))[i] = Append(q, f)[Acks(q) + i].n
  <2>1. /\ OnTheWay(Append(q, f)) \in Seq(Nat)
        /\ Len(OnTheWay(Append(q, f))) = Len(Append(q, f)) - Acks(q)
        /\ \A i \in 1 .. Len(Append(q, f)) - Acks(q) :
             OnTheWay(Append(q, f))[i] = Append(q, f)[Acks(q) + i].n
    <3>1. Append(q, f) \in Seq(Frames)
      BY <1>1
    <3>2. /\ OnTheWay(Append(q, f)) \in Seq(Nat)
          /\ Len(OnTheWay(Append(q, f))) = Len(Append(q, f)) - Acks(Append(q, f))
          /\ \A i \in 1 .. Len(Append(q, f)) - Acks(Append(q, f)) :
               OnTheWay(Append(q, f))[i] = Append(q, f)[Acks(Append(q, f)) + i].n
      BY <3>1, WireFacts
    <3>3. QED
      BY <1>4, <3>2
  <2>2. Len(Append(q, f)) - Acks(q) = Len(q) + 1 - Acks(q)
    BY <1>1, <1>5
  <2>3. QED
    BY <2>1, <2>2
<1>7. f.n \in Nat
  BY DEF Frames
<1>8. /\ Append(OnTheWay(q), f.n) \in Seq(Nat)
      /\ Len(Append(OnTheWay(q), f.n)) = Len(q) - Acks(q) + 1
      /\ \A i \in 1 .. Len(q) - Acks(q) : Append(OnTheWay(q), f.n)[i] = OnTheWay(q)[i]
      /\ Append(OnTheWay(q), f.n)[Len(q) - Acks(q) + 1] = f.n
  BY <1>5, <1>7, AppendFacts
<1>9. ASSUME NEW i \in 1 .. Len(q) + 1 - Acks(q)
      PROVE  OnTheWay(Append(q, f))[i] = Append(OnTheWay(q), f.n)[i]
  <2>1. CASE i <= Len(q) - Acks(q)
    <3>1. Acks(q) + i \in 1 .. Len(q) /\ i \in 1 .. Len(q) - Acks(q)
      BY <1>1, <1>5, <2>1
    <3>2. QED
      BY <1>1, <1>5, <1>6, <1>8, <3>1
  <2>2. CASE i = Len(q) - Acks(q) + 1
    <3>1. Acks(q) + i = Len(q) + 1
      BY <1>1, <1>5, <2>2
    <3>2. QED
      BY <1>1, <1>6, <1>8, <2>2, <3>1
  <2>3. QED
    BY <1>1, <1>5, <2>1, <2>2
<1>10. Len(OnTheWay(Append(q, f))) = Len(Append(OnTheWay(q), f.n))
  BY <1>1, <1>5, <1>6, <1>8
<1>11. OnTheWay(Append(q, f)) = Append(OnTheWay(q), f.n)
  BY <1>6, <1>8, <1>9, <1>10, SameSequence
<1>12. QED
  BY <1>2, <1>11

LEMMA EventNumbers ==
  ASSUME NEW q \in Seq(1 .. MaxEvents)
  PROVE  q \in Seq(Nat)
BY ConstantFacts

LEMMA PipelineType ==
  ASSUME TypeOK, NEW c \in Clients
  PROVE  /\ shown[c] \in Seq(Nat) /\ chan[c] \in Seq(Nat) /\ OnTheWay(toCli[c]) \in Seq(Nat)
         /\ shown[c] \o OnTheWay(toCli[c]) \in Seq(Nat)
         /\ Pipeline(c) \in Seq(Nat)
<1>1. shown[c] \in Seq(1 .. MaxEvents) /\ chan[c] \in Seq(1 .. MaxEvents) /\ toCli[c] \in Seq(Frames)
  BY DEF TypeOK
<1>2. shown[c] \in Seq(Nat) /\ chan[c] \in Seq(Nat)
  BY <1>1, EventNumbers
<1>3. OnTheWay(toCli[c]) \in Seq(Nat)
  BY <1>1, WireFacts
<1>4. shown[c] \o OnTheWay(toCli[c]) \in Seq(Nat)
  BY <1>2, <1>3, ConcatFacts
<1>5. QED
  BY <1>2, <1>3, <1>4, ConcatFacts DEF Pipeline

\* What a program takes from the wire it shows.
LEMMA ReceiveKeeps ==
  ASSUME TypeOK, NEW c \in Clients, Receive(c), OnlyEvents(toCli[c])
  PROVE  Pipeline(c)' = Pipeline(c) /\ OnlyEvents(toCli'[c])
<1>1. toCli[c] \in Seq(Frames) /\ toCli[c] # << >> /\ toCli'[c] = Tail(toCli[c]) /\ chan' = chan
  BY DEF Receive, TypeOK, srvVars
<1>2. shown \in [Clients -> Seq(1 .. MaxEvents)]
  BY DEF TypeOK
<1>3. /\ OnlyEvents(Tail(toCli[c]))
      /\ Head(toCli[c]).kind = "event" =>
           /\ OnTheWay(toCli[c]) # << >> /\ Head(OnTheWay(toCli[c])) = Head(toCli[c]).n
           /\ OnTheWay(Tail(toCli[c])) = Tail(OnTheWay(toCli[c]))
      /\ Head(toCli[c]).kind # "event" => OnTheWay(Tail(toCli[c])) = OnTheWay(toCli[c])
  BY <1>1, WireTail
<1>4. shown'[c] \o OnTheWay(toCli'[c]) = shown[c] \o OnTheWay(toCli[c])
  <2>1. CASE Head(toCli[c]).kind = "event"
    <3>1. shown'[c] = Append(shown[c], Head(OnTheWay(toCli[c])))
      BY <1>2, <1>3, <2>1 DEF Receive
    <3>2. Append(shown[c], Head(OnTheWay(toCli[c]))) \o Tail(OnTheWay(toCli[c]))
            = shown[c] \o OnTheWay(toCli[c])
      BY <1>3, <2>1, PipelineType, Shift
    <3>3. QED
      BY <1>1, <1>3, <2>1, <3>1, <3>2
  <2>2. CASE Head(toCli[c]).kind # "event"
    <3>1. shown' = shown
      BY <2>2 DEF Receive
    <3>2. QED
      BY <1>1, <1>3, <2>2, <3>1
  <2>3. QED
    BY <2>1, <2>2
<1>5. QED
  BY <1>1, <1>3, <1>4 DEF Pipeline

\* What a stream takes from its channel it writes to the wire.
LEMMA StreamKeeps ==
  ASSUME TypeOK, NEW c \in Clients, Stream(c), ~Closed(c), OnlyEvents(toCli[c])
  PROVE  Pipeline(c)' = Pipeline(c) /\ OnlyEvents(toCli'[c])
<1>1. /\ toCli \in [Clients -> Seq(Frames)] /\ chan \in [Clients -> Seq(1 .. MaxEvents)]
      /\ chan[c] # << >> /\ chan'[c] = Tail(chan[c]) /\ shown' = shown
      /\ Write(c, "event", Head(chan[c]))
  BY DEF Stream, TypeOK, cliVars
<1>2. Head(chan[c]) \in Nat
  BY <1>1, PipelineType, TailFacts
<1>3. PICK f \in Frames : f = [kind |-> "event", n |-> Head(chan[c])]
  BY <1>2 DEF Frames
<1>4. f.kind = "event" /\ f.n = Head(chan[c]) /\ toCli'[c] = Append(toCli[c], f)
  BY <1>1, <1>3 DEF Write
<1>5. OnlyEvents(Append(toCli[c], f))
      /\ OnTheWay(Append(toCli[c], f)) = Append(OnTheWay(toCli[c]), Head(chan[c]))
  BY <1>1, <1>4, WireAppend
<1>6. shown[c] \o Append(OnTheWay(toCli[c]), Head(chan[c]))
        = Append(shown[c] \o OnTheWay(toCli[c]), Head(chan[c]))
  BY <1>2, PipelineType, ConcatAppend
<1>7. Append(shown[c] \o OnTheWay(toCli[c]), Head(chan[c])) \o Tail(chan[c])
        = (shown[c] \o OnTheWay(toCli[c])) \o chan[c]
  BY <1>1, PipelineType, Shift
<1>8. QED
  BY <1>1, <1>4, <1>5, <1>6, <1>7 DEF Pipeline

LEMMA FaithfulStays ==
  ASSUME NEW c \in Clients, Faithful(c), Pipeline(c)' = Pipeline(c), pub' = pub,
         since'[c] = since[c], c \in lost' <=> c \in lost
  PROVE  Faithful(c)'
BY DEF Faithful

\* A further event at the end of an increasing sequence.
LEMMA Increasing ==
  ASSUME NEW q \in Seq(Nat), NEW p \in Nat,
         \A i, j \in DOMAIN q : i < j => q[i] < q[j],
         \A i \in DOMAIN q : q[i] <= p
  PROVE  /\ \A i, j \in DOMAIN Append(q, p + 1) : i < j => Append(q, p + 1)[i] < Append(q, p + 1)[j]
         /\ \A i \in DOMAIN Append(q, p + 1) : Append(q, p + 1)[i] <= p + 1
<1>1. /\ Append(q, p + 1) \in Seq(Nat) /\ Len(Append(q, p + 1)) = Len(q) + 1
      /\ \A i \in 1 .. Len(q) : Append(q, p + 1)[i] = q[i]
      /\ Append(q, p + 1)[Len(q) + 1] = p + 1
      /\ Len(q) \in Nat
  BY AppendFacts
<1>2. DOMAIN q = 1 .. Len(q) /\ DOMAIN Append(q, p + 1) = 1 .. Len(q) + 1
  BY <1>1
<1>3. \A i \in 1 .. Len(q) : q[i] \in Nat
  OBVIOUS
<1>4. \A i \in 1 .. Len(q) + 1 : i \in 1 .. Len(q) \/ i = Len(q) + 1
  BY <1>1
<1>5. ASSUME NEW i \in 1 .. Len(q) + 1 PROVE Append(q, p + 1)[i] <= p + 1
  <2>1. CASE i \in 1 .. Len(q)
    <3>1. Append(q, p + 1)[i] = q[i] /\ q[i] \in Nat /\ q[i] <= p
      BY <1>1, <1>2, <1>3, <2>1
    <3>2. QED
      BY <3>1
  <2>2. CASE i = Len(q) + 1
    BY <1>1, <2>2
  <2>3. QED
    BY <1>4, <2>1, <2>2
<1>6. ASSUME NEW i \in 1 .. Len(q) + 1, NEW j \in 1 .. Len(q) + 1, i < j
      PROVE  Append(q, p + 1)[i] < Append(q, p + 1)[j]
  <2>1. i \in 1 .. Len(q)
    BY <1>1, <1>6
  <2>2. CASE j \in 1 .. Len(q)
    BY <1>1, <1>2, <1>6, <2>1, <2>2
  <2>3. CASE j = Len(q) + 1
    <3>1. q[i] <= p /\ q[i] \in Nat
      BY <1>2, <1>3, <2>1
    <3>2. QED
      BY <1>1, <2>1, <2>3, <3>1
  <2>4. QED
    BY <1>4, <2>2, <2>3
<1>7. QED
  BY <1>2, <1>5, <1>6

LEMMA NothingLeftOut ==
  ASSUME NEW s \in Nat, NEW p \in Nat, s <= p, NEW q \in Seq(Nat),
         q = [i \in 1 .. p - s |-> s + i]
  PROVE  Append(q, p + 1) = [i \in 1 .. (p + 1) - s |-> s + i]
<1>1. Len(q) = p - s /\ p - s \in Nat
  <2>1. DOMAIN q = 1 .. p - s /\ p - s \in Nat
    OBVIOUS
  <2>2. QED
    BY <2>1
<1>2. /\ Append(q, p + 1) \in Seq(Nat) /\ Len(Append(q, p + 1)) = Len(q) + 1
      /\ \A i \in 1 .. Len(q) : Append(q, p + 1)[i] = q[i]
      /\ Append(q, p + 1)[Len(q) + 1] = p + 1
  BY AppendFacts
<1>3. [i \in 1 .. (p + 1) - s |-> s + i] \in Seq(Nat)
      /\ Len([i \in 1 .. (p + 1) - s |-> s + i]) = (p + 1) - s
  BY <1>1
<1>4. ASSUME NEW i \in 1 .. Len(q) + 1
      PROVE  Append(q, p + 1)[i] = [k \in 1 .. (p + 1) - s |-> s + k][i]
  <2>1. i \in 1 .. (p + 1) - s
    BY <1>1
  <2>2. CASE i \in 1 .. Len(q)
    <3>1. q[i] = s + i
      BY <1>1, <2>2
    <3>2. QED
      BY <1>2, <2>1, <2>2, <3>1
  <2>3. CASE i = Len(q) + 1
    <3>1. s + i = p + 1
      BY <1>1, <2>3
    <3>2. QED
      BY <1>2, <2>1, <2>3, <3>1
  <2>4. QED
    BY <1>1, <2>2, <2>3
<1>5. Len(q) + 1 = (p + 1) - s
  BY <1>1
<1>6. QED
  BY <1>1, <1>2, <1>3, <1>4, <1>5, SameSequence

\* An event that is published enters the pipelines of the subscribers, or is
\* lost to them.
LEMMA PublishKeeps ==
  ASSUME TypeOK, NEW c \in Clients, Publish, c \in subs, Faithful(c)
  PROVE  Faithful(c)'
<1>1. /\ pub \in Nat /\ pub' = pub + 1 /\ since' = since /\ since[c] \in Nat
      /\ shown' = shown /\ toCli' = toCli
  BY ConstantFacts DEF Publish, TypeOK, cliVars
<1>2. Pipeline(c) \in Seq(Nat) /\ DOMAIN Pipeline(c) = 1 .. Len(Pipeline(c))
      /\ \A i \in 1 .. Len(Pipeline(c)) : Pipeline(c)[i] \in Nat
  <2>1. Pipeline(c) \in Seq(Nat)
    BY PipelineType
  <2>2. QED
    BY <2>1
<1>3. Len(chan[c]) \in Nat /\ Len(chan[c]) <= Room(c) /\ Room(c) \in Nat
  BY RoomFacts DEF TypeOK
<1>4. CASE Len(chan[c]) = Room(c)
  <2>1. chan'[c] = chan[c] /\ c \in lost'
    BY <1>3, <1>4, ConstantFacts DEF Publish
  <2>2. Pipeline(c)' = Pipeline(c)
    BY <1>1, <2>1, PipelineStays
  <2>3. \A i \in DOMAIN Pipeline(c) : Pipeline(c)[i] <= pub + 1
    BY <1>1, <1>2 DEF Faithful
  <2>4. since[c] <= pub + 1
    BY <1>1 DEF Faithful
  <2>5. QED
    BY <1>1, <2>1, <2>2, <2>3, <2>4 DEF Faithful
<1>5. CASE Len(chan[c]) # Room(c)
  <2>1. chan'[c] = Append(chan[c], pub + 1) /\ (c \in lost' <=> c \in lost)
    BY <1>3, <1>5, ConstantFacts DEF Publish
  <2>2. Pipeline(c)' = Append(Pipeline(c), pub + 1)
    <3>1. shown[c] \o OnTheWay(toCli[c]) \in Seq(Nat) /\ chan[c] \in Seq(Nat) /\ pub + 1 \in Nat
      BY <1>1, PipelineType
    <3>2. (shown[c] \o OnTheWay(toCli[c])) \o Append(chan[c], pub + 1)
            = Append((shown[c] \o OnTheWay(toCli[c])) \o chan[c], pub + 1)
      BY <3>1, ConcatAppend
    <3>3. QED
      BY <1>1, <2>1, <3>2 DEF Pipeline
  <2>3. /\ \A i, j \in DOMAIN Append(Pipeline(c), pub + 1) :
             i < j => Append(Pipeline(c), pub + 1)[i] < Append(Pipeline(c), pub + 1)[j]
        /\ \A i \in DOMAIN Append(Pipeline(c), pub + 1) : Append(Pipeline(c), pub + 1)[i] <= pub + 1
    BY <1>1, <1>2, Increasing DEF Faithful
  <2>4. c \notin lost =>
          Append(Pipeline(c), pub + 1) = [i \in 1 .. (pub + 1) - since[c] |-> since[c] + i]
    BY <1>1, <1>2, NothingLeftOut DEF Faithful
  <2>5. since[c] <= pub + 1
    BY <1>1 DEF Faithful
  <2>6. QED
    BY <1>1, <2>1, <2>2, <2>3, <2>4, <2>5 DEF Faithful
<1>6. QED
  BY <1>4, <1>5

\* The first frame of an empty wire or of a lone answer.
LEMMA LoneAnswer ==
  ASSUME NEW q \in Seq(Frames), Len(q) = Acks(q)
  PROVE  /\ OnlyEvents(q) /\ OnTheWay(q) = << >>
         /\ q # << >> => Head(q).kind # "event" /\ Tail(q) = << >>
<1>1. Acks(q) \in {0, 1} /\ OnTheWay(q) \in Seq(Nat) /\ Len(OnTheWay(q)) = 0
  <2>1. Len(OnTheWay(q)) = Len(q) - Acks(q) /\ Acks(q) \in {0, 1} /\ OnTheWay(q) \in Seq(Nat)
    BY WireFacts
  <2>2. QED
    BY <2>1
<1>2. OnlyEvents(q)
  BY <1>1 DEF OnlyEvents
<1>3. OnTheWay(q) = << >>
  BY <1>1
<1>4. q # << >> => Head(q).kind # "event" /\ Tail(q) = << >>
  <2>1. SUFFICES ASSUME q # << >> PROVE Head(q).kind # "event" /\ Tail(q) = << >>
    OBVIOUS
  <2>2. Len(q) \in Nat \ {0}
    BY <2>1, TailFacts
  <2>3. Len(q) = 1 /\ Acks(q) = 1
    BY <1>1, <2>2
  <2>4. Tail(q) = << >>
    BY <2>3, OneElement
  <2>5. QED
    BY <2>3, <2>4 DEF Acks
<1>5. QED
  BY <1>2, <1>3, <1>4

\* Nothing is on the way to a program that has just subscribed.
LEMMA FreshIsFaithful ==
  ASSUME TypeOK, NEW c \in Clients, Fresh(c), Len(toCli[c]) = Acks(toCli[c]),
         SubscribeManager(c)
  PROVE  Faithful(c)' /\ OnlyEvents(toCli'[c])
<1>1. /\ toCli' = toCli /\ shown' = shown /\ chan' = chan /\ pub' = pub
      /\ since'[c] = pub /\ pub \in Nat /\ toCli[c] \in Seq(Frames)
  BY ConstantFacts DEF SubscribeManager, cliVars, TypeOK
<1>2. OnlyEvents(toCli[c]) /\ OnTheWay(toCli[c]) = << >>
  BY <1>1, LoneAnswer
<1>3. shown[c] = << >> /\ chan[c] = << >>
  BY DEF Fresh
<1>4. Pipeline(c)' = << >>
  BY <1>1, <1>2, <1>3 DEF Pipeline
<1>5. [i \in 1 .. pub - pub |-> pub + i] = << >>
  BY <1>1
<1>6. Faithful(c)'
  BY <1>1, <1>4, <1>5 DEF Faithful
<1>7. QED
  BY <1>1, <1>2, <1>6

LEMMA ClientStreams ==
  ASSUME TypeOK, NEW c \in Clients, ConnectionInv(c), ClientStep(c) \/ Close(c)
  PROVE  StreamInv(c)'
<1> USE DEF srvVars, cliVars, ConnectionInv
<1> SUFFICES ASSUME Program[c] \in Streams, ~Closed(c)', server' \in {"up", "cancelled"}
             PROVE  StreamInv(c)'
  BY DEF StreamInv
<1>t. /\ client \in [Clients -> ClientRecord]
      /\ toSrv \in [Clients -> Seq(1 .. MaxCalls)]
      /\ toCli \in [Clients -> Seq(Frames)]
      /\ serve \in [Clients -> ServeRecord]
  BY DEF TypeOK, ClientRecord, Pcs, ServeRecord
<1>s. server' = server
  BY DEF ClientStep, Connect, Call, Answer, Expire, Subscribe, Receive, ReadEnd, Close
<1>1. CASE Connect(c)
  <2>1. /\ client'[c].pc = "idle" /\ serve'[c].at = "read" /\ client[c].pc = "new"
        /\ UNCHANGED <<server, toSrv, toCli, chan, subs, pub, since, lost, shown>>
    BY <1>1, <1>t, BecomeFacts DEF Connect, Pcs, Results, ServeRecord, Closed
  <2>2. toSrv[c] = << >> /\ toCli[c] = << >> /\ Fresh(c)
    BY <1>s, <2>1 DEF StreamInv, Closed
  <2>3. QED
    BY <2>1, <2>2 DEF StreamInv, Fresh
<1>2. CASE Call(c) \/ Answer(c) \/ Expire(c)
  BY <1>2 DEF Call, Answer, Expire, ProgramInv, Streams
<1>3. CASE Subscribe(c)
  <2>1. /\ client'[c].pc = "streaming" /\ client[c].pc = "idle"
        /\ UNCHANGED <<server, toCli, serve, chan, subs, pub, since, lost, shown>>
    BY <1>3, <1>t DEF Subscribe, ClientRecord
  <2>2. toSrv[c] = << >> /\ toCli[c] = << >> /\ Fresh(c) /\ serve[c].at = "read"
    BY <1>s, <2>1 DEF StreamInv, Closed
  <2>3. toSrv'[c] = <<1>>
    <3>1. toSrv'[c] = Append(toSrv[c], 1)
      BY <1>3, <1>t, <2>2 DEF Subscribe, Served
    <3>2. QED
      BY <2>2, <3>1
  <2>4. QED
    BY <2>1, <2>2, <2>3 DEF StreamInv, Fresh
<1>4. CASE Receive(c)
  <2>1. /\ client[c].pc = "streaming" /\ toCli[c] # << >> /\ toCli'[c] = Tail(toCli[c])
        /\ UNCHANGED <<server, client, toSrv, serve, chan, subs, pub, since, lost>>
    BY <1>4, <1>t DEF Receive
  <2>2. CASE serve[c].at = "subscribe" /\ toSrv[c] = << >> /\ Fresh(c)
             /\ Len(toCli[c]) = Acks(toCli[c])
    <3>1. Head(toCli[c]).kind # "event" /\ Tail(toCli[c]) = << >>
      BY <1>t, <2>1, <2>2, LoneAnswer
    <3>2. shown' = shown /\ toCli'[c] = << >>
      BY <1>4, <2>1, <3>1 DEF Receive
    <3>3. Len(toCli'[c]) = Acks(toCli'[c])
      BY <3>2 DEF Acks
    <3>4. QED
      BY <2>1, <2>2, <3>2, <3>3 DEF StreamInv, Fresh
  <2>3. CASE Streaming(c)
    <3>1. Pipeline(c)' = Pipeline(c) /\ OnlyEvents(toCli'[c])
      BY <1>4, <2>3, ReceiveKeeps DEF Streaming, InStream
    <3>2. Faithful(c)'
      BY <2>1, <2>3, <3>1, FaithfulStays DEF Streaming, InStream
    <3>3. Streaming(c)'
      BY <2>1, <2>3, <3>1, <3>2 DEF Streaming, InStream
    <3>4. QED
      BY <2>1, <3>3 DEF StreamInv
  <2>4. CASE /\ serve[c].at = "read" /\ toSrv[c] = << >>
             /\ server = "cancelled" \/ Program[c] = "logs"
    BY <2>1, <2>4 DEF StreamInv
  <2>5. QED
    BY <1>s, <2>1, <2>2, <2>3, <2>4 DEF StreamInv, Closed
<1>5. CASE ReadEnd(c)
  <2>1. client'[c].pc = "closed"
    BY <1>5, BecomeFacts DEF ReadEnd, Pcs, Results
  <2>2. QED
    BY <2>1 DEF Closed
<1>6. CASE Close(c)
  <2>1. client'[c].pc = "closed"
    BY <1>6, <1>t DEF Close, ClientRecord
  <2>2. QED
    BY <2>1 DEF Closed
<1>7. QED
  BY <1>1, <1>2, <1>3, <1>4, <1>5, <1>6 DEF ClientStep

LEMMA HandlerStreams ==
  ASSUME TypeOK, NEW c \in Clients, ConnectionInv(c), HandlerStep(c)
  PROVE  StreamInv(c)'
<1> USE DEF srvVars, cliVars, ConnectionInv
<1>c. client' = client /\ server' = server /\ pub' = pub /\ shown' = shown
  BY DEF HandlerStep, ReadRequest, HandlerReturns, Handle, SubscribeManager, Stream, Block, StreamEnds
<1> SUFFICES ASSUME Program[c] \in Streams, ~Closed(c), server \in {"up", "cancelled"}
             PROVE  StreamInv(c)'
  BY <1>c DEF StreamInv, Closed
<1>t. /\ toSrv \in [Clients -> Seq(1 .. MaxCalls)]
      /\ toCli \in [Clients -> Seq(Frames)]
      /\ serve \in [Clients -> ServeRecord]
      /\ client \in [Clients -> ClientRecord]
  BY DEF TypeOK, ServeRecord, ClientRecord, Pcs
<1>p. client[c].pc \in {"streaming", "deaf"} \/ (serve[c].at \in {"none", "read"} /\ toSrv[c] = << >>)
  BY <1>t DEF StreamInv, ProgramInv, InStream, Closed, Streams, ClientRecord, Pcs
<1>1. CASE ReadRequest(c)
  <2>1. /\ serve'[c].at = "handle" /\ serve[c].at = "read" /\ toSrv[c] # << >>
        /\ toSrv'[c] = Tail(toSrv[c]) /\ client[c].pc \in {"streaming", "deaf"}
        /\ UNCHANGED <<server, client, shown, toCli, chan, subs, pub, since, lost>>
    BY <1>1, <1>t, <1>p DEF ReadRequest
  <2>2. toSrv[c] = <<1>> /\ toCli[c] = << >> /\ Fresh(c)
    BY <2>1 DEF StreamInv, Streaming, InStream
  <2>3. toSrv'[c] = << >>
    BY <2>1, <2>2
  <2>4. QED
    BY <2>1, <2>2, <2>3 DEF StreamInv, Fresh
<1>2. CASE HandlerReturns(c)
  BY <1>2 DEF HandlerReturns
<1>3. CASE StreamEnds(c)
  <2>1. /\ serve'[c].at = "read" /\ serve[c].at = "stream" /\ server = "cancelled"
        /\ client[c].pc \in {"streaming", "deaf"} /\ UNCHANGED <<server, client, toSrv>>
    BY <1>3, <1>p, AtFacts DEF StreamEnds
  <2>2. toSrv[c] = << >>
    BY <2>1 DEF StreamInv, Streaming, InStream
  <2>3. QED
    BY <2>1, <2>2 DEF StreamInv
<1>4. CASE Handle(c)
  <2>1. /\ serve[c].at = "handle" /\ client[c].pc \in {"streaming", "deaf"}
        /\ UNCHANGED <<server, client, shown, toSrv, chan, subs, pub, since, lost>>
    BY <1>4, <1>p DEF Handle
  <2>2. toSrv[c] = << >> /\ toCli[c] = << >> /\ Fresh(c)
    BY <2>1 DEF StreamInv, Streaming, InStream
  <2>3. CASE ParamsDecode(c)
    <3>1. serve'[c].at = "subscribe"
      BY <1>4, <2>3, AtFacts DEF Handle
    <3>2. serve[c].req \in Nat
      BY <1>t, ConstantFacts DEF ServeRecord
    <3>3. [kind |-> "ok", n |-> serve[c].req] \in Frames
      BY <3>2 DEF Frames
    <3>4. toCli'[c] = Append(toCli[c], [kind |-> "ok", n |-> serve[c].req])
      BY <1>4, <1>t, <2>3 DEF Handle, Write
    <3>5. toCli'[c] = <<[kind |-> "ok", n |-> serve[c].req]>>
      BY <2>2, <3>4
    <3>6. Len(toCli'[c]) = Acks(toCli'[c])
      BY <3>5 DEF Acks
    <3>7. QED
      BY <2>1, <2>2, <3>1, <3>6 DEF StreamInv, Fresh
  <2>4. CASE ~ParamsDecode(c)
    <3>1. serve'[c].at = "read" /\ Program[c] = "logs"
      BY <1>4, <2>4, AtFacts DEF Handle, ParamsDecode
    <3>2. QED
      BY <2>1, <2>2, <3>1 DEF StreamInv
  <2>5. QED
    BY <2>3, <2>4
<1>5. CASE SubscribeManager(c)
  <2>1. /\ serve[c].at = "subscribe" /\ serve'[c].at = "stream" /\ client[c].pc \in {"streaming", "deaf"}
        /\ c \in subs' /\ UNCHANGED <<server, client, toSrv>>
    BY <1>5, <1>p, AtFacts DEF SubscribeManager
  <2>2. toSrv[c] = << >> /\ Fresh(c) /\ Len(toCli[c]) = Acks(toCli[c])
    BY <2>1 DEF StreamInv, Streaming, InStream
  <2>3. Faithful(c)' /\ OnlyEvents(toCli'[c])
    BY <1>5, <2>2, FreshIsFaithful
  <2>4. Streaming(c)'
    BY <2>1, <2>2, <2>3 DEF Streaming, InStream
  <2>5. QED
    BY <2>1, <2>4 DEF StreamInv
<1>6. CASE Stream(c)
  <2>1. /\ InStream(c) /\ serve'[c].at = "stream" /\ client[c].pc \in {"streaming", "deaf"}
        /\ UNCHANGED <<server, client, toSrv, subs, pub, since, lost>>
    BY <1>6, <1>p, AtFacts DEF Stream, InStream
  <2>2. Streaming(c)
    BY <2>1 DEF StreamInv, InStream
  <2>3. Pipeline(c)' = Pipeline(c) /\ OnlyEvents(toCli'[c])
    BY <1>6, <2>2, StreamKeeps DEF Streaming
  <2>4. Faithful(c)'
    BY <2>1, <2>2, <2>3, FaithfulStays DEF Streaming
  <2>5. Streaming(c)'
    BY <2>1, <2>2, <2>3, <2>4 DEF Streaming, InStream
  <2>6. QED
    BY <2>1, <2>5 DEF StreamInv
<1>7. CASE Block(c)
  <2>1. /\ serve[c].at = "stream" /\ serve'[c].at = "blocked" /\ client[c].pc \in {"streaming", "deaf"}
        /\ UNCHANGED <<server, client, shown, toSrv, toCli, chan, subs, pub, since, lost>>
    BY <1>7, <1>p, AtFacts DEF Block
  <2>2. Streaming(c)
    BY <2>1 DEF StreamInv
  <2>3. Pipeline(c)' = Pipeline(c)
    BY <2>1, PipelineStays
  <2>4. Faithful(c)'
    BY <2>1, <2>2, <2>3, FaithfulStays DEF Streaming
  <2>5. Streaming(c)'
    BY <2>1, <2>2, <2>4 DEF Streaming, InStream
  <2>6. QED
    BY <2>1, <2>5 DEF StreamInv
<1>8. QED
  BY <1>1, <1>2, <1>3, <1>4, <1>5, <1>6, <1>7 DEF HandlerStep

\* The end of a stream's hour changes only what its program does.
LEMMA IdleKeeps ==
  ASSUME TypeOK, NEW c \in Clients, ConnectionInv(c), IdleOut(c)
  PROVE  TypeOK' /\ ConnectionInv(c)'
<1>1. /\ client \in [Clients -> ClientRecord]
      /\ client[c].pc = "streaming"
      /\ UNCHANGED <<server, toSrv, toCli, serve, chan, subs, since, lost, pub, shown>>
  BY DEF TypeOK, ClientRecord, Pcs, IdleOut, srvVars
<1>2. /\ client' \in [Clients -> ClientRecord]
      /\ client'[c].pc = "deaf"
  BY <1>1 DEF IdleOut, ClientRecord, Pcs
<1>3. TypeOK'
  BY <1>1, <1>2 DEF TypeOK, Room, ClientRecord, Pcs
<1>4. Pipeline(c)' = Pipeline(c)
  BY <1>1, PipelineStays
<1>5. (Streaming(c) => Streaming(c)') /\ (Fresh(c) => Fresh(c)')
  BY <1>1, <1>4, FaithfulStays DEF Streaming, InStream, Fresh
<1>6. StreamInv(c)'
  BY <1>1, <1>2, <1>5 DEF ConnectionInv, StreamInv, Closed
<1>7. Program[c] \in Streams
  BY <1>1 DEF ConnectionInv, ProgramInv
<1>8. FrameInv(c)' /\ ProgramInv(c)' /\ CallInv(c)'
  BY <1>1, <1>2, <1>7 DEF ConnectionInv, FrameInv, ProgramInv, InStream, CallInv, Streams
<1>9. QED
  BY <1>3, <1>6, <1>8 DEF ConnectionInv

LEMMA ServerSteps ==
  ASSUME TypeOK, NEW c \in Clients, ConnectionInv(c), Publish \/ Cancel \/ Flush \/ ExitDaemon
  PROVE  ConnectionInv(c)'
<1> USE DEF srvVars, cliVars, ConnectionInv
<1>t. client \in [Clients -> ClientRecord] /\ toCli \in [Clients -> Seq(Frames)]
  BY DEF TypeOK, ClientRecord, Pcs
<1>1. CASE Publish
  <2>1. /\ UNCHANGED <<server, client, toSrv, toCli, serve, subs, since, shown>>
        /\ server \in {"up", "cancelled"}
    BY <1>1 DEF Publish
  <2>2. FrameInv(c)' /\ ProgramInv(c)' /\ CallInv(c)'
    BY <2>1 DEF FrameInv, ProgramInv, InStream, CallInv, Quiet, Served
  <2>3. Fresh(c) => Fresh(c)'
    BY <1>1, <2>1 DEF Publish, Fresh
  <2>4. Streaming(c) => Streaming(c)'
    <3>1. SUFFICES ASSUME Streaming(c) PROVE Streaming(c)'
      OBVIOUS
    <3>2. Faithful(c)'
      BY <1>1, <3>1, PublishKeeps DEF Streaming, InStream
    <3>3. QED
      BY <2>1, <3>1, <3>2 DEF Streaming, InStream
  <2>5. StreamInv(c)'
    BY <2>1, <2>3, <2>4 DEF StreamInv, Closed
  <2>6. QED
    BY <2>2, <2>5
<1>2. CASE Cancel
  <2>1. /\ UNCHANGED <<client, toSrv, toCli, serve, chan, subs, pub, since, lost, shown>>
        /\ server = "up" /\ server' = "cancelled"
    BY <1>2 DEF Cancel
  <2>2. FrameInv(c)' /\ ProgramInv(c)' /\ CallInv(c)'
    BY <2>1 DEF FrameInv, ProgramInv, InStream, CallInv, Quiet, Served
  <2>3. Pipeline(c)' = Pipeline(c)
    BY <2>1, PipelineStays
  <2>4. Faithful(c) => Faithful(c)'
    BY <2>1, <2>3, FaithfulStays
  <2>5. (Streaming(c) => Streaming(c)') /\ (Fresh(c) => Fresh(c)')
    BY <2>1, <2>4 DEF Streaming, InStream, Fresh
  <2>6. StreamInv(c)'
    BY <2>1, <2>5 DEF StreamInv, Closed
  <2>7. QED
    BY <2>2, <2>6
<1>3. CASE Flush
  <2>1. UNCHANGED <<client, toSrv, toCli, serve>> /\ server' = "flushed"
    BY <1>3 DEF Flush
  <2>2. QED
    BY <2>1 DEF FrameInv, ProgramInv, InStream, CallInv, Quiet, Served, StreamInv
<1>4. CASE ExitDaemon
  <2>1. /\ UNCHANGED <<client, toCli, shown>>
        /\ server' = "gone" /\ serve'[c].at = "closed" /\ toSrv'[c] = << >>
    BY <1>4 DEF ExitDaemon
  <2>2. ~Served(c)'
    BY <2>1 DEF Served
  <2>3. FrameInv(c)' /\ StreamInv(c)'
    BY <2>1 DEF FrameInv, StreamInv
  <2>4. ProgramInv(c)'
    BY <2>1 DEF ProgramInv, InStream
  <2>5. CallInv(c)'
    BY <2>1, <2>2 DEF CallInv, Quiet
  <2>6. QED
    BY <2>3, <2>4, <2>5
<1>5. QED
  BY <1>1, <1>2, <1>3, <1>4

-----------------------------------------------------------------------------
(* The theorems                                                            *)

LEMMA InitInv == Init => IInv
<1> SUFFICES ASSUME Init PROVE IInv
  OBVIOUS
<1>1. TypeOK
  BY InitType
<1>2. ASSUME NEW c \in Clients PROVE ConnectionInv(c)
  <2>1. /\ client[c].pc = "new" /\ toSrv[c] = << >> /\ toCli[c] = << >> /\ serve[c].at = "none"
        /\ chan[c] = << >> /\ shown[c] = << >> /\ c \notin subs \cup lost
    BY DEF Init
  <2>2. FrameInv(c)
    BY <2>1 DEF FrameInv
  <2>3. ProgramInv(c) /\ CallInv(c)
    BY <2>1 DEF ProgramInv, InStream, CallInv
  <2>4. StreamInv(c)
    BY <2>1 DEF StreamInv, Fresh
  <2>5. QED
    BY <2>2, <2>3, <2>4 DEF ConnectionInv
<1>3. QED
  BY <1>1, <1>2 DEF IInv

LEMMA StepInv == IInv /\ [Next]_vars => IInv'
<1> SUFFICES ASSUME IInv, [Next]_vars PROVE IInv'
  OBVIOUS
<1> USE DEF IInv
<1>1. ASSUME NEW c \in Clients, ClientStep(c) \/ Close(c) PROVE IInv'
  <2>1. TypeOK' /\ FrameInv(c)'
    BY <1>1, ClientType DEF ConnectionInv
  <2>2. ProgramInv(c)' /\ CallInv(c)'
    BY <1>1, ClientCalls
  <2>3. StreamInv(c)'
    BY <1>1, ClientStreams
  <2>4. \A d \in Clients \ {c} : ConnectionInv(d)'
    BY <1>1, OthersStay, UntouchedStays
  <2>5. ConnectionInv(c)'
    BY <2>1, <2>2, <2>3 DEF ConnectionInv
  <2>6. QED
    BY <2>1, <2>4, <2>5
<1>2. ASSUME NEW c \in Clients, HandlerStep(c) PROVE IInv'
  <2>1. TypeOK' /\ FrameInv(c)'
    BY <1>2, HandlerType DEF ConnectionInv
  <2>2. ProgramInv(c)' /\ CallInv(c)'
    BY <1>2, HandlerCalls
  <2>3. StreamInv(c)'
    BY <1>2, HandlerStreams
  <2>4. \A d \in Clients \ {c} : ConnectionInv(d)'
    BY <1>2, OthersStay, UntouchedStays
  <2>5. ConnectionInv(c)'
    BY <2>1, <2>2, <2>3 DEF ConnectionInv
  <2>6. QED
    BY <2>1, <2>4, <2>5
<1>3. ASSUME Publish \/ Cancel \/ Flush \/ ExitDaemon PROVE IInv'
  BY <1>3, ServerType, ServerSteps
<1>4. ASSUME NEW c \in Clients, IdleOut(c) PROVE IInv'
  <2>1. TypeOK' /\ ConnectionInv(c)'
    BY <1>4, IdleKeeps
  <2>2. QED
    BY <1>4, <2>1, OthersStay, UntouchedStays
<1>5. CASE UNCHANGED vars
  <2>1. TypeOK'
    BY <1>5 DEF vars, cliVars, srvVars, TypeOK, Room
  <2>2. \A c \in Clients : Untouched(c)
    BY <1>5 DEF vars, cliVars, srvVars, Untouched
  <2>3. QED
    BY <2>1, <2>2, UntouchedStays
<1>6. QED
  BY <1>1, <1>2, <1>3, <1>4, <1>5 DEF Next

\* In every reachable state each connection is where its program, its call or
\* its subscription allows.
THEOREM InductiveInvariant == Spec => []IInv
BY InitInv, StepInv, PTL DEF Spec

\* Buffers and subscriber channels never exceed their capacities, and every
\* number on a wire is that of a call or of an event that happened.
THEOREM TypeCorrect == Spec => []TypeOK
<1>1. IInv => TypeOK
  BY DEF IInv
<1>2. QED
  BY <1>1, InductiveInvariant, PTL

\* Call reads one frame and fails when its id is another request's (client.go):
\* it never is, for whatever is under way on the connection of a call that
\* waits is this call.
THEOREM OwnAnswer == Spec => []OneAnswerPerCall
<1>1. IInv => OneAnswerPerCall
  <2>1. SUFFICES ASSUME IInv, NEW c \in Clients, client[c].pc = "waiting"
                 PROVE  UnderWay(c) = <<client[c].calls>> \/ (~Served(c) /\ UnderWay(c) = << >>)
    BY DEF OneAnswerPerCall
  <2>2. ProgramInv(c) /\ CallInv(c) /\ toCli[c] \in Seq(Frames) /\ Len(toCli[c]) \in Nat
    BY <2>1 DEF IInv, ConnectionInv, TypeOK
  <2>3. Program[c] = "doctor" /\ ~client[c].expired
    BY <2>1, <2>2 DEF ProgramInv
  <2>4. toCli[c] = << >> => [i \in 1 .. Len(toCli[c]) |-> toCli[c][i].n] = << >>
    OBVIOUS
  <2>5. Len(toCli[c]) = 1 /\ toCli[c][1].n = client[c].calls =>
          [i \in 1 .. Len(toCli[c]) |-> toCli[c][i].n] = <<client[c].calls>>
    OBVIOUS
  <2>6. \A x : /\ << >> \o << >> \o <<x>> = <<x>>
              /\ << >> \o <<x>> \o << >> = <<x>>
              /\ <<x>> \o << >> \o << >> = <<x>>
              /\ << >> \o << >> \o << >> = << >>
    OBVIOUS
  <2> DEFINE frames == [i \in 1 .. Len(toCli[c]) |-> toCli[c][i].n]
             handled == IF serve[c].at = "handle" THEN <<serve[c].req>> ELSE << >>
  <2>7. UnderWay(c) = frames \o handled \o toSrv[c]
    BY DEF UnderWay
  <2>8. \/ frames = << >> /\ handled = << >> /\ toSrv[c] = <<client[c].calls>>
        \/ frames = << >> /\ handled = <<client[c].calls>> /\ toSrv[c] = << >>
        \/ frames = <<client[c].calls>> /\ handled = << >> /\ toSrv[c] = << >>
        \/ ~Served(c) /\ frames = << >> /\ handled = << >> /\ toSrv[c] = << >>
    <3> HIDE DEF frames
    <3>1. /\ toCli[c] = << >> => frames = << >>
          /\ Len(toCli[c]) = 1 /\ toCli[c][1].n = client[c].calls => frames = <<client[c].calls>>
      BY <2>4, <2>5 DEF frames
    <3>2. QED
      BY <2>1, <2>2, <2>3, <3>1 DEF CallInv, Quiet
  <2> HIDE DEF frames, handled
  <2>9. QED
    BY <2>6, <2>7, <2>8
<1>2. QED
  BY <1>1, InductiveInvariant, PTL

\* A program that waits for events of a running daemon has its request under
\* way or a handler that streams (handleForwardEvents).
THEOREM StreamsServed == Spec => []EventStreamsAreServed
<1>1. IInv => EventStreamsAreServed
  <2>1. SUFFICES ASSUME IInv, NEW c \in Clients, Program[c] = "events",
                        client[c].pc = "streaming", server = "up"
                 PROVE  serve[c].at # "read" \/ toSrv[c] # << >>
    BY DEF EventStreamsAreServed, StreamsAreServedFor
  <2>2. StreamInv(c) /\ Program[c] \in Streams /\ ~Closed(c)
    BY <2>1 DEF IInv, ConnectionInv, Streams, Closed
  <2>3. \/ toSrv[c] = <<1>>
        \/ serve[c].at \in {"handle", "subscribe"}
        \/ Streaming(c)
    BY <2>1, <2>2 DEF StreamInv
  <2>4. <<1>> # << >>
    OBVIOUS
  <2>5. QED
    BY <2>3, <2>4 DEF Streaming, InStream
<1>2. QED
  BY <1>1, InductiveInvariant, PTL

\* What a stream shows is what the manager published since the subscription,
\* in order, nothing twice and, unless its channel overflowed, nothing left
\* out (relayEvents, handleForwardEvents, SubscribeEvents).
THEOREM Faithfulness == Spec => []StreamIsFaithful
<1>1. IInv => StreamIsFaithful
  <2>1. SUFFICES ASSUME IInv, NEW c \in Clients, InStream(c), ~Closed(c),
                        server \in {"up", "cancelled"}
                 PROVE  Faithful(c)
    BY DEF StreamIsFaithful, Faithful
  <2>2. ProgramInv(c) /\ StreamInv(c) /\ client[c].pc \in Pcs
    BY <2>1 DEF IInv, ConnectionInv, TypeOK, Pcs
  <2>3. Program[c] \in Streams /\ client[c].pc \in {"streaming", "deaf"}
    BY <2>1, <2>2 DEF ProgramInv, StreamInv, InStream, Closed, Pcs, Streams
  <2>4. QED
    BY <2>1, <2>2, <2>3 DEF StreamInv, Streaming, InStream
<1>2. QED
  BY <1>1, InductiveInvariant, PTL
=============================================================================
