--------------------------------- MODULE Ipc ---------------------------------
(***************************************************************************)
(* The protocol between the commands and the daemon: internal/ipc/client.go*)
(* and server.go, the streaming handlers of internal/daemon/handler.go,    *)
(* the manager's subscribers, and the programs of cmd/kpf/main.go that use *)
(* a client.  A connection carries frames each way; one goroutine of the   *)
(* daemon serves it, and while a handler streams it reads no request.      *)
(*                                                                         *)
(* A program is one ipc.Client and what is done with it: "doctor" calls    *)
(* several times under one deadline, "events" and "logs" subscribe, "list" *)
(* is the client runListWatch refreshes its table with.  An event is its   *)
(* number, in the order the manager published them.                        *)
(***************************************************************************)
EXTENDS Naturals, Sequences, SequencesExt

CONSTANTS
  Clients,   \* the ipc.Client values
  Program,   \* what each is used for
  WireCap,   \* frames the socket buffers hold in one direction
  SubCap,    \* capacity of a subscriber channel of the manager (64)
  MaxCalls,  \* bound on the calls of a client (doctor makes 3)
  MaxEvents  \* bound on the events published

Streams == {"events", "logs"}

ASSUME IpcAssumption ==
  /\ Program \in [Clients -> {"doctor", "list"} \cup Streams]
  /\ {WireCap, SubCap, MaxCalls} \subseteq Nat \ {0}
  /\ MaxEvents \in Nat

VARIABLES
  server,  \* "up", "cancelled" by a signal, "flushed" by Shutdown, or "gone"
  client,  \* [pc, calls, expired, result]
  toSrv,   \* the requests on their way to the daemon, numbered
  toCli,   \* the frames on their way to the client
  serve,   \* what the goroutine of a connection does, and for which request
  chan,    \* the events in the subscriber channel of a connection
  subs,    \* m.subs: the connections whose channel is published to
  pub,     \* the number of events published
  since,   \* history: pub when the connection subscribed
  lost,    \* history: the connections that lost an event to a full channel
  shown    \* history: the events a program printed or passed on

cliVars == <<client, shown>>
srvVars == <<serve, chan, subs, since, lost>>
vars == <<server, cliVars, toSrv, toCli, srvVars, pub>>

Frames == [kind : {"ok", "fail", "event"}, n : Nat]
\* A handler that is blocked in a write holds the first event of chan in its
\* hands, so the channel itself has room for one more.
Room(c) == IF serve[c].at = "blocked" THEN SubCap + 1 ELSE SubCap

Results == {"none", "ok", "timeout", "mismatch", "notRunning", "broken"}

TypeOK ==
  /\ server \in {"up", "cancelled", "flushed", "gone"}
  /\ client \in [Clients -> [pc : {"new", "idle", "waiting", "streaming", "deaf", "closed"},
       calls : 0 .. MaxCalls, expired : BOOLEAN, result : Results]]
  /\ toSrv \in [Clients -> Seq(1 .. MaxCalls)]
  /\ toCli \in [Clients -> Seq(Frames)]
  /\ chan \in [Clients -> Seq(1 .. MaxEvents)]
  /\ shown \in [Clients -> Seq(1 .. MaxEvents)]
  /\ \A c \in Clients : Len(toCli[c]) <= WireCap /\ Len(chan[c]) <= Room(c)
  /\ serve \in [Clients -> [at : {"none", "read", "handle", "subscribe", "stream",
                                  "blocked", "closed"},
                            req : 0 .. MaxCalls]]
  /\ subs \subseteq Clients /\ lost \subseteq Clients
  /\ pub \in 0 .. MaxEvents
  /\ since \in [Clients -> 0 .. MaxEvents]

Init ==
  /\ server = "up"
  /\ client = [c \in Clients |-> [pc |-> "new", calls |-> 0, expired |-> FALSE,
                                  result |-> "none"]]
  /\ toSrv = [c \in Clients |-> << >>]
  /\ toCli = [c \in Clients |-> << >>]
  /\ serve = [c \in Clients |-> [at |-> "none", req |-> 0]]
  /\ chan = [c \in Clients |-> << >>]
  /\ subs = {}
  /\ pub = 0
  /\ since = [c \in Clients |-> 0]
  /\ lost = {}
  /\ shown = [c \in Clients |-> << >>]

Accepting == server \in {"up", "flushed"}
Served(c) == serve[c].at \notin {"none", "closed"}
Closed(c) == client[c].pc = "closed"
InStream(c) == serve[c].at \in {"stream", "blocked"}

-----------------------------------------------------------------------------
(* The client                                                              *)

Become(c, pc, result) ==
  client' = [client EXCEPT ![c].pc = pc, ![c].result = result]

\* Connect, for the programs that call it; without a listener the command
\* dies, and the TUI's watcher tries again.
Connect(c) ==
  /\ client[c].pc = "new" /\ Program[c] # "list"
  /\ IF Accepting
       THEN /\ Become(c, "idle", "none")
            /\ serve' = [serve EXCEPT ![c].at = "read"]
       ELSE Become(c, "closed", "notRunning") /\ UNCHANGED serve
  /\ UNCHANGED <<server, toSrv, toCli, chan, subs, pub, since, lost, shown>>

\* Call writes the request, numbered by a fresh id, and waits.  A client that
\* never connected has no conn: ErrNotRunning.  Under a deadline that has
\* passed the request is still written, and the read fails at once.
Call(c) ==
  /\ client[c].calls < MaxCalls
  /\ \/ /\ client[c].pc = "new" /\ Program[c] = "list"
        /\ client' = [client EXCEPT ![c].result = "notRunning"]
        /\ UNCHANGED toSrv
     \/ /\ client[c].pc = "idle" /\ Program[c] = "doctor"
        /\ LET sent == client[c].calls + 1 IN
           /\ client' = [client EXCEPT ![c].calls = sent,
                ![c].pc = IF client[c].expired THEN "idle" ELSE "waiting",
                ![c].result = IF client[c].expired THEN "timeout" ELSE "none"]
           /\ toSrv' = IF Served(c) THEN [toSrv EXCEPT ![c] = Append(@, sent)] ELSE toSrv
  /\ UNCHANGED <<server, toCli, srvVars, pub, shown>>

\* Call reads one frame, whatever request it answers.
Answer(c) ==
  /\ client[c].pc = "waiting" /\ toCli[c] # << >>
  /\ Become(c, "idle", IF Head(toCli[c]).n # client[c].calls THEN "mismatch" ELSE "ok")
  /\ toCli' = [toCli EXCEPT ![c] = Tail(@)]
  /\ UNCHANGED <<server, toSrv, srvVars, pub, shown>>

\* Slip: every call has a deadline of its own.
ExpireOnce(c) ==
  /\ client[c].pc = "waiting"
  /\ Become(c, "idle", "timeout")
  /\ UNCHANGED <<server, toSrv, toCli, srvVars, pub, shown>>

\* The deadline of the one context runDoctor calls under.
Expire(c) ==
  /\ client[c].pc = "waiting"
  /\ client' = [client EXCEPT ![c].pc = "idle", ![c].expired = TRUE, ![c].result = "timeout"]
  /\ UNCHANGED <<server, toSrv, toCli, srvVars, pub, shown>>

\* SubscribeEvents: the request goes out, a goroutine reads what comes.
Subscribe(c) ==
  /\ client[c].pc = "idle" /\ Program[c] \in Streams
  /\ client' = [client EXCEPT ![c].pc = "streaming", ![c].calls = 1]
  /\ toSrv' = IF Served(c) THEN [toSrv EXCEPT ![c] = Append(@, 1)] ELSE toSrv
  /\ UNCHANGED <<server, toCli, srvVars, pub, shown>>

\* Slip: every frame is taken for an event.
ReceiveAny(c) ==
  /\ client[c].pc = "streaming" /\ toCli[c] # << >>
  /\ toCli' = [toCli EXCEPT ![c] = Tail(@)]
  /\ shown' = [shown EXCEPT ![c] = Append(@, Head(toCli[c]).n)]
  /\ UNCHANGED <<server, client, toSrv, srvVars, pub>>

\* Every frame is decoded as an Event: a response, the ack or an error, has
\* no event name, and the program passes over it.
Receive(c) ==
  /\ client[c].pc = "streaming" /\ toCli[c] # << >>
  /\ toCli' = [toCli EXCEPT ![c] = Tail(@)]
  /\ shown' = IF Head(toCli[c]).kind = "event"
                THEN [shown EXCEPT ![c] = Append(@, Head(toCli[c]).n)] ELSE shown
  /\ UNCHANGED <<server, client, toSrv, srvVars, pub>>

\* The connection ended: the call fails, the stream's channel is closed.
ReadEnd(c) ==
  /\ client[c].pc \in {"waiting", "streaming"}
  /\ ~Served(c) /\ toCli[c] = << >>
  /\ Become(c, "closed", "broken")
  /\ UNCHANGED <<server, toSrv, toCli, srvVars, pub, shown>>

\* No frame for an hour: the stream's goroutine meets its read deadline and
\* ends, the program and its connection stay.  An hour is taken to be longer
\* than anything on its way needs.
IdleOut(c) ==
  /\ client[c].pc = "streaming"
  /\ toSrv[c] = << >> /\ toCli[c] = << >> /\ chan[c] = << >>
  /\ serve[c].at \in {"read", "stream"}
  /\ client' = [client EXCEPT ![c].pc = "deaf"]
  /\ UNCHANGED <<server, toSrv, toCli, srvVars, pub, shown>>

\* Close, or the exit of the command: what was on its way is not read.
Close(c) ==
  /\ client[c].pc \in {"idle", "streaming", "deaf"}
  /\ client' = [client EXCEPT ![c].pc = "closed"]
  /\ toCli' = [toCli EXCEPT ![c] = << >>]
  /\ UNCHANGED <<server, toSrv, srvVars, pub, shown>>

-----------------------------------------------------------------------------
(* The daemon                                                              *)

At(c, at) == serve' = [serve EXCEPT ![c].at = at]

\* Slip: a write never blocks.
WriteAlways(c) == c \in Clients

\* WriteFrame blocks on a full socket; a write to a closed peer fails.
CanWrite(c) == Closed(c) \/ Len(toCli[c]) < WireCap
Write(c, kind, n) ==
  toCli' = IF Closed(c) THEN toCli
           ELSE [toCli EXCEPT ![c] = Append(@, [kind |-> kind, n |-> n])]

ReadRequest(c) ==
  /\ serve[c].at = "read" /\ toSrv[c] # << >>
  /\ serve' = [serve EXCEPT ![c] = [at |-> "handle", req |-> Head(toSrv[c])]]
  /\ toSrv' = [toSrv EXCEPT ![c] = Tail(@)]
  /\ UNCHANGED <<server, cliVars, toCli, chan, subs, pub, since, lost>>

\* EOF: handleConn returns, its deferred Close closes the connection.
HandlerReturns(c) ==
  /\ serve[c].at = "read" /\ toSrv[c] = << >> /\ Closed(c)
  /\ At(c, "closed")
  /\ UNCHANGED <<server, cliVars, toSrv, toCli, chan, subs, pub, since, lost>>

\* Slip: the other callers marshal their params twice as well.
DecodeCallsOnly(c) == Program[c] \notin Streams

\* runLogs hands SubscribeEvents its params already marshalled; as a []byte
\* they are marshalled again, to a base64 string LogsParams does not decode.
ParamsDecode(c) == Program[c] # "logs"

\* The handlers answer one response; a stream first acknowledges.
Handle(c) ==
  /\ serve[c].at = "handle" /\ CanWrite(c)
  /\ IF ParamsDecode(c)
       THEN /\ Write(c, "ok", serve[c].req)
            /\ At(c, IF Program[c] \in Streams /\ ~Closed(c) THEN "subscribe" ELSE "read")
       ELSE Write(c, "fail", serve[c].req) /\ At(c, "read")
  /\ UNCHANGED <<server, cliVars, toSrv, chan, subs, pub, since, lost>>

\* m.Subscribe, after the ack is out.  After Shutdown nobody publishes to the
\* new channel and nobody closes it.
SubscribeManager(c) ==
  /\ serve[c].at = "subscribe"
  /\ At(c, "stream")
  /\ subs' = IF server = "flushed" THEN subs ELSE subs \cup {c}
  /\ since' = [since EXCEPT ![c] = pub]
  /\ UNCHANGED <<server, cliVars, toSrv, toCli, chan, pub, lost>>

\* Slip: a write that failed does not end the stream.
StreamOn(c) ==
  /\ InStream(c) /\ chan[c] # << >> /\ CanWrite(c)
  /\ chan' = [chan EXCEPT ![c] = Tail(@)]
  /\ Write(c, "event", Head(chan[c]))
  /\ UNCHANGED <<server, cliVars, toSrv, serve, subs, pub, since, lost>>

\* Slip: the event is dropped while the socket is full.
StreamDropping(c) ==
  /\ InStream(c) /\ chan[c] # << >>
  /\ chan' = [chan EXCEPT ![c] = Tail(@)]
  /\ IF CanWrite(c) THEN Write(c, "event", Head(chan[c])) ELSE UNCHANGED toCli
  /\ At(c, IF Closed(c) THEN "read" ELSE "stream")
  /\ UNCHANGED <<server, cliVars, toSrv, subs, pub, since, lost>>

\* The loop of handleForwardEvents: a write that fails ends the handler, and
\* handleConn reads on.  The subscription is never taken back.
Stream(c) ==
  /\ InStream(c) /\ chan[c] # << >> /\ CanWrite(c)
  /\ chan' = [chan EXCEPT ![c] = Tail(@)]
  /\ Write(c, "event", Head(chan[c]))
  /\ At(c, IF Closed(c) THEN "read" ELSE "stream")
  /\ UNCHANGED <<server, cliVars, toSrv, subs, pub, since, lost>>

\* The loop took an event and the socket is full: WriteEvent has no deadline,
\* and the loop does not look at ctx.
Block(c) ==
  /\ serve[c].at = "stream" /\ chan[c] # << >> /\ ~CanWrite(c)
  /\ At(c, "blocked")
  /\ UNCHANGED <<server, cliVars, toSrv, toCli, chan, subs, pub, since, lost>>

\* The select of the loop: ctx is done, or Shutdown closed the channel and it
\* is empty.
StreamEnds(c) ==
  /\ serve[c].at = "stream"
  /\ server = "cancelled" \/ (server = "flushed" /\ c \notin subs /\ chan[c] = << >>)
  /\ At(c, "read")
  /\ UNCHANGED <<server, cliVars, toSrv, toCli, chan, subs, pub, since, lost>>

\* relayEvents: a full subscriber channel loses the event.
Publish ==
  /\ server \in {"up", "cancelled"} /\ pub < MaxEvents
  /\ pub' = pub + 1
  /\ chan' = [c \in Clients |->
       IF c \in subs /\ Len(chan[c]) < Room(c) THEN Append(chan[c], pub + 1) ELSE chan[c]]
  /\ lost' = lost \cup {c \in subs : Len(chan[c]) = Room(c)}
  /\ UNCHANGED <<server, cliVars, toSrv, toCli, serve, subs, since>>

\* SIGTERM: the context of every handler is done and nothing is accepted.
Cancel ==
  /\ server = "up"
  /\ server' = "cancelled"
  /\ UNCHANGED <<cliVars, toSrv, toCli, srvVars, pub>>

\* Manager.Shutdown closes the subscriber channels and forgets them.
Flush ==
  /\ server = "up"
  /\ server' = "flushed"
  /\ subs' = {}
  /\ UNCHANGED <<cliVars, toSrv, toCli, serve, chan, pub, since, lost>>

\* The process exits: after Shutdown at once, after a signal when every
\* handler returned (wg.Wait), and by a crash whenever it likes.
ExitDaemon ==
  /\ server # "gone"
  /\ server' = "gone"
  /\ serve' = [c \in Clients |-> [at |-> "closed", req |-> 0]]
  /\ toSrv' = [c \in Clients |-> << >>]
  /\ chan' = [c \in Clients |-> << >>]
  /\ subs' = {}
  /\ UNCHANGED <<cliVars, toCli, pub, since, lost>>

-----------------------------------------------------------------------------
ClientStep(c) ==
  Connect(c) \/ Call(c) \/ Answer(c) \/ Expire(c) \/ Subscribe(c) \/ Receive(c) \/ ReadEnd(c)

HandlerStep(c) ==
  \/ ReadRequest(c) \/ HandlerReturns(c) \/ Handle(c) \/ SubscribeManager(c)
  \/ Stream(c) \/ Block(c) \/ StreamEnds(c)

Next ==
  \/ \E c \in Clients : ClientStep(c) \/ IdleOut(c) \/ Close(c) \/ HandlerStep(c)
  \/ Publish \/ Cancel \/ Flush \/ ExitDaemon

Spec == Init /\ [][Next]_vars

\* Goroutines run and the deadlines of calls pass.  Nobody has to stop a command
\* that streams, to stop the daemon, to have an event happen, or to have none
\* for an hour.
FairSpec ==
  /\ Spec
  /\ \A c \in Clients : WF_vars(ClientStep(c)) /\ WF_vars(HandlerStep(c))

-----------------------------------------------------------------------------
(* Properties                                                              *)

\* The events in the frames on a wire, of which only the first may be no event:
\* the answer to the request.
Acks(frames) == IF frames # << >> /\ Head(frames).kind # "event" THEN 1 ELSE 0
OnTheWay(frames) ==
  [i \in 1 .. Len(frames) - Acks(frames) |-> frames[Acks(frames) + i].n]

\* The events of a connection, from the terminal back to the manager.
Pipeline(c) == shown[c] \o OnTheWay(toCli[c]) \o chan[c]

\* What a stream shows is what happened since its subscription: in order,
\* nothing twice, and, unless its channel overflowed, nothing left out.
StreamIsFaithful ==
  \A c \in Clients : InStream(c) /\ ~Closed(c) /\ server \in {"up", "cancelled"} =>
    /\ \A i, j \in DOMAIN Pipeline(c) : i < j => Pipeline(c)[i] < Pipeline(c)[j]
    /\ c \notin lost => Pipeline(c) = [i \in 1 .. pub - since[c] |-> since[c] + i]

\* A call that waits finds its own answer and no other: what is under way on
\* its connection, back to front, is this call and nothing else, though earlier
\* ones timed out (the deadline they share fails the later calls before they
\* read), unless the daemon is gone with it.
UnderWay(c) ==
  [i \in 1 .. Len(toCli[c]) |-> toCli[c][i].n]
    \o (IF serve[c].at = "handle" THEN <<serve[c].req>> ELSE << >>) \o toSrv[c]
OneAnswerPerCall ==
  \A c \in Clients : client[c].pc = "waiting" =>
    UnderWay(c) = <<client[c].calls>> \/ (~Served(c) /\ UnderWay(c) = << >>)

\* A program that waits for a stream of a running daemon is not waited for:
\* its request is under way or its handler streams.
StreamsAreServedFor(P) ==
  \A c \in Clients : Program[c] \in P /\ client[c].pc = "streaming" /\ server = "up" =>
    serve[c].at # "read" \/ toSrv[c] # << >>
EventStreamsAreServed == StreamsAreServedFor({"events"})

\* An event a stream has taken while the program's goroutine reads is shown,
\* through a wire that fills up and a handler that blocks, unless the program or
\* the daemon ends first.  After an idle hour nobody reads: what comes then is
\* not shown, though the program, its connection and the daemon live on.
EventsAreShownWhileRead ==
  \A c \in Clients, n \in 1 .. MaxEvents :
    (n \in Range(chan[c]) /\ client[c].pc = "streaming") ~>
      (n \in Range(shown[c]) \/ Closed(c) \/ server # "up")

\* What tells a handler that its client has left.
Noticed(c) ==
  \/ serve[c].at \notin {"subscribe", "stream"}
  \/ chan[c] # << >>
  \/ server = "cancelled"

\* The goroutine of a connection whose client has left returns once an event
\* or a signal comes by, so a stop of the daemon never waits for it.
HandlersReturn ==
  \A c \in Clients : (Closed(c) /\ Served(c) /\ Noticed(c)) ~> ~Served(c)

\* handler.go:343-344 says of handleForwardLogs that it subscribes the
\* calling connection: `kpf logs` of a running daemon has a stream.
LogStreamsAreServed == StreamsAreServedFor({"logs"})

-----------------------------------------------------------------------------
(* The parts of the inductive invariant                                    *)

FrameInv(c) ==
  \A i \in 1 .. Len(toCli[c]) : toCli[c][i].kind = "event" => toCli[c][i].n \in 1 .. MaxEvents

\* Which program gets where.
ProgramInv(c) ==
  /\ client[c].pc = "new" => toSrv[c] = << >> /\ toCli[c] = << >> /\ serve[c].at \in {"none", "closed"}
  /\ client[c].pc \in {"idle", "waiting", "streaming", "deaf"} => serve[c].at # "none"
  /\ client[c].pc = "waiting" => Program[c] = "doctor" /\ ~client[c].expired
  /\ client[c].pc \in {"streaming", "deaf"} => Program[c] \in Streams
  /\ serve[c].at = "subscribe" \/ InStream(c) => Program[c] \in Streams

\* Where the request of a call, or its answer, is.
Quiet(c) == toCli[c] = << >> /\ toSrv[c] = << >> /\ serve[c].at # "handle"

CallInv(c) ==
  Program[c] = "doctor" /\ ~client[c].expired =>
    /\ client[c].pc = "idle" => Quiet(c)
    /\ client[c].pc = "waiting" =>
         \/ toCli[c] = << >> /\ toSrv[c] = <<client[c].calls>> /\ serve[c].at = "read"
         \/ /\ toCli[c] = << >> /\ toSrv[c] = << >>
            /\ serve[c].at = "handle" /\ serve[c].req = client[c].calls
         \/ /\ Len(toCli[c]) = 1 /\ toCli[c][1].n = client[c].calls
            /\ toSrv[c] = << >> /\ serve[c].at # "handle"
         \/ ~Served(c) /\ Quiet(c)

\* How far the subscription of a program has come, while it may come further.
Fresh(c) == shown[c] = << >> /\ chan[c] = << >> /\ c \notin subs \cup lost

OnlyEvents(frames) == \A i \in 2 .. Len(frames) : frames[i].kind = "event"

Faithful(c) ==
  /\ \A i, j \in DOMAIN Pipeline(c) : i < j => Pipeline(c)[i] < Pipeline(c)[j]
  /\ \A i \in DOMAIN Pipeline(c) : Pipeline(c)[i] <= pub
  /\ since[c] <= pub
  /\ c \notin lost => Pipeline(c) = [i \in 1 .. pub - since[c] |-> since[c] + i]

Streaming(c) ==
  /\ InStream(c) /\ toSrv[c] = << >> /\ c \in subs
  /\ OnlyEvents(toCli[c])
  /\ Faithful(c)

StreamInv(c) ==
  Program[c] \in Streams /\ ~Closed(c) /\ server \in {"up", "cancelled"} =>
    /\ client[c].pc \in {"new", "idle"} =>
         /\ toSrv[c] = << >> /\ toCli[c] = << >> /\ Fresh(c)
         /\ serve[c].at = IF client[c].pc = "new" THEN "none" ELSE "read"
    /\ client[c].pc \in {"streaming", "deaf"} =>
         \/ serve[c].at = "read" /\ toSrv[c] = <<1>> /\ toCli[c] = << >> /\ Fresh(c)
         \/ serve[c].at = "handle" /\ toSrv[c] = << >> /\ toCli[c] = << >> /\ Fresh(c)
         \/ /\ serve[c].at = "subscribe" /\ toSrv[c] = << >> /\ Fresh(c)
            /\ Len(toCli[c]) = Acks(toCli[c])
         \/ Streaming(c)
         \/ /\ serve[c].at = "read" /\ toSrv[c] = << >>
            /\ server = "cancelled" \/ Program[c] = "logs"

\* The inductive invariant.
ConnectionInv(c) == FrameInv(c) /\ ProgramInv(c) /\ CallInv(c) /\ StreamInv(c)
IInv == TypeOK /\ \A c \in Clients : ConnectionInv(c)
=============================================================================
