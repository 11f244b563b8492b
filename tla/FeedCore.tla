------------------------------ MODULE FeedCore ------------------------------
(***************************************************************************)
(* The whole program, from a message of a provider to the wire of a        *)
(* client, with the start-up and the shutdown that main.go runs around it. *)
(*                                                                         *)
(*   readers -> adapterChan -> arbitrator -> hubChan -> hub -> clients     *)
(*                                                                         *)
(* Every stage is a goroutine of its own, and the hub sends each tick to   *)
(* each client from one goroutine more.  Here ticks are told apart and     *)
(* followed through the stages; the inside of a stage is the subject of    *)
(* ProviderSession, Arbitrator and ClientHub.                              *)
(***************************************************************************)
EXTENDS Integers, Sequences, FiniteSets, Functions

CONSTANTS
  Sessions,      \* provider connections configured: "twelve", "crypto", "forex"
  BackupSessions, \* those of the backup provider
  Clients,       \* connections of clients ever made, of either kind
  NoTick,        \* the arbitrator has no tick in hand
  AdapterCap,    \* capacity of adapterChan (10000)
  HubCap,        \* capacity of hubChan (10000)
  SendCap,       \* capacity of a send channel (256 and 1024)
  MaxTicks       \* bound: ticks read from all sessions

ASSUME SessionsAssumption == Sessions \subseteq {"twelve", "crypto", "forex"}
ASSUME CapAssumption == {AdapterCap, HubCap, SendCap, MaxTicks} \subseteq Nat \ {0}

VARIABLES
  main,          \* the next thing main does
  stopped,       \* components whose stopChan is closed
  closedChans,   \* channels main has closed: "adapter", "hub"
  serving,       \* listeners open: "ws", "tcp"
  accepting,     \* the TCP acceptLoop is running
  reader,        \* session -> where its readLoop is
  read,          \* session -> number of ticks read from it
  adapterChan,
  arb, arbTick,  \* processLoop and the tick it has in hand
  hubChan,
  loops,         \* loops of the hub that run: "registration", "broadcast"
  log,           \* history: the ticks broadcast, in order
  sends,         \* goroutines of broadcast: << client, tick >>
  overlapped,    \* history: << client, older, newer >>, older still being sent
                 \* to client when newer was broadcast
  status,        \* client -> its place in the hub
  joined,        \* history: client -> length of log when it was registered
  unregister,    \* clients waiting in the unregister channel
  peer,          \* client -> its connection
  buffer,        \* client -> its send channel
  wire,          \* history: client -> ticks written to it
  panicked       \* who sent on a closed channel, or "nobody"

mainVars == << main, stopped, closedChans, serving, accepting >>
readerVars == << reader, read >>
arbVars == << arb, arbTick >>
hubVars == << loops, log, sends, overlapped >>
pipeVars == << readerVars, adapterChan, arbVars, hubChan, hubVars >>
clientVars == << status, joined, unregister, peer, buffer, wire >>
vars == << mainVars, pipeVars, clientVars, panicked >>

\* Mutant: a channel holds one element more than its capacity.
HasRoomOffByOne(chan, cap) == Len(chan) <= cap

HasRoom(chan, cap) == Len(chan) < cap

ProviderOf(s) == IF s = "twelve" THEN "twelve" ELSE "massive"

\* main has made the channels and started the hub and the arbitrator.
Init ==
  /\ main = "start_twelve" /\ stopped = {} /\ closedChans = {}
  /\ serving = {} /\ accepting = FALSE
  /\ reader = [s \in Sessions |-> "none"] /\ read = [s \in Sessions |-> 0]
  /\ adapterChan = << >> /\ hubChan = << >>
  /\ arb = "select" /\ arbTick = NoTick
  /\ loops = {"registration", "broadcast"} /\ log = << >>
  /\ sends = {} /\ overlapped = {}
  /\ status = [c \in Clients |-> "outside"] /\ joined = [c \in Clients |-> 0]
  /\ unregister = {}
  /\ peer = [c \in Clients |-> "up"]
  /\ buffer = [c \in Clients |-> << >>] /\ wire = [c \in Clients |-> << >>]
  /\ panicked = "nobody"

-----------------------------------------------------------------------------
(* main: start-up, then shutdown *)

StartingUp ==
  {"start_twelve", "start_crypto", "start_forex", "start_ws", "start_tcp"}

ShuttingDown ==
  {"wait_tcp", "stop_massive", "stop_twelve", "stop_arbitrator", "stop_hub",
   "close_adapter", "close_hub", "return", "exited"}

Goto(at, next) == main = at /\ main' = next

\* An adapter is started; if its first connect fails main goes on without it.
StartAdapter(s) ==
  /\ reader' \in {reader} \cup { [reader EXCEPT ![t] = "read"] : t \in {s} \cap Sessions }
  /\ UNCHANGED << stopped, closedChans, serving, accepting, read, adapterChan, arbVars,
                  hubChan, hubVars, clientVars, panicked >>

\* Twelve Data, then the two connections of Massive, one after the other.
StartAdapters ==
  \/ Goto("start_twelve", "start_crypto") /\ StartAdapter("twelve")
  \/ Goto("start_crypto", "start_forex") /\ StartAdapter("crypto")
  \/ Goto("start_forex", "start_ws") /\ StartAdapter("forex")

\* The two servers; when a port is taken log.Fatalf ends the process.
StartServers ==
  /\ \/ /\ Goto("start_ws", "start_tcp")
        /\ serving' = {"ws"} /\ accepting' = accepting
     \/ /\ Goto("start_tcp", "running")
        /\ serving' = {"ws", "tcp"} /\ accepting' = TRUE
     \/ /\ Goto("start_ws", "fatal") \/ Goto("start_tcp", "fatal")
        /\ UNCHANGED << serving, accepting >>
  /\ UNCHANGED << stopped, closedChans, pipeVars, clientVars, panicked >>

\* A signal: TCPServer.Stop closes the listener and waits for acceptLoop; then
\* WebSocketServer.Stop.  Connections already made are kept.
StopServers ==
  /\ \/ Goto("running", "wait_tcp") /\ serving' = {"ws"} /\ stopped' = {"tcp"}
     \/ Goto("wait_tcp", "stop_massive") /\ ~accepting /\ serving' = {} /\ stopped' = stopped
  /\ UNCHANGED << closedChans, accepting, pipeVars, clientVars, panicked >>

\* Mutant: acceptLoop takes up its loop again after every error.
AcceptLoopGoesOn == FALSE

AcceptLoopEnds == "tcp" \in stopped

AcceptLoopLeaves ==
  /\ accepting /\ AcceptLoopEnds
  /\ accepting' = FALSE
  /\ UNCHANGED << main, stopped, closedChans, serving, pipeVars, clientVars, panicked >>

\* The stopChans are closed; both connections of Massive share one.
StopComponents ==
  /\ \/ Goto("stop_massive", "stop_twelve") /\ stopped' = stopped \cup {"massive"}
     \/ Goto("stop_twelve", "stop_arbitrator") /\ stopped' = stopped \cup {"twelve"}
     \/ Goto("stop_arbitrator", "stop_hub") /\ stopped' = stopped \cup {"arbitrator"}
  /\ UNCHANGED << closedChans, serving, accepting, pipeVars, clientVars, panicked >>

\* Hub.Stop ends the loops, closes every client and empties the map.
StopHub ==
  /\ Goto("stop_hub", "close_adapter")
  /\ stopped' = stopped \cup {"hub"}
  /\ status' = [c \in Clients |-> IF status[c] = "member" THEN "left" ELSE status[c]]
  /\ UNCHANGED << closedChans, serving, accepting, pipeVars, joined, unregister, peer,
                  buffer, wire, panicked >>

\* main waits for nobody before it closes the channels ...
CloseChans ==
  /\ \/ Goto("close_adapter", "close_hub") /\ closedChans' = {"adapter"}
     \/ Goto("close_hub", "return") /\ closedChans' = {"adapter", "hub"}
  /\ UNCHANGED << stopped, serving, accepting, pipeVars, clientVars, panicked >>

\* ... and then it returns, which ends the process.
MainReturns ==
  /\ Goto("return", "exited")
  /\ UNCHANGED << stopped, closedChans, serving, accepting, pipeVars, clientVars, panicked >>

Shutdown == StopServers \/ StopComponents \/ StopHub \/ CloseChans \/ MainReturns

-----------------------------------------------------------------------------
(* The readers of the adapters *)

TicksRead == FoldFunction(LAMBDA a, b : a + b, 0, read)

\* A message with a price arrives.  After Stop too the reader may get what was
\* received before; it looks at stopChan between two messages only.
ReadMessage(s) ==
  /\ reader[s] = "read" /\ TicksRead < MaxTicks
  /\ reader' = [reader EXCEPT ![s] = "send"]
  /\ read' = [read EXCEPT ![s] = @ + 1]
  /\ UNCHANGED << mainVars, adapterChan, arbVars, hubChan, hubVars, clientVars,
                  panicked >>

IsStopped(s) == ProviderOf(s) \in stopped

\* The connection Stop closed fails: back at the top the loop ends.
ReaderLeaves(s) ==
  /\ reader[s] = "read" /\ IsStopped(s)
  /\ reader' = [reader EXCEPT ![s] = "left"]
  /\ UNCHANGED << mainVars, read, adapterChan, arbVars, hubChan, hubVars, clientVars,
                  panicked >>

\* The tick a reader has in hand.
Held(s) == [from |-> s, n |-> read[s]]

\* A message of Massive may hold several prices, handled one after the other.
NextInMessage(s) ==
  \/ reader' = [reader EXCEPT ![s] = IF IsStopped(s) THEN "left" ELSE "read"] /\ read' = read
  \/ /\ ProviderOf(s) = "massive" /\ TicksRead < MaxTicks
     /\ read' = [read EXCEPT ![s] = @ + 1] /\ reader' = reader

\* sendTick and handlePriceTick: a send that never blocks; a full channel
\* drops the tick.
SendTick(s) ==
  /\ reader[s] = "send" /\ "adapter" \notin closedChans
  /\ adapterChan' = IF HasRoom(adapterChan, AdapterCap)
                    THEN Append(adapterChan, Held(s)) ELSE adapterChan
  /\ NextInMessage(s)
  /\ UNCHANGED << mainVars, arbVars, hubChan, hubVars, clientVars, panicked >>

\* The channel is closed: a panic, which ends the process.
SendPanics(s) ==
  /\ reader[s] = "send" /\ "adapter" \in closedChans
  /\ panicked' = s
  /\ UNCHANGED << mainVars, pipeVars, clientVars >>

Reader(s) == ReadMessage(s) \/ ReaderLeaves(s) \/ SendTick(s) \/ SendPanics(s)

-----------------------------------------------------------------------------
(* The arbitrator: its select takes any case that is ready *)

ArbReceive ==
  /\ arb = "select" /\ adapterChan # << >>
  /\ arb' = "hold" /\ arbTick' = Head(adapterChan)
  /\ adapterChan' = Tail(adapterChan)
  /\ UNCHANGED << mainVars, readerVars, hubChan, hubVars, clientVars, panicked >>

\* publishTick: a send that never blocks; a full channel drops the tick.  A
\* tick of the backup may be held back before (handleBackupTick).
ArbHandles ==
  /\ arb = "hold"
  /\ arb' = "select" /\ arbTick' = NoTick
  /\ \/ arbTick.from \in BackupSessions /\ hubChan' = hubChan
     \/ /\ "hub" \notin closedChans
        /\ hubChan' = IF HasRoom(hubChan, HubCap) THEN Append(hubChan, arbTick)
                      ELSE hubChan
  /\ UNCHANGED << mainVars, readerVars, adapterChan, hubVars, clientVars, panicked >>

ArbPanics ==
  /\ arb = "hold" /\ "hub" \in closedChans
  /\ panicked' = "arbitrator"
  /\ UNCHANGED << mainVars, pipeVars, clientVars >>

\* Stopped, or its channel is closed and drained.
ArbLeaves ==
  /\ arb = "select"
  /\ "arbitrator" \in stopped \/ ("adapter" \in closedChans /\ adapterChan = << >>)
  /\ arb' = "left"
  /\ UNCHANGED << mainVars, readerVars, adapterChan, arbTick, hubChan, hubVars,
                  clientVars, panicked >>

Arbitrator == ArbReceive \/ ArbHandles \/ ArbPanics \/ ArbLeaves

-----------------------------------------------------------------------------
(* The hub *)

\* A tick goes to every client registered now, each in its own goroutine.
Broadcast ==
  /\ "broadcast" \in loops /\ hubChan # << >>
  /\ hubChan' = Tail(hubChan)
  /\ log' = Append(log, Head(hubChan))
  /\ sends' = sends \cup
       { << c, Head(hubChan) >> : c \in { d \in Clients : status[d] = "member" } }
  /\ overlapped' = overlapped \cup
       { << send[1], send[2], Head(hubChan) >> : send \in sends }
  /\ UNCHANGED << mainVars, readerVars, adapterChan, arbVars, loops, clientVars,
                  panicked >>

LoopLeaves(loop) ==
  /\ "hub" \in stopped
  /\ loops' = loops \ {loop}
  /\ UNCHANGED << mainVars, readerVars, adapterChan, arbVars, hubChan, log, sends,
                  overlapped, clientVars, panicked >>

\* The registrationLoop takes a client from the register channel ...
TakeRegister(c) ==
  /\ "registration" \in loops /\ status[c] = "queued"
  /\ status' = [status EXCEPT ![c] = "member"]
  /\ joined' = [joined EXCEPT ![c] = Len(log)]
  /\ UNCHANGED << mainVars, pipeVars, unregister, peer, buffer, wire, panicked >>

\* ... or from the unregister channel; one it does not know it ignores.
TakeUnregister(c) ==
  /\ "registration" \in loops /\ c \in unregister
  /\ unregister' = unregister \ {c}
  /\ status' = [status EXCEPT ![c] = IF @ = "member" THEN "left" ELSE @]
  /\ UNCHANGED << mainVars, pipeVars, joined, peer, buffer, wire, panicked >>

\* After an error the goroutine unregisters the client.
Report(c) == buffer' = buffer /\ unregister' = unregister \cup {c}

\* Mutant: a tick that finds the channel full is dropped without an error.
RejectSilently(c, tick) == UNCHANGED << buffer, unregister >>

\* Mutant: the oldest tick of a full channel is queued again behind the new one.
RejectRequeued(c, tick) ==
  /\ buffer' = [buffer EXCEPT ![c] = Tail(@) \o << tick, Head(@) >>]
  /\ unregister' = unregister

Reject(c, tick) == Report(c)

\* Send: a closed client and a full channel are errors.  (What happens when the
\* client is closed in the middle of it is shown in ClientHub.)
Send(c, tick) ==
  /\ sends' = sends \ {<< c, tick >>}
  /\ \/ status[c] = "left" /\ Report(c)
     \/ status[c] # "left" /\ ~HasRoom(buffer[c], SendCap) /\ Reject(c, tick)
     \/ /\ status[c] # "left" /\ HasRoom(buffer[c], SendCap)
        /\ buffer' = [buffer EXCEPT ![c] = Append(@, tick)]
        /\ unregister' = unregister
  /\ UNCHANGED << mainVars, readerVars, adapterChan, arbVars, hubChan, loops, log,
                  overlapped, status, joined, peer, wire, panicked >>

Hub ==
  \/ Broadcast \/ \E loop \in loops : LoopLeaves(loop)
  \/ \E c \in Clients : TakeRegister(c) \/ TakeUnregister(c)
  \/ \E send \in sends : Send(send[1], send[2])

-----------------------------------------------------------------------------
(* Clients *)

\* A connection is accepted and registered.
Accept(c) ==
  /\ status[c] = "outside" /\ serving # {}
  /\ status' = [status EXCEPT ![c] = "queued"]
  /\ UNCHANGED << mainVars, pipeVars, joined, unregister, peer, buffer, wire, panicked >>

\* Mutant: the tick stays in the channel, to be written once more.
TakeNothing(c) ==
  /\ wire' = [wire EXCEPT ![c] = Append(@, Head(buffer[c]))]
  /\ buffer' = buffer

TakeOldest(c) ==
  /\ wire' = [wire EXCEPT ![c] = Append(@, Head(buffer[c]))]
  /\ buffer' = [buffer EXCEPT ![c] = Tail(@)]

WriteTick(c) ==
  /\ buffer[c] # << >> /\ peer[c] = "up" /\ status[c] # "left"
  /\ TakeOldest(c)
  /\ UNCHANGED << mainVars, pipeVars, status, joined, unregister, peer, panicked >>

\* The peer goes away: the client's reader unregisters it and its writer ends.
PeerLeaves(c) ==
  /\ status[c] \in {"queued", "member"} /\ peer[c] = "up"
  /\ peer' = [peer EXCEPT ![c] = "gone"]
  /\ unregister' = unregister \cup {c}
  /\ UNCHANGED << mainVars, pipeVars, status, joined, buffer, wire, panicked >>

Client(c) == Accept(c) \/ WriteTick(c) \/ PeerLeaves(c)

-----------------------------------------------------------------------------

Alive == main \notin {"fatal", "exited"} /\ panicked = "nobody"

Main == StartAdapters \/ StartServers \/ Shutdown \/ AcceptLoopLeaves

Next ==
  /\ Alive
  /\ \/ Main \/ Arbitrator \/ Hub
     \/ \E s \in Sessions : Reader(s)
     \/ \E c \in Clients : Client(c)

Spec == Init /\ [][Next]_vars

\* Goroutines run when they can (WF).  A select with several ready cases chooses
\* at random, so no case is passed over for ever (SF).
FairSpec ==
  /\ Spec
  /\ WF_vars(Alive /\ main \in ShuttingDown /\ (Shutdown \/ AcceptLoopLeaves))
  /\ \A c \in Clients :
       /\ SF_vars(Alive /\ TakeUnregister(c))
       /\ WF_vars(Alive /\ WriteTick(c))
       /\ WF_vars(Alive /\ \E send \in sends : send[1] = c /\ Send(c, send[2]))

-----------------------------------------------------------------------------
(* Properties *)

Ticks == [from : Sessions, n : Nat \ {0}]

MainOK ==
  /\ main \in StartingUp \cup ShuttingDown \cup {"running", "fatal"}
  /\ accepting \in BOOLEAN
  /\ stopped \subseteq {"tcp", "massive", "twelve", "arbitrator", "hub"}
  /\ closedChans \subseteq {"adapter", "hub"} /\ serving \subseteq {"ws", "tcp"}
  /\ panicked \in Sessions \cup {"nobody", "arbitrator"}

ReadersOK ==
  /\ reader \in [Sessions -> {"none", "read", "send", "left"}]
  /\ read \in [Sessions -> Nat]
  /\ \A s \in Sessions : reader[s] = "send" => read[s] > 0

ChannelsOK ==
  /\ adapterChan \in Seq(Ticks) /\ Len(adapterChan) <= AdapterCap
  /\ hubChan \in Seq(Ticks) /\ Len(hubChan) <= HubCap

ArbOK ==
  /\ arb \in {"select", "hold", "left"}
  /\ IF arb = "hold" THEN arbTick \in Ticks ELSE arbTick = NoTick

HubOK ==
  /\ loops \subseteq {"registration", "broadcast"} /\ log \in Seq(Ticks)
  /\ sends \subseteq Clients \X Ticks /\ unregister \subseteq Clients
  /\ overlapped \subseteq Clients \X Ticks \X Ticks

ClientsOK ==
  /\ status \in [Clients -> {"outside", "queued", "member", "left"}]
  /\ joined \in [Clients -> Nat] /\ peer \in [Clients -> {"up", "gone"}]
  /\ wire \in [Clients -> Seq(Ticks)] /\ buffer \in [Clients -> Seq(Ticks)]
  /\ \A c \in Clients : Len(buffer[c]) <= SendCap

\* Type invariant.
TypeOK == MainOK /\ ReadersOK /\ ChannelsOK /\ ArbOK /\ HubOK /\ ClientsOK

\* What was sent to a client so far, and what it was to be sent: the ticks
\* broadcast since it was registered.
Sending(c) == { send[2] : send \in { x \in sends : x[1] = c } }
Received(c) == Range(wire[c]) \cup Range(buffer[c]) \cup Sending(c)
Owed(c) == { log[i] : i \in joined[c] + 1 .. Len(log) }

\* A client misses nothing silently (hub.go, broadcast): while it is registered,
\* its peer is there and no eviction is on its way, every tick broadcast since
\* it was registered has reached it or is on its way, and nothing else.
NoSilentGap ==
  \A c \in Clients :
    status[c] = "member" /\ peer[c] = "up" /\ c \notin unregister
      => Received(c) = Owed(c)

\* The order in which a client gets its ticks, and the order of their broadcast.
Queue(c) == wire[c] \o buffer[c]
Newer(s, t) == \E i, j \in DOMAIN log : i < j /\ log[i] = t /\ log[j] = s

\* Every tick is sent by a goroutine of its own (hub.go, broadcast), so a client
\* may get two ticks in the wrong order; but only if the goroutine of the older
\* one had not yet ended when the newer one was broadcast.
OvertakenOnlyInFlight ==
  \A c \in Clients : \A i, j \in DOMAIN Queue(c) :
    LET first == Queue(c)[i]
        second == Queue(c)[j]
    IN  i < j /\ Newer(first, second) => << c, second, first >> \in overlapped

\* Ticks keep, per session, the order in which they were read, from the reader
\* through both channels to the hub, and no client sees a tick twice.
Stream == INSTANCE TickStream
RefinesStream == Stream!Spec

\* "Graceful shutdown" (README.md): after a signal the process ends.
ShutdownEnds == main = "wait_tcp" ~> ~Alive

\* A tick sent to a client (the i-th one broadcast) is written to it, or the
\* client is evicted.
DeliveredOrEvicted ==
  \A c \in Clients, i \in 1 .. MaxTicks :
    i \in DOMAIN log /\ << c, log[i] >> \in sends ~>
      \/ i \in DOMAIN log /\ log[i] \in Range(wire[c])
      \/ status[c] = "left" \/ peer[c] # "up" \/ main \in ShuttingDown \/ ~Alive

\* "Graceful shutdown" (README.md): no reader sends a tick on adapterChan, nor the
\* arbitrator on hubChan, after main has closed the channel.
NoTickOnClosed == panicked = "nobody"

=============================================================================
