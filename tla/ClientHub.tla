----------------------------- MODULE ClientHub -----------------------------
(***************************************************************************)
(* The hub of internal/engine/hub.go with the clients it serves: the       *)
(* WebSocket clients of internal/server/websocket.go and the TCP clients   *)
(* of internal/server/tcp_internal.go.                                     *)
(*                                                                         *)
(* Running concurrently: for each connection the handler that registers    *)
(* it, its reader and its writer; the hub's registrationLoop and           *)
(* broadcastLoop; one goroutine per client for each tick broadcast, which  *)
(* calls Send; and main, which stops the servers and then the hub.         *)
(*                                                                         *)
(* Ticks are counted, not told apart: what matters here is whether a       *)
(* client's send channel has room and whether it is still open.            *)
(***************************************************************************)
EXTENDS Integers, Sequences, FiniteSets

CONSTANTS
  Clients,       \* connections ever made; client ids are never reused
  Kind,          \* client -> "ws" or "tcp"
  NoClient,      \* nobody is being closed
  SendCap,       \* capacity of a send channel (256 and 1024)
  RegisterCap,   \* capacity of the register channel (100)
  UnregisterCap, \* capacity of the unregister channel (100)
  Faults,        \* how a peer may fail: a subset of {"stalled", "gone"}
  MaxInflight    \* bound: goroutines sending to one client at a time

ASSUME KindAssumption == Kind \in [Clients -> {"ws", "tcp"}]
ASSUME NoClientAssumption == NoClient \notin Clients
ASSUME FaultsAssumption == Faults \subseteq {"stalled", "gone"}
ASSUME CapAssumption ==
  {SendCap, RegisterCap, UnregisterCap, MaxInflight} \subseteq Nat \ {0}

VARIABLES
  \* the hub
  clients, clientCount, mu,    \* the map, its counter, who holds the lock
  register, unregister,        \* the two channels of the registrationLoop
  closing,                     \* client between the two steps of Close
  looping, broadcasting,       \* the two loops of the hub are running
  accepting, stopChan, stop,   \* main: servers up, stopChan closed, hub.Stop
  \* the clients
  handler, reader, writer,     \* the goroutines of a connection
  conn, peer,                  \* the connection and the other end of it
  closed, sendOpen, buffered,  \* the closed flag and the send channel
  sends,                       \* goroutines of broadcast inside Send
  wire,                        \* history: first thing written to the peer
  panicked                     \* the process died sending on a closed channel

hubVars == << clients, clientCount, mu, closing >>
queueVars == << register, unregister >>
mainVars == << looping, broadcasting, accepting, stopChan, stop >>
pumpVars == << handler, reader, writer >>
connVars == << conn, peer, wire >>
chanVars == << closed, sendOpen, buffered >>
vars == << hubVars, queueVars, mainVars, pumpVars, connVars, chanVars, sends,
           panicked >>

NoSends == [ spawned |-> 0, checked |-> 0, failed |-> 0 ]

Inflight(c) == sends[c].spawned + sends[c].checked + sends[c].failed

Init ==
  /\ clients = {} /\ clientCount = 0 /\ mu = "free" /\ closing = NoClient
  /\ register = << >> /\ unregister = << >>
  /\ looping = TRUE /\ broadcasting = TRUE
  /\ accepting = TRUE /\ stopChan = FALSE /\ stop = "no"
  /\ handler = [c \in Clients |-> "none"]
  /\ reader = [c \in Clients |-> "none"] /\ writer = [c \in Clients |-> "none"]
  /\ conn = [c \in Clients |-> "none"] /\ peer = [c \in Clients |-> "up"]
  /\ wire = [c \in Clients |-> "nothing"]
  /\ closed = [c \in Clients |-> FALSE] /\ sendOpen = [c \in Clients |-> TRUE]
  /\ buffered = [c \in Clients |-> 0]
  /\ sends = [c \in Clients |-> NoSends]
  /\ panicked = FALSE

-----------------------------------------------------------------------------
(* Connections: handleWebSocket and handleConnection *)

Connect(c) ==
  /\ accepting
  /\ handler[c] = "none"
  /\ handler' = [handler EXCEPT ![c] = "register"]
  /\ conn' = [conn EXCEPT ![c] = "open"]
  /\ UNCHANGED << hubVars, queueVars, mainVars, reader, writer, peer, wire,
                  chanVars, sends, panicked >>

\* Hub.Register: a send that blocks while the channel is full.
Register(c) ==
  /\ handler[c] = "register"
  /\ Len(register) < RegisterCap
  /\ register' = Append(register, c)
  /\ handler' = [handler EXCEPT ![c] = IF Kind[c] = "tcp" THEN "welcome" ELSE "start"]
  /\ UNCHANGED << hubVars, unregister, mainVars, reader, writer, connVars,
                  chanVars, sends, panicked >>

\* What reaches the peer of a TCP client; only the first item is remembered.
Deliver(c, item) ==
  wire' = [wire EXCEPT ![c] =
             IF Kind[c] = "tcp" /\ @ = "nothing" /\ peer[c] # "gone" THEN item ELSE @]

\* A TCP client is greeted on the connection itself, past the send channel.
Welcome(c) ==
  /\ handler[c] = "welcome"
  /\ handler' = [handler EXCEPT ![c] = "start"]
  /\ IF conn[c] = "open" THEN Deliver(c, "welcome") ELSE wire' = wire
  /\ UNCHANGED << hubVars, queueVars, mainVars, reader, writer, conn, peer,
                  chanVars, sends, panicked >>

StartedPumps(c) ==
  /\ writer' = [writer EXCEPT ![c] = "running"]
  /\ reader' = [reader EXCEPT ![c] = "reading"]
  /\ UNCHANGED << hubVars, queueVars, mainVars, connVars, chanVars, sends,
                  panicked >>

\* Mutant: the loops are started before the greeting is written.
StartPumpsEarly(c) ==
  /\ reader[c] = "none" /\ handler[c] \in {"welcome", "start"}
  /\ handler' = [handler EXCEPT ![c] = IF @ = "welcome" THEN "welcome" ELSE "done"]
  /\ StartedPumps(c)

StartPumps(c) ==
  /\ reader[c] = "none" /\ handler[c] = "start"
  /\ handler' = [handler EXCEPT ![c] = "done"]
  /\ StartedPumps(c)

\* The peer stops reading ("stalled") or goes away ("gone").
PeerFails(c, how) ==
  /\ conn[c] = "open" /\ peer[c] \in {"up", "stalled"} \ {how}
  /\ peer' = [peer EXCEPT ![c] = how]
  /\ UNCHANGED << hubVars, queueVars, mainVars, pumpVars, conn, wire, chanVars,
                  sends, panicked >>

-----------------------------------------------------------------------------
(* readPump and readLoop *)

\* A read fails.  A WebSocket reader also gives up on a peer that answers no
\* ping (pongWait); a TCP reader waits for a stalled peer for ever.
ReadFails(c) ==
  /\ reader[c] = "reading"
  /\ \/ conn[c] = "closed" \/ peer[c] = "gone"
     \/ Kind[c] = "ws" /\ peer[c] = "stalled"
  /\ reader' = [reader EXCEPT ![c] = "unregister"]
  /\ UNCHANGED << hubVars, queueVars, mainVars, handler, writer, connVars,
                  chanVars, sends, panicked >>

\* The deferred Unregister, a send that blocks while the channel is full, and
\* the deferred close of the connection.
ReaderLeaves(c) ==
  /\ reader[c] = "unregister"
  /\ Len(unregister) < UnregisterCap
  /\ unregister' = Append(unregister, c)
  /\ conn' = [conn EXCEPT ![c] = "closed"]
  /\ reader' = [reader EXCEPT ![c] = "done"]
  /\ UNCHANGED << hubVars, register, mainVars, handler, writer, peer, wire,
                  chanVars, sends, panicked >>

-----------------------------------------------------------------------------
(* writePump and writeLoop *)

WriteTick(c) ==
  /\ writer[c] = "running" /\ buffered[c] > 0
  /\ conn[c] = "open"
  /\ Kind[c] = "tcp" => ~closed[c]
  /\ buffered' = [buffered EXCEPT ![c] = @ - 1]
  /\ Deliver(c, "tick")
  /\ UNCHANGED << hubVars, queueVars, mainVars, pumpVars, conn, peer, closed,
                  sendOpen, sends, panicked >>

WriterGone(c) ==
  /\ writer' = [writer EXCEPT ![c] = "done"]
  /\ conn' = [conn EXCEPT ![c] = "closed"]
  /\ UNCHANGED << hubVars, queueVars, mainVars, handler, reader, peer, wire,
                  closed, sendOpen, sends, panicked >>

\* Writing a tick, or a WebSocket ping, fails: the connection is closed, or the
\* peer does not read until the write deadline.
WriteFails(c) ==
  /\ writer[c] = "running"
  /\ conn[c] = "closed" \/ peer[c] # "up"
  /\ \/ buffered[c] > 0 /\ buffered' = [buffered EXCEPT ![c] = @ - 1]
     \/ Kind[c] = "ws" /\ buffered' = buffered
  /\ WriterGone(c)

\* The send channel is closed and drained, or a TCP writer sees the flag.
WriterLeaves(c) ==
  /\ writer[c] = "running"
  /\ \/ ~sendOpen[c] /\ buffered[c] = 0 /\ buffered' = buffered
     \/ /\ Kind[c] = "tcp" /\ closed[c] /\ buffered[c] > 0
        /\ buffered' = [buffered EXCEPT ![c] = @ - 1]
  /\ WriterGone(c)

-----------------------------------------------------------------------------
(* broadcastLoop and Send *)

\* A tick goes to every client registered now, each in its own goroutine.
Broadcast ==
  /\ broadcasting
  /\ mu = "free"
  /\ clients # {}
  /\ \A c \in clients : Inflight(c) < MaxInflight
  /\ sends' = [c \in Clients |->
                 IF c \in clients THEN [sends[c] EXCEPT !.spawned = @ + 1]
                 ELSE sends[c]]
  /\ UNCHANGED << hubVars, queueVars, mainVars, pumpVars, connVars, chanVars,
                  panicked >>

Moved(c, from, to) == [sends EXCEPT ![c][from] = @ - 1, ![c][to] = @ + 1]

\* Send reads the closed flag ...
SendCheck(c) ==
  /\ sends[c].spawned > 0
  /\ sends' = Moved(c, "spawned", IF closed[c] THEN "failed" ELSE "checked")
  /\ UNCHANGED << hubVars, queueVars, mainVars, pumpVars, connVars, chanVars,
                  panicked >>

\* ... and then uses the channel: it queues the tick,
SendQueue(c) ==
  /\ sends[c].checked > 0
  /\ sendOpen[c] /\ buffered[c] < SendCap
  /\ buffered' = [buffered EXCEPT ![c] = @ + 1]
  /\ sends' = [sends EXCEPT ![c].checked = @ - 1]
  /\ UNCHANGED << hubVars, queueVars, mainVars, pumpVars, connVars, closed,
                  sendOpen, panicked >>

\* Mutant: a tick that finds the channel full is dropped without an error.
RejectFullSilently(c) == [sends EXCEPT ![c].checked = @ - 1]

RejectFull(c) == Moved(c, "checked", "failed")

\* or finds it full: an error to the caller,
SendFull(c) ==
  /\ sends[c].checked > 0
  /\ sendOpen[c] /\ buffered[c] = SendCap
  /\ sends' = RejectFull(c)
  /\ UNCHANGED << hubVars, queueVars, mainVars, pumpVars, connVars, chanVars,
                  panicked >>

\* or finds it closed since: a panic, and no goroutine runs any further.
SendPanics(c) ==
  /\ sends[c].checked > 0
  /\ ~sendOpen[c]
  /\ panicked' = TRUE
  /\ UNCHANGED << hubVars, queueVars, mainVars, pumpVars, connVars, chanVars,
                  sends >>

\* After an error the goroutine unregisters the client, blocking while the
\* channel is full.
SendUnregisters(c) ==
  /\ sends[c].failed > 0
  /\ Len(unregister) < UnregisterCap
  /\ unregister' = Append(unregister, c)
  /\ sends' = [sends EXCEPT ![c].failed = @ - 1]
  /\ UNCHANGED << hubVars, register, mainVars, pumpVars, connVars, chanVars,
                  panicked >>

LeaveBroadcast ==
  /\ broadcasting /\ stopChan
  /\ broadcasting' = FALSE
  /\ UNCHANGED << hubVars, queueVars, looping, accepting, stopChan, stop,
                  pumpVars, connVars, chanVars, sends, panicked >>

-----------------------------------------------------------------------------
(* Close, in two steps: the flag is set by compare-and-swap, then the send
   channel and the connection are closed. *)

\* Mutant: the flag is not set.
StartCloseUnflagged(c) ==
  /\ closed' = closed
  /\ closing' = c

StartClose(c) ==
  /\ closed' = [closed EXCEPT ![c] = TRUE]
  /\ closing' = c

FinishClose ==
  /\ sendOpen' = [sendOpen EXCEPT ![closing] = FALSE]
  /\ conn' = [conn EXCEPT ![closing] = "closed"]
  /\ closing' = NoClient

-----------------------------------------------------------------------------
(* registrationLoop: its select takes any case that is ready. *)

TakeRegister ==
  /\ looping /\ mu = "free"
  /\ register # << >>
  /\ register' = Tail(register)
  /\ clients' = clients \cup {Head(register)}
  /\ clientCount' = IF Head(register) \in clients THEN clientCount ELSE clientCount + 1
  /\ UNCHANGED << mu, closing, unregister, mainVars, pumpVars, connVars, chanVars,
                  sends, panicked >>

\* The client is in the map: it is removed and closed under the lock.
TakeUnregister ==
  /\ looping /\ mu = "free"
  /\ unregister # << >> /\ Head(unregister) \in clients
  /\ unregister' = Tail(unregister)
  /\ clients' = clients \ {Head(unregister)}
  /\ mu' = "registration"
  /\ StartClose(Head(unregister))
  /\ UNCHANGED << clientCount, register, mainVars, pumpVars, connVars, sendOpen,
                  buffered, sends, panicked >>

Unregistered ==
  /\ mu = "registration"
  /\ FinishClose
  /\ clientCount' = clientCount - 1
  /\ mu' = "free"
  /\ UNCHANGED << clients, queueVars, mainVars, pumpVars, peer, wire, closed,
                  buffered, sends, panicked >>

UnknownTaken ==
  /\ looping /\ mu = "free"
  /\ unregister # << >> /\ Head(unregister) \notin clients
  /\ unregister' = Tail(unregister)
  /\ UNCHANGED << clients, closing, register, mainVars, pumpVars, connVars,
                  chanVars, sends, panicked >>

\* Mutant: a client that is not there is counted down again.
TakeUnknownUncounts ==
  UnknownTaken /\ clientCount' = clientCount - 1 /\ UNCHANGED mu

\* Mutant: this branch returns without releasing the lock.
TakeUnknownKeepsLock ==
  UnknownTaken /\ mu' = "leaked" /\ UNCHANGED clientCount

\* The client is not in the map (any more): nothing to do.
TakeUnknown == UnknownTaken /\ UNCHANGED << clientCount, mu >>

LeaveRegistration ==
  /\ looping /\ mu # "registration" /\ stopChan
  /\ looping' = FALSE
  /\ UNCHANGED << hubVars, queueVars, broadcasting, accepting, stopChan, stop,
                  pumpVars, connVars, chanVars, sends, panicked >>

-----------------------------------------------------------------------------
(* main and Hub.Stop *)

\* tcpServer.Stop and wsServer.Stop: no new connections.  Handlers that run
\* already go on.
StopServers ==
  /\ accepting
  /\ accepting' = FALSE
  /\ UNCHANGED << hubVars, queueVars, looping, broadcasting, stopChan, stop,
                  pumpVars, connVars, chanVars, sends, panicked >>

StopHub ==
  /\ ~accepting /\ stop = "no"
  /\ stopChan' = TRUE
  /\ stop' = "lock"
  /\ UNCHANGED << hubVars, queueVars, looping, broadcasting, accepting, pumpVars,
                  connVars, chanVars, sends, panicked >>

StopLocks ==
  /\ stop = "lock" /\ mu = "free"
  /\ mu' = "stop"
  /\ stop' = "close"
  /\ UNCHANGED << clients, clientCount, closing, queueVars, looping, broadcasting,
                  accepting, stopChan, pumpVars, connVars, chanVars, sends,
                  panicked >>

StopCloses(c) ==
  /\ stop = "close" /\ closing = NoClient
  /\ c \in clients /\ ~closed[c]
  /\ StartClose(c)
  /\ UNCHANGED << clients, clientCount, mu, queueVars, mainVars, pumpVars,
                  connVars, sendOpen, buffered, sends, panicked >>

StopClosed ==
  /\ stop = "close" /\ closing # NoClient
  /\ FinishClose
  /\ UNCHANGED << clients, clientCount, mu, queueVars, mainVars, pumpVars, peer,
                  wire, closed, buffered, sends, panicked >>

StopUnlocks ==
  /\ stop = "close" /\ closing = NoClient
  /\ \A c \in clients : closed[c]
  /\ clients' = {}
  /\ mu' = "free"
  /\ stop' = "done"
  /\ UNCHANGED << clientCount, closing, queueVars, looping, broadcasting,
                  accepting, stopChan, pumpVars, connVars, chanVars, sends,
                  panicked >>

-----------------------------------------------------------------------------

ClientSteps(c) ==
  \/ Connect(c) \/ Register(c) \/ Welcome(c) \/ StartPumps(c)
  \/ \E how \in Faults : PeerFails(c, how)
  \/ ReadFails(c) \/ ReaderLeaves(c)
  \/ WriteTick(c) \/ WriteFails(c) \/ WriterLeaves(c)
  \/ SendCheck(c) \/ SendQueue(c) \/ SendFull(c) \/ SendPanics(c)
  \/ SendUnregisters(c)

HubSteps ==
  \/ Broadcast \/ LeaveBroadcast
  \/ TakeRegister \/ TakeUnregister \/ Unregistered \/ TakeUnknown
  \/ LeaveRegistration

MainSteps ==
  \/ StopServers \/ StopHub \/ StopLocks
  \/ \E c \in Clients : StopCloses(c)
  \/ StopClosed \/ StopUnlocks

Next ==
  /\ ~panicked
  /\ HubSteps \/ MainSteps \/ \E c \in Clients : ClientSteps(c)

Spec == Init /\ [][Next]_vars

\* Scheduling.  Go runs every goroutine that can run (WF); a goroutine blocked
\* on a channel is queued and served in turn, and a select with several ready
\* cases chooses among them at random (SF).  A write to a peer that has stopped
\* reading fails when the write deadline expires (SF).
FairClient(c) ==
  /\ WF_vars(~panicked /\ (StartPumps(c) \/ Welcome(c) \/ WriterLeaves(c)))
  /\ WF_vars(~panicked /\ ReadFails(c))
  /\ SF_vars(~panicked /\ WriteFails(c))
  /\ WF_vars(~panicked /\ SendCheck(c))
  /\ WF_vars(~panicked /\ (SendQueue(c) \/ SendFull(c) \/ SendPanics(c)))
  /\ SF_vars(~panicked /\ Register(c))
  /\ SF_vars(~panicked /\ ReaderLeaves(c))
  /\ SF_vars(~panicked /\ SendUnregisters(c))

FairHub ==
  /\ SF_vars(~panicked /\ TakeRegister)
  /\ SF_vars(~panicked /\ (TakeUnregister \/ TakeUnknown))
  /\ WF_vars(~panicked /\ Unregistered)

FairStop ==
  /\ SF_vars(~panicked /\ StopLocks)
  /\ WF_vars(~panicked /\ ( \/ \E c \in Clients : StopCloses(c)
                            \/ StopClosed \/ StopUnlocks ))

\* The market: ticks keep coming.
TicksFlow == SF_vars(~panicked /\ Broadcast)

FairSpec == Spec /\ FairHub /\ FairStop /\ TicksFlow /\ \A c \in Clients : FairClient(c)

-----------------------------------------------------------------------------
(* Properties *)

Queued(chan) == { chan[i] : i \in DOMAIN chan }

MapOK ==
  /\ clients \subseteq Clients /\ clientCount \in Int
  /\ mu \in {"free", "registration", "stop"}
  /\ closing \in Clients \cup {NoClient}

QueuesOK ==
  /\ register \in Seq(Clients) /\ Len(register) <= RegisterCap
  /\ unregister \in Seq(Clients) /\ Len(unregister) <= UnregisterCap

LoopsOK ==
  /\ looping \in BOOLEAN /\ broadcasting \in BOOLEAN
  /\ accepting \in BOOLEAN /\ stopChan \in BOOLEAN /\ panicked \in BOOLEAN
  /\ stop \in {"no", "lock", "close", "done"}

PumpsOK ==
  /\ handler \in [Clients -> {"none", "register", "welcome", "start", "done"}]
  /\ reader \in [Clients -> {"none", "reading", "unregister", "done"}]
  /\ writer \in [Clients -> {"none", "running", "done"}]

ConnsOK ==
  /\ conn \in [Clients -> {"none", "open", "closed"}]
  /\ peer \in [Clients -> {"up", "stalled", "gone"}]
  /\ wire \in [Clients -> {"nothing", "welcome", "tick"}]

ChansOK ==
  /\ closed \in [Clients -> BOOLEAN] /\ sendOpen \in [Clients -> BOOLEAN]
  /\ buffered \in [Clients -> 0 .. SendCap]

SendsOK ==
  /\ sends \in [Clients -> [DOMAIN NoSends -> Nat]]
  /\ \A c \in Clients : Inflight(c) <= MaxInflight

\* Type invariant.
TypeOK ==
  /\ MapOK /\ QueuesOK /\ LoopsOK
  /\ PumpsOK /\ ConnsOK /\ ChansOK /\ SendsOK

\* The counter behind /health, /stats and the metrics is the size of the map
\* whenever the lock is free, however many goroutines unregister a client.
CountExact ==
  mu = "free" /\ stop # "done" => clientCount = Cardinality(clients)

\* Between two critical sections every registered connection waits in the
\* register channel, or is in the map with its channel open, or has been
\* closed for good; and no send channel is ever closed twice.
NobodyForgotten ==
  /\ mu = "free" =>
       \A c \in Clients :
         /\ c \in clients => ~closed[c] /\ sendOpen[c]
         /\ closed[c] <=> ~sendOpen[c]
         /\ handler[c] \notin {"none", "register"} =>
              \/ c \in Queued(register) \cup clients
              \/ closed[c] /\ conn[c] = "closed"
  /\ closing # NoClient => closed[closing] /\ sendOpen[closing]

\* The hub's map and the closed flags, with the lock, the two channels and the two
\* steps of Close in between, implement a plain membership: nobody joins twice
\* or returns once closed, and Hub.Stop leaves no open client in the map.
Membership ==
  INSTANCE HubMembership WITH
    status <- [c \in Clients |-> IF closed[c] THEN "left"
                                 ELSE IF c \in clients THEN "member" ELSE "outside"],
    stopped <- stop = "done"

RefinesMembership == Membership!Spec

\* handleConnection greets a TCP client before anything else reaches it, even
\* though the client is registered, and so broadcast to, before the greeting.
WelcomeFirst == \A c \in Clients : Kind[c] = "tcp" => wire[c] # "tick"

\* While ticks flow, a client whose peer stalled or left does not stay in the
\* map: the failing read, the write deadline or the full send channel evicts
\* it, also when its unregistration was taken before its registration.
DeadEvicted ==
  \A c \in Clients :
    c \in clients /\ peer[c] # "up" ~> c \notin clients \/ panicked \/ stopChan

\* Hub.Stop gets the lock and returns, whatever the loops are doing.
StopReturns == stop = "lock" ~> stop = "done" \/ panicked

\* "Thread-Safe: Uses channels and atomic operations" (README.md): Send never
\* uses a send channel that Close has closed.
NoSendOnClosed == ~panicked

\* "ClientCount returns the current number of connected clients" (hub.go): when
\* nothing is under way, the counter is the number of open connections.
Settled ==
  /\ register = << >> /\ unregister = << >> /\ mu = "free" /\ ~stopChan
  /\ \A c \in Clients :
       /\ Inflight(c) = 0
       /\ handler[c] \in {"none", "done"} /\ reader[c] # "unregister"
       /\ conn[c] = "closed" => reader[c] = "done" /\ writer[c] = "done"

CountIsConnected ==
  Settled => clientCount = Cardinality({ c \in Clients : conn[c] = "open" })

=============================================================================
