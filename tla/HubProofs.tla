----------------------------- MODULE HubProofs -----------------------------
(***************************************************************************)
(* Proofs about ClientHub: its type invariant, the exact counter, the fate *)
(* of every connection, the greeting of TCP clients, and the refinement of *)
(* HubMembership, for any clients, kinds, faults and channel capacities.   *)
(***************************************************************************)
EXTENDS ClientHub, TLAPS, FiniteSetTheorems, SequenceTheorems

\* A client is in the middle of Close exactly in a critical section, and the two
\* critical sections that close clients are the registration loop's and Stop's.
LockInv ==
  /\ mu = "stop" <=> stop = "close"
  /\ mu = "free" => closing = NoClient
  /\ mu = "registration" => closing \in Clients /\ closing \notin clients
  /\ closing # NoClient => closed[closing] /\ sendOpen[closing]

\* The flag and the send channel differ only in the middle of Close; a closed
\* client is in the map only while Stop works through it.
ClosedInv ==
  \A c \in Clients :
    /\ c # closing => (closed[c] <=> ~sendOpen[c])
    /\ c \in clients /\ closed[c] => mu = "stop"
    /\ ~sendOpen[c] => conn[c] = "closed"

\* From the moment it is sent to the hub, a client waits in the channel, or is in
\* the map, or has been closed; it waits there once only.
PlaceInv ==
  /\ \A i, j \in DOMAIN register : register[i] = register[j] => i = j
  /\ \A c \in Clients :
       /\ handler[c] \in {"none", "register"} =>
            c \notin Queued(register) \cup clients /\ ~closed[c]
       /\ handler[c] \notin {"none", "register"} =>
            c \in Queued(register) \cup clients \/ closed[c]
       /\ c \in Queued(register) => c \notin clients /\ ~closed[c]

\* While the registration loop closes a client it has not counted it down yet.
CountInv ==
  /\ IsFiniteSet(clients)
  /\ stop # "done" =>
       clientCount = Cardinality(clients) + IF mu = "registration" THEN 1 ELSE 0

\* A TCP handler that is past the greeting has delivered it, unless the
\* connection was closed or the peer gone; only then is a writer started.
GreetInv ==
  \A c \in Clients :
    /\ handler[c] # "none" => conn[c] # "none"
    /\ writer[c] # "none" => handler[c] = "done"
    /\ Kind[c] = "tcp" /\ handler[c] \in {"start", "done"} =>
         wire[c] = "welcome" \/ conn[c] = "closed" \/ peer[c] = "gone"

PlacesInv == LockInv /\ ClosedInv /\ PlaceInv
WelcomeInv == WelcomeFirst /\ GreetInv

-----------------------------------------------------------------------------

\* The steps of the critical sections: who is in the map, who is being closed.
HubMoves ==
  \/ TakeRegister \/ TakeUnregister \/ Unregistered
  \/ StopHub \/ StopLocks \/ (\E c \in Clients : StopCloses(c))
  \/ StopClosed \/ StopUnlocks

QueueMoves ==
  \/ TakeRegister \/ TakeUnregister \/ TakeUnknown
  \/ \E c \in Clients : Register(c) \/ ReaderLeaves(c) \/ SendUnregisters(c)

LoopMoves ==
  \/ LeaveBroadcast \/ LeaveRegistration \/ StopServers
  \/ StopHub \/ StopLocks \/ StopUnlocks
  \/ \E c \in Clients : SendPanics(c)

PumpMoves ==
  \E c \in Clients :
    \/ Connect(c) \/ Register(c) \/ Welcome(c) \/ StartPumps(c)
    \/ ReadFails(c) \/ ReaderLeaves(c) \/ WriteFails(c) \/ WriterLeaves(c)

ConnMoves ==
  \/ Unregistered \/ StopClosed
  \/ \E c \in Clients :
       \/ Connect(c) \/ Welcome(c) \/ ReaderLeaves(c)
       \/ (\E how \in Faults : PeerFails(c, how))
       \/ WriteTick(c) \/ WriteFails(c) \/ WriterLeaves(c)

BufferMoves ==
  \E c \in Clients : WriteTick(c) \/ WriteFails(c) \/ WriterLeaves(c) \/ SendQueue(c)

SendMoves ==
  \/ Broadcast
  \/ \E c \in Clients : SendCheck(c) \/ SendQueue(c) \/ SendFull(c) \/ SendUnregisters(c)

PlaceMoves ==
  \/ TakeRegister \/ TakeUnregister \/ StopUnlocks
  \/ \E c \in Clients :
       StopCloses(c) \/ Connect(c) \/ Register(c) \/ Welcome(c) \/ StartPumps(c)

\* What a step may change: each part of the state is left alone by all steps
\* but those listed for it.
LEMMA Frame ==
  ASSUME [Next]_vars
  PROVE  /\ HubMoves \/ UNCHANGED << hubVars, closed, sendOpen, stop >>
         /\ QueueMoves \/ UNCHANGED queueVars
         /\ LoopMoves \/ UNCHANGED << mainVars, panicked >>
         /\ PumpMoves \/ UNCHANGED pumpVars
         /\ ConnMoves \/ UNCHANGED connVars
         /\ BufferMoves \/ UNCHANGED buffered
         /\ SendMoves \/ UNCHANGED sends
         /\ PlaceMoves \/ UNCHANGED << handler, register, clients, closed >>
<1> USE DEF vars, hubVars, queueVars, mainVars, pumpVars, connVars, chanVars
<1>1. CASE HubSteps
  BY <1>1 DEF HubSteps, HubMoves, QueueMoves, LoopMoves, PumpMoves, ConnMoves,
     BufferMoves, SendMoves, PlaceMoves, Broadcast, LeaveBroadcast, TakeRegister, TakeUnregister,
     Unregistered, TakeUnknown, UnknownTaken, LeaveRegistration, StartClose, FinishClose
<1>2. CASE MainSteps
  BY <1>2 DEF MainSteps, HubMoves, QueueMoves, LoopMoves, PumpMoves, ConnMoves,
     BufferMoves, SendMoves, PlaceMoves, StopServers, StopHub, StopLocks, StopCloses, StopClosed,
     StopUnlocks, StartClose, FinishClose
<1>3. ASSUME NEW c \in Clients, ClientSteps(c)
      PROVE  /\ HubMoves \/ UNCHANGED << hubVars, closed, sendOpen, stop >>
             /\ QueueMoves \/ UNCHANGED queueVars
             /\ LoopMoves \/ UNCHANGED << mainVars, panicked >>
             /\ PumpMoves \/ UNCHANGED pumpVars
             /\ ConnMoves \/ UNCHANGED connVars
             /\ BufferMoves \/ UNCHANGED buffered
             /\ SendMoves \/ UNCHANGED sends
             /\ PlaceMoves \/ UNCHANGED << handler, register, clients, closed >>
  <2>1. CASE Connect(c) \/ Register(c) \/ Welcome(c) \/ StartPumps(c)
    BY <2>1 DEF PumpMoves, QueueMoves, ConnMoves, PlaceMoves, Connect, Register, Welcome,
       StartPumps, StartedPumps
  <2>2. CASE (\E how \in Faults : PeerFails(c, how)) \/ ReadFails(c) \/ ReaderLeaves(c)
    BY <2>2 DEF PumpMoves, QueueMoves, ConnMoves, PeerFails, ReadFails, ReaderLeaves
  <2>3. CASE WriteTick(c) \/ WriteFails(c) \/ WriterLeaves(c)
    BY <2>3 DEF PumpMoves, ConnMoves, BufferMoves, WriteTick, WriteFails,
       WriterLeaves, WriterGone
  <2>4. CASE SendCheck(c) \/ SendQueue(c) \/ SendFull(c) \/ SendPanics(c)
             \/ SendUnregisters(c)
    BY <2>4 DEF QueueMoves, LoopMoves, BufferMoves, SendMoves, SendCheck, SendQueue,
       SendFull, SendPanics, SendUnregisters
  <2> QED BY <1>3, <2>1, <2>2, <2>3, <2>4 DEF ClientSteps
<1>4. CASE UNCHANGED vars
  BY <1>4
<1> QED BY <1>1, <1>2, <1>3, <1>4 DEF Next

-----------------------------------------------------------------------------
(* Types *)

LEMMA Capacities ==
  /\ SendCap \in Nat \ {0} /\ RegisterCap \in Nat \ {0}
  /\ UnregisterCap \in Nat \ {0} /\ MaxInflight \in Nat \ {0}
  BY CapAssumption

LEMMA InitTyped == Init => TypeOK
<1> SUFFICES ASSUME Init PROVE TypeOK
  OBVIOUS
<1> USE Capacities DEF Init
<1>1. MapOK /\ LoopsOK
  <2>1. MapOK
    BY DEF MapOK
  <2>2. LoopsOK
    BY DEF LoopsOK
  <2> QED BY <2>1, <2>2
<1>2. QueuesOK
  <2>1. register = << >> /\ unregister = << >>
    OBVIOUS
  <2>2. Len(register) = 0 /\ Len(unregister) = 0
    BY <2>1
  <2> QED BY <2>1, <2>2, Capacities DEF QueuesOK
<1>3. PumpsOK /\ ConnsOK
  BY DEF PumpsOK, ConnsOK
<1>4. ChansOK
  BY DEF ChansOK
<1>5. SendsOK
  BY DEF SendsOK, NoSends, Inflight
<1> QED BY <1>1, <1>2, <1>3, <1>4, <1>5 DEF TypeOK

LEMMA NextTyped == TypeOK /\ [Next]_vars => TypeOK'
<1> SUFFICES ASSUME TypeOK, [Next]_vars PROVE TypeOK'
  OBVIOUS
<1> USE Capacities DEF TypeOK
<1>1. MapOK'
  <2>1. CASE HubMoves
    <3> USE DEF MapOK, QueuesOK, ChansOK
    <3>1. CASE TakeRegister
      BY <3>1 DEF TakeRegister
    <3>2. CASE TakeUnregister
      BY <3>2 DEF TakeUnregister, StartClose
    <3>3. CASE Unregistered
      BY <3>3 DEF Unregistered, FinishClose
    <3>4. CASE StopHub \/ StopLocks \/ StopUnlocks
      BY <3>4 DEF StopHub, StopLocks, StopUnlocks, hubVars
    <3>5. CASE StopClosed \/ \E c \in Clients : StopCloses(c)
      BY <3>5 DEF StopClosed, StopCloses, StartClose, FinishClose
    <3> QED BY <2>1, <3>1, <3>2, <3>3, <3>4, <3>5 DEF HubMoves
  <2>2. CASE UNCHANGED hubVars
    BY <2>2 DEF hubVars, MapOK
  <2> QED BY <2>1, <2>2, Frame
<1>2. QueuesOK'
  <2> USE DEF QueuesOK
  <2>1. CASE TakeRegister
    BY <2>1 DEF TakeRegister
  <2>2. CASE TakeUnregister \/ TakeUnknown
    <3>1. unregister # << >> /\ unregister' = Tail(unregister) /\ register' = register
      BY <2>2 DEF TakeUnregister, TakeUnknown, UnknownTaken
    <3> QED BY <3>1
  <2>3. ASSUME NEW c \in Clients, Register(c)
        PROVE  QueuesOK'
    BY <2>3 DEF Register
  <2>4. ASSUME NEW c \in Clients, ReaderLeaves(c) \/ SendUnregisters(c)
        PROVE  QueuesOK'
    <3>1. /\ Len(unregister) < UnregisterCap /\ unregister' = Append(unregister, c)
          /\ register' = register
      BY <2>4 DEF ReaderLeaves, SendUnregisters
    <3> QED BY <3>1
  <2>5. CASE UNCHANGED queueVars
    BY <2>5 DEF queueVars
  <2> QED BY <2>1, <2>2, <2>3, <2>4, <2>5, Frame DEF QueueMoves
<1>3. LoopsOK'
  <2> USE DEF LoopsOK
  <2>1. CASE LoopMoves
    BY <2>1 DEF LoopMoves, LeaveBroadcast, LeaveRegistration, StopServers, StopHub,
       StopLocks, StopUnlocks, SendPanics, mainVars
  <2>2. CASE UNCHANGED << mainVars, panicked >>
    BY <2>2 DEF mainVars
  <2> QED BY <2>1, <2>2, Frame
<1>4. PumpsOK'
  <2> USE DEF PumpsOK
  <2>1. CASE PumpMoves
    BY <2>1 DEF PumpMoves, Connect, Register, Welcome, StartPumps, StartedPumps,
       ReadFails, ReaderLeaves, WriteFails, WriterLeaves, WriterGone
  <2>2. CASE UNCHANGED pumpVars
    BY <2>2 DEF pumpVars
  <2> QED BY <2>1, <2>2, Frame
<1>5. ConnsOK'
  <2> USE DEF ConnsOK
  <2>1. CASE Unregistered \/ StopClosed
    BY <2>1 DEF Unregistered, StopClosed, FinishClose
  <2>2. ASSUME NEW c \in Clients,
               Connect(c) \/ Welcome(c) \/ ReaderLeaves(c) \/ WriteTick(c)
                 \/ WriteFails(c) \/ WriterLeaves(c)
        PROVE  ConnsOK'
    BY <2>2 DEF Connect, Welcome, ReaderLeaves, WriteTick, WriteFails, WriterLeaves,
       WriterGone, Deliver
  <2>3. ASSUME NEW c \in Clients, NEW how \in Faults, PeerFails(c, how)
        PROVE  ConnsOK'
    BY <2>3, FaultsAssumption DEF PeerFails
  <2>4. CASE UNCHANGED connVars
    BY <2>4 DEF connVars
  <2> QED BY <2>1, <2>2, <2>3, <2>4, Frame DEF ConnMoves
<1>6. ChansOK'
  <2> USE DEF ChansOK
  <2>1. closed' \in [Clients -> BOOLEAN] /\ sendOpen' \in [Clients -> BOOLEAN]
    <3>1. CASE HubMoves
      BY <3>1 DEF HubMoves, TakeRegister, TakeUnregister, Unregistered, StopHub,
         StopLocks, StopCloses, StopClosed, StopUnlocks, StartClose, FinishClose, chanVars
    <3> QED BY <3>1, Frame
  <2>2. buffered' \in [Clients -> 0 .. SendCap]
    <3>1. CASE BufferMoves
      BY <3>1 DEF BufferMoves, WriteTick, WriteFails, WriterLeaves, SendQueue
    <3> QED BY <3>1, Frame
  <2> QED BY <2>1, <2>2
<1>7. SendsOK'
  <2> USE DEF SendsOK, NoSends, Inflight
  <2>1. CASE Broadcast
    BY <2>1 DEF Broadcast
  <2>2. ASSUME NEW c \in Clients, SendCheck(c)
        PROVE  SendsOK'
    <3>1. CASE closed[c]
      BY <2>2, <3>1 DEF SendCheck, Moved
    <3>2. CASE ~closed[c]
      BY <2>2, <3>2 DEF SendCheck, Moved
    <3> QED BY <3>1, <3>2
  <2>3. ASSUME NEW c \in Clients, SendQueue(c) \/ SendUnregisters(c)
        PROVE  SendsOK'
    <3>1. CASE SendQueue(c)
      BY <3>1 DEF SendQueue
    <3>2. CASE SendUnregisters(c)
      <4>1. sends[c].failed > 0 /\ sends' = [sends EXCEPT ![c].failed = @ - 1]
        BY <3>2 DEF SendUnregisters
      <4> QED BY <4>1
    <3> QED BY <2>3, <3>1, <3>2
  <2>4. ASSUME NEW c \in Clients, SendFull(c)
        PROVE  SendsOK'
    BY <2>4 DEF SendFull, RejectFull, Moved
  <2> QED BY <2>1, <2>2, <2>3, <2>4, Frame DEF SendMoves
<1> QED BY <1>1, <1>2, <1>3, <1>4, <1>5, <1>6, <1>7 DEF TypeOK

\* The channels never exceed their capacity, and the goroutines of a connection
\* and the lock stay in the phases the code has (hub.go, websocket.go,
\* tcp_internal.go).
THEOREM TypeCorrect == Spec => []TypeOK
  BY InitTyped, NextTyped, PTL DEF Spec

-----------------------------------------------------------------------------
(* Where a client is *)

\* A closed connection stays closed, a client id being used once.
LEMMA ConnStaysClosed ==
  ASSUME TypeOK, [Next]_vars, NEW c \in Clients,
         conn[c] = "closed", handler[c] # "none"
  PROVE  conn'[c] = "closed"
<1> USE DEF TypeOK, ConnsOK
<1>1. CASE Unregistered \/ StopClosed
  BY <1>1 DEF Unregistered, StopClosed, FinishClose
<1>2. ASSUME NEW d \in Clients,
             Connect(d) \/ Welcome(d) \/ ReaderLeaves(d) \/ WriteTick(d)
               \/ WriteFails(d) \/ WriterLeaves(d)
      PROVE  conn'[c] = "closed"
  BY <1>2 DEF Connect, Welcome, ReaderLeaves, WriteTick, WriteFails, WriterLeaves,
     WriterGone
<1>3. ASSUME NEW d \in Clients, NEW how \in Faults, PeerFails(d, how)
      PROVE  conn'[c] = "closed"
  BY <1>3 DEF PeerFails
<1>4. CASE UNCHANGED connVars
  BY <1>4 DEF connVars
<1> QED BY <1>1, <1>2, <1>3, <1>4, Frame DEF ConnMoves

LEMMA InitPlaces == Init => PlacesInv
<1> SUFFICES ASSUME Init PROVE PlacesInv
  OBVIOUS
<1>1. LockInv
  BY DEF Init, LockInv
<1>2. ClosedInv
  BY DEF Init, ClosedInv
<1>3. PlaceInv
  BY DEF Init, PlaceInv, Queued
<1> QED BY <1>1, <1>2, <1>3 DEF PlacesInv

\* The clients waiting to be taken, after a client is added and after one is taken.
LEMMA QueuedAppend ==
  ASSUME NEW q \in Seq(Clients), NEW c \in Clients, c \notin Queued(q),
         \A i, j \in DOMAIN q : q[i] = q[j] => i = j
  PROVE  /\ Queued(Append(q, c)) = Queued(q) \cup {c}
         /\ \A i, j \in DOMAIN Append(q, c) :
              Append(q, c)[i] = Append(q, c)[j] => i = j
<1>1. /\ Len(q) \in Nat /\ DOMAIN q = 1 .. Len(q)
      /\ DOMAIN Append(q, c) = 1 .. Len(q) + 1
      /\ \A i \in 1 .. Len(q) : Append(q, c)[i] = q[i]
      /\ Append(q, c)[Len(q) + 1] = c
  BY AppendProperties, LenProperties
<1>2. Queued(Append(q, c)) = Queued(q) \cup {c}
  BY <1>1 DEF Queued
<1>3. ASSUME NEW i \in DOMAIN Append(q, c), NEW j \in DOMAIN Append(q, c),
             Append(q, c)[i] = Append(q, c)[j]
      PROVE  i = j
  BY <1>1, <1>3 DEF Queued
<1> QED BY <1>2, <1>3

LEMMA QueuedTail ==
  ASSUME NEW q \in Seq(Clients), q # << >>,
         \A i, j \in DOMAIN q : q[i] = q[j] => i = j
  PROVE  /\ Head(q) \in Clients
         /\ Queued(q) = Queued(Tail(q)) \cup {Head(q)}
         /\ Head(q) \notin Queued(Tail(q))
         /\ \A i, j \in DOMAIN Tail(q) : Tail(q)[i] = Tail(q)[j] => i = j
<1>1. /\ Len(q) \in Nat \ {0} /\ DOMAIN q = 1 .. Len(q) /\ Head(q) = q[1]
      /\ Head(q) \in Clients
      /\ DOMAIN Tail(q) = 1 .. Len(q) - 1
      /\ \A i \in 1 .. Len(q) - 1 : Tail(q)[i] = q[i + 1]
  BY HeadTailProperties, LenProperties, EmptySeq
<1>2. \A i \in 2 .. Len(q) : i - 1 \in DOMAIN Tail(q) /\ Tail(q)[i - 1] = q[i]
  BY <1>1
<1>3. Queued(q) = Queued(Tail(q)) \cup {Head(q)}
  <2>1. \A i \in DOMAIN q : q[i] \in Queued(Tail(q)) \cup {Head(q)}
    <3>1. ASSUME NEW i \in 2 .. Len(q) PROVE q[i] \in Queued(Tail(q))
      BY <1>2 DEF Queued
    <3>2. \A i \in DOMAIN q : i = 1 \/ i \in 2 .. Len(q)
      BY <1>1
    <3> QED BY <1>1, <3>1, <3>2
  <2>2. Queued(q) \subseteq Queued(Tail(q)) \cup {Head(q)}
    BY <2>1 DEF Queued
  <2>3. Queued(Tail(q)) \cup {Head(q)} \subseteq Queued(q)
    BY <1>1 DEF Queued
  <2> QED BY <2>2, <2>3
<1>4. Head(q) \notin Queued(Tail(q))
  BY <1>1 DEF Queued
<1>5. ASSUME NEW i \in DOMAIN Tail(q), NEW j \in DOMAIN Tail(q),
             Tail(q)[i] = Tail(q)[j]
      PROVE  i = j
  BY <1>1, <1>5
<1> QED BY <1>1, <1>3, <1>4, <1>5

\* The client the registration loop takes next is in neither place already.
LEMMA NextInLine ==
  ASSUME TypeOK, PlaceInv, register # << >>
  PROVE  /\ Head(register) \in Clients
         /\ Head(register) \notin clients /\ ~closed[Head(register)]
         /\ Queued(register) = Queued(Tail(register)) \cup {Head(register)}
         /\ Head(register) \notin Queued(Tail(register))
         /\ \A i, j \in DOMAIN Tail(register) :
              Tail(register)[i] = Tail(register)[j] => i = j
<1>1. /\ Head(register) \in Clients
      /\ Queued(register) = Queued(Tail(register)) \cup {Head(register)}
      /\ Head(register) \notin Queued(Tail(register))
      /\ \A i, j \in DOMAIN Tail(register) :
           Tail(register)[i] = Tail(register)[j] => i = j
  BY QueuedTail DEF TypeOK, QueuesOK, PlaceInv
<1>2. Head(register) \notin clients /\ ~closed[Head(register)]
  BY <1>1 DEF PlaceInv
<1> QED BY <1>1, <1>2

LEMMA NextPlaces == TypeOK /\ PlacesInv /\ [Next]_vars => PlacesInv'
<1> SUFFICES ASSUME TypeOK, PlacesInv, [Next]_vars PROVE PlacesInv'
  OBVIOUS
<1> USE NoClientAssumption DEF PlacesInv
<1>1. LockInv'
  <2> USE DEF TypeOK, MapOK, QueuesOK, ChansOK, LockInv, ClosedInv
  <2>1. CASE TakeRegister
    BY <2>1 DEF TakeRegister, chanVars, mainVars
  <2>2. CASE TakeUnregister
    BY <2>2 DEF TakeUnregister, StartClose, mainVars
  <2>3. CASE Unregistered
    BY <2>3 DEF Unregistered, FinishClose, mainVars
  <2>4. CASE StopHub \/ StopLocks
    BY <2>4 DEF StopHub, StopLocks, hubVars, chanVars
  <2>5. ASSUME NEW c \in Clients, StopCloses(c)
        PROVE  LockInv'
    BY <2>5 DEF StopCloses, StartClose, mainVars
  <2>6. CASE StopClosed
    BY <2>6 DEF StopClosed, FinishClose, mainVars
  <2>7. CASE StopUnlocks
    BY <2>7 DEF StopUnlocks, chanVars
  <2>8. CASE UNCHANGED << hubVars, closed, sendOpen, stop >>
    BY <2>8 DEF hubVars
  <2> QED BY <2>1, <2>2, <2>3, <2>4, <2>5, <2>6, <2>7, <2>8, Frame DEF HubMoves
<1>2. ClosedInv'
  <2> SUFFICES ASSUME NEW c \in Clients
               PROVE  /\ c # closing' => (closed'[c] <=> ~sendOpen'[c])
                      /\ c \in clients' /\ closed'[c] => mu' = "stop"
                      /\ ~sendOpen'[c] => conn'[c] = "closed"
    BY DEF ClosedInv
  <2>1. ~sendOpen[c] => conn'[c] = "closed"
    <3>1. ~sendOpen[c] => closed[c]
      BY DEF LockInv, ClosedInv
    <3>2. closed[c] => handler[c] # "none"
      BY DEF PlaceInv
    <3> QED BY <3>1, <3>2, ConnStaysClosed DEF ClosedInv
  <2> USE DEF TypeOK, MapOK, QueuesOK, ChansOK, ConnsOK, LockInv, ClosedInv
  <2>2. CASE TakeRegister
    <3>1. /\ register # << >> /\ clients' = clients \cup {Head(register)}
          /\ UNCHANGED << mu, closing, closed, sendOpen >>
      BY <2>2 DEF TakeRegister, chanVars
    <3>2. ~closed[Head(register)]
      BY <3>1, NextInLine
    <3> QED BY <2>1, <3>1, <3>2
  <2>3. CASE TakeUnregister
    BY <2>1, <2>3 DEF TakeUnregister, StartClose, mainVars
  <2>4. CASE Unregistered
    BY <2>1, <2>4 DEF Unregistered, FinishClose, mainVars
  <2>5. CASE StopHub \/ StopLocks
    BY <2>1, <2>5 DEF StopHub, StopLocks, hubVars, chanVars
  <2>6. ASSUME NEW d \in Clients, StopCloses(d)
        PROVE  /\ c # closing' => (closed'[c] <=> ~sendOpen'[c])
               /\ c \in clients' /\ closed'[c] => mu' = "stop"
               /\ ~sendOpen'[c] => conn'[c] = "closed"
    BY <2>1, <2>6 DEF StopCloses, StartClose, mainVars
  <2>7. CASE StopClosed
    BY <2>1, <2>7 DEF StopClosed, FinishClose, mainVars
  <2>8. CASE StopUnlocks
    BY <2>1, <2>8 DEF StopUnlocks, chanVars
  <2>9. CASE UNCHANGED << hubVars, closed, sendOpen, stop >>
    BY <2>1, <2>9 DEF hubVars
  <2> QED BY <2>2, <2>3, <2>4, <2>5, <2>6, <2>7, <2>8, <2>9, Frame DEF HubMoves
<1>3. PlaceInv'
  <2> USE DEF TypeOK, MapOK, QueuesOK, ChansOK, PumpsOK
  <2>1. CASE TakeRegister
    <3>1. /\ register' = Tail(register) /\ register # << >>
          /\ clients' = clients \cup {Head(register)}
          /\ UNCHANGED << handler, closed >>
      BY <2>1 DEF TakeRegister, pumpVars, chanVars
    <3> QED BY <3>1, NextInLine DEF PlaceInv
  <2>2. CASE TakeUnregister
    <3>1. /\ UNCHANGED << handler, register >>
          /\ Head(unregister) \in clients
          /\ clients' = clients \ {Head(unregister)}
          /\ closed' = [closed EXCEPT ![Head(unregister)] = TRUE]
      BY <2>2 DEF TakeUnregister, StartClose, pumpVars
    <3> QED BY <3>1 DEF PlaceInv
  <2>3. CASE StopUnlocks
    <3>1. /\ UNCHANGED << handler, register, closed >>
          /\ clients' = {} /\ \A c \in clients : closed[c]
      BY <2>3 DEF StopUnlocks, queueVars, pumpVars, chanVars
    <3> QED BY <3>1 DEF PlaceInv
  <2>4. ASSUME NEW c \in Clients, StopCloses(c)
        PROVE  PlaceInv'
    <3>1. /\ UNCHANGED << handler, register, clients >> /\ c \in clients
          /\ closed' = [closed EXCEPT ![c] = TRUE]
      BY <2>4 DEF StopCloses, StartClose, queueVars, pumpVars
    <3> QED BY <3>1 DEF PlaceInv
  <2>5. ASSUME NEW c \in Clients, Connect(c) \/ Welcome(c) \/ StartPumps(c)
        PROVE  PlaceInv'
    <3>1. /\ UNCHANGED << register, clients, closed >>
          /\ \/ handler[c] = "none" /\ handler' = [handler EXCEPT ![c] = "register"]
             \/ handler[c] \notin {"none", "register"}
                /\ \E h \in {"start", "done"} : handler' = [handler EXCEPT ![c] = h]
      BY <2>5 DEF Connect, Welcome, StartPumps, StartedPumps, hubVars, queueVars, chanVars
    <3> QED BY <3>1 DEF PlaceInv
  <2>6. ASSUME NEW c \in Clients, Register(c)
        PROVE  PlaceInv'
    <3>1. /\ UNCHANGED << clients, closed >> /\ register' = Append(register, c)
          /\ handler[c] = "register"
          /\ \E h \in {"welcome", "start"} : handler' = [handler EXCEPT ![c] = h]
      BY <2>6 DEF Register, hubVars, chanVars
    <3>2. /\ Queued(Append(register, c)) = Queued(register) \cup {c}
          /\ \A i, j \in DOMAIN Append(register, c) :
               Append(register, c)[i] = Append(register, c)[j] => i = j
      BY <3>1, QueuedAppend DEF PlaceInv
    <3> QED BY <3>1, <3>2 DEF PlaceInv
  <2>7. CASE UNCHANGED << handler, register, clients, closed >>
    BY <2>7 DEF PlaceInv, Queued
  <2> QED BY <2>1, <2>2, <2>3, <2>4, <2>5, <2>6, <2>7, Frame DEF PlaceMoves
<1> QED BY <1>1, <1>2, <1>3 DEF PlacesInv

LEMMA Places == Spec => [](TypeOK /\ PlacesInv)
<1>1. Init => TypeOK /\ PlacesInv
  BY InitTyped, InitPlaces
<1>2. TypeOK /\ PlacesInv /\ [Next]_vars => (TypeOK /\ PlacesInv)'
  BY NextTyped, NextPlaces
<1> QED BY <1>1, <1>2, PTL DEF Spec

\* However the two channels, the lock and the two steps of Close interleave, a
\* connection the hub was told of is waiting, in the map and open, or closed for
\* good, and no send channel is closed twice (hub.go, registrationLoop and Stop).
THEOREM NobodyIsForgotten == Spec => []NobodyForgotten
<1>1. PlacesInv => NobodyForgotten
  BY NoClientAssumption DEF PlacesInv, LockInv, ClosedInv, PlaceInv, NobodyForgotten
<1> QED BY <1>1, Places, PTL

-----------------------------------------------------------------------------
(* The counter *)

LEMMA InitCount == Init => CountInv
  BY FS_EmptySet DEF Init, CountInv

LEMMA NextCount == TypeOK /\ PlacesInv /\ CountInv /\ [Next]_vars => CountInv'
<1> SUFFICES ASSUME TypeOK, PlacesInv, CountInv, [Next]_vars PROVE CountInv'
  OBVIOUS
<1> USE DEF CountInv
<1>1. CASE TakeRegister
  <2>1. /\ mu = "free" /\ mu' = mu /\ stop' = stop /\ register # << >>
        /\ clients' = clients \cup {Head(register)}
        /\ clientCount' = IF Head(register) \in clients THEN clientCount ELSE clientCount + 1
    BY <1>1 DEF TakeRegister, mainVars
  <2>2. /\ IsFiniteSet(clients')
        /\ Cardinality(clients') = IF Head(register) \in clients THEN Cardinality(clients)
                                   ELSE Cardinality(clients) + 1
        /\ Cardinality(clients) \in Nat
    BY <2>1, FS_AddElement, FS_CardinalityType
  <2> QED BY <2>1, <2>2
<1>2. CASE TakeUnregister
  <2>1. /\ mu = "free" /\ mu' = "registration" /\ stop' = stop
        /\ clients' = clients \ {Head(unregister)} /\ Head(unregister) \in clients
        /\ clientCount' = clientCount
    BY <1>2 DEF TakeUnregister, mainVars
  <2>2. /\ IsFiniteSet(clients') /\ Cardinality(clients') = Cardinality(clients) - 1
        /\ Cardinality(clients) \in Nat
    BY <2>1, FS_RemoveElement, FS_CardinalityType
  <2> QED BY <2>1, <2>2
<1>3. CASE Unregistered
  <2>1. /\ mu = "registration" /\ mu' = "free" /\ stop' = stop /\ clients' = clients
        /\ clientCount' = clientCount - 1
    BY <1>3 DEF Unregistered, mainVars
  <2>2. Cardinality(clients) \in Nat
    BY FS_CardinalityType
  <2> QED BY <2>1, <2>2
<1>4. CASE StopHub \/ StopLocks
  BY <1>4 DEF StopHub, StopLocks, hubVars
<1>5. CASE StopClosed \/ \E c \in Clients : StopCloses(c)
  BY <1>5 DEF StopClosed, StopCloses, mainVars
<1>6. CASE StopUnlocks
  BY <1>6, FS_EmptySet DEF StopUnlocks
<1>7. CASE UNCHANGED << hubVars, closed, sendOpen, stop >>
  BY <1>7 DEF hubVars
<1> QED BY <1>1, <1>2, <1>3, <1>4, <1>5, <1>6, <1>7, Frame DEF HubMoves

\* However many goroutines unregister a client, each client is counted up once
\* and down once (hub.go:104-124).
THEOREM CountIsExact == Spec => []CountExact
<1>1. Init => CountInv
  BY InitCount
<1>2. TypeOK /\ PlacesInv /\ CountInv /\ [Next]_vars => CountInv'
  BY NextCount
<1>3. CountInv => CountExact
  BY FS_CardinalityType DEF CountInv, CountExact
<1> QED BY <1>1, <1>2, <1>3, Places, PTL DEF Spec

-----------------------------------------------------------------------------
(* The greeting *)

LEMMA InitWelcome == Init => WelcomeInv
  BY DEF Init, WelcomeInv, WelcomeFirst, GreetInv

\* What Deliver does, whoever delivers what.
LEMMA Delivered ==
  ASSUME ConnsOK, NEW c \in Clients, NEW item, Deliver(c, item)
  PROVE  /\ \A d \in Clients : d # c => wire'[d] = wire[d]
         /\ wire'[c] = IF Kind[c] = "tcp" /\ wire[c] = "nothing" /\ peer[c] # "gone"
                       THEN item ELSE wire[c]
  BY DEF ConnsOK, Deliver

LEMMA NextWelcome == TypeOK /\ WelcomeInv /\ [Next]_vars => WelcomeInv'
<1> SUFFICES ASSUME TypeOK, WelcomeInv, [Next]_vars PROVE WelcomeInv'
  OBVIOUS
<1> USE DEF TypeOK, PumpsOK, ConnsOK, WelcomeInv, WelcomeFirst, GreetInv
<1>1. CASE Unregistered \/ StopClosed
  BY <1>1 DEF Unregistered, StopClosed, FinishClose, pumpVars
<1>2. ASSUME NEW c \in Clients, Connect(c) \/ Register(c)
      PROVE  WelcomeInv'
  BY <1>2, KindAssumption DEF Connect, Register, connVars
<1>3. ASSUME NEW c \in Clients, Welcome(c)
      PROVE  WelcomeInv'
  <2>1. /\ handler[c] = "welcome" /\ handler' = [handler EXCEPT ![c] = "start"]
        /\ UNCHANGED << writer, conn, peer >>
        /\ IF conn[c] = "open" THEN Deliver(c, "welcome") ELSE wire' = wire
    BY <1>3 DEF Welcome
  <2>2. CASE conn[c] = "open"
    BY <2>1, <2>2, Delivered
  <2>3. CASE conn[c] # "open"
    BY <2>1, <2>3
  <2> QED BY <2>2, <2>3
<1>4. ASSUME NEW c \in Clients, StartPumps(c)
      PROVE  WelcomeInv'
  BY <1>4 DEF StartPumps, StartedPumps, connVars
<1>5. ASSUME NEW c \in Clients, NEW how \in Faults, PeerFails(c, how)
      PROVE  WelcomeInv'
  BY <1>5, FaultsAssumption DEF PeerFails, pumpVars
<1>6. ASSUME NEW c \in Clients, ReadFails(c) \/ ReaderLeaves(c)
      PROVE  WelcomeInv'
  BY <1>6 DEF ReadFails, ReaderLeaves, connVars
<1>7. ASSUME NEW c \in Clients, WriteTick(c)
      PROVE  WelcomeInv'
  <2>1. /\ writer[c] = "running" /\ conn[c] = "open" /\ Deliver(c, "tick")
        /\ UNCHANGED << handler, writer, conn, peer >>
    BY <1>7 DEF WriteTick, pumpVars
  <2>2. Kind[c] = "tcp" => wire[c] = "welcome" \/ peer[c] = "gone"
    BY <2>1
  <2> QED BY <2>1, <2>2, Delivered
<1>8. ASSUME NEW c \in Clients, WriteFails(c) \/ WriterLeaves(c)
      PROVE  WelcomeInv'
  BY <1>8 DEF WriteFails, WriterLeaves, WriterGone
<1>9. CASE UNCHANGED << pumpVars, connVars >>
  BY <1>9 DEF pumpVars, connVars
<1> QED BY <1>1, <1>2, <1>3, <1>4, <1>5, <1>6, <1>7, <1>8, <1>9, Frame
        DEF PumpMoves, ConnMoves

\* A TCP client is greeted before any tick reaches it, although the hub may send
\* to it as soon as it is registered (tcp_internal.go, handleConnection).
THEOREM GreetedFirst == Spec => []WelcomeFirst
<1>1. TypeOK /\ WelcomeInv /\ [Next]_vars => WelcomeInv'
  BY NextWelcome
<1>2. WelcomeInv => WelcomeFirst
  BY DEF WelcomeInv
<1> QED BY InitWelcome, <1>1, <1>2, TypeCorrect, PTL DEF Spec

-----------------------------------------------------------------------------
(* Refinement *)

LEMMA InitMembership == Init => Membership!Init
  BY DEF Init, Membership!Init

\* A step of the hub is a Join, a Leave, the Stop, or changes no membership.
LEMMA NextMembership ==
  TypeOK /\ PlacesInv /\ [Next]_vars => [Membership!Next]_(Membership!vars)
<1> SUFFICES ASSUME TypeOK, PlacesInv, [Next]_vars
             PROVE  Membership!Next \/ UNCHANGED Membership!vars
  OBVIOUS
<1> USE DEF TypeOK, MapOK, QueuesOK, ChansOK, PlacesInv
<1>1. CASE TakeRegister
  <2>1. register # << >>
    BY <1>1 DEF TakeRegister
  <2>2. PICK c \in Clients : c = Head(register) /\ c \notin clients /\ ~closed[c]
    BY <2>1, NextInLine
  <2>3. clients' = clients \cup {c} /\ UNCHANGED << closed, stop >>
    BY <1>1, <2>2 DEF TakeRegister, chanVars, mainVars
  <2>4. Membership!Join(c)
    BY <2>2, <2>3 DEF Membership!Join
  <2> QED BY <2>4 DEF Membership!Next
<1>2. CASE TakeUnregister
  <2>1. PICK c \in Clients : c = Head(unregister) /\ c \in clients
    BY <1>2 DEF TakeUnregister
  <2>2. /\ clients' = clients \ {c} /\ mu = "free"
        /\ closed' = [closed EXCEPT ![c] = TRUE] /\ stop' = stop
    BY <1>2, <2>1 DEF TakeUnregister, StartClose, mainVars
  <2>3. ~closed[c]
    BY <2>1, <2>2 DEF ClosedInv
  <2>4. Membership!Leave(c)
    BY <2>1, <2>2, <2>3 DEF Membership!Leave
  <2> QED BY <2>4 DEF Membership!Next
<1>3. ASSUME NEW c \in Clients, StopCloses(c)
      PROVE  Membership!Next
  <2>1. /\ c \in clients /\ clients' = clients /\ ~closed[c]
        /\ closed' = [closed EXCEPT ![c] = TRUE] /\ stop' = stop
    BY <1>3 DEF StopCloses, StartClose, mainVars
  <2>2. Membership!Leave(c)
    BY <2>1 DEF Membership!Leave
  <2> QED BY <2>2 DEF Membership!Next
<1>4. CASE StopUnlocks
  <2>1. /\ stop = "close" /\ stop' = "done" /\ closed' = closed
        /\ clients' = {} /\ \A c \in clients : closed[c]
    BY <1>4 DEF StopUnlocks, chanVars
  <2>2. Membership!Stop
    BY <2>1 DEF Membership!Stop
  <2> QED BY <2>2 DEF Membership!Next
<1>5. CASE StopHub \/ StopLocks
  BY <1>5 DEF StopHub, StopLocks, hubVars, chanVars, Membership!vars
<1>6. CASE Unregistered \/ StopClosed
  BY <1>6 DEF Unregistered, StopClosed, mainVars, Membership!vars
<1>7. CASE UNCHANGED << hubVars, closed, sendOpen, stop >>
  BY <1>7 DEF hubVars, Membership!vars
<1> QED BY <1>1, <1>2, <1>3, <1>4, <1>5, <1>6, <1>7, Frame DEF HubMoves

\* The hub implements the membership: nobody joins twice, nobody comes back, and
\* Stop leaves no open client in the map (hub.go).
THEOREM Refinement == Spec => RefinesMembership
<1>1. TypeOK /\ PlacesInv /\ [Next]_vars => [Membership!Next]_(Membership!vars)
  BY NextMembership
<1> QED BY InitMembership, <1>1, Places, PTL DEF Spec, RefinesMembership, Membership!Spec

=============================================================================
