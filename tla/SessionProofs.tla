--------------------------- MODULE SessionProofs ---------------------------
(***************************************************************************)
(* Proofs about ProviderSession: its type invariant, and the safety        *)
(* properties of the connection, for any pool of sockets and any number of *)
(* attempts.  The last two are about Massive only.                         *)
(***************************************************************************)
EXTENDS ProviderSession, TLAPS

\* What Start runs before there are any loops.
Connecting == {"dial", "authenticate", "subscribe", "announce", "connected"}

\* attempt counts up only in "dial", "authenticate" and "subscribe", which
\* handleReconnect enters with an attempt left.
Trying == reader \in {"dial", "authenticate", "subscribe"}

AttemptBound ==
  /\ Trying => attempt <= MaxAttempts
  /\ starting => attempt = 0 /\ reader \in Connecting

\* Where a connection is being used there is one.
HoldsConn ==
  reader \in {"authenticate", "subscribe", "announce", "connected", "read", "handle"}
    => conn \in Sockets

\* Before a dial everything is closed.
Down ==
  reader \in {"dial", "attempt"} => \A s \in Sockets : socket[s] = "closed"

\* Stop comes after Start.
StartFirst == starting => stop = "no" /\ reader \in Connecting

\* The parts of the inductive invariant.
TInv == TypeOK /\ AttemptBound
SInv == HoldsConn /\ Down /\ OneOpen
LInv == StartFirst /\ LeavesDisconnected

\* For Massive: no status before the subscription, and the connection being
\* set up is not the one the pinger holds.
MInv ==
  /\ ConnectedMeansSubscribed
  /\ provider = "massive" =>
       /\ reader \in {"dial", "attempt", "authenticate", "subscribe"} => ~connected
       /\ reader = "announce" => subscribed
       /\ reader \in {"authenticate", "subscribe"} => conn # pingConn

-----------------------------------------------------------------------------

\* Initially the session is well typed.
LEMMA InitTyped == Init => TInv
<1> SUFFICES ASSUME Init PROVE TInv
  OBVIOUS
<1>1. FieldsOK
  BY DEF Init, FieldsOK
<1>2. ReaderOK /\ OthersOK
  BY DEF Init, ReaderOK, OthersOK
<1>3. AttemptOK /\ AttemptBound
  BY AttemptsAssumption DEF Init, AttemptOK, AttemptBound, Trying, Connecting
<1> QED BY <1>1, <1>2, <1>3 DEF TInv, TypeOK

\* Every step keeps it well typed and the attempts within their bound.
LEMMA NextTyped == TInv /\ [Next]_vars => TInv'
<1> SUFFICES ASSUME TInv, [Next]_vars PROVE TInv'
  OBVIOUS
<1> USE AttemptsAssumption
<1>1. AttemptOK' /\ AttemptBound'
  <2> USE DEF TInv, TypeOK, ReaderOK, AttemptOK, AttemptBound, Trying, Connecting
  <2>1. CASE Connect
    <3>1. CASE Dial \/ AuthOK \/ SubscribeOK \/ Announce
      BY <3>1 DEF Dial, AuthOK, SubscribeOK, Announce
    <3>2. CASE DialFails \/ AuthFails \/ SubscribeFails
      <4>1. CASE starting
        BY <3>2, <4>1 DEF DialFails, AuthFails, SubscribeFails, ConnectFailed
      <4>2. CASE ~starting
        BY <3>2, <4>2 DEF DialFails, AuthFails, SubscribeFails, ConnectFailed
      <4> QED BY <4>1, <4>2
    <3>3. CASE StartLoops \/ Reconnected
      BY <3>3 DEF StartLoops, Reconnected
    <3> QED BY <2>1, <3>1, <3>2, <3>3 DEF Connect
  <2>2. CASE ReadLoop
    <3>1. CASE ReadLoopTurns \/ ReadMessage \/ ReadFails
      BY <3>1 DEF ReadLoopTurns, ReaderGoesOn, ReadMessage, ReadFails
    <3>2. CASE Handle \/ ReaderLeaves
      BY <3>2 DEF Handle, ReaderLeaves
    <3>3. CASE Reconnect
      <4>1. CASE reconnecting
        BY <3>3, <4>1 DEF Reconnect, AlreadyReconnecting
      <4>2. CASE ~reconnecting
        BY <3>3, <4>2 DEF Reconnect, ReconnectStarts
      <4> QED BY <4>1, <4>2
    <3>4. CASE Sleep \/ GiveUp
      BY <3>4 DEF Sleep, AttemptLeft, GiveUp, LeaveReconnect
    <3> QED BY <2>2, <3>1, <3>2, <3>3, <3>4 DEF ReadLoop
  <2>3. CASE PingLoop
    BY <2>3 DEF PingLoop, PingStarts, PingEnds, PingerLeaves
  <2>4. CASE Main
    BY <2>4 DEF Main, StopSignals, StopCloses
  <2>5. CASE \E s \in Sockets : Lose(s)
    BY <2>5 DEF Lose
  <2>6. CASE UNCHANGED vars
    BY <2>6 DEF vars
  <2> QED BY <2>1, <2>2, <2>3, <2>4, <2>5, <2>6 DEF Next
<1>2. FieldsOK'
  <2> USE DEF TInv, TypeOK, FieldsOK
  <2>1. CASE Connect
    BY <2>1 DEF Connect, Dial, ConnectedByDial, DialFails, AuthOK, AuthFails,
       SubscribeOK, SubscribeFails, Announce, StartLoops, Reconnected, fields
  <2>2. CASE ReadLoop
    BY <2>2 DEF ReadLoop, ReadLoopTurns, ReadMessage, ReadFails, Handle,
       ReaderLeaves, Withdraw, Reconnect, ReconnectStarts, DropConn,
       AlreadyReconnecting, Sleep, GiveUp, LeaveReconnect, fields
  <2>3. CASE PingLoop
    BY <2>3 DEF PingLoop, PingStarts, PingEnds, PingerLeaves, fields
  <2>4. CASE Main
    BY <2>4 DEF Main, StopSignals, StopCloses, fields
  <2>5. CASE \E s \in Sockets : Lose(s)
    BY <2>5 DEF Lose, fields
  <2>6. CASE UNCHANGED vars
    BY <2>6 DEF vars, fields
  <2> QED BY <2>1, <2>2, <2>3, <2>4, <2>5, <2>6 DEF Next
<1>3. ReaderOK'
  <2> USE DEF TInv, TypeOK, ReaderOK
  <2>1. CASE Connect
    BY <2>1 DEF Connect, Dial, DialFails, AuthOK, AuthFails, SubscribeOK,
       SubscribeFails, Announce, StartLoops, Reconnected, ConnectFailed
  <2>2. CASE ReadLoop
    BY <2>2 DEF ReadLoop, ReadLoopTurns, ReaderGoesOn, ReadMessage, ReadFails,
       Handle, ReaderLeaves, Reconnect, ReconnectStarts,
       AlreadyReconnecting, Sleep, GiveUp
  <2>3. CASE PingLoop
    BY <2>3 DEF PingLoop, PingStarts, PingEnds, PingerLeaves
  <2>4. CASE Main
    BY <2>4 DEF Main, StopSignals, StopCloses
  <2>5. CASE \E s \in Sockets : Lose(s)
    BY <2>5 DEF Lose
  <2>6. CASE UNCHANGED vars
    BY <2>6 DEF vars
  <2> QED BY <2>1, <2>2, <2>3, <2>4, <2>5, <2>6 DEF Next
<1>4. OthersOK'
  <2> USE DEF TInv, TypeOK, FieldsOK, OthersOK
  <2>1. CASE Connect
    BY <2>1 DEF Connect, Dial, DialFails, AuthOK, AuthFails, SubscribeOK,
       SubscribeFails, Announce, StartLoops, Reconnected, pingVars, mainVars
  <2>2. CASE ReadLoop
    BY <2>2 DEF ReadLoop, ReadLoopTurns, ReadMessage, ReadFails, Handle,
       ReaderLeaves, Reconnect, Sleep, GiveUp, pingVars, mainVars
  <2>3. CASE PingLoop
    BY <2>3 DEF PingLoop, PingStarts, PingEnds, PingerLeaves, mainVars
  <2>4. CASE Main
    BY <2>4 DEF Main, StopSignals, StopCloses, pingVars
  <2>5. CASE \E s \in Sockets : Lose(s)
    BY <2>5 DEF Lose, pingVars, mainVars
  <2>6. CASE UNCHANGED vars
    BY <2>6 DEF vars, pingVars, mainVars
  <2> QED BY <2>1, <2>2, <2>3, <2>4, <2>5, <2>6 DEF Next
<1> QED BY <1>1, <1>2, <1>3, <1>4 DEF TInv, TypeOK

\* Type correctness of the session, attempts included.
THEOREM TypeCorrect == Spec => []TypeOK
<1>1. Spec => []TInv
  BY InitTyped, NextTyped, PTL DEF Spec
<1> QED BY <1>1, PTL DEF TInv

-----------------------------------------------------------------------------

\* No step leaves a second connection open.
LEMMA NextOneOpen == TInv /\ SInv /\ [Next]_vars => SInv'
<1> SUFFICES ASSUME TInv, SInv, [Next]_vars PROVE SInv'
  OBVIOUS
<1> USE NoSocketAssumption DEF SInv, HoldsConn, Down, OneOpen
<1>0. FieldsOK
  BY DEF TInv, TypeOK
<1>1. CASE Connect
  <2>1. CASE Dial
    BY <1>0, <2>1 DEF Dial, Free, FieldsOK
  <2>2. CASE DialFails
    BY <1>0, <2>2 DEF DialFails, ConnectFailed, fields
  <2>3. CASE AuthFails
    BY <1>0, <2>3 DEF AuthFails, ConnectFailed, fields, FieldsOK
  <2>4. CASE SubscribeFails
    BY <1>0, <2>4 DEF SubscribeFails, ConnectFailed, fields, FieldsOK
  <2>5. CASE AuthOK \/ SubscribeOK \/ Announce \/ StartLoops \/ Reconnected
    BY <1>0, <2>5 DEF AuthOK, SubscribeOK, Announce, StartLoops, Reconnected, fields
  <2> QED BY <1>1, <2>1, <2>2, <2>3, <2>4, <2>5 DEF Connect
<1>2. CASE ReadLoop
  <2>1. CASE ReadLoopTurns
    BY <1>0, <2>1 DEF ReadLoopTurns, ReaderGoesOn, fields, FieldsOK
  <2>2. CASE ReadMessage \/ ReadFails \/ Handle \/ ReaderLeaves
    BY <1>0, <2>2 DEF ReadMessage, ReadFails, Handle, ReaderLeaves,
       fields
  <2>3. CASE Reconnect
    <3>1. CASE reconnecting
      BY <2>3, <3>1 DEF Reconnect, AlreadyReconnecting, fields
    <3>2. CASE ~reconnecting
      BY <1>0, <2>3, <3>2 DEF Reconnect, ReconnectStarts, DropConn, FieldsOK
    <3> QED BY <3>1, <3>2
  <2>4. CASE Sleep \/ GiveUp
    BY <1>0, <2>4 DEF Sleep, GiveUp, fields
  <2> QED BY <1>2, <2>1, <2>2, <2>3, <2>4 DEF ReadLoop
<1>3. CASE PingLoop
  BY <1>3 DEF PingLoop, PingStarts, PingEnds, PingerLeaves, fields
<1>4. CASE Main
  BY <1>0, <1>4 DEF Main, StopSignals, StopCloses, fields, FieldsOK
<1>5. CASE \E s \in Sockets : Lose(s)
  BY <1>0, <1>5 DEF Lose, fields, FieldsOK
<1>6. CASE UNCHANGED vars
  BY <1>6 DEF vars, fields
<1> QED BY <1>1, <1>2, <1>3, <1>4, <1>5, <1>6 DEF Next

\* However often the adapter reconnects, only the current connection is open.
THEOREM OneOpenAlways == Spec => []OneOpen
<1>1. Init => SInv
  BY DEF Init, SInv, HoldsConn, Down, OneOpen
<1>2. Spec => [](TInv /\ SInv)
  BY InitTyped, NextTyped, <1>1, NextOneOpen, PTL DEF Spec
<1> QED BY <1>2, PTL DEF SInv

-----------------------------------------------------------------------------

\* No step sets the status of a session that was stopped and has ended.
LEMMA NextLeaves == LInv /\ [Next]_vars => LInv'
<1> SUFFICES ASSUME LInv, [Next]_vars PROVE LInv'
  OBVIOUS
<1> USE DEF LInv, StartFirst, Connecting, LeavesDisconnected
<1>1. CASE Connect
  <2>1. CASE Dial \/ AuthOK \/ SubscribeOK
    BY <2>1 DEF Dial, AuthOK, SubscribeOK, mainVars
  <2>2. CASE DialFails \/ AuthFails \/ SubscribeFails
    BY <2>2 DEF DialFails, AuthFails, SubscribeFails, ConnectFailed, mainVars
  <2>3. CASE Announce \/ StartLoops \/ Reconnected
    BY <2>3 DEF Announce, StartLoops, Reconnected, mainVars
  <2> QED BY <1>1, <2>1, <2>2, <2>3 DEF Connect
<1>2. CASE ReadLoop
  <2>1. CASE ReadLoopTurns \/ ReadMessage \/ ReadFails \/ Handle
    BY <2>1 DEF ReadLoopTurns, ReaderGoesOn, ReadMessage, ReadFails, Handle,
       fields, mainVars
  <2>2. CASE ReaderLeaves
    BY <2>2 DEF ReaderLeaves, Withdraw, mainVars
  <2>3. CASE Reconnect \/ Sleep \/ GiveUp
    BY <2>3 DEF Reconnect, ReconnectStarts, AlreadyReconnecting, Sleep, GiveUp,
       mainVars
  <2> QED BY <1>2, <2>1, <2>2, <2>3 DEF ReadLoop
<1>3. CASE PingLoop
  BY <1>3 DEF PingLoop, PingStarts, PingEnds, PingerLeaves, fields, mainVars
<1>4. CASE Main
  BY <1>4 DEF Main, StopSignals, StopCloses, fields
<1>5. CASE \E s \in Sockets : Lose(s)
  BY <1>5 DEF Lose, fields, mainVars
<1>6. CASE UNCHANGED vars
  BY <1>6 DEF vars, fields, mainVars
<1> QED BY <1>1, <1>2, <1>3, <1>4, <1>5, <1>6 DEF Next

\* A stopped session whose reader has ended does not report itself connected.
THEOREM StatusAfterStop == Spec => []LeavesDisconnected
<1>1. Init => LInv
  BY DEF Init, LInv, StartFirst, Connecting, LeavesDisconnected
<1>2. Spec => []LInv
  BY <1>1, NextLeaves, PTL DEF Spec
<1> QED BY <1>2, PTL DEF LInv

-----------------------------------------------------------------------------

\* In a Massive session no step reports a connection before its subscription,
\* or hands the connection being set up to the pinger.
LEMMA NextMassive == SInv /\ MInv /\ [Next]_vars => MInv'
<1> SUFFICES ASSUME SInv, MInv, [Next]_vars PROVE MInv'
  OBVIOUS
<1>0. HoldsConn
  BY DEF SInv
<1> USE NoSocketAssumption DEF MInv, ConnectedMeansSubscribed
<1>1. CASE Connect
  <2>1. CASE Dial
    BY <2>1 DEF Dial, ConnectedByDial, Free, pingVars
  <2>2. CASE DialFails \/ AuthFails \/ SubscribeFails
    BY <2>2 DEF DialFails, AuthFails, SubscribeFails, ConnectFailed, fields, pingVars
  <2>3. CASE AuthOK \/ SubscribeOK
    BY <2>3 DEF AuthOK, SubscribeOK, fields, pingVars
  <2>4. CASE Announce
    BY <1>0, <2>4 DEF Announce, HoldsConn, pingVars
  <2>5. CASE StartLoops \/ Reconnected
    BY <2>5 DEF StartLoops, Reconnected, fields
  <2> QED BY <1>1, <2>1, <2>2, <2>3, <2>4, <2>5 DEF Connect
<1>2. CASE ReadLoop
  <2>1. CASE ReadLoopTurns \/ ReadMessage \/ ReadFails \/ Handle
    BY <2>1 DEF ReadLoopTurns, ReaderGoesOn, ReadMessage, ReadFails, Handle,
       fields, pingVars
  <2>2. CASE ReaderLeaves
    BY <2>2 DEF ReaderLeaves, Withdraw, pingVars
  <2>3. CASE Reconnect
    BY <2>3 DEF Reconnect, ReconnectStarts, AlreadyReconnecting, fields, pingVars
  <2>4. CASE Sleep \/ GiveUp
    BY <2>4 DEF Sleep, GiveUp, fields, pingVars
  <2> QED BY <1>2, <2>1, <2>2, <2>3, <2>4 DEF ReadLoop
<1>3. CASE PingLoop
  BY <1>0, <1>3 DEF PingLoop, PingStarts, PingEnds, PingerLeaves, HoldsConn,
     fields
<1>4. CASE Main
  BY <1>4 DEF Main, StopSignals, StopCloses, fields, pingVars
<1>5. CASE \E s \in Sockets : Lose(s)
  BY <1>5 DEF Lose, fields, pingVars
<1>6. CASE UNCHANGED vars
  BY <1>6 DEF vars, fields, pingVars
<1> QED BY <1>1, <1>2, <1>3, <1>4, <1>5, <1>6 DEF Next

\* The connection of a Massive session, through any number of reconnects.
LEMMA MassiveOrder == Spec => []MInv
<1>1. Init => SInv /\ MInv
  BY DEF Init, SInv, HoldsConn, Down, OneOpen, MInv, ConnectedMeansSubscribed
<1>2. Spec => [](TInv /\ SInv)
  BY InitTyped, NextTyped, <1>1, NextOneOpen, PTL DEF Spec
<1>3. SInv /\ MInv /\ [Next]_vars => MInv'
  BY NextMassive
<1> QED BY <1>1, <1>2, <1>3, PTL DEF Spec

\* Massive reports a connection only once it is subscribed (massive_adapter.go,
\* connect).
THEOREM MassiveStatus == Spec => []ConnectedMeansSubscribed
<1>1. MInv => ConnectedMeansSubscribed
  BY DEF MInv
<1> QED BY <1>1, MassiveOrder, PTL

\* The pinger of a Massive session never writes while the subscription is being
\* written (massive_adapter.go, subscribe and pingLoop).
THEOREM MassiveWriters == Spec => []MassiveOneWriter
<1>1. MInv => MassiveOneWriter
  BY DEF MInv, MassiveOneWriter, OneWriter
<1> QED BY <1>1, MassiveOrder, PTL

=============================================================================
