-------------------------- MODULE ProviderSession --------------------------
(***************************************************************************)
(* The session an adapter keeps with its provider: TwelveAdapter of        *)
(* internal/ingestion/twelve_adapter.go, or one MassiveConnection (crypto  *)
(* or forex) of internal/ingestion/massive_adapter.go.                     *)
(*                                                                         *)
(* Two goroutines share the session: the reader, which connects,           *)
(* subscribes, reads, and reconnects for ever, and the pinger.  main runs  *)
(* the first connect itself, before it starts them (so the same program    *)
(* counter serves both), and later stops the session.  Only the reader      *)
(* assigns conn, so it always reads it fresh.                              *)
(*                                                                         *)
(* The two adapters differ in when a connection counts as connected and in *)
(* whether it authenticates: a behaviour is one of either, chosen at the    *)
(* start.                                                                  *)
(*                                                                         *)
(* Sockets are drawn from a pool and reused once nobody holds them.        *)
(***************************************************************************)
EXTENDS Integers, FiniteSets

CONSTANTS
  Providers,     \* the adapters to look at: "twelve", "massive"
  Sockets,       \* pool of connections
  NoSocket,      \* nil
  MaxAttempts    \* max_reconnect_attempts

ASSUME ProvidersAssumption == Providers \subseteq {"twelve", "massive"}
ASSUME NoSocketAssumption == NoSocket \notin Sockets
ASSUME AttemptsAssumption == MaxAttempts \in Nat \ {0}

VARIABLES
  provider,      \* whose adapter this is; never changes
  conn, connected, reconnecting,  \* the fields under the mutex
  socket,        \* state of each connection: "open", "lost" or "closed"
  reader,        \* where connect, readLoop or handleReconnect is
  starting,      \* connect is run by Start
  attempt,       \* local to handleReconnect
  subscribed,    \* history: the subscription of conn was sent
  pinger, pingConn, \* pingLoop and its copy of conn
  stopChan, stop    \* Stop: the channel, and the locked section after it

fields == << conn, connected, reconnecting >>
pingVars == << pinger, pingConn >>
mainVars == << stopChan, stop >>
vars == << provider, fields, socket, reader, starting, attempt, subscribed,
           pingVars, mainVars >>

Init ==
  /\ provider \in Providers
  /\ conn = NoSocket /\ connected = FALSE /\ reconnecting = FALSE
  /\ socket = [s \in Sockets |-> "closed"]
  /\ reader = "dial" /\ starting = TRUE /\ attempt = 0
  /\ subscribed = FALSE
  /\ pinger = "none" /\ pingConn = NoSocket
  /\ stopChan = FALSE /\ stop = "no"

-----------------------------------------------------------------------------
(* connect: dial, authenticate (Massive), subscribe *)

\* Mutant: Massive too is called connected as soon as it is dialled.
ConnectedOnDial == TRUE

\* Twelve Data counts as connected before its subscription, Massive after.
ConnectedByDial == IF provider = "twelve" THEN TRUE ELSE connected

Free(s) == socket[s] = "closed" /\ s \notin {conn, pingConn}

Dial ==
  /\ reader = "dial"
  /\ \E s \in Sockets :
       /\ Free(s)
       /\ socket' = [socket EXCEPT ![s] = "open"]
       /\ conn' = s
  /\ connected' = ConnectedByDial
  /\ subscribed' = FALSE
  /\ reader' = IF provider = "twelve" THEN "subscribe" ELSE "authenticate"
  /\ UNCHANGED << reconnecting, starting, attempt, pingVars, mainVars,
                  provider >>

\* connect returned an error: Start gives up, handleReconnect tries again.
ConnectFailed ==
  /\ reader' = IF starting THEN "failed" ELSE "attempt"
  /\ attempt' = IF starting THEN 0 ELSE attempt + 1
  /\ starting' = FALSE

DialFails ==
  /\ reader = "dial"
  /\ ConnectFailed
  /\ UNCHANGED << fields, socket, subscribed, pingVars, mainVars, provider >>

\* The answer to the auth message, or the greeting of the provider, is read.
AuthOK ==
  /\ reader = "authenticate"
  /\ socket[conn] = "open"
  /\ reader' = "subscribe"
  /\ UNCHANGED << fields, socket, starting, attempt, subscribed, pingVars, mainVars,
                  provider >>

\* Write, read or parse error, or the provider refuses the key.
AuthFails ==
  /\ reader = "authenticate"
  /\ socket' = [socket EXCEPT ![conn] = "closed"]
  /\ ConnectFailed
  /\ UNCHANGED << fields, subscribed, pingVars, mainVars, provider >>

\* The subscription is written (a lost peer need not show at once); Massive
\* then takes the lock to announce the connection.
SubscribeOK ==
  /\ reader = "subscribe"
  /\ socket[conn] # "closed"
  /\ subscribed' = TRUE
  /\ reader' = IF provider = "twelve" THEN "connected" ELSE "announce"
  /\ UNCHANGED << fields, socket, starting, attempt, pingVars, mainVars, provider >>

SubscribeFails ==
  /\ reader = "subscribe"
  /\ socket[conn] # "open"
  /\ socket' = [socket EXCEPT ![conn] = "closed"]
  /\ ConnectFailed
  /\ UNCHANGED << fields, subscribed, pingVars, mainVars, provider >>

Announce ==
  /\ reader = "announce"
  /\ connected' = TRUE
  /\ reader' = "connected"
  /\ UNCHANGED << conn, reconnecting, socket, starting, attempt, subscribed,
                  pingVars, mainVars, provider >>

\* connect returned: Start starts the two loops ...
StartLoops ==
  /\ reader = "connected" /\ starting
  /\ starting' = FALSE
  /\ reader' = "top" /\ pinger' = "wait"
  /\ UNCHANGED << fields, socket, attempt, subscribed, pingConn, mainVars, provider >>

\* ... and handleReconnect returns to readLoop, its flag cleared.
Reconnected ==
  /\ reader = "connected" /\ ~starting
  /\ reconnecting' = FALSE /\ attempt' = 0
  /\ reader' = "top"
  /\ UNCHANGED << conn, connected, socket, starting, subscribed, pingVars, mainVars,
                  provider >>

-----------------------------------------------------------------------------
(* readLoop *)

\* Mutant: the loop does not look at stopChan.
ReaderGoesOnUnstopped ==
  /\ reader = "top"
  /\ reader' = IF conn = NoSocket THEN "reconnect" ELSE "read"

ReaderGoesOn ==
  /\ reader = "top" /\ ~stopChan
  /\ reader' = IF conn = NoSocket THEN "reconnect" ELSE "read"

ReadLoopTurns ==
  /\ ReaderGoesOn
  /\ UNCHANGED << fields, socket, starting, attempt, subscribed, pingVars, mainVars,
                  provider >>

ReadMessage ==
  /\ reader = "read" /\ socket[conn] = "open"
  /\ reader' = "handle"
  /\ UNCHANGED << fields, socket, starting, attempt, subscribed, pingVars, mainVars,
                  provider >>

\* The connection is closed or lost, or silent until the read deadline.
ReadFails ==
  /\ reader = "read" /\ socket[conn] # "open"
  /\ reader' = "reconnect"
  /\ UNCHANGED << fields, socket, starting, attempt, subscribed, pingVars, mainVars,
                  provider >>

\* processMessage: a price is sent on the tick channel, or dropped when that is
\* full; anything else is logged.
Handle ==
  /\ reader = "handle"
  /\ reader' = "top"
  /\ UNCHANGED << fields, socket, starting, attempt, subscribed, pingVars, mainVars,
                  provider >>

\* Mutant: the status is not withdrawn when the loop ends.
WithdrawNothing == connected' = connected

Withdraw == connected' = FALSE

\* stopChan is closed: the loop ends, its deferred function runs.
ReaderLeaves ==
  /\ reader = "top" /\ stopChan
  /\ Withdraw
  /\ reader' = "done"
  /\ UNCHANGED << conn, reconnecting, socket, starting, attempt, subscribed, pingVars,
                  mainVars, provider >>

-----------------------------------------------------------------------------
(* handleReconnect *)

\* Mutant: the old connection is forgotten but not closed.
DropConnUnclosed == socket' = socket /\ conn' = NoSocket

DropConn ==
  /\ socket' = [s \in Sockets |-> IF s = conn THEN "closed" ELSE socket[s]]
  /\ conn' = NoSocket

ReconnectStarts ==
  /\ reconnecting' = TRUE /\ connected' = FALSE
  /\ DropConn
  /\ subscribed' = FALSE
  /\ attempt' = 1
  /\ reader' = "attempt"

AlreadyReconnecting ==
  /\ reader' = "top"
  /\ UNCHANGED << fields, socket, subscribed, attempt >>

Reconnect ==
  /\ reader = "reconnect"
  /\ IF reconnecting THEN AlreadyReconnecting ELSE ReconnectStarts
  /\ UNCHANGED << starting, pingVars, mainVars, provider >>

\* Mutant: one attempt too many.
AttemptLeftOffByOne == attempt <= MaxAttempts + 1

AttemptLeft == attempt <= MaxAttempts

\* stopChan is looked at, then the reader sleeps; when it wakes it dials.
Sleep ==
  /\ reader = "attempt" /\ AttemptLeft /\ ~stopChan
  /\ reader' = "dial"
  /\ UNCHANGED << fields, socket, starting, attempt, subscribed, pingVars, mainVars,
                  provider >>

\* Mutant: the flag stays set after the last attempt.
LeaveReconnectFlagged == attempt' = 0 /\ reconnecting' = reconnecting

LeaveReconnect == attempt' = 0 /\ reconnecting' = FALSE

\* No attempt left, or stopped: back to readLoop.
GiveUp ==
  /\ reader = "attempt" /\ (~AttemptLeft \/ stopChan)
  /\ LeaveReconnect
  /\ reader' = "top"
  /\ UNCHANGED << conn, connected, socket, starting, subscribed, pingVars, mainVars,
                  provider >>

-----------------------------------------------------------------------------
(* pingLoop *)

\* The ticker fires: the status and the connection are read under the lock ...
PingStarts ==
  /\ pinger = "wait"
  /\ connected /\ conn # NoSocket
  /\ pinger' = "write" /\ pingConn' = conn
  /\ UNCHANGED << fields, socket, reader, starting, attempt, subscribed, mainVars,
                  provider >>

\* ... and the heartbeat or ping is written without it; errors are logged.
PingEnds ==
  /\ pinger = "write"
  /\ pinger' = "wait" /\ pingConn' = NoSocket
  /\ UNCHANGED << fields, socket, reader, starting, attempt, subscribed, mainVars,
                  provider >>

PingerLeaves ==
  /\ pinger = "wait" /\ stopChan
  /\ pinger' = "done"
  /\ UNCHANGED << fields, socket, reader, starting, attempt, subscribed, pingConn,
                  mainVars, provider >>

-----------------------------------------------------------------------------
(* main, once both Start calls have returned, and the network *)

StopSignals ==
  /\ ~starting /\ stop = "no"
  /\ stopChan' = TRUE /\ stop' = "close"
  /\ UNCHANGED << fields, socket, reader, starting, attempt, subscribed, pingVars,
                  provider >>

StopCloses ==
  /\ stop = "close"
  /\ socket' = [s \in Sockets |-> IF s = conn THEN "closed" ELSE socket[s]]
  /\ connected' = FALSE
  /\ stop' = "done"
  /\ UNCHANGED << conn, reconnecting, reader, starting, attempt, subscribed, pingVars,
                  stopChan, provider >>

\* The provider or the network drops the connection, or falls silent.
Lose(s) ==
  /\ socket[s] = "open"
  /\ socket' = [socket EXCEPT ![s] = "lost"]
  /\ UNCHANGED << fields, reader, starting, attempt, subscribed, pingVars, mainVars,
                  provider >>

-----------------------------------------------------------------------------

Connect ==
  \/ Dial \/ DialFails \/ AuthOK \/ AuthFails
  \/ SubscribeOK \/ SubscribeFails \/ Announce
  \/ StartLoops \/ Reconnected

ReadLoop ==
  \/ ReadLoopTurns \/ ReadMessage \/ ReadFails \/ Handle \/ ReaderLeaves
  \/ Reconnect \/ Sleep \/ GiveUp

PingLoop == PingStarts \/ PingEnds \/ PingerLeaves

Main == StopSignals \/ StopCloses

Next ==
  \/ Connect \/ ReadLoop \/ PingLoop \/ Main
  \/ \E s \in Sockets : Lose(s)

Spec == Init /\ [][Next]_vars

\* Goroutines run when they can (WF).  The provider is not down for ever: of
\* infinitely many attempts to dial, authenticate and subscribe some succeed
\* (SF).  The pinger is woken by its ticker and by stopChan alike, so its select
\* sees stopChan in the end (SF).
FairSpec ==
  /\ Spec
  /\ WF_vars(Connect \/ ReadLoop)
  /\ SF_vars(Dial)
  /\ SF_vars(AuthOK)
  /\ SF_vars(SubscribeOK)
  /\ WF_vars(PingEnds)
  /\ SF_vars(PingerLeaves)

-----------------------------------------------------------------------------
(* Properties *)

FieldsOK ==
  /\ conn \in Sockets \cup {NoSocket}
  /\ connected \in BOOLEAN /\ reconnecting \in BOOLEAN
  /\ socket \in [Sockets -> {"open", "lost", "closed"}]

ReaderOK ==
  /\ reader \in {"dial", "authenticate", "subscribe", "announce", "connected",
                 "failed", "top", "read", "handle", "reconnect", "attempt", "done"}
  /\ starting \in BOOLEAN /\ subscribed \in BOOLEAN 

AttemptOK == attempt \in 0 .. MaxAttempts + 1

OthersOK ==
  /\ provider \in Providers
  /\ pinger \in {"none", "wait", "write", "done"}
  /\ pingConn \in Sockets \cup {NoSocket}
  /\ stop \in {"no", "close", "done"}
  /\ stopChan \in BOOLEAN

\* Type invariant.
TypeOK == FieldsOK /\ ReaderOK /\ AttemptOK /\ OthersOK

\* However often the adapter reconnects, and however far each attempt came, no
\* connection but the current one is left open.
OneOpen == \A s \in Sockets : socket[s] # "closed" => s = conn

\* IsConnected (massive_adapter.go) is true only of a connection that carries
\* the subscription, so a ping never meets a half-built one.
ConnectedMeansSubscribed ==
  provider = "massive" /\ connected => conn # NoSocket /\ subscribed

\* The websocket library allows one writer of messages at a time ("thread-safe",
\* README.md): the reader's subscription and the pinger's heartbeat never share
\* a connection.
OneWriter == ~ (reader = "subscribe" /\ pinger = "write" /\ pingConn = conn)

\* That is so of Massive, which announces a connection after its subscription.
MassiveOneWriter == provider = "massive" => OneWriter

\* After Stop, and when the reader is gone, the session does not report itself
\* connected, although a reconnect under way may have set the status after
\* Stop cleared it.
LeavesDisconnected ==
  stop = "done" /\ reader \in {"done", "failed"} => ~connected

\* A session that lost its connection comes back, also after all its attempts
\* have failed, as long as the provider can be reached again.
Recovers == reader = "reconnect" ~> (connected /\ subscribed) \/ stopChan

\* After Stop both goroutines end, wherever Stop found them.
StopLeaves ==
  stopChan ~> reader \in {"done", "failed"} /\ pinger \in {"none", "done"}

=============================================================================
