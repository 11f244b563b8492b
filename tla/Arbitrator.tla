----------------------------- MODULE Arbitrator -----------------------------
(***************************************************************************)
(* The silence-detector arbitrator of internal/engine/arbitrator.go, with  *)
(* the two channels main.go puts around it: the adapters send ticks into   *)
(* inputChan without blocking, the hub drains outputChan.                  *)
(*                                                                         *)
(* One goroutine runs processLoop.  It takes a tick and reads the wall     *)
(* clock (ReceiveTick), decides (one of the Handle actions) and publishes  *)
(* (one of the Publish actions); the adapters, the hub, the clock and Stop *)
(* may act between any two of these steps.                                 *)
(*                                                                         *)
(* now is elapsed time and skew what the wall clock is off by: the code    *)
(* measures silence on the wall clock, which the host may set.             *)
(***************************************************************************)
EXTENDS Config, Integers, Sequences, FiniteSets

CONSTANTS
  Configs,     \* configurations a run may start with
  Symbols,     \* normalized symbols
  Threshold,   \* silenceThresholdMicros
  InputCap,    \* capacity of the adapter channel (10000 in main.go)
  OutputCap,   \* capacity of the hub channel (10000 in main.go)
  MaxTicks,    \* bound: ticks the adapters produce
  MaxTime,     \* bound: elapsed time
  Skews        \* values the wall clock may be off by

ASSUME ThresholdAssumption == Threshold \in Nat
ASSUME CapAssumption == InputCap \in Nat \ {0} /\ OutputCap \in Nat \ {0}
ASSUME BoundAssumption == MaxTicks \in Nat /\ MaxTime \in Nat
ASSUME SkewAssumption == 0 \in Skews /\ Skews \subseteq Int
ASSUME ConfigAssumption ==
  \A c \in Configs : c.primary \in {"twelve", "massive"}

VARIABLES
  cfg,             \* the configuration, fixed when the arbitrator is made
  inputChan,       \* adapters -> arbitrator
  outputChan,      \* arbitrator -> hub
  lastPrimaryTick, \* symbol -> wall clock when the primary was last heard
  stats,           \* ArbitratorStats
  pc,              \* where processLoop is
  tick,            \* the tick it holds
  currentMicros,   \* the wall clock it read for that tick
  stopChan,        \* TRUE once Stop has closed it
  now,             \* elapsed time
  skew,            \* wall clock minus elapsed time
  nextId,          \* history: ticks produced so far; ids tell ticks apart
  refused,         \* history: ticks dropped because inputChan was full
  overflowed,      \* history: ticks dropped because outputChan was full
  takenAt,         \* history: elapsed time when currentMicros was read
  heard,           \* history: lastPrimaryTick in elapsed time
  feed             \* history: every tick sent on outputChan

chanVars == << inputChan, outputChan >>
loopVars == << pc, tick, currentMicros, takenAt >>
dataVars == << lastPrimaryTick, heard, stats >>
clockVars == << now, skew >>
ledgerVars == << nextId, refused, overflowed, feed >>
vars == << cfg, chanVars, loopVars, dataVars, clockVars, ledgerVars, stopChan >>

-----------------------------------------------------------------------------
(* Source tags *)

Providers == {"twelve", "massive"}
SourceTypes == Providers \cup {"twelve_failover", "massive_failover"}

Tick == [id : Nat, symbol : Symbols, source : SourceTypes]

PrimarySource == cfg.primary
BackupSource == IF cfg.primary = "massive" THEN "twelve" ELSE "massive"
FailoverSource ==
  IF cfg.primary = "massive" THEN "twelve_failover" ELSE "massive_failover"

SymbolInPrimary(symbol) ==
  LET info == GetSymbolSourceInfo(cfg, symbol)
  IN  IF PrimarySource = "twelve" THEN info.inTwelve ELSE info.inMassive

\* The symbols a provider sends ticks for: those its adapter subscribed to.
Subscribed(source) ==
  { s \in Symbols : IF source = "twelve" THEN TwelveDelivers(cfg, s)
                    ELSE MassiveDelivers(cfg, s) }

\* processLoop holds no tick between two iterations.
NoTick == [id |-> 0]

\* time.Now().UnixMicro()
WallClock == now + skew

ArbitratorStats ==
  [ PrimaryTicksProcessed : Nat, BackupTicksProcessed : Nat,
    BackupTicksDropped : Nat, FailoversTriggered : Nat ]

NoStats == [ PrimaryTicksProcessed |-> 0, BackupTicksProcessed |-> 0,
             BackupTicksDropped |-> 0, FailoversTriggered |-> 0 ]

-----------------------------------------------------------------------------
(* NewArbitrator, before the first tick. *)

Init ==
  /\ cfg \in Configs
  /\ inputChan = << >> /\ outputChan = << >>
  /\ lastPrimaryTick = [s \in {} |-> 0] /\ heard = [s \in {} |-> 0]
  /\ stats = NoStats
  /\ pc = "select"
  /\ tick = NoTick
  /\ currentMicros = 0 /\ takenAt = 0
  /\ stopChan = FALSE
  /\ now = 0 /\ skew = 0
  /\ nextId = 0 /\ refused = 0 /\ overflowed = 0
  /\ feed = << >>

-----------------------------------------------------------------------------
(* The environment: adapters, hub, clock. *)

\* An adapter sends a tick on the channel, or drops it when the channel is full.
SendTick(source, symbol) ==
  /\ nextId < MaxTicks
  /\ symbol \in Subscribed(source)
  /\ nextId' = nextId + 1
  /\ \/ /\ Len(inputChan) < InputCap
        /\ inputChan' = Append(inputChan,
             [id |-> nextId + 1, symbol |-> symbol, source |-> source])
        /\ refused' = refused
     \/ /\ Len(inputChan) = InputCap
        /\ refused' = refused + 1
        /\ inputChan' = inputChan
  /\ UNCHANGED << cfg, outputChan, loopVars, dataVars, clockVars, overflowed,
                  feed, stopChan >>

\* The hub's broadcastLoop receives a tick.
DrainOutput ==
  /\ outputChan # << >>
  /\ outputChan' = Tail(outputChan)
  /\ UNCHANGED << cfg, inputChan, loopVars, dataVars, clockVars, ledgerVars,
                  stopChan >>

Advance ==
  /\ now < MaxTime
  /\ now' = now + 1
  /\ UNCHANGED << cfg, chanVars, loopVars, dataVars, skew, ledgerVars, stopChan >>

\* The host's clock is stepped while time goes on.
SetClock ==
  /\ skew' \in Skews \ {skew}
  /\ UNCHANGED << cfg, chanVars, loopVars, dataVars, now, ledgerVars, stopChan >>

-----------------------------------------------------------------------------
(* processLoop and processTick *)

\* Back to the select; what processTick held goes out of scope.
Return ==
  /\ pc' = "select"
  /\ tick' = NoTick
  /\ currentMicros' = 0 /\ takenAt' = 0

\* Receive a tick, read the clock and choose the handler by source.
ReceiveTick ==
  /\ pc = "select"
  /\ inputChan # << >>
  /\ tick' = Head(inputChan)
  /\ inputChan' = Tail(inputChan)
  /\ currentMicros' = WallClock /\ takenAt' = now
  /\ pc' = "handle"
  /\ UNCHANGED << cfg, outputChan, dataVars, clockVars, ledgerVars, stopChan >>

Mark(times, symbol, time) ==
  [s \in DOMAIN times \cup {symbol} |-> IF s = symbol THEN time ELSE times[s]]

\* Mutant: only the first tick of the primary is remembered.
RecordPrimaryOnce ==
  /\ lastPrimaryTick' = IF tick.symbol \in DOMAIN lastPrimaryTick
                        THEN lastPrimaryTick
                        ELSE Mark(lastPrimaryTick, tick.symbol, currentMicros)
  /\ heard' = Mark(heard, tick.symbol, takenAt)

RecordPrimary ==
  /\ lastPrimaryTick' = Mark(lastPrimaryTick, tick.symbol, currentMicros)
  /\ heard' = Mark(heard, tick.symbol, takenAt)

HandlePrimaryTick ==
  /\ pc = "handle"
  /\ tick.source = PrimarySource
  /\ RecordPrimary
  /\ stats' = [stats EXCEPT !.PrimaryTicksProcessed = @ + 1]
  /\ pc' = "publish"
  /\ UNCHANGED << cfg, chanVars, tick, currentMicros, takenAt, clockVars,
                  ledgerVars, stopChan >>

\* Backup tick of a symbol the primary does not carry: published as it is.
HandleBackupOnlyTick ==
  /\ pc = "handle"
  /\ tick.source = BackupSource
  /\ ~SymbolInPrimary(tick.symbol)
  /\ stats' = [stats EXCEPT !.BackupTicksProcessed = @ + 1]
  /\ pc' = "publish"
  /\ UNCHANGED << cfg, chanVars, tick, currentMicros, takenAt, lastPrimaryTick,
                  heard, clockVars, ledgerVars, stopChan >>

SilenceDuration(symbol) ==
  IF symbol \in DOMAIN lastPrimaryTick
  THEN currentMicros - lastPrimaryTick[symbol]
  ELSE Threshold + 1

\* Mutant: silence of exactly the threshold already fails over.
PrimarySilentAtThreshold(symbol) == SilenceDuration(symbol) >= Threshold

\* Mutant: a symbol the primary was never heard on counts as healthy.
PrimarySilentOnceHeard(symbol) ==
  /\ symbol \in DOMAIN lastPrimaryTick
  /\ SilenceDuration(symbol) > Threshold

\* Mutant: one tick of the primary on any symbol stands for all of them.
PrimarySilentOnAll(symbol) ==
  \A s \in DOMAIN lastPrimaryTick : SilenceDuration(s) > Threshold

PrimarySilent(symbol) == SilenceDuration(symbol) > Threshold

\* Mutant: a failover tick is counted as a failover only.
CountFailoverOnly == [stats EXCEPT !.FailoversTriggered = @ + 1]

CountFailover ==
  [stats EXCEPT !.BackupTicksProcessed = @ + 1, !.FailoversTriggered = @ + 1]

TagFailover == [tick EXCEPT !.source = FailoverSource]

\* Failover: the tick is tagged and published.
HandleFailoverTick ==
  /\ pc = "handle"
  /\ tick.source = BackupSource
  /\ SymbolInPrimary(tick.symbol)
  /\ PrimarySilent(tick.symbol)
  /\ tick' = TagFailover
  /\ stats' = CountFailover
  /\ pc' = "publish"
  /\ UNCHANGED << cfg, chanVars, currentMicros, takenAt, lastPrimaryTick, heard,
                  clockVars, ledgerVars, stopChan >>

\* The primary is healthy: the backup tick is dropped.
DropBackupTick ==
  /\ pc = "handle"
  /\ tick.source = BackupSource
  /\ SymbolInPrimary(tick.symbol)
  /\ ~PrimarySilent(tick.symbol)
  /\ stats' = [stats EXCEPT !.BackupTicksDropped = @ + 1]
  /\ Return
  /\ UNCHANGED << cfg, chanVars, lastPrimaryTick, heard, clockVars, ledgerVars,
                  stopChan >>

\* Mutant: the last slot is taken twice.
HubHasRoomOffByOne == Len(outputChan) <= OutputCap

HubHasRoom == Len(outputChan) < OutputCap

\* publishTick: a non-blocking send to the hub ...
PublishTick ==
  /\ pc = "publish"
  /\ HubHasRoom
  /\ outputChan' = Append(outputChan, tick)
  /\ feed' = Append(feed, tick)
  /\ Return
  /\ UNCHANGED << cfg, inputChan, dataVars, clockVars, nextId, refused,
                  overflowed, stopChan >>

\* ... which drops the tick when the channel is full.
PublishToFull ==
  /\ pc = "publish"
  /\ ~HubHasRoom
  /\ overflowed' = overflowed + 1
  /\ Return
  /\ UNCHANGED << cfg, chanVars, dataVars, clockVars, nextId, refused, feed,
                  stopChan >>

\* Stop closes stopChan; the loop leaves at one of its next selects, which
\* may still prefer a waiting tick.
Stop ==
  /\ ~stopChan
  /\ stopChan' = TRUE
  /\ UNCHANGED << cfg, chanVars, loopVars, dataVars, clockVars, ledgerVars >>

LeaveLoop ==
  /\ pc = "select"
  /\ stopChan
  /\ pc' = "done"
  /\ UNCHANGED << cfg, chanVars, tick, currentMicros, takenAt, dataVars,
                  clockVars, ledgerVars, stopChan >>

-----------------------------------------------------------------------------

ProcessLoop ==
  \/ ReceiveTick
  \/ HandlePrimaryTick
  \/ HandleBackupOnlyTick
  \/ HandleFailoverTick
  \/ DropBackupTick
  \/ PublishTick
  \/ PublishToFull
  \/ LeaveLoop

Next ==
  \/ \E source \in Providers, symbol \in Symbols : SendTick(source, symbol)
  \/ DrainOutput
  \/ Advance
  \/ SetClock
  \/ Stop
  \/ ProcessLoop

Spec == Init /\ [][Next]_vars

\* The Go scheduler runs the arbitrator's goroutine whenever it can run.
FairSpec == Spec /\ WF_vars(ProcessLoop)

-----------------------------------------------------------------------------
(* Properties *)

ChannelsOK ==
  /\ inputChan \in Seq(Tick) /\ Len(inputChan) <= InputCap
  /\ outputChan \in Seq(Tick) /\ Len(outputChan) <= OutputCap
  /\ feed \in Seq(Tick)

HealthOK ==
  /\ DOMAIN lastPrimaryTick \subseteq Symbols
  /\ lastPrimaryTick \in [DOMAIN lastPrimaryTick -> Int]
  /\ heard \in [DOMAIN lastPrimaryTick -> Nat]

LoopOK ==
  /\ pc \in {"select", "handle", "publish", "done"}
  /\ pc \in {"handle", "publish"} => tick \in Tick
  /\ pc \in {"select", "done"} => tick = NoTick
  /\ currentMicros \in Int /\ takenAt \in Nat

ClockOK == now \in Nat /\ skew \in Skews

LedgerOK == nextId \in Nat /\ refused \in Nat /\ overflowed \in Nat

\* Type invariant: no channel exceeds its capacity, and processLoop holds a
\* tick exactly while it handles or publishes one.
TypeOK ==
  /\ cfg \in Configs /\ stopChan \in BOOLEAN
  /\ stats \in ArbitratorStats
  /\ ChannelsOK /\ HealthOK /\ LoopOK /\ ClockOK /\ LedgerOK

Processed == stats.PrimaryTicksProcessed + stats.BackupTicksProcessed

Holding(where) == IF pc = where THEN 1 ELSE 0

InputAccounted ==
  nextId = refused + Len(inputChan) + Holding("handle")
             + Processed + stats.BackupTicksDropped

OutputAccounted == Processed = Len(feed) + overflowed + Holding("publish")

\* Conservation (arbitrator.go's statistics, printed by main.go's logMetrics):
\* every tick an adapter produced is in exactly one place.  It was refused by
\* the full input channel, waits in it, is being handled, or is counted by
\* exactly one statistic; and every tick counted as processed was sent to the
\* hub, dropped at the full output channel, or is about to be published.
TicksAccountedFor ==
  /\ InputAccounted
  /\ OutputAccounted
  /\ stats.FailoversTriggered <= stats.BackupTicksProcessed

\* The silence rule of handleBackupTick, in elapsed time: a backup tick is
\* dropped only while the primary has been heard on that very symbol within
\* the threshold.
DropOnlyWhileHealthy ==
  [][ stats'.BackupTicksDropped # stats.BackupTicksDropped
        => /\ tick.symbol \in DOMAIN heard
           /\ takenAt - heard[tick.symbol] <= Threshold ]_vars

\* The arbitrator implements the abstract feed: the silence rule still holds
\* at the moment publishTick sends the tick, later than the decision was made,
\* and ticks leave in the order they arrived in.
Feed == INSTANCE FailoverFeed WITH
  sources <- [ primary |-> PrimarySource, backup |-> BackupSource,
               failover |-> FailoverSource ],
  inPrimary <- { s \in Symbols : SymbolInPrimary(s) },
  clock <- now

RefinesFeed == Feed!Spec

\* What the wall clock may do to the rule of handleBackupTick (the clock is read
\* at processTick, the reading kept as lastPrimaryTick): however often it is set
\* between two readings, no decision is wrong by more than one step from one of
\* its values to another, neither when a backup tick is dropped nor, later than
\* the decision, when a failover tick is published.
ClockSteps == { a - b : a, b \in Skews }

SilenceErrorBounded ==
  [][ /\ stats'.BackupTicksDropped # stats.BackupTicksDropped
           => /\ tick.symbol \in DOMAIN heard
              /\ \E step \in ClockSteps :
                   takenAt - heard[tick.symbol] <= Threshold + step
      /\ feed' # feed /\ tick.source = FailoverSource /\ tick.symbol \in DOMAIN heard
           => \E step \in ClockSteps : now - heard[tick.symbol] > Threshold + step ]_vars

\* Why the refinement holds when the wall clock is exact.  What the loop reads
\* is elapsed time, and it is never in the future ...
ExactClock ==
  /\ skew = 0 /\ lastPrimaryTick = heard /\ currentMicros = takenAt
  /\ takenAt <= now
  /\ \A s \in DOMAIN heard : heard[s] <= now
  /\ pc = "handle" => \A s \in DOMAIN heard : heard[s] <= takenAt

\* ... a decision taken stays right while the tick waits to be published ...
DecisionHolds == pc = "publish" => Feed!Allowed(tick)

\* ... and ids grow from the feed over the tick at hand to the input channel.
InOrder ==
  /\ \A i \in DOMAIN inputChan :
       /\ inputChan[i].id <= nextId
       /\ \A j \in DOMAIN inputChan : j < i => inputChan[j].id < inputChan[i].id
       /\ \A k \in DOMAIN feed : feed[k].id < inputChan[i].id
  /\ \A k \in DOMAIN feed : feed[k].id <= nextId
  /\ pc \in {"handle", "publish"} =>
       /\ tick.id <= nextId
       /\ \A i \in DOMAIN inputChan : tick.id < inputChan[i].id
       /\ \A k \in DOMAIN feed : feed[k].id < tick.id

\* The decision made in handleBackupTick is still right at publishTick, in the
\* order of arrival: the inductive invariant behind RefinesFeed.
FeedInv == ExactClock /\ DecisionHolds /\ InOrder

\* A backup tick waits in inputChan for a symbol whose primary is absent or
\* silent, and no tick of the primary will be handled before it.
BackupNeeded(id) ==
  \E i \in DOMAIN inputChan :
    LET t == inputChan[i] IN
      /\ t.id = id
      /\ t.source = BackupSource
      /\ SymbolInPrimary(t.symbol) /\ t.symbol \in DOMAIN heard
           => now - heard[t.symbol] > Threshold
      /\ \A j \in 1 .. i - 1 :
           inputChan[j].symbol = t.symbol => inputChan[j].source # PrimarySource
      /\ ~(pc = "handle" /\ tick.symbol = t.symbol /\ tick.source = PrimarySource)

\* The times recorded so far are right, and the next will be.
ClockExact == skew = 0 /\ lastPrimaryTick = heard

\* No blackout (README, "Failover Activation"): while the clock is exact, such a
\* tick eventually reaches the hub's channel, unless that channel overflows or
\* the arbitrator is stopped.
NoBlackout ==
  \A id \in 1 .. MaxTicks :
    BackupNeeded(id) /\ ClockExact
      ~> \/ \E i \in DOMAIN feed : feed[i].id = id
         \/ overflowed > 0
         \/ stopChan
         \/ skew # 0

=============================================================================
