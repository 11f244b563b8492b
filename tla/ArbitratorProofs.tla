-------------------------- MODULE ArbitratorProofs --------------------------
(***************************************************************************)
(* Invariants of the arbitrator and its refinement of FailoverFeed, for    *)
(* every set of configurations and symbols, every capacity and threshold.  *)
(***************************************************************************)
EXTENDS Arbitrator, SequenceTheorems, TLAPS

-----------------------------------------------------------------------------
(* Operators the actions are built from. *)

LEMMA SourcesTyped ==
  Providers \subseteq SourceTypes /\ FailoverSource \in SourceTypes
BY DEF Providers, SourceTypes, FailoverSource

LEMMA MarkTyped ==
  ASSUME NEW D, NEW R, NEW f \in [D -> R], NEW s, NEW t \in R
  PROVE  /\ DOMAIN Mark(f, s, t) = D \cup {s}
         /\ Mark(f, s, t) \in [D \cup {s} -> R]
         /\ Mark(f, s, t)[s] = t
         /\ \A r \in D \ {s} : Mark(f, s, t)[r] = f[r]
BY DEF Mark

LEMMA SentTyped ==
  ASSUME NEW source \in Providers, NEW symbol \in Symbols, NEW n \in Nat
  PROVE  [id |-> n + 1, symbol |-> symbol, source |-> source] \in Tick
BY SourcesTyped DEF Tick

LEMMA TagTyped ==
  ASSUME tick \in Tick
  PROVE  /\ TagFailover \in Tick
         /\ TagFailover.id = tick.id /\ TagFailover.symbol = tick.symbol
         /\ TagFailover.source = FailoverSource
BY SourcesTyped DEF TagFailover, Tick

-----------------------------------------------------------------------------
(* Type correctness, one lemma for each part of TypeOK. *)

LEMMA InitTypeOK == Init => TypeOK
<1> SUFFICES ASSUME Init PROVE TypeOK
  OBVIOUS
<1>1. ChannelsOK
  BY CapAssumption, EmptySeq DEF Init, ChannelsOK
<1>2. HealthOK
  BY DEF Init, HealthOK
<1>3. stats \in ArbitratorStats
  BY DEF Init, NoStats, ArbitratorStats
<1>4. LoopOK
  BY DEF Init, LoopOK
<1>6. LedgerOK /\ cfg \in Configs
  BY DEF Init, LedgerOK
<1>7. stopChan \in BOOLEAN
  BY Zenon DEF Init
<1>5. ClockOK
  BY SkewAssumption DEF Init, ClockOK
<1> QED BY <1>1, <1>2, <1>3, <1>4, <1>5, <1>6, <1>7 DEF TypeOK

\* Only four actions touch the channels and the history of the feed.
LEMMA ChannelsTyped ==
  ASSUME TypeOK, Next
  PROVE  ChannelsOK'
<1> USE DEF TypeOK, ChannelsOK, chanVars, loopVars, dataVars, clockVars, ledgerVars
<1>1. ASSUME NEW source \in Providers, NEW symbol \in Symbols,
             SendTick(source, symbol)
      PROVE  ChannelsOK'
  <2>1. UNCHANGED << outputChan, feed >>
    BY <1>1 DEF SendTick
  <2>2. [id |-> nextId + 1, symbol |-> symbol, source |-> source] \in Tick
    BY SentTyped DEF LedgerOK
  <2>3. CASE inputChan' = inputChan
    BY <2>1, <2>3
  <2>4. CASE inputChan' # inputChan
    <3>1. /\ Len(inputChan) < InputCap
          /\ inputChan' = Append(inputChan,
               [id |-> nextId + 1, symbol |-> symbol, source |-> source])
      BY <1>1, <2>4 DEF SendTick
    <3> QED BY <2>1, <2>2, <3>1, AppendProperties, LenProperties, CapAssumption
  <2> QED BY <2>3, <2>4
<1>2. CASE DrainOutput
  BY <1>2, HeadTailProperties, LenProperties, CapAssumption DEF DrainOutput
<1>3. CASE ReceiveTick
  BY <1>3, HeadTailProperties, LenProperties, CapAssumption DEF ReceiveTick
<1>4. CASE PublishTick
  <2>1. tick \in Tick /\ Len(outputChan) < OutputCap
    BY <1>4 DEF PublishTick, HubHasRoom, LoopOK
  <2> QED BY <1>4, <2>1, AppendProperties, LenProperties, CapAssumption
          DEF PublishTick
<1>5. CASE UNCHANGED << chanVars, feed >>
  BY <1>5
<1> QED
  BY <1>1, <1>2, <1>3, <1>4, <1>5
     DEF Next, ProcessLoop, Advance, SetClock, Stop, HandlePrimaryTick,
         HandleBackupOnlyTick, HandleFailoverTick, DropBackupTick,
         PublishToFull, LeaveLoop

\* Only a tick of the primary touches the record of when it was heard.
LEMMA HealthTyped ==
  ASSUME TypeOK, Next
  PROVE  HealthOK'
<1> USE DEF TypeOK, HealthOK, chanVars, loopVars, dataVars, clockVars, ledgerVars
<1>1. CASE HandlePrimaryTick
  <2>1. tick.symbol \in Symbols
    BY <1>1 DEF HandlePrimaryTick, LoopOK, Tick
  <2>2. currentMicros \in Int /\ takenAt \in Nat
    BY DEF LoopOK
  <2>3. /\ lastPrimaryTick' = Mark(lastPrimaryTick, tick.symbol, currentMicros)
        /\ heard' = Mark(heard, tick.symbol, takenAt)
    BY <1>1 DEF HandlePrimaryTick, RecordPrimary
  <2>4. lastPrimaryTick' \in [DOMAIN lastPrimaryTick \cup {tick.symbol} -> Int]
    BY <2>2, <2>3, MarkTyped
  <2>5. heard' \in [DOMAIN lastPrimaryTick \cup {tick.symbol} -> Nat]
    BY <2>2, <2>3, MarkTyped
  <2> QED BY <2>1, <2>4, <2>5
<1>2. CASE UNCHANGED << lastPrimaryTick, heard >>
  BY <1>2
<1> QED
  BY <1>1, <1>2
     DEF Next, ProcessLoop, SendTick, DrainOutput, Advance, SetClock, Stop,
         ReceiveTick, HandleBackupOnlyTick, HandleFailoverTick, DropBackupTick,
         PublishTick, PublishToFull, LeaveLoop

LEMMA CountTyped ==
  ASSUME stats \in ArbitratorStats
  PROVE  /\ CountFailover \in ArbitratorStats
         /\ CountFailover.PrimaryTicksProcessed = stats.PrimaryTicksProcessed
         /\ CountFailover.BackupTicksProcessed = stats.BackupTicksProcessed + 1
         /\ CountFailover.BackupTicksDropped = stats.BackupTicksDropped
         /\ CountFailover.FailoversTriggered = stats.FailoversTriggered + 1
<1> DEFINE once == [stats EXCEPT !.BackupTicksProcessed = @ + 1]
<1>1. /\ once \in ArbitratorStats
      /\ once.PrimaryTicksProcessed = stats.PrimaryTicksProcessed
      /\ once.BackupTicksProcessed = stats.BackupTicksProcessed + 1
      /\ once.BackupTicksDropped = stats.BackupTicksDropped
      /\ once.FailoversTriggered = stats.FailoversTriggered
  BY DEF ArbitratorStats
<1>2. CountFailover = [once EXCEPT !.FailoversTriggered = stats.FailoversTriggered + 1]
  BY DEF CountFailover
<1> HIDE DEF once
<1> QED BY <1>1, <1>2 DEF ArbitratorStats

LEMMA StatsTyped ==
  ASSUME TypeOK, Next
  PROVE  stats' \in ArbitratorStats
<1> USE DEF TypeOK, ArbitratorStats, chanVars, loopVars, dataVars, clockVars,
            ledgerVars
<1>1. CASE HandlePrimaryTick
  BY <1>1 DEF HandlePrimaryTick
<1>2. CASE HandleBackupOnlyTick
  BY <1>2 DEF HandleBackupOnlyTick
<1>3. CASE HandleFailoverTick
  BY <1>3, CountTyped DEF HandleFailoverTick
<1>4. CASE DropBackupTick
  BY <1>4 DEF DropBackupTick
<1>5. CASE UNCHANGED stats
  BY <1>5
<1> QED
  BY <1>1, <1>2, <1>3, <1>4, <1>5
     DEF Next, ProcessLoop, SendTick, DrainOutput, Advance, SetClock, Stop,
         ReceiveTick, PublishTick, PublishToFull, LeaveLoop

LEMMA LoopTyped ==
  ASSUME TypeOK, Next
  PROVE  LoopOK'
<1> USE DEF TypeOK, LoopOK, chanVars, loopVars, dataVars, clockVars, ledgerVars
<1>1. CASE ReceiveTick
  <2>1. Head(inputChan) \in Tick
    BY <1>1, HeadTailProperties DEF ReceiveTick, ChannelsOK
  <2>2. now + skew \in Int /\ now \in Nat
    BY SkewAssumption DEF ClockOK
  <2> QED BY <1>1, <2>1, <2>2 DEF ReceiveTick, WallClock
<1>2. CASE HandlePrimaryTick \/ HandleBackupOnlyTick
  BY <1>2 DEF HandlePrimaryTick, HandleBackupOnlyTick
<1>3. CASE HandleFailoverTick
  BY <1>3, TagTyped DEF HandleFailoverTick
<1>4. CASE DropBackupTick \/ PublishTick \/ PublishToFull
  BY <1>4 DEF DropBackupTick, PublishTick, PublishToFull, Return
<1>5. CASE LeaveLoop
  BY <1>5 DEF LeaveLoop
<1>6. CASE UNCHANGED loopVars
  BY <1>6
<1> QED
  BY <1>1, <1>2, <1>3, <1>4, <1>5, <1>6
     DEF Next, ProcessLoop, SendTick, DrainOutput, Advance, SetClock, Stop

LEMMA EnvironmentTyped ==
  ASSUME TypeOK, Next
  PROVE  /\ ClockOK' /\ LedgerOK'
         /\ cfg' \in Configs /\ stopChan' \in BOOLEAN
<1> USE DEF chanVars, loopVars, dataVars, clockVars, ledgerVars
<1>1. now' = now \/ now' = now + 1
  BY DEF Next, ProcessLoop, SendTick, DrainOutput, Advance, SetClock, Stop,
         ReceiveTick, HandlePrimaryTick, HandleBackupOnlyTick,
         HandleFailoverTick, DropBackupTick, PublishTick, PublishToFull, LeaveLoop
<1>2. skew' = skew \/ skew' \in Skews
  BY DEF Next, ProcessLoop, SendTick, DrainOutput, Advance, SetClock, Stop,
         ReceiveTick, HandlePrimaryTick, HandleBackupOnlyTick,
         HandleFailoverTick, DropBackupTick, PublishTick, PublishToFull, LeaveLoop
<1>3. /\ nextId' = nextId \/ nextId' = nextId + 1
      /\ refused' = refused \/ refused' = refused + 1
      /\ overflowed' = overflowed \/ overflowed' = overflowed + 1
  BY DEF Next, ProcessLoop, SendTick, DrainOutput, Advance, SetClock, Stop,
         ReceiveTick, HandlePrimaryTick, HandleBackupOnlyTick,
         HandleFailoverTick, DropBackupTick, PublishTick, PublishToFull, LeaveLoop
<1>4. cfg' = cfg
  BY DEF Next, ProcessLoop, SendTick, DrainOutput, Advance, SetClock, Stop,
         ReceiveTick, HandlePrimaryTick, HandleBackupOnlyTick,
         HandleFailoverTick, DropBackupTick, PublishTick, PublishToFull, LeaveLoop
<1>5. UNCHANGED stopChan \/ stopChan' = TRUE
  BY Zenon
  DEF Next, ProcessLoop, SendTick, DrainOutput, Advance, SetClock, Stop,
         ReceiveTick, HandlePrimaryTick, HandleBackupOnlyTick,
         HandleFailoverTick, DropBackupTick, PublishTick, PublishToFull, LeaveLoop
<1>6. stopChan' \in BOOLEAN
  BY <1>5, Zenon DEF TypeOK
<1> QED BY <1>1, <1>2, <1>3, <1>4, <1>6 DEF TypeOK, ClockOK, LedgerOK

LEMMA NextTypeOK == TypeOK /\ [Next]_vars => TypeOK'
<1>1. ASSUME TypeOK, Next PROVE TypeOK'
  BY <1>1, ChannelsTyped, HealthTyped, StatsTyped, LoopTyped, EnvironmentTyped
     DEF TypeOK
<1>2. ASSUME TypeOK, UNCHANGED vars PROVE TypeOK'
  BY <1>2 DEF vars, TypeOK, ChannelsOK, HealthOK, LoopOK, ClockOK, LedgerOK,
              chanVars, loopVars, dataVars, clockVars, ledgerVars
<1> QED BY <1>1, <1>2

\* Type correctness: in every reachable state no channel exceeds its capacity
\* and processLoop holds a tick exactly while it handles or publishes one.
THEOREM TypeCorrect == Spec => []TypeOK
BY InitTypeOK, NextTypeOK, PTL DEF Spec


-----------------------------------------------------------------------------
(* Conservation of ticks. *)

LEMMA CountsTyped ==
  ASSUME TypeOK
  PROVE  /\ nextId \in Nat /\ refused \in Nat /\ overflowed \in Nat
         /\ stats.PrimaryTicksProcessed \in Nat /\ stats.BackupTicksProcessed \in Nat
         /\ stats.BackupTicksDropped \in Nat /\ stats.FailoversTriggered \in Nat
         /\ Processed \in Nat /\ Len(inputChan) \in Nat /\ Len(feed) \in Nat
         /\ Holding("handle") \in Nat /\ Holding("publish") \in Nat
BY LenProperties
   DEF TypeOK, LedgerOK, ArbitratorStats, ChannelsOK, Processed, Holding

LEMMA AccountedStep ==
  ASSUME TypeOK, TicksAccountedFor, Next
  PROVE  TicksAccountedFor'
<1> USE DEF chanVars, loopVars, dataVars, clockVars, ledgerVars
<1>0. /\ nextId \in Nat /\ refused \in Nat /\ overflowed \in Nat
      /\ stats.PrimaryTicksProcessed \in Nat /\ stats.BackupTicksProcessed \in Nat
      /\ stats.BackupTicksDropped \in Nat /\ stats.FailoversTriggered \in Nat
      /\ Processed \in Nat /\ Len(inputChan) \in Nat /\ Len(feed) \in Nat
      /\ Holding("handle") \in Nat /\ Holding("publish") \in Nat
  BY CountsTyped
<1>00. /\ InputAccounted /\ OutputAccounted
       /\ stats.FailoversTriggered <= stats.BackupTicksProcessed
  BY DEF TicksAccountedFor
<1>1. ASSUME NEW source \in Providers, NEW symbol \in Symbols,
             SendTick(source, symbol)
      PROVE  TicksAccountedFor'
  <2>1. nextId' = nextId + 1 /\ UNCHANGED << pc, stats, feed, overflowed >>
    BY <1>1 DEF SendTick
  <2>2. /\ Holding("handle")' = Holding("handle")
        /\ Holding("publish")' = Holding("publish")
        /\ Processed' = Processed
    BY <2>1 DEF Holding, Processed
  <2>4. CASE inputChan' = inputChan /\ refused' = refused + 1
    <3>1. InputAccounted'
      BY <1>0, <1>00, <2>1, <2>2, <2>4 DEF InputAccounted
    <3>2. OutputAccounted'
      BY <1>0, <1>00, <2>1, <2>2, <2>4 DEF OutputAccounted
    <3>3. stats'.FailoversTriggered <= stats'.BackupTicksProcessed
      BY <1>0, <1>00, <2>1, <2>2, <2>4
    <3> QED BY <3>1, <3>2, <3>3 DEF TicksAccountedFor
  <2>5. ASSUME refused' = refused,
               inputChan' = Append(inputChan,
                 [id |-> nextId + 1, symbol |-> symbol, source |-> source])
        PROVE  TicksAccountedFor'
    <3>1. [id |-> nextId + 1, symbol |-> symbol, source |-> source] \in Tick
      BY <1>0, SentTyped
    <3>2. Len(inputChan') = Len(inputChan) + 1 /\ refused' = refused
      BY <2>5, <3>1, AppendProperties DEF TypeOK, ChannelsOK
    <3>3. InputAccounted'
      <4>1. nextId + 1 = refused + (Len(inputChan) + 1) + Holding("handle")
                           + Processed + stats.BackupTicksDropped
        BY <1>0, <1>00 DEF InputAccounted
      <4> QED BY <2>1, <2>2, <3>2, <4>1 DEF InputAccounted
    <3>4. OutputAccounted'
      BY <1>0, <1>00, <2>1, <2>2, <3>2 DEF OutputAccounted
    <3>5. stats'.FailoversTriggered <= stats'.BackupTicksProcessed
      BY <1>0, <1>00, <2>1, <2>2, <3>2
    <3> QED BY <3>3, <3>4, <3>5 DEF TicksAccountedFor
  <2> QED BY <1>1, <2>4, <2>5 DEF SendTick
<1>2. CASE ReceiveTick
  <2>1. Len(inputChan') = Len(inputChan) - 1
    BY <1>2, HeadTailProperties DEF ReceiveTick, TypeOK, ChannelsOK
  <2>2. /\ pc = "select" /\ pc' = "handle"
        /\ UNCHANGED << nextId, refused, overflowed, stats, feed >>
    BY <1>2 DEF ReceiveTick
  <2>3. /\ Holding("handle") = 0 /\ Holding("publish") = 0
        /\ Holding("handle")' = 1 /\ Holding("publish")' = 0
        /\ Processed' = Processed
    BY <2>2 DEF Holding, Processed
  <2>4. InputAccounted'
    BY <1>0, <1>00, <2>1, <2>2, <2>3 DEF InputAccounted
  <2>5. OutputAccounted'
    BY <1>0, <1>00, <2>1, <2>2, <2>3 DEF OutputAccounted
  <2>6. stats'.FailoversTriggered <= stats'.BackupTicksProcessed
    BY <1>0, <1>00, <2>1, <2>2, <2>3
  <2> QED BY <2>4, <2>5, <2>6 DEF TicksAccountedFor
<1>3. CASE HandlePrimaryTick
  <2>1. /\ Processed' = Processed + 1
        /\ stats'.BackupTicksDropped = stats.BackupTicksDropped
        /\ stats'.FailoversTriggered = stats.FailoversTriggered
        /\ stats'.BackupTicksProcessed = stats.BackupTicksProcessed
    BY <1>0, <1>3 DEF HandlePrimaryTick, Processed, TypeOK, ArbitratorStats
  <2>2. /\ pc = "handle" /\ pc' = "publish"
        /\ UNCHANGED << nextId, refused, overflowed, inputChan, feed >>
    BY <1>3 DEF HandlePrimaryTick, Return
  <2>3. /\ Holding("handle") = 1 /\ Holding("publish") = 0
        /\ Holding("handle")' = 0 /\ Holding("publish")' = 1
    BY <2>2 DEF Holding
  <2>4. InputAccounted'
    BY <1>0, <1>00, <2>1, <2>2, <2>3 DEF InputAccounted
  <2>5. OutputAccounted'
    BY <1>0, <1>00, <2>1, <2>2, <2>3 DEF OutputAccounted
  <2>6. stats'.FailoversTriggered <= stats'.BackupTicksProcessed
    BY <1>0, <1>00, <2>1, <2>2, <2>3
  <2> QED BY <2>4, <2>5, <2>6 DEF TicksAccountedFor
<1>4. CASE HandleBackupOnlyTick
  <2>1. /\ Processed' = Processed + 1
        /\ stats'.BackupTicksDropped = stats.BackupTicksDropped
        /\ stats'.FailoversTriggered = stats.FailoversTriggered
        /\ stats'.BackupTicksProcessed = stats.BackupTicksProcessed + 1
    BY <1>0, <1>4 DEF HandleBackupOnlyTick, Processed, TypeOK, ArbitratorStats
  <2>2. /\ pc = "handle" /\ pc' = "publish"
        /\ UNCHANGED << nextId, refused, overflowed, inputChan, feed >>
    BY <1>4 DEF HandleBackupOnlyTick, Return
  <2>3. /\ Holding("handle") = 1 /\ Holding("publish") = 0
        /\ Holding("handle")' = 0 /\ Holding("publish")' = 1
    BY <2>2 DEF Holding
  <2>4. InputAccounted'
    BY <1>0, <1>00, <2>1, <2>2, <2>3 DEF InputAccounted
  <2>5. OutputAccounted'
    BY <1>0, <1>00, <2>1, <2>2, <2>3 DEF OutputAccounted
  <2>6. stats'.FailoversTriggered <= stats'.BackupTicksProcessed
    BY <1>0, <1>00, <2>1, <2>2, <2>3
  <2> QED BY <2>4, <2>5, <2>6 DEF TicksAccountedFor
<1>5. CASE HandleFailoverTick
  <2>1. /\ Processed' = Processed + 1
        /\ stats'.BackupTicksDropped = stats.BackupTicksDropped
        /\ stats'.FailoversTriggered = stats.FailoversTriggered + 1
        /\ stats'.BackupTicksProcessed = stats.BackupTicksProcessed + 1
    BY <1>0, <1>5, CountTyped DEF HandleFailoverTick, Processed, TypeOK, ArbitratorStats
  <2>2. /\ pc = "handle" /\ pc' = "publish"
        /\ UNCHANGED << nextId, refused, overflowed, inputChan, feed >>
    BY <1>5 DEF HandleFailoverTick, Return
  <2>3. /\ Holding("handle") = 1 /\ Holding("publish") = 0
        /\ Holding("handle")' = 0 /\ Holding("publish")' = 1
    BY <2>2 DEF Holding
  <2>4. InputAccounted'
    BY <1>0, <1>00, <2>1, <2>2, <2>3 DEF InputAccounted
  <2>5. OutputAccounted'
    BY <1>0, <1>00, <2>1, <2>2, <2>3 DEF OutputAccounted
  <2>6. stats'.FailoversTriggered <= stats'.BackupTicksProcessed
    BY <1>0, <1>00, <2>1, <2>2, <2>3
  <2> QED BY <2>4, <2>5, <2>6 DEF TicksAccountedFor
<1>6. CASE DropBackupTick
  <2>1. /\ Processed' = Processed
        /\ stats'.BackupTicksDropped = stats.BackupTicksDropped + 1
        /\ stats'.FailoversTriggered = stats.FailoversTriggered
        /\ stats'.BackupTicksProcessed = stats.BackupTicksProcessed
    BY <1>0, <1>6 DEF DropBackupTick, Processed, TypeOK, ArbitratorStats
  <2>2. /\ pc = "handle" /\ pc' = "select"
        /\ UNCHANGED << nextId, refused, overflowed, inputChan, feed >>
    BY <1>6 DEF DropBackupTick, Return
  <2>3. /\ Holding("handle") = 1 /\ Holding("publish") = 0
        /\ Holding("handle")' = 0 /\ Holding("publish")' = 0
    BY <2>2 DEF Holding
  <2>4. InputAccounted'
    <3> DEFINE dropped == stats.BackupTicksDropped
               droppedNext == stats'.BackupTicksDropped
    <3>1. /\ dropped \in Nat /\ droppedNext = dropped + 1
          /\ nextId = refused + Len(inputChan) + 1 + Processed + dropped
      BY <1>0, <1>00, <2>1, <2>3 DEF InputAccounted
    <3>2. nextId = refused + Len(inputChan) + 0 + Processed + droppedNext
      <4> HIDE DEF dropped, droppedNext
      <4> QED BY <1>0, <3>1
    <3> QED BY <2>1, <2>2, <2>3, <3>2 DEF InputAccounted
  <2>5. OutputAccounted'
    BY <1>0, <1>00, <2>1, <2>2, <2>3 DEF OutputAccounted
  <2>6. stats'.FailoversTriggered <= stats'.BackupTicksProcessed
    BY <1>0, <1>00, <2>1, <2>2, <2>3
  <2> QED BY <2>4, <2>5, <2>6 DEF TicksAccountedFor
<1>7. CASE PublishTick
  <2>1. Len(feed') = Len(feed) + 1
    BY <1>7, AppendProperties DEF PublishTick, TypeOK, ChannelsOK, LoopOK
  <2>2. /\ pc = "publish" /\ pc' = "select"
        /\ UNCHANGED << nextId, refused, overflowed, inputChan, stats >>
    BY <1>7 DEF PublishTick, Return
  <2>3. /\ Holding("handle") = 0 /\ Holding("publish") = 1
        /\ Holding("handle")' = 0 /\ Holding("publish")' = 0
        /\ Processed' = Processed
    BY <2>2 DEF Holding, Processed
  <2>4. InputAccounted'
    BY <1>0, <1>00, <2>1, <2>2, <2>3 DEF InputAccounted
  <2>5. OutputAccounted'
    BY <1>0, <1>00, <2>1, <2>2, <2>3 DEF OutputAccounted
  <2>6. stats'.FailoversTriggered <= stats'.BackupTicksProcessed
    BY <1>0, <1>00, <2>1, <2>2, <2>3
  <2> QED BY <2>4, <2>5, <2>6 DEF TicksAccountedFor
<1>8. CASE PublishToFull
  <2>1. /\ pc = "publish" /\ pc' = "select" /\ overflowed' = overflowed + 1
        /\ UNCHANGED << nextId, refused, inputChan, stats, feed >>
    BY <1>8 DEF PublishToFull, Return
  <2>2. /\ Holding("handle") = 0 /\ Holding("publish") = 1
        /\ Holding("handle")' = 0 /\ Holding("publish")' = 0
        /\ Processed' = Processed
    BY <2>1 DEF Holding, Processed
  <2>4. InputAccounted'
    BY <1>0, <1>00, <2>1, <2>2 DEF InputAccounted
  <2>5. OutputAccounted'
    BY <1>0, <1>00, <2>1, <2>2 DEF OutputAccounted
  <2>6. stats'.FailoversTriggered <= stats'.BackupTicksProcessed
    BY <1>0, <1>00, <2>1, <2>2
  <2> QED BY <2>4, <2>5, <2>6 DEF TicksAccountedFor
<1>9. CASE LeaveLoop
  BY <1>9 DEF LeaveLoop, TicksAccountedFor, InputAccounted,
     OutputAccounted, Holding, Processed
<1>10. CASE UNCHANGED << nextId, refused, overflowed, inputChan, stats, feed, pc >>
  BY <1>10 DEF TicksAccountedFor, InputAccounted, OutputAccounted, Holding, Processed
<1> QED
  BY <1>1, <1>2, <1>3, <1>4, <1>5, <1>6, <1>7, <1>8, <1>9, <1>10
     DEF Next, ProcessLoop, DrainOutput, Advance, SetClock, Stop

\* No tick is lost or counted twice by the arbitrator, whatever the capacities
\* and the clock: the statistics add up to what the adapters produced.
THEOREM Conservation == Spec => []TicksAccountedFor
<1>1. Init => TicksAccountedFor
  BY EmptySeq DEF Init, TicksAccountedFor, InputAccounted,
     OutputAccounted, Holding, Processed, NoStats
<1>2. TypeOK /\ TicksAccountedFor /\ [Next]_vars => TicksAccountedFor'
  <2>1. ASSUME TicksAccountedFor, UNCHANGED vars PROVE TicksAccountedFor'
    BY <2>1 DEF TicksAccountedFor, InputAccounted, OutputAccounted,
                Holding, Processed, vars, chanVars, loopVars, dataVars,
                ledgerVars
  <2> QED BY <2>1, AccountedStep
<1> QED BY <1>1, <1>2, TypeCorrect, PTL DEF Spec


-----------------------------------------------------------------------------
(* How far off a decision may be when the wall clock is stepped. *)

LEMMA SourcesStay ==
  ASSUME cfg' = cfg
  PROVE  /\ PrimarySource' = PrimarySource
         /\ BackupSource' = BackupSource
         /\ FailoverSource' = FailoverSource
         /\ \A s : SymbolInPrimary(s)' <=> SymbolInPrimary(s)
BY DEF PrimarySource, BackupSource, FailoverSource, SymbolInPrimary

LEMMA ConfigStays == ASSUME Next PROVE cfg' = cfg
BY DEF Next, ProcessLoop, SendTick, DrainOutput, Advance, SetClock, Stop,
       ReceiveTick, HandlePrimaryTick, HandleBackupOnlyTick, HandleFailoverTick,
       DropBackupTick, PublishTick, PublishToFull, LeaveLoop

\* The code's times differ from elapsed time by values of the clock's skew only, and
\* a failover tick that waits to be published was silent for long enough, give or
\* take one step of the clock.
SkewInv ==
  /\ takenAt <= now
  /\ pc = "handle" => currentMicros - takenAt \in Skews
  /\ \A s \in DOMAIN heard : lastPrimaryTick[s] - heard[s] \in Skews
  /\ pc = "publish" /\ tick.source = FailoverSource /\ tick.symbol \in DOMAIN heard
       => \E step \in ClockSteps : now - heard[tick.symbol] > Threshold + step

LEMMA TimesTyped ==
  ASSUME TypeOK
  PROVE  /\ now \in Nat /\ takenAt \in Nat /\ currentMicros \in Int /\ Threshold \in Nat
         /\ Skews \subseteq Int /\ ClockSteps \subseteq Int
         /\ DOMAIN heard = DOMAIN lastPrimaryTick
         /\ \A s \in DOMAIN heard : heard[s] \in Nat /\ lastPrimaryTick[s] \in Int
<1>1. Skews \subseteq Int
  BY SkewAssumption
<1>2. ClockSteps \subseteq Int
  BY <1>1 DEF ClockSteps
<1> QED BY <1>1, <1>2, ThresholdAssumption DEF TypeOK, ClockOK, LoopOK, HealthOK

LEMMA SourcesDiffer ==
  ASSUME TypeOK
  PROVE  PrimarySource # FailoverSource /\ BackupSource # FailoverSource
BY ConfigAssumption DEF TypeOK, PrimarySource, BackupSource, FailoverSource

\* The silence the code computes is the real one, but for one step of the clock.
LEMMA SilenceIsClose ==
  ASSUME TypeOK, SkewInv, pc = "handle", NEW s \in DOMAIN heard
  PROVE  \E step \in ClockSteps : takenAt - heard[s] = SilenceDuration(s) + step
<1>1. PICK a \in Skews : a = currentMicros - takenAt
  BY DEF SkewInv
<1>2. PICK b \in Skews : b = lastPrimaryTick[s] - heard[s]
  BY DEF SkewInv
<1>3. b - a \in ClockSteps
  BY DEF ClockSteps
<1>4. SilenceDuration(s) = currentMicros - lastPrimaryTick[s]
  BY TimesTyped DEF SilenceDuration
<1>5. takenAt - heard[s] = SilenceDuration(s) + (b - a)
  BY <1>1, <1>2, <1>4, TimesTyped
<1> QED BY <1>3, <1>5

LEMMA SkewStep ==
  ASSUME TypeOK, TypeOK', SkewInv, Next
  PROVE  SkewInv'
<1> USE DEF SkewInv, chanVars, loopVars, dataVars, clockVars, ledgerVars
<1>0. /\ now \in Nat /\ takenAt \in Nat /\ Threshold \in Nat
      /\ \A s \in DOMAIN heard : heard[s] \in Nat
      /\ ClockSteps' = ClockSteps /\ ClockSteps \subseteq Int
  BY TimesTyped DEF ClockSteps
<1>1. CASE ReceiveTick
  <2>1. takenAt' = now /\ currentMicros' - takenAt' = skew /\ pc' = "handle"
        /\ UNCHANGED << now, heard, lastPrimaryTick >>
    BY <1>1, TimesTyped DEF ReceiveTick, WallClock, TypeOK, ClockOK
  <2> QED BY <1>0, <2>1 DEF TypeOK, ClockOK
<1>2. CASE HandlePrimaryTick
  <2>1. /\ pc = "handle" /\ pc' = "publish" /\ UNCHANGED << now, takenAt, tick, cfg >>
        /\ lastPrimaryTick' = Mark(lastPrimaryTick, tick.symbol, currentMicros)
        /\ heard' = Mark(heard, tick.symbol, takenAt)
        /\ tick'.source = PrimarySource'
    BY <1>2, SourcesStay DEF HandlePrimaryTick, RecordPrimary
  <2>2. tick'.source # FailoverSource'
    BY <2>1, SourcesStay, SourcesDiffer
  <2>3. ASSUME NEW s \in DOMAIN heard' PROVE lastPrimaryTick'[s] - heard'[s] \in Skews
    <3>1. CASE s = tick.symbol
      BY <2>1, <3>1, TimesTyped DEF Mark
    <3>2. CASE s # tick.symbol
      BY <2>1, <2>3, <3>2, TimesTyped DEF Mark
    <3> QED BY <3>1, <3>2
  <2> QED BY <2>1, <2>2, <2>3
<1>3. CASE HandleBackupOnlyTick
  <2>1. /\ pc' = "publish" /\ UNCHANGED << now, takenAt, heard, lastPrimaryTick, cfg, tick >>
        /\ tick.source = BackupSource
    BY <1>3 DEF HandleBackupOnlyTick
  <2> QED BY <2>1, SourcesStay, SourcesDiffer
<1>4. CASE HandleFailoverTick
  <2>1. /\ pc = "handle" /\ pc' = "publish" /\ SilenceDuration(tick.symbol) > Threshold
        /\ tick'.symbol = tick.symbol
        /\ UNCHANGED << now, takenAt, heard, lastPrimaryTick >>
    BY <1>4, TagTyped DEF HandleFailoverTick, PrimarySilent, TypeOK, LoopOK
  <2>2. ASSUME tick.symbol \in DOMAIN heard
        PROVE  \E step \in ClockSteps : now - heard[tick.symbol] > Threshold + step
    <3>1. PICK step \in ClockSteps :
            takenAt - heard[tick.symbol] = SilenceDuration(tick.symbol) + step
      BY <2>1, <2>2, SilenceIsClose
    <3>2. SilenceDuration(tick.symbol) \in Int /\ heard[tick.symbol] \in Nat
      BY <2>2, TimesTyped DEF SilenceDuration
    <3>3. now - heard[tick.symbol] > Threshold + step
      BY <1>0, <2>1, <3>1, <3>2
    <3> QED BY <3>3
  <2> QED BY <1>0, <2>1, <2>2
<1>5. CASE Advance
  <2>1. now' = now + 1 /\ UNCHANGED << cfg, pc, tick, currentMicros, takenAt, heard, lastPrimaryTick >>
    BY <1>5 DEF Advance
  <2>2. ASSUME pc = "publish", tick.source = FailoverSource, tick.symbol \in DOMAIN heard
        PROVE  \E step \in ClockSteps : now' - heard[tick.symbol] > Threshold + step
    <3>1. PICK step \in ClockSteps : now - heard[tick.symbol] > Threshold + step
      BY <2>2
    <3>2. now' - heard[tick.symbol] > Threshold + step
      BY <1>0, <2>1, <2>2, <3>1
    <3> QED BY <3>2
  <2> QED BY <1>0, <2>1, <2>2, SourcesStay
<1>6. CASE Return /\ UNCHANGED << now, heard, lastPrimaryTick >>
  BY <1>0, <1>6 DEF Return
<1>7. CASE UNCHANGED << cfg, now, heard, lastPrimaryTick, loopVars >>
  BY <1>0, <1>7, SourcesStay
<1>8. CASE LeaveLoop
  BY <1>8 DEF LeaveLoop
<1> QED
  BY <1>1, <1>2, <1>3, <1>4, <1>5, <1>6, <1>7, <1>8
     DEF Next, ProcessLoop, SendTick, DrainOutput, SetClock, Stop,
         DropBackupTick, PublishTick, PublishToFull

\* Whatever values the wall clock takes and however often it is stepped: a backup tick
\* is dropped, and a failover tick published, against the silence rule by at most one
\* step of the clock.
THEOREM SilenceErrorIsBounded == Spec => SilenceErrorBounded
<1> DEFINE Dropped == stats'.BackupTicksDropped # stats.BackupTicksDropped
           FailedOver == /\ feed' # feed /\ tick.source = FailoverSource
                         /\ tick.symbol \in DOMAIN heard
           JustDrop == /\ tick.symbol \in DOMAIN heard
                       /\ \E step \in ClockSteps :
                            takenAt - heard[tick.symbol] <= Threshold + step
           JustFailover == \E step \in ClockSteps : now - heard[tick.symbol] > Threshold + step
           Bounded == (Dropped => JustDrop) /\ (FailedOver => JustFailover)
<1>1. ASSUME TypeOK, Next, Dropped PROVE DropBackupTick
  BY <1>1, CountTyped
     DEF Next, ProcessLoop, SendTick, DrainOutput, Advance, SetClock, Stop, ReceiveTick,
         HandlePrimaryTick, HandleBackupOnlyTick, HandleFailoverTick, PublishTick,
         PublishToFull, LeaveLoop, dataVars, TypeOK, ArbitratorStats
<1>2. ASSUME TypeOK, SkewInv, DropBackupTick PROVE JustDrop
  <2>1. pc = "handle" /\ ~(SilenceDuration(tick.symbol) > Threshold)
    BY <1>2 DEF DropBackupTick, PrimarySilent
  <2>2. tick.symbol \in DOMAIN heard
    BY <1>2, <2>1, TimesTyped DEF SilenceDuration
  <2>3. PICK step \in ClockSteps :
          takenAt - heard[tick.symbol] = SilenceDuration(tick.symbol) + step
    BY <1>2, <2>1, <2>2, SilenceIsClose
  <2>4. SilenceDuration(tick.symbol) \in Int /\ step \in Int /\ Threshold \in Nat
    BY <1>2, <2>2, TimesTyped DEF SilenceDuration
  <2>5. takenAt - heard[tick.symbol] <= Threshold + step
    BY <2>1, <2>3, <2>4
  <2> QED BY <2>2, <2>5
<1>3. ASSUME TypeOK, SkewInv, Next, FailedOver PROVE JustFailover
  <2>1. PublishTick
    BY <1>3 DEF Next, ProcessLoop, SendTick, DrainOutput, Advance, SetClock, Stop,
       ReceiveTick, HandlePrimaryTick, HandleBackupOnlyTick, HandleFailoverTick,
       DropBackupTick, PublishToFull, LeaveLoop, ledgerVars
  <2> QED BY <1>3, <2>1 DEF PublishTick, SkewInv
<1>4. TypeOK /\ SkewInv /\ [Next]_vars => [Bounded]_vars
  BY <1>1, <1>2, <1>3
<1>5. Init => SkewInv
  BY DEF Init, SkewInv
<1>6. TypeOK /\ TypeOK' /\ SkewInv /\ [Next]_vars => SkewInv'
  <2>1. ASSUME TypeOK, SkewInv, UNCHANGED vars PROVE SkewInv'
    <3>1. UNCHANGED << cfg, now, heard, lastPrimaryTick, pc, tick, currentMicros, takenAt >>
      BY <2>1 DEF vars, loopVars, dataVars, clockVars
    <3> QED BY <2>1, <3>1, SourcesStay DEF SkewInv, ClockSteps
  <2> QED BY <2>1, SkewStep
<1> QED BY <1>4, <1>5, <1>6, TypeCorrect, PTL DEF Spec, SilenceErrorBounded


-----------------------------------------------------------------------------
(* The refinement of FailoverFeed, when the wall clock is never stepped. *)

\* Elapsed time and the wall clock agree, and neither is read in the future.
LEMMA ExactClockStep ==
  ASSUME Skews = {0}, TypeOK, ExactClock, Next
  PROVE  ExactClock'
<1> USE DEF ExactClock, chanVars, loopVars, dataVars, clockVars, ledgerVars
<1>0. now \in Nat /\ takenAt \in Nat /\ heard \in [DOMAIN heard -> Nat]
  BY DEF TypeOK, ClockOK, LoopOK, HealthOK
<1>1. CASE Advance
  BY <1>0, <1>1 DEF Advance
<1>2. CASE SetClock
  BY <1>2 DEF SetClock
<1>3. CASE ReceiveTick
  BY <1>0, <1>3 DEF ReceiveTick, WallClock
<1>4. CASE HandlePrimaryTick
  <2>1. /\ lastPrimaryTick' = heard' /\ heard' = Mark(heard, tick.symbol, takenAt)
        /\ UNCHANGED << skew, now, currentMicros, takenAt >> /\ pc' = "publish"
    BY <1>4 DEF HandlePrimaryTick, RecordPrimary
  <2>2. ASSUME NEW s \in DOMAIN heard' PROVE heard'[s] <= now
    <3>1. CASE s = tick.symbol
      BY <1>0, <2>1, <2>2, <3>1 DEF Mark
    <3>2. CASE s # tick.symbol
      BY <1>0, <2>1, <2>2, <3>2 DEF Mark
    <3> QED BY <3>1, <3>2
  <2> QED BY <1>0, <2>1, <2>2
<1>5. CASE UNCHANGED << skew, now, heard, lastPrimaryTick, currentMicros, takenAt >>
           /\ pc' # "handle"
  BY <1>5
<1>6. CASE UNCHANGED << skew, now, heard, lastPrimaryTick, loopVars >>
  BY <1>6
<1>7. CASE Return /\ UNCHANGED << skew, now, heard, lastPrimaryTick >>
  BY <1>0, <1>7 DEF Return
<1> QED
  BY <1>1, <1>2, <1>3, <1>4, <1>5, <1>6, <1>7
     DEF Next, ProcessLoop, SendTick, DrainOutput, Stop, HandleBackupOnlyTick,
         HandleFailoverTick, DropBackupTick, PublishTick, PublishToFull, LeaveLoop

\* A tick that may be emitted now may still be emitted later, as long as the
\* primary has not been heard in between.
LEMMA AllowedStays ==
  ASSUME TypeOK, cfg' = cfg, heard' = heard, now' \in Nat, now <= now',
         NEW t, Feed!Allowed(t)
  PROVE  Feed!Allowed(t)'
<1>1. Feed!Silent(t.symbol) => Feed!Silent(t.symbol)'
  <2>1. now \in Nat /\ heard \in [DOMAIN heard -> Nat] /\ Threshold \in Nat
    BY ThresholdAssumption DEF TypeOK, ClockOK, HealthOK
  <2> QED BY <2>1 DEF Feed!Silent
<1> QED BY <1>1, SourcesStay DEF Feed!Allowed

\* A decision of handleBackupTick or handlePrimaryTick is right when it is
\* taken and until the tick is published.
LEMMA DecisionStep ==
  ASSUME Skews = {0}, TypeOK, ExactClock, DecisionHolds, Next
  PROVE  DecisionHolds'
<1> USE DEF DecisionHolds, chanVars, loopVars, dataVars, clockVars, ledgerVars
<1>0. now \in Nat
  BY DEF TypeOK, ClockOK
<1>1. CASE HandlePrimaryTick
  <2>1. /\ tick.source = PrimarySource /\ tick' = tick /\ cfg' = cfg
        /\ tick.symbol \in DOMAIN heard'
    BY <1>1 DEF HandlePrimaryTick, RecordPrimary, Mark
  <2> QED BY <2>1, SourcesStay DEF Feed!Allowed
<1>2. CASE HandleBackupOnlyTick
  <2>1. /\ tick.source = BackupSource /\ ~SymbolInPrimary(tick.symbol)
        /\ tick' = tick /\ cfg' = cfg
    BY <1>2 DEF HandleBackupOnlyTick
  <2> QED BY <2>1, SourcesStay DEF Feed!Allowed
<1>3. CASE HandleFailoverTick
  <2>1. /\ tick'.source = FailoverSource /\ tick'.symbol = tick.symbol
        /\ tick.symbol \in Symbols /\ SymbolInPrimary(tick.symbol)
        /\ UNCHANGED << cfg, heard, now >>
    BY <1>3, TagTyped DEF HandleFailoverTick, TypeOK, LoopOK, Tick
  <2>2. Feed!Silent(tick.symbol)
    <3>1. /\ takenAt \in Nat /\ takenAt <= now /\ Threshold \in Nat
          /\ heard \in [DOMAIN heard -> Nat]
      BY ThresholdAssumption DEF TypeOK, LoopOK, HealthOK, ExactClock
    <3>2. tick.symbol \in DOMAIN heard => takenAt - heard[tick.symbol] > Threshold
      BY <1>3 DEF HandleFailoverTick, PrimarySilent, SilenceDuration, ExactClock
    <3> QED BY <1>0, <3>1, <3>2 DEF Feed!Silent
  <2>3. Feed!Silent(tick.symbol)'
    BY <2>1, <2>2 DEF Feed!Silent
  <2> QED BY <2>1, <2>3, SourcesStay DEF Feed!Allowed
<1>4. CASE pc' # "publish"
  BY <1>4
<1>5. CASE UNCHANGED << cfg, heard, pc, tick >> /\ (now' = now \/ now' = now + 1)
  <2>1. now' \in Nat /\ now <= now'
    BY <1>0, <1>5
  <2> QED BY <1>5, <2>1, AllowedStays
<1> QED
  BY <1>1, <1>2, <1>3, <1>4, <1>5
     DEF Next, ProcessLoop, SendTick, DrainOutput, Advance, SetClock, Stop,
         ReceiveTick, DropBackupTick, PublishTick, PublishToFull, LeaveLoop, Return

\* Ids keep growing from the feed to the input channel.
LEMMA InOrderStep ==
  ASSUME TypeOK, InOrder, Next
  PROVE  InOrder'
<1> USE DEF InOrder, chanVars, loopVars, dataVars, clockVars, ledgerVars
<1>0. /\ nextId \in Nat
      /\ inputChan \in Seq(Tick) /\ feed \in Seq(Tick)
      /\ DOMAIN inputChan = 1 .. Len(inputChan) /\ Len(inputChan) \in Nat
      /\ DOMAIN feed = 1 .. Len(feed) /\ Len(feed) \in Nat
      /\ \A i \in DOMAIN inputChan : inputChan[i].id \in Nat
      /\ \A k \in DOMAIN feed : feed[k].id \in Nat
      /\ pc \in {"handle", "publish"} => tick.id \in Nat
  <2>1. nextId \in Nat /\ inputChan \in Seq(Tick) /\ feed \in Seq(Tick)
    BY DEF TypeOK, LedgerOK, ChannelsOK
  <2>2. /\ DOMAIN inputChan = 1 .. Len(inputChan) /\ Len(inputChan) \in Nat
        /\ DOMAIN feed = 1 .. Len(feed) /\ Len(feed) \in Nat
    BY <2>1, LenProperties
  <2>3. \A t \in Tick : t.id \in Nat
    BY DEF Tick
  <2>4. \A i \in DOMAIN inputChan : inputChan[i].id \in Nat
    BY <2>1, <2>2, <2>3, ElementOfSeq
  <2>5. \A k \in DOMAIN feed : feed[k].id \in Nat
    BY <2>1, <2>2, <2>3, ElementOfSeq
  <2>6. pc \in {"handle", "publish"} => tick.id \in Nat
    BY <2>3 DEF TypeOK, LoopOK
  <2> QED BY <2>1, <2>2, <2>4, <2>5, <2>6
<1>1. ASSUME NEW source \in Providers, NEW symbol \in Symbols,
             SendTick(source, symbol)
      PROVE  InOrder'
  <2> DEFINE sent == [id |-> nextId + 1, symbol |-> symbol, source |-> source]
  <2>1. nextId' = nextId + 1 /\ UNCHANGED << feed, pc, tick >>
    BY <1>1 DEF SendTick
  <2>2. CASE inputChan' = inputChan
    BY <1>0, <2>1, <2>2
  <2>3. CASE inputChan' = Append(inputChan, sent)
    <3>1. sent \in Tick /\ sent.id = nextId + 1
      BY <1>0, SentTyped
    <3> HIDE DEF sent
    <3>2. /\ DOMAIN inputChan' = 1 .. Len(inputChan) + 1
          /\ inputChan'[Len(inputChan) + 1] = sent
          /\ \A i \in 1 .. Len(inputChan) : inputChan'[i] = inputChan[i]
      BY <1>0, <2>3, <3>1, AppendProperties, LenProperties
    <3>3. \A i \in DOMAIN inputChan' :
            \/ i \in DOMAIN inputChan /\ inputChan'[i].id = inputChan[i].id
            \/ i = Len(inputChan) + 1 /\ inputChan'[i].id = nextId + 1
      BY <1>0, <3>1, <3>2
    <3>4. \A i \in DOMAIN inputChan' :
            i \notin DOMAIN inputChan => i = Len(inputChan) + 1
      BY <3>3
    <3>5. \A i \in DOMAIN inputChan' : inputChan'[i].id <= nextId'
      BY <1>0, <2>1, <3>3
    <3>6. ASSUME NEW i \in DOMAIN inputChan', NEW j \in DOMAIN inputChan', j < i
          PROVE  inputChan'[j].id < inputChan'[i].id
      <4>1. j \in DOMAIN inputChan /\ inputChan'[j].id = inputChan[j].id
        BY <1>0, <3>2, <3>3, <3>6
      <4>2. CASE i \in DOMAIN inputChan
        BY <1>0, <3>3, <3>6, <4>1, <4>2
      <4>3. CASE i = Len(inputChan) + 1
        <5>1. inputChan'[i].id = nextId + 1
          BY <1>0, <3>3, <4>3
        <5>2. inputChan[j].id <= nextId /\ inputChan[j].id \in Nat
          BY <1>0, <4>1
        <5> HIDE DEF InOrder
        <5> QED BY <1>0, <4>1, <5>1, <5>2
      <4> QED BY <3>4, <4>2, <4>3
    <3>7. ASSUME NEW i \in DOMAIN inputChan', NEW k \in DOMAIN feed'
          PROVE  feed'[k].id < inputChan'[i].id
      BY <1>0, <2>1, <3>3
    <3>8. \A k \in DOMAIN feed' : feed'[k].id <= nextId'
      BY <1>0, <2>1
    <3>9. ASSUME pc' \in {"handle", "publish"}
          PROVE  /\ tick'.id <= nextId'
                 /\ \A i \in DOMAIN inputChan' : tick'.id < inputChan'[i].id
                 /\ \A k \in DOMAIN feed' : feed'[k].id < tick'.id
      BY <1>0, <2>1, <3>3, <3>9
    <3> QED BY <3>5, <3>6, <3>7, <3>8, <3>9
  <2> QED BY <1>1, <2>2, <2>3 DEF SendTick
<1>2. CASE ReceiveTick
  <2>1. /\ inputChan # << >> /\ inputChan' = Tail(inputChan)
        /\ tick' = Head(inputChan) /\ pc' = "handle"
        /\ UNCHANGED << nextId, feed >>
    BY <1>2 DEF ReceiveTick
  <2>2. /\ DOMAIN inputChan' = 1 .. Len(inputChan) - 1
        /\ \A i \in DOMAIN inputChan' : inputChan'[i] = inputChan[i + 1]
    BY <1>0, <2>1, HeadTailProperties, LenProperties
  <2>3. 1 \in DOMAIN inputChan /\ tick' = inputChan[1]
    BY <1>0, <2>1, EmptySeq
  <2>4. \A i \in DOMAIN inputChan' :
          i + 1 \in DOMAIN inputChan /\ 1 < i + 1 /\ i \in Nat
    BY <1>0, <2>2
  <2>5. ASSUME NEW i \in DOMAIN inputChan'
        PROVE  /\ inputChan'[i].id <= nextId' /\ tick'.id < inputChan'[i].id
               /\ \A k \in DOMAIN feed' : feed'[k].id < inputChan'[i].id
    BY <2>1, <2>2, <2>3, <2>4, <2>5
  <2>6. ASSUME NEW i \in DOMAIN inputChan', NEW j \in DOMAIN inputChan', j < i
        PROVE  inputChan'[j].id < inputChan'[i].id
    <3>1. j + 1 < i + 1
      BY <2>4, <2>6
    <3> QED BY <2>2, <2>4, <2>6, <3>1
  <2>7. /\ tick'.id <= nextId'
        /\ \A k \in DOMAIN feed' : feed'[k].id < tick'.id
        /\ \A k \in DOMAIN feed' : feed'[k].id <= nextId'
    BY <2>1, <2>3
  <2> QED BY <2>5, <2>6, <2>7
<1>3. CASE HandleFailoverTick
  <2>1. /\ tick'.id = tick.id /\ pc = "handle"
        /\ UNCHANGED << inputChan, feed, nextId >>
    BY <1>3, TagTyped DEF HandleFailoverTick, TypeOK, LoopOK
  <2> QED BY <1>0, <2>1
<1>4. CASE HandlePrimaryTick \/ HandleBackupOnlyTick
  BY <1>0, <1>4 DEF HandlePrimaryTick, HandleBackupOnlyTick
<1>5. CASE PublishTick
  <2>1. /\ tick \in Tick /\ feed' = Append(feed, tick)
        /\ pc = "publish" /\ pc' = "select" /\ UNCHANGED << inputChan, nextId >>
    BY <1>5 DEF PublishTick, TypeOK, LoopOK, Return
  <2>2. \A k \in DOMAIN feed' : \/ k \in DOMAIN feed /\ feed'[k] = feed[k]
                                \/ feed'[k] = tick
    BY <1>0, <2>1, AppendProperties, LenProperties
  <2> QED BY <1>0, <2>1, <2>2
<1>6. CASE UNCHANGED << inputChan, feed, nextId, pc, tick >>
  BY <1>6
<1>7. CASE UNCHANGED << inputChan, feed, nextId >> /\ pc' \in {"select", "done"}
  BY <1>0, <1>7
<1> QED
  BY <1>1, <1>2, <1>3, <1>4, <1>5, <1>6, <1>7
     DEF Next, ProcessLoop, DrainOutput, Advance, SetClock, Stop,
         DropBackupTick, PublishToFull, LeaveLoop, Return

LEMMA FeedInvInit == Init => FeedInv
BY DEF Init, FeedInv, ExactClock, DecisionHolds, InOrder

LEMMA FeedInvStep ==
  ASSUME Skews = {0}, TypeOK, FeedInv, [Next]_vars
  PROVE  FeedInv'
<1>1. CASE Next
  BY <1>1, ExactClockStep, DecisionStep, InOrderStep DEF FeedInv
<1>2. CASE UNCHANGED vars
  <2>1. ExactClock' /\ InOrder'
    BY <1>2 DEF FeedInv, ExactClock, InOrder, vars, chanVars, loopVars,
                dataVars, clockVars, ledgerVars
  <2>2. /\ UNCHANGED << cfg, heard, pc, tick >>
        /\ now' = now /\ now \in Nat
    BY <1>2 DEF vars, loopVars, dataVars, clockVars, TypeOK, ClockOK
  <2>3. DecisionHolds'
    BY <2>2, AllowedStays DEF FeedInv, DecisionHolds
  <2> QED BY <2>1, <2>3 DEF FeedInv
<1> QED BY <1>1, <1>2

\* With a clock that is never stepped, the decision of the arbitrator is still
\* right when it publishes, and nothing overtakes anything.
THEOREM FeedInvariant == ASSUME Skews = {0} PROVE Spec => [](TypeOK /\ FeedInv)
<1>1. TypeOK /\ FeedInv /\ [Next]_vars => (TypeOK /\ FeedInv)'
  BY FeedInvStep, NextTypeOK
<1> QED BY <1>1, FeedInvInit, InitTypeOK, PTL DEF Spec

LEMMA MappingStays ==
  ASSUME cfg' = cfg
  PROVE  UNCHANGED << [ primary |-> PrimarySource, backup |-> BackupSource,
                        failover |-> FailoverSource ],
                      { s \in Symbols : SymbolInPrimary(s) } >>
BY SourcesStay

\* Every step of the arbitrator is a step of the abstract feed or a stutter.
LEMMA FeedStep ==
  ASSUME Skews = {0}, TypeOK, FeedInv, Next
  PROVE  [Feed!Next]_Feed!vars
<1> USE DEF chanVars, loopVars, dataVars, clockVars, ledgerVars
<1>0. UNCHANGED << [ primary |-> PrimarySource, backup |-> BackupSource,
                     failover |-> FailoverSource ],
                   { s \in Symbols : SymbolInPrimary(s) } >>
  BY ConfigStays, MappingStays
<1>1. CASE Advance
  <2>1. now' > now /\ UNCHANGED << heard, feed >>
    BY <1>1 DEF Advance, TypeOK, ClockOK
  <2> QED BY <1>0, <2>1 DEF Feed!Next, Feed!Advance
<1>2. CASE HandlePrimaryTick
  <2>1. /\ heard' = Mark(heard, tick.symbol, takenAt)
        /\ UNCHANGED << now, feed >>
    BY <1>2 DEF HandlePrimaryTick, RecordPrimary
  <2>2. /\ DOMAIN heard' = DOMAIN heard \cup {tick.symbol}
        /\ heard'[tick.symbol] = takenAt
        /\ \A r \in DOMAIN heard \ {tick.symbol} : heard'[r] = heard[r]
    BY <2>1 DEF Mark
  <2>3. takenAt <= now /\ \A s \in DOMAIN heard : heard[s] <= takenAt
    BY <1>2 DEF HandlePrimaryTick, FeedInv, ExactClock
  <2>4. Feed!Hear(tick.symbol)
    BY <1>0, <2>1, <2>2, <2>3 DEF Feed!Hear
  <2> QED BY <2>2, <2>4 DEF Feed!Next
<1>3. CASE PublishTick
  <2>1. /\ tick \in Tick /\ feed \in Seq(Tick) /\ feed' = Append(feed, tick)
        /\ Feed!Allowed(tick) /\ UNCHANGED << now, heard >>
        /\ \A k \in DOMAIN feed : feed[k].id < tick.id
    BY <1>3 DEF PublishTick, TypeOK, ChannelsOK, LoopOK, FeedInv,
                DecisionHolds, InOrder
  <2>2. Len(feed') = Len(feed) + 1 /\ feed'[Len(feed')] = tick
    BY <2>1, AppendProperties
  <2>3. Feed!Emit
    BY <1>0, <2>1, <2>2 DEF Feed!Emit
  <2> QED BY <2>3 DEF Feed!Next
<1>4. CASE UNCHANGED << now, heard, feed >>
  BY <1>0, <1>4 DEF Feed!vars
<1>5. ~SetClock
  BY DEF SetClock, TypeOK, ClockOK
<1> QED
  BY <1>1, <1>2, <1>3, <1>4, <1>5
     DEF Next, ProcessLoop, SendTick, DrainOutput, Stop, ReceiveTick,
         HandleBackupOnlyTick, HandleFailoverTick, DropBackupTick,
         PublishToFull, LeaveLoop, Return

\* The arbitrator implements the silence-detector rule of FailoverFeed: the
\* emitted feed is the same as if the rule were applied at once, tick by tick.
THEOREM Refinement == ASSUME Skews = {0} PROVE Spec => RefinesFeed
<1>1. Init => Feed!Init
  BY DEF Init, Feed!Init
<1>2. TypeOK /\ FeedInv /\ [Next]_vars => [Feed!Next]_Feed!vars
  <2>1. ASSUME UNCHANGED vars PROVE UNCHANGED Feed!vars
    BY <2>1, MappingStays
       DEF vars, dataVars, clockVars, ledgerVars, Feed!vars
  <2> QED BY <2>1, FeedStep
<1> QED BY <1>1, <1>2, FeedInvariant, PTL DEF Spec, RefinesFeed, Feed!Spec

\* A backup tick is dropped only while the primary of its symbol was heard
\* within the threshold.
THEOREM DropsAreJustified == ASSUME Skews = {0} PROVE Spec => DropOnlyWhileHealthy
<1> DEFINE Justified ==
      stats'.BackupTicksDropped # stats.BackupTicksDropped
        => /\ tick.symbol \in DOMAIN heard
           /\ takenAt - heard[tick.symbol] <= Threshold
<1>1. ASSUME TypeOK, FeedInv, Next PROVE Justified
  <2> USE DEF chanVars, loopVars, dataVars, clockVars, ledgerVars
  <2>1. CASE DropBackupTick
    <3>1. ~(SilenceDuration(tick.symbol) > Threshold)
      BY <2>1 DEF DropBackupTick, PrimarySilent
    <3>2. /\ lastPrimaryTick = heard /\ currentMicros = takenAt /\ takenAt \in Nat
          /\ heard \in [DOMAIN heard -> Nat] /\ Threshold \in Nat
      BY <1>1, ThresholdAssumption DEF FeedInv, ExactClock, TypeOK, LoopOK, HealthOK
    <3> QED BY <3>1, <3>2 DEF SilenceDuration
  <2>2. CASE HandlePrimaryTick \/ HandleBackupOnlyTick
    BY <1>1, <2>2 DEF HandlePrimaryTick, HandleBackupOnlyTick, TypeOK, ArbitratorStats
  <2>3. CASE HandleFailoverTick
    BY <1>1, <2>3, CountTyped DEF HandleFailoverTick, TypeOK
  <2>4. CASE UNCHANGED stats
    BY <2>4
  <2> QED
    BY <1>1, <2>1, <2>2, <2>3, <2>4
       DEF Next, ProcessLoop, SendTick, DrainOutput, Advance, SetClock, Stop,
           ReceiveTick, PublishTick, PublishToFull, LeaveLoop
<1>2. TypeOK /\ FeedInv /\ [Next]_vars => [Justified]_vars
  BY <1>1
<1> QED BY <1>2, FeedInvariant, PTL DEF Spec, DropOnlyWhileHealthy

=============================================================================
