----------------------------- MODULE FeedProofs -----------------------------
(***************************************************************************)
(* The pipeline of FeedCore, for every set of sessions and clients and for *)
(* every capacity of its channels: typing, what a client may miss, the     *)
(* order in which it sees its ticks, and the refinement of TickStream.     *)
(***************************************************************************)
EXTENDS FeedCore, SequenceTheorems, TLAPS

-----------------------------------------------------------------------------
(* Type correctness *)

LEMMA InitTyped == Init => TypeOK
<1> SUFFICES ASSUME Init PROVE TypeOK
  OBVIOUS
<1>1. MainOK
  BY DEF Init, MainOK, StartingUp
<1>2. ReadersOK
  BY DEF Init, ReadersOK
<1>3. ChannelsOK
  BY EmptySeq, CapAssumption DEF Init, ChannelsOK
<1>4. ArbOK
  BY DEF Init, ArbOK
<1>5. HubOK
  BY EmptySeq DEF Init, HubOK
<1>6. ClientsOK
  BY EmptySeq, CapAssumption DEF Init, ClientsOK
<1> QED BY <1>1, <1>2, <1>3, <1>4, <1>5, <1>6 DEF TypeOK

\* One tick more at the end of a channel, or one less at its head.
LEMMA PutTyped ==
  ASSUME NEW chan \in Seq(Ticks), NEW t \in Ticks, NEW cap \in Nat, HasRoom(chan, cap)
  PROVE  Append(chan, t) \in Seq(Ticks) /\ Len(Append(chan, t)) <= cap
BY AppendProperties DEF HasRoom

LEMMA TakeTyped ==
  ASSUME NEW chan \in Seq(Ticks), chan # << >>
  PROVE  /\ Head(chan) \in Ticks /\ Tail(chan) \in Seq(Ticks)
         /\ Len(Tail(chan)) <= Len(chan)
BY HeadTailProperties

LEMMA HeldTyped ==
  ASSUME TypeOK, NEW s \in Sessions, reader[s] = "send"
  PROVE  Held(s) \in Ticks
BY DEF TypeOK, ReadersOK, Held, Ticks

LEMMA MainTyped == TypeOK /\ Main => TypeOK'
<1> SUFFICES ASSUME TypeOK, Main PROVE TypeOK'
  OBVIOUS
<1> USE DEF pipeVars, readerVars, arbVars, hubVars, clientVars
<1>1. MainOK'
  BY DEF TypeOK, MainOK, Goto, StartingUp, ShuttingDown, Main, Shutdown, StartAdapters,
         StartAdapter, StartServers, StopServers, StopComponents, StopHub, CloseChans, MainReturns,
         AcceptLoopLeaves
<1>2. ReadersOK'
  BY DEF TypeOK, ReadersOK, Main, Shutdown, StartAdapters,
         StartAdapter, StartServers, StopServers, StopComponents, StopHub, CloseChans, MainReturns,
         AcceptLoopLeaves
<1>3. ChannelsOK' /\ ArbOK' /\ HubOK'
  BY DEF TypeOK, ChannelsOK, ArbOK, HubOK, Main, Shutdown, StartAdapters,
         StartAdapter, StartServers, StopServers, StopComponents, StopHub, CloseChans, MainReturns,
         AcceptLoopLeaves
<1>4. ClientsOK'
  BY DEF TypeOK, ClientsOK, Main, Shutdown, StartAdapters,
         StartAdapter, StartServers, StopServers, StopComponents, StopHub, CloseChans, MainReturns,
         AcceptLoopLeaves
<1> QED BY <1>1, <1>2, <1>3, <1>4 DEF TypeOK

LEMMA ReaderTyped == ASSUME TypeOK, NEW s \in Sessions, Reader(s) PROVE TypeOK'
<1> USE DEF mainVars, readerVars, arbVars, hubVars, pipeVars, clientVars
<1>1. CASE ReadMessage(s) \/ ReaderLeaves(s)
  <2>1. ReadersOK'
    <3>1. CASE ReadMessage(s)
      BY <3>1 DEF ReadMessage, TypeOK, ReadersOK
    <3>2. CASE ReaderLeaves(s)
      BY <3>2 DEF ReaderLeaves, TypeOK, ReadersOK
    <3> QED BY <1>1, <3>1, <3>2
  <2> QED BY <1>1, <2>1 DEF TypeOK, MainOK, ChannelsOK, ArbOK, HubOK, ClientsOK,
          ReadMessage, ReaderLeaves
<1>2. CASE SendTick(s)
  <2>1. ChannelsOK'
    <3>1. CASE HasRoom(adapterChan, AdapterCap)
      BY <1>2, <3>1, HeldTyped, PutTyped, CapAssumption
      DEF SendTick, TypeOK, ChannelsOK
    <3>2. CASE ~HasRoom(adapterChan, AdapterCap)
      BY <1>2, <3>2 DEF SendTick, TypeOK, ChannelsOK
    <3> QED BY <3>1, <3>2
  <2>2. ReadersOK'
    <3>1. CASE read' = read /\ reader' = [reader EXCEPT ![s] = IF IsStopped(s) THEN "left" ELSE "read"]
      BY <3>1 DEF TypeOK, ReadersOK
    <3>2. CASE read' = [read EXCEPT ![s] = @ + 1] /\ reader' = reader
      BY <3>2 DEF TypeOK, ReadersOK
    <3> QED BY <1>2, <3>1, <3>2 DEF SendTick, NextInMessage
  <2>3. MainOK' /\ ArbOK' /\ HubOK' /\ ClientsOK'
    BY <1>2 DEF SendTick, TypeOK, MainOK, ArbOK, HubOK, ClientsOK
  <2> QED BY <2>1, <2>2, <2>3 DEF TypeOK
<1>3. CASE SendPanics(s)
  BY <1>3 DEF TypeOK, MainOK, ReadersOK, ChannelsOK, ArbOK, HubOK, ClientsOK,
     SendPanics
<1> QED BY <1>1, <1>2, <1>3 DEF Reader

LEMMA ArbTyped == TypeOK /\ Arbitrator => TypeOK'
<1> SUFFICES ASSUME TypeOK, Arbitrator PROVE TypeOK'
  OBVIOUS
<1> USE DEF mainVars, readerVars, arbVars, hubVars, pipeVars, clientVars
<1>1. CASE ArbReceive
  <2>1. ChannelsOK' /\ ArbOK'
    BY <1>1, TakeTyped, CapAssumption DEF ArbReceive, TypeOK, ChannelsOK, ArbOK
  <2> QED BY <1>1, <2>1 DEF ArbReceive, TypeOK, MainOK, ReadersOK, HubOK, ClientsOK
<1>2. CASE ArbHandles
  <2>1. ChannelsOK'
    <3>1. CASE hubChan' = hubChan
      BY <1>2, <3>1 DEF ArbHandles, TypeOK, ChannelsOK
    <3>2. CASE HasRoom(hubChan, HubCap) /\ hubChan' = Append(hubChan, arbTick)
      BY <1>2, <3>2, PutTyped, CapAssumption DEF ArbHandles, TypeOK, ChannelsOK, ArbOK
    <3> QED BY <1>2, <3>1, <3>2 DEF ArbHandles
  <2> QED BY <1>2, <2>1 DEF ArbHandles, TypeOK, MainOK, ReadersOK, ArbOK, HubOK, ClientsOK
<1>3. CASE ArbPanics
  BY <1>3 DEF TypeOK, MainOK, ReadersOK, ChannelsOK, ArbOK, HubOK, ClientsOK, ArbPanics
<1>4. CASE ArbLeaves
  BY <1>4 DEF TypeOK, MainOK, ReadersOK, ChannelsOK, ArbOK, HubOK, ClientsOK, ArbLeaves
<1> QED BY <1>1, <1>2, <1>3, <1>4 DEF Arbitrator

LEMMA HubTyped == TypeOK /\ Hub => TypeOK'
<1> SUFFICES ASSUME TypeOK, Hub PROVE TypeOK'
  OBVIOUS
<1> USE DEF mainVars, readerVars, arbVars, hubVars, pipeVars, clientVars
<1>1. CASE Broadcast
  <2>1. ChannelsOK' /\ HubOK'
    BY <1>1, TakeTyped, AppendProperties, CapAssumption
    DEF Broadcast, TypeOK, ChannelsOK, HubOK
  <2> QED BY <1>1, <2>1 DEF Broadcast, TypeOK, MainOK, ReadersOK, ArbOK, ClientsOK
<1>2. ASSUME NEW loop \in loops, LoopLeaves(loop) PROVE TypeOK'
  BY <1>2 DEF LoopLeaves, TypeOK, MainOK, ReadersOK, ChannelsOK, ArbOK, HubOK, ClientsOK
<1>3. ASSUME NEW c \in Clients, TakeRegister(c) \/ TakeUnregister(c) PROVE TypeOK'
  <2>1. HubOK'
    BY <1>3 DEF TakeRegister, TakeUnregister, TypeOK, HubOK
  <2>2. Len(log) \in Nat
    BY LenProperties DEF TypeOK, HubOK
  <2>3. ClientsOK'
    BY <1>3, <2>2 DEF TakeRegister, TakeUnregister, TypeOK, ClientsOK
  <2> QED BY <1>3, <2>1, <2>3 DEF TakeRegister, TakeUnregister, TypeOK, MainOK, ReadersOK,
          ChannelsOK, ArbOK
<1>4. ASSUME NEW send \in sends, Send(send[1], send[2]) PROVE TypeOK'
  <2> DEFINE c == send[1]
             t == send[2]
  <2>0. c \in Clients /\ t \in Ticks
    BY DEF TypeOK, HubOK
  <2>1. HubOK'
    BY <1>4, <2>0 DEF Send, Report, Reject, TypeOK, HubOK
  <2>2. ClientsOK'
    <3>1. CASE buffer' = buffer
      BY <1>4, <3>1 DEF Send, TypeOK, ClientsOK
    <3>2. CASE /\ HasRoom(buffer[c], SendCap)
               /\ buffer' = [buffer EXCEPT ![c] = Append(@, t)]
      <4>1. Append(buffer[c], t) \in Seq(Ticks) /\ Len(Append(buffer[c], t)) <= SendCap
        BY <2>0, <3>2, PutTyped, CapAssumption DEF TypeOK, ClientsOK
      <4> QED BY <1>4, <2>0, <3>2, <4>1 DEF Send, TypeOK, ClientsOK
    <3> QED BY <1>4, <3>1, <3>2 DEF Send, Report, Reject
  <2> QED BY <1>4, <2>1, <2>2 DEF Send, TypeOK, MainOK, ReadersOK, ChannelsOK, ArbOK
<1> QED BY <1>1, <1>2, <1>3, <1>4 DEF Hub

LEMMA ClientTyped == ASSUME TypeOK, NEW c \in Clients, Client(c) PROVE TypeOK'
<1> USE DEF mainVars, readerVars, arbVars, hubVars, pipeVars, clientVars
<1>1. HubOK'
  BY DEF Client, Accept, WriteTick, TakeOldest, PeerLeaves, TypeOK, HubOK
<1>2. ClientsOK'
  <2>1. CASE WriteTick(c)
    <3>1. /\ Head(buffer[c]) \in Ticks /\ Tail(buffer[c]) \in Seq(Ticks)
          /\ Len(Tail(buffer[c])) <= SendCap
      BY <2>1, TakeTyped, CapAssumption DEF WriteTick, TypeOK, ClientsOK
    <3>2. Append(wire[c], Head(buffer[c])) \in Seq(Ticks)
      BY <3>1, AppendProperties DEF TypeOK, ClientsOK
    <3> QED BY <2>1, <3>1, <3>2 DEF WriteTick, TakeOldest, TypeOK, ClientsOK
  <2>2. CASE Accept(c) \/ PeerLeaves(c)
    BY <2>2 DEF Accept, PeerLeaves, TypeOK, ClientsOK
  <2> QED BY <2>1, <2>2 DEF Client
<1> QED BY <1>1, <1>2 DEF Client, Accept, WriteTick, PeerLeaves, TypeOK, MainOK,
        ReadersOK, ChannelsOK, ArbOK

LEMMA StepTyped == TypeOK /\ [Next]_vars => TypeOK'
<1> SUFFICES ASSUME TypeOK, [Next]_vars PROVE TypeOK'
  OBVIOUS
<1>1. CASE UNCHANGED vars
  BY <1>1 DEF vars, mainVars, readerVars, arbVars, hubVars, pipeVars, clientVars,
     TypeOK, MainOK, ReadersOK, ChannelsOK, ArbOK, HubOK, ClientsOK
<1> QED BY <1>1, MainTyped, ReaderTyped, ArbTyped, HubTyped, ClientTyped DEF Next

\* Whatever runs when, channels stay within their capacities and the arbitrator
\* has a tick in hand exactly while it handles one.
THEOREM TypeCorrect == Spec => []TypeOK
BY InitTyped, StepTyped, PTL DEF Spec

-----------------------------------------------------------------------------
(* Sequences of ticks *)

\* Ticks of one session are told apart and ordered by their numbers.
Behind(a, b) == a.from = b.from => a.n < b.n
Before(S, T) == \A a \in S, b \in T : Behind(a, b)
Sorted(seq) == \A i, j \in DOMAIN seq : i < j => Behind(seq[i], seq[j])
Distinct(seq) == \A i, j \in DOMAIN seq : i # j => seq[i] # seq[j]

LEMMA EmptyRange == Range(<< >>) = {} /\ Sorted(<< >>) /\ Distinct(<< >>)
BY DEF Range, Sorted, Distinct

LEMMA PutRange ==
  ASSUME NEW seq \in Seq(Ticks), NEW t \in Ticks
  PROVE  Range(Append(seq, t)) = Range(seq) \cup {t}
BY AppendProperties DEF Range

LEMMA PutSorted ==
  ASSUME NEW seq \in Seq(Ticks), NEW t \in Ticks, Sorted(seq), Before(Range(seq), {t})
  PROVE  Sorted(Append(seq, t))
<1>1. ASSUME NEW i \in DOMAIN seq PROVE Behind(seq[i], t)
  BY DEF Before, Range
<1> QED BY <1>1, AppendProperties DEF Sorted

LEMMA PutDistinct ==
  ASSUME NEW seq \in Seq(Ticks), NEW t \in Ticks, Distinct(seq), t \notin Range(seq)
  PROVE  Distinct(Append(seq, t))
<1>1. ASSUME NEW i \in DOMAIN seq PROVE seq[i] # t
  BY DEF Range
<1> QED BY <1>1, AppendProperties DEF Distinct

LEMMA TakeRange ==
  ASSUME NEW seq \in Seq(Ticks), seq # << >>
  PROVE  Range(seq) = {Head(seq)} \cup Range(Tail(seq))
<1>1. /\ Head(seq) = seq[1] /\ 1 \in DOMAIN seq
      /\ DOMAIN Tail(seq) = 1 .. Len(seq) - 1
      /\ \A i \in DOMAIN Tail(seq) : Tail(seq)[i] = seq[i + 1]
  BY HeadTailProperties
<1>2. ASSUME NEW i \in DOMAIN seq PROVE seq[i] \in {Head(seq)} \cup Range(Tail(seq))
  <2>1. CASE i = 1
    BY <1>1, <2>1
  <2>2. CASE i # 1
    <3>1. i - 1 \in DOMAIN Tail(seq) /\ Tail(seq)[i - 1] = seq[i]
      BY <1>1, <2>2
    <3> QED BY <3>1 DEF Range
  <2> QED BY <2>1, <2>2
<1>3. ASSUME NEW i \in DOMAIN Tail(seq) PROVE Tail(seq)[i] \in Range(seq)
  BY <1>1 DEF Range
<1> QED BY <1>1, <1>2, <1>3 DEF Range

LEMMA TakeSorted ==
  ASSUME NEW seq \in Seq(Ticks), seq # << >>, Sorted(seq)
  PROVE  Sorted(Tail(seq)) /\ Before({Head(seq)}, Range(Tail(seq)))
BY HeadTailProperties DEF Sorted, Before, Range

LEMMA TakeDistinct ==
  ASSUME NEW seq \in Seq(Ticks), seq # << >>, Distinct(seq)
  PROVE  Distinct(Tail(seq)) /\ Head(seq) \notin Range(Tail(seq))
BY HeadTailProperties DEF Distinct, Range

-----------------------------------------------------------------------------
(* Ticks keep their order on the way to the hub *)

InHand == IF arb = "hold" THEN {arbTick} ELSE {}

\* The ticks on their way are older than the one its reader has in hand.
Older(S) ==
  \A t \in S : /\ t.n <= read[t.from]
               /\ reader[t.from] = "send" => t.n < read[t.from]

AllOlder ==
  Older(Range(log)) /\ Older(Range(hubChan)) /\ Older(InHand) /\ Older(Range(adapterChan))

StagesInOrder ==
  /\ Before(Range(log), Range(hubChan)) /\ Before(Range(log), InHand)
  /\ Before(Range(log), Range(adapterChan)) /\ Before(Range(hubChan), InHand)
  /\ Before(Range(hubChan), Range(adapterChan)) /\ Before(InHand, Range(adapterChan))

OrderInv == AllOlder /\ StagesInOrder /\ Sorted(hubChan) /\ Sorted(adapterChan)

LEMMA InitOrder == Init => OrderInv
BY EmptyRange DEF Init, OrderInv, AllOlder, StagesInOrder, Older, Before, InHand

LEMMA RangeTyped ==
  ASSUME TypeOK
  PROVE  /\ Range(log) \subseteq Ticks /\ Range(hubChan) \subseteq Ticks
         /\ InHand \subseteq Ticks /\ Range(adapterChan) \subseteq Ticks
BY DEF TypeOK, ChannelsOK, ArbOK, HubOK, Range, InHand

\* A reader that goes on only lets the others grow older.
LEMMA OlderKept ==
  ASSUME TypeOK, NEW s \in Sessions, ReadMessage(s) \/ ReaderLeaves(s) \/ SendTick(s),
         NEW S, S \subseteq Ticks, Older(S)
  PROVE  Older(S)'
<1> SUFFICES ASSUME NEW t \in S
             PROVE  /\ t.n <= read'[t.from]
                    /\ reader'[t.from] = "send" => t.n < read'[t.from]
  BY DEF Older
<1>1. t.from \in Sessions /\ t.n \in Nat
  BY DEF Ticks
<1>2. CASE t.from # s
  BY <1>1, <1>2 DEF ReadMessage, ReaderLeaves, SendTick, NextInMessage, TypeOK,
     ReadersOK, Older
<1>3. CASE t.from = s
  <2>1. CASE ReadMessage(s)
    BY <1>1, <1>3, <2>1 DEF ReadMessage, TypeOK, ReadersOK, Older
  <2>2. CASE ReaderLeaves(s)
    BY <1>1, <1>3, <2>2 DEF ReaderLeaves, TypeOK, ReadersOK, Older
  <2>3. CASE SendTick(s)
    BY <1>1, <1>3, <2>3 DEF SendTick, NextInMessage, TypeOK, ReadersOK, Older
  <2> QED BY <2>1, <2>2, <2>3
<1> QED BY <1>2, <1>3

LEMMA ReaderOrder ==
  ASSUME TypeOK, OrderInv, NEW s \in Sessions, Reader(s)
  PROVE  OrderInv'
<1> USE DEF mainVars, readerVars, arbVars, hubVars, pipeVars, clientVars
<1>1. CASE SendPanics(s)
  BY <1>1 DEF SendPanics, OrderInv, AllOlder, StagesInOrder, Older, InHand
<1>2. CASE ReadMessage(s) \/ ReaderLeaves(s) \/ SendTick(s)
  <2>1. /\ UNCHANGED << log, hubChan, arb, arbTick >>
        /\ Range(log)' = Range(log) /\ Range(hubChan)' = Range(hubChan) /\ InHand' = InHand
    BY <1>2 DEF ReadMessage, ReaderLeaves, SendTick, InHand
  <2>2. Older(Range(log))' /\ Older(Range(hubChan))' /\ Older(InHand)'
    <3>1. ASSUME NEW S, S \subseteq Ticks, Older(S) PROVE Older(S)'
      BY <1>2, <3>1, OlderKept
    <3>2. /\ \A t \in Range(log) : /\ t.n <= read'[t.from]
                                   /\ reader'[t.from] = "send" => t.n < read'[t.from]
          /\ \A t \in Range(hubChan) : /\ t.n <= read'[t.from]
                                       /\ reader'[t.from] = "send" => t.n < read'[t.from]
          /\ \A t \in InHand : /\ t.n <= read'[t.from]
                               /\ reader'[t.from] = "send" => t.n < read'[t.from]
      <4>1. \A t \in Ticks :
              /\ t.n <= read[t.from]
              /\ reader[t.from] = "send" => t.n < read[t.from]
              => /\ t.n <= read'[t.from]
                 /\ reader'[t.from] = "send" => t.n < read'[t.from]
        <5> SUFFICES ASSUME NEW t \in Ticks, Older({t})
                     PROVE  Older({t})'
          BY DEF Older
        <5> QED BY <3>1
      <4> QED BY <4>1, RangeTyped DEF OrderInv, AllOlder, Older
    <3> QED BY <2>1, <3>2 DEF Older
  <2>3. CASE adapterChan' = adapterChan
    <3>1. Older(Range(adapterChan))'
      <4>1. ASSUME NEW t \in Range(adapterChan)
            PROVE  /\ t.n <= read'[t.from]
                   /\ reader'[t.from] = "send" => t.n < read'[t.from]
        <5>1. t \in Ticks /\ Older({t})
          BY RangeTyped DEF OrderInv, AllOlder, Older
        <5>2. Older({t})'
          BY <1>2, <5>1, OlderKept
        <5> QED BY <5>2 DEF Older
      <4> QED BY <2>3, <4>1 DEF Older
    <3> QED BY <2>1, <2>2, <2>3, <3>1 DEF OrderInv, AllOlder, StagesInOrder
  <2>4. CASE SendTick(s) /\ adapterChan' = Append(adapterChan, Held(s))
    <3> DEFINE t == Held(s)
    <3>1. t \in Ticks /\ t.from = s /\ t.n = read[s] /\ reader[s] = "send"
      BY <2>4, HeldTyped DEF SendTick, Held
    <3>2. Range(adapterChan') = Range(adapterChan) \cup {t}
      BY <2>4, <3>1, PutRange DEF TypeOK, ChannelsOK
    <3>3. /\ Before(Range(log), {t}) /\ Before(Range(hubChan), {t}) /\ Before(InHand, {t})
          /\ Before(Range(adapterChan), {t})
      BY <3>1, RangeTyped DEF OrderInv, AllOlder, Older, Before, Behind
    <3>4. Sorted(adapterChan')
      BY <2>4, <3>1, <3>3, PutSorted DEF TypeOK, ChannelsOK, OrderInv
    <3>5. Older(Range(adapterChan))'
      <4>1. ASSUME NEW u \in Range(adapterChan) \cup {t}
            PROVE  /\ u.n <= read'[u.from]
                   /\ reader'[u.from] = "send" => u.n < read'[u.from]
        <5>1. CASE u = t
          BY <2>4, <3>1, <5>1 DEF SendTick, NextInMessage, TypeOK, ReadersOK
        <5>2. CASE u \in Range(adapterChan)
          <6>1. u \in Ticks /\ Older({u})
            BY <5>2, RangeTyped DEF OrderInv, AllOlder, Older
          <6>2. Older({u})'
            BY <1>2, <6>1, OlderKept
          <6> QED BY <6>2 DEF Older
        <5> QED BY <5>1, <5>2
      <4> QED BY <3>2, <4>1 DEF Older
    <3> QED BY <2>1, <2>2, <3>2, <3>3, <3>4, <3>5
        DEF OrderInv, AllOlder, StagesInOrder, Before
  <2> QED BY <1>2, <2>3, <2>4 DEF ReadMessage, ReaderLeaves, SendTick
<1> QED BY <1>1, <1>2 DEF Reader

LEMMA ArbOrder == ASSUME TypeOK, OrderInv, Arbitrator PROVE OrderInv'
<1> USE DEF mainVars, readerVars, arbVars, hubVars, pipeVars, clientVars
<1>1. CASE ArbReceive
  <2>1. adapterChan \in Seq(Ticks) /\ adapterChan # << >> /\ Sorted(adapterChan)
    BY <1>1 DEF ArbReceive, TypeOK, ChannelsOK, OrderInv
  <2>2. /\ Range(adapterChan) = {Head(adapterChan)} \cup Range(Tail(adapterChan))
        /\ Sorted(Tail(adapterChan))
        /\ Before({Head(adapterChan)}, Range(Tail(adapterChan)))
    BY <2>1, TakeRange, TakeSorted
  <2>3. /\ InHand' = {Head(adapterChan)} /\ adapterChan' = Tail(adapterChan)
        /\ UNCHANGED << log, hubChan, reader, read >>
    BY <1>1 DEF ArbReceive, InHand
  <2> QED BY <2>2, <2>3 DEF OrderInv, AllOlder, StagesInOrder, Older, Before
<1>2. CASE ArbHandles
  <2>1. /\ InHand = {arbTick} /\ InHand' = {} /\ arbTick \in Ticks
        /\ UNCHANGED << log, adapterChan, reader, read >>
    BY <1>2 DEF ArbHandles, InHand, TypeOK, ArbOK
  <2>2. CASE hubChan' = hubChan
    BY <2>1, <2>2 DEF OrderInv, AllOlder, StagesInOrder, Older, Before
  <2>3. CASE hubChan' = Append(hubChan, arbTick)
    <3>1. Range(hubChan') = Range(hubChan) \cup {arbTick}
      BY <2>1, <2>3, PutRange DEF TypeOK, ChannelsOK
    <3>2. Sorted(hubChan')
      BY <2>1, <2>3, PutSorted DEF TypeOK, ChannelsOK, OrderInv, StagesInOrder
    <3> QED BY <2>1, <3>1, <3>2 DEF OrderInv, AllOlder, StagesInOrder, Older, Before
  <2> QED BY <1>2, <2>2, <2>3 DEF ArbHandles
<1>3. CASE ArbPanics \/ ArbLeaves
  <2>1. InHand' = InHand \/ InHand' = {}
    BY <1>3 DEF ArbPanics, ArbLeaves, InHand
  <2> QED BY <1>3, <2>1 DEF ArbPanics, ArbLeaves, OrderInv, AllOlder, StagesInOrder, Older,
          Before
<1> QED BY <1>1, <1>2, <1>3 DEF Arbitrator

LEMMA BroadcastOrder == ASSUME TypeOK, OrderInv, Broadcast PROVE OrderInv'
<1>1. hubChan \in Seq(Ticks) /\ hubChan # << >> /\ Sorted(hubChan) /\ log \in Seq(Ticks)
  BY DEF Broadcast, TypeOK, ChannelsOK, HubOK, OrderInv
<1>2. /\ Range(hubChan) = {Head(hubChan)} \cup Range(Tail(hubChan))
      /\ Sorted(Tail(hubChan)) /\ Before({Head(hubChan)}, Range(Tail(hubChan)))
      /\ Head(hubChan) \in Ticks
  BY <1>1, TakeRange, TakeSorted, TakeTyped
<1>3. Range(log') = Range(log) \cup {Head(hubChan)}
  BY <1>1, <1>2, PutRange DEF Broadcast
<1>4. /\ hubChan' = Tail(hubChan) /\ InHand' = InHand
      /\ UNCHANGED << adapterChan, reader, read >>
  BY DEF Broadcast, readerVars, arbVars, InHand
<1> QED BY <1>2, <1>3, <1>4 DEF OrderInv, AllOlder, StagesInOrder, Older, Before

\* Everything else leaves the readers and the channels alone.
PipeUnchanged == UNCHANGED << reader, read, adapterChan, arb, arbTick, hubChan, log >>

LEMMA OthersLeavePipe ==
  ASSUME TypeOK, Main \/ (Hub /\ ~Broadcast) \/ (\E c \in Clients : Client(c))
         \/ UNCHANGED vars
  PROVE  PipeUnchanged \/ StartAdapters
BY DEF PipeUnchanged, vars, mainVars, readerVars, arbVars, hubVars, pipeVars, clientVars,
   Main, Shutdown, StartServers, StopServers, StopComponents, StopHub, CloseChans, MainReturns,
   AcceptLoopLeaves, Hub, LoopLeaves, TakeRegister, TakeUnregister, Send,
   Client, Accept, WriteTick, PeerLeaves

LEMMA StartOrder == ASSUME TypeOK, OrderInv, StartAdapters PROVE OrderInv'
<1>1. \A s \in Sessions : reader'[s] = "send" => reader[s] = "send"
  BY DEF StartAdapters, StartAdapter, TypeOK, ReadersOK
<1>2. UNCHANGED << read, adapterChan, hubChan, log >> /\ InHand' = InHand
  BY DEF StartAdapters, StartAdapter, arbVars, hubVars, InHand
<1>3. \A t \in Ticks : t.from \in Sessions
  BY DEF Ticks
<1> QED BY <1>1, <1>2, <1>3, RangeTyped DEF OrderInv, AllOlder, StagesInOrder, Older

LEMMA StepOrder == TypeOK /\ OrderInv /\ [Next]_vars => OrderInv'
<1> SUFFICES ASSUME TypeOK, OrderInv, [Next]_vars PROVE OrderInv'
  OBVIOUS
<1>1. CASE PipeUnchanged
  BY <1>1 DEF PipeUnchanged, OrderInv, AllOlder, StagesInOrder, Older, InHand
<1>2. CASE Next /\ \E s \in Sessions : Reader(s)
  BY <1>2, ReaderOrder
<1> QED BY <1>1, <1>2, ArbOrder, BroadcastOrder, StartOrder, OthersLeavePipe DEF Next

-----------------------------------------------------------------------------
(* A client is shown each tick once *)

SeenOnce(c) ==
  /\ Distinct(buffer[c])
  /\ Range(wire[c]) \cap Range(buffer[c]) = {}
  /\ Sending(c) \cap (Range(wire[c]) \cup Range(buffer[c])) = {}
  /\ Received(c) \subseteq Range(log)

SeenInv == \A c \in Clients : SeenOnce(c)

LEMMA SendingIs ==
  ASSUME TypeOK, NEW c \in Clients
  PROVE  Sending(c) = { t \in Ticks : << c, t >> \in sends }
BY DEF TypeOK, HubOK, Sending

LEMMA InitSeen == Init => SeenInv
BY EmptyRange DEF Init, SeenInv, SeenOnce, Received, Sending

LEMMA BroadcastSends ==
  ASSUME TypeOK, TypeOK', Broadcast, NEW c \in Clients
  PROVE  /\ Head(hubChan) \in Ticks
         /\ Sending(c)' = IF status[c] = "member" THEN Sending(c) \cup {Head(hubChan)}
                          ELSE Sending(c)
         /\ Range(log)' = Range(log) \cup {Head(hubChan)}
<1>1. hubChan \in Seq(Ticks) /\ hubChan # << >> /\ log \in Seq(Ticks)
  BY DEF Broadcast, TypeOK, ChannelsOK, HubOK
<1>2. Head(hubChan) \in Ticks
  BY <1>1, TakeTyped
<1>3. Sending(c) = { t \in Ticks : << c, t >> \in sends }
  BY SendingIs
<1>4. Sending(c)' = { t \in Ticks : << c, t >> \in sends' }
  BY DEF TypeOK, HubOK, Sending
<1>5. Range(log') = Range(log) \cup {Head(hubChan)}
  BY <1>1, <1>2, PutRange DEF Broadcast
<1>6. ASSUME NEW t \in Ticks
      PROVE  << c, t >> \in sends'
               <=> (<< c, t >> \in sends \/ (status[c] = "member" /\ t = Head(hubChan)))
  <2> DEFINE new == { << d, Head(hubChan) >> : d \in { e \in Clients : status[e] = "member" } }
  <2>1. sends' = sends \cup new
    BY DEF Broadcast
  <2>2. << c, t >> \in new <=> (status[c] = "member" /\ t = Head(hubChan))
    OBVIOUS
  <2> QED BY <2>1, <2>2
<1>7. CASE status[c] = "member"
  BY <1>2, <1>3, <1>4, <1>5, <1>6, <1>7
<1>8. CASE status[c] # "member"
  BY <1>2, <1>3, <1>4, <1>5, <1>6, <1>8
<1> QED BY <1>7, <1>8

LEMMA BroadcastSeen ==
  ASSUME TypeOK, TypeOK', OrderInv, SeenInv, Broadcast
  PROVE  SeenInv'
<1> SUFFICES ASSUME NEW c \in Clients PROVE SeenOnce(c)'
  BY DEF SeenInv
<1>1. Head(hubChan) \notin Range(log)
  <2>1. Head(hubChan) \in Range(hubChan)
    BY TakeRange DEF Broadcast, TypeOK, ChannelsOK
  <2>2. Head(hubChan) \in Ticks
    BY BroadcastSends
  <2> QED BY <2>1, <2>2 DEF OrderInv, StagesInOrder, Before, Behind, Ticks
<1>2. buffer' = buffer /\ wire' = wire
  BY DEF Broadcast, clientVars
<1> QED BY <1>1, <1>2, BroadcastSends DEF SeenInv, SeenOnce, Received

\* A send that ends without queueing its tick.
LEMMA SendEnds ==
  ASSUME TypeOK, TypeOK', NEW send \in sends, Send(send[1], send[2]), NEW c \in Clients
  PROVE  /\ send[1] \in Clients /\ send[2] \in Ticks /\ send[2] \in Sending(send[1])
         /\ Sending(c)' = IF c = send[1] THEN Sending(c) \ {send[2]} ELSE Sending(c)
<1>1. send[1] \in Clients /\ send[2] \in Ticks /\ send = << send[1], send[2] >>
  BY DEF TypeOK, HubOK
<1>2. Sending(c) = { t \in Ticks : << c, t >> \in sends }
      /\ Sending(send[1]) = { t \in Ticks : << send[1], t >> \in sends }
  BY <1>1, SendingIs
<1>3. Sending(c)' = { t \in Ticks : << c, t >> \in sends' }
  BY DEF TypeOK, HubOK, Sending
<1> QED BY <1>1, <1>2, <1>3 DEF Send

LEMMA SendSeen ==
  ASSUME TypeOK, TypeOK', SeenInv, NEW send \in sends, Send(send[1], send[2])
  PROVE  SeenInv'
<1> SUFFICES ASSUME NEW c \in Clients PROVE SeenOnce(c)'
  BY DEF SeenInv
<1>1. log' = log /\ wire' = wire
  BY DEF Send
<1>2. CASE buffer'[c] = buffer[c]
  BY <1>1, <1>2, SendEnds DEF SeenInv, SeenOnce, Received
<1>3. CASE c = send[1] /\ buffer'[c] = Append(buffer[c], send[2])
  <2>1. buffer[c] \in Seq(Ticks) /\ send[2] \in Ticks /\ send[2] \in Sending(c)
    BY <1>3, SendEnds DEF TypeOK, ClientsOK
  <2>2. Range(buffer'[c]) = Range(buffer[c]) \cup {send[2]}
    BY <1>3, <2>1, PutRange
  <2>3. Distinct(buffer'[c])
    BY <1>3, <2>1, PutDistinct DEF SeenInv, SeenOnce
  <2> QED BY <1>1, <1>3, <2>1, <2>2, <2>3, SendEnds DEF SeenInv, SeenOnce, Received
<1> QED BY <1>2, <1>3, SendEnds DEF Send, Report, Reject, TypeOK, ClientsOK

LEMMA WriteRange ==
  ASSUME TypeOK, NEW c \in Clients, WriteTick(c)
  PROVE  /\ Head(buffer[c]) \in Ticks
         /\ Range(buffer[c]) = {Head(buffer[c])} \cup Range(buffer'[c])
         /\ Range(wire'[c]) = Range(wire[c]) \cup {Head(buffer[c])}
<1>1. buffer[c] \in Seq(Ticks) /\ buffer[c] # << >> /\ wire[c] \in Seq(Ticks)
  BY DEF WriteTick, TypeOK, ClientsOK
<1>2. buffer'[c] = Tail(buffer[c]) /\ wire'[c] = Append(wire[c], Head(buffer[c]))
  BY DEF WriteTick, TakeOldest, TypeOK, ClientsOK
<1> QED BY <1>1, <1>2, TakeTyped, TakeRange, PutRange

LEMMA WriteSeen ==
  ASSUME TypeOK, SeenInv, NEW c \in Clients, WriteTick(c)
  PROVE  SeenInv'
<1> SUFFICES ASSUME NEW d \in Clients PROVE SeenOnce(d)'
  BY DEF SeenInv
<1>1. log' = log /\ Sending(d)' = Sending(d)
  BY DEF WriteTick, pipeVars, hubVars, Sending
<1>2. CASE d # c
  <2>1. buffer'[d] = buffer[d] /\ wire'[d] = wire[d]
    BY <1>2 DEF WriteTick, TakeOldest, TypeOK, ClientsOK
  <2> QED BY <1>1, <2>1 DEF SeenInv, SeenOnce, Received
<1>3. CASE d = c
  <2>1. Distinct(buffer'[c]) /\ Head(buffer[c]) \notin Range(buffer'[c])
    BY TakeDistinct DEF WriteTick, TakeOldest, TypeOK, ClientsOK, SeenInv, SeenOnce
  <2> QED BY <1>1, <1>3, <2>1, WriteRange DEF SeenInv, SeenOnce, Received
<1> QED BY <1>2, <1>3

SeenUnchanged == UNCHANGED << log, sends, buffer, wire >>

LEMMA OthersShowNothing ==
  ASSUME Main \/ Arbitrator \/ (Hub /\ ~Broadcast /\ ~\E send \in sends : Send(send[1], send[2]))
         \/ (\E s \in Sessions : Reader(s))
         \/ (\E c \in Clients : Client(c) /\ ~WriteTick(c)) \/ UNCHANGED vars
  PROVE  SeenUnchanged
BY DEF SeenUnchanged, vars, mainVars, readerVars, arbVars, hubVars, pipeVars, clientVars,
   Main, Shutdown, StartAdapters, StartAdapter, StartServers, StopServers, StopComponents,
   StopHub, CloseChans, MainReturns, AcceptLoopLeaves, Arbitrator, ArbReceive, ArbHandles, ArbPanics,
   ArbLeaves, Reader, ReadMessage, ReaderLeaves, SendTick, SendPanics, Hub, LoopLeaves,
   TakeRegister, TakeUnregister, Client, Accept, PeerLeaves

LEMMA StepSeen == TypeOK /\ TypeOK' /\ OrderInv /\ SeenInv /\ [Next]_vars => SeenInv'
<1> SUFFICES ASSUME TypeOK, TypeOK', OrderInv, SeenInv, [Next]_vars PROVE SeenInv'
  OBVIOUS
<1>1. CASE SeenUnchanged
  BY <1>1 DEF SeenUnchanged, SeenInv, SeenOnce, Received, Sending
<1> QED BY <1>1, BroadcastSeen, SendSeen, WriteSeen, OthersShowNothing DEF Next

FeedInv == TypeOK /\ OrderInv /\ SeenInv

LEMMA FeedInvariant == Spec => []FeedInv
<1>1. Init => FeedInv
  BY InitTyped, InitOrder, InitSeen DEF FeedInv
<1>2. FeedInv /\ [Next]_vars => FeedInv'
  BY StepTyped, StepOrder, StepSeen DEF FeedInv
<1> QED BY <1>1, <1>2, PTL DEF Spec

-----------------------------------------------------------------------------
(* The refinement of TickStream *)

LEMMA BroadcastPublishes == FeedInv /\ Broadcast => Stream!Next
<1> SUFFICES ASSUME FeedInv, Broadcast PROVE Stream!Next
  OBVIOUS
<1> DEFINE t == Head(hubChan)
<1>1. hubChan \in Seq(Ticks) /\ hubChan # << >>
  BY DEF FeedInv, TypeOK, ChannelsOK, Broadcast
<1>2. t \in Ticks /\ t \in Range(hubChan)
  BY <1>1, TakeTyped, TakeRange
<1>3. \A i \in DOMAIN log : log[i].from = t.from => log[i].n < t.n
  BY <1>2 DEF FeedInv, OrderInv, StagesInOrder, Before, Behind, Range
<1>4. t.from \in Sessions /\ t.n \in 1 .. read[t.from] /\ t = [from |-> t.from, n |-> t.n]
  BY <1>2 DEF FeedInv, TypeOK, ReadersOK, OrderInv, AllOlder, Older, Ticks
<1>5. log' = Append(log, t) /\ read' = read /\ wire' = wire
  BY DEF Broadcast, readerVars, clientVars
<1>6. Stream!Publish(t)
  BY <1>3, <1>5 DEF Stream!Publish
<1>7. Stream!Publish([from |-> t.from, n |-> t.n])
  BY <1>4, <1>6
<1> QED BY <1>4, <1>7 DEF Stream!Next

LEMMA WriteShows ==
  ASSUME FeedInv, NEW c \in Clients, WriteTick(c)
  PROVE  Stream!Next
<1> DEFINE t == Head(buffer[c])
<1>1. t \in Range(buffer[c])
  BY WriteRange DEF FeedInv
<1>2. t \notin Range(wire[c]) /\ t \in Range(log)
  BY <1>1 DEF FeedInv, SeenInv, SeenOnce, Received
<1>3. PICK i \in DOMAIN log : log[i] = t
  BY <1>2 DEF Range
<1>4. ~Stream!In(t, wire[c])
  BY <1>2 DEF Stream!In, Range
<1>5. Stream!Show(c, log[i])
  BY <1>3, <1>4 DEF Stream!Show, WriteTick, TakeOldest, pipeVars, readerVars, hubVars
<1> QED BY <1>3, <1>5 DEF Stream!Next

LEMMA ReaderReads ==
  ASSUME FeedInv, NEW s \in Sessions, Reader(s)
  PROVE  Stream!Next \/ UNCHANGED Stream!vars
<1>1. log' = log /\ wire' = wire
  BY DEF Reader, ReadMessage, ReaderLeaves, SendTick, SendPanics, pipeVars, hubVars,
     clientVars
<1>2. read' = read \/ read' = [read EXCEPT ![s] = @ + 1]
  BY DEF Reader, ReadMessage, ReaderLeaves, SendTick, SendPanics, NextInMessage, pipeVars,
     readerVars
<1> QED BY <1>1, <1>2 DEF Stream!Next, Stream!Read, Stream!vars

LEMMA OthersStutter ==
  ASSUME Main \/ Arbitrator \/ (Hub /\ ~Broadcast)
         \/ (\E c \in Clients : Client(c) /\ ~WriteTick(c)) \/ UNCHANGED vars
  PROVE  UNCHANGED Stream!vars
BY DEF Stream!vars, vars, mainVars, readerVars, arbVars, hubVars, pipeVars, clientVars,
   Main, Shutdown, StartAdapters, StartAdapter, StartServers, StopServers, StopComponents,
   StopHub, CloseChans, MainReturns, AcceptLoopLeaves, Arbitrator, ArbReceive, ArbHandles, ArbPanics,
   ArbLeaves, Hub, LoopLeaves, TakeRegister, TakeUnregister, Send, Client, Accept,
   PeerLeaves

\* From the readers to the clients, through two channels that may overflow and a
\* goroutine per send: ticks of a session are published in the order they were
\* read, and no client is shown one twice.
THEOREM Refinement == Spec => RefinesStream
<1>1. Init => Stream!Init
  BY DEF Init, Stream!Init
<1>2. FeedInv /\ [Next]_vars => [Stream!Next]_(Stream!vars)
  <2> SUFFICES ASSUME FeedInv, [Next]_vars PROVE [Stream!Next]_(Stream!vars)
    OBVIOUS
  <2> QED BY BroadcastPublishes, WriteShows, ReaderReads, OthersStutter DEF Next
<1> QED BY <1>1, <1>2, FeedInvariant, PTL DEF Spec, RefinesStream, Stream!Spec

-----------------------------------------------------------------------------
(* What a client may miss *)

NoGap(c) ==
  /\ status[c] \in {"outside", "queued"} => Received(c) = {}
  /\ joined[c] <= Len(log)
  /\ status[c] = "member" /\ peer[c] = "up" /\ c \notin unregister => Received(c) = Owed(c)

GapInv == \A c \in Clients : NoGap(c)

LEMMA InitGap == Init => GapInv
BY EmptyRange DEF Init, GapInv, NoGap, Received, Sending

LEMMA BroadcastGap ==
  ASSUME TypeOK, TypeOK', GapInv, Broadcast PROVE GapInv'
<1> SUFFICES ASSUME NEW c \in Clients PROVE NoGap(c)'
  BY DEF GapInv
<1> DEFINE t == Head(hubChan)
<1>1. UNCHANGED << status, joined, unregister, peer, buffer, wire >>
  BY DEF Broadcast, clientVars
<1>2. log \in Seq(Ticks) /\ t \in Ticks /\ log' = Append(log, t) /\ joined[c] \in Nat
  BY BroadcastSends DEF Broadcast, TypeOK, HubOK, ClientsOK
<1>3. joined[c] <= Len(log)
  BY DEF GapInv, NoGap
<1>4. Len(log') = Len(log) + 1 /\ Len(log) \in Nat
      /\ \A i \in 1 .. Len(log) : log'[i] = log[i]
      /\ log'[Len(log) + 1] = t
  BY <1>2, AppendProperties
<1>5. Owed(c)' = Owed(c) \cup {t}
  <2> DEFINE since == joined[c] + 1 .. Len(log)
             last == Len(log) + 1
  <2>1. Owed(c)' = { log'[i] : i \in joined[c] + 1 .. last }
    BY <1>1, <1>4 DEF Owed
  <2>2. joined[c] + 1 .. last = since \cup {last}
    BY <1>2, <1>3, <1>4
  <2>3. /\ \A i \in since : log'[i] = log[i]
        /\ log'[last] = t
    BY <1>2, <1>4
  <2>4. \A x : x \in Owed(c)' <=> \E i \in since \cup {last} : x = log'[i]
    <3> HIDE DEF since, last
    <3> QED BY <2>1, <2>2
  <2>5. \A x : x \in Owed(c) <=> \E i \in since : x = log[i]
    BY Zenon DEF Owed
  <2>6. \A x : x \in Owed(c)' <=> x \in Owed(c) \cup {t}
    <3> HIDE DEF since, last, t
    <3> QED BY <2>3, <2>4, <2>5, Zenon
  <2> HIDE DEF t
  <2> QED BY <2>6, Zenon
<1>6. Received(c)' = IF status[c] = "member" THEN Received(c) \cup {t} ELSE Received(c)
  <2>1. CASE status[c] = "member"
    BY <1>1, <2>1, BroadcastSends DEF Received
  <2>2. CASE status[c] # "member"
    BY <1>1, <2>2, BroadcastSends DEF Received
  <2> QED BY <2>1, <2>2
<1>7. joined'[c] <= Len(log')
  BY <1>1, <1>2, <1>3, <1>4
<1>8. CASE status[c] = "member"
  BY <1>1, <1>5, <1>6, <1>7, <1>8 DEF GapInv, NoGap
<1>9. CASE status[c] # "member"
  BY <1>1, <1>6, <1>7, <1>9 DEF GapInv, NoGap
<1> QED BY <1>8, <1>9

LEMMA SendGap ==
  ASSUME TypeOK, TypeOK', GapInv, NEW send \in sends, Send(send[1], send[2])
  PROVE  GapInv'
<1> SUFFICES ASSUME NEW c \in Clients PROVE NoGap(c)'
  BY DEF GapInv
<1>1. UNCHANGED << log, status, joined, peer, wire >> /\ Owed(c)' = Owed(c)
  BY DEF Send, Owed
<1>2. /\ send[1] \in Clients /\ send[2] \in Ticks /\ send[2] \in Sending(send[1])
      /\ Sending(c)' = IF c = send[1] THEN Sending(c) \ {send[2]} ELSE Sending(c)
  BY SendEnds
<1>3. CASE buffer'[c] = buffer[c] /\ c # send[1]
  <2>1. c \in unregister' <=> c \in unregister
    BY <1>3 DEF Send, Report, Reject
  <2>2. Received(c)' = Received(c)
    BY <1>1, <1>2, <1>3 DEF Received
  <2> QED BY <1>1, <2>1, <2>2 DEF GapInv, NoGap
<1>4. CASE c = send[1] /\ c \in unregister'
  <2>1. status[c] \notin {"outside", "queued"}
    <3>1. Received(c) # {}
      BY <1>2, <1>4 DEF Received
    <3> QED BY <3>1 DEF GapInv, NoGap
  <2> QED BY <1>1, <1>4, <2>1 DEF GapInv, NoGap
<1>5. CASE c = send[1] /\ buffer'[c] = Append(buffer[c], send[2]) /\ unregister' = unregister
  <2>1. Range(buffer'[c]) = Range(buffer[c]) \cup {send[2]}
    BY <1>2, <1>5, PutRange DEF TypeOK, ClientsOK
  <2>2. Received(c)' = Received(c)
    BY <1>1, <1>2, <1>5, <2>1 DEF Received
  <2> QED BY <1>1, <1>5, <2>2 DEF GapInv, NoGap
<1> QED BY <1>2, <1>3, <1>4, <1>5 DEF Send, Report, Reject, TypeOK, ClientsOK

LEMMA WriteGap ==
  ASSUME TypeOK, GapInv, NEW c \in Clients, WriteTick(c)
  PROVE  GapInv'
<1> SUFFICES ASSUME NEW d \in Clients PROVE NoGap(d)'
  BY DEF GapInv
<1>1. /\ UNCHANGED << log, sends, status, joined, unregister, peer >>
      /\ Owed(d)' = Owed(d) /\ Sending(d)' = Sending(d)
  BY DEF WriteTick, pipeVars, hubVars, Sending, Owed
<1>2. Range(wire'[d]) \cup Range(buffer'[d]) = Range(wire[d]) \cup Range(buffer[d])
  <2>1. CASE d = c
    BY <2>1, WriteRange
  <2>2. CASE d # c
    BY <2>2 DEF WriteTick, TakeOldest, TypeOK, ClientsOK
  <2> QED BY <2>1, <2>2
<1>3. Received(d)' = Received(d)
  BY <1>1, <1>2 DEF Received
<1> QED BY <1>1, <1>3 DEF GapInv, NoGap

\* Steps that move a client, but no tick.
Moves ==
  \/ StopHub
  \/ \E c \in Clients : TakeRegister(c) \/ TakeUnregister(c) \/ Accept(c) \/ PeerLeaves(c)

LEMMA MoveGap == ASSUME TypeOK, GapInv, Moves PROVE GapInv'
<1> SUFFICES ASSUME NEW d \in Clients PROVE NoGap(d)'
  BY DEF GapInv
<1>1. UNCHANGED << log, sends, buffer, wire >> /\ Received(d)' = Received(d)
  BY DEF Moves, StopHub, TakeRegister, TakeUnregister, Accept, PeerLeaves, pipeVars,
     hubVars, Received, Sending
<1>2. CASE StopHub
  BY <1>1, <1>2 DEF StopHub, TypeOK, ClientsOK, GapInv, NoGap
<1>3. ASSUME NEW c \in Clients, TakeRegister(c) PROVE NoGap(d)'
  <2>1. Len(log) \in Nat
    BY LenProperties DEF TypeOK, HubOK
  <2>2. CASE d = c
    <3>1. joined'[d] = Len(log)
      BY <1>3, <2>2 DEF TakeRegister, TypeOK, ClientsOK
    <3>2. Owed(d)' = { log'[i] : i \in Len(log) + 1 .. Len(log) }
      BY <1>1, <3>1 DEF Owed
    <3>3. Owed(d)' = {}
      BY <2>1, <3>2
    <3> QED BY <1>1, <1>3, <2>1, <2>2, <3>1, <3>3
        DEF TakeRegister, TypeOK, ClientsOK, GapInv, NoGap
  <2>3. CASE d # c
    <3>1. UNCHANGED << joined[d], status[d], unregister, peer >> /\ Owed(d)' = Owed(d)
      BY <1>1, <1>3, <2>3 DEF TakeRegister, TypeOK, ClientsOK, Owed
    <3> QED BY <1>1, <3>1 DEF GapInv, NoGap
  <2> QED BY <2>2, <2>3
<1>4. ASSUME NEW c \in Clients, TakeUnregister(c) \/ Accept(c) \/ PeerLeaves(c)
      PROVE  NoGap(d)'
  <2>1. joined' = joined /\ Owed(d)' = Owed(d)
    BY <1>1, <1>4 DEF TakeUnregister, Accept, PeerLeaves, Owed
  <2>2. CASE TakeUnregister(c)
    BY <1>1, <2>1, <2>2 DEF TakeUnregister, TypeOK, ClientsOK, GapInv, NoGap
  <2>3. CASE Accept(c)
    BY <1>1, <2>1, <2>3 DEF Accept, TypeOK, ClientsOK, GapInv, NoGap
  <2>4. CASE PeerLeaves(c)
    BY <1>1, <2>1, <2>4 DEF PeerLeaves, TypeOK, ClientsOK, GapInv, NoGap
  <2> QED BY <1>4, <2>2, <2>3, <2>4
<1> QED BY <1>2, <1>3, <1>4 DEF Moves

GapUnchanged == UNCHANGED << log, sends, buffer, wire, status, joined, unregister, peer >>

LEMMA OthersMoveNobody ==
  ASSUME (Main /\ ~StopHub) \/ Arbitrator \/ (\E loop \in loops : LoopLeaves(loop))
         \/ (\E s \in Sessions : Reader(s)) \/ UNCHANGED vars
  PROVE  GapUnchanged
BY DEF GapUnchanged, vars, mainVars, readerVars, arbVars, hubVars, pipeVars, clientVars,
   Main, Shutdown, StartAdapters, StartAdapter, StartServers, StopServers, StopComponents,
   CloseChans, MainReturns, AcceptLoopLeaves, Arbitrator, ArbReceive, ArbHandles, ArbPanics,
   ArbLeaves, Reader, ReadMessage, ReaderLeaves, SendTick, SendPanics, LoopLeaves

LEMMA StepGap == TypeOK /\ TypeOK' /\ GapInv /\ [Next]_vars => GapInv'
<1> SUFFICES ASSUME TypeOK, TypeOK', GapInv, [Next]_vars PROVE GapInv'
  OBVIOUS
<1>1. CASE GapUnchanged
  BY <1>1 DEF GapUnchanged, GapInv, NoGap, Received, Sending, Owed
<1>2. CASE Moves
  BY <1>2, MoveGap
<1>3. CASE \E send \in sends : Send(send[1], send[2])
  BY <1>3, SendGap
<1>4. CASE \E c \in Clients : WriteTick(c)
  BY <1>4, WriteGap
<1>5. CASE Broadcast
  BY <1>5, BroadcastGap
<1> QED BY <1>1, <1>2, <1>3, <1>4, <1>5, OthersMoveNobody
        DEF Next, Main, Shutdown, Hub, Client, Moves

\* A member of the hub whose peer is there, and that nobody has reported, has been
\* sent or is being sent every tick broadcast since it was registered.
THEOREM NothingMissedSilently == Spec => []NoSilentGap
<1>1. Init => TypeOK /\ GapInv
  BY InitTyped, InitGap
<1>2. TypeOK /\ GapInv /\ [Next]_vars => (TypeOK /\ GapInv)'
  BY StepTyped, StepGap
<1>3. GapInv => NoSilentGap
  BY DEF GapInv, NoGap, NoSilentGap
<1> QED BY <1>1, <1>2, <1>3, PTL DEF Spec

-----------------------------------------------------------------------------
(* A client gets two ticks in the wrong order only if their sends overlapped *)

LEMMA PutQueues ==
  ASSUME NEW seen \in Seq(Ticks), NEW rest \in Seq(Ticks), NEW t \in Ticks
  PROVE  seen \o Append(rest, t) = Append(seen \o rest, t)
<1>1. << t >> \in Seq(Ticks) /\ seen \o rest \in Seq(Ticks)
  BY ConcatProperties
<1> QED BY <1>1, AppendIsConcat, ConcatAssociative

LEMMA TakeKeepsOrder ==
  ASSUME NEW seen \in Seq(Ticks), NEW rest \in Seq(Ticks), rest # << >>
  PROVE  Append(seen, Head(rest)) \o Tail(rest) = seen \o rest
<1>1. Head(rest) \in Ticks /\ Tail(rest) \in Seq(Ticks) /\ << Head(rest) >> \in Seq(Ticks)
  BY HeadTailProperties
<1>2. rest = << Head(rest) >> \o Tail(rest)
  <2>1. Len(rest) \in Nat \ {0}
    BY LenProperties, EmptySeq
  <2>2. 1 \in 1 .. Len(rest) /\ Len(rest) \in 1 .. Len(rest)
    BY <2>1
  <2>3. SubSeq(rest, 1, Len(rest)) = << rest[1] >> \o SubSeq(rest, 1 + 1, Len(rest))
    BY <2>2, SubSeqRecursiveFirst
  <2>4. rest[1] = Head(rest) /\ SubSeq(rest, 1 + 1, Len(rest)) = Tail(rest)
    BY TailIsSubSeq
  <2> QED BY <2>3, <2>4, SubSeqFull
<1>3. Append(seen, Head(rest)) = seen \o << Head(rest) >>
  BY <1>1, AppendIsConcat
<1> QED BY <1>1, <1>2, <1>3, ConcatAssociative

\* If older is still to come at c, or comes after newer, the hub broadcast newer
\* while older was being sent.
Excused(c, newer, older) == Newer(newer, older) => << c, older, newer >> \in overlapped

QueuedInOrder(c) ==
  \A i, j \in DOMAIN Queue(c) : i < j => Excused(c, Queue(c)[i], Queue(c)[j])

SendingExcused(c) ==
  \A older \in Sending(c) : \A newer \in Received(c) : Excused(c, newer, older)

OvertakeInv == \A c \in Clients : QueuedInOrder(c) /\ SendingExcused(c)

LEMMA InitOvertake == Init => OvertakeInv
BY EmptyRange DEF Init, OvertakeInv, QueuedInOrder, SendingExcused, Excused, Newer, Sending

LEMMA QueueTyped ==
  ASSUME TypeOK, NEW c \in Clients
  PROVE  /\ wire[c] \in Seq(Ticks) /\ buffer[c] \in Seq(Ticks) /\ Queue(c) \in Seq(Ticks)
         /\ \A i \in DOMAIN Queue(c) : Queue(c)[i] \in Received(c)
<1>1. wire[c] \in Seq(Ticks) /\ buffer[c] \in Seq(Ticks)
  BY DEF TypeOK, ClientsOK
<1>2. Queue(c) \in Seq(Ticks)
  BY <1>1, ConcatProperties DEF Queue
<1>3. ASSUME NEW i \in DOMAIN Queue(c) PROVE Queue(c)[i] \in Range(wire[c]) \cup Range(buffer[c])
  <2>1. /\ Len(wire[c]) \in Nat /\ DOMAIN wire[c] = 1 .. Len(wire[c])
        /\ Len(buffer[c]) \in Nat /\ DOMAIN buffer[c] = 1 .. Len(buffer[c])
    BY <1>1, LenProperties
  <2> DEFINE q == wire[c] \o buffer[c]
  <2>0. /\ Len(q) = Len(wire[c]) + Len(buffer[c])
        /\ \A k \in 1 .. Len(wire[c]) + Len(buffer[c]) :
             q[k] = IF k <= Len(wire[c]) THEN wire[c][k] ELSE buffer[c][k - Len(wire[c])]
    BY <1>1, ConcatProperties
  <2>4. i \in 1 .. Len(wire[c]) + Len(buffer[c])
    <3>1. DOMAIN q = 1 .. Len(q)
      BY <1>1, <1>2, LenProperties DEF Queue
    <3> QED BY <2>0, <3>1, <1>3 DEF Queue
  <2>5. Queue(c)[i] = IF i <= Len(wire[c]) THEN wire[c][i] ELSE buffer[c][i - Len(wire[c])]
    BY <2>0, <2>4 DEF Queue
  <2>2. CASE i <= Len(wire[c])
    BY <2>1, <2>2, <2>4, <2>5 DEF Range
  <2>3. CASE i > Len(wire[c])
    <3>0. \A a, b \in Nat : \A k \in 1 .. a + b : k > a => k - a \in 1 .. b
      OBVIOUS
    <3>1. i - Len(wire[c]) \in DOMAIN buffer[c]
      BY <2>1, <2>3, <2>4, <3>0
    <3> QED BY <2>1, <2>3, <2>4, <2>5, <3>1 DEF Range
  <2> QED BY <2>1, <2>2, <2>3, <2>4
<1> QED BY <1>1, <1>2, <1>3 DEF Received

\* A broadcast puts its tick after all others and excuses those under way.
LEMMA BroadcastOvertake ==
  ASSUME TypeOK, TypeOK', OrderInv, SeenInv, OvertakeInv, Broadcast
  PROVE  OvertakeInv'
<1> SUFFICES ASSUME NEW c \in Clients PROVE (QueuedInOrder(c) /\ SendingExcused(c))'
  BY DEF OvertakeInv
<1> DEFINE t == Head(hubChan)
<1>1. /\ log \in Seq(Ticks) /\ t \in Ticks /\ log' = Append(log, t)
      /\ UNCHANGED << wire, buffer >> /\ Queue(c)' = Queue(c)
  BY BroadcastSends DEF Broadcast, clientVars, TypeOK, HubOK, Queue
<1>2. t \notin Range(log)
  <2>1. t \in Range(hubChan)
    BY TakeRange DEF Broadcast, TypeOK, ChannelsOK
  <2> QED BY <1>1, <2>1 DEF OrderInv, StagesInOrder, Before, Behind, Ticks
<1>3. ASSUME NEW newer, NEW older, Newer(newer, older)'
      PROVE  Newer(newer, older) \/ (newer = t /\ older # t)
  <2>1. Len(log) \in Nat /\ DOMAIN log = 1 .. Len(log) /\ DOMAIN log' = 1 .. Len(log) + 1
        /\ \A i \in 1 .. Len(log) : log'[i] = log[i]
        /\ log'[Len(log) + 1] = t
    BY <1>1, AppendProperties, LenProperties
  <2>2. PICK i, j \in DOMAIN log' : i < j /\ log'[i] = older /\ log'[j] = newer
    BY <1>3 DEF Newer
  <2>3. i \in DOMAIN log /\ log[i] = older /\ older # t
    BY <1>2, <2>1, <2>2 DEF Range
  <2>4. CASE j = Len(log) + 1
    BY <2>1, <2>2, <2>3, <2>4
  <2>5. CASE j # Len(log) + 1
    BY <2>1, <2>2, <2>3, <2>5 DEF Newer
  <2> QED BY <2>4, <2>5
<1>4. overlapped \subseteq overlapped'
      /\ \A older \in Sending(c) : << c, older, t >> \in overlapped'
  <2>1. \A older \in Sending(c) : << c, older >> \in sends
    BY SendingIs
  <2>2. overlapped' = overlapped \cup { << send[1], send[2], t >> : send \in sends }
    BY DEF Broadcast
  <2>3. ASSUME NEW older \in Sending(c) PROVE << c, older, t >> \in overlapped'
    <3>1. PICK send \in sends : send = << c, older >>
      BY <2>1, <2>3
    <3>2. << send[1], send[2], t >> = << c, older, t >>
      BY <3>1
    <3> QED BY <2>2, <3>2
  <2> QED BY <2>2, <2>3
<1>5. t \notin Received(c) /\ Received(c) \subseteq Range(log)
  BY <1>2 DEF SeenInv, SeenOnce
<1>6. QueuedInOrder(c)'
  <2> SUFFICES ASSUME NEW i \in DOMAIN Queue(c), NEW j \in DOMAIN Queue(c), i < j,
                      NEW newer, newer = Queue(c)[i], NEW older, older = Queue(c)[j],
                      Newer(newer, older)'
               PROVE  << c, older, newer >> \in overlapped'
    BY <1>1 DEF QueuedInOrder, Excused, Newer
  <2>1. newer # t
    BY <1>5, QueueTyped
  <2>2. Newer(newer, older)
    BY <1>3, <2>1
  <2> QED BY <1>4, <2>2 DEF OvertakeInv, QueuedInOrder, Excused
<1>7. SendingExcused(c)'
  <2>1. Sending(c)' \subseteq Sending(c) \cup {t} /\ Received(c)' \subseteq Received(c) \cup {t}
    BY <1>1, BroadcastSends DEF Received
  <2> SUFFICES ASSUME NEW older \in Sending(c) \cup {t}, NEW newer \in Received(c) \cup {t},
                      Newer(newer, older)'
               PROVE  << c, older, newer >> \in overlapped'
    BY <2>1 DEF SendingExcused, Excused, Newer
  <2>2. CASE newer = t /\ older # t
    BY <1>4, <2>2
  <2>3. CASE Newer(newer, older) /\ ~(newer = t /\ older # t)
    <3>1. older \in Range(log) /\ newer \in Range(log)
      BY <2>3 DEF Newer, Range
    <3>2. older \in Sending(c) /\ newer \in Received(c)
      BY <1>2, <3>1
    <3> QED BY <1>4, <2>3, <3>2 DEF OvertakeInv, SendingExcused, Excused
  <2> QED BY <1>3, <2>2, <2>3
<1> QED BY <1>6, <1>7

\* A tick that is queued follows only ticks it was excused for.
LEMMA SendOvertake ==
  ASSUME TypeOK, TypeOK', OvertakeInv, NEW send \in sends, Send(send[1], send[2])
  PROVE  OvertakeInv'
<1> SUFFICES ASSUME NEW c \in Clients PROVE (QueuedInOrder(c) /\ SendingExcused(c))'
  BY DEF OvertakeInv
<1>1. UNCHANGED << log, wire, overlapped >>
  BY DEF Send
<1>2. /\ send[1] \in Clients /\ send[2] \in Ticks /\ send[2] \in Sending(send[1])
      /\ Sending(c)' = IF c = send[1] THEN Sending(c) \ {send[2]} ELSE Sending(c)
  BY SendEnds
<1>3. \A newer, older : Excused(c, newer, older) => Excused(c, newer, older)'
  BY <1>1 DEF Excused, Newer
<1>4. CASE buffer'[c] = buffer[c]
  <2>1. Queue(c)' = Queue(c) /\ Received(c)' \subseteq Received(c) /\ Sending(c)' \subseteq Sending(c)
    BY <1>1, <1>2, <1>4 DEF Queue, Received
  <2> QED BY <1>3, <2>1 DEF OvertakeInv, QueuedInOrder, SendingExcused
<1>5. CASE c = send[1] /\ buffer'[c] = Append(buffer[c], send[2])
  <2> DEFINE t == send[2]
  <2>1. Queue(c)' = Append(Queue(c), t) /\ Queue(c) \in Seq(Ticks)
    <3>1. wire[c] \in Seq(Ticks) /\ buffer[c] \in Seq(Ticks) /\ Queue(c) \in Seq(Ticks)
      BY QueueTyped
    <3>2. wire[c] \o Append(buffer[c], t) = Append(wire[c] \o buffer[c], t)
      BY <1>2, <3>1, PutQueues
    <3> QED BY <1>1, <1>5, <3>1, <3>2 DEF Queue
  <2>2. Received(c)' = Received(c) /\ Sending(c)' \subseteq Sending(c)
    BY <1>1, <1>2, <1>5, PutRange, QueueTyped DEF Received
  <2>3. SendingExcused(c)'
    BY <1>3, <2>2 DEF OvertakeInv, SendingExcused
  <2>4. QueuedInOrder(c)'
    <3> SUFFICES ASSUME NEW i \in DOMAIN Queue(c)', NEW j \in DOMAIN Queue(c)', i < j
                 PROVE  Excused(c, Queue(c)'[i], Queue(c)'[j])
      BY <1>3 DEF QueuedInOrder
    <3>1. /\ Len(Queue(c)) \in Nat /\ DOMAIN Queue(c) = 1 .. Len(Queue(c))
          /\ DOMAIN Queue(c)' = 1 .. Len(Queue(c)) + 1
          /\ \A k \in 1 .. Len(Queue(c)) : Queue(c)'[k] = Queue(c)[k]
          /\ Queue(c)'[Len(Queue(c)) + 1] = t
      BY <2>1, AppendProperties, LenProperties
    <3>2. i \in DOMAIN Queue(c) /\ Queue(c)'[i] = Queue(c)[i]
      BY <3>1
    <3>3. CASE j \in DOMAIN Queue(c)
      BY <3>1, <3>2, <3>3 DEF OvertakeInv, QueuedInOrder
    <3>4. CASE j = Len(Queue(c)) + 1
      <4>1. Queue(c)[i] \in Received(c) /\ t \in Sending(c) /\ Queue(c)'[j] = t
        BY <1>2, <1>5, <3>1, <3>2, <3>4, QueueTyped
      <4> QED BY <3>2, <4>1 DEF OvertakeInv, SendingExcused
    <3> QED BY <3>1, <3>3, <3>4
  <2> QED BY <2>3, <2>4
<1> QED BY <1>2, <1>4, <1>5 DEF Send, Report, Reject, TypeOK, ClientsOK

\* A tick written moves on in its place.
LEMMA WriteOvertake ==
  ASSUME TypeOK, OvertakeInv, NEW c \in Clients, WriteTick(c)
  PROVE  OvertakeInv'
<1> SUFFICES ASSUME NEW d \in Clients PROVE (QueuedInOrder(d) /\ SendingExcused(d))'
  BY DEF OvertakeInv
<1>1. UNCHANGED << log, overlapped >> /\ Sending(d)' = Sending(d)
  BY DEF WriteTick, pipeVars, hubVars, Sending
<1>2. Queue(d)' = Queue(d) /\ Received(d)' = Received(d)
  <2>1. CASE d = c
    <3>1. /\ buffer[c] # << >> /\ wire'[c] = Append(wire[c], Head(buffer[c]))
          /\ buffer'[c] = Tail(buffer[c])
      BY DEF WriteTick, TakeOldest, TypeOK, ClientsOK
    <3> QED BY <1>1, <2>1, <3>1, QueueTyped, TakeKeepsOrder, WriteRange DEF Queue, Received
  <2>2. CASE d # c
    <3>1. wire'[d] = wire[d] /\ buffer'[d] = buffer[d]
      BY <2>2 DEF WriteTick, TakeOldest, TypeOK, ClientsOK
    <3> QED BY <1>1, <3>1 DEF Queue, Received
  <2> QED BY <2>1, <2>2
<1> QED BY <1>1, <1>2 DEF OvertakeInv, QueuedInOrder, SendingExcused, Excused, Newer

OvertakeUnchanged == UNCHANGED << log, sends, overlapped, buffer, wire >>

LEMMA OthersOvertakeNothing ==
  ASSUME Main \/ Arbitrator \/ (Hub /\ ~Broadcast /\ ~\E send \in sends : Send(send[1], send[2]))
         \/ (\E s \in Sessions : Reader(s))
         \/ (\E c \in Clients : Client(c) /\ ~WriteTick(c)) \/ UNCHANGED vars
  PROVE  OvertakeUnchanged
BY DEF OvertakeUnchanged, vars, mainVars, readerVars, arbVars, hubVars, pipeVars, clientVars,
   Main, Shutdown, StartAdapters, StartAdapter, StartServers, StopServers, StopComponents,
   StopHub, CloseChans, MainReturns, AcceptLoopLeaves, Arbitrator, ArbReceive, ArbHandles,
   ArbPanics, ArbLeaves, Reader, ReadMessage, ReaderLeaves, SendTick, SendPanics, Hub,
   LoopLeaves, TakeRegister, TakeUnregister, Client, Accept, PeerLeaves

LEMMA StepOvertake == FeedInv /\ FeedInv' /\ OvertakeInv /\ [Next]_vars => OvertakeInv'
<1> SUFFICES ASSUME FeedInv, FeedInv', OvertakeInv, [Next]_vars PROVE OvertakeInv'
  OBVIOUS
<1>1. CASE OvertakeUnchanged
  <2>1. \A c : Queue(c)' = Queue(c) /\ Sending(c)' = Sending(c) /\ Received(c)' = Received(c)
    BY <1>1 DEF OvertakeUnchanged, Queue, Received, Sending
  <2>2. UNCHANGED << log, overlapped >>
    BY <1>1 DEF OvertakeUnchanged
  <2> QED BY <2>1, <2>2 DEF OvertakeInv, QueuedInOrder, SendingExcused, Excused, Newer
<1> QED BY <1>1, BroadcastOvertake, SendOvertake, WriteOvertake, OthersOvertakeNothing
        DEF Next, FeedInv

\* Whatever the goroutines of the broadcasts do, a client gets two ticks in the
\* wrong order only if the older one was still being sent to it when the newer one
\* was broadcast.
THEOREM OvertakingIsBounded == Spec => []OvertakenOnlyInFlight
<1>1. FeedInv /\ FeedInv' /\ OvertakeInv /\ [Next]_vars => OvertakeInv'
  BY StepOvertake
<1>2. OvertakeInv => OvertakenOnlyInFlight
  BY DEF OvertakeInv, QueuedInOrder, Excused, OvertakenOnlyInFlight
<1> QED BY <1>1, <1>2, InitOvertake, FeedInvariant, PTL DEF Spec

=============================================================================
