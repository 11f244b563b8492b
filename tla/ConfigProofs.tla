---------------------------- MODULE ConfigProofs ----------------------------
(***************************************************************************)
(* Proofs about the configuration in Ingestion, for every finite set of    *)
(* pairs, batch size and choice of event types: the lookups agree with     *)
(* what is subscribed to, and all of it is.                                *)
(***************************************************************************)
EXTENDS Ingestion, ListLemmas

\* Normalizing what is sent to Twelve Data for an entry gives the symbol s
\* exactly when IsTwelveDataCrypto and IsTwelveDataForex would match the entry.
LEMMA EntryMatches ==
  ASSUME NEW s \in Normalized,
         NEW e \in TwelveEntries("crypto") \cup TwelveEntries("forex")
  PROVE  s = NormalizeFromTwelve(ToTwelveFormat(e))
           <=> e = s \/ e = ToTwelveFormat(s)
<1> USE DEF Normalized, TwelveEntries, Written
<1>1. PICK p \in Pairs : s = [pair |-> p, kind |-> KindOf[p], sep |-> "-"]
  OBVIOUS
<1>2. PICK q \in Pairs, x \in {"-", "/"} :
        e = [pair |-> q, kind |-> KindOf[q], sep |-> x]
  OBVIOUS
<1>3. ToTwelveFormat(s) = [pair |-> p, kind |-> KindOf[p], sep |-> "/"]
  BY <1>1 DEF ToTwelveFormat
<1>4. NormalizeFromTwelve(ToTwelveFormat(e))
        = [pair |-> q, kind |-> KindOf[q], sep |-> "-"]
  <2>1. ToTwelveFormat(e) = [pair |-> q, kind |-> KindOf[q], sep |-> "/"]
    BY <1>2 DEF ToTwelveFormat
  <2> QED BY <2>1 DEF NormalizeFromTwelve
<1> QED BY <1>1, <1>2, <1>3, <1>4

\* The configuration is loaded once.
LEMMA Configured == Spec => [](cfg \in Configurations)
<1>1. Init => cfg \in Configurations
  BY DEF Init
<1>2. cfg \in Configurations /\ [Next]_vars => (cfg \in Configurations)'
  BY DEF Next, vars, SubscribeBatch, SubscribeAll, Arrive, ProcessSingleMessage,
         Return
<1> QED BY <1>1, <1>2, PTL DEF Spec

\* In every configuration and for every symbol, "in Twelve" means the adapter
\* asked Twelve Data for it (config.go, GetSymbolSourceInfo, GetTwelveSymbols).
THEOREM TwelveLookupCorrect == Spec => []TwelveLookupExact
<1>1. ASSUME cfg \in Configurations, NEW s \in Normalized
      PROVE  Info(s).inTwelve <=> TwelveDelivers(cfg, s)
  <2>1. \A e \in cfg.twelveCrypto \cup cfg.twelveForex :
          s = NormalizeFromTwelve(ToTwelveFormat(e)) <=> e = s \/ e = ToTwelveFormat(s)
    BY <1>1, EntryMatches DEF Configurations
  <2>2. TwelveDelivers(cfg, s)
          <=> \E e \in cfg.twelveCrypto \cup cfg.twelveForex :
                s = NormalizeFromTwelve(ToTwelveFormat(e))
    BY DEF TwelveDelivers, GetTwelveSymbols
  <2>3. Info(s).inTwelve
          <=> \E e \in cfg.twelveCrypto \cup cfg.twelveForex :
                e = s \/ e = ToTwelveFormat(s)
    BY DEF Info, GetSymbolSourceInfo, IsTwelveDataCrypto, IsTwelveDataForex
  <2> QED BY <2>1, <2>2, <2>3
<1>2. cfg \in Configurations => TwelveLookupExact
  BY <1>1 DEF TwelveLookupExact
<1> QED BY <1>2, Configured, PTL

\* Whatever a Massive connection delivers, the lookup knows as Massive's.
THEOREM MassiveLookupCorrect == Spec => []MassiveLookupComplete
<1>1. MassiveLookupComplete
  BY DEF MassiveLookupComplete, MassiveDelivers, GetMassiveCryptoSymbols,
         GetMassiveForexSymbols, Info, GetSymbolSourceInfo, IsMassiveCrypto,
         IsMassiveForex
<1> QED BY <1>1, PTL

-----------------------------------------------------------------------------
(* The subscription *)

\* What the session subscribes to, as a set.
Entries ==
  CASE session = "twelve" ->
         { [ev |-> "price", symbol |-> ToTwelveFormat(e)] :
             e \in cfg.twelveCrypto \cup cfg.twelveForex }
    [] session = "crypto" ->
         { [ev |-> e, symbol |-> s] : e \in CryptoEvents, s \in cfg.massiveCrypto }
    [] session = "forex" ->
         { [ev |-> e, symbol |-> s] : e \in ForexEvents, s \in cfg.massiveForex }

\* The symbols that the requests written so far ask for.
AskedFor ==
  LET n == BatchSize * Len(asked)
  IN  IF n > Len(symbols) THEN Len(symbols) ELSE n

\* Twelve Data: the batches written are a prefix of the list, cut at multiples of
\* BatchSize.  Massive: nothing is written, or everything.
SubscriptionInv ==
  /\ cfg \in Configurations /\ session \in Connections /\ reading \in BOOLEAN
  /\ symbols \in Seq(Entries) /\ asked \in Seq(Seq(Entries))
  /\ session = "twelve" =>
       /\ \A i \in DOMAIN asked : Len(asked[i]) \in 1 .. BatchSize
       /\ FlattenSeq(asked) = SubSeq(symbols, 1, AskedFor)
       /\ reading => BatchSize * Len(asked) >= Len(symbols)
  /\ session # "twelve" /\ reading => asked = << symbols >>

LEMMA WrittenFinite ==
  ASSUME NEW kinds, NEW seps, IsFiniteSet(seps)
  PROVE  IsFiniteSet(Written(kinds, seps))
<1> DEFINE Q == { q \in Pairs : KindOf[q] \in kinds }
           f == [x \in Q \X seps |-> [pair |-> x[1], kind |-> KindOf[x[1]], sep |-> x[2]]]
<1>1. IsFiniteSet(Q)
  BY PairsAssumption, FS_Subset
<1>2. IsFiniteSet(Q \X seps)
  BY <1>1, FS_Product
<1>3. IsFiniteSet({ f[x] : x \in DOMAIN f })
  BY <1>2, ImageFinite
<1>4. Written(kinds, seps) = { f[x] : x \in Q \X seps }
  <2>1. ASSUME NEW e \in Written(kinds, seps) PROVE e \in { f[x] : x \in Q \X seps }
    <3>1. PICK p \in Q, sep \in seps : e = [pair |-> p, kind |-> KindOf[p], sep |-> sep]
      BY DEF Written
    <3>2. << p, sep >> \in Q \X seps /\ f[<< p, sep >>] = e
      BY <3>1
    <3> QED BY <3>2
  <2>2. ASSUME NEW x \in Q \X seps PROVE f[x] \in Written(kinds, seps)
    BY DEF Written
  <2> QED BY <2>1, <2>2
<1> QED BY <1>3, <1>4

LEMMA RequestsFinite ==
  ASSUME NEW events, NEW list, IsFiniteSet(events), IsFiniteSet(list)
  PROVE  IsFiniteSet({ [ev |-> e, symbol |-> s] : e \in events, s \in list })
<1> DEFINE f == [x \in events \X list |-> [ev |-> x[1], symbol |-> x[2]]]
           T == { [ev |-> e, symbol |-> s] : e \in events, s \in list }
<1>1. IsFiniteSet(events \X list)
  BY FS_Product
<1>2. IsFiniteSet({ f[x] : x \in DOMAIN f })
  BY <1>1, ImageFinite
<1>3. ASSUME NEW r \in T PROVE r \in { f[x] : x \in DOMAIN f }
  <2>1. PICK e \in events, s \in list : r = [ev |-> e, symbol |-> s]
    OBVIOUS
  <2>2. << e, s >> \in DOMAIN f /\ f[<< e, s >>] = r
    BY <2>1
  <2> QED BY <2>2
<1> QED BY <1>2, <1>3, FS_Subset

LEMMA ListsFinite ==
  ASSUME cfg \in Configurations
  PROVE  /\ IsFiniteSet(cfg.twelveCrypto \cup cfg.twelveForex)
         /\ IsFiniteSet(cfg.massiveCrypto) /\ IsFiniteSet(cfg.massiveForex)
<1>1. IsFiniteSet({"-"}) /\ IsFiniteSet({"-", "/"})
  <2>1. {"-", "/"} = {"-"} \cup {"/"}
    OBVIOUS
  <2>2. IsFiniteSet({"-"})
    BY FS_Singleton
  <2>3. IsFiniteSet({"-"} \cup {"/"})
    BY <2>2, FS_AddElement
  <2> QED BY <2>1, <2>2, <2>3
<1>2. \A kind : IsFiniteSet(TwelveEntries(kind))
  BY <1>1, WrittenFinite DEF TwelveEntries
<1>3. \A kind : IsFiniteSet(MassiveEntries(kind))
  BY <1>1, WrittenFinite, FS_AddElement DEF MassiveEntries
<1>4. IsFiniteSet(cfg.twelveCrypto) /\ IsFiniteSet(cfg.twelveForex)
  BY <1>2, FS_Subset DEF Configurations
<1>5. IsFiniteSet(cfg.massiveCrypto) /\ IsFiniteSet(cfg.massiveForex)
  BY <1>3, FS_Subset DEF Configurations
<1> QED BY <1>4, <1>5, FS_Union

LEMMA EventsFinite == IsFiniteSet(CryptoEvents) /\ IsFiniteSet(ForexEvents)
<1>1. IsFiniteSet({"XT", "XQ", "XA", "XAS"}) /\ IsFiniteSet({"C", "CA", "CAS"})
  <2>1. /\ {"XT", "XQ", "XA", "XAS"} = (({"XT"} \cup {"XQ"}) \cup {"XA"}) \cup {"XAS"}
        /\ {"C", "CA", "CAS"} = ({"C"} \cup {"CA"}) \cup {"CAS"}
    OBVIOUS
  <2>2. IsFiniteSet({"XT"}) /\ IsFiniteSet({"C"})
    BY FS_Singleton
  <2>3. IsFiniteSet({"XT"} \cup {"XQ"}) /\ IsFiniteSet({"C"} \cup {"CA"})
    BY <2>2, FS_AddElement
  <2>4. /\ IsFiniteSet(({"XT"} \cup {"XQ"}) \cup {"XA"})
        /\ IsFiniteSet(({"C"} \cup {"CA"}) \cup {"CAS"})
    BY <2>3, FS_AddElement
  <2>5. IsFiniteSet((({"XT"} \cup {"XQ"}) \cup {"XA"}) \cup {"XAS"})
    BY <2>4, FS_AddElement
  <2> QED BY <2>1, <2>4, <2>5
<1> QED BY <1>1, EventsAssumption, FS_Subset

LEMMA ToSubscribeType ==
  ASSUME cfg \in Configurations, session \in Connections
  PROVE  ToSubscribe \in Seq(Entries)
<1>1. CASE session = "twelve"
  <2> DEFINE T == cfg.twelveCrypto \cup cfg.twelveForex
             twelve == SetToSeq(T)
             list == [i \in DOMAIN twelve |->
                        [ev |-> "price", symbol |-> ToTwelveFormat(twelve[i])]]
  <2>1. twelve \in Seq(T)
    BY ListsFinite, SetToSeqIsList
  <2>2. Entries = { [ev |-> "price", symbol |-> ToTwelveFormat(e)] : e \in T }
    BY <1>1 DEF Entries
  <2>3. ToSubscribe = list
    BY <1>1 DEF ToSubscribe
  <2>4. Len(twelve) \in Nat /\ DOMAIN twelve = 1 .. Len(twelve)
        /\ \A i \in 1 .. Len(twelve) : twelve[i] \in T
    BY <2>1, LenProperties
  <2>5. \A i \in 1 .. Len(twelve) : list[i] \in Entries
    BY <2>2, <2>4
  <2> HIDE DEF twelve
  <2>6. list \in [1 .. Len(twelve) -> Entries]
    BY <2>4, <2>5
  <2> QED BY <2>3, <2>4, <2>6
<1>2. CASE session = "crypto"
  <2>1. ToSubscribe = SetToSeq(Entries)
    BY <1>2 DEF ToSubscribe, Entries, GetMassiveCryptoSymbols
  <2>2. IsFiniteSet(Entries)
    BY <1>2, ListsFinite, EventsFinite, RequestsFinite DEF Entries
  <2> QED BY <2>1, <2>2, SetToSeqIsList
<1>3. CASE session = "forex"
  <2>1. ToSubscribe = SetToSeq(Entries)
    BY <1>3 DEF ToSubscribe, Entries, GetMassiveForexSymbols
  <2>2. IsFiniteSet(Entries)
    BY <1>3, ListsFinite, EventsFinite, RequestsFinite DEF Entries
  <2> QED BY <2>1, <2>2, SetToSeqIsList
<1> QED BY <1>1, <1>2, <1>3 DEF Connections

LEMMA InitSubscription == Init => SubscriptionInv
<1> SUFFICES ASSUME Init PROVE SubscriptionInv
  OBVIOUS
<1>1. /\ cfg \in Configurations /\ session \in Connections /\ reading = FALSE
      /\ symbols = ToSubscribe /\ asked = << >>
  BY DEF Init
<1>2. symbols \in Seq(Entries) /\ asked \in Seq(Seq(Entries)) /\ Len(symbols) \in Nat
  BY <1>1, ToSubscribeType, LenProperties
<1>3. AskedFor = 0
  BY <1>1, <1>2, BatchAssumption DEF AskedFor
<1>4. FlattenSeq(asked) = SubSeq(symbols, 1, AskedFor)
  <2>1. SubSeq(symbols, 1, 0) = << >>
    BY SubSeqEmpty
  <2> QED BY <1>1, <1>3, <2>1, FlattenEmpty
<1>5. DOMAIN asked = {}
  BY <1>1
<1> QED BY <1>1, <1>2, <1>4, <1>5 DEF SubscriptionInv

LEMMA NextSubscription == SubscriptionInv /\ [Next]_vars => SubscriptionInv'
<1> SUFFICES ASSUME SubscriptionInv, [Next]_vars PROVE SubscriptionInv'
  OBVIOUS
<1>1. CASE UNCHANGED << cfg, session, symbols, asked, reading >>
  BY <1>1 DEF SubscriptionInv, Entries, AskedFor, Connections
<1>2. CASE SubscribeBatch
  <2> DEFINE n == BatchSize * Len(asked)
             len == Len(symbols)
             batch == SubSeq(symbols, n + 1, BatchEnd(n, len))
  <2>1. /\ session = "twelve" /\ ~reading
        /\ IF n < len THEN asked' = Append(asked, batch) /\ reading' = FALSE
           ELSE asked' = asked /\ reading' = TRUE
        /\ UNCHANGED << cfg, session, symbols >>
    BY <1>2 DEF SubscribeBatch
  <2>2. Entries' = Entries /\ Connections' = Connections
    BY <2>1 DEF Entries, Connections
  <2>3. n \in Nat /\ len \in Nat /\ BatchSize \in Nat \ {0} /\ Len(asked) \in Nat
    BY BatchAssumption, LenProperties DEF SubscriptionInv
  <2>4. CASE n >= len
    <3>1. UNCHANGED << cfg, session, symbols, asked >> /\ reading' = TRUE
      BY <2>1, <2>3, <2>4
    <3>2. AskedFor' = AskedFor
      BY <3>1 DEF AskedFor
    <3>3. asked' \in Seq(Seq(Entries')) /\ symbols' \in Seq(Entries')
      BY <2>2, <3>1 DEF SubscriptionInv
    <3>4. FlattenSeq(asked') = SubSeq(symbols', 1, AskedFor')
      BY <2>1, <3>1, <3>2 DEF SubscriptionInv
    <3>5. BatchSize * Len(asked') >= Len(symbols')
      BY <2>4, <3>1
    <3> QED BY <2>1, <2>2, <3>1, <3>3, <3>4, <3>5 DEF SubscriptionInv
  <2>5. CASE n < len
    <3> DEFINE end == BatchEnd(n, len)
    <3>1. /\ end \in n + 1 .. len /\ end - n <= BatchSize
          /\ end = IF n + BatchSize > len THEN len ELSE n + BatchSize
      BY <2>3, <2>5 DEF BatchEnd
    <3>2. batch \in Seq(Entries) /\ Len(batch) = end - n
      <4>1. \A i \in n + 1 .. end : symbols[i] \in Entries
        BY <2>3, <3>1, LenProperties DEF SubscriptionInv
      <4>2. n + 1 \in Int /\ end \in Int /\ n + 1 <= end /\ end - (n + 1) + 1 = end - n
        BY <2>3, <3>1
      <4> HIDE DEF n, end
      <4> QED BY <4>1, <4>2, SubSeqProperties DEF end
    <3>3. /\ asked' \in Seq(Seq(Entries)) /\ Len(asked') = Len(asked) + 1
          /\ \A i \in DOMAIN asked' : Len(asked'[i]) \in 1 .. BatchSize
      <4>1. asked' = Append(asked, batch)
        BY <2>1, <2>5
      <4>2. asked \in Seq(Seq(Entries)) /\ \A i \in DOMAIN asked : Len(asked[i]) \in 1 .. BatchSize
        BY <2>1 DEF SubscriptionInv
      <4>3. Len(batch) \in 1 .. BatchSize
        BY <2>3, <3>1, <3>2
      <4> HIDE DEF batch
      <4> QED BY <3>2, <4>1, <4>2, <4>3, AppendProperties, LenProperties
    <3>4. AskedFor = n /\ AskedFor' = end
      <4>1. AskedFor = n
        BY <2>3, <2>5 DEF AskedFor
      <4>2. BatchSize * (Len(asked) + 1) = n + BatchSize
        BY <2>3
      <4> QED BY <2>1, <2>3, <3>1, <3>3, <4>1, <4>2 DEF AskedFor
    <3>5. FlattenSeq(asked') = SubSeq(symbols, 1, end)
      <4>1. FlattenSeq(asked') = SubSeq(symbols, 1, n) \o batch
        BY <2>1, <2>5, <3>2, <3>4, FlattenAppend DEF SubscriptionInv
      <4>2. /\ symbols \in Seq(Entries) /\ 1 \in 1 .. Len(symbols) + 1
            /\ n \in 1 - 1 .. Len(symbols) /\ end \in n .. Len(symbols)
        BY <2>3, <2>5, <3>1 DEF SubscriptionInv
      <4> HIDE DEF n, end
      <4> QED BY <4>1, <4>2, ConcatAdjacentSubSeq DEF end
    <3> QED BY <2>1, <2>2, <2>5, <3>3, <3>4, <3>5 DEF SubscriptionInv
  <2> QED BY <2>3, <2>4, <2>5
<1>3. CASE SubscribeAll
  <2>1. /\ session # "twelve" /\ asked' = << symbols >> /\ reading' = TRUE
        /\ UNCHANGED << cfg, session, symbols >>
    BY <1>3 DEF SubscribeAll
  <2>2. Entries' = Entries /\ Connections' = Connections
    BY <2>1 DEF Entries, Connections
  <2>3. << symbols >> \in Seq(Seq(Entries))
    BY DEF SubscriptionInv
  <2> QED BY <2>1, <2>2, <2>3 DEF SubscriptionInv
<1> QED BY <1>1, <1>2, <1>3 DEF Next, vars, Arrive, ProcessSingleMessage, Return

LEMMA Subscribing == Spec => []SubscriptionInv
  BY InitSubscription, NextSubscription, PTL DEF Spec

\* Once readLoop runs, what was asked for is the configured list, entry by entry,
\* for any list and any batch size (twelve_adapter.go, massive_adapter.go, subscribe).
THEOREM SubscriptionComplete == Spec => []SubscribedToAll
<1>1. ASSUME SubscriptionInv, reading
      PROVE  FlattenSeq(asked) = symbols
  <2>1. CASE session = "twelve"
    <3>1. AskedFor = Len(symbols)
      BY <1>1, <2>1, BatchAssumption, LenProperties DEF SubscriptionInv, AskedFor
    <3> QED BY <1>1, <2>1, <3>1, SubSeqFull DEF SubscriptionInv
  <2>2. CASE session # "twelve"
    <3>1. asked = Append(<< >>, symbols) /\ << >> \in Seq(Seq(Entries))
      BY <1>1, <2>2 DEF SubscriptionInv
    <3>2. FlattenSeq(asked) = << >> \o symbols
      BY <1>1, <3>1, FlattenAppend, FlattenEmpty DEF SubscriptionInv
    <3> QED BY <1>1, <3>2, ConcatEmptySeq DEF SubscriptionInv
  <2> QED BY <2>1, <2>2
<1>2. SubscriptionInv => SubscribedToAll
  BY <1>1 DEF SubscribedToAll
<1> QED BY <1>2, Subscribing, PTL

=============================================================================
