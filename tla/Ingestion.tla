------------------------------ MODULE Ingestion ------------------------------
(***************************************************************************)
(* From the configuration to the ticks of one provider connection: what is *)
(* subscribed to (subscribe, in both adapters of internal/ingestion), how  *)
(* a message of the provider is taken apart (processMessage) and how each  *)
(* of its events becomes a tick of internal/models/tick.go.                *)
(*                                                                         *)
(* Session handling and the channel the ticks are sent on are the subject  *)
(* of ProviderSession and FeedCore; here ticks are handed to sendTick.     *)
(*                                                                         *)
(* An event is a record [ev, symbol, at, x, y].  The numbers x and y stand *)
(* for price and size of a trade, for bid and ask of a quote; x stands for *)
(* the close of an aggregate and y for its other figures (high and low are *)
(* handled as open is), x for the price in a Twelve Data message and y for *)
(* its other figures.  A field the provider left out decodes to zero.      *)
(***************************************************************************)
EXTENDS Config, Integers, FiniteSets, SequencesExt

CONSTANTS
  Pairs,        \* pairs of the market
  KindOf,       \* pair -> "crypto" or "forex"
  BatchSize,    \* symbols per Twelve Data subscription (50)
  CryptoEvents, \* event types configured for Massive
  ForexEvents,
  Amounts,      \* prices and sizes a provider may report
  Now           \* a reading of the host's clock, in microseconds

ASSUME PairsAssumption == IsFiniteSet(Pairs)
ASSUME KindAssumption == KindOf \in [Pairs -> {"crypto", "forex"}]
ASSUME BatchAssumption == BatchSize \in Nat \ {0}
ASSUME EventsAssumption ==
  CryptoEvents \subseteq {"XT", "XQ", "XA", "XAS"} /\ ForexEvents \subseteq {"C", "CA", "CAS"}
\* Amounts are counted in a unit that makes the mid price of any two whole.
ASSUME AmountsAssumption ==
  Now \in Nat /\ \A a \in Amounts : a \in Int /\ a % 2 = 0

VARIABLES
  cfg,          \* the loaded configuration
  session,      \* the connection looked at: "twelve", "crypto" or "forex"
  symbols,      \* what it subscribes to, in the order of the configuration
  asked,        \* the subscription requests written, each a list of entries
  reading,      \* subscribe has returned, readLoop runs
  message,      \* the message read last
  inbox,        \* what processMessage has still to handle of it
  offered       \* the ticks handed to sendTick for it

vars == << cfg, session, symbols, asked, reading, message, inbox, offered >>

-----------------------------------------------------------------------------
(* Configuration *)

Written(kinds, seps) ==
  { [pair |-> p, kind |-> KindOf[p], sep |-> sep] :
      p \in { q \in Pairs : KindOf[q] \in kinds }, sep \in seps }

\* Symbols as the program writes them, and entries in a documented format
\* (README, "Symbol Configuration"): Twelve Data with a slash, the dash being
\* accepted too; Massive with a dash, or the wildcard.
Normalized == Written({"crypto", "forex"}, {"-"})
TwelveEntries(kind) == Written({kind}, {"-", "/"})
MassiveEntries(kind) == Written({kind}, {"-"}) \cup {Wildcard}

Configurations ==
  [ twelveCrypto : SUBSET TwelveEntries("crypto"),
    twelveForex : SUBSET TwelveEntries("forex"),
    massiveCrypto : SUBSET MassiveEntries("crypto"),
    massiveForex : SUBSET MassiveEntries("forex") ]

\* The connections that are made: the two of Massive only if they have symbols.
Connections ==
  {"twelve"} \cup { s \in {"crypto"} : cfg.massiveCrypto # {} }
             \cup { s \in {"forex"} : cfg.massiveForex # {} }

\* Twelve Data has one kind of event, and a pair listed in both formats is asked
\* for twice; Massive is asked for each event type configured of each symbol.
ToSubscribe ==
  LET Each(events, list) ==
        SetToSeq({ [ev |-> e, symbol |-> s] : e \in events, s \in list })
      twelve == SetToSeq(cfg.twelveCrypto \cup cfg.twelveForex)
  IN  CASE session = "twelve" ->
             [ i \in DOMAIN twelve |->
                 [ev |-> "price", symbol |-> ToTwelveFormat(twelve[i])] ]
        [] session = "crypto" -> Each(CryptoEvents, GetMassiveCryptoSymbols(cfg))
        [] session = "forex" -> Each(ForexEvents, GetMassiveForexSymbols(cfg))

NoMessage == [ev |-> "none"]

Init ==
  /\ cfg \in Configurations
  /\ session \in Connections
  /\ symbols = ToSubscribe
  /\ asked = << >> /\ reading = FALSE
  /\ message = NoMessage /\ inbox = << >> /\ offered = << >>

-----------------------------------------------------------------------------
(* subscribe *)

\* Mutant: the end of the list is not included in the last batch.
BatchEndShort(i, len) == IF i + BatchSize >= len THEN len - 1 ELSE i + BatchSize

BatchEnd(i, len) == IF i + BatchSize > len THEN len ELSE i + BatchSize

\* Twelve Data: one request after the other until all symbols are asked for.
SubscribeBatch ==
  /\ session = "twelve" /\ ~reading
  /\ LET i == BatchSize * Len(asked)
     IN  IF i < Len(symbols)
         THEN /\ asked' = Append(asked, SubSeq(symbols, i + 1, BatchEnd(i, Len(symbols))))
              /\ reading' = FALSE
         ELSE asked' = asked /\ reading' = TRUE
  /\ UNCHANGED << cfg, session, symbols, message, inbox, offered >>

\* Massive: a single request.
SubscribeAll ==
  /\ session # "twelve" /\ ~reading
  /\ asked' = << symbols >> /\ reading' = TRUE
  /\ UNCHANGED << cfg, session, symbols, message, inbox, offered >>

-----------------------------------------------------------------------------
(* Messages of the provider *)

Asked == ToSet(FlattenSeq(asked))

\* The pairs an entry stands for, as the provider writes them: the forex
\* connection of Massive with a slash ("EUR/USD").
Named(entry) ==
  LET pairs == IF entry.symbol = Wildcard THEN Written({session}, {"-"}) ELSE {entry.symbol}
  IN  IF session = "forex" THEN { ToTwelveFormat(s) : s \in pairs } ELSE pairs

\* Twelve Data counts seconds and may leave the time out, Massive milliseconds.
Stamps == IF session = "twelve" THEN {0, 1} ELSE {1}

Event(ev, symbol, at, x, y) == [ev |-> ev, symbol |-> symbol, at |-> at, x |-> x, y |-> y]

Events ==
  { Event(q[1].ev, q[2], q[3], q[4], q[5]) :
      q \in UNION { {entry} \X Named(entry) \X Stamps \X Amounts \X Amounts : entry \in Asked } }

\* An event that names no pair, a status event, and an element that does not
\* decode: no object, or a field of another type (a day_volume with a fraction, say).
NoSymbol == [pair |-> "", kind |-> "none", sep |-> ""]
Nameless == { Event(entry.ev, NoSymbol, 1, 2, 2) : entry \in Asked }
Status == [ev |-> "status"]
Broken == [ev |-> "broken"]

Elements == Events \cup Nameless \cup {Status, Broken}

Array(items) == [ev |-> "array", items |-> items]

\* A single object, or, from Massive, a list of them, which may hold lists.
Messages ==
  Elements \cup { Array(<< e >>) : e \in Elements } \cup
  IF session = "twelve" THEN {}
  ELSE { Array(<< e, f >>) : e \in Events \cup {Broken}, f \in Elements } \cup
       { Array(<< Array(<< Broken, e >>), e >>) : e \in Events }

\* readLoop has read a message.  Twelve Data's processMessage does not decode a
\* list.
Arrive(m) ==
  /\ reading /\ message = NoMessage
  /\ message' = m /\ offered' = offered
  /\ inbox' = IF m.ev # "array" THEN << m >>
              ELSE IF session = "twelve" THEN << Broken >> ELSE m.items
  /\ UNCHANGED << cfg, session, symbols, asked, reading >>

-----------------------------------------------------------------------------
(* Events become ticks *)

\* Fields a handler does not fill in are zero.
Tick(symbol, at, source, type) ==
  [ symbol |-> symbol, at |-> at, source |-> source, type |-> type,
    price |-> 0, bid |-> 0, ask |-> 0, volume |-> 0, open |-> 0, close |-> 0 ]

\* A price without a time is given the host's.
TimestampMicros(e) == IF e.at > 0 THEN e.at * 1000000 ELSE Now

\* Unlike the handlers of Massive it takes a price without a symbol.
HandlePriceTick(e) ==
  LET symbol == NormalizeFromTwelve(e.symbol)
      type == IF IsTwelveDataForex(cfg, symbol) THEN "FOREX" ELSE "CRYPTO"
  IN  << [Tick(symbol, TimestampMicros(e), "twelve", type)
             EXCEPT !.price = e.x, !.bid = e.y, !.ask = e.y, !.volume = e.y] >>

HandleCryptoTrade(e) ==
  IF e.symbol = NoSymbol \/ e.x = 0 THEN << >>
  ELSE << [Tick(e.symbol, e.at * 1000, "massive", "CRYPTO")
             EXCEPT !.price = e.x, !.volume = e.y] >>

MidPrice(e) == (e.x + e.y) \div 2

HandleCryptoQuote(e) ==
  IF e.symbol = NoSymbol \/ MidPrice(e) = 0 THEN << >>
  ELSE << [Tick(e.symbol, e.at * 1000, "massive", "CRYPTO")
             EXCEPT !.price = MidPrice(e), !.bid = e.x, !.ask = e.y] >>

HandleCryptoAgg(e) ==
  IF e.symbol = NoSymbol \/ e.x = 0 THEN << >>
  ELSE << [Tick(e.symbol, e.at * 1000, "massive", "CRYPTO")
             EXCEPT !.close = e.x, !.open = e.y, !.volume = e.y] >>

HandleForexQuote(e) ==
  IF e.symbol = NoSymbol \/ MidPrice(e) = 0 THEN << >>
  ELSE << [Tick(NormalizeFromTwelve(e.symbol), e.at * 1000, "massive", "FOREX")
             EXCEPT !.price = MidPrice(e), !.bid = e.x, !.ask = e.y] >>

HandleForexAgg(e) ==
  IF e.symbol = NoSymbol \/ e.x = 0 THEN << >>
  ELSE << [Tick(NormalizeFromTwelve(e.symbol), e.at * 1000, "massive", "FOREX")
             EXCEPT !.close = e.x, !.open = e.y, !.volume = e.y] >>

\* Events of another kind, and elements that do not decode, give no tick.
Handle(e) ==
  CASE e.ev = "price" -> HandlePriceTick(e)
    [] e.ev = "XT" -> HandleCryptoTrade(e)
    [] e.ev = "XQ" -> HandleCryptoQuote(e)
    [] e.ev \in {"XA", "XAS"} -> HandleCryptoAgg(e)
    [] e.ev = "C" -> HandleForexQuote(e)
    [] e.ev \in {"CA", "CAS"} -> HandleForexAgg(e)
    [] OTHER -> << >>

\* Mutant: an element that does not decode ends the message.
RestUnlessBroken == IF Head(inbox) = Broken THEN << >> ELSE Tail(inbox)

Rest == Tail(inbox)

\* processSingleMessage: the next element of the list, which may be a list.
ProcessSingleMessage ==
  /\ inbox # << >>
  /\ LET e == Head(inbox)
     IN  IF e.ev = "array" THEN inbox' = e.items \o Rest /\ offered' = offered
         ELSE inbox' = Rest /\ offered' = offered \o Handle(e)
  /\ UNCHANGED << cfg, session, symbols, asked, reading, message >>

\* processMessage returns; readLoop goes on.
Return ==
  /\ message # NoMessage /\ inbox = << >>
  /\ message' = NoMessage /\ offered' = << >>
  /\ UNCHANGED << cfg, session, symbols, asked, reading, inbox >>

Next ==
  \/ SubscribeBatch \/ SubscribeAll
  \/ \E m \in Messages : Arrive(m)
  \/ ProcessSingleMessage \/ Return

Spec == Init /\ [][Next]_vars

-----------------------------------------------------------------------------
(* Ticks on the wire *)

\* Mutant: an aggregate is known by its open price.
IsOHLCByOpen(tick) == tick.open # 0

IsOHLC(tick) == tick.open # 0 \/ tick.close # 0

\* Always written are symbol, time and type; the source never; zeros are left out.
ToJSON(tick) ==
  LET zero == { f \in {"price", "bid", "ask", "volume", "open", "close"} : tick[f] = 0 }
  IN  [ f \in DOMAIN tick \ (zero \cup {"source"}) |-> tick[f] ]

\* A key that is absent leaves its field at zero.
FromJSON(json) ==
  LET Number(f) == IF f \in DOMAIN json THEN json[f] ELSE 0
  IN  [ symbol |-> json.symbol, at |-> json.at, source |-> "", type |-> json.type,
        price |-> Number("price"), bid |-> Number("bid"), ask |-> Number("ask"),
        volume |-> Number("volume"), open |-> Number("open"), close |-> Number("close") ]

-----------------------------------------------------------------------------
(* Properties *)

\* Type invariant.
TypeOK ==
  /\ cfg \in Configurations /\ session \in Connections /\ reading \in BOOLEAN
  /\ \A i \in DOMAIN asked : session = "twelve" => Len(asked[i]) \in 1 .. BatchSize
  /\ \A i \in DOMAIN offered :
       /\ offered[i].symbol \in Normalized \cup {NoSymbol}
       /\ offered[i].source \in {"twelve", "massive"}
       /\ offered[i].type \in {"CRYPTO", "FOREX"}

Info(s) == GetSymbolSourceInfo(cfg, s)

\* The arbitrator's idea of what Twelve Data carries is what the adapter asked
\* Twelve Data for: whatever format the two lists are written in, a symbol is
\* "in Twelve" exactly when its ticks come back under that normalized name.
TwelveLookupExact == \A s \in Normalized : Info(s).inTwelve <=> TwelveDelivers(cfg, s)

\* No tick of Massive is ever taken for a symbol Massive does not carry.
MassiveLookupComplete ==
  \A s \in Normalized : MassiveDelivers(cfg, s) => Info(s).inMassive

\* Once readLoop runs, every entry of the configuration has been asked for once,
\* wherever the batches of Twelve Data were cut.
SubscribedToAll == reading => FlattenSeq(asked) = symbols

\* What the message holds, list or not, in the order it holds it.
Unpacked(m) == IF m.ev = "array" THEN m.items ELSE << m >>
Contents(items) == FlattenSeq([i \in DOMAIN items |-> Unpacked(items[i])])
Sent == Contents(Unpacked(message))

\* An event worth a tick: one with a price.  Twelve Data's are not looked at.
Priced(e) ==
  \/ e.ev = "price"
  \/ e.ev \in {"XT", "XA", "XAS", "CA", "CAS"} /\ e.symbol # NoSymbol /\ e.x # 0
  \/ e.ev \in {"XQ", "C"} /\ e.symbol # NoSymbol /\ e.x + e.y # 0

Handled == message # NoMessage /\ inbox = << >>

OnlyPriced(events) ==
  FlattenSeq([i \in DOMAIN events |-> IF Priced(events[i]) THEN << events[i] >> ELSE << >>])
PricedEvents == OnlyPriced(Sent)

\* When a message of Massive has been handled, or an object of Twelve Data, each
\* event with a price has given one tick, in order, whatever else the message
\* held: one element that does not decode costs no other its tick.  The tick is
\* under the pair's normalized name and of the pair's market, its time is in
\* microseconds.  (A price of Twelve Data without a symbol is a tick of no pair.)
OfferedAsSent ==
  Handled /\ (session = "twelve" => message.ev # "array") =>
    /\ Len(offered) = Len(PricedEvents)
    /\ \A i \in DOMAIN offered :
         LET e == PricedEvents[i]
             tick == offered[i]
         IN  /\ tick.symbol = IF e.symbol = NoSymbol THEN NoSymbol
                              ELSE [e.symbol EXCEPT !.sep = "-"]
             /\ tick.type = IF e.symbol.kind = "forex" THEN "FOREX" ELSE "CRYPTO"
             /\ tick.source = IF session = "twelve" THEN "twelve" ELSE "massive"
             /\ tick.at = IF e.at = 0 THEN Now
                          ELSE IF session = "twelve" THEN 1000000 * e.at ELSE 1000 * e.at

\* What a client decodes is the tick without its source, and whether it is an
\* aggregate shows in the fields that are there (tick.go: zeros are left out).
WireFaithful ==
  Handled =>
    \A i \in DOMAIN offered :
      LET decoded == FromJSON(ToJSON(offered[i]))
      IN  /\ decoded = [offered[i] EXCEPT !.source = ""]
          /\ IsOHLC(decoded) <=> PricedEvents[i].ev \in {"XA", "XAS", "CA", "CAS"}

=============================================================================
