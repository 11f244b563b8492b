-------------------------- MODULE IngestionProofs --------------------------
(***************************************************************************)
(* Proofs about messages and ticks in Ingestion, for any finite set of     *)
(* pairs, choice of event types and amounts: every event with a price      *)
(* becomes one tick, in order, and the JSON carries the tick whole.        *)
(***************************************************************************)
EXTENDS ConfigProofs

-----------------------------------------------------------------------------
(* What a list of packets holds *)

\* What a message may hold: elements of E, and lists of them.
Packets(E) == E \cup { Array(s) : s \in Seq(E) }

\* What a packet holds is a list of elements.
LEMMA UnpackedType ==
  ASSUME NEW E, \A e \in E : e.ev # "array", NEW p \in Packets(E)
  PROVE  Unpacked(p) \in Seq(E)
  BY DEF Packets, Unpacked, Array

LEMMA ContentsEmpty == Contents(<< >>) = << >>
<1>1. [i \in DOMAIN << >> |-> Unpacked(<< >>[i])] = << >>
  OBVIOUS
<1> QED BY <1>1, FlattenEmpty DEF Contents

\* The lists that Contents puts together.
Parts(items) == [i \in DOMAIN items |-> Unpacked(items[i])]

\* They are lists of elements.
LEMMA PartsType ==
  ASSUME NEW E, \A e \in E : e.ev # "array", NEW s \in Seq(Packets(E))
  PROVE  /\ Parts(s) \in Seq(Seq(E)) /\ Len(Parts(s)) = Len(s)
         /\ \A i \in 1 .. Len(s) : Parts(s)[i] = Unpacked(s[i])
         /\ Contents(s) = FlattenSeq(Parts(s))
<1>1. Len(s) \in Nat /\ DOMAIN s = 1 .. Len(s) /\ \A i \in 1 .. Len(s) : s[i] \in Packets(E)
  BY LenProperties
<1>2. \A i \in 1 .. Len(s) : Unpacked(s[i]) \in Seq(E)
  BY <1>1, UnpackedType
<1>3. Parts(s) = [i \in 1 .. Len(s) |-> Unpacked(s[i])]
  BY <1>1 DEF Parts
<1>4. Parts(s) \in [1 .. Len(s) -> Seq(E)]
  BY <1>2, <1>3
<1> QED BY <1>1, <1>3, <1>4 DEF Contents, Parts

\* Two lists of packets hold what the one and the other hold.
LEMMA ContentsConcat ==
  ASSUME NEW E, \A e \in E : e.ev # "array",
         NEW s \in Seq(Packets(E)), NEW t \in Seq(Packets(E))
  PROVE  Contents(s \o t) = Contents(s) \o Contents(t)
<1>1. /\ s \o t \in Seq(Packets(E)) /\ Len(s \o t) = Len(s) + Len(t)
      /\ \A i \in 1 .. Len(s) + Len(t) :
           (s \o t)[i] = IF i <= Len(s) THEN s[i] ELSE t[i - Len(s)]
  BY ConcatProperties
<1>2. /\ Parts(s) \in Seq(Seq(E)) /\ Len(Parts(s)) = Len(s)
      /\ Parts(t) \in Seq(Seq(E)) /\ Len(Parts(t)) = Len(t)
      /\ Parts(s \o t) \in Seq(Seq(E)) /\ Len(Parts(s \o t)) = Len(s) + Len(t)
  <2>1. \A u \in Seq(Packets(E)) : Parts(u) \in Seq(Seq(E)) /\ Len(Parts(u)) = Len(u)
    BY PartsType
  <2> QED BY <1>1, <2>1
<1>3. ASSUME NEW i \in 1 .. Len(s) + Len(t)
      PROVE  Parts(s \o t)[i] = IF i <= Len(s) THEN Parts(s)[i] ELSE Parts(t)[i - Len(s)]
  <2>1. Len(s) \in Nat /\ Len(t) \in Nat
    BY LenProperties
  <2>2. Parts(s \o t)[i] = Unpacked((s \o t)[i])
    BY <1>1, PartsType
  <2>3. CASE i <= Len(s)
    <3>1. Parts(s)[i] = Unpacked(s[i])
      BY <2>1, <2>3, PartsType
    <3> QED BY <1>1, <2>2, <2>3, <3>1
  <2>4. CASE ~ (i <= Len(s))
    <3>1. i - Len(s) \in 1 .. Len(t)
      BY <2>1, <2>4
    <3>2. Parts(t)[i - Len(s)] = Unpacked(t[i - Len(s)])
      BY <3>1, PartsType
    <3> QED BY <1>1, <2>2, <2>4, <3>2
  <2> QED BY <2>3, <2>4
<1>4. Parts(s \o t) = Parts(s) \o Parts(t)
  <2> DEFINE a == Parts(s)
             b == Parts(t)
             c == Parts(s \o t)
  <2>1. /\ a \in Seq(Seq(E)) /\ b \in Seq(Seq(E)) /\ c \in Seq(Seq(E))
        /\ Len(c) = Len(a) + Len(b)
        /\ \A i \in 1 .. Len(a) + Len(b) : c[i] = IF i <= Len(a) THEN a[i] ELSE b[i - Len(a)]
    BY <1>2, <1>3
  <2> HIDE DEF a, b, c
  <2>2. c = a \o b
    BY <2>1, ConcatIs
  <2> QED BY <2>2 DEF a, b, c
<1>5. \A u \in Seq(Packets(E)) : Contents(u) = FlattenSeq(Parts(u))
  BY PartsType
<1>6. FlattenSeq(Parts(s) \o Parts(t)) = FlattenSeq(Parts(s)) \o FlattenSeq(Parts(t))
  BY <1>2, FlattenConcat
<1> QED BY <1>1, <1>4, <1>5, <1>6, Zenon

LEMMA ContentsOne ==
  ASSUME NEW E, \A e \in E : e.ev # "array", NEW p \in Packets(E)
  PROVE  Contents(<< p >>) = Unpacked(p)
<1>1. << p >> \in Seq(Packets(E)) /\ Len(<< p >>) = 1 /\ << p >>[1] = p
  OBVIOUS
<1>2. Unpacked(p) \in Seq(E)
  BY UnpackedType
<1>3. Parts(<< p >>) = Append(<< >>, Unpacked(p))
  BY <1>1 DEF Parts
<1>4. << >> \in Seq(Seq(E))
  OBVIOUS
<1>5. FlattenSeq(Parts(<< p >>)) = << >> \o Unpacked(p)
  BY <1>2, <1>3, <1>4, FlattenAppend, FlattenEmpty
<1> QED BY <1>1, <1>2, <1>5, PartsType, ConcatEmptySeq

LEMMA ContentsType ==
  ASSUME NEW E, \A e \in E : e.ev # "array", NEW s \in Seq(Packets(E))
  PROVE  Contents(s) \in Seq(E)
  BY PartsType, FlattenType

\* A list that holds no list is its own contents.
LEMMA ContentsFlat ==
  ASSUME NEW E, \A e \in E : e.ev # "array"
  PROVE  \A s \in Seq(E) : Contents(s) = s
<1> DEFINE G == { n \in Nat : \A s \in Seq(E) : Len(s) = n => Contents(s) = s }
<1>1. 0 \in G
  <2>1. ASSUME NEW s \in Seq(E), Len(s) = 0 PROVE Contents(s) = s
    <3>1. s = << >>
      BY <2>1
    <3> QED BY <3>1, ContentsEmpty
  <2> QED BY <2>1
<1>2. ASSUME NEW n \in Nat, n \in G PROVE n + 1 \in G
  <2>1. ASSUME NEW s \in Seq(E), Len(s) = n + 1 PROVE Contents(s) = s
    <3>1. PICK t \in Seq(E), e \in E : s = Append(t, e)
      BY <2>1, SequenceEmptyOrAppend
    <3>2. Len(t) = n /\ s = t \o << e >>
      BY <2>1, <3>1, AppendProperties, AppendIsConcat, LenProperties
    <3>3. t \in Seq(Packets(E)) /\ e \in Packets(E) /\ << e >> \in Seq(Packets(E))
      BY SeqMonotonic DEF Packets
    <3>4. Contents(t) = t
      BY <1>2, <3>2
    <3>5. Contents(<< e >>) = << e >>
      BY <3>3, ContentsOne DEF Unpacked
    <3>6. Contents(t \o << e >>) = Contents(t) \o Contents(<< e >>)
      BY <3>3, ContentsConcat
    <3> QED BY <3>2, <3>4, <3>5, <3>6
  <2> QED BY <2>1
<1>3. Nat \subseteq G
  <2> HIDE DEF G
  <2> QED BY <1>1, <1>2, SetInduction
<1> QED BY <1>3, LenProperties

\* Taking the first of what is left, and unpacking it, leaves the contents alone.
LEMMA ContentsHead ==
  ASSUME NEW E, \A e \in E : e.ev # "array", NEW s \in Seq(Packets(E)), s # << >>
  PROVE  Contents(s) = Unpacked(Head(s)) \o Contents(Tail(s))
<1>1. Head(s) \in Packets(E) /\ Tail(s) \in Seq(Packets(E)) /\ << Head(s) >> \in Seq(Packets(E))
  BY HeadTailProperties
<1>2. s = << Head(s) >> \o Tail(s)
  BY <1>1, LenProperties, SeqEqual, HeadTailProperties, ConcatProperties
<1> QED BY <1>1, <1>2, ContentsConcat, ContentsOne

-----------------------------------------------------------------------------
(* The events with a price among them *)

LEMMA OnlyPricedEmpty == OnlyPriced(<< >>) = << >>
<1>1. [i \in DOMAIN << >> |-> IF Priced(<< >>[i]) THEN << << >>[i] >> ELSE << >>] = << >>
  OBVIOUS
<1> QED BY <1>1, FlattenEmpty DEF OnlyPriced

\* One event more counts if it has a price.
LEMMA OnlyPricedAppend ==
  ASSUME NEW E, NEW s \in Seq(E), NEW e \in E
  PROVE  /\ OnlyPriced(s) \in Seq(E)
         /\ OnlyPriced(Append(s, e)) = OnlyPriced(s) \o (IF Priced(e) THEN << e >> ELSE << >>)
<1> DEFINE Kept(x) == IF Priced(x) THEN << x >> ELSE << >>
           f(t) == [i \in DOMAIN t |-> Kept(t[i])]
<1>1. \A x \in E : Kept(x) \in Seq(E)
  OBVIOUS
<1> HIDE DEF Kept
<1>2. ASSUME NEW t \in Seq(E)
      PROVE  f(t) \in Seq(Seq(E)) /\ Len(f(t)) = Len(t)
             /\ \A i \in 1 .. Len(t) : f(t)[i] = Kept(t[i])
  <2>1. Len(t) \in Nat /\ DOMAIN t = 1 .. Len(t) /\ \A i \in 1 .. Len(t) : t[i] \in E
    BY LenProperties
  <2>2. f(t) \in [1 .. Len(t) -> Seq(E)]
    BY <1>1, <2>1
  <2> QED BY <2>1, <2>2
<1>3. /\ Append(s, e) \in Seq(E) /\ Len(Append(s, e)) = Len(s) + 1 /\ Len(s) \in Nat
      /\ \A i \in 1 .. Len(s) : Append(s, e)[i] = s[i]
      /\ Append(s, e)[Len(s) + 1] = e
  BY AppendProperties, LenProperties
<1> HIDE DEF f
<1>4. /\ Append(f(s), Kept(e)) \in Seq(Seq(E)) /\ Len(Append(f(s), Kept(e))) = Len(s) + 1
      /\ \A i \in 1 .. Len(s) : Append(f(s), Kept(e))[i] = f(s)[i]
      /\ Append(f(s), Kept(e))[Len(s) + 1] = Kept(e)
  BY <1>1, <1>2, AppendProperties
<1>5. f(Append(s, e)) = Append(f(s), Kept(e))
  <2>1. f(Append(s, e)) \in Seq(Seq(E)) /\ Len(f(Append(s, e))) = Len(s) + 1
        /\ \A i \in 1 .. Len(s) + 1 : f(Append(s, e))[i] = Kept(Append(s, e)[i])
    BY <1>2, <1>3
  <2>2. \A i \in 1 .. Len(s) + 1 : f(Append(s, e))[i] = Append(f(s), Kept(e))[i]
    <3>1. \A i \in 1 .. Len(s) + 1 : i \in 1 .. Len(s) \/ i = Len(s) + 1
      BY <1>3
    <3> QED BY <1>2, <1>3, <1>4, <2>1, <3>1
  <2> QED BY <1>4, <2>1, <2>2, SeqEqual
<1>6. \A t : OnlyPriced(t) = FlattenSeq(f(t))
  BY DEF OnlyPriced, f, Kept
<1>7. OnlyPriced(Append(s, e)) = OnlyPriced(s) \o Kept(e)
  BY <1>1, <1>2, <1>5, <1>6, FlattenAppend
<1>8. OnlyPriced(s) \in Seq(E)
  BY <1>2, <1>6, FlattenType
<1> QED BY <1>7, <1>8 DEF Kept

-----------------------------------------------------------------------------
(* Events *)

Ticks ==
  [ symbol : Normalized \cup {NoSymbol}, at : Nat, source : {"twelve", "massive"},
    type : {"CRYPTO", "FOREX"}, price : Int, bid : Int, ask : Int, volume : Int,
    open : Int, close : Int ]

\* A pair as the program writes it.
Dashed(symbol) == [symbol EXCEPT !.sep = "-"]

\* The tick that OfferedAsSent and WireFaithful want for an event.
TickOf(connection, tick, e) ==
  /\ tick.symbol = IF e.symbol = NoSymbol THEN NoSymbol ELSE Dashed(e.symbol)
  /\ tick.type = IF e.symbol.kind = "forex" THEN "FOREX" ELSE "CRYPTO"
  /\ tick.source = IF connection = "twelve" THEN "twelve" ELSE "massive"
  /\ tick.at = IF e.at = 0 THEN Now
               ELSE IF connection = "twelve" THEN 1000000 * e.at ELSE 1000 * e.at
  /\ IsOHLC(tick) <=> e.ev \in {"XA", "XAS", "CA", "CAS"}

\* A pair as it is written with a separator.
Spelled(p, sep) == [pair |-> p, kind |-> KindOf[p], sep |-> sep]

\* An event of a session: Twelve Data's are of configured pairs only.
OfTwelve(e) ==
  \E p \in Pairs, at \in {0, 1}, x \in Amounts, y \in Amounts :
    /\ e = Event("price", Spelled(p, "/"), at, x, y)
    /\ IsTwelveDataForex(cfg, Spelled(p, "-")) <=> KindOf[p] = "forex"
OfCrypto(e) ==
  \E ev \in {"XT", "XQ", "XA", "XAS"}, p \in Pairs, x \in Amounts, y \in Amounts :
    e = Event(ev, Spelled(p, "-"), 1, x, y) /\ KindOf[p] = "crypto"
OfForex(e) ==
  \E ev \in {"C", "CA", "CAS"}, p \in Pairs, x \in Amounts, y \in Amounts :
    e = Event(ev, Spelled(p, "/"), 1, x, y) /\ KindOf[p] = "forex"

\* A dash replaces either separator.
LEMMA SpelledDashed ==
  ASSUME NEW p, NEW sep
  PROVE  Dashed(Spelled(p, sep)) = Spelled(p, "-")
  BY DEF Dashed, Spelled

\* Nothing is asked for that is not configured.
LEMMA AskedEntries == SubscriptionInv => Asked \subseteq Entries
<1> SUFFICES ASSUME SubscriptionInv PROVE Asked \subseteq Entries
  OBVIOUS
<1>1. FlattenSeq(asked) \in Seq(Entries)
  BY FlattenType DEF SubscriptionInv
<1>2. \A i \in DOMAIN FlattenSeq(asked) : FlattenSeq(asked)[i] \in Entries
  BY <1>1, LenProperties
<1> QED BY <1>2 DEF Asked, ToSet

\* An event is of a pair that an entry asked for names.
LEMMA EventIs ==
  ASSUME NEW e \in Events
  PROVE  \E entry \in Asked :
           \E name \in Named(entry), at \in Stamps, x \in Amounts, y \in Amounts :
             e = Event(entry.ev, name, at, x, y)
<1>1. PICK entry \in Asked :
        \E q \in {entry} \X Named(entry) \X Stamps \X Amounts \X Amounts :
          e = Event(q[1].ev, q[2], q[3], q[4], q[5])
  BY DEF Events
<1>2. PICK q \in {entry} \X Named(entry) \X Stamps \X Amounts \X Amounts :
        e = Event(q[1].ev, q[2], q[3], q[4], q[5])
  BY <1>1
<1>3. /\ q[1] = entry /\ q[2] \in Named(entry) /\ q[3] \in Stamps
      /\ q[4] \in Amounts /\ q[5] \in Amounts
  OBVIOUS
<1> QED BY <1>2, <1>3

\* The forex lookup tells the market of what Twelve Data sends: a pair it sends is
\* in one of its two lists, and in the forex list if and only if it is a forex pair.
LEMMA TwelveEvent ==
  ASSUME SubscriptionInv, session = "twelve", NEW e \in Events
  PROVE  OfTwelve(e)
<1>1. PICK entry \in Asked :
        \E name \in Named(entry), at \in Stamps, x \in Amounts, y \in Amounts :
          e = Event(entry.ev, name, at, x, y)
  BY EventIs
<1>2. PICK name \in Named(entry), at \in Stamps, x \in Amounts, y \in Amounts :
        e = Event(entry.ev, name, at, x, y)
  BY <1>1
<1>3. PICK c \in cfg.twelveCrypto \cup cfg.twelveForex :
        entry = [ev |-> "price", symbol |-> ToTwelveFormat(c)]
  BY AskedEntries DEF Entries
<1>4. /\ cfg.twelveCrypto \subseteq TwelveEntries("crypto")
      /\ cfg.twelveForex \subseteq TwelveEntries("forex")
  BY DEF SubscriptionInv, Configurations
<1>5. PICK p \in Pairs, sep \in {"-", "/"} :
        c = Spelled(p, sep) /\ (c \in cfg.twelveForex <=> KindOf[p] = "forex")
  BY <1>4 DEF TwelveEntries, Written, Spelled
<1>6. ToTwelveFormat(c) = Spelled(p, "/")
  BY <1>5 DEF ToTwelveFormat, Spelled
<1>7. name = Spelled(p, "/")
  <2>1. entry.symbol = Spelled(p, "/") /\ Spelled(p, "/").kind = KindOf[p]
    BY <1>3, <1>6 DEF Spelled
  <2>2. Wildcard.kind = "any" /\ KindOf[p] \in {"crypto", "forex"}
    BY KindAssumption DEF Wildcard
  <2>3. entry.symbol # Wildcard
    BY <2>1, <2>2
  <2> QED BY <1>2, <2>1, <2>3 DEF Named
<1>8. IsTwelveDataForex(cfg, Spelled(p, "-")) <=> KindOf[p] = "forex"
  <2>1. ToTwelveFormat(Spelled(p, "-")) = Spelled(p, "/")
    BY DEF ToTwelveFormat, Spelled
  <2>2. \A d \in cfg.twelveForex : d.kind = "forex"
    BY <1>4 DEF TwelveEntries, Written
  <2>3. Spelled(p, "-").kind = KindOf[p] /\ Spelled(p, "/").kind = KindOf[p]
    BY DEF Spelled
  <2> QED BY <1>5, <2>1, <2>2, <2>3 DEF IsTwelveDataForex
<1>9. at \in {0, 1} /\ entry.ev = "price"
  BY <1>3 DEF Stamps
<1> QED BY <1>2, <1>7, <1>8, <1>9 DEF OfTwelve

\* The crypto connection is sent crypto pairs, by their name or for a wildcard.
LEMMA CryptoEvent ==
  ASSUME SubscriptionInv, session = "crypto", NEW e \in Events
  PROVE  OfCrypto(e)
<1>1. PICK entry \in Asked :
        \E name \in Named(entry), at \in Stamps, x \in Amounts, y \in Amounts :
          e = Event(entry.ev, name, at, x, y)
  BY EventIs
<1>2. PICK name \in Named(entry), at \in Stamps, x \in Amounts, y \in Amounts :
        e = Event(entry.ev, name, at, x, y)
  BY <1>1
<1>3. PICK ev \in CryptoEvents, c \in cfg.massiveCrypto : entry = [ev |-> ev, symbol |-> c]
  BY AskedEntries DEF Entries
<1>4. c \in MassiveEntries("crypto")
  BY DEF SubscriptionInv, Configurations
<1>5. name \in Written({"crypto"}, {"-"})
  <2>1. entry.symbol = c
    BY <1>3
  <2>2. c \in Written({"crypto"}, {"-"}) \/ c = Wildcard
    BY <1>4 DEF MassiveEntries
  <2> QED BY <1>2, <2>1, <2>2 DEF Named
<1>6. \E p \in Pairs : name = Spelled(p, "-") /\ KindOf[p] = "crypto"
  BY <1>5 DEF Written, Spelled
<1>7. at = 1 /\ entry.ev \in {"XT", "XQ", "XA", "XAS"}
  BY <1>3, EventsAssumption DEF Stamps
<1> QED BY <1>2, <1>6, <1>7 DEF OfCrypto

\* The forex connection is sent forex pairs, with a slash.
LEMMA ForexEvent ==
  ASSUME SubscriptionInv, session = "forex", NEW e \in Events
  PROVE  OfForex(e)
<1>1. PICK entry \in Asked :
        \E name \in Named(entry), at \in Stamps, x \in Amounts, y \in Amounts :
          e = Event(entry.ev, name, at, x, y)
  BY EventIs
<1>2. PICK name \in Named(entry), at \in Stamps, x \in Amounts, y \in Amounts :
        e = Event(entry.ev, name, at, x, y)
  BY <1>1
<1>3. PICK ev \in ForexEvents, c \in cfg.massiveForex : entry = [ev |-> ev, symbol |-> c]
  BY AskedEntries DEF Entries
<1>4. c \in MassiveEntries("forex")
  BY DEF SubscriptionInv, Configurations
<1>5. \E s \in Written({"forex"}, {"-"}) : name = ToTwelveFormat(s)
  <2>1. entry.symbol = c
    BY <1>3
  <2>2. c \in Written({"forex"}, {"-"}) \/ c = Wildcard
    BY <1>4 DEF MassiveEntries
  <2> QED BY <1>2, <2>1, <2>2 DEF Named
<1>6. \E p \in Pairs : name = Spelled(p, "/") /\ KindOf[p] = "forex"
  BY <1>5 DEF Written, Spelled, ToTwelveFormat
<1>7. at = 1 /\ entry.ev \in {"C", "CA", "CAS"}
  BY <1>3, EventsAssumption DEF Stamps
<1> QED BY <1>2, <1>6, <1>7 DEF OfForex

\* A field that is left out is zero, and zero is what its absence decodes to.
LEMMA RoundTrip ==
  ASSUME NEW tick \in Ticks
  PROVE  FromJSON(ToJSON(tick)) = [tick EXCEPT !.source = ""]
<1> DEFINE figures == {"price", "bid", "ask", "volume", "open", "close"}
           zero == { f \in figures : tick[f] = 0 }
           json == ToJSON(tick)
           decoded == FromJSON(json)
<1>1. DOMAIN tick = {"symbol", "at", "source", "type"} \cup figures
  BY DEF Ticks
<1>2. /\ DOMAIN json = DOMAIN tick \ (zero \cup {"source"})
      /\ \A f \in DOMAIN json : json[f] = tick[f]
  BY DEF ToJSON
<1> HIDE DEF json
<1>3. json.symbol = tick.symbol /\ json.at = tick.at /\ json.type = tick.type
  BY <1>1, <1>2
<1>4. \A f \in figures : (IF f \in DOMAIN json THEN json[f] ELSE 0) = tick[f]
  BY <1>1, <1>2
<1>5. decoded = [f \in DOMAIN tick |-> IF f = "source" THEN "" ELSE tick[f]]
  <2>1. DOMAIN decoded = DOMAIN tick /\ decoded = [f \in DOMAIN decoded |-> decoded[f]]
    BY <1>1 DEF FromJSON
  <2>2. ASSUME NEW f \in DOMAIN tick
        PROVE  decoded[f] = IF f = "source" THEN "" ELSE tick[f]
    <3>1. /\ decoded.symbol = tick.symbol /\ decoded.at = tick.at
          /\ decoded.source = "" /\ decoded.type = tick.type
          /\ decoded.price = tick.price /\ decoded.bid = tick.bid
          /\ decoded.ask = tick.ask /\ decoded.volume = tick.volume
          /\ decoded.open = tick.open /\ decoded.close = tick.close
      BY <1>3, <1>4 DEF FromJSON
    <3> HIDE DEF decoded
    <3> QED BY <1>1, <3>1
  <2> HIDE DEF decoded
  <2> QED BY <2>1, <2>2
<1>6. [tick EXCEPT !.source = ""] = [f \in DOMAIN tick |-> IF f = "source" THEN "" ELSE tick[f]]
  <2>1. tick = [f \in DOMAIN tick |-> tick[f]]
    BY DEF Ticks
  <2> QED BY <2>1, Zenon
<1> QED BY <1>5, <1>6 DEF json

LEMMA RoundTripFigures ==
  ASSUME NEW tick \in Ticks
  PROVE  /\ FromJSON(ToJSON(tick)).open = tick.open
         /\ FromJSON(ToJSON(tick)).close = tick.close
<1>1. /\ "open" \in DOMAIN tick /\ "source" \in DOMAIN tick /\ "close" \in DOMAIN tick
  BY DEF Ticks
<1>2. [tick EXCEPT !.source = ""].open = tick.open
      /\ [tick EXCEPT !.source = ""].close = tick.close
  BY <1>1
<1> QED BY <1>2, RoundTrip

-----------------------------------------------------------------------------
(* Events become ticks *)

\* A tick with all its fields.
Whole(s, a, o, t, price, bid, ask, volume, open, close) ==
  [ symbol |-> s, at |-> a, source |-> o, type |-> t, price |-> price, bid |-> bid,
    ask |-> ask, volume |-> volume, open |-> open, close |-> close ]

LEMMA WholeFields ==
  ASSUME NEW s, NEW a, NEW o, NEW t, NEW p, NEW b, NEW k, NEW v, NEW n, NEW c,
         NEW tick, tick = Whole(s, a, o, t, p, b, k, v, n, c)
  PROVE  /\ tick.symbol = s /\ tick.at = a /\ tick.source = o /\ tick.type = t
         /\ tick.open = n /\ tick.close = c
  BY DEF Whole

\* The ticks of the handlers, as they write them.
TradeTick(s, a, o, t, p, v) ==
  [Tick(s, a, o, t) EXCEPT !.price = p, !.volume = v]
QuoteTick(s, a, o, t, p, b, k) ==
  [Tick(s, a, o, t) EXCEPT !.price = p, !.bid = b, !.ask = k]
AggregateTick(s, a, o, t, c, n, v) ==
  [Tick(s, a, o, t) EXCEPT !.close = c, !.open = n, !.volume = v]
PriceTick(s, a, o, t, p, b, k, v) ==
  [Tick(s, a, o, t) EXCEPT !.price = p, !.bid = b, !.ask = k, !.volume = v]

LEMMA NoSymbolKind == NoSymbol.kind = "none"
  BY DEF NoSymbol

\* The four ticks, written out.
LEMMA TradeTickIs ==
  ASSUME NEW s, NEW a, NEW o, NEW t, NEW p, NEW v
  PROVE  TradeTick(s, a, o, t, p, v) = Whole(s, a, o, t, p, 0, 0, v, 0, 0)
<1> DEFINE r1 == [Tick(s, a, o, t) EXCEPT !.price = p]
           r2 == [r1 EXCEPT !.volume = v]
<1>1. r1 = Whole(s, a, o, t, p, 0, 0, 0, 0, 0)
  BY DEF Tick, Whole
<1> HIDE DEF r1
<1>2. r2 = Whole(s, a, o, t, p, 0, 0, v, 0, 0)
  BY <1>1 DEF Whole
<1> QED BY <1>2 DEF r1, TradeTick

LEMMA QuoteTickIs ==
  ASSUME NEW s, NEW a, NEW o, NEW t, NEW p, NEW b, NEW k
  PROVE  QuoteTick(s, a, o, t, p, b, k) = Whole(s, a, o, t, p, b, k, 0, 0, 0)
<1> DEFINE r1 == [Tick(s, a, o, t) EXCEPT !.price = p]
           r2 == [r1 EXCEPT !.bid = b]
           r3 == [r2 EXCEPT !.ask = k]
<1>1. r1 = Whole(s, a, o, t, p, 0, 0, 0, 0, 0)
  BY DEF Tick, Whole
<1> HIDE DEF r1
<1>2. r2 = Whole(s, a, o, t, p, b, 0, 0, 0, 0)
  BY <1>1 DEF Whole
<1> HIDE DEF r2
<1>3. r3 = Whole(s, a, o, t, p, b, k, 0, 0, 0)
  BY <1>2 DEF Whole
<1> QED BY <1>3 DEF r1, r2, QuoteTick

LEMMA AggregateTickIs ==
  ASSUME NEW s, NEW a, NEW o, NEW t, NEW c, NEW n, NEW v
  PROVE  AggregateTick(s, a, o, t, c, n, v) = Whole(s, a, o, t, 0, 0, 0, v, n, c)
<1> DEFINE r1 == [Tick(s, a, o, t) EXCEPT !.close = c]
           r2 == [r1 EXCEPT !.open = n]
           r3 == [r2 EXCEPT !.volume = v]
<1>1. r1 = Whole(s, a, o, t, 0, 0, 0, 0, 0, c)
  BY DEF Tick, Whole
<1> HIDE DEF r1
<1>2. r2 = Whole(s, a, o, t, 0, 0, 0, 0, n, c)
  BY <1>1 DEF Whole
<1> HIDE DEF r2
<1>3. r3 = Whole(s, a, o, t, 0, 0, 0, v, n, c)
  BY <1>2 DEF Whole
<1> QED BY <1>3 DEF r1, r2, AggregateTick

LEMMA PriceTickIs ==
  ASSUME NEW s, NEW a, NEW o, NEW t, NEW p, NEW b, NEW k, NEW v
  PROVE  PriceTick(s, a, o, t, p, b, k, v) = Whole(s, a, o, t, p, b, k, v, 0, 0)
<1> DEFINE r1 == [Tick(s, a, o, t) EXCEPT !.price = p]
           r2 == [r1 EXCEPT !.bid = b]
           r3 == [r2 EXCEPT !.ask = k]
           r4 == [r3 EXCEPT !.volume = v]
<1>1. r1 = Whole(s, a, o, t, p, 0, 0, 0, 0, 0)
  BY DEF Tick, Whole
<1> HIDE DEF r1
<1>2. r2 = Whole(s, a, o, t, p, b, 0, 0, 0, 0)
  BY <1>1 DEF Whole
<1> HIDE DEF r2
<1>3. r3 = Whole(s, a, o, t, p, b, k, 0, 0, 0)
  BY <1>2 DEF Whole
<1> HIDE DEF r3
<1>4. r4 = Whole(s, a, o, t, p, b, k, v, 0, 0)
  BY <1>3 DEF Whole
<1> QED BY <1>4 DEF r1, r2, r3, PriceTick

\* What Handle gives for an event: a tick, or nothing if there is no price.
HandledAs(e) ==
  /\ Priced(e) => \E tick \in Ticks : Handle(e) = << tick >> /\ TickOf(session, tick, e)
  /\ ~Priced(e) => Handle(e) = << >>

\* handlePriceTick
LEMMA TwelveHandled ==
  ASSUME session = "twelve", NEW e, OfTwelve(e)
  PROVE  HandledAs(e)
<1>1. PICK p \in Pairs, at \in {0, 1}, x \in Amounts, y \in Amounts :
        /\ e = Event("price", Spelled(p, "/"), at, x, y)
        /\ IsTwelveDataForex(cfg, Spelled(p, "-")) <=> KindOf[p] = "forex"
  BY DEF OfTwelve
<1> DEFINE symbol == NormalizeFromTwelve(e.symbol)
           type == IF IsTwelveDataForex(cfg, symbol) THEN "FOREX" ELSE "CRYPTO"
           time == TimestampMicros(e)
           tick == Whole(symbol, time, "twelve", type, e.x, e.y, e.y, e.y, 0, 0)
<1>2. e.ev = "price" /\ e.symbol = Spelled(p, "/") /\ e.at = at /\ e.x = x /\ e.y = y
  BY <1>1 DEF Event
<1>3. symbol = Spelled(p, "-") /\ Dashed(e.symbol) = symbol /\ e.symbol.kind = KindOf[p]
  BY <1>2, SpelledDashed DEF NormalizeFromTwelve, Spelled
<1>10. e.symbol # NoSymbol
  <2>1. KindOf[p] # "none"
    BY KindAssumption
  <2> QED BY <1>3, <2>1, NoSymbolKind
<1>4. Handle(e) = HandlePriceTick(e)
  BY <1>2 DEF Handle
<1>5. HandlePriceTick(e) = << tick >>
  <2>1. HandlePriceTick(e) = << PriceTick(symbol, time, "twelve", type, e.x, e.y, e.y, e.y) >>
    BY Zenon DEF HandlePriceTick, PriceTick
  <2> QED BY <2>1, PriceTickIs
<1>6. /\ e.x \in Int /\ e.y \in Int /\ symbol \in Normalized
      /\ time = IF e.at = 0 THEN Now ELSE 1000000 * e.at
      /\ time \in Nat
      /\ type = IF e.symbol.kind = "forex" THEN "FOREX" ELSE "CRYPTO"
  BY <1>1, <1>2, <1>3, AmountsAssumption, KindAssumption, SMT
     DEF TimestampMicros, Normalized, Written, Spelled
<1> HIDE DEF symbol, time, type
<1>7. tick \in Ticks
  <2>1. type \in {"CRYPTO", "FOREX"}
    BY DEF type
  <2> QED BY <1>6, <2>1, SMT DEF Whole, Ticks
<1>8. /\ tick.symbol = symbol /\ tick.at = time /\ tick.source = "twelve"
      /\ tick.type = type /\ tick.open = 0 /\ tick.close = 0
  BY WholeFields
<1> HIDE DEF tick
<1>9. TickOf(session, tick, e)
  BY <1>2, <1>3, <1>6, <1>8, <1>10, SMT DEF TickOf, IsOHLC
<1> QED BY <1>2, <1>4, <1>5, <1>7, <1>9 DEF HandledAs, Priced

\* handleCryptoTrade, handleCryptoQuote, handleCryptoAgg
LEMMA CryptoHandled ==
  ASSUME session = "crypto", NEW e, OfCrypto(e)
  PROVE  HandledAs(e)
<1>1. PICK ev \in {"XT", "XQ", "XA", "XAS"}, p \in Pairs, x \in Amounts, y \in Amounts :
        e = Event(ev, Spelled(p, "-"), 1, x, y) /\ KindOf[p] = "crypto"
  BY DEF OfCrypto
<1> DEFINE symbol == e.symbol
           time == e.at * 1000
<1>2. e.ev = ev /\ e.symbol = Spelled(p, "-") /\ e.at = 1 /\ e.x = x /\ e.y = y
  BY <1>1 DEF Event
<1>3. /\ symbol = Spelled(p, "-") /\ Dashed(e.symbol) = symbol /\ e.symbol.kind = "crypto"
      /\ e.symbol # NoSymbol /\ symbol \in Normalized
  <2>1. symbol = Spelled(p, "-") /\ e.symbol.kind = "crypto"
    BY <1>1, <1>2 DEF Spelled
  <2>2. Dashed(e.symbol) = symbol
    BY <1>2, <2>1, SpelledDashed
  <2>3. e.symbol # NoSymbol
    BY <2>1, NoSymbolKind
  <2>4. symbol \in Normalized
    BY <1>1, <2>1 DEF Spelled, Normalized, Written
  <2> QED BY <2>1, <2>2, <2>3, <2>4
<1>4. /\ e.x \in Int /\ e.y \in Int /\ MidPrice(e) \in Int
      /\ MidPrice(e) = 0 <=> e.x + e.y = 0
      /\ time \in Nat /\ time = 1000 * e.at /\ e.at # 0
  BY <1>2, AmountsAssumption DEF MidPrice
<1> HIDE DEF symbol, time
<1>5. CASE e.ev = "XT"
  <2> DEFINE tick == Whole(symbol, time, "massive", "CRYPTO", e.x, 0, 0, e.y, 0, 0)
  <2>1. Handle(e) = HandleCryptoTrade(e)
    BY <1>5 DEF Handle
  <2>2. HandleCryptoTrade(e) = IF e.x = 0 THEN << >> ELSE << tick >>
    <3>1. HandleCryptoTrade(e) =
            IF e.symbol = NoSymbol \/ e.x = 0 THEN << >>
            ELSE << TradeTick(symbol, time, "massive", "CRYPTO", e.x, e.y) >>
      BY Zenon DEF HandleCryptoTrade, TradeTick, symbol, time
    <3> QED BY <1>3, <1>4, <3>1, TradeTickIs
  <2>3. Priced(e) <=> e.x # 0
    BY <1>3, <1>5 DEF Priced
  <2>4. tick \in Ticks
    BY <1>3, <1>4, SMT DEF Whole, Ticks
  <2>5. /\ tick.symbol = symbol /\ tick.at = time /\ tick.source = "massive"
        /\ tick.type = "CRYPTO" /\ tick.open = 0 /\ tick.close = 0
    BY WholeFields
  <2> HIDE DEF tick
  <2>6. TickOf(session, tick, e)
    BY <1>3, <1>4, <1>5, <2>5 DEF TickOf, IsOHLC
  <2> QED BY <2>1, <2>2, <2>3, <2>4, <2>6 DEF HandledAs
<1>6. CASE e.ev = "XQ"
  <2> DEFINE tick == Whole(symbol, time, "massive", "CRYPTO", MidPrice(e), e.x, e.y, 0, 0, 0)
  <2>1. Handle(e) = HandleCryptoQuote(e)
    BY <1>6 DEF Handle
  <2>2. HandleCryptoQuote(e) = IF e.x + e.y = 0 THEN << >> ELSE << tick >>
    <3>1. HandleCryptoQuote(e) =
            IF e.symbol = NoSymbol \/ MidPrice(e) = 0 THEN << >>
            ELSE << QuoteTick(symbol, time, "massive", "CRYPTO", MidPrice(e), e.x, e.y) >>
      BY Zenon DEF HandleCryptoQuote, QuoteTick, symbol, time
    <3> QED BY <1>3, <1>4, <3>1, QuoteTickIs
  <2>3. Priced(e) <=> e.x + e.y # 0
    BY <1>3, <1>6 DEF Priced
  <2>4. tick \in Ticks
    BY <1>3, <1>4, SMT DEF Whole, Ticks
  <2>5. /\ tick.symbol = symbol /\ tick.at = time /\ tick.source = "massive"
        /\ tick.type = "CRYPTO" /\ tick.open = 0 /\ tick.close = 0
    BY WholeFields
  <2> HIDE DEF tick
  <2>6. TickOf(session, tick, e)
    BY <1>3, <1>4, <1>6, <2>5 DEF TickOf, IsOHLC
  <2> QED BY <2>1, <2>2, <2>3, <2>4, <2>6 DEF HandledAs
<1>7. CASE e.ev \in {"XA", "XAS"}
  <2> DEFINE tick == Whole(symbol, time, "massive", "CRYPTO", 0, 0, 0, e.y, e.y, e.x)
  <2>1. Handle(e) = HandleCryptoAgg(e)
    BY <1>7 DEF Handle
  <2>2. HandleCryptoAgg(e) = IF e.x = 0 THEN << >> ELSE << tick >>
    <3>1. HandleCryptoAgg(e) =
            IF e.symbol = NoSymbol \/ e.x = 0 THEN << >>
            ELSE << AggregateTick(symbol, time, "massive", "CRYPTO", e.x, e.y, e.y) >>
      BY Zenon DEF HandleCryptoAgg, AggregateTick, symbol, time
    <3> QED BY <1>3, <1>4, <3>1, AggregateTickIs
  <2>3. Priced(e) <=> e.x # 0
    BY <1>3, <1>7 DEF Priced
  <2>4. tick \in Ticks
    BY <1>3, <1>4, SMT DEF Whole, Ticks
  <2>5. /\ tick.symbol = symbol /\ tick.at = time /\ tick.source = "massive"
        /\ tick.type = "CRYPTO" /\ tick.open = e.y /\ tick.close = e.x
    BY WholeFields
  <2> HIDE DEF tick
  <2>6. e.x # 0 => TickOf(session, tick, e)
    BY <1>3, <1>4, <1>7, <2>5 DEF TickOf, IsOHLC
  <2> QED BY <2>1, <2>2, <2>3, <2>4, <2>6 DEF HandledAs
<1> QED BY <1>1, <1>2, <1>5, <1>6, <1>7

\* handleForexQuote, handleForexAgg
LEMMA ForexHandled ==
  ASSUME session = "forex", NEW e, OfForex(e)
  PROVE  HandledAs(e)
<1>1. PICK ev \in {"C", "CA", "CAS"}, p \in Pairs, x \in Amounts, y \in Amounts :
        e = Event(ev, Spelled(p, "/"), 1, x, y) /\ KindOf[p] = "forex"
  BY DEF OfForex
<1> DEFINE symbol == NormalizeFromTwelve(e.symbol)
           time == e.at * 1000
<1>2. e.ev = ev /\ e.symbol = Spelled(p, "/") /\ e.at = 1 /\ e.x = x /\ e.y = y
  BY <1>1 DEF Event
<1>3. /\ symbol = Spelled(p, "-") /\ Dashed(e.symbol) = symbol /\ e.symbol.kind = "forex"
      /\ e.symbol # NoSymbol /\ symbol \in Normalized
  <2>1. symbol = Spelled(p, "-") /\ e.symbol.kind = "forex"
    BY <1>1, <1>2 DEF Spelled, NormalizeFromTwelve
  <2>2. Dashed(e.symbol) = symbol
    BY <1>2, <2>1, SpelledDashed
  <2>3. e.symbol # NoSymbol
    BY <2>1, NoSymbolKind
  <2>4. symbol \in Normalized
    BY <1>1, <2>1 DEF Spelled, Normalized, Written
  <2> QED BY <2>1, <2>2, <2>3, <2>4
<1>4. /\ e.x \in Int /\ e.y \in Int /\ MidPrice(e) \in Int
      /\ MidPrice(e) = 0 <=> e.x + e.y = 0
      /\ time \in Nat /\ time = 1000 * e.at /\ e.at # 0
  BY <1>2, AmountsAssumption DEF MidPrice
<1> HIDE DEF symbol, time
<1>5. CASE e.ev = "C"
  <2> DEFINE tick == Whole(symbol, time, "massive", "FOREX", MidPrice(e), e.x, e.y, 0, 0, 0)
  <2>1. Handle(e) = HandleForexQuote(e)
    BY <1>5 DEF Handle
  <2>2. HandleForexQuote(e) = IF e.x + e.y = 0 THEN << >> ELSE << tick >>
    <3>1. HandleForexQuote(e) =
            IF e.symbol = NoSymbol \/ MidPrice(e) = 0 THEN << >>
            ELSE << QuoteTick(symbol, time, "massive", "FOREX", MidPrice(e), e.x, e.y) >>
      BY Zenon DEF HandleForexQuote, QuoteTick, symbol, time
    <3> QED BY <1>3, <1>4, <3>1, QuoteTickIs
  <2>3. Priced(e) <=> e.x + e.y # 0
    BY <1>3, <1>5 DEF Priced
  <2>4. tick \in Ticks
    BY <1>3, <1>4, SMT DEF Whole, Ticks
  <2>5. /\ tick.symbol = symbol /\ tick.at = time /\ tick.source = "massive"
        /\ tick.type = "FOREX" /\ tick.open = 0 /\ tick.close = 0
    BY WholeFields
  <2> HIDE DEF tick
  <2>6. TickOf(session, tick, e)
    BY <1>3, <1>4, <1>5, <2>5 DEF TickOf, IsOHLC
  <2> QED BY <2>1, <2>2, <2>3, <2>4, <2>6 DEF HandledAs
<1>6. CASE e.ev \in {"CA", "CAS"}
  <2> DEFINE tick == Whole(symbol, time, "massive", "FOREX", 0, 0, 0, e.y, e.y, e.x)
  <2>1. Handle(e) = HandleForexAgg(e)
    BY <1>6 DEF Handle
  <2>2. HandleForexAgg(e) = IF e.x = 0 THEN << >> ELSE << tick >>
    <3>1. HandleForexAgg(e) =
            IF e.symbol = NoSymbol \/ e.x = 0 THEN << >>
            ELSE << AggregateTick(symbol, time, "massive", "FOREX", e.x, e.y, e.y) >>
      BY Zenon DEF HandleForexAgg, AggregateTick, symbol, time
    <3> QED BY <1>3, <1>4, <3>1, AggregateTickIs
  <2>3. Priced(e) <=> e.x # 0
    BY <1>3, <1>6 DEF Priced
  <2>4. tick \in Ticks
    BY <1>3, <1>4, SMT DEF Whole, Ticks
  <2>5. /\ tick.symbol = symbol /\ tick.at = time /\ tick.source = "massive"
        /\ tick.type = "FOREX" /\ tick.open = e.y /\ tick.close = e.x
    BY WholeFields
  <2> HIDE DEF tick
  <2>6. e.x # 0 => TickOf(session, tick, e)
    BY <1>3, <1>4, <1>6, <2>5 DEF TickOf, IsOHLC
  <2> QED BY <2>1, <2>2, <2>3, <2>4, <2>6 DEF HandledAs
<1> QED BY <1>1, <1>2, <1>5, <1>6

\* handlePriceTick, given a price without a symbol: no list has one, so it is
\* taken for a crypto pair without a name.
LEMMA NamelessPriceHandled ==
  ASSUME SubscriptionInv, session = "twelve", NEW e, e = Event("price", NoSymbol, 1, 2, 2)
  PROVE  HandledAs(e)
<1> DEFINE time == TimestampMicros(e)
           tick == Whole(NoSymbol, time, "twelve", "CRYPTO", 2, 2, 2, 2, 0, 0)
<1>1. /\ e.ev = "price" /\ e.symbol = NoSymbol /\ e.at = 1 /\ e.x = 2 /\ e.y = 2
      /\ NormalizeFromTwelve(NoSymbol) = NoSymbol /\ ToTwelveFormat(NoSymbol) = NoSymbol
      /\ NoSymbol.kind = "none"
  BY DEF Event, NoSymbol, NormalizeFromTwelve, ToTwelveFormat
<1>2. ~IsTwelveDataForex(cfg, NoSymbol)
  <2>1. \A d \in cfg.twelveForex : d.kind = "forex"
    BY DEF SubscriptionInv, Configurations, TwelveEntries, Written
  <2> QED BY <1>1, <2>1 DEF IsTwelveDataForex
<1>3. Handle(e) = HandlePriceTick(e)
  BY <1>1 DEF Handle
<1>4. time = 1000000 * e.at /\ time \in Nat
  BY <1>1, SMT DEF TimestampMicros
<1> HIDE DEF time
<1>5. HandlePriceTick(e) = << tick >>
  <2>1. HandlePriceTick(e) = << PriceTick(NoSymbol, time, "twelve", "CRYPTO", 2, 2, 2, 2) >>
    BY <1>1, <1>2, Zenon DEF HandlePriceTick, PriceTick, time
  <2> QED BY <2>1, PriceTickIs
<1>6. tick \in Ticks
  BY <1>4, SMT DEF Whole, Ticks
<1>7. /\ tick.symbol = NoSymbol /\ tick.at = time /\ tick.source = "twelve"
      /\ tick.type = "CRYPTO" /\ tick.open = 0 /\ tick.close = 0
  BY WholeFields
<1> HIDE DEF tick
<1>8. TickOf(session, tick, e)
  BY <1>1, <1>4, <1>7, SMT DEF TickOf, IsOHLC
<1> QED BY <1>1, <1>3, <1>5, <1>6, <1>8 DEF HandledAs, Priced

\* Events of Massive that name no pair, status events and what does not decode
\* give nothing.
LEMMA OthersHandled ==
  ASSUME SubscriptionInv, NEW e \in Nameless \cup {Status, Broken}
  PROVE  HandledAs(e)
<1>1. CASE e \in {Status, Broken}
  BY <1>1 DEF Status, Broken, HandledAs, Priced, Handle
<1>2. CASE e \in Nameless
  <2>1. PICK entry \in Asked : e = Event(entry.ev, NoSymbol, 1, 2, 2)
    BY <1>2 DEF Nameless
  <2>2. CASE session = "twelve"
    <3>1. entry.ev = "price"
      BY <2>1, <2>2, AskedEntries DEF Entries
    <3> QED BY <2>1, <2>2, <3>1, NamelessPriceHandled
  <2>3. CASE session # "twelve"
    <3>1. entry.ev \in CryptoEvents \cup ForexEvents
      BY <2>1, <2>3, AskedEntries DEF Entries, SubscriptionInv, Connections
    <3>2. entry.ev \in {"XT", "XQ", "XA", "XAS", "C", "CA", "CAS"}
      BY <3>1, EventsAssumption
    <3>3. e.ev = entry.ev /\ e.symbol = NoSymbol
      BY <2>1 DEF Event
    <3> QED BY <3>2, <3>3 DEF HandledAs, Priced, Handle, HandleCryptoTrade,
            HandleCryptoQuote, HandleCryptoAgg, HandleForexQuote, HandleForexAgg
  <2> QED BY <2>2, <2>3
<1> QED BY <1>1, <1>2

\* Whatever the element: processSingleMessage gives a tick if it has a price.
LEMMA ElementHandled ==
  ASSUME SubscriptionInv, NEW e \in Elements
  PROVE  HandledAs(e)
<1>1. CASE e \in Events
  <2>1. session \in {"twelve", "crypto", "forex"}
    BY DEF SubscriptionInv, Connections
  <2> QED BY <1>1, <2>1, TwelveEvent, CryptoEvent, ForexEvent, TwelveHandled,
          CryptoHandled, ForexHandled
<1>2. CASE e \in Nameless \cup {Status, Broken}
  BY <1>2, OthersHandled
<1> QED BY <1>1, <1>2 DEF Elements

-----------------------------------------------------------------------------
(* Messages *)

\* The ticks handed over answer the events, one for one.
Answers(connection, ticks, events) ==
  /\ Len(ticks) = Len(events)
  /\ \A i \in 1 .. Len(ticks) : TickOf(connection, ticks[i], events[i])

\* Twelve Data's processMessage was given a list.
Undecoded == session = "twelve" /\ message.ev = "array"

\* What the message holds is what has been handled, done, and what has not; the
\* ticks answer the priced events of the former.
HandlingInv ==
  /\ offered \in Seq(Ticks) /\ inbox \in Seq(Packets(Elements))
  /\ message = NoMessage => inbox = << >> /\ offered = << >>
  /\ message # NoMessage => reading
  /\ message # NoMessage /\ Undecoded => offered = << >> /\ inbox \in {<< >>, << Broken >>}
  /\ message # NoMessage /\ ~Undecoded =>
       \E done \in Seq(Elements) :
         Sent = done \o Contents(inbox) /\ Answers(session, offered, OnlyPriced(done))

\* No element is itself a list.
LEMMA FlatElements ==
  ASSUME SubscriptionInv
  PROVE  \A e \in Elements : e.ev # "array" /\ e.ev # "none"
<1>1. ASSUME NEW e \in Events PROVE e.ev # "array" /\ e.ev # "none"
  <2>1. OfTwelve(e) \/ OfCrypto(e) \/ OfForex(e)
    BY TwelveEvent, CryptoEvent, ForexEvent DEF SubscriptionInv, Connections
  <2>2. OfTwelve(e) => e.ev = "price"
    BY DEF OfTwelve, Event
  <2>3. OfCrypto(e) => e.ev \in {"XT", "XQ", "XA", "XAS"}
    BY DEF OfCrypto, Event
  <2>4. OfForex(e) => e.ev \in {"C", "CA", "CAS"}
    BY DEF OfForex, Event
  <2> QED BY <2>1, <2>2, <2>3, <2>4
<1>2. ASSUME NEW e \in Nameless PROVE e.ev # "array" /\ e.ev # "none"
  <2>1. PICK entry \in Asked : e = Event(entry.ev, NoSymbol, 1, 2, 2)
    BY DEF Nameless
  <2>2. entry.ev \in CryptoEvents \cup ForexEvents \cup {"price"}
    BY AskedEntries DEF Entries, SubscriptionInv, Connections
  <2> QED BY <2>1, <2>2, EventsAssumption DEF Event
<1>3. Status.ev = "status" /\ Broken.ev = "broken"
  BY DEF Status, Broken
<1> QED BY <1>1, <1>2, <1>3 DEF Elements

\* A message is an element or a list of elements and lists of elements.
LEMMA MessageShape ==
  ASSUME SubscriptionInv, NEW m \in Messages
  PROVE  Unpacked(m) \in Seq(Packets(Elements)) /\ m.ev # "none"
<1>1. Events \subseteq Elements /\ Broken \in Elements /\ Elements \subseteq Packets(Elements)
  BY DEF Elements, Packets
<1>2. CASE m \in Elements
  BY <1>1, <1>2, FlatElements DEF Unpacked
<1>3. ASSUME NEW s \in Seq(Packets(Elements)), m = Array(s)
      PROVE  Unpacked(m) \in Seq(Packets(Elements)) /\ m.ev # "none"
  BY <1>3 DEF Array, Unpacked
<1>4. CASE \E e \in Elements : m = Array(<< e >>)
  <2>1. \A e \in Elements : << e >> \in Seq(Packets(Elements))
    BY <1>1
  <2> QED BY <1>3, <1>4, <2>1
<1>5. CASE \E e \in Events \cup {Broken}, f \in Elements : m = Array(<< e, f >>)
  <2>1. \A e, f \in Elements : << e, f >> \in Seq(Packets(Elements))
    BY <1>1
  <2> QED BY <1>1, <1>3, <1>5, <2>1
<1>6. CASE \E e \in Events : m = Array(<< Array(<< Broken, e >>), e >>)
  <2>1. PICK e \in Events : m = Array(<< Array(<< Broken, e >>), e >>)
    BY <1>6
  <2>2. << Broken, e >> \in Seq(Elements)
    BY <1>1
  <2>3. Array(<< Broken, e >>) \in Packets(Elements) /\ e \in Packets(Elements)
    BY <1>1, <2>2 DEF Packets
  <2>4. << Array(<< Broken, e >>), e >> \in Seq(Packets(Elements))
    BY <2>3
  <2> QED BY <1>3, <2>1, <2>4
<1>7. \/ m \in Elements
      \/ \E e \in Elements : m = Array(<< e >>)
      \/ \E e \in Events \cup {Broken}, f \in Elements : m = Array(<< e, f >>)
      \/ \E e \in Events : m = Array(<< Array(<< Broken, e >>), e >>)
  <2> DEFINE one == { Array(<< e >>) : e \in Elements }
             two == { Array(<< e, f >>) : e \in Events \cup {Broken}, f \in Elements }
             nested == { Array(<< Array(<< Broken, e >>), e >>) : e \in Events }
             more == IF session = "twelve" THEN {} ELSE two \cup nested
  <2>1. Messages = Elements \cup one \cup more
    BY DEF Messages
  <2>2. m \in one => \E e \in Elements : m = Array(<< e >>)
    OBVIOUS
  <2>3. m \in two => \E e \in Events \cup {Broken}, f \in Elements : m = Array(<< e, f >>)
    OBVIOUS
  <2>4. m \in nested => \E e \in Events : m = Array(<< Array(<< Broken, e >>), e >>)
    OBVIOUS
  <2> HIDE DEF one, two, nested
  <2> QED BY <2>1, <2>2, <2>3, <2>4
<1> QED BY <1>2, <1>4, <1>5, <1>6, <1>7

LEMMA AnswersNothing == \A s : Answers(s, << >>, << >>)
  BY DEF Answers

\* A new message: nothing of it is handled yet.
LEMMA ArriveHandling ==
  ASSUME SubscriptionInv, HandlingInv, NEW m \in Messages, Arrive(m)
  PROVE  HandlingInv'
<1>1. /\ message = NoMessage /\ reading /\ message' = m /\ offered' = offered
      /\ inbox' = IF m.ev # "array" THEN << m >>
                  ELSE IF session = "twelve" THEN << Broken >> ELSE m.items
      /\ UNCHANGED << cfg, session, symbols, asked, reading >>
  BY DEF Arrive
<1>2. Elements' = Elements
  BY <1>1 DEF Elements, Events, Nameless, Asked, Named, Stamps
<1>3. offered' = << >> /\ m # NoMessage
  BY <1>1, MessageShape DEF HandlingInv, NoMessage
<1>4. \A e \in Elements : e.ev # "array"
  BY FlatElements
<1>5. CASE Undecoded'
  <2>1. inbox' = << Broken >>
    BY <1>1, <1>5 DEF Undecoded
  <2>2. Broken \in Packets(Elements)
    BY DEF Elements, Packets
  <2>3. << Broken >> \in Seq(Packets(Elements))
    BY <2>2
  <2> QED BY <1>1, <1>2, <1>3, <1>5, <2>1, <2>3 DEF HandlingInv
<1>6. CASE ~Undecoded'
  <2>1. inbox' = Unpacked(m)
    BY <1>1, <1>6 DEF Undecoded, Unpacked
  <2>2. inbox' \in Seq(Packets(Elements))
    BY <2>1, MessageShape
  <2>3. Contents(inbox') \in Seq(Elements)
    BY <1>4, <2>2, ContentsType
  <2>4. Sent' = << >> \o Contents(inbox')
    BY <1>1, <2>1, <2>3, ConcatEmptySeq DEF Sent
  <2>5. << >> \in Seq(Elements) /\ Answers(session', offered', OnlyPriced(<< >>))
    BY <1>1, <1>3, OnlyPricedEmpty, AnswersNothing
  <2> QED BY <1>1, <1>2, <1>3, <1>6, <2>2, <2>4, <2>5 DEF HandlingInv
<1> QED BY <1>5, <1>6

\* One event more and its tick.
LEMMA AnswersOneMore ==
  ASSUME NEW s, NEW ticks \in Seq(Ticks), NEW E, NEW events \in Seq(E), NEW e \in E,
         NEW tick \in Ticks, Answers(s, ticks, events), TickOf(s, tick, e)
  PROVE  Answers(s, ticks \o << tick >>, events \o << e >>)
<1>1. /\ ticks \o << tick >> = Append(ticks, tick) /\ events \o << e >> = Append(events, e)
  BY AppendIsConcat
<1>2. /\ Len(Append(ticks, tick)) = Len(ticks) + 1 /\ Append(ticks, tick)[Len(ticks) + 1] = tick
      /\ \A i \in 1 .. Len(ticks) : Append(ticks, tick)[i] = ticks[i]
  BY AppendProperties
<1>3. /\ Len(Append(events, e)) = Len(events) + 1 /\ Append(events, e)[Len(events) + 1] = e
      /\ \A i \in 1 .. Len(events) : Append(events, e)[i] = events[i]
  BY AppendProperties
<1>4. Len(ticks) \in Nat /\ Len(ticks) = Len(events)
  BY LenProperties DEF Answers
<1>5. ASSUME NEW i \in 1 .. Len(ticks) + 1
      PROVE  TickOf(s, Append(ticks, tick)[i], Append(events, e)[i])
  <2>1. CASE i = Len(ticks) + 1
    BY <1>2, <1>3, <1>4, <2>1
  <2>2. CASE i # Len(ticks) + 1
    <3>1. i \in 1 .. Len(ticks)
      BY <1>4, <2>2
    <3> QED BY <1>2, <1>3, <1>4, <3>1 DEF Answers
  <2> QED BY <2>1, <2>2
<1> QED BY <1>1, <1>2, <1>3, <1>4, <1>5 DEF Answers

\* One element more, with or without a price.
LEMMA ElementStep ==
  ASSUME SubscriptionInv, NEW e \in Elements, NEW done \in Seq(Elements),
         offered \in Seq(Ticks), Answers(session, offered, OnlyPriced(done))
  PROVE  /\ offered \o Handle(e) \in Seq(Ticks)
         /\ Answers(session, offered \o Handle(e), OnlyPriced(Append(done, e)))
<1>1. /\ OnlyPriced(done) \in Seq(Elements)
      /\ OnlyPriced(Append(done, e)) = OnlyPriced(done) \o (IF Priced(e) THEN << e >> ELSE << >>)
  BY OnlyPricedAppend
<1>2. HandledAs(e)
  BY ElementHandled
<1>3. CASE Priced(e)
  <2>1. PICK tick \in Ticks : Handle(e) = << tick >> /\ TickOf(session, tick, e)
    BY <1>2, <1>3 DEF HandledAs
  <2>2. offered \o << tick >> \in Seq(Ticks)
    BY ConcatProperties
  <2> QED BY <1>1, <1>3, <2>1, <2>2, AnswersOneMore
<1>4. CASE ~Priced(e)
  <2>1. Handle(e) = << >>
    BY <1>2, <1>4 DEF HandledAs
  <2>2. offered \o << >> = offered
    BY ConcatEmptySeq
  <2>3. OnlyPriced(done) \o << >> = OnlyPriced(done)
    BY <1>1, ConcatEmptySeq
  <2> QED BY <1>1, <1>4, <2>1, <2>2, <2>3
<1> QED BY <1>3, <1>4

\* A list is replaced by what it holds; an element moves to what is handled.
LEMMA ProcessHandling ==
  ASSUME SubscriptionInv, HandlingInv, ProcessSingleMessage
  PROVE  HandlingInv'
<1> DEFINE e == Head(inbox)
           rest == Tail(inbox)
<1>1. /\ inbox # << >>
      /\ IF e.ev = "array" THEN inbox' = e.items \o rest /\ offered' = offered
         ELSE inbox' = rest /\ offered' = offered \o Handle(e)
      /\ UNCHANGED << cfg, session, symbols, asked, reading, message >>
  BY DEF ProcessSingleMessage, Rest
<1>2. Elements' = Elements
  BY <1>1 DEF Elements, Events, Nameless, Asked, Named, Stamps
<1>3. /\ offered \in Seq(Ticks) /\ inbox \in Seq(Packets(Elements))
      /\ e \in Packets(Elements) /\ rest \in Seq(Packets(Elements))
      /\ message # NoMessage /\ reading
  BY <1>1, HeadTailProperties DEF HandlingInv
<1>4. \A x \in Elements : x.ev # "array"
  BY FlatElements
<1>5. Undecoded' = Undecoded /\ Sent' = Sent
  BY <1>1 DEF Undecoded, Sent
<1>6. CASE Undecoded
  <2>1. offered = << >> /\ inbox = << Broken >>
    BY <1>1, <1>3, <1>6 DEF HandlingInv
  <2>2. e = Broken /\ rest = << >> /\ e.ev = "broken"
    BY <2>1 DEF Broken
  <2>3. Handle(e) = << >>
    BY <2>2 DEF Handle
  <2>4. inbox' = << >> /\ offered' = << >>
    BY <1>1, <2>1, <2>2, <2>3
  <2> QED BY <1>1, <1>3, <1>5, <1>6, <2>4 DEF HandlingInv
<1>7. CASE ~Undecoded
  <2>1. PICK done \in Seq(Elements) :
          Sent = done \o Contents(inbox) /\ Answers(session, offered, OnlyPriced(done))
    BY <1>3, <1>7 DEF HandlingInv
  <2>2. Contents(inbox) = Unpacked(e) \o Contents(rest)
    BY <1>1, <1>3, <1>4, ContentsHead
  <2>3. CASE e.ev = "array"
    <3>1. PICK s \in Seq(Elements) : e = Array(s)
      BY <1>3, <1>4, <2>3 DEF Packets
    <3>2. e.items = s /\ Unpacked(e) = s
      BY <2>3, <3>1 DEF Array, Unpacked
    <3>3. s \in Seq(Packets(Elements))
      BY SeqMonotonic DEF Packets
    <3>4. inbox' = s \o rest /\ offered' = offered
      BY <1>1, <2>3, <3>2
    <3>5. inbox' \in Seq(Packets(Elements)) /\ Contents(inbox') = Contents(s) \o Contents(rest)
      BY <1>3, <1>4, <3>3, <3>4, ConcatProperties, ContentsConcat
    <3>6. Contents(s) = s
      BY <1>4, ContentsFlat
    <3>7. Contents(inbox') = Contents(inbox)
      BY <2>2, <3>2, <3>5, <3>6
    <3>8. Sent' = done \o Contents(inbox') /\ Answers(session', offered', OnlyPriced(done))
      BY <1>1, <1>5, <2>1, <3>4, <3>7
    <3> QED BY <1>1, <1>2, <1>3, <1>5, <1>7, <3>4, <3>5, <3>8 DEF HandlingInv
  <2>4. CASE e.ev # "array"
    <3>1. e \in Elements
      BY <1>3, <2>4 DEF Packets, Array
    <3>2. Unpacked(e) = << e >>
      BY <2>4 DEF Unpacked
    <3>3. inbox' = rest /\ offered' = offered \o Handle(e)
      BY <1>1, <2>4
    <3>4. Sent = Append(done, e) \o Contents(rest)
      <4>1. Contents(rest) \in Seq(Elements) /\ << e >> \in Seq(Elements)
        <5>1. Contents(rest) \in Seq(Elements)
          BY <1>3, <1>4, ContentsType
        <5> QED BY <3>1, <5>1
      <4>2. done \o (<< e >> \o Contents(rest)) = (done \o << e >>) \o Contents(rest)
        BY <4>1, ConcatAssociative
      <4>3. done \o << e >> = Append(done, e)
        BY <3>1, AppendIsConcat
      <4> QED BY <2>1, <2>2, <3>2, <4>2, <4>3
    <3>5. Append(done, e) \in Seq(Elements)
      BY <3>1, AppendProperties
    <3>6. /\ offered' \in Seq(Ticks)
          /\ Answers(session, offered', OnlyPriced(Append(done, e)))
      BY <1>3, <2>1, <3>1, <3>3, ElementStep
    <3>7. Sent' = Append(done, e) \o Contents(inbox')
      BY <1>5, <3>3, <3>4
    <3>8. Answers(session', offered', OnlyPriced(Append(done, e)))
      BY <1>1, <3>6
    <3> HIDE DEF e, rest
    <3> QED BY <1>1, <1>2, <1>3, <1>5, <1>7, <3>3, <3>5, <3>6, <3>7, <3>8 DEF HandlingInv
  <2> QED BY <2>3, <2>4
<1> QED BY <1>6, <1>7

LEMMA InitHandling == Init => HandlingInv
<1> SUFFICES ASSUME Init PROVE HandlingInv
  OBVIOUS
<1>1. message = NoMessage /\ inbox = << >> /\ offered = << >>
  BY DEF Init
<1> QED BY <1>1 DEF HandlingInv

LEMMA NextHandling == SubscriptionInv /\ HandlingInv /\ [Next]_vars => HandlingInv'
<1> SUFFICES ASSUME SubscriptionInv, HandlingInv, [Next]_vars PROVE HandlingInv'
  OBVIOUS
<1>1. CASE UNCHANGED vars
  <2>1. /\ Elements' = Elements /\ Sent' = Sent /\ Undecoded' = Undecoded
        /\ UNCHANGED << session, reading, message, inbox, offered >>
    BY <1>1 DEF vars, Elements, Events, Nameless, Asked, Named, Stamps, Sent, Undecoded
  <2> QED BY <2>1 DEF HandlingInv
<1>2. CASE SubscribeBatch \/ SubscribeAll
  <2>1. ~reading /\ UNCHANGED << message, inbox, offered >>
    BY <1>2 DEF SubscribeBatch, SubscribeAll
  <2>2. message = NoMessage /\ inbox = << >> /\ offered = << >>
    BY <2>1 DEF HandlingInv
  <2> QED BY <2>1, <2>2 DEF HandlingInv, NoMessage
<1>3. CASE \E m \in Messages : Arrive(m)
  BY <1>3, ArriveHandling
<1>4. CASE ProcessSingleMessage
  BY <1>4, ProcessHandling
<1>5. CASE Return
  <2>1. message' = NoMessage /\ offered' = << >> /\ inbox' = << >>
    BY <1>5 DEF Return
  <2> QED BY <2>1 DEF HandlingInv, NoMessage
<1> QED BY <1>1, <1>2, <1>3, <1>4, <1>5 DEF Next

LEMMA Ingesting == Spec => [](SubscriptionInv /\ HandlingInv)
  BY InitSubscription, NextSubscription, InitHandling, NextHandling, PTL DEF Spec

-----------------------------------------------------------------------------
(* The properties *)

\* The configuration, the session and what is asked for keep their types, no batch
\* of Twelve Data is empty or too long, and every tick handed over is well formed.
THEOREM TypeCorrect == Spec => []TypeOK
<1>1. ASSUME SubscriptionInv, HandlingInv
      PROVE  TypeOK
  <2>1. /\ cfg \in Configurations /\ session \in Connections /\ reading \in BOOLEAN
        /\ \A i \in DOMAIN asked : session = "twelve" => Len(asked[i]) \in 1 .. BatchSize
    BY <1>1 DEF SubscriptionInv
  <2>2. \A i \in DOMAIN offered : offered[i] \in Ticks
    BY <1>1, LenProperties DEF HandlingInv
  <2>3. \A tick \in Ticks : /\ tick.symbol \in Normalized \cup {NoSymbol}
                            /\ tick.source \in {"twelve", "massive"}
                            /\ tick.type \in {"CRYPTO", "FOREX"}
    BY DEF Ticks
  <2> QED BY <2>1, <2>2, <2>3 DEF TypeOK
<1> QED BY <1>1, Ingesting, PTL

\* A handled message has nothing left: its ticks answer all its priced events.
LEMMA HandledAnswers ==
  ASSUME SubscriptionInv, HandlingInv, Handled, ~Undecoded
  PROVE  Answers(session, offered, PricedEvents)
<1>1. PICK done \in Seq(Elements) :
        Sent = done \o Contents(inbox) /\ Answers(session, offered, OnlyPriced(done))
  BY DEF HandlingInv, Handled
<1>2. Contents(inbox) = << >>
  BY ContentsEmpty DEF Handled
<1>3. Sent = done
  BY <1>1, <1>2, ConcatEmptySeq
<1> QED BY <1>1, <1>3 DEF PricedEvents

\* However many elements a message holds, nested or not, and whichever of them do
\* not decode: one tick for each event with a price, in order, under the name, of
\* the market and with the time of its event.
THEOREM AnsweredInOrder == Spec => []OfferedAsSent
<1>1. ASSUME SubscriptionInv, HandlingInv, Handled, ~Undecoded
      PROVE  /\ Len(offered) = Len(PricedEvents)
             /\ \A i \in DOMAIN offered : TickOf(session, offered[i], PricedEvents[i])
  <2>1. DOMAIN offered = 1 .. Len(offered)
    BY <1>1, LenProperties DEF HandlingInv
  <2>2. Answers(session, offered, PricedEvents)
    BY <1>1, HandledAnswers
  <2> QED BY <2>1, <2>2 DEF Answers
<1>2. SubscriptionInv /\ HandlingInv => OfferedAsSent
  BY <1>1, SMT DEF OfferedAsSent, Undecoded, TickOf, Dashed
<1> QED BY <1>2, Ingesting, PTL

\* For any amounts: what a client decodes is what was offered, without its source,
\* and an aggregate is recognised as one.
THEOREM WireCorrect == Spec => []WireFaithful
<1>1. ASSUME SubscriptionInv, HandlingInv, Handled, NEW i \in DOMAIN offered
      PROVE  LET decoded == FromJSON(ToJSON(offered[i]))
             IN  /\ decoded = [offered[i] EXCEPT !.source = ""]
                 /\ IsOHLC(decoded) <=> PricedEvents[i].ev \in {"XA", "XAS", "CA", "CAS"}
  <2> DEFINE tick == offered[i]
             decoded == FromJSON(ToJSON(tick))
  <2>1. DOMAIN offered = 1 .. Len(offered) /\ tick \in Ticks
    BY <1>1, LenProperties DEF HandlingInv
  <2>2. ~Undecoded
    <3>1. offered # << >>
      BY <1>1
    <3> QED BY <1>1, <3>1 DEF HandlingInv, Handled
  <2>3. TickOf(session, tick, PricedEvents[i])
    BY <1>1, <2>1, <2>2, HandledAnswers DEF Answers
  <2>4. decoded = [tick EXCEPT !.source = ""]
    BY <2>1, RoundTrip
  <2>5. decoded.open = tick.open /\ decoded.close = tick.close
    BY <2>1, RoundTripFigures
  <2>6. IsOHLC(decoded) <=> IsOHLC(tick)
    BY <2>5 DEF IsOHLC
  <2>7. IsOHLC(tick) <=> PricedEvents[i].ev \in {"XA", "XAS", "CA", "CAS"}
    BY <2>3, SMT DEF TickOf
  <2> QED BY <2>4, <2>6, <2>7
<1>2. SubscriptionInv /\ HandlingInv => WireFaithful
  BY <1>1 DEF WireFaithful
<1> QED BY <1>2, Ingesting, PTL

=============================================================================
