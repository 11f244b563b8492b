------------------------------- MODULE Config -------------------------------
(***************************************************************************)
(* The symbol tables of internal/config/config.go and the lookups the      *)
(* arbitrator and the adapters make in them.                               *)
(*                                                                         *)
(* A symbol is a record [pair, kind, sep]: the pair it names, whether that *)
(* is a crypto or a forex pair (a fact of the market, in no code), and the *)
(* separator it is written with ("-" inside the program, "/" at Twelve     *)
(* Data).  Every lookup takes the configuration cfg, a record with the     *)
(* primary provider and the four symbol lists, as the Go methods take      *)
(* their *Config receiver.                                                 *)
(***************************************************************************)

\* The "*" entry of a Massive list: no separator, so no conversion touches it.
Wildcard == [pair |-> "*", kind |-> "any", sep |-> ""]

\* Conversions replace one separator by the other and leave the rest alone.
ToTwelveFormat(symbol) ==
  IF symbol.sep = "-" THEN [symbol EXCEPT !.sep = "/"] ELSE symbol

\* Mutant: the two separators are given in the wrong order.
NormalizeFromTwelveSwapped(symbol) ==
  IF symbol.sep = "-" THEN [symbol EXCEPT !.sep = "/"] ELSE symbol

NormalizeFromTwelve(symbol) ==
  IF symbol.sep = "/" THEN [symbol EXCEPT !.sep = "-"] ELSE symbol

\* Twelve Data entries match in either format.
IsTwelveDataCrypto(cfg, symbol) ==
  cfg.twelveCrypto \cap {symbol, ToTwelveFormat(symbol)} # {}

\* Mutant: the lookup forgets that entries may be written with a slash.
IsTwelveDataForexUnconverted(cfg, symbol) == symbol \in cfg.twelveForex

IsTwelveDataForex(cfg, symbol) ==
  cfg.twelveForex \cap {symbol, ToTwelveFormat(symbol)} # {}

\* Massive entries match literally, or through the wildcard.
IsMassiveCrypto(cfg, symbol) == cfg.massiveCrypto \cap {symbol, Wildcard} # {}

\* Mutant: the forex lookup does not know the wildcard.
IsMassiveForexNoWildcard(cfg, symbol) == symbol \in cfg.massiveForex

IsMassiveForex(cfg, symbol) == cfg.massiveForex \cap {symbol, Wildcard} # {}

GetSymbolSourceInfo(cfg, symbol) ==
  [ inTwelve  |-> IsTwelveDataCrypto(cfg, symbol) \/ IsTwelveDataForex(cfg, symbol),
    inMassive |-> IsMassiveCrypto(cfg, symbol) \/ IsMassiveForex(cfg, symbol) ]

\* What each adapter subscribes to.
GetTwelveSymbols(cfg) ==
  { ToTwelveFormat(s) : s \in cfg.twelveCrypto \cup cfg.twelveForex }

\* Crypto and forex connections subscribe to the entries as they are written,
\* once for every configured event type (the event prefix is left out).
GetMassiveCryptoSymbols(cfg) == cfg.massiveCrypto

GetMassiveForexSymbols(cfg) == cfg.massiveForex

\* What the providers deliver for these subscriptions, under the normalized
\* names the adapters give it: Twelve Data the pairs asked for, each Massive
\* connection the pairs of its own market only, all of them for a wildcard.
TwelveDelivers(cfg, symbol) ==
  symbol \in { NormalizeFromTwelve(e) : e \in GetTwelveSymbols(cfg) }

MassiveDelivers(cfg, symbol) ==
  \/ /\ symbol.kind = "crypto"
     /\ GetMassiveCryptoSymbols(cfg) \cap {symbol, Wildcard} # {}
  \/ /\ symbol.kind = "forex"
     /\ GetMassiveForexSymbols(cfg) \cap {symbol, Wildcard} # {}

=============================================================================
