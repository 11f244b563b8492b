---------------------------- MODULE MCArbitrator ----------------------------
(* Instances of Arbitrator for TLC. *)
EXTENDS Arbitrator

BTC == [pair |-> "BTCUSD", kind |-> "crypto", sep |-> "-"]
EUR == [pair |-> "EURUSD", kind |-> "forex", sep |-> "-"]
BTCslash == [pair |-> "BTCUSD", kind |-> "crypto", sep |-> "/"]
EURslash == [pair |-> "EURUSD", kind |-> "forex", sep |-> "/"]

MCSymbols == {BTC, EUR}

\* As in config.example.yaml: Massive primary, wildcards, so every Twelve Data
\* symbol is in both sources.
MassivePrimary ==
  [ primary |-> "massive", twelveCrypto |-> {BTCslash}, twelveForex |-> {EURslash},
    massiveCrypto |-> {Wildcard}, massiveForex |-> {Wildcard} ]

\* Twelve Data primary, one shared symbol and one only Massive carries.
TwelvePrimary ==
  [ primary |-> "twelve", twelveCrypto |-> {BTCslash}, twelveForex |-> {},
    massiveCrypto |-> {BTC}, massiveForex |-> {EUR} ]

\* Massive primary, one shared symbol and one only Twelve Data carries.
BackupOnly ==
  [ primary |-> "massive", twelveCrypto |-> {BTC}, twelveForex |-> {EURslash},
    massiveCrypto |-> {BTC}, massiveForex |-> {} ]

MCConfigs == {MassivePrimary, TwelvePrimary, BackupOnly}

\* Each provider as primary, symbols of both and of one provider.
ClockConfigs == {MassivePrimary, TwelvePrimary}

NoSkew == {0}
Ahead == {0, 1}
Stepped == {-2, 0, 2}
=============================================================================
