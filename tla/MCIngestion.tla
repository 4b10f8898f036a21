---------------------------- MODULE MCIngestion ----------------------------
(* Ingestion on a small instance: two symbols and a few minutes.            *)
EXTENDS Ingestion

MCSymbolOrder == <<"ETHUSDT", "BTCUSDT">>
MCOneSymbol == <<"ETHUSDT">>

=============================================================================
