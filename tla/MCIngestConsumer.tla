-------------------------- MODULE MCIngestConsumer --------------------------
(* IngestConsumer for TLC: a topic of two events, one of which an API      *)
(* worker submits as well, and a malformed message behind them, with a     *)
(* restart of the consumer.                                                *)
EXTENDS IngestConsumer

CONSTANTS e1, e2

TwoAndMalformed == <<e1, e2, Malformed>>
=============================================================================
