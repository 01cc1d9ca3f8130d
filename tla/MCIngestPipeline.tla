-------------------------- MODULE MCIngestPipeline --------------------------
(* Small instances of IngestPipeline with its backfill for TLC: an API     *)
(* worker that opens a session per request and one that keeps it (batch    *)
(* route, Kafka consumer); a row of another service that is older than     *)
(* both events takes one of the two places of every run, a younger one     *)
(* must not take the other.                                                *)
EXTENDS DeltaBackfill

CONSTANTS e1, e2, api, consumer, before, after

Order == [r \in {before, e1, e2, after} |->
             CASE r = before -> 1 [] r = e1 -> 2 [] r = e2 -> 3 [] r = after -> 4]
=============================================================================
