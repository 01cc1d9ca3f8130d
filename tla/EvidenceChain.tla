--------------------------- MODULE EvidenceChain ---------------------------
(***************************************************************************)
(* legal/service.py, legal/anchoring.py: the export of evidence bundles,   *)
(* each chained by hash to the latest before it, the anchoring of their    *)
(* hashes in two outside stores, and the certificate.                      *)
(*                                                                         *)
(* An export commits three times, and anchors between the commits: it can  *)
(* stop after each. A refresh anchors a bundle again, at any time.         *)
(*                                                                         *)
(* generated_at has microseconds: no two exports have the same. A hash is  *)
(* the number of the bundle that has it.                                   *)
(***************************************************************************)
EXTENDS Naturals, Sequences

CONSTANTS Exporters, Receipts, MaxRequests, NoAnchor

ASSUME MaxRequestsAssumption == MaxRequests \in Nat
\* With stub clients a receipt is "simulated", and "skipped" if switched off.
ASSUME ReceiptsAssumption == Receipts \subseteq {"anchored", "failed", "simulated", "skipped"}

VARIABLES clock,                \* exports begun, which is also the time
          bundles,              \* legal_evidence_bundle, in commit order
          anchors,              \* bundle -> anchor_status of its row, or NoAnchor
          certified,            \* the bundles with a certificate
          request, requests

chainVars == <<clock, bundles, anchors, certified, request, requests>>

\* prev is the bundle prev_chain_hash is of, 0 for none.
Bundles == [at : Nat, prev : Nat]
AnchorStatuses == {"anchored", "partial", "simulated", "skipped", "failed"}

ASSUME NoAnchorAssumption == NoAnchor \notin AnchorStatuses

NoRequest == [step |-> "idle"]
Requests == {NoRequest}
    \cup [step : {"chain"}, at : Nat]
    \cup [step : {"commit"}, bundle : Bundles]
    \cup [step : {"anchor"}, b : Nat, force : BOOLEAN]
    \cup [step : {"save"}, b : Nat, force : BOOLEAN, found : BOOLEAN, status : AnchorStatuses]
    \cup [step : {"certify"}, b : Nat]

ChainTypeOK == /\ clock \in Nat
               /\ bundles \in Seq(Bundles)
               /\ anchors \in [DOMAIN bundles -> AnchorStatuses \cup {NoAnchor}]
               /\ certified \subseteq DOMAIN bundles
               /\ request \in [Exporters -> Requests]
               /\ \A c \in Exporters :
                     request[c].step \in {"anchor", "save", "certify"}
                         => request[c].b \in DOMAIN bundles
               /\ requests \in 0 .. MaxRequests

ChainInit == /\ clock = 0
             /\ bundles = <<>>
             /\ anchors = <<>>
             /\ certified = {}
             /\ request = [c \in Exporters |-> NoRequest]
             /\ requests = 0

Admit(c, k) == /\ request[c] = NoRequest
               /\ requests < MaxRequests
               /\ requests' = requests + 1
               /\ request' = [request EXCEPT ![c] = k]

Stands(c, step) == request[c].step = step

Proceed(c, k) == request' = [request EXCEPT ![c] = k]

-----------------------------------------------------------------------------
\* export_evidence_bundle up to generated_at. What it puts in the payload is
\* not modelled.
Export(c) == /\ Admit(c, [step |-> "chain", at |-> clock + 1])
             /\ clock' = clock + 1
             /\ UNCHANGED <<bundles, anchors, certified>>

\* Mutant: the oldest first.
Oldest(b) == \A k \in DOMAIN bundles : bundles[k].at >= bundles[b].at

\* The latest bundle by created_at, which is its generated_at.
Newest(b) == \A k \in DOMAIN bundles : bundles[k].at <= bundles[b].at

Prev == IF bundles = <<>> THEN {0} ELSE {b \in DOMAIN bundles : Newest(b)}

Chain(c) == /\ Stands(c, "chain")
            /\ \E b \in Prev :
                  Proceed(c, [step |-> "commit", bundle |-> [at |-> request[c].at, prev |-> b]])
            /\ UNCHANGED <<clock, bundles, anchors, certified, requests>>

\* The bundle is committed, and its audit.
CommitBundle(c) ==
    /\ Stands(c, "commit")
    /\ bundles' = Append(bundles, request[c].bundle)
    /\ anchors' = Append(anchors, NoAnchor)
    /\ Proceed(c, [step |-> "anchor", b |-> Len(bundles'), force |-> FALSE])
    /\ UNCHANGED <<clock, certified, requests>>

Refresh(c, b) == /\ Admit(c, [step |-> "anchor", b |-> b, force |-> TRUE])
                 /\ UNCHANGED <<clock, bundles, anchors, certified>>

\* merge_anchor_status.
Merged(minio, immudb) ==
    LET both == {minio, immudb}
    IN  CASE both = {"anchored"}   -> "anchored"
          [] "anchored" \in both /\ both # {"anchored"} -> "partial"
          [] "anchored" \notin both /\ "simulated" \in both -> "simulated"
          [] both = {"skipped"}    -> "skipped"
          [] OTHER                 -> "failed"

\* After anchoring an export goes on to the certificate.
AfterAnchor(k) == IF k.force THEN NoRequest ELSE [step |-> "certify", b |-> k.b]

\* anchor_bundle: a row that is there is left alone unless forced; else both
\* stores are asked.
Anchor(c) ==
    LET k == request[c]
    IN  /\ Stands(c, "anchor")
        /\ IF anchors[k.b] # NoAnchor /\ ~k.force
           THEN Proceed(c, AfterAnchor(k))
           ELSE \E minio, immudb \in Receipts :
                    Proceed(c, [step |-> "save", b |-> k.b, force |-> k.force,
                             found |-> anchors[k.b] # NoAnchor,
                             status |-> Merged(minio, immudb)])
        /\ UNCHANGED <<clock, bundles, anchors, certified, requests>>

\* bundle_id is unique: a row that has come in between makes an insert fail.
Conflict(k) == ~k.found /\ anchors[k.b] # NoAnchor

\* Mutant: an anchor that failed is not saved.
SaveUnlessFailed(c) ==
    /\ Stands(c, "save")
    /\ IF Conflict(request[c])
       THEN Proceed(c, NoRequest) /\ UNCHANGED anchors
       ELSE /\ anchors' = [anchors EXCEPT ![request[c].b] =
                              IF request[c].status = "failed" THEN @ ELSE request[c].status]
            /\ Proceed(c, AfterAnchor(request[c]))
    /\ UNCHANGED <<clock, bundles, certified, requests>>

SaveAnchor(c) ==
    /\ Stands(c, "save")
    /\ IF Conflict(request[c])
       THEN Proceed(c, NoRequest) /\ UNCHANGED anchors
       ELSE /\ anchors' = [anchors EXCEPT ![request[c].b] = request[c].status]
            /\ Proceed(c, AfterAnchor(request[c]))
    /\ UNCHANGED <<clock, bundles, certified, requests>>

\* _create_evidence_certificate, and the audit.
Certify(c) == /\ Stands(c, "certify")
              /\ certified' = certified \cup {request[c].b}
              /\ Proceed(c, NoRequest)
              /\ UNCHANGED <<clock, bundles, anchors, requests>>

\* An error or a crash. What is committed stays, and nothing resumes the call.
GiveUp(c) == /\ request[c] # NoRequest
             /\ Proceed(c, NoRequest)
             /\ UNCHANGED <<clock, bundles, anchors, certified, requests>>

ExporterStep(c) == \/ Export(c) \/ Chain(c) \/ CommitBundle(c)
                   \/ \E b \in DOMAIN bundles : Refresh(c, b)
                   \/ Anchor(c) \/ SaveAnchor(c) \/ Certify(c) \/ GiveUp(c)

ChainNext == \E c \in Exporters : ExporterStep(c)

ChainSpec == ChainInit /\ [][ChainNext]_chainVars

-----------------------------------------------------------------------------
(* Correctness.                                                            *)

\* Every bundle is chained to the one committed before it. Two exports at a time
\* chain to the same bundle, or to one generated later.
ChainLinear == \A b \in DOMAIN bundles : bundles[b].prev = b - 1

\* A certified bundle has an anchor row: no failure, conflict or refresh lets an
\* export certify hashes it has not tried to anchor.
CertifiedHasAnchor == \A b \in certified : anchors[b] # NoAnchor
=============================================================================
