------------------------ MODULE EvidenceChainProofs ------------------------
(***************************************************************************)
(* Proofs about EvidenceChain, for any callers, receipts and number of     *)
(* calls: types, that a certificate is never without an anchor row, and    *)
(* that the bundles are one chain while exports have not overlapped.       *)
(***************************************************************************)
EXTENDS MCEvidenceChain, TLAPS

USE MaxRequestsAssumption, ReceiptsAssumption, NoAnchorAssumption

-----------------------------------------------------------------------------
(* Types.                                                                  *)

\* merge_anchor_status returns one of the five statuses of a row.
LEMMA MergedType == \A minio, immudb : Merged(minio, immudb) \in AnchorStatuses
BY DEF Merged, AnchorStatuses

LEMMA TypeInit == ChainInit => ChainTypeOK
BY DEF ChainInit, ChainTypeOK, Requests, NoRequest

\* A call's own state stays well-typed when it moves to a step of the right form.
LEMMA CallsType ==
    ASSUME ChainTypeOK, NEW c \in Exporters, NEW k \in Requests,
           k.step \in {"anchor", "save", "certify"} => k.b \in DOMAIN bundles',
           \A b \in DOMAIN bundles : b \in DOMAIN bundles',
           request' = [request EXCEPT ![c] = k]
    PROVE  /\ request' \in [Exporters -> Requests]
           /\ \A d \in Exporters :
                 request'[d].step \in {"anchor", "save", "certify"}
                    => request'[d].b \in DOMAIN bundles'
BY DEF ChainTypeOK

LEMMA TypeStep == ChainTypeOK /\ [ChainNext]_chainVars => ChainTypeOK'
<1> SUFFICES ASSUME ChainTypeOK, [ChainNext]_chainVars PROVE ChainTypeOK'
  OBVIOUS
<1>1. ASSUME NEW c \in Exporters, Export(c) PROVE ChainTypeOK'
  <2>1. [step |-> "chain", at |-> clock + 1] \in Requests
    BY DEF ChainTypeOK, Requests
  <2>2. QED
    BY <1>1, <2>1, CallsType DEF ChainTypeOK, Export, Admit
<1>2. ASSUME NEW c \in Exporters, Chain(c) PROVE ChainTypeOK'
  <2>1. PICK b \in Prev : request' = [request EXCEPT ![c] =
            [step |-> "commit", bundle |-> [at |-> request[c].at, prev |-> b]]]
    BY <1>2 DEF Chain, Proceed
  <2>2. b \in Nat /\ request[c].at \in Nat
    BY <1>2, <2>1 DEF Chain, Stands, ChainTypeOK, Requests, NoRequest, Prev
  <2>3. [step |-> "commit", bundle |-> [at |-> request[c].at, prev |-> b]] \in Requests
    BY <2>2 DEF Requests, Bundles
  <2>4. QED
    BY <1>2, <2>1, <2>3, CallsType DEF ChainTypeOK, Chain
<1>3. ASSUME NEW c \in Exporters, CommitBundle(c) PROVE ChainTypeOK'
  <2>1. request[c].bundle \in Bundles
    BY <1>3 DEF CommitBundle, Stands, ChainTypeOK, Requests, NoRequest
  <2>2. /\ bundles' \in Seq(Bundles)
        /\ Len(bundles') = Len(bundles) + 1
        /\ DOMAIN bundles = 1 .. Len(bundles)
        /\ DOMAIN bundles' = 1 .. Len(bundles')
    BY <1>3, <2>1 DEF CommitBundle, ChainTypeOK
  <2>3. anchors \in Seq(AnchorStatuses \cup {NoAnchor}) /\ Len(anchors) = Len(bundles)
    BY <2>2 DEF ChainTypeOK
  <2>4. anchors' \in [DOMAIN bundles' -> AnchorStatuses \cup {NoAnchor}]
    <3>1. /\ anchors' \in Seq(AnchorStatuses \cup {NoAnchor})
          /\ Len(anchors') = Len(bundles')
      BY <1>3, <2>2, <2>3 DEF CommitBundle
    <3>2. QED
      BY <2>2, <3>1
  <2>5. [step |-> "anchor", b |-> Len(bundles'), force |-> FALSE] \in Requests
    BY <2>2 DEF Requests
  <2>6. QED
    BY <1>3, <2>2, <2>4, <2>5, CallsType DEF ChainTypeOK, CommitBundle, Proceed
<1>4. ASSUME NEW c \in Exporters, NEW b \in DOMAIN bundles, Refresh(c, b) PROVE ChainTypeOK'
  <2>1. [step |-> "anchor", b |-> b, force |-> TRUE] \in Requests
    BY DEF ChainTypeOK, Requests
  <2>2. QED
    BY <1>4, <2>1, CallsType DEF ChainTypeOK, Refresh, Admit
<1>5. ASSUME NEW c \in Exporters, Anchor(c) PROVE ChainTypeOK'
  <2>1. /\ request[c].b \in DOMAIN bundles /\ request[c].b \in Nat
        /\ request[c].force \in BOOLEAN
    BY <1>5 DEF Anchor, Stands, ChainTypeOK, Requests, NoRequest
  <2>2. /\ AfterAnchor(request[c]) \in Requests
        /\ AfterAnchor(request[c]).step \in {"anchor", "save", "certify"}
              => AfterAnchor(request[c]).b \in DOMAIN bundles
    BY <2>1 DEF AfterAnchor, Requests, NoRequest
  <2>3. ASSUME NEW m \in Receipts, NEW i \in Receipts
        PROVE [step |-> "save", b |-> request[c].b, force |-> request[c].force,
               found |-> anchors[request[c].b] # NoAnchor, status |-> Merged(m, i)] \in Requests
    BY <2>1, MergedType DEF Requests
  <2>4. ASSUME NEW k \in Requests, request' = [request EXCEPT ![c] = k],
               k.step \in {"anchor", "save", "certify"} => k.b \in DOMAIN bundles
        PROVE ChainTypeOK'
    BY <1>5, <2>4, CallsType DEF ChainTypeOK, Anchor
  <2>5. CASE request' = [request EXCEPT ![c] = AfterAnchor(request[c])]
    BY <2>2, <2>4, <2>5
  <2>6. ASSUME NEW m \in Receipts, NEW i \in Receipts,
               request' = [request EXCEPT ![c] =
                           [step |-> "save", b |-> request[c].b, force |-> request[c].force,
                            found |-> anchors[request[c].b] # NoAnchor, status |-> Merged(m, i)]]
        PROVE ChainTypeOK'
    BY <2>1, <2>3, <2>4, <2>6
  <2>7. QED
    BY <1>5, <2>5, <2>6 DEF Anchor, Proceed
<1>6. ASSUME NEW c \in Exporters, SaveAnchor(c) PROVE ChainTypeOK'
  <2>1. /\ request[c].b \in DOMAIN bundles /\ request[c].b \in Nat
        /\ request[c].status \in AnchorStatuses
    BY <1>6 DEF SaveAnchor, Stands, ChainTypeOK, Requests, NoRequest
  <2>2. /\ AfterAnchor(request[c]) \in Requests
        /\ AfterAnchor(request[c]).step \in {"anchor", "save", "certify"}
              => AfterAnchor(request[c]).b \in DOMAIN bundles
        /\ NoRequest \in Requests /\ NoRequest.step \notin {"anchor", "save", "certify"}
    BY <2>1 DEF AfterAnchor, Requests, NoRequest
  <2>3. QED
    BY <1>6, <2>1, <2>2, CallsType DEF ChainTypeOK, SaveAnchor, Proceed
<1>7. ASSUME NEW c \in Exporters, Certify(c) PROVE ChainTypeOK'
  BY <1>7 DEF Certify, Stands, Proceed, ChainTypeOK, Requests, NoRequest
<1>8. ASSUME NEW c \in Exporters, GiveUp(c) PROVE ChainTypeOK'
  BY <1>8 DEF GiveUp, Proceed, ChainTypeOK, Requests, NoRequest
<1>9. ASSUME UNCHANGED chainVars PROVE ChainTypeOK'
  BY <1>9 DEF chainVars, ChainTypeOK
<1>10. QED
  BY <1>1, <1>2, <1>3, <1>4, <1>5, <1>6, <1>7, <1>8, <1>9 DEF ChainNext, ExporterStep

\* The rows of bundles, anchors and certificates keep their types, and calls
\* refer to bundles there are.
THEOREM EvidenceTypeCorrect == ChainSpec => []ChainTypeOK
<1>1. QED
  BY TypeInit, TypeStep, PTL DEF ChainSpec

-----------------------------------------------------------------------------
(* Certificates.                                                           *)

\* A call that has come to the certificate has seen or saved an anchor row.
AnchorComesFirst == \A c \in Exporters : Stands(c, "certify") => anchors[request[c].b] # NoAnchor

CertificateInv == ChainTypeOK /\ CertifiedHasAnchor /\ AnchorComesFirst

LEMMA CertificateInit == ChainInit => CertificateInv
BY TypeInit DEF ChainInit, CertificateInv, CertifiedHasAnchor, AnchorComesFirst, Stands, NoRequest

\* No step removes an anchor row.
LEMMA AnchorsStay ==
    ASSUME ChainTypeOK, [ChainNext]_chainVars, NEW b \in DOMAIN bundles, anchors[b] # NoAnchor
    PROVE  anchors'[b] # NoAnchor
<1>1. ASSUME NEW c \in Exporters, CommitBundle(c) PROVE anchors'[b] # NoAnchor
  <2>1. anchors \in Seq(AnchorStatuses \cup {NoAnchor}) /\ b \in 1 .. Len(anchors)
    BY DEF ChainTypeOK
  <2>2. QED
    BY <1>1, <2>1 DEF CommitBundle
<1>2. ASSUME NEW c \in Exporters, SaveAnchor(c) PROVE anchors'[b] # NoAnchor
  BY <1>2 DEF SaveAnchor, Stands, ChainTypeOK, Requests, NoRequest
<1>3. CASE UNCHANGED anchors
  BY <1>3
<1>4. QED
  BY <1>1, <1>2, <1>3 DEF ChainNext, ExporterStep, chainVars, Export, Chain, Refresh, Anchor, Certify, GiveUp

LEMMA CertificateStep == CertificateInv /\ [ChainNext]_chainVars => CertificateInv'
<1> SUFFICES ASSUME CertificateInv, [ChainNext]_chainVars PROVE CertificateInv'
  OBVIOUS
<1> USE DEF CertificateInv
<1>1. ChainTypeOK'
  BY TypeStep
<1>2. ASSUME NEW d \in Exporters, Stands(d, "certify")', ~Stands(d, "certify")
      PROVE anchors'[request'[d].b] # NoAnchor
  <2>1. ASSUME NEW c \in Exporters, Anchor(c) PROVE anchors'[request'[d].b] # NoAnchor
    BY <1>2, <2>1 DEF Anchor, Stands, Proceed, AfterAnchor, NoRequest, ChainTypeOK
  <2>2. ASSUME NEW c \in Exporters, SaveAnchor(c) PROVE anchors'[request'[d].b] # NoAnchor
    <3>1. request[c].b \in DOMAIN anchors /\ request[c].status \in AnchorStatuses
      BY <2>2 DEF SaveAnchor, Stands, ChainTypeOK, Requests, NoRequest
    <3>2. QED
      BY <1>2, <2>2, <3>1 DEF SaveAnchor, Stands, Proceed, AfterAnchor, NoRequest, ChainTypeOK
  <2>3. ASSUME NEW c \in Exporters, \E k : request' = [request EXCEPT ![c] = k] /\ k.step # "certify"
        PROVE FALSE
    BY <1>2, <2>3 DEF Stands, ChainTypeOK
  <2>4. ASSUME NEW c \in Exporters, Export(c) \/ Chain(c) \/ CommitBundle(c) PROVE FALSE
    <3> DEFINE Sets(k) == request' = [request EXCEPT ![c] = k] /\ k.step # "certify"
    <3>1. CASE Export(c)
      <4>1. Sets([step |-> "chain", at |-> clock + 1])
        BY <3>1 DEF Export, Admit
      <4>2. QED
        BY <2>3, <4>1
    <3>2. CASE Chain(c)
      <4>1. PICK b \in Prev : Sets([step |-> "commit", bundle |-> [at |-> request[c].at, prev |-> b]])
        BY <3>2 DEF Chain, Proceed
      <4>2. QED
        BY <2>3, <4>1
    <3>3. CASE CommitBundle(c)
      <4>1. Sets([step |-> "anchor", b |-> Len(bundles'), force |-> FALSE])
        BY <3>3 DEF CommitBundle, Proceed
      <4>2. QED
        BY <2>3, <4>1
    <3>4. QED
      BY <2>4, <3>1, <3>2, <3>3
  <2>5. ASSUME NEW c \in Exporters, \/ \E b \in DOMAIN bundles : Refresh(c, b)
                                  \/ Certify(c) \/ GiveUp(c)
        PROVE FALSE
    <3>1. \E k : request' = [request EXCEPT ![c] = k] /\ k.step # "certify"
      BY <2>5 DEF Refresh, Certify, GiveUp, Admit, Proceed, NoRequest
    <3>2. QED
      BY <2>3, <3>1
  <2>6. CASE UNCHANGED chainVars
    BY <1>2, <2>6 DEF chainVars, Stands
  <2>7. CASE ChainNext
    <3>1. PICK c \in Exporters : ExporterStep(c)
      BY <2>7 DEF ChainNext
    <3>2. QED
      BY <2>1, <2>2, <2>4, <2>5, <3>1 DEF ExporterStep
  <2>8. QED
    BY <2>6, <2>7
<1>3. ASSUME NEW d \in Exporters, Stands(d, "certify")', Stands(d, "certify")
      PROVE anchors'[request'[d].b] # NoAnchor
  <2>1. request'[d].b = request[d].b
    <3>1. ASSUME NEW c \in Exporters, ExporterStep(c) PROVE request'[d] = request[d]
      BY <1>3, <3>1 DEF ExporterStep, Export, Chain, CommitBundle, Refresh, Anchor, SaveAnchor, Certify,
                        GiveUp, Admit, Stands, Proceed, AfterAnchor, NoRequest, ChainTypeOK
    <3>2. CASE UNCHANGED chainVars
      BY <3>2 DEF chainVars
    <3>3. QED
      BY <3>1, <3>2 DEF ChainNext
  <2>2. request[d].b \in DOMAIN bundles /\ anchors[request[d].b] # NoAnchor
    BY <1>3 DEF ChainTypeOK, Stands, AnchorComesFirst
  <2>3. QED
    BY <2>1, <2>2, AnchorsStay
<1>4. AnchorComesFirst'
  BY <1>2, <1>3 DEF AnchorComesFirst
<1>5. CertifiedHasAnchor'
  <2>1. ASSUME NEW b \in certified' PROVE anchors'[b] # NoAnchor
    <3>1. CASE b \in certified
      BY <3>1, AnchorsStay DEF ChainTypeOK, CertifiedHasAnchor
    <3>2. CASE b \notin certified
      <4>1. PICK c \in Exporters : Certify(c)
        BY <3>2, <2>1 DEF ChainNext, ExporterStep, chainVars, Export, Chain, CommitBundle, Refresh, Anchor,
                          SaveAnchor, GiveUp
      <4>2. QED
        BY <2>1, <3>2, <4>1 DEF Certify, AnchorComesFirst
    <3>3. QED
      BY <3>1, <3>2
  <2>2. QED
    BY <2>1 DEF CertifiedHasAnchor
<1>6. QED
  BY <1>1, <1>4, <1>5

\* However exports, refreshes and failures interleave, a bundle with a
\* certificate has an anchor row.
THEOREM CertifiedHasAnchorAlways == ChainSpec => []CertifiedHasAnchor
<1>1. CertificateInv => CertifiedHasAnchor
  BY DEF CertificateInv
<1>2. QED
  BY <1>1, CertificateInit, CertificateStep, PTL DEF ChainSpec

-----------------------------------------------------------------------------
(* The chain. As long as exports have not overlapped, the bundles are      *)
(* committed in the order of their stamps, so that the newest is the last, *)
(* and the one export that has begun is later than all of them.            *)

AfterAll(t) == t <= clock /\ \A b \in DOMAIN bundles : bundles[b].at < t

StampsAscend == \A a, b \in DOMAIN bundles : a < b => bundles[a].at < bundles[b].at

StampsPast == \A b \in DOMAIN bundles : bundles[b].at <= clock

\* The export under way is later than all bundles, and follows the last.
Follows(c) == /\ Stands(c, "chain") => AfterAll(request[c].at)
              /\ Stands(c, "commit") => /\ AfterAll(request[c].bundle.at)
                                    /\ request[c].bundle.prev = Len(bundles)

Linear == /\ ~ExportsOverlap
          /\ ChainLinear
          /\ StampsAscend
          /\ StampsPast
          /\ \A c \in Exporters : Follows(c)

ChainInv == ChainTypeOK /\ (~exportsOverlapped => Linear)

LEMMA ChainStarts == MCChainInit => ChainInv
BY TypeInit DEF MCChainInit, ChainInit, ChainInv, Linear, ExportsOverlap, Chaining, ChainLinear, StampsAscend,
                StampsPast, Follows, Stands, NoRequest

LEMMA BundleRows ==
    ASSUME ChainTypeOK
    PROVE  /\ bundles \in Seq(Bundles) /\ Len(bundles) \in Nat /\ clock \in Nat
           /\ DOMAIN bundles = 1 .. Len(bundles)
           /\ \A b \in DOMAIN bundles : bundles[b] \in Bundles /\ bundles[b].at \in Nat
<1>1. bundles \in Seq(Bundles) /\ clock \in Nat
  BY DEF ChainTypeOK
<1>2. \A b \in DOMAIN bundles : bundles[b] \in Bundles
  BY <1>1
<1>3. \A row \in Bundles : row.at \in Nat
  BY DEF Bundles
<1>4. QED
  BY <1>1, <1>2, <1>3

\* The newest bundle is the last.
LEMMA NewestIsLast ==
    ASSUME ChainTypeOK, StampsAscend, NEW b \in Prev
    PROVE  b = Len(bundles)
<1>1. CASE bundles = <<>>
  BY <1>1 DEF Prev
<1>2. CASE bundles # <<>>
  <2>1. Len(bundles) \in DOMAIN bundles
    BY <1>2, BundleRows
  <2>2. b \in DOMAIN bundles /\ bundles[Len(bundles)].at <= bundles[b].at
    BY <1>2, <2>1 DEF Prev, Newest
  <2>3. b < Len(bundles) => bundles[b].at < bundles[Len(bundles)].at
    BY <2>1, <2>2 DEF StampsAscend
  <2>4. bundles[b].at \in Nat /\ bundles[Len(bundles)].at \in Nat
    BY <2>1, <2>2, BundleRows
  <2>5. QED
    BY <2>2, <2>3, <2>4, BundleRows
<1>3. QED
  BY <1>1, <1>2

\* Another call that has not moved follows the bundles as before, if these and
\* the clock are the same or only the clock has advanced.
LEMMA OthersFollow ==
    ASSUME ChainTypeOK, NEW d \in Exporters, Follows(d), request'[d] = request[d],
           UNCHANGED bundles, clock' = clock \/ clock' = clock + 1
    PROVE  Follows(d)'
<1>1. clock \in Nat /\ DOMAIN bundles' = DOMAIN bundles
  BY DEF ChainTypeOK
<1>2. ASSUME NEW t \in Nat, AfterAll(t) PROVE AfterAll(t)'
  BY <1>1, <1>2 DEF AfterAll
<1>3. /\ Stands(d, "chain") => request[d].at \in Nat
      /\ Stands(d, "commit") => request[d].bundle.at \in Nat
  BY DEF ChainTypeOK, Requests, NoRequest, Stands, Bundles
<1>4. QED
  BY <1>2, <1>3 DEF Follows, Stands

LEMMA ChainStep == ChainInv /\ [MCChainNext]_<<chainVars, exportsOverlapped>> => ChainInv'
<1> SUFFICES ASSUME ChainInv, [MCChainNext]_<<chainVars, exportsOverlapped>> PROVE ChainInv'
  OBVIOUS
<1>0. ChainTypeOK /\ ChainTypeOK' /\ [ChainNext]_chainVars
  BY TypeStep DEF ChainInv, MCChainNext
<1> SUFFICES ASSUME ~exportsOverlapped' PROVE Linear'
  BY <1>0 DEF ChainInv
<1>1. CASE UNCHANGED <<chainVars, exportsOverlapped>>
  BY <1>1 DEF ChainInv, Linear, chainVars, ExportsOverlap, Chaining, ChainLinear, StampsAscend,
              StampsPast, Follows, AfterAll, Stands
<1> SUFFICES ASSUME ChainNext, ~exportsOverlapped, ~ExportsOverlap', Linear PROVE Linear'
  BY <1>1 DEF MCChainNext, ChainInv
<1> USE DEF Linear
<1>2. ASSUME NEW c \in Exporters, UNCHANGED <<clock, bundles>>, Follows(c)',
             \A d \in Exporters : d # c => request'[d] = request[d]
      PROVE Linear'
  <2>1. ASSUME NEW d \in Exporters, d # c PROVE Follows(d)'
    BY <1>0, <1>2, <2>1, OthersFollow
  <2>2. ChainLinear' /\ StampsAscend' /\ StampsPast'
    BY <1>2 DEF ChainLinear, StampsAscend, StampsPast
  <2>3. QED
    BY <1>2, <2>1, <2>2
<1>3. ASSUME NEW c \in Exporters, Export(c) PROVE Linear'
  <2>1. /\ clock' = clock + 1 /\ bundles' = bundles /\ clock \in Nat
        /\ request'[c] = [step |-> "chain", at |-> clock + 1]
        /\ \A d \in Exporters : d # c => request'[d] = request[d]
    BY <1>0, <1>3 DEF Export, Admit, ChainTypeOK
  <2>2. \A b \in DOMAIN bundles : bundles[b].at <= clock /\ bundles[b].at \in Nat
    BY <1>0, BundleRows DEF StampsPast
  <2>3. Follows(c)'
    BY <2>1, <2>2 DEF Follows, Stands, AfterAll
  <2>4. ASSUME NEW d \in Exporters, d # c PROVE Follows(d)'
    BY <1>0, <2>1, <2>4, OthersFollow
  <2>5. ChainLinear' /\ StampsAscend' /\ StampsPast'
    BY <2>1, <2>2 DEF ChainLinear, StampsAscend, StampsPast
  <2>6. QED
    BY <2>3, <2>4, <2>5
<1>4. ASSUME NEW c \in Exporters, Chain(c) PROVE Linear'
  <2>1. PICK b \in Prev : request' = [request EXCEPT ![c] =
            [step |-> "commit", bundle |-> [at |-> request[c].at, prev |-> b]]]
    BY <1>4 DEF Chain, Proceed
  <2>2. b = Len(bundles)
    BY <1>0, NewestIsLast
  <2>3. UNCHANGED <<clock, bundles>> /\ AfterAll(request[c].at)
    BY <1>4 DEF Chain, Follows
  <2>4. request'[c].step = "commit" /\ request'[c].bundle.at = request[c].at
        /\ request'[c].bundle.prev = b
    BY <1>0, <2>1 DEF ChainTypeOK
  <2>5. Follows(c)'
    BY <2>2, <2>3, <2>4 DEF Follows, Stands, AfterAll
  <2>6. QED
    BY <1>0, <1>2, <2>1, <2>3, <2>5 DEF ChainTypeOK
<1>5. ASSUME NEW c \in Exporters, CommitBundle(c) PROVE Linear'
  <2>1. /\ AfterAll(request[c].bundle.at) /\ request[c].bundle.prev = Len(bundles)
        /\ clock' = clock
    BY <1>5 DEF CommitBundle, Follows
  <2>2. request[c].bundle \in Bundles /\ request[c].bundle.at \in Nat
    BY <1>0, <1>5 DEF CommitBundle, Stands, ChainTypeOK, Requests, NoRequest, Bundles
  <2>3. /\ DOMAIN bundles = 1 .. Len(bundles) /\ Len(bundles) \in Nat
        /\ DOMAIN bundles' = 1 .. Len(bundles) + 1
        /\ \A b \in 1 .. Len(bundles) : bundles'[b] = bundles[b]
        /\ bundles'[Len(bundles) + 1] = request[c].bundle
    BY <1>0, <1>5, <2>2, BundleRows DEF CommitBundle
  <2>4. \A b \in DOMAIN bundles' : b \in DOMAIN bundles \/ b = Len(bundles) + 1
    BY <2>3
  <2>5. ChainLinear'
    BY <2>1, <2>3, <2>4 DEF ChainLinear
  <2>6. StampsPast'
    BY <2>1, <2>3, <2>4 DEF StampsPast, AfterAll
  <2>7. StampsAscend'
    <3>1. ASSUME NEW a \in DOMAIN bundles', NEW b \in DOMAIN bundles', a < b
          PROVE bundles'[a].at < bundles'[b].at
      <4>1. a \in DOMAIN bundles
        BY <2>3, <2>4, <3>1
      <4>2. CASE b \in DOMAIN bundles
        BY <2>3, <3>1, <4>1, <4>2 DEF StampsAscend
      <4>3. CASE b = Len(bundles) + 1
        BY <2>1, <2>3, <4>1, <4>3 DEF AfterAll
      <4>4. QED
        BY <2>4, <4>2, <4>3
    <3>2. QED
      BY <3>1 DEF StampsAscend
  <2>8. ASSUME NEW d \in Exporters PROVE Follows(d)'
    <3>1. CASE d = c
      BY <1>0, <1>5, <3>1 DEF CommitBundle, Proceed, Follows, Stands, ChainTypeOK
    <3>2. CASE d # c
      <4>1. request'[d] = request[d] /\ ~Chaining(d)
        BY <1>0, <1>5, <3>2 DEF CommitBundle, Proceed, ChainTypeOK, ExportsOverlap, Chaining, Stands
      <4>2. QED
        BY <4>1 DEF Follows, Chaining, Stands
    <3>3. QED
      BY <3>1, <3>2
  <2>9. QED
    BY <2>5, <2>6, <2>7, <2>8
<1>6. ASSUME NEW c \in Exporters,
             \/ \E b \in DOMAIN bundles : Refresh(c, b)
             \/ Anchor(c) \/ SaveAnchor(c) \/ Certify(c) \/ GiveUp(c)
      PROVE Linear'
  <2>1. /\ UNCHANGED <<clock, bundles>>
        /\ \A d \in Exporters : d # c => request'[d] = request[d]
        /\ request'[c].step \notin {"chain", "commit"}
    BY <1>0, <1>6 DEF Refresh, Anchor, SaveAnchor, Certify, GiveUp, Admit, Proceed, AfterAnchor, NoRequest,
                      ChainTypeOK
  <2>2. Follows(c)'
    BY <2>1 DEF Follows, Stands
  <2>3. QED
    BY <1>2, <2>1, <2>2
<1>7. QED
  BY <1>3, <1>4, <1>5, <1>6 DEF ChainNext, ExporterStep

\* While no export has begun before another committed its bundle, every bundle
\* is chained to the one committed before it: for any number of exports and
\* callers, failures after any step, refreshes and anchoring under way.
THEOREM ChainLinearWhileAlone == MCChainSpec => []ChainLinearAlone
<1>1. ChainInv => ChainLinearAlone
  BY DEF ChainInv, Linear, ChainLinearAlone
<1>2. QED
  BY <1>1, ChainStarts, ChainStep, PTL DEF MCChainSpec
=============================================================================
