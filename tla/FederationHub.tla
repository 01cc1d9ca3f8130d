---------------------------- MODULE FederationHub ----------------------------
(***************************************************************************)
(* api/federation.py on the hub, which runs several worker processes: the  *)
(* agents register and submit batches of hashed patterns, and central      *)
(* command raises a warning when enough partners report the same hash.     *)
(*                                                                         *)
(* A worker reads the partner's row when it checks the key, and writes the *)
(* row back with the batch. The rate limit is kept in each process.        *)
(***************************************************************************)
EXTENDS Naturals, FiniteSets

CONSTANTS Partners, Hashes,
          Workers,               \* processes of the hub (WEB_CONCURRENCY)
          MaxPerHour,            \* _PARTNER_MAX_BATCHES_PER_HOUR
          MinPartners,           \* of WarningFromCorrelationRequest
          MaxRows,               \* bound on the rows of a partner
          Free                   \* no request

ASSUME HubBoundsAssumption ==
    /\ IsFiniteSet(Hashes) /\ Free \notin [partner : Partners, total : Nat]
    /\ MaxPerHour \in Nat /\ MinPartners \in Nat /\ MaxRows \in Nat

VARIABLES registered,            \* rows of federation_partner
          total,                 \* total_patterns of each
          rows,                  \* rows of each in federation_pattern
          reports,               \* the partner and the hash of those rows
          request,               \* per worker: the partner's row as it was read
          recent,                \* _PARTNER_SUBMIT_WINDOW of each process
          raised,                \* warnings from a correlation: hash, sources
          shared                 \* history: partners with two requests at once

hubVars == <<registered, total, rows, reports, request, recent, raised, shared>>

HubRequests == [partner : Partners, total : Nat]

HubTypeOK == /\ registered \subseteq Partners
             /\ total \in [Partners -> Nat]
             /\ rows \in [Partners -> Nat]
             /\ reports \subseteq Partners \X Hashes
             /\ request \in [Workers -> HubRequests \cup {Free}]
             /\ recent \in [Workers -> [Partners -> Nat]]
             /\ raised \subseteq [hash : Hashes, sources : SUBSET Partners]
             /\ shared \subseteq Partners

HubInit == /\ registered = {}
           /\ total = [p \in Partners |-> 0]
           /\ rows = [p \in Partners |-> 0] /\ reports = {}
           /\ request = [w \in Workers |-> Free]
           /\ recent = [w \in Workers |-> [p \in Partners |-> 0]]
           /\ raised = {} /\ shared = {}

-----------------------------------------------------------------------------
\* register_partner: a second registration is refused.
Register(p) == /\ p \notin registered
               /\ registered' = registered \cup {p}
               /\ UNCHANGED <<total, rows, reports, request, recent, raised, shared>>

InHand(p) == {w \in Workers : request[w] # Free /\ request[w].partner = p}

\* _require_partner_api_key: the row stays in the session of the request.
Authenticate(w, p) ==
    /\ request[w] = Free
    /\ p \in registered
    /\ request' = [request EXCEPT ![w] = [partner |-> p, total |-> total[p]]]
    /\ shared' = IF InHand(p) = {} THEN shared ELSE shared \cup {p}
    /\ UNCHANGED <<registered, total, rows, reports, recent, raised>>

Partner(w) == request[w].partner

\* Mutant: the cumulative count restarts with the batch.
TotalOfBatch(w, H) == Cardinality(H)

\* What total_patterns becomes: the value read with the row, and the batch.
NewTotal(w, H) == request[w].total + Cardinality(H)

Passes(w) == recent[w][Partner(w)] < MaxPerHour
Counted(w) == recent' = [recent EXCEPT ![w][Partner(w)] = @ + 1]
Release(w) == request' = [request EXCEPT ![w] = Free]

\* submit_patterns: a row for each hash of the batch, one commit.
Submit(w, H) ==
    /\ request[w] # Free /\ Passes(w)
    /\ rows[Partner(w)] + Cardinality(H) <= MaxRows
    /\ rows' = [rows EXCEPT ![Partner(w)] = @ + Cardinality(H)]
    /\ reports' = reports \cup ({Partner(w)} \X H)
    /\ total' = [total EXCEPT ![Partner(w)] = NewTotal(w, H)]
    /\ Counted(w) /\ Release(w)
    /\ UNCHANGED <<registered, raised, shared>>

\* Over the limit: 429. Another partner's id in the batch, or a failed commit,
\* stores nothing but is counted. A heartbeat writes other columns.
Refuse(w) == /\ request[w] # Free
             /\ \/ ~Passes(w) /\ UNCHANGED recent
                \/ Passes(w) /\ Counted(w)
             /\ Release(w)
             /\ UNCHANGED <<registered, total, rows, reports, raised, shared>>

Heartbeat(w) == /\ request[w] # Free
                /\ Release(w)
                /\ UNCHANGED <<registered, total, rows, reports, recent, raised, shared>>

\* An hour passes: the entries of a partner are evicted.
Evict(w, p) == /\ recent[w][p] > 0
               /\ recent' = [recent EXCEPT ![w][p] = 0]
               /\ UNCHANGED <<registered, total, rows, reports, request, raised, shared>>

Reporting(h) == {p \in Partners : <<p, h>> \in reports}

Enough(S) == S # {} /\ Cardinality(S) >= MinPartners

\* create_warning_from_correlation: rows within the hours and over the risk that
\* the call asks for, of some or all who reported the hash.
Correlate(h) == \E S \in SUBSET Reporting(h) :
    /\ Enough(S)
    /\ raised' = raised \cup {[hash |-> h, sources |-> S]}
    /\ UNCHANGED <<registered, total, rows, reports, request, recent, shared>>

-----------------------------------------------------------------------------
HubNext == \/ \E p \in Partners : Register(p)
           \/ \E w \in Workers :
                 \/ \E p \in Partners : Authenticate(w, p) \/ Evict(w, p)
                 \/ \E H \in SUBSET Hashes : Submit(w, H)
                 \/ Refuse(w) \/ Heartbeat(w)
           \/ \E h \in Hashes : Correlate(h)

HubSpec == HubInit /\ [][HubNext]_hubVars

-----------------------------------------------------------------------------
(* Correctness.                                                            *)

\* federation/models.py:67, total_patterns is the "Cumulative pattern rows
\* received": no retry, refusal, heartbeat or order of workers makes it wrong,
\* while no two requests of the partner were read at once.
TotalIsExact == \A p \in Partners \ shared : total[p] = rows[p]
=============================================================================
