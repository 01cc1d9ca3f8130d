------------------------ MODULE OuterServicesProofs ------------------------
(***************************************************************************)
(* Proofs about InferenceTrigger, FederationHub, WarningExchange,          *)
(* EdgeAgent, EventStream and AuthSessions, for every value of their       *)
(* constants: types, the backlog of the trigger, the totals of the hub,    *)
(* the acknowledgements of an agency, its index of what it published and   *)
(* the age of its model, what the stream of events leaves out, and that    *)
(* sessions end with the password they were opened with.                   *)
(***************************************************************************)
EXTENDS InferenceTrigger, FederationHub, WarningExchange, EdgeAgent,
        EventStream, AuthSessions, FiniteSetTheorems, TLAPS

-----------------------------------------------------------------------------
(* InferenceTrigger: types.                                                *)

LEMMA TriggerTypeInit == TriggerInit => TriggerTypeOK
BY ThresholdAssumption, TriggerBoundsAssumption DEF TriggerInit, TriggerTypeOK

\* The count is under the threshold but in the moment before a run.
CountUnder == /\ count <= Threshold
              /\ handling # "run" => count < Threshold

\* The event in hand is one of the topic's.
TriggerTypeInv == /\ TriggerTypeOK /\ CountUnder
                  /\ handling # "none" => offset < MaxEvents

LEMMA TriggerTypeStep == TriggerTypeInv /\ [TriggerNext]_triggerVars => TriggerTypeInv'
<1> SUFFICES ASSUME TriggerTypeInv, [TriggerNext]_triggerVars PROVE TriggerTypeInv'
  OBVIOUS
<1> USE ThresholdAssumption, TriggerBoundsAssumption
    DEF TriggerTypeInv, TriggerTypeOK, CountUnder
<1>1. ASSUME Take PROVE TriggerTypeInv'
  BY <1>1 DEF Take, Reached, waiting
<1>2. ASSUME Trigger PROVE TriggerTypeInv'
  <2>1. /\ UNCHANGED <<offset, uptime, takenAt, restarts>>
        /\ count' = 0 /\ lastRunAt' = takenAt
        /\ handling = "run" /\ handling' \in {"scored", "unscored"}
        /\ unscored' \in Nat /\ failedRuns' \in Nat /\ early' \in Nat
    BY <1>2 DEF Trigger
  <2>2. brokenRuns' \in 0 .. MaxFailedRuns
    <3>1. \/ brokenRuns' = brokenRuns
          \/ brokenRuns < MaxFailedRuns /\ brokenRuns' = brokenRuns + 1
      BY <1>2 DEF Trigger
    <3>2. QED
      BY <3>1
  <2>3. TriggerTypeOK'
    <3>1. handling' \in {"none", "run", "scored", "unscored"} /\ count' \in 0 .. Threshold
      BY <2>1
    <3>2. QED
      BY <2>1, <2>2, <3>1
  <2>4. CountUnder' /\ offset' < MaxEvents
    BY <2>1
  <2>5. QED
    BY <2>3, <2>4
<1>3. ASSUME CommitOffset PROVE TriggerTypeInv'
  BY <1>3 DEF CommitOffset
<1>4. ASSUME Restart PROVE TriggerTypeInv'
  BY <1>4 DEF Restart, StartsAt
<1>5. ASSUME HostTick PROVE TriggerTypeInv'
  BY <1>5 DEF HostTick, waiting
<1>6. CASE UNCHANGED triggerVars
  BY <1>6 DEF triggerVars, clocks, waiting
<1>7. QED
  BY <1>1, <1>2, <1>3, <1>4, <1>5, <1>6 DEF TriggerNext

\* The trigger's variables keep their types; the count never passes the threshold.
THEOREM TriggerTypeCorrect == TriggerSpec => []TriggerTypeOK
<1>1. TriggerInit => TriggerTypeInv
  BY TriggerTypeInit, ThresholdAssumption DEF TriggerInit, CountUnder, TriggerTypeInv
<1>2. TriggerTypeInv => TriggerTypeOK
  BY DEF TriggerTypeInv
<1>3. QED
  BY <1>1, <1>2, TriggerTypeStep, PTL DEF TriggerSpec

-----------------------------------------------------------------------------
(* InferenceTrigger: the backlog.                                          *)

\* What failed runs left, and what early restarts forgot.
Owed == Threshold * failedRuns + (Threshold - 1) * early

\* The next event starts a run, whatever the count.
Due == lastRunAt = 0 /\ uptime >= MinInterval

\* What waits beyond what is owed is counted, or less than a threshold of it
\* waits for the next event to start a run.
BacklogCounted ==
    /\ handling = "none" => \/ unscored <= Owed + count
                            \/ Due /\ unscored < Owed + Threshold
    /\ handling = "run" => unscored < Owed + Threshold
    /\ handling = "unscored" => unscored < Owed + count
    /\ handling = "scored" => unscored = 0

TriggerInv == TriggerTypeInv /\ BacklogCounted

\* One failed run more owes one threshold more, an early restart one less.
LEMMA OwedStep ==
    ASSUME NEW n \in Nat, NEW k \in Nat
    PROVE  LET at(f, r) == Threshold * f + (Threshold - 1) * r
           IN  /\ at(n, k) \in Nat /\ at(0, 0) = 0
               /\ at(n + 1, k) = at(n, k) + Threshold
               /\ at(n, k + 1) = at(n, k) + (Threshold - 1)
               /\ Threshold * (1 + n) + (Threshold - 1) * k = at(n, k) + Threshold
BY ThresholdAssumption

LEMMA TriggerInvStep == TriggerInv /\ [TriggerNext]_triggerVars => TriggerInv'
<1> SUFFICES ASSUME TriggerInv, [TriggerNext]_triggerVars PROVE TriggerInv'
  OBVIOUS
<1>0. /\ TriggerTypeOK /\ CountUnder /\ BacklogCounted
      /\ TriggerTypeInv' /\ TriggerTypeOK' /\ CountUnder'
  BY TriggerTypeStep DEF TriggerInv, TriggerTypeInv
<1>1. /\ count \in Nat /\ unscored \in Nat /\ failedRuns \in Nat /\ early \in Nat
      /\ Owed \in Nat /\ Threshold \in Nat \ {0} /\ MinInterval \in Nat
      /\ uptime \in Nat /\ count <= Threshold
      /\ handling \in {"none", "run", "scored", "unscored"}
  BY <1>0, ThresholdAssumption, TriggerBoundsAssumption, OwedStep
  DEF TriggerTypeOK, Owed, CountUnder
<1>2. ASSUME Take PROVE BacklogCounted'
  <2>1. Owed' = Owed /\ unscored' = unscored /\ count' = count + 1 /\ handling = "none"
    BY <1>2 DEF Take, Owed, waiting
  <2>2. handling' = "unscored" => count' < Threshold
    BY <1>0, <1>2 DEF CountUnder
  <2>3. handling' \in {"run", "unscored"} /\ (Due => handling' = "run")
    BY <1>1, <1>2 DEF Take, Passed, Due
  <2>4. count' <= Threshold
    BY <1>0 DEF CountUnder
  <2>5. QED
    BY <1>0, <1>1, <2>1, <2>2, <2>3, <2>4 DEF BacklogCounted
<1>3. ASSUME Trigger PROVE BacklogCounted'
  <2>1. CASE unscored' = 0 /\ handling' = "scored"
    BY <2>1 DEF BacklogCounted
  <2>2. CASE /\ failedRuns' = failedRuns + 1 /\ handling' = "unscored"
             /\ UNCHANGED <<unscored, early>>
    <3>1. Owed' = Owed + Threshold
      BY <1>1, <2>2, OwedStep DEF Owed
    <3>2. unscored < Owed + Threshold /\ count' = 0
      BY <1>0, <1>3 DEF Trigger, BacklogCounted
    <3>3. QED
      BY <1>1, <2>2, <3>1, <3>2 DEF BacklogCounted
  <2>3. QED
    BY <1>3, <2>1, <2>2 DEF Trigger
<1>4. ASSUME CommitOffset PROVE BacklogCounted'
  <2>1. Owed' = Owed /\ count' = count /\ handling' = "none"
    BY <1>4 DEF CommitOffset, Owed
  <2>2. unscored' <= Owed + count
    BY <1>0, <1>1, <1>4 DEF CommitOffset, BacklogCounted, Due
  <2>3. QED
    BY <2>1, <2>2 DEF BacklogCounted
<1>5. ASSUME Restart PROVE BacklogCounted'
  <2>1. unscored < Owed + Threshold
    <3>1. handling # "run" => count < Threshold
      BY <1>0 DEF CountUnder
    <3>2. QED
      BY <1>0, <1>1, <3>1 DEF BacklogCounted
  <2>2. /\ handling' = "none" /\ count' = 0 /\ lastRunAt' = 0
        /\ unscored' = unscored /\ failedRuns' = failedRuns /\ uptime' \in Nat
    BY <1>1, <1>5 DEF Restart, StartsAt
  <2>3. CASE uptime' < MinInterval
    <3>1. Owed' = Owed + (Threshold - 1)
      BY <1>1, <1>5, <2>2, <2>3, OwedStep DEF Restart, Owed
    <3>2. QED
      BY <1>1, <2>1, <2>2, <3>1 DEF BacklogCounted
  <2>4. CASE ~(uptime' < MinInterval)
    <3>1. Owed' = Owed
      BY <1>5, <2>2, <2>4 DEF Restart, Owed
    <3>2. Due'
      BY <1>1, <2>2, <2>4 DEF Due
    <3>3. QED
      BY <2>1, <2>2, <3>1, <3>2 DEF BacklogCounted
  <2>5. QED
    BY <2>3, <2>4
<1>6. ASSUME HostTick PROVE BacklogCounted'
  <2>1. Owed' = Owed /\ UNCHANGED <<handling, unscored, count>>
    BY <1>6 DEF HostTick, waiting, Owed
  <2>2. Due => Due'
    BY <1>1, <1>6 DEF HostTick, Due
  <2>3. QED
    BY <1>0, <2>1, <2>2 DEF BacklogCounted
<1>7. ASSUME UNCHANGED triggerVars PROVE BacklogCounted'
  BY <1>0, <1>7 DEF triggerVars, clocks, waiting, BacklogCounted, Owed, Due
<1>8. BacklogCounted'
  BY <1>2, <1>3, <1>4, <1>5, <1>6, <1>7 DEF TriggerNext
<1>9. QED
  BY <1>0, <1>8 DEF TriggerInv

\* Although every restart loses the count, fewer events than the threshold wait
\* for a score, a threshold more for each failed run, and one less than a
\* threshold more for each restart on a host not yet up for an interval.
THEOREM BacklogBoundedAlways == TriggerSpec => []BacklogBounded
<1>1. TriggerInit => TriggerInv
  BY TriggerTypeInit, ThresholdAssumption, OwedStep
  DEF TriggerInit, TriggerInv, TriggerTypeInv, CountUnder, BacklogCounted, Owed
<1>2. TriggerInv => BacklogBounded
  <2> SUFFICES ASSUME TriggerInv PROVE BacklogBounded
    OBVIOUS
  <2>1. /\ count \in Nat /\ unscored \in Nat /\ Owed \in Nat /\ Threshold \in Nat \ {0}
        /\ Threshold * (1 + failedRuns) + (Threshold - 1) * early = Owed + Threshold
        /\ handling \in {"none", "run", "scored", "unscored"}
    BY ThresholdAssumption, OwedStep DEF TriggerInv, TriggerTypeInv, TriggerTypeOK, Owed
  <2>2. count <= Threshold /\ (handling # "run" => count < Threshold)
    BY DEF TriggerInv, TriggerTypeInv, CountUnder
  <2>3. unscored < Owed + Threshold
    BY <2>1, <2>2 DEF TriggerInv, BacklogCounted
  <2>4. QED
    BY <2>1, <2>3 DEF BacklogBounded
<1>3. QED
  BY <1>1, <1>2, TriggerInvStep, PTL DEF TriggerSpec

-----------------------------------------------------------------------------
(* FederationHub: types.                                                   *)

LEMMA HubTypeInit == HubInit => HubTypeOK
BY DEF HubInit, HubTypeOK

\* The rows of a batch are counted.
LEMMA BatchSize ==
    ASSUME NEW H \in SUBSET Hashes
    PROVE  Cardinality(H) \in Nat
BY HubBoundsAssumption, FS_Subset, FS_CardinalityType

\* Who is served, and with what total.
LEMMA ServedType ==
    ASSUME HubTypeOK, NEW w \in Workers, request[w] # Free
    PROVE  Partner(w) \in Partners /\ request[w].total \in Nat
BY DEF HubTypeOK, HubRequests, Partner

LEMMA HubTypeStep == HubTypeOK /\ [HubNext]_hubVars => HubTypeOK'
<1> SUFFICES ASSUME HubTypeOK, [HubNext]_hubVars PROVE HubTypeOK'
  OBVIOUS
<1> USE DEF HubTypeOK
<1>1. ASSUME NEW p \in Partners, Register(p) PROVE HubTypeOK'
  BY <1>1 DEF Register
<1>2. ASSUME NEW w \in Workers, NEW p \in Partners, Authenticate(w, p) PROVE HubTypeOK'
  <2>1. [partner |-> p, total |-> total[p]] \in HubRequests
    BY DEF HubRequests
  <2>2. QED
    BY <1>2, <2>1 DEF Authenticate
<1>3. ASSUME NEW w \in Workers, NEW p \in Partners, Evict(w, p) PROVE HubTypeOK'
  BY <1>3 DEF Evict
<1>4. ASSUME NEW w \in Workers, request[w] # Free, Counted(w)
      PROVE  recent' \in [Workers -> [Partners -> Nat]]
  BY <1>4, ServedType DEF Counted
<1>5. ASSUME NEW w \in Workers, Release(w)
      PROVE  request' \in [Workers -> HubRequests \cup {Free}]
  BY <1>5 DEF Release
<1>6. ASSUME NEW w \in Workers, NEW H \in SUBSET Hashes, Submit(w, H) PROVE HubTypeOK'
  <2>1. request[w] # Free /\ Counted(w) /\ Release(w) /\ UNCHANGED <<registered, raised, shared>>
    BY <1>6 DEF Submit
  <2>2. Partner(w) \in Partners /\ request[w].total \in Nat /\ Cardinality(H) \in Nat
    BY <2>1, ServedType, BatchSize
  <2>3. total' \in [Partners -> Nat] /\ rows' \in [Partners -> Nat]
    BY <1>6, <2>2 DEF Submit, NewTotal
  <2>4. reports' \subseteq Partners \X Hashes
    BY <1>6, <2>2 DEF Submit
  <2>5. QED
    BY <1>4, <1>5, <2>1, <2>3, <2>4
<1>7. ASSUME NEW w \in Workers, Refuse(w) PROVE HubTypeOK'
  <2>1. /\ request[w] # Free /\ Release(w) /\ (Counted(w) \/ UNCHANGED recent)
        /\ UNCHANGED <<registered, total, rows, reports, raised, shared>>
    BY <1>7 DEF Refuse
  <2>2. QED
    BY <1>4, <1>5, <2>1
<1>8. ASSUME NEW w \in Workers, Heartbeat(w) PROVE HubTypeOK'
  BY <1>5, <1>8 DEF Heartbeat
<1>9. ASSUME NEW h \in Hashes, Correlate(h) PROVE HubTypeOK'
  <2>1. PICK S \in SUBSET Reporting(h) : raised' = raised \cup {[hash |-> h, sources |-> S]}
    BY <1>9 DEF Correlate
  <2>2. S \subseteq Partners
    BY DEF Reporting
  <2>3. QED
    BY <1>9, <2>1, <2>2 DEF Correlate
<1>10. CASE UNCHANGED hubVars
  BY <1>10 DEF hubVars
<1>11. QED
  BY <1>1, <1>2, <1>3, <1>6, <1>7, <1>8, <1>9, <1>10 DEF HubNext

\* The hub's rows and its processes' memory keep their types.
THEOREM HubTypeCorrect == HubSpec => []HubTypeOK
<1>1. QED
  BY HubTypeInit, HubTypeStep, PTL DEF HubSpec

-----------------------------------------------------------------------------
(* FederationHub: the totals.                                              *)

\* Of a partner without two requests at once: the request in hand has read the
\* total there is, and no other request is in hand.
RequestIsCurrent == \A w \in Workers : request[w] # Free /\ Partner(w) \notin shared =>
    /\ request[w].total = total[Partner(w)]
    /\ \A v \in Workers : request[v] # Free /\ Partner(v) = Partner(w) => v = w

HubInv == HubTypeOK /\ RequestIsCurrent /\ TotalIsExact

LEMMA HubInvStep == HubInv /\ [HubNext]_hubVars => HubInv'
<1> SUFFICES ASSUME HubInv, [HubNext]_hubVars PROVE HubInv'
  OBVIOUS
<1>0. HubTypeOK /\ HubTypeOK' /\ RequestIsCurrent /\ TotalIsExact
  BY HubTypeStep DEF HubInv
<1> USE DEF HubTypeOK
<1>1. ASSUME UNCHANGED <<total, rows, request, shared>> PROVE HubInv'
  BY <1>0, <1>1 DEF HubInv, RequestIsCurrent, TotalIsExact, Partner
<1>2. ASSUME NEW w \in Workers, Release(w), UNCHANGED <<total, rows, shared>> PROVE HubInv'
  <2>1. ASSUME NEW v \in Workers, request'[v] # Free PROVE request'[v] = request[v]
    BY <1>0, <1>2, <2>1 DEF Release
  <2>2. QED
    BY <1>0, <1>2, <2>1 DEF HubInv, RequestIsCurrent, TotalIsExact, Partner
<1>3. ASSUME NEW w \in Workers, NEW p \in Partners, Authenticate(w, p) PROVE HubInv'
  <2>1. /\ request[w] = Free /\ UNCHANGED <<total, rows>>
        /\ shared' = IF InHand(p) = {} THEN shared ELSE shared \cup {p}
    BY <1>3 DEF Authenticate
  <2>2. ASSUME NEW v \in Workers
        PROVE  request'[v] = IF v = w THEN [partner |-> p, total |-> total[p]] ELSE request[v]
    BY <1>0, <1>3 DEF Authenticate
  <2>3. p \notin shared' => \A v \in Workers : request[v] # Free => Partner(v) # p
    BY <2>1 DEF InHand, Partner
  <2>4. RequestIsCurrent'
    BY <1>0, <2>1, <2>2, <2>3 DEF RequestIsCurrent, Partner
  <2>5. TotalIsExact'
    BY <1>0, <2>1 DEF TotalIsExact
  <2>6. QED
    BY <1>0, <2>4, <2>5 DEF HubInv
<1>4. ASSUME NEW w \in Workers, NEW H \in SUBSET Hashes, Submit(w, H) PROVE HubInv'
  <2> DEFINE p == Partner(w)
  <2>1. request[w] # Free /\ Release(w) /\ UNCHANGED shared
    BY <1>4 DEF Submit
  <2>2. p \in Partners /\ request[w].total \in Nat /\ Cardinality(H) \in Nat
    BY <1>0, <2>1, ServedType, BatchSize
  <2>3. ASSUME NEW q \in Partners
        PROVE  /\ rows'[q] = IF q = p THEN rows[q] + Cardinality(H) ELSE rows[q]
               /\ total'[q] = IF q = p THEN request[w].total + Cardinality(H) ELSE total[q]
    BY <1>0, <1>4, <2>2 DEF Submit, NewTotal
  <2>4. ASSUME NEW v \in Workers, request'[v] # Free PROVE request'[v] = request[v] /\ v # w
    BY <1>0, <2>1, <2>4 DEF Release
  <2>5. TotalIsExact'
    BY <1>0, <2>1, <2>2, <2>3 DEF TotalIsExact, RequestIsCurrent
  <2>6. RequestIsCurrent'
    <3> SUFFICES ASSUME NEW v \in Workers, request'[v] # Free, Partner(v)' \notin shared
                 PROVE  /\ request'[v].total = total'[Partner(v)']
                        /\ \A u \in Workers : request'[u] # Free /\ Partner(u)' = Partner(v)' => u = v
      BY <2>1 DEF RequestIsCurrent
    <3>1. request'[v] = request[v] /\ Partner(v)' = Partner(v) /\ v # w
      BY <2>4 DEF Partner
    <3>2. Partner(v) \in Partners /\ Partner(v) # p
      BY <1>0, <2>1, <3>1, ServedType DEF RequestIsCurrent
    <3>3. QED
      BY <1>0, <2>3, <2>4, <3>1, <3>2 DEF RequestIsCurrent, Partner
  <2>7. QED
    BY <1>0, <2>5, <2>6 DEF HubInv
<1>5. ASSUME NEW w \in Workers, Refuse(w) \/ Heartbeat(w) PROVE HubInv'
  BY <1>2, <1>5 DEF Refuse, Heartbeat
<1>6. ASSUME NEW p \in Partners, Register(p) PROVE HubInv'
  BY <1>1, <1>6 DEF Register
<1>7. ASSUME NEW w \in Workers, NEW p \in Partners, Evict(w, p) PROVE HubInv'
  BY <1>1, <1>7 DEF Evict
<1>8. ASSUME NEW h \in Hashes, Correlate(h) PROVE HubInv'
  BY <1>1, <1>8 DEF Correlate
<1>9. CASE UNCHANGED hubVars
  BY <1>1, <1>9 DEF hubVars
<1>10. QED
  BY <1>3, <1>4, <1>5, <1>6, <1>7, <1>8, <1>9 DEF HubNext

\* A partner's total is the number of its rows, whatever is refused, evicted or
\* repeated, as long as no two of its requests were in hand at once.
THEOREM TotalIsExactAlways == HubSpec => []TotalIsExact
<1>1. HubInit => HubInv
  BY HubTypeInit DEF HubInit, HubInv, RequestIsCurrent, TotalIsExact
<1>2. HubInv => TotalIsExact
  BY DEF HubInv
<1>3. QED
  BY <1>1, <1>2, HubInvStep, PTL DEF HubSpec

-----------------------------------------------------------------------------
(* WarningExchange: types.                                                 *)

InboxRow == [busy : BOOLEAN, inbox : Copies]
AckRow == [phase : {"off", "posted", "read"}, warning : Warnings \cup {0}, file : Copies]

\* An acknowledgement under way is of a warning.
AckHasWarning == ack.phase # "off" => ack.warning \in Warnings

LEMMA InboxIsCopy == ASSUME InboxTypeOK PROVE Inbox \in Copies /\ Nothing \in Copies
BY DEF Inbox, Copies, Nothing

LEMMA InboxTypeInit == InboxInit => InboxTypeOK /\ AckHasWarning
BY InboxBoundsAssumption
DEF InboxInit, InboxTypeOK, AckHasWarning, Copies, Nothing, NoAck, NoInbox, Warnings

\* The records that a step writes.
LEMMA InboxRecords ==
    ASSUME InboxTypeOK
    PROVE  /\ NoInbox \in InboxRow /\ NoAck \in AckRow
           /\ \A c \in Copies : [busy |-> TRUE, inbox |-> c] \in InboxRow
           /\ \A w \in Warnings : [NoAck EXCEPT !.phase = "posted", !.warning = w] \in AckRow
           /\ [ack EXCEPT !.phase = "read", !.file = cache] \in AckRow
           /\ Marked(ack.file, ack.warning) \in Copies
<1> USE DEF InboxTypeOK
<1>1. Nothing \in Copies
  BY InboxIsCopy
<1>2. NoInbox \in InboxRow
  BY <1>1 DEF NoInbox, InboxRow
<1>3. \A c \in Copies : [busy |-> TRUE, inbox |-> c] \in InboxRow
  BY DEF InboxRow
<1>4. NoAck \in AckRow /\ \A w \in Warnings : [NoAck EXCEPT !.phase = "posted", !.warning = w] \in AckRow
  BY <1>1 DEF NoAck, AckRow
<1>5. [ack EXCEPT !.phase = "read", !.file = cache] \in AckRow
  BY DEF AckRow
<1>6. Marked(ack.file, ack.warning) \in Copies
  BY DEF Marked, Copies
<1>7. QED
  BY <1>2, <1>3, <1>4, <1>5, <1>6

LEMMA InboxTypeStep ==
    InboxTypeOK /\ AckHasWarning /\ [InboxNext]_inboxVars => InboxTypeOK' /\ AckHasWarning'
<1> SUFFICES ASSUME InboxTypeOK, AckHasWarning, [InboxNext]_inboxVars
             PROVE  InboxTypeOK' /\ AckHasWarning'
  OBVIOUS
<1>0. /\ sent \in 0 .. MaxWarnings /\ acks \subseteq Warnings /\ cache \in Copies
      /\ fetched \in [Syncs -> InboxRow] /\ ack \in AckRow
      /\ noted \subseteq Warnings /\ mixed \subseteq Warnings
      /\ acksMade \in 0 .. MaxAcks /\ faults \in 0 .. MaxFaults
      /\ ack.phase # "off" => ack.warning \in Warnings
  BY DEF InboxTypeOK, InboxRow, AckRow, AckHasWarning
<1>1. ASSUME sent' \in 0 .. MaxWarnings, acks' \subseteq Warnings, cache' \in Copies,
             fetched' \in [Syncs -> InboxRow], ack' \in AckRow,
             noted' \subseteq Warnings, mixed' \subseteq Warnings,
             acksMade' \in 0 .. MaxAcks, faults' \in 0 .. MaxFaults,
             ack'.phase # "off" => ack'.warning \in Warnings
      PROVE  InboxTypeOK' /\ AckHasWarning'
  BY <1>1 DEF InboxTypeOK, InboxRow, AckRow, AckHasWarning
<1> USE InboxBoundsAssumption
<1>2. ASSUME Create PROVE InboxTypeOK' /\ AckHasWarning'
  BY <1>0, <1>1, <1>2 DEF Create
<1>3. ASSUME NEW s \in Syncs, FetchInbox(s) PROVE InboxTypeOK' /\ AckHasWarning'
  <2>1. PICK inbox \in {Inbox, Nothing} :
           fetched' = [fetched EXCEPT ![s] = [busy |-> TRUE, inbox |-> inbox]]
    BY <1>3 DEF FetchInbox
  <2>2. fetched' \in [Syncs -> InboxRow]
    BY <1>0, <2>1, InboxIsCopy, InboxRecords
  <2>3. mixed' \subseteq Warnings
    BY <1>0, <1>3 DEF FetchInbox
  <2>4. QED
    BY <1>0, <1>1, <1>3, <2>2, <2>3 DEF FetchInbox
<1>4. ASSUME NEW s \in Syncs, SaveInbox(s) PROVE InboxTypeOK' /\ AckHasWarning'
  <2>1. cache' \in Copies
    BY <1>0, <1>4 DEF SaveInbox, Replaced, InboxRow
  <2>2. fetched' \in [Syncs -> InboxRow]
    BY <1>0, <1>4, InboxRecords DEF SaveInbox
  <2>3. QED
    BY <1>0, <1>1, <1>4, <2>1, <2>2 DEF SaveInbox
<1>5. ASSUME NEW w \in Warnings, PostAck(w) PROVE InboxTypeOK' /\ AckHasWarning'
  <2>1. ack' \in AckRow /\ (ack'.phase # "off" => ack'.warning \in Warnings)
    BY <1>0, <1>5, InboxRecords DEF PostAck, NoAck
  <2>2. mixed' \subseteq Warnings /\ faults' \in 0 .. MaxFaults
    BY <1>0, <1>5 DEF PostAck
  <2>3. QED
    BY <1>0, <1>1, <1>5, <2>1, <2>2 DEF PostAck
<1>6. ASSUME ReadCache PROVE InboxTypeOK' /\ AckHasWarning'
  <2>1. ack' \in AckRow /\ ack'.warning \in Warnings
    BY <1>0, <1>6, InboxRecords DEF ReadCache, AckRow
  <2>2. QED
    BY <1>0, <1>1, <1>6, <2>1 DEF ReadCache
<1>7. ASSUME WriteCache PROVE InboxTypeOK' /\ AckHasWarning'
  <2>1. ack' \in AckRow /\ ack'.phase = "off" /\ cache' \in Copies
    BY <1>7, InboxRecords DEF WriteCache, NoAck
  <2>2. noted' \subseteq Warnings
    BY <1>0, <1>7 DEF WriteCache
  <2>3. QED
    BY <1>0, <1>1, <1>7, <2>1, <2>2 DEF WriteCache
<1>8. ASSUME Stop PROVE InboxTypeOK' /\ AckHasWarning'
  <2>1. ack' \in AckRow /\ ack'.phase = "off" /\ fetched' \in [Syncs -> InboxRow]
    BY <1>8, InboxRecords DEF Stop, NoAck
  <2>2. cache' \in Copies /\ faults' \in 0 .. MaxFaults
    BY <1>0, <1>8, InboxIsCopy DEF Stop
  <2>3. QED
    BY <1>0, <1>1, <1>8, <2>1, <2>2 DEF Stop
<1>9. CASE UNCHANGED inboxVars
  BY <1>0, <1>1, <1>9 DEF inboxVars
<1>10. QED
  BY <1>2, <1>3, <1>4, <1>5, <1>6, <1>7, <1>8, <1>9 DEF InboxNext, SyncOnce, Acknowledge

\* The hub's warnings and the agency's file keep their types.
THEOREM InboxTypeCorrect == InboxSpec => []InboxTypeOK
<1>1. QED
  BY InboxTypeInit, InboxTypeStep, PTL DEF InboxSpec

-----------------------------------------------------------------------------
(* WarningExchange: acknowledgements.                                      *)

Remembered == noted \ mixed

\* No copy in hand or in the file forgets one; while a warning is acknowledged
\* without a sync beside it, no sync has an inbox in hand.
AckInv == /\ InboxTypeOK /\ AckHasWarning
          /\ noted \subseteq acks
          /\ ack.phase # "off" => ack.warning \in acks
          /\ \A s \in Syncs : fetched[s].busy =>
                \A w \in Remembered : fetched[s].inbox[w] # "open"
          /\ ack.phase = "read" => \A w \in Remembered : ack.file[w] # "open"
          /\ ack.phase # "off" /\ ack.warning \notin mixed => ~Syncing
          /\ AckRemembered

LEMMA AckInvStep == AckInv /\ [InboxNext]_inboxVars => AckInv'
<1> SUFFICES ASSUME AckInv, [InboxNext]_inboxVars PROVE AckInv'
  OBVIOUS
<1>0. InboxTypeOK /\ AckHasWarning /\ InboxTypeOK' /\ AckHasWarning'
  BY InboxTypeStep DEF AckInv
<1> USE DEF AckInv, Remembered, AckRemembered, Syncing
<1>1. ASSUME Create PROVE AckInv'
  BY <1>0, <1>1 DEF Create
<1>2. ASSUME NEW s \in Syncs, FetchInbox(s) PROVE AckInv'
  <2>1. PICK inbox \in {Inbox, Nothing} :
           fetched' = [fetched EXCEPT ![s] = [busy |-> TRUE, inbox |-> inbox]]
    BY <1>2 DEF FetchInbox
  <2>2. ASSUME NEW w \in noted PROVE inbox[w] # "open"
    BY <1>0, <2>1 DEF Inbox, Nothing, InboxTypeOK
  <2>3. ASSUME NEW t \in Syncs, t # s PROVE fetched'[t] = fetched[t]
    BY <1>0, <2>1, <2>3 DEF InboxTypeOK
  <2>4. fetched'[s].inbox = inbox
    BY <1>0, <2>1 DEF InboxTypeOK
  <2>5. /\ UNCHANGED <<acks, cache, ack, noted>> /\ mixed \subseteq mixed'
        /\ ack.phase # "off" => ack.warning \in mixed'
    BY <1>2 DEF FetchInbox
  <2>6. QED
    BY <1>0, <2>2, <2>3, <2>4, <2>5
<1>3. ASSUME NEW s \in Syncs, SaveInbox(s) PROVE AckInv'
  <2>1. ASSUME NEW t \in Syncs
        PROVE  IF t = s THEN ~fetched'[t].busy ELSE fetched'[t] = fetched[t]
    BY <1>0, <1>3 DEF SaveInbox, InboxTypeOK, NoInbox
  <2>2. UNCHANGED <<acks, ack, noted, mixed>> /\ cache' = fetched[s].inbox /\ fetched[s].busy
    BY <1>3 DEF SaveInbox, Replaced
  <2>3. QED
    BY <1>0, <2>1, <2>2
<1>4. ASSUME NEW w \in Warnings, PostAck(w) PROVE AckInv'
  <2>1. /\ acks' = acks \cup {w} /\ ack.phase = "off" /\ mixed \subseteq mixed'
        /\ UNCHANGED <<cache, fetched, noted>>
    BY <1>4 DEF PostAck
  <2>2. \/ ack'.phase = "off"
        \/ /\ ack'.phase = "posted" /\ ack'.warning = w
           /\ w \notin mixed' => ~Syncing
    BY <1>4 DEF PostAck, NoAck
  <2>3. QED
    BY <1>0, <2>1, <2>2
<1>5. ASSUME ReadCache PROVE AckInv'
  <2>1. /\ ack'.phase = "read" /\ ack'.warning = ack.warning /\ ack'.file = cache
        /\ ack.phase = "posted"
    BY <1>0, <1>5 DEF ReadCache, InboxTypeOK
  <2>2. UNCHANGED <<acks, cache, fetched, noted, mixed>>
    BY <1>5 DEF ReadCache
  <2>3. QED
    BY <1>0, <2>1, <2>2
<1>6. ASSUME WriteCache PROVE AckInv'
  <2>1. /\ ack.phase = "read" /\ ack'.phase = "off" /\ UNCHANGED <<acks, fetched, mixed>>
        /\ noted' = noted \cup {ack.warning} /\ cache' = Marked(ack.file, ack.warning)
    BY <1>6 DEF WriteCache, NoAck
  <2>2. ASSUME NEW w \in noted' \ mixed PROVE cache'[w] # "open"
    <3>1. ack.file \in Copies /\ ack.warning \in Warnings /\ w \in Warnings
      BY <1>0, <2>1 DEF InboxTypeOK, AckHasWarning
    <3>2. QED
      BY <2>1, <3>1 DEF Marked, Copies
  <2>3. QED
    BY <1>0, <2>1, <2>2
<1>7. ASSUME Stop PROVE AckInv'
  <2>1. /\ ack'.phase = "off" /\ \A s \in Syncs : ~fetched'[s].busy
        /\ UNCHANGED <<acks, noted, mixed>> /\ cache' \in {cache, Nothing}
    BY <1>7 DEF Stop, NoAck, NoInbox
  <2>2. QED
    BY <1>0, <2>1 DEF Nothing, InboxTypeOK
<1>8. CASE UNCHANGED inboxVars
  BY <1>0, <1>8 DEF inboxVars
<1>9. QED
  BY <1>1, <1>2, <1>3, <1>4, <1>5, <1>6, <1>7, <1>8 DEF InboxNext, SyncOnce, Acknowledge

\* An acknowledgement noted without a sync beside it is never shown as open
\* again, through any later syncs, acknowledgements, lost answers and stops.
THEOREM AckRememberedAlways == InboxSpec => []AckRemembered
<1>1. InboxInit => AckInv
  BY InboxTypeInit DEF InboxInit, AckInv, Remembered, AckRemembered, NoAck, NoInbox, Syncing
<1>2. AckInv => AckRemembered
  BY DEF AckInv
<1>3. QED
  BY <1>1, <1>2, AckInvStep, PTL DEF InboxSpec

-----------------------------------------------------------------------------
(* EdgeAgent: types.                                                       *)

JobRow == [phase : Phases, at : Nat, results : SUBSET LocalEntities, read : [LocalEntities -> Nat]]

LEMMA EdgeRecords == EmptyIndex \in [LocalEntities -> Nat] /\ Off \in JobRow /\ Done \in JobRow
BY DEF EmptyIndex, Off, Done, JobRow, Phases

LEMMA EdgeTypeInit == EdgeInit => EdgeTypeOK
<1> SUFFICES ASSUME EdgeInit PROVE EdgeTypeOK
  OBVIOUS
<1>1. job \in [Threads -> JobRow] /\ index \in [LocalEntities -> Nat]
  BY EdgeRecords DEF EdgeInit
<1>2. /\ isRunning \in BOOLEAN /\ artifact \in BOOLEAN
      /\ overlapped \in BOOLEAN /\ torn \in BOOLEAN
  BY Zenon DEF EdgeInit
<1>3. QED
  BY <1>1, <1>2, EdgeBoundsAssumption DEF EdgeInit, EdgeTypeOK, JobRow

\* A run that begins or has scored.
LEMMA JobUpdates ==
    ASSUME job \in [Threads -> JobRow], NEW t \in Threads,
           NEW n \in Nat, NEW R \in SUBSET LocalEntities
    PROVE  /\ [job EXCEPT ![t].phase = "begun", ![t].at = n] \in [Threads -> JobRow]
           /\ [job EXCEPT ![t].phase = "scored", ![t].results = R] \in [Threads -> JobRow]
<1>1. [job EXCEPT ![t].phase = "begun"] \in [Threads -> JobRow]
  BY DEF JobRow, Phases
<1>2. [job EXCEPT ![t].phase = "scored"] \in [Threads -> JobRow]
  BY DEF JobRow, Phases
<1>3. ASSUME NEW j \in [Threads -> JobRow]
      PROVE  /\ [j EXCEPT ![t].at = n] \in [Threads -> JobRow]
             /\ [j EXCEPT ![t].results = R] \in [Threads -> JobRow]
  BY DEF JobRow
<1>4. [[job EXCEPT ![t].phase = "begun"] EXCEPT ![t].at = n] \in [Threads -> JobRow]
  BY <1>1, <1>3
<1>5. [[job EXCEPT ![t].phase = "scored"] EXCEPT ![t].results = R] \in [Threads -> JobRow]
  BY <1>2, <1>3
<1>6. QED
  BY <1>4, <1>5

\* The index that a run writes back.
LEMMA IndexedType ==
    ASSUME EdgeTypeOK, NEW t \in Threads
    PROVE  Indexed(t) \in [LocalEntities -> Nat]
<1>1. job[t].at \in Nat /\ job[t].read \in [LocalEntities -> Nat]
  BY DEF EdgeTypeOK
<1>2. QED
  BY <1>1 DEF Indexed

LEMMA EdgeTypeStep == EdgeTypeOK /\ [EdgeNext]_edgeVars => EdgeTypeOK'
<1> SUFFICES ASSUME EdgeTypeOK, [EdgeNext]_edgeVars PROVE EdgeTypeOK'
  OBVIOUS
<1>0. /\ runs \in 0 .. MaxRuns /\ isRunning \in BOOLEAN
      /\ runCount \in Nat /\ savedCount \in Nat /\ job \in [Threads -> JobRow]
      /\ index \in [LocalEntities -> Nat] /\ artifact \in BOOLEAN
      /\ published \in [LocalEntities -> Nat] /\ age \in Nat /\ skipped \in Nat
      /\ overlapped \in BOOLEAN /\ torn \in BOOLEAN /\ crashes \in 0 .. MaxCrashes
  BY DEF EdgeTypeOK, JobRow
<1>1. ASSUME runs' \in 0 .. MaxRuns, isRunning' \in BOOLEAN,
             runCount' \in Nat, savedCount' \in Nat, job' \in [Threads -> JobRow],
             index' \in [LocalEntities -> Nat], artifact' \in BOOLEAN,
             published' \in [LocalEntities -> Nat], age' \in Nat, skipped' \in Nat,
             overlapped' \in BOOLEAN, torn' \in BOOLEAN, crashes' \in 0 .. MaxCrashes
      PROVE  EdgeTypeOK'
  BY <1>1 DEF EdgeTypeOK, JobRow
<1> USE EdgeBoundsAssumption
<1>2. ASSUME NEW t \in Threads, Ask(t) PROVE EdgeTypeOK'
  <2>1. job' \in [Threads -> JobRow]
    BY <1>0, <1>2, ZenonT(40) DEF Ask, JobRow, Phases
  <2>2. QED
    BY <1>0, <1>1, <1>2, <2>1 DEF Ask
<1>3. ASSUME NEW t \in Threads, Begin(t) PROVE EdgeTypeOK'
  <2>1. runs' \in 0 .. MaxRuns /\ runs + 1 \in Nat
    BY <1>0, <1>3 DEF Begin
  <2>2. job' \in [Threads -> JobRow]
    BY <1>0, <1>3, <2>1, JobUpdates DEF Begin
  <2>3. isRunning' \in BOOLEAN /\ overlapped' \in BOOLEAN
    BY <1>3, Zenon DEF Begin
  <2>4. QED
    BY <1>0, <1>1, <1>3, <2>1, <2>2, <2>3 DEF Begin
<1>4. ASSUME NEW t \in Threads, Score(t) PROVE EdgeTypeOK'
  <2>1. PICK R \in SUBSET LocalEntities, retrain \in BOOLEAN :
           /\ job' = [job EXCEPT ![t].phase = "scored", ![t].results = R]
           /\ artifact' = (artifact \/ retrain)
           /\ age' = IF retrain THEN 0 ELSE age
           /\ skipped' = CASE retrain -> 0
                           [] R = {} /\ OnSchedule -> skipped + 1
                           [] OTHER -> skipped
    BY <1>4 DEF Score
  <2>2. job' \in [Threads -> JobRow]
    BY <1>0, <2>1, JobUpdates
  <2>3. artifact' \in BOOLEAN
    BY <2>1, Zenon
  <2>4. age' \in Nat /\ skipped' \in Nat
    BY <1>0, <2>1
  <2>5. QED
    BY <1>0, <1>1, <1>4, <2>2, <2>3, <2>4 DEF Score
<1>5. ASSUME NEW t \in Threads, ReadIndex(t) PROVE EdgeTypeOK'
  <2>1. job' \in [Threads -> JobRow]
    BY <1>0, <1>5, ZenonT(40) DEF ReadIndex, JobRow, Phases
  <2>2. QED
    BY <1>0, <1>1, <1>5, <2>1 DEF ReadIndex
<1>6. ASSUME NEW t \in Threads, WriteIndex(t) PROVE EdgeTypeOK'
  <2>1. job' \in [Threads -> JobRow]
    BY <1>0, <1>6, EdgeRecords, ZenonT(40) DEF WriteIndex, JobRow, Phases
  <2>2. index' \in [LocalEntities -> Nat]
    BY <1>6, IndexedType DEF WriteIndex
  <2>3. QED
    BY <1>0, <1>1, <1>6, <2>1, <2>2 DEF WriteIndex
<1>7. ASSUME NEW t \in Threads, Publish(t) PROVE EdgeTypeOK'
  <2>1. job' \in [Threads -> JobRow]
    BY <1>0, <1>7, EdgeRecords DEF Publish
  <2>2. published' \in [LocalEntities -> Nat]
    BY <1>0, <1>7 DEF Publish, JobRow
  <2>3. runCount' \in Nat /\ age' \in Nat
    BY <1>0, <1>7 DEF Publish, Count
  <2>4. QED
    BY <1>0, <1>1, <1>7, <2>1, <2>2, <2>3 DEF Publish
<1>8. ASSUME NEW t \in Threads, Fail(t) PROVE EdgeTypeOK'
  <2>1. job' \in [Threads -> JobRow]
    BY <1>0, <1>8, EdgeRecords DEF Fail
  <2>2. QED
    BY <1>0, <1>1, <1>8, <2>1 DEF Fail
<1>9. ASSUME NEW t \in Threads, Finish(t) PROVE EdgeTypeOK'
  <2>1. job' \in [Threads -> JobRow]
    BY <1>0, <1>9, EdgeRecords DEF Finish
  <2>2. isRunning' \in BOOLEAN
    BY <1>9, Zenon DEF Finish
  <2>3. QED
    BY <1>0, <1>1, <1>9, <2>1, <2>2 DEF Finish
<1>10. ASSUME Crash PROVE EdgeTypeOK'
  <2>1. job' \in [Threads -> JobRow]
    BY <1>0, <1>10, EdgeRecords DEF Crash
  <2>2. isRunning' \in BOOLEAN /\ torn' \in BOOLEAN /\ artifact' \in BOOLEAN
    BY <1>0, <1>10, Zenon DEF Crash
  <2>3. index' \in [LocalEntities -> Nat]
    BY <1>0, <1>10, EdgeRecords DEF Crash
  <2>4. runCount' \in Nat /\ savedCount' \in Nat /\ crashes' \in 0 .. MaxCrashes
    BY <1>0, <1>10 DEF Crash
  <2>5. QED
    BY <1>0, <1>1, <1>10, <2>1, <2>2, <2>3, <2>4 DEF Crash
<1>11. CASE UNCHANGED edgeVars
  BY <1>0, <1>1, <1>11 DEF edgeVars
<1>12. QED
  BY <1>2, <1>3, <1>4, <1>5, <1>6, <1>7, <1>8, <1>9, <1>10, <1>11 DEF EdgeNext

\* The agent's state, its files and its runs keep their types.
THEOREM EdgeTypeCorrect == EdgeSpec => []EdgeTypeOK
<1>1. QED
  BY EdgeTypeInit, EdgeTypeStep, PTL DEF EdgeSpec

-----------------------------------------------------------------------------
(* EdgeAgent: the index of what was published.                             *)

\* What was published within the retention has an entry as recent.
EntryIsRecent == \A e \in LocalEntities :
    published[e] # 0 /\ published[e] + Retention >= runs => index[e] >= published[e]

\* While no two runs overlap, the one under way is the last that began, works on
\* the index as it is, and has written its own results when it publishes.
RunIsAlone ==
    /\ \A t, u \in UnderWay : t = u
    /\ \A t \in UnderWay :
          /\ job[t].phase # "done" => job[t].at = runs /\ runs > 0
          /\ job[t].phase = "read" => job[t].read = index
          /\ job[t].phase = "indexed" => \A e \in job[t].results : index[e] = runs

IndexInv == /\ EdgeTypeOK
            /\ ~overlapped => RunIsAlone /\ \A e \in LocalEntities : published[e] <= runs
            /\ ~overlapped /\ ~torn => EntryIsRecent

\* A step of one run under way that leaves the others and the history alone.
LEMMA RunStep ==
    ASSUME IndexInv, NEW t \in Threads, t \in UnderWay, NEW j \in JobRow,
           job' = [job EXCEPT ![t] = j], EdgeTypeOK',
           UNCHANGED <<runs, published, index, overlapped, torn>>,
           j.phase \notin {"off", "asked"},
           ~overlapped => /\ j.phase # "done" => j.at = runs /\ runs > 0
                          /\ j.phase = "read" => j.read = index
                          /\ j.phase = "indexed" => \A e \in j.results : index[e] = runs
    PROVE  IndexInv'
<1>1. ASSUME NEW u \in Threads PROVE job'[u] = IF u = t THEN j ELSE job[u]
  BY DEF IndexInv, EdgeTypeOK
<1>2. UnderWay' = UnderWay
  BY <1>1 DEF UnderWay
<1>3. ~overlapped => RunIsAlone'
  BY <1>1, <1>2 DEF IndexInv, RunIsAlone, UnderWay
<1>4. QED
  BY <1>3 DEF IndexInv, EntryIsRecent

LEMMA IndexInvStep == IndexInv /\ [EdgeNext]_edgeVars => IndexInv'
<1> SUFFICES ASSUME IndexInv, [EdgeNext]_edgeVars PROVE IndexInv'
  OBVIOUS
<1>0. /\ EdgeTypeOK' /\ job \in [Threads -> JobRow] /\ runs \in Nat
      /\ index \in [LocalEntities -> Nat] /\ published \in [LocalEntities -> Nat]
      /\ ~overlapped => RunIsAlone /\ \A e \in LocalEntities : published[e] <= runs
      /\ ~overlapped /\ ~torn => EntryIsRecent
  BY EdgeTypeStep, EdgeBoundsAssumption DEF IndexInv, EdgeTypeOK, JobRow
<1>1. ASSUME NEW t \in Threads, Ask(t) PROVE IndexInv'
  <2>1. ASSUME NEW u \in Threads
        PROVE  IF u = t THEN job'[u].phase = "asked" /\ job[u].phase = "off" ELSE job'[u] = job[u]
    BY <1>0, <1>1 DEF Ask, JobRow
  <2>2. UnderWay' = UnderWay /\ t \notin UnderWay
    BY <1>1, <2>1 DEF UnderWay, Ask
  <2>3. UNCHANGED <<runs, published, index, overlapped, torn>>
    BY <1>1 DEF Ask
  <2>4. ~overlapped => RunIsAlone'
    BY <1>0, <2>1, <2>2, <2>3 DEF RunIsAlone, UnderWay
  <2>5. QED
    BY <1>0, <2>3, <2>4 DEF IndexInv, EntryIsRecent
<1>2. ASSUME NEW t \in Threads, Begin(t) PROVE IndexInv'
  <2>1. /\ runs' = runs + 1 /\ UNCHANGED <<published, index, torn>>
        /\ ~overlapped' => ~overlapped /\ UnderWay = {}
    BY <1>2 DEF Begin
  <2>2. ASSUME NEW u \in Threads
        PROVE  IF u = t THEN job'[u].phase = "begun" /\ job'[u].at = runs + 1 ELSE job'[u] = job[u]
    BY <1>0, <1>2 DEF Begin, JobRow
  <2>3. ~overlapped' => UnderWay' = {t}
    BY <2>1, <2>2 DEF UnderWay
  <2>4. ~overlapped' => RunIsAlone'
    BY <1>0, <2>1, <2>2, <2>3 DEF RunIsAlone
  <2>5. ~overlapped' /\ ~torn' => EntryIsRecent'
    BY <1>0, <2>1, EdgeBoundsAssumption DEF EntryIsRecent
  <2>6. QED
    BY <1>0, <2>1, <2>4, <2>5 DEF IndexInv
<1>3. ASSUME NEW t \in Threads, Score(t) PROVE IndexInv'
  <2>1. PICK R \in SUBSET LocalEntities :
           job' = [job EXCEPT ![t].phase = "scored", ![t].results = R]
    BY <1>3 DEF Score
  <2> DEFINE j == [job[t] EXCEPT !.phase = "scored", !.results = R]
  <2>2. /\ j \in JobRow /\ j.phase = "scored" /\ j.at = job[t].at
        /\ job' = [job EXCEPT ![t] = j]
    BY <1>0, <2>1 DEF JobRow, Phases
  <2>3. t \in UnderWay /\ job[t].phase = "begun"
        /\ UNCHANGED <<runs, published, index, overlapped, torn>>
    BY <1>3 DEF Score, UnderWay
  <2> HIDE DEF j
  <2>4. QED
    BY <1>0, <2>2, <2>3, RunStep DEF RunIsAlone
<1>4. ASSUME NEW t \in Threads, ReadIndex(t) PROVE IndexInv'
  <2> DEFINE j == [job[t] EXCEPT !.phase = "read", !.read = index]
  <2>1. /\ j \in JobRow /\ j.phase = "read" /\ j.at = job[t].at /\ j.read = index
        /\ job' = [job EXCEPT ![t] = j]
    BY <1>0, <1>4 DEF ReadIndex, JobRow, Phases
  <2>2. t \in UnderWay /\ job[t].phase = "scored"
        /\ UNCHANGED <<runs, published, index, overlapped, torn>>
    BY <1>4 DEF ReadIndex, UnderWay
  <2> HIDE DEF j
  <2>3. QED
    BY <1>0, <2>1, <2>2, RunStep DEF RunIsAlone
<1>5. ASSUME NEW t \in Threads, WriteIndex(t) PROVE IndexInv'
  <2>1. /\ job[t].phase = "read" /\ index' = Indexed(t)
        /\ UNCHANGED <<runs, published, overlapped, torn>>
    BY <1>5 DEF WriteIndex
  <2>2. ASSUME NEW u \in Threads
        PROVE  IF u = t THEN /\ job'[u].phase = "indexed" /\ job'[u].at = job[u].at
                             /\ job'[u].results = job[u].results
               ELSE job'[u] = job[u]
    BY <1>0, <1>5 DEF WriteIndex, JobRow
  <2>3. t \in UnderWay /\ UnderWay' = UnderWay
    BY <2>1, <2>2 DEF UnderWay
  <2>4. ASSUME ~overlapped, NEW e \in LocalEntities
        PROVE  index'[e] = IF e \in job[t].results THEN runs
                           ELSE IF index[e] + Retention < runs THEN 0 ELSE index[e]
    <3>1. job[t].at = runs /\ job[t].read = index
      BY <1>0, <2>1, <2>3, <2>4 DEF RunIsAlone
    <3>2. QED
      BY <2>1, <3>1 DEF Indexed, Stale
  <2>5. ~overlapped' => RunIsAlone'
    <3> SUFFICES ASSUME ~overlapped PROVE RunIsAlone'
      BY <2>1
    <3>1. \A u \in UnderWay : u = t
      BY <1>0, <2>3 DEF RunIsAlone
    <3>2. job[t].results \subseteq LocalEntities
      BY <1>0 DEF JobRow
    <3>3. \A e \in job[t].results : index'[e] = runs
      BY <2>4, <3>2
    <3>4. job[t].at = runs /\ runs > 0
      BY <1>0, <2>1, <2>3 DEF RunIsAlone
    <3>5. QED
      BY <2>1, <2>2, <2>3, <3>1, <3>3, <3>4 DEF RunIsAlone
  <2>6. ~overlapped' /\ ~torn' => EntryIsRecent'
    <3> SUFFICES ASSUME ~overlapped, ~torn, NEW e \in LocalEntities,
                        published[e] # 0, published[e] + Retention >= runs
                 PROVE  index'[e] >= published[e]
      BY <2>1 DEF EntryIsRecent
    <3>1. /\ index[e] \in Nat /\ published[e] \in Nat /\ runs \in Nat /\ Retention \in Nat
          /\ published[e] <= runs /\ index[e] >= published[e]
      BY <1>0, EdgeBoundsAssumption DEF EntryIsRecent
    <3>2. QED
      BY <2>4, <3>1
  <2>7. QED
    BY <1>0, <2>1, <2>5, <2>6 DEF IndexInv
<1>6. ASSUME NEW t \in Threads, Publish(t) PROVE IndexInv'
  <2>1. /\ job[t].phase = "indexed" /\ job' = [job EXCEPT ![t] = Done]
        /\ UNCHANGED <<runs, index, overlapped, torn>>
    BY <1>6 DEF Publish
  <2>2. PICK H \in SUBSET job[t].results :
           published' = [e \in LocalEntities |-> IF e \in H THEN job[t].at ELSE published[e]]
    BY <1>6 DEF Publish
  <2>3. ASSUME NEW u \in Threads
        PROVE  job'[u] = IF u = t THEN Done ELSE job[u]
    BY <1>0, <2>1
  <2>4. t \in UnderWay /\ UnderWay' = UnderWay
    BY <2>1, <2>3 DEF UnderWay, Done, Off
  <2>5. ~overlapped' => RunIsAlone'
    BY <1>0, <2>1, <2>3, <2>4 DEF RunIsAlone, Done, Off
  <2>6. ~overlapped => job[t].at = runs /\ \A e \in job[t].results : index[e] = runs
    BY <1>0, <2>1, <2>4 DEF RunIsAlone
  <2>7. ~overlapped' /\ ~torn' => EntryIsRecent'
    BY <1>0, <2>1, <2>2, <2>6 DEF EntryIsRecent
  <2>8. ~overlapped' => \A e \in LocalEntities : published'[e] <= runs'
    BY <1>0, <2>1, <2>2, <2>6
  <2>9. QED
    BY <1>0, <2>5, <2>7, <2>8 DEF IndexInv
<1>7. ASSUME NEW t \in Threads, Fail(t) PROVE IndexInv'
  <2>1. t \in UnderWay /\ job' = [job EXCEPT ![t] = Done]
        /\ UNCHANGED <<runs, published, index, overlapped, torn>>
    BY <1>7 DEF Fail, UnderWay
  <2>2. Done \in JobRow /\ Done.phase = "done"
    BY EdgeRecords DEF Done, Off
  <2>3. QED
    BY <1>0, <2>1, <2>2, RunStep
<1>8. ASSUME NEW t \in Threads, Finish(t) PROVE IndexInv'
  <2>1. UNCHANGED <<runs, published, index, overlapped, torn>>
    BY <1>8 DEF Finish
  <2>2. ASSUME NEW u \in Threads
        PROVE  IF u = t THEN job'[u].phase = "off" ELSE job'[u] = job[u]
    BY <1>0, <1>8 DEF Finish, Off
  <2>3. UnderWay' = UnderWay \ {t}
    BY <2>2 DEF UnderWay
  <2>4. ~overlapped' => RunIsAlone'
    BY <1>0, <2>1, <2>2, <2>3 DEF RunIsAlone, UnderWay
  <2>5. QED
    BY <1>0, <2>1, <2>4 DEF IndexInv, EntryIsRecent
<1>9. ASSUME Crash PROVE IndexInv'
  <2>1. UnderWay' = {}
    BY <1>9 DEF Crash, UnderWay, Off
  <2>2. UNCHANGED <<runs, published, overlapped>> /\ (torn' = TRUE \/ UNCHANGED <<index, torn>>)
    BY <1>9 DEF Crash
  <2>3. QED
    BY <1>0, <2>1, <2>2 DEF IndexInv, RunIsAlone, EntryIsRecent
<1>10. CASE UNCHANGED edgeVars
  BY <1>0, <1>10 DEF edgeVars, IndexInv, RunIsAlone, UnderWay, EntryIsRecent
<1>11. QED
  BY <1>1, <1>2, <1>3, <1>4, <1>5, <1>6, <1>7, <1>8, <1>9, <1>10 DEF EdgeNext

\* What an agency published within the retention can be resolved to its own
\* identifiers, through failed runs and restarts, as long as runs did not overlap
\* and no crash tore the index.
THEOREM PublishedIsIndexedAlways == EdgeSpec => []PublishedIsIndexed
<1>1. EdgeInit => IndexInv
  BY EdgeTypeInit
  DEF EdgeInit, IndexInv, RunIsAlone, EntryIsRecent, UnderWay, Off, EmptyIndex
<1>2. IndexInv => PublishedIsIndexed
  BY DEF IndexInv, EntryIsRecent, PublishedIsIndexed, EdgeTypeOK
<1>3. QED
  BY <1>1, <1>2, IndexInvStep, PTL DEF EdgeSpec

-----------------------------------------------------------------------------
(* EdgeAgent: the age of the model.                                        *)

\* A number has one remainder.
LEMMA RemainderIsUnique ==
    ASSUME NEW p \in Nat, NEW q \in Nat, NEW r \in 0 .. RetrainEvery - 1, NEW s \in 0 .. RetrainEvery - 1,
           RetrainEvery * p + r = RetrainEvery * q + s
    PROVE  r = s
<1>1. ASSUME NEW a \in Nat, NEW b \in Nat, a < b PROVE RetrainEvery * b >= RetrainEvery * a + RetrainEvery
  <2>1. b - a - 1 \in Nat /\ b = a + 1 + (b - a - 1)
    BY <1>1
  <2>2. RetrainEvery * (b - a - 1) >= 0
    BY <2>1, EdgeBoundsAssumption
  <2>3. RetrainEvery * b = RetrainEvery * a + RetrainEvery + RetrainEvery * (b - a - 1)
    BY <2>1, EdgeBoundsAssumption
  <2>4. QED
    BY <2>2, <2>3, EdgeBoundsAssumption
<1>2. CASE p = q
  BY <1>2, EdgeBoundsAssumption
<1>3. CASE p < q
  <2>1. RetrainEvery * q >= RetrainEvery * p + RetrainEvery
    BY <1>1, <1>3
  <2>2. RetrainEvery * q \in Nat /\ RetrainEvery * p \in Nat
    BY EdgeBoundsAssumption
  <2>3. QED
    BY <2>1, <2>2, EdgeBoundsAssumption
<1>4. CASE q < p
  <2>1. RetrainEvery * p >= RetrainEvery * q + RetrainEvery
    BY <1>1, <1>4
  <2>2. RetrainEvery * q \in Nat /\ RetrainEvery * p \in Nat
    BY EdgeBoundsAssumption
  <2>3. QED
    BY <2>1, <2>2, EdgeBoundsAssumption
<1>5. QED
  BY <1>2, <1>3, <1>4

\* The remainder of the next number.
LEMMA NextRemainder ==
    ASSUME NEW n \in Nat
    PROVE  (n + 1) % RetrainEvery = IF n % RetrainEvery = RetrainEvery - 1 THEN 0 ELSE (n % RetrainEvery) + 1
<1>1. /\ n \div RetrainEvery \in Nat /\ n % RetrainEvery \in 0 .. RetrainEvery - 1
      /\ n = (RetrainEvery * (n \div RetrainEvery)) + (n % RetrainEvery)
  BY EdgeBoundsAssumption
<1>2. /\ (n + 1) \div RetrainEvery \in Nat /\ (n + 1) % RetrainEvery \in 0 .. RetrainEvery - 1
      /\ n + 1 = (RetrainEvery * ((n + 1) \div RetrainEvery)) + ((n + 1) % RetrainEvery)
  BY EdgeBoundsAssumption
<1> DEFINE q == n \div RetrainEvery
           r == n % RetrainEvery
           p == (n + 1) \div RetrainEvery
           s == (n + 1) % RetrainEvery
<1> HIDE DEF q, r, p, s
<1>3. /\ q \in Nat /\ r \in 0 .. RetrainEvery - 1 /\ n = RetrainEvery * q + r
      /\ p \in Nat /\ s \in 0 .. RetrainEvery - 1 /\ n + 1 = RetrainEvery * p + s
  BY <1>1, <1>2 DEF p, q, r, s
<1>4. CASE r = RetrainEvery - 1
  <2> DEFINE q1 == q + 1
             z == 0
  <2>1. /\ q1 \in Nat /\ z \in 0 .. RetrainEvery - 1
        /\ RetrainEvery * q1 = RetrainEvery * q + RetrainEvery
    BY <1>3, EdgeBoundsAssumption
  <2> HIDE DEF q1
  <2>2. RetrainEvery * p \in Nat /\ RetrainEvery * q1 \in Nat
    BY <1>3, <2>1, EdgeBoundsAssumption
  <2>3. RetrainEvery * q1 + z = RetrainEvery * p + s
    BY <1>3, <1>4, <2>1, <2>2, EdgeBoundsAssumption
  <2> HIDE DEF z
  <2>4. z = s
    BY <1>3, <2>1, <2>3, RemainderIsUnique, Zenon
  <2>5. QED
    BY <1>4, <2>4 DEF r, s, z
<1>5. CASE r # RetrainEvery - 1
  <2> DEFINE r1 == r + 1
  <2>1. r1 \in 0 .. RetrainEvery - 1
    BY <1>3, <1>5, EdgeBoundsAssumption
  <2>2. RetrainEvery * q + r1 = RetrainEvery * p + s
    BY <1>3, EdgeBoundsAssumption
  <2> HIDE DEF r1
  <2>3. r1 = s
    BY <1>3, <2>1, <2>2, RemainderIsUnique, Zenon
  <2>4. QED
    BY <1>5, <2>3 DEF r, s, r1
<1>6. QED
  BY <1>4, <1>5

\* Counted runs from run count n until training is due.
UntilDue(n) == IF n % RetrainEvery = 0 THEN 0 ELSE RetrainEvery - (n % RetrainEvery)

LEMMA UntilDueNext ==
    ASSUME NEW n \in Nat
    PROVE  /\ UntilDue(n) \in 0 .. RetrainEvery - 1
           /\ n % RetrainEvery = 0 <=> UntilDue(n) = 0
           /\ UntilDue(n + 1) = IF UntilDue(n) = 0 THEN RetrainEvery - 1
                              ELSE UntilDue(n) - 1
<1> DEFINE r == n % RetrainEvery
           s == (n + 1) % RetrainEvery
<1>1. r \in 0 .. RetrainEvery - 1 /\ RetrainEvery \in Nat \ {0}
  BY EdgeBoundsAssumption
<1>2. s = IF r = RetrainEvery - 1 THEN 0 ELSE r + 1
  BY NextRemainder, Zenon
<1>3. /\ UntilDue(n) = IF r = 0 THEN 0 ELSE RetrainEvery - r
      /\ UntilDue(n + 1) = IF s = 0 THEN 0 ELSE RetrainEvery - s
  BY Zenon DEF UntilDue
<1> HIDE DEF r, s
<1>4. /\ UntilDue(n) \in 0 .. RetrainEvery - 1
      /\ r = 0 <=> UntilDue(n) = 0
      /\ UntilDue(n + 1) = IF UntilDue(n) = 0 THEN RetrainEvery - 1
                         ELSE UntilDue(n) - 1
  BY <1>1, <1>2, <1>3
<1>5. QED
  BY <1>4 DEF r

AgeBound == RetrainEvery * (1 + skipped) + crashes

\* A run that has passed the training and will be counted when it publishes.
PastTraining == \E t \in Threads : job[t].phase \in {"scored", "read", "indexed"}

\* Even if every run until the next training is counted, the model is in time;
\* the run past the training is one of them. The state file is behind by the run
\* that is about to save it.
AgeInTime ==
    /\ \A t, u \in UnderWay : t = u
    /\ age + UntilDue(runCount) <= AgeBound
    /\ PastTraining => age + 1 + UntilDue(runCount + 1) <= AgeBound
    /\ savedCount = runCount \/ (InPhase("done") /\ savedCount + 1 = runCount)

AgeInv == EdgeTypeOK /\ (~overlapped => AgeInTime)

LEMMA AgeInvStep == AgeInv /\ [EdgeNext]_edgeVars => AgeInv'
<1> SUFFICES ASSUME AgeInv, [EdgeNext]_edgeVars PROVE AgeInv'
  OBVIOUS
<1>0. /\ EdgeTypeOK' /\ job \in [Threads -> JobRow]
      /\ ~overlapped => AgeInTime
      /\ age \in Nat /\ runCount \in Nat /\ savedCount \in Nat
      /\ skipped \in Nat /\ crashes \in Nat
  BY EdgeTypeStep, EdgeBoundsAssumption DEF AgeInv, EdgeTypeOK, JobRow
<1>a. /\ RetrainEvery \in Nat \ {0} /\ AgeBound \in Nat
      /\ UntilDue(runCount) \in 0 .. RetrainEvery - 1
      /\ UntilDue(runCount + 1) = IF UntilDue(runCount) = 0 THEN RetrainEvery - 1
                                 ELSE UntilDue(runCount) - 1
      /\ OnSchedule <=> UntilDue(runCount) = 0
  BY <1>0, UntilDueNext, EdgeBoundsAssumption DEF AgeBound, OnSchedule
<1>b. AgeInv' <=> (~overlapped' => AgeInTime')
  BY <1>0 DEF AgeInv
\* The run of thread t goes on or ends, and nothing is counted.
<1>c. ASSUME NEW t \in Threads, NEW p \in Phases, job[t].phase \in Phases \ {"off", "asked"},
             \A u \in Threads : job'[u].phase = IF u = t THEN p ELSE job[u].phase,
             p \in {"scored", "read", "indexed"} => job[t].phase \in {"scored", "read", "indexed"},
             p # "asked", job[t].phase # "done",
             UNCHANGED <<runCount, savedCount, age, skipped, crashes, overlapped>>
      PROVE  AgeInv'
  <2> SUFFICES ASSUME ~overlapped PROVE AgeInTime'
    BY <1>b, <1>c
  <2>1. t \in UnderWay /\ UnderWay' \subseteq UnderWay /\ AgeInTime
    BY <1>0, <1>c DEF UnderWay
  <2>2. PastTraining' => PastTraining
    BY <1>c DEF PastTraining
  <2>3. savedCount = runCount
    BY <2>1, <1>c DEF AgeInTime, InPhase, UnderWay
  <2>4. QED
    BY <1>c, <2>1, <2>2, <2>3 DEF AgeInTime, AgeBound
<1>1. ASSUME NEW t \in Threads, Ask(t) PROVE AgeInv'
  <2> SUFFICES ASSUME ~overlapped PROVE AgeInTime'
    BY <1>b, <1>1 DEF Ask
  <2>1. ASSUME NEW u \in Threads
        PROVE  job'[u].phase = IF u = t THEN "asked" ELSE job[u].phase
    BY <1>0, <1>1 DEF Ask, JobRow
  <2>2. UnderWay' = UnderWay /\ (PastTraining' <=> PastTraining)
        /\ (InPhase("done")' <=> InPhase("done"))
    BY <1>1, <2>1 DEF UnderWay, PastTraining, InPhase, Ask
  <2>3. QED
    BY <1>0, <1>1, <2>2 DEF Ask, AgeInTime, AgeBound
<1>2. ASSUME NEW t \in Threads, Begin(t) PROVE AgeInv'
  <2> SUFFICES ASSUME ~overlapped' PROVE AgeInTime'
    BY <1>b
  <2>1. ~overlapped /\ UnderWay = {}
        /\ UNCHANGED <<runCount, savedCount, age, skipped, crashes>>
    BY <1>2 DEF Begin
  <2>2. ASSUME NEW u \in Threads
        PROVE  job'[u].phase = IF u = t THEN "begun" ELSE job[u].phase
    BY <1>0, <1>2 DEF Begin, JobRow
  <2>3. UnderWay' = {t} /\ ~PastTraining' /\ ~InPhase("done")
    BY <2>1, <2>2 DEF UnderWay, PastTraining, InPhase
  <2>4. QED
    BY <1>0, <2>1, <2>3 DEF AgeInTime, AgeBound
<1>3. ASSUME NEW t \in Threads, Score(t) PROVE AgeInv'
  <2> SUFFICES ASSUME ~overlapped PROVE AgeInTime'
    BY <1>b, <1>3 DEF Score
  <2>1. PICK R \in SUBSET LocalEntities, retrain \in BOOLEAN :
           /\ job' = [job EXCEPT ![t].phase = "scored", ![t].results = R]
           /\ retrain => R # {}
           /\ (R # {} /\ (OnSchedule \/ ~artifact)) => retrain
           /\ age' = IF retrain THEN 0 ELSE age
           /\ skipped' = CASE retrain -> 0
                           [] R = {} /\ OnSchedule -> skipped + 1
                           [] OTHER -> skipped
    BY <1>3 DEF Score
  <2>2. job[t].phase = "begun" /\ UNCHANGED <<runCount, savedCount, crashes, overlapped>>
    BY <1>3 DEF Score
  <2>3. ASSUME NEW u \in Threads
        PROVE  job'[u].phase = IF u = t THEN "scored" ELSE job[u].phase
    BY <1>0, <2>1 DEF JobRow
  <2>4. t \in UnderWay /\ UnderWay' = UnderWay /\ savedCount = runCount
    BY <1>0, <2>2, <2>3 DEF UnderWay, AgeInTime, InPhase
  <2>5. /\ age + UntilDue(runCount) <= RetrainEvery * (1 + skipped) + crashes
        /\ RetrainEvery * (1 + (skipped + 1)) = RetrainEvery * (1 + skipped) + RetrainEvery
        /\ RetrainEvery * (1 + 0) = RetrainEvery /\ RetrainEvery * (1 + skipped) \in Nat
    BY <1>0, <1>a DEF AgeInTime, AgeBound
  <2>6. /\ age' + UntilDue(runCount) <= RetrainEvery * (1 + skipped') + crashes
        /\ age' + 1 + UntilDue(runCount + 1) <= RetrainEvery * (1 + skipped') + crashes
    <3>1. CASE retrain
      <4>1. age' = 0 /\ skipped' = 0
        BY <2>1, <3>1
      <4>2. 1 + skipped' = 1
        BY <4>1
      <4>3. RetrainEvery * (1 + skipped') = RetrainEvery * 1 /\ RetrainEvery * 1 = RetrainEvery
        BY <1>a, <4>2
      <4>4. QED
        BY <1>0, <1>a, <4>1, <4>3
    <3>2. CASE ~retrain /\ R = {} /\ OnSchedule
      <4>1. age' = age /\ skipped' = skipped + 1
        BY <2>1, <3>2
      <4>2. RetrainEvery * (1 + skipped') = RetrainEvery * (1 + skipped) + RetrainEvery
        BY <2>5, <4>1
      <4>3. QED
        BY <1>0, <1>a, <2>5, <3>2, <4>1, <4>2
    <3>3. CASE ~retrain /\ ~OnSchedule
      <4>1. age' = age /\ skipped' = skipped
        BY <2>1, <3>3
      <4>2. QED
        BY <1>0, <1>a, <2>5, <3>3, <4>1
    <3>4. QED
      BY <2>1, <3>1, <3>2, <3>3
  <2>7. QED
    BY <1>0, <2>2, <2>4, <2>6 DEF AgeInTime, AgeBound
<1>4. ASSUME NEW t \in Threads, ReadIndex(t) \/ WriteIndex(t) \/ Fail(t) PROVE AgeInv'
  <2>1. ASSUME NEW u \in Threads
        PROVE  \/ ReadIndex(t) /\ job'[u].phase = IF u = t THEN "read" ELSE job[u].phase
               \/ WriteIndex(t) /\ job'[u].phase = IF u = t THEN "indexed" ELSE job[u].phase
               \/ Fail(t) /\ job'[u].phase = IF u = t THEN "done" ELSE job[u].phase
    BY <1>0, <1>4, ZenonT(40) DEF ReadIndex, WriteIndex, Fail, JobRow, Done, Off
  <2>2. PICK p \in {"read", "indexed", "done"} :
           \A u \in Threads : job'[u].phase = IF u = t THEN p ELSE job[u].phase
    BY <1>0, <1>4 DEF ReadIndex, WriteIndex, Fail, JobRow, Done, Off
  <2>3. /\ job[t].phase \in {"begun", "scored", "read"}
        /\ p # "done" => job[t].phase \in {"scored", "read"}
        /\ UNCHANGED <<runCount, savedCount, age, skipped, crashes, overlapped>>
    BY <1>4, <2>1, <2>2 DEF ReadIndex, WriteIndex, Fail
  <2>4. QED
    BY <1>c, <2>2, <2>3 DEF Phases
<1>5. ASSUME NEW t \in Threads, Publish(t) PROVE AgeInv'
  <2> SUFFICES ASSUME ~overlapped PROVE AgeInTime'
    BY <1>b, <1>5 DEF Publish
  <2>1. job[t].phase = "indexed" /\ UNCHANGED <<savedCount, skipped, crashes>>
    BY <1>5 DEF Publish
  <2>2. ASSUME NEW u \in Threads
        PROVE  job'[u].phase = IF u = t THEN "done" ELSE job[u].phase
    BY <1>0, <1>5 DEF Publish, Done, Off
  <2>3. \/ runCount' = runCount + 1 /\ age' = age + 1
        \/ UNCHANGED <<runCount, age>>
    BY <1>5 DEF Publish, Count
  <2>4. t \in UnderWay /\ UnderWay' = UnderWay /\ PastTraining
        /\ savedCount = runCount
    BY <1>0, <2>1, <2>2 DEF UnderWay, AgeInTime, InPhase, PastTraining
  <2>5. ~PastTraining' /\ InPhase("done")'
    BY <1>0, <2>2, <2>4 DEF UnderWay, AgeInTime, InPhase, PastTraining
  <2>6. QED
    BY <1>0, <1>a, <2>1, <2>3, <2>4, <2>5 DEF AgeInTime, AgeBound
<1>6. ASSUME NEW t \in Threads, Finish(t) PROVE AgeInv'
  <2> SUFFICES ASSUME ~overlapped PROVE AgeInTime'
    BY <1>b, <1>6 DEF Finish
  <2>1. job[t].phase = "done" /\ savedCount' = runCount
        /\ UNCHANGED <<runCount, age, skipped, crashes>>
    BY <1>6 DEF Finish
  <2>2. ASSUME NEW u \in Threads
        PROVE  job'[u].phase = IF u = t THEN "off" ELSE job[u].phase
    BY <1>0, <1>6 DEF Finish, Off
  <2>3. UnderWay' \subseteq UnderWay /\ (PastTraining' => PastTraining)
    BY <2>2 DEF UnderWay, PastTraining
  <2>4. QED
    BY <1>0, <2>1, <2>3 DEF AgeInTime, AgeBound
<1>7. ASSUME Crash PROVE AgeInv'
  <2> SUFFICES ASSUME ~overlapped PROVE AgeInTime'
    BY <1>b, <1>7 DEF Crash
  <2>1. UnderWay' = {} /\ ~PastTraining'
    BY <1>7 DEF Crash, UnderWay, PastTraining, Off
  <2>2. /\ UNCHANGED <<age, skipped>> /\ crashes' = crashes + 1
        /\ savedCount' = runCount' /\ runCount' \in {savedCount, 0}
    BY <1>7 DEF Crash
  <2>3. age + UntilDue(runCount') <= AgeBound + 1
    <3>1. CASE runCount' = 0
      BY <1>0, <1>a, <3>1, EdgeBoundsAssumption DEF UntilDue, AgeInTime
    <3>2. CASE runCount' = runCount
      BY <1>0, <1>a, <3>2 DEF AgeInTime
    <3>3. CASE runCount' + 1 = runCount
      <4>1. /\ UntilDue(runCount') \in 0 .. RetrainEvery - 1
            /\ UntilDue(runCount) = IF UntilDue(runCount') = 0 THEN RetrainEvery - 1
                                   ELSE UntilDue(runCount') - 1
        BY <1>0, <2>2, <3>3, UntilDueNext
      <4>2. QED
        BY <1>0, <1>a, <4>1 DEF AgeInTime
    <3>4. QED
      BY <1>0, <2>2, <3>1, <3>2, <3>3 DEF AgeInTime
  <2>4. AgeBound' = AgeBound + 1
    BY <1>0, <1>a, <2>2 DEF AgeBound
  <2>5. QED
    BY <1>0, <2>1, <2>2, <2>3, <2>4 DEF AgeInTime
<1>8. CASE UNCHANGED edgeVars
  BY <1>0, <1>8 DEF edgeVars, AgeInv, AgeInTime, AgeBound, UnderWay, PastTraining, InPhase
<1>9. QED
  BY <1>1, <1>2, <1>3, <1>4, <1>5, <1>6, <1>7, <1>8 DEF EdgeNext

\* The agency's model is never older than the interval allows, over failed runs,
\* trainings without records and restarts from a stale or unreadable state file,
\* for any interval, as long as no two runs were under way at once.
THEOREM RetrainedInTimeAlways == EdgeSpec => []RetrainedInTime
<1>1. EdgeInit => AgeInv
  <2> SUFFICES ASSUME EdgeInit PROVE AgeInv
    OBVIOUS
  <2>1. /\ EdgeTypeOK /\ age = 0 /\ skipped = 0 /\ crashes = 0
        /\ runCount = 0 /\ savedCount = 0
    BY EdgeTypeInit DEF EdgeInit
  <2>2. UnderWay = {} /\ ~PastTraining
    BY DEF EdgeInit, UnderWay, PastTraining, Off
  <2>3. UntilDue(0) = 0
    BY EdgeBoundsAssumption DEF UntilDue
  <2>4. AgeBound \in Nat
    BY <2>1, EdgeBoundsAssumption DEF AgeBound
  <2>5. QED
    BY <2>1, <2>2, <2>3, <2>4 DEF AgeInv, AgeInTime
<1>2. AgeInv => RetrainedInTime
  <2> SUFFICES ASSUME AgeInv, ~overlapped PROVE age <= AgeBound
    BY DEF RetrainedInTime, AgeBound
  <2>1. UntilDue(runCount) \in Nat /\ age \in Nat /\ AgeBound \in Nat
    BY UntilDueNext, EdgeBoundsAssumption DEF AgeInv, EdgeTypeOK, AgeBound
  <2>2. QED
    BY <2>1 DEF AgeInv, AgeInTime
<1>3. QED
  BY <1>1, <1>2, AgeInvStep, PTL DEF EdgeSpec

-----------------------------------------------------------------------------
(* EventStream.                                                            *)

\* Up to each event in hand, what the connection may not miss is sent or in hand.
PolledCovers == connected => \A e \in Stored \ missed, f \in polled :
    occurred[e] <= occurred[f] => e \in streamed \cup polled

StreamInv ==
    /\ StreamTypeOK /\ StreamIsExact /\ PolledCovers
    /\ polled # {} => connected
    /\ polled \subseteq Stored /\ streamed \subseteq Stored
    /\ \A e \in polled : last <= occurred[e]
    /\ \A e \in streamed : occurred[e] <= last

LEMMA StreamInvInit == StreamInit => StreamInv
<1> SUFFICES ASSUME StreamInit PROVE StreamInv
  OBVIOUS
<1>1. StreamTypeOK
  <2>1. connected \in BOOLEAN
    BY Zenon DEF StreamInit
  <2>2. QED
    BY <2>1, StreamBoundsAssumption DEF StreamInit, StreamTypeOK
<1>2. polled = {} /\ streamed = {} /\ ~connected
  BY DEF StreamInit
<1>3. QED
  BY <1>1, <1>2 DEF StreamInv, StreamIsExact, PolledCovers

LEMMA StreamInvStep == StreamInv /\ [StreamNext]_streamVars => StreamInv'
<1> SUFFICES ASSUME StreamInv, [StreamNext]_streamVars PROVE StreamInv'
  OBVIOUS
<1> USE DEF StreamInv, StreamTypeOK, StreamIsExact, PolledCovers, Stored
<1>1. ASSUME NEW e \in Reported, NEW t \in 1 .. MaxInstant, Arrive(e, t) PROVE StreamInv'
  <2>1. /\ occurred[e] = 0 /\ t \in Nat /\ t # 0
        /\ occurred' = [occurred EXCEPT ![e] = t]
        /\ missed' = IF Past(t) THEN missed \cup {e} ELSE missed
        /\ UNCHANGED <<connected, last, polled, streamed, connections>>
    BY <1>1, StreamBoundsAssumption DEF Arrive
  <2>2. e \notin polled /\ e \notin streamed
    BY <2>1
  <2>3. ~Past(t) => ~(t <= last) /\ \A f \in polled : ~(t <= occurred[f])
    BY DEF Past
  <2>4. QED
    BY <2>1, <2>2, <2>3
<1>2. ASSUME Connect PROVE StreamInv'
  <2>1. last' \in Nat /\ connections' \in 0 .. MaxConnections /\ connected' = TRUE
    BY <1>2, StreamBoundsAssumption DEF Connect
  <2>2. polled = {} /\ polled' = {} /\ streamed' = {} /\ missed' = Stored' /\ UNCHANGED occurred
    BY <1>2 DEF Connect
  <2>3. QED
    BY <2>1, <2>2
<1>3. ASSUME PollLog PROVE StreamInv'
  <2>1. PICK B \in SUBSET Reported :
          FirstRows(B) /\ polled' = B /\ missed' = missed \cup SameInstant(B)
    BY <1>3 DEF PollLog
  <2>2. connected /\ polled = {} /\ UNCHANGED <<occurred, connected, last, streamed, connections>>
    BY <1>3 DEF PollLog
  <2>3. /\ B \subseteq Newer /\ \A e \in B, f \in Newer \ B : occurred[e] <= occurred[f]
        /\ \A f \in Newer \ B, e \in B : occurred[e] = occurred[f] => f \in SameInstant(B)
        /\ SameInstant(B) \subseteq Reported
    BY <2>1 DEF FirstRows, SameInstant, Newer
  <2>4. \A e \in Stored : e \in Newer <=> last < occurred[e]
    BY DEF Newer
  <2>5. StreamTypeOK'
    BY <2>1, <2>2, <2>3
  <2>6. polled' \cap streamed' = {}
    BY <2>1, <2>2, <2>3, <2>4
  <2>7. StreamIsExact'
    BY <2>1, <2>2, <2>6
  <2>8. PolledCovers'
    <3>1. ASSUME NEW e \in Stored, e \notin missed', NEW f \in B, occurred[e] <= occurred[f], e \notin B
          PROVE  e \in streamed
      <4>1. CASE e \in Newer
        <5>1. occurred[f] <= occurred[e] /\ occurred[e] \in Nat /\ occurred[f] \in Nat
          BY <2>3, <3>1, <4>1
        <5>2. occurred[f] = occurred[e]
          BY <3>1, <5>1
        <5>3. QED
          BY <2>1, <2>3, <3>1, <4>1, <5>2
      <4>2. CASE e \notin Newer
        BY <2>1, <2>2, <2>4, <3>1, <4>2
      <4>3. QED
        BY <4>1, <4>2
    <3>2. QED
      BY <2>1, <2>2, <3>1
  <2>9. ASSUME NEW e \in B
        PROVE  e \in Stored /\ last < occurred[e] /\ last <= occurred[e]
    <3>1. e \in Stored /\ last < occurred[e]
      BY <2>3, <2>4 DEF Newer
    <3>2. occurred[e] \in Nat /\ last \in Nat
      OBVIOUS
    <3>3. QED
      BY <3>1, <3>2
  <2>10. connected' /\ last' = last /\ occurred' = occurred /\ polled' = B /\ streamed' = streamed
    BY <2>1, <2>2, Zenon
  <2>11. QED
    BY <2>5, <2>7, <2>8, <2>9, <2>10
<1>4. ASSUME NEW e \in Reported, SendRow(e) PROVE StreamInv'
  BY <1>4 DEF SendRow
<1>5. ASSUME Disconnect PROVE StreamInv'
  BY <1>5 DEF Disconnect
<1>6. CASE UNCHANGED streamVars
  BY <1>6 DEF streamVars
<1>7. QED
  BY <1>1, <1>2, <1>3, <1>4, <1>5, <1>6 DEF StreamNext

\* The stream's events, mark and rows in hand keep their types.
THEOREM StreamTypeCorrect == StreamSpec => []StreamTypeOK
<1>1. StreamInv => StreamTypeOK
  BY DEF StreamInv
<1>2. QED
  BY <1>1, StreamInvInit, StreamInvStep, PTL DEF StreamSpec

\* A client is sent every event the stream passes, and none twice, but for late
\* events and those of one instant that the limit of a poll cut off.
THEOREM StreamIsExactAlways == StreamSpec => []StreamIsExact
<1>1. StreamInv => StreamIsExact
  BY DEF StreamInv
<1>2. QED
  BY <1>1, StreamInvInit, StreamInvStep, PTL DEF StreamSpec

-----------------------------------------------------------------------------
(* AuthSessions: records.                                                  *)

USE AuthBoundsAssumption

SessionRow == [state : {"none", "live", "revoked"}, began : Nat, pair : Nat]
WorkRow == [step : Steps, began : Nat, rows : SUBSET Sessions]

-----------------------------------------------------------------------------
(* Types.                                                                  *)

LEMMA AuthTypeInit == AuthInit => AuthTypeOK
BY DEF AuthInit, AuthTypeOK, NoSession, NoWork, Steps

LEMMA AuthTypeStep == AuthTypeOK /\ [AuthNext]_authVars => AuthTypeOK'
<1> SUFFICES ASSUME AuthTypeOK, [AuthNext]_authVars PROVE AuthTypeOK'
  OBVIOUS
<1> USE DEF AuthTypeOK, Steps, NoWork, NoSession, Goes
<1>1. ASSUME NEW r \in Requests, Verify(r) PROVE AuthTypeOK'
  BY <1>1 DEF Verify
<1>2. ASSUME NEW r \in Requests, NEW s \in Sessions, Open(r, s) PROVE AuthTypeOK'
  BY <1>2 DEF Open
<1>3. ASSUME NEW r \in Requests, NEW s \in Sessions, ReadRefresh(r, s) PROVE AuthTypeOK'
  BY <1>3 DEF ReadRefresh
<1>4. ASSUME NEW r \in Requests, Refresh(r) PROVE AuthTypeOK'
  <2>1. ASSUME NEW s \in Sessions
        PROVE  /\ [session EXCEPT ![s] = Refreshed(s)] \in [Sessions -> SessionRow]
               /\ [session EXCEPT ![s].state = "revoked"] \in [Sessions -> SessionRow]
    <3>1. session[s] \in SessionRow
      BY DEF SessionRow
    <3>2. /\ [session[s] EXCEPT !.pair = @ + 1] \in SessionRow
          /\ [session[s] EXCEPT !.state = "revoked"] \in SessionRow
      BY <3>1 DEF SessionRow
    <3>3. QED
      BY <3>2 DEF Refreshed, SessionRow
  <2>2. session' \in [Sessions -> SessionRow]
    <3>1. PICK s \in work[r].rows : \/ session' = [session EXCEPT ![s] = Refreshed(s)]
                                    \/ session' = [session EXCEPT ![s].state = "revoked"]
      BY <1>4 DEF Refresh
    <3>2. s \in Sessions
      OBVIOUS
    <3>3. QED
      BY <2>1, <3>1, <3>2
  <2>3. NoWork \in WorkRow
    BY DEF WorkRow
  <2>4. work' \in [Requests -> WorkRow] /\ UNCHANGED <<password, ended, late>>
    BY <1>4, <2>3 DEF Refresh, WorkRow
  <2>5. QED
    BY <2>2, <2>4 DEF SessionRow, WorkRow
<1>5. ASSUME NEW r \in Requests, NEW s \in Sessions, Logout(r, s) PROVE AuthTypeOK'
  BY <1>5 DEF Logout
<1>6. ASSUME NEW r \in Requests, ChangePassword(r) PROVE AuthTypeOK'
  <2>1. password + 1 \in Nat \ {0}
    OBVIOUS
  <2>2. work' \in [Requests -> WorkRow]
    <3>1. [NoWork EXCEPT !.step = "changed", !.began = password + 1] \in WorkRow
      BY <2>1 DEF WorkRow
    <3>2. work \in [Requests -> WorkRow]
      BY DEF WorkRow
    <3>3. QED
      BY <1>6, <3>1, <3>2 DEF ChangePassword
  <2>3. QED
    BY <1>6, <2>1, <2>2 DEF ChangePassword, WorkRow
<1>7. ASSUME NEW r \in Requests, List(r) PROVE AuthTypeOK'
  <2>1. [step |-> "listed", began |-> work[r].began, rows |-> NotRevoked] \in WorkRow
    BY DEF NotRevoked, WorkRow
  <2>2. work' \in [Requests -> WorkRow]
    <3> HIDE DEF WorkRow
    <3>1. work \in [Requests -> WorkRow]
      BY DEF WorkRow
    <3>2. QED
      BY <1>7, <2>1, <3>1 DEF List
  <2>3. QED
    BY <1>7, <2>2 DEF List, WorkRow
<1>8. ASSUME NEW r \in Requests, Revoke(r) PROVE AuthTypeOK'
  <2>1. session' \in [Sessions -> SessionRow]
    BY <1>8 DEF Revoke, SessionRow
  <2>2. QED
    BY <1>8, <2>1 DEF Revoke, SessionRow
<1>9. ASSUME NEW r \in Requests, Drop(r) PROVE AuthTypeOK'
  BY <1>9 DEF Drop
<1>10. CASE UNCHANGED authVars
  BY <1>10 DEF authVars
<1>11. QED
  BY <1>1, <1>2, <1>3, <1>4, <1>5, <1>6, <1>7, <1>8, <1>9, <1>10 DEF AuthNext

\* Sessions, requests and the password keep their types.
THEOREM AuthTypeCorrect == AuthSpec => []AuthTypeOK
<1>1. QED
  BY AuthTypeInit, AuthTypeStep, PTL DEF AuthSpec

-----------------------------------------------------------------------------
(* A revoked session. What a step does to one session:                     *)

\* Only a login opens a row, nothing but a revocation changes the state of a
\* live one, and the password of its login is never rewritten.
LEMMA SessionStep ==
    ASSUME AuthTypeOK, [AuthNext]_authVars, NEW s \in Sessions
    PROVE  \/ /\ session'[s].state \in {session[s].state, "revoked"}
              /\ session'[s].began = session[s].began
           \/ /\ session[s] = NoSession
              /\ \E r \in Requests : /\ Open(r, s)
                                     /\ session'[s].began = work[r].began
<1> USE DEF AuthTypeOK
<1> DEFINE Kept == /\ session'[s].state \in {session[s].state, "revoked"}
                   /\ session'[s].began = session[s].began
<1>1. ASSUME UNCHANGED session PROVE Kept
  BY <1>1
<1>2. ASSUME NEW r \in Requests, NEW q \in Sessions, Open(r, q), q # s PROVE Kept
  BY <1>2 DEF Open
<1>3. ASSUME NEW r \in Requests, Open(r, s)
      PROVE  session[s] = NoSession /\ session'[s].began = work[r].began
  BY <1>3 DEF Open
<1>4. ASSUME NEW r \in Requests, Refresh(r) PROVE Kept
  <2>1. PICK q \in work[r].rows : \/ session' = [session EXCEPT ![q] = Refreshed(q)]
                                  \/ session' = [session EXCEPT ![q].state = "revoked"]
    BY <1>4 DEF Refresh
  <2>2. QED
    BY <2>1 DEF Refreshed
<1>5. ASSUME NEW r \in Requests, NEW q \in Sessions, Logout(r, q) PROVE Kept
  BY <1>5 DEF Logout
<1>6. ASSUME NEW r \in Requests, Revoke(r) PROVE Kept
  BY <1>6 DEF Revoke
<1>7. ASSUME NEW r \in Requests,
             \/ Verify(r) \/ ChangePassword(r) \/ List(r) \/ Drop(r)
             \/ \E q \in Sessions : ReadRefresh(r, q)
      PROVE  UNCHANGED session
  BY <1>7 DEF Verify, ChangePassword, List, Drop, ReadRefresh
<1>8. QED
  BY <1>1, <1>2, <1>3, <1>4, <1>5, <1>6, <1>7 DEF AuthNext, authVars

\* No refresh, login or other request makes a revoked session live again,
\* whatever it had read before the revocation.
THEOREM RevokedStaysAlways == AuthSpec => RevokedStays
<1>1. AuthTypeOK /\ [AuthNext]_authVars =>
        [\A s \in Sessions : session[s].state = "revoked" => session'[s].state = "revoked"]_authVars
  BY SessionStep DEF NoSession
<1>2. QED
  BY <1>1, AuthTypeCorrect, PTL DEF AuthSpec, RevokedStays

-----------------------------------------------------------------------------
(* The sessions of an old password.                                        *)

NoneFromTheFuture == /\ ended <= password
                     /\ \A s \in Sessions : session[s].began <= password
                     /\ \A r \in Requests : work[r].began <= password

\* A revocation under way has found every session it has to end.
ListIsComplete == \A r \in Requests : work[r].step = "listed" =>
    \A s \in Sessions \ late :
        Live(s) /\ session[s].began < work[r].began => s \in work[r].rows

EndInv == AuthTypeOK /\ NoneFromTheFuture /\ ListIsComplete /\ OldSessionsEnd

LEMMA EndInvInit == AuthInit => EndInv
BY AuthTypeInit
DEF AuthInit, EndInv, AuthTypeOK, NoneFromTheFuture, ListIsComplete, OldSessionsEnd,
    Live, NoSession, NoWork

\* A session that is live now and in time was so before, or is of this password.
LEMMA LiveStep ==
    ASSUME EndInv, [AuthNext]_authVars, NEW s \in Sessions \ late', Live(s)'
    PROVE  /\ s \notin late
           /\ \/ Live(s) /\ session'[s].began = session[s].began
              \/ session'[s].began = password
<1> USE DEF EndInv, AuthTypeOK
<1>1. late \subseteq late'
  BY DEF AuthNext, authVars, Verify, Open, ReadRefresh, Refresh, Logout, ChangePassword,
         List, Revoke, Drop
<1>2. ASSUME NEW r \in Requests, Open(r, s) PROVE session'[s].began = password
  BY <1>2 DEF Open
<1>3. QED
  BY <1>1, <1>2, SessionStep DEF Live

LEMMA EndInvStep == EndInv /\ [AuthNext]_authVars => EndInv'
<1> SUFFICES ASSUME EndInv, [AuthNext]_authVars PROVE EndInv'
  OBVIOUS
<1>0. AuthTypeOK /\ AuthTypeOK' /\ NoneFromTheFuture /\ ListIsComplete /\ OldSessionsEnd
  BY AuthTypeStep DEF EndInv
<1> USE DEF AuthTypeOK
\* What the requests do to the password and to the request's own memory.
<1>1. CASE UNCHANGED <<password, work, ended>>
  <2>1. NoneFromTheFuture'
    BY <1>0, <1>1, SessionStep DEF NoneFromTheFuture
  <2>2. QED
    BY <1>0, <1>1, <2>1, LiveStep DEF EndInv, NoneFromTheFuture, ListIsComplete, OldSessionsEnd
<1>2. ASSUME NEW r \in Requests, NEW w \in WorkRow, Goes(r, w), w.step # "listed",
             w.began <= password', password' >= password, UNCHANGED ended
      PROVE  EndInv'
  <2>1. ASSUME NEW q \in Requests
        PROVE  work'[q] = IF q = r THEN w ELSE work[q]
    BY <1>0, <1>2 DEF Goes
  <2>2. NoneFromTheFuture'
    <3>1. ASSUME NEW s \in Sessions PROVE session'[s].began <= password'
      BY <1>0, <1>2, SessionStep DEF NoneFromTheFuture
    <3>2. QED
      BY <1>0, <1>2, <2>1, <3>1 DEF NoneFromTheFuture
  <2>3. ListIsComplete'
    <3> SUFFICES ASSUME NEW q \in Requests, work'[q].step = "listed",
                        NEW s \in Sessions \ late', Live(s)', session'[s].began < work'[q].began
                 PROVE  s \in work'[q].rows
      BY DEF ListIsComplete
    <3>1. work'[q] = work[q]
      BY <1>2, <2>1
    <3>2. work[q].began <= password
      BY <1>0 DEF NoneFromTheFuture
    <3>3. QED
      BY <1>0, <3>1, <3>2, LiveStep DEF ListIsComplete
  <2>4. OldSessionsEnd'
    BY <1>0, <1>2, LiveStep DEF OldSessionsEnd, NoneFromTheFuture
  <2>5. QED
    BY <1>0, <2>2, <2>3, <2>4 DEF EndInv
<1>3. ASSUME NEW r \in Requests, List(r) PROVE EndInv'
  <2>1. ASSUME NEW q \in Requests
        PROVE  work'[q] = IF q = r THEN [step |-> "listed", began |-> work[r].began, rows |-> NotRevoked]
                          ELSE work[q]
    BY <1>0, <1>3 DEF List, Goes
  <2>2. UNCHANGED <<password, session, ended, late>>
    BY <1>3 DEF List
  <2>3. NoneFromTheFuture'
    BY <1>0, <2>1, <2>2 DEF NoneFromTheFuture
  <2>4. ListIsComplete'
    BY <1>0, <2>1, <2>2 DEF ListIsComplete, NotRevoked, Live
  <2>5. QED
    BY <1>0, <2>2, <2>3, <2>4 DEF EndInv, OldSessionsEnd, Live
<1>4. ASSUME NEW r \in Requests, Revoke(r) PROVE EndInv'
  <2>1. ASSUME NEW q \in Requests PROVE work'[q] = IF q = r THEN NoWork ELSE work[q]
    BY <1>0, <1>4 DEF Revoke, Goes
  <2>2. /\ UNCHANGED <<password, late>> /\ work[r].step = "listed"
        /\ ended' = IF work[r].began > ended THEN work[r].began ELSE ended
    BY <1>4 DEF Revoke
  <2>3. ASSUME NEW s \in Sessions
        PROVE  session'[s] = IF s \in work[r].rows THEN [session[s] EXCEPT !.state = "revoked"]
                             ELSE session[s]
    BY <1>4 DEF Revoke
  <2>4. NoneFromTheFuture'
    BY <1>0, <2>1, <2>2, <2>3 DEF NoneFromTheFuture, NoWork
  <2>5. ListIsComplete'
    BY <1>0, <2>1, <2>2, <2>3 DEF ListIsComplete, Live, NoWork
  <2>6. OldSessionsEnd'
    BY <1>0, <2>2, <2>3 DEF OldSessionsEnd, ListIsComplete, Live
  <2>7. QED
    BY <1>0, <2>4, <2>5, <2>6 DEF EndInv
<1>5. NoWork \in WorkRow /\ NoWork.began = 0 /\ NoWork.step = "idle"
  BY DEF NoWork, WorkRow, Steps
<1>6. ASSUME NEW r \in Requests, NEW s \in Sessions, Open(r, s) PROVE EndInv'
  BY <1>0, <1>2, <1>5, <1>6 DEF Open
<1>7. ASSUME NEW r \in Requests, Refresh(r) \/ Drop(r) PROVE EndInv'
  BY <1>0, <1>2, <1>5, <1>7 DEF Refresh, Drop
<1>8. ASSUME NEW r \in Requests, Verify(r) PROVE EndInv'
  <2>1. [NoWork EXCEPT !.step = "verified", !.began = password] \in WorkRow
    BY <1>0 DEF NoWork, WorkRow, Steps
  <2>2. /\ [NoWork EXCEPT !.step = "verified", !.began = password].began = password
        /\ [NoWork EXCEPT !.step = "verified", !.began = password].step = "verified"
    BY DEF NoWork
  <2>3. /\ Goes(r, [NoWork EXCEPT !.step = "verified", !.began = password])
        /\ password' = password /\ ended' = ended /\ password <= password
    BY <1>0, <1>8 DEF Verify
  <2>4. QED
    BY <1>2, <2>1, <2>2, <2>3
<1>9. ASSUME NEW r \in Requests, NEW s \in Sessions, ReadRefresh(r, s) PROVE EndInv'
  <2>1. [NoWork EXCEPT !.step = "refreshing", !.rows = {s}] \in WorkRow
    BY DEF NoWork, WorkRow, Steps
  <2>2. /\ [NoWork EXCEPT !.step = "refreshing", !.rows = {s}].began = 0
        /\ [NoWork EXCEPT !.step = "refreshing", !.rows = {s}].step = "refreshing"
    BY DEF NoWork
  <2>3. /\ Goes(r, [NoWork EXCEPT !.step = "refreshing", !.rows = {s}])
        /\ password' = password /\ ended' = ended /\ password <= password /\ 0 <= password
    BY <1>0, <1>9 DEF ReadRefresh
  <2>4. QED
    BY <1>2, <2>1, <2>2, <2>3
<1>10. ASSUME NEW r \in Requests, NEW s \in Sessions, Logout(r, s) PROVE EndInv'
  BY <1>1, <1>10 DEF Logout
<1>11. ASSUME NEW r \in Requests, ChangePassword(r) PROVE EndInv'
  <2>1. password' = password + 1 /\ UNCHANGED <<session, ended, late>>
    BY <1>11 DEF ChangePassword
  <2>2. CASE Goes(r, [NoWork EXCEPT !.step = "changed", !.began = password + 1])
    <3>1. ASSUME NEW n \in Nat
          PROVE  /\ [NoWork EXCEPT !.step = "changed", !.began = n] \in WorkRow
                 /\ [NoWork EXCEPT !.step = "changed", !.began = n].began = n
                 /\ [NoWork EXCEPT !.step = "changed", !.began = n].step = "changed"
      BY DEF NoWork, WorkRow, Steps
    <3>2. password + 1 \in Nat /\ password' >= password /\ password + 1 <= password'
      BY <1>0, <2>1
    <3>3. QED
      BY <1>2, <2>1, <2>2, <3>1, <3>2
  <2>3. CASE UNCHANGED work
    BY <1>0, <2>1, <2>3 DEF EndInv, NoneFromTheFuture, ListIsComplete, OldSessionsEnd, Live
  <2>4. QED
    BY <1>11, <2>2, <2>3 DEF ChangePassword
<1>12. CASE UNCHANGED authVars
  BY <1>1, <1>12 DEF authVars
<1>13. QED
  BY <1>3, <1>4, <1>6, <1>7, <1>8, <1>9, <1>10, <1>11, <1>12 DEF AuthNext

\* Once a change of the password has revoked the sessions, none of an older
\* password is live: refreshes, logins and other revocations in between do not
\* matter, but for a login that had verified the old password before the change.
THEOREM OldSessionsEndAlways == AuthSpec => []OldSessionsEnd
<1>1. EndInv => OldSessionsEnd
  BY DEF EndInv
<1>2. QED
  BY <1>1, EndInvInit, EndInvStep, PTL DEF AuthSpec
=============================================================================
