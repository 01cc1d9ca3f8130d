--------------------------- MODULE CampaignEngine ---------------------------
(***************************************************************************)
(* campaign/engine.py and campaign/repository.py: the signals of an event  *)
(* applied to the campaigns, in one transaction per event.                 *)
(*                                                                         *)
(* Appliers run at the same time: every ingest worker applies the events   *)
(* it accepts, and campaign/worker.py applies them again from Kafka. They  *)
(* read committed rows (READ COMMITTED), keep a campaign they have read in *)
(* the session's memory, and write the changed columns back at the commit. *)
(*                                                                         *)
(* Every signal upserts the entity its campaign is about (the endpoint,    *)
(* IP, domain or URL of the primary key), so that row is locked from the   *)
(* upsert to the commit: updates of one campaign queue up there, after     *)
(* each of them has read the campaign.                                     *)
(***************************************************************************)
EXTENDS Naturals, FiniteSets, Sequences

CONSTANTS Events, Keys, Entities,
          Shape,                \* what the detectors look at in an event
          EntitiesOf,           \* persons and devices of an event
          Occurred,             \* occurred_at of each event
          Window,               \* DEFAULT_WINDOW
          MaxCampaigns,         \* bound on the campaigns
          Appliers,
          MaxNow, MaxApplies,   \* bounds on the clock and the applications
          None

Shapes == [kind : {"ddos", "dfir", "other"}, indicator : BOOLEAN,
           ip : Keys \cup {None}, domain : Keys \cup {None}, url : Keys \cup {None},
           endpoint : Keys \cup {None}]

ASSUME EventsAssumption == /\ Shape \in [Events -> Shapes]
                           /\ EntitiesOf \in [Events -> SUBSET Entities]
                           /\ Occurred \in [Events -> Nat]
                           /\ IsFiniteSet(Entities)
ASSUME BoundsAssumption == /\ Window \in Nat /\ MaxCampaigns \in Nat
                       /\ MaxNow \in Nat /\ MaxApplies \in Nat
ASSUME NoneAssumption == None \notin Events /\ None \notin Keys

VARIABLES now,
          rows,                 \* campaign: committed rows
          links,                \* campaign_event: <<campaign, event>>
          ents,                 \* campaign_entity: <<campaign, entity>>
          pc, job, at,          \* per applier: step, event, index of the signal
          since,                \* per applier: the time its search goes by
          current,              \* per applier: the signal's campaign
          view,                 \* per applier: campaigns in the session's memory
          myLinks, myEnts,      \* per applier: rows inserted, not committed
          applied,              \* events whose application is committed
          applies

Ids == 1 .. MaxCampaigns

tables == <<rows, links, ents>>
session == <<pc, job, at, since, current, view, myLinks, myEnts>>
vars == <<now, tables, session, applied, applies>>

Types == {"DDOS_ENDPOINT_FANIN", "VPN_IP_REUSE", "IOC_INDICATOR_CLUSTER"}
Campaigns == [type : Types, key : Keys, last : Nat, count : Nat, distinct : Nat]
NoRow == [type |-> None]

\* A campaign in memory: its attributes, the last_seen it was loaded with, and
\* whether this transaction created it.
Loaded == [row : Campaigns, loaded : Nat, new : BOOLEAN]
NotLoaded == [new |-> None]

TypeOK == /\ now \in 0 .. MaxNow
          /\ rows \in [Ids -> Campaigns \cup {NoRow}]
          /\ links \subseteq Ids \X Events
          /\ ents \subseteq Ids \X Entities
          /\ pc \in [Appliers -> {"idle", "read", "update"}]
          /\ job \in [Appliers -> Events \cup {None}]
          /\ at \in [Appliers -> Nat]
          /\ since \in [Appliers -> 0 .. now]
          /\ current \in [Appliers -> Ids \cup {0}]
          /\ view \in [Appliers -> [Ids -> Loaded \cup {NotLoaded}]]
          /\ myLinks \in [Appliers -> SUBSET (Ids \X Events)]
          /\ myEnts \in [Appliers -> SUBSET (Ids \X Entities)]
          /\ applied \subseteq Events
          /\ applies \in 0 .. MaxApplies
          /\ \A w \in Appliers : pc[w] = "update" =>
                current[w] \in Ids /\ view[w][current[w]] # NotLoaded

Init == /\ now = 0
        /\ rows = [c \in Ids |-> NoRow]
        /\ links = {} /\ ents = {}
        /\ pc = [w \in Appliers |-> "idle"]
        /\ job = [w \in Appliers |-> None]
        /\ at = [w \in Appliers |-> 0]
        /\ since = [w \in Appliers |-> 0]
        /\ current = [w \in Appliers |-> 0]
        /\ view = [w \in Appliers |-> [c \in Ids |-> NotLoaded]]
        /\ myLinks = [w \in Appliers |-> {}]
        /\ myEnts = [w \in Appliers |-> {}]
        /\ applied = {} /\ applies = 0

Exists(c) == rows[c] # NoRow
Created(w) == {c \in Ids : view[w][c] # NotLoaded /\ view[w][c].new}
-----------------------------------------------------------------------------
(* build_signals_from_event: the types and primary keys, in order.         *)

SignalIf(holds, type, key) == IF holds THEN <<[type |-> type, key |-> key]>> ELSE <<>>

\* The indicator cluster is keyed by the first of IP, domain and URL.
IndicatorKey(s) == IF s.ip # None THEN s.ip
                   ELSE IF s.domain # None THEN s.domain ELSE s.url

SignalsOf ==
    [e \in Events |->
        LET s == Shape[e]
        IN  SignalIf(s.kind = "ddos" /\ s.endpoint # None, "DDOS_ENDPOINT_FANIN", s.endpoint)
            \o SignalIf(s.ip # None, "VPN_IP_REUSE", s.ip)
            \o SignalIf(s.kind = "dfir" /\ s.indicator /\ IndicatorKey(s) # None,
                        "IOC_INDICATOR_CLUSTER", IndicatorKey(s))]

\* Persons and devices come with the IP reuse signal only.
PeopleIn(e, sig) == IF sig.type = "VPN_IP_REUSE" THEN EntitiesOf[e] ELSE {}

Signal(w) == SignalsOf[job[w]][at[w]]

-----------------------------------------------------------------------------
Tick == /\ now < MaxNow
        /\ now' = now + 1
        /\ UNCHANGED <<tables, session, applied, applies>>

-----------------------------------------------------------------------------
Begin(w, e) == /\ pc[w] = "idle" /\ applies < MaxApplies
               /\ Occurred[e] <= now
               /\ applies' = applies + 1
               /\ pc' = [pc EXCEPT ![w] = "read"]
               /\ job' = [job EXCEPT ![w] = e]
               /\ at' = [at EXCEPT ![w] = 1]
               /\ since' = [since EXCEPT ![w] = now]
               /\ UNCHANGED <<now, tables, current, view, myLinks, myEnts, applied>>

\* find_active_campaign filters and orders on the values in the database: the
\* committed ones, and for a campaign this transaction created those it was
\* created with. Campaigns are never given another status than active.
RowIn(w, c) == IF c \in Created(w) THEN [view[w][c].row EXCEPT !.last = view[w][c].loaded]
               ELSE rows[c]

InWindow(t, n) == t + Window >= n

\* Mutant: the search also filters on the signal's type.
MatchesByType(w, sig) == {c \in Ids : /\ Exists(c) \/ c \in Created(w)
                                      /\ RowIn(w, c).key = sig.key
                                      /\ RowIn(w, c).type = sig.type
                                      /\ InWindow(RowIn(w, c).last, since[w])}

Matches(w, sig) == {c \in Ids : /\ Exists(c) \/ c \in Created(w)
                                /\ RowIn(w, c).key = sig.key
                                /\ InWindow(RowIn(w, c).last, since[w])}

Latest(w, S) == {c \in S : \A d \in S : RowIn(w, d).last <= RowIn(w, c).last}

\* A campaign that is in memory already keeps its attributes when it is found.
Found(w, c) == IF view[w][c] # NotLoaded THEN view[w][c]
               ELSE [row |-> rows[c], loaded |-> rows[c].last, new |-> FALSE]

Fresh(sig, t) == [row |-> [type |-> sig.type, key |-> sig.key, last |-> t,
                           count |-> 0, distinct |-> 0],
                  loaded |-> t, new |-> TRUE]

Used(c) == Exists(c) \/ \E v \in Appliers : c \in Created(v)

\* A new uuid, here the least number that is free.
NewId(c) == ~Used(c) /\ \A d \in 1 .. c - 1 : Used(d)

FindOrCreate(w, c) ==
    LET found == Matches(w, Signal(w))
    IN  IF found # {}
        THEN c \in Latest(w, found) /\ view' = [view EXCEPT ![w][c] = Found(w, c)]
        ELSE NewId(c) /\ view' = [view EXCEPT ![w][c] = Fresh(Signal(w), Occurred[job[w]])]

\* The insert of a link waits for a transaction that has inserted the same one.
LinkFree(w, l) == \A v \in Appliers \ {w} : l \notin myLinks[v]
\* Mutant: one link per event.
LinkedAnywhere(w, l) == \E k \in links \cup myLinks[w] : k[2] = l[2]

Linked(w, l) == l \in links \cup myLinks[w]

\* Steps 1 and 2 of a signal: find or create, then link; a link that exists
\* ends the signal.
Read(w) ==
    /\ pc[w] = "read" /\ at[w] <= Len(SignalsOf[job[w]])
    /\ \E c \in Ids :
         /\ FindOrCreate(w, c)
         /\ LinkFree(w, <<c, job[w]>>)
         /\ IF Linked(w, <<c, job[w]>>)
            THEN /\ at' = [at EXCEPT ![w] = @ + 1]
                 /\ UNCHANGED <<pc, current, myLinks>>
            ELSE /\ myLinks' = [myLinks EXCEPT ![w] = @ \cup {<<c, job[w]>>}]
                 /\ current' = [current EXCEPT ![w] = c]
                 /\ pc' = [pc EXCEPT ![w] = "update"]
                 /\ UNCHANGED at
    /\ UNCHANGED <<now, tables, job, since, myEnts, applied, applies>>

\* Mutants: no entity row is shared by the updates of a campaign; one lock for
\* all campaigns, taken with the first link.
HoldsNoLock(v, c) == FALSE
HoldsAnyLock(v, c) == myLinks[v] # {}

\* Applier v has updated campaign c in its open transaction, and so holds the
\* lock on its key entity.
HoldsLock(v, c) == /\ \E l \in myLinks[v] : l[1] = c
                   /\ ~(pc[v] = "update" /\ current[v] = c)

Maximum(x, y) == IF x >= y THEN x ELSE y

\* update_campaign_counters and recompute_and_store_stats: the counter and
\* last_seen from the attributes in memory, the statistics from the entities
\* now visible.
Counted(w, c, t, n) ==
    LET row == [view[w][c].row EXCEPT !.last = Maximum(@, t), !.count = @ + 1, !.distinct = n]
    IN  [view EXCEPT ![w][c].row = row]

EntitiesIn(c, S) == Cardinality({x \in Entities : <<c, x>> \in S})

\* Steps 3 and 4: entities, counters, statistics.
Update(w) ==
    LET c == current[w]
        mine == myEnts[w] \cup {<<c, x>> : x \in PeopleIn(job[w], Signal(w))}
    IN  /\ pc[w] = "update"
        /\ \A v \in Appliers \ {w} : ~HoldsLock(v, c)
        /\ myEnts' = [myEnts EXCEPT ![w] = mine]
        /\ view' = Counted(w, c, Occurred[job[w]], EntitiesIn(c, ents \cup mine))
        /\ at' = [at EXCEPT ![w] = @ + 1]
        /\ pc' = [pc EXCEPT ![w] = "read"]
        /\ UNCHANGED <<now, tables, job, since, current, myLinks, applied, applies>>

-----------------------------------------------------------------------------
Close(w) == /\ pc' = [pc EXCEPT ![w] = "idle"]
            /\ job' = [job EXCEPT ![w] = None]
            /\ at' = [at EXCEPT ![w] = 0]
            /\ since' = [since EXCEPT ![w] = 0]
            /\ current' = [current EXCEPT ![w] = 0]
            /\ view' = [view EXCEPT ![w] = [c \in Ids |-> NotLoaded]]
            /\ myLinks' = [myLinks EXCEPT ![w] = {}]
            /\ myEnts' = [myEnts EXCEPT ![w] = {}]

\* The UPDATE of a campaign sets the columns whose value differs from the one
\* loaded, to the value in memory, whatever the row holds by now.
Flushed(w, c) ==
    LET v == view[w][c]
    IN  IF v = NotLoaded \/ \A l \in myLinks[w] : l[1] # c THEN rows[c]
        ELSE IF v.new THEN v.row
        ELSE [v.row EXCEPT !.last = IF @ = v.loaded THEN rows[c].last ELSE @]

CommitApply(w) ==
    /\ pc[w] = "read" /\ at[w] > Len(SignalsOf[job[w]])
    /\ rows' = [c \in Ids |-> Flushed(w, c)]
    /\ links' = links \cup myLinks[w]
    /\ ents' = ents \cup myEnts[w]
    /\ applied' = applied \cup {job[w]}
    /\ Close(w)
    /\ UNCHANGED <<now, applies>>

\* A database error or a crash rolls the transaction back.
Rollback(w) == /\ pc[w] # "idle"
               /\ Close(w)
               /\ UNCHANGED <<now, tables, applied, applies>>

Advance(w) == Read(w) \/ Update(w) \/ CommitApply(w)

Next == \/ Tick
        \/ \E w \in Appliers : \/ \E e \in Events : Begin(w, e)
                               \/ Advance(w) \/ Rollback(w)

Spec == Init /\ [][Next]_vars

(* A transaction that can go on does; the lock queue is served.            *)
FairSpec == Spec /\ \A w \in Appliers : WF_vars(Advance(w))

-----------------------------------------------------------------------------
(* Correctness.                                                            *)

LinksOf(c) == {e \in Events : <<c, e>> \in links}

\* The distinct persons and devices of a campaign's statistics are those of its
\* entity rows, even when updates of the campaign overlap: repository.py:328,
\* "Deterministic stats derived from campaign_entity table".
StatsAreExact == \A c \in Ids : Exists(c) => rows[c].distinct = EntitiesIn(c, ents)

\* Once an event is applied, each of its signals has it in a campaign of its
\* key, whatever ran at the same time.
EverySignalLinked ==
    \A e \in applied : \A i \in 1 .. Len(SignalsOf[e]) :
        \E c \in Ids : Exists(c) /\ rows[c].key = SignalsOf[e][i].key
                       /\ <<c, e>> \in links

\* Transactions that wait for each other's campaigns do not deadlock: an
\* event's application comes to an end.
ApplyEnds == \A w \in Appliers : pc[w] # "idle" ~> pc[w] = "idle"

\* engine.py:13, "campaign stays active if seen within this window": a campaign
\* with an event in the window is found. Not kept when applications overlap.
StaysActive == \A c \in Ids : \A e \in LinksOf(c) :
                   InWindow(Occurred[e], now) => InWindow(rows[c].last, now)
=============================================================================
