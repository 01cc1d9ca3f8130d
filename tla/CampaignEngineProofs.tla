------------------------ MODULE CampaignEngineProofs ------------------------
(***************************************************************************)
(* Proofs about CampaignEngine, for any events, keys and number of         *)
(* appliers: types, that a campaign's statistics are exact and every       *)
(* signal of an applied event is linked, whatever overlaps, and that one   *)
(* campaign of a key is active while nothing has overlapped.               *)
(***************************************************************************)
EXTENDS MCCampaignEngine, FiniteSetTheorems, SequenceTheorems, TLAPS

USE EventsAssumption, BoundsAssumption, NoneAssumption

-----------------------------------------------------------------------------
(* The operators.                                                          *)

LEMMA NotLoadedIsNotLoaded == NotLoaded \notin Loaded
<1>1. \A v \in Loaded : DOMAIN v = {"row", "loaded", "new"}
  BY DEF Loaded
<1>2. DOMAIN NotLoaded = {"new"}
  BY DEF NotLoaded
<1>3. "row" \notin {"new"}
  OBVIOUS
<1>4. QED
  BY <1>1, <1>2, <1>3

LEMMA NoRowIsNoCampaign == NoRow \notin Campaigns
<1>1. \A r \in Campaigns : DOMAIN r = {"type", "key", "last", "count", "distinct"}
  BY DEF Campaigns
<1>2. DOMAIN NoRow = {"type"}
  BY DEF NoRow
<1>3. "key" \notin {"type"}
  OBVIOUS
<1>4. QED
  BY <1>1, <1>2, <1>3

SignalSet == [type : Types, key : Keys]

LEMMA SignalIfType ==
    ASSUME NEW holds \in BOOLEAN, NEW type \in Types, NEW key, holds => key \in Keys
    PROVE  SignalIf(holds, type, key) \in Seq(SignalSet)
<1>1. CASE holds
  <2>1. [type |-> type, key |-> key] \in SignalSet
    BY <1>1 DEF SignalSet
  <2>2. QED
    BY <1>1, <2>1 DEF SignalIf
<1>2. CASE ~holds
  BY <1>2, EmptySeq DEF SignalIf
<1>3. QED
  BY <1>1, <1>2

\* The detectors give a sequence of types and keys.
LEMMA SignalsType ==
    ASSUME NEW e \in Events
    PROVE  /\ SignalsOf[e] \in Seq(SignalSet) /\ Len(SignalsOf[e]) \in Nat
           /\ \A i \in 1 .. Len(SignalsOf[e]) : SignalsOf[e][i] \in SignalSet
<1> DEFINE s == Shape[e]
           a == SignalIf(s.kind = "ddos" /\ s.endpoint # None, "DDOS_ENDPOINT_FANIN",
                         s.endpoint)
           b == SignalIf(s.ip # None, "VPN_IP_REUSE", s.ip)
           c == SignalIf(s.kind = "dfir" /\ s.indicator /\ IndicatorKey(s) # None,
                         "IOC_INDICATOR_CLUSTER", IndicatorKey(s))
<1>1. s \in Shapes /\ IndicatorKey(s) \in Keys \cup {None}
  BY DEF Shapes, IndicatorKey
<1>2. a \in Seq(SignalSet)
  BY <1>1, SignalIfType DEF Shapes, Types
<1>3. b \in Seq(SignalSet)
  BY <1>1, SignalIfType DEF Shapes, Types
<1>4. c \in Seq(SignalSet)
  BY <1>1, SignalIfType DEF Shapes, Types
<1>5. SignalsOf[e] = a \o b \o c
  BY DEF SignalsOf
<1> HIDE DEF a, b, c
<1>6. a \o b \in Seq(SignalSet)
  BY <1>2, <1>3, ConcatProperties
<1>7. (a \o b) \o c \in Seq(SignalSet)
  BY <1>4, <1>6, ConcatProperties
<1>8. SignalsOf[e] \in Seq(SignalSet)
  BY <1>5, <1>7
<1>9. QED
  BY <1>8, LenProperties, ElementOfSeq

\* Entities are counted by what they are.
LEMMA EntitiesInEqual ==
    ASSUME NEW c, NEW S, NEW T, \A x \in Entities : <<c, x>> \in S <=> <<c, x>> \in T
    PROVE  EntitiesIn(c, S) = EntitiesIn(c, T)
<1>1. {x \in Entities : <<c, x>> \in S} = {x \in Entities : <<c, x>> \in T}
  OBVIOUS
<1>2. QED
  BY <1>1 DEF EntitiesIn

LEMMA EntitiesInType == \A c, S : EntitiesIn(c, S) \in Nat
<1> SUFFICES ASSUME NEW c, NEW S PROVE EntitiesIn(c, S) \in Nat
  OBVIOUS
<1>1. IsFiniteSet({x \in Entities : <<c, x>> \in S})
  BY FS_Subset
<1>2. QED
  BY <1>1, FS_CardinalityType DEF EntitiesIn

\* A campaign in memory after an update.
CountedIn(v, t, n) ==
    [v EXCEPT !.row = [v.row EXCEPT !.last = Maximum(@, t), !.count = @ + 1, !.distinct = n]]

LEMMA CountedInType ==
    ASSUME NEW v \in Loaded, NEW t \in Nat, NEW n \in Nat
    PROVE  /\ CountedIn(v, t, n) \in Loaded
           /\ CountedIn(v, t, n).new = v.new /\ CountedIn(v, t, n).loaded = v.loaded
           /\ CountedIn(v, t, n).row.type = v.row.type
           /\ CountedIn(v, t, n).row.key = v.row.key
           /\ CountedIn(v, t, n).row.last = Maximum(v.row.last, t)
           /\ CountedIn(v, t, n).row.distinct = n
<1> DEFINE r == v.row
           q1 == [r EXCEPT !.last = Maximum(@, t)]
           q2 == [q1 EXCEPT !.count = @ + 1]
           q == [q2 EXCEPT !.distinct = n]
           z == [v EXCEPT !.row = q]
<1>1. r \in Campaigns /\ Maximum(r.last, t) \in Nat
  BY DEF Loaded, Campaigns, Maximum
<1>2. /\ q \in Campaigns /\ q.type = r.type /\ q.key = r.key
      /\ q.last = Maximum(r.last, t) /\ q.distinct = n
  <2>1. q1 \in Campaigns /\ q1.type = r.type /\ q1.key = r.key /\ q1.last = Maximum(r.last, t)
    BY <1>1 DEF Campaigns
  <2> HIDE DEF q1
  <2>2. q2 \in Campaigns /\ q2.type = r.type /\ q2.key = r.key /\ q2.last = Maximum(r.last, t)
    BY <2>1 DEF Campaigns
  <2> HIDE DEF q2
  <2>3. QED
    BY <2>2 DEF Campaigns
<1>3. CountedIn(v, t, n) = z
  BY DEF CountedIn
<1> HIDE DEF q
<1>4. z \in Loaded /\ z.row = q /\ z.new = v.new /\ z.loaded = v.loaded
  BY <1>2 DEF Loaded
<1> HIDE DEF z
<1>5. QED
  BY <1>2, <1>3, <1>4

LEMMA CountedInKey ==
    ASSUME NEW v \in Loaded, NEW t \in Nat, NEW n \in Nat
    PROVE  CountedIn(v, t, n).row.key = v.row.key
<1>1. v.row \in Campaigns
  BY DEF Loaded
<1>2. CountedIn(v, t, n).row =
         [v.row EXCEPT !.last = Maximum(@, t), !.count = @ + 1, !.distinct = n]
  BY DEF CountedIn, Loaded
<1>3. QED
  BY <1>1, <1>2 DEF Campaigns

LEMMA CountedInLast ==
    ASSUME NEW v \in Loaded, NEW t \in Nat, NEW n \in Nat
    PROVE  CountedIn(v, t, n).row.last = Maximum(v.row.last, t)
<1>1. v.row \in Campaigns
  BY DEF Loaded
<1>2. CountedIn(v, t, n).row =
         [v.row EXCEPT !.last = Maximum(@, t), !.count = @ + 1, !.distinct = n]
  BY DEF CountedIn, Loaded
<1>3. QED
  BY <1>1, <1>2 DEF Campaigns

LEMMA CountedInDistinct ==
    ASSUME NEW v \in Loaded, NEW t \in Nat, NEW n \in Nat
    PROVE  CountedIn(v, t, n).row.distinct = n
<1>1. v.row \in Campaigns
  BY DEF Loaded
<1>2. CountedIn(v, t, n).row =
         [v.row EXCEPT !.last = Maximum(@, t), !.count = @ + 1, !.distinct = n]
  BY DEF CountedIn, Loaded
<1>3. QED
  BY <1>1, <1>2 DEF Campaigns

LEMMA CountedView ==
    \A w, c, t, n : Counted(w, c, t, n) =
        [view EXCEPT ![w] = [view[w] EXCEPT ![c] = CountedIn(view[w][c], t, n)]]
  BY DEF Counted, CountedIn

-----------------------------------------------------------------------------
(* Types, and what a session holds.                                        *)

\* A session links only its own event, to campaigns it has in memory; these are
\* its own creations or committed ones, whose key stays.
SessionOK(w) ==
    /\ pc[w] # "idle" => job[w] \in Events /\ at[w] > 0
    /\ pc[w] = "update" => /\ at[w] <= Len(SignalsOf[job[w]])
                           /\ <<current[w], job[w]>> \in myLinks[w]
    /\ pc[w] = "idle" => /\ myLinks[w] = {} /\ myEnts[w] = {}
                         /\ \A c \in Ids : view[w][c] = NotLoaded
    /\ \A l \in myLinks[w] : l[2] = job[w] /\ view[w][l[1]] # NotLoaded
    /\ \A c \in Ids : view[w][c] # NotLoaded =>
          IF view[w][c].new THEN ~Exists(c)
          ELSE Exists(c) /\ rows[c].key = view[w][c].row.key

CreatedOnce == \A v, w \in Appliers : \A c \in Created(v) \cap Created(w) : v = w

LinksExist == \A l \in links : Exists(l[1])

CampInv == /\ TypeOK /\ CreatedOnce /\ LinksExist
           /\ \A w \in Appliers : SessionOK(w)

LEMMA CampInit == Init => CampInv
<1> SUFFICES ASSUME Init PROVE CampInv
  OBVIOUS
<1>1. TypeOK
  BY DEF Init, TypeOK
<1>2. CreatedOnce /\ LinksExist
  BY DEF Init, CreatedOnce, Created, LinksExist
<1>3. ASSUME NEW w \in Appliers PROVE SessionOK(w)
  BY <1>3 DEF Init, SessionOK
<1>4. QED
  BY <1>1, <1>2, <1>3 DEF CampInv

\* The campaign of a signal: in memory already, read from its row, or new.
LEMMA FoundCampaign ==
    ASSUME CampInv, NEW w \in Appliers, pc[w] = "read",
           at[w] <= Len(SignalsOf[job[w]]), NEW c \in Ids, FindOrCreate(w, c)
    PROVE  \E n \in Loaded :
              /\ view' = [view EXCEPT ![w] = [view[w] EXCEPT ![c] = n]]
              /\ n.row.key = Signal(w).key
              /\ view[w][c] # NotLoaded => n = view[w][c]
              /\ view[w][c] = NotLoaded =>
                    IF n.new THEN ~Exists(c) /\ \A v \in Appliers : c \notin Created(v)
                    ELSE Exists(c) /\ rows[c].key = n.row.key
<1>1. /\ rows[c] \in Campaigns \cup {NoRow} /\ view[w][c] \in Loaded \cup {NotLoaded}
      /\ view \in [Appliers -> [Ids -> Loaded \cup {NotLoaded}]]
      /\ job[w] \in Events /\ at[w] \in Nat /\ at[w] > 0
      /\ view[w][c] # NotLoaded =>
            IF view[w][c].new THEN ~Exists(c)
            ELSE Exists(c) /\ rows[c].key = view[w][c].row.key
  <2>1. SessionOK(w) /\ TypeOK
    BY DEF CampInv
  <2>2. /\ rows[c] \in Campaigns \cup {NoRow} /\ view[w][c] \in Loaded \cup {NotLoaded}
        /\ view \in [Appliers -> [Ids -> Loaded \cup {NotLoaded}]] /\ at[w] \in Nat
    BY <2>1 DEF TypeOK
  <2>3. job[w] \in Events /\ at[w] > 0
    BY <2>1 DEF SessionOK
  <2>4. QED
    BY <2>1, <2>2, <2>3 DEF SessionOK
<1>2. Signal(w) \in SignalSet
  <2>1. at[w] \in 1 .. Len(SignalsOf[job[w]])
    BY <1>1, SignalsType
  <2>2. QED
    BY <1>1, <2>1, SignalsType DEF Signal
<1>3. CASE Matches(w, Signal(w)) # {}
  <2>1. /\ c \in Matches(w, Signal(w))
        /\ view' = [view EXCEPT ![w][c] = Found(w, c)]
    BY <1>3 DEF FindOrCreate, Latest
  <2>2. Exists(c) \/ c \in Created(w)
    BY <2>1 DEF Matches
  <2>3. RowIn(w, c).key = Signal(w).key
    BY <2>1 DEF Matches
  <2>4. CASE view[w][c] # NotLoaded
    <3>1. Found(w, c) = view[w][c] /\ view[w][c] \in Loaded
      BY <1>1, <2>4 DEF Found
    <3>2. view[w][c].row.key = Signal(w).key
      BY <1>1, <2>3, <2>4, <3>1 DEF RowIn, Created, Loaded, Campaigns
    <3>3. view' = [view EXCEPT ![w] = [view[w] EXCEPT ![c] = view[w][c]]]
      BY <2>1, <3>1
    <3>4. QED
      BY <2>4, <3>1, <3>2, <3>3
  <2>5. CASE view[w][c] = NotLoaded
    <3>1. Exists(c) /\ rows[c] \in Campaigns /\ RowIn(w, c) = rows[c]
      BY <1>1, <2>2, <2>5 DEF Created, Exists, RowIn
    <3> DEFINE f == [row |-> rows[c], loaded |-> rows[c].last, new |-> FALSE]
    <3>2. f \in Loaded /\ f.row = rows[c] /\ ~f.new /\ Found(w, c) = f
      BY <2>5, <3>1 DEF Found, Loaded, Campaigns
    <3> HIDE DEF f
    <3>3. view' = [view EXCEPT ![w] = [view[w] EXCEPT ![c] = f]]
      BY <2>1, <3>2
    <3>4. QED
      BY <2>3, <2>5, <3>1, <3>2, <3>3
  <2>6. QED
    BY <2>4, <2>5
<1>4. CASE Matches(w, Signal(w)) = {}
  <2> DEFINE f == Fresh(Signal(w), Occurred[job[w]])
  <2>1. NewId(c) /\ view' = [view EXCEPT ![w][c] = f]
    BY <1>4 DEF FindOrCreate
  <2>2. ~Exists(c) /\ \A v \in Appliers : c \notin Created(v)
    BY <2>1 DEF NewId, Used
  <2>3. f \in Loaded /\ f.row.key = Signal(w).key /\ f.new
    BY <1>1, <1>2 DEF Fresh, Loaded, Campaigns, SignalSet
  <2> HIDE DEF f
  <2>4. view[w][c] = NotLoaded
    BY <1>1, <2>2 DEF Created
  <2>5. view' = [view EXCEPT ![w] = [view[w] EXCEPT ![c] = f]]
    BY <2>1
  <2>6. QED
    BY <2>2, <2>3, <2>4, <2>5
<1>5. QED
  BY <1>3, <1>4

\* What a commit leaves in the row of a campaign.
LEMMA FlushedRow ==
    ASSUME CampInv, NEW w \in Appliers, NEW c \in Ids
    PROVE  /\ Flushed(w, c) \in Campaigns \cup {NoRow}
           /\ Exists(c) => Flushed(w, c) # NoRow /\ Flushed(w, c).key = rows[c].key
           /\ (~Exists(c) /\ Flushed(w, c) # NoRow) => c \in Created(w)
           /\ (\E l \in myLinks[w] : l[1] = c) =>
                 /\ Flushed(w, c) # NoRow
                 /\ Flushed(w, c).key = view[w][c].row.key
                 /\ Flushed(w, c).distinct = view[w][c].row.distinct
                 /\ view[w][c].new => Flushed(w, c) = view[w][c].row
                 /\ ~view[w][c].new =>
                       Flushed(w, c).last \in {rows[c].last, view[w][c].row.last}
           /\ (\A l \in myLinks[w] : l[1] # c) => Flushed(w, c) = rows[c]
<1>1. /\ rows[c] \in Campaigns \cup {NoRow} /\ view[w][c] \in Loaded \cup {NotLoaded}
      /\ view[w][c] # NotLoaded =>
            IF view[w][c].new THEN ~Exists(c)
            ELSE Exists(c) /\ rows[c].key = view[w][c].row.key
      /\ \A l \in myLinks[w] : view[w][l[1]] # NotLoaded
      /\ NoRow \notin Campaigns
  <2>1. SessionOK(w) /\ TypeOK
    BY DEF CampInv
  <2>2. rows[c] \in Campaigns \cup {NoRow} /\ view[w][c] \in Loaded \cup {NotLoaded}
    BY <2>1 DEF TypeOK
  <2>3. QED
    BY <2>1, <2>2, NoRowIsNoCampaign DEF SessionOK
<1>2. CASE \A l \in myLinks[w] : l[1] # c
  BY <1>1, <1>2 DEF Flushed, Exists
<1>3. CASE (\E l \in myLinks[w] : l[1] = c) /\ view[w][c].new
  <2>1. view[w][c] \in Loaded /\ view[w][c] # NotLoaded
    BY <1>1, <1>3
  <2>2. Flushed(w, c) = view[w][c].row /\ view[w][c].row \in Campaigns
    BY <1>3, <2>1 DEF Flushed, Loaded
  <2>3. c \in Created(w) /\ ~Exists(c)
    BY <1>1, <1>3, <2>1 DEF Created
  <2>4. QED
    BY <1>1, <1>3, <2>2, <2>3
<1>4. CASE (\E l \in myLinks[w] : l[1] = c) /\ ~view[w][c].new
  <2>1. view[w][c] \in Loaded /\ view[w][c] # NotLoaded
    BY <1>1, <1>4
  <2>2. Exists(c) /\ rows[c].key = view[w][c].row.key /\ rows[c] \in Campaigns
    BY <1>1, <1>4, <2>1 DEF Exists
  <2> DEFINE r == view[w][c].row
             t == IF r.last = view[w][c].loaded THEN rows[c].last ELSE r.last
  <2>3. r \in Campaigns /\ t \in Nat /\ t \in {rows[c].last, r.last}
    BY <2>1, <2>2 DEF Loaded, Campaigns
  <2>4. Flushed(w, c) = [r EXCEPT !.last = t]
    BY <1>4, <2>1 DEF Flushed
  <2> HIDE DEF t
  <2>5. /\ [r EXCEPT !.last = t] \in Campaigns /\ [r EXCEPT !.last = t].key = r.key
        /\ [r EXCEPT !.last = t].distinct = r.distinct /\ [r EXCEPT !.last = t].last = t
    BY <2>3 DEF Campaigns
  <2>6. QED
    BY <1>1, <1>4, <2>2, <2>3, <2>4, <2>5
<1>5. QED
  BY <1>2, <1>3, <1>4

LEMMA OtherSession ==
    ASSUME NEW v \in Appliers, SessionOK(v),
           pc'[v] = pc[v], job'[v] = job[v], at'[v] = at[v], current'[v] = current[v],
           view'[v] = view[v], myLinks'[v] = myLinks[v], myEnts'[v] = myEnts[v],
           \A c \in Ids : Exists(c) => Exists(c)' /\ rows'[c].key = rows[c].key,
           \A c \in Created(v) : ~Exists(c) => ~Exists(c)'
    PROVE  SessionOK(v)'
<1>1. \A c \in Ids : view[v][c] # NotLoaded =>
         IF view[v][c].new THEN ~Exists(c)'
         ELSE Exists(c)' /\ rows'[c].key = view[v][c].row.key
  BY DEF SessionOK, Created
<1>2. QED
  BY <1>1 DEF SessionOK

\* A session that is over.
LEMMA ClosedSession ==
    ASSUME CampInv, NEW w \in Appliers, Close(w)
    PROVE  /\ SessionOK(w)'
           /\ \A v \in Appliers : Created(v)' \subseteq Created(v)
           /\ \A v \in Appliers \ {w} :
                 /\ pc'[v] = pc[v] /\ job'[v] = job[v] /\ at'[v] = at[v]
                 /\ current'[v] = current[v] /\ view'[v] = view[v]
                 /\ myLinks'[v] = myLinks[v] /\ myEnts'[v] = myEnts[v]
                 /\ Created(v)' = Created(v)
<1>1. TypeOK
  BY DEF CampInv
<1>2. /\ pc'[w] = "idle" /\ myLinks'[w] = {} /\ myEnts'[w] = {}
      /\ view'[w] = [c \in Ids |-> NotLoaded]
  BY <1>1 DEF Close, TypeOK
<1>3. SessionOK(w)'
  BY <1>2 DEF SessionOK
<1>4. \A v \in Appliers \ {w} :
         /\ pc'[v] = pc[v] /\ job'[v] = job[v] /\ at'[v] = at[v]
         /\ current'[v] = current[v] /\ view'[v] = view[v]
         /\ myLinks'[v] = myLinks[v] /\ myEnts'[v] = myEnts[v]
  BY <1>1 DEF Close, TypeOK
<1>5. Created(w)' = {} /\ \A v \in Appliers \ {w} : Created(v)' = Created(v)
  BY <1>2, <1>4 DEF Created
<1>6. QED
  BY <1>3, <1>4, <1>5

LEMMA ClosedType ==
    ASSUME CampInv, NEW w \in Appliers, Close(w), now' = now, applies' = applies,
           rows' \in [Ids -> Campaigns \cup {NoRow}],
           links' \subseteq Ids \X Events, ents' \subseteq Ids \X Entities,
           applied' \subseteq Events
    PROVE  TypeOK'
<1>1. TypeOK
  BY DEF CampInv
<1>2. /\ pc' \in [Appliers -> {"idle", "read", "update"}]
      /\ job' \in [Appliers -> Events \cup {None}]
      /\ at' \in [Appliers -> Nat] /\ since' \in [Appliers -> 0 .. now]
      /\ current' \in [Appliers -> Ids \cup {0}]
  BY <1>1 DEF Close, TypeOK
<1>3. view' \in [Appliers -> [Ids -> Loaded \cup {NotLoaded}]]
  BY <1>1 DEF Close, TypeOK
<1>4. /\ myLinks' \in [Appliers -> SUBSET (Ids \X Events)]
      /\ myEnts' \in [Appliers -> SUBSET (Ids \X Entities)]
  BY <1>1 DEF Close, TypeOK
<1>5. ASSUME NEW v \in Appliers, pc'[v] = "update"
      PROVE  current'[v] \in Ids /\ view'[v][current'[v]] # NotLoaded
  <2>1. v # w
    BY <1>1, <1>5 DEF Close, TypeOK
  <2>2. pc[v] = "update" /\ current'[v] = current[v] /\ view'[v] = view[v]
    BY <1>5, <2>1, ClosedSession
  <2>3. QED
    BY <1>1, <2>2 DEF TypeOK
<1>6. QED
  BY <1>1, <1>2, <1>3, <1>4, <1>5 DEF TypeOK

LEMMA CampUnchanged == ASSUME CampInv, UNCHANGED vars PROVE CampInv'
<1>1. TypeOK'
  BY DEF CampInv, TypeOK, vars, tables, session
<1>2. CreatedOnce' /\ LinksExist'
  BY DEF CampInv, CreatedOnce, Created, LinksExist, Exists, vars, tables, session
<1>3. ASSUME NEW w \in Appliers PROVE SessionOK(w)'
  <2>1. SessionOK(w)
    BY DEF CampInv
  <2>2. QED
    BY <2>1 DEF SessionOK, Exists, vars, tables, session
<1>4. QED
  BY <1>1, <1>2, <1>3 DEF CampInv

LEMMA CampTick == ASSUME CampInv, Tick PROVE CampInv'
<1>1. TypeOK'
  <2>1. TypeOK
    BY DEF CampInv
  <2>2. now' \in 0 .. MaxNow /\ since' \in [Appliers -> 0 .. now']
    <3>1. now \in Nat /\ now' = now + 1 /\ now' <= MaxNow /\ since' = since
      BY <2>1 DEF Tick, session, TypeOK
    <3>2. \A v \in Appliers : since[v] \in 0 .. now'
      BY <2>1, <3>1 DEF TypeOK
    <3>3. QED
      BY <2>1, <3>1, <3>2 DEF TypeOK
  <2>3. QED
    BY <2>1, <2>2 DEF Tick, tables, session, TypeOK
<1>2. CreatedOnce' /\ LinksExist'
  BY DEF CampInv, CreatedOnce, Created, LinksExist, Exists, Tick, tables, session
<1>3. ASSUME NEW w \in Appliers PROVE SessionOK(w)'
  <2>1. SessionOK(w)
    BY DEF CampInv
  <2>2. QED
    BY <2>1 DEF SessionOK, Exists, Tick, tables, session
<1>4. QED
  BY <1>1, <1>2, <1>3 DEF CampInv

LEMMA CampBegin ==
    ASSUME CampInv, NEW w \in Appliers, NEW e \in Events, Begin(w, e)
    PROVE  CampInv'
<1>1. TypeOK /\ SessionOK(w)
  BY DEF CampInv
<1>2. TypeOK'
  BY <1>1 DEF Begin, TypeOK, tables
<1>3. CreatedOnce' /\ LinksExist'
  BY DEF CampInv, CreatedOnce, Created, LinksExist, Exists, Begin, tables
<1>4. SessionOK(w)'
  <2>1. /\ pc[w] = "idle" /\ pc'[w] = "read" /\ job'[w] = e /\ at'[w] = 1
        /\ myLinks' = myLinks /\ myEnts' = myEnts /\ view' = view /\ rows' = rows
    BY <1>1 DEF Begin, TypeOK, tables
  <2>2. QED
    BY <1>1, <2>1 DEF SessionOK, Exists
<1>5. ASSUME NEW v \in Appliers, v # w PROVE SessionOK(v)'
  <2>1. SessionOK(v)
    BY DEF CampInv
  <2>2. /\ pc'[v] = pc[v] /\ job'[v] = job[v] /\ at'[v] = at[v]
        /\ current'[v] = current[v] /\ view' = view /\ rows' = rows
        /\ myLinks' = myLinks /\ myEnts' = myEnts
    BY <1>1, <1>5 DEF Begin, TypeOK, tables
  <2>3. QED
    BY <2>1, <2>2, OtherSession DEF Exists
<1>6. QED
  BY <1>2, <1>3, <1>4, <1>5 DEF CampInv

LEMMA CampRead == ASSUME CampInv, NEW w \in Appliers, Read(w) PROVE CampInv'
<1>1. TypeOK /\ SessionOK(w) /\ CreatedOnce /\ LinksExist
  BY DEF CampInv
<1>2. PICK c \in Ids :
         /\ FindOrCreate(w, c)
         /\ IF Linked(w, <<c, job[w]>>)
            THEN /\ at' = [at EXCEPT ![w] = @ + 1]
                 /\ UNCHANGED <<pc, current, myLinks>>
            ELSE /\ myLinks' = [myLinks EXCEPT ![w] = @ \cup {<<c, job[w]>>}]
                 /\ current' = [current EXCEPT ![w] = c]
                 /\ pc' = [pc EXCEPT ![w] = "update"]
                 /\ UNCHANGED at
  BY DEF Read
<1>3. /\ pc[w] = "read" /\ at[w] <= Len(SignalsOf[job[w]])
      /\ now' = now /\ rows' = rows /\ links' = links /\ ents' = ents /\ job' = job
      /\ since' = since /\ myEnts' = myEnts /\ applied' = applied /\ applies' = applies
  BY DEF Read, tables
<1>4. PICK n \in Loaded :
         /\ view' = [view EXCEPT ![w] = [view[w] EXCEPT ![c] = n]]
         /\ n.row.key = Signal(w).key
         /\ view[w][c] # NotLoaded => n = view[w][c]
         /\ view[w][c] = NotLoaded =>
               IF n.new THEN ~Exists(c) /\ \A v \in Appliers : c \notin Created(v)
               ELSE Exists(c) /\ rows[c].key = n.row.key
  BY <1>2, <1>3, FoundCampaign
<1>5. job[w] \in Events /\ at[w] \in Nat /\ at[w] > 0
  BY <1>1, <1>3 DEF SessionOK, TypeOK
<1>6. /\ view'[w][c] = n /\ n # NotLoaded
      /\ \A d \in Ids : d # c => view'[w][d] = view[w][d]
      /\ \A v \in Appliers : v # w => view'[v] = view[v]
      /\ view' \in [Appliers -> [Ids -> Loaded \cup {NotLoaded}]]
  BY <1>1, <1>4, NotLoadedIsNotLoaded DEF TypeOK
<1>7. \A d \in Ids : view[w][d] # NotLoaded => view'[w][d] = view[w][d]
  BY <1>4, <1>6
<1>8. TypeOK'
  <2>1. CASE Linked(w, <<c, job[w]>>)
    <3>1. at' \in [Appliers -> Nat] /\ UNCHANGED <<pc, current, myLinks>>
      BY <1>1, <1>2, <2>1 DEF TypeOK
    <3>2. ASSUME NEW v \in Appliers, pc[v] = "update"
          PROVE  current[v] \in Ids /\ view'[v][current[v]] # NotLoaded
      BY <1>1, <1>6, <1>7, <3>2 DEF TypeOK
    <3>3. QED
      BY <1>1, <1>3, <1>6, <3>1, <3>2 DEF TypeOK
  <2>2. CASE ~Linked(w, <<c, job[w]>>)
    <3>1. /\ myLinks' \in [Appliers -> SUBSET (Ids \X Events)]
          /\ current' \in [Appliers -> Ids \cup {0}]
          /\ pc' \in [Appliers -> {"idle", "read", "update"}] /\ at' = at
      <4>1. <<c, job[w]>> \in Ids \X Events
        BY <1>5
      <4>2. \A v \in Appliers : myLinks[v] \cup {<<c, job[w]>>} \in SUBSET (Ids \X Events)
        BY <1>1, <4>1 DEF TypeOK
      <4>3. /\ myLinks' = [myLinks EXCEPT ![w] = @ \cup {<<c, job[w]>>}]
            /\ current' = [current EXCEPT ![w] = c] /\ pc' = [pc EXCEPT ![w] = "update"]
            /\ at' = at
        BY <1>2, <2>2
      <4>4. myLinks' \in [Appliers -> SUBSET (Ids \X Events)]
        BY <1>1, <4>2, <4>3 DEF TypeOK
      <4>5. QED
        BY <1>1, <4>3, <4>4 DEF TypeOK
    <3>2. ASSUME NEW v \in Appliers, pc'[v] = "update"
          PROVE  current'[v] \in Ids /\ view'[v][current'[v]] # NotLoaded
      BY <1>1, <1>2, <1>6, <1>7, <2>2, <3>2 DEF TypeOK
    <3>3. QED
      BY <1>1, <1>3, <1>6, <3>1, <3>2 DEF TypeOK
  <2>3. QED
    BY <2>1, <2>2
<1>9. CreatedOnce'
  <2>1. Created(w)' \subseteq Created(w) \cup {c}
    BY <1>6 DEF Created
  <2>2. \A v \in Appliers : v # w => Created(v)' = Created(v)
    BY <1>6 DEF Created
  <2>3. ASSUME NEW v \in Appliers, v # w, c \in Created(v) PROVE c \notin Created(w)'
    <3>1. c \notin Created(w)
      BY <1>1, <2>3 DEF CreatedOnce
    <3>2. SUFFICES ASSUME n.new PROVE FALSE
      BY <1>6 DEF Created
    <3>3. view[w][c] # NotLoaded
      BY <1>4, <2>3, <3>2
    <3>4. QED
      BY <1>4, <3>1, <3>2, <3>3 DEF Created
  <2>4. QED
    BY <1>1, <2>1, <2>2, <2>3 DEF CreatedOnce
<1>10. LinksExist'
  BY <1>1, <1>3 DEF LinksExist, Exists
<1>11. SessionOK(w)'
  <2>1. \A d \in Ids : view'[w][d] # NotLoaded =>
           IF view'[w][d].new THEN ~Exists(d)'
           ELSE Exists(d)' /\ rows'[d].key = view'[w][d].row.key
    BY <1>1, <1>3, <1>4, <1>6, <1>7 DEF SessionOK, Exists
  <2>2. CASE Linked(w, <<c, job[w]>>)
    <3>1. at'[w] = at[w] + 1 /\ UNCHANGED <<pc, current, myLinks>>
      BY <1>1, <1>2, <2>2 DEF TypeOK
    <3>2. \A l \in myLinks[w] : view'[w][l[1]] # NotLoaded
      BY <1>1, <1>7 DEF SessionOK, TypeOK
    <3>3. QED
      BY <1>1, <1>3, <1>5, <2>1, <3>1, <3>2 DEF SessionOK
  <2>3. CASE ~Linked(w, <<c, job[w]>>)
    <3>1. /\ myLinks'[w] = myLinks[w] \cup {<<c, job[w]>>} /\ at' = at
          /\ current'[w] = c /\ pc'[w] = "update"
      BY <1>1, <1>2, <2>3 DEF TypeOK
    <3>2. \A l \in myLinks'[w] : l[2] = job'[w] /\ view'[w][l[1]] # NotLoaded
      BY <1>1, <1>3, <1>6, <1>7, <3>1 DEF SessionOK, TypeOK
    <3>3. QED
      BY <1>3, <1>5, <2>1, <3>1, <3>2 DEF SessionOK
  <2>4. QED
    BY <2>2, <2>3
<1>12. ASSUME NEW v \in Appliers, v # w PROVE SessionOK(v)'
  <2>1. SessionOK(v)
    BY DEF CampInv
  <2>2. /\ pc'[v] = pc[v] /\ at'[v] = at[v] /\ current'[v] = current[v]
        /\ myLinks'[v] = myLinks[v]
    BY <1>1, <1>2, <1>12 DEF TypeOK
  <2>3. QED
    BY <1>3, <1>6, <1>12, <2>1, <2>2, OtherSession DEF Exists
<1>13. QED
  BY <1>8, <1>9, <1>10, <1>11, <1>12 DEF CampInv

\* The facts about an update that the proofs go by.
LEMMA UpdateView ==
    ASSUME CampInv, NEW w \in Appliers, Update(w)
    PROVE  /\ current[w] \in Ids /\ view[w][current[w]] \in Loaded
           /\ view[w][current[w]] # NotLoaded
           /\ job[w] \in Events /\ at[w] \in 1 .. Len(SignalsOf[job[w]])
           /\ Occurred[job[w]] \in Nat
           /\ EntitiesIn(current[w], ents \cup myEnts'[w]) \in Nat
           /\ view' = [view EXCEPT ![w] = [view[w] EXCEPT ![current[w]] =
                         CountedIn(view[w][current[w]], Occurred[job[w]],
                                   EntitiesIn(current[w], ents \cup myEnts'[w]))]]
<1> DEFINE c == current[w]
           mine == myEnts[w] \cup {<<c, x>> : x \in PeopleIn(job[w], Signal(w))}
<1>1. TypeOK /\ SessionOK(w) /\ pc[w] = "update"
  BY DEF CampInv, Update
<1>2. c \in Ids /\ view[w][c] \in Loaded /\ view[w][c] # NotLoaded
  BY <1>1 DEF TypeOK
<1>3. job[w] \in Events /\ at[w] \in Nat /\ at[w] > 0 /\ at[w] <= Len(SignalsOf[job[w]])
  BY <1>1 DEF SessionOK, TypeOK
<1>4. at[w] \in 1 .. Len(SignalsOf[job[w]]) /\ Occurred[job[w]] \in Nat
  BY <1>3, SignalsType
<1>5. /\ myEnts' = [myEnts EXCEPT ![w] = mine]
      /\ view' = Counted(w, c, Occurred[job[w]], EntitiesIn(c, ents \cup mine))
  BY DEF Update
<1>6. myEnts'[w] = mine
  BY <1>1, <1>5 DEF TypeOK
<1> HIDE DEF c, mine
<1>7. EntitiesIn(c, ents \cup mine) \in Nat
  BY EntitiesInType
<1>8. QED
  BY <1>2, <1>3, <1>4, <1>5, <1>6, <1>7, CountedView DEF c

LEMMA PeopleType == \A e \in Events, sig \in SignalSet : PeopleIn(e, sig) \subseteq Entities
  BY DEF PeopleIn

LEMMA CampUpdate == ASSUME CampInv, NEW w \in Appliers, Update(w) PROVE CampInv'
<1> DEFINE c == current[w]
           mine == myEnts[w] \cup {<<c, x>> : x \in PeopleIn(job[w], Signal(w))}
<1>1. TypeOK /\ SessionOK(w) /\ CreatedOnce /\ LinksExist
  BY DEF CampInv
<1>2. /\ pc[w] = "update" /\ pc' = [pc EXCEPT ![w] = "read"]
      /\ at' = [at EXCEPT ![w] = @ + 1] /\ myEnts' = [myEnts EXCEPT ![w] = mine]
      /\ now' = now /\ rows' = rows /\ links' = links /\ ents' = ents /\ job' = job
      /\ since' = since /\ current' = current /\ myLinks' = myLinks
      /\ applied' = applied /\ applies' = applies
  BY DEF Update, tables
<1>3. /\ c \in Ids /\ view[w][c] \in Loaded /\ view[w][c] # NotLoaded /\ job[w] \in Events
      /\ at[w] \in 1 .. Len(SignalsOf[job[w]])
  BY UpdateView
<1> DEFINE t == Occurred[job[w]]
           n == EntitiesIn(c, ents \cup myEnts'[w])
           u == CountedIn(view[w][c], t, n)
<1>4. /\ u \in Loaded /\ view' = [view EXCEPT ![w] = [view[w] EXCEPT ![c] = u]]
      /\ u.new = view[w][c].new /\ u.row.key = view[w][c].row.key
  <2>1. /\ view[w][c] \in Loaded /\ t \in Nat /\ n \in Nat
        /\ view' = [view EXCEPT ![w] = [view[w] EXCEPT ![c] = u]]
    BY UpdateView DEF c
  <2> HIDE DEF t, n
  <2>2. u \in Loaded /\ u.new = view[w][c].new /\ u.row.key = view[w][c].row.key
    <3>1. view[w][c] \in Loaded
      BY <2>1
    <3>2. t \in Nat
      BY <2>1
    <3>3. n \in Nat
      BY <2>1
    <3>4. CountedIn(view[w][c], t, n) \in Loaded
      BY <3>1, <3>2, <3>3, CountedInType
    <3>5. CountedIn(view[w][c], t, n).new = view[w][c].new
      BY <3>1, <3>2, <3>3, CountedInType, SMTT(30)
    <3>6. CountedIn(view[w][c], t, n).row.key = view[w][c].row.key
      BY <3>1, <3>2, <3>3, CountedInKey
    <3>7. QED
      BY <3>4, <3>5, <3>6
  <2>3. QED
    BY <2>1, <2>2
<1> HIDE DEF u
<1>5. mine \subseteq Ids \X Entities
  <2>1. PeopleIn(job[w], Signal(w)) \subseteq Entities
    BY <1>3, SignalsType, PeopleType DEF Signal
  <2>2. QED
    BY <1>1, <1>3, <2>1 DEF TypeOK
<1> HIDE DEF c, mine
<1>6. /\ view'[w][c] = u /\ u # NotLoaded
      /\ \A d \in Ids : d # c => view'[w][d] = view[w][d]
      /\ \A v \in Appliers : v # w => view'[v] = view[v]
      /\ view' \in [Appliers -> [Ids -> Loaded \cup {NotLoaded}]]
  BY <1>1, <1>3, <1>4, NotLoadedIsNotLoaded DEF TypeOK
<1>7. TypeOK'
  <2>1. /\ pc' \in [Appliers -> {"idle", "read", "update"}] /\ at' \in [Appliers -> Nat]
        /\ myEnts' \in [Appliers -> SUBSET (Ids \X Entities)]
    BY <1>1, <1>2, <1>5 DEF TypeOK
  <2>2. ASSUME NEW v \in Appliers, pc'[v] = "update"
        PROVE  current[v] \in Ids /\ view'[v][current[v]] # NotLoaded
    BY <1>1, <1>2, <1>6, <2>2 DEF TypeOK
  <2>3. QED
    BY <1>1, <1>2, <1>6, <2>1, <2>2 DEF TypeOK
<1>8. \A v \in Appliers : Created(v)' = Created(v)
  BY <1>3, <1>4, <1>6 DEF Created
<1>9. CreatedOnce' /\ LinksExist'
  BY <1>1, <1>2, <1>8 DEF CreatedOnce, LinksExist, Exists
<1>10. SessionOK(w)'
  <2>1. \A d \in Ids : view'[w][d] # NotLoaded =>
           IF view'[w][d].new THEN ~Exists(d)'
           ELSE Exists(d)' /\ rows'[d].key = view'[w][d].row.key
    BY <1>1, <1>2, <1>3, <1>4, <1>6 DEF SessionOK, Exists
  <2>2. pc'[w] = "read" /\ at'[w] = at[w] + 1
    BY <1>1, <1>2 DEF TypeOK
  <2>3. \A l \in myLinks[w] : view'[w][l[1]] # NotLoaded
    <3>1. \A l \in myLinks[w] : l[1] \in Ids /\ view[w][l[1]] # NotLoaded
      <4>1. myLinks[w] \in SUBSET (Ids \X Events)
        BY <1>1 DEF TypeOK
      <4>2. QED
        BY <1>1, <4>1 DEF SessionOK
    <3>2. QED
      BY <1>6, <3>1
  <2>4. QED
    BY <1>1, <1>2, <1>3, <2>1, <2>2, <2>3 DEF SessionOK
<1>11. ASSUME NEW v \in Appliers, v # w PROVE SessionOK(v)'
  <2>1. SessionOK(v)
    BY DEF CampInv
  <2>2. pc'[v] = pc[v] /\ at'[v] = at[v] /\ myEnts'[v] = myEnts[v]
    BY <1>1, <1>2, <1>11 DEF TypeOK
  <2>3. QED
    BY <1>2, <1>6, <1>11, <2>1, <2>2, OtherSession DEF Exists
<1>12. QED
  BY <1>7, <1>9, <1>10, <1>11 DEF CampInv

LEMMA CampCommit == ASSUME CampInv, NEW w \in Appliers, CommitApply(w) PROVE CampInv'
<1>1. TypeOK /\ SessionOK(w) /\ CreatedOnce /\ LinksExist
  BY DEF CampInv
<1>2. /\ pc[w] = "read" /\ rows' = [c \in Ids |-> Flushed(w, c)]
      /\ links' = links \cup myLinks[w] /\ ents' = ents \cup myEnts[w]
      /\ applied' = applied \cup {job[w]} /\ Close(w) /\ now' = now /\ applies' = applies
  BY DEF CommitApply
<1>3. job[w] \in Events
  BY <1>1, <1>2 DEF SessionOK
<1>4. \A c \in Ids : rows'[c] = Flushed(w, c)
  BY <1>2
<1>5. ASSUME NEW c \in Ids
      PROVE  /\ rows'[c] \in Campaigns \cup {NoRow}
             /\ rows[c] # NoRow => rows'[c] # NoRow /\ rows'[c].key = rows[c].key
             /\ (rows[c] = NoRow /\ rows'[c] # NoRow) => c \in Created(w)
             /\ (\E l \in myLinks[w] : l[1] = c) => rows'[c] # NoRow
  BY <1>4, <1>5, FlushedRow DEF Exists
<1>r. \A c \in Ids : rows'[c] \in Campaigns \cup {NoRow}
  BY <1>5
<1>o. \A v \in Appliers \ {w} :
         /\ pc'[v] = pc[v] /\ job'[v] = job[v] /\ at'[v] = at[v]
         /\ current'[v] = current[v] /\ view'[v] = view[v]
         /\ myLinks'[v] = myLinks[v] /\ myEnts'[v] = myEnts[v]
  BY <1>2, ClosedSession
<1>c. \A v \in Appliers : Created(v)' \subseteq Created(v)
  BY <1>2, ClosedSession
<1>6. TypeOK'
  <2>1. rows' \in [Ids -> Campaigns \cup {NoRow}]
    <3>1. rows' = [c \in Ids |-> rows'[c]]
      BY <1>2
    <3>2. QED
      BY <1>r, <3>1
  <2>2. /\ links' \subseteq Ids \X Events /\ ents' \subseteq Ids \X Entities
        /\ applied' \subseteq Events
    BY <1>1, <1>2, <1>3 DEF TypeOK
  <2>3. QED
    BY <1>2, <2>1, <2>2, ClosedType
<1>7. CreatedOnce'
  BY <1>1, <1>c DEF CreatedOnce
<1>8. LinksExist'
  <2>1. ASSUME NEW l \in links' PROVE l \in Ids \X Events
    BY <1>1, <1>2, <2>1 DEF TypeOK
  <2>2. ASSUME NEW l \in links, l[1] \in Ids PROVE Exists(l[1])'
    BY <1>1, <1>5, <2>2 DEF LinksExist, Exists
  <2>3. ASSUME NEW l \in myLinks[w], l[1] \in Ids PROVE Exists(l[1])'
    BY <1>5, <2>3 DEF Exists
  <2>4. QED
    BY <1>2, <2>1, <2>2, <2>3 DEF LinksExist
<1>9. ASSUME NEW v \in Appliers, v # w PROVE SessionOK(v)'
  <2>1. SessionOK(v)
    BY DEF CampInv
  <2>2. ASSUME NEW c \in Created(v), ~Exists(c) PROVE ~Exists(c)'
    <3>1. c \in Ids /\ c \notin Created(w)
      BY <1>1, <1>9 DEF CreatedOnce, Created
    <3>2. QED
      BY <1>5, <2>2, <3>1 DEF Exists
  <2>3. /\ pc'[v] = pc[v] /\ job'[v] = job[v] /\ at'[v] = at[v]
        /\ current'[v] = current[v] /\ view'[v] = view[v]
        /\ myLinks'[v] = myLinks[v] /\ myEnts'[v] = myEnts[v]
    BY <1>o, <1>9
  <2>4. \A c \in Ids : Exists(c) => Exists(c)' /\ rows'[c].key = rows[c].key
    BY <1>5 DEF Exists
  <2>5. QED
    BY <2>1, <2>2, <2>3, <2>4, OtherSession
<1>10. SessionOK(w)'
  BY <1>2, ClosedSession
<1>11. QED
  BY <1>6, <1>7, <1>8, <1>9, <1>10 DEF CampInv

LEMMA CampRollback == ASSUME CampInv, NEW w \in Appliers, Rollback(w) PROVE CampInv'
<1>1. TypeOK /\ CreatedOnce /\ LinksExist
  BY DEF CampInv
<1>2. /\ Close(w) /\ now' = now /\ applies' = applies /\ rows' = rows /\ links' = links
      /\ ents' = ents /\ applied' = applied
  BY DEF Rollback, tables
<1>3. TypeOK'
  BY <1>1, <1>2, ClosedType DEF TypeOK
<1>4. CreatedOnce' /\ LinksExist'
  BY <1>1, <1>2, ClosedSession DEF CreatedOnce, LinksExist, Exists
<1>5. ASSUME NEW v \in Appliers, v # w PROVE SessionOK(v)'
  <2>1. SessionOK(v)
    BY DEF CampInv
  <2>2. /\ pc'[v] = pc[v] /\ job'[v] = job[v] /\ at'[v] = at[v]
        /\ current'[v] = current[v] /\ view'[v] = view[v]
        /\ myLinks'[v] = myLinks[v] /\ myEnts'[v] = myEnts[v]
    BY <1>2, <1>5, ClosedSession
  <2>3. QED
    BY <1>2, <2>1, <2>2, OtherSession DEF Exists
<1>6. SessionOK(w)'
  BY <1>2, ClosedSession
<1>7. QED
  BY <1>3, <1>4, <1>5, <1>6 DEF CampInv

LEMMA CampStep == CampInv /\ [Next]_vars => CampInv'
<1> SUFFICES ASSUME CampInv, [Next]_vars PROVE CampInv'
  OBVIOUS
<1>1. CASE Tick
  BY <1>1, CampTick
<1>2. CASE \E w \in Appliers, e \in Events : Begin(w, e)
  BY <1>2, CampBegin
<1>3. CASE \E w \in Appliers : Advance(w)
  BY <1>3, CampRead, CampUpdate, CampCommit DEF Advance
<1>4. CASE \E w \in Appliers : Rollback(w)
  BY <1>4, CampRollback
<1>5. CASE UNCHANGED vars
  BY <1>5, CampUnchanged
<1>6. QED
  BY <1>1, <1>2, <1>3, <1>4, <1>5 DEF Next

LEMMA CampAlways == Spec => []CampInv
<1>1. QED
  BY CampInit, CampStep, PTL DEF Spec

\* The variables keep their types, and a signal that is to be counted has its
\* campaign in the session's memory.
THEOREM CampaignTypeCorrect == Spec => []TypeOK
<1>1. CampInv => TypeOK
  BY DEF CampInv
<1>2. QED
  BY <1>1, CampAlways, PTL

-----------------------------------------------------------------------------
(* The statistics of a campaign.                                           *)

OneHolder == \A v, w \in Appliers : \A c \in Ids : HoldsLock(v, c) /\ HoldsLock(w, c) => v = w

\* Entities are inserted for campaigns whose lock the transaction holds, and
\* the statistics it has computed for those count the entities it sees.
HeldOK(w) == /\ \A p \in myEnts[w] : HoldsLock(w, p[1])
             /\ \A c \in Ids : HoldsLock(w, c) =>
                   view[w][c].row.distinct = EntitiesIn(c, ents \cup myEnts[w])

StatsInv == OneHolder /\ StatsAreExact /\ \A w \in Appliers : HeldOK(w)

LEMMA StatsInit == Init => StatsInv
<1> SUFFICES ASSUME Init PROVE StatsInv
  OBVIOUS
<1>1. \A w \in Appliers : myLinks[w] = {} /\ myEnts[w] = {}
  BY DEF Init
<1>2. OneHolder /\ \A w \in Appliers : HeldOK(w)
  BY <1>1 DEF OneHolder, HeldOK, HoldsLock
<1>3. StatsAreExact
  BY DEF Init, StatsAreExact, Exists
<1>4. QED
  BY <1>2, <1>3 DEF StatsInv

\* A step that changes neither what an applier holds nor what it has of it.
LEMMA HeldStays ==
    ASSUME NEW w \in Appliers, HeldOK(w), myEnts'[w] = myEnts[w],
           myEnts[w] \subseteq Ids \X Entities,
           \A c \in Ids : HoldsLock(w, c)' <=> HoldsLock(w, c),
           \A c \in Ids : HoldsLock(w, c) =>
               /\ view'[w][c] = view[w][c]
               /\ \A x \in Entities : <<c, x>> \in ents' <=> <<c, x>> \in ents
    PROVE  HeldOK(w)'
<1>1. ASSUME NEW p \in myEnts'[w] PROVE HoldsLock(w, p[1])'
  <2>1. p[1] \in Ids /\ HoldsLock(w, p[1])
    BY <1>1 DEF HeldOK
  <2>2. QED
    BY <2>1
<1>2. ASSUME NEW c \in Ids, HoldsLock(w, c)'
      PROVE  view'[w][c].row.distinct = EntitiesIn(c, ents' \cup myEnts'[w])
  <2>1. HoldsLock(w, c)
    BY <1>2
  <2>2. view[w][c].row.distinct = EntitiesIn(c, ents \cup myEnts[w])
    BY <2>1 DEF HeldOK
  <2>3. \A x \in Entities : <<c, x>> \in ents \cup myEnts[w] <=> <<c, x>> \in ents' \cup myEnts'[w]
    BY <2>1
  <2>4. EntitiesIn(c, ents \cup myEnts[w]) = EntitiesIn(c, ents' \cup myEnts'[w])
    BY <2>3, EntitiesInEqual
  <2>5. QED
    BY <2>1, <2>2, <2>4
<1>3. QED
  BY <1>1, <1>2 DEF HeldOK

\* A step that leaves the tables alone and changes no lock.
LEMMA StatsStay ==
    ASSUME CampInv, StatsInv, rows' = rows, ents' = ents, myEnts' = myEnts,
           \A w \in Appliers : \A c \in Ids :
               /\ HoldsLock(w, c)' <=> HoldsLock(w, c)
               /\ HoldsLock(w, c) => view'[w][c] = view[w][c]
    PROVE  StatsInv'
<1>1. StatsAreExact'
  BY DEF StatsInv, StatsAreExact, Exists
<1>2. OneHolder'
  BY DEF StatsInv, OneHolder
<1>3. ASSUME NEW w \in Appliers PROVE HeldOK(w)'
  <2>1. HeldOK(w) /\ myEnts[w] \subseteq Ids \X Entities
    BY DEF StatsInv, CampInv, TypeOK
  <2>2. QED
    BY <2>1, HeldStays
<1>4. QED
  BY <1>1, <1>2, <1>3 DEF StatsInv

LEMMA StatsSame ==
    ASSUME CampInv, StatsInv, UNCHANGED <<rows, ents, pc, current, view, myLinks, myEnts>>
    PROVE  StatsInv'
  BY StatsStay DEF HoldsLock

LEMMA StatsBegin ==
    ASSUME CampInv, StatsInv, NEW w \in Appliers, NEW e \in Events, Begin(w, e)
    PROVE  StatsInv'
<1>1. TypeOK /\ SessionOK(w)
  BY DEF CampInv
<1>2. /\ pc[w] = "idle" /\ pc' = [pc EXCEPT ![w] = "read"] /\ current' = current
      /\ rows' = rows /\ ents' = ents /\ view' = view /\ myLinks' = myLinks
      /\ myEnts' = myEnts
  BY DEF Begin, tables
<1>3. ASSUME NEW v \in Appliers, NEW c \in Ids
      PROVE  HoldsLock(v, c)' <=> HoldsLock(v, c)
  <2>1. CASE v = w
    BY <1>1, <1>2, <2>1 DEF HoldsLock, SessionOK
  <2>2. CASE v # w
    BY <1>1, <1>2, <2>2 DEF HoldsLock, TypeOK
  <2>3. QED
    BY <2>1, <2>2
<1>4. QED
  BY <1>2, <1>3, StatsStay

LEMMA StatsRead ==
    ASSUME CampInv, StatsInv, NEW w \in Appliers, Read(w)
    PROVE  StatsInv'
<1>1. TypeOK /\ SessionOK(w)
  BY DEF CampInv
<1>2. PICK c \in Ids :
         /\ FindOrCreate(w, c)
         /\ IF Linked(w, <<c, job[w]>>)
            THEN UNCHANGED <<pc, current, myLinks>>
            ELSE /\ myLinks' = [myLinks EXCEPT ![w] = @ \cup {<<c, job[w]>>}]
                 /\ current' = [current EXCEPT ![w] = c]
                 /\ pc' = [pc EXCEPT ![w] = "update"]
  BY DEF Read
<1>3. /\ pc[w] = "read" /\ at[w] <= Len(SignalsOf[job[w]])
      /\ rows' = rows /\ ents' = ents /\ myEnts' = myEnts
  BY DEF Read, tables
<1>4. PICK n \in Loaded :
         /\ view' = [view EXCEPT ![w] = [view[w] EXCEPT ![c] = n]]
         /\ view[w][c] # NotLoaded => n = view[w][c]
  BY <1>2, <1>3, FoundCampaign
<1>5. /\ \A d \in Ids : view[w][d] # NotLoaded => view'[w][d] = view[w][d]
      /\ \A v \in Appliers : v # w => view'[v] = view[v]
  BY <1>1, <1>4 DEF TypeOK
<1>6. ASSUME NEW v \in Appliers, NEW d \in Ids
      PROVE  HoldsLock(v, d)' <=> HoldsLock(v, d)
  <2>1. CASE Linked(w, <<c, job[w]>>)
    BY <1>2, <2>1 DEF HoldsLock
  <2>2. CASE ~Linked(w, <<c, job[w]>>) /\ v = w
    <3>1. /\ myLinks'[w] = myLinks[w] \cup {<<c, job[w]>>}
          /\ current'[w] = c /\ pc'[w] = "update"
      BY <1>1, <1>2, <2>2 DEF TypeOK
    <3>2. \A l \in myLinks[w] : l[1] # c
      <4>1. <<c, job[w]>> \notin myLinks[w]
        BY <2>2 DEF Linked
      <4>2. \A l \in myLinks[w] : l = <<l[1], l[2]>> /\ l[2] = job[w]
        BY <1>1 DEF TypeOK, SessionOK
      <4>3. QED
        BY <4>1, <4>2
    <3>3. QED
      BY <1>3, <2>2, <3>1, <3>2 DEF HoldsLock
  <2>3. CASE ~Linked(w, <<c, job[w]>>) /\ v # w
    <3>1. myLinks'[v] = myLinks[v] /\ current'[v] = current[v] /\ pc'[v] = pc[v]
      BY <1>1, <1>2, <2>3 DEF TypeOK
    <3>2. QED
      BY <3>1 DEF HoldsLock
  <2>4. QED
    BY <2>1, <2>2, <2>3
<1>7. ASSUME NEW v \in Appliers, NEW d \in Ids, HoldsLock(v, d)
      PROVE  view'[v][d] = view[v][d]
  <2>1. CASE v = w
    <3>1. view[w][d] # NotLoaded
      BY <1>1, <1>7, <2>1 DEF HoldsLock, SessionOK
    <3>2. QED
      BY <1>5, <2>1, <3>1
  <2>2. QED
    BY <1>5, <2>1
<1>8. QED
  BY <1>3, <1>6, <1>7, StatsStay

LEMMA StatsUpdate ==
    ASSUME CampInv, StatsInv, NEW w \in Appliers, Update(w)
    PROVE  StatsInv'
<1> DEFINE c == current[w]
           new == {<<c, x>> : x \in PeopleIn(job[w], Signal(w))}
           t == Occurred[job[w]]
           n == EntitiesIn(c, ents \cup myEnts'[w])
           u == CountedIn(view[w][c], t, n)
<1>1. TypeOK /\ SessionOK(w) /\ HeldOK(w) /\ OneHolder
  BY DEF CampInv, StatsInv
<1>2. /\ pc[w] = "update" /\ pc' = [pc EXCEPT ![w] = "read"]
      /\ myEnts' = [myEnts EXCEPT ![w] = myEnts[w] \cup new]
      /\ rows' = rows /\ ents' = ents /\ current' = current /\ myLinks' = myLinks
      /\ \A v \in Appliers \ {w} : ~HoldsLock(v, c)
  BY DEF Update, tables
<1>3. /\ c \in Ids /\ view[w][c] \in Loaded /\ t \in Nat /\ n \in Nat
      /\ view' = [view EXCEPT ![w] = [view[w] EXCEPT ![c] = u]]
  BY UpdateView
<1>4. \A p \in new : p[1] = c
  OBVIOUS
<1>5. <<c, job[w]>> \in myLinks[w]
  BY <1>1, <1>2 DEF SessionOK
<1>6. u.row.distinct = n
  <2>1. view[w][c] \in Loaded
    BY <1>3
  <2>2. t \in Nat
    BY <1>3
  <2>3. n \in Nat
    BY <1>3
  <2> HIDE DEF t, n
  <2>4. QED
    BY <2>1, <2>2, <2>3, CountedInDistinct
<1>7. myEnts'[w] = myEnts[w] \cup new
  BY <1>1, <1>2 DEF TypeOK
<1> HIDE DEF u, t, new
<1>8. /\ view'[w][c] = u
      /\ \A d \in Ids : d # c => view'[w][d] = view[w][d]
      /\ \A v \in Appliers : v # w => view'[v] = view[v]
  BY <1>1, <1>3 DEF TypeOK
<1>9. view'[w][c].row.distinct = EntitiesIn(c, ents \cup myEnts'[w])
  BY <1>6, <1>8
<1> HIDE DEF n
<1>10. \A d \in Ids : d = c => HoldsLock(w, d)'
  BY <1>1, <1>2, <1>5 DEF HoldsLock, TypeOK
<1>11. \A d \in Ids : d # c => (HoldsLock(w, d)' <=> HoldsLock(w, d))
  BY <1>1, <1>2 DEF HoldsLock, TypeOK
<1>12. \A v \in Appliers : \A d \in Ids : v # w => (HoldsLock(v, d)' <=> HoldsLock(v, d))
  BY <1>1, <1>2 DEF HoldsLock, TypeOK
<1> HIDE DEF c
<1>13. OneHolder'
  BY <1>1, <1>2, <1>3, <1>11, <1>12 DEF OneHolder
<1>14. StatsAreExact'
  BY <1>2 DEF StatsInv, StatsAreExact, Exists
<1>15. ASSUME NEW v \in Appliers, v # w PROVE HeldOK(v)'
  <2>1. HeldOK(v) /\ myEnts[v] \subseteq Ids \X Entities
    BY DEF StatsInv, CampInv, TypeOK
  <2>2. myEnts'[v] = myEnts[v] /\ view'[v] = view[v]
    BY <1>1, <1>2, <1>8, <1>15 DEF TypeOK
  <2>3. QED
    BY <1>2, <1>12, <1>15, <2>1, <2>2, HeldStays
<1>16. HeldOK(w)'
  <2>1. ASSUME NEW p \in myEnts'[w] PROVE HoldsLock(w, p[1])'
    <3>1. CASE p \in new
      BY <1>3, <1>4, <1>10, <3>1
    <3>2. CASE p \in myEnts[w]
      <4>1. p[1] \in Ids /\ HoldsLock(w, p[1])
        BY <1>1, <3>2 DEF HeldOK, TypeOK
      <4>2. QED
        BY <1>10, <1>11, <4>1
    <3>3. QED
      BY <1>7, <2>1, <3>1, <3>2
  <2>2. ASSUME NEW d \in Ids, HoldsLock(w, d)'
        PROVE  view'[w][d].row.distinct = EntitiesIn(d, ents' \cup myEnts'[w])
    <3>1. CASE d = c
      BY <1>2, <1>9, <3>1
    <3>2. CASE d # c
      <4>1. HoldsLock(w, d) /\ view'[w][d] = view[w][d]
        BY <1>8, <1>11, <2>2, <3>2
      <4>2. view[w][d].row.distinct = EntitiesIn(d, ents \cup myEnts[w])
        BY <1>1, <4>1 DEF HeldOK
      <4>3. \A x \in Entities : <<d, x>> \in ents \cup myEnts[w]
                              <=> <<d, x>> \in ents' \cup myEnts'[w]
        BY <1>2, <1>4, <1>7, <3>2
      <4>4. EntitiesIn(d, ents \cup myEnts[w]) = EntitiesIn(d, ents' \cup myEnts'[w])
        BY <4>3, EntitiesInEqual
      <4>5. QED
        BY <4>1, <4>2, <4>4
    <3>3. QED
      BY <3>1, <3>2
  <2>3. QED
    BY <2>1, <2>2 DEF HeldOK
<1>17. QED
  BY <1>13, <1>14, <1>15, <1>16 DEF StatsInv

\* A closed session holds no lock; the locks of the others stay.
LEMMA ClosedLocks ==
    ASSUME CampInv, NEW w \in Appliers, Close(w)
    PROVE  /\ \A d \in Ids : ~HoldsLock(w, d)'
           /\ \A v \in Appliers \ {w} : \A d \in Ids : HoldsLock(v, d)' <=> HoldsLock(v, d)
           /\ myEnts'[w] = {}
<1>1. TypeOK
  BY DEF CampInv
<1>2. myLinks'[w] = {} /\ myEnts'[w] = {}
  BY <1>1 DEF Close, TypeOK
<1>3. \A v \in Appliers \ {w} :
         myLinks'[v] = myLinks[v] /\ current'[v] = current[v] /\ pc'[v] = pc[v]
  BY ClosedSession
<1>4. QED
  BY <1>2, <1>3 DEF HoldsLock

\* What the others hold when a session closes, if it has changed no entity of
\* a campaign that one of them holds.
LEMMA ClosedHeld ==
    ASSUME CampInv, StatsInv, NEW w \in Appliers, Close(w),
           \A v \in Appliers \ {w} : \A d \in Ids : HoldsLock(v, d) =>
               \A x \in Entities : <<d, x>> \in ents' <=> <<d, x>> \in ents
    PROVE  OneHolder' /\ \A v \in Appliers : HeldOK(v)'
<1>1. OneHolder
  BY DEF StatsInv
<1>2. /\ \A d \in Ids : ~HoldsLock(w, d)'
      /\ \A v \in Appliers \ {w} : \A d \in Ids : HoldsLock(v, d)' <=> HoldsLock(v, d)
      /\ myEnts'[w] = {}
  BY ClosedLocks
<1>3. OneHolder'
  BY <1>1, <1>2 DEF OneHolder
<1>4. HeldOK(w)'
  BY <1>2 DEF HeldOK
<1>5. ASSUME NEW v \in Appliers, v # w PROVE HeldOK(v)'
  <2>1. HeldOK(v) /\ myEnts[v] \subseteq Ids \X Entities
    BY DEF StatsInv, CampInv, TypeOK
  <2>2. myEnts'[v] = myEnts[v] /\ view'[v] = view[v]
    BY <1>5, ClosedSession
  <2>3. QED
    BY <1>2, <1>5, <2>1, <2>2, HeldStays
<1>6. QED
  BY <1>3, <1>4, <1>5

LEMMA StatsRollback ==
    ASSUME CampInv, StatsInv, NEW w \in Appliers, Rollback(w)
    PROVE  StatsInv'
<1>1. Close(w) /\ rows' = rows /\ ents' = ents
  BY DEF Rollback, tables
<1>2. StatsAreExact'
  BY <1>1 DEF StatsInv, StatsAreExact, Exists
<1>3. QED
  BY <1>1, <1>2, ClosedHeld DEF StatsInv

LEMMA StatsCommit ==
    ASSUME CampInv, StatsInv, NEW w \in Appliers, CommitApply(w)
    PROVE  StatsInv'
<1>1. TypeOK /\ SessionOK(w) /\ HeldOK(w) /\ OneHolder
  BY DEF CampInv, StatsInv
<1>2. /\ pc[w] = "read" /\ rows' = [c \in Ids |-> Flushed(w, c)]
      /\ ents' = ents \cup myEnts[w] /\ Close(w)
  BY DEF CommitApply
<1>3. \A p \in myEnts[w] : p[1] \in Ids /\ HoldsLock(w, p[1])
  BY <1>1 DEF HeldOK, TypeOK
<1>4. ASSUME NEW v \in Appliers \ {w}, NEW d \in Ids, HoldsLock(v, d), NEW x \in Entities
      PROVE  <<d, x>> \in ents' <=> <<d, x>> \in ents
  <2>1. <<d, x>> \notin myEnts[w]
    <3>1. SUFFICES ASSUME <<d, x>> \in myEnts[w] PROVE FALSE
      OBVIOUS
    <3>2. HoldsLock(w, d)
      BY <1>3, <3>1
    <3>3. QED
      BY <1>1, <1>4, <3>2 DEF OneHolder
  <2>2. QED
    BY <1>2, <2>1
<1>5. OneHolder' /\ \A v \in Appliers : HeldOK(v)'
  BY <1>2, <1>4, ClosedHeld
<1>6. ASSUME NEW c \in Ids, rows'[c] # NoRow
      PROVE  rows'[c].distinct = EntitiesIn(c, ents')
  <2>1. rows'[c] = Flushed(w, c)
    BY <1>2
  <2>2. CASE \E l \in myLinks[w] : l[1] = c
    <3>1. HoldsLock(w, c)
      BY <1>2, <2>2 DEF HoldsLock
    <3>2. Flushed(w, c).distinct = view[w][c].row.distinct
      BY <2>2, FlushedRow
    <3>3. QED
      BY <1>1, <1>2, <2>1, <3>1, <3>2 DEF HeldOK
  <2>3. CASE \A l \in myLinks[w] : l[1] # c
    <3>1. rows'[c] = rows[c]
      BY <2>1, <2>3, FlushedRow
    <3>2. rows[c].distinct = EntitiesIn(c, ents)
      BY <1>6, <3>1 DEF StatsInv, StatsAreExact, Exists
    <3>3. \A x \in Entities : <<c, x>> \in ents' <=> <<c, x>> \in ents
      BY <1>2, <1>3, <2>3 DEF HoldsLock
    <3>4. EntitiesIn(c, ents') = EntitiesIn(c, ents)
      BY <3>3, EntitiesInEqual
    <3>5. QED
      BY <3>1, <3>2, <3>4
  <2>4. QED
    BY <2>2, <2>3
<1>7. StatsAreExact'
  BY <1>6 DEF StatsAreExact, Exists
<1>8. QED
  BY <1>5, <1>7 DEF StatsInv

LEMMA StatsStep == CampInv /\ StatsInv /\ [Next]_vars => StatsInv'
<1> SUFFICES ASSUME CampInv, StatsInv, [Next]_vars PROVE StatsInv'
  OBVIOUS
<1>1. CASE Tick \/ UNCHANGED vars
  BY <1>1, StatsSame DEF Tick, vars, tables, session
<1>2. CASE \E w \in Appliers, e \in Events : Begin(w, e)
  BY <1>2, StatsBegin
<1>3. CASE \E w \in Appliers : Advance(w)
  BY <1>3, StatsRead, StatsUpdate, StatsCommit DEF Advance
<1>4. CASE \E w \in Appliers : Rollback(w)
  BY <1>4, StatsRollback
<1>5. QED
  BY <1>1, <1>2, <1>3, <1>4 DEF Next

\* A campaign's distinct entities are those of its entity rows, however many
\* appliers update it at the same time: the lock on its key entity is taken
\* before the entities are counted and kept until the count is committed.
THEOREM StatsAlwaysExact == Spec => []StatsAreExact
<1>1. StatsInv => StatsAreExact
  BY DEF StatsInv
<1>2. Spec => []StatsInv
  BY StatsInit, StatsStep, CampAlways, PTL DEF Spec
<1>3. QED
  BY <1>1, <1>2, PTL

-----------------------------------------------------------------------------
(* The links of an event's signals.                                        *)

\* For its own session, a campaign has the key its row has, or the one the
\* session created it with.
KeyIs(w, c, k) == \/ Exists(c) /\ rows[c].key = k
                  \/ c \in Created(w) /\ view[w][c].row.key = k

Done(w, i) == i < at[w] \/ (pc[w] = "update" /\ i = at[w])

\* The signals a session is done with are linked, to campaigns of their keys.
DoneAreLinked(w) ==
    pc[w] # "idle" => \A i \in 1 .. Len(SignalsOf[job[w]]) : Done(w, i) =>
        \E c \in Ids : Linked(w, <<c, job[w]>>) /\ KeyIs(w, c, SignalsOf[job[w]][i].key)

SignalInv == EverySignalLinked /\ \A w \in Appliers : DoneAreLinked(w)

LEMMA SignalInit == Init => SignalInv
  BY DEF Init, SignalInv, EverySignalLinked, DoneAreLinked

\* What is linked stays so while rows keep their keys and links are only added.
LEMMA DoneStays ==
    ASSUME NEW w \in Appliers, DoneAreLinked(w), pc[w] # "idle", job'[w] = job[w],
           \A i \in 1 .. Len(SignalsOf[job[w]]) : Done(w, i)' => Done(w, i),
           \A c \in Ids : Linked(w, <<c, job[w]>>) => Linked(w, <<c, job[w]>>)',
           \A c \in Ids : \A k : KeyIs(w, c, k) => KeyIs(w, c, k)'
    PROVE  DoneAreLinked(w)'
<1>1. SUFFICES ASSUME NEW i \in 1 .. Len(SignalsOf[job[w]]), Done(w, i)
      PROVE  \E c \in Ids : /\ Linked(w, <<c, job[w]>>)'
                           /\ KeyIs(w, c, SignalsOf[job[w]][i].key)'
  BY DEF DoneAreLinked
<1>2. PICK c \in Ids : Linked(w, <<c, job[w]>>) /\ KeyIs(w, c, SignalsOf[job[w]][i].key)
  BY <1>1 DEF DoneAreLinked
<1>3. QED
  BY <1>2

LEMMA SignalsStay ==
    ASSUME EverySignalLinked, links \subseteq links',
           \A c \in Ids : rows[c] # NoRow => rows'[c] # NoRow /\ rows'[c].key = rows[c].key
    PROVE  \A e \in applied : \A i \in 1 .. Len(SignalsOf[e]) :
              \E c \in Ids : /\ Exists(c)' /\ rows'[c].key = SignalsOf[e][i].key
                           /\ <<c, e>> \in links'
<1> SUFFICES ASSUME NEW e \in applied, NEW i \in 1 .. Len(SignalsOf[e])
    PROVE  \E c \in Ids : /\ Exists(c)' /\ rows'[c].key = SignalsOf[e][i].key
                        /\ <<c, e>> \in links'
  OBVIOUS
<1>1. PICK c \in Ids : Exists(c) /\ rows[c].key = SignalsOf[e][i].key /\ <<c, e>> \in links
  BY DEF EverySignalLinked
<1>2. QED
  BY <1>1 DEF Exists

\* A session that a step does not touch.
LEMMA OtherDone ==
    ASSUME NEW v \in Appliers, DoneAreLinked(v),
           pc'[v] = pc[v], job'[v] = job[v], at'[v] = at[v], view'[v] = view[v],
           myLinks'[v] = myLinks[v], links \subseteq links',
           \A c \in Ids : rows[c] # NoRow => rows'[c] # NoRow /\ rows'[c].key = rows[c].key
    PROVE  DoneAreLinked(v)'
<1>1. CASE pc[v] = "idle"
  BY <1>1 DEF DoneAreLinked
<1>2. CASE pc[v] # "idle"
  <2>1. \A i \in 1 .. Len(SignalsOf[job[v]]) : Done(v, i)' => Done(v, i)
    BY DEF Done
  <2>2. \A c \in Ids : Linked(v, <<c, job[v]>>) => Linked(v, <<c, job[v]>>)'
    BY DEF Linked
  <2>3. \A c \in Ids : \A k : KeyIs(v, c, k) => KeyIs(v, c, k)'
    BY DEF KeyIs, Exists, Created
  <2>4. QED
    BY <1>2, <2>1, <2>2, <2>3, DoneStays
<1>3. QED
  BY <1>1, <1>2

LEMMA SignalSame ==
    ASSUME SignalInv, UNCHANGED <<rows, links, pc, job, at, view, myLinks, applied>>
    PROVE  SignalInv'
<1>1. EverySignalLinked'
  BY DEF SignalInv, EverySignalLinked, Exists
<1>2. ASSUME NEW v \in Appliers PROVE DoneAreLinked(v)'
  <2>1. DoneAreLinked(v)
    BY DEF SignalInv
  <2>2. QED
    BY <2>1, OtherDone
<1>3. QED
  BY <1>1, <1>2 DEF SignalInv

LEMMA SignalBegin ==
    ASSUME CampInv, SignalInv, NEW w \in Appliers, NEW e \in Events, Begin(w, e)
    PROVE  SignalInv'
<1>1. TypeOK
  BY DEF CampInv
<1>2. /\ rows' = rows /\ links' = links /\ view' = view /\ myLinks' = myLinks
      /\ applied' = applied
      /\ pc' = [pc EXCEPT ![w] = "read"] /\ at' = [at EXCEPT ![w] = 1]
      /\ job' = [job EXCEPT ![w] = e]
  BY DEF Begin, tables
<1>3. EverySignalLinked'
  BY <1>2, SignalsStay DEF SignalInv, EverySignalLinked
<1>4. DoneAreLinked(w)'
  <2>1. pc'[w] = "read" /\ at'[w] = 1
    BY <1>1, <1>2 DEF TypeOK
  <2>2. \A i \in 1 .. Len(SignalsOf[job'[w]]) : ~Done(w, i)'
    BY <2>1 DEF Done
  <2>3. QED
    BY <2>2 DEF DoneAreLinked
<1>5. ASSUME NEW v \in Appliers, v # w PROVE DoneAreLinked(v)'
  <2>1. DoneAreLinked(v)
    BY DEF SignalInv
  <2>2. pc'[v] = pc[v] /\ job'[v] = job[v] /\ at'[v] = at[v]
    BY <1>1, <1>2, <1>5 DEF TypeOK
  <2>3. QED
    BY <1>2, <2>1, <2>2, OtherDone
<1>6. QED
  BY <1>3, <1>4, <1>5 DEF SignalInv

LEMMA SignalRead ==
    ASSUME CampInv, SignalInv, NEW w \in Appliers, Read(w)
    PROVE  SignalInv'
<1>1. TypeOK /\ SessionOK(w) /\ DoneAreLinked(w)
  BY DEF CampInv, SignalInv
<1>2. PICK c \in Ids :
         /\ FindOrCreate(w, c)
         /\ IF Linked(w, <<c, job[w]>>)
            THEN /\ at' = [at EXCEPT ![w] = @ + 1]
                 /\ UNCHANGED <<pc, current, myLinks>>
            ELSE /\ myLinks' = [myLinks EXCEPT ![w] = @ \cup {<<c, job[w]>>}]
                 /\ current' = [current EXCEPT ![w] = c]
                 /\ pc' = [pc EXCEPT ![w] = "update"]
                 /\ UNCHANGED at
  BY DEF Read
<1>3. /\ pc[w] = "read" /\ at[w] <= Len(SignalsOf[job[w]])
      /\ rows' = rows /\ links' = links /\ job' = job /\ applied' = applied
  BY DEF Read, tables
<1>4. PICK n \in Loaded :
         /\ view' = [view EXCEPT ![w] = [view[w] EXCEPT ![c] = n]]
         /\ n.row.key = Signal(w).key
         /\ view[w][c] # NotLoaded => n = view[w][c]
         /\ view[w][c] = NotLoaded =>
               IF n.new THEN ~Exists(c) /\ \A v \in Appliers : c \notin Created(v)
               ELSE Exists(c) /\ rows[c].key = n.row.key
  BY <1>2, <1>3, FoundCampaign
<1>5. /\ job[w] \in Events /\ at[w] \in Nat /\ at[w] > 0
      /\ Len(SignalsOf[job[w]]) \in Nat
  <2>1. job[w] \in Events /\ at[w] \in Nat /\ at[w] > 0
    BY <1>1, <1>3 DEF SessionOK, TypeOK
  <2>2. QED
    BY <2>1, SignalsType
<1>6. /\ view'[w][c] = n /\ n # NotLoaded
      /\ \A d \in Ids : view[w][d] # NotLoaded => view'[w][d] = view[w][d]
      /\ \A v \in Appliers : v # w => view'[v] = view[v]
  BY <1>1, <1>4, NotLoadedIsNotLoaded DEF TypeOK
<1>7. ASSUME NEW k, k = Signal(w).key PROVE KeyIs(w, c, k)'
  <2>1. n.row.key = k
    BY <1>4, <1>7
  <2>2. CASE n.new
    <3>1. c \in Created(w)'
      BY <1>6, <2>2 DEF Created
    <3>2. QED
      BY <1>6, <2>1, <3>1 DEF KeyIs
  <2>3. CASE ~n.new
    <3>1. Exists(c) /\ rows[c].key = n.row.key
      BY <1>1, <1>4, <2>3 DEF SessionOK
    <3>2. QED
      BY <1>3, <2>1, <3>1 DEF KeyIs, Exists
  <2>4. QED
    BY <2>2, <2>3
<1>8. Linked(w, <<c, job[w]>>)'
  <2>1. CASE Linked(w, <<c, job[w]>>)
    BY <1>2, <1>3, <2>1 DEF Linked
  <2>2. CASE ~Linked(w, <<c, job[w]>>)
    BY <1>1, <1>2, <1>3, <2>2 DEF Linked, TypeOK
  <2>3. QED
    BY <2>1, <2>2
<1>9. \A d \in Ids : Linked(w, <<d, job[w]>>) => Linked(w, <<d, job[w]>>)'
  BY <1>1, <1>2, <1>3 DEF Linked, TypeOK
<1>10. \A d \in Ids : \A k : KeyIs(w, d, k) => KeyIs(w, d, k)'
  BY <1>3, <1>6 DEF KeyIs, Exists, Created
<1>11. \A i \in 1 .. Len(SignalsOf[job[w]]) : Done(w, i)' => Done(w, i) \/ i = at[w]
  <2>1. CASE Linked(w, <<c, job[w]>>)
    BY <1>1, <1>2, <1>3, <1>5, <2>1 DEF Done, TypeOK
  <2>2. CASE ~Linked(w, <<c, job[w]>>)
    BY <1>1, <1>2, <1>3, <1>5, <2>2 DEF Done, TypeOK
  <2>3. QED
    BY <2>1, <2>2
<1>12. DoneAreLinked(w)'
  <2>1. ASSUME NEW i \in 1 .. Len(SignalsOf[job[w]]), Done(w, i)',
               NEW k, k = SignalsOf[job[w]][i].key
        PROVE  \E d \in Ids : Linked(w, <<d, job[w]>>)' /\ KeyIs(w, d, k)'
    <3>1. CASE i = at[w]
      <4>1. KeyIs(w, c, k)'
        BY <1>7, <2>1, <3>1 DEF Signal
      <4>2. QED
        BY <1>8, <4>1
    <3>2. CASE Done(w, i)
      <4>1. PICK d \in Ids : Linked(w, <<d, job[w]>>) /\ KeyIs(w, d, k)
        BY <1>1, <1>3, <2>1, <3>2 DEF DoneAreLinked
      <4>2. QED
        BY <1>9, <1>10, <4>1
    <3>3. QED
      BY <1>11, <2>1, <3>1, <3>2
  <2>2. QED
    BY <1>3, <2>1 DEF DoneAreLinked
<1>13. ASSUME NEW v \in Appliers, v # w PROVE DoneAreLinked(v)'
  <2>1. DoneAreLinked(v)
    BY DEF SignalInv
  <2>2. pc'[v] = pc[v] /\ at'[v] = at[v] /\ myLinks'[v] = myLinks[v]
    BY <1>1, <1>2, <1>13 DEF TypeOK
  <2>3. QED
    BY <1>3, <1>6, <1>13, <2>1, <2>2, OtherDone
<1>14. EverySignalLinked'
  BY <1>3 DEF SignalInv, EverySignalLinked, Exists
<1>15. QED
  BY <1>12, <1>13, <1>14 DEF SignalInv

LEMMA SignalUpdate ==
    ASSUME CampInv, SignalInv, NEW w \in Appliers, Update(w)
    PROVE  SignalInv'
<1> DEFINE c == current[w]
           t == Occurred[job[w]]
           n == EntitiesIn(c, ents \cup myEnts'[w])
           u == CountedIn(view[w][c], t, n)
<1>1. TypeOK /\ DoneAreLinked(w)
  BY DEF CampInv, SignalInv
<1>2. /\ pc[w] = "update" /\ pc' = [pc EXCEPT ![w] = "read"]
      /\ at' = [at EXCEPT ![w] = @ + 1] /\ job' = job /\ rows' = rows
      /\ links' = links /\ myLinks' = myLinks /\ applied' = applied
  BY DEF Update, tables
<1>3. /\ c \in Ids /\ view[w][c] \in Loaded /\ view[w][c] # NotLoaded
      /\ t \in Nat /\ n \in Nat
      /\ view' = [view EXCEPT ![w] = [view[w] EXCEPT ![c] = u]]
      /\ job[w] \in Events /\ at[w] \in Nat /\ at[w] \in 1 .. Len(SignalsOf[job[w]])
  BY <1>1, UpdateView DEF TypeOK
<1>4. u \in Loaded /\ u.new = view[w][c].new /\ u.row.key = view[w][c].row.key
  <2>1. view[w][c] \in Loaded
    BY <1>3
  <2>2. t \in Nat
    BY <1>3
  <2>3. n \in Nat
    BY <1>3
  <2> HIDE DEF t, n
  <2>4. u \in Loaded
    BY <2>1, <2>2, <2>3, CountedInType
  <2>5. u.new = view[w][c].new
    BY <2>1, <2>2, <2>3, CountedInType, SMTT(30)
  <2>6. u.row.key = view[w][c].row.key
    BY <2>1, <2>2, <2>3, CountedInKey
  <2>7. QED
    BY <2>4, <2>5, <2>6
<1> HIDE DEF c, u, t, n
<1>5. /\ view'[w][c] = u /\ u # NotLoaded
      /\ \A d \in Ids : d # c => view'[w][d] = view[w][d]
      /\ \A v \in Appliers : v # w => view'[v] = view[v]
  BY <1>1, <1>3, <1>4, NotLoadedIsNotLoaded DEF TypeOK
<1>6. DoneAreLinked(w)'
  <2>1. \A i \in 1 .. Len(SignalsOf[job[w]]) : Done(w, i)' => Done(w, i)
    BY <1>1, <1>2, <1>3, SignalsType DEF Done, TypeOK
  <2>2. \A d \in Ids : Linked(w, <<d, job[w]>>) => Linked(w, <<d, job[w]>>)'
    BY <1>2 DEF Linked
  <2>3. \A d \in Ids : \A k : KeyIs(w, d, k) => KeyIs(w, d, k)'
    BY <1>2, <1>3, <1>4, <1>5 DEF KeyIs, Exists, Created
  <2>4. QED
    BY <1>1, <1>2, <2>1, <2>2, <2>3, DoneStays
<1>7. ASSUME NEW v \in Appliers, v # w PROVE DoneAreLinked(v)'
  <2>1. DoneAreLinked(v)
    BY DEF SignalInv
  <2>2. pc'[v] = pc[v] /\ at'[v] = at[v]
    BY <1>1, <1>2, <1>7 DEF TypeOK
  <2>3. QED
    BY <1>2, <1>5, <1>7, <2>1, <2>2, OtherDone
<1>8. EverySignalLinked'
  BY <1>2 DEF SignalInv, EverySignalLinked, Exists
<1>9. QED
  BY <1>6, <1>7, <1>8 DEF SignalInv

\* When a session closes, its signals are no longer its own; the others go on.
LEMMA ClosedDone ==
    ASSUME CampInv, SignalInv, NEW w \in Appliers, Close(w), links \subseteq links',
           \A c \in Ids : rows[c] # NoRow => rows'[c] # NoRow /\ rows'[c].key = rows[c].key
    PROVE  \A v \in Appliers : DoneAreLinked(v)'
<1>1. pc'[w] = "idle"
  BY DEF CampInv, Close, TypeOK
<1>2. DoneAreLinked(w)'
  BY <1>1 DEF DoneAreLinked
<1>3. ASSUME NEW v \in Appliers, v # w PROVE DoneAreLinked(v)'
  <2>1. DoneAreLinked(v)
    BY DEF SignalInv
  <2>2. /\ pc'[v] = pc[v] /\ job'[v] = job[v] /\ at'[v] = at[v] /\ view'[v] = view[v]
        /\ myLinks'[v] = myLinks[v]
    BY <1>3, ClosedSession
  <2>3. QED
    BY <2>1, <2>2, OtherDone
<1>4. QED
  BY <1>2, <1>3

LEMMA SignalRollback ==
    ASSUME CampInv, SignalInv, NEW w \in Appliers, Rollback(w)
    PROVE  SignalInv'
<1>1. Close(w) /\ rows' = rows /\ links' = links /\ applied' = applied
  BY DEF Rollback, tables
<1>2. EverySignalLinked'
  BY <1>1 DEF SignalInv, EverySignalLinked, Exists
<1>3. QED
  BY <1>1, <1>2, ClosedDone DEF SignalInv

LEMMA SignalCommit ==
    ASSUME CampInv, SignalInv, NEW w \in Appliers, CommitApply(w)
    PROVE  SignalInv'
<1>1. TypeOK /\ SessionOK(w) /\ DoneAreLinked(w) /\ EverySignalLinked /\ LinksExist
  BY DEF CampInv, SignalInv
<1>2. /\ pc[w] = "read" /\ at[w] > Len(SignalsOf[job[w]])
      /\ rows' = [c \in Ids |-> Flushed(w, c)] /\ links' = links \cup myLinks[w]
      /\ applied' = applied \cup {job[w]} /\ Close(w)
  BY DEF CommitApply
<1>3. ASSUME NEW c \in Ids
      PROVE  rows[c] # NoRow => rows'[c] # NoRow /\ rows'[c].key = rows[c].key
  BY <1>2, <1>3, FlushedRow DEF Exists
<1>4. \A v \in Appliers : DoneAreLinked(v)'
  BY <1>2, <1>3, ClosedDone
<1>5. \A e \in applied : \A i \in 1 .. Len(SignalsOf[e]) :
         \E c \in Ids : /\ Exists(c)' /\ rows'[c].key = SignalsOf[e][i].key
                      /\ <<c, e>> \in links'
  BY <1>1, <1>2, <1>3, SignalsStay
<1>6. ASSUME NEW i \in 1 .. Len(SignalsOf[job[w]])
      PROVE  \E c \in Ids : /\ Exists(c)' /\ rows'[c].key = SignalsOf[job[w]][i].key
                          /\ <<c, job[w]>> \in links'
  <2>1. job[w] \in Events /\ at[w] \in Nat
    BY <1>1, <1>2 DEF SessionOK, TypeOK
  <2>2. i \in Nat /\ i < at[w]
    BY <1>2, <2>1, SignalsType
  <2>3. PICK c \in Ids : /\ Linked(w, <<c, job[w]>>)
                       /\ KeyIs(w, c, SignalsOf[job[w]][i].key)
    BY <1>1, <1>2, <1>6, <2>2 DEF DoneAreLinked, Done
  <2>4. <<c, job[w]>> \in links'
    BY <1>2, <2>3 DEF Linked
  <2>5. CASE Exists(c) /\ rows[c].key = SignalsOf[job[w]][i].key
    BY <1>3, <2>4, <2>5 DEF Exists
  <2>6. CASE c \in Created(w) /\ view[w][c].row.key = SignalsOf[job[w]][i].key
    <3>1. ~Exists(c)
      BY <1>1, <2>6 DEF SessionOK, Created
    <3>2. <<c, job[w]>> \in myLinks[w]
      BY <1>1, <2>3, <3>1 DEF Linked, LinksExist
    <3>3. Flushed(w, c) # NoRow /\ Flushed(w, c).key = view[w][c].row.key
      BY <3>2, FlushedRow
    <3>4. rows'[c] = Flushed(w, c)
      BY <1>2
    <3>5. QED
      BY <2>4, <2>6, <3>3, <3>4 DEF Exists
  <2>7. QED
    BY <2>3, <2>5, <2>6 DEF KeyIs
<1>7. EverySignalLinked'
  <2>1. ASSUME NEW e \in applied', NEW i \in 1 .. Len(SignalsOf[e])
        PROVE  \E c \in Ids : /\ Exists(c)' /\ rows'[c].key = SignalsOf[e][i].key
                            /\ <<c, e>> \in links'
    <3>1. CASE e \in applied
      BY <1>5, <3>1
    <3>2. CASE e = job[w]
      BY <1>6, <3>2
    <3>3. QED
      BY <1>2, <3>1, <3>2
  <2>2. QED
    BY <2>1 DEF EverySignalLinked
<1>8. QED
  BY <1>4, <1>7 DEF SignalInv

LEMMA SignalStep == CampInv /\ SignalInv /\ [Next]_vars => SignalInv'
<1> SUFFICES ASSUME CampInv, SignalInv, [Next]_vars PROVE SignalInv'
  OBVIOUS
<1>1. CASE Tick \/ UNCHANGED vars
  BY <1>1, SignalSame DEF Tick, vars, tables, session
<1>2. CASE \E w \in Appliers, e \in Events : Begin(w, e)
  BY <1>2, SignalBegin
<1>3. CASE \E w \in Appliers : Advance(w)
  BY <1>3, SignalRead, SignalUpdate, SignalCommit DEF Advance
<1>4. CASE \E w \in Appliers : Rollback(w)
  BY <1>4, SignalRollback
<1>5. QED
  BY <1>1, <1>2, <1>3, <1>4 DEF Next

\* However many appliers run, and whatever is rolled back, an event that is
\* applied is linked, for each of its signals, to a campaign of the signal's key.
THEOREM SignalsAlwaysLinked == Spec => []EverySignalLinked
<1>1. SignalInv => EverySignalLinked
  BY DEF SignalInv
<1>2. Spec => []SignalInv
  BY SignalInit, SignalStep, CampAlways, PTL DEF Spec
<1>3. QED
  BY <1>1, <1>2, PTL

-----------------------------------------------------------------------------
(* One active campaign of a key, as long as nothing overlaps.              *)

\* What a session has read is still so: at the time its search goes by, one
\* campaign of a key is active; those it has found are, and those it created
\* had none beside them.
SoleOK(w) ==
    /\ \A c, d \in Ids : (/\ Exists(c) /\ Exists(d) /\ rows[c].key = rows[d].key
                         /\ InWindow(rows[c].last, since[w])
                         /\ InWindow(rows[d].last, since[w])) => c = d
    /\ \A c \in Ids : view[w][c] # NotLoaded /\ ~view[w][c].new => InWindow(rows[c].last, since[w])
    /\ \A c \in Created(w) :
          /\ view[w][c].row.last = Occurred[job[w]] /\ view[w][c].loaded = Occurred[job[w]]
          /\ \A d \in Ids : Exists(d) /\ rows[d].key = view[w][c].row.key =>
                ~InWindow(rows[d].last, since[w])
          /\ \A d \in Created(w) : d # c /\ view[w][d].row.key = view[w][c].row.key =>
                ~InWindow(Occurred[job[w]], since[w])

ActiveInv == ~overlapped => /\ ~Overlap
                            /\ OneActivePerKey
                            /\ \A w \in Appliers : pc[w] # "idle" => SoleOK(w)

LEMMA ActiveInit == MCInit => ActiveInv
<1> SUFFICES ASSUME MCInit PROVE ActiveInv
  OBVIOUS
<1>1. \A w \in Appliers : pc[w] = "idle"
  BY DEF MCInit, Init
<1>2. OneActivePerKey
  BY DEF MCInit, Init, OneActivePerKey, Exists
<1>3. QED
  BY <1>1, <1>2 DEF ActiveInv, Overlap

\* A campaign that is in the window now was in it before.
LEMMA WindowBefore ==
    ASSUME NEW t \in Nat, NEW m \in Nat, NEW n \in Nat, m <= n, InWindow(t, n)
    PROVE  InWindow(t, m)
  BY DEF InWindow

\* What a search finds, and what it means that it finds nothing.
LEMMA FoundActive ==
    ASSUME CampInv, NEW w \in Appliers, pc[w] = "read",
           at[w] <= Len(SignalsOf[job[w]]), NEW c \in Ids, FindOrCreate(w, c)
    PROVE  \/ view'[w][c] = view[w][c]
           \/ view'[w][c].new = FALSE /\ InWindow(rows[c].last, since[w])
           \/ /\ view'[w][c] = Fresh(Signal(w), Occurred[job[w]])
              /\ \A d \in Ids : Exists(d) /\ rows[d].key = Signal(w).key =>
                    ~InWindow(rows[d].last, since[w])
              /\ \A d \in Created(w) : view[w][d].row.key = Signal(w).key =>
                    ~InWindow(view[w][d].loaded, since[w])
<1>1. TypeOK /\ SessionOK(w)
  BY DEF CampInv
<1>2. CASE Matches(w, Signal(w)) # {}
  <2>1. c \in Matches(w, Signal(w)) /\ view' = [view EXCEPT ![w][c] = Found(w, c)]
    BY <1>2 DEF FindOrCreate, Latest
  <2>2. view'[w][c] = Found(w, c)
    BY <1>1, <2>1 DEF TypeOK
  <2>3. CASE view[w][c] # NotLoaded
    BY <2>2, <2>3 DEF Found
  <2>4. CASE view[w][c] = NotLoaded
    <3>1. c \notin Created(w)
      BY <2>4 DEF Created
    <3>2. InWindow(rows[c].last, since[w])
      BY <2>1, <3>1 DEF Matches, RowIn
    <3>3. view'[w][c].new = FALSE
      BY <2>2, <2>4 DEF Found
    <3>4. QED
      BY <3>2, <3>3
  <2>5. QED
    BY <2>3, <2>4
<1>3. CASE Matches(w, Signal(w)) = {}
  <2>1. view' = [view EXCEPT ![w][c] = Fresh(Signal(w), Occurred[job[w]])]
    BY <1>3 DEF FindOrCreate
  <2>2. view'[w][c] = Fresh(Signal(w), Occurred[job[w]])
    BY <1>1, <2>1 DEF TypeOK
  <2>3. \A d \in Ids : (Exists(d) \/ d \in Created(w)) /\ RowIn(w, d).key = Signal(w).key =>
            ~InWindow(RowIn(w, d).last, since[w])
    BY <1>3 DEF Matches
  <2>4. ASSUME NEW d \in Ids, Exists(d), rows[d].key = Signal(w).key
        PROVE  ~InWindow(rows[d].last, since[w])
    <3>1. d \notin Created(w)
      BY <1>1, <2>4 DEF SessionOK, Created
    <3>2. RowIn(w, d) = rows[d]
      BY <3>1 DEF RowIn
    <3>3. QED
      BY <2>3, <2>4, <3>2
  <2>5. ASSUME NEW d \in Created(w), view[w][d].row.key = Signal(w).key
        PROVE  ~InWindow(view[w][d].loaded, since[w])
    <3>1. d \in Ids /\ view[w][d] \in Loaded
      BY <1>1 DEF Created, TypeOK
    <3>2. view[w][d].row \in Campaigns
      BY <3>1 DEF Loaded
    <3>3. RowIn(w, d) = [view[w][d].row EXCEPT !.last = view[w][d].loaded]
      BY DEF RowIn
    <3>4. RowIn(w, d).key = view[w][d].row.key /\ RowIn(w, d).last = view[w][d].loaded
      BY <3>2, <3>3 DEF Campaigns
    <3>5. QED
      BY <2>3, <2>5, <3>1, <3>4
  <2>6. QED
    BY <2>2, <2>4, <2>5
<1>4. QED
  BY <1>2, <1>3

\* A session whose view, job and time a step leaves alone, as it does the rows.
LEMMA SoleStays ==
    ASSUME NEW w, SoleOK(w), rows' = rows, view'[w] = view[w], job'[w] = job[w],
           since'[w] = since[w]
    PROVE  SoleOK(w)'
  BY DEF SoleOK, Created, Exists, InWindow

LEMMA SoleBegin ==
    ASSUME CampInv, OneActivePerKey, ~overlapped, NEW w \in Appliers, NEW e \in Events,
           Begin(w, e)
    PROVE  SoleOK(w)'
<1>1. TypeOK /\ SessionOK(w)
  BY DEF CampInv
<1>2. pc[w] = "idle" /\ rows' = rows /\ view' = view /\ since'[w] = now
  BY <1>1 DEF Begin, tables, TypeOK
<1>3. \A c \in Ids : view[w][c] = NotLoaded
  BY <1>1, <1>2 DEF SessionOK
<1>4. Created(w)' = {} /\ \A c \in Ids : view'[w][c] = NotLoaded
  BY <1>2, <1>3 DEF Created
<1>5. \A c, d \in Ids : (/\ Exists(c)' /\ Exists(d)' /\ rows'[c].key = rows'[d].key
                       /\ InWindow(rows'[c].last, since'[w])
                       /\ InWindow(rows'[d].last, since'[w])) => c = d
  BY <1>2 DEF OneActivePerKey, Exists
<1>6. QED
  BY <1>4, <1>5 DEF SoleOK

LEMMA SoleRead ==
    ASSUME CampInv, NEW w \in Appliers, SoleOK(w), Read(w)
    PROVE  SoleOK(w)'
<1>1. TypeOK /\ SessionOK(w)
  BY DEF CampInv
<1>2. /\ pc[w] = "read" /\ at[w] <= Len(SignalsOf[job[w]])
      /\ rows' = rows /\ job' = job /\ since' = since
  BY DEF Read, tables
<1>3. PICK c \in Ids : FindOrCreate(w, c)
  BY DEF Read
<1>4. PICK n \in Loaded : view' = [view EXCEPT ![w] = [view[w] EXCEPT ![c] = n]]
  BY <1>2, <1>3, FoundCampaign
<1>5. view'[w][c] = n /\ \A d \in Ids : d # c => view'[w][d] = view[w][d]
  BY <1>1, <1>4 DEF TypeOK
<1>6. CASE view'[w][c] = view[w][c]
  <2>1. \A d \in Ids : view'[w][d] = view[w][d]
    BY <1>5, <1>6
  <2>2. view'[w] = view[w]
    <3>1. n = view[w][c] /\ view'[w] = [view[w] EXCEPT ![c] = n]
      BY <1>1, <1>4, <1>5, <1>6 DEF TypeOK
    <3>2. view[w] \in [Ids -> Loaded \cup {NotLoaded}]
      BY <1>1 DEF TypeOK
    <3>3. QED
      BY <3>1, <3>2
  <2>3. QED
    BY <1>2, <2>2, SoleStays
<1>7. CASE view'[w][c].new = FALSE /\ InWindow(rows[c].last, since[w])
  <2>1. Created(w)' \subseteq Created(w) /\ \A d \in Created(w)' : view'[w][d] = view[w][d]
    BY <1>5, <1>7 DEF Created
  <2>2. \A d \in Ids : view'[w][d] # NotLoaded /\ ~view'[w][d].new =>
            InWindow(rows'[d].last, since'[w])
    BY <1>2, <1>5, <1>7 DEF SoleOK
  <2>3. QED
    BY <1>2, <2>1, <2>2, SMTT(30) DEF SoleOK, Exists, InWindow
<1>8. CASE /\ view'[w][c] = Fresh(Signal(w), Occurred[job[w]])
           /\ \A d \in Ids : Exists(d) /\ rows[d].key = Signal(w).key =>
                 ~InWindow(rows[d].last, since[w])
           /\ \A d \in Created(w) : view[w][d].row.key = Signal(w).key =>
                 ~InWindow(view[w][d].loaded, since[w])
  <2> DEFINE k == Signal(w).key
             t == Occurred[job[w]]
  <2>1. /\ view'[w][c].row.key = k /\ view'[w][c].row.last = t
        /\ view'[w][c].loaded = t /\ view'[w][c].new = TRUE
    BY <1>8 DEF Fresh
  <2>2. \A d \in Created(w)' : d = c \/ (d \in Created(w) /\ view'[w][d] = view[w][d])
    BY <1>5 DEF Created
  <2>3. \A d \in Created(w) : view[w][d].row.last = t /\ view[w][d].loaded = t
    BY DEF SoleOK
  <2>4. \A d \in Ids : Exists(d) /\ rows[d].key = k => ~InWindow(rows[d].last, since[w])
    BY <1>8
  <2>5. \A d \in Created(w) : view[w][d].row.key = k => ~InWindow(t, since[w])
    BY <1>8, <2>3
  <2> HIDE DEF k
  <2>6. \A d \in Ids : view'[w][d] # NotLoaded /\ ~view'[w][d].new =>
            InWindow(rows[d].last, since[w])
    BY <1>5, <2>1 DEF SoleOK
  <2>7. ASSUME NEW b \in Created(w)'
        PROVE  /\ view'[w][b].row.last = t /\ view'[w][b].loaded = t
               /\ \A d \in Ids : Exists(d) /\ rows[d].key = view'[w][b].row.key =>
                     ~InWindow(rows[d].last, since[w])
               /\ \A d \in Created(w)' : d # b /\ view'[w][d].row.key = view'[w][b].row.key =>
                     ~InWindow(t, since[w])
    <3>1. CASE b = c
      BY <2>1, <2>2, <2>4, <2>5, <3>1
    <3>2. CASE b # c
      <4>1. b \in Created(w) /\ view'[w][b] = view[w][b]
        BY <2>2, <2>7, <3>2
      <4>2. \A d \in Ids : Exists(d) /\ rows[d].key = view'[w][b].row.key =>
                ~InWindow(rows[d].last, since[w])
        BY <4>1 DEF SoleOK
      <4>3. \A d \in Created(w) : d # b /\ view[w][d].row.key = view[w][b].row.key =>
                ~InWindow(t, since[w])
        BY <4>1 DEF SoleOK
      <4>4. view'[w][c].row.key = view[w][b].row.key => ~InWindow(t, since[w])
        BY <2>1, <2>5, <4>1
      <4>5. QED
        BY <2>2, <2>3, <4>1, <4>2, <4>3, <4>4
    <3>3. QED
      BY <3>1, <3>2
  <2> HIDE DEF t
  <2>8. t = Occurred[job'[w]]
    BY <1>2 DEF t
  <2>9. QED
    BY <1>2, <2>6, <2>7, <2>8 DEF SoleOK, Exists, InWindow
<1>9. QED
  BY <1>2, <1>3, <1>6, <1>7, <1>8, FoundActive

LEMMA SoleUpdate ==
    ASSUME CampInv, NEW w \in Appliers, SoleOK(w), Update(w)
    PROVE  SoleOK(w)'
<1> DEFINE c == current[w]
           t == Occurred[job[w]]
           n == EntitiesIn(c, ents \cup myEnts'[w])
           u == CountedIn(view[w][c], t, n)
<1>1. TypeOK
  BY DEF CampInv
<1>2. job' = job /\ rows' = rows /\ since' = since
  BY DEF Update, tables
<1>3. /\ c \in Ids /\ view[w][c] \in Loaded /\ view[w][c] # NotLoaded
      /\ t \in Nat /\ n \in Nat
      /\ view' = [view EXCEPT ![w] = [view[w] EXCEPT ![c] = u]]
  BY UpdateView
<1>4. /\ u \in Loaded /\ u.new = view[w][c].new /\ u.loaded = view[w][c].loaded
      /\ u.row.key = view[w][c].row.key /\ u.row.last = Maximum(view[w][c].row.last, t)
  <2>1. view[w][c] \in Loaded
    BY <1>3
  <2>2. t \in Nat
    BY <1>3
  <2>3. n \in Nat
    BY <1>3
  <2> HIDE DEF t, n
  <2>4. u \in Loaded
    BY <2>1, <2>2, <2>3, CountedInType
  <2>5. u.new = view[w][c].new
    BY <2>1, <2>2, <2>3, CountedInType, SMTT(30)
  <2>6. u.loaded = view[w][c].loaded
    BY <2>1, <2>2, <2>3, CountedInType, SMTT(30)
  <2>7. u.row.key = view[w][c].row.key
    BY <2>1, <2>2, <2>3, CountedInKey
  <2>8. u.row.last = Maximum(view[w][c].row.last, t)
    BY <2>1, <2>2, <2>3, CountedInLast
  <2>9. QED
    BY <2>4, <2>5, <2>6, <2>7, <2>8
<1> HIDE DEF c, u, n
<1>5. view'[w][c] = u /\ \A d \in Ids : d # c => view'[w][d] = view[w][d]
  BY <1>1, <1>3 DEF TypeOK
<1>6. u # NotLoaded
  BY <1>4, NotLoadedIsNotLoaded
<1>7. Created(w)' = Created(w)
  BY <1>3, <1>4, <1>5, <1>6 DEF Created
<1>8. ASSUME NEW d \in Created(w)
      PROVE  /\ view'[w][d].row.last = t /\ view'[w][d].loaded = t
             /\ view'[w][d].row.key = view[w][d].row.key
  <2>1. view[w][d].row.last = t /\ view[w][d].loaded = t /\ d \in Ids
    BY DEF SoleOK, Created
  <2>2. Maximum(t, t) = t
    BY DEF Maximum
  <2>3. QED
    BY <1>4, <1>5, <2>1, <2>2
<1>9. \A d \in Ids : view'[w][d] # NotLoaded /\ ~view'[w][d].new =>
          InWindow(rows[d].last, since[w])
  BY <1>3, <1>4, <1>5 DEF SoleOK
<1>10. QED
  BY <1>2, <1>7, <1>8, <1>9 DEF SoleOK, Exists, InWindow

\* A campaign that is active after the commit of the only session was so when
\* the session began, or is one it created.
LEMMA ActiveAfter ==
    ASSUME CampInv, NEW w \in Appliers, SoleOK(w), CommitApply(w), NEW c \in Ids,
           rows'[c] # NoRow, InWindow(rows'[c].last, now)
    PROVE  \/ /\ Exists(c) /\ rows[c].key = rows'[c].key
              /\ InWindow(rows[c].last, since[w])
           \/ /\ c \in Created(w) /\ rows'[c].key = view[w][c].row.key
              /\ InWindow(Occurred[job[w]], since[w])
<1>1. TypeOK /\ SessionOK(w)
  BY DEF CampInv
<1>2. pc[w] = "read" /\ rows'[c] = Flushed(w, c) /\ rows[c] \in Campaigns \cup {NoRow}
  BY <1>1 DEF CommitApply, TypeOK
<1>3. since[w] \in Nat /\ now \in Nat /\ since[w] <= now
  BY <1>1 DEF TypeOK
<1>4. job[w] \in Events /\ Occurred[job[w]] \in Nat
  BY <1>1, <1>2 DEF SessionOK
<1>5. CASE \A l \in myLinks[w] : l[1] # c
  <2>1. rows'[c] = rows[c]
    BY <1>2, <1>5, FlushedRow
  <2>2. rows[c].last \in Nat
    BY <1>2, <2>1 DEF Campaigns
  <2>3. InWindow(rows[c].last, since[w])
    BY <1>3, <2>1, <2>2, WindowBefore
  <2>4. QED
    BY <2>1, <2>3 DEF Exists
<1>6. CASE (\E l \in myLinks[w] : l[1] = c) /\ view[w][c].new
  <2>1. view[w][c] # NotLoaded
    BY <1>1, <1>6 DEF SessionOK
  <2>2. c \in Created(w)
    BY <1>6, <2>1 DEF Created
  <2>3. rows'[c] = view[w][c].row
    BY <1>2, <1>6, FlushedRow
  <2>4. rows'[c].last = Occurred[job[w]]
    BY <2>2, <2>3 DEF SoleOK
  <2>5. InWindow(Occurred[job[w]], since[w])
    BY <1>3, <1>4, <2>4, WindowBefore
  <2>6. QED
    BY <2>2, <2>3, <2>5
<1>7. CASE (\E l \in myLinks[w] : l[1] = c) /\ ~view[w][c].new
  <2>1. view[w][c] # NotLoaded
    BY <1>1, <1>7 DEF SessionOK
  <2>2. Exists(c) /\ rows[c].key = view[w][c].row.key
    BY <1>1, <1>7, <2>1 DEF SessionOK
  <2>3. rows'[c].key = rows[c].key
    BY <1>2, <2>2, FlushedRow
  <2>4. InWindow(rows[c].last, since[w])
    BY <1>7, <2>1 DEF SoleOK
  <2>5. QED
    BY <2>2, <2>3, <2>4
<1>8. QED
  BY <1>5, <1>6, <1>7

LEMMA ActiveCommit ==
    ASSUME CampInv, NEW w \in Appliers, SoleOK(w), CommitApply(w)
    PROVE  OneActivePerKey'
<1>1. now' = now
  BY DEF CommitApply
<1>2. SUFFICES ASSUME NEW c \in Ids, NEW d \in Ids, rows'[c] # NoRow, rows'[d] # NoRow,
                      rows'[c].key = rows'[d].key, InWindow(rows'[c].last, now),
                      InWindow(rows'[d].last, now), c # d
      PROVE  FALSE
  BY <1>1 DEF OneActivePerKey, Exists
<1>3. \/ Exists(c) /\ rows[c].key = rows'[c].key /\ InWindow(rows[c].last, since[w])
      \/ /\ c \in Created(w) /\ rows'[c].key = view[w][c].row.key
         /\ InWindow(Occurred[job[w]], since[w])
  BY <1>2, ActiveAfter
<1>4. \/ Exists(d) /\ rows[d].key = rows'[d].key /\ InWindow(rows[d].last, since[w])
      \/ /\ d \in Created(w) /\ rows'[d].key = view[w][d].row.key
         /\ InWindow(Occurred[job[w]], since[w])
  BY <1>2, ActiveAfter
<1>5. QED
  BY <1>2, <1>3, <1>4 DEF SoleOK

\* While the rows stay, no campaign comes back into the window.
LEMMA ActiveStays ==
    ASSUME CampInv, OneActivePerKey, ~overlapped, rows' = rows, now' \in Nat, now <= now'
    PROVE  OneActivePerKey'
<1>1. TypeOK /\ now \in Nat
  BY DEF CampInv, TypeOK
<1>2. \A c \in Ids : Exists(c) => rows[c].last \in Nat
  BY <1>1 DEF TypeOK, Exists, Campaigns
<1>3. \A c \in Ids : Exists(c) /\ InWindow(rows[c].last, now') => InWindow(rows[c].last, now)
  BY <1>1, <1>2, WindowBefore
<1>4. QED
  BY <1>3 DEF OneActivePerKey, Exists, InWindow

LEMMA ActiveStep == CampInv /\ ActiveInv /\ [MCNext]_mcVars => ActiveInv'
<1> SUFFICES ASSUME CampInv, ActiveInv, [MCNext]_mcVars, ~overlapped' PROVE ActiveInv'
  BY DEF ActiveInv
<1>1. CASE UNCHANGED mcVars
  <2>1. /\ overlapped' = overlapped /\ pc' = pc /\ rows' = rows /\ view' = view
        /\ job' = job /\ since' = since /\ now' = now
    BY <1>1 DEF mcVars, vars, tables, session
  <2>2. ~overlapped /\ ~Overlap /\ OneActivePerKey
    BY <2>1 DEF ActiveInv
  <2>3. OneActivePerKey'
    BY <2>1, <2>2 DEF OneActivePerKey, Exists, InWindow
  <2>4. ASSUME NEW w \in Appliers, pc'[w] # "idle" PROVE SoleOK(w)'
    BY <2>1, <2>2, <2>4, SoleStays DEF ActiveInv
  <2>5. QED
    BY <2>1, <2>2, <2>3, <2>4 DEF ActiveInv, Overlap
<1>2. CASE MCNext
  <2>1. ~overlapped /\ ~Overlap' /\ Next
    BY <1>2 DEF MCNext
  <2>2. /\ ~Overlap /\ OneActivePerKey
        /\ \A w \in Appliers : pc[w] # "idle" => SoleOK(w)
    BY <2>1 DEF ActiveInv
  <2>3. TypeOK /\ TypeOK' /\ now \in Nat
    BY <2>1, CampStep DEF CampInv, TypeOK
  <2>4. SUFFICES /\ OneActivePerKey'
                 /\ \A w \in Appliers : pc'[w] # "idle" => SoleOK(w)'
    BY <2>1 DEF ActiveInv
  <2>5. CASE Tick
    <3>1. /\ rows' = rows /\ pc' = pc /\ view' = view /\ job' = job /\ since' = since
          /\ now' = now + 1
      BY <2>5 DEF Tick, tables, session
    <3>2. OneActivePerKey'
      BY <2>1, <2>2, <2>3, <3>1, ActiveStays
    <3>3. ASSUME NEW w \in Appliers, pc'[w] # "idle" PROVE SoleOK(w)'
      BY <2>2, <3>1, <3>3, SoleStays
    <3>4. QED
      BY <3>2, <3>3
  <2>6. CASE \E w \in Appliers : \/ \E e \in Events : Begin(w, e)
                                \/ Advance(w) \/ Rollback(w)
    <3>1. PICK w \in Appliers : (\E e \in Events : Begin(w, e)) \/ Advance(w) \/ Rollback(w)
      BY <2>6
    <3>2. CASE \E e \in Events : Begin(w, e)
      <4>1. PICK e \in Events : Begin(w, e)
        BY <3>2
      <4>2. pc'[w] = "read" /\ rows' = rows /\ now' = now
        BY <2>3, <4>1 DEF Begin, tables, TypeOK
      <4>3. \A v \in Appliers : v # w => pc'[v] = "idle"
        BY <2>1, <4>2 DEF Overlap
      <4>4. SoleOK(w)'
        BY <2>1, <2>2, <4>1, SoleBegin
      <4>5. OneActivePerKey'
        BY <2>1, <2>2, <2>3, <4>2, ActiveStays
      <4>6. QED
        BY <4>3, <4>4, <4>5
    <3>3. CASE Read(w) \/ Update(w)
      <4>1. pc[w] # "idle" /\ pc'[w] # "idle" /\ rows' = rows /\ now' = now
        BY <2>3, <3>3 DEF Read, Update, tables, TypeOK
      <4>2. \A v \in Appliers : v # w => pc'[v] = "idle"
        BY <2>1, <4>1 DEF Overlap
      <4>3. SoleOK(w)'
        BY <2>2, <3>3, <4>1, SoleRead, SoleUpdate
      <4>4. OneActivePerKey'
        BY <2>1, <2>2, <2>3, <4>1, ActiveStays
      <4>5. QED
        BY <4>2, <4>3, <4>4
    <3>4. CASE CommitApply(w) \/ Rollback(w)
      <4>1. pc[w] # "idle" /\ Close(w) /\ now' = now
        BY <3>4 DEF CommitApply, Rollback
      <4>2. \A v \in Appliers : pc'[v] = "idle"
        BY <2>2, <2>3, <4>1 DEF Overlap, Close, TypeOK
      <4>3. CASE CommitApply(w)
        BY <2>2, <4>1, <4>2, <4>3, ActiveCommit
      <4>4. CASE Rollback(w)
        <5>1. rows' = rows
          BY <4>4 DEF Rollback, tables
        <5>2. OneActivePerKey'
          BY <2>1, <2>2, <2>3, <4>1, <5>1, ActiveStays
        <5>3. QED
          BY <4>2, <5>2
      <4>5. QED
        BY <3>4, <4>3, <4>4
    <3>5. QED
      BY <3>1, <3>2, <3>3, <3>4 DEF Advance
  <2>7. QED
    BY <2>1, <2>5, <2>6 DEF Next
<1>3. QED
  BY <1>1, <1>2

\* As long as no two applications overlap, a key has one active campaign,
\* whatever the types of its signals and the order of its events: the search
\* finds the campaign that is active, or there is none.
THEOREM OneActiveWhileAlone == MCSpec => []OneActivePerKey
<1>1. ActiveInv => OneActivePerKey
  BY DEF ActiveInv, OneActivePerKey
<1>2. MCInit => CampInv
  BY CampInit DEF MCInit
<1>3. CampInv /\ [MCNext]_mcVars => CampInv'
  BY CampStep DEF MCNext, mcVars
<1>4. QED
  BY <1>1, <1>2, <1>3, ActiveInit, ActiveStep, PTL DEF MCSpec
=============================================================================
