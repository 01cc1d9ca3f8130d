----------------------------- MODULE EventStream -----------------------------
(***************************************************************************)
(* api/stream.py: the events a connected client is sent. The generator     *)
(* polls the event log for rows that occurred after the last one it sent,  *)
(* in the order of occurred_at, which is the source's time and not the     *)
(* time at which the row was stored.                                       *)
(***************************************************************************)
EXTENDS Naturals, FiniteSets

CONSTANTS Reported,              \* events that sources report
          MaxPerPoll,            \* _MAX_PER_POLL
          MaxInstant,            \* bound on occurred_at
          MaxConnections         \* bound on the client's connections

ASSUME StreamBoundsAssumption ==
    MaxPerPoll \in Nat \ {0} /\ MaxInstant \in Nat /\ MaxConnections \in Nat

VARIABLES occurred,              \* occurred_at of each stored event, else 0
          connected,
          last,                  \* last_ts of the generator
          polled,                \* rows of the poll it has not sent yet
          streamed,              \* sent on this connection
          missed,                \* history: events this connection may leave out
          connections

streamVars == <<occurred, connected, last, polled, streamed, missed, connections>>

StreamTypeOK == /\ occurred \in [Reported -> Nat]
                /\ connected \in BOOLEAN
                /\ last \in Nat
                /\ polled \subseteq Reported
                /\ streamed \subseteq Reported /\ missed \subseteq Reported
                /\ connections \in 0 .. MaxConnections

StreamInit == /\ occurred = [e \in Reported |-> 0]
              /\ connected = FALSE /\ last = 0
              /\ polled = {} /\ streamed = {} /\ missed = {}
              /\ connections = 0

Stored == {e \in Reported : occurred[e] # 0}

-----------------------------------------------------------------------------
\* The stream is past instant t, or will be when it has sent what it polled.
Past(t) == t <= last \/ \E e \in polled : t <= occurred[e]

\* A row of the log is committed. A late one is not sent.
Arrive(e, t) == /\ occurred[e] = 0
                /\ occurred' = [occurred EXCEPT ![e] = t]
                /\ missed' = IF Past(t) THEN missed \cup {e} ELSE missed
                /\ UNCHANGED <<connected, last, polled, streamed, connections>>

\* The generator starts after the latest event, or now when there is none.
Connect == /\ ~connected
           /\ connections < MaxConnections
           /\ connections' = connections + 1
           /\ connected' = TRUE
           /\ last' \in 1 .. MaxInstant
           /\ \A e \in Stored : occurred[e] <= last'
           /\ Stored # {} => \E e \in Stored : occurred[e] = last'
           /\ streamed' = {} /\ missed' = Stored
           /\ UNCHANGED <<occurred, polled>>

Newer == {e \in Stored : occurred[e] > last}

\* Mutant: LIMIT without ORDER BY.
AnyRows(B) == /\ B \subseteq Newer /\ Cardinality(B) <= MaxPerPoll
              /\ Cardinality(B) = MaxPerPoll \/ B = Newer

\* The first MaxPerPoll rows in the order of occurred_at.
FirstRows(B) == /\ B \subseteq Newer /\ Cardinality(B) <= MaxPerPoll
                /\ Cardinality(B) = MaxPerPoll \/ B = Newer
                /\ \A e \in B, f \in Newer \ B : occurred[e] <= occurred[f]

\* Rows the limit cut although one of the same instant is sent.
SameInstant(B) == {f \in Newer \ B : \E e \in B : occurred[e] = occurred[f]}

\* A poll that fails has no rows.
PollLog == /\ connected /\ polled = {}
           /\ \E B \in SUBSET Reported :
                /\ FirstRows(B)
                /\ polled' = B
                /\ missed' = missed \cup SameInstant(B)
           /\ UNCHANGED <<occurred, connected, last, streamed, connections>>

\* The rows are sent in order, and the mark follows each.
SendRow(e) == /\ e \in polled
              /\ \A f \in polled : occurred[e] <= occurred[f]
              /\ streamed' = streamed \cup {e}
              /\ polled' = polled \ {e}
              /\ last' = occurred[e]
              /\ UNCHANGED <<occurred, connected, missed, connections>>

\* The client goes, between two polls or in the middle of the rows.
Disconnect == /\ connected
              /\ connected' = FALSE /\ polled' = {}
              /\ UNCHANGED <<occurred, last, streamed, missed, connections>>

-----------------------------------------------------------------------------
StreamNext == \/ \E e \in Reported, t \in 1 .. MaxInstant : Arrive(e, t)
              \/ Connect \/ PollLog \/ Disconnect
              \/ \E e \in Reported : SendRow(e)

StreamSpec == StreamInit /\ [][StreamNext]_streamVars

-----------------------------------------------------------------------------
(* Correctness.                                                            *)

\* stream.py:5, "Streams new EventRecord objects as they appear in the DB": an
\* event that the stream has passed was sent, and none is sent twice. Left out
\* are events that occurred before one the stream had already taken up, and
\* events of the same instant as the last row of a full poll: those are not sent.
StreamIsExact ==
    /\ polled \cap streamed = {}
    /\ connected => \A e \in Stored \ missed :
                       occurred[e] <= last => e \in streamed \cup polled
=============================================================================
