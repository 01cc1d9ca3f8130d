--------------------------- MODULE IngestConsumer ---------------------------
(***************************************************************************)
(* streaming/ingest_consumer.py: the ingestion service fed from a Kafka    *)
(* topic, beside the API workers that run the same pipeline.               *)
(*                                                                         *)
(* The consumer takes one message at a time, runs ingest_event on the      *)
(* session it opened when the run started, and commits the offset whatever *)
(* came of it. A crash, or an error of the commit, starts it again from    *)
(* the committed offset, so a message can be delivered more than once.     *)
(* A message that is no JSON raises in the client's iterator, outside the  *)
(* try of process_message: it ends every run that fetches it, and nothing  *)
(* ever commits an offset behind it.                                       *)
(***************************************************************************)
EXTENDS IngestPipeline, Sequences

CONSTANTS Consumer,             \* the worker that consumes the topic
          Topic,                \* the messages of sentinel.ingest, in order
          Malformed,            \* a message the value_deserializer raises for
          ClientEvents,         \* events that API clients submit as well
          MaxCrashes            \* bound on restarts of the consumer

ASSUME MalformedAssumption == Malformed \notin Events
ASSUME ConsumerAssumption == /\ Consumer \in LongSession
                             /\ Topic \in Seq(Events \cup {Malformed})
ASSUME ClientEventsAssumption == ClientEvents \subseteq Events
ASSUME MaxCrashesAssumption == MaxCrashes \in Nat

VARIABLES position,             \* messages the consumer has taken
          committed,            \* the group's committed offset
          inHand,               \* a message was taken and not yet committed
          ended,                \* the run was ended by a malformed message
          crashes

offsets == <<position, committed, inHand, ended, crashes>>
consumerVars == <<vars, offsets>>

ConsumerTypeOK == /\ TypeOK
                  /\ committed \in 0 .. Len(Topic)
                  /\ position \in committed .. Len(Topic)
                  /\ inHand \in BOOLEAN
                  /\ inHand <=> position = committed + 1
                  /\ ended \in BOOLEAN
                  /\ ended => ~inHand
                  /\ crashes \in 0 .. MaxCrashes

ConsumerInit == /\ Init
                /\ position = 0 /\ committed = 0
                /\ inHand = FALSE /\ ended = FALSE /\ crashes = 0

Decodes(i) == Topic[i] # Malformed

\* The next message goes through process_message; a refusal is over at once.
Poll == /\ ~inHand /\ ~ended /\ position < Len(Topic)
        /\ Decodes(position + 1)
        /\ LET e == Topic[position + 1]
           IN  Receive(Consumer, e) \/ Reject(Consumer, e) \/ RefuseLookup(Consumer, e)
        /\ position' = position + 1
        /\ inHand' = TRUE
        /\ UNCHANGED <<committed, ended, crashes>>

\* run() closes its session; the next run opens another.
NewSession == /\ pc[Consumer] = "idle"
              /\ session' = [session EXCEPT ![Consumer] = "clean"]
              /\ UNCHANGED <<db, indexed, bus, pc, job, body, replies, submits>>

\* The client fetches ahead: the iterator may raise for a malformed message
\* before it has handed out those in front of it. This ends the run.
PollRaises == /\ ~inHand /\ ~ended
              /\ \E i \in position + 1 .. Len(Topic) : ~Decodes(i)
              /\ ended' = TRUE
              /\ NewSession
              /\ UNCHANGED <<position, committed, inHand, crashes>>

\* main starts the next run, two seconds later, from the committed offset.
RunAgain == /\ ended
            /\ ended' = FALSE
            /\ UNCHANGED <<vars, position, committed, inHand, crashes>>

Handle == Step(Consumer) /\ UNCHANGED offsets

\* Mutants: the offset is committed on receipt; only after a success.
CommitEarly == inHand
CommitOnlySuccess == inHand /\ pc[Consumer] = "idle" /\ session[Consumer] = "clean"

\* process_message has returned, with or without an error.
MayCommit == inHand /\ pc[Consumer] = "idle"

CommitOffset == /\ MayCommit
                /\ committed' = position
                /\ inHand' = FALSE
                /\ UNCHANGED <<vars, position, ended, crashes>>

\* run() is left by an error or a crash: main starts it again.
RestartAt == committed

Restart == /\ inHand /\ crashes < MaxCrashes
           /\ crashes' = crashes + 1
           /\ position' = RestartAt
           /\ inHand' = FALSE
           /\ UNCHANGED <<committed, ended>>
           /\ Crash(Consumer) \/ NewSession

\* No message within consumer_timeout_ms ends the run, and with it the session.
IdleTimeout == /\ ~inHand /\ ~ended
               /\ Renew(Consumer)
               /\ UNCHANGED offsets

\* Within the bound on submissions, those the topic may still need are kept.
RoomForClients ==
    MaxSubmits - submits >
        Cardinality({i \in position + 1 .. Len(Topic) : Decodes(i)}) + (MaxCrashes - crashes)

\* The API workers, and the operator's backfill, go on as before.
Others == /\ \/ \E w \in Workers \ {Consumer} :
                    \/ /\ RoomForClients
                       /\ \E e \in ClientEvents :
                             Receive(w, e) \/ Reject(w, e) \/ RefuseLookup(w, e)
                    \/ Step(w) \/ Crash(w) \/ Renew(w)
             \/ \E e \in Events : Backfill(e)
          /\ UNCHANGED offsets

ConsumerNext == \/ Poll \/ PollRaises \/ RunAgain \/ Handle \/ CommitOffset
                \/ Restart \/ IdleTimeout \/ Others

ConsumerSpec == ConsumerInit /\ [][ConsumerNext]_consumerVars

(* The consumer process keeps running.                                     *)
ConsumerFairSpec ==
    /\ ConsumerSpec
    /\ WF_consumerVars(Poll \/ PollRaises \/ RunAgain \/ Handle \/ CommitOffset)

-----------------------------------------------------------------------------
\* A message whose offset is committed is in the ledger, or the service was
\* seen to fail on its event: a failed message is dropped (it is never read
\* again), but none is dropped without an error.
DroppedOnlyOnError ==
    \A i \in 1 .. committed :
        Topic[i] \in ledger \/ replies[Topic[i]]["error"] > 0

\* Redelivery does not accept an event twice (the pipeline's own guarantee,
\* with the consumer's retries and a concurrent API worker).
RedeliveryIsIdempotent == AcceptedOnce /\ OneOwner

\* Every message ahead of the first malformed one is consumed: one whose event
\* fails does not hold up those behind it, and neither does a session that stays
\* broken. Only a malformed message can: runs without end fetch it together with
\* readable ones and give up, or it is the next message and stays so for good.
Readable == position < Len(Topic) /\ Decodes(position + 1)

TopicDrained == \/ <>[](committed = position /\ ~Readable)
                \/ []<>(ended /\ Readable)
=============================================================================
