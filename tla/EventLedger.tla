---------------------------- MODULE EventLedger ----------------------------
(***************************************************************************)
(* What the ingestion service promises its clients, with the pipeline left *)
(* out: an append-only set of event hashes, an audit trail, and answers.   *)
(*                                                                         *)
(*   - a row is appended once and never removed;                           *)
(*   - an event is audited as accepted, and answered "accepted", at most   *)
(*     once, and answered so only after its row and its audit entry;       *)
(*   - "duplicate" is only said of an event that the ledger already holds  *)
(*     and once the repetition is audited.                                 *)
(*                                                                         *)
(* IngestPipeline implements this specification.                           *)
(***************************************************************************)
EXTENDS Naturals

CONSTANT Events                 \* event hashes clients may submit

VARIABLES rows,                 \* event_log: the hashes stored
          trail,                \* audit_log: entries per event and verdict
          answers               \* answers returned per event and verdict

vars == <<rows, trail, answers>>

Verdicts == {"accepted", "duplicate", "error"}

Init == /\ rows = {}
        /\ trail = [e \in Events |-> [v \in Verdicts |-> 0]]
        /\ answers = [e \in Events |-> [v \in Verdicts |-> 0]]

Append(e) == /\ e \notin rows
             /\ rows' = rows \cup {e}
             /\ UNCHANGED <<trail, answers>>

Record(e, v) == /\ v # "error"
                /\ e \in rows
                /\ v = "accepted" => trail[e][v] = 0
                /\ trail' = [trail EXCEPT ![e][v] = @ + 1]
                /\ UNCHANGED <<rows, answers>>

AnswerAllowed(e, v) ==
    CASE v = "accepted"  -> answers[e][v] = 0 /\ trail[e][v] = 1
      [] v = "duplicate" -> e \in rows /\ trail[e][v] > 0
      [] v = "error"     -> TRUE

Answer(e, v) == /\ AnswerAllowed(e, v)
                /\ answers' = [answers EXCEPT ![e][v] = @ + 1]
                /\ UNCHANGED <<rows, trail>>

\* A step may both append or record and answer: an operation whose commit took
\* effect although its acknowledgement was lost is answered with an error.
RecordAndFail(e, v) ==
    /\ v # "error" /\ e \in rows
    /\ v = "accepted" => trail[e][v] = 0
    /\ trail' = [trail EXCEPT ![e][v] = @ + 1]
    /\ answers' = [answers EXCEPT ![e]["error"] = @ + 1]
    /\ UNCHANGED rows

AppendAndFail(e) ==
    /\ e \notin rows
    /\ rows' = rows \cup {e}
    /\ answers' = [answers EXCEPT ![e]["error"] = @ + 1]
    /\ UNCHANGED trail

Next == \E e \in Events :
            \/ Append(e) \/ AppendAndFail(e)
            \/ \E v \in Verdicts : Record(e, v) \/ RecordAndFail(e, v) \/ Answer(e, v)

Spec == Init /\ [][Next]_vars
=============================================================================
