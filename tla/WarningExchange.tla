--------------------------- MODULE WarningExchange ---------------------------
(***************************************************************************)
(* Warnings of the hub and an agency's copy of them: the inbox of          *)
(* api/federation.py, and main.py with warning_resolver.py of the edge     *)
(* agent, which keep the copy in a file.                                   *)
(*                                                                         *)
(* A sync (after each run, or on demand) fetches the inbox and replaces    *)
(* the file. An acknowledgement goes to the hub first and is then noted in *)
(* the file, read and written back. Each runs in a thread of its own.      *)
(***************************************************************************)
EXTENDS Naturals

CONSTANTS Syncs, Scheduled,      \* threads that sync; the scheduler's
          InboxLimit,            \* limit of the inbox
          MaxWarnings, MaxAcks,  \* bounds
          MaxFaults              \* bound on lost answers and crashes

ASSUME ScheduledAssumption == Scheduled \in Syncs
ASSUME InboxBoundsAssumption ==
    /\ InboxLimit \in Nat \ {0}
    /\ MaxWarnings \in Nat /\ MaxAcks \in Nat /\ MaxFaults \in Nat

Warnings == 1 .. MaxWarnings     \* in the order of creation

VARIABLES sent,                  \* warnings created for the agency
          acks,                  \* those with a row in federation_warning_ack
          cache,                 \* the file: absent, open or acked
          fetched,               \* per sync: the inbox it is to write, or none
          ack,                   \* the acknowledgement: phase, warning, file read
          noted,                 \* history: acknowledged here, noted in the file
          mixed,                 \* history: acknowledged beside a sync
          acksMade, faults

inboxVars == <<sent, acks, cache, fetched, ack, noted, mixed, acksMade, faults>>

Copies == [Warnings -> {"absent", "open", "acked"}]
Nothing == [w \in Warnings |-> "absent"]
NoAck == [phase |-> "off", warning |-> 0, file |-> Nothing]
NoInbox == [busy |-> FALSE, inbox |-> Nothing]

InboxTypeOK == /\ sent \in 0 .. MaxWarnings
               /\ acks \subseteq Warnings
               /\ cache \in Copies
               /\ fetched \in [Syncs -> [busy : BOOLEAN, inbox : Copies]]
               /\ ack \in [phase : {"off", "posted", "read"},
                           warning : Warnings \cup {0}, file : Copies]
               /\ noted \subseteq Warnings /\ mixed \subseteq Warnings
               /\ acksMade \in 0 .. MaxAcks /\ faults \in 0 .. MaxFaults

InboxInit == /\ sent = 0 /\ acks = {}
             /\ cache = Nothing
             /\ fetched = [s \in Syncs |-> NoInbox]
             /\ ack = NoAck
             /\ noted = {} /\ mixed = {}
             /\ acksMade = 0 /\ faults = 0

-----------------------------------------------------------------------------
(* The hub.                                                                *)

\* create_warning, create_warning_from_correlation.
Create == /\ sent < MaxWarnings
          /\ sent' = sent + 1
          /\ UNCHANGED <<acks, cache, fetched, ack, noted, mixed, acksMade, faults>>

\* The newest InboxLimit warnings: nothing in the code closes an open one.
Listed(w) == w <= sent /\ w > sent - InboxLimit

\* partner_warning_inbox, with the acknowledgement of this partner.
Inbox == [w \in Warnings |-> IF w > sent \/ ~Listed(w) THEN "absent"
                             ELSE IF w \in acks THEN "acked" ELSE "open"]

-----------------------------------------------------------------------------
(* The agency: _sync_warning_inbox.                                        *)

Syncing == \E s \in Syncs : fetched[s].busy

\* A sync on demand may ask for warnings of another status: there are none.
FetchInbox(s) ==
    /\ ~fetched[s].busy
    /\ \E inbox \in {Inbox} \cup (IF s = Scheduled THEN {} ELSE {Nothing}) :
         fetched' = [fetched EXCEPT ![s] = [busy |-> TRUE, inbox |-> inbox]]
    /\ mixed' = IF ack.phase = "off" THEN mixed ELSE mixed \cup {ack.warning}
    /\ UNCHANGED <<sent, acks, cache, ack, noted, acksMade, faults>>

\* Mutant: warnings the inbox no longer lists stay in the file.
Merged(s) == [w \in Warnings |-> IF fetched[s].inbox[w] = "absent" THEN cache[w]
                                ELSE fetched[s].inbox[w]]

\* sync_warning_cache: the file is replaced.
Replaced(s) == fetched[s].inbox

SaveInbox(s) ==
    /\ fetched[s].busy
    /\ cache' = Replaced(s)
    /\ fetched' = [fetched EXCEPT ![s] = NoInbox]
    /\ UNCHANGED <<sent, acks, ack, noted, mixed, acksMade, faults>>

-----------------------------------------------------------------------------
(* The agency: acknowledge_local_warning.                                  *)

\* The hub finds or makes the acknowledgement; its answer may be lost.
PostAck(w) ==
    /\ ack.phase = "off" /\ w <= sent
    /\ acksMade < MaxAcks /\ acksMade' = acksMade + 1
    /\ acks' = acks \cup {w}
    /\ \/ /\ ack' = [NoAck EXCEPT !.phase = "posted", !.warning = w]
          /\ mixed' = IF Syncing THEN mixed \cup {w} ELSE mixed
          /\ UNCHANGED faults
       \/ /\ faults < MaxFaults /\ faults' = faults + 1
          /\ UNCHANGED <<ack, mixed>>
    /\ UNCHANGED <<sent, cache, fetched, noted>>

\* record_warning_ack reads the file, ...
ReadCache == /\ ack.phase = "posted"
             /\ ack' = [ack EXCEPT !.phase = "read", !.file = cache]
             /\ UNCHANGED <<sent, acks, cache, fetched, noted, mixed, acksMade, faults>>

\* Mutant: the acknowledgement is not put into the file.
Unmarked(file, w) == file

\* The warning's entry, if the file has one.
Marked(file, w) == IF file[w] = "absent" THEN file ELSE [file EXCEPT ![w] = "acked"]

\* ... marks the warning, and writes the file back.
WriteCache == /\ ack.phase = "read"
              /\ cache' = Marked(ack.file, ack.warning)
              /\ noted' = noted \cup {ack.warning}
              /\ ack' = NoAck
              /\ UNCHANGED <<sent, acks, fetched, mixed, acksMade, faults>>

\* The service stops; the file may be unreadable if it was being written.
Stop == /\ faults < MaxFaults /\ faults' = faults + 1
        /\ cache' \in {cache} \cup (IF Syncing \/ ack.phase = "read" THEN {Nothing} ELSE {})
        /\ fetched' = [s \in Syncs |-> NoInbox]
        /\ ack' = NoAck
        /\ UNCHANGED <<sent, acks, noted, mixed, acksMade>>

-----------------------------------------------------------------------------
SyncOnce(s) == FetchInbox(s) \/ SaveInbox(s)
Acknowledge == (\E w \in Warnings : PostAck(w)) \/ ReadCache \/ WriteCache

InboxNext == \/ Create
             \/ \E s \in Syncs : SyncOnce(s)
             \/ Acknowledge
             \/ Stop

InboxSpec == InboxInit /\ [][InboxNext]_inboxVars

(* The scheduler runs again and again, and syncs after each run that       *)
(* succeeds; not all of them fail.                                         *)
InboxFairSpec == InboxSpec /\ WF_inboxVars(SyncOnce(Scheduled))

-----------------------------------------------------------------------------
(* Correctness.                                                            *)

\* An acknowledgement that was noted is not forgotten by a later sync, unless
\* one was under way at the same time.
AckRemembered == \A w \in noted \ mixed : cache[w] # "open"

\* main.py:416, the "Resolved warning inbox for the local agency SOC": the file
\* is the hub's inbox again and again, whatever warnings and acknowledgements,
\* lost answers and stops came before.
CacheCatchesUp == []<>(cache = Inbox)
=============================================================================
