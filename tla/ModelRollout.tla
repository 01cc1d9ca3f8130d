----------------------------- MODULE ModelRollout -----------------------------
(***************************************************************************)
(* Which model version serves a prediction type: the rollout that an       *)
(* analyst upserts (api/ai.py), that inference reads                       *)
(* (layer3/ai_inference_worker.py), and that layer3/drift_worker.py rolls  *)
(* back when the scores of the active version drift.                       *)
(*                                                                         *)
(* The table has no key on the type. An upsert looks for the active row    *)
(* and writes later; the drift worker too; each session writes back only   *)
(* the columns that differ from the copy it read.                          *)
(***************************************************************************)
EXTENDS Naturals

CONSTANTS Versions,
          Default,               \* "heuristic-v1", served when no row is active
          NoVersion,             \* no shadow version
          Rollouts,              \* rows of ai_model_rollout for one type
          Upserts, Drifts,       \* requests and drift workers at the same time
          MaxChanges             \* bound on upserts

ASSUME VersionAssumption == Default \in Versions /\ NoVersion \notin Versions
ASSUME RolloutBoundsAssumption == Rollouts # {} /\ MaxChanges \in Nat

VARIABLES rollout,               \* the rows
          upsert,                \* per request: the row it found, and its copy
          drift,                 \* per worker: the row to roll back, and its copy
          withdrawn,             \* history: rolled back and not asked for since
          twins,                 \* history: two upserts found no active row at once
          changes                \* upserts so far, the time of updated_at

rolloutVars == <<rollout, upsert, drift, withdrawn, twins, changes>>

RolloutRow == [status : {"none", "active", "rolled_back"}, active : Versions,
               shadow : Versions \cup {NoVersion}, auto : BOOLEAN, at : Nat]
NoRollout == [status |-> "none", active |-> Default, shadow |-> NoVersion,
              auto |-> FALSE, at |-> 0]

\* What a session holds: nothing; a row and its copy; that there was no active row.
Holding == [step : {"idle", "found", "none"}, row : Rollouts, copy : RolloutRow]
HoldsNothing == [step |-> "idle", row |-> CHOOSE r \in Rollouts : TRUE, copy |-> NoRollout]

RolloutTypeOK == /\ rollout \in [Rollouts -> RolloutRow]
                 /\ upsert \in [Upserts -> Holding]
                 /\ drift \in [Drifts -> Holding]
                 /\ withdrawn \subseteq Versions
                 /\ twins \in BOOLEAN
                 /\ changes \in 0 .. MaxChanges

RolloutInit == /\ rollout = [r \in Rollouts |-> NoRollout]
               /\ upsert = [u \in Upserts |-> HoldsNothing]
               /\ drift = [d \in Drifts |-> HoldsNothing]
               /\ withdrawn = {}
               /\ twins = FALSE
               /\ changes = 0

Active == {r \in Rollouts : rollout[r].status = "active"}

Found(r) == [step |-> "found", row |-> r, copy |-> rollout[r]]

-----------------------------------------------------------------------------
(* upsert_rollout.                                                         *)

FindRollout(u) ==
    /\ upsert[u].step = "idle"
    /\ \/ /\ \E r \in Active : upsert' = [upsert EXCEPT ![u] = Found(r)]
          /\ UNCHANGED twins
       \/ /\ Active = {}
          /\ upsert' = [upsert EXCEPT ![u] = [HoldsNothing EXCEPT !.step = "none"]]
          /\ twins' = (twins \/ \E v \in Upserts : upsert[v].step = "none")
    /\ UNCHANGED <<rollout, drift, withdrawn, changes>>

\* A column is written if the new value differs from the copy's.
Changed(new, copy, now) == IF new = copy THEN now ELSE new

\* The status is not among the columns that an upsert sets on a row it found.
Updated(u, v, s, a) ==
    LET c == upsert[u].copy
        n == rollout[upsert[u].row]
    IN  [n EXCEPT !.active = Changed(v, c.active, n.active),
                  !.shadow = Changed(s, c.shadow, n.shadow),
                  !.auto = Changed(a, c.auto, n.auto),
                  !.at = changes + 1]

\* The analyst asks for version v, with shadow s, to be rolled back on drift or not.
WriteRollout(u, v, s, a) ==
    /\ changes < MaxChanges
    /\ changes' = changes + 1
    /\ \/ /\ upsert[u].step = "found"
          /\ rollout' = [rollout EXCEPT ![upsert[u].row] = Updated(u, v, s, a)]
       \/ /\ upsert[u].step = "none"
          /\ \E r \in Rollouts :
               /\ rollout[r].status = "none"
               /\ rollout' = [rollout EXCEPT ![r] =
                      [status |-> "active", active |-> v, shadow |-> s, auto |-> a,
                       at |-> changes + 1]]
    /\ withdrawn' = withdrawn \ {v, s}
    /\ upsert' = [upsert EXCEPT ![u] = HoldsNothing]
    /\ UNCHANGED <<drift, twins>>

\* The request fails.
DropUpsert(u) == /\ upsert[u].step # "idle"
                 /\ upsert' = [upsert EXCEPT ![u] = HoldsNothing]
                 /\ UNCHANGED <<rollout, drift, withdrawn, twins, changes>>

-----------------------------------------------------------------------------
(* drift_worker.run_once, when the drift of the active version is critical. *)

IsNewestActive(r) == r \in Active /\ \A o \in Active : rollout[o].at <= rollout[r].at

\* _auto_rollback_if_needed, up to its last condition.
FindDrifted(d) ==
    /\ drift[d].step = "idle"
    /\ \E r \in Rollouts :
         /\ IsNewestActive(r)
         /\ rollout[r].auto /\ rollout[r].shadow # NoVersion
         /\ drift' = [drift EXCEPT ![d] = Found(r)]
    /\ UNCHANGED <<rollout, upsert, withdrawn, twins, changes>>

\* Mutant: the shadow version takes over and the row stays active.
SwappedOnly(d) == [rollout[drift[d].row] EXCEPT
                       !.active = Changed(drift[d].copy.shadow, drift[d].copy.active, @)]

\* The shadow version becomes the row's active one, and the row rolled back.
RolledBackRow(d) == [rollout[drift[d].row] EXCEPT
                       !.active = Changed(drift[d].copy.shadow, drift[d].copy.active, @),
                       !.status = "rolled_back"]

\* A row that another worker rolled back meanwhile is not withdrawn again.
RollBack(d) ==
    /\ drift[d].step = "found"
    /\ rollout' = [rollout EXCEPT ![drift[d].row] = RolledBackRow(d)]
    /\ withdrawn' = IF drift[d].row \in Active THEN withdrawn \cup {drift[d].copy.active}
                    ELSE withdrawn
    /\ drift' = [drift EXCEPT ![d] = HoldsNothing]
    /\ UNCHANGED <<upsert, twins, changes>>

\* The worker fails: the report and the rollback are rolled back together.
DropDrift(d) == /\ drift[d].step # "idle"
                /\ drift' = [drift EXCEPT ![d] = HoldsNothing]
                /\ UNCHANGED <<rollout, upsert, withdrawn, twins, changes>>

-----------------------------------------------------------------------------
RolloutNext ==
    \/ \E u \in Upserts :
         \/ FindRollout(u) \/ DropUpsert(u)
         \/ \E v \in Versions, s \in Versions \cup {NoVersion}, a \in BOOLEAN :
               WriteRollout(u, v, s, a)
    \/ \E d \in Drifts : FindDrifted(d) \/ RollBack(d) \/ DropDrift(d)

RolloutSpec == RolloutInit /\ [][RolloutNext]_rolloutVars

-----------------------------------------------------------------------------
(* Correctness.                                                            *)

\* _active_rollout, _select_model_version: v serves some or all of the entities.
Serves(v) == \/ \E r \in Rollouts : IsNewestActive(r) /\ v \in {rollout[r].active, rollout[r].shadow}
             \/ Active = {} /\ v = Default

\* A version that was rolled back for its drift serves no entity until an upsert
\* names it again, whatever upserts and other drift workers were under way; not so
\* the default version, and not when two upserts made two active rows.
RolledBackNotServed ==
    ~twins => \A v \in withdrawn : Serves(v) => v = Default
=============================================================================
