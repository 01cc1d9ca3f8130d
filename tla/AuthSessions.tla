---------------------------- MODULE AuthSessions ----------------------------
(***************************************************************************)
(* auth/service.py: the sessions and the password of a user. Requests run  *)
(* in threads, each with a database session of its own: it reads rows,     *)
(* computes, and commits the columns it changed.                           *)
(*                                                                         *)
(* A change of the password commits the password, and then revokes the     *)
(* sessions it finds in a second transaction.                              *)
(***************************************************************************)
EXTENDS Naturals

CONSTANTS Sessions,              \* rows of auth_session
          Requests,              \* requests at the same time
          MaxPasswords,          \* bound on passwords the user has had
          MaxPairs               \* bound on token pairs of a session

ASSUME AuthBoundsAssumption == MaxPasswords \in Nat \ {0} /\ MaxPairs \in Nat \ {0}

VARIABLES password,              \* version of the password
          session,               \* state, password at its login, token pair
          work,                  \* per request: what it has read so far
          ended,                 \* sessions begun before this password are ended
          late                   \* history: logged in with a password replaced meanwhile

authVars == <<password, session, work, ended, late>>

NoSession == [state |-> "none", began |-> 0, pair |-> 0]
NoWork == [step |-> "idle", began |-> 0, rows |-> {}]
Steps == {"idle", "verified", "refreshing", "changed", "listed"}

AuthTypeOK ==
    /\ password \in Nat \ {0}
    /\ session \in [Sessions -> [state : {"none", "live", "revoked"}, began : Nat, pair : Nat]]
    /\ work \in [Requests -> [step : Steps, began : Nat, rows : SUBSET Sessions]]
    /\ ended \in Nat
    /\ late \subseteq Sessions

AuthInit == /\ password = 1
            /\ session = [s \in Sessions |-> NoSession]
            /\ work = [r \in Requests |-> NoWork]
            /\ ended = 0
            /\ late = {}

Live(s) == session[s].state = "live"

Goes(r, w) == work' = [work EXCEPT ![r] = w]

-----------------------------------------------------------------------------
\* login: the password (and a code) is verified; a refused one changes counters
\* that are not modelled.
Verify(r) == /\ work[r].step = "idle"
             /\ Goes(r, [NoWork EXCEPT !.step = "verified", !.began = password])
             /\ UNCHANGED <<password, session, ended, late>>

\* ... and the session is added.
Open(r, s) == /\ work[r].step = "verified"
              /\ session[s] = NoSession
              /\ session' = [session EXCEPT ![s] =
                     [state |-> "live", began |-> work[r].began, pair |-> 1]]
              /\ late' = IF work[r].began # password THEN late \cup {s} ELSE late
              /\ Goes(r, NoWork)
              /\ UNCHANGED <<password, ended>>

\* refresh: the session is read: not revoked, and the token matches.
ReadRefresh(r, s) == /\ work[r].step = "idle"
                     /\ Live(s)
                     /\ Goes(r, [NoWork EXCEPT !.step = "refreshing", !.rows = {s}])
                     /\ UNCHANGED <<password, session, ended, late>>

\* Mutant: every column of the row that was read is written.
WholeRow(s) == [session[s] EXCEPT !.state = "live", !.pair = @ + 1]

\* The columns a refresh sets: the pair and its expiry, not revoked_at.
Refreshed(s) == [session[s] EXCEPT !.pair = @ + 1]

\* ... and gets another pair. A fingerprint that does not match and a user who
\* is not active revoke it instead.
Refresh(r) == /\ work[r].step = "refreshing"
              /\ \E s \in work[r].rows :
                   \/ /\ session[s].pair < MaxPairs
                      /\ session' = [session EXCEPT ![s] = Refreshed(s)]
                   \/ session' = [session EXCEPT ![s].state = "revoked"]
              /\ Goes(r, NoWork)
              /\ UNCHANGED <<password, ended, late>>

\* logout: by either token, also of a session that is revoked already.
Logout(r, s) == /\ work[r].step = "idle"
                /\ session[s] # NoSession
                /\ session' = [session EXCEPT ![s].state = "revoked"]
                /\ UNCHANGED <<password, work, ended, late>>

\* change_password, admin_reset_password: the new password is committed. A reset
\* may leave the sessions; a crash may come before they are revoked.
ChangePassword(r) ==
    /\ work[r].step = "idle"
    /\ password < MaxPasswords
    /\ password' = password + 1
    /\ \/ Goes(r, [NoWork EXCEPT !.step = "changed", !.began = password + 1])
       \/ UNCHANGED work
    /\ UNCHANGED <<session, ended, late>>

\* Mutant: the sessions that were refreshed are not found.
FirstPairs == {s \in Sessions : Live(s) /\ session[s].pair = 1}

NotRevoked == {s \in Sessions : Live(s)}

\* revoke_all_user_sessions, after a change or (began 0) alone: rows are read ...
List(r) == /\ work[r].step \in {"idle", "changed"}
           /\ Goes(r, [step |-> "listed", began |-> work[r].began, rows |-> NotRevoked])
           /\ UNCHANGED <<password, session, ended, late>>

\* ... and revoked, in one commit.
Revoke(r) == /\ work[r].step = "listed"
             /\ session' = [s \in Sessions |->
                    IF s \in work[r].rows THEN [session[s] EXCEPT !.state = "revoked"]
                    ELSE session[s]]
             /\ ended' = IF work[r].began > ended THEN work[r].began ELSE ended
             /\ Goes(r, NoWork)
             /\ UNCHANGED <<password, late>>

\* An exception or a crash: what was not committed is rolled back.
Drop(r) == /\ work[r].step # "idle"
           /\ Goes(r, NoWork)
           /\ UNCHANGED <<password, session, ended, late>>

-----------------------------------------------------------------------------
AuthNext == \E r \in Requests :
               \/ Verify(r) \/ Refresh(r) \/ ChangePassword(r)
               \/ List(r) \/ Revoke(r) \/ Drop(r)
               \/ \E s \in Sessions : Open(r, s) \/ ReadRefresh(r, s) \/ Logout(r, s)

AuthSpec == AuthInit /\ [][AuthNext]_authVars

-----------------------------------------------------------------------------
(* Correctness.                                                            *)

\* When a change of the password has answered that the sessions are revoked, no
\* session of an older password is live, but one whose login had verified the
\* old password before the change and was committed after it.
OldSessionsEnd ==
    \A s \in Sessions \ late : Live(s) => session[s].began >= ended

\* A revoked session stays revoked, whatever refresh had read it before.
RevokedStays ==
    [][\A s \in Sessions : session[s].state = "revoked" => session'[s].state = "revoked"]_authVars
=============================================================================
