---------------------------- MODULE LegalGrants ----------------------------
(***************************************************************************)
(* legal/service.py: a court order, the grants authorised under it and the *)
(* verification of their tokens. A call is a request with a session of its *)
(* own: it reads rows, decides on its copies and commits what it changed;  *)
(* no row is locked or versioned.                                          *)
(*                                                                         *)
(* One order: calls for different orders share no row.                     *)
(***************************************************************************)
EXTENDS Naturals, Sequences

CONSTANTS Callers,
          TTLs,                 \* minutes a grant is requested or limited to
          MaxNow, MaxCalls,     \* bounds on the clock and on the calls
          None

ASSUME NumbersAssumption == TTLs \subseteq Nat /\ MaxNow \in Nat /\ MaxCalls \in Nat

VARIABLES now,
          order,                \* the legal_order row
          grants,               \* legal_authorization_grant, in commit order
          verified,             \* the verifications that succeeded
          call,                 \* per caller, the call under way
          calls                 \* calls made

vars == <<now, order, grants, verified, call, calls>>

\* used and revoked are the times used_at and revoked_at, 0 for null.
Orders == [status : {"active", "expired", "revoked"}, from : Nat, until : Nat,
           single : BOOLEAN, revoked : Nat]

ASSUME NoneAssumption == None \notin Orders

Grants == [status : {"allow", "deny", "used", "expired"}, from : Nat, until : Nat,
           used : Nat]

\* late: the order was revoked before the verification began.
Verifications == [grant : Nat, late : BOOLEAN]

Idle == [step |-> "idle"]
Calls == {Idle}
    \cup [step : {"evaluate"}, order : Orders]
    \cup [step : {"insert"}, grant : Grants]
    \cup [step : {"check", "expire", "use", "audit"}, grant : Nat, copy : Grants,
          mark : BOOLEAN, late : BOOLEAN]
    \cup [step : {"revoke"}, status : {"active", "expired", "revoked"}]

TypeOK == /\ now \in Nat \ {0}
          /\ order \in Orders \cup {None}
          /\ grants \in Seq(Grants)
          /\ verified \in Seq(Verifications)
          /\ \A i \in DOMAIN verified : verified[i].grant \in DOMAIN grants
          /\ call \in [Callers -> Calls]
          /\ \A c \in Callers :
                /\ call[c].step \in {"check", "expire", "use", "audit"}
                      => call[c].grant \in DOMAIN grants
                /\ call[c].step = "use" => call[c].copy.used # 0
                /\ call[c].step = "insert" => call[c].grant.status \in {"allow", "deny"}
          /\ \A i \in DOMAIN grants : grants[i].status = "used" => grants[i].used # 0
          /\ grants # <<>> \/ (\E c \in Callers : call[c] # Idle) => order # None
          /\ calls \in 0 .. MaxCalls

Init == /\ now = 1
        /\ order = None
        /\ grants = <<>>
        /\ verified = <<>>
        /\ call = [c \in Callers |-> Idle]
        /\ calls = 0

Tick == /\ now < MaxNow
        /\ now' = now + 1
        /\ UNCHANGED <<order, grants, verified, call, calls>>

InWindow(row) == row.from <= now /\ now <= row.until

Enter(c, k) == /\ call[c] = Idle
               /\ calls < MaxCalls
               /\ calls' = calls + 1
               /\ call' = [call EXCEPT ![c] = k]

At(c, step) == call[c].step = step

Goto(c, step) == call' = [call EXCEPT ![c].step = step]

Return(c) == call' = [call EXCEPT ![c] = Idle]

-----------------------------------------------------------------------------
(* create_order, revoke_order                                              *)

CreateOrder ==
    /\ order = None
    /\ \E from, until \in 1 .. MaxNow, single \in BOOLEAN :
          order' = [status |-> "active", from |-> from, until |-> until,
                    single |-> single, revoked |-> 0]
    /\ UNCHANGED <<now, grants, verified, call, calls>>

Revoke(c) == /\ order # None
             /\ Enter(c, [step |-> "revoke", status |-> order.status])
             /\ UNCHANGED <<now, order, grants, verified>>

\* A column is written if it differs from the copy that was read.
CommitRevoke(c) ==
    /\ At(c, "revoke")
    /\ order' = [order EXCEPT
                    !.status = IF call[c].status = "revoked" THEN @ ELSE "revoked",
                    !.revoked = now]
    /\ Return(c)
    /\ UNCHANGED <<now, grants, verified, calls>>

-----------------------------------------------------------------------------
(* authorize                                                               *)

Authorize(c) == /\ order # None
                /\ Enter(c, [step |-> "evaluate", order |-> order])
                /\ UNCHANGED <<now, order, grants, verified>>

Stale(copy) == copy.status = "active" /\ copy.until < now

\* _evaluate marks an order that has ended, by its own copy; the commit makes
\* it read the row again.
ExpireOrder(c) ==
    /\ At(c, "evaluate")
    /\ Stale(call[c].order)
    /\ order' = [order EXCEPT !.status = "expired"]
    /\ call' = [call EXCEPT ![c].order = order']
    /\ UNCHANGED <<now, grants, verified, calls>>

Least(m, n) == IF m <= n THEN m ELSE n

\* fits: action and target are those of the order, with the approvals it asks
\* for. limit: requested_minutes, or max_grant_minutes if that is less.
Decision(copy, fits, limit) ==
    [status |-> IF copy.status = "active" /\ InWindow(copy) /\ fits THEN "allow" ELSE "deny",
     from |-> now, until |-> Least(copy.until, now + limit), used |-> 0]

Evaluate(c) ==
    /\ At(c, "evaluate")
    /\ ~Stale(call[c].order)
    /\ \E fits \in BOOLEAN, limit \in TTLs :
          call' = [call EXCEPT ![c] = [step |-> "insert",
                                       grant |-> Decision(call[c].order, fits, limit)]]
    /\ UNCHANGED <<now, order, grants, verified, calls>>

InsertGrant(c) == /\ At(c, "insert")
                  /\ grants' = Append(grants, call[c].grant)
                  /\ Return(c)
                  /\ UNCHANGED <<now, order, verified, calls>>

-----------------------------------------------------------------------------
(* verify_grant_token                                                      *)

\* The grant is read; mark is mark_used.
Verify(c, g, mark) ==
    /\ Enter(c, [step |-> "check", grant |-> g, copy |-> grants[g], mark |-> mark,
                 late |-> order.revoked # 0])
    /\ UNCHANGED <<now, order, grants, verified>>

\* Mutant: a grant is marked at the end of its last minute.
ExpiresEarly(copy) == /\ order.status = "active"
                      /\ copy.status = "allow"
                      /\ ~InWindow(order) \/ copy.until <= now

\* Out of either window an allowed grant is marked; the grant's window is looked
\* at if its status permits use, which an allowed one's does.
Expires(copy) == /\ order.status = "active"
                 /\ copy.status = "allow"
                 /\ ~InWindow(order) \/ ~InWindow(copy)

Uses(k) == k.mark \/ order.single

\* Mutants: the order's status is not looked at; neither is an earlier use.
PassesAnyOrder(k) == /\ InWindow(order) /\ InWindow(k.copy)
                     /\ k.copy.status \in {"allow", "used"}
                     /\ Uses(k) => k.copy.used = 0

PassesAgain(k) == /\ order.status = "active"
                  /\ InWindow(order) /\ InWindow(k.copy)
                  /\ k.copy.status \in {"allow", "used"}

Passes(k) == /\ order.status = "active"
             /\ InWindow(order) /\ InWindow(k.copy)
             /\ k.copy.status \in {"allow", "used"}
             /\ Uses(k) => k.copy.used = 0

\* The order is read and everything decided. A request for another action,
\* target or model than the grant's is refused.
Check(c) ==
    /\ At(c, "check")
    /\ \/ Expires(call[c].copy) /\ Goto(c, "expire")
       \/ Passes(call[c]) /\ ~Uses(call[c]) /\ Goto(c, "audit")
       \/ /\ Passes(call[c]) /\ Uses(call[c])
          /\ call' = [call EXCEPT ![c].step = "use", ![c].copy.used = now]
       \/ ~Expires(call[c].copy) /\ Return(c)
    /\ UNCHANGED <<now, order, grants, verified, calls>>

CommitExpired(c) == /\ At(c, "expire")
                    /\ grants' = [grants EXCEPT ![call[c].grant].status = "expired"]
                    /\ Return(c)
                    /\ UNCHANGED <<now, order, verified, calls>>

CommitUse(c) == /\ At(c, "use")
                /\ grants' = [grants EXCEPT ![call[c].grant].status = "used",
                                            ![call[c].grant].used = call[c].copy.used]
                /\ Goto(c, "audit")
                /\ UNCHANGED <<now, order, verified, calls>>

\* The audit is committed and the caller answered.
Answer(c) == /\ At(c, "audit")
             /\ verified' = Append(verified, [grant |-> call[c].grant, late |-> call[c].late])
             /\ Return(c)
             /\ UNCHANGED <<now, order, grants, calls>>

-----------------------------------------------------------------------------
\* An error or a crash: what is not committed is lost.
Fail(c) == /\ call[c] # Idle
           /\ Return(c)
           /\ UNCHANGED <<now, order, grants, verified, calls>>

Step(c) == \/ Revoke(c) \/ CommitRevoke(c)
           \/ Authorize(c) \/ ExpireOrder(c) \/ Evaluate(c) \/ InsertGrant(c)
           \/ \E g \in DOMAIN grants, mark \in BOOLEAN : Verify(c, g, mark)
           \/ Check(c) \/ CommitExpired(c) \/ CommitUse(c) \/ Answer(c)
           \/ Fail(c)

Next == Tick \/ CreateOrder \/ \E c \in Callers : Step(c)

Spec == Init /\ [][Next]_vars

-----------------------------------------------------------------------------
(* Correctness.                                                            *)

\* No verification that began after a revocation was committed succeeds, also
\* when a late _evaluate has overwritten the status "revoked" with "expired".
NoUseAfterRevoke == \A i \in DOMAIN verified : ~verified[i].late

\* A grant is marked expired only when it can no longer be used, whichever
\* window the verification found itself outside of.
ExpiryTrue == \A i \in DOMAIN grants : grants[i].status = "expired" => grants[i].until < now

\* single_use_token (service.py:329): a grant of such an order is verified once.
\* Two verifications at a time can both read it unused.
SingleUse == order # None /\ order.single =>
                \A i, j \in DOMAIN verified : verified[i].grant = verified[j].grant => i = j
=============================================================================
