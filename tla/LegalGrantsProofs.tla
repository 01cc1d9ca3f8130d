------------------------- MODULE LegalGrantsProofs -------------------------
(***************************************************************************)
(* Proofs about LegalGrants, for any callers, limits and bounds: types,    *)
(* that no verification outruns a revocation it began after, that a grant  *)
(* is marked expired only when it is, and that one of a single-use order   *)
(* is verified once while verifications have not overlapped.               *)
(***************************************************************************)
EXTENDS MCLegalGrants, SequenceTheorems, TLAPS

USE NumbersAssumption, NoneAssumption

-----------------------------------------------------------------------------
(* Types.                                                                  *)

VerifySteps == {"check", "expire", "use", "audit"}

LEMMA TypeInit == Init => TypeOK
BY DEF Init, TypeOK, Calls, Idle

\* What the step of a call says of its fields.
LEMMA CallShape ==
    ASSUME TypeOK, NEW c \in Callers
    PROVE  /\ call[c].step \in {"idle", "evaluate", "insert", "revoke"} \cup VerifySteps
           /\ At(c, "idle") <=> call[c] = Idle
           /\ At(c, "evaluate") => call[c] \in [step : {"evaluate"}, order : Orders]
           /\ At(c, "insert") => call[c] \in [step : {"insert"}, grant : Grants]
           /\ At(c, "revoke") => call[c] \in [step : {"revoke"},
                                              status : {"active", "expired", "revoked"}]
           /\ call[c].step \in VerifySteps =>
                 call[c] \in [step : VerifySteps, grant : Nat, copy : Grants,
                              mark : BOOLEAN, late : BOOLEAN]
BY DEF TypeOK, Calls, Idle, At, VerifySteps

\* The order there is while a call is under way.
LEMMA OrderThere ==
    ASSUME TypeOK, NEW c \in Callers, call[c] # Idle
    PROVE  order \in Orders
BY DEF TypeOK

\* Changing or adding a row keeps the grants well-typed.
LEMMA SetGrant ==
    ASSUME TypeOK, NEW g \in DOMAIN grants, NEW row \in Grants,
           row.status = "used" => row.used # 0,
           grants' = [grants EXCEPT ![g] = row]
    PROVE  /\ grants' \in Seq(Grants)
           /\ DOMAIN grants' = DOMAIN grants
           /\ \A i \in DOMAIN grants' : grants'[i].status = "used" => grants'[i].used # 0
<1>1. grants \in Seq(Grants) /\ DOMAIN grants = 1 .. Len(grants)
  BY DEF TypeOK
<1>2. grants' \in Seq(Grants) /\ DOMAIN grants' = DOMAIN grants
  BY <1>1, ExceptSeq
<1>3. QED
  BY <1>2 DEF TypeOK

LEMMA AddGrant ==
    ASSUME TypeOK, NEW row \in Grants, row.status \in {"allow", "deny"},
           grants' = Append(grants, row)
    PROVE  /\ grants' \in Seq(Grants)
           /\ DOMAIN grants \subseteq DOMAIN grants'
           /\ \A i \in DOMAIN grants' : grants'[i].status = "used" => grants'[i].used # 0
<1>1. /\ grants \in Seq(Grants)
      /\ DOMAIN grants = 1 .. Len(grants)
      /\ Len(grants) \in Nat
  BY DEF TypeOK
<1>2. /\ grants' \in Seq(Grants)
      /\ DOMAIN grants' = 1 .. Len(grants) + 1
      /\ \A i \in 1 .. Len(grants) : grants'[i] = grants[i]
      /\ grants'[Len(grants) + 1] = row
  BY <1>1
<1>3. \A i \in DOMAIN grants' : i \in DOMAIN grants \/ i = Len(grants) + 1
  BY <1>1, <1>2
<1>4. QED
  BY <1>1, <1>2, <1>3 DEF TypeOK

LEMMA TypeStep == TypeOK /\ [Next]_vars => TypeOK'
<1> SUFFICES ASSUME TypeOK, [Next]_vars PROVE TypeOK'
  OBVIOUS
<1>1. CASE Tick
  BY <1>1 DEF Tick, TypeOK
<1>2. CASE CreateOrder
  BY <1>2 DEF CreateOrder, TypeOK, Orders
<1>3. ASSUME NEW c \in Callers, Revoke(c) PROVE TypeOK'
  <2>1. [step |-> "revoke", status |-> order.status] \in Calls
    BY <1>3 DEF Revoke, TypeOK, Calls, Orders
  <2>2. QED
    BY <1>3, <2>1 DEF Revoke, Enter, TypeOK
<1>4. ASSUME NEW c \in Callers, CommitRevoke(c) PROVE TypeOK'
  <2>1. order \in Orders /\ call[c] # Idle
    BY <1>4, OrderThere DEF CommitRevoke, At, Idle
  <2>2. order' \in Orders
    BY <1>4, <2>1 DEF CommitRevoke, Orders, TypeOK
  <2>3. QED
    BY <1>4, <2>1, <2>2 DEF CommitRevoke, Return, TypeOK, Calls, Idle
<1>5. ASSUME NEW c \in Callers, Authorize(c) PROVE TypeOK'
  <2>1. [step |-> "evaluate", order |-> order] \in Calls
    BY <1>5 DEF Authorize, TypeOK, Calls
  <2>2. QED
    BY <1>5, <2>1 DEF Authorize, Enter, TypeOK
<1>6. ASSUME NEW c \in Callers, ExpireOrder(c) PROVE TypeOK'
  <2>1. order \in Orders /\ call[c] # Idle
    BY <1>6, OrderThere DEF ExpireOrder, At, Idle
  <2>2. order' \in Orders
    BY <1>6, <2>1 DEF ExpireOrder, Orders
  <2>3. [call[c] EXCEPT !.order = order'] \in Calls
    BY <1>6, <2>2, CallShape DEF ExpireOrder, Calls
  <2>4. [call[c] EXCEPT !.order = order'].step = "evaluate"
    BY <1>6, <2>2, CallShape DEF ExpireOrder, At
  <2>5. QED
    BY <1>6, <2>1, <2>2, <2>3, <2>4 DEF ExpireOrder, TypeOK
<1>7. ASSUME NEW c \in Callers, Evaluate(c) PROVE TypeOK'
  <2>1. /\ order \in Orders /\ call[c] # Idle
        /\ call[c].order \in Orders
    BY <1>7, OrderThere, CallShape DEF Evaluate, At, Idle
  <2>2. ASSUME NEW fits \in BOOLEAN, NEW limit \in TTLs,
               call' = [call EXCEPT ![c] = [step |-> "insert",
                                            grant |-> Decision(call[c].order, fits, limit)]]
        PROVE TypeOK'
    <3>1. /\ Decision(call[c].order, fits, limit) \in Grants
          /\ Decision(call[c].order, fits, limit).status \in {"allow", "deny"}
      BY <2>1, SMTT(30) DEF Decision, Least, Grants, Orders, TypeOK
    <3>2. [step |-> "insert", grant |-> Decision(call[c].order, fits, limit)] \in Calls
      BY <3>1 DEF Calls
    <3>3. QED
      BY <1>7, <2>1, <2>2, <3>1, <3>2 DEF Evaluate, TypeOK
  <2>3. QED
    BY <1>7, <2>2 DEF Evaluate
<1>8. ASSUME NEW c \in Callers, InsertGrant(c) PROVE TypeOK'
  <2>1. order \in Orders /\ call[c] # Idle /\ call[c].grant \in Grants
    BY <1>8, OrderThere, CallShape DEF InsertGrant, At, Idle
  <2>2. /\ grants' \in Seq(Grants)
        /\ DOMAIN grants \subseteq DOMAIN grants'
        /\ \A i \in DOMAIN grants' : grants'[i].status = "used" => grants'[i].used # 0
    BY <1>8, <2>1, AddGrant DEF InsertGrant, TypeOK, At
  <2>3. call' \in [Callers -> Calls] /\ \A d \in Callers \ {c} : call'[d] = call[d]
    BY <1>8 DEF InsertGrant, Return, TypeOK, Calls, Idle
  <2>4. call'[c] = Idle
    BY <1>8 DEF InsertGrant, Return, TypeOK
  <2>5. \A d \in Callers :
           /\ call'[d].step \in VerifySteps => call'[d].grant \in DOMAIN grants'
           /\ call'[d].step = "use" => call'[d].copy.used # 0
           /\ call'[d].step = "insert" => call'[d].grant.status \in {"allow", "deny"}
    <3>1. ASSUME NEW d \in Callers \ {c}
          PROVE /\ call'[d].step \in VerifySteps => call'[d].grant \in DOMAIN grants'
                /\ call'[d].step = "use" => call'[d].copy.used # 0
                /\ call'[d].step = "insert" => call'[d].grant.status \in {"allow", "deny"}
      BY <2>2, <2>3 DEF TypeOK, VerifySteps
    <3>2. QED
      BY <2>4, <3>1 DEF Idle, VerifySteps
  <2>6. order # None
    BY <2>1
  <2>7. QED
    BY <1>8, <2>2, <2>3, <2>5, <2>6 DEF InsertGrant, TypeOK, VerifySteps
<1>9. ASSUME NEW c \in Callers, NEW g \in DOMAIN grants, NEW mark \in BOOLEAN,
             Verify(c, g, mark)
      PROVE TypeOK'
  <2>1. grants[g] \in Grants /\ g \in Nat /\ order \in Orders
    BY DEF TypeOK
  <2>2. [step |-> "check", grant |-> g, copy |-> grants[g], mark |-> mark,
         late |-> order.revoked # 0] \in Calls
    BY <2>1 DEF Calls
  <2>3. QED
    BY <1>9, <2>1, <2>2 DEF Verify, Enter, TypeOK
<1>10. ASSUME NEW c \in Callers, Check(c) PROVE TypeOK'
  <2>1. /\ order \in Orders /\ call[c] # Idle /\ call[c].grant \in DOMAIN grants
        /\ call[c] \in [step : VerifySteps, grant : Nat, copy : Grants,
                        mark : BOOLEAN, late : BOOLEAN]
    BY <1>10, OrderThere, CallShape DEF Check, At, Idle, VerifySteps, TypeOK
  <2>2. ASSUME NEW s \in {"expire", "audit"}, call' = [call EXCEPT ![c].step = s]
        PROVE TypeOK'
    <3>1. [call[c] EXCEPT !.step = s] \in Calls
      BY <2>1 DEF Calls, VerifySteps
    <3>2. QED
      BY <1>10, <2>1, <2>2, <3>1 DEF Check, TypeOK
  <2>3. CASE call' = [call EXCEPT ![c].step = "use", ![c].copy.used = now]
    <3>1. [call[c] EXCEPT !.step = "use", !.copy.used = now] \in Calls
      BY <2>1 DEF Calls, VerifySteps, Grants, TypeOK
    <3>2. QED
      BY <1>10, <2>1, <2>3, <3>1 DEF Check, TypeOK
  <2>4. CASE Return(c)
    BY <1>10, <2>4 DEF Check, Return, TypeOK, Calls, Idle
  <2>5. QED
    BY <1>10, <2>2, <2>3, <2>4 DEF Check, Goto
<1>11. ASSUME NEW c \in Callers, CommitExpired(c) PROVE TypeOK'
  <2>1. call[c].grant \in DOMAIN grants /\ call[c] # Idle
    BY <1>11 DEF CommitExpired, At, Idle, TypeOK
  <2>2. /\ grants' \in Seq(Grants)
        /\ DOMAIN grants' = DOMAIN grants
        /\ \A i \in DOMAIN grants' : grants'[i].status = "used" => grants'[i].used # 0
    <3>1. grants[call[c].grant] \in Grants
      BY <2>1 DEF TypeOK
    <3>2. DEFINE row == [grants[call[c].grant] EXCEPT !.status = "expired"]
    <3>3. /\ row \in Grants
          /\ row.status = "used" => row.used # 0
          /\ grants' = [grants EXCEPT ![call[c].grant] = row]
      BY <1>11, <2>1, <3>1 DEF CommitExpired, Grants
    <3>4. QED
      BY <2>1, <3>3, SetGrant
  <2>4. QED
    BY <1>11, <2>1, <2>2 DEF CommitExpired, Return, TypeOK, Calls, Idle
<1>12. ASSUME NEW c \in Callers, CommitUse(c) PROVE TypeOK'
  <2>1. /\ call[c].grant \in DOMAIN grants /\ call[c] # Idle
        /\ call[c].copy \in Grants /\ call[c].copy.used # 0
        /\ call[c] \in [step : VerifySteps, grant : Nat, copy : Grants,
                        mark : BOOLEAN, late : BOOLEAN]
    BY <1>12, CallShape DEF CommitUse, At, Idle, TypeOK, VerifySteps
  <2>2. /\ grants' \in Seq(Grants)
        /\ DOMAIN grants' = DOMAIN grants
        /\ \A i \in DOMAIN grants' : grants'[i].status = "used" => grants'[i].used # 0
    <3>1. grants[call[c].grant] \in Grants
      BY <2>1 DEF TypeOK
    <3>2. DEFINE row == [grants[call[c].grant] EXCEPT !.status = "used", !.used = call[c].copy.used]
    <3>3. /\ row \in Grants
          /\ row.status = "used" => row.used # 0
          /\ grants' = [grants EXCEPT ![call[c].grant] = row]
      BY <1>12, <2>1, <3>1 DEF CommitUse, Grants
    <3>4. QED
      BY <2>1, <3>3, SetGrant
  <2>4. [call[c] EXCEPT !.step = "audit"] \in Calls
    BY <2>1 DEF Calls, VerifySteps
  <2>5. order # None
    BY <2>1 DEF TypeOK
  <2>6. QED
    BY <1>12, <2>1, <2>2, <2>4, <2>5 DEF CommitUse, Goto, TypeOK
<1>13. ASSUME NEW c \in Callers, Answer(c) PROVE TypeOK'
  <2>1. /\ call[c].grant \in DOMAIN grants /\ call[c] # Idle
        /\ call[c].grant \in Nat /\ call[c].late \in BOOLEAN
    BY <1>13, CallShape DEF Answer, At, Idle, TypeOK, VerifySteps
  <2>2. /\ verified' \in Seq(Verifications)
        /\ \A i \in DOMAIN verified' : verified'[i].grant \in DOMAIN grants
    BY <1>13, <2>1 DEF Answer, TypeOK, Verifications
  <2>3. QED
    BY <1>13, <2>1, <2>2 DEF Answer, Return, TypeOK, Calls, Idle
<1>14. ASSUME NEW c \in Callers, Fail(c) PROVE TypeOK'
  BY <1>14 DEF Fail, Return, TypeOK, Calls, Idle
<1>15. CASE UNCHANGED vars
  BY <1>15 DEF vars, TypeOK
<1>16. QED
  BY <1>1, <1>2, <1>3, <1>4, <1>5, <1>6, <1>7, <1>8, <1>9, <1>10, <1>11, <1>12, <1>13, <1>14,
     <1>15 DEF Next, Step

\* The rows of the order and its grants keep their types; a grant is never "used"
\* without the time of its use.
THEOREM LegalTypeCorrect == Spec => []TypeOK
<1>1. QED
  BY TypeInit, TypeStep, PTL DEF Spec

-----------------------------------------------------------------------------
(* Revocation.                                                             *)

\* revoked_at and the status agree, whatever has been written over what.
RevokedInactive == order # None => /\ order.revoked # 0 => order.status # "active"
                                   /\ order.status = "revoked" => order.revoked # 0

\* What a call under way knows of the revocation is true, and a late one has not
\* got past the check.
CallsKnow(c) == /\ At(c, "revoke") /\ call[c].status = "revoked" => order.revoked # 0
                /\ call[c].step \in VerifySteps /\ call[c].late => order.revoked # 0
                /\ call[c].step \in {"use", "audit"} => ~call[c].late

RevokeInv == /\ TypeOK
             /\ NoUseAfterRevoke
             /\ RevokedInactive
             /\ \A c \in Callers : CallsKnow(c)

LEMMA RevokeInit == Init => RevokeInv
BY TypeInit DEF Init, RevokeInv, NoUseAfterRevoke, RevokedInactive, CallsKnow, At, Idle,
                VerifySteps

\* The order's part: a revocation stays recorded.
LEMMA RevokedStays ==
    ASSUME RevokeInv, [Next]_vars
    PROVE  /\ RevokedInactive'
           /\ order # None /\ order.revoked # 0 => order'.revoked # 0
<1> USE DEF RevokeInv
<1>1. ASSUME NEW c \in Callers, CommitRevoke(c)
      PROVE /\ RevokedInactive'
            /\ order # None /\ order.revoked # 0 => order'.revoked # 0
  <2>1. order \in Orders /\ now # 0
    BY <1>1, OrderThere DEF CommitRevoke, At, Idle, TypeOK
  <2>2. order'.revoked # 0 /\ order'.status # "active"
    BY <1>1, <2>1 DEF CommitRevoke, CallsKnow, RevokedInactive, Orders
  <2>3. QED
    BY <2>2 DEF RevokedInactive
<1>2. ASSUME NEW c \in Callers, ExpireOrder(c)
      PROVE /\ RevokedInactive'
            /\ order # None /\ order.revoked # 0 => order'.revoked # 0
  <2>1. order \in Orders
    BY <1>2, OrderThere DEF ExpireOrder, At, Idle
  <2>2. QED
    BY <1>2, <2>1 DEF ExpireOrder, RevokedInactive, Orders
<1>3. CASE CreateOrder
  BY <1>3 DEF CreateOrder, RevokedInactive
<1>4. CASE UNCHANGED order
  BY <1>4 DEF RevokedInactive
<1>5. QED
  BY <1>1, <1>2, <1>3, <1>4 DEF Next, Step, vars, Tick, Revoke, Authorize, Evaluate, InsertGrant,
     Verify, Check, CommitExpired, CommitUse, Answer, Fail

\* A call that has not moved, or has returned, still knows what it knew.
LEMMA OthersKnow ==
    ASSUME RevokeInv, [Next]_vars, NEW d \in Callers,
           call'[d] = call[d] \/ call'[d] = Idle
    PROVE  CallsKnow(d)'
<1>1. CASE call'[d] = Idle
  BY <1>1 DEF CallsKnow, At, Idle, VerifySteps
<1>2. CASE call'[d] = call[d] /\ call[d] # Idle
  <2>1. order # None
    BY <1>2 DEF RevokeInv, TypeOK
  <2>2. QED
    BY <1>2, <2>1, RevokedStays DEF RevokeInv, CallsKnow, At
<1>3. QED
  BY <1>1, <1>2

LEMMA RevokeStep == RevokeInv /\ [Next]_vars => RevokeInv'
<1> SUFFICES ASSUME RevokeInv, [Next]_vars PROVE RevokeInv'
  OBVIOUS
<1>1. TypeOK' /\ RevokedInactive'
  BY TypeStep, RevokedStays DEF RevokeInv
<1>2. NoUseAfterRevoke'
  <2>1. ASSUME NEW c \in Callers, Answer(c) PROVE NoUseAfterRevoke'
    <3>1. /\ verified \in Seq(Verifications) /\ Len(verified) \in Nat
          /\ \A i \in 1 .. Len(verified) : ~verified[i].late
          /\ ~call[c].late
      BY <2>1 DEF RevokeInv, TypeOK, NoUseAfterRevoke, CallsKnow, Answer, At
    <3>2. /\ call[c].grant \in Nat /\ call[c].late \in BOOLEAN
      BY <2>1, CallShape DEF RevokeInv, Answer, At, VerifySteps
    <3>3. [grant |-> call[c].grant, late |-> call[c].late] \in Verifications
      BY <3>2 DEF Verifications
    <3>4. /\ DOMAIN verified' = 1 .. Len(verified) + 1
          /\ \A i \in 1 .. Len(verified) : verified'[i] = verified[i]
          /\ verified'[Len(verified) + 1].late = call[c].late
      BY <2>1, <3>1, <3>3 DEF Answer
    <3>5. \A i \in DOMAIN verified' : i \in 1 .. Len(verified) \/ i = Len(verified) + 1
      BY <3>1, <3>4
    <3>6. QED
      BY <3>1, <3>4, <3>5 DEF NoUseAfterRevoke
  <2>2. CASE UNCHANGED verified
    BY <2>2 DEF RevokeInv, NoUseAfterRevoke
  <2>3. QED
    BY <2>1, <2>2 DEF Next, Step, vars, Tick, CreateOrder, Revoke, CommitRevoke, Authorize,
       ExpireOrder, Evaluate, InsertGrant, Verify, Check, CommitExpired, CommitUse, Fail
<1>3. ASSUME NEW d \in Callers PROVE CallsKnow(d)'
  <2>1. ASSUME NEW c \in Callers, Revoke(c) PROVE CallsKnow(d)'
    <3>1. CASE d = c
      <4>1. call'[d] = [step |-> "revoke", status |-> order.status] /\ order' = order
        BY <2>1, <3>1 DEF Revoke, Enter, RevokeInv, TypeOK
      <4>2. order # None
        BY <2>1 DEF Revoke
      <4>3. QED
        BY <4>1, <4>2 DEF RevokeInv, RevokedInactive, CallsKnow, At, VerifySteps
    <3>2. CASE d # c
      BY <2>1, <3>2, OthersKnow DEF Revoke, Enter, RevokeInv, TypeOK
    <3>3. QED
      BY <3>1, <3>2
  <2>2. ASSUME NEW c \in Callers, NEW g \in DOMAIN grants, NEW mark \in BOOLEAN,
               Verify(c, g, mark)
        PROVE CallsKnow(d)'
    <3>1. CASE d = c
      <4>1. /\ call'[d] = [step |-> "check", grant |-> g, copy |-> grants[g], mark |-> mark,
                           late |-> order.revoked # 0]
            /\ order' = order
        BY <2>2, <3>1 DEF Verify, Enter, RevokeInv, TypeOK
      <4>2. call'[d].step = "check" /\ call'[d].late = (order'.revoked # 0)
        BY <4>1
      <4>3. QED
        BY <4>2, Zenon DEF CallsKnow, At, VerifySteps
    <3>2. CASE d # c
      BY <2>2, <3>2, OthersKnow DEF Verify, Enter, RevokeInv, TypeOK
    <3>3. QED
      BY <3>1, <3>2
  <2>3. ASSUME NEW c \in Callers, Check(c) PROVE CallsKnow(d)'
    <3>1. CASE d = c /\ Passes(call[c]) /\ call'[c].step \in {"use", "audit"}
      <4>1. order # None /\ call[c].step = "check"
        BY <2>3 DEF Check, At, Idle, RevokeInv, TypeOK
      <4>2. order.revoked = 0
        BY <3>1, <4>1 DEF Passes, RevokeInv, RevokedInactive
      <4>3. ~call[c].late
        BY <4>1, <4>2, CallShape DEF RevokeInv, CallsKnow, VerifySteps
      <4>4. call'[c].late = call[c].late
        BY <2>3, <3>1, <4>1, CallShape DEF Check, Goto, Return, Idle, RevokeInv, TypeOK,
                                           VerifySteps
      <4>5. QED
        BY <3>1, <4>3, <4>4 DEF CallsKnow, At, VerifySteps
    <3>2. CASE d = c /\ call'[c].step = "expire"
      <4>1. call'[c].late = call[c].late /\ call[c].step = "check" /\ order' = order
        BY <2>3, <3>2, CallShape DEF Check, At, Goto, Return, Idle, RevokeInv, TypeOK,
                                     VerifySteps
      <4>2. QED
        BY <3>2, <4>1 DEF RevokeInv, CallsKnow, At, VerifySteps
    <3>3. CASE d # c \/ call'[c] = Idle
      BY <2>3, <3>3, OthersKnow DEF Check, Goto, Return, RevokeInv, TypeOK
    <3>4. \/ Passes(call[c]) /\ call'[c].step \in {"use", "audit"}
          \/ call'[c].step = "expire"
          \/ call'[c] = Idle
      <4>1. call[c] \in [step : VerifySteps, grant : Nat, copy : Grants,
                         mark : BOOLEAN, late : BOOLEAN]
        BY <2>3, CallShape DEF Check, At, RevokeInv, VerifySteps
      <4>2. QED
        BY <2>3, <4>1 DEF Check, Goto, Return, RevokeInv, TypeOK
    <3>5. QED
      BY <3>1, <3>2, <3>3, <3>4
  <2>4. ASSUME NEW c \in Callers, CommitUse(c) PROVE CallsKnow(d)'
    <3>1. CASE d = c
      <4>1. /\ call'[c].late = call[c].late /\ ~call[c].late
            /\ call'[c].step = "audit"
        BY <2>4, CallShape DEF CommitUse, At, Goto, RevokeInv, TypeOK, VerifySteps, CallsKnow
      <4>2. QED
        BY <3>1, <4>1 DEF CallsKnow, At
    <3>2. CASE d # c
      BY <2>4, <3>2, OthersKnow DEF CommitUse, Goto, RevokeInv, TypeOK
    <3>3. QED
      BY <3>1, <3>2
  <2>5. ASSUME NEW c \in Callers, Authorize(c) \/ ExpireOrder(c) \/ Evaluate(c) PROVE CallsKnow(d)'
    <3>1. CASE d = c
      <4>1. call'[c].step \in {"evaluate", "insert"}
        BY <2>5, CallShape DEF Authorize, Enter, ExpireOrder, Evaluate, At, RevokeInv, TypeOK
      <4>2. QED
        BY <3>1, <4>1 DEF CallsKnow, At, VerifySteps
    <3>2. CASE d # c
      BY <2>5, <3>2, OthersKnow DEF Authorize, Enter, ExpireOrder, Evaluate, RevokeInv, TypeOK
    <3>3. QED
      BY <3>1, <3>2
  <2>6. ASSUME NEW c \in Callers, \/ CommitRevoke(c) \/ InsertGrant(c) \/ CommitExpired(c)
                                  \/ Answer(c) \/ Fail(c)
        PROVE CallsKnow(d)'
    BY <2>6, OthersKnow DEF CommitRevoke, InsertGrant, CommitExpired, Answer, Fail, Return,
                            RevokeInv, TypeOK
  <2>7. CASE UNCHANGED call
    BY <2>7, OthersKnow
  <2>8. QED
    BY <2>1, <2>2, <2>3, <2>4, <2>5, <2>6, <2>7 DEF Next, Step, vars, Tick, CreateOrder
<1>4. QED
  BY <1>1, <1>2, <1>3 DEF RevokeInv

\* A verification that begins after the order was revoked never succeeds, whatever
\* else is under way and however the order's status is overwritten.
THEOREM NoUseAfterRevokeAlways == Spec => []NoUseAfterRevoke
<1>1. RevokeInv => NoUseAfterRevoke
  BY DEF RevokeInv
<1>2. QED
  BY <1>1, RevokeInit, RevokeStep, PTL DEF Spec

-----------------------------------------------------------------------------
(* Expiry.                                                                 *)

\* A grant has begun and, unless it was denied, lies in the order's window.
Within(row) == /\ row.from <= now
               /\ row.status # "deny" => order.from <= row.from /\ row.until <= order.until

\* The copies of a call agree with the rows on what never changes.
CallsAgree(c) ==
    /\ At(c, "evaluate") => /\ call[c].order.from = order.from
                            /\ call[c].order.until = order.until
    /\ At(c, "insert") => Within(call[c].grant)
    /\ call[c].step \in VerifySteps =>
          /\ call[c].copy.until = grants[call[c].grant].until
          /\ call[c].copy.from = grants[call[c].grant].from
          /\ call[c].copy.status = "deny" <=> grants[call[c].grant].status = "deny"
    /\ call[c].step \in {"expire", "use"} => call[c].copy.status # "deny"
    /\ At(c, "expire") => call[c].copy.until < now

ExpiryInv == /\ TypeOK
             /\ ExpiryTrue
             /\ \A i \in DOMAIN grants : Within(grants[i])
             /\ \A c \in Callers : CallsAgree(c)

LEMMA ExpiryInit == Init => ExpiryInv
BY TypeInit DEF Init, ExpiryInv, ExpiryTrue, CallsAgree, At, Idle, VerifySteps

\* Time goes on, and the order's window stays.
LEMMA WindowStays ==
    ASSUME TypeOK, [Next]_vars
    PROVE  /\ now <= now'
           /\ order # None => order'.from = order.from /\ order'.until = order.until
<1>0. now \in Nat
  BY DEF TypeOK
<1>1. ASSUME NEW c \in Callers, CommitRevoke(c) \/ ExpireOrder(c)
      PROVE order'.from = order.from /\ order'.until = order.until /\ now' = now
  <2>1. order \in Orders
    BY <1>1, OrderThere DEF CommitRevoke, ExpireOrder, At, Idle
  <2>2. CASE CommitRevoke(c)
    BY <2>1, <2>2 DEF CommitRevoke, Orders
  <2>3. CASE ExpireOrder(c)
    BY <2>1, <2>3 DEF ExpireOrder, Orders
  <2>4. QED
    BY <1>1, <2>2, <2>3
<1>2. CASE Tick
  BY <1>2 DEF Tick, TypeOK
<1>3. CASE CreateOrder
  BY <1>3 DEF CreateOrder, TypeOK
<1>4. CASE UNCHANGED <<order, now>>
  BY <1>0, <1>4
<1>5. \/ Tick \/ CreateOrder \/ UNCHANGED <<order, now>>
      \/ \E c \in Callers : CommitRevoke(c) \/ ExpireOrder(c)
  BY DEF Next, Step, vars, Revoke, Authorize, Evaluate, InsertGrant, Verify, Check, CommitExpired,
         CommitUse, Answer, Fail
<1>6. QED
  BY <1>0, <1>1, <1>2, <1>3, <1>4, <1>5

\* What does not change about a grant's row once it is there.
LEMMA GrantStays ==
    ASSUME ExpiryInv, [Next]_vars, NEW i \in DOMAIN grants
    PROVE  /\ i \in DOMAIN grants'
           /\ grants'[i].from = grants[i].from
           /\ grants'[i].until = grants[i].until
           /\ grants'[i].status = "deny" <=> grants[i].status = "deny"
           /\ grants'[i].status = "expired" => grants'[i].until < now'
<1> DEFINE Goal == /\ i \in DOMAIN grants'
                   /\ grants'[i].from = grants[i].from
                   /\ grants'[i].until = grants[i].until
                   /\ grants'[i].status = "deny" <=> grants[i].status = "deny"
                   /\ grants'[i].status = "expired" => grants'[i].until < now'
<1>0. /\ grants[i] \in Grants /\ order \in Orders
      /\ grants[i].status = "expired" => grants[i].until < now'
      /\ now \in Nat /\ now' \in Nat
  <2>1. grants[i] \in Grants /\ order \in Orders /\ now \in Nat /\ now' \in Nat /\ now <= now'
    BY TypeStep, WindowStays DEF ExpiryInv, TypeOK
  <2>2. QED
    BY <2>1 DEF ExpiryInv, ExpiryTrue, Grants
<1>1. ASSUME NEW c \in Callers, InsertGrant(c) PROVE Goal
  BY <1>0, <1>1 DEF InsertGrant, ExpiryInv, TypeOK
<1>2. ASSUME NEW c \in Callers, CommitExpired(c) PROVE Goal
  <2>1. /\ call[c].grant \in DOMAIN grants
        /\ call[c].copy.status # "deny"
        /\ grants[call[c].grant].until < now
        /\ grants[call[c].grant].status # "deny"
        /\ now' = now
    BY <1>2 DEF CommitExpired, At, ExpiryInv, TypeOK, CallsAgree, VerifySteps
  <2>2. QED
    BY <1>0, <1>2, <2>1 DEF CommitExpired, Grants
<1>3. ASSUME NEW c \in Callers, CommitUse(c) PROVE Goal
  <2>1. /\ call[c].grant \in DOMAIN grants
        /\ grants[call[c].grant].status # "deny"
    BY <1>3 DEF CommitUse, At, ExpiryInv, TypeOK, CallsAgree, VerifySteps
  <2>2. QED
    BY <1>0, <1>3, <2>1 DEF CommitUse, Grants
<1>4. CASE UNCHANGED grants
  BY <1>0, <1>4
<1>5. QED
  BY <1>1, <1>2, <1>3, <1>4 DEF Next, Step, vars, Tick, CreateOrder, Revoke, CommitRevoke,
     Authorize, ExpireOrder, Evaluate, Verify, Check, Answer, Fail

\* A row that lies in the window keeps to it.
LEMMA WithinStays ==
    ASSUME TypeOK, [Next]_vars, order # None, NEW row \in Grants, Within(row)
    PROVE  /\ row.from <= now'
           /\ row.status # "deny" => order'.from <= row.from /\ row.until <= order'.until
<1>1. /\ now \in Nat /\ now' \in Nat /\ now <= now'
      /\ order'.from = order.from /\ order'.until = order.until
  BY WindowStays, TypeStep DEF TypeOK
<1>2. row.from \in Nat
  BY DEF Grants
<1>3. QED
  BY <1>1, <1>2 DEF Within

\* A call that has not moved, or has returned, still agrees.
LEMMA OthersAgree ==
    ASSUME ExpiryInv, [Next]_vars, NEW d \in Callers,
           call'[d] = call[d] \/ call'[d] = Idle
    PROVE  CallsAgree(d)'
<1>1. CASE call'[d] = Idle
  BY <1>1 DEF CallsAgree, At, Idle, VerifySteps
<1>2. CASE call'[d] = call[d] /\ call[d] # Idle
  <2>1. TypeOK /\ order # None /\ now \in Nat /\ now' \in Nat /\ now <= now'
        /\ order'.from = order.from /\ order'.until = order.until
    BY <1>2, TypeStep, WindowStays DEF ExpiryInv, TypeOK
  <2>2. CASE call[d].step \in VerifySteps
    <3>1. /\ call[d].grant \in DOMAIN grants
          /\ call[d].copy \in Grants
      BY <2>1, <2>2, CallShape DEF TypeOK, VerifySteps
    <3>2. QED
      BY <1>2, <2>1, <2>2, <3>1, GrantStays DEF ExpiryInv, CallsAgree, At, VerifySteps, Grants
  <2>3. CASE At(d, "insert")
    <3>1. call[d].grant \in Grants /\ Within(call[d].grant)
      BY <2>1, <2>3, CallShape DEF ExpiryInv, CallsAgree
    <3>2. Within(call[d].grant)'
      BY <1>2, <2>1, <3>1, WithinStays DEF Within
    <3>3. QED
      BY <1>2, <2>3, <3>2 DEF CallsAgree, At, VerifySteps
  <2>4. CASE At(d, "evaluate") \/ At(d, "revoke") \/ At(d, "idle")
    BY <1>2, <2>1, <2>4 DEF ExpiryInv, CallsAgree, At, VerifySteps
  <2>5. QED
    BY <2>1, <2>2, <2>3, <2>4, CallShape DEF At
<1>3. QED
  BY <1>1, <1>2

\* The grant that is inserted, and those that were there, lie in the window.
LEMMA GrantsStep ==
    ASSUME ExpiryInv, [Next]_vars
    PROVE  ExpiryTrue' /\ \A i \in DOMAIN grants' : Within(grants[i])'
<1>1. TypeOK /\ TypeOK' /\ (grants # <<>> => order # None)
  BY TypeStep DEF ExpiryInv, TypeOK
<1>2. ASSUME NEW i \in DOMAIN grants
      PROVE /\ grants'[i].status = "expired" => grants'[i].until < now'
            /\ Within(grants[i])'
  <2>1. grants[i] \in Grants /\ Within(grants[i]) /\ order # None
    BY <1>1 DEF ExpiryInv, TypeOK
  <2>2. QED
    BY <1>1, <2>1, WithinStays, GrantStays DEF Within
<1>3. ASSUME NEW i \in DOMAIN grants', i \notin DOMAIN grants
      PROVE /\ grants'[i].status # "expired"
            /\ Within(grants[i])'
  <2>1. PICK c \in Callers : InsertGrant(c)
    <3>1. ASSUME NEW c \in Callers, CommitExpired(c) \/ CommitUse(c) PROVE DOMAIN grants' = DOMAIN grants
      BY <3>1 DEF CommitExpired, CommitUse
    <3>2. QED
      BY <1>3, <3>1 DEF Next, Step, vars, Tick, CreateOrder, Revoke, CommitRevoke, Authorize,
         ExpireOrder, Evaluate, Verify, Check, Answer, Fail
  <2>2. /\ call[c].grant \in Grants /\ Within(call[c].grant)
        /\ call[c].grant.status \in {"allow", "deny"}
        /\ now' = now /\ order' = order
    BY <1>1, <2>1, CallShape DEF ExpiryInv, CallsAgree, InsertGrant, TypeOK, At
  <2>3. grants'[i] = call[c].grant
    <3>1. grants \in Seq(Grants) /\ Len(grants) \in Nat /\ DOMAIN grants = 1 .. Len(grants)
      BY <1>1 DEF TypeOK
    <3>2. QED
      BY <1>3, <2>1, <2>2, <3>1 DEF InsertGrant
  <2>4. QED
    BY <2>2, <2>3 DEF Within
<1>4. QED
  BY <1>2, <1>3 DEF ExpiryTrue

LEMMA ExpiryStep == ExpiryInv /\ [Next]_vars => ExpiryInv'
<1> SUFFICES ASSUME ExpiryInv, [Next]_vars PROVE ExpiryInv'
  OBVIOUS
<1>1. TypeOK /\ TypeOK' /\ now \in Nat
  BY TypeStep DEF ExpiryInv, TypeOK
<1>2. ASSUME NEW d \in Callers PROVE CallsAgree(d)'
  <2>1. ASSUME NEW c \in Callers, Authorize(c) PROVE CallsAgree(d)'
    <3>1. CASE d = c
      <4>1. call'[d] = [step |-> "evaluate", order |-> order] /\ order' = order
        BY <1>1, <2>1, <3>1 DEF Authorize, Enter, TypeOK
      <4>2. QED
        BY <4>1 DEF CallsAgree, At, VerifySteps
    <3>2. CASE d # c
      BY <1>1, <2>1, <3>2, OthersAgree DEF Authorize, Enter, TypeOK
    <3>3. QED
      BY <3>1, <3>2
  <2>2. ASSUME NEW c \in Callers, ExpireOrder(c) PROVE CallsAgree(d)'
    <3>1. CASE d = c
      <4>1. call'[d].order = order' /\ call'[d].step = "evaluate"
        BY <1>1, <2>2, <3>1, CallShape DEF ExpireOrder, At, TypeOK
      <4>2. QED
        BY <4>1 DEF CallsAgree, At, VerifySteps
    <3>2. CASE d # c
      BY <1>1, <2>2, <3>2, OthersAgree DEF ExpireOrder, TypeOK
    <3>3. QED
      BY <3>1, <3>2
  <2>3. ASSUME NEW c \in Callers, Evaluate(c) PROVE CallsAgree(d)'
    <3>1. CASE d = c
      <4>1. PICK fits \in BOOLEAN, limit \in TTLs :
                call'[d] = [step |-> "insert", grant |-> Decision(call[c].order, fits, limit)]
        BY <1>1, <2>3, <3>1 DEF Evaluate, TypeOK
      <4>2. /\ call[c].order \in Orders /\ order' = order /\ now' = now
            /\ call[c].order.from = order.from /\ call[c].order.until = order.until
        BY <1>1, <2>3, CallShape DEF Evaluate, ExpiryInv, CallsAgree
      <4>3. Within(Decision(call[c].order, fits, limit))
        BY <1>1, <4>2 DEF Within, Decision, InWindow, Least, Orders
      <4>4. Within(call[d].grant)'
        BY <4>1, <4>2, <4>3 DEF Within, Decision
      <4>5. QED
        BY <4>1, <4>4 DEF CallsAgree, At, VerifySteps
    <3>2. CASE d # c
      BY <1>1, <2>3, <3>2, OthersAgree DEF Evaluate, TypeOK
    <3>3. QED
      BY <3>1, <3>2
  <2>4. ASSUME NEW c \in Callers, NEW g \in DOMAIN grants, NEW mark \in BOOLEAN,
               Verify(c, g, mark)
        PROVE CallsAgree(d)'
    <3>1. CASE d = c
      <4>1. /\ call'[d] = [step |-> "check", grant |-> g, copy |-> grants[g], mark |-> mark,
                           late |-> order.revoked # 0]
            /\ grants' = grants
        BY <1>1, <2>4, <3>1 DEF Verify, Enter, TypeOK
      <4>2. /\ call'[d].step = "check" /\ call'[d].grant = g
            /\ call'[d].copy = grants'[g]
        BY <4>1
      <4>3. QED
        BY <4>2 DEF CallsAgree, At, VerifySteps
    <3>2. CASE d # c
      BY <1>1, <2>4, <3>2, OthersAgree DEF Verify, Enter, TypeOK
    <3>3. QED
      BY <3>1, <3>2
  <2>5. ASSUME NEW c \in Callers, Check(c) PROVE CallsAgree(d)'
    <3>1. CASE d = c /\ call'[c] # Idle
      <4>1. /\ call[c] \in [step : VerifySteps, grant : Nat, copy : Grants,
                            mark : BOOLEAN, late : BOOLEAN]
            /\ call[c].grant \in DOMAIN grants /\ order \in Orders
            /\ grants' = grants /\ now' = now /\ order' = order
        BY <1>1, <2>5, CallShape, OrderThere DEF Check, At, Idle, VerifySteps, TypeOK
      <4>2. /\ call[c].copy.until = grants[call[c].grant].until
            /\ call[c].copy.from = grants[call[c].grant].from
            /\ call[c].copy.status = "deny" <=> grants[call[c].grant].status = "deny"
            /\ Within(grants[call[c].grant])
        BY <2>5, <4>1 DEF Check, At, ExpiryInv, CallsAgree, VerifySteps
      <4>3. CASE Expires(call[c].copy) /\ Goto(c, "expire")
        <5>1. call[c].copy.until < now
          BY <1>1, <4>1, <4>2, <4>3 DEF Expires, InWindow, Within, Grants, Orders
        <5>2. call'[c] = [call[c] EXCEPT !.step = "expire"] /\ call[c].copy.status # "deny"
          BY <1>1, <4>3 DEF Goto, Expires, TypeOK
        <5>3. QED
          BY <3>1, <4>1, <4>2, <5>1, <5>2 DEF CallsAgree, At, VerifySteps
      <4>4. CASE Passes(call[c]) /\ Goto(c, "audit")
        <5>1. call'[c] = [call[c] EXCEPT !.step = "audit"]
          BY <1>1, <4>4 DEF Goto, TypeOK
        <5>2. QED
          BY <3>1, <4>1, <4>2, <5>1 DEF CallsAgree, At, VerifySteps
      <4>5. CASE Passes(call[c]) /\ call' = [call EXCEPT ![c].step = "use", ![c].copy.used = now]
        <5>1. /\ call'[c].step = "use" /\ call'[c].grant = call[c].grant
              /\ call'[c].copy.until = call[c].copy.until
              /\ call'[c].copy.from = call[c].copy.from
              /\ call'[c].copy.status = call[c].copy.status
              /\ call[c].copy.status # "deny"
          BY <1>1, <4>1, <4>5 DEF Passes, Grants, TypeOK
        <5>2. QED
          BY <3>1, <4>1, <4>2, <5>1 DEF CallsAgree, At, VerifySteps
      <4>6. QED
        BY <1>1, <2>5, <3>1, <4>3, <4>4, <4>5 DEF Check, Return, TypeOK
    <3>2. CASE d # c \/ call'[c] = Idle
      BY <1>1, <2>5, <3>2, OthersAgree DEF Check, Goto, Return, TypeOK
    <3>3. QED
      BY <3>1, <3>2
  <2>6. ASSUME NEW c \in Callers, CommitUse(c) PROVE CallsAgree(d)'
    <3>1. CASE d = c
      <4>1. /\ call'[c].step = "audit" /\ call'[c].grant = call[c].grant
            /\ call'[c].copy = call[c].copy /\ call[c].grant \in DOMAIN grants
            /\ call[c].step \in VerifySteps
        BY <1>1, <2>6, CallShape DEF CommitUse, At, Goto, TypeOK, VerifySteps
      <4>2. QED
        BY <3>1, <4>1, GrantStays DEF ExpiryInv, CallsAgree, At, VerifySteps
    <3>2. CASE d # c
      BY <1>1, <2>6, <3>2, OthersAgree DEF CommitUse, Goto, TypeOK
    <3>3. QED
      BY <3>1, <3>2
  <2>7. ASSUME NEW c \in Callers, Revoke(c) PROVE CallsAgree(d)'
    <3>1. CASE d = c
      BY <1>1, <2>7, <3>1 DEF Revoke, Enter, CallsAgree, At, VerifySteps, TypeOK
    <3>2. CASE d # c
      BY <1>1, <2>7, <3>2, OthersAgree DEF Revoke, Enter, TypeOK
    <3>3. QED
      BY <3>1, <3>2
  <2>8. ASSUME NEW c \in Callers, \/ CommitRevoke(c) \/ InsertGrant(c) \/ CommitExpired(c)
                                  \/ Answer(c) \/ Fail(c)
        PROVE CallsAgree(d)'
    BY <1>1, <2>8, OthersAgree DEF CommitRevoke, InsertGrant, CommitExpired, Answer, Fail,
                                   Return, TypeOK
  <2>9. CASE UNCHANGED call
    BY <2>9, OthersAgree
  <2>10. QED
    BY <2>1, <2>2, <2>3, <2>4, <2>5, <2>6, <2>7, <2>8, <2>9 DEF Next, Step, vars, Tick, CreateOrder
<1>3. QED
  BY <1>1, <1>2, GrantsStep DEF ExpiryInv

\* Whichever window a verification found itself outside of, and whatever copy it
\* had, a grant is marked expired only after its last minute.
THEOREM ExpiryTrueAlways == Spec => []ExpiryTrue
<1>1. ExpiryInv => ExpiryTrue
  BY DEF ExpiryInv
<1>2. QED
  BY <1>1, ExpiryInit, ExpiryStep, PTL DEF Spec

-----------------------------------------------------------------------------
(* Single use. As long as verifications have not overlapped, the one under *)
(* way knows whether its grant has been used, and every grant that was     *)
(* verified is marked used.                                                *)

Single == order # None /\ order.single

\* The grants of the verifications that succeeded are used up.
VerifiedAreUsed == \A i \in DOMAIN verified : grants[verified[i].grant].used # 0

\* What the verification under way has found is still so.
KnowsUse(c) ==
    /\ At(c, "check") => call[c].copy.used = grants[call[c].grant].used
    /\ At(c, "use") => grants[call[c].grant].used = 0
    /\ At(c, "audit") => /\ grants[call[c].grant].used # 0
                         /\ \A i \in DOMAIN verified : verified[i].grant # call[c].grant

UsedOnce == SingleUse /\ VerifiedAreUsed /\ \A c \in Callers : KnowsUse(c)

SingleUseInv == TypeOK /\ (~overlapped => ~Overlap /\ (Single => UsedOnce))

LEMMA SingleUseInit == MCInit => SingleUseInv
BY TypeInit DEF MCInit, Init, SingleUseInv, Overlap, Verifying, Single, Idle

\* The fields of a verification under way.
LEMMA VerifyShape ==
    ASSUME TypeOK, NEW c \in Callers, Verifying(c)
    PROVE  /\ call[c] \in [step : VerifySteps, grant : Nat, copy : Grants,
                           mark : BOOLEAN, late : BOOLEAN]
           /\ call[c].grant \in DOMAIN grants
           /\ order \in Orders
<1>1. call[c].step \in VerifySteps /\ call[c] # Idle
  BY DEF Verifying, VerifySteps, Idle
<1>2. QED
  BY <1>1, CallShape, OrderThere DEF TypeOK, VerifySteps

\* An order is single-use from its creation, before which nothing has happened.
LEMMA SingleStays ==
    ASSUME TypeOK, [Next]_vars, Single'
    PROVE  Single \/ (CreateOrder /\ verified = <<>> /\ \A c \in Callers : call[c] = Idle)
<1>1. CASE CreateOrder
  <2>1. grants = <<>> /\ \A c \in Callers : call[c] = Idle
    BY <1>1 DEF CreateOrder, TypeOK
  <2>2. verified = <<>>
    <3>1. /\ verified \in Seq(Verifications) /\ Len(verified) \in Nat
          /\ DOMAIN verified = 1 .. Len(verified)
      BY DEF TypeOK
    <3>2. ASSUME verified # <<>> PROVE FALSE
      <4>1. 1 \in DOMAIN verified
        BY <3>1, <3>2
      <4>2. verified[1].grant \in DOMAIN grants
        BY <4>1 DEF TypeOK
      <4>3. QED
        BY <2>1, <4>2
    <3>3. QED
      BY <3>2
  <2>3. QED
    BY <1>1, <2>1, <2>2
<1>2. ASSUME NEW c \in Callers, CommitRevoke(c) \/ ExpireOrder(c) PROVE Single
  <2>1. order \in Orders
    BY <1>2, OrderThere DEF CommitRevoke, ExpireOrder, At, Idle
  <2>2. order # None
    BY <2>1, NoneAssumption
  <2>3. order'.single = order.single
    BY <1>2, <2>1, ZenonT(40) DEF CommitRevoke, ExpireOrder, Orders
  <2>4. QED
    BY <2>2, <2>3 DEF Single
<1>3. CASE UNCHANGED order
  BY <1>3 DEF Single
<1>4. QED
  BY <1>1, <1>2, <1>3 DEF Next, Step, vars, Tick, Revoke, Authorize, Evaluate, InsertGrant,
     Verify, Check, CommitExpired, CommitUse, Answer, Fail

\* What grants there are, and which have been used, is the same in the next state.
SameUses == /\ DOMAIN grants \subseteq DOMAIN grants'
            /\ \A i \in DOMAIN grants : grants'[i].used = grants[i].used

\* A step that uses no grant and verifies none keeps all but what its own call
\* knows.
LEMMA OthersKnowUse ==
    ASSUME TypeOK, UsedOnce, SameUses, UNCHANGED verified, Single, Single'
    PROVE  /\ SingleUse' /\ VerifiedAreUsed'
           /\ \A d \in Callers : call'[d] = call[d] => KnowsUse(d)'
           /\ \A d \in Callers : call'[d].step \notin VerifySteps => KnowsUse(d)'
<1>1. SingleUse'
  BY DEF UsedOnce, SingleUse, Single
<1>2. VerifiedAreUsed'
  BY DEF UsedOnce, VerifiedAreUsed, SameUses, TypeOK
<1>3. ASSUME NEW d \in Callers, call'[d] = call[d] PROVE KnowsUse(d)'
  <2>1. CASE Verifying(d)
    <3>1. call[d].grant \in DOMAIN grants
      BY <2>1, VerifyShape
    <3>2. QED
      BY <1>3, <3>1 DEF UsedOnce, KnowsUse, At, SameUses
  <2>2. CASE ~Verifying(d)
    BY <1>3, <2>2 DEF KnowsUse, At, Verifying
  <2>3. QED
    BY <2>1, <2>2
<1>4. ASSUME NEW d \in Callers, call'[d].step \notin VerifySteps PROVE KnowsUse(d)'
  BY <1>4 DEF KnowsUse, At, VerifySteps
<1>5. QED
  BY <1>1, <1>2, <1>3, <1>4

LEMMA SingleUseStep == SingleUseInv /\ [MCNext]_<<vars, overlapped>> => SingleUseInv'
<1> SUFFICES ASSUME SingleUseInv, [MCNext]_<<vars, overlapped>> PROVE SingleUseInv'
  OBVIOUS
<1>0. TypeOK /\ TypeOK' /\ [Next]_vars
  BY TypeStep DEF SingleUseInv, MCNext
<1>1. CASE UNCHANGED <<vars, overlapped>>
  BY <1>1 DEF SingleUseInv, TypeOK, vars, Overlap, Verifying, Single, UsedOnce, SingleUse,
              VerifiedAreUsed, KnowsUse, At
<1>2. ASSUME Next, ~overlapped, ~overlapped', ~Overlap', Single' PROVE UsedOnce'
  <2>1. CASE verified = <<>> /\ CreateOrder /\ \A c \in Callers : call[c] = Idle
    <3>1. verified' = <<>> /\ DOMAIN verified' = {}
      BY <2>1 DEF CreateOrder
    <3>2. \A d \in Callers : call'[d].step = "idle"
      BY <2>1 DEF CreateOrder, Idle
    <3>3. ASSUME NEW d \in Callers PROVE KnowsUse(d)'
      BY <3>2 DEF KnowsUse, At
    <3>4. ASSUME NEW i \in DOMAIN verified' PROVE FALSE
      BY <3>1
    <3>5. SingleUse' /\ VerifiedAreUsed'
      BY <3>4, Zenon DEF SingleUse, VerifiedAreUsed
    <3>6. QED
      BY <3>3, <3>5 DEF UsedOnce
  <2> SUFFICES ASSUME Single PROVE UsedOnce'
    BY <1>0, <1>2, <2>1, SingleStays
  <2>2. /\ UsedOnce /\ ~Overlap
        /\ order # None /\ order.single
    BY <1>2 DEF SingleUseInv, Single
  <2>3. ASSUME NEW c \in Callers, SameUses, UNCHANGED verified, KnowsUse(c)',
               \A d \in Callers : d # c => call'[d] = call[d]
        PROVE UsedOnce'
    BY <1>0, <1>2, <2>2, <2>3, OthersKnowUse DEF UsedOnce
  <2>4. ASSUME NEW c \in Callers, SameUses, UNCHANGED verified,
               call'[c].step \notin VerifySteps,
               \A d \in Callers : d # c => call'[d] = call[d]
        PROVE UsedOnce'
    BY <2>3, <2>4 DEF KnowsUse, At, VerifySteps
  <2>5. CASE Tick \/ CreateOrder
    <3>1. SameUses /\ UNCHANGED <<verified, call>>
      BY <2>5 DEF Tick, CreateOrder, SameUses
    <3>2. QED
      BY <1>0, <1>2, <2>2, <3>1, OthersKnowUse DEF UsedOnce
  <2>6. ASSUME NEW c \in Callers,
               \/ Revoke(c) \/ CommitRevoke(c) \/ Authorize(c) \/ ExpireOrder(c) \/ Evaluate(c)
               \/ Fail(c)
        PROVE UsedOnce'
    <3>1. SameUses /\ UNCHANGED verified
      BY <2>6 DEF Revoke, CommitRevoke, Authorize, ExpireOrder, Evaluate, Fail, SameUses
    <3>2. \A d \in Callers : d # c => call'[d] = call[d]
      BY <1>0, <2>6 DEF Revoke, CommitRevoke, Authorize, ExpireOrder, Evaluate, Fail, Enter,
                        Return, TypeOK
    <3>3. call'[c].step \notin VerifySteps
      BY <1>0, <2>6, CallShape DEF Revoke, CommitRevoke, Authorize, ExpireOrder, Evaluate, Fail,
                        Enter, Return, Idle, At, VerifySteps, TypeOK
    <3>4. QED
      BY <2>4, <3>1, <3>2, <3>3
  <2>7. ASSUME NEW c \in Callers, InsertGrant(c) PROVE UsedOnce'
    <3>1. SameUses
      <4>1. grants \in Seq(Grants) /\ Len(grants) \in Nat /\ DOMAIN grants = 1 .. Len(grants)
        BY <1>0 DEF TypeOK
      <4>2. /\ DOMAIN grants' = 1 .. Len(grants) + 1
            /\ \A i \in 1 .. Len(grants) : grants'[i] = grants[i]
        BY <2>7, <4>1 DEF InsertGrant
      <4>3. QED
        BY <4>1, <4>2 DEF SameUses
    <3>2. /\ call'[c] = Idle /\ UNCHANGED verified
          /\ \A d \in Callers : d # c => call'[d] = call[d]
      BY <1>0, <2>7 DEF InsertGrant, Return, TypeOK
    <3>3. QED
      BY <2>4, <3>1, <3>2 DEF Idle, VerifySteps
  <2>8. ASSUME NEW c \in Callers, NEW g \in DOMAIN grants, NEW mark \in BOOLEAN,
               Verify(c, g, mark)
        PROVE UsedOnce'
    <3>1. SameUses /\ UNCHANGED <<verified, grants>>
      BY <2>8 DEF Verify, SameUses
    <3>2. /\ call'[c] = [step |-> "check", grant |-> g, copy |-> grants[g], mark |-> mark,
                         late |-> order.revoked # 0]
          /\ \A d \in Callers : d # c => call'[d] = call[d]
      BY <1>0, <2>8 DEF Verify, Enter, TypeOK
    <3>3. call'[c].step = "check" /\ call'[c].copy = grants[g] /\ call'[c].grant = g
      BY <3>2
    <3>4. KnowsUse(c)'
      BY <3>1, <3>3 DEF KnowsUse, At
    <3>5. QED
      BY <2>3, <3>1, <3>2, <3>4
  <2>9. ASSUME NEW c \in Callers, Check(c) PROVE UsedOnce'
    <3>1. /\ SameUses /\ UNCHANGED <<verified, grants>>
          /\ \A d \in Callers : d # c => call'[d] = call[d]
      BY <1>0, <2>9 DEF Check, Goto, Return, SameUses, TypeOK
    <3>2. /\ call[c] \in [step : VerifySteps, grant : Nat, copy : Grants,
                          mark : BOOLEAN, late : BOOLEAN]
          /\ call[c].copy.used = grants[call[c].grant].used
      BY <1>0, <2>2, <2>9, VerifyShape DEF Check, At, Verifying, UsedOnce, KnowsUse
    <3>3. CASE /\ Passes(call[c])
               /\ call' = [call EXCEPT ![c].step = "use", ![c].copy.used = now]
      <4>1. call[c].copy.used = 0
        BY <2>2, <3>3 DEF Passes, Uses
      <4>2. call'[c].step = "use" /\ call'[c].grant = call[c].grant
        BY <1>0, <3>2, <3>3 DEF TypeOK
      <4>3. KnowsUse(c)'
        BY <3>1, <3>2, <4>1, <4>2 DEF KnowsUse, At
      <4>4. QED
        BY <2>3, <3>1, <4>3
    <3>4. CASE call'[c].step = "expire"
      <4>1. KnowsUse(c)'
        BY <3>4 DEF KnowsUse, At
      <4>2. QED
        BY <2>3, <3>1, <4>1
    <3>5. CASE Return(c)
      BY <1>0, <2>4, <3>1, <3>5 DEF Return, Idle, VerifySteps, TypeOK
    <3>6. Uses(call[c])
      BY <2>2 DEF Uses
    <3>7. QED
      BY <1>0, <2>9, <3>2, <3>3, <3>4, <3>5, <3>6 DEF Check, Goto, TypeOK
  <2>10. ASSUME NEW c \in Callers, CommitExpired(c) PROVE UsedOnce'
    <3>1. call[c].grant \in DOMAIN grants /\ grants \in Seq(Grants)
      BY <1>0, <2>10, VerifyShape DEF CommitExpired, At, Verifying, TypeOK
    <3>2. \A i \in DOMAIN grants : grants[i] \in Grants
      BY <3>1
    <3>3. SameUses
      BY <2>10, <3>1, <3>2 DEF CommitExpired, SameUses, Grants
    <3>4. /\ call'[c] = Idle /\ UNCHANGED verified
          /\ \A d \in Callers : d # c => call'[d] = call[d]
      BY <1>0, <2>10 DEF CommitExpired, Return, TypeOK
    <3>5. QED
      BY <2>4, <3>3, <3>4 DEF Idle, VerifySteps
  <2>11. ASSUME NEW c \in Callers, CommitUse(c) PROVE UsedOnce'
    <3>1. /\ call[c] \in [step : VerifySteps, grant : Nat, copy : Grants,
                          mark : BOOLEAN, late : BOOLEAN]
          /\ call[c].grant \in DOMAIN grants
          /\ grants[call[c].grant].used = 0
          /\ call[c].copy.used # 0
          /\ grants \in Seq(Grants)
      BY <1>0, <2>2, <2>11, VerifyShape DEF CommitUse, At, Verifying, UsedOnce, KnowsUse, TypeOK
    <3>2. /\ DOMAIN grants' = DOMAIN grants
          /\ grants'[call[c].grant].used # 0
          /\ \A i \in DOMAIN grants : i # call[c].grant => grants'[i] = grants[i]
      <4>1. \A i \in DOMAIN grants : grants[i] \in Grants
        BY <3>1
      <4>2. QED
        BY <2>11, <3>1, <4>1 DEF CommitUse, Grants
    <3>3. \A i \in DOMAIN verified : /\ verified[i].grant \in DOMAIN grants
                                     /\ verified[i].grant # call[c].grant
      BY <1>0, <2>2, <3>1 DEF TypeOK, UsedOnce, VerifiedAreUsed
    <3>4. /\ call'[c].step = "audit" /\ call'[c].grant = call[c].grant
          /\ \A d \in Callers : d # c => call'[d] = call[d]
          /\ UNCHANGED <<verified, order>>
      BY <1>0, <2>11, <3>1 DEF CommitUse, Goto, TypeOK
    <3>5. KnowsUse(c)'
      BY <3>2, <3>3, <3>4 DEF KnowsUse, At
    <3>6. ASSUME NEW d \in Callers, d # c PROVE KnowsUse(d)'
      <4>1. ~Verifying(d)
        BY <2>2, <2>11, <3>6 DEF CommitUse, At, Overlap, Verifying
      <4>2. QED
        BY <3>4, <3>6, <4>1 DEF KnowsUse, At, Verifying
    <3>7. VerifiedAreUsed'
      BY <3>2, <3>3, <3>4, <2>2 DEF UsedOnce, VerifiedAreUsed
    <3>8. SingleUse'
      BY <2>2, <3>4 DEF UsedOnce, SingleUse
    <3>9. QED
      BY <3>5, <3>6, <3>7, <3>8 DEF UsedOnce
  <2>12. ASSUME NEW c \in Callers, Answer(c) PROVE UsedOnce'
    <3>1. /\ call[c] \in [step : VerifySteps, grant : Nat, copy : Grants,
                          mark : BOOLEAN, late : BOOLEAN]
          /\ grants[call[c].grant].used # 0
          /\ \A i \in DOMAIN verified : verified[i].grant # call[c].grant
      BY <1>0, <2>2, <2>12, VerifyShape DEF Answer, At, Verifying, UsedOnce, KnowsUse
    <3>2. /\ verified \in Seq(Verifications) /\ Len(verified) \in Nat
          /\ DOMAIN verified = 1 .. Len(verified)
          /\ [grant |-> call[c].grant, late |-> call[c].late] \in Verifications
      BY <1>0, <3>1 DEF TypeOK, Verifications
    <3>3. /\ DOMAIN verified' = 1 .. Len(verified) + 1
          /\ \A i \in 1 .. Len(verified) : verified'[i] = verified[i]
          /\ verified'[Len(verified) + 1].grant = call[c].grant
      BY <2>12, <3>2 DEF Answer
    <3>4. \A i \in DOMAIN verified' : i \in DOMAIN verified \/ i = Len(verified) + 1
      BY <3>2, <3>3
    <3>5. UNCHANGED <<grants, order>>
      BY <2>12 DEF Answer
    <3>6. SingleUse'
      BY <2>2, <3>1, <3>2, <3>3, <3>4, <3>5 DEF UsedOnce, SingleUse
    <3>7. VerifiedAreUsed'
      BY <2>2, <3>1, <3>2, <3>3, <3>4, <3>5 DEF UsedOnce, VerifiedAreUsed
    <3>8. ASSUME NEW d \in Callers PROVE KnowsUse(d)'
      <4>1. call'[d].step \notin VerifySteps
        <5>1. CASE d = c
          BY <1>0, <2>12, <5>1 DEF Answer, Return, Idle, VerifySteps, TypeOK
        <5>2. CASE d # c
          BY <1>0, <2>2, <2>12, <5>2 DEF Answer, Return, At, TypeOK, Overlap, Verifying,
                                         VerifySteps
        <5>3. QED
          BY <5>1, <5>2
      <4>2. QED
        BY <4>1 DEF KnowsUse, At, VerifySteps
    <3>9. QED
      BY <3>6, <3>7, <3>8 DEF UsedOnce
  <2>13. QED
    BY <1>2, <2>5, <2>6, <2>7, <2>8, <2>9, <2>10, <2>11, <2>12 DEF Next, Step
<1>3. QED
  BY <1>0, <1>1, <1>2 DEF SingleUseInv, MCNext

\* While verifications have not overlapped, a grant of an order with
\* single_use_token is verified at most once: for any number of callers and
\* calls, over failures after the commit of the use, expiries, revocations and
\* new grants under way.
THEOREM SingleUseWhileAlone == MCSpec => []SingleUseAlone
<1>1. SingleUseInv => SingleUseAlone
  BY DEF SingleUseInv, Single, UsedOnce, SingleUseAlone, SingleUse
<1>2. QED
  BY <1>1, SingleUseInit, SingleUseStep, PTL DEF MCSpec
=============================================================================
