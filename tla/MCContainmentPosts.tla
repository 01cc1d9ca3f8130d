------------------------- MODULE MCContainmentPosts -------------------------
(* Containment for TLC with a history of what the partner carried out for  *)
(* the automatic runs, recorded or not.                                    *)
EXTENDS Containment

VARIABLE carriedOut             \* automatic blocks, in the order of the posts

PostsInit == Init /\ carriedOut = <<>>

\* Worker w posts a block with an answer that counts as executed.
Confirmed(w) == /\ wpc[w] = "post" /\ wpc'[w] = "select"
                /\ mine'[w][Len(mine'[w])].status = "executed"

PostsNext ==
    /\ Next
    /\ carriedOut' = IF \E w \in Workers : Confirmed(w)
                     THEN LET w == CHOOSE w \in Workers : Confirmed(w)
                          IN  Append(carriedOut, [target |-> target[w], at |-> now])
                     ELSE carriedOut

PostsSpec == PostsInit /\ [][PostsNext]_<<vars, carriedOut>>

\* QUALITY_HARDENING_PHASE2.md:110-113, "Auto-containment guardrails now enforce:
\* per-target cooldown": the automation has no block of a target carried out
\* within the cooldown of another. The code does not keep this, even with one
\* worker: it posts first, and records all its blocks in one commit at the end.
PostedCooldownKept ==
    \A i, k \in 1 .. Len(carriedOut) :
        (i < k /\ carriedOut[i].target = carriedOut[k].target)
            => carriedOut[k].at > carriedOut[i].at + Cooldown
=============================================================================
