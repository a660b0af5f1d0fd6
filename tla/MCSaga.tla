------------------------------- MODULE MCSaga -------------------------------
(***************************************************************************)
(* The engine on a workflow with the features the reference workflow does  *)
(* not use: an approval node, retries, compensating steps (undo for book;  *)
(* retract for notify, which itself needs approval), a receiver that       *)
(* ignores the idempotency key (notify, a webhook), a denied call, a       *)
(* terminate node, and an agent that calls a mutating tool by itself       *)
(* (draft: call 1 is allowed, call 2 would need approval).                 *)
(*                                                                         *)
(*   review (approval) -> draft (agent) -> book -> notify (webhook)        *)
(*                                                  -> done (terminate)    *)
(***************************************************************************)
EXTENDS Durability

SagaSteps == {"review", "draft", "book", "notify", "undo", "retract", "done"}
SagaValues == {Null, 1, 2}

SagaNodeType == [s \in SagaSteps |->
    CASE s = "review" -> "approval" [] s = "draft" -> "agent" [] s = "done" -> "terminate" [] OTHER -> "tool"]
SagaNext == [s \in SagaSteps |->
    CASE s = "review" -> "draft" [] s = "draft" -> "book" [] s = "book" -> "notify" [] s = "notify" -> "done"
      [] OTHER -> None]
SagaAttempts == [s \in SagaSteps |-> IF s = "book" THEN 2 ELSE 1]
SagaCompensation == [s \in SagaSteps |->
    CASE s = "book" -> "undo" [] s = "notify" -> "retract" [] OTHER -> None]
SagaSideEffect == [s \in SagaSteps |-> s \in {"draft", "book", "notify", "undo", "retract"}]
SagaDedupes == [s \in SagaSteps |-> s \notin {"draft", "notify"}]
SagaCost == [s \in SagaSteps |-> IF s \in {"book", "notify", "undo", "retract"} THEN 1 ELSE 0]

\* A model that may use up its turns, and one that always answers in time.
SagaStubborn == [s \in SagaSteps |-> [turns |-> 2, busy |-> 2, calls |-> {1, 2}, cost |-> 1]]
SagaTimely == [s \in SagaSteps |-> [turns |-> 2, busy |-> 1, calls |-> {1, 2}, cost |-> 1]]

SagaArm(s, ctx) == None
SagaResolve(s, ctx) == IF s = "notify" THEN ctx["book"] ELSE 1
\* Booking 2 must not be announced; retracting, and drafting 2, needs approval.
SagaDecide(s, a) == CASE s = "notify" /\ a = 2              -> "deny"
                      [] s = "retract" \/ (s = "draft" /\ a = 2) -> "require_approval"
                      [] OTHER                              -> "allow"
\* Undoing returns nothing.
SagaOutcomes(s, a) == CASE s = "book" -> {1, 2} [] s = "undo" -> {Null} [] OTHER -> {1}

\* The shape the theorems on compensation, approvals and agents ask for.
SagaRank == [s \in SagaSteps |->
    CASE s = "draft" -> 1 [] s = "book" -> 2 [] s = "notify" -> 3 [] s = "done" -> 4 [] OTHER -> 0]
ASSUME SagaShape == CompensationOffPath /\ CompensationsDiffer /\ Forward(SagaRank)
=============================================================================
