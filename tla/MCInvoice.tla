------------------------------ MODULE MCInvoice ------------------------------
(***************************************************************************)
(* The engine on the reference workflow, invoice triage (example_run.py    *)
(* build_workflow), under the default policies.  Values are amounts: an    *)
(* extracted amount of 5000 is posted at once, 8200 needs approval; the    *)
(* vendor record lookup_vendor returns is the value 1.                     *)
(***************************************************************************)
EXTENDS Durability, Policy, TLC

InvoiceSteps == {"extract", "validate", "decide", "post"}
InvoiceValues == {Null, 1, 5000, 8200}

InvoiceNodeType == [s \in InvoiceSteps |->
    CASE s = "extract" -> "agent" [] s = "decide" -> "branch" [] OTHER -> "tool"]
InvoiceNext == [s \in InvoiceSteps |->
    CASE s = "extract" -> "validate" [] s = "validate" -> "decide" [] OTHER -> None]
InvoiceTool(s) == IF s = "post" THEN "create_ap_entry" ELSE "lookup_vendor"

InvoiceAttempts == [s \in InvoiceSteps |-> 1]
InvoiceNoCompensation == [s \in InvoiceSteps |-> None]
InvoiceSideEffect == [s \in InvoiceSteps |-> s = "post"]
InvoiceDedupes == [s \in InvoiceSteps |-> TRUE]
\* A model that answers at once (MockModel), and one that first calls tools:
\* lookup_vendor (the call 1), or create_ap_entry, which the extractor's
\* allow-list lacks (the call 5000).
InvoiceQuiet == [s \in InvoiceSteps |-> [turns |-> 8, busy |-> 0, calls |-> {}, cost |-> 0]]
InvoiceBusy == [s \in InvoiceSteps |-> [turns |-> 3, busy |-> 2, calls |-> {1, 5000}, cost |-> 0]]
InvoiceCost == [s \in InvoiceSteps |-> CASE s = "extract" -> 1 [] s = "post" -> 3 [] OTHER -> 0]

\* Both arms of the branch go to "post".
InvoiceArm(s, ctx) == "post"
InvoiceResolve(s, ctx) == IF s \in {"validate", "post"} THEN ctx["extract"] ELSE Unset
InvoiceDecide(s, a) ==
    LET policies == DefaultPolicies(InvoiceValues \cup {Unset})
    IN  IF s = "extract"
        THEN LET tool == IF a = 1 THEN "lookup_vendor" ELSE "create_ap_entry"
             IN  Check(policies, {"lookup_vendor"}, tool = "create_ap_entry", <<tool, a>>)
        ELSE Check(policies, {InvoiceTool(s)}, s = "post", <<InvoiceTool(s), a>>)
\* create_ap_entry returns the entry it made from the arguments.
InvoiceOutcomes(s, a) == CASE s = "extract" -> {5000, 8200}
                           [] s = "post"    -> {a} \ {Unset}
                           [] OTHER         -> {1}

\* The shape the theorems on compensation, approvals and agents ask for.
InvoiceRank == [s \in InvoiceSteps |->
    CASE s = "extract" -> 0 [] s = "validate" -> 1 [] s = "decide" -> 2 [] OTHER -> 3]
ASSUME InvoiceShape == CompensationOffPath /\ CompensationsDiffer /\ Forward(InvoiceRank)

\* Runs, trigger keys and threads are interchangeable.
Symmetry == Permutations(RunIds) \cup Permutations(Keys) \cup Permutations(Drivers)
=============================================================================
