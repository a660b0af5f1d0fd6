------------------------------- MODULE Policy -------------------------------
(***************************************************************************)
(* The policy engine (policy.py): a pure function from a principal's       *)
(* allow-list, a tool and its arguments to an effect.  A policy is a       *)
(* record of its priority, the calls its predicate matches, the calls it   *)
(* raises on, and its effect; a call is <<tool, args>>.                    *)
(***************************************************************************)
EXTENDS Naturals, FiniteSets

\* PolicyEngine.__init__ sorts by priority: p is asked before q.
Before(p, q) == p.priority < q.priority

Relevant(policies, call) == {p \in policies : call \in p.matches \cup p.raises}

\* The first policy, in order of priority, that matches or raises.
FirstRelevant(policies, call) ==
    CHOOSE p \in Relevant(policies, call) :
        \A q \in Relevant(policies, call) \ {p} : Before(p, q)

\* PolicyEngine.check.
Check(policies, allowList, mutating, call) ==
    IF call[1] \notin allowList THEN "deny"
    ELSE IF Relevant(policies, call) = {} THEN IF mutating THEN "deny" ELSE "allow"
    ELSE LET p == FirstRelevant(policies, call)
         IN  IF call \in p.raises THEN "deny" ELSE p.effect

\* default_policies over a set of amounts: lookup_vendor is read-only, and
\* create_ap_entry needs approval over $5,000.
DefaultPolicies(amounts) ==
    { [priority |-> 10, effect |-> "allow", raises |-> {},
       matches |-> {"lookup_vendor"} \X amounts],
      [priority |-> 20, effect |-> "require_approval",
       raises |-> {"create_ap_entry"} \X {a \in amounts : a \notin Nat},
       matches |-> {"create_ap_entry"} \X {a \in amounts : a \in Nat /\ a > 5000}],
      [priority |-> 30, effect |-> "allow", raises |-> {},
       matches |-> {"create_ap_entry"} \X amounts] }
=============================================================================
