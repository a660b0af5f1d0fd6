------------------------------ MODULE Triggers ------------------------------
(***************************************************************************)
(* Trigger dedup: derive_idempotency_key and create_or_get_run as both     *)
(* intake paths use them, Orchestrator.fire (schedules) and ApiService.fire*)
(* (HTTP requests), for the triggers of one tenant.                        *)
(*                                                                         *)
(* A trigger is [event, ids, body]: `event` is what happened in the world, *)
(* of which a source may deliver several triggers; the code does not see   *)
(* it.  `ids` are the identifying fields the source has filled in, `body`  *)
(* is the rest of the trigger.                                             *)
(***************************************************************************)
EXTENDS Naturals, FiniteSetsExt

CONSTANT Events     \* what may happen in the world

VARIABLES
    keys,           \* idempotency keys of the tenant's stored runs
    started         \* history: event -> runs created for it

IdFields_BugDeliveryFirst == <<"idempotency_key", "delivery_id", "message_id", "id">>
IdFields == <<"idempotency_key", "message_id", "delivery_id", "id">>

\* The first identifying field that is there, or else a hash of the trigger.
DeriveKey(tr) ==
    LET given == {i \in 1 .. 4 : IdFields[i] \in DOMAIN tr.ids}
    IN  IF given = {} THEN <<"sha256", tr.body>> ELSE tr.ids[IdFields[Min(given)]]

\* UNIQUE (tenant_id, idempotency_key).
KeyTaken(tr) == DeriveKey(tr) \in keys

\* create_or_get_run: the stored run, or a new one.
GetRun(tr) ==
    /\ KeyTaken(tr)
    /\ UNCHANGED <<keys, started>>
CreateRun(tr) ==
    /\ ~KeyTaken(tr)
    /\ keys' = keys \cup {DeriveKey(tr)}
    /\ started' = [started EXCEPT ![tr.event] = @ + 1]

TriggersInit ==
    /\ keys = {}
    /\ started = [e \in Events |-> 0]
=============================================================================
