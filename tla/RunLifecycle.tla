---------------------------- MODULE RunLifecycle ----------------------------
(***************************************************************************)
(* What the engine promises to somebody who sees only the runs table and   *)
(* the external systems, and knows nothing of drivers, copies, retries,    *)
(* crashes or the ledger (docs/01-architecture.md, workflow.py):           *)
(*                                                                         *)
(*  - a run is accepted once, moves along the graph, and ends for good;    *)
(*  - only a live run calls an external system, and only for the step it   *)
(*    has durably reached or for that step's compensation; what happens    *)
(*    after its end is at most a call that was already on its way;         *)
(*  - a receiver that honours the key gets one posting of a step, however  *)
(*    often the step is tried;                                             *)
(*  - a run does not leave a mutating step before its effect is there.     *)
(***************************************************************************)
EXTENDS Naturals

CONSTANTS
    RunIds, Steps, None,
    Start,       \* the first step
    Follows,     \* step -> the steps, or None, that may come next
    Undo,        \* step -> its compensation, or None
    Mutates,     \* steps that must take effect before the run leaves them
    Once         \* steps whose receiver takes a key only once

VARIABLES
    phase,       \* run -> "absent", "live", or how it ended
    at,          \* run -> the step it has reached
    held,        \* <<run, step>> -> postings the external system holds
    sent         \* <<run, step>> of calls that are still on their way

vars == <<phase, at, held, sent>>

Init ==
    /\ phase = [r \in RunIds |-> "absent"]
    /\ at = [r \in RunIds |-> None]
    /\ held = [k \in RunIds \X Steps |-> 0]
    /\ sent = {}

Accept(r) ==
    /\ phase[r] = "absent"
    /\ phase' = [phase EXCEPT ![r] = "live"]
    /\ at' = [at EXCEPT ![r] = Start]
    /\ UNCHANGED <<held, sent>>

\* The external system posts a call, or recognises it and does not.
Take(k) ==
    \/ UNCHANGED held
    \/ /\ k[2] \in Once => held[k] = 0
       /\ held' = [held EXCEPT ![k] = @ + 1]

\* A call of the step in hand or of its compensation; it, or a repetition of
\* it, may stay on its way.
Call(r, s) ==
    /\ phase[r] = "live"
    /\ s \in {at[r], Undo[at[r]]} \ {None}
    /\ Take(<<r, s>>)
    /\ sent' \in {sent, sent \cup {<<r, s>>}}
    /\ UNCHANGED <<phase, at>>

Arrive(k) ==
    /\ k \in sent
    /\ Take(k)
    /\ sent' \in {sent, sent \ {k}}
    /\ UNCHANGED <<phase, at>>

Advance(r, next) ==
    /\ phase[r] = "live"
    /\ next \in Follows[at[r]]
    /\ at[r] \in Mutates => held[<<r, at[r]>>] > 0
    /\ at' = [at EXCEPT ![r] = next]
    /\ phase' = [phase EXCEPT ![r] = IF next = None THEN "succeeded" ELSE "live"]
    /\ UNCHANGED <<held, sent>>

\* Failed or canceled, where it stood.
Abort(r) ==
    /\ phase[r] = "live"
    /\ \E end \in {"failed", "canceled"} : phase' = [phase EXCEPT ![r] = end]
    /\ UNCHANGED <<at, held, sent>>

Next ==
    \/ \E r \in RunIds :
          \/ Accept(r) \/ Abort(r)
          \/ \E s \in Steps : Call(r, s)
          \/ \E next \in Steps \cup {None} : Advance(r, next)
    \/ \E k \in sent : Arrive(k)

Spec == Init /\ [][Next]_vars
=============================================================================
