----------------------------- MODULE Durability -----------------------------
(***************************************************************************)
(* The engine implements RunLifecycle: with one driver on a run at a time, *)
(* crashes, retries, resumes, replays, compensations and late connector    *)
(* calls are invisible to somebody who sees only the runs table and the    *)
(* external systems.                                                       *)
(***************************************************************************)
EXTENDS Engine

\* The steps that some context selects after s.
FollowsOf == [s \in Steps |-> {Successor(s, c) : c \in Context}]

\* A mutating tool step; and one whose receiver honours the key it is given
\* (an agent's calls are given none).
MutatingTools == {s \in Steps : NodeType[s] = "tool" /\ SideEffect[s]}
KeyedTools == {s \in MutatingTools : Dedupes[s]}

PhaseOf(r) == IF r \notin DOMAIN runs THEN "absent"
              ELSE IF runs[r].st.status \in Terminal THEN runs[r].st.status ELSE "live"

Lifecycle == INSTANCE RunLifecycle WITH
    Follows <- FollowsOf,
    Undo    <- CompensateWith,
    Mutates <- MutatingTools,
    Once    <- KeyedTools,
    phase   <- [r \in RunIds |-> PhaseOf(r)],
    at      <- [r \in RunIds |-> IF r \in DOMAIN runs THEN runs[r].st.cursor ELSE None],
    held    <- [k \in EffectKeys |-> Len(posted[k])],
    sent    <- {c[1] : c \in inflight}

\* The engine with one driver per run (workflow.py _drive, store.py
\* checkpoint and the ledger) implements the lifecycle: every one of its
\* steps is a step of RunLifecycle or changes nothing it shows.
Implements == Lifecycle!Spec
=============================================================================
