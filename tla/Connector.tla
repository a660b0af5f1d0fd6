----------------------------- MODULE Connector -----------------------------
(***************************************************************************)
(* One connector (connectors.py): Connector.run wraps every call to an     *)
(* external system with a timeout, bounded retries and a circuit breaker,  *)
(* and executes it on a small thread pool.  The connector is shared: the   *)
(* API's request threads call it at the same time, and neither the breaker *)
(* nor the pool is locked by Connector.run.                                *)
(*                                                                         *)
(* A caller can lose the processor wherever the code calls out of the      *)
(* breaker: to the pool, to the operation, or to the clock (self._now()).  *)
(* Between two such points its code is one step.                           *)
(*                                                                         *)
(* Time is abstract: the breaker's opened_at is None, less than reset_s    *)
(* ago, or longer.  A call can time out while the external system does not *)
(* answer, or while it is queued behind calls that hold every worker.      *)
(* Backoff delays are left out: they only delay the next attempt.          *)
(*                                                                         *)
(* Bounds: MaxStrays abandoned calls remembered in the queue, MaxOutages   *)
(* outages of the external system.                                         *)
(***************************************************************************)
EXTENDS Naturals, SequencesExt, FiniteSets

CONSTANTS
    Callers,      \* threads inside Connector.run
    Workers,      \* the pool's threads (max_workers)
    MaxRetries,   \* ReliabilityConfig.max_retries
    Threshold,    \* ReliabilityConfig.breaker_threshold
    Stray,        \* the owner of a call nobody waits for any more
    Free,         \* a worker without a call
    MaxStrays, MaxOutages

ASSUME ConfigAssumption ==
    /\ MaxRetries \in Nat /\ Threshold \in Nat \ {0}
    /\ MaxStrays \in Nat /\ MaxOutages \in Nat
    /\ IsFiniteSet(Callers)
    /\ {Stray, Free} \cap Callers = {} /\ Stray # Free

VARIABLES
    failures,   \* CircuitBreaker._failures, up to the threshold
    opened,     \* _opened_at: "no" (None), "open" or "cooled"
    caller,     \* caller -> where it is in run
    queue,      \* the pool's FIFO of submitted calls, by owner
    worker,     \* worker -> the owner of its call, and whether it hangs
    healthy,    \* the external system answers
    outages,
    burst       \* history: calls submitted since the breaker opened

vars == <<failures, opened, caller, queue, worker, healthy, outages, burst>>

Control == {"idle", "allow", "try", "wait", "won", "failed", "opening"}
Results == {"none", "ok", "ConnectorError", "CircuitOpen", "TypeError"}
Caller == [pc : Control, attempt : 0 .. MaxRetries, retry : BOOLEAN, result : Results]

\* Each admitted caller may still submit its retries while the breaker is open.
BurstBound == Cardinality(Callers) * (MaxRetries + 1)

\* Type invariant.
TypeOK ==
    /\ failures \in 0 .. Threshold
    /\ opened \in {"no", "open", "cooled"}
    /\ caller \in [Callers -> Caller]
    /\ queue \in Seq(Callers \cup {Stray})
    /\ worker \in [Workers -> [owner : Callers \cup {Stray, Free}, hung : BOOLEAN]]
    /\ healthy \in BOOLEAN /\ outages \in 0 .. MaxOutages
    /\ burst \in 0 .. BurstBound + 1

NoJob == [owner |-> Free, hung |-> FALSE]

Init ==
    /\ failures = 0 /\ opened = "no" /\ burst = 0
    /\ caller = [c \in Callers |-> [pc |-> "idle", attempt |-> 0, retry |-> FALSE,
                                    result |-> "none"]]
    /\ queue = <<>>
    /\ worker = [w \in Workers |-> NoJob]
    /\ healthy = TRUE /\ outages = 0

Move(c, x) == caller' = [caller EXCEPT ![c] = x]

-----------------------------------------------------------------------------
(* CircuitBreaker.allow, called once per run.                              *)

Admit(x) == [x EXCEPT !.pc = "try", !.result = "none"]
Return(x, result) == [x EXCEPT !.pc = "idle", !.attempt = 0, !.retry = FALSE,
                               !.result = result]

\* `if self._opened_at is None: return True`, else on to the clock.
Call(c) ==
    /\ caller[c].pc = "idle"
    /\ Move(c, IF opened = "no" THEN Admit(caller[c])
               ELSE [caller[c] EXCEPT !.pc = "allow", !.result = "none"])
    /\ UNCHANGED <<failures, opened, queue, worker, healthy, outages, burst>>

\* `self._now() - self._opened_at >= self._reset_s`: opened_at is read again,
\* and subtracting None raises TypeError.  Half-open: nothing records that a
\* trial is under way, so every caller that comes by then is admitted.
Verdict_BugAlwaysTrial(x) == Admit(x)
Verdict(x) == CASE opened = "cooled" -> Admit(x)
                [] opened = "open"   -> Return(x, "CircuitOpen")
                [] opened = "no"     -> Return(x, "TypeError")
Compare(c) ==
    /\ caller[c].pc = "allow"
    /\ Move(c, Verdict(caller[c]))
    /\ UNCHANGED <<failures, opened, queue, worker, healthy, outages, burst>>

-----------------------------------------------------------------------------
(* One attempt: submit, then wait for the future.                          *)

Submit(c) ==
    /\ caller[c].pc = "try"
    /\ queue' = Append(queue, c)
    /\ burst' = IF opened = "open" /\ burst <= BurstBound THEN burst + 1 ELSE burst
    /\ Move(c, [caller[c] EXCEPT !.pc = "wait"])
    /\ UNCHANGED <<failures, opened, worker, healthy, outages>>

\* A free worker takes the oldest call; the system may not answer it.
StartCall(w) ==
    /\ worker[w] = NoJob /\ queue # <<>>
    /\ \E hung \in {FALSE, ~healthy} : worker' = [worker EXCEPT ![w] = [owner |-> Head(queue), hung |-> hung]]
    /\ queue' = Tail(queue)
    /\ UNCHANGED <<failures, opened, caller, healthy, outages, burst>>

\* What future.result hands the caller: a result, Transient (retried), any
\* other exception (recorded, not retried), or a ConnectorError of the
\* operation itself, which is raised as it is and not recorded.
Answers(x) ==
    {[x EXCEPT !.pc = "won"]} \cup
    (IF healthy THEN {} ELSE {[x EXCEPT !.pc = "failed", !.retry = TRUE],
                              [x EXCEPT !.pc = "failed", !.retry = FALSE],
                              Return(x, "ConnectorError")})

FinishCall(w) ==
    /\ worker[w].owner # Free
    /\ worker' = [worker EXCEPT ![w] = NoJob]
    /\ IF worker[w].owner = Stray THEN UNCHANGED caller
       ELSE \E x \in Answers(caller[worker[w].owner]) : Move(worker[w].owner, x)
    /\ UNCHANGED <<failures, opened, queue, healthy, outages, burst>>

\* FutureTimeout: the call stays in the pool, without an owner.
Strays == Cardinality({i \in 1 .. Len(queue) : queue[i] = Stray})
Disown_Bug(o, c) == o
Disown(o, c) == IF o = c THEN Stray ELSE o
TooSlow_Bug(c) == FALSE
TooSlow(c) == \/ \E w \in Workers : worker[w] = [owner |-> c, hung |-> TRUE]
              \/ /\ \E i \in 1 .. Len(queue) : queue[i] = c
                 /\ \A w \in Workers : worker[w].hung
TimeOut(c) ==
    /\ caller[c].pc = "wait"
    /\ TooSlow(c)
    /\ worker' = [w \in Workers |-> [worker[w] EXCEPT !.owner = Disown(@, c)]]
    /\ queue' = IF Strays < MaxStrays THEN [i \in 1 .. Len(queue) |-> Disown(queue[i], c)]
                ELSE RemoveFirst(queue, c)
    /\ Move(c, [caller[c] EXCEPT !.pc = "failed", !.retry = TRUE])
    /\ UNCHANGED <<failures, opened, healthy, outages, burst>>

-----------------------------------------------------------------------------
(* Recording the outcome.                                                  *)

\* Retry a transient failure while attempts are left, else raise the last.
NextAttempt_BugOneMore(x) ==
    IF x.retry /\ x.attempt <= MaxRetries
    THEN [x EXCEPT !.pc = "try", !.attempt = @ + 1, !.retry = FALSE]
    ELSE Return(x, "ConnectorError")
NextAttempt(x) ==
    IF x.retry /\ x.attempt < MaxRetries
    THEN [x EXCEPT !.pc = "try", !.attempt = @ + 1, !.retry = FALSE]
    ELSE Return(x, "ConnectorError")

RecordSuccess_BugStaysOpen(c) ==
    /\ caller[c].pc = "won"
    /\ failures' = 0
    /\ Move(c, Return(caller[c], "ok"))
    /\ UNCHANGED <<opened, burst, queue, worker, healthy, outages>>
RecordSuccess(c) ==
    /\ caller[c].pc = "won"
    /\ failures' = 0 /\ opened' = "no" /\ burst' = 0
    /\ Move(c, Return(caller[c], "ok"))
    /\ UNCHANGED <<queue, worker, healthy, outages>>

\* record_failure up to the clock call.
Counted == IF failures < Threshold THEN failures + 1 ELSE Threshold
RecordFailure(c) ==
    /\ caller[c].pc = "failed"
    /\ failures' = Counted
    /\ Move(c, IF Counted >= Threshold THEN [caller[c] EXCEPT !.pc = "opening"]
               ELSE NextAttempt(caller[c]))
    /\ UNCHANGED <<opened, queue, worker, healthy, outages, burst>>

\* `self._opened_at = self._now()`.
Trip(c) ==
    /\ caller[c].pc = "opening"
    /\ opened' = "open"
    /\ burst' = IF opened = "open" THEN burst ELSE 0
    /\ Move(c, NextAttempt(caller[c]))
    /\ UNCHANGED <<failures, queue, worker, healthy, outages>>

-----------------------------------------------------------------------------
(* The clock and the external system.                                      *)

CoolDown ==
    /\ opened = "open"
    /\ opened' = "cooled" /\ burst' = 0
    /\ UNCHANGED <<failures, caller, queue, worker, healthy, outages>>

Break ==
    /\ healthy /\ outages < MaxOutages
    /\ healthy' = FALSE /\ outages' = outages + 1
    /\ UNCHANGED <<failures, opened, caller, queue, worker, burst>>

Recover ==
    /\ ~healthy
    /\ healthy' = TRUE
    /\ UNCHANGED <<failures, opened, caller, queue, worker, outages, burst>>

CallerStep(c) == \/ Compare(c) \/ Submit(c) \/ TimeOut(c)
                 \/ RecordSuccess(c) \/ RecordFailure(c) \/ Trip(c)

Next ==
    \/ \E c \in Callers : Call(c) \/ CallerStep(c)
    \/ \E w \in Workers : StartCall(w) \/ FinishCall(w)
    \/ CoolDown \/ Break \/ Recover

\* Threads and workers run; a call hangs for good only during an outage that
\* does not end; time passes; tools keep being called.
Fairness ==
    /\ \A c \in Callers : WF_vars(CallerStep(c)) /\ WF_vars(Call(c))
    /\ \A w \in Workers : /\ WF_vars(StartCall(w))
                          /\ WF_vars((healthy \/ ~worker[w].hung) /\ FinishCall(w))
    /\ WF_vars(CoolDown)

Spec == Init /\ [][Next]_vars /\ Fairness

-----------------------------------------------------------------------------
\* The breaker sheds load: from the moment it opens until it has cooled down,
\* the external system is sent no more than the attempts of the callers that
\* were already inside run, whatever successes, trips and timeouts race.
ShedsLoad == burst <= BurstBound

\* A hard timeout and bounded retries: Connector.run returns, even when the
\* external system never answers again and every worker of the pool hangs.
EveryCallReturns == \A c \in Callers : caller[c].pc # "idle" ~> caller[c].pc = "idle"

\* A dependency that is healthy again is used again: the breaker ends up
\* closed for good, however late abandoned calls and stale trips arrive.
ClosesOnceHealthy == <>[]healthy => <>[](opened = "no")

\* Answers go where they belong: a waiting caller has exactly one call in the
\* pool and nobody else has any, so whatever timeouts and retries leave behind,
\* a late answer to an abandoned attempt is never taken for a later one's.
OwnsOneCall ==
    \A c \in Callers :
        Cardinality({w \in Workers : worker[w].owner = c})
          + Cardinality({i \in 1 .. Len(queue) : queue[i] = c})
        = IF caller[c].pc = "wait" THEN 1 ELSE 0

-----------------------------------------------------------------------------
(* What the text of the code says and its interleavings do not guarantee.  *)

\* errors.py: "Callers branch on these classes": what Connector.run raises is
\* a ConnectorError.
FailuresAreTyped == \A c \in Callers : caller[c].result # "TypeError"
=============================================================================
