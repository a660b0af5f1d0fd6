------------------------------- MODULE Intake -------------------------------
(***************************************************************************)
(* How runs come to be: HTTP callers, behind the rate limiter, and the     *)
(* replicas of the scheduler, which are not limited, fire triggers of the  *)
(* same tenant into the same runs table (ApiService.fire next to           *)
(* Scheduler.tick).  The window of the limiter is the minute.              *)
(*                                                                         *)
(* A caller reads the clock, then takes the limiter's lock, then the       *)
(* store's: other callers, ticks, a new minute or a restart of the service *)
(* come in between.  Bounds: MaxRequests HTTP requests and MaxRestarts     *)
(* restarts of the service.                                                *)
(***************************************************************************)
EXTENDS Scheduler, RateLimiter

CONSTANTS
    Callers,      \* threads of the API service
    Requests,     \* the triggers callers may post
    MaxRequests, MaxRestarts

ASSUME IntakeAssumption ==
    /\ \A q \in Requests : q.event \in Events
    /\ Windows = Minutes
    /\ MaxRequests \in Nat /\ MaxRestarts \in Nat /\ IsFiniteSet(Callers)

VARIABLES
    caller,       \* caller -> where it is in fire, and the bucket it computed
    requests, restarts,
    admitted      \* history: window -> requests let through in its bucket

apiVars == <<limiterVars, caller, requests, restarts, admitted>>
vars == <<schedulerVars, apiVars>>

Outside == [pc |-> "outside", bucket |-> 0]

\* Type invariant of both intake paths.
TypeOK ==
    /\ SchedulerTypeOK /\ LimiterTypeOK
    /\ caller \in [Callers -> [pc : {"outside", "counting", "admitted"}, bucket : Minutes \cup {0}]]
    /\ \A c \in Callers : caller[c].pc = "counting" => caller[c].bucket \in 1 .. clock
    /\ requests \in 0 .. MaxRequests /\ restarts \in 0 .. MaxRestarts
    /\ admitted \in [Windows -> Nat]

Init ==
    /\ SchedulerInit /\ LimiterInit
    /\ caller = [c \in Callers |-> Outside]
    /\ requests = 0 /\ restarts = 0
    /\ admitted = [w \in Windows |-> 0]

\* allow computes the bucket before it takes the lock.
Enter(c) ==
    /\ caller[c].pc = "outside" /\ requests < MaxRequests
    /\ requests' = requests + 1
    /\ caller' = [caller EXCEPT ![c] = [pc |-> "counting", bucket |-> clock]]
    /\ UNCHANGED <<schedulerVars, limiterVars, restarts, admitted>>

\* Then it counts; past the limit fire raises RateLimited.
Count(c) ==
    LET b == caller[c].bucket
    IN  /\ caller[c].pc = "counting"
        /\ Allow(b)
        /\ IF Admits(b)
           THEN /\ caller' = [caller EXCEPT ![c] = [pc |-> "admitted", bucket |-> 0]]
                /\ admitted' = [admitted EXCEPT ![b] = @ + 1]
           ELSE /\ caller' = [caller EXCEPT ![c] = Outside]
                /\ UNCHANGED admitted
        /\ UNCHANGED <<schedulerVars, requests, restarts>>

\* create_or_get_run; the run itself is the engine's business.
Fire(c, tr) ==
    /\ caller[c].pc = "admitted"
    /\ GetRun(tr) \/ CreateRun(tr)
    /\ caller' = [caller EXCEPT ![c] = Outside]
    /\ UNCHANGED <<clock, tick, ended, limiterVars, requests, restarts, admitted>>

ExpireWindow(w) ==
    /\ Expire(w, clock)
    /\ UNCHANGED <<schedulerVars, caller, requests, restarts, admitted>>

\* The API service dies with its requests and is started again.
Restart ==
    /\ restarts < MaxRestarts
    /\ restarts' = restarts + 1
    /\ Forget
    /\ caller' = [c \in Callers |-> Outside]
    /\ UNCHANGED <<schedulerVars, requests, admitted>>

Next ==
    \/ SchedulerNext /\ UNCHANGED apiVars
    \/ \E c \in Callers : \/ Enter(c) \/ Count(c)
                          \/ \E tr \in Requests : Fire(c, tr)
    \/ \E w \in Windows : ExpireWindow(w)
    \/ Restart

Spec == Init /\ [][Next]_vars

-----------------------------------------------------------------------------
\* The limiter (ratelimit.py): while a window lasts no more than Limit of its
\* requests are let through, although callers of an earlier window take the
\* lock late and purge or recreate entries.  When it is over its entry may be
\* purged, or expire, and a caller that has computed its bucket but not yet
\* counted is let through again, at most one request for each thread (which
\* is more than "at most `limit` calls per `window_s` per key", the class's
\* docstring).  A restart of the service starts the window anew where the
\* table is in its memory, and does not where it is in Redis.
Started == IF limiter = "memory" THEN 1 + restarts ELSE 1
WithinLimit ==
    \A w \in Windows :
        admitted[w] <= Limit * Started + (IF w < clock THEN Cardinality(Callers) ELSE 0)
=============================================================================
