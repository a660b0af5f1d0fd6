-------------------------- MODULE ConnectorProofs --------------------------
(***************************************************************************)
(* Proofs about Connector, for any number of callers, workers, retries and *)
(* outages and any threshold of the breaker.                               *)
(***************************************************************************)
EXTENDS Connector, FiniteSetTheorems, SequenceTheorems, TLAPS

-----------------------------------------------------------------------------
(* Operators.                                                              *)

\* The attempts a caller inside run may still submit.
Inside == {"wait", "won", "failed", "opening"}
Left(x) == IF x.pc = "try" THEN x.attempt .. MaxRetries
           ELSE IF x.pc \in Inside THEN x.attempt + 1 .. MaxRetries ELSE {}

\* A caller that goes on from x to y neither starts nor stops to wait for the
\* pool, and gains no attempt.
Goes(x, y) == y \in Caller /\ y.pc # "wait" /\ Left(y) \subseteq Left(x)

\* The records that a caller is moved to.
At(x, p) == [x EXCEPT !.pc = p]
Asks(x) == [x EXCEPT !.pc = "allow", !.result = "none"]
Fails(x, b) == [x EXCEPT !.pc = "failed", !.retry = b]

\* They are callers.
LEMMA CallerFields ==
  ASSUME NEW x \in Caller
  PROVE  /\ x.attempt \in 0 .. MaxRetries /\ x.attempt \in Nat /\ MaxRetries \in Nat
         /\ x.pc \in Control /\ x.retry \in BOOLEAN
  BY ConfigAssumption DEF Caller

\* And so they stay, at the place they are moved to.
LEMMA CallerViews ==
  ASSUME NEW x \in Caller
  PROVE  /\ Admit(x) \in Caller /\ Admit(x).pc = "try"
         /\ \A res \in Results : Return(x, res) \in Caller /\ Return(x, res).pc = "idle"
         /\ Asks(x) \in Caller /\ Asks(x).pc = "allow"
         /\ \A p \in Control : At(x, p) \in Caller /\ At(x, p).pc = p /\ At(x, p).attempt = x.attempt
         /\ \A b \in BOOLEAN : /\ Fails(x, b) \in Caller /\ Fails(x, b).pc = "failed"
                               /\ Fails(x, b).attempt = x.attempt
  <1>2. 0 \in 0 .. MaxRetries
    BY ConfigAssumption
  <1>3. Admit(x) \in Caller /\ Admit(x).pc = "try"
    BY DEF Admit, Caller, Control, Results
  <1>4. ASSUME NEW res \in Results
        PROVE  Return(x, res) \in Caller /\ Return(x, res).pc = "idle"
    BY <1>2 DEF Return, Caller, Control
  <1>5. Asks(x) \in Caller /\ Asks(x).pc = "allow"
    BY DEF Asks, Caller, Control, Results
  <1>6. ASSUME NEW p \in Control
        PROVE  At(x, p) \in Caller /\ At(x, p).pc = p /\ At(x, p).attempt = x.attempt
    BY DEF At, Caller
  <1>7. ASSUME NEW b \in BOOLEAN
        PROVE  /\ Fails(x, b) \in Caller /\ Fails(x, b).pc = "failed"
               /\ Fails(x, b).attempt = x.attempt
    BY DEF Fails, Caller, Control
  <1> QED BY <1>3, <1>4, <1>5, <1>6, <1>7

\* The next attempt, or the end of the call.
LEMMA NextAttemptView ==
  ASSUME NEW x \in Caller
  PROVE  /\ NextAttempt(x) \in Caller
         /\ \/ NextAttempt(x).pc = "idle"
            \/ NextAttempt(x).pc = "try" /\ NextAttempt(x).attempt = x.attempt + 1
  <1>1. CASE x.retry /\ x.attempt < MaxRetries
    <2> DEFINE y == [x EXCEPT !.pc = "try", !.attempt = @ + 1, !.retry = FALSE]
    <2>1. x.attempt + 1 \in 0 .. MaxRetries
      BY <1>1, CallerFields
    <2>2. y \in Caller /\ y.pc = "try" /\ y.attempt = x.attempt + 1
      BY <2>1 DEF Caller, Control
    <2>3. NextAttempt(x) = y
      BY <1>1 DEF NextAttempt
    <2> HIDE DEF y
    <2> QED BY <2>2, <2>3
  <1>2. CASE ~(x.retry /\ x.attempt < MaxRetries)
    <2>1. NextAttempt(x) = Return(x, "ConnectorError")
      BY <1>2 DEF NextAttempt
    <2>2. Return(x, "ConnectorError") \in Caller /\ Return(x, "ConnectorError").pc = "idle"
      BY CallerViews DEF Results
    <2> QED BY <2>1, <2>2
  <1> QED BY <1>1, <1>2

\* Every way for a caller to go on but the two that matter.
LEMMA GoesViews ==
  ASSUME NEW x \in Caller
  PROVE  /\ \A res \in Results : Goes(x, Return(x, res))
         /\ Goes(x, Asks(x))
         /\ x.pc = "wait" => Goes(x, At(x, "won")) /\ \A b \in BOOLEAN : Goes(x, Fails(x, b))
         /\ x.pc = "failed" => Goes(x, At(x, "opening"))
         /\ x.pc \in {"failed", "opening"} => Goes(x, NextAttempt(x))
  <1>0. x.attempt \in Nat /\ MaxRetries \in Nat /\ x.pc \in Control
    BY CallerFields
  <1>1. ASSUME NEW y \in Caller, y.pc \in {"idle", "allow"}
        PROVE  Goes(x, y)
    BY <1>1 DEF Goes, Left, Inside
  <1>2. ASSUME NEW y \in Caller, x.pc \in {"wait", "failed"}, y.attempt = x.attempt,
               y.pc \in {"won", "failed", "opening"}
        PROVE  Goes(x, y)
    BY <1>0, <1>2 DEF Goes, Left, Inside
  <1>3. ASSUME NEW y \in Caller, x.pc \in {"failed", "opening"}, y.attempt = x.attempt + 1, y.pc = "try"
        PROVE  Goes(x, y)
    BY <1>0, <1>3 DEF Goes, Left, Inside
  <1>4. ASSUME NEW res \in Results
        PROVE  Goes(x, Return(x, res))
    <2>1. Return(x, res) \in Caller /\ Return(x, res).pc = "idle"
      BY CallerViews
    <2> QED BY <1>1, <2>1
  <1>5. Goes(x, Asks(x))
    BY <1>1, CallerViews
  <1>6. ASSUME x.pc = "wait"
        PROVE  Goes(x, At(x, "won")) /\ \A b \in BOOLEAN : Goes(x, Fails(x, b))
    <2>1. Goes(x, At(x, "won"))
      BY <1>2, <1>6, CallerViews DEF Control
    <2>2. ASSUME NEW b \in BOOLEAN
          PROVE  Goes(x, Fails(x, b))
      BY <1>2, <1>6, CallerViews
    <2> QED BY <2>1, <2>2
  <1>8. x.pc = "failed" => Goes(x, At(x, "opening"))
    BY <1>2, CallerViews DEF Control
  <1>9. x.pc \in {"failed", "opening"} => Goes(x, NextAttempt(x))
    BY <1>1, <1>3, NextAttemptView
  <1> QED BY <1>4, <1>5, <1>6, <1>8, <1>9

\* The bound is a number.
LEMMA BoundViews ==
  /\ BurstBound \in Nat /\ IsFiniteSet(Callers \X (0 .. MaxRetries))
  /\ Cardinality(Callers \X (0 .. MaxRetries)) = BurstBound
  <1>1. /\ IsFiniteSet(Callers) /\ Cardinality(Callers) \in Nat /\ MaxRetries \in Nat
    BY ConfigAssumption, FS_CardinalityType
  <1>2. IsFiniteSet(0 .. MaxRetries) /\ Cardinality(0 .. MaxRetries) = MaxRetries + 1
    BY <1>1, FS_Interval
  <1>3. /\ IsFiniteSet(Callers \X (0 .. MaxRetries))
        /\ Cardinality(Callers \X (0 .. MaxRetries)) = Cardinality(Callers) * (MaxRetries + 1)
    BY <1>1, <1>2, FS_Product
  <1>4. Cardinality(Callers \X (0 .. MaxRetries)) \in Nat
    BY <1>3, FS_CardinalityType
  <1> QED BY <1>3, <1>4 DEF BurstBound

-----------------------------------------------------------------------------
(* The pool.                                                               *)

\* The owners a call may have, and the jobs of a worker.
Owners == Callers \cup {Stray}
Jobs == [owner : Callers \cup {Stray, Free}, hung : BOOLEAN]

\* The places of a caller's calls in the pool.
Holds(c, wk) == {w \in Workers : wk[w].owner = c}
Queues(c, q) == {i \in 1 .. Len(q) : q[i] = c}

\* A caller has no call in the pool, or one, with a worker or in the queue.
NoCall(c, wk, q) == Holds(c, wk) = {} /\ Queues(c, q) = {}
OneCall(c, wk, q) ==
    \/ (\E w \in Workers : Holds(c, wk) = {w}) /\ Queues(c, q) = {}
    \/ Holds(c, wk) = {} /\ \E i \in 1 .. Len(q) : Queues(c, q) = {i}

\* The pool has exactly the calls that callers wait for, and strays.
Owned == \A c \in Callers : IF caller[c].pc = "wait" THEN OneCall(c, worker, queue)
                           ELSE NoCall(c, worker, queue)

\* A call that is submitted is the last of the queue.
LEMMA AppendQueues ==
  ASSUME NEW q \in Seq(Owners), NEW c \in Callers
  PROVE  /\ Append(q, c) \in Seq(Owners)
         /\ Queues(c, q) = {} => \E i \in 1 .. Len(Append(q, c)) : Queues(c, Append(q, c)) = {i}
         /\ \A d \in Callers : d # c => Queues(d, Append(q, c)) = Queues(d, q)
         /\ Len(Append(q, c)) = Len(q) + 1
  <1>1. /\ Len(Append(q, c)) = Len(q) + 1 /\ Append(q, c)[Len(q) + 1] = c /\ Len(q) \in Nat
        /\ \A i \in 1 .. Len(q) : Append(q, c)[i] = q[i]
        /\ Append(q, c) \in Seq(Owners)
    BY DEF Owners
  <1> DEFINE a == Append(q, c)
  <1> HIDE DEF a
  <1>2. /\ Len(a) = Len(q) + 1 /\ a[Len(q) + 1] = c /\ Len(q) \in Nat
        /\ \A i \in 1 .. Len(q) : a[i] = q[i]
    BY <1>1 DEF a
  <1>3. Queues(c, q) = {} => Queues(c, a) = {Len(q) + 1}
    BY <1>2 DEF Queues
  <1>4. \A d \in Callers : d # c => Queues(d, a) = Queues(d, q)
    BY <1>2 DEF Queues
  <1>5. Len(q) + 1 \in 1 .. Len(a)
    BY <1>2
  <1> QED BY <1>1, <1>3, <1>4, <1>5 DEF a

\* A queue in which places are given up and the rest moves up.
LEMMA ShiftQueues ==
  ASSUME NEW q \in Seq(Owners), NEW a \in Seq(Owners), NEW k \in 1 .. Len(q),
         Len(a) = Len(q) - 1,
         \A i \in 1 .. Len(a) : a[i] = IF i < k THEN q[i] ELSE q[i + 1],
         NEW d
  PROVE  /\ q[k] # d /\ Queues(d, q) = {} => Queues(d, a) = {}
         /\ q[k] # d => \A j \in 1 .. Len(q) : Queues(d, q) = {j} =>
                           \E i \in 1 .. Len(a) : Queues(d, a) = {i}
         /\ Queues(d, q) = {k} => Queues(d, a) = {}
  <1>1. Len(q) \in Nat /\ Len(a) \in Nat /\ k \in Nat
    OBVIOUS
  <1>2. \A i \in 1 .. Len(a) : i + 1 \in 1 .. Len(q) /\ i \in 1 .. Len(q)
    BY <1>1
  <1>3. \A i \in 1 .. Len(a) : (a[i] = q[i] /\ i < k) \/ (a[i] = q[i + 1] /\ i + 1 > k)
    BY <1>1
  <1>4. ASSUME Queues(d, q) = {}
        PROVE  Queues(d, a) = {}
    <2>1. \A i \in 1 .. Len(q) : q[i] # d
      BY <1>4 DEF Queues
    <2>2. \A i \in 1 .. Len(a) : a[i] # d
      BY <1>2, <1>3, <2>1
    <2> QED BY <2>2 DEF Queues
  <1>5. ASSUME Queues(d, q) = {k}
        PROVE  Queues(d, a) = {}
    <2>1. \A i \in 1 .. Len(q) : q[i] = d => i = k
      BY <1>5 DEF Queues
    <2>2. \A i \in 1 .. Len(a) : a[i] # d
      BY <1>1, <1>2, <1>3, <2>1
    <2> QED BY <2>2 DEF Queues
  <1>6. ASSUME NEW j \in 1 .. Len(q), Queues(d, q) = {j}, q[k] # d
        PROVE  \E i \in 1 .. Len(a) : Queues(d, a) = {i}
    <2>1. q[j] = d /\ j # k /\ \A i \in 1 .. Len(q) : q[i] = d => i = j
      BY <1>6 DEF Queues
    <2>2. CASE j < k
      <3>1. j \in 1 .. Len(a) /\ a[j] = d
        BY <1>1, <2>1, <2>2
      <3>2. ASSUME NEW i \in 1 .. Len(a), a[i] = d
            PROVE  i = j
        <4>1. i \in 1 .. Len(q) /\ i + 1 \in 1 .. Len(q)
          BY <1>2
        <4>2. (a[i] = q[i] /\ i < k) \/ (a[i] = q[i + 1] /\ i + 1 > k)
          BY <1>3
        <4>3. ~(a[i] = q[i + 1] /\ i + 1 > k)
          <5>1. SUFFICES ASSUME q[i + 1] = d, i + 1 > k PROVE FALSE
            BY <3>2
          <5>2. i + 1 = j
            BY <2>1, <4>1, <5>1
          <5> QED BY <1>1, <2>2, <5>1, <5>2
        <4>4. q[i] = d
          BY <3>2, <4>2, <4>3
        <4> QED BY <2>1, <4>1, <4>4
      <3> QED BY <3>1, <3>2 DEF Queues
    <2>3. CASE j > k
      <3>1. j - 1 \in 1 .. Len(a) /\ a[j - 1] = d
        BY <1>1, <2>1, <2>3
      <3>2. ASSUME NEW i \in 1 .. Len(a), a[i] = d
            PROVE  i = j - 1
        <4>1. i \in 1 .. Len(q) /\ i + 1 \in 1 .. Len(q)
          BY <1>2
        <4>2. (a[i] = q[i] /\ i < k) \/ (a[i] = q[i + 1] /\ i + 1 > k)
          BY <1>3
        <4>3. ~(a[i] = q[i] /\ i < k)
          <5>1. SUFFICES ASSUME q[i] = d, i < k PROVE FALSE
            BY <3>2
          <5>2. i = j
            BY <2>1, <4>1, <5>1
          <5> QED BY <1>1, <2>3, <5>1, <5>2
        <4>4. q[i + 1] = d
          BY <3>2, <4>2, <4>3
        <4>5. i + 1 = j
          BY <2>1, <4>1, <4>4
        <4> QED BY <1>1, <4>5
      <3> QED BY <3>1, <3>2 DEF Queues
    <2>4. j < k \/ j > k
      BY <1>1, <2>1
    <2> QED BY <2>2, <2>3, <2>4
  <1> QED BY <1>4, <1>5, <1>6

\* A worker that takes the oldest call of the queue.
LEMMA TakeCall ==
  ASSUME NEW q \in Seq(Owners), q # <<>>, NEW wk \in [Workers -> Jobs], NEW w \in Workers,
         wk[w].owner = Free, NEW j \in Jobs, j.owner = Head(q), NEW wk2,
         wk2 = [wk EXCEPT ![w] = j], NEW c \in Callers
  PROVE  /\ Tail(q) \in Seq(Owners) /\ wk2 \in [Workers -> Jobs]
         /\ NoCall(c, wk, q) => NoCall(c, wk2, Tail(q))
         /\ OneCall(c, wk, q) => OneCall(c, wk2, Tail(q))
  <1>1. /\ Tail(q) \in Seq(Owners) /\ Len(Tail(q)) = Len(q) - 1 /\ Len(q) \in Nat /\ 1 \in 1 .. Len(q)
        /\ \A i \in 1 .. Len(Tail(q)) : Tail(q)[i] = q[i + 1]
        /\ Head(q) = q[1]
    OBVIOUS
  <1> DEFINE a == Tail(q)
  <1>2. /\ a \in Seq(Owners) /\ Len(a) = Len(q) - 1 /\ Len(q) \in Nat /\ 1 \in 1 .. Len(q)
        /\ \A i \in 1 .. Len(a) : a[i] = IF i < 1 THEN q[i] ELSE q[i + 1]
        /\ j.owner = q[1]
    BY <1>1
  <1> HIDE DEF a
  <1>3. c # Free
    BY ConfigAssumption
  <1>4. wk2 \in [Workers -> Jobs] /\ wk2[w] = j /\ \A v \in Workers : v # w => wk2[v] = wk[v]
    OBVIOUS
  <1>5. /\ q[1] # c /\ Queues(c, q) = {} => Queues(c, a) = {}
        /\ q[1] # c => \A k \in 1 .. Len(q) : Queues(c, q) = {k} =>
                          \E i \in 1 .. Len(a) : Queues(c, a) = {i}
        /\ Queues(c, q) = {1} => Queues(c, a) = {}
    BY <1>2, ShiftQueues
  <1>6. CASE q[1] = c
    <2>1. 1 \in Queues(c, q)
      BY <1>2, <1>6 DEF Queues
    <2>2. ~NoCall(c, wk, q)
      BY <2>1 DEF NoCall
    <2>3. ASSUME OneCall(c, wk, q)
          PROVE  OneCall(c, wk2, a)
      <3>1. Holds(c, wk) = {} /\ Queues(c, q) = {1}
        BY <2>1, <2>3 DEF OneCall
      <3>2. Holds(c, wk2) = {w}
        BY <1>2, <1>4, <1>6, <3>1 DEF Holds
      <3> QED BY <1>5, <3>1, <3>2 DEF OneCall
    <2> QED BY <1>1, <1>4, <2>2, <2>3 DEF a
  <1>7. CASE q[1] # c
    <2>1. Holds(c, wk2) = Holds(c, wk)
      BY <1>2, <1>3, <1>4, <1>7 DEF Holds
    <2>2. NoCall(c, wk, q) => NoCall(c, wk2, a)
      BY <1>5, <1>7, <2>1 DEF NoCall
    <2>3. OneCall(c, wk, q) => OneCall(c, wk2, a)
      BY <1>5, <1>7, <2>1 DEF OneCall
    <2> QED BY <1>1, <1>4, <2>2, <2>3 DEF a
  <1> QED BY <1>6, <1>7

\* The queue without a call that is in it once, at place k.
LEMMA RemoveCall ==
  ASSUME NEW q \in Seq(Owners), NEW c \in Callers, NEW k \in 1 .. Len(q), Queues(c, q) = {k}
  PROVE  /\ RemoveFirst(q, c) \in Seq(Owners) /\ Len(RemoveFirst(q, c)) = Len(q) - 1
         /\ \A i \in 1 .. Len(q) - 1 : RemoveFirst(q, c)[i] = IF i < k THEN q[i] ELSE q[i + 1]
  <1>1. q[k] = c /\ {i \in 1 .. Len(q) : q[i] = c} = {k} /\ Len(q) \in Nat /\ k \in Nat
    BY DEF Queues
  <1>2. Min({k}) = k
    BY <1>1 DEF Min
  <1>3. SelectInSeq(q, LAMBDA v : v = c) = k
    BY <1>1, <1>2 DEF SelectInSeq
  <1>4. RemoveFirst(q, c) = RemoveAt(q, k)
    BY <1>1, <1>3 DEF RemoveFirst
  <1>5. RemoveAt(q, k) = SubSeq(q, 1, k - 1) \o SubSeq(q, k + 1, Len(q))
    BY DEF RemoveAt
  <1> DEFINE f == SubSeq(q, 1, k - 1)
             g == SubSeq(q, k + 1, Len(q))
  <1>6. /\ f \in Seq(Owners) /\ Len(f) = k - 1 /\ \A i \in 1 .. k - 1 : f[i] = q[i]
    BY <1>1
  <1>7. /\ g \in Seq(Owners) /\ Len(g) = Len(q) - k /\ \A i \in 1 .. Len(q) - k : g[i] = q[k + i]
    BY <1>1
  <1> HIDE DEF f, g
  <1>8. f \o g \in Seq(Owners) /\ Len(f \o g) = Len(q) - 1
    <2>1. f \o g \in Seq(Owners) /\ Len(f \o g) = Len(f) + Len(g)
      BY <1>6, <1>7, ConcatProperties
    <2> QED BY <1>1, <1>6, <1>7, <2>1
  <1>9. \A i \in 1 .. Len(q) - 1 : (f \o g)[i] = IF i < k THEN q[i] ELSE q[i + 1]
    BY <1>1, <1>6, <1>7
  <1> QED BY <1>4, <1>5, <1>8, <1>9 DEF f, g

\* Who is not disowned stays the owner.
LEMMA Disowned ==
  ASSUME NEW c \in Callers, NEW o
  PROVE  /\ Disown(o, c) # c
         /\ \A d \in Callers : d # c => (Disown(o, c) = d <=> o = d)
         /\ o \in Owners => Disown(o, c) \in Owners
         /\ o \in Callers \cup {Stray, Free} => Disown(o, c) \in Callers \cup {Stray, Free}
  <1>1. \A d \in Callers : d # Stray
    BY ConfigAssumption
  <1> QED BY <1>1 DEF Disown, Owners

\* A call that times out has no owner any more with its worker.
LEMMA DisownHolds ==
  ASSUME NEW wk \in [Workers -> Jobs], NEW c \in Callers
  PROVE  LET wk2 == [w \in Workers |-> [wk[w] EXCEPT !.owner = Disown(@, c)]]
         IN  /\ wk2 \in [Workers -> Jobs] /\ Holds(c, wk2) = {}
             /\ \A d \in Callers : d # c => Holds(d, wk2) = Holds(d, wk)
  <1> DEFINE wk2 == [w \in Workers |-> [wk[w] EXCEPT !.owner = Disown(@, c)]]
  <1>1. ASSUME NEW w \in Workers
        PROVE  wk2[w] \in Jobs /\ wk2[w].owner = Disown(wk[w].owner, c)
    <2> DEFINE o == Disown(wk[w].owner, c)
               j == wk[w]
    <2>1. wk2[w] = [j EXCEPT !.owner = o] /\ j \in Jobs
      OBVIOUS
    <2>2. o \in Callers \cup {Stray, Free}
      BY Disowned DEF Jobs
    <2> HIDE DEF wk2, o, j
    <2>3. wk2[w] \in Jobs /\ wk2[w].owner = o
      BY <2>1, <2>2 DEF Jobs
    <2> QED BY <2>3 DEF o
  <1>2. wk2 \in [Workers -> Jobs]
    BY <1>1
  <1> HIDE DEF wk2
  <1>3. Holds(c, wk2) = {}
    BY <1>1, Disowned DEF Holds
  <1>4. ASSUME NEW d \in Callers, d # c
        PROVE  Holds(d, wk2) = Holds(d, wk)
    <2>1. \A w \in Workers : wk2[w].owner = d <=> wk[w].owner = d
      BY <1>1, <1>4, Disowned
    <2> QED BY <2>1 DEF Holds
  <1> QED BY <1>2, <1>3, <1>4 DEF wk2

\* Nor in the queue, whether it stays there or not.
LEMMA DisownQueues ==
  ASSUME NEW q \in Seq(Owners), NEW c \in Callers,
         Queues(c, q) = {} \/ \E k \in 1 .. Len(q) : Queues(c, q) = {k},
         NEW q2, q2 = [i \in 1 .. Len(q) |-> Disown(q[i], c)] \/ q2 = RemoveFirst(q, c)
  PROVE  /\ q2 \in Seq(Owners) /\ Queues(c, q2) = {}
         /\ \A d \in Callers : d # c =>
               /\ Queues(d, q) = {} => Queues(d, q2) = {}
               /\ \A j \in 1 .. Len(q) : Queues(d, q) = {j} =>
                      \E i \in 1 .. Len(q2) : Queues(d, q2) = {i}
  <1>6. CASE q2 = [i \in 1 .. Len(q) |-> Disown(q[i], c)]
    <2>1. \A i \in 1 .. Len(q) : Disown(q[i], c) \in Owners
      BY Disowned
    <2>2. q2 \in Seq(Owners) /\ Len(q2) = Len(q) /\ \A i \in 1 .. Len(q) : q2[i] = Disown(q[i], c)
      BY <1>6, <2>1
    <2>3. Queues(c, q2) = {}
      BY <2>2, Disowned DEF Queues
    <2>4. ASSUME NEW d \in Callers, d # c
          PROVE  Queues(d, q2) = Queues(d, q)
      <3>1. \A i \in 1 .. Len(q) : q2[i] = d <=> q[i] = d
        BY <2>2, <2>4, Disowned
      <3> QED BY <2>2, <3>1 DEF Queues
    <2> QED BY <2>2, <2>3, <2>4
  <1>7. CASE q2 = RemoveFirst(q, c)
    <2>1. CASE Queues(c, q) = {}
      <3>1. q2 = q
        BY <1>7, <2>1 DEF RemoveFirst, Queues
      <3> QED BY <2>1, <3>1
    <2>2. ASSUME NEW k \in 1 .. Len(q), Queues(c, q) = {k}
          PROVE  /\ q2 \in Seq(Owners) /\ Queues(c, q2) = {}
                 /\ \A d \in Callers : d # c =>
                       /\ Queues(d, q) = {} => Queues(d, q2) = {}
                       /\ \A j \in 1 .. Len(q) : Queues(d, q) = {j} =>
                              \E i \in 1 .. Len(q2) : Queues(d, q2) = {i}
      <3>2. /\ q2 \in Seq(Owners) /\ Len(q2) = Len(q) - 1
            /\ \A i \in 1 .. Len(q2) : q2[i] = IF i < k THEN q[i] ELSE q[i + 1]
        BY <1>7, <2>2, RemoveCall
      <3>3. Queues(c, q2) = {}
        BY <2>2, <3>2, ShiftQueues
      <3>4. ASSUME NEW d \in Callers, d # c
            PROVE  /\ Queues(d, q) = {} => Queues(d, q2) = {}
                   /\ \A j \in 1 .. Len(q) : Queues(d, q) = {j} =>
                          \E i \in 1 .. Len(q2) : Queues(d, q2) = {i}
        <4>1. q[k] # d
          BY <2>2, <3>4 DEF Queues
        <4> QED BY <3>2, <4>1, ShiftQueues, ZenonT(60)
      <3> QED BY <2>2, <3>2, <3>3, <3>4
    <2> QED BY <2>1, <2>2
  <1> QED BY <1>6, <1>7

-----------------------------------------------------------------------------
(* The steps.                                                              *)

\* The types, by name.
LEMMA TypeViews ==
  TypeOK <=> /\ failures \in 0 .. Threshold /\ opened \in {"no", "open", "cooled"}
             /\ caller \in [Callers -> Caller] /\ queue \in Seq(Owners) /\ worker \in [Workers -> Jobs]
             /\ healthy \in BOOLEAN /\ outages \in 0 .. MaxOutages /\ burst \in 0 .. BurstBound + 1
  BY DEF TypeOK, Owners, Jobs

\* One caller moves.
LEMMA MoveCallers ==
  ASSUME caller \in [Callers -> Caller], NEW c \in Callers, NEW y \in Caller, Move(c, y)
  PROVE  /\ caller' \in [Callers -> Caller] /\ caller'[c] = y
         /\ \A d \in Callers : d # c => caller'[d] = caller[d]
  BY DEF Move

\* A step of a caller that leaves the pool alone: it goes on, as the breaker
\* stays, closes or opens, or it is admitted by a breaker that is not open.
Steps(c, y) ==
    /\ Move(c, y) /\ y \in Caller /\ y.pc # "wait" /\ caller[c].pc # "wait"
    /\ UNCHANGED <<queue, worker>>
    /\ \/ opened # "open" /\ UNCHANGED <<opened, burst>>
       \/ /\ Goes(caller[c], y)
          /\ \/ UNCHANGED <<opened, burst>>
             \/ opened' = "no" /\ burst' = 0
             \/ opened' = "open" /\ burst' = IF opened = "open" THEN burst ELSE 0

\* Every step of the breaker is one of these.
LEMMA CallerSteps ==
  ASSUME TypeOK, NEW c \in Callers,
         Call(c) \/ Compare(c) \/ RecordSuccess(c) \/ RecordFailure(c) \/ Trip(c)
  PROVE  (\E y : Steps(c, y)) /\ failures' \in 0 .. Threshold /\ UNCHANGED <<healthy, outages>>
  <1> DEFINE x == caller[c]
  <1>t. x \in Caller /\ failures \in 0 .. Threshold /\ opened \in {"no", "open", "cooled"} /\ Threshold \in Nat
    BY ConfigAssumption, TypeViews
  <1>r. {"ok", "ConnectorError", "CircuitOpen", "TypeError"} \subseteq Results
    BY DEF Results
  <1>v. /\ Admit(x) \in Caller /\ Admit(x).pc = "try" /\ Asks(x) \in Caller /\ Asks(x).pc = "allow"
        /\ \A res \in Results : Return(x, res) \in Caller /\ Return(x, res).pc = "idle"
    BY <1>t, CallerViews
  <1>g. /\ \A res \in Results : Goes(x, Return(x, res))
        /\ Goes(x, Asks(x))
        /\ x.pc = "failed" => Goes(x, At(x, "opening"))
        /\ x.pc \in {"failed", "opening"} => Goes(x, NextAttempt(x))
    BY <1>t, GoesViews
  <1>y. \A y : Goes(x, y) => y \in Caller /\ y.pc # "wait"
    BY DEF Goes
  <1>1. CASE Call(c)
    <2>1. /\ x.pc = "idle" /\ UNCHANGED <<failures, opened, queue, worker, healthy, outages, burst>>
          /\ Move(c, IF opened = "no" THEN Admit(x) ELSE Asks(x))
      BY <1>1 DEF Call, Asks
    <2> HIDE DEF x
    <2>2. CASE opened = "no"
      <3>1. Steps(c, Admit(x))
        BY <1>v, <2>1, <2>2 DEF Steps, x
      <3> QED BY <1>t, <2>1, <3>1
    <2>3. CASE opened # "no"
      <3>1. Steps(c, Asks(x))
        BY <1>g, <1>y, <2>1, <2>3 DEF Steps, x
      <3> QED BY <1>t, <2>1, <3>1
    <2> QED BY <2>2, <2>3
  <1>2. CASE Compare(c)
    <2>1. /\ x.pc = "allow" /\ UNCHANGED <<failures, opened, queue, worker, healthy, outages, burst>>
          /\ Move(c, Verdict(x))
      BY <1>2 DEF Compare
    <2> HIDE DEF x
    <2>2. CASE opened = "cooled"
      <3>1. Verdict(x) = Admit(x)
        BY <2>2 DEF Verdict
      <3>2. Steps(c, Admit(x))
        BY <1>v, <2>1, <2>2, <3>1 DEF Steps, x
      <3> QED BY <1>t, <2>1, <3>2
    <2>3. CASE opened # "cooled"
      <3>1. \E res \in Results : Verdict(x) = Return(x, res)
        BY <1>t, <1>r, <2>3 DEF Verdict
      <3>2. Steps(c, Verdict(x))
        BY <1>g, <1>y, <2>1, <3>1 DEF Steps, x
      <3> QED BY <1>t, <2>1, <3>2
    <2> QED BY <2>2, <2>3
  <1>3. CASE RecordSuccess(c)
    <2>1. /\ x.pc = "won" /\ UNCHANGED <<queue, worker, healthy, outages>> /\ Move(c, Return(x, "ok"))
          /\ failures' = 0 /\ opened' = "no" /\ burst' = 0
      BY <1>3 DEF RecordSuccess
    <2> HIDE DEF x
    <2>2. Steps(c, Return(x, "ok"))
      BY <1>g, <1>r, <1>y, <2>1 DEF Steps, x
    <2> QED BY <1>t, <2>1, <2>2
  <1>4. CASE RecordFailure(c)
    <2>1. /\ x.pc = "failed" /\ UNCHANGED <<opened, queue, worker, healthy, outages, burst>>
          /\ Move(c, At(x, "opening")) \/ Move(c, NextAttempt(x))
          /\ failures' = Counted
      BY <1>4 DEF RecordFailure, At
    <2>2. Counted \in 0 .. Threshold
      BY <1>t DEF Counted
    <2> HIDE DEF x
    <2>3. ASSUME NEW y, Goes(x, y), Move(c, y)
          PROVE  Steps(c, y)
      BY <1>y, <2>1, <2>3 DEF Steps, x
    <2> QED BY <1>g, <2>1, <2>2, <2>3
  <1>5. CASE Trip(c)
    <2>1. /\ x.pc = "opening" /\ UNCHANGED <<failures, queue, worker, healthy, outages>>
          /\ Move(c, NextAttempt(x)) /\ opened' = "open" /\ burst' = IF opened = "open" THEN burst ELSE 0
      BY <1>5 DEF Trip
    <2> HIDE DEF x
    <2>2. Steps(c, NextAttempt(x))
      BY <1>g, <1>y, <2>1 DEF Steps, x
    <2> QED BY <1>t, <2>1, <2>2
  <1> QED BY <1>1, <1>2, <1>3, <1>4, <1>5

\* What a worker that is done does for the caller that waits.
LEMMA AnswerViews ==
  ASSUME NEW x \in Caller, NEW y \in Answers(x)
  PROVE  y \in Caller /\ y.pc # "wait" /\ (x.pc = "wait" => Goes(x, y))
  <1>1. \/ y = At(x, "won") \/ y = Fails(x, TRUE) \/ y = Fails(x, FALSE)
        \/ y = Return(x, "ConnectorError")
    BY DEF Answers, At, Fails
  <1>2. "won" \in Control /\ "ConnectorError" \in Results
    BY DEF Control, Results
  <1>3. y \in Caller /\ y.pc # "wait"
    <2>1. \A b \in BOOLEAN : Fails(x, b) \in Caller /\ Fails(x, b).pc # "wait"
      BY CallerViews
    <2>2. At(x, "won") \in Caller /\ At(x, "won").pc # "wait"
      BY <1>2, CallerViews
    <2>3. Return(x, "ConnectorError") \in Caller /\ Return(x, "ConnectorError").pc # "wait"
      BY <1>2, CallerViews
    <2> QED BY <1>1, <2>1, <2>2, <2>3
  <1>4. ASSUME x.pc = "wait"
        PROVE  Goes(x, y)
    <2>1. /\ Goes(x, At(x, "won")) /\ Goes(x, Fails(x, TRUE)) /\ Goes(x, Fails(x, FALSE))
          /\ Goes(x, Return(x, "ConnectorError"))
      BY <1>2, <1>4, GoesViews
    <2> QED BY <1>1, <2>1
  <1> QED BY <1>3, <1>4

-----------------------------------------------------------------------------
(* The type invariant and the calls of the pool.                           *)

\* They go together: an answer is typed because its owner waits for it.
Pooled == TypeOK /\ Owned

\* The calls of one caller, in the current pool.
CallsOK(c, x, wk, q) == IF x.pc = "wait" THEN OneCall(c, wk, q) ELSE NoCall(c, wk, q)

\* The invariant in the next state.
LEMMA PooledNext ==
  ASSUME failures' \in 0 .. Threshold, opened' \in {"no", "open", "cooled"},
         caller' \in [Callers -> Caller], queue' \in Seq(Owners), worker' \in [Workers -> Jobs],
         healthy' \in BOOLEAN, outages' \in 0 .. MaxOutages, burst' \in 0 .. BurstBound + 1,
         \A c \in Callers : CallsOK(c, caller'[c], worker', queue')
  PROVE  Pooled'
  <1>1. TypeOK'
    BY DEF TypeOK, Owners, Jobs
  <1>2. Owned'
    BY DEF Owned, CallsOK, OneCall, NoCall, Holds, Queues
  <1> QED BY <1>1, <1>2 DEF Pooled

\* Init satisfies it.
LEMMA InitPooled == Init => Pooled
  <1> SUFFICES ASSUME Init PROVE Pooled
    OBVIOUS
  <1> DEFINE x == [pc |-> "idle", attempt |-> 0, retry |-> FALSE, result |-> "none"]
  <1>1. /\ failures = 0 /\ opened = "no" /\ burst = 0 /\ caller = [c \in Callers |-> x]
        /\ queue = <<>> /\ worker = [w \in Workers |-> NoJob] /\ healthy = TRUE /\ outages = 0
    BY DEF Init
  <1>2. x \in Caller /\ x.pc = "idle"
    BY ConfigAssumption DEF Caller, Control, Results
  <1> HIDE DEF x
  <1>3. NoJob \in Jobs /\ NoJob.owner = Free
    BY DEF NoJob, Jobs
  <1>4. BurstBound \in Nat /\ MaxOutages \in Nat /\ Threshold \in Nat
    BY BoundViews, ConfigAssumption
  <1>5. TypeOK
    BY <1>1, <1>2, <1>3, <1>4, TypeViews
  <1>6. ASSUME NEW c \in Callers
        PROVE  caller[c].pc # "wait" /\ NoCall(c, worker, queue)
    <2>1. c # Free
      BY ConfigAssumption
    <2>2. Queues(c, queue) = {}
      BY <1>1 DEF Queues
    <2>3. Holds(c, worker) = {}
      BY <1>1, <1>3, <2>1 DEF Holds
    <2> QED BY <1>1, <1>2, <2>2, <2>3 DEF NoCall
  <1> QED BY <1>5, <1>6 DEF Pooled, Owned

\* Every step keeps it.
LEMMA NextPooled == Pooled /\ [Next]_vars => Pooled'
  <1> SUFFICES ASSUME Pooled, [Next]_vars PROVE Pooled'
    OBVIOUS
  <1>t. /\ TypeOK /\ failures \in 0 .. Threshold /\ opened \in {"no", "open", "cooled"}
        /\ caller \in [Callers -> Caller] /\ queue \in Seq(Owners) /\ worker \in [Workers -> Jobs]
        /\ healthy \in BOOLEAN /\ outages \in 0 .. MaxOutages /\ burst \in 0 .. BurstBound + 1
        /\ BurstBound \in Nat /\ MaxOutages \in Nat
    BY TypeViews, BoundViews, ConfigAssumption DEF Pooled
  <1>c. \A c \in Callers : CallsOK(c, caller[c], worker, queue)
    BY DEF Pooled, Owned, CallsOK
  <1>1. ASSUME NEW c \in Callers,
               Call(c) \/ Compare(c) \/ RecordSuccess(c) \/ RecordFailure(c) \/ Trip(c)
        PROVE  Pooled'
    <2>1. PICK y : Steps(c, y)
      BY <1>t, <1>1, CallerSteps
    <2>2. failures' \in 0 .. Threshold /\ UNCHANGED <<healthy, outages>>
      BY <1>t, <1>1, CallerSteps
    <2>3. /\ Move(c, y) /\ y \in Caller /\ y.pc # "wait" /\ caller[c].pc # "wait"
          /\ UNCHANGED <<queue, worker>>
          /\ opened' \in {"no", "open", "cooled"} /\ burst' \in 0 .. BurstBound + 1
      BY <1>t, <2>1 DEF Steps
    <2>4. /\ caller' \in [Callers -> Caller] /\ caller'[c] = y
          /\ \A d \in Callers : d # c => caller'[d] = caller[d]
      BY <1>t, <2>3, MoveCallers
    <2>5. \A d \in Callers : CallsOK(d, caller'[d], worker', queue')
      BY <1>c, <2>3, <2>4 DEF CallsOK
    <2> QED BY <1>t, <2>2, <2>3, <2>4, <2>5, PooledNext
  <1>2. ASSUME NEW c \in Callers, Submit(c)
        PROVE  Pooled'
    <2> DEFINE y == At(caller[c], "wait")
    <2>1. /\ caller[c].pc = "try" /\ queue' = Append(queue, c) /\ Move(c, y)
          /\ UNCHANGED <<failures, opened, worker, healthy, outages>>
          /\ burst' = IF opened = "open" /\ burst <= BurstBound THEN burst + 1 ELSE burst
      BY <1>2 DEF Submit, At
    <2>2. y \in Caller /\ y.pc = "wait"
      BY <1>t, CallerViews DEF Control
    <2> HIDE DEF y
    <2>3. burst' \in 0 .. BurstBound + 1
      BY <1>t, <2>1
    <2>4. /\ caller' \in [Callers -> Caller] /\ caller'[c] = y
          /\ \A d \in Callers : d # c => caller'[d] = caller[d]
      BY <1>t, <2>1, <2>2, MoveCallers
    <2>5. /\ queue' \in Seq(Owners)
          /\ Queues(c, queue) = {} => \E i \in 1 .. Len(queue') : Queues(c, queue') = {i}
          /\ \A d \in Callers : d # c => Queues(d, queue') = Queues(d, queue)
          /\ Len(queue') = Len(queue) + 1
      BY <1>t, <2>1, AppendQueues
    <2>6. CallsOK(c, caller'[c], worker', queue')
      <3>1. NoCall(c, worker, queue)
        BY <1>c, <2>1 DEF CallsOK
      <3> QED BY <2>1, <2>2, <2>4, <2>5, <3>1 DEF CallsOK, NoCall, OneCall
    <2>7. ASSUME NEW d \in Callers, d # c
          PROVE  CallsOK(d, caller'[d], worker', queue')
      <3>1. \A i \in 1 .. Len(queue) : i \in 1 .. Len(queue')
        BY <1>t, <2>5
      <3>2. NoCall(d, worker, queue) => NoCall(d, worker', queue')
        BY <2>1, <2>5, <2>7 DEF NoCall
      <3>3. OneCall(d, worker, queue) => OneCall(d, worker', queue')
        BY <2>1, <2>5, <2>7, <3>1 DEF OneCall
      <3> QED BY <1>c, <2>4, <2>7, <3>2, <3>3 DEF CallsOK
    <2> QED BY <1>t, <2>1, <2>3, <2>4, <2>5, <2>6, <2>7, PooledNext
  <1>3. ASSUME NEW w \in Workers, StartCall(w)
        PROVE  Pooled'
    <2>1. /\ worker[w] = NoJob /\ queue # <<>> /\ queue' = Tail(queue)
          /\ UNCHANGED <<failures, opened, caller, healthy, outages, burst>>
      BY <1>3 DEF StartCall
    <2>2. PICK hung \in {FALSE, ~healthy} : worker' = [worker EXCEPT ![w] = [owner |-> Head(queue), hung |-> hung]]
      BY <1>3 DEF StartCall
    <2> DEFINE j == [owner |-> Head(queue), hung |-> hung]
    <2>3. j \in Jobs /\ j.owner = Head(queue) /\ worker' = [worker EXCEPT ![w] = j]
      <3>1. Head(queue) \in Owners
        BY <1>t, <2>1, HeadTailProperties
      <3>2. hung \in BOOLEAN
        BY <1>t, <2>2, Zenon
      <3> QED BY <2>2, <3>1, <3>2 DEF Jobs, Owners
    <2> HIDE DEF j
    <2>4. worker[w].owner = Free
      BY <2>1 DEF NoJob
    <2>5. /\ queue' \in Seq(Owners) /\ worker' \in [Workers -> Jobs]
      <3>1. queue' \in Seq(Owners)
        BY <1>t, <2>1
      <3> QED BY <1>t, <2>3, <3>1
    <2>6. ASSUME NEW c \in Callers
          PROVE  CallsOK(c, caller'[c], worker', queue')
      <3>1. /\ NoCall(c, worker, queue) => NoCall(c, worker', Tail(queue))
            /\ OneCall(c, worker, queue) => OneCall(c, worker', Tail(queue))
        BY <1>t, <2>1, <2>3, <2>4, TakeCall
      <3> QED BY <1>c, <2>1, <3>1 DEF CallsOK
    <2> QED BY <1>t, <2>1, <2>5, <2>6, PooledNext
  <1>4. ASSUME NEW w \in Workers, FinishCall(w)
        PROVE  Pooled'
    <2> DEFINE o == worker[w].owner
    <2>1. /\ o # Free /\ worker' = [worker EXCEPT ![w] = NoJob]
          /\ UNCHANGED <<failures, opened, queue, healthy, outages, burst>>
          /\ IF o = Stray THEN UNCHANGED caller ELSE \E y \in Answers(caller[o]) : Move(o, y)
      BY <1>4 DEF FinishCall
    <2>2. o \in Callers \cup {Stray}
      BY <1>t, <2>1 DEF Jobs
    <2>3. NoJob \in Jobs /\ NoJob.owner = Free /\ \A d \in Callers : d # Free /\ d # Stray
      BY ConfigAssumption DEF NoJob, Jobs
    <2>4. /\ worker' \in [Workers -> Jobs] /\ worker'[w].owner = Free
          /\ \A v \in Workers : v # w => worker'[v] = worker[v]
      BY <1>t, <2>1, <2>3
    <2>5. ASSUME NEW d \in Callers, d # o
          PROVE  Holds(d, worker') = Holds(d, worker)
      BY <2>3, <2>4, <2>5 DEF Holds
    <2>6. ASSUME NEW d \in Callers, d # o, caller'[d] = caller[d]
          PROVE  CallsOK(d, caller'[d], worker', queue')
      BY <1>c, <2>1, <2>5, <2>6 DEF CallsOK, NoCall, OneCall
    <2>7. CASE o = Stray
      <3>1. UNCHANGED caller /\ \A d \in Callers : d # o
        BY <2>1, <2>3, <2>7
      <3> QED BY <1>t, <2>1, <2>4, <2>6, <3>1, PooledNext
    <2>8. CASE o # Stray
      <3>1. PICK y \in Answers(caller[o]) : Move(o, y)
        BY <2>1, <2>8
      <3>2. o \in Callers /\ y \in Caller /\ y.pc # "wait"
        BY <1>t, <2>2, <2>8, <3>1, AnswerViews
      <3>3. /\ caller' \in [Callers -> Caller] /\ caller'[o] = y
            /\ \A d \in Callers : d # o => caller'[d] = caller[d]
        BY <1>t, <3>1, <3>2, MoveCallers
      <3>4. w \in Holds(o, worker)
        BY DEF Holds
      <3>5. Holds(o, worker) = {w} /\ Queues(o, queue) = {}
        BY <1>c, <3>2, <3>4 DEF CallsOK, NoCall, OneCall
      <3>6. \A v \in Workers : worker'[v].owner # o
        BY <2>1, <2>4, <3>5 DEF Holds
      <3>7. NoCall(o, worker', queue')
        BY <2>1, <3>5, <3>6 DEF NoCall, Holds
      <3>8. \A d \in Callers : CallsOK(d, caller'[d], worker', queue')
        BY <2>6, <3>2, <3>3, <3>7 DEF CallsOK
      <3> QED BY <1>t, <2>1, <2>4, <3>3, <3>8, PooledNext
    <2> QED BY <2>7, <2>8
  <1>5. ASSUME NEW c \in Callers, TimeOut(c)
        PROVE  Pooled'
    <2> DEFINE y == Fails(caller[c], TRUE)
    <2>1. /\ caller[c].pc = "wait" /\ Move(c, y) /\ UNCHANGED <<failures, opened, healthy, outages, burst>>
          /\ worker' = [w \in Workers |-> [worker[w] EXCEPT !.owner = Disown(@, c)]]
          /\ \/ queue' = [i \in 1 .. Len(queue) |-> Disown(queue[i], c)]
             \/ queue' = RemoveFirst(queue, c)
      BY <1>5 DEF TimeOut, Fails
    <2>2. y \in Caller /\ y.pc = "failed"
      BY <1>t, CallerViews
    <2> HIDE DEF y
    <2>3. /\ caller' \in [Callers -> Caller] /\ caller'[c] = y
          /\ \A d \in Callers : d # c => caller'[d] = caller[d]
      BY <1>t, <2>1, <2>2, MoveCallers
    <2>4. OneCall(c, worker, queue)
      BY <1>c, <2>1 DEF CallsOK
    <2>5. /\ worker' \in [Workers -> Jobs] /\ Holds(c, worker') = {}
          /\ \A d \in Callers : d # c => Holds(d, worker') = Holds(d, worker)
      BY <1>t, <2>1, DisownHolds
    <2>6. Queues(c, queue) = {} \/ \E k \in 1 .. Len(queue) : Queues(c, queue) = {k}
      BY <2>4 DEF OneCall
    <2>7. /\ queue' \in Seq(Owners) /\ Queues(c, queue') = {}
          /\ \A d \in Callers : d # c =>
                /\ Queues(d, queue) = {} => Queues(d, queue') = {}
                /\ \A j \in 1 .. Len(queue) : Queues(d, queue) = {j} =>
                       \E i \in 1 .. Len(queue') : Queues(d, queue') = {i}
      BY <1>t, <2>1, <2>6, DisownQueues
    <2>8. CallsOK(c, caller'[c], worker', queue')
      BY <2>2, <2>3, <2>5, <2>7 DEF CallsOK, NoCall
    <2>9. ASSUME NEW d \in Callers, d # c
          PROVE  CallsOK(d, caller'[d], worker', queue')
      <3>1. NoCall(d, worker, queue) => NoCall(d, worker', queue')
        BY <2>5, <2>7, <2>9 DEF NoCall
      <3>2. OneCall(d, worker, queue) => OneCall(d, worker', queue')
        BY <2>5, <2>7, <2>9 DEF OneCall
      <3> QED BY <1>c, <2>3, <2>9, <3>1, <3>2 DEF CallsOK
    <2> QED BY <1>t, <2>1, <2>3, <2>5, <2>7, <2>8, <2>9, PooledNext
  <1>6. CASE CoolDown \/ Break \/ Recover \/ UNCHANGED vars
    <2>1. UNCHANGED <<caller, queue, worker, failures>>
      BY <1>6 DEF CoolDown, Break, Recover, vars
    <2>2. opened' \in {"no", "open", "cooled"}
      BY <1>t, <1>6 DEF CoolDown, Break, Recover, vars
    <2>3. UNCHANGED healthy \/ healthy' = TRUE \/ healthy' = FALSE
      BY <1>6 DEF CoolDown, Break, Recover, vars
    <2>4. outages' = outages \/ (outages < MaxOutages /\ outages' = outages + 1)
      BY <1>6 DEF CoolDown, Break, Recover, vars
    <2>5. burst' = burst \/ burst' = 0
      BY <1>6 DEF CoolDown, Break, Recover, vars
    <2>6. healthy' \in BOOLEAN
      BY <1>t, <2>3, Zenon
    <2>7. outages' \in 0 .. MaxOutages /\ burst' \in 0 .. BurstBound + 1
      BY <1>t, <2>4, <2>5
    <2>8. \A c \in Callers : CallsOK(c, caller'[c], worker', queue')
      BY <1>c, <2>1
    <2> QED BY <1>t, <2>1, <2>2, <2>6, <2>7, <2>8, PooledNext
  <1> QED BY <1>1, <1>2, <1>3, <1>4, <1>5, <1>6 DEF Next, CallerStep

\* The connector keeps its types: attempts stay within the retries, whatever
\* answers, timeouts and records race.
THEOREM ConnectorTypeCorrect == Spec => []TypeOK
  <1>1. Pooled => TypeOK
    BY DEF Pooled
  <1> QED BY <1>1, InitPooled, NextPooled, PTL DEF Spec

\* The pool is not leaked: a caller that waits has exactly one call in it, with
\* a worker or in the queue, and a caller that does not has none, so a late
\* answer of an abandoned call is never taken for another's.
THEOREM CallersOwnOneCall == Spec => []OwnsOneCall
  <1>1. Pooled => OwnsOneCall
    <2> SUFFICES ASSUME Pooled, NEW c \in Callers
                 PROVE  Cardinality(Holds(c, worker)) + Cardinality(Queues(c, queue))
                        = IF caller[c].pc = "wait" THEN 1 ELSE 0
      BY DEF OwnsOneCall, Holds, Queues
    <2>1. Cardinality({}) = 0 /\ \A z : Cardinality({z}) = 1
      BY FS_EmptySet, FS_Singleton
    <2>2. CASE caller[c].pc = "wait"
      <3>1. OneCall(c, worker, queue)
        BY <2>2 DEF Pooled, Owned
      <3>2. \/ Cardinality(Holds(c, worker)) = 1 /\ Cardinality(Queues(c, queue)) = 0
            \/ Cardinality(Holds(c, worker)) = 0 /\ Cardinality(Queues(c, queue)) = 1
        BY <2>1, <3>1 DEF OneCall
      <3> QED BY <2>2, <3>2
    <2>3. CASE caller[c].pc # "wait"
      <3>1. Cardinality(Holds(c, worker)) = 0 /\ Cardinality(Queues(c, queue)) = 0
        BY <2>1, <2>3 DEF Pooled, Owned, NoCall
      <3> QED BY <2>3, <3>1
    <2> QED BY <2>2, <2>3
  <1> QED BY <1>1, InitPooled, NextPooled, PTL DEF Spec

-----------------------------------------------------------------------------
(* The breaker.                                                            *)

\* The attempts that the callers inside run may still submit.
Tokens == {p \in Callers \X (0 .. MaxRetries) : p[2] \in Left(caller[p[1]])}

\* While the breaker is open every call that was sent has used one of them up.
Shed ==
    /\ opened # "open" => burst = 0
    /\ opened = "open" => burst + Cardinality(Tokens) <= BurstBound

\* There are no more of them than the bound.
LEMMA TokenViews ==
  /\ IsFiniteSet(Tokens) /\ Cardinality(Tokens) \in Nat /\ Cardinality(Tokens) <= BurstBound
  /\ IsFiniteSet(Tokens') /\ Cardinality(Tokens') \in Nat /\ Cardinality(Tokens') <= BurstBound
  <1>1. ASSUME NEW T, T \subseteq Callers \X (0 .. MaxRetries)
        PROVE  IsFiniteSet(T) /\ Cardinality(T) \in Nat /\ Cardinality(T) <= BurstBound
    BY <1>1, BoundViews, FS_Subset, FS_CardinalityType
  <1>2. Tokens \subseteq Callers \X (0 .. MaxRetries) /\ Tokens' \subseteq Callers \X (0 .. MaxRetries)
    BY DEF Tokens
  <1> QED BY <1>1, <1>2

\* No step but an admission adds to them.
LEMMA TokensShrink ==
  ASSUME \A c \in Callers : Left(caller'[c]) \subseteq Left(caller[c])
  PROVE  Tokens' \subseteq Tokens /\ Cardinality(Tokens') <= Cardinality(Tokens)
  <1>1. \A c \in Callers : (Left(caller[c]))' = Left(caller'[c])
    BY DEF Left, Inside
  <1>2. Tokens' \subseteq Tokens
    BY <1>1 DEF Tokens
  <1> QED BY <1>2, TokenViews, FS_Subset

\* A step after which the breaker is as it was, or opens, or closes.
LEMMA ShedStays ==
  ASSUME Pooled, Shed, \A c \in Callers : Left(caller'[c]) \subseteq Left(caller[c]),
         \/ UNCHANGED <<opened, burst>>
         \/ opened' \in {"no", "cooled"} /\ burst' = 0
         \/ opened' = "open" /\ burst' = IF opened = "open" THEN burst ELSE 0
  PROVE  Shed'
  <1>1. Cardinality(Tokens') <= Cardinality(Tokens)
    BY TokensShrink
  <1>2. burst \in Nat /\ BurstBound \in Nat
    BY TypeViews, BoundViews DEF Pooled
  <1> QED BY <1>1, <1>2, TokenViews DEF Shed

\* Every step keeps it.
LEMMA NextShed == Pooled /\ Shed /\ [Next]_vars => Shed'
  <1> SUFFICES ASSUME Pooled, Shed, [Next]_vars PROVE Shed'
    OBVIOUS
  <1>t. /\ TypeOK /\ caller \in [Callers -> Caller] /\ burst \in Nat /\ BurstBound \in Nat
        /\ worker \in [Workers -> Jobs]
    BY TypeViews, BoundViews DEF Pooled
  <1>m. ASSUME NEW c \in Callers, NEW y \in Caller, Move(c, y), Goes(caller[c], y)
        PROVE  \A d \in Callers : Left(caller'[d]) \subseteq Left(caller[d])
    BY <1>t, <1>m, MoveCallers DEF Goes
  <1>u. ASSUME UNCHANGED caller
        PROVE  \A d \in Callers : Left(caller'[d]) \subseteq Left(caller[d])
    BY <1>u
  <1>1. ASSUME NEW c \in Callers,
               Call(c) \/ Compare(c) \/ RecordSuccess(c) \/ RecordFailure(c) \/ Trip(c)
        PROVE  Shed'
    <2>1. PICK y : Steps(c, y)
      BY <1>t, <1>1, CallerSteps
    <2>2. CASE opened # "open" /\ UNCHANGED <<opened, burst>>
      BY <2>2 DEF Shed
    <2>3. CASE /\ Goes(caller[c], y)
               /\ \/ UNCHANGED <<opened, burst>>
                  \/ opened' = "no" /\ burst' = 0
                  \/ opened' = "open" /\ burst' = IF opened = "open" THEN burst ELSE 0
      <3>1. Move(c, y) /\ y \in Caller
        BY <2>1 DEF Steps
      <3>2. \A d \in Callers : Left(caller'[d]) \subseteq Left(caller[d])
        BY <1>m, <2>3, <3>1
      <3> QED BY <2>3, <3>2, ShedStays
    <2> QED BY <2>1, <2>2, <2>3 DEF Steps
  <1>2. ASSUME NEW c \in Callers, Submit(c)
        PROVE  Shed'
    <2> DEFINE x == caller[c]
               y == At(x, "wait")
    <2>1. /\ x.pc = "try" /\ Move(c, y) /\ UNCHANGED opened
          /\ burst' = IF opened = "open" /\ burst <= BurstBound THEN burst + 1 ELSE burst
      BY <1>2 DEF Submit, At
    <2>2. /\ x \in Caller /\ x.attempt \in 0 .. MaxRetries /\ x.attempt \in Nat /\ MaxRetries \in Nat
      BY <1>t, CallerFields
    <2>3. y \in Caller /\ y.pc = "wait" /\ y.attempt = x.attempt
      BY <2>2, CallerViews DEF Control
    <2> HIDE DEF y
    <2>4. caller'[c] = y /\ \A d \in Callers : d # c => caller'[d] = caller[d]
      BY <1>t, <2>1, <2>3, MoveCallers
    <2> HIDE DEF x
    <2>5. Left(x) = x.attempt .. MaxRetries /\ Left(y) = x.attempt + 1 .. MaxRetries
      BY <2>1, <2>3 DEF Left, Inside
    <2>6. \A d \in Callers : Left(caller'[d]) \subseteq Left(caller[d])
      <3>1. Left(y) \subseteq Left(x)
        BY <2>2, <2>5
      <3> QED BY <2>4, <3>1 DEF x
    <2>7. x.attempt \in Left(x) /\ x.attempt \notin Left(y)
      BY <2>2, <2>5
    <2> DEFINE p == <<c, x.attempt>>
    <2>8. p \in Tokens /\ p \notin Tokens'
      <3>1. \A d \in Callers : (Left(caller[d]))' = Left(caller'[d])
        BY DEF Left, Inside
      <3>2. p \in Callers \X (0 .. MaxRetries) /\ p[1] = c /\ p[2] = x.attempt
        BY <2>2
      <3>3. p \in Tokens
        BY <2>7, <3>2 DEF Tokens, x
      <3>4. p \notin Tokens'
        BY <2>4, <2>7, <3>1, <3>2 DEF Tokens
      <3> QED BY <3>3, <3>4
    <2>9. Cardinality(Tokens') <= Cardinality(Tokens) - 1
      <3>1. Tokens' \subseteq Tokens \ {p}
        BY <2>6, <2>8, TokensShrink
      <3>2. IsFiniteSet(Tokens \ {p}) /\ Cardinality(Tokens \ {p}) = Cardinality(Tokens) - 1
        BY <2>8, TokenViews, FS_RemoveElement
      <3> QED BY <3>1, <3>2, FS_Subset
    <2>10. CASE opened # "open"
      BY <2>1, <2>10 DEF Shed
    <2>11. CASE opened = "open"
      <3>1. burst + Cardinality(Tokens) <= BurstBound
        BY <2>11 DEF Shed
      <3>2. burst' + Cardinality(Tokens') <= BurstBound
        BY <1>t, <2>1, <2>9, <2>11, <3>1, TokenViews
      <3> QED BY <2>1, <2>11, <3>2 DEF Shed
    <2> QED BY <2>10, <2>11
  <1>3. ASSUME NEW w \in Workers, StartCall(w)
        PROVE  Shed'
    BY <1>3, <1>u, ShedStays DEF StartCall
  <1>4. ASSUME NEW w \in Workers, FinishCall(w)
        PROVE  Shed'
    <2> DEFINE o == worker[w].owner
    <2>1. /\ o # Free /\ UNCHANGED <<opened, burst>>
          /\ IF o = Stray THEN UNCHANGED caller ELSE \E y \in Answers(caller[o]) : Move(o, y)
      BY <1>4 DEF FinishCall
    <2>2. CASE o = Stray
      BY <1>u, <2>1, <2>2, ShedStays
    <2>3. CASE o # Stray
      <3>1. PICK y \in Answers(caller[o]) : Move(o, y)
        BY <2>1, <2>3
      <3>2. o \in Callers /\ w \in Holds(o, worker)
        BY <1>t, <2>1, <2>3 DEF Jobs, Holds
      <3>3. caller[o].pc = "wait"
        BY <3>2 DEF Pooled, Owned, NoCall
      <3>4. y \in Caller /\ Goes(caller[o], y)
        BY <1>t, <3>1, <3>2, <3>3, AnswerViews
      <3>5. \A d \in Callers : Left(caller'[d]) \subseteq Left(caller[d])
        BY <1>m, <3>1, <3>2, <3>4
      <3> QED BY <2>1, <3>5, ShedStays
    <2> QED BY <2>2, <2>3
  <1>5. ASSUME NEW c \in Callers, TimeOut(c)
        PROVE  Shed'
    <2> DEFINE y == Fails(caller[c], TRUE)
    <2>1. caller[c].pc = "wait" /\ Move(c, y) /\ UNCHANGED <<opened, burst>>
      BY <1>5 DEF TimeOut, Fails
    <2>2. Goes(caller[c], y)
      BY <1>t, <2>1, GoesViews
    <2> HIDE DEF y
    <2>3. \A d \in Callers : Left(caller'[d]) \subseteq Left(caller[d])
      BY <1>m, <2>1, <2>2 DEF Goes
    <2> QED BY <2>1, <2>3, ShedStays
  <1>6. CASE CoolDown
    BY <1>6, <1>u, ShedStays DEF CoolDown
  <1>7. CASE Break \/ Recover \/ UNCHANGED vars
    <2>1. UNCHANGED <<caller, opened, burst>>
      BY <1>7 DEF Break, Recover, vars
    <2> QED BY <1>u, <2>1, ShedStays
  <1> QED BY <1>1, <1>2, <1>3, <1>4, <1>5, <1>6, <1>7 DEF Next, CallerStep

\* From the moment the breaker opens until it has cooled down the external
\* system is sent no more calls than the callers that were inside run had
\* attempts left, whatever successes, trips and timeouts race.
THEOREM OpenBreakerShedsLoad == Spec => []ShedsLoad
  <1>1. Init => Shed
    BY DEF Init, Shed
  <1>2. Pooled /\ Shed => ShedsLoad
    <2> SUFFICES ASSUME Pooled, Shed PROVE ShedsLoad
      OBVIOUS
    <2>1. burst \in Nat /\ BurstBound \in Nat
      BY TypeViews, BoundViews DEF Pooled
    <2> QED BY <2>1, TokenViews DEF Shed, ShedsLoad
  <1> QED BY <1>1, <1>2, InitPooled, NextPooled, NextShed, PTL DEF Spec
=============================================================================
