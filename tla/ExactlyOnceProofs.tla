------------------------- MODULE ExactlyOnceProofs -------------------------
(***************************************************************************)
(* Exactly-once effects, for every workflow, receiver and number of        *)
(* drivers, crashes, retries and late calls: what the side-effect ledger   *)
(* holds has happened, what a run holds is in the ledger and in the audit  *)
(* log, and a trigger acts in the name of one run.                         *)
(*                                                                         *)
(* None of the three is inductive.  Between the external call and          *)
(* record_effect only the driver knows the result (DriverBacked); between  *)
(* a result and the checkpoint only its copy has it, and its buffer the    *)
(* event (Backed, Audited of the copies).                                  *)
(***************************************************************************)
EXTENDS EngineProofs

\* The mutating tools' results in a context of run r agree with ledger e.
Backed(e, r, ctx) ==
    \A s \in Steps : (ctx[s] # Unset /\ NodeType[s] = "tool" /\ SideEffect[s]) =>
        <<r, s>> \in DOMAIN e /\ (Dedupes[s] => ctx[s] = e[<<r, s>>])

\* A driver executes tools only, and has a result to record that the external
\* system (its postings p) holds.
Keyed(x) == <<x.run, x.step>>
DriverBacked(p, x) ==
    /\ x.pc \in {"execute", "record"} => NodeType[x.step] = "tool"
    /\ x.pc = "record" => /\ Len(p[Keyed(x)]) > 0
                          /\ Dedupes[x.step] => x.out = p[Keyed(x)][1].result

DriversBacked == \A d \in Drivers : DriverBacked(posted, dr[d])
CopiesAgree == \A d \in Drivers : dr[d].pc # "idle" => Backed(effects, dr[d].run, dr[d].mem.ctx)

\* The inductive invariant of the ledger.
ExactlyOnce == TypeOK /\ LedgerBacked /\ ResultsAgree /\ DriversBacked /\ CopiesAgree

-----------------------------------------------------------------------------
(* Nothing is taken back: postings and ledger entries stay as they are.    *)

\* The first posting of every key stays.
Keeps(p, q) == \A k \in EffectKeys : Len(p[k]) > 0 => Len(q[k]) > 0 /\ q[k][1] = p[k][1]

\* No ledger entry is removed or changed.
Includes(e, f) == \A k \in DOMAIN e : k \in DOMAIN f /\ f[k] = e[k]

\* A receiver only adds postings.
LEMMA PostKeeps ==
  ASSUME TypeOK, NEW k \in EffectKeys, NEW a \in Slot, NEW v \in Values, Post(k, a, v)
  PROVE  /\ Keeps(posted, posted')
         /\ Len(posted[k]) = 0 => Len(posted'[k]) = 0 \/ posted'[k][1] = [args |-> a, result |-> v]
  <1>1. posted \in [EffectKeys -> Seq(Posting)] /\ posted[k] \in Seq(Posting)
    BY DEF TypeOK, EnvTypeOK
  <1>2. CASE posted' = posted
    BY <1>2 DEF Keeps
  <1>3. CASE posted' = [posted EXCEPT ![k] = Append(@, [args |-> a, result |-> v])]
    <2> DEFINE p == [args |-> a, result |-> v]
    <2>1. p \in Posting
      BY DEF Posting
    <2> HIDE DEF p
    <2>2. posted'[k] = Append(posted[k], p) /\ \A j \in EffectKeys : j # k => posted'[j] = posted[j]
      BY <1>1, <1>3 DEF p
    <2>3. /\ Len(posted[k]) > 0 => Len(posted'[k]) > 0 /\ posted'[k][1] = posted[k][1]
          /\ Len(posted[k]) = 0 => posted'[k][1] = p
      BY <1>1, <2>1, <2>2
    <2>4. Keeps(posted, posted')
      BY <2>2, <2>3 DEF Keeps
    <2> QED BY <2>3, <2>4 DEF p
  <1> QED BY <1>2, <1>3 DEF Post

\* record_effect only adds to the ledger.
LEMMA LedgerIncludes ==
  ASSUME NEW k, NEW v, RecordEffect(k, v)
  PROVE  /\ Includes(effects, effects') /\ DOMAIN effects' = DOMAIN effects \cup {k}
         /\ k \notin DOMAIN effects => effects'[k] = v
  BY DEF RecordEffect, Includes, Insert

\* A context that agrees with a ledger agrees with a larger one.
LEMMA BackedStays ==
  ASSUME NEW e, NEW f, Includes(e, f), NEW r, NEW ctx, Backed(e, r, ctx)
  PROVE  Backed(f, r, ctx)
  BY DEF Backed, Includes

\* A driver's result stays held.
LEMMA DriverBackedStays ==
  ASSUME NEW p, NEW q, Keeps(p, q), NEW x, Keyed(x) \in EffectKeys \/ x.pc # "record",
         DriverBacked(p, x)
  PROVE  DriverBacked(q, x)
  BY DEF DriverBacked, Keeps

\* A new run has no results.
LEMMA NothingBacked == \A e, r : Backed(e, r, NewRun.ctx)
  BY DEF Backed, NewRun

-----------------------------------------------------------------------------
(* The steps keep the ledger's invariant.                                  *)

\* One driver changes, to a state the ledger backs; the others stay.
LEMMA OthersBacked ==
  ASSUME ExactlyOnce, NEW d \in Drivers, \A e \in Drivers : e # d => dr'[e] = dr[e],
         Keeps(posted, posted'), Includes(effects, effects'),
         DriverBacked(posted', dr'[d]),
         dr'[d].pc # "idle" => Backed(effects', dr'[d].run, dr'[d].mem.ctx)
  PROVE  DriversBacked' /\ CopiesAgree'
  <1>1. ASSUME NEW e \in Drivers, e # d
        PROVE  /\ DriverBacked(posted', dr'[e])
               /\ dr'[e].pc # "idle" => Backed(effects', dr'[e].run, dr'[e].mem.ctx)
    <2>1. Keyed(dr[e]) \in EffectKeys \/ dr[e].pc # "record"
      BY DEF ExactlyOnce, TypeOK, DriverTypeOK, StoreTypeOK, Keyed, EffectKeys
    <2>2. DriverBacked(posted', dr[e])
      BY <2>1, DriverBackedStays DEF ExactlyOnce, DriversBacked
    <2>3. dr[e].pc # "idle" => Backed(effects', dr[e].run, dr[e].mem.ctx)
      BY BackedStays DEF ExactlyOnce, CopiesAgree
    <2>4. dr'[e] = dr[e]
      BY <1>1
    <2> QED BY <2>2, <2>3, <2>4
  <1> QED BY <1>1 DEF DriversBacked, CopiesAgree

\* The ledger stays backed while nothing is recorded.
LEMMA LedgerStaysBacked ==
  ASSUME TypeOK, LedgerBacked, Keeps(posted, posted'), UNCHANGED effects
  PROVE  LedgerBacked'
  BY DEF TypeOK, StoreTypeOK, LedgerBacked, Keeps, Holds

\* Stored results, as the contexts of rows.
LEMMA ResultsAreBacked ==
  ResultsAgree <=> \A r \in DOMAIN runs : Backed(effects, r, runs[r].st.ctx)
  BY DEF ResultsAgree, Backed

\* The same of the next state.
LEMMA NextResultsAreBacked ==
  ResultsAgree' <=> \A r \in DOMAIN runs' : Backed(effects', r, runs'[r].st.ctx)
  BY DEF ResultsAgree, Backed

\* The stored results stay backed where their contexts stay.
LEMMA ResultsStayBacked ==
  ASSUME ExactlyOnce, Includes(effects, effects'), DOMAIN runs' = DOMAIN runs,
         \A r \in DOMAIN runs : runs'[r].st.ctx = runs[r].st.ctx
  PROVE  ResultsAgree'
  BY ResultsAreBacked, NextResultsAreBacked, BackedStays DEF ExactlyOnce

\* Unchanged postings and entries are kept.
LEMMA NothingLost ==
  /\ UNCHANGED posted => Keeps(posted, posted')
  /\ UNCHANGED effects => Includes(effects, effects')
  BY DEF Keeps, Includes

\* The idle driver has nothing to back.
LEMMA IdleBacked == Idle.pc = "idle" /\ \A p : DriverBacked(p, Idle)
  BY DEF DriverBacked, Idle

\* A driver that starts has the results of the copy it starts on.
LEMMA BeginBacked ==
  ASSUME NEW r \in RunIds, NEW st \in RunState, NEW e, NEW p, Backed(e, r, st.ctx)
  PROVE  LET y == Begin(r, st)
         IN  DriverBacked(p, y) /\ (y.pc # "idle" => Backed(e, y.run, y.mem.ctx))
  <1> DEFINE y == Begin(r, st)
  <1>1. \/ y = Idle
        \/ y.pc = "loop" /\ y.run = r /\ y.mem.ctx = st.ctx
    BY BeginView
  <1> SUFFICES DriverBacked(p, y) /\ (y.pc # "idle" => Backed(e, y.run, y.mem.ctx))
    OBVIOUS
  <1> HIDE DEF y
  <1>2. CASE y = Idle
    BY <1>2, IdleBacked
  <1>3. CASE y.pc = "loop" /\ y.run = r /\ y.mem.ctx = st.ctx
    BY <1>3 DEF DriverBacked
  <1> QED BY <1>1, <1>2, <1>3

\* Requests: a new run has no results, a stored one those of its row.
LEMMA RequestOnce ==
  ASSUME ExactlyOnce, NEW d \in Drivers, Request(d)
  PROVE  LedgerBacked' /\ ResultsAgree' /\ DriversBacked' /\ CopiesAgree'
  <1>t. TypeOK /\ LedgerBacked /\ ResultsAgree /\ CopiesAgree
    BY DEF ExactlyOnce
  <1>1. CASE \E t \in Tenants, k \in Keys, r \in RunIds : Fire(d, t, k, r)
    <2>0. PICK t \in Tenants, k \in Keys, r \in RunIds : Fire(d, t, k, r)
      BY <1>1
    <2>1. /\ DOMAIN runs' = DOMAIN runs \cup {r} /\ runs'[r].st = NewRun
          /\ \A q \in DOMAIN runs : runs'[q] = runs[q]
          /\ Put(d, Begin(r, NewRun)) /\ UNCHANGED <<effects, posted>>
      <3>1. /\ DOMAIN runs' = DOMAIN runs \cup {r} /\ runs'[r].st = NewRun
            /\ \A q \in DOMAIN runs : runs'[q] = runs[q]
            /\ Put(d, Begin(r, NewRun))
        BY <1>t, <2>0, FireView
      <3>2. UNCHANGED <<trace, approvals, effects, posted, inflight, granted, crashes, overlaps>>
        BY <1>t, <2>0, FireView
      <3> QED BY <3>1, <3>2
    <2>2. Keeps(posted, posted') /\ Includes(effects, effects')
      BY <2>1, NothingLost
    <2>3. LedgerBacked'
      BY <1>t, <2>1, <2>2, LedgerStaysBacked
    <2>4. ResultsAgree'
      BY <1>t, <2>1, NothingBacked, ResultsAreBacked, NextResultsAreBacked
    <2>5. dr'[d] = Begin(r, NewRun) /\ \A e \in Drivers : e # d => dr'[e] = dr[e]
      BY <1>t, <2>1, PutView
    <2>6. /\ DriverBacked(posted', dr'[d])
          /\ dr'[d].pc # "idle" => Backed(effects', dr'[d].run, dr'[d].mem.ctx)
      BY <2>5, IdleType, NothingBacked, BeginBacked
    <2> QED BY <2>2, <2>3, <2>4, <2>5, <2>6, OthersBacked
  <1>2. ASSUME NEW r \in DOMAIN runs, runs[r].st \in RunState, r \in RunIds,
               \/ Put(d, Begin(r, runs[r].st))
               \/ Put(d, [Idle EXCEPT !.pc = "resolving", !.run = r, !.mem = runs[r].st]),
               UNCHANGED <<storeVars, posted>>
        PROVE  LedgerBacked' /\ ResultsAgree' /\ DriversBacked' /\ CopiesAgree'
    <2>1. UNCHANGED <<runs, effects, posted>>
      BY <1>2 DEF storeVars
    <2>2. Keeps(posted, posted') /\ Includes(effects, effects')
      BY <2>1, NothingLost
    <2>3. LedgerBacked' /\ ResultsAgree'
      BY <1>t, <2>1, <2>2, LedgerStaysBacked, ResultsStayBacked
    <2>4. Backed(effects', r, runs[r].st.ctx)
      BY <1>t, <1>2, <2>1, ResultsAreBacked
    <2> DEFINE z == [Idle EXCEPT !.pc = "resolving", !.run = r, !.mem = runs[r].st]
    <2>5. z.pc = "resolving" /\ z.run = r /\ z.mem = runs[r].st
      BY DEF Idle
    <2> HIDE DEF z
    <2>6. DriverBacked(posted', z) /\ Backed(effects', z.run, z.mem.ctx)
      BY <2>4, <2>5 DEF DriverBacked
    <2>7. /\ dr'[d] = Begin(r, runs[r].st) \/ dr'[d] = z
          /\ \A e \in Drivers : e # d => dr'[e] = dr[e]
      BY <1>t, <1>2, PutView DEF z
    <2>8. /\ DriverBacked(posted', dr'[d])
          /\ dr'[d].pc # "idle" => Backed(effects', dr'[d].run, dr'[d].mem.ctx)
      BY <1>2, <2>4, <2>6, <2>7, BeginBacked
    <2> QED BY <2>2, <2>3, <2>7, <2>8, OthersBacked
  <1>3. ASSUME dr[d].pc = "resolving", dr[d].run \in RunIds, dr[d].mem \in RunState,
               Put(d, Begin(dr[d].run, dr[d].mem)), UNCHANGED <<runs, effects, posted>>
        PROVE  LedgerBacked' /\ ResultsAgree' /\ DriversBacked' /\ CopiesAgree'
    <2>1. Keeps(posted, posted') /\ Includes(effects, effects')
      BY <1>3, NothingLost
    <2>2. LedgerBacked' /\ ResultsAgree'
      BY <1>t, <1>3, <2>1, LedgerStaysBacked, ResultsStayBacked
    <2>3. Backed(effects', dr[d].run, dr[d].mem.ctx)
      BY <1>t, <1>3 DEF CopiesAgree
    <2>4. dr'[d] = Begin(dr[d].run, dr[d].mem) /\ \A e \in Drivers : e # d => dr'[e] = dr[e]
      BY <1>t, <1>3, PutView
    <2>5. /\ DriverBacked(posted', dr'[d])
          /\ dr'[d].pc # "idle" => Backed(effects', dr'[d].run, dr'[d].mem.ctx)
      BY <1>3, <2>3, <2>4, BeginBacked
    <2> QED BY <2>1, <2>2, <2>4, <2>5, OthersBacked
  <1> QED BY <1>t, <1>1, <1>2, <1>3, StartView

\* A driver that moves takes its results with it.
LEMMA MoveOnce ==
  ASSUME ExactlyOnce, NEW d \in Drivers, Moves(d)
  PROVE  LedgerBacked' /\ ResultsAgree' /\ DriversBacked' /\ CopiesAgree'
  <1>t. TypeOK /\ LedgerBacked /\ ResultsAgree /\ DriversBacked /\ CopiesAgree
    BY DEF ExactlyOnce
  <1>1. /\ Put(d, dr'[d]) /\ Moved(dr[d], dr'[d]) /\ UNCHANGED <<runs, effects, posted>>
    BY <1>t, MoveView
  <1>2. Keeps(posted, posted') /\ Includes(effects, effects')
    BY <1>1, NothingLost
  <1>3. LedgerBacked' /\ ResultsAgree'
    BY <1>t, <1>1, <1>2, LedgerStaysBacked, ResultsStayBacked
  <1>4. /\ dr'[d].run = dr[d].run /\ dr'[d].mem.ctx = dr[d].mem.ctx
        /\ dr[d].pc \in {"loop", "step", "call", "execute"} \cup Gating
        /\ dr'[d].pc \in {"step", "call", "fail", "raised", "commit", "pause"} \cup Gating
        /\ dr'[d].pc = "execute" => NodeType[dr'[d].step] = "tool"
    BY <1>1 DEF Moved, SameCopy
  <1>5. Backed(effects', dr'[d].run, dr'[d].mem.ctx) /\ DriverBacked(posted', dr'[d])
    BY <1>t, <1>1, <1>4 DEF CopiesAgree, DriverBacked, Gating
  <1>6. \A e \in Drivers : e # d => dr'[e] = dr[e]
    BY <1>t, <1>1, PutView
  <1> QED BY <1>2, <1>3, <1>5, <1>6, OthersBacked

\* A checkpoint stores the results of the driver's copy.
LEMMA SaveOnce ==
  ASSUME ExactlyOnce, NEW d \in Drivers, Saves(d)
  PROVE  LedgerBacked' /\ ResultsAgree' /\ DriversBacked' /\ CopiesAgree'
  <1>t. TypeOK /\ LedgerBacked /\ ResultsAgree /\ DriversBacked /\ CopiesAgree
    BY DEF ExactlyOnce
  <1> DEFINE x == dr[d]
             r == x.run
  <1>1. Put(d, dr'[d]) /\ r \in DOMAIN runs /\ UNCHANGED posted
    BY <1>t, SaveView DEF envVars
  <1>2. PICK st \in RunState : Saved(x, dr'[d], st) /\ Checkpoint(r, st, x.buf)
    BY <1>t, SaveView
  <1>3. /\ DOMAIN runs' = DOMAIN runs /\ runs'[r].st = st /\ UNCHANGED effects
        /\ \A q \in DOMAIN runs : q # r => runs'[q] = runs[q]
    BY <1>t, <1>1, <1>2, CheckpointView
  <1>4. st.ctx = x.mem.ctx /\ x.pc # "idle"
    BY <1>2 DEF Saved
  <1>5. Backed(effects', r, st.ctx)
    BY <1>t, <1>3, <1>4 DEF CopiesAgree
  <1>6. Keeps(posted, posted') /\ Includes(effects, effects')
    BY <1>1, <1>3, NothingLost
  <1>7. LedgerBacked'
    BY <1>t, <1>3, <1>6, LedgerStaysBacked
  <1>8. ResultsAgree'
    BY <1>t, <1>3, <1>5, ResultsAreBacked, NextResultsAreBacked
  <1>9. dr'[d] = Idle \/ (/\ dr'[d].pc \notin {"execute", "record"} /\ dr'[d].run = r
                          /\ dr'[d].mem.ctx = st.ctx)
    BY <1>2 DEF Saved
  <1>10. /\ DriverBacked(posted', dr'[d])
         /\ dr'[d].pc # "idle" => Backed(effects', dr'[d].run, dr'[d].mem.ctx)
    <2>1. CASE dr'[d] = Idle
      BY <2>1, IdleBacked
    <2>2. CASE dr'[d].pc \notin {"execute", "record"} /\ dr'[d].run = r /\ dr'[d].mem.ctx = st.ctx
      BY <2>2, <1>5 DEF DriverBacked
    <2> QED BY <1>9, <2>1, <2>2
  <1>11. \A e \in Drivers : e # d => dr'[e] = dr[e]
    BY <1>t, <1>1, PutView
  <1> QED BY <1>6, <1>7, <1>8, <1>10, <1>11, OthersBacked

\* A tool's call leaves a posting with the result the call returns: the first
\* one for its key, or the one a receiver that honours keys answers with.
LEMMA PostBacks ==
  ASSUME TypeOK, NEW k \in EffectKeys, NEW a \in Slot, NEW v \in Replies(k, a), Post(k, a, v),
         NodeType[k[2]] = "tool"
  PROVE  Len(posted'[k]) > 0 /\ (Dedupes[k[2]] => v = posted'[k][1].result)
  <1>1. v \in Values /\ posted \in [EffectKeys -> Seq(Posting)] /\ posted[k] \in Seq(Posting)
    BY RepliesType DEF TypeOK, EnvTypeOK
  <1>2. Keeps(posted, posted')
    BY <1>1, PostKeeps
  <1>3. CASE Holds(k)
    <2>1. Len(posted'[k]) > 0 /\ posted'[k][1] = posted[k][1]
      BY <1>2, <1>3 DEF Keeps, Holds
    <2> QED BY <1>3, <2>1 DEF Replies
  <1>4. CASE ~Holds(k)
    <2> DEFINE p == [args |-> a, result |-> v]
    <2>1. Len(posted[k]) = 0 /\ ~(Len(posted[k]) >= MaxPosts)
      BY <1>1, <1>4, WorkflowAssumption DEF Holds
    <2>2. ~Repeats(k, a)
      BY <1>4 DEF Repeats
    <2>3. posted' = [posted EXCEPT ![k] = Append(posted[k], p)]
      BY <2>1, <2>2 DEF Post
    <2>4. p \in Posting /\ p.result = v
      BY <1>1 DEF Posting
    <2> HIDE DEF p
    <2>5. posted'[k] = Append(posted[k], p)
      BY <1>1, <2>3
    <2>6. Len(posted'[k]) > 0 /\ posted'[k][1] = p
      BY <1>1, <2>1, <2>4, <2>5
    <2> QED BY <2>4, <2>6
  <1> QED BY <1>3, <1>4

\* What working on a step does to the external systems.
LEMMA WorkPosts ==
  ASSUME TypeOK, NEW d \in Drivers, Works(d), DriverBacked(posted, dr[d])
  PROVE  Keeps(posted, posted') /\ DriverBacked(posted', dr'[d])
  <1> DEFINE x == dr[d]
             k == Keyed(x)
  <1>0. Active(dr[d])
    BY DEF Works, Active, ModelAnswers, ModelCalls, InLoop, ExecuteCall, ExecuteOk, RecordTool,
           ReplayTool
  <1>1. /\ x.pc # "idle" /\ x.step \in Steps /\ x.run \in RunIds /\ x \in Driver
        /\ x.mem.ctx \in Context /\ Key(d) = k /\ k \in EffectKeys /\ k[2] = x.step
    BY <1>0 DEF TypeOK, StoreTypeOK, DriverTypeOK, Active, Driver, RunState, Key, Keyed, EffectKeys
  <1>2. Put(d, dr'[d]) /\ Worked(x, dr'[d])
    BY WorkView
  <1>3. dr'[d].run = x.run /\ dr'[d].step = x.step /\ Keyed(dr'[d]) = k
    BY <1>2 DEF Worked, Keyed
  <1>4. dr'[d].pc # "execute" /\ (dr'[d].pc = "record" => x.pc = "execute")
    BY <1>2 DEF Worked
  <1> HIDE DEF k
  <1>5. CASE ExecuteOk(d) /\ SideEffect[At(d)]
    <2>1. PICK v \in Replies(k, Args(d)) :
            Post(k, Args(d), v) /\ Put(d, [dr[d] EXCEPT !.pc = "record", !.out = v])
      BY <1>1, <1>5 DEF ExecuteOk
    <2>2. Args(d) \in Slot /\ NodeType[k[2]] = "tool"
      BY <1>1, <1>5, FunctionAssumption DEF Args, At, Mem, ExecuteOk, DriverBacked
    <2>3. Len(posted'[k]) > 0 /\ (Dedupes[k[2]] => v = posted'[k][1].result)
      BY <1>1, <2>1, <2>2, PostBacks
    <2>4. Keeps(posted, posted')
      BY <1>1, <2>1, <2>2, RepliesType, PostKeeps
    <2>5. dr'[d] = [dr[d] EXCEPT !.pc = "record", !.out = v]
      BY <2>1, PutView
    <2>6. dr'[d].out = v
      BY <1>1, <2>5 DEF Driver
    <2> QED BY <1>1, <1>3, <2>2, <2>3, <2>4, <2>6 DEF DriverBacked
  <1>6. CASE ExecuteOk(d) /\ ~SideEffect[At(d)]
    <2>1. dr'[d].pc \notin {"execute", "record"} /\ UNCHANGED posted
      BY <1>2, <1>4, <1>6 DEF ExecuteOk, Worked, At
    <2> QED BY <2>1, NothingLost DEF DriverBacked
  <1>7. CASE ExecuteCall(d)
    <2>1. dr'[d].pc \notin {"execute", "record"}
      BY <1>4, <1>7 DEF ExecuteCall
    <2>2. PICK a \in AgentOf[At(d)].calls :
             IF SideEffect[At(d)] THEN \E v \in Replies(k, a) : Post(k, a, v) ELSE UNCHANGED posted
      BY <1>1, <1>7 DEF ExecuteCall
    <2>3. a \in Slot
      BY <1>1, <2>2, WorkflowAssumption DEF At, Agent, Slot
    <2>4. Keeps(posted, posted')
      BY <1>1, <2>2, <2>3, RepliesType, PostKeeps, NothingLost
    <2> QED BY <2>1, <2>4 DEF DriverBacked
  <1>8. CASE ModelAnswers(d) \/ ModelCalls(d) \/ RecordTool(d) \/ ReplayTool(d)
    <2>1. UNCHANGED posted /\ x.pc # "execute"
      BY <1>8 DEF ModelAnswers, ModelCalls, InLoop, RecordTool, ReplayTool, envVars
    <2> QED BY <1>4, <2>1, NothingLost DEF DriverBacked
  <1> QED BY <1>5, <1>6, <1>7, <1>8 DEF Works

\* Working on a step records in the ledger what was posted, and puts into the
\* context what the ledger holds.
LEMMA WorkOnce ==
  ASSUME ExactlyOnce, NEW d \in Drivers, Works(d)
  PROVE  LedgerBacked' /\ ResultsAgree' /\ DriversBacked' /\ CopiesAgree'
  <1> DEFINE x == dr[d]
             y == dr'[d]
             k == Keyed(x)
  <1>t. TypeOK /\ LedgerBacked /\ ResultsAgree /\ DriversBacked /\ CopiesAgree
    BY DEF ExactlyOnce
  <1>1. /\ Put(d, y) /\ Worked(x, y) /\ UNCHANGED runs
        /\ UNCHANGED effects \/ (x.pc = "record" /\ RecordEffect(k, x.out))
    BY <1>t, WorkView DEF Key, Keyed
  <1>2. DriverBacked(posted, x) /\ Keeps(posted, posted') /\ DriverBacked(posted', y)
    BY <1>t, WorkPosts DEF DriversBacked
  <1>3. /\ Includes(effects, effects')
        /\ UNCHANGED effects \/ /\ x.pc = "record" /\ DOMAIN effects' = DOMAIN effects \cup {k}
                                /\ k \notin DOMAIN effects => effects'[k] = x.out
    BY <1>1, NothingLost, LedgerIncludes
  <1>4. /\ x.pc # "idle" /\ y.run = x.run /\ x.step \in Steps /\ x.run \in RunIds
        /\ k \in EffectKeys /\ k[1] = x.run /\ k[2] = x.step /\ x.mem.ctx \in Context
    BY <1>t, <1>1 DEF Worked, TypeOK, StoreTypeOK, DriverTypeOK, Driver, RunState, Keyed, EffectKeys
  <1>5. k = <<x.run, x.step>>
    BY DEF Keyed
  <1> HIDE DEF k
  <1>6. LedgerBacked'
    <2>1. CASE UNCHANGED effects
      BY <1>t, <1>2, <2>1, LedgerStaysBacked
    <2>2. CASE x.pc = "record" /\ DOMAIN effects' = DOMAIN effects \cup {k}
      <3>1. Len(posted[k]) > 0 /\ (Dedupes[k[2]] => x.out = posted[k][1].result)
        BY <1>2, <1>4, <1>5, <2>2 DEF DriverBacked, Keyed
      <3>2. ASSUME NEW j \in DOMAIN effects'
            PROVE  Len(posted'[j]) > 0 /\ (Dedupes[j[2]] => effects'[j] = posted'[j][1].result)
        <4>1. CASE j \in DOMAIN effects
          <5>1. /\ j \in EffectKeys /\ effects'[j] = effects[j] /\ Len(posted[j]) > 0
                /\ Dedupes[j[2]] => effects[j] = posted[j][1].result
            BY <1>t, <1>3, <4>1 DEF LedgerBacked, Holds, Includes, TypeOK, StoreTypeOK
          <5> QED BY <1>2, <5>1 DEF Keeps
        <4>2. CASE j = k /\ j \notin DOMAIN effects
          BY <1>2, <1>3, <1>4, <2>2, <3>1, <4>2 DEF Keeps
        <4> QED BY <2>2, <3>2, <4>1, <4>2
      <3> QED BY <3>2 DEF LedgerBacked, Holds
    <2> QED BY <1>3, <2>1, <2>2
  <1>7. ResultsAgree'
    BY <1>1, <1>3, ResultsStayBacked
  <1>8. Backed(effects', x.run, x.mem.ctx)
    BY <1>t, <1>3, <1>4, BackedStays DEF CopiesAgree
  <1>9. Backed(effects', y.run, y.mem.ctx)
    <2>1. CASE y.mem.ctx = x.mem.ctx
      BY <1>4, <1>8, <2>1
    <2>2. CASE \E v \in Values : y.mem.ctx = [x.mem.ctx EXCEPT ![x.step] = v] /\ Ledgered(x, v)
      <3>1. PICK v \in Values : y.mem.ctx = [x.mem.ctx EXCEPT ![x.step] = v] /\ Ledgered(x, v)
        BY <2>2
      <3>2. /\ y.mem.ctx[x.step] = v
            /\ \A s \in Steps : s # x.step => y.mem.ctx[s] = x.mem.ctx[s]
        BY <1>4, <3>1 DEF Context
      <3>3. ASSUME NodeType[x.step] = "tool", SideEffect[x.step]
            PROVE  k \in DOMAIN effects' /\ (Dedupes[x.step] => v = effects'[k])
        <4>1. k \in DOMAIN effects' /\ (v = effects'[k] \/ (x.pc = "record" /\ v = x.out))
          BY <1>5, <3>1, <3>3 DEF Ledgered
        <4>2. CASE x.pc = "record" /\ v = x.out
          <5>1. Dedupes[x.step] => x.out = posted'[k][1].result
            BY <1>2, <1>4, <1>5, <4>2 DEF DriverBacked, Keyed, Keeps
          <5>2. Dedupes[x.step] => effects'[k] = posted'[k][1].result
            BY <1>4, <1>6, <4>1 DEF LedgerBacked
          <5> QED BY <4>1, <4>2, <5>1, <5>2
        <4> QED BY <4>1, <4>2
      <3>4. Backed(effects', x.run, y.mem.ctx)
        BY <1>5, <1>8, <3>2, <3>3 DEF Backed
      <3> QED BY <1>4, <3>4
    <2> QED BY <1>1, <2>1, <2>2 DEF Worked
  <1>10. \A e \in Drivers : e # d => dr'[e] = dr[e]
    BY <1>t, <1>1, PutView
  <1> QED BY <1>2, <1>3, <1>6, <1>7, <1>9, <1>10, OthersBacked

\* Crashes, returns, cancels, purges and late calls.
LEMMA OtherOnce ==
  ASSUME ExactlyOnce,
         \/ \E d \in Drivers : Crash(d) \/ Return(d)
         \/ \E r \in RunIds : Cancel(r)
         \/ \E t, old : Purge(t, old)
         \/ \E c \in inflight : Land(c)
         \/ UNCHANGED vars
  PROVE  LedgerBacked' /\ ResultsAgree' /\ DriversBacked' /\ CopiesAgree'
  <1>t. TypeOK /\ LedgerBacked /\ ResultsAgree /\ DriversBacked /\ CopiesAgree
    BY DEF ExactlyOnce
  <1>1. ASSUME NEW d \in Drivers, Crash(d) \/ Return(d)
        PROVE  LedgerBacked' /\ ResultsAgree' /\ DriversBacked' /\ CopiesAgree'
    <2>1. Put(d, Idle) /\ UNCHANGED <<runs, effects, posted>>
      BY <1>1, StopView DEF storeVars
    <2>2. Keeps(posted, posted') /\ Includes(effects, effects')
      BY <2>1, NothingLost
    <2>3. LedgerBacked' /\ ResultsAgree'
      BY <1>t, <2>1, <2>2, LedgerStaysBacked, ResultsStayBacked
    <2>4. dr'[d] = Idle /\ \A e \in Drivers : e # d => dr'[e] = dr[e]
      BY <1>t, <2>1, PutView
    <2> QED BY <2>2, <2>3, <2>4, IdleBacked, OthersBacked
  <1>2. ASSUME UNCHANGED <<dr, effects>>, Keeps(posted, posted'), DOMAIN runs' = DOMAIN runs,
               \A r \in DOMAIN runs : runs'[r].st.ctx = runs[r].st.ctx
        PROVE  LedgerBacked' /\ ResultsAgree' /\ DriversBacked' /\ CopiesAgree'
    <2>1. Includes(effects, effects')
      BY <1>2, NothingLost
    <2>2. LedgerBacked' /\ ResultsAgree' /\ CopiesAgree'
      BY <1>t, <1>2, <2>1, LedgerStaysBacked, ResultsStayBacked DEF CopiesAgree
    <2>3. ASSUME NEW e \in Drivers
          PROVE  DriverBacked(posted', dr'[e])
      <3>1. Keyed(dr[e]) \in EffectKeys \/ dr[e].pc # "record"
        BY <1>t DEF TypeOK, DriverTypeOK, StoreTypeOK, Keyed, EffectKeys
      <3> QED BY <1>t, <1>2, <3>1, DriverBackedStays DEF DriversBacked
    <2> QED BY <2>2, <2>3 DEF DriversBacked
  <1>3. ASSUME NEW r \in RunIds, Cancel(r)
        PROVE  LedgerBacked' /\ ResultsAgree' /\ DriversBacked' /\ CopiesAgree'
    <2>1. /\ UNCHANGED <<dr, effects, posted>> /\ DOMAIN runs' = DOMAIN runs
          /\ \A q \in DOMAIN runs : runs'[q].st.ctx = runs[q].st.ctx
      BY <1>t, <1>3, CancelView
    <2> QED BY <1>2, <2>1, NothingLost
  <1>4. ASSUME NEW t, NEW old, Purge(t, old)
        PROVE  LedgerBacked' /\ ResultsAgree' /\ DriversBacked' /\ CopiesAgree'
    <2>1. UNCHANGED <<runs, dr, effects, posted>>
      BY <1>t, <1>4, PurgeView
    <2> QED BY <1>2, <2>1, NothingLost
  <1>5. ASSUME NEW c \in inflight, Land(c)
        PROVE  LedgerBacked' /\ ResultsAgree' /\ DriversBacked' /\ CopiesAgree'
    <2>1. c[1] \in EffectKeys /\ c[2] \in Slot /\ UNCHANGED <<runs, dr, effects>>
      BY <1>t, <1>5 DEF Land, storeVars, TypeOK, EnvTypeOK
    <2>2. \E v \in Replies(c[1], c[2]) : Post(c[1], c[2], v)
      BY <1>5 DEF Land
    <2>3. Keeps(posted, posted')
      BY <1>t, <2>1, <2>2, RepliesType, PostKeeps
    <2> QED BY <1>2, <2>1, <2>3
  <1>6. CASE UNCHANGED vars
    <2>1. UNCHANGED <<runs, dr, effects, posted>>
      BY <1>6 DEF vars
    <2> QED BY <1>2, <2>1, NothingLost
  <1> QED BY <1>1, <1>3, <1>4, <1>5, <1>6

\* The ledger's invariant holds at the start and every step keeps it.
LEMMA ExactlyOnceStep ==
  /\ Init => ExactlyOnce
  /\ ExactlyOnce /\ [Next]_vars => ExactlyOnce'
  <1>1. Init => ExactlyOnce
    <2> SUFFICES ASSUME Init PROVE ExactlyOnce
      OBVIOUS
    <2>1. DOMAIN runs = {} /\ DOMAIN effects = {} /\ dr = [d \in Drivers |-> Idle]
      BY DEF Init, StoreInit
    <2>2. \A d \in Drivers : dr[d] = Idle
      BY <2>1
    <2> QED BY <2>1, <2>2, InitType, IdleBacked
            DEF ExactlyOnce, LedgerBacked, ResultsAgree, DriversBacked, CopiesAgree
  <1>2. ASSUME ExactlyOnce, [Next]_vars
        PROVE  ExactlyOnce'
    <2>1. TypeOK'
      BY <1>2, TypeStep DEF ExactlyOnce
    <2>2. LedgerBacked' /\ ResultsAgree' /\ DriversBacked' /\ CopiesAgree'
      BY <1>2, NextKinds, RequestOnce, MoveOnce, WorkOnce, SaveOnce, OtherOnce
    <2> QED BY <2>1, <2>2 DEF ExactlyOnce
  <1> QED BY <1>1, <1>2

\* Exactly-once, the ledger's half: what record_effect has stored is an effect
\* the external system holds, with the result it returned (workflow.py
\* _run_tool, store.py record_effect).
THEOREM LedgerIsBacked == Spec => []LedgerBacked
  <1>1. ExactlyOnce => LedgerBacked
    BY DEF ExactlyOnce
  <1> QED BY <1>1, ExactlyOnceStep, PTL DEF Spec

\* Exactly-once, the run's half: a checkpointed result of a mutating tool is in
\* the ledger, and it is the ledger's result where the receiver honours keys.
THEOREM StoredResultsAgree == Spec => []ResultsAgree
  <1>1. ExactlyOnce => ResultsAgree
    BY DEF ExactlyOnce
  <1> QED BY <1>1, ExactlyOnceStep, PTL DEF Spec

-----------------------------------------------------------------------------
(* The audit log.  Between the result and the checkpoint the event is in   *)
(* the driver's buffer.                                                    *)

\* The tools' results in a context have their event in an audit log.
Logged(log, ctx) ==
    \A s \in Steps : (ctx[s] # Unset /\ NodeType[s] = "tool") =>
        \E type \in {"tool_result", "tool_result_replayed"} : <<type, s>> \in log

\* So have those of a driver's copy, in the log of its run or in its buffer; a
\* driver that is resolving an approval has no events yet.
CopyLogged(tr, x) ==
    /\ x.pc # "idle" => Logged(tr[x.run].audit \cup x.buf.audit, x.mem.ctx)
    /\ x.pc = "resolving" => x.buf = NoEvents
CopiesLogged == \A d \in Drivers : CopyLogged(trace, dr[d])

\* The inductive invariant of the audit log.
Audit == TypeOK /\ ResultsAudited /\ CopiesLogged

\* No audit event is removed.
Grows(a, b) == \A r \in RunIds : a[r].audit \subseteq b[r].audit

\* A larger log has the events too, and a new run needs none.
LEMMA LoggedStays ==
  /\ \A a, b, ctx : Logged(a, ctx) /\ a \subseteq b => Logged(b, ctx)
  /\ \A a : Logged(a, NewRun.ctx)
  BY DEF Logged, NewRun

\* Stored results, as the contexts of rows, in this state and the next.
LEMMA ResultsAreLogged ==
  /\ ResultsAudited <=> \A r \in DOMAIN runs : Logged(trace[r].audit, runs[r].st.ctx)
  /\ ResultsAudited' <=> \A r \in DOMAIN runs' : Logged(trace'[r].audit, runs'[r].st.ctx)
  BY DEF ResultsAudited, Logged

\* Rows whose context stays keep their events.
LEMMA RowsLogged ==
  ASSUME Audit, Grows(trace, trace'),
         \A r \in DOMAIN runs' : \/ r \in DOMAIN runs /\ runs'[r].st.ctx = runs[r].st.ctx
                                 \/ Logged(trace'[r].audit, runs'[r].st.ctx)
  PROVE  ResultsAudited'
  <1>1. ASSUME NEW r \in DOMAIN runs', r \in DOMAIN runs, runs'[r].st.ctx = runs[r].st.ctx
        PROVE  Logged(trace'[r].audit, runs'[r].st.ctx)
    <2>1. r \in RunIds /\ Logged(trace[r].audit, runs[r].st.ctx)
      BY <1>1, ResultsAreLogged DEF Audit, TypeOK, StoreTypeOK
    <2> QED BY <1>1, <2>1, LoggedStays DEF Grows
  <1> QED BY <1>1, ResultsAreLogged

\* Drivers that do not change keep their events.
LEMMA DriverLogged ==
  ASSUME Audit, Grows(trace, trace'), NEW e \in Drivers, dr'[e] = dr[e]
  PROVE  CopyLogged(trace', dr'[e])
  <1>1. dr[e].pc # "idle" => dr[e].run \in RunIds
    BY DEF Audit, TypeOK, DriverTypeOK, StoreTypeOK
  <1>2. CopyLogged(trace, dr[e])
    BY DEF Audit, CopiesLogged
  <1> QED BY <1>1, <1>2, LoggedStays DEF CopyLogged, Grows

\* One driver changes, to a state whose results are logged.
LEMMA OthersLogged ==
  ASSUME Audit, Grows(trace, trace'), NEW d \in Drivers, NEW y, Put(d, y), CopyLogged(trace', y)
  PROVE  CopiesLogged'
  <1>1. dr'[d] = y /\ \A e \in Drivers : e # d => dr'[e] = dr[e]
    BY PutView DEF Audit
  <1> QED BY <1>1, DriverLogged DEF CopiesLogged

\* Unchanged logs grow.
LEMMA LogStays == UNCHANGED trace => Grows(trace, trace')
  BY DEF Grows

\* A driver starts with the results and the log of its run.
LEMMA BeginLogged ==
  ASSUME NEW tr, NEW r \in RunIds, NEW st \in RunState, NEW b, Logged(tr[r].audit \cup b.audit, st.ctx),
         b = NoEvents
  PROVE  CopyLogged(tr, Begin(r, st))
  <1> DEFINE y == Begin(r, st)
  <1>1. \/ y = Idle
        \/ y.pc = "loop" /\ y.run = r /\ y.mem.ctx = st.ctx /\ y.buf = b
    BY BeginView
  <1> SUFFICES CopyLogged(tr, y)
    OBVIOUS
  <1> HIDE DEF y
  <1> QED BY <1>1, IdleBacked DEF CopyLogged

\* Requests: fire, resume, and the two halves of resolve_approval.
LEMMA RequestLogged ==
  ASSUME Audit, NEW d \in Drivers, Request(d)
  PROVE  ResultsAudited' /\ CopiesLogged'
  <1>t. TypeOK /\ ResultsAudited /\ CopiesLogged
    BY DEF Audit
  <1>e. NoEvents.audit = {}
    BY DEF NoEvents
  <1>1. CASE \E t \in Tenants, k \in Keys, r \in RunIds : Fire(d, t, k, r)
    <2>0. PICK t \in Tenants, k \in Keys, r \in RunIds : Fire(d, t, k, r)
      BY <1>1
    <2>1. /\ DOMAIN runs' = DOMAIN runs \cup {r} /\ runs'[r].st = NewRun
          /\ \A q \in DOMAIN runs : runs'[q] = runs[q]
          /\ Put(d, Begin(r, NewRun)) /\ UNCHANGED trace
      BY <1>t, <2>0, FireView
    <2>2. ResultsAudited'
      BY <2>1, LogStays, LoggedStays, RowsLogged
    <2>3. CopyLogged(trace', Begin(r, NewRun))
      BY IdleType, LoggedStays, BeginLogged
    <2> QED BY <2>1, <2>2, <2>3, LogStays, OthersLogged
  <1>2. ASSUME NEW r \in DOMAIN runs, runs[r].st \in RunState, r \in RunIds,
               \/ Put(d, Begin(r, runs[r].st))
               \/ Put(d, [Idle EXCEPT !.pc = "resolving", !.run = r, !.mem = runs[r].st]),
               UNCHANGED <<storeVars, posted>>
        PROVE  ResultsAudited' /\ CopiesLogged'
    <2>1. UNCHANGED <<runs, trace>> /\ Grows(trace, trace')
      BY <1>2, LogStays DEF storeVars
    <2>2. ResultsAudited'
      BY <2>1, RowsLogged
    <2>3. Logged(trace'[r].audit \cup NoEvents.audit, runs[r].st.ctx)
      BY <1>t, <1>e, <1>2, <2>1, ResultsAreLogged, LoggedStays
    <2> DEFINE z == [Idle EXCEPT !.pc = "resolving", !.run = r, !.mem = runs[r].st]
    <2>4. z.pc = "resolving" /\ z.run = r /\ z.mem = runs[r].st /\ z.buf = NoEvents
      BY DEF Idle
    <2>5. Put(d, z) \/ Put(d, Begin(r, runs[r].st))
      BY <1>2
    <2> HIDE DEF z
    <2>6. CopyLogged(trace', z) /\ CopyLogged(trace', Begin(r, runs[r].st))
      BY <1>2, <2>3, <2>4, BeginLogged DEF CopyLogged
    <2> QED BY <2>1, <2>2, <2>5, <2>6, OthersLogged
  <1>3. ASSUME dr[d].pc = "resolving", dr[d].run \in RunIds, dr[d].mem \in RunState,
               Put(d, Begin(dr[d].run, dr[d].mem)), UNCHANGED <<runs, trace>>
        PROVE  ResultsAudited' /\ CopiesLogged'
    <2>1. ResultsAudited'
      BY <1>3, LogStays, RowsLogged
    <2>2. CopyLogged(trace', Begin(dr[d].run, dr[d].mem))
      BY <1>t, <1>3, BeginLogged DEF CopiesLogged, CopyLogged
    <2> QED BY <1>3, <2>1, <2>2, LogStays, OthersLogged
  <1> QED BY <1>t, <1>1, <1>2, <1>3, StartView

\* The steps of a driver: a result comes with its event, and the checkpoint
\* writes both.
LEMMA DriverStepLogged ==
  ASSUME Audit, NEW d \in Drivers, Moves(d) \/ Works(d) \/ Saves(d)
  PROVE  ResultsAudited' /\ CopiesLogged'
  <1> DEFINE x == dr[d]
             y == dr'[d]
  <1>t. TypeOK /\ ResultsAudited /\ CopiesLogged /\ CopyLogged(trace, x)
    BY DEF Audit, CopiesLogged
  <1>1. CASE Moves(d)
    <2>1. Put(d, y) /\ Moved(x, y) /\ UNCHANGED <<runs, trace>>
      BY <1>t, <1>1, MoveView
    <2>2. /\ y.run = x.run /\ y.mem.ctx = x.mem.ctx /\ x.buf.audit \subseteq y.buf.audit
          /\ x.pc # "idle" /\ y.pc # "resolving"
      BY <2>1 DEF Moved, SameCopy, Gating
    <2>3. trace[x.run].audit \cup x.buf.audit \subseteq trace'[y.run].audit \cup y.buf.audit
      BY <2>1, <2>2
    <2>4. CopyLogged(trace', y)
      BY <1>t, <2>2, <2>3, LoggedStays DEF CopyLogged
    <2> QED BY <2>1, <2>4, LogStays, RowsLogged, OthersLogged
  <1>2. CASE Works(d)
    <2>1. Put(d, y) /\ Worked(x, y) /\ UNCHANGED <<runs, trace>>
      BY <1>t, <1>2, WorkView
    <2>2. /\ y.run = x.run /\ x.buf.audit \subseteq y.buf.audit
          /\ x.pc \notin {"idle", "resolving"} /\ y.pc # "resolving"
      BY <2>1 DEF Worked
    <2> DEFINE log == trace'[y.run].audit \cup y.buf.audit
    <2>3. trace[x.run].audit \cup x.buf.audit \subseteq log
      BY <2>1, <2>2
    <2>4. Logged(log, x.mem.ctx)
      BY <1>t, <2>2, <2>3, LoggedStays DEF CopyLogged
    <2>5. y.buf.audit \subseteq log
      OBVIOUS
    <2> HIDE DEF log
    <2>6. Logged(log, y.mem.ctx)
      <3>1. CASE y.mem.ctx = x.mem.ctx
        BY <2>4, <3>1
      <3>2. CASE \E v \in Values :
                    /\ y.mem.ctx = [x.mem.ctx EXCEPT ![x.step] = v]
                    /\ NodeType[x.step] = "tool" => \E t \in {"tool_result", "tool_result_replayed"} :
                                                        <<t, x.step>> \in y.buf.audit
        <4>1. PICK v \in Values :
                    /\ y.mem.ctx = [x.mem.ctx EXCEPT ![x.step] = v]
                    /\ NodeType[x.step] = "tool" => \E t \in {"tool_result", "tool_result_replayed"} :
                                                        <<t, x.step>> \in y.buf.audit
          BY <3>2
        <4>2. x.mem.ctx \in Context
          BY <1>t DEF TypeOK, DriverTypeOK, Driver, RunState
        <4>3. \A s \in Steps : s # x.step => y.mem.ctx[s] = x.mem.ctx[s]
          BY <4>1, <4>2 DEF Context
        <4>4. NodeType[x.step] = "tool" =>
                 \E t \in {"tool_result", "tool_result_replayed"} : <<t, x.step>> \in log
          BY <2>5, <4>1
        <4> HIDE DEF x, y
        <4> QED BY <2>4, <4>3, <4>4 DEF Logged
      <3> QED BY <2>1, <3>1, <3>2 DEF Worked
    <2>7. CopyLogged(trace', y)
      BY <2>2, <2>6 DEF CopyLogged, log
    <2> QED BY <2>1, <2>7, LogStays, RowsLogged, OthersLogged
  <1>3. CASE Saves(d)
    <2>1. Put(d, y) /\ x.run \in DOMAIN runs
      BY <1>t, <1>3, SaveView
    <2>2. PICK st \in RunState : Saved(x, y, st) /\ Checkpoint(x.run, st, x.buf)
      BY <1>t, <1>3, SaveView
    <2>3. /\ DOMAIN runs' = DOMAIN runs /\ runs'[x.run].st = st
          /\ \A q \in DOMAIN runs : q # x.run => runs'[q] = runs[q]
          /\ trace'[x.run].audit = trace[x.run].audit \cup x.buf.audit
          /\ \A q \in RunIds : q # x.run => trace'[q] = trace[q]
      BY <1>t, <2>1, <2>2, CheckpointView
    <2>4. Grows(trace, trace')
      BY <2>3 DEF Grows
    <2>5. st.ctx = x.mem.ctx /\ x.pc # "idle"
      BY <2>2 DEF Saved
    <2>6. Logged(trace'[x.run].audit, st.ctx)
      BY <1>t, <2>3, <2>5 DEF CopyLogged
    <2>7. ResultsAudited'
      BY <2>3, <2>4, <2>6, RowsLogged
    <2>8. y = Idle \/ (y.run = x.run /\ y.mem.ctx = st.ctx /\ y.pc # "resolving")
      BY <2>2 DEF Saved
    <2>9. CopyLogged(trace', y)
      <3>1. CASE y = Idle
        BY <3>1, IdleBacked DEF CopyLogged
      <3>2. CASE y.run = x.run /\ y.mem.ctx = st.ctx /\ y.pc # "resolving"
        <4>1. Logged(trace'[y.run].audit \cup y.buf.audit, y.mem.ctx)
          BY <2>6, <3>2, LoggedStays
        <4> QED BY <3>2, <4>1 DEF CopyLogged
      <3> QED BY <2>8, <3>1, <3>2
    <2> QED BY <2>1, <2>4, <2>7, <2>9, OthersLogged
  <1> QED BY <1>1, <1>2, <1>3

\* Crashes, returns, cancels, purges and late calls.
LEMMA OtherLogged ==
  ASSUME Audit,
         \/ \E d \in Drivers : Crash(d) \/ Return(d)
         \/ \E r \in RunIds : Cancel(r)
         \/ \E t, old : Purge(t, old)
         \/ \E c \in inflight : Land(c)
         \/ UNCHANGED vars
  PROVE  ResultsAudited' /\ CopiesLogged'
  <1>t. TypeOK
    BY DEF Audit
  <1>1. ASSUME NEW d \in Drivers, Crash(d) \/ Return(d)
        PROVE  ResultsAudited' /\ CopiesLogged'
    <2>1. Put(d, Idle) /\ UNCHANGED <<runs, trace>>
      BY <1>1, StopView DEF storeVars
    <2>2. CopyLogged(trace', Idle)
      BY IdleBacked DEF CopyLogged
    <2> QED BY <2>1, <2>2, LogStays, RowsLogged, OthersLogged
  <1>2. ASSUME UNCHANGED dr, Grows(trace, trace'), DOMAIN runs' = DOMAIN runs,
               \A r \in DOMAIN runs : runs'[r].st.ctx = runs[r].st.ctx
        PROVE  ResultsAudited' /\ CopiesLogged'
    BY <1>2, RowsLogged, DriverLogged DEF CopiesLogged
  <1>3. ASSUME NEW r \in RunIds, Cancel(r)
        PROVE  ResultsAudited' /\ CopiesLogged'
    <2>1. /\ UNCHANGED <<dr, trace>> /\ DOMAIN runs' = DOMAIN runs
          /\ \A q \in DOMAIN runs : runs'[q].st.ctx = runs[q].st.ctx
      BY <1>t, <1>3, CancelView
    <2> QED BY <1>2, <2>1, LogStays
  <1>4. ASSUME NEW t, NEW old, Purge(t, old)
        PROVE  ResultsAudited' /\ CopiesLogged'
    <2>1. UNCHANGED <<runs, dr>> /\ Grows(trace, trace')
      BY <1>t, <1>4, PurgeView DEF Grows
    <2> QED BY <1>2, <2>1
  <1>5. CASE (\E c \in inflight : Land(c)) \/ UNCHANGED vars
    <2>1. UNCHANGED <<runs, trace, dr>>
      BY <1>5 DEF Land, storeVars, vars
    <2> QED BY <1>2, <2>1, LogStays
  <1> QED BY <1>1, <1>3, <1>4, <1>5

\* Checkpoints are atomic: a tool result in the stored context always has its
\* tool_result or tool_result_replayed event in the trace (store.py checkpoint,
\* purge_event_payloads).
THEOREM StoredResultsAreAudited == Spec => []ResultsAudited
  <1>1. Init => Audit
    <2> SUFFICES ASSUME Init PROVE Audit
      OBVIOUS
    <2>1. DOMAIN runs = {} /\ dr = [d \in Drivers |-> Idle]
      BY DEF Init, StoreInit
    <2>2. \A d \in Drivers : dr[d] = Idle
      BY <2>1
    <2> QED BY <2>1, <2>2, InitType, IdleBacked DEF Audit, ResultsAudited, CopiesLogged, CopyLogged
  <1>2. Audit /\ [Next]_vars => Audit'
    BY TypeStep, NextKinds, RequestLogged, DriverStepLogged, OtherLogged DEF Audit
  <1>3. Audit => ResultsAudited
    BY DEF Audit
  <1> QED BY <1>1, <1>2, <1>3, PTL DEF Spec

-----------------------------------------------------------------------------
(* Trigger dedup.  Whatever is posted, or still under way in a connector,  *)
(* is posted in the name of a stored run, and stored runs have their       *)
(* triggers' keys to themselves.                                           *)

PostingsKnown == \A k \in EffectKeys : Holds(k) => k[1] \in DOMAIN runs
CallsKnown == \A c \in inflight : c[1][1] \in DOMAIN runs
KeysUnique ==
    \A q, r \in DOMAIN runs :
        (runs[q].tenant = runs[r].tenant /\ runs[q].key = runs[r].key) => q = r

\* The inductive invariant of trigger dedup.
Dedup == TypeOK /\ PostingsKnown /\ CallsKnown /\ KeysUnique

\* One call posts under its own key only.
LEMMA PostsOnce ==
  ASSUME TypeOK, NEW k \in EffectKeys, NEW a, NEW v, Post(k, a, v)
  PROVE  \A j \in EffectKeys : j # k => posted'[j] = posted[j]
  BY DEF TypeOK, EnvTypeOK, Post

\* A driver posts, and leaves calls behind, under the key of its run and step.
LEMMA PostsUnderItsKey ==
  ASSUME TypeOK, NEW d \in Drivers, Moves(d) \/ Works(d)
  PROVE  /\ Key(d)[1] \in DOMAIN runs
         /\ \A k \in EffectKeys : k # Key(d) => posted'[k] = posted[k]
         /\ \A c \in inflight' : c \in inflight \/ c[1] = Key(d)
  <1>0. dr[d].pc \notin {"idle", "resolving"}
    BY MoveView, WorkView DEF Moved, Worked, Gating
  <1>1. Key(d) \in EffectKeys /\ Key(d)[1] \in DOMAIN runs
    BY <1>0 DEF TypeOK, StoreTypeOK, DriverTypeOK, Key, EffectKeys
  <1>2. ASSUME NEW a, NEW l \in Left(Key(d), a), inflight' = inflight \cup l
        PROVE  \A c \in inflight' : c \in inflight \/ c[1] = Key(d)
    BY <1>2, LeftCalls
  <1>3. CASE ExecuteOk(d)
    <2>1. \/ UNCHANGED posted
          \/ \E v : Post(Key(d), Args(d), v)
      BY <1>3 DEF ExecuteOk
    <2>2. \E l \in Left(Key(d), Args(d)) : inflight' = inflight \cup l
      BY <1>3 DEF ExecuteOk, Left
    <2> QED BY <1>1, <1>2, <2>1, <2>2, PostsOnce
  <1>4. CASE ExecuteCall(d)
    <2>1. PICK a : /\ (\E v : Post(Key(d), a, v)) \/ UNCHANGED posted
                   /\ \E l \in Left(Key(d), a) : inflight' = inflight \cup l
      BY <1>4 DEF ExecuteCall, Left
    <2> QED BY <1>1, <1>2, <2>1, PostsOnce
  <1>5. CASE ExecuteFail(d)
    <2>1. UNCHANGED posted /\ \E l \in Left(Key(d), Args(d)) : inflight' = inflight \cup l
      BY <1>5 DEF ExecuteFail, Left
    <2> QED BY <1>1, <1>2, <2>1
  <1>6. CASE FailCall(d)
    <2>1. UNCHANGED posted
      BY <1>6 DEF FailCall
    <2>2. PICK a : \E l \in Left(Key(d), a) : inflight' = inflight \cup l
      BY <1>6 DEF FailCall, Left
    <2> QED BY <1>1, <1>2, <2>1, <2>2
  <1>7. CASE UNCHANGED <<posted, inflight>>
    BY <1>1, <1>7
  <1>8. \/ ExecuteOk(d) \/ ExecuteCall(d) \/ ExecuteFail(d) \/ FailCall(d)
        \/ UNCHANGED <<posted, inflight>>
    BY DEF Moves, Works, EnterStep, Escape, TurnsUsedUp, RunBranch, RunApproval, GateTool,
           CheckApproval, RefuseCall, RequestApproval, AskApproval, AnswerApproval,
           ModelAnswers, ModelCalls, RecordTool, ReplayTool, envVars
  <1> QED BY <1>3, <1>4, <1>5, <1>6, <1>7, <1>8

\* The steps that create no run.
LEMMA SameRunsDedup ==
  ASSUME Dedup, DOMAIN runs' = DOMAIN runs,
         \A q \in DOMAIN runs : runs'[q].tenant = runs[q].tenant /\ runs'[q].key = runs[q].key,
         \A k \in EffectKeys : posted'[k] = posted[k] \/ k[1] \in DOMAIN runs,
         \A c \in inflight' : c \in inflight \/ c[1][1] \in DOMAIN runs
  PROVE  PostingsKnown' /\ CallsKnown' /\ KeysUnique'
  <1>1. PostingsKnown'
    BY DEF Dedup, PostingsKnown, Holds
  <1>2. CallsKnown'
    BY DEF Dedup, CallsKnown
  <1>3. KeysUnique'
    BY DEF Dedup, KeysUnique
  <1> QED BY <1>1, <1>2, <1>3

\* Every step keeps the invariant.
LEMMA DedupStep == Dedup /\ [Next]_vars => Dedup'
  <1> SUFFICES ASSUME Dedup, [Next]_vars PROVE Dedup'
    OBVIOUS
  <1>t. TypeOK /\ TypeOK'
    BY TypeStep DEF Dedup
  <1> SUFFICES PostingsKnown' /\ CallsKnown' /\ KeysUnique'
    BY <1>t DEF Dedup
  <1>1. ASSUME NEW d \in Drivers, Request(d)
        PROVE  PostingsKnown' /\ CallsKnown' /\ KeysUnique'
    <2>1. CASE \E t \in Tenants, k \in Keys, r \in RunIds : Fire(d, t, k, r)
      <3>0. PICK t \in Tenants, k \in Keys, r \in RunIds : Fire(d, t, k, r)
        BY <2>1
      <3>1. /\ r \notin DOMAIN runs /\ ~KeyTaken(t, k) /\ DOMAIN runs' = DOMAIN runs \cup {r}
            /\ runs'[r].tenant = t /\ runs'[r].key = k
            /\ \A q \in DOMAIN runs : runs'[q] = runs[q]
            /\ UNCHANGED <<posted, inflight>>
        BY <1>t, <3>0, FireView
      <3>2. PostingsKnown' /\ CallsKnown'
        BY <3>1 DEF Dedup, PostingsKnown, CallsKnown, Holds
      <3>3. KeysUnique'
        BY <3>1 DEF Dedup, KeysUnique, KeyTaken
      <3> QED BY <3>2, <3>3
    <2>2. CASE UNCHANGED <<runs, posted, inflight>>
      BY <2>2, SameRunsDedup
    <2> QED BY <1>t, <1>1, <2>1, <2>2, StartView DEF storeVars
  <1>2. ASSUME NEW d \in Drivers, Moves(d) \/ Works(d)
        PROVE  PostingsKnown' /\ CallsKnown' /\ KeysUnique'
    <2>1. UNCHANGED runs
      BY <1>t, <1>2, MoveView, WorkView
    <2> QED BY <1>t, <1>2, <2>1, PostsUnderItsKey, SameRunsDedup
  <1>3. ASSUME NEW d \in Drivers, Saves(d)
        PROVE  PostingsKnown' /\ CallsKnown' /\ KeysUnique'
    <2>1. UNCHANGED <<posted, inflight>>
      BY <1>t, <1>3, SaveView DEF envVars
    <2>2. /\ DOMAIN runs' = DOMAIN runs
          /\ \A q \in DOMAIN runs : runs'[q].tenant = runs[q].tenant /\ runs'[q].key = runs[q].key
      BY <1>t, <1>3, SaveView, CheckpointView
    <2> QED BY <2>1, <2>2, SameRunsDedup
  <1>4. ASSUME NEW r \in RunIds, Cancel(r)
        PROVE  PostingsKnown' /\ CallsKnown' /\ KeysUnique'
    <2>1. /\ UNCHANGED <<posted, inflight>> /\ DOMAIN runs' = DOMAIN runs
          /\ \A q \in DOMAIN runs : runs'[q].tenant = runs[q].tenant /\ runs'[q].key = runs[q].key
      BY <1>t, <1>4, CancelView
    <2> QED BY <2>1, SameRunsDedup
  <1>5. ASSUME NEW c \in inflight, Land(c)
        PROVE  PostingsKnown' /\ CallsKnown' /\ KeysUnique'
    <2>1. c[1] \in EffectKeys /\ c[1][1] \in DOMAIN runs
      BY <1>t DEF Dedup, CallsKnown, TypeOK, EnvTypeOK
    <2>2. UNCHANGED runs /\ inflight' \subseteq inflight /\ \E v : Post(c[1], c[2], v)
      BY <1>5 DEF Land, storeVars
    <2>3. \A k \in EffectKeys : k # c[1] => posted'[k] = posted[k]
      BY <1>t, <2>1, <2>2, PostsOnce
    <2> QED BY <2>1, <2>2, <2>3, SameRunsDedup
  <1>6. CASE \/ \E d \in Drivers : Crash(d) \/ Return(d)
             \/ \E t, old : Purge(t, old)
             \/ UNCHANGED vars
    <2>1. UNCHANGED <<runs, posted, inflight>>
      BY <1>t, <1>6, StopView, PurgeView DEF storeVars, vars
    <2> QED BY <2>1, SameRunsDedup
  <1> QED BY <1>1, <1>2, <1>3, <1>4, <1>5, <1>6, NextKinds

\* Nothing is posted or under way before the first run.
LEMMA InitDedup == Init => Dedup
  <1> SUFFICES ASSUME Init PROVE Dedup
    OBVIOUS
  <1>1. /\ DOMAIN runs = {} /\ inflight = {} /\ posted = [k \in EffectKeys |-> <<>>]
    BY DEF Init, StoreInit
  <1> QED BY <1>1, InitType DEF Dedup, PostingsKnown, CallsKnown, KeysUnique, Holds

\* For one trigger of a tenant a step posts in the name of one run only,
\* however often the trigger is delivered and whoever drives the run (store.py
\* create_or_get_run, workflow.py _run_tool).
THEOREM TriggersPostOnce == Spec => []OnePostingPerTrigger
  <1>1. Init => Dedup
    BY InitDedup
  <1>2. Dedup => OnePostingPerTrigger
    <2> SUFFICES ASSUME Dedup, NEW j \in EffectKeys, NEW k \in EffectKeys, Holds(j), Holds(k),
                        j[2] = k[2], runs[j[1]].tenant = runs[k[1]].tenant,
                        runs[j[1]].key = runs[k[1]].key
                 PROVE  j = k
      BY DEF OnePostingPerTrigger
    <2>1. j[1] = k[1]
      BY DEF Dedup, PostingsKnown, KeysUnique
    <2> QED BY <2>1 DEF EffectKeys
  <1> QED BY <1>1, <1>2, DedupStep, PTL DEF Spec
=============================================================================
