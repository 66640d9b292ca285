------------------------- MODULE PlanScheduler_proofs -------------------------
(* Proofs about PlanScheduler, for every task graph, every task set a client  *)
(* gives and every number of revisions, attempts and parallel tasks.          *)
EXTENDS PlanScheduler, FiniteSetTheorems, TLAPS

USE PlanAssumption

-----------------------------------------------------------------------------
(* Types.                                                                     *)

Rev == [status : Statuses, appr : {"none", "requested", "approved", "rejected", "expired"},
        tasks : SUBSET Tasks, old : Revs \cup {None}, deps : [Tasks -> SUBSET Tasks],
        reused : SUBSET Tasks, kept : SUBSET Tasks]
States == {"none"} \cup Active \cup Outcomes
Att == [no : 0 .. MaxAttempts, state : States]
Kinds == {"none", "submit", "decide", "start", "cancel", "dispatch", "prepare", "advance",
          "reconcile", "replan"}
Steps == {"none", "request", "revision", "execute", "attempts", "cascade", "dispatch", "ready",
          "ready_set", "next", "draft", "reuse"}
Op == [kind : Kinds, rev : Revs \cup {None}, step : Steps, todo : SUBSET Tasks, new : Rev,
       decision : {"none", "approved", "rejected"}]

\* TypeOK does not name everything a handler has in hand.
TypeInv == rev \in [Revs -> Rev] /\ att \in [Revs -> [Tasks -> Att]] /\ op \in Op

-----------------------------------------------------------------------------
(* The inductive invariant.                                                   *)

Started == {"executing", "replan_required", "superseded", "cancelled"}
Succeeded(r, t) == att[r][t].state = "succeeded"

\* Tasks that have had an attempt: their revision was started, and everything
\* upstream of them is done.
AttemptInv(r, t) ==
  /\ att[r][t].no = 0 <=> att[r][t].state = "none"
  /\ att[r][t].no # 0 => rev[r].status \in Started /\ \A d \in rev[r].deps[t] : Done(r, d)

\* What a revision reuses did succeed in the one it replaces.
ReuseInv(r) == \A t \in rev[r].reused : rev[r].old \in Revs /\ Succeeded(rev[r].old, t)

\* At most one task that writes outside has left the queue.
SingleWriter(r) == \A t, u \in Running(r) \cap Serial : t = u

\* What a handler decided before its last commit and still relies on.
OpInv ==
  /\ op.step # "none" => op.rev \in Revs
  /\ op.step = "revision" => op.decision \in {"approved", "rejected"}
  /\ op.step \in {"attempts", "ready_set"} => rev[op.rev].status = "executing"
  /\ op.step = "attempts" =>
       \A t \in op.todo : \A d \in rev[op.rev].deps[t] : Done(op.rev, d)
  /\ op.step = "dispatch" =>
       /\ \A t \in op.todo : att[op.rev][t].state = "pending"
       /\ op.todo \cap Serial # {} => Running(op.rev) \cap Serial = {}
  /\ op.step = "ready" => \A t \in op.todo : att[op.rev][t].state \in Occupying
  /\ op.step = "next" => \A t \in op.todo : att[op.rev][t].state = "ended"
  /\ op.step = "draft" \/ (op.step = "cascade" /\ op.kind = "replan") =>
       /\ op.new.old = op.rev /\ op.new.reused = {} /\ op.new.status = "draft"
       /\ \A t \in op.todo : Succeeded(op.rev, t)
  /\ op.step = "reuse" =>
       /\ rev[op.rev].status = "draft" /\ rev[op.rev].old \in Revs
       /\ \A t \in op.todo : Succeeded(rev[op.rev].old, t)

RevInv(r) == ReuseInv(r) /\ SingleWriter(r) /\ \A t \in Tasks : AttemptInv(r, t)

IInv == TypeInv /\ OpInv /\ \A r \in Revs : RevInv(r)

-----------------------------------------------------------------------------
(* What a handler has in hand.                                                *)

LEMMA NoOpType ==
  /\ NoRev \in Rev /\ NoRev.reused = {} /\ NoRev.status = "none"
  /\ NoOp \in Op /\ NoOp.step = "none" /\ NoOp.kind = "none" /\ NoOp.todo = {}
<1>1. NoRev \in Rev /\ NoRev.reused = {} /\ NoRev.status = "none"
  BY DEF NoRev, Rev, Statuses
<1>2. NoOp \in Op /\ NoOp.step = "none" /\ NoOp.kind = "none" /\ NoOp.todo = {}
  BY <1>1 DEF NoOp, Op, Kinds, Steps
<1> QED
  BY <1>1, <1>2

LEMMA RunType ==
  ASSUME NEW kind \in Kinds, NEW r \in Revs, NEW step \in Steps, NEW todo \in SUBSET Tasks
  PROVE  /\ Run(kind, r, step, todo) \in Op
         /\ Run(kind, r, step, todo).kind = kind /\ Run(kind, r, step, todo).rev = r
         /\ Run(kind, r, step, todo).step = step /\ Run(kind, r, step, todo).todo = todo
BY NoOpType DEF Run, Op

\* A handler that relies on nothing but the name of a revision.
LEMMA OpPlain ==
  ASSUME \/ op'.step = "none"
         \/ op'.step \in {"request", "execute"} /\ op'.rev \in Revs
         \/ op'.step = "revision" /\ op'.rev \in Revs /\ op'.decision \in {"approved", "rejected"}
         \/ op'.step = "cascade" /\ op'.kind # "replan" /\ op'.rev \in Revs
  PROVE  OpInv'
BY DEF OpInv

LEMMA OpOnly ==
  ASSUME IInv, UNCHANGED <<rev, att>>, op' \in Op, OpInv'
  PROVE  IInv'
<1>1. TypeInv'
  BY DEF IInv, TypeInv
<1>2. \A r \in Revs : RevInv(r)'
  BY DEF IInv, RevInv, ReuseInv, SingleWriter, AttemptInv, Running, Succeeded, Done
<1> QED
  BY <1>1, <1>2 DEF IInv

-----------------------------------------------------------------------------
(* Steps that write revisions.                                                *)

\* A revision keeps its tasks and stays started, or has had no attempt yet.
SameGraph(r) ==
  /\ rev'[r].tasks = rev[r].tasks /\ rev'[r].deps = rev[r].deps
  /\ rev'[r].old = rev[r].old /\ rev'[r].reused = rev[r].reused
  /\ rev[r].status \in Started => rev'[r].status \in Started
Fresh(r) ==
  /\ rev[r].status \notin Started
  /\ \A t \in rev'[r].reused : rev'[r].old \in Revs /\ Succeeded(rev'[r].old, t)

LEMMA RevStep ==
  ASSUME IInv, UNCHANGED att, rev' \in [Revs -> Rev], op' \in Op, OpInv',
         \A r \in Revs : SameGraph(r) \/ Fresh(r)
  PROVE  IInv'
<1>1. TypeInv'
  BY DEF IInv, TypeInv
<1>2. ASSUME NEW r \in Revs PROVE RevInv(r)'
  <2>1. RevInv(r)
    BY DEF IInv
  <2>2. CASE SameGraph(r)
    BY <2>1, <2>2 DEF RevInv, ReuseInv, SingleWriter, AttemptInv, Running, Succeeded, Done, SameGraph
  <2>3. CASE Fresh(r)
    <3>1. \A t \in Tasks : att[r][t].no = 0 /\ att[r][t].state = "none"
      BY <2>1, <2>3 DEF RevInv, AttemptInv, Fresh
    <3>2. rev'[r].tasks \subseteq Tasks
      BY DEF Rev
    <3>3. SingleWriter(r)'
      BY <3>1, <3>2 DEF SingleWriter, Running, Occupying
    <3>4. ReuseInv(r)'
      BY <2>3 DEF ReuseInv, Fresh, Succeeded
    <3> QED
      BY <3>1, <3>3, <3>4 DEF RevInv, AttemptInv
  <2> QED
    BY <2>2, <2>3
<1> QED
  BY <1>1, <1>2 DEF IInv

LEMMA StatusSet ==
  ASSUME TypeInv, NEW r \in Revs, NEW s \in Statuses, SetStatus(r, s)
  PROVE  /\ rev' \in [Revs -> Rev] /\ rev'[r].status = s
         /\ rev'[r].old = rev[r].old /\ rev'[r].deps = rev[r].deps
         /\ \A q \in Revs \ {r} : rev'[q] = rev[q]
         /\ \A q \in Revs : (rev[r].status \in Started => s \in Started) => SameGraph(q)
<1> DEFINE x == [rev[r] EXCEPT !.status = s]
<1>1. /\ x \in Rev /\ x.status = s /\ x.tasks = rev[r].tasks /\ x.deps = rev[r].deps
      /\ x.old = rev[r].old /\ x.reused = rev[r].reused
  <2>1. rev[r] \in Rev
    BY DEF TypeInv
  <2> QED
    BY <2>1 DEF Rev
<1>2. rev' = [rev EXCEPT ![r] = x]
  BY DEF SetStatus
<1> HIDE DEF x
<1>3. rev' \in [Revs -> Rev] /\ rev'[r] = x /\ \A q \in Revs \ {r} : rev'[q] = rev[q]
  BY <1>1, <1>2 DEF TypeInv
<1> QED
  BY <1>1, <1>3 DEF SameGraph

LEMMA StatusStep ==
  ASSUME IInv, NEW r \in Revs, NEW s \in Statuses, SetStatus(r, s), UNCHANGED att, op' \in Op, OpInv',
         rev[r].status \in Started => s \in Started
  PROVE  IInv'
BY StatusSet, RevStep DEF IInv

\* The approval row changes, and nothing else of the revision.
LEMMA ApprovalStep ==
  ASSUME IInv, NEW r \in Revs, NEW a \in {"none", "requested", "approved", "rejected", "expired"},
         rev' = [rev EXCEPT ![r].appr = a], UNCHANGED att, op' \in Op, OpInv'
  PROVE  IInv'
<1> DEFINE x == [rev[r] EXCEPT !.appr = a]
<1>1. /\ x \in Rev /\ x.status = rev[r].status /\ x.tasks = rev[r].tasks /\ x.deps = rev[r].deps
      /\ x.old = rev[r].old /\ x.reused = rev[r].reused
  <2>1. rev[r] \in Rev
    BY DEF IInv, TypeInv
  <2> QED
    BY <2>1 DEF Rev
<1>2. rev' = [rev EXCEPT ![r] = x]
  OBVIOUS
<1> HIDE DEF x
<1>3. rev' \in [Revs -> Rev] /\ rev'[r] = x /\ \A q \in Revs \ {r} : rev'[q] = rev[q]
  BY <1>1, <1>2 DEF IInv, TypeInv
<1>4. \A q \in Revs : SameGraph(q)
  BY <1>1, <1>3 DEF SameGraph
<1> QED
  BY <1>3, <1>4, RevStep

\* A revision that has had no attempt is written anew.
LEMMA FreshStep ==
  ASSUME IInv, NEW r \in Revs, NEW x \in Rev, rev' = [rev EXCEPT ![r] = x], UNCHANGED att,
         op' \in Op, OpInv', rev[r].status \notin Started,
         \A t \in x.reused : x.old \in Revs /\ Succeeded(x.old, t)
  PROVE  IInv'
<1>1. rev' \in [Revs -> Rev] /\ rev'[r] = x /\ \A q \in Revs \ {r} : rev'[q] = rev[q]
  BY DEF IInv, TypeInv
<1>2. \A q \in Revs : SameGraph(q) \/ Fresh(q)
  BY <1>1 DEF SameGraph, Fresh
<1> QED
  BY <1>1, <1>2, RevStep

LEMMA DraftType ==
  ASSUME NEW T \in Given
  PROVE  DraftOf(T) \in Rev /\ DraftOf(T).reused = {} /\ DraftOf(T).status = "draft"
<1>1. T \subseteq Tasks /\ [t \in Tasks |-> IF t \in T THEN Deps[t] ELSE {}] \in [Tasks -> SUBSET Tasks]
  OBVIOUS
<1> QED
  BY <1>1, NoOpType DEF DraftOf, Rev, Statuses

LEMMA Drafted ==
  ASSUME IInv, CreateDraft \/ \E r \in Revs : UpdateDraft(r)
  PROVE  IInv'
<1>1. op' = NoOp
  BY DEF CreateDraft, UpdateDraft, Idle
<1>2. op' \in Op /\ OpInv'
  BY <1>1, NoOpType, OpPlain
<1>3. CASE CreateDraft
  <2>1. PICK T \in Given, r \in Revs :
          rev[r].status = "none" /\ rev' = [rev EXCEPT ![r] = DraftOf(T)] /\ UNCHANGED att
    BY <1>3 DEF CreateDraft, Free
  <2>2. rev[r].status \notin Started
    BY <2>1 DEF Started
  <2> QED
    BY <1>2, <2>1, <2>2, DraftType, FreshStep
<1>4. ASSUME NEW r \in Revs, UpdateDraft(r) PROVE IInv'
  <2>1. PICK T \in Given :
          /\ rev[r].status = "draft" /\ UNCHANGED att
          /\ rev' = [rev EXCEPT ![r] = [DraftOf(T) EXCEPT !.old = rev[r].old]]
    BY <1>4 DEF UpdateDraft
  <2>2. rev[r].old \in Revs \cup {None}
    BY DEF IInv, TypeInv, Rev
  <2> DEFINE x == [DraftOf(T) EXCEPT !.old = rev[r].old]
  <2>3. x \in Rev /\ x.reused = {}
    BY <2>2, DraftType DEF Rev
  <2> HIDE DEF x
  <2>4. rev' = [rev EXCEPT ![r] = x]
    BY <2>1 DEF x
  <2>5. rev[r].status \notin Started
    BY <2>1 DEF Started
  <2> QED
    BY <1>2, <2>1, <2>3, <2>4, <2>5, FreshStep
<1> QED
  BY <1>3, <1>4

LEMMA Submitted ==
  ASSUME IInv, RequestApproval \/ \E r \in Revs : Submit(r)
  PROVE  IInv'
<1>1. CASE RequestApproval
  <2>1. /\ op.rev \in Revs /\ rev' = [rev EXCEPT ![op.rev].appr = "requested"] /\ op' = NoOp
        /\ UNCHANGED att
    BY <1>1 DEF RequestApproval, At, IInv, OpInv
  <2> QED
    BY <2>1, NoOpType, OpPlain, ApprovalStep
<1>2. ASSUME NEW r \in Revs, Submit(r) PROVE IInv'
  <2>1. op' = Run("submit", r, "request", {}) /\ rev[r].status \notin Started
        /\ SetStatus(r, "awaiting_approval") /\ UNCHANGED att
    BY <1>2 DEF Submit, Started
  <2>2. op' \in Op /\ op'.step = "request" /\ op'.rev = r
    BY <2>1, RunType DEF Kinds, Steps
  <2>3. "awaiting_approval" \in Statuses
    BY DEF Statuses
  <2> QED
    BY <2>1, <2>2, <2>3, OpPlain, StatusStep
<1> QED
  BY <1>1, <1>2

LEMMA Decided ==
  ASSUME IInv, DecideRevision \/ \E r \in Revs : \/ ExpireApproval(r)
                                                 \/ Decide(r, "approved")
                                                 \/ Decide(r, "rejected")
  PROVE  IInv'
<1>1. CASE DecideRevision
  <2>1. /\ op.rev \in Revs /\ op.decision \in {"approved", "rejected"} /\ op' = NoOp /\ UNCHANGED att
    BY <1>1 DEF DecideRevision, At, IInv, OpInv
  <2>2. op' \in Op /\ OpInv'
    BY <2>1, NoOpType, OpPlain
  <2>3. CASE UNCHANGED rev
    BY <2>1, <2>2, <2>3, OpOnly
  <2>4. CASE rev[op.rev].status = "awaiting_approval" /\ SetStatus(op.rev, op.decision)
    <3>1. op.decision \in Statuses /\ rev[op.rev].status \notin Started
      BY <2>1, <2>4 DEF Statuses, Started
    <3> QED
      BY <2>1, <2>2, <2>4, <3>1, StatusStep
  <2> QED
    BY <1>1, <2>3, <2>4 DEF DecideRevision
<1>2. ASSUME NEW r \in Revs, ExpireApproval(r) PROVE IInv'
  <2>1. op' = NoOp /\ rev' = [rev EXCEPT ![r].appr = "expired"] /\ UNCHANGED att
    BY <1>2 DEF ExpireApproval, Idle
  <2> QED
    BY <2>1, NoOpType, OpPlain, ApprovalStep
<1>3. ASSUME NEW r \in Revs, NEW d \in {"approved", "rejected"}, Decide(r, d) PROVE IInv'
  <2>1. /\ rev' = [rev EXCEPT ![r].appr = d] /\ UNCHANGED att
        /\ op' = [Run("decide", r, "revision", {}) EXCEPT !.decision = d]
    BY <1>3 DEF Decide
  <2>2. Run("decide", r, "revision", {}) \in Op /\ Run("decide", r, "revision", {}).step = "revision"
        /\ Run("decide", r, "revision", {}).rev = r
    BY RunType DEF Kinds, Steps
  <2>3. op' \in Op /\ op'.step = "revision" /\ op'.rev = r /\ op'.decision = d
    BY <2>1, <2>2 DEF Op
  <2> QED
    BY <2>1, <2>3, OpPlain, ApprovalStep
<1> QED
  BY <1>1, <1>2, <1>3

LEMMA StartStep ==
  ASSUME IInv, NEW r \in Revs, Start(r)
  PROVE  IInv'
<1>1. op' = Run("start", r, "execute", {}) /\ UNCHANGED att
  BY DEF Start
<1>2. op' \in Op /\ op'.step = "execute" /\ op'.rev = r
  BY <1>1, RunType DEF Kinds, Steps
<1>3. OpInv'
  BY <1>2, OpPlain
<1>4. CASE UNCHANGED rev
  BY <1>1, <1>2, <1>3, <1>4, OpOnly
<1>5. CASE rev[r].old # None /\ SetStatus(rev[r].old, "superseded")
  <2>1. rev[r].old \in Revs
    BY <1>5 DEF IInv, TypeInv, Rev
  <2>2. "superseded" \in Statuses /\ "superseded" \in Started
    BY DEF Statuses, Started
  <2> QED
    BY <1>1, <1>2, <1>3, <1>5, <2>1, <2>2, StatusStep
<1> QED
  BY <1>4, <1>5 DEF Start

LEMMA Executed ==
  ASSUME IInv, Execute
  PROVE  IInv'
<1>1. op.rev \in Revs /\ UNCHANGED att /\ TypeInv
  BY DEF Execute, At, IInv, OpInv
<1>2. CASE rev[op.rev].status \notin {"approved", "executing"}
  <2>1. UNCHANGED rev /\ op' = NoOp
    BY <1>2 DEF Execute
  <2> QED
    BY <1>1, <2>1, NoOpType, OpPlain, OpOnly
<1>3. CASE rev[op.rev].status \in {"approved", "executing"}
  <2> DEFINE S == {t \in rev[op.rev].tasks \ rev[op.rev].reused : rev[op.rev].deps[t] = {}}
  <2>1. SetStatus(op.rev, "executing") /\ op' = Run("start", op.rev, "attempts", S)
    BY <1>3 DEF Execute
  <2>2. S \subseteq Tasks /\ \A t \in S : rev[op.rev].deps[t] = {}
    BY <1>1 DEF TypeInv, Rev
  <2> HIDE DEF S
  <2>3. /\ op' \in Op /\ op'.step = "attempts" /\ op'.rev = op.rev /\ op'.todo = S
    BY <1>1, <2>1, <2>2, RunType DEF Kinds, Steps
  <2>4. "executing" \in Statuses /\ "executing" \in Started
    BY DEF Statuses, Started
  <2>5. rev'[op.rev].status = "executing" /\ rev'[op.rev].deps = rev[op.rev].deps
    BY <1>1, <2>1, <2>4, StatusSet
  <2>6. OpInv'
    BY <1>1, <2>2, <2>3, <2>5 DEF OpInv
  <2> QED
    BY <1>1, <2>1, <2>3, <2>4, <2>6, StatusStep
<1> QED
  BY <1>2, <1>3

LEMMA Cancelled ==
  ASSUME IInv, NEW r \in Revs, Cancel(r)
  PROVE  IInv'
<1>1. SetStatus(r, "cancelled") /\ op' = Run("cancel", r, "cascade", {}) /\ UNCHANGED att
  BY DEF Cancel
<1>2. op' \in Op /\ op'.step = "cascade" /\ op'.kind = "cancel" /\ op'.rev = r
  BY <1>1, RunType DEF Kinds, Steps
<1>3. "cancelled" \in Statuses /\ "cancelled" \in Started
  BY DEF Statuses, Started
<1> QED
  BY <1>1, <1>2, <1>3, OpPlain, StatusStep

-----------------------------------------------------------------------------
(* Replanning.                                                                *)

LEMMA ReplannedType ==
  ASSUME TypeInv, NEW r \in Revs, NEW closure, NEW repl \in SUBSET Tasks
  PROVE  /\ Replanned(r, closure, repl) \in Rev
         /\ Replanned(r, closure, repl).old = r /\ Replanned(r, closure, repl).reused = {}
         /\ Replanned(r, closure, repl).status = "draft"
<1> DEFINE gone == (closure \cap rev[r].tasks) \ repl
           kept == rev[r].tasks \ closure
           deps == [t \in Tasks |-> IF t \in repl THEN Deps[t] \ gone
                                    ELSE IF t \in kept THEN rev[r].deps[t] \ gone ELSE {}]
<1>1. kept \in SUBSET Tasks /\ kept \cup repl \in SUBSET Tasks /\ deps \in [Tasks -> SUBSET Tasks]
  BY DEF TypeInv, Rev
<1>2. Replanned(r, closure, repl) =
        [NoRev EXCEPT !.status = "draft", !.old = r, !.tasks = kept \cup repl, !.kept = kept,
                      !.deps = deps]
  BY DEF Replanned
<1> HIDE DEF gone, kept, deps
<1>3. NoRev \in Rev /\ NoRev.reused = {} /\ "draft" \in Statuses
  BY NoOpType DEF Statuses
<1> QED
  BY <1>1, <1>2, <1>3 DEF Rev

LEMMA ReplanStep ==
  ASSUME IInv, NEW r \in Revs, Replan(r)
  PROVE  IInv'
<1>1. /\ TypeInv /\ UNCHANGED att /\ SetStatus(r, "replan_required")
  BY DEF IInv, Replan
<1>2. PICK roots \in SUBSET rev[r].tasks, repl \in Given, d \in {"approved", "rejected"} :
        op' = [Run("replan", r, "cascade", Reuse(r, Closure(r, roots)))
                 EXCEPT !.new = Replanned(r, Closure(r, roots), repl), !.decision = d]
  BY DEF Replan
<1>3. PICK new, todo : /\ new = Replanned(r, Closure(r, roots), repl)
                       /\ todo = Reuse(r, Closure(r, roots))
  OBVIOUS
<1>4. /\ new \in Rev /\ new.old = r /\ new.reused = {} /\ new.status = "draft"
  BY <1>1, <1>3, ReplannedType
<1>5. todo \in SUBSET Tasks /\ \A t \in todo : Succeeded(r, t)
  BY <1>1, <1>3 DEF Reuse, Succeeded, TypeInv, Rev
<1>6. /\ Run("replan", r, "cascade", todo) \in Op /\ Run("replan", r, "cascade", todo).kind = "replan"
      /\ Run("replan", r, "cascade", todo).rev = r /\ Run("replan", r, "cascade", todo).todo = todo
      /\ Run("replan", r, "cascade", todo).step = "cascade"
  BY <1>5, RunType DEF Kinds, Steps
<1>7. /\ op' \in Op /\ op'.kind = "replan" /\ op'.rev = r /\ op'.todo = todo /\ op'.new = new
      /\ op'.step = "cascade"
  BY <1>2, <1>3, <1>4, <1>6 DEF Op
<1>8. OpInv'
  BY <1>1, <1>4, <1>5, <1>7 DEF OpInv, Succeeded
<1>9. "replan_required" \in Statuses /\ "replan_required" \in Started
  BY DEF Statuses, Started
<1> QED
  BY <1>1, <1>7, <1>8, <1>9, StatusStep

LEMMA ReplanDrafted ==
  ASSUME IInv, ReplanDraft
  PROVE  IInv'
<1>1. /\ TypeInv /\ op \in Op /\ op.rev \in Revs /\ op.new.old = op.rev /\ op.new.reused = {}
      /\ op.new.status = "draft" /\ \A t \in op.todo : Succeeded(op.rev, t)
      /\ op.new \in Rev /\ op.todo \in SUBSET Tasks /\ UNCHANGED att
  BY DEF ReplanDraft, At, IInv, OpInv, TypeInv, Op
<1>2. CASE UNCHANGED rev /\ op' = NoOp
  BY <1>1, <1>2, NoOpType, OpPlain, OpOnly
<1>3. ASSUME NEW r \in Free, rev' = [rev EXCEPT ![r] = op.new],
             op' = [Run("replan", r, "reuse", op.todo) EXCEPT !.new = NoRev]
      PROVE  IInv'
  <2>1. r \in Revs /\ rev[r].status \notin Started
    BY DEF Free, Started
  <2>2. /\ Run("replan", r, "reuse", op.todo) \in Op /\ Run("replan", r, "reuse", op.todo).rev = r
        /\ Run("replan", r, "reuse", op.todo).step = "reuse"
        /\ Run("replan", r, "reuse", op.todo).todo = op.todo
    BY <1>1, <2>1, RunType DEF Kinds, Steps
  <2>3. op' \in Op /\ op'.rev = r /\ op'.step = "reuse" /\ op'.todo = op.todo
    BY <1>3, <2>2, NoOpType DEF Op
  <2>4. rev'[r] = op.new
    BY <1>1, <1>3, <2>1 DEF TypeInv
  <2>5. OpInv'
    BY <1>1, <2>1, <2>3, <2>4 DEF OpInv, Succeeded
  <2> QED
    BY <1>1, <1>3, <2>1, <2>3, <2>5, FreshStep
<1> QED
  BY <1>2, <1>3 DEF ReplanDraft

LEMMA ReuseMarked ==
  ASSUME IInv, MarkReused
  PROVE  IInv'
<1>1. /\ TypeInv /\ op \in Op /\ op.rev \in Revs /\ rev[op.rev] \in Rev /\ rev[op.rev].status = "draft"
      /\ rev[op.rev].old \in Revs /\ \A t \in op.todo : Succeeded(rev[op.rev].old, t)
      /\ op.todo \in SUBSET Tasks /\ op.step = "reuse" /\ UNCHANGED att
  BY DEF MarkReused, At, IInv, OpInv, TypeInv, Op
<1>2. PICK t \in op.todo : /\ rev' = [rev EXCEPT ![op.rev].reused = rev[op.rev].reused \cup {t}]
                           /\ op' = [op EXCEPT !.todo = op.todo \ {t}]
  BY DEF MarkReused
<1> DEFINE x == [rev[op.rev] EXCEPT !.reused = rev[op.rev].reused \cup {t}]
<1>3. /\ x \in Rev /\ x.reused = rev[op.rev].reused \cup {t} /\ x.old = rev[op.rev].old
      /\ x.status = "draft"
  BY <1>1 DEF Rev
<1>4. rev' = [rev EXCEPT ![op.rev] = x]
  BY <1>2
<1> HIDE DEF x
<1>5. op' \in Op /\ op'.rev = op.rev /\ op'.step = "reuse" /\ op'.todo = op.todo \ {t}
  BY <1>1, <1>2 DEF Op
<1>6. rev'[op.rev] = x
  BY <1>1, <1>4 DEF TypeInv
<1>7. OpInv'
  BY <1>1, <1>3, <1>5, <1>6 DEF OpInv, Succeeded
<1>8. \A u \in x.reused : x.old \in Revs /\ Succeeded(x.old, u)
  BY <1>1, <1>3 DEF IInv, RevInv, ReuseInv
<1>9. rev[op.rev].status \notin Started
  BY <1>1 DEF Started
<1> QED
  BY <1>1, <1>3, <1>4, <1>5, <1>7, <1>8, <1>9, FreshStep

LEMMA ReplanEnded ==
  ASSUME IInv, ReplanEnds
  PROVE  IInv'
<1>1. op.rev \in Revs /\ rev[op.rev].status = "draft" /\ op' = NoOp /\ UNCHANGED att
  BY DEF ReplanEnds, At, IInv, OpInv
<1>2. op' \in Op /\ OpInv'
  BY <1>1, NoOpType, OpPlain
<1>3. CASE UNCHANGED rev
  BY <1>1, <1>2, <1>3, OpOnly
<1>4. CASE SetStatus(op.rev, "approved")
  <2>1. "approved" \in Statuses /\ rev[op.rev].status \notin Started
    BY <1>1 DEF Statuses, Started
  <2> QED
    BY <1>1, <1>2, <1>4, <2>1, StatusStep
<1> QED
  BY <1>3, <1>4 DEF ReplanEnds

-----------------------------------------------------------------------------
(* Steps that write attempts.                                                 *)

\* What a step may do to the attempts at one task.
AttemptOK(r, t) ==
  /\ Succeeded(r, t) => att'[r][t].state = "succeeded"
  /\ att'[r][t].no = 0 <=> att'[r][t].state = "none"
  /\ att'[r][t].no # 0 =>
       \/ att[r][t].no # 0
       \/ rev[r].status \in Started /\ \A d \in rev[r].deps[t] : Done(r, d)

LEMMA AttStep ==
  ASSUME IInv, UNCHANGED rev, att' \in [Revs -> [Tasks -> Att]], op' \in Op, OpInv',
         \A r \in Revs, t \in Tasks : AttemptOK(r, t), \A r \in Revs : SingleWriter(r)'
  PROVE  IInv'
<1>1. TypeInv'
  BY DEF IInv, TypeInv
<1>2. ASSUME NEW r \in Revs PROVE RevInv(r)'
  <2>1. /\ RevInv(r) /\ rev[r].reused \subseteq Tasks
        /\ \A t \in Tasks : rev[r].deps[t] \subseteq Tasks
    BY DEF IInv, TypeInv, Rev
  <2>2. ReuseInv(r)'
    BY <2>1 DEF RevInv, ReuseInv, Succeeded, AttemptOK
  <2>3. ASSUME NEW t \in Tasks PROVE AttemptInv(r, t)'
    <3>1. \A d \in Tasks : Done(r, d) => Done(r, d)'
      BY DEF Done, AttemptOK, Succeeded
    <3> QED
      BY <2>1, <3>1 DEF RevInv, AttemptInv, AttemptOK
  <2> QED
    BY <2>2, <2>3 DEF RevInv
<1> QED
  BY <1>1, <1>2 DEF IInv

\* The attempt at one task is written.
LEMMA OneAttempt ==
  ASSUME TypeInv, NEW r \in Revs, NEW t \in Tasks, NEW x \in Att, att' = [att EXCEPT ![r][t] = x]
  PROVE  /\ att' \in [Revs -> [Tasks -> Att]] /\ att'[r][t] = x
         /\ \A q \in Revs, u \in Tasks : q # r \/ u # t => att'[q][u] = att[q][u]
<1> DEFINE row == [att[r] EXCEPT ![t] = x]
<1>1. row \in [Tasks -> Att] /\ row[t] = x /\ \A u \in Tasks \ {t} : row[u] = att[r][u]
  BY DEF TypeInv
<1>2. att' = [att EXCEPT ![r] = row]
  OBVIOUS
<1> HIDE DEF row
<1>3. att' \in [Revs -> [Tasks -> Att]] /\ att'[r] = row /\ \A q \in Revs \ {r} : att'[q] = att[q]
  BY <1>1, <1>2 DEF TypeInv
<1> QED
  BY <1>1, <1>3

LEMMA OneStep ==
  ASSUME IInv, NEW r \in Revs, NEW t \in Tasks, NEW x \in Att, att' = [att EXCEPT ![r][t] = x],
         UNCHANGED rev, op' \in Op, OpInv',
         Succeeded(r, t) => x.state = "succeeded",
         x.no = 0 <=> x.state = "none",
         x.no # 0 => \/ att[r][t].no # 0
                     \/ rev[r].status \in Started /\ \A d \in rev[r].deps[t] : Done(r, d),
         x.state \in Occupying => \/ att[r][t].state \in Occupying
                                  \/ t \notin Serial \/ Running(r) \cap Serial = {}
  PROVE  IInv'
<1>1. /\ att' \in [Revs -> [Tasks -> Att]] /\ att'[r][t] = x
      /\ \A q \in Revs, u \in Tasks : q # r \/ u # t => att'[q][u] = att[q][u]
  <2>1. TypeInv
    BY DEF IInv
  <2> QED
    BY <2>1, OneAttempt, Zenon
<1>2. ASSUME NEW q \in Revs, NEW u \in Tasks PROVE AttemptOK(q, u)
  <2>1. AttemptInv(q, u)
    BY DEF IInv, RevInv
  <2>2. CASE q = r /\ u = t
    BY <1>1, <2>2 DEF AttemptOK
  <2>3. CASE q # r \/ u # t
    BY <1>1, <2>1, <2>3 DEF AttemptOK, AttemptInv, Succeeded
  <2> QED
    BY <2>2, <2>3
<1>3. ASSUME NEW q \in Revs PROVE SingleWriter(q)'
  <2>1. SingleWriter(q) /\ rev[q].tasks \subseteq Tasks
    BY DEF IInv, RevInv, TypeInv, Rev
  <2>2. CASE q # r
    <3>1. Running(q)' = Running(q)
      BY <1>1, <2>1, <2>2 DEF Running
    <3> QED
      BY <2>1, <3>1 DEF SingleWriter
  <2>3. CASE q = r
    <3>1. Running(r)' \subseteq Running(r) \cup {t}
      BY <1>1, <2>1, <2>3 DEF Running
    <3>2. t \in Running(r)' => t \in Running(r) \/ t \notin Serial \/ Running(r) \cap Serial = {}
      BY <1>1, <2>1, <2>3 DEF Running
    <3> QED
      BY <2>1, <2>3, <3>1, <3>2 DEF SingleWriter
  <2> QED
    BY <2>2, <2>3
<1> QED
  BY <1>1, <1>2, <1>3, AttStep

\* A task that has had an attempt goes to another state, other than back into a lane
\* that a writer occupies.
LEMMA StateStep ==
  ASSUME IInv, NEW r \in Revs, NEW t \in Tasks, NEW s \in States \ {"none"}, SetState(r, t, s),
         UNCHANGED rev, op' \in Op, OpInv', att[r][t].state \notin {"none", "succeeded"},
         s \in Occupying => \/ att[r][t].state \in Occupying
                            \/ t \notin Serial \/ Running(r) \cap Serial = {}
  PROVE  IInv'
<1> DEFINE x == [att[r][t] EXCEPT !.state = s]
<1>1. att[r][t] \in Att /\ att[r][t].no # 0
  BY DEF IInv, TypeInv, RevInv, AttemptInv
<1>2. x \in Att /\ x.state = s /\ x.no = att[r][t].no
  BY <1>1 DEF Att
<1>3. att' = [att EXCEPT ![r][t] = x]
  BY DEF SetState
<1> HIDE DEF x
<1> QED
  BY <1>1, <1>2, <1>3, OneStep DEF Succeeded

LEMMA StateSet ==
  ASSUME TypeInv, NEW r \in Revs, NEW t \in Tasks, NEW s \in States, SetState(r, t, s)
  PROVE  /\ att'[r][t].state = s
         /\ \A q \in Revs, u \in Tasks : q # r \/ u # t => att'[q][u] = att[q][u]
<1>1. att[r][t] \in Att
  BY DEF TypeInv
<1>2. PICK y \in Att : y.state = s /\ att' = [att EXCEPT ![r][t] = y]
  <2>1. [att[r][t] EXCEPT !.state = s] \in Att /\ [att[r][t] EXCEPT !.state = s].state = s
    BY <1>1 DEF Att
  <2>2. att' = [att EXCEPT ![r][t] = [att[r][t] EXCEPT !.state = s]]
    BY DEF SetState
  <2> QED
    BY <2>1, <2>2
<1>3. att'[r][t] = y /\ \A q \in Revs, u \in Tasks : q # r \/ u # t => att'[q][u] = att[q][u]
  <2>1. TypeInv /\ y \in Att /\ att' = [att EXCEPT ![r][t] = y]
    BY <1>2
  <2>2. /\ att' \in [Revs -> [Tasks -> Att]] /\ att'[r][t] = y
        /\ \A q \in Revs, u \in Tasks : q # r \/ u # t => att'[q][u] = att[q][u]
    BY ONLY <2>1, r \in Revs, t \in Tasks, OneAttempt, Zenon
  <2> QED
    BY <2>2
<1> QED
  BY <1>2, <1>3

LEMMA Ensured ==
  ASSUME IInv, EnsureAttempt
  PROVE  IInv'
<1>1. /\ TypeInv /\ op \in Op /\ op.rev \in Revs /\ op.step = "attempts" /\ op.todo \subseteq Tasks
      /\ rev[op.rev].status = "executing"
      /\ \A t \in op.todo : \A d \in rev[op.rev].deps[t] : Done(op.rev, d)
      /\ UNCHANGED rev
  BY DEF EnsureAttempt, IInv, OpInv, TypeInv, Op
<1>2. PICK t \in op.todo :
        /\ att' = [att EXCEPT ![op.rev][t] =
                     IF att[op.rev][t].no = 0 THEN [no |-> 1, state |-> "pending"] ELSE att[op.rev][t]]
        /\ op' = [op EXCEPT !.todo = op.todo \ {t}]
  BY DEF EnsureAttempt
<1> DEFINE x == IF att[op.rev][t].no = 0 THEN [no |-> 1, state |-> "pending"] ELSE att[op.rev][t]
<1>3. t \in Tasks /\ att[op.rev][t] \in Att /\ AttemptInv(op.rev, t)
  BY <1>1 DEF TypeInv, IInv, RevInv
<1>4. [no |-> 1, state |-> "pending"] \in Att
  BY DEF Att, States, Active
<1>5. /\ x \in Att /\ (x.no = 0 <=> x.state = "none")
      /\ (Succeeded(op.rev, t) => x.state = "succeeded")
      /\ (x.state \in Occupying => att[op.rev][t].state \in Occupying)
  BY <1>3, <1>4 DEF AttemptInv, Succeeded, Occupying
<1>6. att' = [att EXCEPT ![op.rev][t] = x]
  BY <1>2
<1> HIDE DEF x
<1>7. op' \in Op /\ op'.rev = op.rev /\ op'.step = op.step /\ op'.todo = op.todo \ {t}
  BY <1>1, <1>2 DEF Op
<1>8. OpInv'
  <2>1. \A q \in Revs, u \in Tasks : Succeeded(q, u) => Succeeded(q, u)'
    BY <1>1, <1>3, <1>5, <1>6, OneAttempt DEF Succeeded
  <2>2. \A d \in Tasks : Done(op.rev, d) => (d \in Tasks => \E r \in {op.rev} : Done(r, d)')
    BY <1>1, <2>1 DEF Done, Succeeded
  <2>3. \A u \in Tasks : rev[op.rev].deps[u] \subseteq Tasks
    BY <1>1 DEF TypeInv, Rev
  <2> QED
    BY <1>1, <1>7, <2>2, <2>3 DEF OpInv
<1>9. rev[op.rev].status \in Started
  BY <1>1 DEF Started
<1> QED
  BY <1>1, <1>3, <1>5, <1>6, <1>7, <1>8, <1>9, OneStep

\* Active attempts are ended, of one revision or of all.
LEMMA EndStep ==
  ASSUME IInv, UNCHANGED rev, op' \in Op, OpInv', att' \in [Revs -> [Tasks -> Att]],
         \A r \in Revs, t \in Tasks :
           \/ att'[r][t] = att[r][t]
           \/ /\ att[r][t].state \in Active
              /\ att'[r][t].state = "ended" /\ att'[r][t].no = att[r][t].no
  PROVE  IInv'
<1>1. ASSUME NEW r \in Revs, NEW t \in Tasks PROVE AttemptOK(r, t)
  <2>1. AttemptInv(r, t)
    BY DEF IInv, RevInv
  <2> QED
    BY <2>1 DEF AttemptOK, AttemptInv, Succeeded, Active, Occupying
<1>2. ASSUME NEW r \in Revs PROVE SingleWriter(r)'
  <2>1. SingleWriter(r) /\ rev[r].tasks \subseteq Tasks
    BY DEF IInv, RevInv, TypeInv, Rev
  <2>2. Running(r)' \subseteq Running(r)
    BY <2>1 DEF Running, Occupying
  <2> QED
    BY <2>1, <2>2 DEF SingleWriter
<1> QED
  BY <1>1, <1>2, AttStep

LEMMA EndedType ==
  ASSUME NEW x \in Att
  PROVE  /\ [x EXCEPT !.state = "ended"] \in Att /\ [x EXCEPT !.state = "ended"].state = "ended"
         /\ [x EXCEPT !.state = "ended"].no = x.no
BY DEF Att, States, Outcomes

LEMMA Cascaded ==
  ASSUME IInv, Cascade
  PROVE  IInv'
<1>1. /\ TypeInv /\ op \in Op /\ op.rev \in Revs /\ op.step = "cascade" /\ UNCHANGED rev
      /\ att \in [Revs -> [Tasks -> Att]] /\ att' = [att EXCEPT ![op.rev] = Ended(op.rev)]
  BY DEF Cascade, IInv, OpInv, TypeInv
<1>2. Ended(op.rev) \in [Tasks -> Att]
  BY <1>1, EndedType DEF Ended
<1>3. /\ att' \in [Revs -> [Tasks -> Att]] /\ att'[op.rev] = Ended(op.rev)
      /\ \A q \in Revs \ {op.rev} : att'[q] = att[q]
  BY <1>1, <1>2
<1>4. ASSUME NEW r \in Revs, NEW t \in Tasks
      PROVE  \/ att'[r][t] = att[r][t]
             \/ /\ att[r][t].state \in Active
                /\ att'[r][t].state = "ended" /\ att'[r][t].no = att[r][t].no
  BY <1>1, <1>3, EndedType DEF Ended
<1>5. op' \in Op /\ OpInv'
  <2>1. CASE op.kind = "replan"
    <3>1. op' = [op EXCEPT !.step = "draft"]
      BY <2>1 DEF Cascade
    <3>2. /\ op' \in Op /\ op'.step = "draft" /\ op'.rev = op.rev /\ op'.new = op.new
          /\ op'.todo = op.todo /\ op.todo \subseteq Tasks
      BY <1>1, <3>1 DEF Op, Steps
    <3>3. \A t \in op.todo : att'[op.rev][t].state = "succeeded"
      BY <1>1, <1>4, <2>1, <3>2 DEF IInv, OpInv, Succeeded, Active, Occupying
    <3> QED
      BY <1>1, <2>1, <3>2, <3>3 DEF IInv, OpInv, Succeeded
  <2>2. CASE op.kind # "replan"
    BY <2>2, NoOpType, OpPlain DEF Cascade
  <2> QED
    BY <2>1, <2>2
<1> QED
  BY <1>1, <1>3, <1>4, <1>5, EndStep

LEMMA AllEnded ==
  ASSUME IInv, ReworkCancels
  PROVE  IInv'
<1>1. /\ att \in [Revs -> [Tasks -> Att]] /\ op' = NoOp /\ UNCHANGED rev
      /\ att' = [r \in Revs |-> [t \in Tasks |->
                   IF att[r][t].state \in Active
                   THEN [att[r][t] EXCEPT !.state = "ended"] ELSE att[r][t]]]
  BY DEF ReworkCancels, Idle, IInv, TypeInv
<1>2. \A r \in Revs, t \in Tasks :
        att'[r][t] = IF att[r][t].state \in Active
                     THEN [att[r][t] EXCEPT !.state = "ended"] ELSE att[r][t]
  BY <1>1
<1>3. att' \in [Revs -> [Tasks -> Att]]
  BY <1>1, EndedType
<1> QED
  BY <1>1, <1>2, <1>3, EndedType, NoOpType, OpPlain, EndStep

-----------------------------------------------------------------------------
(* Dispatch, workspaces, outcomes and reconciliation.                         *)

LEMMA Dispatched ==
  ASSUME IInv, NEW r \in Revs, Dispatch(r)
  PROVE  IInv'
<1>1. PICK S \in SUBSET Dispatchable(r) : op' = Run("dispatch", r, "dispatch", S)
  BY DEF Dispatch
<1>2. /\ S \subseteq Tasks
      /\ \A t \in S : att[r][t].state = "pending" /\ (t \in Serial => Running(r) \cap Serial = {})
  BY DEF Dispatchable, ReadySet, SerialOccupied, IInv, TypeInv, Rev
<1>3. op' \in Op /\ op'.step = "dispatch" /\ op'.rev = r /\ op'.todo = S
  BY <1>1, <1>2, RunType DEF Kinds, Steps
<1>4. UNCHANGED <<rev, att>>
  BY DEF Dispatch
<1>5. Running(r)' = Running(r)
  BY <1>4 DEF Running
<1>6. OpInv'
  BY <1>2, <1>3, <1>4, <1>5 DEF OpInv
<1> QED
  BY <1>3, <1>4, <1>6, OpOnly

LEMMA DispatchedOne ==
  ASSUME IInv, DispatchOne
  PROVE  IInv'
<1>1. /\ TypeInv /\ op \in Op /\ op.rev \in Revs /\ op.step = "dispatch" /\ op.todo \subseteq Tasks
      /\ \A t \in op.todo : att[op.rev][t].state = "pending"
      /\ op.todo \cap Serial # {} => Running(op.rev) \cap Serial = {}
      /\ rev[op.rev].tasks \subseteq Tasks /\ UNCHANGED rev
  BY DEF DispatchOne, IInv, OpInv, TypeInv, Op, Rev
<1>2. PICK t \in op.todo :
        /\ SetState(op.rev, t, "ready")
        /\ op' = [op EXCEPT !.todo = op.todo \ (IF t \in Serial THEN Serial \cup {t} ELSE {t})]
  BY DEF DispatchOne
<1>3. /\ op' \in Op /\ op'.rev = op.rev /\ op'.step = "dispatch"
      /\ op'.todo \subseteq op.todo \ {t} /\ (t \in Serial => op'.todo \cap Serial = {})
  BY <1>1, <1>2 DEF Op
<1>4. "ready" \in States \ {"none"} /\ t \in Tasks
  BY <1>1 DEF States, Active, Occupying
<1>5. \A q \in Revs, u \in Tasks : q # op.rev \/ u # t => att'[q][u] = att[q][u]
  BY <1>1, <1>2, <1>4, StateSet
<1>6. OpInv'
  <2>1. PICK r \in Revs : r = op.rev /\ r = op'.rev
    BY <1>1, <1>3
  <2>2. \A u \in op'.todo : att'[r][u].state = "pending"
    BY <1>1, <1>3, <1>5, <2>1
  <2>3. Running(r)' \subseteq Running(r) \cup {t}
    BY <1>1, <1>5, <2>1 DEF Running
  <2>4. op'.todo \cap Serial # {} => Running(r)' \cap Serial = {}
    BY <1>1, <1>3, <2>1, <2>3
  <2> QED
    BY <1>3, <2>1, <2>2, <2>4 DEF OpInv
<1> QED
  BY <1>1, <1>2, <1>3, <1>4, <1>6, StateStep

LEMMA PreparedStep ==
  ASSUME IInv, Prepared \/ \E r \in Revs, t \in Tasks : Prepare(r, t)
  PROVE  IInv'
<1>1. CASE Prepared
  <2>1. /\ op.rev \in Revs /\ op.todo \subseteq Tasks /\ op' = NoOp /\ UNCHANGED rev
        /\ \A t \in op.todo : att[op.rev][t].state \in Occupying
    BY <1>1 DEF Prepared, At, IInv, OpInv, TypeInv, Op
  <2>2. PICK t \in op.todo : SetState(op.rev, t, "ready")
    BY <1>1 DEF Prepared
  <2>3. t \in Tasks /\ att[op.rev][t].state \in Occupying /\ "ready" \in States \ {"none"}
    BY <2>1 DEF States, Active, Occupying
  <2>4. att[op.rev][t].state \notin {"none", "succeeded"}
    BY <2>3 DEF Occupying
  <2> QED
    BY <2>1, <2>2, <2>3, <2>4, NoOpType, OpPlain, StateStep
<1>2. ASSUME NEW r \in Revs, NEW t \in Tasks, Prepare(r, t) PROVE IInv'
  <2>1. /\ att[r][t].state \in {"ready", "preparing_workspace"} /\ SetState(r, t, "preparing_workspace")
        /\ op' = Run("prepare", r, "ready", {t}) /\ UNCHANGED rev
    BY <1>2 DEF Prepare
  <2>2. op' \in Op /\ op'.step = "ready" /\ op'.rev = r /\ op'.todo = {t}
    BY <2>1, RunType DEF Kinds, Steps
  <2>3. "preparing_workspace" \in States \ {"none"} /\ "preparing_workspace" \in Occupying
    BY DEF States, Active, Occupying
  <2>4. att'[r][t].state = "preparing_workspace"
    BY <2>1, <2>3, StateSet DEF IInv
  <2>5. OpInv'
    BY <2>2, <2>3, <2>4 DEF OpInv
  <2>6. att[r][t].state \notin {"none", "succeeded"} /\ att[r][t].state \in Occupying
    BY <2>1 DEF Occupying
  <2> QED
    BY <2>1, <2>2, <2>3, <2>5, <2>6, StateStep
<1> QED
  BY <1>1, <1>2

LEMMA Reported ==
  ASSUME IInv, NEW r \in Revs, NEW t \in Tasks,
         StartRunning(r, t) \/ \E o \in Outcomes : Report(r, t, o)
  PROVE  IInv'
<1>1. CASE StartRunning(r, t)
  <2>1. /\ att[r][t].state = "ready" /\ SetState(r, t, "running") /\ op' = NoOp /\ UNCHANGED rev
    BY <1>1 DEF StartRunning, Idle
  <2>2. "running" \in States \ {"none"} /\ att[r][t].state \in Occupying
    BY <2>1 DEF States, Active, Occupying
  <2>3. att[r][t].state \notin {"none", "succeeded"}
    BY <2>1
  <2> QED
    BY <2>1, <2>2, <2>3, NoOpType, OpPlain, StateStep
<1>2. ASSUME NEW o \in Outcomes, Report(r, t, o) PROVE IInv'
  <2>1. /\ att[r][t].state \in Active /\ SetState(r, t, o) /\ UNCHANGED rev
        /\ rev[r].status = "executing"
        /\ op' = NoOp \/ op' = Run("advance", r, "ready_set", {})
    BY <1>2 DEF Report, Idle
  <2>2. op' \in Op /\ OpInv'
    <3>1. CASE op' = NoOp
      BY <3>1, NoOpType, OpPlain
    <3>2. CASE op' = Run("advance", r, "ready_set", {})
      <4>1. op' \in Op /\ op'.step = "ready_set" /\ op'.rev = r
        BY <3>2, RunType DEF Kinds, Steps
      <4> QED
        BY <2>1, <4>1 DEF OpInv
    <3> QED
      BY <2>1, <3>1, <3>2
  <2>3. o \in States \ {"none"} /\ o \notin Occupying /\ att[r][t].state \notin {"none", "succeeded"}
    BY <2>1 DEF States, Outcomes, Active, Occupying
  <2> QED
    BY <2>1, <2>2, <2>3, StateStep
<1> QED
  BY <1>1, <1>2

LEMMA Promoted ==
  ASSUME IInv, Promote
  PROVE  IInv'
<1> DEFINE S == {t \in ReadySet(op.rev) : att[op.rev][t].no = 0}
<1>1. /\ TypeInv /\ op.rev \in Revs /\ rev[op.rev].status = "executing" /\ UNCHANGED <<rev, att>>
      /\ op' = Run("advance", op.rev, "attempts", S) /\ rev[op.rev] \in Rev
  BY DEF Promote, At, IInv, OpInv, TypeInv
<1>2. S \subseteq Tasks /\ \A t \in S : rev[op.rev].deps[t] \subseteq Completed(op.rev)
  BY <1>1 DEF ReadySet, Rev
<1>3. \A d \in Completed(op.rev) : Done(op.rev, d)
  BY <1>1 DEF Completed, Done, IInv, RevInv, ReuseInv, Succeeded
<1>4. op' \in Op /\ op'.step = "attempts" /\ op'.rev = op.rev /\ op'.todo = S
  BY <1>1, <1>2, RunType DEF Kinds, Steps
<1> HIDE DEF S
<1>5. OpInv'
  BY <1>1, <1>2, <1>3, <1>4 DEF OpInv, Done
<1> QED
  BY <1>1, <1>4, <1>5, OpOnly

LEMMA Reconciled ==
  ASSUME IInv, NEW r \in Revs, NEW t \in Tasks, Reconcile(r, t)
  PROVE  IInv'
<1>1. att[r][t].state = "unknown" /\ UNCHANGED rev /\ TypeInv
  BY DEF Reconcile, IInv
<1>2. PICK s \in {"ended", "succeeded"} :
        /\ SetState(r, t, s)
        /\ op' = NoOp \/ (s = "ended" /\ op' = Run("reconcile", r, "next", {t}))
  BY DEF Reconcile, Idle
<1>3. s \in States \ {"none"} /\ s \notin Occupying
  BY DEF States, Outcomes, Occupying
<1>4. op' \in Op /\ OpInv'
  <2>1. CASE op' = NoOp
    BY <2>1, NoOpType, OpPlain
  <2>2. CASE s = "ended" /\ op' = Run("reconcile", r, "next", {t})
    <3>1. op' \in Op /\ op'.step = "next" /\ op'.rev = r /\ op'.todo = {t}
      BY <2>2, RunType DEF Kinds, Steps
    <3>2. att'[r][t].state = "ended"
      BY <1>1, <1>2, <1>3, <2>2, StateSet
    <3> QED
      BY <3>1, <3>2 DEF OpInv
  <2> QED
    BY <1>2, <2>1, <2>2
<1> QED
  BY <1>1, <1>2, <1>3, <1>4, StateStep

LEMMA NextAttempted ==
  ASSUME IInv, NextAttempt
  PROVE  IInv'
<1>1. /\ TypeInv /\ op.rev \in Revs /\ op.todo \subseteq Tasks /\ op' = NoOp /\ UNCHANGED rev
      /\ \A t \in op.todo : att[op.rev][t].state = "ended"
  BY DEF NextAttempt, At, IInv, OpInv, TypeInv, Op
<1>2. PICK t \in op.todo :
        att' = [att EXCEPT ![op.rev][t] =
                  IF att[op.rev][t].no < MaxAttempts
                  THEN [no |-> att[op.rev][t].no + 1, state |-> "pending"] ELSE att[op.rev][t]]
  BY DEF NextAttempt
<1> DEFINE x == IF att[op.rev][t].no < MaxAttempts
                THEN [no |-> att[op.rev][t].no + 1, state |-> "pending"] ELSE att[op.rev][t]
<1>3. /\ t \in Tasks /\ att[op.rev][t] \in Att /\ AttemptInv(op.rev, t)
      /\ att[op.rev][t].state = "ended"
  BY <1>1 DEF TypeInv, IInv, RevInv
<1>4. att[op.rev][t].no \in 0 .. MaxAttempts /\ att[op.rev][t].no # 0
  BY <1>3 DEF Att, AttemptInv
<1>5. /\ x \in Att /\ x.no # 0 /\ x.state \in {"pending", "ended"}
  BY <1>3, <1>4 DEF Att, States, Active
<1>6. x.state \notin Occupying /\ x.state # "none"
  BY <1>5 DEF Occupying
<1>7. att' = [att EXCEPT ![op.rev][t] = x]
  BY <1>2
<1> HIDE DEF x
<1>8. op' \in Op /\ OpInv'
  BY <1>1, NoOpType, OpPlain
<1>9. ~Succeeded(op.rev, t)
  BY <1>3 DEF Succeeded
<1> QED
  BY <1>1, <1>3, <1>4, <1>5, <1>6, <1>7, <1>8, <1>9, OneStep

LEMMA Dropped ==
  ASSUME IInv, Finished \/ CutOff
  PROVE  IInv'
BY NoOpType, OpPlain, OpOnly DEF Finished, CutOff

-----------------------------------------------------------------------------
(* The invariant.                                                             *)

LEMMA InitInv == Init => IInv
<1> SUFFICES ASSUME Init PROVE IInv
  OBVIOUS
<1>1. NoAtt \in Att /\ NoAtt.no = 0 /\ NoAtt.state = "none"
  BY DEF NoAtt, Att, States
<1>2. TypeInv
  BY <1>1, NoOpType DEF Init, TypeInv
<1>3. OpInv
  BY NoOpType DEF Init, OpInv
<1>4. ASSUME NEW r \in Revs PROVE RevInv(r)
  <2>1. rev[r] = NoRev /\ NoRev.tasks \subseteq Tasks /\ \A t \in Tasks : att[r][t] = NoAtt
    BY NoOpType DEF Init, Rev
  <2>2. Running(r) = {}
    BY <1>1, <2>1 DEF Running, Occupying
  <2> QED
    BY <1>1, <2>1, <2>2, NoOpType DEF RevInv, ReuseInv, SingleWriter, AttemptInv
<1> QED
  BY <1>2, <1>3, <1>4 DEF IInv

LEMMA NextInv ==
  ASSUME IInv, [Next]_vars
  PROVE  IInv'
<1>1. CASE RevisionStep
  BY <1>1, Drafted, Submitted, Decided, StartStep, Executed, Ensured, Dropped, Cascaded, Cancelled,
     ReplanStep, ReplanDrafted, ReuseMarked, ReplanEnded, AllEnded DEF RevisionStep
<1>2. CASE AttemptStep
  BY <1>2, Dispatched, DispatchedOne, PreparedStep, Reported, Promoted, Reconciled, NextAttempted
     DEF AttemptStep
<1>3. CASE CutOff
  BY <1>3, Dropped
<1>4. CASE UNCHANGED vars
  <2>1. op' \in Op /\ OpInv'
    BY <1>4 DEF vars, IInv, TypeInv, OpInv, Done, Running, Succeeded
  <2> QED
    BY <1>4, <2>1, OpOnly DEF vars
<1> QED
  BY <1>1, <1>2, <1>3, <1>4 DEF Next

LEMMA Inductive == Spec => []IInv
BY InitInv, NextInv, PTL DEF Spec

-----------------------------------------------------------------------------
(* The theorems.                                                              *)

\* Every variable keeps its type (plan.rs, plan_dispatch.rs, scheduler.rs).
THEOREM PlanTypeCorrect == Spec => []TypeOK
<1>1. IInv => TypeOK
  BY DEF IInv, TypeInv, TypeOK, Rev, Att, States, Op, Kinds
<1> QED
  BY <1>1, Inductive, PTL

\* No task is attempted before every task upstream of it has really succeeded, in its
\* own revision or in the one whose result it reuses: through replans, updated drafts,
\* retries and handlers cut off between any two commits (ready_set, compute_reuse,
\* ensure_attempt, create_next_attempt).
THEOREM UpstreamFirst == Spec => []DependenciesFirst
<1>1. IInv => DependenciesFirst
  BY DEF IInv, RevInv, AttemptInv, DependenciesFirst
<1> QED
  BY <1>1, Inductive, PTL

\* However many may run in parallel, at most one task that writes outside has left the
\* queue of a revision (dispatchReady, view, the single writer of scheduler.rs).
THEOREM SingleWriterLane == Spec => []OneWriter
<1>1. ASSUME NEW S, \A t, u \in S : t = u PROVE Cardinality(S) <= 1
  <2>1. CASE S = {}
    BY <2>1, FS_EmptySet
  <2>2. ASSUME NEW t \in S PROVE Cardinality(S) <= 1
    <3>1. S = {t}
      BY <1>1, <2>2
    <3> QED
      BY <3>1, FS_Singleton
  <2> QED
    BY <2>1, <2>2
<1>2. IInv => OneWriter
  <2> SUFFICES ASSUME IInv, NEW r \in Revs PROVE Cardinality(Running(r) \cap Serial) <= 1
    BY DEF OneWriter
  <2>1. \A t, u \in Running(r) \cap Serial : t = u
    BY DEF IInv, RevInv, SingleWriter
  <2> QED
    BY <1>1, <2>1
<1> QED
  BY <1>2, Inductive, PTL

=============================================================================
