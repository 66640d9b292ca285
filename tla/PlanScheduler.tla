--------------------------- MODULE PlanScheduler ---------------------------
(***************************************************************************)
(* The structured plan of a stage (workflow/src/{plan,scheduler,replan}.rs,  *)
(* ratiflow-core/src/{plan_dispatch,plan_runtime}.rs): revisions of a task   *)
(* graph, their approval, the attempts at their tasks, the gate that         *)
(* dispatches them and the replanning that carries finished work over.       *)
(*                                                                          *)
(* The database actor runs one handler at a time and nothing else writes     *)
(* these tables, so what can come between two commits of a handler is a      *)
(* failing write or the death of the process: a prefix of them stays.        *)
(***************************************************************************)
EXTENDS Naturals, FiniteSets

CONSTANTS
  Tasks,          \* task keys
  Deps,           \* the upstream tasks a client gives a task (deps)
  Given,          \* task sets a client gives, as a draft or as replacements
  Serial,         \* tasks of effect external_write or irreversible
  MaxRevs,        \* bound: revisions of the stage
  MaxDrafts,      \* bound: revisions that no replan made
  MaxAttempts,    \* plan_tasks.max_attempts
  MaxParallel     \* maxParallel of plan.dispatchReady

ASSUME PlanAssumption ==
  /\ Deps \in [Tasks -> SUBSET Tasks] /\ Serial \subseteq Tasks
  /\ Given \subseteq SUBSET Tasks
  /\ MaxRevs \in Nat /\ MaxDrafts \in Nat /\ MaxAttempts \in Nat \ {0}
  /\ MaxParallel \in Nat

VARIABLES
  rev,       \* plan_revisions with their plan_tasks, and their approval row
  att,       \* plan_task_attempts: the latest of every task of a revision
  op         \* the handler between two of its commits

vars == <<rev, att, op>>

Revs == 1 .. MaxRevs
None == 0

Statuses == {"none", "draft", "awaiting_approval", "approved", "executing",
             "rejected", "cancelled", "replan_required", "superseded"}
Occupying == {"ready", "preparing_workspace", "running"}
Active    == {"pending"} \cup Occupying
\* "ended" is failed, cancelled and manual_action_required: over, and without
\* success; the scheduler makes no difference between them.
Outcomes  == {"succeeded", "unknown", "ended"}

\* kept: the tasks a replan took over as they were (outside of its closure).
NoRev == [status |-> "none", appr |-> "none", tasks |-> {}, old |-> None,
          deps |-> [t \in Tasks |-> {}], reused |-> {}, kept |-> {}]
NoAtt == [no |-> 0, state |-> "none"]
NoOp  == [kind |-> "none", rev |-> None, step |-> "none", todo |-> {},
          new |-> NoRev, decision |-> "none"]

Init ==
  /\ rev = [r \in Revs |-> NoRev]
  /\ att = [r \in Revs |-> [t \in Tasks |-> NoAtt]]
  /\ op = NoOp

Idle == op = NoOp
Free == {r \in Revs : rev[r].status = "none"}
Run(kind, r, step, todo) ==
  [NoOp EXCEPT !.kind = kind, !.rev = r, !.step = step, !.todo = todo]
At(kind, step) == op.kind = kind /\ op.step = step
SetStatus(r, s) == rev' = [rev EXCEPT ![r].status = s]
SetState(r, t, s) == att' = [att EXCEPT ![r][t].state = s]

-----------------------------------------------------------------------------
(* The graph.                                                                 *)

\* What validate_and_order refuses of a task set: an upstream task that is not
\* in it.  (Deps has no cycle, and dropping tasks or edges makes none.)
Valid(tasks, deps) == \A t \in tasks : deps[t] \subseteq tasks

\* affected_closure: the tasks every downstream-closed set with the roots has.
Closure(r, roots) ==
  {t \in rev[r].tasks :
     \A S \in SUBSET rev[r].tasks :
       (/\ roots \subseteq S
        /\ \A u \in rev[r].tasks : rev[r].deps[u] \cap S # {} => u \in S)
       => t \in S}

\* Tasks a revision counts as done: those it reuses, those that succeeded.
Completed(r) ==
  {t \in rev[r].tasks : t \in rev[r].reused \/ att[r][t].state = "succeeded"}

\* Mutant of ReadySet: one finished upstream task is enough.
ReadySetAny(r) ==
  {t \in rev[r].tasks \ Completed(r) :
     rev[r].deps[t] = {} \/ rev[r].deps[t] \cap Completed(r) # {}}

\* ready_set: not done, and everything upstream is.
ReadySet(r) ==
  {t \in rev[r].tasks \ Completed(r) : rev[r].deps[t] \subseteq Completed(r)}

\* Tasks downstream of an attempt that ended without success (and itself).
Blocked(r) ==
  Closure(r, {t \in rev[r].tasks :
    att[r][t].state \in {"unknown", "ended"}})

Running(r) == {t \in rev[r].tasks : att[r][t].state \in Occupying}

\* Capacity left; one less than nothing is nothing (saturating_sub).
Room(r) == IF Cardinality(Running(r)) <= MaxParallel
           THEN MaxParallel - Cardinality(Running(r)) ELSE 0

\* Mutant of SerialOccupied: only an attempt that runs occupies the lane.
SerialRunning(r) == \E t \in Serial : att[r][t].state = "running"

SerialOccupied(r) == Running(r) \cap Serial # {}

\* view: what may leave the queue, before the cut to the capacity.
Dispatchable(r) ==
  {t \in ReadySet(r) \ Blocked(r) :
     att[r][t].state = "pending" /\ ~(t \in Serial /\ SerialOccupied(r))}
-----------------------------------------------------------------------------
(* Revisions: draft, approval, start, cancel.                                 *)

DraftOf(T) == [NoRev EXCEPT !.status = "draft", !.tasks = T,
                            !.deps = [t \in Tasks |-> IF t \in T THEN Deps[t] ELSE {}]]

CreateDraft ==
  /\ Idle /\ Cardinality({r \in Revs \ Free : rev[r].old = None}) < MaxDrafts
  /\ \E T \in Given : \E r \in Free :
       /\ \A q \in Free : r <= q
       /\ Valid(T, Deps)
       /\ rev' = [rev EXCEPT ![r] = DraftOf(T)]
  /\ UNCHANGED <<att, op>>

\* The tasks are deleted and inserted again: what a replan had marked is gone.
UpdateDraft(r) ==
  /\ Idle /\ rev[r].status = "draft"
  /\ \E T \in Given :
       /\ Valid(T, Deps)
       /\ rev' = [rev EXCEPT ![r] = [DraftOf(T) EXCEPT !.old = rev[r].old]]
  /\ UNCHANGED <<att, op>>

\* plan.submit: the revision, then the approval request, are commits apart.
Submit(r) ==
  /\ Idle /\ rev[r].status = "draft"
  /\ SetStatus(r, "awaiting_approval")
  /\ op' = Run("submit", r, "request", {})
  /\ UNCHANGED att

RequestApproval ==
  /\ At("submit", "request")
  /\ rev' = [rev EXCEPT ![op.rev].appr = "requested"]
  /\ op' = NoOp
  /\ UNCHANGED att

\* expire_stale, the first thing every decision does, past the hour of a request.
ExpireApproval(r) ==
  /\ Idle /\ rev[r].appr = "requested"
  /\ rev' = [rev EXCEPT ![r].appr = "expired"]
  /\ UNCHANGED <<att, op>>

\* decide_plan_governed: the approval first, then the revision.
Decide(r, d) ==
  /\ Idle /\ rev[r].appr = "requested"
  /\ rev' = [rev EXCEPT ![r].appr = d]
  /\ op' = [Run("decide", r, "revision", {}) EXCEPT !.decision = d]
  /\ UNCHANGED att

\* A revision cancelled meanwhile refuses the transition.
DecideRevision ==
  /\ At("decide", "revision")
  /\ IF rev[op.rev].status = "awaiting_approval"
     THEN SetStatus(op.rev, op.decision)
     ELSE UNCHANGED rev
  /\ op' = NoOp
  /\ UNCHANGED att

\* plan.start.  The revision it supersedes is marked before its own status is
\* looked at.
Start(r) ==
  /\ Idle /\ rev[r].status # "none"
  /\ IF /\ rev[r].old # None
        /\ rev[rev[r].old].status \in {"executing", "replan_required"}
     THEN SetStatus(rev[r].old, "superseded")
     ELSE UNCHANGED rev
  /\ op' = Run("start", r, "execute", {})
  /\ UNCHANGED att

\* approved -> executing, or executing already; then an attempt for every task
\* without upstream tasks that is not reused.
Execute ==
  /\ At("start", "execute")
  /\ LET r == op.rev IN
     IF rev[r].status \in {"approved", "executing"}
     THEN /\ SetStatus(r, "executing")
          /\ op' = Run("start", r, "attempts",
                       {t \in rev[r].tasks \ rev[r].reused : rev[r].deps[t] = {}})
     ELSE UNCHANGED rev /\ op' = NoOp
  /\ UNCHANGED att

\* ensure_attempt, for start and for advance: one commit per task, and an
\* attempt that exists is kept.
EnsureAttempt ==
  /\ op.step = "attempts"
  /\ \E t \in op.todo :
       /\ att' = [att EXCEPT ![op.rev][t] =
            IF @.no = 0 THEN [no |-> 1, state |-> "pending"] ELSE @]
       /\ op' = [op EXCEPT !.todo = @ \ {t}]
  /\ UNCHANGED rev

Finished ==
  /\ ~Idle /\ op.step \in {"attempts", "dispatch"} /\ op.todo = {}
  /\ op' = NoOp
  /\ UNCHANGED <<rev, att>>

\* plan.cancel and replan end the active attempts of the revision, in a commit
\* of its own.
Ended(r) ==
  [t \in Tasks |-> IF att[r][t].state \in Active
                   THEN [att[r][t] EXCEPT !.state = "ended"] ELSE att[r][t]]

Cancel(r) ==
  /\ Idle
  /\ rev[r].status \in {"draft", "awaiting_approval", "approved", "executing"}
  /\ SetStatus(r, "cancelled")
  /\ op' = Run("cancel", r, "cascade", {})
  /\ UNCHANGED att

Cascade ==
  /\ op.step = "cascade"
  /\ att' = [att EXCEPT ![op.rev] = Ended(op.rev)]
  /\ op' = IF op.kind = "replan" THEN [op EXCEPT !.step = "draft"] ELSE NoOp
  /\ UNCHANGED rev

\* Step A of a rework ends every attempt of the work item and leaves the
\* revisions as they are.
ReworkCancels ==
  /\ Idle
  /\ att' = [r \in Revs |-> [t \in Tasks |->
       IF att[r][t].state \in Active
       THEN [att[r][t] EXCEPT !.state = "ended"] ELSE att[r][t]]]
  /\ UNCHANGED <<rev, op>>
-----------------------------------------------------------------------------
(* Attempts: dispatch, workspace, Run, outcome, reconciliation.               *)

\* plan.dispatchReady: the view is computed once, cut to the capacity, and its
\* tasks are moved one commit each.
Dispatch(r) ==
  /\ Idle /\ rev[r].status = "executing"
  /\ \E S \in SUBSET Dispatchable(r) :
       /\ Cardinality(S) = IF Cardinality(Dispatchable(r)) <= Room(r)
                           THEN Cardinality(Dispatchable(r)) ELSE Room(r)
       /\ op' = Run("dispatch", r, "dispatch", S)
  /\ UNCHANGED <<rev, att>>

\* A serial task of this round leaves the other serial ones in the queue.
DispatchOne ==
  /\ op.step = "dispatch"
  /\ \E t \in op.todo :
       /\ SetState(op.rev, t, "ready")
       /\ op' = [op EXCEPT !.todo = @ \ (IF t \in Serial THEN Serial \cup {t} ELSE {t})]
  /\ UNCHANGED rev

\* planTask.prepare: repeatable, and back to ready whether the workspace could
\* be made or not.
Prepare(r, t) ==
  /\ Idle /\ att[r][t].state \in {"ready", "preparing_workspace"}
  /\ SetState(r, t, "preparing_workspace")
  /\ op' = Run("prepare", r, "ready", {t})
  /\ UNCHANGED rev

Prepared ==
  /\ At("prepare", "ready")
  /\ \E t \in op.todo : SetState(op.rev, t, "ready")
  /\ op' = NoOp
  /\ UNCHANGED rev

\* plan.startRunning, or agent.start binding a Run (bind_plan_task_attempt).
StartRunning(r, t) ==
  /\ Idle /\ att[r][t].state = "ready"
  /\ SetState(r, t, "running")
  /\ UNCHANGED <<rev, op>>

\* planTask.transition: complete_task and advance.  Success asks for a Run bound
\* to the attempt that completed; whether it did is left open here.  Success
\* gives the tasks it made ready an attempt.
Report(r, t, outcome) ==
  /\ Idle /\ rev[r].status = "executing" /\ att[r][t].state \in Active
  /\ outcome = "succeeded" => att[r][t].state = "running"
  /\ SetState(r, t, outcome)
  /\ op' = IF outcome = "succeeded" THEN Run("advance", r, "ready_set", {}) ELSE NoOp
  /\ UNCHANGED rev

Promote ==
  /\ At("advance", "ready_set")
  /\ op' = Run("advance", op.rev, "attempts",
               {t \in ReadySet(op.rev) : att[op.rev][t].no = 0})
  /\ UNCHANGED <<rev, att>>

\* planTask.reconcile (not_executed, needs_manual, executed_ok) looks at the
\* attempt only, not at the revision; a task found executed gives no other task
\* an attempt.
Reconcile(r, t) ==
  /\ Idle /\ att[r][t].state = "unknown"
  /\ \/ SetState(r, t, "ended") /\ op' = Run("reconcile", r, "next", {t})
     \/ SetState(r, t, "ended") /\ UNCHANGED op
     \/ SetState(r, t, "succeeded") /\ UNCHANGED op
  /\ UNCHANGED rev

\* Mutant of NextAttempt: without the budget.
NextAttemptUnbounded ==
  /\ At("reconcile", "next")
  /\ \E t \in op.todo :
       att' = [att EXCEPT ![op.rev][t] = [no |-> @.no + 1, state |-> "pending"]]
  /\ op' = NoOp
  /\ UNCHANGED rev

\* create_next_attempt, within the budget of the task.
NextAttempt ==
  /\ At("reconcile", "next")
  /\ \E t \in op.todo :
       att' = [att EXCEPT ![op.rev][t] =
         IF @.no < MaxAttempts
         THEN [no |-> @.no + 1, state |-> "pending"] ELSE @]
  /\ op' = NoOp
  /\ UNCHANGED rev
-----------------------------------------------------------------------------
(* Replanning.                                                                *)

\* compute_reuse: outside of the closure, and its latest attempt succeeded.
Reuse(r, closure) ==
  {t \in rev[r].tasks \ closure : att[r][t].state = "succeeded"}

\* The new task set: the tasks outside of the closure without the edges to
\* tasks that are gone, and the replacements the client gave.
Replanned(r, closure, repl) ==
  LET gone == (closure \cap rev[r].tasks) \ repl
      kept == rev[r].tasks \ closure
  IN [NoRev EXCEPT
        !.status = "draft", !.old = r, !.tasks = kept \cup repl, !.kept = kept,
        !.deps = [t \in Tasks |-> IF t \in repl THEN Deps[t] \ gone
                                  ELSE IF t \in kept THEN rev[r].deps[t] \ gone ELSE {}]]

\* plan.replan: everything is computed before the first write.
Replan(r) ==
  /\ Idle /\ rev[r].status \in {"executing", "replan_required"} /\ Free # {}
  /\ \E roots \in SUBSET rev[r].tasks, repl \in Given :
       LET closure == Closure(r, roots)
           twice   == repl \cap (rev[r].tasks \ closure) # {}
       IN op' = [Run("replan", r, "cascade", Reuse(r, closure))
                   EXCEPT !.new = Replanned(r, closure, repl),
                          !.decision = IF twice THEN "rejected" ELSE "approved"]
  /\ SetStatus(r, "replan_required")
  /\ UNCHANGED att

\* create_draft_ex.  A key given twice or a missing upstream task is found only
\* here, when the old revision is already given up.
ReplanDraft ==
  /\ At("replan", "draft")
  /\ LET new == op.new
         valid == op.decision = "approved" /\ Valid(new.tasks, new.deps) IN
     \/ /\ valid
        /\ \E r \in Free :
             /\ \A q \in Free : r <= q
             /\ rev' = [rev EXCEPT ![r] = new]
             /\ op' = [Run("replan", r, "reuse", op.todo) EXCEPT !.new = NoRev]
     \/ ~valid /\ UNCHANGED rev /\ op' = NoOp
  /\ UNCHANGED att

\* reused_from_attempt_id, one commit per task.
MarkReused ==
  /\ At("replan", "reuse")
  /\ \E t \in op.todo :
       /\ rev' = [rev EXCEPT ![op.rev].reused = @ \cup {t}]
       /\ op' = [op EXCEPT !.todo = @ \ {t}]
  /\ UNCHANGED att

\* diff_plans: new risky tasks, or a raised effect, ask for a review; without
\* them the draft is approved at once.
ReplanEnds ==
  /\ At("replan", "reuse") /\ op.todo = {}
  /\ LET r == op.rev
         added == rev[r].tasks \ rev[rev[r].old].tasks
         both  == (rev[r].tasks \ rev[r].kept) \ added
     IN \/ added \cap Serial = {} /\ SetStatus(r, "approved")
        \/ (added \cap Serial # {} \/ both # {}) /\ UNCHANGED rev
  /\ op' = NoOp
  /\ UNCHANGED att
-----------------------------------------------------------------------------
\* A commit fails or the process dies: the handler keeps what it wrote.
CutOff ==
  /\ ~Idle
  /\ op' = NoOp
  /\ UNCHANGED <<rev, att>>

RevisionStep ==
  \/ CreateDraft \/ RequestApproval \/ DecideRevision \/ Execute \/ EnsureAttempt
  \/ Finished \/ Cascade \/ ReplanDraft \/ MarkReused \/ ReplanEnds \/ ReworkCancels
  \/ \E r \in Revs :
       \/ UpdateDraft(r) \/ Submit(r) \/ ExpireApproval(r)
       \/ Decide(r, "approved") \/ Decide(r, "rejected")
       \/ Start(r) \/ Cancel(r) \/ Replan(r)

AttemptStep ==
  \/ DispatchOne \/ Prepared \/ Promote \/ NextAttempt
  \/ \E r \in Revs : Dispatch(r)
  \/ \E r \in Revs, t \in Tasks :
       \/ Prepare(r, t) \/ StartRunning(r, t)
       \/ (\E o \in Outcomes : Report(r, t, o)) \/ Reconcile(r, t)

Next == RevisionStep \/ AttemptStep \/ CutOff

Spec == Init /\ [][Next]_vars
-----------------------------------------------------------------------------
TypeOK ==
  /\ rev \in [Revs -> [status : Statuses,
                       appr : {"none", "requested", "approved", "rejected", "expired"},
                       tasks : SUBSET Tasks, old : Revs \cup {None},
                       deps : [Tasks -> SUBSET Tasks], reused : SUBSET Tasks,
                       kept : SUBSET Tasks]]
  /\ att \in [Revs -> [Tasks ->
                [no : 0 .. MaxAttempts,
                 state : {"none"} \cup Active \cup Outcomes]]]
  /\ op.rev \in Revs \cup {None} /\ op.todo \subseteq Tasks
  /\ op.kind \in {"none", "submit", "decide", "start", "cancel", "dispatch",
                  "prepare", "advance", "reconcile", "replan"}

\* A task is done in a revision when its own attempt succeeded, or the attempt
\* of the revision it replaces from which it was reused.
Done(r, t) ==
  \/ att[r][t].state = "succeeded"
  \/ /\ t \in rev[r].reused /\ rev[r].old \in Revs
     /\ att[rev[r].old][t].state = "succeeded"

(* No task is attempted before every task upstream of it really succeeded, in  *)
(* its own revision or in the one its result was carried over from: through    *)
(* replans, updated drafts, crashes between any two commits, and attempts       *)
(* reconciled in revisions that are given up.                                   *)
DependenciesFirst ==
  \A r \in Revs, t \in Tasks :
    att[r][t].no # 0 => \A d \in rev[r].deps[t] : Done(r, d)

(* At most one task that writes outside (external_write, irreversible) has left *)
(* the queue of a revision (scheduler.rs:39, the single writer), whatever the    *)
(* dispatch rounds, retries and crashes.                                        *)
OneWriter == \A r \in Revs : Cardinality(Running(r) \cap Serial) <= 1

(* A statement of the source that the code does not keep; no run checks it.     *)
(* A task that a revision reuses counts as done there (scheduler.rs:76), and    *)
(* what is done and outside of the closure of a replan is reused, not executed  *)
(* again (replan.rs:3): so a second replan keeps what the first one kept.       *)
ReusedStaysReused ==
  \A r \in Revs :
    rev[r].status = "executing" /\ rev[r].old # None =>
      rev[r].kept \cap rev[rev[r].old].reused \subseteq rev[r].reused
=============================================================================
