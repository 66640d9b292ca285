# Ratiflow: TLA+ models, checks and proofs

Ratiflow drives a piece of work through a template of gates with the help of
agents. `ratiflow-core` (Rust) is a process that serves JSON-RPC over stdio to
an Electron application and keeps everything in one SQLite database. This
directory models the parts of it whose correctness depends on the order of
things: commits of one handler, crashes between them, retries, and tasks that
share a table or an atomic. Wording, formats and I/O are left out.

## 1. The system

### 1.1 How it runs

- **Database actor** (`ratiflow-core/src/db.rs`). All RPCs are closures that one
  thread runs one after the other over a connection of its own. Two handlers
  never interleave. But a handler is a *sequence of commits*: each
  `store.with_conn` write commits by itself and only `with_tx` /
  `with_tx_immediate` groups several. A handler that fails in the middle returns
  an error and keeps what it wrote; a process that dies leaves the same.
- **Agent Runs** run as blocking tasks over a *second* connection, concurrently
  with the actor and with each other. SQLite serializes their transactions with
  those of the actor, nothing serializes what lies between two transactions.
- **Background tasks**: event flush every 250 ms and after every response,
  automation timer and import worker every 5 s, parent watchdog every 2 s.
- **Startup** (`main.rs`) reconciles, in this order: memory capture, requirements
  and attempts backfill, context migration, pending gate releases, rollbacks,
  automations, reworks, object collection, interrupted Agent Runs, MCP imports,
  grant ledgers; then it takes the latest event sequence as already pushed.

### 1.2 Inventory

State is the tables a component owns. "Hard" is what makes it worth a model.

| Component | State | Operations | Hard | Correct when |
|---|---|---|---|---|
| Gate release (`workitem`: release, attempt, gate, lib) | work item's current gate, stages, attempts, output packages, release requests, approvals | startActivity, evaluate, requestRelease, decideRelease, freezeBaseline, record/verify evidence, import requirements, recovery | multi-commit handlers, crash and retry, digest that goes stale | one active attempt; a gate passes on an approval of its own, of exactly the output shown; approvals survive crashes |
| Event push (`main.rs`, `store/outbox`) | event rows, watermark | flush by two tasks | two reads and a compare-exchange, commits from another connection | no event lost, none thrice, all delivered |
| Grant ledger (`policy/autonomy`, `agent`, `tool_exec`) | grants, ledger rows, model calls | reserve, settle, reconcile, revoke, exhaust | concurrent Runs, lost settlements, unknown usage | usage within the limit; a settled row equals what was consumed |
| RPC receipts (`dispatch`) | one row per method and key | claim, take over, complete, fail, replay | crash between effect and receipt, lease takeover | an effect once per key; a completed receipt never changes |
| Agent Runs and proposals (`agent`, `tool_exec`) | runs, proposals, outcomes | start, pause, approve, cancel, resume, reconcile | approval racing the pause, cancel racing completion, crash inside a tool | an approved proposal executes once or ends unknown; no paused Run is forgotten |
| Rollback, Rework, Skip (`workitem`) | operation rows over the attempts | request, decide, execute, resume | recovery runs the steps again over a half-done state | resumed operation reaches the state of an uninterrupted one |
| Plan scheduler (`workflow`) | revisions, tasks, task attempts | dispatch, advance, reconcile, cancel, replan | a task's outcome and its successors are separate commits | no task before its dependencies; no ready task forgotten |
| Automation (`workflow/automation`) | automations, triggers | due, claim, intent, reschedule | crash between the three commits, overlap policy | at most one intent per scheduled time |
| MCP import (`settings/mcp_import`) | import rows with a lease | add, decide, probe, resume, revoke | worker against RPCs, lease expiry, lost writes | what was rejected or revoked never serves; no probe without a request; a probe ends |
| Memory (`memory`) | revisions, candidates, capture jobs | create, update, archive, capture, purge | model call between two transactions | one outcome per job; one current revision |
| Knowledge (`knowledge`) | manifests, generations, active pointer | sync, build, activate, roll back, collect | source set compared before the activating transaction | the active generation's payload exists |
| Event log (`eventlog`) | files of a DAG of events | publish, merge, reduce | order of merging | reduction independent of arrival order |

Settings, integrations (HTTP, SSE, MCP), executor and sandbox, context
assembly, evidence, artifacts, timeline and the desktop application are
configuration, I/O, or inputs of the components above. `PROJECT.json` lists each
component with the modules that model it, or the reason it has none.

How the modelled components meet: a Run pauses on a proposal and its approval is
decided by an RPC (`AgentRun`); the executor it then calls may be an MCP server
(`ToolCall`, which is the inside of the one step `CallTool` of `AgentRun`); both
charge a grant (`GrantLedger`). `McpImport` registers servers that `ToolCall` calls. A plan binds its tasks to Runs (`PlanScheduler`), an
automation starts them (`Automation`). Releases move a work item forward
(`GateRelease`); rollback, rework and skip move it otherwise, over the same attempts
(`Reopen`). Every commit may append an event, which `OutboxPush` pushes.

## 2. Modules

| Module | Models | Role |
|---|---|---|
| `GateRelease` | `workitem/src/{release,attempt,gate,lib}.rs` and their RPC handlers | state machine, properties |
| `GateRelease_proofs` | - | theorems about `GateRelease` |
| `OutboxPush` | `flush_once`, `store/src/outbox.rs` | state machine, fairness, properties |
| `GrantLedger` | `policy/src/autonomy.rs` and the calls of it in `agent/src/{lib,modelgw}.rs`, `tool_exec.rs`, `main.rs` | state machine, properties |
| `MCGrantLedger` | - | limits and symmetry for its runs |
| `GrantLedger_proofs` | - | theorems about `GrantLedger` |
| `ToolContract` | what `tool_proposals` and `validate_for` promise | abstract specification |
| `AgentRun` | `agent/src/lib.rs`, `spawn_run_task`, `approval.decide`, `agent.cancel` in `dispatch.rs` | state machine, fairness, implements `ToolContract` |
| `AgentRun_proofs` | - | theorems about `AgentRun` |
| `ToolCall` | `mcp_invoke` in `tool_exec.rs`, `integrations/src/mcp/{client,remote}.rs` | state machine, fairness, properties |
| `Delivery_proofs` | - | theorems about `ToolCall` and `OutboxPush` (whose names begin with `Push` where both have them) |
| `PlanScheduler` | `workflow/src/{plan,scheduler,dag,replan}.rs`, `plan_dispatch.rs`, `plan_runtime.rs` | state machine, properties |
| `MCPlanScheduler` | - | task graphs and symmetry for its runs |
| `PlanScheduler_proofs` | - | theorems about `PlanScheduler` |
| `Reopen` | `workitem/src/{rollback,rework,skip}.rs`, and of `attempt`, `release` what they share | state machine, properties |
| `Reopen_proofs` | - | theorems about `Reopen` |
| `Automation` | `workflow/src/automation.rs`, `automation_dispatch.rs` | state machine, fairness, properties |
| `Automation_proofs` | - | theorems about `Automation` |
| `McpImport` | `settings/src/mcp_import.rs`, revocation in `mcp_ext.rs` | state machine, fairness, properties |
| `McpImport_proofs` | - | theorems about `McpImport` |

### 2.1 GateRelease

One work item. `attempts`, `packages`, `requests` are the tables (a request
carries the status of the approval created for it, `linked` is
`approval_id IS NOT NULL`), `stage` and `currentGate` the projection on the work
item. `op` is the handler the actor is running: its kind, the next commit
(`step`) and its local variables. Every commit is an action; `Idle` is an actor
waiting for a call.

| Actions | Code |
|---|---|
| `StartActivity`, `Evaluate`, `RequestRelease`, `DecideRelease`, `FreezeBaseline`, `CreateDraft`, `RecordEvidence`, `VerifyEvidence`, `ImportRequirements` | the RPCs and the guards they check before writing |
| `EnsureActive`, `TakeSnapshot`, `AdvanceToReviewReady` | `attempt::ensure_active`, `create`, `advance_to_review_ready` |
| `AbortOrphans` ... `AwaitApproval` | the commits of `request_release` |
| `ExpireRequest` ... `ChangeRequest` | the commits of `decide_release` |
| `ApproveAttempt` ... `ApproveRequest` | the commits of `complete_approve` |
| `InvalidateRequest` ... `InvalidateRun`, `MarkStale` | `invalidate_pending_if_drift`, `mark_stale_from` |
| `Fail`, `Crash`, `Boot`, `PickPending`, `ResumeDrift`, `ResumeReject` | a failing write, a dying process, `resume_pending` |

Abstractions. What `build_manifest` lists of a gate, its latest baseline and its
evidence, is one number, its *content*; these rows have new identifiers, so a change is
a larger number. Of the requirements the manifest takes three counts only, `coverage`:
how many items the latest revision has, how many are covered and how many verified. They
fall to zero when requirements are imported, grow with drafts and evidence, and so
come back. A digest is a content, the counts and the permission snapshot, and may be
that of an earlier package. `Passing` and `Releasable` say on which contents the six
evaluation inputs can pass and the deliverables are frozen; a structured acceptance
item may still fail an evaluation. A change of `policy` is a change of the permission snapshot that
`release_policy_version` digests. `ExpireApproval` is the time limit of
`RATIFLOW_APPROVAL_TTL_SECS`. A failing write is `Fail` at the step it would have
been; events and audit rows are not state here.

### 2.2 OutboxPush

`latest` is the largest sequence, `lastPushed` the atomic, `flush[f]` the run of
`flush_once` by the tick or the read loop: load, first read, second read,
compare-exchange, sends. `ActorFree` says that the two reads are one job of the
actor; `Emit` may come between them because Runs commit through another
connection. `sent` counts what reached the queue to stdout in this process; `overflow`
is history, the events that a claim has passed and its replay had no room for
(`Overrun`).

### 2.3 GrantLedger

One grant and the Runs whose policy snapshot names it. `ledger` is
`grant_usage_ledger` (a row per consumption key and dimension), `recorded` is
`model_calls`, `proposal` the decisions of `tool_proposals`, `grant` and `run` the
status columns. `pc[r]` is where the thread of Run `r` is between two transactions;
`call[r]` its local result. `fact` is what no table holds: whether the provider
answered, what usage it reported, whether output had been shown. `phase` is the
process: down, the steps of its startup, up.

| Actions | Code |
|---|---|
| `StartRun`, `PauseRun`, `ResumeRun`, `EndRun` | `agent.start`, the pause on a proposal, `approval.decide` or a cancellation, `set_status` |
| `ReserveCall`, `SettleCall` | `reserve` and `settle` around a turn (`call_turn`) and around the compaction of the history |
| `OverBudget`, `StreamAnswers`, `StreamFails`, `CompleteAnswers`, `CompleteFails` | the ways through the gateway: `check_budget`, `call_streaming` with its plain fallback, `call_with_id`, each with the row it records |
| `Propose` ... `MarkProposal` | `propose_and_execute`, the transactions of `validate_grant`, `ledger_tool_consume`, probe and execute, `ledger_tool_settle`, `mark_proposal` |
| `RevokeGrant`, `Crash`, `ReconcileInterrupted`, `ReconcileOrphans`, `ReconcileResidues` | revocation, a dying process, three steps of the startup in the order of `main.rs` |

Abstractions. `tokens_in` and `tokens_out` get the same treatment everywhere and
are one dimension. `failed` stands for `cancelled` too: the ledger asks only
whether a Run is terminal. Whether `expires_at` has passed is left open at each
check. A key is made by `ids::new_id` for one call, so the replay branches of
`reserve` and `settle` for a key that exists are not reached by their callers and
are left out, as are the allow-lists of tools and risks. A settlement or a record
that could not be written is ignored by its caller, and so it is here: `Settle` and
`Record` may leave the table as it was. The steps of the startup do not fail.
Model calls are metered with `RATIFLOW_UNIFIED_RISK` on, without which nothing is
reserved. One core process works on a store at a time: the desktop application
holds a single-instance lock and restarts the core only after it has exited.

### 2.4 AgentRun and ToolContract

One Run. `task` are the tasks that drive it (`agent.start` spawns one, every approval
that resumes it another), each with its program counter between two commits of
`execute_run`; `registry` is the task whose token `agent.cancel` would find. `ckpt`
holds `agent_checkpoints` by sequence, `prop` and `appr` the proposals with their
outcome rows and approvals, `rpc` the handler of `approval.decide` between its
decision and what follows from it, `boot` the steps of the startup.

| Actions | Code |
|---|---|
| `Begin`, `Turn`, `Judge`, `Pause` | start or resumption from the last checkpoint, one iteration with the proposal it makes, policy and approval, the pause |
| `CallTool`, `Mark`, `Record`, `Unregister` | `validate_for` and the executor, `mark_proposal`, the outcome row and the next checkpoint, the end of the spawned task |
| `TryCheckpoint`, `GiveUp` | a checkpoint whose failed write is dropped; any other failed write, whose error ends the task and is dropped by `spawn_run_task`, so that the row keeps its status |
| `StartRun`, `Decide`, `FollowUp`, `DriftDecide`, `CancelRun` | `agent.start`, `approval.decide` and its resumption or rejection, the decision on a proposal whose facts have changed, `cancel_run_shared` |
| `Lapse`, `ExpireElsewhere`, `ChangeProvider` | `expires_at`, `expire_stale` called for another subject, a model configuration that changes |
| `Crash`, `ReconcileRun`, `MarkOrphan`, `RecordOrphan`, `Serve` | a dying process and the startup, which may die again |

`ToolContract` is the abstract specification: a proposal is executed at most once,
while open and with its approval if it needs one, and a decision is final. The
refinement mapping (`Contract`) reads decision, approval and the number of
executions off the tables; `KeepsContract` says `AgentRun` implements it until a pause
loses its checkpoint (`PausesSaved`), after which it does not (15 in section 5). That is
not obvious: a resumed Run takes the checkpoint of the highest sequence, which after
a provider change is not the last one written, checkpoints of turns get lost, and a
decision may arrive while the Run is on its way into the pause.

Abstractions. What the model answers is a choice; prompts, compaction and budgets
are not there. A policy that denies, a drift check that fails and a text answer are
outcomes. Proposals are numbered in order of creation.

### 2.5 ToolCall

One call: the `caller` (the Run's task, which waits 200 ms at a time and looks at its
token), the `worker` thread with the transport, the flag `flushed` they share,
`phase` (`tool_proposals.send_phase`), `decision`, `outcome`, the row of the Run and
the startup. `server` is what no table holds: whether the request arrived and was
answered. "line" stands for the transports over a pipe, "http" for the two HTTP
ones, where the intent and the flush are reported around a request that is one call.
A write of the phase may fail where the code ignores it. The decision and the outcome may
fail to be written too: the error ends the caller and nobody looks at it, so the row of
the Run stays `running` without a task (`Stranded`) until a startup settles it.

### 2.6 PlanScheduler

The revisions of one stage: `rev` with status, approval, tasks, dependencies, what is
reused and from which revision; `att` the latest attempt at each task; `op` the
handler between two of its commits with what it still has to do (`todo`). `CutOff`
ends a handler anywhere, as a failing write or a crash: since the actor runs one
handler at a time, both leave a prefix of its commits. A client gives task sets
(`Given`), dependencies and effects are fixed by the task. Validation, ready set,
closure, reuse and the single-writer gate are operators of their own.

Abstractions. `ended` stands for failed, cancelled and manual_action_required, which
the scheduler treats alike. Whether a new draft needs a review or is approved by
itself is open, so digests, the plan diff, effect upgrades and the exemption of
carried tasks from the orphan-write check do not appear. The proof Run is a choice
of `Prepare`. The attempt states `awaiting_approval` and `reconciliation_required`
are never written by the code.

### 2.7 Reopen

One work item again, but with the three operations that move it otherwise. `att` are
the attempts of each gate with the release request pending on each, `ops` the rows of
the operations (`prog` is a rework's or a skip's progress, `seen` the digest the
approval was bound to, `post` the digest after step A, `fresh` the attempt step A
made, `last` the gate its interval ends at), `call` the call being served or the startup,
which recovers releases, rollbacks and reworks in this order.

A digest is the tuple of the facts it is computed from. The drift of the content of
a release, time limits and evaluations are `GateRelease`'s; here a release only asks,
is answered and advances. Resource leases, the worktree and active Runs are outcomes
of `Check`. Of an operation that has ended only whether it completed is kept.

### 2.8 Automation

One automation. Its triggers are numbered by `scheduled_for`, which is the key of
`automation_runs` (`row`), `run_intents` (`intent`) and, through the idempotency key,
`agent_runs` (`run`). `call` is `fire_one` or `consume_pending_intents` at one of its
commits. `Overlaps`, `Overdue`, `MayRetry` are the code's conditions.

Abstractions. `refused` is the five ways of `fire_one` to end without an intent,
looked for in the code's order. Whether a grant is valid is open at each look. Shadow
suggestions and thresholds only appear as the mode they lead to. Pending intents are
taken in any order. The lease is held or over, without a clock. After `Spawn` a Run
is `AgentRun`'s.

### 2.9 McpImport

Imports of one repository at one commit, so that the unique key of the table matters.
`row` is `mcp_repo_imports` (`owner` and `lease` are the claim of a process, `frozen` a
stored entrypoint, `cloned` the cursor), `approval` the probe's and the activation's,
`server` what the activation registers, `dir` the checkout. The RPCs run on the actor;
`worker` is a thread with a connection of its own, whose transactions come between theirs.

| Actions | Code |
|---|---|
| `ImportAdd`, `ApproveProbe`, `Activate`, `Reject`, `ImportResume`, `ImportRevoke`, `Cleanup` | `import_add`, `import_decide`, `import_resume`, `import_revoke`, the removal of the directory after the commit |
| `DecideElsewhere`, `ServerRevoke` | `approval.decide` and `expire_stale` on the same approvals, `server_revoke` |
| `Tick`, `List`, `Claim` | `tick_probing`: expired claims, candidates, the conditional update that claims one |
| `Clone` ... `MarkFailed` | `run_probing`, `set_cursor`, the closing transaction, `mark_failed` |
| `LeaseEnds`, `Crash`, `Startup` | time, a dying process, `startup_reconcile` |

`requests` and `withdrawn` are history: what a person asked for and took back, which
the tables do not keep. Abstractions. A manifest that is refused, a freeze or a probe
that fails is an outcome. The feature flag is on. A process id that another process has taken
over refuses a resumption like a living owner. Only a lease of a probing row ends,
since no other is read. Each git step and each removal of a directory is one step.
Servers registered by hand, their tool candidates and drift are not in it.

## 3. Runs

| Run | Bounds | Shows |
|---|---|---|
| `ReleaseRestart` | 2 gates, 2 attempts, 2 requests, 3 contents (the second passes), 1 requirement item, crashes anywhere, time limits | approvals survive, verdicts are carried out, approved releases are complete and gates pass on approval when the process may die between any two commits |
| `ReleaseFailures` | 2 gates, 3 attempts, 1 request, 1 content, 1 item, 2 permission snapshots, crashes and single failing writes | one active attempt; what withdraws a release wins over what completes it |
| `OutboxPush` | 2 flushers, 4 events, replays of 2, 1 restart | the push properties, with liveness |
| `GrantLedger` | 2 Runs, 2 keys each, limits of 2 calls, 3 tokens, 1 tool call, 1 crash | the ledger properties when Runs share a grant, settlements get lost and the process dies anywhere |
| `AgentRun` | 2 proposals, 2 iterations, 2 providers; 2 changes, 2 crashes, 1 pause without its checkpoint, 3 of these together; any other lost write | one driver, tasks that end, a startup that settles also after one that was cut short, and the refinement of `ToolContract` |
| `ToolCall` | both transports, 2 crashes, 1 lost write | the recorded phase is honest, a failed write was not sent, a proposal is decided |
| `PlanScheduler` | 3 tasks (two writers and one that needs both), 2 revisions, 2 attempts, 2 in parallel | dependencies first, one writer |
| `Reopen` | 3 gates, 3 attempts, 1 open operation, crashes and failing writes anywhere | what an operation withdrew stays withdrawn, what it completed is at its target |
| `Automation` | 2 triggers, a clock that runs past both, 2 misfire policies, 1 crash or failing write | refused triggers stay quiet, no second start, intents settle |
| `McpImport` | 2 imports of one commit, 2 requests each, 2 mishaps (a lost write or a crash) | what was withdrawn never serves, one probe per request, probes end |
| `AgentCancel`, `AutomationMute` | small | section 5 |

Why the bounds suffice. Two gates give a first and a last gate, so a release with
and without a successor. Two attempts let the second gate have one, or the first
one be repeated after a rejection; three let both happen, which is what
`SingleActive` needs. Two requests let a withdrawn one be followed by another.
Three contents give a gate that cannot pass yet, one that can, and one that no longer can;
one item is enough for counts
that rise, fall and come back, and with them a digest; two snapshots for permissions that do.
Crashes are not counted: any number of them happens. A table whose bound is
reached refuses inserts like a failing write, so no behaviour is cut short. Four
events and replays of two give a backlog above one replay, events beyond it, and
an event between the two reads of a flush.

For the ledger, two Runs compete for the last reservation; two keys give a Run a
model call followed by a tool call or by another model call. A call reserves 2
tokens and may report 1 or 3, so less and more than its reservation, and a limit
of 3 admits a second reservation exactly when the first one settled low. One crash
suffices for what it leaves behind; the proofs allow any number. The two Runs are
interchangeable, nothing compares them or orders them, so their symmetry is sound.

Two proposals let a resumed Run pause again, so that two tasks overlap and a second
checkpoint follows a first; two changes of provider let it come back to the one of an
older checkpoint; one pause that loses its checkpoint is what the second proposal needs to
bring back the first; of two crashes the second may cut the startup short. One lost write and two crashes show each write missing and each place
of death in `ToolCall`, the second one inside the startup.

Two writers and a task that needs both give a plan a choice, a join and a contest
for the writer; a second revision lets a replan reuse, redo or drop each of them. The
two writers are interchangeable, so their symmetry is sound. Cut-offs are not counted.
A chain of three revisions over two tasks satisfies the same invariants (2.3 million
states). Three gates put one before, at and after the target of a rework; three attempts
let an attempt be withdrawn, made anew and withdrawn again. One open operation at a
time is enough for the four properties of `Reopen`, ended operations make room for
others; of two at once 8 million states showed no violation, which is no proof. Two triggers are what an overlap
policy compares; the clock passes both so that a trigger may be overdue.

Two imports compete for the unique key and for the worker, which lists both and
reaches the second when the list is old. Two requests let a probe be resumed, two
mishaps let a lost write be followed by a death, or a death by a startup that fails.

`PushTypeOK` of `OutboxPush` and `TypeOK` of `ToolCall` and `McpImport` only documents what the variables
range over and is not in their configurations.

`PROJECT.json` names for each property a mutant, a plausible slip in the code that
breaks it in the same run.

**Deadlock** is checked for the release and the push, where an idle actor can always be
called, and for the import, whose worker loops for ever. In `GrantLedger` every Run may have ended, or used its keys, and the grant
be closed; in `AgentRun` and `ToolCall` the Run or the call is over; in
`PlanScheduler` and `Reopen` the attempts are used up; in `Automation` the clock has
stopped at its bound: nothing is left to happen.

**Fairness.** `OutboxPush`: `WF` of the steps of a flush: tokio polls
both tasks and the actor answers every job. `WF` of the tick's `Load`: the
interval fires for ever. `SF` of the tick's two reads: reads of a healthy
database may fail now and then, not every time. The read loop gets no fairness for
starting a flush: it needs a request. Under that, every event is pushed unless the
process restarts first, after which it counts as already seen (`initial_seq`).

`AgentRun`: `WF` of the steps of its tasks, which run on threads of their own, and
whose tool calls end (`ToolCall`, `Decided`); none for a user who decides or
cancels. `ToolCall`: `WF` of the caller, the worker and the startup, which are threads
that run; every read of a connection has a time limit, so a server that never answers is
a timeout of the worker, not a worker that stops.
`Automation`: `WF` of what the actor has begun, of the two calls the timer makes
every five seconds, and of the end of a lease; none for the user, the clock or a crash.
`McpImport`: `WF` of the worker, a thread that loops every five seconds and whose git
commands and probes have time limits; of the restart and the end of a lease; none for a person.

## 4. Proofs

`GateRelease_proofs` proves for every number of gates, attempts, requests,
contents, items and policies, with failing writes, restarts and time limits (three of them
under the hypotheses they state):

- `TypeCorrect`: `Spec => []TypeOK`
- `OneActiveAttempt`: `Spec => []SingleActive`
- `OutcomeFollowsVerdict`: `Spec => []OutcomeIsVerdict`
- `PassedNeedsApproval`: `Spec => []PassedOnApproval`
- `RestartLosesNoApproval`: `~WritesFail => (Spec => []ApprovalsRecovered)`
- `ApprovedIsComplete`: `Spec => []ApprovedReleaseComplete`
- `ApprovalsAreOpen`: `Spec => ApprovedOnOpenRequest`
- `AskedOnce`: `Spec /\ [][Settled]_vars => []OnePendingRequest`
- `ApprovedOnCurrentDigest`: `~WritesFail => (Spec /\ [][Settled]_vars => ApprovedDigestIsCurrent)`

Assumptions are those named in `GateRelease`: at least one gate and one policy,
bounds that are natural numbers, switches that are Boolean.

`TypeOK` is not inductive: an action reads `attempts[op.att]`, so the handler must
name a row that exists. `TypeInv` adds that (`OpKnown`) and that a request row in
use names an attempt (`RowsKnown`). `PassedOnApproval` and `OutcomeIsVerdict`
depend on where the handler is: a gate is set to passed two commits after the
approval was read. `StepInv` says what each step may rely on - at `approve` the
request's approval is approved, at `pass` its attempt is too, at `rejectRequest`
the approval is rejected, and so on; it is inductive together with `TypeInv`, and
each property follows from it with one lemma per group of actions. `SingleActive`
rests on the unique index of migration 0017 (`Prepare`), on the moves a state
machine allows and on `changes_requested` being active itself.

The last two theorems state what the code does not keep in general (4 and 7 in
section 5), under the condition in which it does. `Settled` is the condition: the
permission snapshot stays, and none of the three requirement counts falls. Digests then
never come back, though drafts, evidence and baselines go on changing. `~WritesFail` says
that a write fails only because the process dies; `RestartLosesNoApproval` needs it too,
since an approval whose completion fails in the recovery waits for the next one. Crashes
after any commit and time limits are in all of them.

The last five theorems rest on six more parts. `TodoInv`: what the recovery still has to do are
open requests. `RequestInv`: while a handler decides on a request, it is open.
`ReleaseInv`, under `Settled`: no package or request of an attempt is of a younger digest
than the present one (`Within`), and none of its packages is younger than its open request
(`DigestInv`), so a package that fits again belongs to no open request that does not, and
while a handler opens a request its attempt has none (`AskInv`).
`RecoveryInv`: an approval that is not carried out yet is on the recovery's list or in its
hands. `CurrentInv`: outside the recovery no such approval exists but the one the handler has
just recorded, whose digest it has compared. `ResumeInv`, for `ApprovedOnOpenRequest`: when the
recovery completes an approval, the digest is the one it has just compared. They
were checked by TLC on small instances before they were proved.

`GrantLedger_proofs` proves, for every finite set of Runs, every limit, estimate and usage,
any number of keys and crashes:

- `GrantTypeCorrect`: `Spec => []TypeOK`
- `SettledExactly`: `Spec => []SettledIsReported`
- `AnswersAreCharged`: `Spec => []AnsweredIsCharged`
- `StartupLeavesNoResidue`: `Spec => []NoResidue`
- `StartupRecovers`: `Spec => []RecoveredFromRecord`
- `GrantEndsOnce`: `Spec => GrantStatusIsFinal`
- `LimitsHold`: `Spec => []WithinLimits`

Assumptions are those named in `GrantLedger`: the Runs are finitely many, bounds and
amounts are natural numbers, and `NoAmount` is not one. Its invariant `IInv` has four parts. `TypeInv`
adds to `TypeOK` that a Run in a call or with a proposal has a key in hand.
`ProcessInv`: a thread works only for a running Run of a process that is up, and no
Run is running once a startup has begun, so the reconciliation meets no call in
flight. `CallInv` ties a call in hand to the outside: until it is answered its rows
are reserved and nobody has answered; at its settlement the result is `ok` exactly
when an answer came, and the usage in hand is the reported one. `RowInv` ties the
rows of a key, its record and the outside: a reserved call is reserved as one call,
a record of an answer carries the reported usage, and a row left for reconciliation
with a record reported more than was reserved. Neither `SettledIsReported` nor
`RecoveredFromRecord` is inductive without the last two. Most actions touch no call
in hand (`Quiet`) or only the rows of one Run (`ThreadStep`), which one lemma each
handles. The invariant was checked in the instance of the run before it was proved.

`LimitsHold` needs the type and `LimitInv` only: a limit that holds, and no reserved row
that has a settled amount, so that a settlement or the reconciliation gives back and
never adds. What is left is that `usage_total` changes by what one key's rows change by.
A total is `MapThenSumSet`, a recursion over the subsets of `Keys`; induction over them is
not available as a theorem, so `SumsExist`, `SumsAgree` and `SumChanges` each take a
smallest set that refutes them (`SmallestSet`, from the well-foundedness of the strict
subsets of a finite set) and remove the element that the recursion would take.

`AgentRun_proofs` proves, for every number of proposals, turns, checkpoints, changes of
the provider and crashes, with at least one provider:

- `RunTypeCorrect`: `Spec => []TypeOK`
- `OneTaskDrives`: `Spec => []OneDriver`
- `StartupReconciles`: `Spec => StartupSettles`
- `RunKeepsContract`: `Spec => KeepsContract`, the refinement of `ToolContract`: initial
  states map to initial states, and every step, until a pause loses its checkpoint, to a
  step of the contract or a stutter.
- `RunImplementsContract`: `Spec /\ []PausesSaved => Contract!Spec`

The difficulty is the resumption: why does it never bring back a proposal that was
executed? `CkptInv` answers it: the proposal that the newest checkpoint names is
open, or a task is at work that will write that checkpoint or a later one before the
Run can pause again, or nobody resumes the Run any more. A lost checkpoint of a turn does
no harm, since the pause writes the same row; that of a pause does, so all that
leans on checkpoints is stated under `PausesSaved`. It rests on `DriverInv` (a task is given
only to a paused Run, and makes it run unless somebody cancels the row), `RequestInv`
(one request is open at a time, and none while a task works) and `TaskInv` (what a
task has in hand is open and in no checkpoint, unless the task replaces them all).
That a set of saved checkpoints has a newest is part of the invariant, because in
general it needs induction over the set.

`Delivery_proofs` proves of `ToolCall`, for any number of crashes and lost writes:

- `CallTypeCorrect`: `Spec => []TypeOK`
- `HonestRecords`: `Spec => []RecordsAreHonest`
- `FailedWriteWasNotSent`: `Spec => []LineFailureWasNotSent`

`WorkerInv` says what the place of the worker thread implies of the server and of the
stored phase, `RecordInv` compares the stored phase, the result and the outcome with
what the server saw, and `FailureInv` says that a failure told to the caller as such
comes from a worker that is not there, or has given up before it wrote anything: the
worker runs on after its caller has gone, so that must hold for ever.

`McpImport_proofs` proves, for every set of imports that is not empty, any number of
requests, lost writes and deaths of the process:

- `ImportTypeCorrect`: `Spec => []TypeOK`
- `WithdrawnStaysOut`: `Spec => []WithdrawnNeverServes`
- `OneProbePerRequest`: `Spec => []ProbesOnRequest`

The invariant is one per import. The worker may still write to a row that was revoked
or rejected while it worked; `RunningInv` says why that brings nothing back: such an
import has no entrypoint and no request to activate it, and activation needs both.

`Automation_proofs` proves, for every interval, policy, clock, number of triggers,
failing writes and deaths of the process:

- `AutomationTypeCorrect`: `Spec => []TypeOK`
- `RefusedNeverRuns`: `Spec => []RefusedStaysQuiet`
- `NoSecondStart`: `Spec => []StartedIsNotRetried`

`TriggerInv` relates the three records of one trigger, `CallInv` says what the call
being served has in hand: a trigger nobody has written to since it was claimed, or an
intent whose Run was not started.

`Delivery_proofs` proves of `OutboxPush`, for every number of flushing tasks, events and
restarts and every limit of one replay:

- `PushTypeCorrect`: `PushSpec => []PushTypeOK`
- `NoThirdPush`: `PushSpec => []AtMostTwice`
- `OnlyOverflowIsSkipped`: `PushSpec => []OnlyOverflowSkipped`
- `WatermarkSkipsNothing`: `PushSpec /\ []BacklogFits => []NothingSkipped`

Why twice and not more: the two reads of a flush are not one transaction, so an event
may be sent by a flush that claims a range ending before it, and again with the
next range. `Copies` shows it cannot be sent again after that: an event beyond the
watermark that was read too early is covered by every flush that may still claim the
range after the watermark. The hypothesis of the last theorem is that no replay finds
more events than one call returns; without it the code skips events, which TLC
shows (8 in section 5), and `OnlyOverflowIsSkipped` says that it skips no others.

`PlanScheduler_proofs` proves, for every task graph, every task set a client gives and
every number of revisions, attempts and parallel tasks:

- `PlanTypeCorrect`: `Spec => []TypeOK`
- `UpstreamFirst`: `Spec => []DependenciesFirst`
- `SingleWriterLane`: `Spec => []OneWriter`

A handler reads in one commit what it uses several commits later. `OpInv` says what
still holds then: the tasks it will give attempts to have everything upstream done,
those it will dispatch are pending and meet no writer, what a new draft is about to
reuse has succeeded in the revision it replaces. `AttemptInv` and `ReuseInv` are the
same of the tables. An action changes either a revision (`RevStep`) or attempts
(`AttStep`), and a lemma for each carries the part it does not touch.

`Reopen_proofs` proves, for every number of gates, attempts and operations:

- `ReopenTypeCorrect`: `Spec => []TypeOK`, which holds `Cardinality(Busy) <= 1`
- `PassedHasApproval`: `Spec => []PassedIsApproved`
- `WithdrawnStaysWithdrawn`: `Spec => WithdrawnIsFinal`
- `CompletionIsAtTarget`: `Spec => CompletedAtTarget`

`CallInv` says what the call being served may rely on at each point, `RowInv` what a row
says of an operation that was cut off. A rollback resets a stage before it withdraws the
attempts of its gate, the target's first, so the target stage stays open until the end and
no passed stage loses its approved attempt. A rework that is resumed after step A may rely
on that only because it compares what step A left: `FoundUnchanged` derives the pointer and
the open stage from the digest, and needs nothing of the attempts. One lemma per action
shows the invariant and both action properties (`Good`). What an insert and a write do to
the attempts of all gates is said once, for any table (`CellWritten`, `CellInserted`,
`CellsLeft`).
That the first of several attempts is one of them rests on `NatMin`, which comes from the
library's theorem on strict subsets.

The invariants of these last seven modules were checked by TLC on the instances of their runs before
they were proved; that of `OutboxPush` with three flushing tasks, and with a limit of
one replay that is too small as well. The assumptions are those named in the modules.

Every safety and action property of a passing run is stated by a theorem. Only
model-checked: the five liveness properties (fairness is out of the prover's reach).

## 5. Where code and text disagree

Each of these two is refuted by a run of its own; `PROJECT.json` quotes the lines.

1. `AgentCancel` (`CancelledRunStops`). A task that has paused its Run unregisters by
   the Run's id when it ends, and so removes the token of the task that resumed the
   Run meanwhile. A cancellation then writes the row directly and the Run, already
   `cancelled`, goes on to call the approved tool.
2. `AutomationMute` (`NeverMute`). A process that dies between the claim of a trigger
   and its rescheduling leaves an automation that is due for ever and never fires.

The following are properties of the modules that no run above checks; TLC refutes each
in a small instance when it is added to a configuration.

3. `ReusedStaysReused` (`ChainDeps`, 3 revisions). What a replan reuses is computed from the
   attempts of the revision it replaces. A task which that revision had reused has none
   there, so a second replan executes it again.
4. `ApprovedDigestIsCurrent` with `WritesFail = TRUE` (1 gate, 1 attempt, 1 request, 1 content,
   1 item). A decision whose next write fails is repeated without comparing the digest again
   (`release.rs:591`), so an output nobody was shown is released; `release.rs:537` promises
   the comparison. `ApprovedOnOpenRequest` is what holds.
5. `ResumeCompletes`. `resume_pending` completes approvals only (`release.rs:890`); a
   rejection or a request for changes interrupted by a crash stays pending.
6. `EvaluationFresh`. An evaluation counts as current when its six verdicts do,
   whatever content they were computed from (`release.rs:330`, against `323`).
7. `OnePendingRequest` (1 gate, 1 attempt, 2 requests, 1 content, 2 items). A package left by an
   interrupted request is reused without withdrawing the request that is pending meanwhile
   (`release.rs:403`, against `402`), once its requirement counts or permissions have come back,
   so one attempt has two open approvals.
8. `NothingSkipped` with 3 events and `Limit = 2`. A backlog longer than one replay (500 rows
   in the code) is skipped by the watermark (`main.rs:467`, against `447`).
   `OnlyOverflowSkipped` is what holds.
9. `UnreportedStaysOpen`. A streamed answer without usage is settled as zero tokens: the
   streaming adapter feeds a usage of zeros and the aggregator marks it as present,
   where the turn means to keep the reservation (`modelgw.rs:781`, against `agent/src/lib.rs:465`).
10. `ShownIsCharged`. A stream that breaks with an open-phase error after output had
   been shown is charged as never made (`modelgw.rs:272`, against `agent/src/lib.rs:494`).
11. `FailedWasNotSent`. A cancellation before the worker reports the flush, or an HTTP
   error before the head of the response, is stored as `failed` although the server may have the
   request (`tool_exec.rs:1288`, `remote.rs:260`, against `remote.rs:12`).
   `LineFailureWasNotSent` is what holds.
12. `ReportedOnce`. `set_status` also writes a row that already has the terminal status
   and reports it again (`agent/src/lib.rs:1290`, against `1283`): after 1, a second
   cancellation writes the row and the task of the Run reports it once more
   (`dispatch.rs:620-622` promises one event).
13. `CloneStartsClean`. A resumed import clones anew (`mcp_import.rs:931`), but `git remote
   add` fails in the directory that the interrupted clone left, so the import ends as failed.
14. `RevokedStays`. The last writes of the worker and a rejection do not look at the
   status (`mcp_import.rs:592`, `910`, `1107`), so a revoked import becomes failed or waits for
   activation again. `WithdrawnNeverServes` is what holds.
15. `UnknownIsNotRetried` (one lost pause, no change or crash). A Run pauses although its
   checkpoint could not be written (`agent/src/lib.rs:1349`, `733`); its resumption replays the
   checkpoint before it, and calls a tool again of which nobody knows whether it took effect
   (against `1189`). `KeepsContract` says what holds until then.

Seen while modelling, without a property:

- Release: `ensure_active` returns the active attempt of a gate that is no longer
  current when its caller names that gate (`ActiveOnCurrentGate`); `evidence.verify`
  changes a manifest and withdraws no pending request; nothing leads a stale stage back.
- Push: an event committed between the two reads of a flush is pushed twice (`AtMostTwice`
  is what holds).
- Ledger: an error of a tool's probe or execution that returns by `?` leaves its row
  reserved although nothing was consumed, and an outcome that is unknown is charged as one
  call where the comment above it keeps the reservation (`tool_exec.rs:331`, `390-417`);
  the compaction prefixes its error, so a provider that could not be reached is charged
  there and not in a turn (`agent/src/lib.rs:846`); the plain fallback of a stream is
  recorded under a key the stream has already used, so its record is refused and a crash
  leaves its usage to a person (`modelgw.rs:271`).
- Runs: an approval decided before its Run has paused resumes nothing, since
  `approval.decide` looks at the status first (`dispatch.rs:3498`); a cancellation during
  the pause is lost; after a fallback to a fresh loop an approved proposal may never be
  executed; a crash between `mark_proposal` and `record_outcome` leaves a proposal without
  an outcome row; a refused `agent.start` leaves a row `running` without a task; so does a
  write that fails, since `spawn_run_task` drops the error (`dispatch.rs:4741`, where 4740 says
  that `execute_run` has written the end).
- Plans: `reconcile` promotes no dependent task, and a crash before the last loop of
  `advance` leaves ready tasks without attempts that nothing creates later
  (`scheduler.rs:304`, `329`); `start` after a replan creates no attempt for a task whose
  upstream tasks are all reused; `plan.start` on a revision that is not approved supersedes
  the old plan before it is refused; a replan that is refused for a duplicate or dangling key
  has already cancelled the old revision's attempts; two revisions can be executing at once.
- Reopening: `rework` expires approvals whose status is `pending`, but approvals are
  `requested` (`rework.rs:696-716`), so those of the interval stay open; `skip::resume`
  never reads the digest that step A stored for it; a rollback cut between superseding an
  attempt and expiring its approvals never expires them (`rollback.rs:617`); a rollback or rework
  that was cut off while executing can still be rejected and stays half done; a rollback to a
  snapshot of a later gate moves the work item past gates that have not passed.
- Automation: a trigger that failed on an error stays `fired` until the next restart, and
  under overlap `skip` later triggers are skipped; a transient error after the Run's row was
  created makes the retry find it and report `consumed` for a Run that never had a task; ten
  automations that are stuck as in 2 fill the timer's batch and starve the others.
- Imports: a failed or revoked row keeps its unique key, so the commit cannot be imported
  again, which is what a drift tells the user to do (`mcp_import.rs:420`); a `mark_failed` that is
  lost leaves a row that is unknown and cannot be resumed until the process restarts;
  an approval decided through `approval.decide` leaves its import waiting for ever.
- Servers: two drifts one after the other leave two candidates of a tool, and the approval
  makes both active (`mcp_ext.rs:402-440`, against `537`); a server that returns to a schema it
  had before cannot be approved on it again, since its candidate is ignored as a duplicate; a running
  Run calls a tool under the newly approved schema, where `mcp_ext.rs:624` says it keeps the original.

## 6. Not modelled, and what is left

- RPC receipts: one actor serves a process's calls one after another, so a lease is taken
  over only after a crash, and what a repeated call does is in the module of its handler.
- Memory, knowledge, event log: single transactions around network, index or
  file work.
- Settings, skills, integrations, executor, context, evidence, artifacts, desktop:
  configuration, parsing, operating-system isolation and display.
- Inside the modelled components: structured acceptance items, cancelling a work item, fast
  track, the legacy rollback without an operation row, shadow suggestions, the catalogue of
  impact texts, local tools (they have no send phase), MCP servers registered by hand.
