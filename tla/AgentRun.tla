------------------------------ MODULE AgentRun ------------------------------
(***************************************************************************)
(* One Agent Run: the task that drives execute_run (agent/src/lib.rs), the  *)
(* tool proposals it makes and the approvals they wait for, the RPC         *)
(* handlers that start, resume and cancel it (ratiflow-core/dispatch.rs),   *)
(* and the reconciliation at startup.  The call of a tool is one step here;  *)
(* ToolCall is what happens inside of it.                                    *)
(*                                                                          *)
(* RPC handlers run one at a time (the database actor), but the Run's task  *)
(* commits through a connection of its own between any two of their         *)
(* statements.  Every commit of the task is one step here; what lies        *)
(* between two commits and touches only the task is joined to the next one. *)
(***************************************************************************)
EXTENDS Naturals, FiniteSets, FiniteSetsExt

CONSTANTS
  Fingerprints,   \* model providers a Run can meet (Gateway::fingerprint)
  MaxProposals,   \* bound: tool proposals of the Run
  MaxIterations,  \* max_iterations (20 in the code)
  MaxChanges,     \* bound: changes of the model provider
  MaxCrashes,     \* bound: crashes of the process
  MaxLost,        \* bound: pauses whose checkpoint is not written
  MaxMishaps      \* bound: changes, crashes and lost pauses together

ASSUME AgentAssumption ==
  /\ MaxProposals \in Nat /\ MaxIterations \in Nat \ {0}
  /\ MaxChanges \in Nat /\ MaxCrashes \in Nat
  /\ MaxLost \in Nat /\ MaxMishaps \in Nat
  /\ Fingerprints # {}

Props == 1 .. MaxProposals       \* in the order the Run makes them
Tasks == 1 .. MaxProposals + 1   \* agent.start and one per approval spawn one
Seqs  == 0 .. MaxIterations - 1  \* agent_checkpoints.seq
None  == 0                       \* no proposal, no task

VARIABLES
  status,     \* agent_runs.status ("none": no row yet)
  ended,      \* terminal events emitted for the Run
  ckpt,       \* agent_checkpoints by seq: what the row holds, if it exists
  prop,       \* tool_proposals and tool_execution_outcomes
  appr,       \* approvals, one per proposal
  late,       \* proposals whose approval is past its expires_at
  provider,   \* the fingerprint the gateway answers now
  task,       \* spawned Run tasks
  registry,   \* RunRegistry: the task whose token agent.cancel would find
  calls,      \* history: how often the executor was called for a proposal
  rpc,        \* the handler between two of its statements
  boot,       \* startup reconciliation: "runs", "orphans", "row" or "up"
  bounds      \* provider changes, crashes and lost pauses so far

vars == <<status, ended, ckpt, prop, appr, late, provider, task, registry,
          calls, rpc, boot, bounds>>

Terminal == {"completed_execution", "failed", "cancelled"}

NoCkpt == [saved |-> FALSE, pend |-> None, fp |-> CHOOSE f \in Fingerprints : TRUE]
NoProp == [decision |-> "none", gated |-> FALSE, outcome |-> "none"]
NoTask == [pc |-> "free", iter |-> 0, prop |-> None, resumed |-> FALSE,
           cancelled |-> FALSE, result |-> "none",
           fp |-> CHOOSE f \in Fingerprints : TRUE]
NoRpc  == [op |-> "none", prop |-> None, decision |-> "none"]

Init ==
  /\ status = "none" /\ ended = 0
  /\ ckpt = [s \in Seqs |-> NoCkpt]
  /\ prop = [p \in Props |-> NoProp]
  /\ appr = [p \in Props |-> "none"]
  /\ late = {}
  /\ provider = NoTask.fp
  /\ task = [t \in Tasks |-> NoTask]
  /\ registry = None
  /\ calls = [p \in Props |-> 0]
  /\ rpc = NoRpc /\ boot = "up"
  /\ bounds = [changes |-> 0, crashes |-> 0, lost |-> 0]

Made == {p \in Props : prop[p].decision # "none"}
Live(t) == task[t].pc \notin {"free", "gone"}
Driving(t) == Live(t) /\ task[t].pc # "ended"
\* The bound on everything that may go wrong.
Spare == bounds.changes + bounds.crashes + bounds.lost < MaxMishaps

-----------------------------------------------------------------------------
(* set_status: a terminal status is never replaced, and the event is emitted  *)
(* when the row was written (its commit may fail: it is counted as it is      *)
(* tried, for that error ends the caller as the end of the call would).       *)
SetStatus(to) ==
  IF status \in Terminal /\ status # to
  THEN UNCHANGED <<status, ended>>
  ELSE status' = to /\ ended' = ended + (IF to \in Terminal THEN 1 ELSE 0)

\* Mutant of Checkpoint: a row that exists is kept (DO NOTHING).
CheckpointOnce(t, p) ==
  ckpt' = [ckpt EXCEPT ![task[t].iter] =
    IF @.saved THEN @ ELSE [saved |-> TRUE, pend |-> p, fp |-> task[t].fp]]

\* checkpoint: an upsert on (run, seq), bound to the provider the task froze.
Checkpoint(t, p) ==
  ckpt' = [ckpt EXCEPT ![task[t].iter] = [saved |-> TRUE, pend |-> p, fp |-> task[t].fp]]

\* It drops the error of its write, and the task goes on.
TryCheckpoint(t, p) == Checkpoint(t, p) \/ UNCHANGED ckpt

Saved == {s \in Seqs : ckpt[s].saved}

\* expire_stale: every request past its time.
Refreshed(p) == IF appr[p] = "requested" /\ p \in late THEN "expired" ELSE appr[p]
ExpireStale == appr' = [p \in Props |-> Refreshed(p)]

Goto(t, pc) == task' = [task EXCEPT ![t].pc = pc]
\* The task is over: nothing reads what it knew.
Leave(t, pc) == task' = [task EXCEPT ![t] = [NoTask EXCEPT !.pc = pc]]
-----------------------------------------------------------------------------
(* The Run's task.                                                            *)

\* execute_run up to the loop.  load_checkpoint takes the highest seq, and
\* starts afresh when the provider is not the one that wrote it.  A pending
\* proposal is validated (validate_for) before anything else; a refusal is
\* returned at once, and the row keeps the status it was just given.
Begin(t) ==
  /\ task[t].pc = "begin"
  /\ status' = IF status = "paused" THEN "running" ELSE status
  /\ LET top    == IF Saved = {} THEN 0 ELSE Max(Saved)
         replay == Saved # {} /\ ckpt[top].fp = provider
         pend   == IF replay THEN ckpt[top].pend ELSE None
         start  == [task[t] EXCEPT !.pc = "turn", !.iter = IF replay THEN top ELSE 0,
                                   !.fp = provider]
     IN IF pend = None
        THEN task' = [task EXCEPT ![t] = start] /\ UNCHANGED appr
        ELSE /\ ExpireStale
             /\ IF appr[pend] = "approved" /\ pend \notin late
                THEN task' = [task EXCEPT ![t] =
                       [start EXCEPT !.pc = "call", !.prop = pend, !.resumed = TRUE]]
                ELSE Leave(t, "ended")
  /\ UNCHANGED <<ended, ckpt, prop, late, provider, registry, calls, rpc, boot, bounds>>

EndTask(t, to) == Leave(t, "ended") /\ SetStatus(to)

NextTurn(t) ==
  task' = [task EXCEPT ![t].pc = "turn", ![t].iter = @ + 1, ![t].prop = None,
                       ![t].result = "none"]

\* propose_and_execute: the row of the next proposal.
Propose(t) ==
  /\ Cardinality(Made) < MaxProposals
  /\ \E gated \in BOOLEAN :
       LET p == Cardinality(Made) + 1 IN
         /\ prop' = [prop EXCEPT ![p] = [NoProp EXCEPT !.decision = "proposed", !.gated = gated]]
         /\ task' = [task EXCEPT ![t].pc = "judge", ![t].prop = p]

\* Mutant of Exhausted: one turn too many.
ExhaustedLate(t) == task[t].iter > MaxIterations
Exhausted(t) == task[t].iter = MaxIterations

\* One turn of the loop: the checks, the model's answer, the checks again, and
\* the row of the proposal it asks for, which the policy and the risk assessment
\* let through or not (gated).
Turn(t) ==
  /\ task[t].pc = "turn"
  /\ IF Exhausted(t) THEN EndTask(t, "failed") /\ UNCHANGED <<ckpt, prop>>
     ELSE IF task[t].cancelled THEN EndTask(t, "cancelled") /\ UNCHANGED <<ckpt, prop>>
     ELSE \/ EndTask(t, "failed") /\ UNCHANGED <<ckpt, prop>>   \* time, ledger, model, tools
          \/ EndTask(t, "completed_execution") /\ TryCheckpoint(t, None) /\ UNCHANGED prop
          \/ NextTurn(t) /\ UNCHANGED <<status, ended, ckpt, prop>>    \* not a decision
          \/ Propose(t) /\ UNCHANGED <<status, ended, ckpt>>
  /\ UNCHANGED <<appr, late, provider, registry, calls, rpc, boot, bounds>>

\* The policy: refuse, ask for an approval, or go on to the executor.  The text
\* of a refusal goes to the model, and the turn ends with its checkpoint.
Judge(t) ==
  /\ task[t].pc = "judge"
  /\ LET p == task[t].prop IN
       \/ /\ prop' = [prop EXCEPT ![p].decision = "rejected"]
          /\ TryCheckpoint(t, None) /\ NextTurn(t)
          /\ UNCHANGED appr
       \/ /\ prop[p].gated
          /\ appr' = [q \in Props |-> IF q = p THEN "requested" ELSE Refreshed(q)]
          /\ Goto(t, "pause") /\ UNCHANGED <<prop, ckpt>>
       \/ /\ ~prop[p].gated
          /\ Goto(t, "call") /\ UNCHANGED <<prop, ckpt, appr>>
  /\ UNCHANGED <<status, ended, late, provider, registry, calls, rpc, boot, bounds>>

\* NeedsApproval: the checkpoint, then the status, also when the checkpoint is lost.
Pause(t) ==
  /\ task[t].pc = "pause"
  /\ \/ Checkpoint(t, task[t].prop) /\ UNCHANGED bounds
     \/ /\ bounds.lost < MaxLost /\ Spare
        /\ bounds' = [bounds EXCEPT !.lost = @ + 1]
        /\ UNCHANGED ckpt
  /\ EndTask(t, "paused")
  /\ UNCHANGED <<prop, appr, late, provider, registry, calls, rpc, boot>>

\* The executor is called (execute_tool): only a tool that writes can end with
\* an unknown result.
CallTool(t) ==
  /\ task[t].pc = "call"
  /\ LET p == task[t].prop IN
       /\ calls' = [calls EXCEPT ![p] = @ + 1]
       /\ \E result \in {"executed", "exec_failed"} \cup (IF prop[p].gated THEN {"unknown"} ELSE {}) :
            task' = [task EXCEPT ![t] = [@ EXCEPT !.pc = "mark", !.result = result]]
  /\ UNCHANGED <<status, ended, ckpt, prop, appr, late, provider, registry, rpc, boot, bounds>>

\* run_executor: mark_proposal, an unconditional update ...
Mark(t) ==
  /\ task[t].pc = "mark"
  /\ prop' = [prop EXCEPT ![task[t].prop].decision = task[t].result]
  /\ Goto(t, "record")
  /\ UNCHANGED <<status, ended, ckpt, appr, late, provider, registry, calls, rpc, boot, bounds>>

OutcomeOf(decision) == CASE decision = "executed"    -> "ok"
                         [] decision = "exec_failed" -> "failed"
                         [] OTHER                    -> "unknown"

\* ... then record_outcome, which keeps a row that is there.
Recorded(p, outcome) ==
  prop' = [prop EXCEPT ![p].outcome = IF @ = "none" THEN outcome ELSE @]

\* A resumed proposal is followed by the turn it belongs to; the others end
\* their turn with a checkpoint.
Record(t) ==
  /\ task[t].pc = "record"
  /\ Recorded(task[t].prop, OutcomeOf(task[t].result))
  /\ IF task[t].resumed
     THEN /\ task' = [task EXCEPT ![t] = [@ EXCEPT !.pc = "turn", !.prop = None,
                                                  !.resumed = FALSE, !.result = "none"]]
          /\ UNCHANGED ckpt
     ELSE NextTurn(t) /\ TryCheckpoint(t, None)
  /\ UNCHANGED <<status, ended, appr, late, provider, registry, calls, rpc, boot, bounds>>

\* The database refuses a write that is not a checkpoint's: execute_run returns the
\* error, spawn_run_task drops it, and the row of the Run keeps its status.
GiveUp(t) ==
  /\ task[t].pc \in {"begin", "turn", "judge", "pause", "mark", "record"}
  /\ Leave(t, "ended")
  /\ UNCHANGED <<status, ended, ckpt, prop, appr, late, provider, registry, calls, rpc, boot, bounds>>

\* Mutant of Unregister: a task whose token was replaced waits for its turn.
UnregisterOwn(t) ==
  /\ task[t].pc = "ended" /\ registry = t
  /\ Leave(t, "gone")
  /\ registry' = None
  /\ UNCHANGED <<status, ended, ckpt, prop, appr, late, provider, calls, rpc, boot, bounds>>

\* The end of the spawned future: whatever token is registered for the Run.
Unregister(t) ==
  /\ task[t].pc = "ended"
  /\ Leave(t, "gone")
  /\ registry' = None
  /\ UNCHANGED <<status, ended, ckpt, prop, appr, late, provider, calls, rpc, boot, bounds>>
-----------------------------------------------------------------------------
(* RPC handlers.                                                              *)
Idle == boot = "up" /\ rpc = NoRpc

\* spawn_run_task: a new token replaces the registered one.
Spawn ==
  \E t \in Tasks :
    /\ task[t].pc = "free" /\ \A u \in Tasks : u < t => task[u].pc # "free"
    /\ task' = [task EXCEPT ![t].pc = "begin"]
    /\ registry' = t

\* agent.start: create_run commits the row and its status; an invalid mode,
\* grant or attempt then refuses the call.
StartRun ==
  /\ Idle /\ status = "none"
  /\ SetStatus("running")
  /\ Spawn \/ UNCHANGED <<task, registry>>
  /\ UNCHANGED <<ckpt, prop, appr, late, provider, calls, rpc, boot, bounds>>

\* approval.decide on a tool proposal: the decision is committed ...
Decide(p, decision) ==
  /\ Idle /\ appr[p] = "requested"
  /\ appr' = [appr EXCEPT ![p] = decision]
  /\ rpc' = [op |-> "decide", prop |-> p, decision |-> decision]
  /\ UNCHANGED <<status, ended, ckpt, prop, late, provider, task, registry, calls, boot, bounds>>

\* Mutant of Waits: every Run that is not over is resumed.
WaitsOrRuns == status \notin Terminal
Waits == status = "paused"

\* ... and acts on the Run only if it reads the Run as paused.
FollowUp ==
  /\ rpc.op = "decide"
  /\ rpc' = NoRpc
  /\ \/ /\ Waits /\ rpc.decision = "approved"
        /\ Spawn /\ UNCHANGED <<status, ended>>
     \/ /\ Waits /\ rpc.decision = "rejected"
        /\ SetStatus("failed") /\ UNCHANGED <<task, registry>>      \* fail_paused_run
     \/ /\ ~Waits
        /\ UNCHANGED <<status, ended, task, registry>>
  /\ UNCHANGED <<ckpt, prop, appr, late, provider, calls, boot, bounds>>

\* verify_tool_proposal_binding: the facts drifted, the request is void.
DriftDecide(p) ==
  /\ Idle /\ appr[p] = "requested"
  /\ appr' = [appr EXCEPT ![p] = "expired"]
  /\ UNCHANGED <<status, ended, ckpt, prop, late, provider, task, registry, calls, rpc, boot, bounds>>

\* cancel_run_shared: the registered token, or the row when there is none.  The
\* token of a task that has returned is looked at by nobody.
CancelRun ==
  /\ Idle /\ status \notin Terminal \cup {"none"}
  /\ IF registry # None
     THEN /\ task' = [task EXCEPT ![registry].cancelled = Driving(registry)]
          /\ UNCHANGED <<status, ended>>
     ELSE SetStatus("cancelled") /\ UNCHANGED task
  /\ UNCHANGED <<ckpt, prop, appr, late, provider, registry, calls, rpc, boot, bounds>>
-----------------------------------------------------------------------------
(* The world: time passes, other handlers expire stale requests, the settings *)
(* name another model, the process dies.                                      *)
\* An approval's time is looked at until its proposal is executed, and after it if a
\* pause has left an old checkpoint.
Lapse(p) ==
  /\ appr[p] \in {"requested", "approved"} /\ p \notin late
  /\ calls[p] = 0 \/ bounds.lost > 0
  /\ late' = late \cup {p}
  /\ UNCHANGED <<status, ended, ckpt, prop, appr, provider, task, registry, calls, rpc, boot, bounds>>

ExpireElsewhere ==
  /\ Idle /\ ExpireStale /\ appr' # appr
  /\ UNCHANGED <<status, ended, ckpt, prop, late, provider, task, registry, calls, rpc, boot, bounds>>

ChangeProvider ==
  /\ Idle /\ bounds.changes < MaxChanges /\ Spare
  /\ provider' \in Fingerprints \ {provider}
  /\ bounds' = [bounds EXCEPT !.changes = @ + 1]
  /\ UNCHANGED <<status, ended, ckpt, prop, appr, late, task, registry, calls, rpc, boot>>

Crash ==
  /\ bounds.crashes < MaxCrashes /\ Spare
  /\ bounds' = [bounds EXCEPT !.crashes = @ + 1]
  /\ task' = [t \in Tasks |-> IF Live(t) THEN [NoTask EXCEPT !.pc = "gone"] ELSE task[t]]
  /\ registry' = None /\ rpc' = NoRpc /\ boot' = "runs"
  /\ UNCHANGED <<status, ended, ckpt, prop, appr, late, provider, calls>>

\* reconcile_interrupted: no task drives a queued or running Run any more.
ReconcileRun ==
  /\ boot = "runs" /\ boot' = "orphans"
  /\ IF status = "running" THEN SetStatus("failed") ELSE UNCHANGED <<status, ended>>
  /\ UNCHANGED <<ckpt, prop, appr, late, provider, task, registry, calls, rpc, bounds>>

\* Mutant of Orphans: only of Runs this startup has failed.
OrphansOfFailed == {p \in Props : prop[p].decision = "proposed" /\ status = "failed"}
Orphans == {p \in Props : prop[p].decision = "proposed" /\ status \in {"failed", "cancelled"}}

\* reconcile_orphan_proposals: for each orphan the decision, then the outcome.
MarkOrphan(p) ==
  /\ boot = "orphans" /\ p \in Orphans
  /\ prop' = [prop EXCEPT ![p].decision = "unknown"]
  /\ boot' = "row" /\ rpc' = [NoRpc EXCEPT !.prop = p]
  /\ UNCHANGED <<status, ended, ckpt, appr, late, provider, task, registry, calls, bounds>>

RecordOrphan ==
  /\ boot = "row" /\ Recorded(rpc.prop, "unknown")
  /\ boot' = "orphans" /\ rpc' = NoRpc
  /\ UNCHANGED <<status, ended, ckpt, appr, late, provider, task, registry, calls, bounds>>

Serve ==
  /\ boot = "orphans" /\ Orphans = {}
  /\ boot' = "up"
  /\ UNCHANGED <<status, ended, ckpt, prop, appr, late, provider, task, registry, calls, rpc, bounds>>
-----------------------------------------------------------------------------
TaskStep(t) ==
  \/ Begin(t) \/ Turn(t) \/ Judge(t) \/ Pause(t)
  \/ CallTool(t) \/ Mark(t) \/ Record(t) \/ GiveUp(t) \/ Unregister(t)

Rpc ==
  \/ StartRun \/ FollowUp \/ CancelRun
  \/ \E p \in Props : DriftDecide(p) \/ \E d \in {"approved", "rejected"} : Decide(p, d)

World ==
  \/ \E p \in Props : Lapse(p)
  \/ ExpireElsewhere \/ ChangeProvider \/ Crash

Startup == ReconcileRun \/ RecordOrphan \/ Serve \/ \E p \in Props : MarkOrphan(p)

Next ==
  \/ \E t \in Tasks : TaskStep(t)
  \/ Rpc \/ World \/ Startup

Spec == Init /\ [][Next]_vars

\* A spawned task runs, and a call of a tool ends (ToolCall); nothing makes a
\* user decide or cancel.
FairSpec == Spec /\ WF_vars(\E t \in Tasks : TaskStep(t))
-----------------------------------------------------------------------------
(* Properties.                                                                *)

Pcs == {"free", "begin", "turn", "judge", "pause", "call",
        "mark", "record", "ended", "gone"}
Decisions == {"executed", "exec_failed", "unknown"}

\* Every variable keeps its type.
TypeOK ==
  /\ status \in Terminal \cup {"none", "running", "paused"}
  /\ ended \in Nat
  /\ ckpt \in [Seqs -> [saved : BOOLEAN, pend : Props \cup {None}, fp : Fingerprints]]
  /\ prop \in [Props -> [decision : Decisions \cup {"none", "proposed", "rejected"},
                        gated : BOOLEAN,
                        outcome : {"none", "ok", "failed", "unknown"}]]
  /\ appr \in [Props -> {"none", "requested", "approved", "rejected", "expired"}]
  /\ late \in SUBSET Props
  /\ provider \in Fingerprints
  /\ task \in [Tasks -> [pc : Pcs, iter : 0 .. MaxIterations, prop : Props \cup {None},
                        resumed : BOOLEAN, cancelled : BOOLEAN,
                        result : Decisions \cup {"none"}, fp : Fingerprints]]
  /\ registry \in Tasks \cup {None}
  /\ calls \in [Props -> Nat]
  /\ rpc \in [op : {"none", "decide"}, prop : Props \cup {None},
             decision : {"none", "approved", "rejected"}]
  /\ boot \in {"runs", "orphans", "row", "up"}
  /\ bounds \in [changes : 0 .. MaxChanges, crashes : 0 .. MaxCrashes, lost : 0 .. MaxLost]

\* At most one task drives the Run, even while the token of the one before it
\* is still registered.
OneDriver == \A t, u \in Tasks : Driving(t) /\ Driving(u) => t = u

\* When the process serves again, the Run is not left running, and no proposal of
\* one that has failed or was cancelled is open, however often the start was cut
\* short (reconcile_interrupted, reconcile_orphan_proposals; a Run that has completed
\* is not looked at).
StartupSettles ==
  [][boot # "up" /\ boot' = "up" =>
       /\ status # "running"
       /\ status \in {"failed", "cancelled"} => \A p \in Props : prop[p].decision # "proposed"]_vars

\* Every spawned task ends, whatever the tools answer and the user does.
TasksEnd == []<>(\A t \in Tasks : ~Live(t))

\* Every pause has left its checkpoint.
PausesSaved == bounds.lost = 0

\* The proposals behave as ToolContract promises: however a Run is paused,
\* resumed, cancelled, restarted or moved to another provider, and whichever other
\* write fails, a proposal is handed to the executor at most once, while it is open
\* and with its own approval if it needs one, until a pause goes by whose
\* checkpoint was lost.  (No other old checkpoint names an executed proposal; no
\* rejection that arrives during the pause is overtaken.)
Contract == INSTANCE ToolContract WITH
  Proposals  <- Props,
  decision   <- [p \in Props |-> prop[p].decision],
  gated      <- {p \in Props : prop[p].gated},
  approval   <- appr,
  executions <- calls
KeepsContract ==
  /\ Contract!Init
  /\ [][PausesSaved' => Contract!Next \/ UNCHANGED Contract!contract]_vars

\* lib.rs:1189: a proposal whose effect is unknown is not retried unasked.  (The code
\* does not keep it: the Run pauses for another proposal, the checkpoint is lost
\* without a word, and the approval of the other one replays this one.)
UnknownIsNotRetried ==
  [][\A p \in Props : prop[p].decision = "unknown" => calls'[p] = calls[p]]_vars

\* dispatch.rs:619-623: cancelling goes through the task, so a Run that reads
\* cancelled calls no tool any more.  (The code does not keep it.)
CancelledRunStops == [][status = "cancelled" => calls' = calls]_vars

\* dispatch.rs:620-622: the end of a cancelled Run is reported by one event.  (The code
\* does not keep it: a row that already has the status is written and reported again.)
ReportedOnce == ended <= 1
=============================================================================
