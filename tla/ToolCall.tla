------------------------------ MODULE ToolCall ------------------------------
(***************************************************************************)
(* One call of a tool of an MCP server: the Run's task, which waits and      *)
(* looks at its cancellation token (mcp_invoke, run_executor), the worker    *)
(* thread that talks to the server, the transport, the send_phase the worker *)
(* stores on the way, and the reconciliation of the next start.  AgentRun    *)
(* takes such a call as one step; this module is what happens inside.        *)
(***************************************************************************)
EXTENDS Naturals

CONSTANTS
  MaxCrashes,   \* bound: crashes of the process
  MaxFaults     \* bound: writes of the store that fail

ASSUME ToolCallAssumption == MaxCrashes \in Nat /\ MaxFaults \in Nat

VARIABLES
  tool,       \* what is called: over which transport, and whether it only reads
  caller,     \* the Run's task, at which point of run_executor
  result,     \* what the executor told it
  cancelled,  \* the task's token
  worker,     \* the thread that talks to the server
  flushed,    \* the flag worker and caller share
  phase,      \* tool_proposals.send_phase
  decision,   \* tool_proposals.decision
  outcome,    \* tool_execution_outcomes: "none" when there is no row
  run,        \* agent_runs.status, as the reconciliation sees it
  boot,       \* startup reconciliation: "runs", "orphans", "row" or "up"
  server,     \* history: the server has the request, it answered
  bounds      \* crashes and failed writes so far

vars == <<tool, caller, result, cancelled, worker, flushed, phase, decision, outcome,
          run, boot, server, bounds>>

Transports == {"line", "http"}   \* StdioTransport and its kin; SseWire, StreamableHttpWire
Results    == {"executed", "exec_failed", "unknown"}

Init ==
  /\ tool \in [transport : Transports, read_only : BOOLEAN]
  /\ caller = "call" /\ result = "none" /\ cancelled = FALSE
  /\ worker = "none" /\ flushed = FALSE
  /\ phase = "not_sent" /\ decision = "proposed" /\ outcome = "none"
  /\ run = "running" /\ boot = "up"
  /\ server = [received |-> FALSE, answered |-> FALSE]
  /\ bounds = [crashes |-> 0, faults |-> 0]

\* A write of the store fails (busy, full disk).
Fault == bounds.faults < MaxFaults /\ bounds' = [bounds EXCEPT !.faults = @ + 1]

\* send_phase_rank, advance_send_phase: the phase only goes forward.
Rank(p) == CASE p = "not_sent"              -> 0
             [] p = "send_intent_persisted" -> 1
             [] p = "request_flushed"       -> 2
             [] p = "response_received"     -> 3
             [] OTHER                       -> 4
\* Mutant of AdvanceSendPhase: nothing is stored.
AdvanceSendPhaseNever(p) == phase' = phase
AdvanceSendPhase(p) == phase' = IF Rank(p) > Rank(phase) THEN p ELSE phase
\* Where the error is ignored, the phase may stay behind what happened.
TryAdvance(p) == \/ AdvanceSendPhase(p) /\ UNCHANGED bounds
                 \/ Fault /\ UNCHANGED phase
-----------------------------------------------------------------------------
(* The caller.                                                                *)
callee == <<worker, flushed, phase, server>>
rows   == <<decision, outcome, run>>

\* execute_tool refuses (policy, grant, disabled), or mcp_invoke starts a worker.
CallTool ==
  /\ caller = "call"
  /\ \/ caller' = "mark" /\ result' = "exec_failed" /\ UNCHANGED worker
     \/ caller' = "wait" /\ worker' = "started" /\ UNCHANGED result
  /\ UNCHANGED <<tool, cancelled, flushed, phase, server, rows, boot, bounds>>

\* Mutant of Interrupted: a cancelled or broken call counts as failed.
InterruptedFailed == "exec_failed"

\* What an interrupted call may have done is not known once it was flushed.
Interrupted == IF flushed /\ ~tool.read_only THEN "unknown" ELSE "exec_failed"

\* The loop looks at the token first, and does not stop the worker.
SeeCancelled ==
  /\ caller = "wait" /\ cancelled
  /\ caller' = "mark" /\ result' = Interrupted
  /\ UNCHANGED <<tool, cancelled, callee, rows, boot, bounds>>

Receive ==
  /\ caller = "wait" /\ ~cancelled /\ worker \in {"ok", "timeout", "error"}
  /\ caller' = "mark"
  /\ result' = CASE worker = "ok"      -> "executed"
                 [] worker = "timeout" -> IF tool.read_only THEN "exec_failed" ELSE "unknown"
                 [] worker = "error"   -> Interrupted
  /\ UNCHANGED <<tool, cancelled, callee, rows, boot, bounds>>

\* run_executor: mark_proposal ...  The error of a lost write ends execute_run, and
\* spawn_run_task drops it: the Run's row stays as it is, and nothing drives it.
MarkProposal ==
  /\ caller = "mark"
  /\ \/ decision' = result /\ caller' = "record" /\ UNCHANGED bounds
     \/ Fault /\ caller' = "gone" /\ UNCHANGED decision
  /\ UNCHANGED <<tool, result, cancelled, callee, outcome, run, boot>>

\* ... then record_outcome, which keeps a row that is there.
Recorded(o) == outcome' = IF outcome = "none" THEN o ELSE outcome

RecordOutcome ==
  /\ caller = "record" /\ caller' = "gone"
  /\ \/ Recorded(CASE result = "executed" -> "ok" [] result = "exec_failed" -> "failed"
                   [] result = "unknown" -> "unknown") /\ UNCHANGED bounds
     \/ Fault /\ UNCHANGED outcome
  /\ UNCHANGED <<tool, result, cancelled, callee, decision, run, boot>>

\* agent.cancel reaches the token of the task.
CancelRun ==
  /\ boot = "up" /\ caller # "gone" /\ ~cancelled
  /\ cancelled' = TRUE
  /\ UNCHANGED <<tool, caller, result, callee, rows, boot, bounds>>
-----------------------------------------------------------------------------
(* The worker thread: it runs to its end, whether the caller still waits or    *)
(* not.                                                                        *)
waiting == <<tool, caller, result, cancelled, rows, boot>>

\* Spawning or reaching the server and the handshake fail.
ConnectFails ==
  /\ worker = "started" /\ worker' \in {"error", "timeout"}
  /\ worker' = "timeout" => tool.transport = "http"
  /\ UNCHANGED <<flushed, phase, server, bounds, waiting>>

\* on_intent, before the first byte is written: an error stops the call.
PersistIntent ==
  /\ worker = "started"
  /\ \/ worker' = "intent" /\ AdvanceSendPhase("send_intent_persisted") /\ UNCHANGED bounds
     \/ worker' = "error" /\ Fault /\ UNCHANGED phase
  /\ UNCHANGED <<flushed, server, waiting>>

\* The request is written, or the transport breaks before it is.
Write ==
  /\ worker = "intent"
  /\ \/ worker' = "sent" /\ server' = [server EXCEPT !.received = TRUE]
     \/ worker' = "error" /\ UNCHANGED server
  /\ UNCHANGED <<flushed, phase, bounds, waiting>>

\* HTTP: send_json returns with the head of the response; the connection may
\* break or time out, or the status be an error, before it does (map_ureq).
HeadFails ==
  /\ worker = "sent" /\ tool.transport = "http"
  /\ worker' \in {"error", "timeout"}
  /\ UNCHANGED <<flushed, phase, server, bounds, waiting>>

\* on_flushed: the phase, whose error is ignored, then the flag.
PersistFlush ==
  /\ worker = "sent" /\ worker' = "flushing"
  /\ TryAdvance("request_flushed")
  /\ UNCHANGED <<flushed, server, waiting>>

SetFlushed ==
  /\ worker = "flushing" /\ worker' = "flushed" /\ flushed' = TRUE
  /\ UNCHANGED <<phase, server, bounds, waiting>>

\* The answer, which may be an error or unreadable, or none in time.
Respond ==
  /\ worker = "flushed"
  /\ \/ worker' = "answered" /\ server' = [server EXCEPT !.answered = TRUE]
     \/ worker' \in {"timeout", "error"} /\ UNCHANGED server
  /\ UNCHANGED <<flushed, phase, bounds, waiting>>

\* After an answer the phase, the shutdown, the phase again, then the message
\* to the caller.
PersistResponse ==
  /\ worker = "answered" /\ worker' = "shutdown"
  /\ TryAdvance("response_received")
  /\ UNCHANGED <<flushed, server, waiting>>

Shutdown ==
  /\ worker = "shutdown" /\ worker' = "ok"
  /\ TryAdvance("shutdown_after_response")
  /\ UNCHANGED <<flushed, server, waiting>>
-----------------------------------------------------------------------------
(* The process dies and starts again.                                         *)
Crash ==
  /\ bounds.crashes < MaxCrashes
  /\ bounds' = [bounds EXCEPT !.crashes = @ + 1]
  /\ caller' = "gone" /\ worker' = "none" /\ flushed' = FALSE /\ boot' = "runs"
  /\ UNCHANGED <<tool, result, cancelled, phase, rows, server>>

over == <<tool, caller, result, cancelled, callee, bounds>>

\* reconcile_interrupted: no task drives the Run any more.
ReconcileRun ==
  /\ boot = "runs" /\ boot' = "orphans" /\ run' = "failed"
  /\ UNCHANGED <<decision, outcome, over>>

\* Mutant of Orphan: a request that may have been sent is left alone.
OrphanUnsent == decision = "proposed" /\ phase = "not_sent"
Orphan == decision = "proposed" /\ run = "failed"

\* reconcile_orphan_proposals: an open proposal is unknown; then its outcome.
MarkOrphan ==
  /\ boot = "orphans" /\ Orphan
  /\ decision' = "unknown" /\ boot' = "row"
  /\ UNCHANGED <<outcome, run, over>>

RecordOrphan ==
  /\ boot = "row" /\ Recorded("unknown") /\ boot' = "orphans"
  /\ UNCHANGED <<decision, run, over>>

Serve ==
  /\ boot = "orphans" /\ ~Orphan /\ boot' = "up"
  /\ UNCHANGED <<rows, over>>
-----------------------------------------------------------------------------
Caller == CallTool \/ SeeCancelled \/ Receive \/ MarkProposal \/ RecordOutcome
Worker == ConnectFails \/ PersistIntent \/ Write \/ HeadFails \/ PersistFlush
          \/ SetFlushed \/ Respond \/ PersistResponse \/ Shutdown
Startup == ReconcileRun \/ MarkOrphan \/ RecordOrphan \/ Serve

Next == Caller \/ CancelRun \/ Worker \/ Crash \/ Startup

Spec == Init /\ [][Next]_vars

\* Threads run, reads of a connection have a timeout, and a start runs to its
\* end; nothing makes a user cancel.
FairSpec == Spec /\ WF_vars(Caller) /\ WF_vars(Worker) /\ WF_vars(Startup)
-----------------------------------------------------------------------------
(* Properties.                                                                *)

\* The types of the variables.
TypeOK ==
  /\ tool \in [transport : Transports, read_only : BOOLEAN]
  /\ caller \in {"call", "wait", "mark", "record", "gone"}
  /\ result \in Results \cup {"none"}
  /\ cancelled \in BOOLEAN /\ flushed \in BOOLEAN
  /\ worker \in {"none", "started", "intent", "sent", "flushing", "flushed", "answered",
                "shutdown", "ok", "timeout", "error"}
  /\ phase \in {"not_sent", "send_intent_persisted", "request_flushed",
               "response_received", "shutdown_after_response"}
  /\ decision \in Results \cup {"proposed"}
  /\ outcome \in {"none", "ok", "failed", "unknown"}
  /\ run \in {"running", "failed"}
  /\ boot \in {"runs", "orphans", "row", "up"}
  /\ server \in [received : BOOLEAN, answered : BOOLEAN]
  /\ bounds \in [crashes : 0 .. MaxCrashes, faults : 0 .. MaxFaults]

\* What is stored never claims more, or less, than what the server saw, over any
\* crash, cancellation and failed write: "not_sent" is proof that it has nothing,
\* a flushed request was received, a stored response or an outcome "ok" was given
\* by the server.
RecordsAreHonest ==
  /\ phase = "not_sent" => ~server.received
  /\ Rank(phase) >= 2 => server.received
  /\ Rank(phase) >= 3 \/ outcome = "ok" => server.answered

\* Over a line transport, and unless the Run was cancelled while it was being
\* sent, a write that is stored as failed never reached the server: it may be
\* proposed again.  (FailedWasNotSent is the same without the two conditions.)
LineFailureWasNotSent ==
  outcome = "failed" /\ ~tool.read_only /\ tool.transport = "line" /\ ~cancelled
    => ~server.received

\* A write was lost, nothing drives the Run any more, and no start has looked at it
\* since: its row still says running.
Stranded == caller = "gone" /\ run = "running" /\ bounds.faults > 0

\* However the worker behaves and wherever the process dies, an open proposal is
\* decided in the end, unless its Run is stranded; the first restart ends that, so a
\* Run that reads failed never keeps an open proposal.
Decided == (decision = "proposed") ~> (decision # "proposed" \/ Stranded)

\* remote.rs:12-13: what fails after the request was sent is unknown, never
\* failed.  (The code does not keep it.)
FailedWasNotSent == outcome = "failed" /\ ~tool.read_only => ~server.received
=============================================================================
