----------------------------- MODULE GrantLedger -----------------------------
(***************************************************************************)
(* The usage ledger of one autonomy grant (policy/src/autonomy.rs) and the  *)
(* Runs that spend it: model calls (agent/src/lib.rs, agent/src/modelgw.rs) *)
(* and tool calls (ratiflow-core/src/tool_exec.rs).  What may be spent is    *)
(* reserved before a call, settled after it, and what a crash left reserved  *)
(* is decided at startup from what the store has recorded of the call.       *)
(* Each action is one transaction or one exchange with the outside; other    *)
(* Runs, a revocation, the clock or a crash may come between any two.        *)
(* tokens_in and tokens_out are treated alike everywhere, as "tokens".       *)
(***************************************************************************)
EXTENDS Integers, FiniteSets, FiniteSetsExt

CONSTANTS
  Runs,          \* Runs whose policy snapshot names the grant
  MaxKeys,       \* bound: consumption keys (model calls and proposals) of a Run
  Limit,         \* limits_json: a number per dimension, 0 = no limit
  Estimates,     \* what tokens_upper_v1 and max_tokens may reserve
  Usages,        \* what a provider may report of one call
  MaxCrashes,    \* bound: crashes of the process
  NoAmount       \* SQL NULL, None

Dims == {"model_calls", "tokens", "tool_calls"}
ModelDims == {"model_calls", "tokens"}

ASSUME BoundsAssumption == MaxKeys \in Nat /\ MaxCrashes \in Nat
ASSUME RunsAssumption == IsFiniteSet(Runs)
ASSUME LimitAssumption == Limit \in [Dims -> Nat]
ASSUME AmountsAssumption ==
  Estimates \subseteq Nat /\ Usages \subseteq Nat /\ NoAmount \notin Nat

\* ids::new_id("mc") and ("tp"): a key names its Run and is never used twice.
Keys == Runs \X (1 .. MaxKeys)

NoRow == [state |-> "none", reserved |-> 0, settled |-> NoAmount]

VARIABLES
  grant,      \* autonomy_grants.status
  run,        \* agent_runs.status of each Run
  pc,         \* what the Run's thread does next
  made,       \* keys the Run has made; the last one is in use
  call,       \* the call or tool in hand: where it was made, its result, its usage
  ledger,     \* grant_usage_ledger: a row per key and dimension
  recorded,   \* model_calls: status and tokens of each key
  proposal,   \* tool_proposals.decision of each key
  fact,       \* what happened outside: the usage the provider reported with its
              \* answer, whether an answer came, whether output was shown
  phase,      \* of the process: down, its steps at startup, up
  lived,      \* Runs this process has executed
  crashes

runVars == <<run, pc, made, call>>
procVars == <<phase, lived, crashes>>
vars == <<grant, runVars, ledger, recorded, proposal, fact, procVars>>

Key(r) == <<r, made[r]>>
NoCall == [site |-> "none", result |-> "none", usage |-> NoAmount]
\* completed_execution, and failed, which stands for cancelled too.
Terminal == {"completed", "failed"}

Init ==
  /\ grant = "active"
  /\ run = [r \in Runs |-> "absent"] /\ pc = [r \in Runs |-> "none"]
  /\ made = [r \in Runs |-> 0] /\ call = [r \in Runs |-> NoCall]
  /\ ledger = [k \in Keys |-> [d \in Dims |-> NoRow]]
  /\ recorded = [k \in Keys |-> [status |-> "none", tokens |-> 0]]
  /\ proposal = [k \in Keys |-> "none"]
  /\ fact = [k \in Keys |-> [reported |-> NoAmount, answered |-> FALSE, shown |-> FALSE]]
  /\ phase = "up" /\ lived = {} /\ crashes = 0

-----------------------------------------------------------------------------
(* The operations of the ledger.                                           *)

\* COALESCE(settled_amount, reserved_amount)
Occupied(row) == IF row.settled = NoAmount THEN row.reserved ELSE row.settled

\* usage_total
UsageTotal(d) == MapThenSumSet(LAMBDA k : Occupied(ledger[k][d]), Keys)

\* Mutant of Fits: a limit is only checked for what was used before.
FitsBefore(amounts) ==
  \A d \in DOMAIN amounts : Limit[d] > 0 => UsageTotal(d) < Limit[d]

\* reserve, for the dimensions of amounts: all of them or none.  A key is new at
\* each of its callers, so the replay of a reservation does not arise.
Fits(amounts) ==
  \A d \in DOMAIN amounts : Limit[d] > 0 => UsageTotal(d) + amounts[d] <= Limit[d]

Reserved(k, amounts) ==
  [ledger EXCEPT ![k] = [d \in Dims |->
     IF d \in DOMAIN amounts
     THEN [state |-> "reserved", reserved |-> amounts[d], settled |-> NoAmount]
     ELSE ledger[k][d]]]

\* Mutant of Decided: more than was reserved is settled as what was reserved.
DecidedClamped(row, actual) ==
  IF actual = NoAmount THEN [row EXCEPT !.state = "reconciliation_required"]
  ELSE [row EXCEPT !.state = "settled",
                   !.settled = IF actual <= row.reserved THEN actual ELSE row.reserved]

\* What settle and the reconciliation make of a reserved row, given the actual
\* amount or none: more than was reserved is not settled either.
Decided(row, actual) ==
  IF actual # NoAmount /\ actual <= row.reserved
  THEN [row EXCEPT !.state = "settled", !.settled = actual]
  ELSE [row EXCEPT !.state = "reconciliation_required"]

\* settle, for the dimensions of actuals: WHERE state='reserved'.
Settled(k, actuals) ==
  [ledger EXCEPT ![k] = [d \in Dims |->
     IF d \in DOMAIN actuals /\ ledger[k][d].state = "reserved"
     THEN Decided(ledger[k][d], actuals[d])
     ELSE ledger[k][d]]]

\* The callers ignore the error of a settle that could not be written.
Settle(k, actuals) == ledger' \in {ledger, Settled(k, actuals)}

\* modelgw's record: INSERT under the key; a second row of one key is refused by
\* the primary key, and any error is only logged.
Record(k, status, tokens) ==
  \/ UNCHANGED recorded
  \/ /\ recorded[k].status = "none"
     /\ recorded' = [recorded EXCEPT ![k] = [status |-> status, tokens |-> tokens]]

-----------------------------------------------------------------------------
(* Model calls.  site is where the call is made: a turn of the Run, or the  *)
(* compaction of its history.                                               *)

Sites == {"turn", "compact"}

\* How a call may fail: before it is made ("budget"), at the transport
\* ("unavailable", a timeout included), in the middle of the stream, by a local
\* cancellation, or in any other way ("refused").
StreamErrors == {"unavailable", "interrupted", "cancelled", "refused"}
CompleteErrors == {"unavailable", "refused"}

\* It sees the error string only, not whether output had been shown.
OpenPhaseFailure(error) == error \in {"unavailable", "interrupted"}

\* The streaming adapter always feeds a usage event, of zeros when the provider
\* sent none, and the aggregator marks whatever it is fed as measured.
StreamUsage(reported) == IF reported = NoAmount THEN 0 ELSE reported

\* Mutant of RecordedUsage: no default.
RecordedUsageRaw(usage) == usage

\* What a model_calls row holds when no usage came.
RecordedUsage(usage) == IF usage = NoAmount THEN 0 ELSE usage

Amounts(estimate) == [d \in ModelDims |-> IF d = "model_calls" THEN 1 ELSE estimate]

\* agent.start with a grant: validate_grant_status, which writes the expiry down.
\* Whether expires_at has passed is left open at each check.
StartRun(r) ==
  /\ phase = "up" /\ run[r] = "absent" /\ grant = "active"
  /\ \/ /\ run' = [run EXCEPT ![r] = "running"] /\ pc' = [pc EXCEPT ![r] = "loop"]
        /\ lived' = lived \cup {r}
        /\ UNCHANGED grant
     \/ /\ grant' = "expired"
        /\ UNCHANGED <<run, pc, lived>>
  /\ UNCHANGED <<made, call, ledger, recorded, proposal, fact, phase, crashes>>

ReserveCall(r, site, estimate) ==
  /\ pc[r] = "loop" /\ made[r] < MaxKeys
  /\ made' = [made EXCEPT ![r] = @ + 1]
  /\ call' = [call EXCEPT ![r] = [NoCall EXCEPT !.site = site]]
  /\ \/ /\ Fits(Amounts(estimate))
        /\ ledger' = Reserved(<<r, made[r] + 1>>, Amounts(estimate))
        /\ pc' = [pc EXCEPT ![r] = "send"]
     \/ /\ ~Fits(Amounts(estimate))
        /\ pc' = [pc EXCEPT ![r] = "failed"]
        /\ UNCHANGED ledger
  /\ UNCHANGED <<grant, run, recorded, proposal, fact, procVars>>

Answered(r, result, usage) ==
  /\ call' = [call EXCEPT ![r].result = result, ![r].usage = usage]
  /\ pc' = [pc EXCEPT ![r] = "settle"]

\* check_budget, before the stream and again before a plain call.
OverBudget(r) ==
  /\ pc[r] \in {"send", "fallback"}
  /\ Answered(r, "budget", NoAmount)
  /\ UNCHANGED <<grant, run, made, ledger, recorded, proposal, fact, procVars>>

\* call_streaming; only turns stream.
StreamAnswers(r, reported) ==
  /\ pc[r] = "send" /\ call[r].site = "turn"
  /\ fact' = [fact EXCEPT ![Key(r)] =
       [reported |-> reported, answered |-> TRUE, shown |-> TRUE]]
  /\ Record(Key(r), "ok", StreamUsage(reported))
  /\ Answered(r, "ok", StreamUsage(reported))
  /\ UNCHANGED <<grant, run, made, ledger, proposal, procVars>>

\* The stream ends without an answer.  With nothing shown, an open-phase error
\* and no cancellation meanwhile, the plain call follows under the same key.
StreamFails(r, error, shown, cancelled) ==
  /\ pc[r] = "send" /\ call[r].site = "turn"
  /\ error = "cancelled" => cancelled
  /\ fact' = [fact EXCEPT ![Key(r)].shown = shown]
  /\ Record(Key(r), "error", 0)
  /\ IF ~shown /\ OpenPhaseFailure(error) /\ ~cancelled
     THEN pc' = [pc EXCEPT ![r] = "fallback"] /\ UNCHANGED call
     ELSE Answered(r, error, NoAmount)
  /\ UNCHANGED <<grant, run, made, ledger, proposal, procVars>>

\* call_with_id: the fallback, a turn of a provider that does not stream, or the
\* compaction.  Usage that did not come is known not to have come.
CompleteAnswers(r, reported) ==
  /\ pc[r] \in {"send", "fallback"}
  /\ fact' = [fact EXCEPT ![Key(r)].reported = reported, ![Key(r)].answered = TRUE]
  /\ Record(Key(r), "ok", RecordedUsage(reported))
  /\ Answered(r, "ok", reported)
  /\ UNCHANGED <<grant, run, made, ledger, proposal, procVars>>

CompleteFails(r, error) ==
  /\ pc[r] \in {"send", "fallback"}
  /\ Record(Key(r), "error", 0)
  /\ Answered(r, error, NoAmount)
  /\ UNCHANGED <<grant, run, made, ledger, proposal, fact, procVars>>

\* A failed call is not charged when it is taken never to have been made.  The
\* compaction prefixes its error ("context_too_large: ..."), which hides an
\* open-phase failure; "budget_exceeded" is looked for anywhere in the text.
Preflight(c) ==
  \/ c.result = "budget"
  \/ c.site = "turn" /\ OpenPhaseFailure(c.result)

CallActuals(c) ==
  CASE c.result = "ok" -> [d \in ModelDims |-> IF d = "model_calls" THEN 1 ELSE c.usage]
    [] Preflight(c)    -> [d \in ModelDims |-> 0]
    [] OTHER           -> [d \in {"model_calls"} |-> 1]

\* What the Run does after a call: a turn goes on to its decision.
AfterCall(c) ==
  CASE c.result = "ok" /\ c.site = "turn" -> "turn"
    [] c.result = "ok"                    -> "loop"
    [] OTHER                              -> "failed"

SettleCall(r) ==
  /\ pc[r] = "settle"
  /\ Settle(Key(r), CallActuals(call[r]))
  /\ pc' = [pc EXCEPT ![r] = AfterCall(call[r])]
  /\ call' = [call EXCEPT ![r] = NoCall]
  /\ UNCHANGED <<grant, run, made, recorded, proposal, fact, procVars>>

\* set_status with a terminal status, of a Run that failed or was cancelled in a
\* call, that ends in its loop, or that gives its final answer.
EndRun(r, status) ==
  /\ pc[r] \in {"failed", "loop", "turn"}
  /\ status = "completed" => pc[r] = "turn"
  /\ run' = [run EXCEPT ![r] = status]
  /\ pc' = [pc EXCEPT ![r] = "none"]
  /\ UNCHANGED <<grant, made, call, ledger, recorded, proposal, fact, procVars>>

-----------------------------------------------------------------------------
(* Tool calls.                                                             *)

\* propose_and_execute: the proposal, then its execution or a pause; or no tool
\* was asked for and the loop goes on.
Propose(r) ==
  /\ pc[r] = "turn"
  /\ \/ /\ made[r] < MaxKeys
        /\ made' = [made EXCEPT ![r] = @ + 1]
        /\ proposal' = [proposal EXCEPT ![<<r, made[r] + 1>>] = "proposed"]
        /\ pc' = [pc EXCEPT ![r] = "validate"]
     \/ /\ pc' = [pc EXCEPT ![r] = "loop"]
        /\ UNCHANGED <<made, proposal>>
  /\ UNCHANGED <<grant, run, call, ledger, recorded, fact, procVars>>

\* The proposal needs approval: the Run waits, its thread ends.
PauseRun(r) ==
  /\ pc[r] = "validate"
  /\ run' = [run EXCEPT ![r] = "paused"]
  /\ pc' = [pc EXCEPT ![r] = "none"]
  /\ UNCHANGED <<grant, made, call, ledger, recorded, proposal, fact, procVars>>

\* Approved, the Run goes on with its pending proposal; or it is given up.
ResumeRun(r) ==
  /\ phase = "up" /\ run[r] = "paused"
  /\ \/ /\ run' = [run EXCEPT ![r] = "running"]
        /\ pc' = [pc EXCEPT ![r] = "validate"]
     \/ /\ run' = [run EXCEPT ![r] = "failed"]
        /\ UNCHANGED pc
  /\ lived' = lived \cup {r}
  /\ UNCHANGED <<grant, made, call, ledger, recorded, proposal, fact, phase, crashes>>

\* validate_grant reads the grant, ...
LoadGrant(r) ==
  /\ pc[r] = "validate"
  /\ \E next \in IF grant = "active" THEN {"expire", "measure"} ELSE {"refuse"} :
       pc' = [pc EXCEPT ![r] = next]
  /\ UNCHANGED <<grant, run, made, call, ledger, recorded, proposal, fact, procVars>>

\* Mutant of SetGrant: without WHERE status='active'.
SetGrantAlways(status) == grant' = status

\* UPDATE autonomy_grants SET status=... WHERE status='active'
SetGrant(status) == grant' = IF grant = "active" THEN status ELSE grant

\* ... writes down that it has expired (refresh_expiry) ...
RefreshExpiry(r) ==
  /\ pc[r] = "expire"
  /\ SetGrant("expired")
  /\ pc' = [pc EXCEPT ![r] = "refuse"]
  /\ UNCHANGED <<run, made, call, ledger, recorded, proposal, fact, procVars>>

Exhausted == \E d \in Dims : Limit[d] > 0 /\ UsageTotal(d) >= Limit[d]

\* ... or reads the usage of every dimension ...
MeasureUsage(r) ==
  /\ pc[r] = "measure"
  /\ pc' = [pc EXCEPT ![r] = IF Exhausted THEN "exhaust" ELSE "consume"]
  /\ UNCHANGED <<grant, run, made, call, ledger, recorded, proposal, fact, procVars>>

\* ... and writes down that nothing is left.
ExhaustGrant(r) ==
  /\ pc[r] = "exhaust"
  /\ SetGrant("exhausted")
  /\ pc' = [pc EXCEPT ![r] = "refuse"]
  /\ UNCHANGED <<run, made, call, ledger, recorded, proposal, fact, procVars>>

\* ledger_tool_consume
ConsumeTool(r) ==
  LET amounts == [d \in {"tool_calls"} |-> 1] IN
  /\ pc[r] = "consume"
  /\ \/ Fits(amounts) /\ ledger' = Reserved(Key(r), amounts) /\ pc' = [pc EXCEPT ![r] = "execute"]
     \/ ~Fits(amounts) /\ pc' = [pc EXCEPT ![r] = "refuse"] /\ UNCHANGED ledger
  /\ UNCHANGED <<grant, run, made, call, recorded, proposal, fact, procVars>>

\* probe and execute.  An Err of either returns at once, past the settle.  A
\* completed call is charged, also when its text says the outcome is unknown; a
\* failed one too, unless its error says so.
ExecuteTool(r) ==
  /\ pc[r] = "execute"
  /\ \/ /\ pc' = [pc EXCEPT ![r] = "refuse"]
        /\ UNCHANGED call
     \/ /\ \E decision \in {"executed", "unknown", "exec_failed"},
              usage \in {1, NoAmount} :
             /\ usage = NoAmount => decision = "exec_failed"
             /\ call' = [call EXCEPT ![r].result = decision, ![r].usage = usage]
        /\ pc' = [pc EXCEPT ![r] = "charge"]
  /\ UNCHANGED <<grant, run, made, ledger, recorded, proposal, fact, procVars>>

\* ledger_tool_settle
SettleTool(r) ==
  /\ pc[r] = "charge"
  /\ Settle(Key(r), [d \in {"tool_calls"} |-> call[r].usage])
  /\ pc' = [pc EXCEPT ![r] = "mark"]
  /\ UNCHANGED <<grant, run, made, call, recorded, proposal, fact, procVars>>

\* mark_proposal, then back to the loop with the text for the model.
MarkProposal(r) ==
  /\ pc[r] \in {"mark", "refuse"}
  /\ proposal' = [proposal EXCEPT ![Key(r)] =
       IF pc[r] = "mark" THEN call[r].result ELSE "exec_failed"]
  /\ pc' = [pc EXCEPT ![r] = "loop"]
  /\ call' = [call EXCEPT ![r] = NoCall]
  /\ UNCHANGED <<grant, run, made, ledger, recorded, fact, procVars>>

-----------------------------------------------------------------------------
(* The grant's owner, the clock, crashes and the startup.                   *)

\* revoke_grant
RevokeGrant ==
  /\ phase = "up" /\ grant = "active"
  /\ grant' = "revoked"
  /\ UNCHANGED <<runVars, ledger, recorded, proposal, fact, procVars>>

Crash ==
  /\ phase # "down" /\ crashes < MaxCrashes
  /\ phase' = "down" /\ lived' = {} /\ crashes' = crashes + 1
  /\ pc' = [r \in Runs |-> "none"] /\ call' = [r \in Runs |-> NoCall]
  /\ UNCHANGED <<grant, run, made, ledger, recorded, proposal, fact>>

\* reconcile_interrupted: no thread works for a running Run any more.
ReconcileInterrupted ==
  /\ phase = "down"
  /\ run' = [r \in Runs |-> IF run[r] = "running" THEN "failed" ELSE run[r]]
  /\ phase' = "orphans"
  /\ UNCHANGED <<grant, pc, made, call, ledger, recorded, proposal, fact, lived, crashes>>

Orphans == {k \in Keys : proposal[k] = "proposed" /\ run[k[1]] = "failed"}

\* reconcile_orphan_proposals
ReconcileOrphans ==
  /\ phase = "orphans"
  /\ \/ \E k \in Orphans : proposal' = [proposal EXCEPT ![k] = "unknown"] /\ UNCHANGED phase
     \/ Orphans = {} /\ phase' = "ledger" /\ UNCHANGED proposal
  /\ UNCHANGED <<grant, runVars, ledger, recorded, fact, lived, crashes>>

\* Mutants of RecordedActual: a call recorded as an error is taken to be free;
\* the tokens of a recorded call are not looked up.
RecordedActualFree(k, d) ==
  CASE d = "tool_calls" /\ proposal[k] = "executed"         -> 1
    [] d = "model_calls" /\ recorded[k].status = "ok"       -> 1
    [] d = "tokens" /\ recorded[k].status = "ok"            -> recorded[k].tokens
    [] d = "model_calls" /\ recorded[k].status = "error"    -> 0
    [] OTHER                                                -> NoAmount

RecordedActualCalls(k, d) ==
  CASE d = "tool_calls" /\ proposal[k] = "executed"         -> 1
    [] d = "model_calls" /\ recorded[k].status = "ok"       -> 1
    [] OTHER                                                -> NoAmount

\* The amount the store has recorded for a reserved row, or none.
RecordedActual(k, d) ==
  CASE d = "tool_calls" /\ proposal[k] = "executed"         -> 1
    [] d = "model_calls" /\ recorded[k].status = "ok"       -> 1
    [] d = "tokens" /\ recorded[k].status = "ok"            -> recorded[k].tokens
    [] OTHER                                                -> NoAmount

\* Mutant of Residues: only of Runs that failed.
ResiduesOfFailed ==
  {kd \in Keys \X Dims : ledger[kd[1]][kd[2]].state = "reserved" /\ run[kd[1][1]] = "failed"}

Residues ==
  {kd \in Keys \X Dims : ledger[kd[1]][kd[2]].state = "reserved" /\ run[kd[1][1]] \in Terminal}

\* reconcile_all_terminal_runs, a row at a time.
ReconcileResidues ==
  /\ phase = "ledger"
  /\ \/ /\ \E kd \in Residues :
             ledger' = [ledger EXCEPT ![kd[1]][kd[2]] =
                          Decided(@, RecordedActual(kd[1], kd[2]))]
        /\ UNCHANGED phase
     \/ Residues = {} /\ phase' = "up" /\ UNCHANGED ledger
  /\ UNCHANGED <<grant, runVars, recorded, proposal, fact, lived, crashes>>

-----------------------------------------------------------------------------

CallStep(r) ==
  \/ \E site \in Sites, estimate \in Estimates : ReserveCall(r, site, estimate)
  \/ OverBudget(r)
  \/ \E reported \in Usages \cup {NoAmount} : StreamAnswers(r, reported) \/ CompleteAnswers(r, reported)
  \/ \E error \in StreamErrors, shown, cancelled \in BOOLEAN : StreamFails(r, error, shown, cancelled)
  \/ \E error \in CompleteErrors : CompleteFails(r, error)
  \/ SettleCall(r)

ToolStep(r) ==
  \/ Propose(r) \/ LoadGrant(r) \/ RefreshExpiry(r) \/ MeasureUsage(r) \/ ExhaustGrant(r)
  \/ ConsumeTool(r) \/ ExecuteTool(r) \/ SettleTool(r) \/ MarkProposal(r)

RunStep(r) ==
  \/ StartRun(r) \/ PauseRun(r) \/ ResumeRun(r)
  \/ \E status \in Terminal : EndRun(r, status)

Startup == ReconcileInterrupted \/ ReconcileOrphans \/ ReconcileResidues

Next ==
  \/ \E r \in Runs : CallStep(r) \/ ToolStep(r) \/ RunStep(r)
  \/ RevokeGrant \/ Crash \/ Startup

Spec == Init /\ [][Next]_vars

-----------------------------------------------------------------------------
Threads == {"none", "loop", "send", "fallback", "settle", "turn", "failed",
            "validate", "expire", "measure", "exhaust", "consume", "execute", "charge",
            "mark", "refuse"}
Results == {"none", "ok", "budget", "executed", "unknown", "exec_failed"} \cup StreamErrors
Amount == Nat \cup {NoAmount}

TypeOK ==
  /\ grant \in {"active", "expired", "exhausted", "revoked"}
  /\ run \in [Runs -> {"absent", "running", "paused"} \cup Terminal]
  /\ pc \in [Runs -> Threads] /\ made \in [Runs -> 0 .. MaxKeys]
  /\ call \in [Runs -> [site : Sites \cup {"none"}, result : Results, usage : Amount]]
  /\ ledger \in [Keys -> [Dims ->
       [state : {"none", "reserved", "settled", "reconciliation_required"},
        reserved : Nat, settled : Amount]]]
  /\ recorded \in [Keys -> [status : {"none", "ok", "error"}, tokens : Nat]]
  /\ proposal \in [Keys -> {"none", "proposed", "executed", "unknown", "exec_failed"}]
  /\ fact \in [Keys -> [reported : Amount, answered : BOOLEAN, shown : BOOLEAN]]
  /\ phase \in {"up", "down", "orphans", "ledger"}
  /\ lived \subseteq Runs /\ crashes \in 0 .. MaxCrashes

\* What is reserved and settled never exceeds a limit of the grant, whatever Runs
\* reserve at the same time and whatever a settle gives back (autonomy.rs:328).
WithinLimits == \A d \in Dims : Limit[d] > 0 => UsageTotal(d) <= Limit[d]

\* A settled call is charged exactly what its provider reported, whether the Run
\* settled it or a later startup did (autonomy.rs:416, 498-577).
SettledIsReported ==
  \A k \in Keys :
    LET row == ledger[k]["tokens"] IN
    fact[k].answered /\ fact[k].reported # NoAmount /\ row.state = "settled"
      => row.settled = fact[k].reported

\* A reservation is given up only when its call failed: one that was answered
\* stays charged as a call (lib.rs:466-490).
AnsweredIsCharged ==
  \A k \in Keys :
    LET row == ledger[k]["model_calls"] IN fact[k].answered => Occupied(row) = 1

\* After a startup, a row is still reserved only for a Run that waits or that
\* this process has executed itself (autonomy.rs:491-497, main.rs:215-231).
NoResidue ==
  phase = "up" =>
    \A k \in Keys, d \in Dims :
      ledger[k][d].state = "reserved" => k[1] \in lived \/ run[k[1]] = "paused"

\* What the store has recorded of a call is enough for a startup to settle it: an
\* answer within its reservation is left to nobody's judgement (autonomy.rs:491).
RecoveredFromRecord ==
  phase = "up" =>
    \A k \in Keys :
      LET row == ledger[k]["tokens"] IN
      /\ k[1] \notin lived /\ run[k[1]] \in Terminal
      /\ recorded[k].status = "ok" /\ fact[k].reported # NoAmount
      /\ fact[k].reported <= row.reserved
      => row.state = "settled"

\* A grant that is revoked, expired or exhausted stays so: the check that runs in
\* several transactions does not undo a revocation between them (autonomy.rs:179).
GrantStatusIsFinal == [][grant # "active" => grant' = grant]_vars

\* Not so: usage the provider did not report is never settled as an amount; its
\* reservation is kept for reconciliation (lib.rs:465-467, autonomy.rs:300).
UnreportedStaysOpen ==
  \A k \in Keys :
    fact[k].answered /\ fact[k].reported = NoAmount => ledger[k]["tokens"].state # "settled"

\* Not so: a call that was interrupted after it had shown output is charged as a
\* call, and its tokens stay reserved (lib.rs:494-496).
ShownIsCharged ==
  \A k \in Keys :
    fact[k].shown /\ ~fact[k].answered
      => Occupied(ledger[k]["model_calls"]) = 1 /\ Occupied(ledger[k]["tokens"]) # 0
=============================================================================
