----------------------------- MODULE GateRelease -----------------------------
(***************************************************************************)
(* Human release of the gates of one work item (crates/workitem: lib.rs,   *)
(* attempt.rs, release.rs, gate.rs, and the RPC handlers of                 *)
(* ratiflow-core/src/dispatch.rs that drive them).                          *)
(*                                                                         *)
(* The database actor runs one RPC at a time, so two handlers never         *)
(* interleave.  What makes the protocol hard is that a handler is a         *)
(* sequence of separately committed writes: after any of them the next     *)
(* write may fail (the handler returns its error and the writes already     *)
(* made stay) or the process may die (the next process starts with         *)
(* release::resume_pending).  Every committed write below is one action;    *)
(* op is the program counter of the handler that is running.               *)
(***************************************************************************)
EXTENDS Naturals, FiniteSets

CONSTANTS
  NGates,        \* gates of the work item's template, in instance order
  MaxAttempts,   \* bound: rows of stage_attempts
  MaxRequests,   \* bound: rows of gate_release_requests
  MaxContent,    \* bound: successive contents of one gate's output
  MaxItems,      \* bound: items of one requirement revision
  Passing,       \* contents on which the six evaluation inputs can all be "pass"
  Releasable,    \* contents with the deliverables of the gate frozen
  Policies,      \* permission snapshots that release_policy_version can digest
  Ttl,           \* whether RATIFLOW_APPROVAL_TTL_SECS sets a time limit
  WritesFail,    \* whether a write of a running handler may fail by itself
  None           \* SQL NULL, "no row"

ASSUME NGatesAssumption == NGates \in Nat \ {0}
ASSUME BoundsAssumption ==
  /\ MaxAttempts \in Nat /\ MaxRequests \in Nat /\ MaxContent \in Nat \ {0}
  /\ MaxItems \in Nat
ASSUME PoliciesAssumption == Policies # {}
ASSUME SwitchesAssumption == Ttl \in BOOLEAN /\ WritesFail \in BOOLEAN

Gates == 1 .. NGates
AttemptIds == 1 .. MaxAttempts
RequestIds == 1 .. MaxRequests

\* What build_manifest reads of one gate: its latest baseline and its evidence.
\* Their rows have new ids and an evidence is verified once, so a content never
\* comes back.
Contents == 1 .. MaxContent

\* What build_manifest reads of the latest requirement revision, for every gate
\* alike: three numbers.  They do come back.
Coverages == [total: 0 .. MaxItems, covered: 0 .. MaxItems, verified: 0 .. MaxItems]

VARIABLES
  currentGate,  \* workitems.current_gate
  stage,        \* workitem_stages.state, by gate
  attempts,     \* stage_attempts, by row ("none": the row does not exist)
  packages,     \* stage_output_packages
  requests,     \* gate_release_requests, each with the approval created for it
  output,       \* the content of each gate that build_manifest would freeze now
  coverage,     \* how many requirement items there are, covered and verified
  policy,       \* the permission snapshot in force
  evaluation,   \* content seen by each gate's latest evaluation if it passed, or None
  op            \* the handler that is running and its next write

vars == <<currentGate, stage, attempts, packages, requests, output, coverage,
          policy, evaluation, op>>

-----------------------------------------------------------------------------
(* The two state machines: StageState::can_transition and                   *)
(* attempt::can_transition.                                                 *)

StageStates == {"not_started", "running", "blocked", "awaiting_approval",
                "passed", "skipped", "failed", "cancelled", "stale"}

StageMoves ==
  ({"not_started"} \X {"running", "cancelled", "skipped"})
    \union ({"running"} \X {"blocked", "awaiting_approval", "passed",
                            "failed", "cancelled", "stale"})
    \union ({"blocked"} \X {"running", "cancelled", "stale"})
    \union ({"awaiting_approval"} \X {"running", "passed", "failed",
                                      "cancelled", "stale"})
    \union ({"passed"} \X {"stale"})
    \union ({"failed", "stale"} \X {"running", "cancelled"})

ActiveStates == {"prepared", "running", "review_ready",
                 "awaiting_user_approval", "changes_requested"}

AttemptStates == ActiveStates \union
  {"preparing", "approved", "rejected", "superseded", "rolled_back",
   "failed", "cancelled"}

AttemptMoves ==
  {<<"preparing", "prepared">>, <<"preparing", "cancelled">>,
   <<"prepared", "cancelled">>, <<"prepared", "running">>,
   <<"running", "review_ready">>, <<"running", "failed">>,
   <<"running", "cancelled">>,
   <<"review_ready", "awaiting_user_approval">>,
   <<"changes_requested", "running">>, <<"approved", "superseded">>}
    \union ({"awaiting_user_approval"} \X
            {"approved", "changes_requested", "rejected"})
    \union ({"prepared", "running", "review_ready", "awaiting_user_approval"}
            \X {"rolled_back"})

RequestStates == {"pending", "approved", "rejected", "changes_requested",
                  "expired", "superseded"}
Verdicts == {"approved", "rejected", "changes_requested"}
ApprovalStates == Verdicts \union {"requested", "expired"}

Digests == [content: Contents, coverage: Coverages, policy: Policies]

-----------------------------------------------------------------------------
(* What the handlers ask of the tables.                                     *)

ActiveAttempts == {a \in AttemptIds : attempts[a].state \in ActiveStates}
ActiveFor(g) == {a \in ActiveAttempts : attempts[a].gate = g}
AttemptsOf(g) == {a \in AttemptIds : attempts[a].state # "none"
                                      /\ attempts[a].gate = g}

\* The next unused row; rows are taken in order, so a larger id is a later row.
FreshAttempt == {a \in AttemptIds : /\ attempts[a].state = "none"
                                    /\ \A b \in 1 .. (a - 1) : attempts[b].state # "none"}
FreshRequest == {r \in RequestIds : /\ requests[r].state = "none"
                                    /\ \A q \in 1 .. (r - 1) : requests[q].state # "none"}

\* release_digest over build_manifest: the attempt is part of every comparison.
Digest(a) == [content |-> output[attempts[a].gate], coverage |-> coverage,
              policy |-> policy]

LinkedPending(a) == {r \in RequestIds : /\ requests[r].state = "pending"
                                        /\ requests[r].linked
                                        /\ requests[r].att = a}

\* pending_rr_for_attempt: the latest one.
PendingFor(a) == {r \in LinkedPending(a) : \A q \in LinkedPending(a) : q <= r}
HasPackage(a) == \E p \in packages : p.att = a /\ p.digest = Digest(a)

\* Mutant: only the policy part of the digest is compared.
DriftedPolicyOnly(r) == requests[r].digest.policy # policy

Drifted(r) == requests[r].digest # Digest(requests[r].att)

-----------------------------------------------------------------------------
NoAttempt == [gate |-> 1, state |-> "none", package |-> None]
NoRequest == [att |-> 0, digest |-> None, linked |-> FALSE,
              approval |-> "none", state |-> "none"]
Idle == [kind |-> "idle", step |-> "idle", gate |-> 1, att |-> 0, req |-> 0,
         verdict |-> "none", todo |-> {}]

Init ==
  /\ currentGate = 1
  /\ stage = [g \in Gates |-> "not_started"]
  /\ attempts = [a \in AttemptIds |-> NoAttempt]
  /\ packages = {}
  /\ requests = [r \in RequestIds |-> NoRequest]
  /\ output = [g \in Gates |-> 1]
  /\ coverage = [total |-> 0, covered |-> 0, verified |-> 0]
  /\ policy \in Policies
  /\ evaluation = [g \in Gates |-> None]
  /\ op = Idle

\* The handler goes on to its next write.
Goto(s) == op' = [op EXCEPT !.step = s]
\* The handler returns; an error inside the recovery loop only ends its item.
Leave == op' = IF op.kind = "resume" THEN [op EXCEPT !.step = "pick"] ELSE Idle

At(s) == op.step = s

SetAttempt(a, s) == attempts' = [attempts EXCEPT ![a].state = s]
SetRequest(r, s) == requests' = [requests EXCEPT ![r].state = s]
SetApproval(r, s) == requests' = [requests EXCEPT ![r].approval = s]

\* attempt::transition: the same state is a no-op, an illegal move an error.
Transition(a, to, next) ==
  \/ /\ attempts[a].state = to
     /\ Goto(next)
     /\ UNCHANGED attempts
  \/ /\ <<attempts[a].state, to>> \in AttemptMoves
     /\ SetAttempt(a, to)
     /\ Goto(next)
  \/ /\ attempts[a].state # to
     /\ <<attempts[a].state, to>> \notin AttemptMoves
     /\ Leave
     /\ UNCHANGED attempts

InsertAttempt(a, g) ==
  attempts' = [attempts EXCEPT ![a] = [NoAttempt EXCEPT !.gate = g, !.state = "preparing"]]

-----------------------------------------------------------------------------
(* attempt::ensure_active and attempt::advance_to_review_ready.             *)

AfterEnsure == CASE op.kind \in {"evaluate", "request"} -> "advance"
                 [] op.kind = "freeze" -> "work"
                 [] OTHER -> "done"

EnsureActive ==
  /\ At("ensure")
  /\ \/ \E a \in ActiveFor(op.gate) :
          /\ op' = [op EXCEPT !.att = a, !.step = AfterEnsure]
          /\ UNCHANGED attempts
     \/ /\ ActiveFor(op.gate) = {} /\ ActiveAttempts # {}
        /\ Leave
        /\ UNCHANGED attempts
     \/ /\ ActiveAttempts = {}
        /\ \E a \in FreshAttempt :
             /\ InsertAttempt(a, op.gate)
             /\ op' = [op EXCEPT !.att = a, !.step = "snapshot"]
     \/ /\ ActiveAttempts = {} /\ FreshAttempt = {}
        /\ Leave
        /\ UNCHANGED attempts
  /\ UNCHANGED <<currentGate, stage, packages, requests, output, coverage, policy,
                 evaluation>>

\* Mutant: without the unique index.
PrepareUnchecked(a, next) == SetAttempt(a, "prepared") /\ Goto(next)

\* snapshot::create has succeeded, and the attempt takes the single active slot:
\* idx_attempts_single_active refuses it while another attempt is active.
Prepare(a, next) ==
  IF ActiveAttempts = {}
    THEN SetAttempt(a, "prepared") /\ Goto(next)
    ELSE UNCHANGED attempts /\ Leave

TakeSnapshot ==
  /\ At("snapshot")
  /\ Prepare(op.att, AfterEnsure)
  /\ UNCHANGED <<currentGate, stage, packages, requests, output, coverage, policy,
                 evaluation>>

AfterAdvance == IF op.kind = "request" THEN "abortOrphans" ELSE "done"

AdvanceToReviewReady ==
  /\ At("advance")
  /\ \/ /\ attempts[op.att].state \in {"prepared", "changes_requested"}
        /\ SetAttempt(op.att, "running")
        /\ Goto("advance")
     \/ /\ attempts[op.att].state = "running"
        /\ SetAttempt(op.att, "review_ready")
        /\ Goto(AfterAdvance)
     \/ /\ attempts[op.att].state \notin {"prepared", "changes_requested", "running"}
        /\ Goto(AfterAdvance)
        /\ UNCHANGED attempts
  /\ UNCHANGED <<currentGate, stage, packages, requests, output, coverage, policy,
                 evaluation>>

Return ==
  /\ At("done")
  /\ Leave
  /\ UNCHANGED <<currentGate, stage, attempts, packages, requests, output, coverage,
                 policy, evaluation>>

-----------------------------------------------------------------------------
(* The RPCs.  An insert into a table whose bound is reached returns an error. *)

Call(kind, step, g) == op' = [Idle EXCEPT !.kind = kind, !.step = step, !.gate = g]

\* stage.startActivity: only on the current gate.
StartActivity ==
  /\ op = Idle
  /\ Call("start", "ensure", currentGate)
  /\ UNCHANGED <<currentGate, stage, attempts, packages, requests, output, coverage,
                 policy, evaluation>>

\* gate.evaluate: record the verdict of the gate's present content; a pass
\* advances the attempt.  A structured acceptance item may fail it although
\* the six inputs pass.
Evaluate(g) ==
  /\ op = Idle
  /\ \/ /\ output[g] \in Passing
        /\ evaluation' = [evaluation EXCEPT ![g] = output[g]]
        /\ Call("evaluate", "ensure", g)
     \/ /\ evaluation' = [evaluation EXCEPT ![g] = None]
        /\ UNCHANGED op
  /\ UNCHANGED <<currentGate, stage, attempts, packages, requests, output, coverage,
                 policy>>

\* gate.requestRelease: the guards of release::request_release.  The stored
\* inputs are the six verdicts, so they are those of now when both are all pass.
RequestRelease(g) ==
  /\ op = Idle
  /\ currentGate = g
  /\ evaluation[g] # None
  /\ coverage.total > 0 /\ coverage.covered = coverage.total
  /\ output[g] \in Passing \intersect Releasable
  /\ Call("request", "ensure", g)
  /\ UNCHANGED <<currentGate, stage, attempts, packages, requests, output, coverage,
                 policy, evaluation>>

FirstStep(v) == CASE v = "approved" -> "approve"
                  [] v = "rejected" -> "reject"
                  [] OTHER -> "change"

\* Mutant: a retry with another verdict is not refused.
RetryableVerdictAny(r, v) == requests[r].approval \in Verdicts

\* What a retry finds after the verdict was recorded: only the same one may go on.
RetryableVerdict(r, v) == requests[r].approval = v

\* gate.decideRelease, and approval.decide for a gate_release: a request that
\* is no longer pending is only replayed, so only a pending one is called for.
DecideRelease(r, v) ==
  /\ op = Idle
  /\ requests[r].state = "pending" /\ requests[r].linked
  /\ \E s \in {"expireRequest", "driftRequest", "decide", FirstStep(v)} :
       /\ CASE s = "expireRequest" -> requests[r].approval = "expired"
            [] s = "driftRequest"  -> requests[r].approval = "requested" /\ Drifted(r)
            [] s = "decide"        -> requests[r].approval = "requested" /\ ~Drifted(r)
            [] OTHER               -> RetryableVerdict(r, v)
       /\ op' = [Idle EXCEPT !.kind = "decide", !.step = s, !.req = r, !.verdict = v,
                             !.att = requests[r].att,
                             !.gate = attempts[requests[r].att].gate]
  /\ UNCHANGED <<currentGate, stage, attempts, packages, requests, output, coverage,
                 policy, evaluation>>

\* artifact.createDraft: items become covered by the new revision, which is in no
\* baseline yet; then a pending request of the current gate that drifted is withdrawn.
CreateDraft ==
  /\ op = Idle
  /\ \E n \in coverage.covered .. coverage.total :
       coverage' = [coverage EXCEPT !.covered = n]
  /\ Call("record", "invalidate", currentGate)
  /\ UNCHANGED <<currentGate, stage, attempts, packages, requests, output, policy,
                 evaluation>>

\* evidence.record, on any gate: a new row, not yet verified itself, which may verify
\* items; then a pending request of that gate is withdrawn.
RecordEvidence(g) ==
  /\ op = Idle
  /\ \E c \in Contents \ Passing : c > output[g] /\ output' = [output EXCEPT ![g] = c]
  /\ \E n \in coverage.verified .. coverage.total :
       coverage' = [coverage EXCEPT !.verified = n]
  /\ Call("record", "invalidate", g)
  /\ UNCHANGED <<currentGate, stage, attempts, packages, requests, policy, evaluation>>

\* evidence.verify: what was unverified becomes verified, nothing is invalidated.
VerifyEvidence(g, c) ==
  /\ op = Idle
  /\ c > output[g] /\ output[g] \notin Passing
  /\ output' = [output EXCEPT ![g] = c]
  /\ UNCHANGED <<currentGate, stage, attempts, packages, requests, coverage, policy,
                 evaluation, op>>

\* requirement.importRevision: the items of the new revision are neither covered nor
\* verified.  Nothing is invalidated; a revision imported before changes nothing.
ImportRequirements ==
  /\ op = Idle
  /\ \E n \in 0 .. MaxItems : coverage' = [total |-> n, covered |-> 0, verified |-> 0]
  /\ UNCHANGED <<currentGate, stage, attempts, packages, requests, output, policy,
                 evaluation, op>>

\* artifact.freezeBaseline, on any known gate.
FreezeBaseline(g) ==
  /\ op = Idle
  /\ output[g] < MaxContent
  /\ Call("freeze", "ensure", g)
  /\ UNCHANGED <<currentGate, stage, attempts, packages, requests, output, coverage,
                 policy, evaluation>>

\* A change of the permission settings moves the digest of every gate.
ChangePolicy(p) ==
  /\ op = Idle
  /\ p # policy
  /\ policy' = p
  /\ UNCHANGED <<currentGate, stage, attempts, packages, requests, output, coverage,
                 evaluation, op>>

\* sg_policy::expire_stale, run by whichever handler looks at approvals next.
ExpireApproval(r) ==
  /\ op = Idle /\ Ttl
  /\ requests[r].approval = "requested"
  /\ SetApproval(r, "expired")
  /\ UNCHANGED <<currentGate, stage, attempts, packages, output, coverage, policy,
                 evaluation, op>>

-----------------------------------------------------------------------------
(* release::request_release after its guards.                               *)

\* abort_orphan_rrs of this attempt: a request whose approval was never linked.
AbortOrphans ==
  /\ At("abortOrphans")
  /\ requests' = [r \in RequestIds |->
                    IF /\ requests[r].state = "pending" /\ ~requests[r].linked
                       /\ requests[r].att = op.att
                      THEN [requests[r] EXCEPT !.state = "superseded"]
                      ELSE requests[r]]
  /\ Goto("package")
  /\ UNCHANGED <<currentGate, stage, attempts, packages, output, coverage, policy,
                 evaluation>>

\* The request to hand back instead of opening a new one.
ReturnedRequest(a) ==
  {r \in PendingFor(a) : \/ attempts[a].state = "awaiting_user_approval"
                         \/ ~Drifted(r)}

\* Reuse the package of this digest, or withdraw the old request and freeze one.
FreezePackage ==
  /\ At("package")
  /\ IF ReturnedRequest(op.att) # {}
       THEN Leave /\ UNCHANGED <<packages, requests>>
       ELSE IF HasPackage(op.att)
       THEN Goto("insert") /\ UNCHANGED <<packages, requests>>
       ELSE \/ \E r \in PendingFor(op.att) :
                 SetRequest(r, "superseded") /\ Goto("newPackage") /\ UNCHANGED packages
            \/ PendingFor(op.att) = {} /\ Goto("newPackage") /\ UNCHANGED <<packages,
                                                                            requests>>
  /\ UNCHANGED <<currentGate, stage, attempts, output, coverage, policy, evaluation>>

\* The package is bound to the latest evaluation row.
NewPackage ==
  /\ At("newPackage")
  /\ packages' = packages \union
       {[att |-> op.att, digest |-> Digest(op.att), evaluated |-> evaluation[op.gate]]}
  /\ Goto("insert")
  /\ UNCHANGED <<currentGate, stage, attempts, requests, output, coverage, policy,
                 evaluation>>

\* idx_release_pending_digest refuses a second pending request of one digest.
InsertRequest ==
  /\ At("insert")
  /\ IF \/ \E r \in RequestIds : /\ requests[r].state = "pending"
                                 /\ requests[r].att = op.att
                                 /\ requests[r].digest = Digest(op.att)
          \/ FreshRequest = {}
       THEN Leave /\ UNCHANGED requests
       ELSE \E r \in FreshRequest :
              /\ requests' = [requests EXCEPT ![r] =
                   [att |-> op.att, digest |-> Digest(op.att), linked |-> FALSE,
                    approval |-> "none", state |-> "pending"]]
              /\ op' = [op EXCEPT !.req = r, !.step = "approval"]
  /\ UNCHANGED <<currentGate, stage, attempts, packages, output, coverage, policy,
                 evaluation>>

CreateApproval ==
  /\ At("approval")
  /\ SetApproval(op.req, "requested")
  /\ Goto("link")
  /\ UNCHANGED <<currentGate, stage, attempts, packages, output, coverage, policy,
                 evaluation>>

\* One transaction: the request's approval_id and the attempt's package.
LinkApproval ==
  /\ At("link")
  /\ requests' = [requests EXCEPT ![op.req].linked = TRUE]
  /\ attempts' = [attempts EXCEPT ![op.att].package = Digest(op.att)]
  /\ Goto("await")
  /\ UNCHANGED <<currentGate, stage, packages, output, coverage, policy, evaluation>>

AwaitApproval ==
  /\ At("await")
  /\ Transition(op.att, "awaiting_user_approval", "done")
  /\ UNCHANGED <<currentGate, stage, packages, requests, output, coverage, policy,
                 evaluation>>

-----------------------------------------------------------------------------
(* release::decide_release.                                                 *)

ExpireRequest ==
  /\ At("expireRequest")
  /\ SetRequest(op.req, "expired")
  /\ Leave
  /\ UNCHANGED <<currentGate, stage, attempts, packages, output, coverage, policy,
                 evaluation>>

SupersedeDrifted ==
  /\ At("driftRequest")
  /\ SetRequest(op.req, "superseded")
  /\ Goto("driftApproval")
  /\ UNCHANGED <<currentGate, stage, attempts, packages, output, coverage, policy,
                 evaluation>>

ExpireDrifted ==
  /\ At("driftApproval")
  /\ SetApproval(op.req, "expired")
  /\ Leave
  /\ UNCHANGED <<currentGate, stage, attempts, packages, output, coverage, policy,
                 evaluation>>

\* sg_policy::decide.
RecordVerdict ==
  /\ At("decide")
  /\ SetApproval(op.req, op.verdict)
  /\ Goto(FirstStep(op.verdict))
  /\ UNCHANGED <<currentGate, stage, attempts, packages, output, coverage, policy,
                 evaluation>>

\* complete_approve, also run by the recovery.
ApproveAttempt ==
  /\ At("approve")
  /\ Transition(op.att, "approved", "pass")
  /\ UNCHANGED <<currentGate, stage, packages, requests, output, coverage, policy,
                 evaluation>>

\* Mutant: no bound at the last gate.
NextGateUnbounded(g) == g + 1

\* next_gate_id: the pointer stays on the last gate.
NextGate(g) == IF g < NGates THEN g + 1 ELSE currentGate

\* pass_gate: not_started goes through running; set_stage commits the stage
\* and the pointer to the next gate together, and refuses an illegal move.
PassGate ==
  /\ At("pass")
  /\ LET s == stage[op.gate]
     IN \/ s = "passed" /\ Goto("next") /\ UNCHANGED <<stage, currentGate>>
        \/ /\ s = "not_started"
           /\ stage' = [stage EXCEPT ![op.gate] = "running"]
           /\ Goto("pass") /\ UNCHANGED currentGate
        \/ /\ <<s, "passed">> \in StageMoves
           /\ stage' = [stage EXCEPT ![op.gate] = "passed"]
           /\ currentGate' = NextGate(op.gate)
           /\ Goto("next")
        \/ /\ s \notin {"passed", "not_started"} /\ <<s, "passed">> \notin StageMoves
           /\ Leave /\ UNCHANGED <<stage, currentGate>>
  /\ UNCHANGED <<attempts, packages, requests, output, coverage, policy, evaluation>>

\* Mutant: the next gate is left without an attempt.
CreateNextNever ==
  /\ At("next") /\ Goto("approveRequest")
  /\ UNCHANGED <<currentGate, stage, attempts, packages, requests, output, coverage,
                 policy, evaluation>>

\* The next gate gets its first attempt here; a later one comes from ensure_active.
CreateNext ==
  /\ At("next")
  /\ IF op.gate < NGates /\ AttemptsOf(op.gate + 1) = {}
       THEN \/ \E a \in FreshAttempt :
                 InsertAttempt(a, op.gate + 1) /\ Goto("nextSnapshot")
            \/ FreshAttempt = {} /\ Leave /\ UNCHANGED attempts
       ELSE UNCHANGED attempts /\ Goto("approveRequest")
  /\ UNCHANGED <<currentGate, stage, packages, requests, output, coverage, policy,
                 evaluation>>

SnapshotNext ==
  /\ At("nextSnapshot")
  /\ \E a \in AttemptsOf(op.gate + 1) :
       attempts[a].state = "preparing" /\ Prepare(a, "approveRequest")
  /\ UNCHANGED <<currentGate, stage, packages, requests, output, coverage, policy,
                 evaluation>>

ApproveRequest ==
  /\ At("approveRequest")
  /\ IF requests[op.req].state = "pending"
       THEN SetRequest(op.req, "approved")
       ELSE UNCHANGED requests
  /\ Leave
  /\ UNCHANGED <<currentGate, stage, attempts, packages, output, coverage, policy,
                 evaluation>>

RejectAttempt ==
  /\ At("reject")
  /\ Transition(op.att, "rejected", "rejectRequest")
  /\ UNCHANGED <<currentGate, stage, packages, requests, output, coverage, policy,
                 evaluation>>

RejectRequest ==
  /\ At("rejectRequest")
  /\ SetRequest(op.req, "rejected")
  /\ Leave
  /\ UNCHANGED <<currentGate, stage, attempts, packages, output, coverage, policy,
                 evaluation>>

ChangeAttempt ==
  /\ At("change")
  /\ Transition(op.att, "changes_requested", "rework")
  /\ UNCHANGED <<currentGate, stage, packages, requests, output, coverage, policy,
                 evaluation>>

ReworkAttempt ==
  /\ At("rework")
  /\ Transition(op.att, "running", "changeRequest")
  /\ UNCHANGED <<currentGate, stage, packages, requests, output, coverage, policy,
                 evaluation>>

\* One transaction: the package is detached and the request closed.
ChangeRequest ==
  /\ At("changeRequest")
  /\ SetRequest(op.req, "changes_requested")
  /\ attempts' = [attempts EXCEPT ![op.att].package = None]
  /\ Leave
  /\ UNCHANGED <<currentGate, stage, packages, output, coverage, policy, evaluation>>

-----------------------------------------------------------------------------
(* release::invalidate_pending_if_drift, and the rest of freezeBaseline.    *)

AfterInvalidate == IF op.kind = "freeze" THEN "stale" ELSE "done"

Invalidated(g) ==
  {r \in UNION {PendingFor(a) : a \in ActiveFor(g)} :
     attempts[requests[r].att].state = "awaiting_user_approval" /\ Drifted(r)}

InvalidateRequest ==
  /\ At("invalidate")
  /\ \/ \E r \in Invalidated(op.gate) :
          /\ SetRequest(r, "superseded")
          /\ op' = [op EXCEPT !.req = r, !.att = requests[r].att,
                              !.step = "invalidateApproval"]
     \/ Invalidated(op.gate) = {} /\ Goto(AfterInvalidate) /\ UNCHANGED requests
  /\ UNCHANGED <<currentGate, stage, attempts, packages, output, coverage, policy,
                 evaluation>>

\* sg_policy::expire fails on an approval that has been decided, and the
\* handler returns that error with the request already superseded.
InvalidateApproval ==
  /\ At("invalidateApproval")
  /\ IF requests[op.req].approval = "requested"
       THEN SetApproval(op.req, "expired") /\ Goto("invalidateChange")
       ELSE Leave /\ UNCHANGED requests
  /\ UNCHANGED <<currentGate, stage, attempts, packages, output, coverage, policy,
                 evaluation>>

InvalidateChange ==
  /\ At("invalidateChange")
  /\ Transition(op.att, "changes_requested", "invalidateRun")
  /\ UNCHANGED <<currentGate, stage, packages, requests, output, coverage, policy,
                 evaluation>>

InvalidateRun ==
  /\ At("invalidateRun")
  /\ Transition(op.att, "running", AfterInvalidate)
  /\ UNCHANGED <<currentGate, stage, packages, requests, output, coverage, policy,
                 evaluation>>

\* The attempt that was ensured starts running, then the new baseline is frozen.
StartWork ==
  /\ At("work")
  /\ IF attempts[op.att].state = "prepared"
       THEN SetAttempt(op.att, "running")
       ELSE UNCHANGED attempts
  /\ Goto("freeze")
  /\ UNCHANGED <<currentGate, stage, packages, requests, output, coverage, policy,
                 evaluation>>

Freeze ==
  /\ At("freeze")
  /\ \E c \in (output[op.gate] + 1) .. MaxContent : output' = [output EXCEPT ![op.gate] = c]
  /\ Goto("invalidate")
  /\ UNCHANGED <<currentGate, stage, attempts, packages, requests, coverage, policy,
                 evaluation>>

\* Mutant: only the gates after the frozen one.
StalableAfter == {g \in (op.gate + 1) .. NGates : <<stage[g], "stale">> \in StageMoves}

\* mark_stale_from: each gate from the frozen one on that may become stale,
\* in order and one commit each, then each approved attempt of those gates.
Stalable == {g \in op.gate .. NGates : <<stage[g], "stale">> \in StageMoves}
Supersedable == {a \in AttemptIds : /\ attempts[a].state = "approved"
                                    /\ attempts[a].gate >= op.gate}

MarkStale ==
  /\ At("stale")
  /\ \/ \E g \in Stalable :
          /\ \A h \in Stalable : g <= h
          /\ stage' = [stage EXCEPT ![g] = "stale"]
          /\ UNCHANGED <<attempts, op>>
     \/ \E a \in Supersedable :
          /\ Stalable = {}
          /\ SetAttempt(a, "superseded")
          /\ UNCHANGED <<stage, op>>
     \/ /\ Stalable = {} /\ Supersedable = {}
        /\ Leave
        /\ UNCHANGED <<stage, attempts>>
  /\ UNCHANGED <<currentGate, packages, requests, output, coverage, policy, evaluation>>

-----------------------------------------------------------------------------
(* Failure and recovery.                                                    *)

\* A write of the running handler fails and the handler returns its error; the
\* withdrawal in invalidate_pending_if_drift ignores it, and an error of the
\* recovery outside an item's own completion ends the recovery.
Fail ==
  /\ WritesFail
  /\ op # Idle
  /\ CASE op.step \in {"invalidateChange", "invalidateRun"} -> Goto(AfterInvalidate)
       [] op.step \in {"boot", "resumeDrift"} -> op' = Idle
       [] OTHER -> Leave
  /\ UNCHANGED <<currentGate, stage, attempts, packages, requests, output, coverage,
                 policy, evaluation>>

\* The process dies between two writes and is started again.
Crash ==
  /\ op' = [Idle EXCEPT !.kind = "resume", !.step = "boot"]
  /\ UNCHANGED <<currentGate, stage, attempts, packages, requests, output, coverage,
                 policy, evaluation>>

\* release::resume_pending: supersede every unlinked pending request, then go
\* through the pending requests whose approval has been decided.
Boot ==
  /\ At("boot")
  /\ requests' = [r \in RequestIds |->
                    IF requests[r].state = "pending" /\ ~requests[r].linked
                      THEN [requests[r] EXCEPT !.state = "superseded"]
                      ELSE requests[r]]
  /\ op' = [op EXCEPT !.step = "pick",
                      !.todo = {r \in RequestIds : /\ requests[r].state = "pending"
                                                   /\ requests[r].linked
                                                   /\ requests[r].approval \in Verdicts}]
  /\ UNCHANGED <<currentGate, stage, attempts, packages, output, coverage, policy,
                 evaluation>>

\* Mutant: the recovery only takes rejections up.
ResumeStepRejected(r) ==
  IF requests[r].approval = "rejected" THEN "resumeReject" ELSE "pick"

ResumeStep(r) ==
  CASE requests[r].approval = "approved" -> IF Drifted(r) THEN "resumeDrift" ELSE "approve"
    [] requests[r].approval = "rejected" -> "resumeReject"
    [] OTHER -> "pick"

PickPending ==
  /\ At("pick")
  /\ \/ op.todo = {} /\ op' = Idle
     \/ \E r \in op.todo :
          /\ \A q \in op.todo : r <= q
          /\ op' = [op EXCEPT !.req = r, !.att = requests[r].att,
                              !.gate = attempts[requests[r].att].gate,
                              !.todo = @ \ {r}, !.step = ResumeStep(r)]
  /\ UNCHANGED <<currentGate, stage, attempts, packages, requests, output, coverage,
                 policy, evaluation>>

\* The approval is decided, so expiring it fails and the failure is ignored; a
\* failure to report the drift ends the recovery.
ResumeDrift ==
  /\ At("resumeDrift")
  /\ SetRequest(op.req, "superseded")
  /\ Leave \/ (WritesFail /\ op' = Idle)
  /\ UNCHANGED <<currentGate, stage, attempts, packages, output, coverage, policy,
                 evaluation>>

ResumeReject ==
  /\ At("resumeReject")
  /\ Transition(op.att, "rejected", "pick")
  /\ UNCHANGED <<currentGate, stage, packages, requests, output, coverage, policy,
                 evaluation>>

-----------------------------------------------------------------------------
Rpc == \/ StartActivity
       \/ \E g \in Gates : Evaluate(g) \/ RequestRelease(g) \/ FreezeBaseline(g)
       \/ \E r \in RequestIds, v \in Verdicts : DecideRelease(r, v)
       \/ \E g \in Gates, c \in Contents : VerifyEvidence(g, c)
       \/ ImportRequirements \/ CreateDraft
       \/ \E g \in Gates : RecordEvidence(g)
       \/ \E p \in Policies : ChangePolicy(p)
       \/ \E r \in RequestIds : ExpireApproval(r)

Ensure == EnsureActive \/ TakeSnapshot \/ AdvanceToReviewReady \/ Return
Request == AbortOrphans \/ FreezePackage \/ NewPackage \/ InsertRequest
             \/ CreateApproval \/ LinkApproval \/ AwaitApproval
Decide == ExpireRequest \/ SupersedeDrifted \/ ExpireDrifted \/ RecordVerdict
            \/ RejectAttempt \/ RejectRequest
            \/ ChangeAttempt \/ ReworkAttempt \/ ChangeRequest
Complete == ApproveAttempt \/ PassGate \/ CreateNext \/ SnapshotNext \/ ApproveRequest
Invalidate == InvalidateRequest \/ InvalidateApproval \/ InvalidateChange
                \/ InvalidateRun \/ StartWork \/ Freeze \/ MarkStale
Recover == Fail \/ Crash \/ Boot \/ PickPending \/ ResumeDrift \/ ResumeReject

Next == Rpc \/ Ensure \/ Request \/ Decide \/ Complete \/ Invalidate \/ Recover

Spec == Init /\ [][Next]_vars

-----------------------------------------------------------------------------
Attempt == [gate: Gates, state: AttemptStates \union {"none"},
            package: Digests \union {None}]
RequestRow == [att: AttemptIds \union {0}, digest: Digests \union {None},
               linked: BOOLEAN, approval: ApprovalStates \union {"none"},
               state: RequestStates \union {"none"}]

PackageRow == [att: AttemptIds, digest: Digests, evaluated: Contents \union {None}]
Steps ==
  {"idle", "ensure", "snapshot", "advance", "done", "abortOrphans", "package",
   "newPackage", "insert", "approval", "link", "await", "expireRequest",
   "driftRequest", "driftApproval", "decide", "approve", "pass", "next",
   "nextSnapshot", "approveRequest", "reject", "rejectRequest", "change", "rework",
   "changeRequest", "work", "freeze", "invalidate", "invalidateApproval",
   "invalidateChange", "invalidateRun", "stale", "boot", "pick", "resumeDrift",
   "resumeReject"}
Handler == [kind: {"idle", "start", "evaluate", "request", "decide", "record",
                   "freeze", "resume"},
            step: Steps, gate: Gates, att: AttemptIds \union {0},
            req: RequestIds \union {0}, verdict: Verdicts \union {"none"},
            todo: SUBSET RequestIds]

TypeOK ==
  /\ currentGate \in Gates
  /\ stage \in [Gates -> StageStates]
  /\ attempts \in [AttemptIds -> Attempt]
  /\ packages \subseteq PackageRow
  /\ requests \in [RequestIds -> RequestRow]
  /\ output \in [Gates -> Contents]
  /\ coverage \in Coverages
  /\ policy \in Policies
  /\ evaluation \in [Gates -> Contents \union {None}]
  /\ op \in Handler

\* Single active attempt: no sequence of failed writes, restarts and retries
\* gives a work item two active attempts, although complete_approve and
\* ensure_active both create them.  (attempt.rs ACTIVE_STATES, 0017)
SingleActive == \A a, b \in ActiveAttempts : a = b

\* A gate counts as passed only on a human approval of that gate's own attempt,
\* whatever was interrupted on the way.  (complete_approve, pass_gate)
PassedOnApproval ==
  \A g \in Gates : stage[g] = "passed" =>
    \E r \in RequestIds : /\ requests[r].approval = "approved"
                          /\ requests[r].att \in AttemptsOf(g)
                          /\ attempts[requests[r].att].state = "approved"

\* The outcome of a request is the verdict a person gave on its approval, also
\* when the call that carried it was interrupted and repeated.  (decide_release)
OutcomeIsVerdict ==
  \A r \in RequestIds : requests[r].state \in Verdicts =>
    requests[r].approval = requests[r].state

\* Closing a release is the last write of complete_approve: once the request
\* reads approved, its attempt was approved and the next gate has its attempt, in
\* however many calls and restarts the five commits were made.
ApprovedReleaseComplete ==
  \A r \in RequestIds : requests[r].state = "approved" =>
    /\ attempts[requests[r].att].state \in {"approved", "superseded"}
    /\ \A g \in Gates : g = attempts[requests[r].att].gate + 1 => AttemptsOf(g) # {}

\* What withdraws a release wins over what completes it: an attempt becomes approved
\* only on a request of its own that was approved and is still open, and the recovery,
\* which may come long after the verdict, completes none whose output, coverage or
\* permissions have changed since.  (resume_pending, invalidate_pending_if_drift)
ApprovedOnOpenRequest ==
  [][\A a \in AttemptIds :
       attempts[a].state # "approved" /\ attempts'[a].state = "approved" =>
         \E r \in RequestIds : /\ requests[r].att = a
                               /\ requests[r].approval = "approved"
                               /\ requests[r].state = "pending" /\ requests[r].linked
                               /\ op.kind = "resume" => requests[r].digest = Digest(a)]_vars

Recovered == At("pick") /\ op.todo = {}
DecidedPending == {r \in RequestIds : /\ requests[r].state = "pending"
                                      /\ requests[r].linked
                                      /\ requests[r].approval \in Verdicts}

\* A restart loses no approval: when the recovery is through, no attempt still
\* waits for a decision that was already given in its favour.  (resume_pending)
ApprovalsRecovered ==
  Recovered => \A r \in DecidedPending :
    requests[r].approval = "approved" =>
      attempts[requests[r].att].state # "awaiting_user_approval"

-----------------------------------------------------------------------------
(* What the repository says and the code does not keep.  No run checks them: *)
(* the README says where TLC finds each violated.                            *)

\* release.rs in request_release: the old pending request of another digest becomes
\* invalid, so a person is asked once about an attempt.  Not when the new digest is
\* one of which a package is left: the old request then stays.
OnePendingRequest == \A a \in AttemptIds : \A q, r \in LinkedPending(a) : q = r

\* AC-SW-03: an attempt becomes approved only on an approved request of its own
\* whose digest is that of the output, coverage and permissions of that moment.  Not
\* when decideRelease is repeated after the verdict was recorded.
ApprovedDigestIsCurrent ==
  [][\A a \in AttemptIds :
       attempts[a].state # "approved" /\ attempts'[a].state = "approved" =>
         \E r \in RequestIds : /\ requests[r].att = a
                               /\ requests[r].approval = "approved"
                               /\ requests[r].digest = Digest(a)]_vars

\* release.rs on resume_pending: release requests whose approval was decided but
\* whose advance was not finished are completed at startup.
ResumeCompletes == Recovered => DecidedPending = {}

\* release.rs in request_release: an evaluation that passed is stale once the
\* output, the evidence or an approval changed, so a package is bound to an
\* evaluation of its own content.
EvaluationFresh == \A p \in packages : p.evaluated = p.digest.content

\* attempt.rs on ensure_active: its callers guarantee the projection's
\* consistency, so the active attempt belongs to the gate the work item is on.
ActiveOnCurrentGate == \A a \in ActiveAttempts : attempts[a].gate = currentGate
=============================================================================
