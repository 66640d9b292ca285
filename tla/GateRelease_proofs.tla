------------------------- MODULE GateRelease_proofs -------------------------
(* Proofs about GateRelease, for every number of gates, rows, contents and   *)
(* policies, with write failures, restarts and time limits.                  *)
EXTENDS GateRelease, TLAPS

-----------------------------------------------------------------------------
(* Rows and the running handler refer to rows that exist.                   *)

RowsKnown ==
  \A r \in RequestIds :
    /\ requests[r].state # "none" => requests[r].att \in AttemptIds
    /\ requests[r].state = "none" => requests[r].approval = "none" /\ ~requests[r].linked

\* Steps at which the handler works on an attempt, and on a request.
AttemptSteps == {"snapshot", "advance", "abortOrphans", "package", "newPackage",
  "insert", "approval", "link", "await", "work", "freeze", "approve", "pass",
  "next", "nextSnapshot", "approveRequest", "reject", "rejectRequest", "change",
  "rework", "changeRequest", "invalidateApproval", "invalidateChange",
  "invalidateRun", "resumeReject", "resumeDrift", "expireRequest", "driftRequest",
  "driftApproval", "decide"}
RequestSteps == {"approval", "link", "await", "approve", "pass", "next",
  "nextSnapshot", "approveRequest", "reject", "rejectRequest", "change",
  "rework", "changeRequest", "invalidateApproval", "invalidateChange",
  "invalidateRun", "resumeReject", "resumeDrift", "expireRequest", "driftRequest",
  "driftApproval", "decide"}

OpKnown ==
  /\ op.step \in AttemptSteps => op.att \in AttemptIds
  /\ op.step \in RequestSteps => op.req \in RequestIds /\ requests[op.req].state # "none"
  /\ \A r \in op.todo : requests[r].state # "none"
  /\ op.step = "decide" => op.verdict \in Verdicts

TypeInv == TypeOK /\ RowsKnown /\ OpKnown

USE NGatesAssumption, BoundsAssumption, PoliciesAssumption, SwitchesAssumption

LEMMA OneIsGate == 1 \in Gates
  BY DEF Gates

LEMMA IdleType == Idle \in Handler
  BY OneIsGate DEF Idle, Handler, Steps

LEMMA InitType == Init => TypeInv
<1> SUFFICES ASSUME Init PROVE TypeInv
  OBVIOUS
<1>1. attempts \in [AttemptIds -> Attempt]
  BY OneIsGate DEF Init, NoAttempt, Attempt
<1>2. requests \in [RequestIds -> RequestRow]
  BY DEF Init, NoRequest, RequestRow
<1>3. op \in Handler
  BY IdleType DEF Init
<1>4. /\ currentGate \in Gates /\ output \in [Gates -> Contents]
      /\ stage \in [Gates -> StageStates]
      /\ evaluation \in [Gates -> Contents \union {None}]
      /\ coverage \in Coverages
  BY OneIsGate DEF Init, Contents, StageStates, Coverages
<1>5. packages \subseteq PackageRow /\ policy \in Policies
  BY DEF Init
<1>6. RowsKnown
  BY DEF Init, NoRequest, RowsKnown
<1>7. OpKnown
  BY DEF Init, Idle, OpKnown, AttemptSteps, RequestSteps
<1> QED
  BY <1>1, <1>2, <1>3, <1>4, <1>5, <1>6, <1>7 DEF TypeInv, TypeOK

-----------------------------------------------------------------------------
(* What the small updates the actions are made of do.                       *)

\* The steps a handler may go on to from here.
Steppable(s) ==
  /\ s \in Steps
  /\ s \in AttemptSteps => op.att \in AttemptIds
  /\ s \in RequestSteps => op.req \in RequestIds /\ requests[op.req].state # "none"
  /\ s = "decide" => op.verdict \in Verdicts

\* No request row disappears or changes its attempt.
RequestsKept ==
  \A r \in RequestIds : requests[r].state # "none" =>
    requests'[r].state # "none" /\ requests'[r].att = requests[r].att

LEMMA GotoHandler ==
  ASSUME op \in Handler, NEW s \in Steps, Goto(s)
  PROVE  /\ op' \in Handler
         /\ op'.step = s /\ op'.att = op.att /\ op'.req = op.req
         /\ op'.todo = op.todo /\ op'.verdict = op.verdict
         /\ op'.kind = op.kind /\ op'.gate = op.gate
  BY DEF Goto, Handler

LEMMA GotoKnown ==
  ASSUME op \in Handler, OpKnown, RequestsKept, NEW s, Steppable(s), Goto(s)
  PROVE  op' \in Handler /\ OpKnown'
<1>1. s \in Steps
  BY DEF Steppable
<1>2. /\ op' \in Handler
      /\ op'.step = s /\ op'.att = op.att /\ op'.req = op.req
      /\ op'.todo = op.todo /\ op'.verdict = op.verdict
  BY <1>1, GotoHandler
<1>3. op.todo \subseteq RequestIds
  BY DEF Handler
<1> QED
  BY <1>2, <1>3 DEF OpKnown, Steppable, RequestsKept

LEMMA IdleKnown == op' = Idle => op' \in Handler /\ OpKnown'
  BY IdleType DEF Idle, OpKnown, AttemptSteps, RequestSteps

LEMMA LeaveKnown ==
  ASSUME op \in Handler, OpKnown, RequestsKept, Leave
  PROVE  op' \in Handler /\ OpKnown' /\ op'.step \in {"idle", "pick"}
<1>1. CASE op.kind = "resume"
  <2>1. Goto("pick")
    BY <1>1 DEF Leave, Goto
  <2>2. Steppable("pick")
    BY DEF Steppable, Steps, AttemptSteps, RequestSteps
  <2>3. "pick" \in Steps
    BY DEF Steps
  <2> QED
    BY <2>1, <2>2, <2>3, GotoKnown, GotoHandler
<1>2. CASE op.kind # "resume"
  BY <1>2, IdleKnown DEF Leave, Idle
<1> QED
  BY <1>1, <1>2

LEMMA CallKnown ==
  ASSUME NEW k \in {"start", "evaluate", "request", "freeze", "record"},
         NEW s \in {"ensure", "invalidate"}, NEW g \in Gates, Call(k, s, g)
  PROVE  op' \in Handler /\ OpKnown' /\ op'.step = s
<1>1. op' = [kind |-> k, step |-> s, gate |-> g, att |-> 0, req |-> 0,
             verdict |-> "none", todo |-> {}]
  BY DEF Call, Idle
<1>2. op' \in Handler /\ op'.step = s
  BY <1>1 DEF Handler, Steps
<1>3. s \notin AttemptSteps /\ s \notin RequestSteps /\ s # "decide"
  BY DEF AttemptSteps, RequestSteps
<1> QED
  BY <1>1, <1>2, <1>3 DEF OpKnown

LEMMA SetAttemptType ==
  ASSUME attempts \in [AttemptIds -> Attempt], NEW a, NEW s \in AttemptStates,
         SetAttempt(a, s)
  PROVE  attempts' \in [AttemptIds -> Attempt]
  BY DEF SetAttempt, Attempt

LEMMA TransitionType ==
  ASSUME attempts \in [AttemptIds -> Attempt], NEW a, NEW to \in AttemptStates,
         NEW next, Transition(a, to, next)
  PROVE  attempts' \in [AttemptIds -> Attempt] /\ (Goto(next) \/ Leave)
  BY SetAttemptType DEF Transition

LEMMA SetRequestType ==
  ASSUME requests \in [RequestIds -> RequestRow], RowsKnown,
         NEW r \in RequestIds, requests[r].state # "none",
         NEW s \in RequestStates, SetRequest(r, s)
  PROVE  requests' \in [RequestIds -> RequestRow] /\ RowsKnown' /\ RequestsKept
<1>1. requests' \in [RequestIds -> RequestRow]
  BY DEF SetRequest, RequestRow
<1>2. \A q \in RequestIds : q # r => requests'[q] = requests[q]
  BY DEF SetRequest
<1>3. requests'[r].att = requests[r].att /\ requests'[r].state = s
  BY DEF SetRequest, RequestRow
<1>4. s # "none"
  BY DEF RequestStates
<1> QED
  BY <1>1, <1>2, <1>3, <1>4 DEF RowsKnown, RequestsKept

LEMMA SetApprovalType ==
  ASSUME requests \in [RequestIds -> RequestRow], RowsKnown,
         NEW r \in RequestIds, requests[r].state # "none",
         NEW s \in ApprovalStates, SetApproval(r, s)
  PROVE  requests' \in [RequestIds -> RequestRow] /\ RowsKnown' /\ RequestsKept
<1>1. requests' \in [RequestIds -> RequestRow]
  BY DEF SetApproval, RequestRow
<1>2. \A q \in RequestIds : q # r => requests'[q] = requests[q]
  BY DEF SetApproval
<1>3. requests'[r].att = requests[r].att /\ requests'[r].state = requests[r].state
  BY DEF SetApproval, RequestRow
<1> QED
  BY <1>1, <1>2, <1>3 DEF RowsKnown, RequestsKept

LEMMA SameRequests ==
  ASSUME RowsKnown, UNCHANGED requests PROVE RowsKnown' /\ RequestsKept
  BY DEF RowsKnown, RequestsKept

-----------------------------------------------------------------------------
(* TypeInv is inductive: one step per action.                               *)

\* The tables an action may write apart from the requests.
Tables ==
  /\ currentGate \in Gates
  /\ stage \in [Gates -> StageStates]
  /\ attempts \in [AttemptIds -> Attempt]
  /\ packages \subseteq PackageRow
  /\ output \in [Gates -> Contents]
  /\ coverage \in Coverages
  /\ policy \in Policies
  /\ evaluation \in [Gates -> Contents \union {None}]

LEMMA Assemble ==
  TypeInv <=> /\ Tables /\ RowsKnown /\ OpKnown /\ op \in Handler
              /\ requests \in [RequestIds -> RequestRow]
  BY DEF TypeInv, TypeOK, Tables

LEMMA AssembleNext ==
  ASSUME Tables', RowsKnown', OpKnown', op' \in Handler,
         requests' \in [RequestIds -> RequestRow]
  PROVE  TypeInv'
  BY DEF TypeInv, TypeOK, Tables

LEMMA DigestType ==
  ASSUME TypeInv, NEW a \in AttemptIds
  PROVE  Digest(a) \in Digests
  BY DEF Digest, Digests, TypeInv, TypeOK, Attempt

LEMMA PendingType ==
  ASSUME TypeInv, NEW r \in RequestIds, requests[r].state # "none"
  PROVE  requests[r].att \in AttemptIds /\ attempts[requests[r].att].gate \in Gates
  BY DEF TypeInv, TypeOK, RowsKnown, Attempt

\* More items become covered or verified.
LEMMA MoreItems ==
  ASSUME coverage \in Coverages
  PROVE  /\ \A n \in coverage.covered .. coverage.total :
              [coverage EXCEPT !.covered = n] \in Coverages
         /\ \A n \in coverage.verified .. coverage.total :
              [coverage EXCEPT !.verified = n] \in Coverages
  BY DEF Coverages

LEMMA RpcType == TypeInv /\ Rpc => TypeInv'
<1> SUFFICES ASSUME TypeInv, Rpc PROVE TypeInv'
  OBVIOUS
<1> USE Assemble
<1>1. CASE StartActivity
  <2>1. op' \in Handler /\ OpKnown'
    BY <1>1, CallKnown DEF StartActivity, Tables
  <2> QED
    BY <1>1, <2>1, SameRequests, AssembleNext DEF StartActivity, Tables
<1>2. ASSUME NEW g \in Gates, Evaluate(g) PROVE TypeInv'
  <2>1. op' \in Handler /\ OpKnown'
    BY <1>2, CallKnown DEF Evaluate, OpKnown
  <2>2. Tables'
    BY <1>2 DEF Evaluate, Tables
  <2> QED
    BY <1>2, <2>1, <2>2, SameRequests, AssembleNext DEF Evaluate
<1>3. ASSUME NEW g \in Gates, RequestRelease(g) PROVE TypeInv'
  <2>1. op' \in Handler /\ OpKnown'
    BY <1>3, CallKnown DEF RequestRelease
  <2> QED
    BY <1>3, <2>1, SameRequests, AssembleNext DEF RequestRelease, Tables
<1>4. ASSUME NEW g \in Gates, FreezeBaseline(g) PROVE TypeInv'
  <2>1. op' \in Handler /\ OpKnown'
    BY <1>4, CallKnown DEF FreezeBaseline
  <2> QED
    BY <1>4, <2>1, SameRequests, AssembleNext DEF FreezeBaseline, Tables
<1>5. ASSUME NEW r \in RequestIds, NEW v \in Verdicts, DecideRelease(r, v)
      PROVE  TypeInv'
  <2>1. requests[r].state # "none"
    BY <1>5 DEF DecideRelease
  <2>2. PICK s \in {"expireRequest", "driftRequest", "decide", FirstStep(v)} :
          op' = [Idle EXCEPT !.kind = "decide", !.step = s, !.req = r, !.verdict = v,
                             !.att = requests[r].att,
                             !.gate = attempts[requests[r].att].gate]
    BY <1>5 DEF DecideRelease
  <2>3. s \in Steps
    BY DEF FirstStep, Steps
  <2>4. op' = [kind |-> "decide", step |-> s, gate |-> attempts[requests[r].att].gate,
               att |-> requests[r].att, req |-> r, verdict |-> v, todo |-> {}]
    BY <2>2 DEF Idle
  <2>5. op' \in Handler
    BY <2>1, <2>3, <2>4, PendingType DEF Handler
  <2>6. requests' = requests
    BY <1>5 DEF DecideRelease
  <2>7. OpKnown'
    BY <2>1, <2>4, <2>6, PendingType DEF OpKnown
  <2> QED
    BY <1>5, <2>5, <2>7, SameRequests, AssembleNext DEF DecideRelease, Tables
<1>6. ASSUME NEW g \in Gates, RecordEvidence(g) PROVE TypeInv'
  <2>1. op' \in Handler /\ OpKnown'
    BY <1>6, CallKnown DEF RecordEvidence
  <2>2. output' \in [Gates -> Contents] /\ coverage' \in Coverages
    BY <1>6, MoreItems DEF RecordEvidence, Tables
  <2> QED
    BY <1>6, <2>1, <2>2, SameRequests, AssembleNext DEF RecordEvidence, Tables
<1>7. ASSUME NEW g \in Gates, NEW c \in Contents, VerifyEvidence(g, c) PROVE TypeInv'
  BY <1>7, AssembleNext DEF VerifyEvidence, Tables, RowsKnown, OpKnown
<1>8. CASE ImportRequirements
  <2>1. coverage' \in Coverages
    BY <1>8 DEF ImportRequirements, Coverages
  <2> QED
    BY <1>8, <2>1, AssembleNext DEF ImportRequirements, Tables, RowsKnown, OpKnown
<1>9. ASSUME NEW p \in Policies, ChangePolicy(p) PROVE TypeInv'
  BY <1>9, AssembleNext DEF ChangePolicy, Tables, RowsKnown, OpKnown
<1>10. ASSUME NEW r \in RequestIds, ExpireApproval(r) PROVE TypeInv'
  <2>1. requests[r].state # "none"
    BY <1>10 DEF ExpireApproval, RowsKnown
  <2>2. "expired" \in ApprovalStates
    BY DEF ApprovalStates
  <2>3. requests' \in [RequestIds -> RequestRow] /\ RowsKnown' /\ RequestsKept
    BY <1>10, <2>1, <2>2, SetApprovalType DEF ExpireApproval
  <2>4. op' \in Handler /\ OpKnown'
    BY <1>10, <2>3 DEF ExpireApproval, OpKnown, RequestsKept, Handler
  <2> QED
    BY <1>10, <2>3, <2>4, AssembleNext DEF ExpireApproval, Tables
<1>11. CASE CreateDraft
  <2>1. op' \in Handler /\ OpKnown'
    BY <1>11, CallKnown DEF CreateDraft, Tables
  <2>2. coverage' \in Coverages
    BY <1>11, MoreItems DEF CreateDraft, Tables
  <2> QED
    BY <1>11, <2>1, <2>2, SameRequests, AssembleNext DEF CreateDraft, Tables
<1> QED
  BY <1>1, <1>2, <1>3, <1>4, <1>5, <1>6, <1>7, <1>8, <1>9, <1>10, <1>11 DEF Rpc

LEMMA GotoType ==
  ASSUME TypeInv, NEW s, Steppable(s), Goto(s), Tables', UNCHANGED requests
  PROVE  TypeInv'
  BY Assemble, AssembleNext, GotoKnown, SameRequests

LEMMA LeaveType ==
  ASSUME TypeInv, Leave, Tables', UNCHANGED requests
  PROVE  TypeInv'
  BY Assemble, AssembleNext, LeaveKnown, SameRequests

LEMMA MoveType ==
  ASSUME TypeInv, NEW a, NEW to \in AttemptStates, NEW next, Steppable(next),
         Transition(a, to, next),
         UNCHANGED <<currentGate, stage, packages, requests, output, coverage, policy,
                     evaluation>>
  PROVE  TypeInv'
<1>1. attempts' \in [AttemptIds -> Attempt] /\ (Goto(next) \/ Leave)
  BY TransitionType, Assemble DEF Tables
<1>2. Tables'
  BY <1>1, Assemble DEF Tables
<1> QED
  BY <1>1, <1>2, GotoType, LeaveType

LEMMA InsertAttemptType ==
  ASSUME attempts \in [AttemptIds -> Attempt], NEW a, NEW g \in Gates,
         InsertAttempt(a, g)
  PROVE  attempts' \in [AttemptIds -> Attempt]
<1>1. NoAttempt \in Attempt
  BY OneIsGate DEF NoAttempt, Attempt
<1>2. [NoAttempt EXCEPT !.gate = g, !.state = "preparing"] \in Attempt
  BY <1>1 DEF Attempt, AttemptStates
<1> QED
  BY <1>2 DEF InsertAttempt

LEMMA PrepareType ==
  ASSUME TypeInv, NEW a, NEW next, Steppable(next), Prepare(a, next),
         UNCHANGED <<currentGate, stage, packages, requests, output, coverage, policy,
                     evaluation>>
  PROVE  TypeInv'
<1>1. attempts' \in [AttemptIds -> Attempt] /\ (Goto(next) \/ Leave)
  BY SetAttemptType, Assemble DEF Prepare, Tables, AttemptStates, ActiveStates
<1>2. Tables'
  BY <1>1, Assemble DEF Tables
<1> QED
  BY <1>1, <1>2, GotoType, LeaveType

LEMMA EnsureType == TypeInv /\ Ensure => TypeInv'
<1> SUFFICES ASSUME TypeInv, Ensure PROVE TypeInv'
  OBVIOUS
<1> USE Assemble
<1>a. op.gate \in Gates
  BY DEF Handler
<1>1. CASE EnsureActive
  <2>1. UNCHANGED requests
    BY <1>1 DEF EnsureActive
  <2>2. CASE UNCHANGED attempts /\ Leave
    BY <1>1, <2>2, LeaveType DEF EnsureActive, Tables
  <2>3. ASSUME NEW a \in ActiveFor(op.gate), UNCHANGED attempts,
               op' = [op EXCEPT !.att = a, !.step = AfterEnsure]
        PROVE  TypeInv'
    <3>1. a \in AttemptIds
      BY DEF ActiveFor, ActiveAttempts
    <3>2. AfterEnsure \in Steps /\ AfterEnsure \notin RequestSteps /\ AfterEnsure # "decide"
      BY DEF AfterEnsure, Steps, RequestSteps
    <3>3. op' \in Handler
      BY <2>3, <3>1, <3>2 DEF Handler
    <3>4. op'.att = a /\ op'.step = AfterEnsure /\ op'.todo = op.todo
      BY <2>3 DEF Handler
    <3>5. OpKnown'
      BY <2>1, <3>1, <3>2, <3>4 DEF OpKnown
    <3> QED
      BY <1>1, <2>3, <3>3, <3>5, SameRequests, AssembleNext DEF EnsureActive, Tables
  <2>4. ASSUME NEW a \in FreshAttempt, InsertAttempt(a, op.gate),
               op' = [op EXCEPT !.att = a, !.step = "snapshot"]
        PROVE  TypeInv'
    <3>1. a \in AttemptIds
      BY DEF FreshAttempt
    <3>3. op' \in Handler
      BY <2>4, <3>1 DEF Handler, Steps
    <3>4. op'.att = a /\ op'.step = "snapshot" /\ op'.todo = op.todo
      BY <2>4 DEF Handler
    <3>5. OpKnown'
      BY <2>1, <3>1, <3>4 DEF OpKnown, RequestSteps
    <3>6. Tables'
      BY <1>1, <1>a, <2>4, InsertAttemptType DEF EnsureActive, Tables
    <3> QED
      BY <2>1, <3>3, <3>5, <3>6, SameRequests, AssembleNext
  <2> QED
    BY <1>1, <2>2, <2>3, <2>4 DEF EnsureActive
<1>2. CASE TakeSnapshot
  <2>1. op.att \in AttemptIds
    BY <1>2 DEF TakeSnapshot, At, OpKnown, AttemptSteps
  <2>2. Steppable(AfterEnsure)
    BY <2>1 DEF Steppable, AfterEnsure, Steps, RequestSteps
  <2> QED
    BY <1>2, <2>2, PrepareType DEF TakeSnapshot
<1>3. CASE AdvanceToReviewReady
  <2>1. op.att \in AttemptIds
    BY <1>3 DEF AdvanceToReviewReady, At, OpKnown, AttemptSteps
  <2>2. Steppable("advance") /\ Steppable(AfterAdvance)
    BY <2>1 DEF Steppable, AfterAdvance, Steps, RequestSteps
  <2>3. attempts' \in [AttemptIds -> Attempt]
    BY <1>3, SetAttemptType DEF AdvanceToReviewReady, Tables, AttemptStates, ActiveStates
  <2>4. Tables' /\ UNCHANGED requests
    BY <1>3, <2>3 DEF AdvanceToReviewReady, Tables
  <2>5. Goto("advance") \/ Goto(AfterAdvance)
    BY <1>3 DEF AdvanceToReviewReady
  <2> QED
    BY <2>2, <2>4, <2>5, GotoType
<1>4. CASE Return
  BY <1>4, LeaveType DEF Return, Tables
<1> QED
  BY <1>1, <1>2, <1>3, <1>4 DEF Ensure

\* A request of the handler is moved and the handler goes on or returns.
LEMMA RequestMoveType ==
  ASSUME TypeInv, op.req \in RequestIds, requests[op.req].state # "none",
         \/ \E s \in RequestStates : SetRequest(op.req, s)
         \/ \E s \in ApprovalStates : SetApproval(op.req, s)
         \/ UNCHANGED requests,
         Leave \/ op' = Idle \/ \E s : Steppable(s) /\ Goto(s),
         Tables'
  PROVE  TypeInv'
<1>1. requests' \in [RequestIds -> RequestRow] /\ RowsKnown' /\ RequestsKept
  BY Assemble, SetRequestType, SetApprovalType, SameRequests
<1>2. op' \in Handler /\ OpKnown'
  BY <1>1, Assemble, LeaveKnown, GotoKnown, IdleKnown
<1> QED
  BY <1>1, <1>2, AssembleNext

LEMMA ReturnedKnown ==
  ASSUME NEW a, NEW r \in PendingFor(a)
  PROVE  r \in RequestIds /\ requests[r].state = "pending" /\ requests[r].att = a
  BY DEF PendingFor, LinkedPending

LEMMA RequestType == TypeInv /\ Request => TypeInv'
<1> SUFFICES ASSUME TypeInv, Request PROVE TypeInv'
  OBVIOUS
<1> USE Assemble
<1>a. ASSUME op.step \in {"abortOrphans", "package", "newPackage", "insert"}
      PROVE  /\ op.att \in AttemptIds
             /\ Steppable("package") /\ Steppable("newPackage") /\ Steppable("insert")
  BY <1>a DEF OpKnown, Steppable, Steps, AttemptSteps, RequestSteps
<1>b. ASSUME op.step \in {"approval", "link", "await"}
      PROVE  /\ op.att \in AttemptIds
             /\ op.req \in RequestIds /\ requests[op.req].state # "none"
             /\ Steppable("link") /\ Steppable("await") /\ Steppable("done")
  BY <1>b DEF OpKnown, Steppable, Steps, AttemptSteps, RequestSteps
<1>1. CASE AbortOrphans
  <2>1. op.att \in AttemptIds /\ Steppable("package")
    BY <1>1, <1>a DEF AbortOrphans, At
  <2>2. \A r \in RequestIds :
          requests'[r] = requests[r] \/
            (requests[r].state = "pending" /\
               requests'[r] = [requests[r] EXCEPT !.state = "superseded"])
    BY <1>1 DEF AbortOrphans
  <2>3. requests' \in [RequestIds -> RequestRow] /\ RequestsKept /\ RowsKnown'
    <3>1. \A r \in RequestIds : [requests[r] EXCEPT !.state = "superseded"] \in RequestRow
      BY DEF RequestRow, RequestStates
    <3>2. requests' \in [RequestIds -> RequestRow]
      BY <1>1, <3>1 DEF AbortOrphans
    <3>3. ASSUME NEW r \in RequestIds
          PROVE  /\ requests'[r].att = requests[r].att
                 /\ requests'[r].state = "none" <=> requests[r].state = "none"
                 /\ requests'[r].approval = requests[r].approval
                 /\ requests'[r].linked = requests[r].linked
      BY <2>2 DEF RequestRow
    <3> QED
      BY <3>2, <3>3 DEF RequestsKept, RowsKnown
  <2> QED
    BY <1>1, <2>1, <2>3, GotoKnown, AssembleNext DEF AbortOrphans, Tables
<1>2. CASE FreezePackage
  <2>1. op.att \in AttemptIds /\ Steppable("newPackage") /\ Steppable("insert")
    BY <1>2, <1>a DEF FreezePackage, At
  <2>2. Tables'
    BY <1>2 DEF FreezePackage, Tables
  <2>3. CASE UNCHANGED requests /\ Leave
    BY <2>2, <2>3, LeaveType
  <2>4. CASE UNCHANGED requests /\ (Goto("insert") \/ Goto("newPackage"))
    BY <2>1, <2>2, <2>4, GotoType
  <2>5. ASSUME NEW r \in PendingFor(op.att), SetRequest(r, "superseded"), Goto("newPackage")
        PROVE  TypeInv'
    <3>1. r \in RequestIds /\ requests[r].state # "none"
      BY <2>5, ReturnedKnown
    <3>2. requests' \in [RequestIds -> RequestRow] /\ RowsKnown' /\ RequestsKept
      BY <2>5, <3>1, SetRequestType DEF RequestStates
    <3> QED
      BY <2>1, <2>2, <2>5, <3>2, GotoKnown, AssembleNext
  <2> QED
    BY <1>2, <2>3, <2>4, <2>5 DEF FreezePackage
<1>3. CASE NewPackage
  <2>1. op.att \in AttemptIds /\ Steppable("insert")
    BY <1>3, <1>a DEF NewPackage, At
  <2>2. evaluation[op.gate] \in Contents \union {None}
    BY DEF Tables, Handler
  <2>3. packages' \subseteq PackageRow
    BY <1>3, <2>1, <2>2, DigestType DEF NewPackage, PackageRow, Tables
  <2> QED
    BY <1>3, <2>1, <2>3, GotoType DEF NewPackage, Tables
<1>4. CASE InsertRequest
  <2>1. op.att \in AttemptIds
    BY <1>4, <1>a DEF InsertRequest, At
  <2>2. Tables'
    BY <1>4 DEF InsertRequest, Tables
  <2>3. CASE Leave /\ UNCHANGED requests
    BY <2>2, <2>3, LeaveType
  <2>4. ASSUME NEW r \in FreshRequest,
               requests' = [requests EXCEPT ![r] =
                   [att |-> op.att, digest |-> Digest(op.att), linked |-> FALSE,
                    approval |-> "none", state |-> "pending"]],
               op' = [op EXCEPT !.req = r, !.step = "approval"]
        PROVE  TypeInv'
    <3>1. r \in RequestIds /\ requests[r].state = "none"
      BY DEF FreshRequest
    <3>2. [att |-> op.att, digest |-> Digest(op.att), linked |-> FALSE,
           approval |-> "none", state |-> "pending"] \in RequestRow
      BY <2>1, DigestType DEF RequestRow, RequestStates
    <3>3. requests' \in [RequestIds -> RequestRow]
      BY <2>4, <3>2
    <3>4. /\ \A q \in RequestIds : q # r => requests'[q] = requests[q]
          /\ requests'[r].state = "pending" /\ requests'[r].att = op.att
      BY <2>4, <3>1
    <3>5. RequestsKept /\ RowsKnown'
      BY <2>1, <3>1, <3>4 DEF RequestsKept, RowsKnown
    <3>6. op' \in Handler
      BY <2>4, <3>1 DEF Handler, Steps
    <3>7. op'.req = r /\ op'.step = "approval" /\ op'.att = op.att /\ op'.todo = op.todo
      BY <2>4 DEF Handler
    <3>8. op.todo \subseteq RequestIds
      BY DEF Handler
    <3>9. OpKnown'
      BY <2>1, <3>1, <3>4, <3>5, <3>7, <3>8 DEF OpKnown, RequestsKept
    <3> QED
      BY <2>2, <3>3, <3>5, <3>6, <3>9, AssembleNext
  <2> QED
    BY <1>4, <2>3, <2>4 DEF InsertRequest
<1>5. CASE CreateApproval
  <2>1. "requested" \in ApprovalStates
    BY DEF ApprovalStates
  <2> QED
    BY <1>5, <1>b, <2>1, RequestMoveType DEF CreateApproval, At, Tables
<1>6. CASE LinkApproval
  <2>1. /\ op.att \in AttemptIds /\ op.req \in RequestIds /\ Steppable("await")
        /\ requests[op.req].state # "none"
    BY <1>6, <1>b DEF LinkApproval, At
  <2>2. attempts' \in [AttemptIds -> Attempt]
    BY <1>6, <2>1, DigestType DEF LinkApproval, Tables, Attempt
  <2>3. requests' \in [RequestIds -> RequestRow]
    BY <1>6 DEF LinkApproval, RequestRow
  <2>4. /\ \A q \in RequestIds : q # op.req => requests'[q] = requests[q]
        /\ requests'[op.req].att = requests[op.req].att
        /\ requests'[op.req].state = requests[op.req].state
    BY <1>6 DEF LinkApproval, RequestRow
  <2>5. RowsKnown' /\ RequestsKept
    BY <2>1, <2>4 DEF RowsKnown, RequestsKept
  <2> QED
    BY <1>6, <2>1, <2>2, <2>3, <2>5, GotoKnown, AssembleNext DEF LinkApproval, Tables
<1>7. CASE AwaitApproval
  <2>1. "awaiting_user_approval" \in AttemptStates
    BY DEF AttemptStates, ActiveStates
  <2> QED
    BY <1>7, <1>b, <2>1, MoveType DEF AwaitApproval, At
<1> QED
  BY <1>1, <1>2, <1>3, <1>4, <1>5, <1>6, <1>7 DEF Request

\* Between these steps the handler works on one request and its attempt.
LEMMA DecideSteps ==
  ASSUME TypeInv, op.step \in RequestSteps,
         NEW s \in {"driftApproval", "pass", "next", "nextSnapshot", "approveRequest",
                    "approve", "reject", "rejectRequest", "change", "rework",
                    "changeRequest", "invalidateApproval", "invalidateChange",
                    "invalidateRun", "stale", "done", "pick"}
  PROVE  /\ Steppable(s)
         /\ op.req \in RequestIds /\ requests[op.req].state # "none"
         /\ op.att \in AttemptIds
<1>1. op.step \in AttemptSteps
  BY DEF AttemptSteps, RequestSteps
<1>2. s \in Steps /\ s # "decide"
  BY DEF Steps
<1> QED
  BY <1>1, <1>2 DEF TypeInv, OpKnown, Steppable

LEMMA DecideType == TypeInv /\ Decide => TypeInv'
<1> SUFFICES ASSUME TypeInv, Decide PROVE TypeInv'
  OBVIOUS
<1> USE Assemble
<1>a. op.step \in RequestSteps
  BY DEF Decide, ExpireRequest, SupersedeDrifted, ExpireDrifted, RecordVerdict,
     RejectAttempt, RejectRequest, ChangeAttempt, ReworkAttempt, ChangeRequest,
     At, RequestSteps
<1>b. op.req \in RequestIds /\ requests[op.req].state # "none"
  BY <1>a, DecideSteps
<1>c. /\ {"expired", "superseded", "rejected", "changes_requested"} \subseteq RequestStates
      /\ Verdicts \union {"expired"} \subseteq ApprovalStates
      /\ {"rejected", "changes_requested", "running"} \subseteq AttemptStates
  BY DEF RequestStates, ApprovalStates, AttemptStates, ActiveStates
<1>1. CASE ExpireRequest
  BY <1>1, <1>b, <1>c, RequestMoveType DEF ExpireRequest, Tables
<1>2. CASE SupersedeDrifted
  <2>1. Steppable("driftApproval")
    BY <1>a, DecideSteps
  <2> QED
    BY <1>2, <1>b, <1>c, <2>1, RequestMoveType DEF SupersedeDrifted, Tables
<1>3. CASE ExpireDrifted
  BY <1>3, <1>b, <1>c, RequestMoveType DEF ExpireDrifted, Tables
<1>4. CASE RecordVerdict
  <2>1. op.verdict \in Verdicts
    BY <1>4 DEF RecordVerdict, At, OpKnown
  <2>2. Steppable(FirstStep(op.verdict))
    BY <1>a, DecideSteps DEF FirstStep
  <2> QED
    BY <1>4, <1>b, <1>c, <2>1, <2>2, RequestMoveType DEF RecordVerdict, Tables
<1>5. CASE RejectAttempt
  <2>1. Steppable("rejectRequest")
    BY <1>a, DecideSteps
  <2> QED
    BY <1>5, <1>c, <2>1, MoveType DEF RejectAttempt
<1>6. CASE RejectRequest
  BY <1>6, <1>b, <1>c, RequestMoveType DEF RejectRequest, Tables
<1>7. CASE ChangeAttempt
  <2>1. Steppable("rework")
    BY <1>a, DecideSteps
  <2> QED
    BY <1>7, <1>c, <2>1, MoveType DEF ChangeAttempt
<1>8. CASE ReworkAttempt
  <2>1. Steppable("changeRequest")
    BY <1>a, DecideSteps
  <2> QED
    BY <1>8, <1>c, <2>1, MoveType DEF ReworkAttempt
<1>9. CASE ChangeRequest
  <2>1. attempts' \in [AttemptIds -> Attempt]
    BY <1>9 DEF ChangeRequest, Tables, Attempt
  <2>2. Tables'
    BY <1>9, <2>1 DEF ChangeRequest, Tables
  <2> QED
    BY <1>9, <1>b, <1>c, <2>2, RequestMoveType DEF ChangeRequest
<1> QED
  BY <1>1, <1>2, <1>3, <1>4, <1>5, <1>6, <1>7, <1>8, <1>9 DEF Decide

LEMMA CompleteType == TypeInv /\ Complete => TypeInv'
<1> SUFFICES ASSUME TypeInv, Complete PROVE TypeInv'
  OBVIOUS
<1> USE Assemble
<1>a. op.step \in RequestSteps
  BY DEF Complete, ApproveAttempt, PassGate, CreateNext, SnapshotNext,
     ApproveRequest, At, RequestSteps
<1>b. op.req \in RequestIds /\ requests[op.req].state # "none" /\ op.gate \in Gates
  BY <1>a, DecideSteps DEF Handler
<1>1. CASE ApproveAttempt
  <2>1. Steppable("pass") /\ "approved" \in AttemptStates
    BY <1>a, DecideSteps DEF AttemptStates
  <2> QED
    BY <1>1, <2>1, MoveType DEF ApproveAttempt
<1>2. CASE PassGate
  <2>1. Steppable("pass") /\ Steppable("next")
    BY <1>a, DecideSteps
  <2>2. NextGate(op.gate) \in Gates
    BY <1>b DEF NextGate, Gates, Tables
  <2>3. stage' \in [Gates -> StageStates] /\ currentGate' \in Gates
    BY <1>2, <2>2 DEF PassGate, Tables, StageStates
  <2>4. Tables' /\ UNCHANGED requests
    BY <1>2, <2>3 DEF PassGate, Tables
  <2>5. Goto("pass") \/ Goto("next") \/ Leave
    BY <1>2 DEF PassGate
  <2> QED
    BY <2>1, <2>4, <2>5, GotoType, LeaveType
<1>3. CASE CreateNext
  <2>1. Steppable("nextSnapshot") /\ Steppable("approveRequest")
    BY <1>a, DecideSteps
  <2>2. op.gate < NGates => op.gate + 1 \in Gates
    BY <1>b DEF Gates
  <2>3. attempts' \in [AttemptIds -> Attempt]
    BY <1>3, <2>2, InsertAttemptType DEF CreateNext, Tables
  <2>4. Tables' /\ UNCHANGED requests
    BY <1>3, <2>3 DEF CreateNext, Tables
  <2>5. Goto("nextSnapshot") \/ Goto("approveRequest") \/ Leave
    BY <1>3 DEF CreateNext
  <2> QED
    BY <2>1, <2>4, <2>5, GotoType, LeaveType
<1>4. CASE SnapshotNext
  <2>1. Steppable("approveRequest")
    BY <1>a, DecideSteps
  <2> QED
    BY <1>4, <2>1, PrepareType DEF SnapshotNext
<1>5. CASE ApproveRequest
  <2>1. "approved" \in RequestStates
    BY DEF RequestStates
  <2> QED
    BY <1>5, <1>b, <2>1, RequestMoveType DEF ApproveRequest, Tables
<1> QED
  BY <1>1, <1>2, <1>3, <1>4, <1>5 DEF Complete

LEMMA InvalidateType == TypeInv /\ Invalidate => TypeInv'
<1> SUFFICES ASSUME TypeInv, Invalidate PROVE TypeInv'
  OBVIOUS
<1> USE Assemble
<1>a. op.gate \in Gates
  BY DEF Handler
<1>b. Steppable("stale") /\ Steppable("done")
  BY DEF Steppable, Steps, AttemptSteps, RequestSteps
<1>c. {"superseded"} \subseteq RequestStates /\ "expired" \in ApprovalStates
      /\ {"changes_requested", "running", "superseded"} \subseteq AttemptStates
  BY DEF RequestStates, ApprovalStates, AttemptStates, ActiveStates
<1>d. Steppable(AfterInvalidate)
  BY <1>b DEF AfterInvalidate
<1>1. CASE InvalidateRequest
  <2>1. CASE UNCHANGED requests /\ Goto(AfterInvalidate)
    BY <1>1, <1>d, <2>1, GotoType DEF InvalidateRequest, Tables
  <2>2. ASSUME NEW r \in Invalidated(op.gate), SetRequest(r, "superseded"),
               op' = [op EXCEPT !.req = r, !.att = requests[r].att,
                                !.step = "invalidateApproval"]
        PROVE  TypeInv'
    <3>1. r \in RequestIds /\ requests[r].state # "none"
      BY ReturnedKnown DEF Invalidated
    <3>2. requests' \in [RequestIds -> RequestRow] /\ RowsKnown' /\ RequestsKept
      BY <1>c, <2>2, <3>1, SetRequestType
    <3>3. requests[r].att \in AttemptIds
      BY <3>1, PendingType
    <3>4. op' \in Handler
      BY <2>2, <3>1, <3>3 DEF Handler, Steps
    <3>5. /\ op'.req = r /\ op'.att = requests[r].att /\ op'.todo = op.todo
          /\ op'.step = "invalidateApproval" /\ op.todo \subseteq RequestIds
      BY <2>2 DEF Handler
    <3>6. OpKnown'
      BY <3>1, <3>2, <3>3, <3>5 DEF OpKnown, RequestsKept
    <3> QED
      BY <1>1, <3>2, <3>4, <3>6, AssembleNext DEF InvalidateRequest, Tables
  <2> QED
    BY <1>1, <2>1, <2>2 DEF InvalidateRequest
<1>2. CASE InvalidateApproval
  <2>1. op.step \in RequestSteps
    BY <1>2 DEF InvalidateApproval, At, RequestSteps
  <2>2. /\ op.req \in RequestIds /\ requests[op.req].state # "none"
        /\ Steppable("invalidateChange")
    BY <2>1, DecideSteps
  <2> QED
    BY <1>2, <1>c, <2>2, RequestMoveType DEF InvalidateApproval, Tables
<1>3. CASE InvalidateChange
  <2>1. op.step \in RequestSteps
    BY <1>3 DEF InvalidateChange, At, RequestSteps
  <2>2. Steppable("invalidateRun")
    BY <2>1, DecideSteps
  <2> QED
    BY <1>3, <1>c, <2>2, MoveType DEF InvalidateChange
<1>4. CASE InvalidateRun
  BY <1>4, <1>c, <1>d, MoveType DEF InvalidateRun
<1>5. CASE StartWork
  <2>1. Steppable("freeze")
    BY <1>5 DEF StartWork, At, OpKnown, Steppable, Steps, AttemptSteps, RequestSteps
  <2>2. attempts' \in [AttemptIds -> Attempt]
    BY <1>5, <1>c, SetAttemptType DEF StartWork, Tables
  <2> QED
    BY <1>5, <2>1, <2>2, GotoType DEF StartWork, Tables
<1>6. CASE Freeze
  <2>1. Steppable("invalidate")
    BY DEF Steppable, Steps, AttemptSteps, RequestSteps
  <2>2. (output[op.gate] + 1) .. MaxContent \subseteq Contents
    BY <1>a DEF Contents, Tables
  <2>3. output' \in [Gates -> Contents]
    BY <1>6, <2>2 DEF Freeze, Tables
  <2> QED
    BY <1>6, <2>1, <2>3, GotoType DEF Freeze, Tables
<1>7. CASE MarkStale
  <2>1. stage' \in [Gates -> StageStates]
    BY <1>7 DEF MarkStale, Tables, StageStates
  <2>2. attempts' \in [AttemptIds -> Attempt]
    BY <1>7, <1>c, SetAttemptType DEF MarkStale, Tables
  <2>3. Tables' /\ UNCHANGED requests
    BY <1>7, <2>1, <2>2 DEF MarkStale, Tables
  <2>4. Leave \/ UNCHANGED op
    BY <1>7 DEF MarkStale
  <2>5. CASE UNCHANGED op
    BY <2>3, <2>5, AssembleNext DEF RowsKnown, OpKnown
  <2> QED
    BY <2>3, <2>4, <2>5, LeaveType
<1> QED
  BY <1>1, <1>2, <1>3, <1>4, <1>5, <1>6, <1>7 DEF Invalidate

LEMMA RecoverType == TypeInv /\ Recover => TypeInv'
<1> SUFFICES ASSUME TypeInv, Recover PROVE TypeInv'
  OBVIOUS
<1> USE Assemble
<1>1. CASE Fail
  <2>1. Steppable(AfterInvalidate)
    BY DEF AfterInvalidate, Steppable, Steps, AttemptSteps, RequestSteps
  <2>2. Goto(AfterInvalidate) \/ Leave \/ op' = Idle
    BY <1>1 DEF Fail
  <2>3. Tables' /\ UNCHANGED requests
    BY <1>1 DEF Fail, Tables
  <2>4. CASE op' = Idle
    BY <2>3, <2>4, IdleKnown, SameRequests, AssembleNext
  <2> QED
    BY <2>1, <2>2, <2>3, <2>4, GotoType, LeaveType
<1>2. CASE Crash
  <2>1. op' = [kind |-> "resume", step |-> "boot", gate |-> 1, att |-> 0, req |-> 0,
               verdict |-> "none", todo |-> {}]
    BY <1>2 DEF Crash, Idle
  <2>2. op' \in Handler /\ OpKnown'
    BY <2>1, OneIsGate DEF Handler, Steps, OpKnown, AttemptSteps, RequestSteps
  <2> QED
    BY <1>2, <2>2, SameRequests, AssembleNext DEF Crash, Tables
<1>3. CASE Boot
  <2>1. \A r \in RequestIds : [requests[r] EXCEPT !.state = "superseded"] \in RequestRow
    BY DEF RequestRow, RequestStates
  <2>2. requests' \in [RequestIds -> RequestRow]
    BY <1>3, <2>1 DEF Boot
  <2>3. \A r \in RequestIds :
          requests'[r] = requests[r] \/
            (requests[r].state = "pending" /\
               requests'[r] = [requests[r] EXCEPT !.state = "superseded"])
    BY <1>3 DEF Boot
  <2>4. ASSUME NEW r \in RequestIds
        PROVE  /\ requests'[r].att = requests[r].att
               /\ requests'[r].state = "none" <=> requests[r].state = "none"
               /\ requests'[r].approval = requests[r].approval
               /\ requests'[r].linked = requests[r].linked
    BY <2>3 DEF RequestRow
  <2>5. RowsKnown'
    BY <2>2, <2>4 DEF RowsKnown
  <2> DEFINE T == {r \in RequestIds : /\ requests[r].state = "pending"
                                      /\ requests[r].linked
                                      /\ requests[r].approval \in Verdicts}
  <2>6. op' = [op EXCEPT !.step = "pick", !.todo = T]
    BY <1>3 DEF Boot
  <2>7. op' \in Handler
    BY <2>6 DEF Handler, Steps
  <2>8. op'.step = "pick" /\ op'.todo = T
    BY <2>6 DEF Handler
  <2>9. OpKnown'
    BY <2>4, <2>8 DEF OpKnown, AttemptSteps, RequestSteps
  <2> QED
    BY <1>3, <2>2, <2>5, <2>7, <2>9, AssembleNext DEF Boot, Tables
<1>4. CASE PickPending
  <2>1. Tables' /\ UNCHANGED requests
    BY <1>4 DEF PickPending, Tables
  <2>2. CASE op' = Idle
    BY <2>1, <2>2, IdleKnown, SameRequests, AssembleNext
  <2>3. ASSUME NEW r \in op.todo,
               op' = [op EXCEPT !.req = r, !.att = requests[r].att,
                                !.gate = attempts[requests[r].att].gate,
                                !.todo = @ \ {r}, !.step = ResumeStep(r)]
        PROVE  TypeInv'
    <3>1. r \in RequestIds /\ requests[r].state # "none" /\ op.todo \subseteq RequestIds
      BY DEF Handler, OpKnown
    <3>2. requests[r].att \in AttemptIds /\ attempts[requests[r].att].gate \in Gates
      BY <3>1, PendingType
    <3>3. ResumeStep(r) \in Steps /\ ResumeStep(r) # "decide"
      BY DEF ResumeStep, Steps
    <3>4. op' \in Handler
      BY <2>3, <3>1, <3>2, <3>3 DEF Handler
    <3>5. /\ op'.req = r /\ op'.att = requests[r].att
          /\ op'.todo \subseteq op.todo /\ op'.step = ResumeStep(r)
      BY <2>3 DEF Handler
    <3>6. OpKnown'
      BY <2>1, <3>1, <3>2, <3>3, <3>5 DEF OpKnown
    <3> QED
      BY <2>1, <3>4, <3>6, SameRequests, AssembleNext
  <2> QED
    BY <1>4, <2>2, <2>3 DEF PickPending
<1>5. CASE ResumeDrift
  <2>1. op.step \in RequestSteps
    BY <1>5 DEF ResumeDrift, At, RequestSteps
  <2>2. op.req \in RequestIds /\ requests[op.req].state # "none"
    BY <2>1, DecideSteps
  <2> QED
    BY <1>5, <2>2, RequestMoveType DEF ResumeDrift, Tables, RequestStates
<1>6. CASE ResumeReject
  <2>1. Steppable("pick") /\ "rejected" \in AttemptStates
    BY DEF Steppable, Steps, AttemptSteps, RequestSteps, AttemptStates
  <2> QED
    BY <1>6, <2>1, MoveType DEF ResumeReject
<1> QED
  BY <1>1, <1>2, <1>3, <1>4, <1>5, <1>6 DEF Recover

LEMMA NextType == TypeInv /\ [Next]_vars => TypeInv'
<1>1. TypeInv /\ UNCHANGED vars => TypeInv'
  BY DEF vars, TypeInv, TypeOK, RowsKnown, OpKnown
<1> QED
  BY <1>1, RpcType, EnsureType, RequestType, DecideType, CompleteType,
     InvalidateType, RecoverType DEF Next

LEMMA TypeInvariant == Spec => []TypeInv
<1> QED
  BY InitType, NextType, PTL DEF Spec

\* Every table stays within the states of its machine, the rows it refers to
\* exist, and the running handler only works on rows that exist.
THEOREM TypeCorrect == Spec => []TypeOK
<1>1. TypeInv => TypeOK
  BY DEF TypeInv
<1> QED
  BY <1>1, TypeInvariant, PTL

-----------------------------------------------------------------------------
(* SingleActive.  An attempt enters the active states only in Prepare, which *)
(* the unique index guards; every other move stays inside or leaves them.    *)

NoneNew == ActiveAttempts' \subseteq ActiveAttempts

LEMMA SetAttemptActive ==
  ASSUME attempts \in [AttemptIds -> Attempt], NEW a, NEW s \in AttemptStates,
         s \in ActiveStates => attempts[a].state \in ActiveStates,
         SetAttempt(a, s)
  PROVE  NoneNew
<1>1. ASSUME NEW b \in AttemptIds, attempts'[b].state \in ActiveStates
      PROVE  attempts[b].state \in ActiveStates
  BY <1>1 DEF SetAttempt, Attempt
<1> QED
  BY <1>1 DEF NoneNew, ActiveAttempts

LEMMA TransitionActive ==
  ASSUME attempts \in [AttemptIds -> Attempt], NEW a, NEW to \in AttemptStates,
         to # "prepared", NEW next, Transition(a, to, next)
  PROVE  NoneNew
<1>1. CASE UNCHANGED attempts
  BY <1>1 DEF NoneNew, ActiveAttempts
<1>2. CASE <<attempts[a].state, to>> \in AttemptMoves /\ SetAttempt(a, to)
  <2>1. to \in ActiveStates => attempts[a].state \in ActiveStates
    BY <1>2 DEF AttemptMoves, ActiveStates
  <2> QED
    BY <1>2, <2>1, SetAttemptActive
<1> QED
  BY <1>1, <1>2 DEF Transition

LEMMA InsertActive ==
  ASSUME attempts \in [AttemptIds -> Attempt], NEW a, NEW g, InsertAttempt(a, g)
  PROVE  NoneNew
<1>1. ASSUME NEW b \in AttemptIds, attempts'[b].state \in ActiveStates
      PROVE  attempts[b].state \in ActiveStates
  BY <1>1 DEF InsertAttempt, NoAttempt, ActiveStates
<1> QED
  BY <1>1 DEF NoneNew, ActiveAttempts

LEMMA PackageActive ==
  ASSUME attempts \in [AttemptIds -> Attempt], NEW a, NEW p,
         attempts' = [attempts EXCEPT ![a].package = p]
  PROVE  NoneNew
<1>1. ASSUME NEW b \in AttemptIds
      PROVE  attempts'[b].state = attempts[b].state
  BY DEF Attempt
<1> QED
  BY <1>1 DEF NoneNew, ActiveAttempts

LEMMA PrepareActive ==
  ASSUME attempts \in [AttemptIds -> Attempt], SingleActive, NEW a, NEW next,
         Prepare(a, next)
  PROVE  SingleActive'
<1>1. CASE UNCHANGED attempts
  BY <1>1 DEF SingleActive, ActiveAttempts
<1>2. CASE ActiveAttempts = {} /\ SetAttempt(a, "prepared")
  <2>1. \A b \in AttemptIds : b # a => attempts'[b] = attempts[b]
    BY <1>2 DEF SetAttempt
  <2>2. ActiveAttempts' \subseteq {a}
    BY <1>2, <2>1 DEF ActiveAttempts
  <2> QED
    BY <2>2 DEF SingleActive
<1> QED
  BY <1>1, <1>2 DEF Prepare

LEMMA NextActive == TypeInv /\ SingleActive /\ [Next]_vars => SingleActive'
<1> SUFFICES ASSUME TypeInv, SingleActive, [Next]_vars PROVE SingleActive'
  OBVIOUS
<1> USE Assemble
<1>a. attempts \in [AttemptIds -> Attempt]
  BY DEF Tables
<1>b. NoneNew => SingleActive'
  BY DEF NoneNew, SingleActive
<1>c. UNCHANGED attempts => NoneNew
  BY DEF NoneNew, ActiveAttempts
<1>d. {"running", "review_ready", "awaiting_user_approval", "changes_requested",
       "approved", "rejected", "superseded"} \subseteq AttemptStates
  BY DEF AttemptStates, ActiveStates
<1>1. CASE Rpc
  BY <1>1, <1>b, <1>c DEF Rpc, StartActivity, Evaluate, RequestRelease, FreezeBaseline,
     DecideRelease, CreateDraft, RecordEvidence, VerifyEvidence, ImportRequirements, ChangePolicy,
     ExpireApproval
<1>2. CASE EnsureActive
  <2>1. NoneNew
    BY <1>2, <1>a, <1>c, InsertActive DEF EnsureActive
  <2> QED
    BY <2>1, <1>b
<1>3. CASE TakeSnapshot
  BY <1>3, <1>a, PrepareActive DEF TakeSnapshot
<1>4. CASE AdvanceToReviewReady
  <2>1. CASE SetAttempt(op.att, "running")
             /\ attempts[op.att].state \in {"prepared", "changes_requested"}
    BY <2>1, <1>a, <1>b, <1>d, SetAttemptActive DEF ActiveStates
  <2>2. CASE SetAttempt(op.att, "review_ready") /\ attempts[op.att].state = "running"
    BY <2>2, <1>a, <1>b, <1>d, SetAttemptActive DEF ActiveStates
  <2> QED
    BY <1>4, <1>b, <1>c, <2>1, <2>2 DEF AdvanceToReviewReady
<1>5. CASE Return
  BY <1>5, <1>b, <1>c DEF Return
<1>6. CASE Request
  <2>1. CASE LinkApproval
    BY <2>1, <1>a, <1>b, PackageActive DEF LinkApproval
  <2>2. CASE AwaitApproval
    BY <2>2, <1>a, <1>b, <1>d, TransitionActive DEF AwaitApproval
  <2>3. CASE AbortOrphans \/ FreezePackage \/ NewPackage \/ InsertRequest \/ CreateApproval
    BY <2>3, <1>b, <1>c DEF AbortOrphans, FreezePackage, NewPackage, InsertRequest,
       CreateApproval
  <2> QED
    BY <1>6, <2>1, <2>2, <2>3 DEF Request
<1>7. CASE Decide
  <2>1. CASE RejectAttempt
    BY <2>1, <1>a, <1>b, <1>d, TransitionActive DEF RejectAttempt
  <2>2. CASE ChangeAttempt
    BY <2>2, <1>a, <1>b, <1>d, TransitionActive DEF ChangeAttempt
  <2>3. CASE ReworkAttempt
    BY <2>3, <1>a, <1>b, <1>d, TransitionActive DEF ReworkAttempt
  <2>4. CASE ChangeRequest
    BY <2>4, <1>a, <1>b, PackageActive DEF ChangeRequest
  <2>5. CASE ExpireRequest \/ SupersedeDrifted \/ ExpireDrifted \/ RecordVerdict
               \/ RejectRequest
    BY <2>5, <1>b, <1>c DEF ExpireRequest, SupersedeDrifted, ExpireDrifted,
       RecordVerdict, RejectRequest
  <2> QED
    BY <1>7, <2>1, <2>2, <2>3, <2>4, <2>5 DEF Decide
<1>8. CASE Complete
  <2>1. CASE ApproveAttempt
    BY <2>1, <1>a, <1>b, <1>d, TransitionActive DEF ApproveAttempt
  <2>2. CASE CreateNext
    BY <2>2, <1>a, <1>b, <1>c, InsertActive DEF CreateNext
  <2>3. CASE SnapshotNext
    BY <2>3, <1>a, PrepareActive DEF SnapshotNext
  <2>4. CASE PassGate \/ ApproveRequest
    BY <2>4, <1>b, <1>c DEF PassGate, ApproveRequest
  <2> QED
    BY <1>8, <2>1, <2>2, <2>3, <2>4 DEF Complete
<1>9. CASE Invalidate
  <2>1. CASE InvalidateChange
    BY <2>1, <1>a, <1>b, <1>d, TransitionActive DEF InvalidateChange
  <2>2. CASE InvalidateRun
    BY <2>2, <1>a, <1>b, <1>d, TransitionActive DEF InvalidateRun
  <2>3. CASE StartWork
    BY <2>3, <1>a, <1>b, <1>c, <1>d, SetAttemptActive DEF StartWork, ActiveStates
  <2>4. CASE MarkStale
    BY <2>4, <1>a, <1>b, <1>c, <1>d, SetAttemptActive DEF MarkStale, ActiveStates
  <2>5. CASE InvalidateRequest \/ InvalidateApproval \/ Freeze
    BY <2>5, <1>b, <1>c DEF InvalidateRequest, InvalidateApproval, Freeze
  <2> QED
    BY <1>9, <2>1, <2>2, <2>3, <2>4, <2>5 DEF Invalidate
<1>10. CASE Recover
  <2>1. CASE ResumeReject
    BY <2>1, <1>a, <1>b, <1>d, TransitionActive DEF ResumeReject
  <2>2. CASE Fail \/ Crash \/ Boot \/ PickPending \/ ResumeDrift
    BY <2>2, <1>b, <1>c DEF Fail, Crash, Boot, PickPending, ResumeDrift
  <2> QED
    BY <1>10, <2>1, <2>2 DEF Recover
<1>11. CASE UNCHANGED vars
  BY <1>11, <1>b, <1>c DEF vars
<1> QED
  BY <1>1, <1>2, <1>3, <1>4, <1>5, <1>6, <1>7, <1>8, <1>9, <1>10, <1>11
  DEF Next, Ensure

\* Whatever fails, restarts or is retried, one work item has at most one active
\* attempt.  (attempt.rs ACTIVE_STATES, ensure_active and complete_approve)
THEOREM OneActiveAttempt == Spec => []SingleActive
<1>1. Init => SingleActive
  BY DEF Init, NoAttempt, SingleActive, ActiveAttempts, ActiveStates
<1> QED
  BY <1>1, TypeInvariant, NextActive, PTL DEF Spec

-----------------------------------------------------------------------------
(* OutcomeIsVerdict and PassedOnApproval.  The handler's program counter     *)
(* carries what was established before it: StepInv.                          *)

PassSteps == {"pass", "next", "nextSnapshot", "approveRequest"}

StepInv ==
  /\ op.step \in PassSteps \union {"approve"} =>
       /\ requests[op.req].approval = "approved"
       /\ requests[op.req].att = op.att
       /\ attempts[op.att].gate = op.gate
  /\ op.step \in PassSteps => attempts[op.att].state = "approved"
  /\ op.step \in {"reject", "rejectRequest"} => requests[op.req].approval = "rejected"
  /\ op.step \in {"change", "rework", "changeRequest"} =>
       requests[op.req].approval = "changes_requested"
  /\ op.step \in {"decide", "driftRequest", "driftApproval"} =>
       requests[op.req].approval = "requested"
  /\ op.step = "decide" =>
       requests[op.req].att = op.att /\ attempts[op.att].gate = op.gate
  /\ op.step = "approval" =>
       requests[op.req].approval = "none" /\ requests[op.req].state = "pending"
  /\ op.step = "snapshot" => attempts[op.att].state = "preparing"

\* Some requests are withdrawn, nothing else happens to the table.
Withdraw ==
  \A q \in RequestIds :
    \/ requests'[q] = requests[q]
    \/ /\ requests[q].state # "none"
       /\ requests'[q] = [requests[q] EXCEPT !.state = "superseded"]

LEMMA WithdrawSet ==
  ASSUME requests \in [RequestIds -> RequestRow], NEW r, SetRequest(r, "superseded"),
         r \in RequestIds => requests[r].state # "none"
  PROVE  Withdraw
  BY DEF SetRequest, Withdraw

LEMMA WithdrawKept ==
  ASSUME requests \in [RequestIds -> RequestRow], Withdraw
  PROVE  \A q \in RequestIds :
           /\ requests'[q].approval = requests[q].approval
           /\ requests'[q].att = requests[q].att
           /\ requests'[q].state \in {requests[q].state, "superseded"}
<1> SUFFICES ASSUME NEW q \in RequestIds
             PROVE  /\ requests'[q].approval = requests[q].approval
                    /\ requests'[q].att = requests[q].att
                    /\ requests'[q].state \in {requests[q].state, "superseded"}
  OBVIOUS
<1>1. CASE requests'[q] = requests[q]
  BY <1>1
<1>2. CASE requests'[q] = [requests[q] EXCEPT !.state = "superseded"]
  BY <1>2 DEF RequestRow
<1> QED
  BY <1>1, <1>2 DEF Withdraw

\* The actions that write the requests.
LEMMA RequestWriters ==
  ASSUME TypeInv, [Next]_vars
  PROVE  \/ Withdraw
         \/ InsertRequest \/ CreateApproval \/ LinkApproval \/ ExpireRequest
         \/ ExpireDrifted \/ RecordVerdict \/ RejectRequest \/ ChangeRequest
         \/ ApproveRequest \/ InvalidateApproval
         \/ \E r \in RequestIds : ExpireApproval(r)
<1>a. UNCHANGED requests => Withdraw
  BY DEF Withdraw
<1>b. requests \in [RequestIds -> RequestRow]
  BY Assemble
<1>c. OpKnown
  BY Assemble
<1>1. CASE Rpc
  BY <1>1, <1>a DEF Rpc, StartActivity, Evaluate, RequestRelease, FreezeBaseline,
     DecideRelease, CreateDraft, RecordEvidence, VerifyEvidence, ImportRequirements, ChangePolicy
<1>2. CASE Ensure
  BY <1>2, <1>a DEF Ensure, EnsureActive, TakeSnapshot, AdvanceToReviewReady, Return
<1>3. CASE AbortOrphans \/ Boot
  BY <1>3 DEF AbortOrphans, Boot, Withdraw
<1>4. CASE FreezePackage
  BY <1>4, <1>a, <1>b, WithdrawSet DEF FreezePackage, PendingFor, LinkedPending
<1>5. CASE NewPackage \/ AwaitApproval \/ RejectAttempt \/ ChangeAttempt \/ ReworkAttempt
  BY <1>5, <1>a DEF NewPackage, AwaitApproval, RejectAttempt, ChangeAttempt, ReworkAttempt
<1>6. CASE SupersedeDrifted
  BY <1>6, <1>b, <1>c, WithdrawSet DEF SupersedeDrifted, At, OpKnown, RequestSteps
<1>7. CASE ApproveAttempt \/ PassGate \/ CreateNext \/ SnapshotNext
  BY <1>7, <1>a DEF ApproveAttempt, PassGate, CreateNext, SnapshotNext
<1>8. CASE InvalidateRequest
  BY <1>8, <1>a, <1>b, WithdrawSet DEF InvalidateRequest, Invalidated, PendingFor, LinkedPending
<1>9. CASE InvalidateChange \/ InvalidateRun \/ StartWork \/ Freeze \/ MarkStale
  BY <1>9, <1>a DEF InvalidateChange, InvalidateRun, StartWork, Freeze, MarkStale
<1>10. CASE ResumeDrift
  BY <1>10, <1>b, <1>c, WithdrawSet DEF ResumeDrift, At, OpKnown, RequestSteps
<1>11. CASE Fail \/ Crash \/ PickPending \/ ResumeReject
  BY <1>11, <1>a DEF Fail, Crash, PickPending, ResumeReject
<1>12. CASE UNCHANGED vars
  BY <1>12, <1>a DEF vars
<1> QED
  BY <1>1, <1>2, <1>3, <1>4, <1>5, <1>6, <1>7, <1>8, <1>9, <1>10, <1>11, <1>12
  DEF Next, Request, Decide, Complete, Invalidate, Recover

\* A verdict of a person stays, and so does the attempt it is about.
VerdictsKept ==
  \A r \in RequestIds :
    requests[r].approval \in Verdicts =>
      requests'[r].approval = requests[r].approval /\ requests'[r].att = requests[r].att

LEMMA SetApprovalKept ==
  ASSUME requests \in [RequestIds -> RequestRow], NEW r \in RequestIds, NEW s,
         requests[r].approval \notin Verdicts, SetApproval(r, s)
  PROVE  VerdictsKept
  BY DEF SetApproval, VerdictsKept, RequestRow

LEMMA SetRequestKept ==
  ASSUME requests \in [RequestIds -> RequestRow], NEW r, NEW s, SetRequest(r, s)
  PROVE  VerdictsKept
<1>1. ASSUME NEW q \in RequestIds
      PROVE  requests'[q].approval = requests[q].approval
             /\ requests'[q].att = requests[q].att
  BY DEF SetRequest, RequestRow
<1> QED
  BY <1>1 DEF VerdictsKept

LEMMA NextVerdicts == TypeInv /\ StepInv /\ [Next]_vars => VerdictsKept
<1> SUFFICES ASSUME TypeInv, StepInv, [Next]_vars PROVE VerdictsKept
  OBVIOUS
<1> USE Assemble
<1>a. ASSUME op.step \in RequestSteps PROVE op.req \in RequestIds
  BY <1>a, DecideSteps
<1>1. CASE Withdraw
  BY <1>1, WithdrawKept DEF VerdictsKept
<1>2. CASE InsertRequest
  <2>1. \A r \in FreshRequest : requests[r].approval = "none"
    BY DEF FreshRequest, RowsKnown
  <2>2. "none" \notin Verdicts
    BY DEF Verdicts
  <2> QED
    BY <1>2, <2>1, <2>2 DEF InsertRequest, VerdictsKept
<1>3. CASE CreateApproval
  BY <1>3, <1>a, SetApprovalKept DEF CreateApproval, At, StepInv, RequestSteps, Verdicts
<1>4. CASE LinkApproval
  BY <1>4 DEF LinkApproval, VerdictsKept, RequestRow
<1>5. CASE ExpireRequest \/ RejectRequest \/ ChangeRequest \/ ApproveRequest
  <2>1. (\E s : SetRequest(op.req, s)) \/ UNCHANGED requests
    BY <1>5 DEF ExpireRequest, RejectRequest, ChangeRequest, ApproveRequest
  <2> QED
    BY <2>1, SetRequestKept DEF VerdictsKept
<1>6. CASE ExpireDrifted
  BY <1>6, <1>a, SetApprovalKept DEF ExpireDrifted, At, StepInv, RequestSteps, Verdicts
<1>7. CASE RecordVerdict
  BY <1>7, <1>a, SetApprovalKept DEF RecordVerdict, At, StepInv, RequestSteps, Verdicts
<1>8. CASE InvalidateApproval
  <2>1. op.req \in RequestIds
    BY <1>8, <1>a DEF InvalidateApproval, At, RequestSteps
  <2> QED
    BY <1>8, <2>1, SetApprovalKept DEF InvalidateApproval, VerdictsKept, Verdicts
<1>9. ASSUME NEW r \in RequestIds, ExpireApproval(r) PROVE VerdictsKept
  BY <1>9, SetApprovalKept DEF ExpireApproval, Verdicts
<1> QED
  BY <1>1, <1>2, <1>3, <1>4, <1>5, <1>6, <1>7, <1>8, <1>9, RequestWriters

LEMMA SetRequestOutcome ==
  ASSUME requests \in [RequestIds -> RequestRow], OutcomeIsVerdict,
         NEW r \in RequestIds, NEW s, s \in Verdicts => requests[r].approval = s,
         SetRequest(r, s)
  PROVE  OutcomeIsVerdict'
<1>1. \A q \in RequestIds : q # r => requests'[q] = requests[q]
  BY DEF SetRequest
<1>2. requests'[r].state = s /\ requests'[r].approval = requests[r].approval
  BY DEF SetRequest, RequestRow
<1> QED
  BY <1>1, <1>2 DEF OutcomeIsVerdict

LEMMA SetApprovalOutcome ==
  ASSUME requests \in [RequestIds -> RequestRow], OutcomeIsVerdict,
         NEW r \in RequestIds, NEW s, requests[r].state \notin Verdicts,
         SetApproval(r, s)
  PROVE  OutcomeIsVerdict'
<1>1. \A q \in RequestIds : q # r => requests'[q] = requests[q]
  BY DEF SetApproval
<1>2. requests'[r].state = requests[r].state
  BY DEF SetApproval, RequestRow
<1> QED
  BY <1>1, <1>2 DEF OutcomeIsVerdict

LEMMA NextOutcome ==
  TypeInv /\ StepInv /\ OutcomeIsVerdict /\ [Next]_vars => OutcomeIsVerdict'
<1> SUFFICES ASSUME TypeInv, StepInv, OutcomeIsVerdict, [Next]_vars
             PROVE  OutcomeIsVerdict'
  OBVIOUS
<1> USE Assemble
<1>a. ASSUME op.step \in RequestSteps PROVE op.req \in RequestIds
  BY <1>a, DecideSteps
<1>b. /\ {"superseded", "expired", "pending"} \intersect Verdicts = {}
      /\ "requested" \notin Verdicts
  BY DEF Verdicts
<1>c. ASSUME NEW r \in RequestIds, requests[r].approval = "requested"
      PROVE  requests[r].state \notin Verdicts
  BY <1>b, <1>c DEF OutcomeIsVerdict
<1>1. CASE Withdraw
  <2>1. \A q \in RequestIds : requests'[q].state \in Verdicts =>
          /\ requests'[q].state = requests[q].state
          /\ requests'[q].approval = requests[q].approval
    BY <1>1, <1>b, WithdrawKept
  <2> QED
    BY <2>1 DEF OutcomeIsVerdict
<1>2. CASE InsertRequest
  <2>1. CASE UNCHANGED requests
    BY <2>1 DEF OutcomeIsVerdict
  <2>2. ASSUME NEW r \in FreshRequest,
               requests' = [requests EXCEPT ![r] =
                   [att |-> op.att, digest |-> Digest(op.att), linked |-> FALSE,
                    approval |-> "none", state |-> "pending"]]
        PROVE  OutcomeIsVerdict'
    <3>1. r \in RequestIds
      BY DEF FreshRequest
    <3>2. /\ \A q \in RequestIds : q # r => requests'[q] = requests[q]
          /\ requests'[r].state = "pending"
      BY <2>2, <3>1
    <3> QED
      BY <3>2, <1>b DEF OutcomeIsVerdict
  <2> QED
    BY <1>2, <2>1, <2>2 DEF InsertRequest
<1>3. CASE CreateApproval
  BY <1>3, <1>a, <1>b, SetApprovalOutcome DEF CreateApproval, At, StepInv, RequestSteps
<1>4. CASE LinkApproval
  <2>1. \A q \in RequestIds : /\ requests'[q].state = requests[q].state
                              /\ requests'[q].approval = requests[q].approval
    BY <1>4 DEF LinkApproval, RequestRow
  <2> QED
    BY <2>1 DEF OutcomeIsVerdict
<1>5. CASE ExpireRequest
  <2>1. op.req \in RequestIds
    BY <1>5, <1>a DEF ExpireRequest, At, RequestSteps
  <2> QED
    BY <1>5, <1>b, <2>1, SetRequestOutcome DEF ExpireRequest
<1>6. CASE RejectRequest
  BY <1>6, <1>a, SetRequestOutcome DEF RejectRequest, At, StepInv, RequestSteps
<1>7. CASE ChangeRequest
  BY <1>7, <1>a, SetRequestOutcome DEF ChangeRequest, At, StepInv, RequestSteps
<1>8. CASE ApproveRequest
  <2>1. op.req \in RequestIds /\ requests[op.req].approval = "approved"
    BY <1>8, <1>a DEF ApproveRequest, At, StepInv, PassSteps, RequestSteps
  <2>2. UNCHANGED requests \/ SetRequest(op.req, "approved")
    BY <1>8 DEF ApproveRequest
  <2> QED
    BY <2>1, <2>2, SetRequestOutcome DEF OutcomeIsVerdict
<1>9. CASE ExpireDrifted
  BY <1>9, <1>a, <1>c, SetApprovalOutcome DEF ExpireDrifted, At, StepInv, RequestSteps
<1>10. CASE RecordVerdict
  BY <1>10, <1>a, <1>c, SetApprovalOutcome DEF RecordVerdict, At, StepInv, RequestSteps
<1>11. CASE InvalidateApproval
  <2>1. op.req \in RequestIds
    BY <1>11, <1>a DEF InvalidateApproval, At, RequestSteps
  <2>2. CASE UNCHANGED requests
    BY <2>2 DEF OutcomeIsVerdict
  <2>3. CASE requests[op.req].approval = "requested" /\ SetApproval(op.req, "expired")
    BY <2>1, <2>3, <1>c, SetApprovalOutcome
  <2> QED
    BY <1>11, <2>2, <2>3 DEF InvalidateApproval
<1>12. ASSUME NEW r \in RequestIds, ExpireApproval(r) PROVE OutcomeIsVerdict'
  BY <1>12, <1>c, SetApprovalOutcome DEF ExpireApproval
<1> QED
  BY <1>1, <1>2, <1>3, <1>4, <1>5, <1>6, <1>7, <1>8, <1>9, <1>10, <1>11, <1>12,
     RequestWriters

-----------------------------------------------------------------------------
(* Steps at which StepInv says nothing.                                     *)
PlainSteps == Steps \ (PassSteps \union
  {"approve", "reject", "rejectRequest", "change", "rework", "changeRequest",
   "decide", "driftRequest", "driftApproval", "approval", "snapshot"})

LEMMA PlainStep == op'.step \in PlainSteps => StepInv'
  BY DEF PlainSteps, StepInv, PassSteps

LEMMA LeavePlain == op \in Handler /\ Leave => StepInv'
<1> SUFFICES ASSUME op \in Handler, Leave PROVE op'.step \in PlainSteps
  BY PlainStep
<1>1. op'.step = "pick" \/ op'.step = "idle"
  BY DEF Leave, Handler, Idle
<1> QED
  BY <1>1 DEF PlainSteps, Steps, PassSteps

LEMMA GotoPlain ==
  ASSUME op \in Handler, NEW s \in PlainSteps, Goto(s)
  PROVE  StepInv'
<1>1. s \in Steps
  BY DEF PlainSteps
<1> QED
  BY <1>1, GotoHandler, PlainStep

\* A move of an attempt keeps its gate and reaches the state it asked for.
LEMMA TransitionStep ==
  ASSUME attempts \in [AttemptIds -> Attempt], op \in Handler,
         NEW a \in AttemptIds, NEW to \in AttemptStates, NEW next,
         Transition(a, to, next)
  PROVE  \/ StepInv'
         \/ /\ Goto(next) /\ attempts'[a].state = to
            /\ attempts'[a].gate = attempts[a].gate
<1>1. CASE Leave
  BY <1>1, LeavePlain
<1>2. CASE attempts[a].state = to /\ Goto(next) /\ UNCHANGED attempts
  BY <1>2
<1>3. CASE SetAttempt(a, to) /\ Goto(next)
  BY <1>3 DEF SetAttempt, Attempt
<1> QED
  BY <1>1, <1>2, <1>3 DEF Transition

LEMMA RpcStep == TypeInv /\ Rpc => StepInv'
<1> SUFFICES ASSUME TypeInv, Rpc PROVE StepInv'
  OBVIOUS
<1> USE Assemble
<1>a. {"ensure", "invalidate", "idle"} \subseteq PlainSteps
  BY DEF PlainSteps, Steps, PassSteps
<1>b. op = Idle /\ UNCHANGED op => StepInv'
  BY <1>a, PlainStep DEF Idle
<1>c. ASSUME NEW k \in {"start", "evaluate", "request", "freeze", "record"},
             NEW s \in {"ensure", "invalidate"}, NEW g \in Gates, Call(k, s, g)
      PROVE  StepInv'
  BY <1>a, <1>c, CallKnown, PlainStep
<1>1. CASE StartActivity
  BY <1>1, <1>c DEF StartActivity, Tables
<1>2. ASSUME NEW g \in Gates, Evaluate(g) PROVE StepInv'
  BY <1>2, <1>b, <1>c DEF Evaluate
<1>3. ASSUME NEW g \in Gates, RequestRelease(g) PROVE StepInv'
  BY <1>3, <1>c DEF RequestRelease
<1>4. ASSUME NEW g \in Gates, FreezeBaseline(g) PROVE StepInv'
  BY <1>4, <1>c DEF FreezeBaseline
<1>5. ASSUME NEW r \in RequestIds, NEW v \in Verdicts, DecideRelease(r, v)
      PROVE  StepInv'
  <2>1. PICK s \in {"expireRequest", "driftRequest", "decide", FirstStep(v)} :
          /\ CASE s = "expireRequest" -> requests[r].approval = "expired"
               [] s = "driftRequest"  -> requests[r].approval = "requested" /\ Drifted(r)
               [] s = "decide"        -> requests[r].approval = "requested" /\ ~Drifted(r)
               [] OTHER               -> RetryableVerdict(r, v)
          /\ op' = [Idle EXCEPT !.kind = "decide", !.step = s, !.req = r, !.verdict = v,
                             !.att = requests[r].att,
                             !.gate = attempts[requests[r].att].gate]
    BY <1>5 DEF DecideRelease
  <2>2. op' = [kind |-> "decide", step |-> s, gate |-> attempts[requests[r].att].gate,
               att |-> requests[r].att, req |-> r, verdict |-> v, todo |-> {}]
    BY <2>1 DEF Idle
  <2>3. UNCHANGED <<attempts, requests>>
    BY <1>5 DEF DecideRelease
  <2>4. FirstStep(v) \in {"approve", "reject", "change"}
    BY DEF FirstStep
  <2>5. s \in {"driftRequest", "decide"} => requests[r].approval = "requested"
    BY <2>1
  <2>6. s = FirstStep(v) => requests[r].approval = v
    BY <2>1, <2>4 DEF RetryableVerdict
  <2>7. /\ s = "approve" => requests[r].approval = "approved"
        /\ s = "reject" => requests[r].approval = "rejected"
        /\ s = "change" => requests[r].approval = "changes_requested"
    BY <2>6 DEF FirstStep, Verdicts
  <2>8. s \in {"expireRequest", "driftRequest", "decide", "approve", "reject", "change"}
    BY <2>4
  <2> QED
    BY <2>2, <2>3, <2>5, <2>7, <2>8 DEF StepInv, PassSteps
<1>6. ASSUME NEW g \in Gates, RecordEvidence(g) PROVE StepInv'
  BY <1>6, <1>c DEF RecordEvidence
<1>7. ASSUME NEW g \in Gates, NEW c \in Contents, VerifyEvidence(g, c) PROVE StepInv'
  BY <1>7, <1>b DEF VerifyEvidence
<1>8. CASE ImportRequirements
  BY <1>8, <1>b DEF ImportRequirements
<1>9. ASSUME NEW p \in Policies, ChangePolicy(p) PROVE StepInv'
  BY <1>9, <1>b DEF ChangePolicy
<1>10. ASSUME NEW r \in RequestIds, ExpireApproval(r) PROVE StepInv'
  BY <1>10, <1>b DEF ExpireApproval
<1>11. CASE CreateDraft
  BY <1>11, <1>c DEF CreateDraft, Tables
<1> QED
  BY <1>1, <1>2, <1>3, <1>4, <1>5, <1>6, <1>7, <1>8, <1>9, <1>10, <1>11 DEF Rpc

\* The steps of the release and of its withdrawal, apart from the decision.
LEMMA WorkStep == TypeInv /\ (Ensure \/ Request \/ Invalidate) => StepInv'
<1> SUFFICES ASSUME TypeInv, Ensure \/ Request \/ Invalidate PROVE StepInv'
  OBVIOUS
<1> USE Assemble
<1>a. /\ {"advance", "work", "done", "abortOrphans", "package", "newPackage", "insert",
          "link", "await", "stale", "invalidate", "invalidateApproval",
          "invalidateChange", "invalidateRun", "freeze"} \subseteq PlainSteps
      /\ AfterEnsure \in PlainSteps /\ AfterAdvance \in PlainSteps
      /\ AfterInvalidate \in PlainSteps
  BY DEF PlainSteps, Steps, PassSteps, AfterEnsure, AfterAdvance, AfterInvalidate
<1>b. ASSUME NEW a, NEW to, NEW next \in PlainSteps, Transition(a, to, next)
      PROVE  StepInv'
  BY <1>b, GotoPlain, LeavePlain DEF Transition
<1>c. ASSUME NEW a, NEW next \in PlainSteps, Prepare(a, next) PROVE StepInv'
  BY <1>c, GotoPlain, LeavePlain DEF Prepare
<1>1. CASE EnsureActive
  <2>1. CASE Leave
    BY <2>1, LeavePlain
  <2>2. ASSUME NEW a, op' = [op EXCEPT !.att = a, !.step = AfterEnsure] PROVE StepInv'
    <3>1. op'.step = AfterEnsure
      BY <2>2 DEF Handler
    <3> QED
      BY <3>1, <1>a, PlainStep
  <2>3. ASSUME NEW a \in FreshAttempt, InsertAttempt(a, op.gate),
               op' = [op EXCEPT !.att = a, !.step = "snapshot"]
        PROVE  StepInv'
    <3>1. op'.step = "snapshot" /\ op'.att = a
      BY <2>3 DEF Handler
    <3>2. attempts'[a].state = "preparing"
      BY <2>3 DEF InsertAttempt, NoAttempt, FreshAttempt, Tables
    <3> QED
      BY <3>1, <3>2 DEF StepInv, PassSteps
  <2> QED
    BY <1>1, <2>1, <2>2, <2>3 DEF EnsureActive
<1>2. CASE TakeSnapshot
  BY <1>2, <1>a, <1>c DEF TakeSnapshot
<1>3. CASE AdvanceToReviewReady
  BY <1>3, <1>a, GotoPlain DEF AdvanceToReviewReady
<1>4. CASE Return
  BY <1>4, LeavePlain DEF Return
<1>5. CASE AbortOrphans \/ FreezePackage \/ NewPackage \/ CreateApproval \/ LinkApproval
  BY <1>5, <1>a, GotoPlain, LeavePlain DEF AbortOrphans, FreezePackage, NewPackage,
     CreateApproval, LinkApproval
<1>6. CASE InsertRequest
  <2>1. CASE Leave
    BY <2>1, LeavePlain
  <2>2. ASSUME NEW r \in FreshRequest,
               requests' = [requests EXCEPT ![r] =
                   [att |-> op.att, digest |-> Digest(op.att), linked |-> FALSE,
                    approval |-> "none", state |-> "pending"]],
               op' = [op EXCEPT !.req = r, !.step = "approval"]
        PROVE  StepInv'
    <3>1. op'.step = "approval" /\ op'.req = r
      BY <2>2 DEF Handler
    <3>2. requests'[r].approval = "none" /\ requests'[r].state = "pending"
      BY <2>2 DEF FreshRequest
    <3> QED
      BY <3>1, <3>2 DEF StepInv, PassSteps
  <2> QED
    BY <1>6, <2>1, <2>2 DEF InsertRequest
<1>7. CASE AwaitApproval \/ InvalidateChange \/ InvalidateRun
  BY <1>7, <1>a, <1>b DEF AwaitApproval, InvalidateChange, InvalidateRun
<1>8. CASE InvalidateRequest
  <2>1. CASE Goto(AfterInvalidate)
    BY <2>1, <1>a, GotoPlain
  <2>2. ASSUME NEW r, op' = [op EXCEPT !.req = r, !.att = requests[r].att,
                                !.step = "invalidateApproval"]
        PROVE  StepInv'
    <3>1. op'.step = "invalidateApproval"
      BY <2>2 DEF Handler
    <3> QED
      BY <3>1, <1>a, PlainStep
  <2> QED
    BY <1>8, <2>1, <2>2 DEF InvalidateRequest
<1>9. CASE InvalidateApproval \/ StartWork \/ Freeze
  BY <1>9, <1>a, GotoPlain, LeavePlain DEF InvalidateApproval, StartWork, Freeze
<1>10. CASE MarkStale
  <2>1. Leave \/ op'.step = "stale"
    BY <1>10 DEF MarkStale, At
  <2> QED
    BY <2>1, <1>a, LeavePlain, PlainStep
<1> QED
  BY <1>1, <1>2, <1>3, <1>4, <1>5, <1>6, <1>7, <1>8, <1>9, <1>10
  DEF Ensure, Request, Invalidate

\* The steps that carry a decision hand on what the next one relies on.
LEMMA DecisionStep == TypeInv /\ StepInv /\ (Decide \/ Complete) => StepInv'
<1> SUFFICES ASSUME TypeInv, StepInv, Decide \/ Complete PROVE StepInv'
  OBVIOUS
<1> USE Assemble
<1>a. op.step \in RequestSteps
  BY DEF Decide, ExpireRequest, SupersedeDrifted, ExpireDrifted, RecordVerdict,
     RejectAttempt, RejectRequest, ChangeAttempt, ReworkAttempt, ChangeRequest,
     Complete, ApproveAttempt, PassGate, CreateNext, SnapshotNext, ApproveRequest,
     At, RequestSteps
<1>b. op.req \in RequestIds /\ op.att \in AttemptIds
  BY <1>a, DecideSteps
<1>c. attempts \in [AttemptIds -> Attempt] /\ requests \in [RequestIds -> RequestRow]
  BY DEF Tables
<1>d. {"rejected", "changes_requested", "running", "approved"} \subseteq AttemptStates
  BY DEF AttemptStates, ActiveStates
<1>e. ASSUME NEW s \in Steps, Goto(s)
      PROVE  /\ op'.step = s /\ op'.att = op.att /\ op'.req = op.req
             /\ op'.verdict = op.verdict /\ op'.gate = op.gate
  BY <1>e, GotoHandler
<1>f. {"driftApproval", "pass", "next", "nextSnapshot", "approveRequest", "approve",
       "reject", "rejectRequest", "change", "rework", "changeRequest"} \subseteq Steps
  BY DEF Steps
<1>1. CASE ExpireRequest \/ ExpireDrifted \/ RejectRequest \/ ChangeRequest
             \/ ApproveRequest
  BY <1>1, LeavePlain DEF ExpireRequest, ExpireDrifted, RejectRequest, ChangeRequest,
     ApproveRequest
<1>2. CASE SupersedeDrifted
  <2>1. requests[op.req].approval = "requested"
    BY <1>2 DEF SupersedeDrifted, At, StepInv
  <2>2. requests'[op.req].approval = "requested"
    BY <1>2, <1>b, <1>c, <2>1 DEF SupersedeDrifted, SetRequest, RequestRow
  <2>3. op'.step = "driftApproval" /\ op'.req = op.req
    BY <1>2, <1>e, <1>f DEF SupersedeDrifted
  <2> QED
    BY <2>2, <2>3 DEF StepInv, PassSteps
<1>3. CASE RecordVerdict
  <2>1. /\ requests[op.req].att = op.att /\ attempts[op.att].gate = op.gate
        /\ op.verdict \in Verdicts
    BY <1>3 DEF RecordVerdict, At, StepInv, OpKnown
  <2>2. /\ requests'[op.req].approval = op.verdict
        /\ requests'[op.req].att = op.att /\ attempts' = attempts
    BY <1>3, <1>b, <1>c, <2>1 DEF RecordVerdict, SetApproval, RequestRow
  <2>3. FirstStep(op.verdict) \in Steps
    BY <1>f DEF FirstStep
  <2>4. /\ op'.step = FirstStep(op.verdict) /\ op'.req = op.req
        /\ op'.att = op.att /\ op'.gate = op.gate
    BY <1>3, <1>e, <2>3 DEF RecordVerdict
  <2>5. /\ FirstStep(op.verdict) \in {"approve", "reject", "change"}
        /\ FirstStep(op.verdict) = "approve" => op.verdict = "approved"
        /\ FirstStep(op.verdict) = "reject" => op.verdict = "rejected"
        /\ FirstStep(op.verdict) = "change" => op.verdict = "changes_requested"
    BY <2>1 DEF FirstStep, Verdicts
  <2> QED
    BY <2>1, <2>2, <2>4, <2>5 DEF StepInv, PassSteps
<1>4. CASE RejectAttempt
  <2>1. requests'[op.req].approval = "rejected"
    BY <1>4 DEF RejectAttempt, At, StepInv
  <2>2. StepInv' \/ (op'.step = "rejectRequest" /\ op'.req = op.req)
    BY <1>4, <1>b, <1>c, <1>d, <1>e, <1>f, TransitionStep DEF RejectAttempt
  <2> QED
    BY <2>1, <2>2 DEF StepInv, PassSteps
<1>5. CASE ChangeAttempt
  <2>1. requests'[op.req].approval = "changes_requested"
    BY <1>5 DEF ChangeAttempt, At, StepInv
  <2>2. StepInv' \/ (op'.step = "rework" /\ op'.req = op.req)
    BY <1>5, <1>b, <1>c, <1>d, <1>e, <1>f, TransitionStep DEF ChangeAttempt
  <2> QED
    BY <2>1, <2>2 DEF StepInv, PassSteps
<1>6. CASE ReworkAttempt
  <2>1. requests'[op.req].approval = "changes_requested"
    BY <1>6 DEF ReworkAttempt, At, StepInv
  <2>2. StepInv' \/ (op'.step = "changeRequest" /\ op'.req = op.req)
    BY <1>6, <1>b, <1>c, <1>d, <1>e, <1>f, TransitionStep DEF ReworkAttempt
  <2> QED
    BY <2>1, <2>2 DEF StepInv, PassSteps
<1>7. CASE ApproveAttempt
  <2>1. /\ requests'[op.req].approval = "approved" /\ requests'[op.req].att = op.att
        /\ attempts[op.att].gate = op.gate
    BY <1>7 DEF ApproveAttempt, At, StepInv
  <2>2. \/ StepInv'
        \/ /\ op'.step = "pass" /\ op'.req = op.req /\ op'.att = op.att
           /\ op'.gate = op.gate /\ attempts'[op.att].state = "approved"
           /\ attempts'[op.att].gate = attempts[op.att].gate
    BY <1>7, <1>b, <1>c, <1>d, <1>e, <1>f, TransitionStep DEF ApproveAttempt
  <2> QED
    BY <2>1, <2>2 DEF StepInv, PassSteps
<1>8. CASE PassGate \/ CreateNext \/ SnapshotNext
  <2>1. /\ requests[op.req].approval = "approved" /\ requests[op.req].att = op.att
        /\ attempts[op.att].gate = op.gate /\ attempts[op.att].state = "approved"
    BY <1>8 DEF PassGate, CreateNext, SnapshotNext, At, StepInv, PassSteps
  <2>2. Leave \/ \E s \in PassSteps : Goto(s)
    BY <1>8 DEF PassGate, CreateNext, SnapshotNext, Prepare, PassSteps
  <2>3. UNCHANGED requests
    BY <1>8 DEF PassGate, CreateNext, SnapshotNext
  <2>4. attempts'[op.att] = attempts[op.att]
    <3>1. CASE UNCHANGED attempts
      BY <3>1
    <3>2. ASSUME NEW a \in FreshAttempt, NEW g, InsertAttempt(a, g)
          PROVE  attempts'[op.att] = attempts[op.att]
      BY <1>b, <1>c, <2>1, <3>2 DEF FreshAttempt, InsertAttempt
    <3>3. ASSUME NEW a \in AttemptsOf(op.gate + 1), attempts[a].state = "preparing",
                 SetAttempt(a, "prepared")
          PROVE  attempts'[op.att] = attempts[op.att]
      BY <1>b, <1>c, <2>1, <3>3 DEF SetAttempt
    <3> QED
      BY <1>8, <3>1, <3>2, <3>3 DEF PassGate, CreateNext, SnapshotNext, Prepare
  <2>5. CASE Leave
    BY <2>5, LeavePlain
  <2>6. ASSUME NEW s \in PassSteps, Goto(s) PROVE StepInv'
    <3>1. /\ op'.step = s /\ op'.att = op.att /\ op'.req = op.req /\ op'.gate = op.gate
      BY <1>e, <1>f, <2>6 DEF PassSteps
    <3> QED
      BY <2>1, <2>3, <2>4, <3>1 DEF StepInv, PassSteps
  <2> QED
    BY <2>2, <2>5, <2>6
<1> QED
  BY <1>1, <1>2, <1>3, <1>4, <1>5, <1>6, <1>7, <1>8 DEF Decide, Complete

LEMMA RecoverStep == TypeInv /\ StepInv /\ Recover => StepInv'
<1> SUFFICES ASSUME TypeInv, StepInv, Recover PROVE StepInv'
  OBVIOUS
<1> USE Assemble
<1>a. /\ {"idle", "boot", "pick", "resumeDrift", "resumeReject"} \subseteq PlainSteps
      /\ AfterInvalidate \in PlainSteps
  BY DEF PlainSteps, Steps, PassSteps, AfterInvalidate
<1>b. op' = Idle => StepInv'
  BY <1>a, PlainStep DEF Idle
<1>1. CASE Fail
  BY <1>1, <1>a, <1>b, GotoPlain, LeavePlain DEF Fail
<1>2. CASE Crash
  BY <1>2, <1>a, PlainStep DEF Crash, Idle
<1>3. CASE Boot
  <2>1. op'.step = "pick"
    BY <1>3 DEF Boot, Handler
  <2> QED
    BY <2>1, <1>a, PlainStep
<1>4. CASE PickPending
  <2>1. ASSUME NEW r \in op.todo,
               op' = [op EXCEPT !.req = r, !.att = requests[r].att,
                                !.gate = attempts[requests[r].att].gate,
                                !.todo = @ \ {r}, !.step = ResumeStep(r)]
        PROVE  StepInv'
    <3>1. /\ op'.req = r /\ op'.att = requests[r].att /\ op'.step = ResumeStep(r)
          /\ op'.gate = attempts[requests[r].att].gate
      BY <2>1 DEF Handler
    <3>2. UNCHANGED <<attempts, requests>>
      BY <1>4 DEF PickPending
    <3>3. CASE ResumeStep(r) = "approve" /\ requests[r].approval = "approved"
      BY <3>1, <3>2, <3>3 DEF StepInv, PassSteps
    <3>4. CASE ResumeStep(r) \in PlainSteps
      BY <3>1, <3>4, PlainStep
    <3> QED
      BY <1>a, <3>3, <3>4 DEF ResumeStep
  <2> QED
    BY <1>4, <1>b, <2>1 DEF PickPending
<1>5. CASE ResumeDrift
  BY <1>5, <1>b, LeavePlain DEF ResumeDrift
<1>6. CASE ResumeReject
  BY <1>6, <1>a, GotoPlain, LeavePlain DEF ResumeReject, Transition
<1> QED
  BY <1>1, <1>2, <1>3, <1>4, <1>5, <1>6 DEF Recover

LEMMA NextStep == TypeInv /\ StepInv /\ [Next]_vars => StepInv'
<1>1. StepInv /\ UNCHANGED vars => StepInv'
  BY DEF vars, StepInv
<1> QED
  BY <1>1, RpcStep, WorkStep, DecisionStep, RecoverStep DEF Next

LEMMA StepInvariant == Spec => []StepInv
<1>1. Init => StepInv
  BY DEF Init, Idle, StepInv, PassSteps
<1> QED
  BY <1>1, TypeInvariant, NextStep, PTL DEF Spec

\* The outcome of a request is the verdict a person gave, whatever was
\* interrupted and repeated.  (decide_release, complete_approve)
THEOREM OutcomeFollowsVerdict == Spec => []OutcomeIsVerdict
<1>1. Init => OutcomeIsVerdict
  BY DEF Init, NoRequest, OutcomeIsVerdict, Verdicts
<1> QED
  BY <1>1, TypeInvariant, StepInvariant, NextOutcome, PTL DEF Spec

-----------------------------------------------------------------------------
(* PassedOnApproval.  An approved attempt stays approved until MarkStale,    *)
(* which first takes the gates from there on out of "passed".               *)

ApprovalsKept ==
  \A a \in AttemptIds : attempts[a].state = "approved" =>
    attempts'[a].state = "approved" /\ attempts'[a].gate = attempts[a].gate

LEMMA SetAttemptApproved ==
  ASSUME attempts \in [AttemptIds -> Attempt], NEW a, NEW s,
         attempts[a].state # "approved", SetAttempt(a, s)
  PROVE  ApprovalsKept
  BY DEF SetAttempt, ApprovalsKept, Attempt

LEMMA TransitionApproved ==
  ASSUME attempts \in [AttemptIds -> Attempt], NEW a, NEW to, to # "superseded",
         NEW next, Transition(a, to, next)
  PROVE  ApprovalsKept
<1>1. CASE UNCHANGED attempts
  BY <1>1 DEF ApprovalsKept
<1>2. CASE <<attempts[a].state, to>> \in AttemptMoves /\ SetAttempt(a, to)
  <2>1. attempts[a].state # "approved"
    BY <1>2 DEF AttemptMoves
  <2> QED
    BY <1>2, <2>1, SetAttemptApproved
<1> QED
  BY <1>1, <1>2 DEF Transition

LEMMA NextApprovals ==
  TypeInv /\ StepInv /\ [Next]_vars => ApprovalsKept \/ MarkStale
<1> SUFFICES ASSUME TypeInv, StepInv, [Next]_vars PROVE ApprovalsKept \/ MarkStale
  OBVIOUS
<1> USE Assemble
<1>a. attempts \in [AttemptIds -> Attempt]
  BY DEF Tables
<1>b. UNCHANGED attempts => ApprovalsKept
  BY DEF ApprovalsKept
<1>c. ASSUME NEW a \in FreshAttempt, NEW g, InsertAttempt(a, g) PROVE ApprovalsKept
  BY <1>a, <1>c DEF FreshAttempt, InsertAttempt, ApprovalsKept
<1>d. ASSUME NEW a, NEW p, attempts' = [attempts EXCEPT ![a].package = p]
      PROVE  ApprovalsKept
  BY <1>a, <1>d DEF ApprovalsKept, Attempt
<1>e. ASSUME NEW a, NEW next, Prepare(a, next), attempts[a].state = "preparing"
      PROVE  ApprovalsKept
  BY <1>a, <1>b, <1>e, SetAttemptApproved DEF Prepare
<1>1. CASE Rpc
  BY <1>1, <1>b DEF Rpc, StartActivity, Evaluate, RequestRelease, FreezeBaseline,
     DecideRelease, CreateDraft, RecordEvidence, VerifyEvidence, ImportRequirements, ChangePolicy,
     ExpireApproval
<1>2. CASE EnsureActive
  BY <1>2, <1>b, <1>c DEF EnsureActive
<1>3. CASE TakeSnapshot
  BY <1>3, <1>e DEF TakeSnapshot, At, StepInv
<1>4. CASE AdvanceToReviewReady
  BY <1>4, <1>a, <1>b, SetAttemptApproved DEF AdvanceToReviewReady
<1>5. CASE LinkApproval \/ ChangeRequest
  BY <1>5, <1>d DEF LinkApproval, ChangeRequest
<1>6. CASE AwaitApproval \/ RejectAttempt \/ ChangeAttempt \/ ReworkAttempt
             \/ ApproveAttempt \/ InvalidateChange \/ InvalidateRun \/ ResumeReject
  BY <1>6, <1>a, TransitionApproved DEF AwaitApproval, RejectAttempt, ChangeAttempt,
     ReworkAttempt, ApproveAttempt, InvalidateChange, InvalidateRun, ResumeReject
<1>7. CASE CreateNext
  BY <1>7, <1>b, <1>c DEF CreateNext
<1>8. CASE SnapshotNext
  BY <1>8, <1>e DEF SnapshotNext
<1>9. CASE StartWork
  BY <1>9, <1>a, <1>b, SetAttemptApproved DEF StartWork
<1>10. CASE Return \/ AbortOrphans \/ FreezePackage \/ NewPackage \/ InsertRequest
              \/ CreateApproval \/ ExpireRequest \/ SupersedeDrifted \/ ExpireDrifted
              \/ RecordVerdict \/ RejectRequest \/ PassGate \/ ApproveRequest
  BY <1>10, <1>b DEF Return, AbortOrphans, FreezePackage, NewPackage, InsertRequest,
     CreateApproval, ExpireRequest, SupersedeDrifted, ExpireDrifted, RecordVerdict,
     RejectRequest, PassGate, ApproveRequest
<1>11. CASE InvalidateRequest \/ InvalidateApproval \/ Freeze \/ Fail \/ Crash \/ Boot
              \/ PickPending \/ ResumeDrift \/ UNCHANGED vars
  BY <1>11, <1>b DEF InvalidateRequest, InvalidateApproval, Freeze, Fail, Crash, Boot,
     PickPending, ResumeDrift, vars
<1> QED
  BY <1>1, <1>2, <1>3, <1>4, <1>5, <1>6, <1>7, <1>8, <1>9, <1>10, <1>11
  DEF Next, Ensure, Request, Decide, Complete, Invalidate, Recover

\* The approved request and the approved attempt that let gate g pass.
PassedBy(g, r) ==
  /\ requests[r].approval = "approved"
  /\ requests[r].att \in AttemptsOf(g)
  /\ attempts[requests[r].att].state = "approved"

LEMMA PassedByKept ==
  ASSUME VerdictsKept, ApprovalsKept, NEW g, NEW r \in RequestIds, PassedBy(g, r)
  PROVE  PassedBy(g, r)'
<1>1. requests'[r].approval = "approved" /\ requests'[r].att = requests[r].att
  BY DEF PassedBy, VerdictsKept, Verdicts
<1>2. requests[r].att \in AttemptIds /\ attempts[requests[r].att].gate = g
  BY DEF PassedBy, AttemptsOf
<1>3. /\ attempts'[requests[r].att].state = "approved"
      /\ attempts'[requests[r].att].gate = g
  BY <1>2 DEF PassedBy, ApprovalsKept
<1> QED
  BY <1>1, <1>2, <1>3 DEF PassedBy, AttemptsOf

LEMMA NextPassed ==
  TypeInv /\ StepInv /\ PassedOnApproval /\ [Next]_vars => PassedOnApproval'
<1> SUFFICES ASSUME TypeInv, StepInv, PassedOnApproval, [Next]_vars,
                    NEW g \in Gates, stage'[g] = "passed"
             PROVE  \E r \in RequestIds : PassedBy(g, r)'
  BY DEF PassedOnApproval, PassedBy
<1> USE Assemble
<1>a. VerdictsKept
  BY NextVerdicts
<1>b. ASSUME stage[g] = "passed" PROVE \E r \in RequestIds : PassedBy(g, r)
  BY <1>b DEF PassedOnApproval, PassedBy
<1>c. ASSUME ApprovalsKept, stage[g] = "passed"
      PROVE  \E r \in RequestIds : PassedBy(g, r)'
  BY <1>a, <1>b, <1>c, PassedByKept
<1>1. CASE PassGate
  <2>1. ApprovalsKept
    BY <1>1 DEF PassGate, ApprovalsKept
  <2>2. op.step = "pass"
    BY <1>1 DEF PassGate, At
  <2>3. op.req \in RequestIds /\ op.att \in AttemptIds
    BY <2>2, DecideSteps DEF RequestSteps
  <2>4. PassedBy(op.gate, op.req)
    BY <2>2, <2>3 DEF StepInv, PassSteps, PassedBy, AttemptsOf
  <2>5. stage[g] = "passed" \/ g = op.gate
    BY <1>1 DEF PassGate, Tables
  <2> QED
    BY <1>a, <1>c, <2>1, <2>3, <2>4, <2>5, PassedByKept
<1>2. CASE MarkStale
  <2>1. stage[g] = "passed"
    BY <1>2 DEF MarkStale, Tables
  <2>2. PICK r \in RequestIds : PassedBy(g, r)
    BY <1>b, <2>1
  <2>3. CASE UNCHANGED attempts
    BY <1>c, <2>1, <2>3 DEF ApprovalsKept
  <2>4. ASSUME NEW a \in Supersedable, Stalable = {}, UNCHANGED stage,
               SetAttempt(a, "superseded")
        PROVE  \E q \in RequestIds : PassedBy(g, q)'
    <3>1. ~(g \in op.gate .. NGates)
      BY <2>1, <2>4 DEF Stalable, StageMoves
    <3>2. g < op.gate
      BY <3>1 DEF Gates, Handler
    <3>3. a \in AttemptIds /\ attempts[a].gate >= op.gate
      BY DEF Supersedable
    <3>4. requests[r].att \in AttemptIds /\ attempts[requests[r].att].gate = g
      BY <2>2 DEF PassedBy, AttemptsOf
    <3>5. requests[r].att # a
      BY <3>2, <3>3, <3>4 DEF Gates, Handler
    <3>6. attempts'[requests[r].att] = attempts[requests[r].att]
      BY <2>4, <3>4, <3>5 DEF SetAttempt, Tables
    <3>7. requests' = requests
      BY <1>2 DEF MarkStale
    <3> QED
      BY <2>2, <3>6, <3>7 DEF PassedBy, AttemptsOf
  <2> QED
    BY <1>2, <2>3, <2>4 DEF MarkStale
<1>3. CASE ~PassGate /\ ~MarkStale
  <2>1. UNCHANGED stage
    BY <1>3 DEF Next, Rpc, StartActivity, Evaluate, RequestRelease, FreezeBaseline,
       DecideRelease, CreateDraft, RecordEvidence, VerifyEvidence, ImportRequirements, ChangePolicy,
       ExpireApproval, Ensure, EnsureActive, TakeSnapshot, AdvanceToReviewReady, Return,
       Request, AbortOrphans, FreezePackage, NewPackage, InsertRequest, CreateApproval,
       LinkApproval, AwaitApproval, Decide, ExpireRequest, SupersedeDrifted,
       ExpireDrifted, RecordVerdict, RejectAttempt, RejectRequest, ChangeAttempt,
       ReworkAttempt, ChangeRequest, Complete, ApproveAttempt, CreateNext, SnapshotNext,
       ApproveRequest, Invalidate, InvalidateRequest, InvalidateApproval,
       InvalidateChange, InvalidateRun, StartWork, Freeze, Recover, Fail, Crash, Boot,
       PickPending, ResumeDrift, ResumeReject, vars
  <2> QED
    BY <1>3, <1>c, <2>1, NextApprovals
<1> QED
  BY <1>1, <1>2, <1>3

\* A gate counts as passed only while a person's approval of an attempt of that
\* gate, and that attempt, are still on record as approved.  (pass_gate)
THEOREM PassedNeedsApproval == Spec => []PassedOnApproval
<1>1. Init => PassedOnApproval
  BY DEF Init, PassedOnApproval
<1> QED
  BY <1>1, TypeInvariant, StepInvariant, NextPassed, PTL DEF Spec

-----------------------------------------------------------------------------
(* The requests of one attempt.  What holds of them whatever happens is      *)
(* RequestInv; what holds as long as no digest comes back is ReleaseInv.     *)

\* The permissions do not change and the counts of the requirements do not fall.
Settled ==
  /\ policy' = policy
  /\ coverage.total <= coverage'.total
  /\ coverage.covered <= coverage'.covered
  /\ coverage.verified <= coverage'.verified

\* The digest d is not younger than e.
Within(d, e) ==
  /\ d.content <= e.content
  /\ d.coverage.total <= e.coverage.total
  /\ d.coverage.covered <= e.coverage.covered
  /\ d.coverage.verified <= e.coverage.verified
  /\ d.policy = e.policy

Open(r) == requests[r].state = "pending" /\ requests[r].linked

\* No package of an attempt was frozen after its open request.
DigestInv ==
  /\ \A p \in packages : /\ attempts[p.att].state # "none"
                         /\ Within(p.digest, Digest(p.att))
  /\ \A r \in RequestIds : requests[r].state # "none" =>
       /\ attempts[requests[r].att].state # "none"
       /\ requests[r].digest \in Digests
       /\ Within(requests[r].digest, Digest(requests[r].att))
  /\ \A r \in RequestIds : Open(r) =>
       \A p \in packages : p.att = requests[r].att => Within(p.digest, requests[r].digest)

ResumeSteps == {"boot", "pick", "approve", "pass", "next", "nextSnapshot",
                "approveRequest", "resumeDrift", "resumeReject"}

OnlyResume == {"boot", "pick", "resumeDrift", "resumeReject"}

\* What the recovery still has to do: requests that stay open until it is their turn.
TodoInv ==
  /\ op.kind = "resume" => op.step \in ResumeSteps
  /\ op.step \in OnlyResume => op.kind = "resume"
  /\ op.kind # "resume" => op.todo = {}
  /\ op.step = "boot" => op.todo = {}
  /\ op.step # "pick" => op.req \notin op.todo
  /\ \A r \in op.todo : Open(r)

Asking    == {"abortOrphans", "package", "newPackage", "insert", "approval", "link", "await"}
Opening   == {"newPackage", "insert", "approval", "link"}
Deciding  == PassSteps \union {"decide", "approve", "change", "rework", "changeRequest"}

\* What the handler of a request and that of a decision rely on.
RequestInv ==
  /\ op.step = "advance" => attempts[op.att].state \in ActiveStates
  /\ op.step \in Asking =>
       attempts[op.att].state \in {"review_ready", "awaiting_user_approval"}
  /\ op.step \in {"insert", "approval", "link"} => HasPackage(op.att)
  /\ op.step \in {"approval", "link"} =>
       /\ requests[op.req].att = op.att /\ ~requests[op.req].linked
       /\ requests[op.req].digest = Digest(op.att)
  /\ op.step \in Deciding => Open(op.req) /\ requests[op.req].att = op.att
  /\ op.step = "changeRequest" => attempts[op.att].state = "running"
  /\ op.step \in {"nextSnapshot", "approveRequest"} /\ op.gate < NGates =>
       AttemptsOf(op.gate + 1) # {}

\* A request is opened for an attempt that has none.
AskInv == op.step \in Opening => LinkedPending(op.att) = {}

ReleaseInv == DigestInv /\ AskInv /\ OnePendingRequest

\* Approvals that were given and are not carried out.
Waiting == {r \in DecidedPending : /\ requests[r].approval = "approved"
                                   /\ attempts[requests[r].att].state = "awaiting_user_approval"}
Carried(r) == op.step \in {"approve", "resumeDrift"} /\ op.req = r

RecoveryInv ==
  op.kind = "resume" /\ op.step # "boot" => \A r \in Waiting : r \in op.todo \/ Carried(r)

\* Outside the recovery only the handler that took the approval knows of one.
CurrentInv ==
  /\ op.kind # "resume" => \A r \in Waiting : Carried(r)
  /\ op.step = "await" => \A r \in LinkedPending(op.att) : requests[r].approval = "requested"
  /\ op.step = "link" => requests[op.req].approval = "requested"
  /\ op.step = "decide" => requests[op.req].digest = Digest(op.att)
  /\ op.step = "approve" /\ attempts[op.att].state = "awaiting_user_approval" =>
       requests[op.req].digest = Digest(op.att)

-----------------------------------------------------------------------------
(* What no action does to the rows.                                         *)

RowsKept == \A a \in AttemptIds : attempts[a].state # "none" =>
  /\ attempts'[a].state # "none" /\ attempts'[a].gate = attempts[a].gate
  /\ attempts[a].state \in {"approved", "superseded"} =>
       attempts'[a].state \in {"approved", "superseded"}

NoneAwaits == \A a \in AttemptIds : attempts'[a].state = "awaiting_user_approval" =>
  attempts[a].state = "awaiting_user_approval"

LEMMA SetAttemptRow ==
  ASSUME attempts \in [AttemptIds -> Attempt], NEW a, NEW s \in AttemptStates,
         a \in AttemptIds /\ attempts[a].state = "approved" => s = "superseded",
         a \in AttemptIds => attempts[a].state # "superseded",
         SetAttempt(a, s)
  PROVE  RowsKept /\ (s # "awaiting_user_approval" => NoneAwaits)
<1>1. s # "none"
  BY DEF AttemptStates, ActiveStates
<1> QED
  BY <1>1 DEF SetAttempt, RowsKept, NoneAwaits, Attempt

LEMMA TransitionRow ==
  ASSUME attempts \in [AttemptIds -> Attempt], NEW a, NEW to \in AttemptStates,
         NEW next, Transition(a, to, next)
  PROVE  RowsKept /\ (to # "awaiting_user_approval" => NoneAwaits)
<1>1. CASE UNCHANGED attempts
  BY <1>1 DEF RowsKept, NoneAwaits
<1>2. CASE <<attempts[a].state, to>> \in AttemptMoves /\ SetAttempt(a, to)
  <2>1. /\ attempts[a].state # "superseded"
        /\ attempts[a].state = "approved" => to = "superseded"
    BY <1>2 DEF AttemptMoves
  <2> QED
    BY <1>2, <2>1, SetAttemptRow
<1> QED
  BY <1>1, <1>2 DEF Transition

LEMMA NextRows ==
  ASSUME TypeInv, StepInv, [Next]_vars
  PROVE  RowsKept /\ (NoneAwaits \/ AwaitApproval)
<1> USE Assemble
<1>a. attempts \in [AttemptIds -> Attempt]
  BY DEF Tables
<1>b. UNCHANGED attempts => RowsKept /\ NoneAwaits
  BY DEF RowsKept, NoneAwaits
<1>c. ASSUME NEW a \in FreshAttempt, NEW g, InsertAttempt(a, g)
      PROVE  RowsKept /\ NoneAwaits
  BY <1>a, <1>c DEF FreshAttempt, InsertAttempt, NoAttempt, RowsKept, NoneAwaits
<1>d. ASSUME NEW a, NEW p, attempts' = [attempts EXCEPT ![a].package = p]
      PROVE  RowsKept /\ NoneAwaits
  BY <1>a, <1>d DEF RowsKept, NoneAwaits, Attempt
<1>e. ASSUME NEW a, NEW next, Prepare(a, next), attempts[a].state = "preparing"
      PROVE  RowsKept /\ NoneAwaits
  BY <1>a, <1>b, <1>e, SetAttemptRow DEF Prepare, AttemptStates, ActiveStates
<1>f. {"running", "review_ready", "awaiting_user_approval", "changes_requested",
       "approved", "rejected", "superseded"} \subseteq AttemptStates
  BY DEF AttemptStates, ActiveStates
<1>1. CASE Rpc
  BY <1>1, <1>b DEF Rpc, StartActivity, Evaluate, RequestRelease, FreezeBaseline,
     DecideRelease, CreateDraft, RecordEvidence, VerifyEvidence,
     ImportRequirements, ChangePolicy, ExpireApproval
<1>2. CASE EnsureActive
  BY <1>2, <1>b, <1>c DEF EnsureActive
<1>3. CASE TakeSnapshot
  BY <1>3, <1>e DEF TakeSnapshot, At, StepInv
<1>4. CASE AdvanceToReviewReady
  BY <1>4, <1>a, <1>b, <1>f, SetAttemptRow DEF AdvanceToReviewReady
<1>5. CASE LinkApproval \/ ChangeRequest
  BY <1>5, <1>d DEF LinkApproval, ChangeRequest
<1>6. CASE AwaitApproval \/ RejectAttempt \/ ChangeAttempt \/ ReworkAttempt
             \/ ApproveAttempt \/ InvalidateChange \/ InvalidateRun \/ ResumeReject
  BY <1>6, <1>a, <1>f, TransitionRow DEF AwaitApproval, RejectAttempt, ChangeAttempt,
     ReworkAttempt, ApproveAttempt, InvalidateChange, InvalidateRun, ResumeReject
<1>7. CASE CreateNext
  BY <1>7, <1>b, <1>c DEF CreateNext
<1>8. CASE SnapshotNext
  BY <1>8, <1>e DEF SnapshotNext
<1>9. CASE StartWork
  BY <1>9, <1>a, <1>b, <1>f, SetAttemptRow DEF StartWork
<1>10. CASE MarkStale
  BY <1>10, <1>a, <1>b, <1>f, SetAttemptRow DEF MarkStale, Supersedable
<1>11. CASE Return \/ AbortOrphans \/ FreezePackage \/ NewPackage \/ InsertRequest
              \/ CreateApproval \/ ExpireRequest \/ SupersedeDrifted \/ ExpireDrifted
              \/ RecordVerdict \/ RejectRequest \/ PassGate \/ ApproveRequest
  BY <1>11, <1>b DEF Return, AbortOrphans, FreezePackage, NewPackage, InsertRequest,
     CreateApproval, ExpireRequest, SupersedeDrifted, ExpireDrifted, RecordVerdict,
     RejectRequest, PassGate, ApproveRequest
<1>12. CASE InvalidateRequest \/ InvalidateApproval \/ Freeze \/ Fail \/ Crash \/ Boot
              \/ PickPending \/ ResumeDrift \/ UNCHANGED vars
  BY <1>12, <1>b DEF InvalidateRequest, InvalidateApproval, Freeze, Fail, Crash, Boot,
     PickPending, ResumeDrift, vars
<1> QED
  BY <1>1, <1>2, <1>3, <1>4, <1>5, <1>6, <1>7, <1>8, <1>9, <1>10, <1>11, <1>12
  DEF Next, Ensure, Request, Decide, Complete, Invalidate, Recover

\* A request keeps its attempt and its digest; only LinkApproval opens one.
RequestKept(r) ==
  /\ requests[r].state # "none" /\ requests'[r].att = requests[r].att
  /\ requests'[r].digest = requests[r].digest
  /\ ~Open(r) => ~Open(r)'
Inserted(r) ==
  /\ InsertRequest /\ r \in FreshRequest
  /\ requests'[r] = [att |-> op.att, digest |-> Digest(op.att), linked |-> FALSE,
                     approval |-> "none", state |-> "pending"]

LEMMA SetRequestRow ==
  ASSUME requests \in [RequestIds -> RequestRow], NEW r, NEW s \in RequestStates,
         s # "pending" \/ (r \in RequestIds => requests[r].state = "pending"),
         r \in RequestIds => requests[r].state # "none", SetRequest(r, s)
  PROVE  \A q \in RequestIds : requests'[q].state # "none" => RequestKept(q)
  BY DEF SetRequest, RequestRow, RequestKept, Open

LEMMA SetApprovalRow ==
  ASSUME requests \in [RequestIds -> RequestRow], NEW r, NEW s, SetApproval(r, s)
  PROVE  \A q \in RequestIds : requests'[q].state # "none" => RequestKept(q)
  BY DEF SetApproval, RequestRow, RequestKept, Open

LEMMA NextRequests ==
  ASSUME TypeInv, StepInv, [Next]_vars, NEW q \in RequestIds, requests'[q].state # "none"
  PROVE  \/ RequestKept(q)
         \/ Inserted(q)
         \/ LinkApproval /\ q = op.req /\ requests[q].state # "none"
<1> USE Assemble
<1>a. /\ requests \in [RequestIds -> RequestRow]
      /\ op.step \in RequestSteps => op.req \in RequestIds /\ requests[op.req].state # "none"
  BY DecideSteps
<1>b. UNCHANGED requests => RequestKept(q)
  BY DEF RequestKept, Open
<1>c. {"expired", "superseded", "rejected", "changes_requested", "approved"}
        \subseteq RequestStates
  BY DEF RequestStates
<1>1. CASE Withdraw
  <2>1. CASE requests'[q] = requests[q]
    BY <2>1 DEF RequestKept, Open
  <2>2. CASE requests[q].state # "none"
             /\ requests'[q] = [requests[q] EXCEPT !.state = "superseded"]
    BY <2>2, <1>a DEF RequestKept, Open, RequestRow
  <2> QED
    BY <1>1, <2>1, <2>2 DEF Withdraw
<1>2. CASE InsertRequest
  <2>1. CASE UNCHANGED requests
    BY <2>1, <1>b
  <2>2. ASSUME NEW r \in FreshRequest, requests' = [requests EXCEPT ![r] =
                 [att |-> op.att, digest |-> Digest(op.att), linked |-> FALSE,
                  approval |-> "none", state |-> "pending"]]
        PROVE  RequestKept(q) \/ Inserted(q)
    <3>1. CASE q = r
      BY <3>1, <2>2, <1>2, <1>a DEF Inserted
    <3>2. CASE q # r
      <4>1. requests'[q] = requests[q]
        BY <3>2, <2>2
      <4> QED
        BY <4>1 DEF RequestKept, Open
    <3> QED
      BY <3>1, <3>2
  <2> QED
    BY <1>2, <2>1, <2>2 DEF InsertRequest
<1>3. CASE LinkApproval
  <2>1. CASE q = op.req
    BY <2>1, <1>3, <1>a DEF LinkApproval, At, RequestSteps
  <2>2. CASE q # op.req
    BY <2>2, <1>3 DEF LinkApproval, RequestKept, Open
  <2> QED
    BY <2>1, <2>2
<1>4. CASE CreateApproval \/ ExpireDrifted \/ RecordVerdict
             \/ \E r \in RequestIds : ExpireApproval(r)
  BY <1>4, <1>a, SetApprovalRow DEF CreateApproval, ExpireDrifted, RecordVerdict, ExpireApproval
<1>5. CASE ExpireRequest \/ RejectRequest \/ ChangeRequest \/ ApproveRequest
  <2>1. op.req \in RequestIds /\ requests[op.req].state # "none"
    BY <1>5, <1>a DEF ExpireRequest, RejectRequest, ChangeRequest, ApproveRequest, At,
       RequestSteps
  <2>2. \/ UNCHANGED requests
        \/ \E s \in {"expired", "rejected", "changes_requested", "approved"} :
             SetRequest(op.req, s)
    BY <1>5 DEF ExpireRequest, RejectRequest, ChangeRequest, ApproveRequest
  <2> QED
    BY <2>1, <2>2, <1>a, <1>b, <1>c, SetRequestRow
<1>6. CASE InvalidateApproval
  BY <1>6, <1>a, <1>b, SetApprovalRow DEF InvalidateApproval
<1> QED
  BY <1>1, <1>2, <1>3, <1>4, <1>5, <1>6, RequestWriters

\* What build_manifest reads only grows.
LEMMA NextOutput ==
  ASSUME TypeInv, [Next]_vars
  PROVE  \A g \in Gates : output'[g] \in Contents /\ output[g] <= output'[g]
<1> USE Assemble
<1>a. /\ output \in [Gates -> Contents] /\ \A c \in Contents : c \in Nat /\ c <= c
  BY DEF Tables, Contents
<1>b. output' \in [Gates -> Contents]
  BY NextType DEF TypeInv, TypeOK
<1>c. UNCHANGED output => \A g \in Gates : output[g] <= output'[g]
  BY <1>a
<1>1. CASE Rpc
  <2>1. ASSUME NEW g \in Gates, RecordEvidence(g)
        PROVE  \A h \in Gates : output[h] <= output'[h]
    BY <2>1, <1>a DEF RecordEvidence
  <2>2. ASSUME NEW g \in Gates, NEW c \in Contents, VerifyEvidence(g, c)
        PROVE  \A h \in Gates : output[h] <= output'[h]
    BY <2>2, <1>a DEF VerifyEvidence
  <2>3. CASE \/ StartActivity \/ ImportRequirements \/ CreateDraft
             \/ \E g \in Gates : Evaluate(g) \/ RequestRelease(g) \/ FreezeBaseline(g)
             \/ \E r \in RequestIds, v \in Verdicts : DecideRelease(r, v)
             \/ \E p \in Policies : ChangePolicy(p)
             \/ \E r \in RequestIds : ExpireApproval(r)
    <3>1. UNCHANGED output
      BY <2>3 DEF StartActivity, Evaluate, RequestRelease, FreezeBaseline,
         DecideRelease, ChangePolicy, ExpireApproval, ImportRequirements, CreateDraft
    <3> QED
      BY <3>1, <1>b, <1>c
  <2> QED
    BY <1>1, <1>b, <2>1, <2>2, <2>3 DEF Rpc
<1>2. CASE Freeze
  <2>1. PICK c \in (output[op.gate] + 1) .. MaxContent :
          output' = [output EXCEPT ![op.gate] = c]
    BY <1>2 DEF Freeze
  <2>2. op.gate \in Gates
    BY DEF Handler
  <2> QED
    BY <2>1, <2>2, <1>a, <1>b
<1>3. CASE UNCHANGED output
  BY <1>3, <1>b, <1>c
<1>4. Rpc \/ Freeze \/ UNCHANGED output
  BY DEF Next, Ensure, Request, Decide, Complete, Invalidate, Recover,
     EnsureActive, TakeSnapshot, AdvanceToReviewReady, Return, AbortOrphans, FreezePackage,
     NewPackage, InsertRequest, CreateApproval, LinkApproval, AwaitApproval, ExpireRequest,
     SupersedeDrifted, ExpireDrifted, RecordVerdict, RejectAttempt, RejectRequest,
     ChangeAttempt, ReworkAttempt, ChangeRequest, ApproveAttempt, PassGate, CreateNext,
     SnapshotNext, ApproveRequest, InvalidateRequest, InvalidateApproval,
     InvalidateChange, InvalidateRun, StartWork, MarkStale, Fail, Crash, Boot,
     PickPending, ResumeDrift, ResumeReject, vars
<1> QED
  BY <1>1, <1>2, <1>3, <1>4

-----------------------------------------------------------------------------
(* The recovery, whatever the permissions.                                  *)

\* A handler that is not the recovery does not become it.
Stays == op' = Idle \/ (op'.kind = op.kind /\ op'.todo = op.todo /\ op'.step \notin OnlyResume)

LEMMA GotoStays ==
  ASSUME op \in Handler, NEW s, s \notin OnlyResume, Goto(s)
  PROVE  Stays
  BY DEF Goto, Handler, Stays

LEMMA LeaveStays == op.kind # "resume" /\ Leave => Stays
  BY DEF Leave, Stays

LEMMA WorkStays ==
  ASSUME TypeInv, op.kind # "resume",
         Ensure \/ Request \/ Decide \/ Complete \/ Invalidate
  PROVE  Stays
<1> USE Assemble
<1> USE DEF OnlyResume
<1>a. /\ AfterEnsure \notin OnlyResume /\ AfterAdvance \notin OnlyResume
      /\ AfterInvalidate \notin OnlyResume
  BY DEF AfterEnsure, AfterAdvance, AfterInvalidate
<1>b. Leave => Stays
  BY LeaveStays
<1>c. ASSUME NEW a, NEW to, NEW next, next \notin OnlyResume, Transition(a, to, next)
      PROVE  Stays
  BY <1>b, <1>c, GotoStays DEF Transition
<1>d. ASSUME NEW a, NEW next, next \notin OnlyResume, Prepare(a, next)
      PROVE  Stays
  BY <1>b, <1>d, GotoStays DEF Prepare
<1>1. CASE Ensure
  <2>1. CASE EnsureActive
    BY <2>1, <1>a, <1>b DEF EnsureActive, Stays, Handler
  <2>2. CASE TakeSnapshot
    BY <2>2, <1>a, <1>d DEF TakeSnapshot
  <2>3. CASE AdvanceToReviewReady \/ Return
    BY <2>3, <1>a, <1>b, GotoStays DEF AdvanceToReviewReady, Return
  <2> QED
    BY <1>1, <2>1, <2>2, <2>3 DEF Ensure
<1>2. CASE Request
  <2>1. CASE InsertRequest
    BY <2>1, <1>b DEF InsertRequest, Stays, Handler
  <2>2. CASE AwaitApproval
    BY <2>2, <1>c DEF AwaitApproval
  <2>3. CASE AbortOrphans \/ FreezePackage \/ NewPackage \/ CreateApproval \/ LinkApproval
    BY <2>3, <1>b, GotoStays DEF AbortOrphans, FreezePackage, NewPackage, CreateApproval,
       LinkApproval
  <2> QED
    BY <1>2, <2>1, <2>2, <2>3 DEF Request
<1>3. CASE Decide
  <2>1. CASE RecordVerdict
    BY <2>1, GotoStays DEF RecordVerdict, FirstStep
  <2>2. CASE RejectAttempt \/ ChangeAttempt \/ ReworkAttempt
    BY <2>2, <1>c DEF RejectAttempt, ChangeAttempt, ReworkAttempt
  <2>3. CASE ExpireRequest \/ SupersedeDrifted \/ ExpireDrifted \/ RejectRequest
               \/ ChangeRequest
    BY <2>3, <1>b, GotoStays DEF ExpireRequest, SupersedeDrifted, ExpireDrifted,
       RejectRequest, ChangeRequest
  <2> QED
    BY <1>3, <2>1, <2>2, <2>3 DEF Decide
<1>4. CASE Complete
  <2>1. CASE ApproveAttempt
    BY <2>1, <1>c DEF ApproveAttempt
  <2>2. CASE SnapshotNext
    BY <2>2, <1>d DEF SnapshotNext
  <2>3. CASE PassGate \/ CreateNext \/ ApproveRequest
    BY <2>3, <1>b, GotoStays DEF PassGate, CreateNext, ApproveRequest
  <2> QED
    BY <1>4, <2>1, <2>2, <2>3 DEF Complete
<1>5. CASE Invalidate
  <2>1. CASE InvalidateRequest
    BY <2>1, <1>a, <1>b, GotoStays DEF InvalidateRequest, Stays, Handler
  <2>2. CASE InvalidateChange \/ InvalidateRun
    BY <2>2, <1>a, <1>c DEF InvalidateChange, InvalidateRun
  <2>3. CASE InvalidateApproval \/ StartWork \/ Freeze
    BY <2>3, <1>b, GotoStays DEF InvalidateApproval, StartWork, Freeze
  <2>4. CASE MarkStale
    BY <2>4, <1>b DEF MarkStale, Stays, At
  <2> QED
    BY <1>5, <2>1, <2>2, <2>3, <2>4 DEF Invalidate
<1> QED
  BY <1>1, <1>2, <1>3, <1>4, <1>5

\* An RPC starts no recovery.
LEMMA RpcStays ==
  ASSUME TypeInv, Rpc
  PROVE  op = Idle /\ op'.kind # "resume" /\ op'.todo = {} /\ op'.step \notin OnlyResume
<1> USE Assemble DEF OnlyResume
<1>a. ASSUME NEW k \in {"start", "evaluate", "request", "freeze", "record"},
             NEW s \in {"ensure", "invalidate"}, NEW g, Call(k, s, g)
      PROVE  op'.kind # "resume" /\ op'.todo = {} /\ op'.step \notin OnlyResume
  BY <1>a DEF Call, Idle
<1>b. op = Idle /\ UNCHANGED op =>
        op'.kind # "resume" /\ op'.todo = {} /\ op'.step \notin OnlyResume
  BY DEF Idle
<1>1. CASE \/ StartActivity
           \/ \E g \in Gates : Evaluate(g) \/ RequestRelease(g) \/ FreezeBaseline(g)
  BY <1>1, <1>a, <1>b DEF StartActivity, Evaluate, RequestRelease, FreezeBaseline
<1>2. ASSUME NEW r \in RequestIds, NEW v \in Verdicts, DecideRelease(r, v)
      PROVE  op = Idle /\ op'.kind # "resume" /\ op'.todo = {}
             /\ op'.step \notin OnlyResume
  <2>1. PICK s \in {"expireRequest", "driftRequest", "decide", FirstStep(v)} :
          op' = [Idle EXCEPT !.kind = "decide", !.step = s, !.req = r, !.verdict = v,
                             !.att = requests[r].att,
                             !.gate = attempts[requests[r].att].gate]
    BY <1>2 DEF DecideRelease
  <2> QED
    BY <1>2, <2>1 DEF DecideRelease, FirstStep, Idle
<1>3. CASE \/ \E g \in Gates, c \in Contents : VerifyEvidence(g, c)
           \/ \E p \in Policies : ChangePolicy(p)
           \/ \E r \in RequestIds : ExpireApproval(r)
           \/ ImportRequirements
  BY <1>3, <1>b DEF VerifyEvidence, ChangePolicy, ExpireApproval, ImportRequirements
<1>4. ASSUME CreateDraft \/ \E g \in Gates : RecordEvidence(g)
      PROVE  op = Idle /\ op'.kind # "resume" /\ op'.todo = {}
             /\ op'.step \notin OnlyResume
  BY <1>4, <1>a DEF CreateDraft, RecordEvidence
<1> QED
  BY <1>1, <1>2, <1>3, <1>4 DEF Rpc

\* The recovery goes on with the same request, or has done with it.
ResumeWork == {"approve", "pass", "next", "nextSnapshot", "approveRequest", "resumeDrift",
               "resumeReject"}
LEMMA ResumeGoto ==
  ASSUME op \in Handler, op.kind = "resume",
         (\E s \in ResumeWork : Goto(s)) \/ Leave \/ Goto("pick")
  PROVE  /\ op'.kind = "resume" /\ op'.todo = op.todo /\ op'.req = op.req
         /\ op'.step \in ResumeSteps \ {"boot"}
  BY DEF Goto, Leave, Handler, ResumeWork, ResumeSteps

LEMMA CompleteGoto ==
  ASSUME Complete \/ ResumeReject
  PROVE  (\E s \in ResumeWork : Goto(s)) \/ Leave \/ Goto("pick")
<1> USE DEF ResumeWork
<1>1. CASE ApproveAttempt \/ ResumeReject
  BY <1>1 DEF ApproveAttempt, ResumeReject, Transition
<1>2. CASE PassGate \/ CreateNext \/ SnapshotNext \/ ApproveRequest
  BY <1>2 DEF PassGate, CreateNext, SnapshotNext, ApproveRequest, Prepare
<1> QED
  BY <1>1, <1>2 DEF Complete

LEMMA NextTodo == TypeInv /\ StepInv /\ TodoInv /\ [Next]_vars => TodoInv'
<1> SUFFICES ASSUME TypeInv, StepInv, TodoInv, [Next]_vars PROVE TodoInv'
  OBVIOUS
<1> USE Assemble
<1>a. op \in Handler /\ requests \in [RequestIds -> RequestRow]
  BY DEF Handler
<1>b. ASSUME op'.kind # "resume", op'.todo = {}, op'.step \notin OnlyResume
      PROVE  TodoInv'
  BY <1>b DEF TodoInv, OnlyResume
<1>c. op' = Idle => TodoInv'
  BY <1>b DEF Idle, OnlyResume
<1>d. op.kind # "resume" /\ Stays => TodoInv'
  BY <1>b, <1>c DEF TodoInv, Stays
<1>e. ASSUME op.kind = "resume", op.step # "pick", op'.kind = "resume", op'.req = op.req,
             op'.todo = op.todo, op'.step \in ResumeSteps \ {"boot"},
             \A q \in RequestIds : q = op.req \/ requests'[q] = requests[q]
      PROVE  TodoInv'
  <2>1. op.todo \subseteq RequestIds /\ op.req \notin op.todo
    BY <1>a, <1>e DEF TodoInv, Handler
  <2> QED
    BY <1>e, <2>1 DEF TodoInv, Open
<1>1. CASE Rpc
  BY <1>1, <1>b, RpcStays
<1>2. CASE Ensure \/ Request \/ Decide \/ Invalidate
  <2>1. op.step \notin ResumeSteps
    BY <1>2 DEF Ensure, EnsureActive, TakeSnapshot, AdvanceToReviewReady, Return,
       Request, AbortOrphans, FreezePackage, NewPackage, InsertRequest, CreateApproval,
       LinkApproval, AwaitApproval, Decide, ExpireRequest, SupersedeDrifted, ExpireDrifted,
       RecordVerdict, RejectAttempt, RejectRequest, ChangeAttempt, ReworkAttempt,
       ChangeRequest, Invalidate, InvalidateRequest, InvalidateApproval, InvalidateChange,
       InvalidateRun, StartWork, Freeze, MarkStale, At, ResumeSteps
  <2> QED
    BY <1>2, <1>d, <2>1, WorkStays DEF TodoInv
<1>3. CASE Complete \/ ResumeReject \/ ResumeDrift
  <2>1. op.step \notin {"boot", "pick"}
    BY <1>3 DEF Complete, ApproveAttempt, PassGate, CreateNext, SnapshotNext, ApproveRequest,
       ResumeReject, ResumeDrift, At
  <2>2. \A q \in RequestIds : q = op.req \/ requests'[q] = requests[q]
    BY <1>3 DEF Complete, ApproveAttempt, PassGate, CreateNext, SnapshotNext, ApproveRequest,
       ResumeReject, ResumeDrift, SetRequest
  <2>3. CASE op.kind = "resume"
    <3>1. op' = Idle \/ (\E s \in ResumeWork : Goto(s)) \/ Leave \/ Goto("pick")
      BY <1>3, CompleteGoto DEF ResumeDrift
    <3> QED
      BY <1>a, <1>c, <1>e, <2>1, <2>2, <2>3, <3>1, ResumeGoto
  <2>4. CASE op.kind # "resume"
    <3>1. ~ResumeReject /\ ~ResumeDrift
      BY <2>4 DEF ResumeReject, ResumeDrift, At, TodoInv, OnlyResume
    <3> QED
      BY <1>3, <2>4, <3>1, <1>d, WorkStays
  <2> QED
    BY <2>3, <2>4
<1>4. CASE Fail
  <2>1. UNCHANGED requests
    BY <1>4 DEF Fail
  <2>2. CASE op.kind = "resume" /\ op' # Idle
    <3>1. op.step \notin {"invalidateChange", "invalidateRun", "boot", "resumeDrift"}
      BY <1>4, <2>2 DEF Fail, TodoInv, ResumeSteps
    <3>2. /\ op'.kind = "resume" /\ op'.todo = op.todo /\ op'.step = "pick"
      BY <1>4, <1>a, <2>2, <3>1 DEF Fail, Leave, Handler
    <3> QED
      BY <3>2, <2>1 DEF TodoInv, Open, ResumeSteps
  <2>3. CASE op.kind # "resume"
    <3>1. Stays
      BY <1>4, <1>a, <2>3, LeaveStays, GotoStays DEF Fail, AfterInvalidate, Stays, OnlyResume
    <3> QED
      BY <1>d, <2>3, <3>1
  <2> QED
    BY <1>c, <2>2, <2>3
<1>5. CASE Crash
  BY <1>5 DEF Crash, Idle, TodoInv, ResumeSteps, OnlyResume
<1>6. CASE Boot
  <2>1. /\ op'.kind = op.kind /\ op'.step = "pick"
        /\ op'.todo = {r \in RequestIds : /\ requests[r].state = "pending"
                                          /\ requests[r].linked
                                          /\ requests[r].approval \in Verdicts}
    BY <1>6, <1>a DEF Boot, Handler
  <2>2. op.kind = "resume"
    BY <1>6 DEF Boot, At, TodoInv, OnlyResume
  <2>3. \A r \in op'.todo : requests'[r] = requests[r]
    BY <1>6, <2>1 DEF Boot
  <2> QED
    BY <2>1, <2>2, <2>3 DEF TodoInv, Open, ResumeSteps
<1>7. CASE PickPending
  <2>1. op.kind = "resume" /\ UNCHANGED requests
    BY <1>7 DEF PickPending, At, TodoInv, OnlyResume
  <2>2. ASSUME NEW r \in op.todo,
               op' = [op EXCEPT !.req = r, !.att = requests[r].att,
                                !.gate = attempts[requests[r].att].gate,
                                !.todo = @ \ {r}, !.step = ResumeStep(r)]
        PROVE  TodoInv'
    <3>1. /\ op'.kind = "resume" /\ op'.req = r /\ op'.todo = op.todo \ {r}
          /\ op'.step = ResumeStep(r)
      BY <2>1, <2>2, <1>a DEF Handler
    <3>2. ResumeStep(r) \in {"resumeDrift", "approve", "resumeReject", "pick"}
      BY DEF ResumeStep
    <3> QED
      BY <2>1, <3>1, <3>2 DEF TodoInv, Open, ResumeSteps
  <2> QED
    BY <1>7, <1>c, <2>2 DEF PickPending
<1>8. CASE UNCHANGED vars
  BY <1>8 DEF vars, TodoInv, Open
<1> QED
  BY <1>1, <1>2, <1>3, <1>4, <1>5, <1>6, <1>7, <1>8 DEF Next, Recover

LEMMA TodoInvariant == Spec => []TodoInv
<1>1. Init => TodoInv
  BY DEF Init, Idle, TodoInv, OnlyResume
<1> QED
  BY <1>1, TypeInvariant, StepInvariant, NextTodo, PTL DEF Spec

LEMMA NextRecovery ==
  ~WritesFail /\ TypeInv /\ StepInv /\ TodoInv /\ RecoveryInv /\ [Next]_vars => RecoveryInv'
<1> SUFFICES ASSUME ~WritesFail, TypeInv, StepInv, TodoInv, RecoveryInv, [Next]_vars,
                    op'.kind = "resume", op'.step # "boot", NEW r \in Waiting'
             PROVE  r \in op'.todo \/ Carried(r)'
  BY DEF RecoveryInv
<1> USE Assemble
<1>a. /\ op \in Handler /\ requests \in [RequestIds -> RequestRow] /\ RowsKnown
      /\ attempts \in [AttemptIds -> Attempt]
  BY DEF Tables
<1>r. /\ r \in RequestIds /\ Open(r)' /\ requests'[r].approval = "approved"
      /\ attempts'[requests'[r].att].state = "awaiting_user_approval"
  BY DEF Waiting, DecidedPending, Open
<1>k. op.kind = "resume"
  <2>1. CASE Rpc
    BY <2>1, RpcStays
  <2>2. CASE Ensure \/ Request \/ Decide \/ Complete \/ Invalidate
    BY <2>2, WorkStays DEF Stays, Idle
  <2>3. CASE Fail \/ Crash
    BY <2>3 DEF Fail, Crash, Idle
  <2>4. CASE Boot \/ PickPending \/ ResumeDrift \/ ResumeReject
    BY <2>4 DEF Boot, PickPending, ResumeDrift, ResumeReject, At, TodoInv, OnlyResume
  <2>5. CASE UNCHANGED vars
    BY <2>5 DEF vars
  <2> QED
    BY <2>1, <2>2, <2>3, <2>4, <2>5 DEF Next, Recover
<1>s. op.step \in ResumeSteps
  BY <1>k DEF TodoInv
<1>w. ASSUME requests'[r] = requests[r], ~AwaitApproval
      PROVE  r \in Waiting /\ requests[r].att \in AttemptIds
  <2>1. requests[r].att \in AttemptIds
    BY <1>a, <1>r, <1>w DEF RowsKnown, Open
  <2> QED
    BY <1>r, <1>w, <2>1, NextRows DEF NoneAwaits, Waiting, DecidedPending, Open, Verdicts
<1>x. ~AwaitApproval
  BY <1>s DEF AwaitApproval, At, ResumeSteps
<1>1. CASE Boot
  <2>1. /\ op'.todo = {q \in RequestIds : /\ requests[q].state = "pending"
                                          /\ requests[q].linked
                                          /\ requests[q].approval \in Verdicts}
    BY <1>1, <1>a DEF Boot, Handler
  <2>2. requests'[r] = requests[r]
    BY <1>1, <1>r, <1>a DEF Boot, Open, RequestRow
  <2> QED
    BY <1>r, <2>1, <2>2 DEF Open, Verdicts
<1>2. CASE PickPending
  <2>1. UNCHANGED requests /\ op.step = "pick"
    BY <1>2 DEF PickPending, At
  <2>2. r \in op.todo
    BY <1>k, <1>w, <1>x, <2>1 DEF RecoveryInv, Carried
  <2>3. PICK q \in op.todo : op' = [op EXCEPT !.req = q, !.att = requests[q].att,
                                !.gate = attempts[requests[q].att].gate,
                                !.todo = @ \ {q}, !.step = ResumeStep(q)]
    BY <1>2, <2>2 DEF PickPending
  <2>4. op'.req = q /\ op'.todo = op.todo \ {q} /\ op'.step = ResumeStep(q)
    BY <2>3, <1>a DEF Handler
  <2>5. requests[q].approval = "approved" => ResumeStep(q) \in {"resumeDrift", "approve"}
    BY DEF ResumeStep
  <2> QED
    BY <1>r, <2>1, <2>2, <2>4, <2>5 DEF Carried
<1>3. CASE Complete \/ ResumeReject \/ ResumeDrift
  <2>1. op'.todo = op.todo
    <3>1. op' # Idle
      BY DEF Idle
    <3>2. (\E s \in ResumeWork : Goto(s)) \/ Leave \/ Goto("pick")
      BY <1>3, <3>1, CompleteGoto DEF ResumeDrift
    <3> QED
      BY <1>a, <1>k, <3>2, ResumeGoto
  <2>2. CASE r \in op.todo
    BY <2>1, <2>2
  <2>3. CASE r \notin op.todo
    <3>1. \A q \in RequestIds : q = op.req \/ requests'[q] = requests[q]
      BY <1>3 DEF Complete, ApproveAttempt, PassGate, CreateNext, SnapshotNext,
         ApproveRequest, ResumeReject, ResumeDrift, SetRequest
    <3>2. r = op.req
      BY <1>r, <1>k, <1>w, <1>x, <1>s, <2>3, <3>1, <1>3 DEF RecoveryInv, Carried, Complete,
         ApproveAttempt, PassGate, CreateNext, SnapshotNext, ApproveRequest, ResumeReject,
         ResumeDrift, At
    <3>3. CASE ApproveAttempt
      <4>1. op.step = "approve" /\ requests[r].att = op.att /\ UNCHANGED requests
        BY <3>2, <3>3 DEF ApproveAttempt, At, StepInv
      <4>2. attempts'[op.att].state = "awaiting_user_approval" /\ op.att \in AttemptIds
        BY <1>r, <1>a, <4>1 DEF RowsKnown, Open
      <4>3. attempts[op.att].state = "awaiting_user_approval"
        BY <4>2, <1>x, NextRows DEF NoneAwaits
      <4>4. SetAttempt(op.att, "approved")
        BY <3>3, <4>3 DEF ApproveAttempt, Transition, AttemptMoves
      <4> QED
        BY <4>2, <4>4, <1>a DEF SetAttempt, Attempt
    <3>4. CASE ApproveRequest \/ ResumeDrift
      <4>1. requests'[r].state # "pending"
        BY <3>2, <3>4, <1>a, <1>r DEF ApproveRequest, ResumeDrift, SetRequest, RequestRow
      <4> QED
        BY <1>r, <4>1 DEF Open
    <3>5. CASE PassGate \/ CreateNext \/ SnapshotNext \/ ResumeReject
      <4>1. UNCHANGED requests /\ op.step \notin {"approve", "resumeDrift", "boot"}
        BY <3>5 DEF PassGate, CreateNext, SnapshotNext, ResumeReject, At
      <4> QED
        BY <1>k, <1>w, <1>x, <2>3, <4>1 DEF RecoveryInv, Carried
    <3> QED
      BY <1>3, <3>3, <3>4, <3>5 DEF Complete
  <2> QED
    BY <2>2, <2>3
<1>4. CASE UNCHANGED vars
  BY <1>4, <1>k, <1>w, <1>x DEF vars, RecoveryInv, Carried
<1>5. ~Rpc /\ ~Ensure /\ ~Request /\ ~Decide /\ ~Invalidate /\ ~Fail /\ ~Crash
  <2>1. ~Rpc
    BY <1>k, RpcStays DEF Idle
  <2>2. ~Ensure /\ ~Request /\ ~Decide /\ ~Invalidate
    BY <1>s DEF Ensure, EnsureActive, TakeSnapshot, AdvanceToReviewReady, Return,
       Request, AbortOrphans, FreezePackage, NewPackage, InsertRequest, CreateApproval,
       LinkApproval, AwaitApproval, Decide, ExpireRequest, SupersedeDrifted, ExpireDrifted,
       RecordVerdict, RejectAttempt, RejectRequest, ChangeAttempt, ReworkAttempt,
       ChangeRequest, Invalidate, InvalidateRequest, InvalidateApproval, InvalidateChange,
       InvalidateRun, StartWork, Freeze, MarkStale, At, ResumeSteps
  <2>3. ~Fail /\ ~Crash
    BY DEF Fail, Crash, Idle
  <2> QED
    BY <2>1, <2>2, <2>3
<1> QED
  BY <1>1, <1>2, <1>3, <1>4, <1>5 DEF Next, Recover

\* A restart loses no approval: when the recovery is through, no attempt waits for a
\* decision that was given in its favour, unless a write of the recovery itself
\* fails.  (resume_pending)
THEOREM RestartLosesNoApproval == ~WritesFail => (Spec => []ApprovalsRecovered)
<1> SUFFICES ASSUME ~WritesFail PROVE Spec => []ApprovalsRecovered
  OBVIOUS
<1>1. Init => RecoveryInv
  BY DEF Init, Idle, RecoveryInv
<1>2. TypeInv /\ StepInv /\ TodoInv /\ RecoveryInv /\ [Next]_vars => RecoveryInv'
  BY NextRecovery
<1>3. TodoInv /\ RecoveryInv => ApprovalsRecovered
  BY DEF TodoInv, OnlyResume, RecoveryInv, ApprovalsRecovered, Recovered, Waiting, Carried,
     DecidedPending, At
<1> QED
  BY <1>1, <1>2, <1>3, TypeInvariant, StepInvariant, TodoInvariant, PTL DEF Spec

-----------------------------------------------------------------------------
(* The requests of one attempt, as long as no digest comes back.             *)

LEMMA PendingIsOpen == \A a : LinkedPending(a) = {r \in RequestIds : Open(r) /\ requests[r].att = a}
  BY DEF LinkedPending, Open

LEMMA WithinOrder ==
  ASSUME NEW d \in Digests, NEW e \in Digests, NEW f \in Digests
  PROVE  /\ Within(d, d)
         /\ Within(d, e) /\ Within(e, f) => Within(d, f)
         /\ Within(d, e) /\ Within(e, d) => d = e
<1>1. ASSUME NEW x \in Digests
      PROVE  /\ x.content \in Nat /\ x.coverage \in Coverages
             /\ x.coverage.total \in Nat /\ x.coverage.covered \in Nat
             /\ x.coverage.verified \in Nat
  BY <1>1 DEF Digests, Contents, Coverages
<1>2. Within(d, d) /\ (Within(d, e) /\ Within(e, f) => Within(d, f))
  BY <1>1 DEF Within
<1>3. ASSUME Within(d, e), Within(e, d) PROVE d = e
  <2>1. d.content = e.content /\ d.policy = e.policy
    BY <1>1, <1>3 DEF Within
  <2>2. d.coverage.total = e.coverage.total /\ d.coverage.covered = e.coverage.covered
        /\ d.coverage.verified = e.coverage.verified
    BY <1>1, <1>3 DEF Within
  <2>3. d.coverage = e.coverage
    BY <1>1, <2>2 DEF Coverages
  <2> QED
    BY <2>1, <2>3 DEF Digests
<1> QED
  BY <1>2, <1>3

LEMMA NextGrows ==
  ASSUME TypeInv, StepInv, [Next]_vars, [Settled]_vars, NEW a \in AttemptIds,
         attempts[a].state # "none"
  PROVE  /\ Digest(a) \in Digests /\ Digest(a)' \in Digests
         /\ Within(Digest(a), Digest(a)')
<1> USE Assemble
<1>1. /\ attempts[a].gate \in Gates /\ attempts'[a].gate = attempts[a].gate
      /\ attempts[a] \in Attempt
  BY NextRows DEF Tables, Attempt, RowsKept
<1>2. TypeOK'
  BY NextType DEF TypeInv
<1>3. Digest(a) \in Digests
  BY DigestType
<1>4. Digest(a)' \in Digests
  BY <1>1, <1>2 DEF Digest, Digests, TypeOK
<1>5. output[attempts[a].gate] <= output'[attempts'[a].gate]
  BY <1>1, NextOutput
<1>6. /\ coverage.total \in Nat /\ coverage.covered \in Nat /\ coverage.verified \in Nat
  BY DEF Tables, Coverages
<1>7. Settled
  BY <1>6 DEF Settled, vars
<1> QED
  BY <1>3, <1>4, <1>5, <1>7 DEF Within, Digest, Settled

\* Only LinkApproval opens a request, and it keeps its attempt and digest.
LEMMA Linked ==
  ASSUME TypeInv, LinkApproval
  PROVE  /\ op.req \in RequestIds /\ op.att \in AttemptIds /\ requests[op.req].state # "none"
         /\ requests'[op.req] = [requests[op.req] EXCEPT !.linked = TRUE]
         /\ requests'[op.req].att = requests[op.req].att
         /\ requests'[op.req].digest = requests[op.req].digest
         /\ attempts'[op.att].package = Digest(op.att)
         /\ \A a \in AttemptIds : a # op.att => attempts'[a] = attempts[a]
<1> USE Assemble
<1>1. op.step = "link" /\ requests \in [RequestIds -> RequestRow]
      /\ attempts \in [AttemptIds -> Attempt]
  BY DEF LinkApproval, At, Tables
<1>2. op.req \in RequestIds /\ op.att \in AttemptIds /\ requests[op.req].state # "none"
  BY <1>1, DecideSteps DEF RequestSteps
<1>3. requests' = [requests EXCEPT ![op.req].linked = TRUE]
      /\ attempts' = [attempts EXCEPT ![op.att].package = Digest(op.att)]
  BY DEF LinkApproval
<1>4. requests'[op.req] = [requests[op.req] EXCEPT !.linked = TRUE]
  BY <1>1, <1>2, <1>3
<1>5. /\ requests'[op.req].att = requests[op.req].att
      /\ requests'[op.req].digest = requests[op.req].digest
  BY <1>1, <1>2, <1>4 DEF RequestRow
<1>6. attempts'[op.att].package = Digest(op.att)
  BY <1>1, <1>2, <1>3 DEF Attempt
<1> QED
  BY <1>1, <1>2, <1>3, <1>4, <1>5, <1>6

LEMMA PackageWriter ==
  ASSUME [Next]_vars
  PROVE  UNCHANGED packages \/ NewPackage
<1>1. Rpc => UNCHANGED packages
  BY DEF Rpc, StartActivity, Evaluate, RequestRelease, FreezeBaseline, DecideRelease,
     CreateDraft, RecordEvidence, VerifyEvidence, ImportRequirements,
     ChangePolicy, ExpireApproval
<1>2. Ensure => UNCHANGED packages
  BY DEF Ensure, EnsureActive, TakeSnapshot, AdvanceToReviewReady, Return
<1>3. Request => UNCHANGED packages \/ NewPackage
  BY DEF Request, AbortOrphans, FreezePackage, InsertRequest, CreateApproval, LinkApproval,
     AwaitApproval
<1>4. Decide \/ Complete => UNCHANGED packages
  BY DEF Decide, ExpireRequest, SupersedeDrifted, ExpireDrifted, RecordVerdict,
     RejectAttempt, RejectRequest, ChangeAttempt, ReworkAttempt, ChangeRequest, Complete,
     ApproveAttempt, PassGate, CreateNext, SnapshotNext, ApproveRequest
<1>5. Invalidate \/ Recover => UNCHANGED packages
  BY DEF Invalidate, InvalidateRequest, InvalidateApproval, InvalidateChange, InvalidateRun,
     StartWork, Freeze, MarkStale, Recover, Fail, Crash, Boot, PickPending, ResumeDrift,
     ResumeReject
<1> QED
  BY <1>1, <1>2, <1>3, <1>4, <1>5 DEF Next, vars

LEMMA NextPackages ==
  ASSUME TypeInv, StepInv, DigestInv, RequestInv, [Next]_vars, [Settled]_vars,
         NEW p \in packages'
  PROVE  /\ attempts'[p.att].state # "none"
         /\ Within(p.digest, Digest(p.att)')
<1> USE Assemble
<1>1. CASE p \in packages
  <2>1. PICK a \in AttemptIds, d \in Digests : p.att = a /\ p.digest = d
    BY <1>1 DEF Tables, PackageRow
  <2>2. attempts[a].state # "none" /\ Within(d, Digest(a))
    BY <1>1, <2>1 DEF DigestInv
  <2>3. attempts'[a].state # "none"
    BY <2>2, NextRows DEF RowsKept
  <2>4. Within(d, Digest(a)')
    BY <2>2, NextGrows, WithinOrder
  <2> QED
    BY <2>1, <2>3, <2>4
<1>2. CASE NewPackage /\ p.att = op.att /\ p.digest = Digest(op.att)
  <2>1. PICK a \in AttemptIds : a = op.att /\ attempts[a].state # "none"
    BY <1>2 DEF NewPackage, At, OpKnown, AttemptSteps, RequestInv, Asking
  <2>2. UNCHANGED <<attempts, output, coverage, policy>>
    BY <1>2 DEF NewPackage
  <2>3. p.att = a /\ p.digest = Digest(a)
    BY <1>2, <2>1
  <2>4. Digest(a)' = Digest(a)
    BY <2>2 DEF Digest
  <2>5. Within(Digest(a), Digest(a)')
    BY <2>4, DigestType, WithinOrder
  <2> QED
    BY <2>1, <2>2, <2>3, <2>5
<1>3. p \in packages \/ (NewPackage /\ p.att = op.att /\ p.digest = Digest(op.att))
  BY PackageWriter DEF NewPackage
<1> QED
  BY <1>1, <1>2, <1>3

\* The rows a request is about, before and after.
LEMMA NextDigests ==
  ASSUME TypeInv, StepInv, DigestInv, RequestInv, [Next]_vars, [Settled]_vars,
         NEW r \in RequestIds, NEW a, requests'[r].state # "none", a = requests'[r].att
  PROVE  /\ attempts'[a].state # "none"
         /\ requests'[r].digest \in Digests
         /\ Within(requests'[r].digest, Digest(a)')
<1> USE Assemble
<1>1. CASE requests[r].state # "none" /\ requests'[r].att = requests[r].att
           /\ requests'[r].digest = requests[r].digest
  <2>1. PICK d : d = requests[r].digest
    OBVIOUS
  <2>2. /\ a \in AttemptIds /\ attempts[a].state # "none" /\ d \in Digests
        /\ Within(d, Digest(a))
    BY <1>1, <2>1 DEF DigestInv, RowsKnown
  <2>3. attempts'[a].state # "none"
    BY <2>2, NextRows DEF RowsKept
  <2>4. Within(d, Digest(a)')
    BY <2>2, NextGrows, WithinOrder
  <2> QED
    BY <1>1, <2>1, <2>2, <2>3, <2>4
<1>2. CASE Inserted(r)
  <2>1. op.step = "insert" /\ UNCHANGED <<attempts, output, coverage, policy>>
    BY <1>2 DEF Inserted, InsertRequest, At
  <2>2. a = op.att /\ requests'[r].digest = Digest(op.att)
    BY <1>2 DEF Inserted
  <2>3. a \in AttemptIds /\ attempts[a].state # "none"
    BY <2>1, <2>2 DEF OpKnown, AttemptSteps, RequestInv, Asking
  <2>4. requests'[r].digest = Digest(a)
    BY <2>2
  <2>5. Digest(a)' = Digest(a)
    BY <2>1 DEF Digest
  <2>6. Digest(a) \in Digests /\ Within(Digest(a), Digest(a))
    BY <2>3, DigestType, WithinOrder
  <2> QED
    BY <2>1, <2>3, <2>4, <2>5, <2>6
<1>3. CASE LinkApproval /\ r = op.req
  BY <1>1, <1>3, Linked
<1> QED
  BY <1>1, <1>2, <1>3, NextRequests DEF RequestKept

\* An open request was open before, or is linked by this step.
LEMMA NextOpen ==
  ASSUME TypeInv, StepInv, [Next]_vars, NEW r \in RequestIds, Open(r)'
  PROVE  \/ /\ Open(r) /\ requests'[r].att = requests[r].att
            /\ requests'[r].digest = requests[r].digest
         \/ LinkApproval /\ r = op.req
<1>1. requests'[r].state # "none"
  BY DEF Open
<1>2. ~Inserted(r)
  BY DEF Inserted, Open
<1> QED
  BY <1>1, <1>2, NextRequests DEF RequestKept

LEMMA NextPackage ==
  ASSUME TypeInv, StepInv, DigestInv, RequestInv, AskInv, [Next]_vars,
         NEW r \in RequestIds, Open(r)', NEW p \in packages', p.att = requests'[r].att
  PROVE  Within(p.digest, requests'[r].digest)
<1> USE Assemble
<1>1. CASE Open(r) /\ requests'[r].att = requests[r].att
           /\ requests'[r].digest = requests[r].digest
  <2>1. CASE p \in packages
    BY <1>1, <2>1 DEF DigestInv
  <2>2. CASE p \notin packages
    <3>1. NewPackage /\ p.att = op.att
      BY <2>2, PackageWriter DEF NewPackage
    <3>2. LinkedPending(op.att) = {}
      BY <3>1 DEF NewPackage, At, AskInv, Opening
    <3> QED
      BY <1>1, <3>1, <3>2, PendingIsOpen
  <2> QED
    BY <2>1, <2>2
<1>2. CASE LinkApproval /\ r = op.req
  <2>1. op.step = "link" /\ UNCHANGED packages
    BY <1>2 DEF LinkApproval, At
  <2>2. /\ requests'[r].att = op.att /\ requests'[r].digest = Digest(op.att)
    BY <1>2, <2>1, Linked DEF RequestInv
  <2> QED
    BY <2>1, <2>2 DEF DigestInv
<1> QED
  BY <1>1, <1>2, NextOpen

LEMMA NextOne ==
  ASSUME TypeInv, StepInv, RequestInv, AskInv, OnePendingRequest, [Next]_vars
  PROVE  OnePendingRequest'
<1> SUFFICES ASSUME NEW q \in RequestIds, NEW r \in RequestIds, Open(q)', Open(r)',
                    requests'[q].att = requests'[r].att
             PROVE  q = r
  BY DEF OnePendingRequest, LinkedPending, Open
<1>1. ASSUME LinkApproval, NEW s \in RequestIds, Open(s), requests'[s].att = requests[s].att
      PROVE  requests'[s].att # requests'[op.req].att
  <2>1. LinkedPending(op.att) = {} /\ requests[op.req].att = op.att
    BY <1>1 DEF LinkApproval, At, RequestInv, AskInv, Opening
  <2>2. requests[s].att # op.att
    BY <1>1, <2>1, PendingIsOpen
  <2> QED
    BY <1>1, <2>1, <2>2, Linked
<1>2. CASE Open(q) /\ Open(r) /\ requests'[q].att = requests[q].att
           /\ requests'[r].att = requests[r].att
  <2>1. requests[q].att \in AttemptIds
    BY <1>2, Assemble DEF RowsKnown, Open
  <2> QED
    BY <1>2, <2>1, PendingIsOpen DEF OnePendingRequest
<1> QED
  BY <1>1, <1>2, NextOpen

LEMMA NowApproved ==
  ASSUME TypeInv, StepInv, [Next]_vars, NEW r \in RequestIds, requests'[r].state = "approved"
  PROVE  requests[r].state = "approved" \/ (ApproveRequest /\ r = op.req)
<1> USE Assemble
<1>a. requests \in [RequestIds -> RequestRow]
  OBVIOUS
<1>b. ASSUME NEW q, NEW s, SetApproval(q, s) PROVE requests'[r].state = requests[r].state
  BY <1>a, <1>b DEF SetApproval, RequestRow
<1>c. ASSUME NEW q, NEW s, s # "approved", SetRequest(q, s)
      PROVE requests[r].state = "approved"
  BY <1>a, <1>c DEF SetRequest, RequestRow
<1>1. CASE Withdraw
  BY <1>1, <1>a, WithdrawKept
<1>2. CASE InsertRequest
  <2>1. ASSUME NEW q \in FreshRequest, requests' = [requests EXCEPT ![q] =
                   [att |-> op.att, digest |-> Digest(op.att), linked |-> FALSE,
                    approval |-> "none", state |-> "pending"]]
        PROVE  requests[r].state = "approved"
    <3>1. q \in RequestIds
      BY DEF FreshRequest
    <3>2. requests'[q].state = "pending"
      BY <1>a, <2>1, <3>1
    <3>3. r # q
      BY <3>2
    <3> QED
      BY <1>a, <2>1, <3>3
  <2> QED
    BY <1>2, <2>1 DEF InsertRequest
<1>6. CASE LinkApproval
  BY <1>6, <1>a DEF LinkApproval, RequestRow
<1>3. CASE CreateApproval \/ ExpireDrifted \/ RecordVerdict \/ InvalidateApproval
             \/ \E q \in RequestIds : ExpireApproval(q)
  BY <1>3, <1>b DEF CreateApproval, ExpireDrifted, RecordVerdict, InvalidateApproval,
     ExpireApproval
<1>4. CASE ExpireRequest \/ RejectRequest \/ ChangeRequest
  BY <1>4, <1>c DEF ExpireRequest, RejectRequest, ChangeRequest
<1>5. CASE ApproveRequest
  BY <1>5 DEF ApproveRequest, SetRequest
<1> QED
  BY <1>1, <1>2, <1>3, <1>4, <1>5, <1>6, RequestWriters

LEMMA NextComplete ==
  ASSUME TypeInv, StepInv, RequestInv, ApprovedReleaseComplete, [Next]_vars
  PROVE  ApprovedReleaseComplete'
<1> USE Assemble
<1>a. ASSUME NEW g, AttemptsOf(g) # {} PROVE AttemptsOf(g)' # {}
  BY <1>a, NextRows DEF AttemptsOf, RowsKept
<1> SUFFICES ASSUME NEW r \in RequestIds, requests'[r].state = "approved"
             PROVE  /\ attempts'[requests'[r].att].state \in {"approved", "superseded"}
                    /\ \A g \in Gates : g = attempts'[requests'[r].att].gate + 1 =>
                         AttemptsOf(g)' # {}
  BY DEF ApprovedReleaseComplete
<1>1. CASE requests[r].state = "approved"
  <2>1. requests'[r].att = requests[r].att
    <3>1. ~Inserted(r)
      BY <1>1 DEF Inserted, FreshRequest
    <3> QED
      BY <1>1, <3>1, NextRequests, Linked DEF RequestKept
  <2> DEFINE a == requests[r].att
  <2>2. /\ a \in AttemptIds /\ attempts[a].state \in {"approved", "superseded"}
        /\ \A g \in Gates : g = attempts[a].gate + 1 => AttemptsOf(g) # {}
    BY <1>1 DEF ApprovedReleaseComplete, RowsKnown
  <2>3. /\ attempts'[a].state \in {"approved", "superseded"}
        /\ attempts'[a].gate = attempts[a].gate
    BY <2>2, NextRows DEF RowsKept
  <2> QED
    BY <2>1, <2>2, <2>3, <1>a
<1>2. CASE ApproveRequest /\ r = op.req
  <2>1. /\ op.step = "approveRequest" /\ UNCHANGED attempts
        /\ requests'[r].att = requests[r].att
    BY <1>2 DEF ApproveRequest, At, SetRequest, RequestRow
  <2>2. /\ requests[r].att = op.att /\ attempts[op.att].state = "approved"
        /\ attempts[op.att].gate = op.gate
    BY <1>2, <2>1 DEF StepInv, PassSteps
  <2>3. \A g \in Gates : g = op.gate + 1 => AttemptsOf(g) # {}
    <3>1. op.gate \in Nat
      BY DEF Handler, Gates
    <3> QED
      BY <2>1, <3>1 DEF RequestInv, Gates
  <2> QED
    BY <2>1, <2>2, <2>3, <1>a
<1> QED
  BY <1>1, <1>2, NowApproved

-----------------------------------------------------------------------------
(* What the steps hand on.                                                  *)

Quiet == Steps \ ({"advance"} \union Asking \union Deciding)

LEMMA QuietStep == op'.step \in Quiet => RequestInv'
  BY DEF Quiet, RequestInv, Asking, Deciding, PassSteps

LEMMA LeaveQuiet == op \in Handler /\ Leave => RequestInv'
<1> SUFFICES ASSUME op \in Handler, Leave PROVE op'.step \in Quiet
  BY QuietStep
<1> QED
  BY DEF Leave, Handler, Idle, Quiet, Steps, Asking, Deciding, PassSteps

LEMMA GotoQuiet ==
  ASSUME op \in Handler, NEW s \in Quiet, Goto(s)
  PROVE  RequestInv'
  BY GotoHandler, QuietStep DEF Quiet

LEMMA QuietSteps ==
  /\ {"idle", "ensure", "snapshot", "work", "freeze", "done", "driftRequest",
      "driftApproval", "expireRequest", "reject", "rejectRequest", "invalidate",
      "invalidateApproval", "invalidateChange", "invalidateRun", "stale", "boot", "pick",
      "resumeDrift", "resumeReject"} \subseteq Quiet
  /\ AfterInvalidate \in Quiet
  BY DEF Quiet, Steps, Asking, Deciding, PassSteps, AfterInvalidate

LEMMA RpcRequest == TypeInv /\ Rpc => RequestInv'
<1> SUFFICES ASSUME TypeInv, Rpc PROVE RequestInv'
  OBVIOUS
<1> USE Assemble
<1>a. ASSUME NEW k \in {"start", "evaluate", "request", "freeze", "record"},
             NEW s \in {"ensure", "invalidate"}, NEW g, Call(k, s, g)
      PROVE  RequestInv'
  BY <1>a, QuietStep, QuietSteps DEF Call, Idle
<1>b. op = Idle /\ UNCHANGED op => RequestInv'
  BY QuietStep, QuietSteps DEF Idle
<1>1. CASE \/ StartActivity
           \/ \E g \in Gates : Evaluate(g) \/ RequestRelease(g) \/ FreezeBaseline(g)
  BY <1>1, <1>a, <1>b DEF StartActivity, Evaluate, RequestRelease, FreezeBaseline
<1>2. ASSUME NEW r \in RequestIds, NEW v \in Verdicts, DecideRelease(r, v)
      PROVE  RequestInv'
  <2>1. PICK s \in {"expireRequest", "driftRequest", "decide", FirstStep(v)} :
          op' = [Idle EXCEPT !.kind = "decide", !.step = s, !.req = r, !.verdict = v,
                             !.att = requests[r].att,
                             !.gate = attempts[requests[r].att].gate]
    BY <1>2 DEF DecideRelease
  <2>2. op'.step = s /\ op'.req = r /\ op'.att = requests[r].att
    BY <2>1 DEF Idle
  <2>3. s \in {"expireRequest", "driftRequest", "reject"} \/ s \in {"decide", "approve", "change"}
    BY DEF FirstStep
  <2>4. Open(r) /\ UNCHANGED requests
    BY <1>2 DEF DecideRelease, Open
  <2>5. CASE s \in {"expireRequest", "driftRequest", "reject"}
    BY <2>2, <2>5, QuietStep, QuietSteps
  <2>6. CASE s \in {"decide", "approve", "change"}
    BY <2>2, <2>4, <2>6 DEF RequestInv, Asking, Deciding, PassSteps, Open
  <2> QED
    BY <2>3, <2>5, <2>6
<1>3. CASE \/ \E g \in Gates, c \in Contents : VerifyEvidence(g, c)
           \/ \E p \in Policies : ChangePolicy(p)
           \/ \E r \in RequestIds : ExpireApproval(r)
           \/ ImportRequirements
  BY <1>3, <1>b DEF VerifyEvidence, ChangePolicy, ExpireApproval, ImportRequirements
<1>4. ASSUME CreateDraft \/ \E g \in Gates : RecordEvidence(g)
      PROVE  RequestInv'
  BY <1>4, <1>a DEF CreateDraft, RecordEvidence
<1> QED
  BY <1>1, <1>2, <1>3, <1>4 DEF Rpc

LEMMA EnsureRequest == TypeInv /\ RequestInv /\ Ensure => RequestInv'
<1> SUFFICES ASSUME TypeInv, RequestInv, Ensure PROVE RequestInv'
  OBVIOUS
<1> USE Assemble
<1>a. op \in Handler /\ attempts \in [AttemptIds -> Attempt]
  BY DEF Tables
<1>b. Leave => RequestInv'
  BY <1>a, LeaveQuiet
<1>c. ASSUME op'.step \in {"advance", "work", "done"},
             op'.step = "advance" => attempts'[op'.att].state \in ActiveStates
      PROVE  RequestInv'
  BY <1>c DEF RequestInv, Asking, Deciding, PassSteps
<1>d. AfterEnsure \in {"advance", "work", "done"}
  BY DEF AfterEnsure
<1>1. CASE EnsureActive
  <2>1. ASSUME NEW a \in ActiveFor(op.gate), UNCHANGED attempts,
               op' = [op EXCEPT !.att = a, !.step = AfterEnsure]
        PROVE  RequestInv'
    <3>1. op'.att = a /\ op'.step = AfterEnsure
      BY <1>a, <2>1 DEF Handler
    <3> QED
      BY <2>1, <3>1, <1>c, <1>d DEF ActiveFor, ActiveAttempts
  <2>2. ASSUME NEW a, op' = [op EXCEPT !.att = a, !.step = "snapshot"]
        PROVE  RequestInv'
    <3>1. op'.step = "snapshot"
      BY <1>a, <2>2 DEF Handler
    <3> QED
      BY <3>1, QuietStep, QuietSteps
  <2> QED
    BY <1>1, <1>b, <2>1, <2>2 DEF EnsureActive
<1>2. CASE TakeSnapshot
  <2>1. CASE SetAttempt(op.att, "prepared") /\ Goto(AfterEnsure)
    <3>1. op.att \in AttemptIds
      BY <1>2 DEF TakeSnapshot, At, OpKnown, AttemptSteps
    <3>2. attempts'[op.att].state = "prepared"
      BY <1>a, <2>1, <3>1 DEF SetAttempt, Attempt
    <3>3. op'.att = op.att /\ op'.step = AfterEnsure
      BY <1>a, <2>1 DEF Goto, Handler
    <3> QED
      BY <3>2, <3>3, <1>c, <1>d DEF ActiveStates
  <2> QED
    BY <1>2, <1>b, <2>1 DEF TakeSnapshot, Prepare
<1>3. CASE AdvanceToReviewReady
  <2>1. op.step = "advance" /\ op.att \in AttemptIds /\ attempts[op.att].state \in ActiveStates
    BY <1>3 DEF AdvanceToReviewReady, At, OpKnown, AttemptSteps, RequestInv
  <2>2. CASE SetAttempt(op.att, "running") /\ Goto("advance")
    <3>1. attempts'[op.att].state = "running" /\ op'.att = op.att /\ op'.step = "advance"
      BY <1>a, <2>1, <2>2 DEF SetAttempt, Attempt, Goto, Handler
    <3> QED
      BY <3>1, <1>c DEF ActiveStates
  <2>3. ASSUME attempts'[op.att].state \in {"review_ready", "awaiting_user_approval"},
               Goto(AfterAdvance)
        PROVE  RequestInv'
    <3>1. op'.att = op.att /\ op'.step \in {"abortOrphans", "done"}
      BY <1>a, <2>3 DEF Goto, Handler, AfterAdvance
    <3> QED
      BY <2>3, <3>1 DEF RequestInv, Asking, Deciding, PassSteps
  <2>4. CASE SetAttempt(op.att, "review_ready") /\ Goto(AfterAdvance)
    BY <1>a, <2>1, <2>3, <2>4 DEF SetAttempt, Attempt
  <2>5. CASE attempts[op.att].state \notin {"prepared", "changes_requested", "running"}
             /\ Goto(AfterAdvance) /\ UNCHANGED attempts
    BY <2>1, <2>3, <2>5 DEF ActiveStates
  <2> QED
    BY <1>3, <2>2, <2>4, <2>5 DEF AdvanceToReviewReady
<1>4. CASE Return
  BY <1>4, <1>b DEF Return
<1> QED
  BY <1>1, <1>2, <1>3, <1>4 DEF Ensure

LEMMA AskRequest ==
  ASSUME TypeInv, StepInv, RequestInv, Request
  PROVE  RequestInv'
<1> USE Assemble
<1>a. op \in Handler /\ requests \in [RequestIds -> RequestRow]
      /\ attempts \in [AttemptIds -> Attempt]
  BY DEF Tables
<1>b. Leave => RequestInv'
  BY <1>a, LeaveQuiet
<1>c. ASSUME NEW s \in Asking, Goto(s), op.step \in Asking, UNCHANGED attempts
      PROVE  /\ op'.step = s /\ op'.att = op.att /\ op'.req = op.req
             /\ attempts'[op.att].state \in {"review_ready", "awaiting_user_approval"}
             /\ s \notin {"insert", "approval", "link"} => RequestInv'
  BY <1>a, <1>c DEF Goto, Handler, RequestInv, Asking, Deciding, PassSteps
<1>1. CASE AbortOrphans
  BY <1>1, <1>c DEF AbortOrphans, At, Asking
<1>2. CASE FreezePackage
  <2>1. op.step = "package" /\ UNCHANGED <<attempts, output, coverage, policy>>
    BY <1>2 DEF FreezePackage, At
  <2>2. ASSUME HasPackage(op.att), Goto("insert"), UNCHANGED packages
        PROVE  RequestInv'
    <3>1. /\ op'.step = "insert" /\ op'.att = op.att
          /\ attempts'[op.att].state \in {"review_ready", "awaiting_user_approval"}
      BY <1>c, <2>1, <2>2 DEF Asking
    <3>2. HasPackage(op.att)'
      BY <2>1, <2>2, <3>1 DEF HasPackage, Digest
    <3> QED
      BY <3>1, <3>2 DEF RequestInv, Asking, Deciding, PassSteps
  <2>3. Goto("newPackage") => RequestInv'
    BY <1>c, <2>1 DEF Asking
  <2> QED
    BY <1>2, <1>b, <2>2, <2>3 DEF FreezePackage
<1>3. CASE NewPackage
  <2>1. /\ op.step = "newPackage" /\ UNCHANGED <<attempts, output, coverage, policy, requests>>
        /\ Goto("insert") /\ op.att \in AttemptIds
    BY <1>3 DEF NewPackage, At, OpKnown, AttemptSteps
  <2>2. /\ op'.step = "insert" /\ op'.att = op.att
        /\ attempts'[op.att].state \in {"review_ready", "awaiting_user_approval"}
    BY <2>1, <1>c DEF Asking
  <2>3. HasPackage(op.att)'
    <3>1. [att |-> op.att, digest |-> Digest(op.att), evaluated |-> evaluation[op.gate]]
            \in packages'
      BY <1>3 DEF NewPackage
    <3>2. Digest(op.att)' = Digest(op.att)
      BY <2>1, <2>2 DEF Digest
    <3> QED
      BY <3>1, <3>2, <2>2 DEF HasPackage
  <2> QED
    BY <2>2, <2>3 DEF RequestInv, Asking, Deciding, PassSteps
<1>4. CASE InsertRequest
  <2>1. /\ op.step = "insert" /\ UNCHANGED <<attempts, output, coverage, policy, packages>>
        /\ HasPackage(op.att)
        /\ attempts[op.att].state \in {"review_ready", "awaiting_user_approval"}
    BY <1>4 DEF InsertRequest, At, RequestInv, Asking
  <2>2. ASSUME NEW r \in FreshRequest,
               requests' = [requests EXCEPT ![r] =
                   [att |-> op.att, digest |-> Digest(op.att), linked |-> FALSE,
                    approval |-> "none", state |-> "pending"]],
               op' = [op EXCEPT !.req = r, !.step = "approval"]
        PROVE  RequestInv'
    <3>1. op'.step = "approval" /\ op'.req = r /\ op'.att = op.att
      BY <1>a, <2>2 DEF Handler
    <3>2. requests'[r] = [att |-> op.att, digest |-> Digest(op.att), linked |-> FALSE,
                          approval |-> "none", state |-> "pending"]
      BY <2>2 DEF FreshRequest
    <3>3. HasPackage(op.att)' /\ Digest(op.att)' = Digest(op.att)
      BY <2>1, <3>1 DEF HasPackage, Digest
    <3>4. attempts'[op'.att].state \in {"review_ready", "awaiting_user_approval"}
      BY <2>1, <3>1
    <3> QED
      BY <3>1, <3>2, <3>3, <3>4 DEF RequestInv, Asking, Deciding, PassSteps
  <2> QED
    BY <1>4, <1>b, <2>2 DEF InsertRequest
<1>5. CASE CreateApproval
  <2>1. /\ op.step = "approval" /\ UNCHANGED <<attempts, output, coverage, policy, packages>>
        /\ HasPackage(op.att) /\ Goto("link")
        /\ requests[op.req].att = op.att /\ ~requests[op.req].linked
        /\ requests[op.req].digest = Digest(op.att)
    BY <1>5 DEF CreateApproval, At, RequestInv, Asking
  <2>2. /\ op'.step = "link" /\ op'.att = op.att /\ op'.req = op.req
        /\ attempts'[op.att].state \in {"review_ready", "awaiting_user_approval"}
    BY <2>1, <1>c DEF Asking
  <2>3. op.req \in RequestIds
    BY <2>1 DEF OpKnown, RequestSteps
  <2>4. \A q \in RequestIds : /\ requests'[q].att = requests[q].att
                              /\ requests'[q].linked = requests[q].linked
                              /\ requests'[q].digest = requests[q].digest
    BY <1>5, <1>a DEF CreateApproval, SetApproval, RequestRow
  <2>5. HasPackage(op.att)' /\ Digest(op.att)' = Digest(op.att)
    BY <2>1, <2>2 DEF HasPackage, Digest
  <2> QED
    BY <2>1, <2>2, <2>3, <2>4, <2>5 DEF RequestInv, Asking, Deciding, PassSteps
<1>6. CASE LinkApproval
  <2>1. /\ op.step = "link" /\ Goto("await")
        /\ attempts[op.att].state \in {"review_ready", "awaiting_user_approval"}
    BY <1>6 DEF LinkApproval, At, RequestInv, Asking
  <2>2. op'.step = "await" /\ op'.att = op.att
    BY <1>a, <2>1 DEF Goto, Handler
  <2>3. attempts'[op.att].state = attempts[op.att].state
    BY <1>a, <1>6, Linked DEF LinkApproval, Attempt
  <2> QED
    BY <2>1, <2>2, <2>3 DEF RequestInv, Asking, Deciding, PassSteps
<1>7. CASE AwaitApproval
  BY <1>7, <1>a, <1>b, GotoQuiet, QuietSteps DEF AwaitApproval, Transition
<1> QED
  BY <1>1, <1>2, <1>3, <1>4, <1>5, <1>6, <1>7 DEF Request

LEMMA DecideRequest ==
  ASSUME TypeInv, StepInv, RequestInv, Decide \/ Complete
  PROVE  RequestInv'
<1> USE Assemble
<1>a. op \in Handler /\ requests \in [RequestIds -> RequestRow]
      /\ attempts \in [AttemptIds -> Attempt]
  BY DEF Tables
<1>b. Leave => RequestInv'
  BY <1>a, LeaveQuiet
<1>c. ASSUME op.step \in Deciding, NEW s \in Deciding \ {"changeRequest"}, Goto(s),
             s \in {"nextSnapshot", "approveRequest"} /\ op.gate < NGates =>
               AttemptsOf(op.gate + 1)' # {},
             Open(op.req)', requests'[op.req].att = requests[op.req].att
      PROVE  RequestInv'
  <2>1. op'.step = s /\ op'.req = op.req /\ op'.att = op.att /\ op'.gate = op.gate
    BY <1>a, <1>c DEF Goto, Handler
  <2>2. requests[op.req].att = op.att
    BY <1>c DEF RequestInv
  <2>3. Open(op.req)' /\ requests'[op'.req].att = op'.att
    BY <1>c, <2>1, <2>2 DEF Open
  <2>4. s \in {"nextSnapshot", "approveRequest"} /\ op'.gate < NGates =>
               AttemptsOf(op.gate + 1)' # {}
    BY <1>c, <2>1 DEF AttemptsOf
  <2>5. s \notin {"advance", "changeRequest"} /\ s \notin Asking
        /\ s \notin {"insert", "approval", "link"}
    BY <1>c DEF Asking, Deciding, PassSteps
  <2> QED
    BY <2>1, <2>3, <2>4, <2>5 DEF RequestInv
<1>d. op.step \in Deciding => Open(op.req)
  BY DEF RequestInv
<1>f. {"rework", "approve", "pass", "next", "nextSnapshot", "approveRequest", "change"}
        \subseteq Deciding \ {"changeRequest"}
  BY DEF Deciding, PassSteps
<1>1. CASE ExpireRequest \/ ExpireDrifted \/ RejectRequest \/ ChangeRequest \/ ApproveRequest
  BY <1>1, <1>b DEF ExpireRequest, ExpireDrifted, RejectRequest, ChangeRequest, ApproveRequest
<1>2. CASE SupersedeDrifted \/ RejectAttempt
  BY <1>2, <1>a, <1>b, GotoQuiet, QuietSteps DEF SupersedeDrifted, RejectAttempt, Transition
<1>3. CASE RecordVerdict
  <2>1. op.step = "decide" /\ op.req \in RequestIds /\ Goto(FirstStep(op.verdict))
    BY <1>3 DEF RecordVerdict, At, OpKnown, RequestSteps
  <2>2. /\ requests'[op.req].att = requests[op.req].att
        /\ requests'[op.req].linked = requests[op.req].linked
        /\ requests'[op.req].state = requests[op.req].state
    BY <1>3, <1>a, <2>1 DEF RecordVerdict, SetApproval, RequestRow
  <2>3. op'.req = op.req
    BY <1>a, <2>1 DEF Goto, Handler
  <2>4. Open(op.req)'
    BY <1>d, <2>1, <2>2, <2>3 DEF Open, Deciding
  <2>5. CASE FirstStep(op.verdict) = "reject"
    BY <2>1, <2>5, <1>a, GotoQuiet, QuietSteps
  <2>6. CASE FirstStep(op.verdict) \in {"approve", "change"}
    BY <2>1, <2>2, <2>4, <2>6, <1>c, <1>f DEF Deciding
  <2> QED
    BY <2>5, <2>6 DEF FirstStep
<1>4. CASE ChangeAttempt
  <2>1. op.step = "change" /\ UNCHANGED requests
    BY <1>4 DEF ChangeAttempt, At
  <2>2. Goto("rework") => Open(op.req)'
    BY <1>d, <2>1, <1>a DEF Open, Deciding, Goto, Handler
  <2>3. op.step \in Deciding
    BY <2>1 DEF Deciding
  <2>4. Goto("rework") => RequestInv'
    BY <1>c, <1>f, <2>1, <2>2, <2>3
  <2> QED
    BY <1>4, <1>b, <2>4 DEF ChangeAttempt, Transition
<1>5. CASE ReworkAttempt
  <2>1. op.step = "rework" /\ UNCHANGED requests /\ op.att \in AttemptIds
    BY <1>5 DEF ReworkAttempt, At, OpKnown, AttemptSteps
  <2>2. Goto("changeRequest") => attempts'[op.att].state = "running"
    BY <1>5, <1>a, <2>1 DEF ReworkAttempt, Transition, SetAttempt, Attempt, Goto, Leave, Handler,
       Idle
  <2>3. Open(op.req) /\ requests[op.req].att = op.att
    BY <2>1 DEF RequestInv, Deciding
  <2>4. ASSUME Goto("changeRequest") PROVE RequestInv'
    <3>1. op'.step = "changeRequest" /\ op'.req = op.req /\ op'.att = op.att
      BY <1>a, <2>4 DEF Goto, Handler
    <3> QED
      BY <2>1, <2>2, <2>3, <2>4, <3>1
      DEF RequestInv, Asking, Deciding, PassSteps, Open
  <2> QED
    BY <1>5, <1>b, <2>4 DEF ReworkAttempt, Transition
<1>6. CASE ApproveAttempt
  <2>1. op.step = "approve" /\ UNCHANGED requests
    BY <1>6 DEF ApproveAttempt, At
  <2>2. Goto("pass") => Open(op.req)'
    BY <1>d, <2>1, <1>a DEF Open, Deciding, Goto, Handler
  <2>3. op.step \in Deciding
    BY <2>1 DEF Deciding
  <2>4. Goto("pass") => RequestInv'
    BY <1>c, <1>f, <2>1, <2>2, <2>3
  <2> QED
    BY <1>6, <1>b, <2>4 DEF ApproveAttempt, Transition
<1>7. CASE PassGate \/ CreateNext \/ SnapshotNext
  <2>1. op.step \in {"pass", "next", "nextSnapshot"} /\ UNCHANGED requests
    BY <1>7 DEF PassGate, CreateNext, SnapshotNext, At
  <2>2. op.step \in Deciding
    BY <2>1 DEF Deciding, PassSteps
  <2>3. ASSUME NEW s, Goto(s) PROVE Open(op.req)' /\ op'.gate = op.gate /\ op'.step = s
    BY <1>a, <1>d, <2>1, <2>2, <2>3 DEF Open, Goto, Handler
  <2>4. CASE PassGate
    <3>1. Goto("pass") \/ Goto("next") => RequestInv'
      BY <1>c, <1>f, <2>1, <2>2, <2>3
    <3> QED
      BY <1>b, <2>4, <3>1 DEF PassGate
  <2>5. CASE CreateNext
    <3>1. ASSUME NEW a \in FreshAttempt, InsertAttempt(a, op.gate + 1), Goto("nextSnapshot")
          PROVE  RequestInv'
      <4>1. a \in AttemptIds /\ attempts'[a].state = "preparing"
            /\ attempts'[a].gate = op.gate + 1
        BY <1>a, <3>1 DEF FreshAttempt, InsertAttempt, NoAttempt
      <4>2. a \in AttemptsOf(op.gate + 1)'
        BY <4>1, <3>1, <2>3 DEF AttemptsOf
      <4> QED
        BY <1>c, <1>f, <2>1, <2>2, <2>3, <3>1, <4>2
    <3>2. CASE ~(op.gate < NGates /\ AttemptsOf(op.gate + 1) = {})
               /\ UNCHANGED attempts /\ Goto("approveRequest")
      <4>1. op.gate < NGates => AttemptsOf(op.gate + 1)' # {}
        BY <3>2, <2>3 DEF AttemptsOf
      <4> QED
        BY <1>c, <1>f, <2>1, <2>2, <2>3, <3>2, <4>1
    <3> QED
      BY <1>b, <2>5, <3>1, <3>2 DEF CreateNext
  <2>6. CASE SnapshotNext
    <3>1. ASSUME NEW a \in AttemptsOf(op.gate + 1), SetAttempt(a, "prepared"),
                 Goto("approveRequest")
          PROVE  RequestInv'
      <4>1. a \in AttemptIds /\ attempts'[a].state = "prepared"
            /\ attempts'[a].gate = op.gate + 1
        BY <1>a, <3>1 DEF AttemptsOf, SetAttempt, Attempt
      <4>2. a \in AttemptsOf(op.gate + 1)'
        BY <4>1, <3>1, <2>3 DEF AttemptsOf
      <4> QED
        BY <1>c, <1>f, <2>1, <2>2, <2>3, <3>1, <4>2
    <3> QED
      BY <1>b, <2>6, <3>1 DEF SnapshotNext, Prepare
  <2> QED
    BY <1>7, <2>4, <2>5, <2>6
<1> QED
  BY <1>1, <1>2, <1>3, <1>4, <1>5, <1>6, <1>7 DEF Decide, Complete

LEMMA RestRequest ==
  ASSUME TypeInv, TodoInv, Invalidate \/ Recover
  PROVE  RequestInv'
<1> USE Assemble
<1>a. op \in Handler
  OBVIOUS
<1>b. Leave => RequestInv'
  BY <1>a, LeaveQuiet
<1>c. op' = Idle => RequestInv'
  BY QuietStep, QuietSteps DEF Idle
<1>1. CASE InvalidateRequest
  <2>1. ASSUME NEW r, op' = [op EXCEPT !.req = r, !.att = requests[r].att,
                                !.step = "invalidateApproval"]
        PROVE  RequestInv'
    <3>1. op'.step = "invalidateApproval"
      BY <1>a, <2>1 DEF Handler
    <3> QED
      BY <3>1, QuietStep, QuietSteps
  <2> QED
    BY <1>1, <1>a, <2>1, GotoQuiet, QuietSteps DEF InvalidateRequest
<1>2. CASE InvalidateApproval \/ InvalidateChange \/ InvalidateRun \/ StartWork \/ Freeze
             \/ ResumeReject
  BY <1>2, <1>a, <1>b, GotoQuiet, QuietSteps DEF InvalidateApproval, InvalidateChange,
     InvalidateRun, StartWork, Freeze, ResumeReject, Transition
<1>3. CASE MarkStale
  BY <1>3, <1>b, QuietStep, QuietSteps DEF MarkStale, At
<1>4. CASE Fail
  BY <1>4, <1>a, <1>b, <1>c, GotoQuiet, QuietSteps DEF Fail
<1>5. CASE Crash
  BY <1>5, QuietStep, QuietSteps DEF Crash, Idle
<1>6. CASE Boot
  <2>1. op'.step = "pick"
    BY <1>6, <1>a DEF Boot, Handler
  <2> QED
    BY <2>1, QuietStep, QuietSteps
<1>7. CASE PickPending
  <2>1. ASSUME NEW r \in op.todo,
               op' = [op EXCEPT !.req = r, !.att = requests[r].att,
                                !.gate = attempts[requests[r].att].gate,
                                !.todo = @ \ {r}, !.step = ResumeStep(r)]
        PROVE  RequestInv'
    <3>1. op'.req = r /\ op'.att = requests[r].att /\ op'.step = ResumeStep(r)
      BY <1>a, <2>1 DEF Handler
    <3>2. Open(r) /\ UNCHANGED requests
      BY <1>7, <2>1 DEF PickPending, TodoInv
    <3>3. CASE ResumeStep(r) = "approve"
      BY <3>1, <3>2, <3>3 DEF RequestInv, Asking, Deciding, PassSteps, Open
    <3>4. CASE ResumeStep(r) \in {"resumeDrift", "resumeReject", "pick"}
      BY <3>1, <3>4, QuietStep, QuietSteps
    <3> QED
      BY <3>3, <3>4 DEF ResumeStep
  <2> QED
    BY <1>7, <1>c, <2>1 DEF PickPending
<1>8. CASE ResumeDrift
  BY <1>8, <1>b, <1>c DEF ResumeDrift
<1> QED
  BY <1>1, <1>2, <1>3, <1>4, <1>5, <1>6, <1>7, <1>8 DEF Invalidate, Recover

LEMMA NextRequest == TypeInv /\ StepInv /\ TodoInv /\ RequestInv /\ [Next]_vars => RequestInv'
<1> SUFFICES ASSUME TypeInv, StepInv, TodoInv, RequestInv, [Next]_vars PROVE RequestInv'
  OBVIOUS
<1>1. UNCHANGED vars => RequestInv'
  BY DEF vars, RequestInv, HasPackage, Digest, Open, AttemptsOf
<1> QED
  BY <1>1, RpcRequest, EnsureRequest, AskRequest, DecideRequest, RestRequest DEF Next

LEMMA RequestInvariant == Spec => []RequestInv
<1>1. Init => RequestInv
  BY DEF Init, RequestInv, Idle, Asking, Deciding, PassSteps
<1>2. TypeInv /\ StepInv /\ TodoInv /\ RequestInv /\ [Next]_vars => RequestInv'
  BY NextRequest
<1> QED
  BY <1>1, <1>2, TypeInvariant, StepInvariant, TodoInvariant, PTL DEF Spec

\* A request that reads approved has its attempt approved and the next gate its
\* attempt, whatever failed or died on the way.  The five commits can be cut anywhere;
\* what carries the argument is that only the last of them closes the request, and
\* that its step is reached with the others done.  (complete_approve)
THEOREM ApprovedIsComplete == Spec => []ApprovedReleaseComplete
<1>1. Init => ApprovedReleaseComplete
  BY DEF Init, NoRequest, ApprovedReleaseComplete
<1>2. TypeInv /\ StepInv /\ RequestInv /\ ApprovedReleaseComplete /\ [Next]_vars =>
        ApprovedReleaseComplete'
  BY NextComplete
<1> QED
  BY <1>1, <1>2, TypeInvariant, StepInvariant, RequestInvariant, PTL DEF Spec

-----------------------------------------------------------------------------
(* Which steps lead to the steps that rely on something.                     *)

\* Steps at which AskInv and CurrentInv say what the handler knows.
KnowingSteps == Opening \union {"await", "decide", "approve"}

LEMMA Unknowing ==
  ASSUME op \in Handler
  PROVE  /\ Leave => op'.step \notin KnowingSteps
         /\ \A s \in Steps : Goto(s) => op'.step = s
         /\ op' = Idle => op'.step \notin KnowingSteps
  BY GotoHandler DEF Leave, Handler, Idle, KnowingSteps, Opening

LEMMA KnowingWriters ==
  ASSUME TypeInv, [Next]_vars, op'.step \in KnowingSteps
  PROVE  \/ FreezePackage \/ NewPackage \/ InsertRequest \/ CreateApproval
         \/ LinkApproval \/ RecordVerdict \/ PickPending
         \/ \E r \in RequestIds, v \in Verdicts : DecideRelease(r, v)
         \/ UNCHANGED vars
<1> USE Assemble
<1>a. op \in Handler
  BY DEF Tables
<1>b. ~Leave /\ op' # Idle
  BY <1>a, Unknowing
<1>c. ASSUME NEW s \in Steps \ KnowingSteps PROVE ~Goto(s)
  BY <1>a, <1>c, Unknowing
<1>d. /\ {"advance", "abortOrphans", "package", "done", "work",
          "freeze", "stale", "invalidate", "invalidateChange", "invalidateRun",
          "driftApproval", "rejectRequest", "rework", "changeRequest", "pass", "next",
          "nextSnapshot", "approveRequest", "pick"} \subseteq Steps \ KnowingSteps
      /\ AfterEnsure \in Steps \ KnowingSteps /\ AfterAdvance \in Steps \ KnowingSteps
      /\ AfterInvalidate \in Steps \ KnowingSteps
  BY DEF Steps, KnowingSteps, Opening, AfterEnsure, AfterAdvance, AfterInvalidate
<1>e. ASSUME NEW a, NEW to, NEW next \in Steps \ KnowingSteps
      PROVE  ~Transition(a, to, next)
  BY <1>b, <1>c DEF Transition
<1>f. ASSUME NEW a, NEW next \in Steps \ KnowingSteps
      PROVE  ~Prepare(a, next)
  BY <1>b, <1>c DEF Prepare
<1>1. CASE Rpc
  <2>1. ASSUME NEW k \in {"start", "evaluate", "request", "freeze", "record"},
               NEW s \in {"ensure", "invalidate"}, NEW g
        PROVE  ~Call(k, s, g)
    BY DEF Call, Idle, KnowingSteps, Opening
  <2>2. ~(op = Idle /\ UNCHANGED op)
    BY DEF Idle, KnowingSteps, Opening
  <2>3. ~CreateDraft /\ \A g \in Gates : ~RecordEvidence(g)
    BY <2>1 DEF CreateDraft, RecordEvidence
  <2> QED
    BY <1>1, <2>1, <2>2, <2>3 DEF Rpc, StartActivity, Evaluate, RequestRelease,
       FreezeBaseline, VerifyEvidence, ImportRequirements, ChangePolicy, ExpireApproval
<1>2. CASE Ensure
  <2>1. ASSUME NEW a, NEW s \in {"snapshot", AfterEnsure}
        PROVE  op' # [op EXCEPT !.att = a, !.step = s]
    BY <1>a, <1>d DEF Handler, KnowingSteps, Opening
  <2> QED
    BY <1>2, <1>b, <1>c, <1>d, <1>f, <2>1
    DEF Ensure, EnsureActive, TakeSnapshot, AdvanceToReviewReady, Return
<1>3. CASE Request
  BY <1>3, <1>b, <1>c, <1>d, <1>e DEF Request, AbortOrphans, AwaitApproval
<1>4. CASE Decide
  BY <1>4, <1>b, <1>c, <1>d, <1>e DEF Decide, ExpireRequest, SupersedeDrifted, ExpireDrifted,
     RejectAttempt, RejectRequest, ChangeAttempt, ReworkAttempt, ChangeRequest
<1>5. CASE Complete
  BY <1>5, <1>b, <1>c, <1>d, <1>e, <1>f DEF Complete, ApproveAttempt, PassGate, CreateNext,
     SnapshotNext, ApproveRequest
<1>6. CASE Invalidate
  <2>1. ASSUME NEW r, NEW a
        PROVE  op' # [op EXCEPT !.req = r, !.att = a, !.step = "invalidateApproval"]
    BY <1>a DEF Handler, KnowingSteps, Opening
  <2>2. ~MarkStale
    BY <1>b DEF MarkStale, At, KnowingSteps, Opening
  <2> QED
    BY <1>6, <1>b, <1>c, <1>d, <1>e, <2>1, <2>2 DEF Invalidate, InvalidateRequest,
       InvalidateApproval, InvalidateChange, InvalidateRun, StartWork, Freeze
<1>7. CASE Recover
  <2>1. ~Boot
    BY <1>a DEF Boot, Handler, KnowingSteps, Opening
  <2>2. ~Crash
    BY DEF Crash, Idle, KnowingSteps, Opening
  <2> QED
    BY <1>7, <1>b, <1>c, <1>d, <1>e, <2>1, <2>2 DEF Recover, Fail, ResumeDrift, ResumeReject
<1> QED
  BY <1>1, <1>2, <1>3, <1>4, <1>5, <1>6, <1>7 DEF Next

-----------------------------------------------------------------------------
(* The attempt's only request, as long as no digest comes back.              *)

\* A package of the current digest leaves no request beside it.
LEMMA NoneBeside ==
  ASSUME TypeInv, DigestInv, RequestInv, OnePendingRequest,
         op.step = "package", ReturnedRequest(op.att) = {}, HasPackage(op.att)
  PROVE  LinkedPending(op.att) = {}
<1> USE Assemble
<1>1. SUFFICES ASSUME NEW r \in LinkedPending(op.att) PROVE FALSE
  OBVIOUS
<1>2. PICK a \in AttemptIds : a = op.att
  BY DEF OpKnown, AttemptSteps
<1>3. r \in RequestIds /\ Open(r) /\ requests[r].att = a
  BY <1>1, <1>2 DEF LinkedPending, Open
<1>4. LinkedPending(a) = {r} /\ r \in Nat
  BY <1>1, <1>2 DEF OnePendingRequest, LinkedPending, RequestIds
<1>5. r \in PendingFor(a)
  BY <1>4 DEF PendingFor
<1>6. requests[r].digest # Digest(a)
  BY <1>2, <1>3, <1>5 DEF ReturnedRequest, Drifted
<1>7. PICK p \in packages : p.att = a /\ p.digest = Digest(a)
  BY <1>2 DEF HasPackage
<1>8. /\ Within(Digest(a), requests[r].digest)
      /\ Within(requests[r].digest, Digest(a)) /\ requests[r].digest \in Digests
  BY <1>3, <1>7 DEF DigestInv, Open
<1> QED
  BY <1>6, <1>8, DigestType, WithinOrder

LEMMA FreezeAsk ==
  ASSUME TypeInv, DigestInv, RequestInv, AskInv, OnePendingRequest, FreezePackage
  PROVE  AskInv'
<1> USE Assemble
<1>a. /\ op \in Handler /\ op.step = "package" /\ op.att \in AttemptIds
      /\ requests \in [RequestIds -> RequestRow]
  BY DEF FreezePackage, At, OpKnown, AttemptSteps
<1>b. ASSUME NEW r \in LinkedPending(op.att)
      PROVE  LinkedPending(op.att) = {r} /\ PendingFor(op.att) = {r}
  <2>1. LinkedPending(op.att) = {r} /\ r \in Nat
    BY <1>a, <1>b DEF OnePendingRequest, LinkedPending, RequestIds
  <2> QED
    BY <2>1 DEF PendingFor
<1>c. ASSUME NEW s \in {"insert", "newPackage"}, Goto(s)
      PROVE  op'.step = s /\ op'.att = op.att
  BY <1>a, <1>c DEF Goto, Handler
<1>1. CASE Leave
  BY <1>a, <1>1, Unknowing DEF AskInv, KnowingSteps
<1>2. CASE /\ ReturnedRequest(op.att) = {} /\ HasPackage(op.att)
           /\ Goto("insert") /\ UNCHANGED <<packages, requests>>
  BY <1>a, <1>c, <1>2, NoneBeside DEF AskInv, LinkedPending
<1>3. ASSUME NEW r \in PendingFor(op.att), SetRequest(r, "superseded"), Goto("newPackage")
      PROVE  AskInv'
  <2>1. LinkedPending(op.att) = {r} /\ r \in RequestIds
    BY <1>3, <1>b DEF PendingFor, LinkedPending
  <2>2. \A q \in RequestIds : /\ q # r => requests'[q] = requests[q]
                              /\ requests'[r].state = "superseded"
    BY <1>a, <1>3, <2>1 DEF SetRequest, RequestRow
  <2>3. op'.att = op.att
    BY <1>3, <1>c
  <2> QED
    BY <2>1, <2>2, <2>3 DEF AskInv, LinkedPending
<1>4. CASE PendingFor(op.att) = {} /\ Goto("newPackage") /\ UNCHANGED requests
  <2>1. op'.att = op.att
    BY <1>4, <1>c
  <2>2. LinkedPending(op.att) = {}
    BY <1>4, <1>b
  <2> QED
    BY <1>4, <2>1, <2>2 DEF AskInv, LinkedPending
<1> QED
  BY <1>1, <1>2, <1>3, <1>4 DEF FreezePackage

LEMMA NextAsk ==
  ASSUME TypeInv, StepInv, DigestInv, RequestInv, AskInv, OnePendingRequest, [Next]_vars
  PROVE  AskInv'
<1> USE Assemble
<1>a. op \in Handler /\ requests \in [RequestIds -> RequestRow]
  BY DEF Tables
<1>b. op'.step \notin Opening => AskInv'
  BY DEF AskInv
<1>1. CASE FreezePackage
  BY <1>1, FreezeAsk
<1>2. CASE NewPackage
  <2>1. op.step = "newPackage" /\ op'.att = op.att /\ UNCHANGED requests
    BY <1>2, <1>a DEF NewPackage, At, Goto, Handler
  <2> QED
    BY <2>1 DEF AskInv, Opening, LinkedPending
<1>3. CASE InsertRequest /\ op'.step \in Opening
  <2>1. op.step = "insert" /\ LinkedPending(op.att) = {}
    BY <1>3 DEF InsertRequest, At, AskInv, Opening
  <2>2. ~Leave
    BY <1>3, <1>a, Unknowing DEF KnowingSteps
  <2>3. PICK r \in FreshRequest :
          /\ requests' = [requests EXCEPT ![r] =
               [att |-> op.att, digest |-> Digest(op.att), linked |-> FALSE,
                approval |-> "none", state |-> "pending"]]
          /\ op' = [op EXCEPT !.req = r, !.step = "approval"]
    BY <1>3, <2>2 DEF InsertRequest
  <2>4. op'.att = op.att
    BY <2>3, <1>a DEF Handler
  <2>5. \A q \in RequestIds : (q = r /\ ~requests'[q].linked) \/ requests'[q] = requests[q]
    BY <2>3, <1>a DEF FreshRequest
  <2> QED
    BY <2>1, <2>4, <2>5 DEF AskInv, LinkedPending
<1>4. CASE CreateApproval
  <2>1. op.step = "approval" /\ op'.att = op.att
    BY <1>4, <1>a DEF CreateApproval, At, Goto, Handler
  <2>2. \A q \in RequestIds : /\ requests'[q].att = requests[q].att
                              /\ requests'[q].linked = requests[q].linked
                              /\ requests'[q].state = requests[q].state
    BY <1>4, <1>a DEF CreateApproval, SetApproval, RequestRow
  <2> QED
    BY <2>1, <2>2 DEF AskInv, Opening, LinkedPending
<1>5. CASE LinkApproval \/ RecordVerdict
  BY <1>5, <1>a, <1>b DEF LinkApproval, RecordVerdict, FirstStep, Goto, Handler, Opening
<1>6. CASE PickPending
  <2>1. ASSUME NEW r \in op.todo,
               op' = [op EXCEPT !.req = r, !.att = requests[r].att,
                                !.gate = attempts[requests[r].att].gate,
                                !.todo = @ \ {r}, !.step = ResumeStep(r)]
        PROVE  op'.step \notin Opening
    <3>1. op'.step = ResumeStep(r)
      BY <1>a, <2>1 DEF Handler
    <3> QED
      BY <3>1 DEF ResumeStep, Opening
  <2>2. op' = Idle => op'.step \notin Opening
    BY DEF Idle, Opening
  <2> QED
    BY <1>6, <1>b, <2>1, <2>2 DEF PickPending
<1>7. ASSUME NEW r \in RequestIds, NEW v \in Verdicts, DecideRelease(r, v)
      PROVE  AskInv'
  <2>1. PICK s \in {"expireRequest", "driftRequest", "decide", FirstStep(v)} :
          op' = [Idle EXCEPT !.kind = "decide", !.step = s, !.req = r, !.verdict = v,
                             !.att = requests[r].att,
                             !.gate = attempts[requests[r].att].gate]
    BY <1>7 DEF DecideRelease
  <2>2. op'.step = s
    BY <2>1 DEF Idle
  <2> QED
    BY <1>b, <2>2 DEF FirstStep, Opening
<1>8. CASE UNCHANGED vars
  BY <1>8 DEF vars, AskInv, LinkedPending
<1> QED
  BY <1>b, <1>1, <1>2, <1>3, <1>4, <1>5, <1>6, <1>7, <1>8, KnowingWriters DEF KnowingSteps

LEMMA NextRelease ==
  TypeInv /\ StepInv /\ RequestInv /\ ReleaseInv /\ [Next]_vars /\ [Settled]_vars => ReleaseInv'
<1> SUFFICES ASSUME TypeInv, StepInv, RequestInv, ReleaseInv, [Next]_vars, [Settled]_vars
             PROVE  ReleaseInv'
  OBVIOUS
<1> USE DEF ReleaseInv
<1>1. DigestInv'
  <2>1. \A p \in packages' : /\ attempts'[p.att].state # "none"
                             /\ Within(p.digest, Digest(p.att)')
    BY NextPackages
  <2>2. \A r \in RequestIds : requests'[r].state # "none" =>
          /\ attempts'[requests'[r].att].state # "none"
          /\ requests'[r].digest \in Digests
          /\ Within(requests'[r].digest, Digest(requests[r].att)')
    BY NextDigests DEF Digest
  <2>3. \A r \in RequestIds : Open(r)' =>
          \A p \in packages' : p.att = requests'[r].att =>
            Within(p.digest, requests'[r].digest)
    BY NextPackage
  <2> QED
    BY <2>1, <2>2, <2>3 DEF DigestInv, Digest, Within
<1>2. AskInv' /\ OnePendingRequest'
  BY NextAsk, NextOne
<1> QED
  BY <1>1, <1>2

LEMMA ReleaseInvariant == Spec /\ [][Settled]_vars => []ReleaseInv
<1>1. Init => ReleaseInv
  <2> SUFFICES ASSUME Init PROVE ReleaseInv
    OBVIOUS
  <2>1. packages = {} /\ op = Idle /\ \A r \in RequestIds : requests[r].state = "none"
    BY DEF Init, NoRequest
  <2> QED
    BY <2>1 DEF ReleaseInv, DigestInv, AskInv, OnePendingRequest, LinkedPending, Idle, Open,
       Opening
<1>2. TypeInv /\ StepInv /\ RequestInv /\ ReleaseInv /\ [Next]_vars /\ [Settled]_vars =>
        ReleaseInv'
  BY NextRelease
<1> QED
  BY <1>1, <1>2, TypeInvariant, StepInvariant, RequestInvariant, PTL DEF Spec

\* As long as the permissions stay and no count falls, a person is asked once about an
\* attempt, although the request is opened in six commits any of which may be the last.
\* Without that it is false: a digest comes back, its old package is found again and a
\* second request is opened beside the first.  (request_release)
THEOREM AskedOnce == Spec /\ [][Settled]_vars => []OnePendingRequest
<1>1. ReleaseInv => OnePendingRequest
  BY DEF ReleaseInv
<1> QED
  BY <1>1, ReleaseInvariant, PTL

-----------------------------------------------------------------------------
(* What was approved is still what there is, as long as no digest comes back *)
(* and no write fails by itself.                                             *)

\* An approval is given by RecordVerdict alone.
LEMMA NowGiven ==
  ASSUME TypeInv, [Next]_vars, NEW r \in RequestIds, requests'[r].approval = "approved"
  PROVE  requests[r].approval = "approved" \/ (RecordVerdict /\ r = op.req)
<1> USE Assemble
<1>a. requests \in [RequestIds -> RequestRow]
  BY DEF Tables
<1>b. ASSUME NEW q, NEW s, SetApproval(q, s), s # "approved" \/ r # q
      PROVE  requests[r].approval = "approved"
  BY <1>a, <1>b DEF SetApproval, RequestRow
<1>c. ASSUME NEW q, NEW s, SetRequest(q, s) PROVE requests[r].approval = "approved"
  BY <1>a, <1>c DEF SetRequest, RequestRow
<1>1. CASE Withdraw
  BY <1>1, <1>a, WithdrawKept
<1>2. CASE InsertRequest
  <2>1. ASSUME NEW q \in FreshRequest, requests' = [requests EXCEPT ![q] =
                   [att |-> op.att, digest |-> Digest(op.att), linked |-> FALSE,
                    approval |-> "none", state |-> "pending"]]
        PROVE  requests[r].approval = "approved"
    <3>1. requests'[q].approval = "none"
      BY <1>a, <2>1 DEF FreshRequest
    <3>2. r # q
      BY <3>1
    <3> QED
      BY <1>a, <2>1, <3>2
  <2> QED
    BY <1>2, <2>1 DEF InsertRequest
<1>3. CASE LinkApproval
  BY <1>3, <1>a DEF LinkApproval, RequestRow
<1>4. CASE CreateApproval \/ ExpireDrifted \/ InvalidateApproval \/ RecordVerdict
             \/ \E q \in RequestIds : ExpireApproval(q)
  BY <1>4, <1>b DEF CreateApproval, ExpireDrifted, InvalidateApproval, RecordVerdict,
     ExpireApproval
<1>5. CASE ExpireRequest \/ RejectRequest \/ ChangeRequest \/ ApproveRequest
  BY <1>5, <1>c DEF ExpireRequest, RejectRequest, ChangeRequest, ApproveRequest
<1> QED
  BY <1>1, <1>2, <1>3, <1>4, <1>5, RequestWriters

\* Only the handler of an approval, at its first step, makes an attempt approved.
LEMMA NowApprovedAttempt ==
  ASSUME TypeInv, StepInv, [Next]_vars, NEW a \in AttemptIds,
         attempts[a].state # "approved", attempts'[a].state = "approved"
  PROVE  ApproveAttempt /\ a = op.att /\ attempts[a].state = "awaiting_user_approval"
<1> USE Assemble
<1>a. attempts \in [AttemptIds -> Attempt]
  BY DEF Tables
<1>b. ASSUME NEW b, NEW s, SetAttempt(b, s) PROVE b = a /\ s = "approved"
  BY <1>a, <1>b DEF SetAttempt, Attempt
<1>c. attempts' # attempts
  OBVIOUS
<1>d. ASSUME NEW b, NEW g PROVE ~InsertAttempt(b, g)
  BY <1>a DEF InsertAttempt, NoAttempt
<1>e. ASSUME NEW b, NEW p PROVE attempts' # [attempts EXCEPT ![b].package = p]
  BY <1>a DEF Attempt
<1>f. ASSUME NEW b, NEW next PROVE ~Prepare(b, next)
  BY <1>b, <1>c DEF Prepare
<1>g. ASSUME NEW b, NEW to, NEW next, Transition(b, to, next)
      PROVE  to = "approved" /\ b = a /\ <<attempts[a].state, "approved">> \in AttemptMoves
  BY <1>b, <1>c, <1>g DEF Transition
<1>h. ASSUME NEW b, NEW s, s # "approved" PROVE ~SetAttempt(b, s)
  BY <1>b, <1>h
<1>i. ASSUME NEW b, NEW to, NEW next, to # "approved" PROVE ~Transition(b, to, next)
  BY <1>g, <1>i
<1>1. ~Rpc
  BY <1>c DEF Rpc, StartActivity, Evaluate, RequestRelease, FreezeBaseline,
     DecideRelease, CreateDraft, RecordEvidence, VerifyEvidence,
     ImportRequirements, ChangePolicy, ExpireApproval
<1>2. ~Ensure
  <2>1. ~EnsureActive
    BY <1>c, <1>d DEF EnsureActive
  <2>2. ~TakeSnapshot
    BY <1>f DEF TakeSnapshot
  <2>3. ~AdvanceToReviewReady
    BY <1>c, <1>h DEF AdvanceToReviewReady
  <2> QED
    BY <1>c, <2>1, <2>2, <2>3 DEF Ensure, Return
<1>3. ~Request
  <2>1. ~LinkApproval
    BY <1>e DEF LinkApproval
  <2>2. ~AwaitApproval
    BY <1>i DEF AwaitApproval
  <2> QED
    BY <1>c, <2>1, <2>2 DEF Request, AbortOrphans, FreezePackage, NewPackage, InsertRequest,
       CreateApproval
<1>4. ~Decide
  <2>1. ~ChangeRequest
    BY <1>e DEF ChangeRequest
  <2>2. ~RejectAttempt /\ ~ChangeAttempt /\ ~ReworkAttempt
    BY <1>i DEF RejectAttempt, ChangeAttempt, ReworkAttempt
  <2> QED
    BY <1>c, <2>1, <2>2 DEF Decide, ExpireRequest, SupersedeDrifted, ExpireDrifted,
       RecordVerdict, RejectRequest
<1>5. ~PassGate /\ ~CreateNext /\ ~SnapshotNext /\ ~ApproveRequest
  BY <1>c, <1>d, <1>f DEF PassGate, CreateNext, SnapshotNext, ApproveRequest
<1>6. ~Invalidate
  <2>1. ~InvalidateChange /\ ~InvalidateRun
    BY <1>i DEF InvalidateChange, InvalidateRun
  <2>2. ~StartWork /\ ~MarkStale
    BY <1>c, <1>h DEF StartWork, MarkStale
  <2> QED
    BY <1>c, <2>1, <2>2 DEF Invalidate, InvalidateRequest, InvalidateApproval, Freeze
<1>7. ~Recover /\ ~UNCHANGED vars
  <2>1. ~ResumeReject
    BY <1>i DEF ResumeReject
  <2> QED
    BY <1>c, <2>1 DEF Recover, Fail, Crash, Boot, PickPending, ResumeDrift, vars
<1>8. ApproveAttempt
  BY <1>1, <1>2, <1>3, <1>4, <1>5, <1>6, <1>7 DEF Next, Complete
<1>9. a = op.att /\ <<attempts[a].state, "approved">> \in AttemptMoves
  BY <1>8, <1>g DEF ApproveAttempt
<1> QED
  BY <1>8, <1>9 DEF AttemptMoves

\* Outside the recovery no approval waits but the one the handler carries out.
LEMMA NextWaiting ==
  ASSUME ~WritesFail, TypeInv, StepInv, TodoInv, RecoveryInv, CurrentInv,
         [Next]_vars, op'.kind # "resume", NEW r \in Waiting'
  PROVE  Carried(r)'
<1> USE Assemble
<1>a. /\ op \in Handler /\ requests \in [RequestIds -> RequestRow] /\ RowsKnown
      /\ attempts \in [AttemptIds -> Attempt]
  BY DEF Tables
<1>r. /\ r \in RequestIds /\ Open(r)' /\ requests'[r].approval = "approved"
      /\ attempts'[requests'[r].att].state = "awaiting_user_approval"
  BY DEF Waiting, DecidedPending, Open
<1>1. CASE op.kind = "resume"
  <2>1. op.step \in ResumeSteps
    BY <1>1 DEF TodoInv
  <2>2. ~Rpc
    BY <1>1, RpcStays DEF Idle
  <2>3. ~Ensure /\ ~Request /\ ~Decide /\ ~Invalidate
    BY <2>1 DEF Ensure, EnsureActive, TakeSnapshot, AdvanceToReviewReady, Return,
       Request, AbortOrphans, FreezePackage, NewPackage, InsertRequest, CreateApproval,
       LinkApproval, AwaitApproval, Decide, ExpireRequest, SupersedeDrifted, ExpireDrifted,
       RecordVerdict, RejectAttempt, RejectRequest, ChangeAttempt, ReworkAttempt,
       ChangeRequest, Invalidate, InvalidateRequest, InvalidateApproval, InvalidateChange,
       InvalidateRun, StartWork, Freeze, MarkStale, At, ResumeSteps
  <2>4. ~Complete /\ ~ResumeReject /\ ~ResumeDrift
    BY <1>1, <1>a, CompleteGoto, ResumeGoto DEF ResumeDrift
  <2>5. ~Fail /\ ~Crash
    BY DEF Fail, Crash, Idle
  <2>6. ~Boot /\ ~UNCHANGED vars
    BY <1>1, <1>a DEF Boot, Handler, vars
  <2>7. PickPending
    BY <2>2, <2>3, <2>4, <2>5, <2>6 DEF Next, Recover
  <2>8. op.todo = {}
    BY <1>1, <1>a, <2>7 DEF PickPending, Handler
  <2>9. r \in Waiting
    BY <2>7, <1>r DEF PickPending, Waiting, DecidedPending, Open, Verdicts
  <2> QED
    BY <1>1, <2>7, <2>8, <2>9 DEF RecoveryInv, PickPending, At, Carried
<1>2. CASE op.kind # "resume"
  <2>1. CASE RecordVerdict /\ r = op.req
    <3>1. op.verdict = "approved"
      BY <2>1, <1>a, <1>r DEF RecordVerdict, SetApproval, RequestRow
    <3>2. op'.step = "approve" /\ op'.req = op.req
      BY <2>1, <3>1, <1>a DEF RecordVerdict, FirstStep, Goto, Handler
    <3> QED
      BY <2>1, <3>2 DEF Carried
  <2>2. CASE requests[r].approval = "approved"
    <3>1. Open(r) /\ requests'[r].att = requests[r].att
      <4>1. ~(LinkApproval /\ r = op.req)
        BY <2>2 DEF CurrentInv, LinkApproval, At
      <4> QED
        BY <4>1, <1>r, NextOpen
    <3>2. requests[r].att \in AttemptIds
      BY <3>1, <1>a, <1>r DEF RowsKnown, Open
    <3>3. ~AwaitApproval \/ requests[r].att # op.att
      <4>1. SUFFICES ASSUME AwaitApproval, requests[r].att = op.att PROVE FALSE
        OBVIOUS
      <4>2. r \in LinkedPending(op.att)
        BY <3>1, <4>1, <1>r, PendingIsOpen
      <4> QED
        BY <2>2, <4>1, <4>2 DEF AwaitApproval, At, CurrentInv
    <3>4. attempts[requests[r].att].state = "awaiting_user_approval"
      <4>1. CASE NoneAwaits
        BY <4>1, <3>1, <3>2, <1>r DEF NoneAwaits
      <4>2. CASE AwaitApproval
        <5>1. attempts'[requests[r].att] = attempts[requests[r].att]
          BY <4>2, <3>2, <3>3, <1>a DEF AwaitApproval, Transition, SetAttempt
        <5> QED
          BY <5>1, <3>1, <1>r
      <4> QED
        BY <4>1, <4>2, NextRows
    <3>5. r \in Waiting
      BY <2>2, <3>1, <3>4, <1>r DEF Waiting, DecidedPending, Open, Verdicts
    <3>6. op.step = "approve" /\ op.req = r
      BY <1>2, <3>5 DEF CurrentInv, Carried, TodoInv, OnlyResume
    <3>7. CASE UNCHANGED vars
      BY <3>6, <3>7 DEF vars, Carried
    <3>8. CASE ApproveAttempt
      <4>1. op.att = requests[r].att
        BY <3>6 DEF StepInv
      <4>2. SetAttempt(op.att, "approved")
        BY <3>8, <3>4, <4>1 DEF ApproveAttempt, Transition, AttemptMoves
      <4> QED
        BY <1>a, <1>r, <3>1, <3>2, <4>1, <4>2 DEF SetAttempt, Attempt
    <3>9. UNCHANGED vars \/ ApproveAttempt
      <4>1. ~Rpc
        BY <3>6, RpcStays DEF Idle
      <4>2. ~Ensure /\ ~Request /\ ~Decide /\ ~Invalidate
        BY <3>6 DEF Ensure, EnsureActive, TakeSnapshot, AdvanceToReviewReady, Return,
           Request, AbortOrphans, FreezePackage, NewPackage, InsertRequest, CreateApproval,
           LinkApproval, AwaitApproval, Decide, ExpireRequest, SupersedeDrifted, ExpireDrifted,
           RecordVerdict, RejectAttempt, RejectRequest, ChangeAttempt, ReworkAttempt,
           ChangeRequest, Invalidate, InvalidateRequest, InvalidateApproval, InvalidateChange,
           InvalidateRun, StartWork, Freeze, MarkStale, At
      <4>3. ~PassGate /\ ~CreateNext /\ ~SnapshotNext /\ ~ApproveRequest
        BY <3>6 DEF PassGate, CreateNext, SnapshotNext, ApproveRequest, At
      <4>4. ~Recover
        BY <3>6 DEF Recover, Fail, Crash, Boot, PickPending, ResumeDrift, ResumeReject, Idle, At
      <4> QED
        BY <4>1, <4>2, <4>3, <4>4 DEF Next, Complete
    <3> QED
      BY <3>7, <3>8, <3>9
  <2> QED
    BY <1>r, <2>1, <2>2, NowGiven
<1> QED
  BY <1>1, <1>2

LEMMA NextCurrent ==
  ~WritesFail /\ TypeInv /\ StepInv /\ TodoInv /\ AskInv /\ RecoveryInv /\ CurrentInv
    /\ [Next]_vars => CurrentInv'
<1> SUFFICES ASSUME ~WritesFail, TypeInv, StepInv, TodoInv, AskInv, RecoveryInv,
                    CurrentInv, [Next]_vars
             PROVE  CurrentInv'
  OBVIOUS
<1> USE Assemble
<1>a. /\ op \in Handler /\ requests \in [RequestIds -> RequestRow]
      /\ attempts \in [AttemptIds -> Attempt]
  BY DEF Tables
<1>1. op'.kind # "resume" => \A r \in Waiting' : Carried(r)'
  BY NextWaiting
<1>b. ASSUME op'.step \notin KnowingSteps PROVE CurrentInv'
  BY <1>1, <1>b DEF CurrentInv, KnowingSteps, Opening
<1>2. CASE CreateApproval
  <2>1. op.step = "approval" /\ op.req \in RequestIds
    BY <1>2 DEF CreateApproval, At, OpKnown, RequestSteps
  <2>2. op'.step = "link" /\ op'.req = op.req
    BY <1>2, <1>a DEF CreateApproval, Goto, Handler
  <2>3. requests'[op.req].approval = "requested"
    BY <1>2, <1>a, <2>1 DEF CreateApproval, SetApproval, RequestRow
  <2> QED
    BY <1>1, <2>2, <2>3 DEF CurrentInv
<1>3. CASE LinkApproval
  <2>1. op'.step = "await" /\ op'.att = op.att
    BY <1>3, <1>a DEF LinkApproval, Goto, Handler
  <2>2. op.step = "link" /\ LinkedPending(op.att) = {} /\ requests[op.req].approval = "requested"
    BY <1>3 DEF LinkApproval, At, AskInv, Opening, CurrentInv
  <2>3. ASSUME NEW r \in RequestIds, Open(r)', requests'[r].att = op.att
        PROVE  requests'[r].approval = "requested"
    <3>1. r = op.req
      BY <2>2, <2>3, NextOpen, PendingIsOpen
    <3> QED
      BY <1>3, <1>a, <2>2, <3>1, Linked DEF RequestRow
  <2>4. \A r \in LinkedPending(op.att)' : requests'[r].approval = "requested"
    BY <2>1, <2>3 DEF LinkedPending, Open
  <2> QED
    BY <1>1, <2>1, <2>4 DEF CurrentInv, LinkedPending
<1>4. CASE RecordVerdict
  <2>1. /\ op.step = "decide" /\ op.req \in RequestIds /\ UNCHANGED <<attempts, output, coverage, policy>>
        /\ requests[op.req].digest = Digest(op.att)
    BY <1>4 DEF RecordVerdict, At, OpKnown, RequestSteps, CurrentInv
  <2>2. op'.req = op.req /\ op'.att = op.att /\ op'.step \in {"approve", "reject", "change"}
    BY <1>4, <1>a DEF RecordVerdict, FirstStep, Goto, Handler
  <2>3. requests'[op.req].digest = requests[op.req].digest
    BY <1>4, <1>a, <2>1 DEF RecordVerdict, SetApproval, RequestRow
  <2> QED
    BY <1>1, <2>1, <2>2, <2>3 DEF CurrentInv, Digest
<1>5. CASE PickPending
  <2>1. ASSUME NEW r \in op.todo,
               op' = [op EXCEPT !.req = r, !.att = requests[r].att,
                                !.gate = attempts[requests[r].att].gate,
                                !.todo = @ \ {r}, !.step = ResumeStep(r)]
        PROVE  CurrentInv'
    <3>1. op'.req = r /\ op'.att = requests[r].att /\ op'.step = ResumeStep(r)
      BY <1>a, <2>1 DEF Handler
    <3>2. ResumeStep(r) = "approve" => requests[r].digest = Digest(requests[r].att)
      BY DEF ResumeStep, Drifted
    <3>3. ResumeStep(r) \in {"approve", "resumeDrift", "resumeReject", "pick"}
      BY DEF ResumeStep
    <3>4. UNCHANGED <<attempts, requests, output, coverage, policy>>
      BY <1>5 DEF PickPending
    <3> QED
      BY <1>1, <3>1, <3>2, <3>3, <3>4 DEF CurrentInv, Digest
  <2> QED
    BY <1>5, <1>a, <1>b, <2>1, Unknowing DEF PickPending
<1>6. ASSUME NEW r \in RequestIds, NEW v \in Verdicts, DecideRelease(r, v)
      PROVE  CurrentInv'
  <2>1. PICK s \in {"expireRequest", "driftRequest", "decide", FirstStep(v)} :
          /\ CASE s = "expireRequest" -> requests[r].approval = "expired"
               [] s = "driftRequest"  -> requests[r].approval = "requested" /\ Drifted(r)
               [] s = "decide"        -> requests[r].approval = "requested" /\ ~Drifted(r)
               [] OTHER               -> RetryableVerdict(r, v)
          /\ op' = [Idle EXCEPT !.kind = "decide", !.step = s, !.req = r, !.verdict = v,
                             !.att = requests[r].att,
                             !.gate = attempts[requests[r].att].gate]
    BY <1>6 DEF DecideRelease
  <2>2. op'.step = s /\ op'.req = r /\ op'.att = requests[r].att
    BY <2>1 DEF Idle
  <2>3. /\ op = Idle /\ Open(r) /\ UNCHANGED <<attempts, requests, output, coverage, policy>>
    BY <1>6 DEF DecideRelease, Open
  <2>4. s = "decide" => requests[r].digest = Digest(requests[r].att)
    BY <2>1 DEF Drifted
  <2>5. s = "approve" => attempts[requests[r].att].state # "awaiting_user_approval"
    <3>1. SUFFICES ASSUME s = "approve", attempts[requests[r].att].state = "awaiting_user_approval"
                   PROVE  FALSE
      OBVIOUS
    <3>2. v = "approved" /\ requests[r].approval = v
      BY <2>1, <3>1 DEF FirstStep, RetryableVerdict, Verdicts
    <3>3. r \in Waiting
      BY <2>3, <3>1, <3>2 DEF Waiting, DecidedPending, Open, Verdicts
    <3> QED
      BY <2>3, <3>3 DEF CurrentInv, Carried, Idle
  <2>6. s \in {"expireRequest", "driftRequest", "decide", "approve", "reject", "change"}
    BY DEF FirstStep
  <2> QED
    BY <1>1, <2>2, <2>3, <2>4, <2>5, <2>6 DEF CurrentInv, Digest
<1>7. CASE UNCHANGED vars
  BY <1>1, <1>7 DEF vars, CurrentInv, LinkedPending, Digest
<1>8. CASE FreezePackage \/ NewPackage \/ InsertRequest
  <2>1. ASSUME NEW r PROVE op' = [op EXCEPT !.req = r, !.step = "approval"] =>
                             op'.step = "approval"
    BY <1>a DEF Handler
  <2>2. /\ Goto("newPackage") => op'.step = "newPackage"
        /\ Goto("insert") => op'.step = "insert"
    BY <1>a DEF Goto, Handler
  <2>3. op'.step \in {"newPackage", "insert", "approval"} \/ op'.step \notin KnowingSteps
    BY <1>8, <1>a, <2>1, <2>2, Unknowing DEF FreezePackage, NewPackage, InsertRequest
  <2> QED
    BY <1>1, <1>b, <2>3 DEF CurrentInv
<1> QED
  BY <1>b, <1>2, <1>3, <1>4, <1>5, <1>6, <1>7, <1>8, KnowingWriters

\* AC-SW-03.  An attempt is approved only on an approved request of its own whose digest
\* is that of the output, coverage and permissions of that moment, also when the approval
\* is carried out by the recovery.  With failing writes it is false: a verdict whose
\* completion failed is carried out by a retry that compares no digest.  (decide_release)
THEOREM ApprovedOnCurrentDigest ==
  ~WritesFail => (Spec /\ [][Settled]_vars => ApprovedDigestIsCurrent)
<1> SUFFICES ASSUME ~WritesFail PROVE Spec /\ [][Settled]_vars => ApprovedDigestIsCurrent
  OBVIOUS
<1>1. Init => RecoveryInv /\ CurrentInv
  BY DEF Init, Idle, NoRequest, RecoveryInv, CurrentInv, Waiting, DecidedPending
<1>2. TypeInv /\ StepInv /\ TodoInv /\ RecoveryInv /\ [Next]_vars => RecoveryInv'
  BY NextRecovery
<1>3. TypeInv /\ StepInv /\ TodoInv /\ ReleaseInv /\ RecoveryInv /\ CurrentInv /\ [Next]_vars =>
        CurrentInv'
  BY NextCurrent DEF ReleaseInv
<1>4. ASSUME TypeInv, StepInv, CurrentInv, [Next]_vars
      PROVE  [\A a \in AttemptIds :
                attempts[a].state # "approved" /\ attempts'[a].state = "approved" =>
                  \E r \in RequestIds : /\ requests[r].att = a
                                        /\ requests[r].approval = "approved"
                                        /\ requests[r].digest = Digest(a)]_vars
  <2> SUFFICES ASSUME NEW a \in AttemptIds, attempts[a].state # "approved",
                      attempts'[a].state = "approved"
               PROVE  \E r \in RequestIds : /\ requests[r].att = a
                                            /\ requests[r].approval = "approved"
                                            /\ requests[r].digest = Digest(a)
    OBVIOUS
  <2>1. ApproveAttempt /\ a = op.att /\ attempts[a].state = "awaiting_user_approval"
    BY <1>4, NowApprovedAttempt
  <2>2. op.step = "approve" /\ op.req \in RequestIds
    BY <1>4, <2>1, Assemble DEF ApproveAttempt, At, OpKnown, RequestSteps
  <2>3. requests[op.req].att = a /\ requests[op.req].approval = "approved"
    BY <1>4, <2>1, <2>2 DEF StepInv
  <2>4. requests[op.req].digest = Digest(a)
    BY <1>4, <2>1, <2>2 DEF CurrentInv
  <2> QED
    BY <2>2, <2>3, <2>4
<1>5. TypeInv /\ StepInv /\ CurrentInv /\ [Next]_vars =>
        [\A a \in AttemptIds :
           attempts[a].state # "approved" /\ attempts'[a].state = "approved" =>
             \E r \in RequestIds : /\ requests[r].att = a
                                   /\ requests[r].approval = "approved"
                                   /\ requests[r].digest = Digest(a)]_vars
  BY <1>4
<1> QED
  BY <1>1, <1>2, <1>3, <1>5, TypeInvariant, StepInvariant, TodoInvariant, ReleaseInvariant, PTL
  DEF Spec, ApprovedDigestIsCurrent

-----------------------------------------------------------------------------
(* What withdraws a release wins over what completes it.                     *)

\* The recovery completes what it has just compared.
ResumeInv ==
  op.step = "approve" /\ op.kind = "resume" => requests[op.req].digest = Digest(op.att)

LEMMA NextResume ==
  ASSUME TypeInv, StepInv, TodoInv, ResumeInv, [Next]_vars
  PROVE  ResumeInv'
<1> USE Assemble
<1>a. op \in Handler
  BY DEF Tables
<1>1. SUFFICES ASSUME op'.step = "approve", op'.kind = "resume"
               PROVE  requests'[op'.req].digest = Digest(op.att)'
  BY DEF ResumeInv
<1>2. ~FreezePackage /\ ~NewPackage /\ ~InsertRequest /\ ~CreateApproval /\ ~LinkApproval
  <2>1. ~Leave
    BY <1>1, <1>a, Unknowing DEF KnowingSteps
  <2>2. ASSUME NEW r PROVE op' # [op EXCEPT !.req = r, !.step = "approval"]
    BY <1>1, <1>a DEF Handler
  <2>3. ASSUME NEW s \in {"newPackage", "insert", "link", "await"} PROVE ~Goto(s)
    BY <1>1, <1>a, <2>3 DEF Goto, Handler
  <2> QED
    BY <2>1, <2>2, <2>3 DEF FreezePackage, NewPackage, InsertRequest, CreateApproval,
       LinkApproval
<1>3. ~RecordVerdict
  <2>1. RecordVerdict => op.kind = "resume" /\ op.step = "decide"
    BY <1>1, <1>a DEF RecordVerdict, At, Goto, Handler
  <2> QED
    BY <2>1 DEF TodoInv, ResumeSteps
<1>4. \A r \in RequestIds, v \in Verdicts : ~DecideRelease(r, v)
  BY <1>1 DEF DecideRelease, Idle
<1>5. CASE PickPending
  <2> op' # Idle
    BY <1>1 DEF Idle
  <2>1. PICK r \in op.todo :
          op' = [op EXCEPT !.req = r, !.att = requests[r].att,
                           !.gate = attempts[requests[r].att].gate,
                           !.todo = @ \ {r}, !.step = ResumeStep(r)]
    BY <1>5 DEF PickPending
  <2>2. op'.req = r /\ op'.att = requests[r].att /\ op'.step = ResumeStep(r)
    BY <1>a, <2>1 DEF Handler
  <2>3. requests[r].digest = Digest(requests[r].att)
    BY <1>1, <2>2 DEF ResumeStep, Drifted
  <2>4. UNCHANGED <<attempts, requests, output, coverage, policy>>
    BY <1>5 DEF PickPending
  <2> QED
    BY <2>2, <2>3, <2>4 DEF Digest
<1>6. CASE UNCHANGED vars
  BY <1>1, <1>6 DEF vars, ResumeInv, Digest
<1> QED
  BY <1>1, <1>2, <1>3, <1>4, <1>5, <1>6, KnowingWriters DEF KnowingSteps

\* An attempt becomes approved only on an approved request of its own that is still
\* open, and in the recovery only on the digest of that moment, whatever is imported,
\* drafted or changed between the verdict and its completion.  (complete_approve,
\* resume_pending)
THEOREM ApprovalsAreOpen == Spec => ApprovedOnOpenRequest
<1>1. Init => ResumeInv
  BY DEF Init, Idle, ResumeInv
<1>2. TypeInv /\ StepInv /\ TodoInv /\ ResumeInv /\ [Next]_vars => ResumeInv'
  BY NextResume
<1>3. ASSUME TypeInv, StepInv, RequestInv, ResumeInv, [Next]_vars
      PROVE  [\A a \in AttemptIds :
                attempts[a].state # "approved" /\ attempts'[a].state = "approved" =>
                  \E r \in RequestIds :
                    /\ requests[r].att = a
                    /\ requests[r].approval = "approved"
                    /\ requests[r].state = "pending" /\ requests[r].linked
                    /\ op.kind = "resume" => requests[r].digest = Digest(a)]_vars
  <2> SUFFICES ASSUME NEW a \in AttemptIds, attempts[a].state # "approved",
                      attempts'[a].state = "approved"
               PROVE  \E r \in RequestIds :
                        /\ requests[r].att = a
                        /\ requests[r].approval = "approved"
                        /\ requests[r].state = "pending" /\ requests[r].linked
                        /\ op.kind = "resume" => requests[r].digest = Digest(a)
    OBVIOUS
  <2>1. ApproveAttempt /\ a = op.att
    BY <1>3, NowApprovedAttempt
  <2>2. op.step = "approve" /\ op.req \in RequestIds
    BY <1>3, <2>1, Assemble DEF ApproveAttempt, At, OpKnown, RequestSteps
  <2>3. requests[op.req].att = a /\ requests[op.req].approval = "approved"
    BY <1>3, <2>1, <2>2 DEF StepInv
  <2>4. requests[op.req].state = "pending" /\ requests[op.req].linked
    BY <1>3, <2>2 DEF RequestInv, Deciding, Open
  <2>5. op.kind = "resume" => requests[op.req].digest = Digest(a)
    BY <1>3, <2>1, <2>2 DEF ResumeInv
  <2> QED
    BY <2>2, <2>3, <2>4, <2>5
<1>4. TypeInv /\ StepInv /\ RequestInv /\ ResumeInv /\ [Next]_vars =>
        [\A a \in AttemptIds :
           attempts[a].state # "approved" /\ attempts'[a].state = "approved" =>
             \E r \in RequestIds :
               /\ requests[r].att = a
               /\ requests[r].approval = "approved"
               /\ requests[r].state = "pending" /\ requests[r].linked
               /\ op.kind = "resume" => requests[r].digest = Digest(a)]_vars
  BY <1>3
<1> QED
  BY <1>1, <1>2, <1>4, TypeInvariant, StepInvariant, TodoInvariant, RequestInvariant, PTL
  DEF Spec, ApprovedOnOpenRequest
=============================================================================
