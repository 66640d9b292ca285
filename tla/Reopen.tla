------------------------------- MODULE Reopen -------------------------------
(***************************************************************************)
(* The three operations that move a work item other than by releasing its   *)
(* gates: rollback to a snapshot (rollback.rs), rework from an earlier gate  *)
(* (rework.rs) and skipping a gate (skip.rs).  Each asks for an approval     *)
(* bound to a digest of what it will change, then executes in several        *)
(* commits over the attempts, stages and release requests of GateRelease,    *)
(* and is finished by a startup or a resume call when it was cut off.        *)
(* The core serves one call at a time; `call' is where that call stands.     *)
(***************************************************************************)
EXTENDS Naturals, FiniteSets, Sequences, FiniteSetsExt

CONSTANTS
  N,            \* gates of the work item
  MaxAttempts,  \* bound: attempts
  MaxOps        \* bound: operations that have not ended

Gates    == 1 .. N
Ops      == 1 .. MaxOps
None     == <<>>

ASSUME ReopenAssumption ==
  /\ N \in Nat \ {0}
  /\ MaxAttempts \in Nat /\ MaxOps \in Nat

VARIABLES
  gate,   \* workitems.current_gate
  stage,  \* workitem_stages.state by gate; what is running reads "not_started"
  att,    \* stage_attempts of each gate, by attempt_no; <<g, n>> names one
  ops,    \* rollback_operations, rework_operations, gate_skip_requests
  call    \* the call being served, or the startup

vars == <<gate, stage, att, ops, call>>

\* "prepared" stands for every state between it and the request for release.
Active    == {"prepared", "awaiting"}
NonFinal  == Active \cup {"preparing", "approved"}
\* rel is the pending release request with its approval: "asked" (requested),
\* "granted" (approved); "none" when no request is pending.  last is the last gate of
\* the interval of a rework whose step A is committed (rework_affected_facts).
NoOp      == [kind |-> "none", target |-> 0, on |-> None, st |-> "none", prog |-> "none",
              ap |-> "none", seen |-> <<>>, fresh |-> None, post |-> <<>>, last |-> 0]
NoCall    == [pc |-> "idle", op |-> None, att |-> None, g |-> 0, boot |-> "up", tried |-> {}]

Init ==
  /\ gate = 1 /\ stage = [g \in Gates |-> "not_started"]
  /\ att = [g \in Gates |-> <<>>]
  /\ ops = [o \in Ops |-> NoOp]
  /\ call = NoCall

Idle == call.pc = "idle"
At(pc) == call.pc = pc
Goto(pc) == call' = [call EXCEPT !.pc = pc]
\* The call ends, with a result or an error; a startup goes on with the next.
Return == call' = [NoCall EXCEPT !.pc = IF call.boot = "up" THEN "idle" ELSE "boot",
                                 !.boot = call.boot, !.tried = call.tried]

Of(g)   == {g} \X DOMAIN att[g]
Known   == UNION {Of(g) : g \in Gates}
A(a)    == att[a[1]][a[2]]
Busy    == {a \in Known : A(a).st \in Active}
Room    == Cardinality(Known) < MaxAttempts
New(g)     == <<g, Len(att[g]) + 1>>
FirstOf(S) == CHOOSE a \in S : \A b \in S : b[1] > a[1] \/ (b[1] = a[1] /\ b[2] >= a[2])
LastOf(S)  == CHOOSE a \in S : \A b \in S : b[2] <= a[2]   \* of one gate
SetState(o, s) == ops' = [ops EXCEPT ![o].st = s]
\* An operation that is over, as completed or otherwise: a decision that is repeated
\* changes nothing, so its row is not kept, but for the word that it is completed.
End(o, s) == ops' = [ops EXCEPT ![o] = [NoOp EXCEPT !.st = s]]
SetAttempt(a, s) == att' = [att EXCEPT ![a[1]][a[2]].st = s]
\* attempt::create, the INSERT: a preparing attempt does not count as active.
Inserted(atts, g, s) == [atts EXCEPT ![g] = Append(@, [st |-> s, rel |-> "none"])]
\* Mutant of MayActivate: the unique index is left out.
MayActivateAny(a) == TRUE
\* idx_attempts_single_active.
MayActivate(a) == Busy \subseteq {a}

(* What the approvals are bound to.                                           *)
\* build_impact: what a rollback to gate t withdraws.
Withdrawable(g) == {a \in Of(g) : A(a).st \in Active \cup {"approved"}}
Impact(t) ==
  LET gone == UNION {Withdrawable(g) : g \in t .. N}
  IN  <<gate, {<<a, A(a)>> : a \in gone},
        {o \in Ops : ops[o].kind # "rollback" /\ ops[o].ap = "requested" /\ ops[o].on \in gone}>>
\* cas_digest, and cas_digest_on_conn without the attempts of gate t.
CasWithout(t, p, stages, atts) ==
  <<p, stages, {<<a[1], atts[a[1]][a[2]].st>> : a \in
                  {b \in Gates \X (1 .. MaxAttempts) :
                     b[1] # t /\ b[2] \in DOMAIN atts[b[1]] /\ atts[b[1]][b[2]].st \in Active}}>>
Cas == CasWithout(0, gate, stage, att)
\* What a decision compares with what the request was shown.
Compared(kind, t) == CASE kind = "rollback" -> Impact(t)
                       [] kind = "rework"   -> Cas
                       [] kind = "skip"     -> <<Cas, Busy \cap Of(t)>>
Drifted(o) == Compared(ops[o].kind, ops[o].target) # ops[o].seen
\* Mutant of Unchanged: a resumed rework does not look at what happened since.
UnchangedAny(o) == TRUE
\* rework::resume: what step A left, except the attempts of the target gate.
Unchanged(o) == CasWithout(ops[o].target, gate, stage, att) = ops[o].post
-----------------------------------------------------------------------------
(* Work between the operations, and the release of a gate.                    *)

\* ensure_active, by every handler that works on a gate the caller names.
Start(g) ==
  /\ Idle /\ Busy = {} /\ Room
  /\ att' = Inserted(att, g, "prepared")
  /\ UNCHANGED <<gate, stage, ops, call>>

\* request_release.
Ask(a) ==
  /\ Idle /\ A(a).st = "prepared" /\ a[1] = gate
  /\ att' = [att EXCEPT ![a[1]][a[2]] = [st |-> "awaiting", rel |-> "asked"]]
  /\ UNCHANGED <<gate, stage, ops, call>>

\* decide_release(approved): the decision is recorded first.
Answer(a) ==
  /\ Idle /\ A(a).rel \in {"asked", "granted"}
  /\ att' = [att EXCEPT ![a[1]][a[2]].rel = "granted"]
  /\ call' = [call EXCEPT !.pc = "advance", !.att = a]
  /\ UNCHANGED <<gate, stage, ops>>

\* Mutant of Releasable: the state of the attempt is not looked at.
ReleasableAny(a) == TRUE
Releasable(a) == A(a).st \in {"awaiting", "approved"}

\* complete_approve, the attempt.
Advance ==
  /\ At("advance")
  /\ \/ Releasable(call.att) /\ SetAttempt(call.att, "approved") /\ Goto("pass")
     \/ ~Releasable(call.att) /\ UNCHANGED att /\ Return
  /\ UNCHANGED <<gate, stage, ops>>

\* pass_gate: stage and pointer in one transaction; a skipped stage cannot pass.
Pass ==
  /\ At("pass")
  /\ LET g == call.att[1] IN
       \/ /\ stage[g] = "not_started" /\ stage' = [stage EXCEPT ![g] = "passed"]
          /\ gate' = (IF g < N THEN g + 1 ELSE gate) /\ Goto("next")
       \/ stage[g] = "passed" /\ Goto("next") /\ UNCHANGED <<stage, gate>>
       \/ stage[g] = "skipped" /\ Return /\ UNCHANGED <<stage, gate>>
  /\ UNCHANGED <<att, ops>>

\* The attempt of the next gate, unless that gate ever had one.
NextAttempt ==
  /\ At("next")
  /\ LET g == call.att[1] + 1 IN
       \/ g \in Gates /\ att[g] = <<>> /\ Room
          /\ IF Busy = {} THEN att' = Inserted(att, g, "prepared") /\ Goto("close")
                          ELSE att' = Inserted(att, g, "preparing") /\ Return
       \/ (g \in Gates => att[g] # <<>>) /\ UNCHANGED att /\ Goto("close")
  /\ UNCHANGED <<gate, stage, ops>>

Close ==
  /\ At("close") /\ att' = [att EXCEPT ![call.att[1]][call.att[2]].rel = "none"] /\ Return
  /\ UNCHANGED <<gate, stage, ops>>
-----------------------------------------------------------------------------
(* Requests and decisions.                                                    *)
NewOp(kind, t, on) ==
  \E o \in Ops :
    /\ ops[o].kind = "none" /\ \A p \in 1 .. o - 1 : ops[p].kind # "none"
    /\ ops' = [ops EXCEPT ![o] = [NoOp EXCEPT !.kind = kind, !.target = t, !.on = on,
                 !.st = "awaiting", !.prog = "prepared", !.ap = "requested", !.seen = Compared(kind, t)]]

\* rollback::request, to the snapshot taken when attempt a was prepared.
RequestRollback(a) ==
  /\ Idle /\ A(a).st # "preparing"
  /\ NewOp("rollback", a[1], a)
  /\ UNCHANGED <<gate, stage, att, call>>

\* rework::request; its approval is bound to the attempt of the current gate.
RequestRework(t) ==
  /\ Idle /\ t < gate
  /\ LET on == Busy \cap Of(gate)
     IN  NewOp("rework", t, IF on = {} THEN None ELSE FirstOf(on))
  /\ UNCHANGED <<gate, stage, att, call>>

\* skip::request: of a gate not begun, for which it ensures an attempt first.
RequestSkip(g) ==
  /\ Idle /\ stage[g] = "not_started"
  /\ \E a \in Busy \cap Of(g) : NewOp("skip", g, a)
  /\ UNCHANGED <<gate, stage, att, call>>

\* decide(rejected).  A rollback or rework that was cut off while it executed can
\* still be rejected, and stays as far as it came.
Reject(o) ==
  /\ Idle
  /\ \/ ops[o].st \in {"awaiting", "executing"} /\ ops[o].kind # "skip"
     \/ ops[o].st = "awaiting" /\ ops[o].ap = "requested"
  /\ End(o, "none")
  /\ UNCHANGED <<gate, stage, att, call>>

\* The approval of a rollback has a time limit (expire_stale).
Lapse(o) ==
  /\ Idle /\ ops[o].kind = "rollback" /\ ops[o].ap = "requested"
  /\ ops' = [ops EXCEPT ![o].ap = "expired"]
  /\ UNCHANGED <<gate, stage, att, call>>

\* decide(approved): the digest is compared while the approval is requested; a
\* rollback or rework that an earlier call approved goes straight on.
First(kind) == CASE kind = "rollback" -> "begin"
                 [] kind = "rework"   -> "rework"
                 [] kind = "skip"     -> "skipA"
\* Of what was shown, only a rework looks again (resume).
Approved(row) == [row EXCEPT !.ap = "approved", !.on = None,
                            !.seen = IF row.kind = "rework" THEN @ ELSE <<>>]
Approve(o) ==
  /\ Idle /\ ops[o].st \in {"awaiting", "executing"}
  /\ \/ /\ ops[o].st = "awaiting" /\ ops[o].ap = "requested" /\ ~Drifted(o)
        /\ ops' = [ops EXCEPT ![o] = IF @.kind = "skip" THEN @ ELSE Approved(@)]
        /\ call' = [call EXCEPT !.pc = First(ops[o].kind), !.op = o]
     \/ /\ ops[o].ap = "approved" /\ ops[o].kind # "skip"
        /\ call' = [call EXCEPT !.pc = First(ops[o].kind), !.op = o]
        /\ UNCHANGED ops
     \/ /\ ops[o].st = "awaiting"
        /\ (ops[o].ap = "requested" /\ Drifted(o)) \/ ops[o].ap = "expired"
        /\ End(o, "none") /\ UNCHANGED call
  /\ UNCHANGED <<gate, stage, att>>
-----------------------------------------------------------------------------
(* rollback::execute.                                                         *)
Op     == ops[call.op]
Target == Op.target

Begin ==
  /\ At("begin") /\ SetState(call.op, "executing") /\ Goto("check")
  /\ UNCHANGED <<gate, stage, att>>

\* A Run that is active, a resource only a person can restore or a managed
\* worktree that does not restore ends the rollback here.
Check ==
  /\ At("check")
  /\ \/ End(call.op, "none") /\ Return
     \/ call' = [call EXCEPT !.pc = "reset", !.g = Target] /\ UNCHANGED ops
  /\ UNCHANGED <<gate, stage, att>>

\* Gate by gate: the stage first, ...
\* Mutant of Reset: the stages stay as they are.
ResetPointerOnly ==
  /\ At("reset") /\ Goto("withdraw") /\ UNCHANGED <<gate, stage, att, ops>>
Reset ==
  /\ At("reset")
  /\ stage' = [stage EXCEPT ![call.g] = "not_started"] /\ Goto("withdraw")
  /\ UNCHANGED <<gate, att, ops>>

\* ... then its attempts one by one, ...
Withdraw ==
  /\ At("withdraw")
  /\ IF Withdrawable(call.g) # {}
     THEN LET a == FirstOf(Withdrawable(call.g))
          IN  SetAttempt(a, "superseded") /\ call' = [call EXCEPT !.pc = "expire", !.att = a]
     ELSE /\ UNCHANGED att
          /\ IF call.g < N THEN call' = [call EXCEPT !.pc = "reset", !.g = @ + 1]
                           ELSE call' = [call EXCEPT !.pc = "point", !.g = 0, !.att = None]
  /\ UNCHANGED <<gate, stage, ops>>

\* ... each followed by the approvals bound to it, of other operations too.
Expire ==
  /\ At("expire") /\ Goto("withdraw")
  /\ att' = [att EXCEPT ![call.att[1]][call.att[2]].rel = IF @ = "asked" THEN "none" ELSE @]
  /\ ops' = [o \in Ops |-> IF ops[o].on = call.att /\ ops[o].ap = "requested"
                           THEN [ops[o] EXCEPT !.ap = "expired"] ELSE ops[o]]
  /\ UNCHANGED <<gate, stage>>

Point ==
  /\ At("point") /\ gate' = Target /\ Goto("insert")
  /\ UNCHANGED <<stage, att, ops>>

Insert ==
  /\ At("insert") /\ Room
  /\ att' = Inserted(att, Target, "preparing")
  /\ call' = [call EXCEPT !.pc = "prepare", !.att = New(Target)]
  /\ UNCHANGED <<gate, stage, ops>>

Prepare ==
  /\ At("prepare")
  /\ \/ MayActivate(call.att) /\ SetAttempt(call.att, "prepared") /\ Goto("complete")
     \/ ~MayActivate(call.att) /\ UNCHANGED att /\ Return
  /\ UNCHANGED <<gate, stage, ops>>

Complete ==
  /\ At("complete") /\ End(call.op, "completed") /\ Return
  /\ UNCHANGED <<gate, stage, att>>
-----------------------------------------------------------------------------
(* rework::execute and resume.                                                *)

\* An active Run blocks it, until a person ends the Run and resumes.
Rework ==
  /\ At("rework")
  /\ \/ SetState(call.op, "blocked") /\ Return
     \/ SetState(call.op, "executing") /\ Goto("stepA")
  /\ UNCHANGED <<gate, stage, att>>

\* step_a, one transaction.  The approvals of the requests it supersedes stay
\* open: it expires those whose status is "pending", which no approval has.
StepA ==
  /\ At("stepA")
  /\ LET interval == Target .. gate
         left(a) == [st  |-> IF a.st \in NonFinal THEN "superseded" ELSE a.st,
                     rel |-> "none"]
         leftAll == [g \in Gates |-> IF g \in interval
                                     THEN [n \in DOMAIN att[g] |-> left(att[g][n])] ELSE att[g]]
         reset   == [g \in Gates |-> IF g \in interval THEN "not_started" ELSE stage[g]]
     IN \/ /\ Target < gate /\ Room
           /\ att' = Inserted(leftAll, Target, "preparing")
           /\ stage' = reset /\ gate' = Target
           /\ ops' = [ops EXCEPT ![call.op].prog = "step_a", ![call.op].seen = <<>>,
                        ![call.op].last = gate, ![call.op].post = CasWithout(Target, Target, reset, leftAll)]
           /\ call' = [call EXCEPT !.pc = "stepB", !.att = New(Target)]
        \/ Target >= gate /\ Return /\ UNCHANGED <<gate, stage, att, ops>>

\* Step B's UPDATE: only a preparing attempt is made ready, if no other is active.
Bound(a) == \/ A(a).st = "preparing" /\ MayActivate(a) /\ SetAttempt(a, "prepared")
            \/ A(a).st # "preparing" /\ UNCHANGED att

\* step_b: the snapshot, then one transaction over attempt and operation.  Only
\* execute marks an operation whose step B failed; a resume leaves it as it is.
StepB ==
  /\ \/ /\ At("stepB") \/ At("finish")
        /\ Bound(call.att) /\ End(call.op, "completed")
     \/ At("stepB") /\ SetState(call.op, "blocked") /\ UNCHANGED att
     \/ At("finish") /\ UNCHANGED <<ops, att>>
  /\ Return
  /\ UNCHANGED <<gate, stage>>

\* resume, by a person or at startup.  Before step A the whole digest must still
\* hold; after it, all of it but the attempts of the target gate.
Candidates(o) == {a \in Of(ops[o].target) : A(a).st \in {"preparing", "prepared"}}
Resume(o) ==
  /\ \/ /\ ops[o].prog = "prepared" /\ ~Drifted(o)
        /\ call' = [call EXCEPT !.pc = "rework", !.op = o] /\ UNCHANGED ops
     \/ /\ ops[o].prog = "step_a" /\ Unchanged(o) /\ Candidates(o) # {}
        /\ call' = [call EXCEPT !.pc = "finish", !.op = o, !.att = LastOf(Candidates(o))]
        /\ UNCHANGED ops
     \/ /\ \/ ops[o].prog = "prepared" /\ Drifted(o)
           \/ ops[o].prog = "step_a" /\ ~Unchanged(o)
        /\ End(o, "none") /\ Return
  /\ UNCHANGED <<gate, stage, att>>
ResumeRework(o) ==
  Idle /\ ops[o].kind = "rework" /\ ops[o].st \in {"executing", "blocked"} /\ Resume(o)
-----------------------------------------------------------------------------
(* skip: step_a with the decision in one transaction, step_b, resume.         *)
SkipA ==
  /\ At("skipA")
  /\ \/ /\ Target < N /\ Room
        /\ stage' = [stage EXCEPT ![Target] = "skipped"] /\ gate' = Target + 1
        /\ att' = Inserted([att EXCEPT ![Target][Op.on[2]].st = "superseded"], gate', "preparing")
        /\ ops' = [ops EXCEPT ![call.op] =
                     [Approved(@) EXCEPT !.st = "executing", !.prog = "step_a", !.fresh = New(Target + 1)]]
        /\ call' = [call EXCEPT !.pc = "skipB", !.att = New(Target + 1)]
     \/ Target = N /\ Return /\ UNCHANGED <<gate, stage, att, ops>>

SkipB ==
  /\ At("skipB")
  /\ \/ /\ Bound(call.att) /\ End(call.op, "completed")
     \/ SetState(call.op, "blocked") /\ UNCHANGED att
  /\ Return
  /\ UNCHANGED <<gate, stage>>

\* skip::resume looks at the progress alone.
ResumeSkip(o) ==
  /\ Idle /\ ops[o].kind = "skip" /\ ops[o].prog = "step_a"
  /\ ops[o].st \in {"executing", "blocked"}
  /\ call' = [call EXCEPT !.pc = "skipB", !.op = o, !.att = ops[o].fresh]
  /\ UNCHANGED <<gate, stage, att, ops>>
-----------------------------------------------------------------------------
(* Calls that are cut short, and the next start (main.rs).                    *)

\* A write fails and the call with it: what it committed stays.
WriteFails ==
  /\ call.pc \notin {"idle", "boot"} /\ Return
  /\ UNCHANGED <<gate, stage, att, ops>>

\* The process dies; the next one recovers releases, rollbacks and reworks first.
Crash ==
  /\ ~Idle /\ call' = [NoCall EXCEPT !.pc = "boot", !.boot = "release"]
  /\ UNCHANGED <<gate, stage, att, ops>>

Enter(pc, x, f) == call' = [f EXCEPT !.pc = pc, !.tried = @ \cup {x}]
NextPhase(phase) ==
  call' = [NoCall EXCEPT !.boot = phase, !.pc = IF phase = "up" THEN "idle" ELSE "boot"]

\* release::resume_pending.
BootRelease ==
  /\ At("boot") /\ call.boot = "release"
  /\ LET todo == {a \in Known : A(a).rel = "granted"} \ call.tried
     IN  IF todo = {} THEN NextPhase("rollback")
         ELSE Enter("advance", FirstOf(todo), [call EXCEPT !.att = FirstOf(todo)])
  /\ UNCHANGED <<gate, stage, att, ops>>

\* rollback::resume.
BootRollback ==
  /\ At("boot") /\ call.boot = "rollback"
  /\ LET todo == {o \in Ops : ops[o].kind = "rollback" /\ ops[o].st = "executing"} \ call.tried
     IN  IF todo = {} THEN NextPhase("rework")
         ELSE Enter("begin", Min(todo), [call EXCEPT !.op = Min(todo)])
  /\ UNCHANGED <<gate, stage, att, ops>>

\* rework::startup_recover: only what step A committed.
BootRework ==
  /\ At("boot") /\ call.boot = "rework"
  /\ LET todo == {o \in Ops : /\ ops[o].kind = "rework" /\ ops[o].prog = "step_a"
                              /\ ops[o].st \in {"executing", "blocked"}} \ call.tried
     IN  IF todo = {} THEN NextPhase("up") /\ UNCHANGED ops
         ELSE LET o == Min(todo) IN
              \/ /\ Unchanged(o) /\ Candidates(o) # {}
                 /\ Enter("finish", o, [call EXCEPT !.op = o, !.att = LastOf(Candidates(o))])
                 /\ UNCHANGED ops
              \/ /\ ~Unchanged(o) \/ Candidates(o) = {}
                 /\ IF Unchanged(o) THEN UNCHANGED ops ELSE End(o, "none")
                 /\ Enter("boot", o, call)
  /\ UNCHANGED <<gate, stage, att>>
-----------------------------------------------------------------------------
Releasing == Advance \/ Pass \/ NextAttempt \/ Close
RollingBack == \/ Begin \/ Check \/ Reset \/ Withdraw \/ Expire \/ Point
               \/ Insert \/ Prepare \/ Complete
Reworking == Rework \/ StepA \/ StepB \/ \E o \in Ops : ResumeRework(o)
Skipping  == SkipA \/ SkipB \/ \E o \in Ops : ResumeSkip(o)
Booting   == BootRelease \/ BootRollback \/ BootRework

Next ==
  \/ \E g \in Gates : Start(g) \/ RequestRework(g) \/ RequestSkip(g)
  \/ \E a \in Known : Ask(a) \/ Answer(a) \/ RequestRollback(a)
  \/ \E o \in Ops : Reject(o) \/ Lapse(o) \/ Approve(o)
  \/ Releasing \/ RollingBack \/ Reworking \/ Skipping
  \/ WriteFails \/ Crash \/ Booting

Spec == Init /\ [][Next]_vars
-----------------------------------------------------------------------------
Pcs == {"idle", "advance", "pass", "next", "close", "begin", "check", "reset", "withdraw",
        "expire", "point", "insert", "prepare", "complete", "rework", "stepA", "stepB",
        "finish", "skipA", "skipB", "boot"}
TypeOK ==
  /\ gate \in Gates /\ stage \in [Gates -> {"not_started", "passed", "skipped"}]
  /\ \A g \in Gates : att[g] \in Seq([st : {"superseded"} \cup NonFinal,
                                       rel : {"none", "asked", "granted"}])
  /\ \A o \in Ops :
       /\ ops[o].kind \in {"none", "rollback", "rework", "skip"}
       /\ ops[o].target \in Gates \cup {0} /\ ops[o].on \in Known \cup {None}
       /\ ops[o].st \in {"none", "awaiting", "executing", "blocked", "completed"}
       /\ ops[o].prog \in {"none", "prepared", "step_a"}
  /\ call.pc \in Pcs
  /\ Cardinality(Busy) <= 1

(* A stage reads passed only while an approved attempt of that gate exists: a  *)
(* rollback resets the stage before it withdraws the attempt (rollback.rs:597), *)
(* a release approves the attempt before it passes the stage, and each may be   *)
(* cut off in between and be finished after the other.                          *)
PassedIsApproved ==
  \A g \in Gates : stage[g] = "passed" => \E a \in Of(g) : A(a).st = "approved"

(* An attempt that was withdrawn never comes back: no late answer to its        *)
(* release, no resumed step B and no startup makes it active or approved.       *)
WithdrawnIsFinal ==
  [][\A a \in Known : (A(a).st = "superseded") => A(a)'.st = "superseded"]_vars

\* The gates an operation resets: a rework those up to the one it found the work item at.
Interval(row) == row.target .. (IF row.kind = "rework" THEN row.last ELSE N)

(* A rollback or rework that reports completion has the work item at its target *)
(* gate, all stages of its interval reset, and the only active attempt is one   *)
(* of that gate, however often it was cut off and resumed.                      *)
CompletedAtTarget ==
  [][\A o \in Ops :
       (ops[o].kind \in {"rollback", "rework"} /\ ops'[o].st = "completed") =>
         /\ gate' = ops[o].target /\ gate' \in Interval(ops[o])
         /\ \A g \in Interval(ops[o]) : stage'[g] = "not_started"
         /\ Busy' # {} /\ \A a \in Busy' : a[1] = gate']_vars

=============================================================================
