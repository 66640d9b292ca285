----------------------------- MODULE Automation -----------------------------
(***************************************************************************)
(* The automation timer: a due automation fires one trigger, which is        *)
(* skipped, only suggests (shadow mode), is blocked, or leaves a durable run *)
(* intent (automation_dispatch.rs, workflow/src/automation.rs); the consumer *)
(* claims the intents and starts a Run for each through agent.start.  Both   *)
(* run on the database actor, one call at a time, but every write is a       *)
(* commit of its own and the process may die between any two.                *)
(***************************************************************************)
EXTENDS Naturals, FiniteSets

CONSTANTS
  Interval,    \* interval_secs
  OverlapPolicies, MisfirePolicies,   \* those of the automations looked at
  MaxTime,     \* bound: the clock
  LastTrigger, \* bound: the latest scheduled_for
  MaxMishaps   \* bound: failing writes and deaths of the process

ASSUME AutomationAssumption ==
  /\ OverlapPolicies \subseteq {"skip", "queue_one"}
  /\ MisfirePolicies \subseteq {"skip", "run_once", "catch_up_one"}
  /\ Interval \in Nat \ {0} /\ MaxTime \in Nat /\ LastTrigger \in Nat /\ MaxMishaps \in Nat

Times == 1 .. LastTrigger       \* scheduled_for: the key of a trigger
MaxTries == 3               \* attempts before a transient failure is left unknown

VARIABLES
  now,     \* the clock
  auto,    \* automations: one row
  row,     \* automation_runs.status by scheduled_for
  intent,  \* run_intents by scheduled_for (the idempotency key)
  run,     \* agent_runs by idempotency key: a "row" never had a task
  call,    \* the call the actor is serving
  mishaps  \* failing writes and crashes so far

vars == <<now, auto, row, intent, run, call, mishaps>>

NoIntent == [st |-> "none", tries |-> 0, lease |-> "none"]
NoCall   == [pc |-> "idle", t |-> 1, out |-> "none", left |-> {}]

Init ==
  /\ now = 0
  /\ \E o \in OverlapPolicies, m \in MisfirePolicies :
       auto = [next |-> Interval, status |-> "active", shadow |-> TRUE,
               overlap |-> o, misfire |-> m]
  /\ row = [t \in Times |-> "none"] /\ intent = [t \in Times |-> NoIntent]
  /\ run = [t \in Times |-> "none"]
  /\ call = NoCall /\ mishaps = 0

Idle == call.pc = "idle"
At(pc) == call.pc = pc
Goto(pc) == call' = [call EXCEPT !.pc = pc]
With(pc, out) == call' = [call EXCEPT !.pc = pc, !.out = out]
T == call.t
-----------------------------------------------------------------------------
(* The clock and the user.                                                    *)
Tick ==
  /\ now < MaxTime /\ now' = now + 1
  /\ UNCHANGED <<auto, row, intent, run, call, mishaps>>

\* automation.pause, automation.resume; setShadowMode, its thresholds met or not.
Configure ==
  /\ Idle
  /\ \/ \E s \in {"active", "paused"} : auto' = [auto EXCEPT !.status = s]
     \/ \E b \in BOOLEAN : auto' = [auto EXCEPT !.shadow = b]
  /\ UNCHANGED <<now, row, intent, run, call, mishaps>>
-----------------------------------------------------------------------------
(* fire_one.                                                                  *)

\* claim_receipt: a trigger is claimed once; claimed before, the call does nothing.
Claim(t) ==
  /\ row[t] = "none" /\ row' = [row EXCEPT ![t] = "fired"]
  /\ call' = [NoCall EXCEPT !.pc = "decide", !.t = t]
  /\ UNCHANGED <<now, auto, intent, run, mishaps>>

FireDue == Idle /\ auto.status = "active" /\ auto.next <= now /\ auto.next \in Times /\ Claim(auto.next)
RunNow  == Idle /\ \E t \in {now, auto.next} \cap Times : Claim(t)

\* overlap_allowed_for, misfire_decision.
Overlaps ==
  Cardinality({s \in Times \ {T} : row[s] = "fired"}) >= (IF auto.overlap = "skip" THEN 1 ELSE 2)
Overdue == auto.misfire = "skip" /\ now > auto.next + Interval
Shown(o) == With("record", o)

\* Mutant of Decide: the intent is written before the grant is looked at.
DecideLate ==
  /\ At("decide") /\ ~auto.shadow
  /\ intent' = [intent EXCEPT ![T].st = "pending"]
  /\ Shown("refused") \/ Shown("intent_created")
  /\ UNCHANGED <<now, auto, row, run, mishaps>>

\* "refused" is skipped_overlap, skipped_misfire, shadowed, shadow_fallback or
\* blocked_no_grant, looked for in this order.  force_shadow_mode_v2 sends a live
\* automation back to shadow mode for its false positives, or finds that it had
\* before; the grant may be missing, ended or revoked at any time.
Decide ==
  /\ At("decide")
  /\ \/ (Overlaps \/ Overdue \/ auto.shadow) /\ Shown("refused") /\ UNCHANGED auto
     \/ /\ ~Overlaps /\ ~Overdue /\ ~auto.shadow
        /\ \/ Shown("refused") /\ \E b \in BOOLEAN : auto' = [auto EXCEPT !.shadow = b]
           \/ Goto("enqueue") /\ UNCHANGED auto
  /\ UNCHANGED <<now, row, intent, run, mishaps>>

Enqueue ==
  /\ At("enqueue") /\ intent' = [intent EXCEPT ![T] = [NoIntent EXCEPT !.st = "pending"]]
  /\ Shown("intent_created")
  /\ UNCHANGED <<now, auto, row, run, mishaps>>

Record ==
  /\ At("record") /\ row' = [row EXCEPT ![T] = call.out] /\ Goto("reschedule")
  /\ UNCHANGED <<now, auto, intent, run, mishaps>>

Later == (IF now > auto.next THEN now ELSE auto.next) + Interval
Reschedule ==
  /\ \/ At("reschedule") /\ IF call.out = "intent_created" THEN Goto("emit") ELSE call' = NoCall
     \/ At("again") /\ call' = NoCall
  /\ auto' = [auto EXCEPT !.next = Later]
  /\ UNCHANGED <<now, row, intent, run, mishaps>>

Emit ==
  /\ At("emit") /\ call' = NoCall
  /\ UNCHANGED <<now, auto, row, intent, run, mishaps>>

\* A failing write of fire_one reschedules, unless that write fails too.
FireFails ==
  /\ \/ /\ mishaps < MaxMishaps /\ mishaps' = mishaps + 1
        /\ call.pc \in {"decide", "enqueue", "record", "reschedule", "emit"} /\ Goto("again")
     \/ At("again") /\ call' = NoCall /\ UNCHANGED mishaps
  /\ UNCHANGED <<now, auto, row, intent, run>>
-----------------------------------------------------------------------------
(* consume_pending_intents.                                                   *)
In(st) == {t \in Times : intent[t].st = st}

\* The lease of a claim runs out; the claim is settled long before unless its
\* consumer was cut off.
LeaseEnds ==
  /\ Idle
  /\ \E t \in In("claimed") :
       intent[t].lease = "held" /\ intent' = [intent EXCEPT ![t].lease = "over"]
  /\ UNCHANGED <<now, auto, row, run, call, mishaps>>

\* Mutant of Stale: nobody looks for claims whose consumer is gone.
StaleNever == {}
Stale == {t \in In("claimed") : intent[t].lease = "over"}

\* Mutant of Abandoned: the intent is tried again.
AbandonedRetried(i) == [i EXCEPT !.st = "pending", !.lease = "none"]
Abandoned(i) == [NoIntent EXCEPT !.st = "unknown"]

\* reconcile_stale_intents, then the list of what is pending.
Consume ==
  /\ Idle /\ Stale \cup In("pending") # {}
  /\ intent' = [t \in Times |-> IF t \in Stale THEN Abandoned(intent[t]) ELSE intent[t]]
  /\ call' = [NoCall EXCEPT !.pc = "take", !.left = In("pending")]
  /\ UNCHANGED <<now, auto, row, run, mishaps>>

Take ==
  /\ At("take")
  /\ \/ \E t \in call.left :
          /\ intent' = [intent EXCEPT ![t] = [st |-> "claimed", tries |-> @.tries + 1, lease |-> "held"]]
          /\ call' = [call EXCEPT !.pc = "start", !.t = t, !.left = @ \ {t}]
     \/ call.left = {} /\ call' = NoCall /\ UNCHANGED intent
  /\ UNCHANGED <<now, auto, row, run, mishaps>>

Errors == {"transient", "deterministic"}
Existing(t) == run[t] # "none"

\* agent.start up to create_run, which finds the Run of an earlier call.
Start ==
  /\ At("start")
  /\ \/ Existing(T) /\ With("settle", "ok") /\ UNCHANGED run
     \/ ~Existing(T) /\ run' = [run EXCEPT ![T] = "row"] /\ Goto("spawn")
     \/ \E e \in Errors : With("settle", e) /\ UNCHANGED run
  /\ UNCHANGED <<now, auto, row, intent, mishaps>>

\* The rest of it; a refusal here leaves the Run's row as it is.
Spawn ==
  /\ At("spawn")
  /\ \/ run' = [run EXCEPT ![T] = "started"] /\ With("settle", "ok")
     \/ \E e \in Errors : With("settle", e) /\ UNCHANGED run
  /\ UNCHANGED <<now, auto, row, intent, mishaps>>

\* Mutant of MayRetry: one retry too many.
MayRetryOnceMore == intent[T].tries <= MaxTries
MayRetry == intent[T].tries < MaxTries
Settled == CASE call.out = "ok" -> "consumed"
             [] call.out = "deterministic" -> "cancelled"
             [] call.out = "transient" -> IF MayRetry THEN "pending" ELSE "unknown"
\* The trigger's own record reads failed after any error, if it names the intent.
Settle ==
  /\ At("settle")
  /\ intent' = [intent EXCEPT ![T] =
                  IF Settled = "pending" THEN [st |-> "pending", tries |-> @.tries, lease |-> "none"]
                                         ELSE [NoIntent EXCEPT !.st = Settled]]
  /\ row' = [row EXCEPT ![T] = IF call.out # "ok" /\ @ = "intent_created" THEN "failed" ELSE @]
  /\ call' = [NoCall EXCEPT !.pc = "take", !.left = call.left]
  /\ UNCHANGED <<now, auto, run, mishaps>>

\* A failing write of the consumer ends the whole pass.
ConsumeFails ==
  /\ mishaps < MaxMishaps /\ mishaps' = mishaps + 1
  /\ call.pc \in {"take", "settle"} /\ call' = NoCall
  /\ UNCHANGED <<now, auto, row, intent, run>>
-----------------------------------------------------------------------------
(* The process dies; the next start settles what it finds.                    *)
Crash ==
  /\ mishaps < MaxMishaps /\ mishaps' = mishaps + 1
  /\ call' = [NoCall EXCEPT !.pc = "boot"]
  /\ UNCHANGED <<now, auto, row, intent, run>>

\* reconcile_orphans: the status only.
Boot ==
  /\ At("boot") /\ call' = NoCall
  /\ row' = [t \in Times |-> IF row[t] = "fired" THEN "failed" ELSE row[t]]
  /\ UNCHANGED <<now, auto, intent, run, mishaps>>
-----------------------------------------------------------------------------
Firing    == Decide \/ Enqueue \/ Record \/ Reschedule \/ Emit
Consuming == Take \/ Start \/ Spawn \/ Settle

Next ==
  \/ Tick \/ Configure \/ LeaseEnds
  \/ FireDue \/ RunNow \/ Firing \/ FireFails
  \/ Consume \/ Consuming \/ ConsumeFails
  \/ Crash \/ Boot

Spec == Init /\ [][Next]_vars

\* The actor serves what it has begun, the timer comes back every five seconds
\* for both calls, and leases run out.
Fairness == /\ WF_vars(Firing) /\ WF_vars(Consuming) /\ WF_vars(Boot)
            /\ WF_vars(FireDue) /\ WF_vars(Consume) /\ WF_vars(LeaseEnds)
FairSpec == Spec /\ Fairness
-----------------------------------------------------------------------------
TypeOK ==
  /\ now \in 0 .. MaxTime /\ auto.next \in Nat
  /\ auto.status \in {"active", "paused"} /\ auto.shadow \in BOOLEAN
  /\ row \in [Times -> {"none", "fired", "refused", "intent_created", "failed"}]
  /\ intent \in [Times -> [st : {"none", "pending", "claimed", "consumed", "unknown", "cancelled"},
                           tries : 0 .. MaxTries, lease : {"none", "held", "over"}]]
  /\ run \in [Times -> {"none", "row", "started"}]
  /\ mishaps \in 0 .. MaxMishaps

(* A trigger recorded as skipped, shadowed or blocked has no intent and no Run, *)
(* whatever was cut off or tried again around it.                               *)
RefusedStaysQuiet ==
  \A t \in Times : row[t] = "refused" => intent[t].st = "none" /\ run[t] = "none"

(* A Run that was started is never open to be started again: its intent is on   *)
(* its way to consumed or was left to a person, though the consumer may have    *)
(* died, or failed to write, between the start and the settlement.              *)
StartedIsNotRetried ==
  \A t \in Times : run[t] = "started" => intent[t].st \in {"claimed", "consumed", "unknown"}

(* No intent stays open: it is consumed, cancelled or left to a person, though  *)
(* its consumer may have died on it or failed three times.                      *)
IntentsSettle == \A t \in Times : intent[t].st \in {"pending", "claimed"} ~>
                                  intent[t].st \in {"consumed", "cancelled", "unknown"}

(* An active automation that is due is rescheduled: the promise of fire_one's   *)
(* error path (automation_dispatch.rs:12).                                      *)
NeverMute == (auto.status = "active" /\ auto.next <= now /\ auto.next \in Times) ~>
               (auto.status # "active" \/ auto.next > now)

=============================================================================
