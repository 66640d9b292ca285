-------------------------- MODULE Automation_proofs --------------------------
(* Proofs about Automation, for every interval, policy, clock, number of      *)
(* triggers, failing writes and deaths of the process.                        *)
EXTENDS Automation, TLAPS

USE AutomationAssumption

-----------------------------------------------------------------------------
(* Types.                                                                     *)

CallPcs == {"idle", "decide", "enqueue", "record", "reschedule", "again", "emit",
            "take", "start", "spawn", "settle", "boot"}
Outs == {"none", "refused", "intent_created", "ok"} \cup Errors
Call == [pc : CallPcs, t : Nat, out : Outs, left : SUBSET Times]
AutoRow == [next : Nat, status : {"active", "paused"}, shadow : BOOLEAN,
         overlap : OverlapPolicies, misfire : MisfirePolicies]
Rows == {"none", "fired", "refused", "intent_created", "failed"}
IntentRow == [st : {"none", "pending", "claimed", "consumed", "unknown", "cancelled"},
              tries : 0 .. MaxTries, lease : {"none", "held", "over"}]
Runs == {"none", "row", "started"}

\* TypeOK does not name the call being served, nor the policies.
TypeInv ==
  /\ now \in 0 .. MaxTime /\ auto \in AutoRow /\ row \in [Times -> Rows]
  /\ intent \in [Times -> IntentRow] /\ run \in [Times -> Runs]
  /\ mishaps \in 0 .. MaxMishaps /\ call \in Call

-----------------------------------------------------------------------------
(* The inductive invariant.                                                   *)

OfTrigger == {"decide", "enqueue", "record", "start", "spawn", "settle"}
Consumer  == {"take", "start", "spawn", "settle"}

\* What the call being served has in hand: a trigger that nobody else has written
\* to since it was claimed, or an intent that it claimed and whose Run it has not
\* started unless it knows so.
CallInv ==
  /\ call.pc \in OfTrigger => T \in Times
  /\ call.pc \in {"decide", "enqueue", "record"} => row[T] = "fired"
  /\ call.pc \in {"decide", "enqueue"} => intent[T].st = "none"
  /\ call.pc = "record" =>
       /\ call.out \in {"refused", "intent_created"}
       /\ call.out = "refused" => intent[T].st = "none"
  /\ call.pc \in Consumer => \A t \in call.left : intent[t].st = "pending"
  /\ call.pc \in {"start", "spawn", "settle"} => intent[T].st = "claimed"
  /\ call.pc \in {"start", "spawn"} => run[T] # "started"
  /\ call.pc = "settle" =>
       call.out \in {"ok"} \cup Errors /\ (run[T] = "started" => call.out = "ok")

\* The three records of one trigger.
TriggerInv(t) ==
  /\ row[t] \in {"none", "refused"} => intent[t].st = "none"
  /\ run[t] # "none" => intent[t].st # "none"
  /\ run[t] = "started" => intent[t].st \in {"claimed", "consumed", "unknown"}
  /\ intent[t].st = "pending" => intent[t].tries < MaxTries

IInv == TypeInv /\ CallInv /\ \A t \in Times : TriggerInv(t)

-----------------------------------------------------------------------------
(* The calls.                                                                 *)

LEMMA NoCallType == NoCall \in Call /\ NoCall.pc = "idle"
BY DEF NoCall, Call, CallPcs, Outs, Errors

\* A call that starts afresh, with a trigger or with a list of intents.
LEMMA FreshCall ==
  ASSUME NEW pc \in CallPcs
  PROVE  /\ [NoCall EXCEPT !.pc = pc] \in Call
         /\ [NoCall EXCEPT !.pc = pc].pc = pc
BY NoCallType DEF Call

LEMMA FreshTrigger ==
  ASSUME NEW pc \in CallPcs, NEW t \in Nat
  PROVE  /\ [NoCall EXCEPT !.pc = pc, !.t = t] \in Call
         /\ [NoCall EXCEPT !.pc = pc, !.t = t].pc = pc
         /\ [NoCall EXCEPT !.pc = pc, !.t = t].t = t
BY NoCallType DEF Call

LEMMA FreshList ==
  ASSUME NEW pc \in CallPcs, NEW L \in SUBSET Times
  PROVE  /\ [NoCall EXCEPT !.pc = pc, !.left = L] \in Call
         /\ [NoCall EXCEPT !.pc = pc, !.left = L].pc = pc
         /\ [NoCall EXCEPT !.pc = pc, !.left = L].left = L
BY NoCallType DEF Call

LEMMA CallMoves ==
  ASSUME TypeInv, NEW pc \in CallPcs, NEW out \in Outs,
         \/ Goto(pc) /\ out = call.out
         \/ With(pc, out)
  PROVE  /\ call' \in Call /\ call'.pc = pc /\ call'.out = out
         /\ call'.t = call.t /\ call'.left = call.left
<1>1. call \in Call
  BY DEF TypeInv
<1>2. CASE Goto(pc) /\ out = call.out
  BY <1>1, <1>2 DEF Goto, Call
<1>3. CASE With(pc, out)
  BY <1>1, <1>3 DEF With, Call
<1> QED
  BY <1>2, <1>3

\* A trigger whose records a step does not touch.
LEMMA TriggerFrame ==
  ASSUME NEW t \in Times, TriggerInv(t),
         row'[t] = row[t], intent'[t] = intent[t], run'[t] = run[t]
  PROVE  TriggerInv(t)'
BY DEF TriggerInv

\* A call that has nothing in hand.
LEMMA NothingInHand ==
  ASSUME call'.pc \in {"idle", "reschedule", "emit", "again", "boot"}
  PROVE  CallInv'
BY DEF CallInv, OfTrigger, Consumer

LEMMA InitInv == Init => IInv
<1> SUFFICES ASSUME Init PROVE IInv
  OBVIOUS
<1>1. PICK o \in OverlapPolicies, m \in MisfirePolicies :
        auto = [next |-> Interval, status |-> "active", shadow |-> TRUE, overlap |-> o, misfire |-> m]
  BY DEF Init
<1>2. auto \in AutoRow
  BY <1>1 DEF AutoRow
<1>3. NoIntent \in IntentRow /\ NoIntent.st = "none"
  BY DEF NoIntent, IntentRow, MaxTries
<1>4. TypeInv
  <2>1. /\ now \in 0 .. MaxTime /\ mishaps \in 0 .. MaxMishaps /\ call \in Call
    BY NoCallType DEF Init
  <2>2. /\ row \in [Times -> Rows] /\ run \in [Times -> Runs] /\ intent \in [Times -> IntentRow]
    BY <1>3 DEF Init, Rows, Runs
  <2> QED
    BY <1>2, <2>1, <2>2 DEF TypeInv
<1>5. CallInv
  BY NoCallType DEF Init, CallInv, OfTrigger, Consumer
<1>6. \A t \in Times : TriggerInv(t)
  BY <1>3 DEF Init, TriggerInv
<1> QED
  BY <1>4, <1>5, <1>6 DEF IInv

\* Only the clock, the automation or the count of mishaps changes, or the call lets
\* go of what it had.
LEMMA RecordsKept ==
  ASSUME IInv, UNCHANGED <<row, intent, run>>, now' \in 0 .. MaxTime, auto' \in AutoRow,
         mishaps' \in 0 .. MaxMishaps, call' \in Call,
         \/ UNCHANGED call
         \/ call'.pc \in {"idle", "reschedule", "emit", "again", "boot"}
  PROVE  IInv'
<1>1. TypeInv'
  BY DEF IInv, TypeInv
<1>2. CallInv'
  <2>1. CASE UNCHANGED call
    BY <2>1 DEF IInv, CallInv, OfTrigger, Consumer, T
  <2>2. CASE call'.pc \in {"idle", "reschedule", "emit", "again", "boot"}
    BY <2>2, NothingInHand
  <2> QED
    BY <2>1, <2>2
<1>3. \A t \in Times : TriggerInv(t)'
  BY TriggerFrame DEF IInv
<1> QED
  BY <1>1, <1>2, <1>3 DEF IInv

LEMMA MishapType ==
  ASSUME TypeInv, mishaps < MaxMishaps, mishaps' = mishaps + 1
  PROVE  mishaps' \in 0 .. MaxMishaps
BY DEF TypeInv

LEMMA Ticked ==
  ASSUME IInv, Tick
  PROVE  IInv'
<1>1. now' \in 0 .. MaxTime
  BY DEF IInv, TypeInv, Tick
<1> QED
  BY <1>1, RecordsKept DEF IInv, TypeInv, Tick

LEMMA Configured ==
  ASSUME IInv, Configure
  PROVE  IInv'
<1>1. auto \in AutoRow
  BY DEF IInv, TypeInv
<1>2. auto' \in AutoRow
  BY <1>1 DEF Configure, AutoRow
<1> QED
  BY <1>2, RecordsKept DEF IInv, TypeInv, Configure

LEMMA Claimed ==
  ASSUME IInv, NEW t \in Times, Claim(t)
  PROVE  IInv'
<1>1. /\ TypeInv /\ row[t] = "none" /\ row' = [row EXCEPT ![t] = "fired"]
      /\ UNCHANGED <<now, auto, intent, run, mishaps>> /\ t \in Nat
  BY DEF IInv, Claim, Times
<1>2. call' \in Call /\ call'.pc = "decide" /\ call'.t = t
  <2>1. "decide" \in CallPcs
    BY DEF CallPcs
  <2> QED
    BY <1>1, <2>1, FreshTrigger DEF Claim
<1>3. /\ row' \in [Times -> Rows] /\ row'[t] = "fired"
      /\ \A s \in Times \ {t} : row'[s] = row[s]
  BY <1>1 DEF TypeInv, Rows
<1>4. TypeInv'
  BY <1>1, <1>2, <1>3 DEF TypeInv
<1>5. intent[t].st = "none"
  BY <1>1 DEF IInv, TriggerInv
<1>6. CallInv'
  BY <1>1, <1>2, <1>3, <1>5 DEF CallInv, OfTrigger, Consumer, T
<1>7. TriggerInv(t)'
  BY <1>1, <1>3, <1>5 DEF IInv, TriggerInv
<1>8. \A s \in Times \ {t} : TriggerInv(s)'
  BY <1>1, <1>3, TriggerFrame DEF IInv
<1> QED
  BY <1>4, <1>6, <1>7, <1>8 DEF IInv

LEMMA DecideStep ==
  ASSUME IInv, Decide
  PROVE  IInv'
<1>1. /\ TypeInv /\ call.pc = "decide" /\ CallInv
      /\ UNCHANGED <<now, row, intent, run, mishaps>>
  BY DEF IInv, Decide, At
<1>2. auto' \in AutoRow
  <2>1. auto \in AutoRow
    BY <1>1 DEF TypeInv
  <2> QED
    BY <2>1 DEF Decide, AutoRow
<1>3. /\ call' \in Call /\ call'.t = call.t
      /\ \/ call'.pc = "record" /\ call'.out = "refused"
         \/ call'.pc = "enqueue"
  <2>1. "refused" \in Outs /\ {"record", "enqueue"} \subseteq CallPcs /\ call.out \in Outs
    BY <1>1 DEF Outs, CallPcs, TypeInv, Call
  <2>2. With("record", "refused") \/ Goto("enqueue")
    BY DEF Decide, Shown
  <2> QED
    BY <1>1, <2>1, <2>2, CallMoves
<1>4. TypeInv'
  BY <1>1, <1>2, <1>3 DEF TypeInv
<1>5. CallInv'
  BY <1>1, <1>3 DEF CallInv, OfTrigger, Consumer, T
<1>6. \A t \in Times : TriggerInv(t)'
  BY <1>1, TriggerFrame DEF IInv
<1> QED
  BY <1>4, <1>5, <1>6 DEF IInv

LEMMA Enqueued ==
  ASSUME IInv, Enqueue
  PROVE  IInv'
<1>1. /\ TypeInv /\ call.pc = "enqueue" /\ CallInv
      /\ UNCHANGED <<now, auto, row, run, mishaps>>
  BY DEF IInv, Enqueue, At
<1>2. PICK t \in Times : t = call.t /\ row[t] = "fired"
  BY <1>1 DEF CallInv, OfTrigger, T
<1>3. /\ call' \in Call /\ call'.t = t /\ call'.pc = "record" /\ call'.out = "intent_created"
  BY <1>1, <1>2, CallMoves DEF Enqueue, Shown, Outs, CallPcs
<1> DEFINE new == [NoIntent EXCEPT !.st = "pending"]
<1>4. new \in IntentRow /\ new.st = "pending" /\ new.tries < MaxTries
  BY DEF NoIntent, IntentRow, MaxTries
<1>5. intent' = [intent EXCEPT ![t] = new]
  BY <1>2 DEF Enqueue, T
<1> HIDE DEF new
<1>6. /\ intent' \in [Times -> IntentRow] /\ intent'[t] = new
      /\ \A s \in Times \ {t} : intent'[s] = intent[s]
  BY <1>1, <1>4, <1>5 DEF TypeInv
<1>7. TypeInv'
  BY <1>1, <1>3, <1>6 DEF TypeInv
<1>8. CallInv'
  BY <1>1, <1>2, <1>3 DEF CallInv, OfTrigger, Consumer, T
<1>9. run[t] # "started" /\ TriggerInv(t)'
  <2>1. intent[t].st = "none"
    BY <1>1, <1>2 DEF CallInv, T
  <2>2. run[t] = "none"
    BY <2>1 DEF IInv, TriggerInv
  <2> QED
    BY <1>1, <1>2, <1>4, <1>6, <2>2 DEF TriggerInv
<1>10. \A s \in Times \ {t} : TriggerInv(s)'
  BY <1>1, <1>6, TriggerFrame DEF IInv
<1> QED
  BY <1>7, <1>8, <1>9, <1>10 DEF IInv

LEMMA Recorded ==
  ASSUME IInv, Record
  PROVE  IInv'
<1>1. /\ TypeInv /\ call.pc = "record" /\ CallInv /\ call \in Call
      /\ UNCHANGED <<now, auto, intent, run, mishaps>>
  BY DEF IInv, Record, At, TypeInv
<1>2. PICK t \in Times : /\ t = call.t /\ call.out \in {"refused", "intent_created"}
                         /\ call.out = "refused" => intent[t].st = "none"
  BY <1>1 DEF CallInv, OfTrigger, T
<1>3. /\ row' \in [Times -> Rows] /\ row'[t] = call.out
      /\ \A s \in Times \ {t} : row'[s] = row[s]
  BY <1>1, <1>2 DEF Record, T, TypeInv, Rows
<1>4. call' \in Call /\ call'.pc = "reschedule"
  BY <1>1, CallMoves DEF Record, CallPcs, Call
<1>5. TypeInv'
  BY <1>1, <1>3, <1>4 DEF TypeInv
<1>6. CallInv'
  BY <1>4, NothingInHand
<1>7. TriggerInv(t)'
  BY <1>1, <1>2, <1>3 DEF IInv, TriggerInv
<1>8. \A s \in Times \ {t} : TriggerInv(s)'
  BY <1>1, <1>3, TriggerFrame DEF IInv
<1> QED
  BY <1>5, <1>6, <1>7, <1>8 DEF IInv

LEMMA FireEnds ==
  ASSUME IInv, Reschedule \/ Emit \/ FireFails
  PROVE  IInv'
<1>1. /\ TypeInv /\ call \in Call /\ auto \in AutoRow /\ now \in 0 .. MaxTime
      /\ UNCHANGED <<now, row, intent, run>>
  BY DEF IInv, TypeInv, Reschedule, Emit, FireFails
<1>2. call' \in Call /\ call'.pc \in {"idle", "emit", "again"}
  <2>1. call' = NoCall \/ Goto("emit") \/ Goto("again")
    BY DEF Reschedule, Emit, FireFails
  <2>2. call.out \in Outs
    BY <1>1 DEF Call
  <2> QED
    BY <1>1, <2>1, <2>2, NoCallType, CallMoves DEF CallPcs
<1>3. auto' \in AutoRow
  <2>1. auto.next \in Nat /\ now \in Nat
    BY <1>1 DEF AutoRow
  <2>2. Later \in Nat
    BY <2>1 DEF Later
  <2> QED
    BY <1>1, <2>2 DEF Reschedule, Emit, FireFails, AutoRow
<1>4. mishaps' \in 0 .. MaxMishaps
  BY <1>1, MishapType DEF Reschedule, Emit, FireFails, TypeInv
<1> QED
  BY <1>1, <1>2, <1>3, <1>4, RecordsKept DEF TypeInv

-----------------------------------------------------------------------------
(* The consumer and the process.                                              *)

LEMMA LeaseEnded ==
  ASSUME IInv, LeaseEnds
  PROVE  IInv'
<1>1. /\ TypeInv /\ call.pc = "idle" /\ intent \in [Times -> IntentRow]
      /\ UNCHANGED <<now, auto, row, run, call, mishaps>>
  BY DEF IInv, TypeInv, LeaseEnds, Idle
<1>2. PICK t \in Times : intent[t].st = "claimed" /\ intent' = [intent EXCEPT ![t].lease = "over"]
  BY DEF LeaseEnds, In
<1> DEFINE new == [intent[t] EXCEPT !.lease = "over"]
<1>3. new \in IntentRow /\ new.st = intent[t].st /\ new.tries = intent[t].tries
  BY <1>1 DEF IntentRow
<1>4. intent' = [intent EXCEPT ![t] = new]
  BY <1>2
<1> HIDE DEF new
<1>5. /\ intent' \in [Times -> IntentRow] /\ intent'[t] = new
      /\ \A s \in Times \ {t} : intent'[s] = intent[s]
  BY <1>1, <1>3, <1>4
<1>6. TypeInv' /\ CallInv'
  BY <1>1, <1>5, NothingInHand DEF TypeInv
<1>7. TriggerInv(t)'
  BY <1>1, <1>3, <1>5 DEF IInv, TriggerInv
<1>8. \A s \in Times \ {t} : TriggerInv(s)'
  BY <1>1, <1>5, TriggerFrame DEF IInv
<1> QED
  BY <1>6, <1>7, <1>8 DEF IInv

LEMMA Consumed ==
  ASSUME IInv, Consume
  PROVE  IInv'
<1>1. /\ TypeInv /\ intent \in [Times -> IntentRow]
      /\ UNCHANGED <<now, auto, row, run, mishaps>>
  BY DEF IInv, TypeInv, Consume
<1>2. ASSUME NEW i PROVE Abandoned(i) \in IntentRow /\ Abandoned(i).st = "unknown"
  BY DEF Abandoned, NoIntent, IntentRow, MaxTries
<1>3. /\ intent' \in [Times -> IntentRow]
      /\ \A t \in Times : \/ intent'[t] = intent[t] /\ t \notin Stale
                          \/ intent[t].st = "claimed" /\ intent'[t].st = "unknown"
  BY <1>1, <1>2 DEF Consume, Stale, In
<1>4. call' \in Call /\ call'.pc = "take" /\ call'.left = In("pending")
  <2>1. "take" \in CallPcs /\ In("pending") \in SUBSET Times
    BY DEF CallPcs, In
  <2> QED
    BY <2>1, FreshList DEF Consume
<1>5. TypeInv'
  BY <1>1, <1>3, <1>4 DEF TypeInv
<1>6. CallInv'
  BY <1>3, <1>4 DEF CallInv, OfTrigger, Consumer, In
<1>7. ASSUME NEW t \in Times PROVE TriggerInv(t)'
  BY <1>1, <1>3, TriggerFrame DEF IInv, TriggerInv
<1> QED
  BY <1>5, <1>6, <1>7 DEF IInv

LEMMA Taken ==
  ASSUME IInv, Take
  PROVE  IInv'
<1>1. /\ TypeInv /\ call.pc = "take" /\ call \in Call /\ intent \in [Times -> IntentRow] /\ CallInv
      /\ UNCHANGED <<now, auto, row, run, mishaps>>
  BY DEF IInv, TypeInv, Take, At
<1>2. CASE call' = NoCall /\ UNCHANGED intent
  BY <1>1, <1>2, RecordsKept, NoCallType DEF TypeInv
<1>3. ASSUME NEW t \in call.left,
             intent' = [intent EXCEPT ![t] = [st |-> "claimed", tries |-> intent[t].tries + 1,
                                              lease |-> "held"]],
             call' = [call EXCEPT !.pc = "start", !.t = t, !.left = call.left \ {t}]
      PROVE  IInv'
  <2>1. t \in Times /\ t \in Nat /\ call.left \subseteq Times
    BY <1>1 DEF Call, Times
  <2>2. /\ call' \in Call /\ call'.pc = "start" /\ call'.t = t /\ call'.left = call.left \ {t}
    BY <1>1, <1>3, <2>1 DEF Call, CallPcs
  <2>3. intent[t].st = "pending" /\ intent[t].tries < MaxTries /\ run[t] # "started"
    BY <1>1, <2>1 DEF CallInv, Consumer, IInv, TriggerInv
  <2>4. intent[t].tries + 1 \in 0 .. MaxTries
    <3>1. intent[t] \in IntentRow
      BY <1>1, <2>1
    <3>2. intent[t].tries \in 0 .. MaxTries
      BY <3>1 DEF IntentRow
    <3> QED
      BY <2>3, <3>2 DEF MaxTries
  <2> DEFINE new == [st |-> "claimed", tries |-> intent[t].tries + 1, lease |-> "held"]
  <2>5. new \in IntentRow /\ new.st = "claimed"
    BY <2>4 DEF IntentRow
  <2>6. intent' = [intent EXCEPT ![t] = new]
    BY <1>3
  <2> HIDE DEF new
  <2>7. /\ intent' \in [Times -> IntentRow] /\ intent'[t] = new
        /\ \A s \in Times \ {t} : intent'[s] = intent[s]
    BY <1>1, <2>1, <2>5, <2>6
  <2>8. TypeInv'
    BY <1>1, <2>2, <2>7 DEF TypeInv
  <2>9. CallInv'
    BY <1>1, <2>1, <2>2, <2>3, <2>5, <2>7 DEF CallInv, OfTrigger, Consumer, T
  <2>10. TriggerInv(t)'
    BY <1>1, <2>1, <2>3, <2>5, <2>7 DEF IInv, TriggerInv
  <2>11. \A s \in Times \ {t} : TriggerInv(s)'
    BY <1>1, <2>7, TriggerFrame DEF IInv
  <2> QED
    BY <2>8, <2>9, <2>10, <2>11 DEF IInv
<1> QED
  BY <1>2, <1>3 DEF Take

LEMMA Starting ==
  ASSUME IInv, Start
  PROVE  IInv'
<1>1. /\ TypeInv /\ call.pc = "start" /\ call \in Call /\ CallInv
      /\ UNCHANGED <<now, auto, row, intent, mishaps>>
  BY DEF IInv, TypeInv, Start, At
<1>2. PICK t \in Times : t = call.t /\ intent[t].st = "claimed" /\ run[t] # "started"
  BY <1>1 DEF CallInv, OfTrigger, T
<1>3. PICK out \in Outs : \/ Goto("spawn") /\ out = call.out
                          \/ With("settle", out) /\ out \in {"ok"} \cup Errors
  BY <1>1 DEF Start, Outs, Call
<1>4. /\ call' \in Call /\ call'.t = t /\ call'.left = call.left
      /\ call'.pc = "spawn" \/ (call'.pc = "settle" /\ call'.out \in {"ok"} \cup Errors)
  BY <1>1, <1>2, <1>3, CallMoves DEF CallPcs
<1>5. /\ run' \in [Times -> Runs] /\ run'[t] # "started"
      /\ \A s \in Times \ {t} : run'[s] = run[s]
  BY <1>1, <1>2 DEF Start, T, TypeInv, Runs
<1>6. TypeInv'
  BY <1>1, <1>4, <1>5 DEF TypeInv
<1>7. CallInv'
  BY <1>1, <1>2, <1>4, <1>5 DEF CallInv, OfTrigger, Consumer, T
<1>8. TriggerInv(t)'
  BY <1>1, <1>2, <1>5 DEF IInv, TriggerInv
<1>9. \A s \in Times \ {t} : TriggerInv(s)'
  BY <1>1, <1>5, TriggerFrame DEF IInv
<1> QED
  BY <1>6, <1>7, <1>8, <1>9 DEF IInv

LEMMA Spawned ==
  ASSUME IInv, Spawn
  PROVE  IInv'
<1>1. /\ TypeInv /\ call.pc = "spawn" /\ call \in Call /\ CallInv
      /\ UNCHANGED <<now, auto, row, intent, mishaps>>
  BY DEF IInv, TypeInv, Spawn, At
<1>2. PICK t \in Times : t = call.t /\ intent[t].st = "claimed" /\ run[t] # "started"
  BY <1>1 DEF CallInv, OfTrigger, T
<1>3. PICK out \in {"ok"} \cup Errors :
        /\ With("settle", out)
        /\ \/ out = "ok" /\ run' = [run EXCEPT ![t] = "started"]
           \/ UNCHANGED run
  BY <1>2 DEF Spawn, T
<1>4. /\ call' \in Call /\ call'.t = t /\ call'.left = call.left
      /\ call'.pc = "settle" /\ call'.out = out
  BY <1>1, <1>2, <1>3, CallMoves DEF CallPcs, Outs
<1>5. /\ run' \in [Times -> Runs] /\ (run'[t] = "started" => out = "ok")
      /\ \A s \in Times \ {t} : run'[s] = run[s]
  BY <1>1, <1>2, <1>3 DEF TypeInv, Runs
<1>6. TypeInv'
  BY <1>1, <1>4, <1>5 DEF TypeInv
<1>7. CallInv'
  BY <1>1, <1>2, <1>3, <1>4, <1>5 DEF CallInv, OfTrigger, Consumer, T
<1>8. TriggerInv(t)'
  BY <1>1, <1>2, <1>5 DEF IInv, TriggerInv
<1>9. \A s \in Times \ {t} : TriggerInv(s)'
  BY <1>1, <1>5, TriggerFrame DEF IInv
<1> QED
  BY <1>6, <1>7, <1>8, <1>9 DEF IInv

LEMMA SettleStep ==
  ASSUME IInv, Settle
  PROVE  IInv'
<1>1. /\ TypeInv /\ call.pc = "settle" /\ call \in Call /\ CallInv
      /\ UNCHANGED <<now, auto, run, mishaps>>
      /\ intent \in [Times -> IntentRow] /\ row \in [Times -> Rows]
  BY DEF IInv, TypeInv, Settle, At
<1>2. PICK t \in Times : /\ t = call.t /\ intent[t].st = "claimed"
                         /\ call.out \in {"ok"} \cup Errors
                         /\ run[t] = "started" => call.out = "ok"
  BY <1>1 DEF CallInv, OfTrigger, T
<1>3. /\ Settled \in {"pending", "consumed", "cancelled", "unknown"}
      /\ call.out = "ok" => Settled = "consumed"
      /\ Settled = "pending" => intent[t].tries < MaxTries
  BY <1>2 DEF Settled, Errors, MayRetry, T
<1> DEFINE new == IF Settled = "pending" THEN [st |-> "pending", tries |-> intent[t].tries,
                                               lease |-> "none"]
                                         ELSE [NoIntent EXCEPT !.st = Settled]
<1>4. new \in IntentRow /\ new.st = Settled /\ (Settled = "pending" => new.tries < MaxTries)
  <2>1. intent[t].tries \in 0 .. MaxTries
    BY <1>1 DEF IntentRow
  <2>2. [NoIntent EXCEPT !.st = Settled] \in IntentRow /\ [NoIntent EXCEPT !.st = Settled].st = Settled
    BY <1>3 DEF NoIntent, IntentRow, MaxTries
  <2> QED
    BY <1>3, <2>1, <2>2 DEF IntentRow
<1>5. intent' = [intent EXCEPT ![t] = new]
  BY <1>2 DEF Settle, T
<1> HIDE DEF new
<1>6. /\ intent' \in [Times -> IntentRow] /\ intent'[t] = new
      /\ \A s \in Times \ {t} : intent'[s] = intent[s]
  BY <1>1, <1>4, <1>5
<1>7. /\ row' \in [Times -> Rows] /\ (row'[t] = row[t] \/ row'[t] = "failed")
      /\ \A s \in Times \ {t} : row'[s] = row[s]
  BY <1>1, <1>2 DEF Settle, T, Rows
<1>8. /\ call' \in Call /\ call'.pc = "take" /\ call'.left = call.left
  <2>1. "take" \in CallPcs /\ call.left \in SUBSET Times
    BY <1>1 DEF CallPcs, Call
  <2> QED
    BY <2>1, FreshList DEF Settle
<1>9. TypeInv'
  BY <1>1, <1>6, <1>7, <1>8 DEF TypeInv
<1>10. CallInv'
  <2>1. \A s \in call.left : s \in Times /\ intent[s].st = "pending" /\ s # t
    BY <1>1, <1>2 DEF CallInv, Consumer, Call
  <2> QED
    BY <1>6, <1>8, <2>1 DEF CallInv, OfTrigger, Consumer
<1>11. TriggerInv(t)'
  BY <1>1, <1>2, <1>3, <1>4, <1>6, <1>7 DEF IInv, TriggerInv
<1>12. \A s \in Times \ {t} : TriggerInv(s)'
  BY <1>1, <1>6, <1>7, TriggerFrame DEF IInv
<1> QED
  BY <1>9, <1>10, <1>11, <1>12 DEF IInv

LEMMA CutOff ==
  ASSUME IInv, ConsumeFails \/ Crash
  PROVE  IInv'
<1>1. /\ TypeInv /\ mishaps < MaxMishaps /\ mishaps' = mishaps + 1
      /\ UNCHANGED <<now, auto, row, intent, run>>
  BY DEF IInv, ConsumeFails, Crash
<1>2. call' \in Call /\ call'.pc \in {"idle", "boot"}
  <2>1. "boot" \in CallPcs
    BY DEF CallPcs
  <2> QED
    BY <2>1, NoCallType, FreshCall DEF ConsumeFails, Crash
<1> QED
  BY <1>1, <1>2, MishapType, RecordsKept DEF TypeInv

LEMMA Booted ==
  ASSUME IInv, Boot
  PROVE  IInv'
<1>1. /\ TypeInv /\ call' = NoCall /\ UNCHANGED <<now, auto, intent, run, mishaps>>
      /\ row' = [t \in Times |-> IF row[t] = "fired" THEN "failed" ELSE row[t]]
  BY DEF IInv, Boot
<1>2. /\ row' \in [Times -> Rows]
      /\ \A t \in Times : row'[t] = row[t] \/ row'[t] = "failed"
  BY <1>1 DEF TypeInv, Rows
<1>3. TypeInv' /\ CallInv'
  BY <1>1, <1>2, NoCallType, NothingInHand DEF TypeInv
<1>4. ASSUME NEW t \in Times PROVE TriggerInv(t)'
  BY <1>1, <1>2 DEF IInv, TriggerInv
<1> QED
  BY <1>3, <1>4 DEF IInv

LEMMA Inductive == Spec => []IInv
<1>1. ASSUME IInv, Next PROVE IInv'
  <2>1. CASE Tick \/ Configure \/ LeaseEnds
    BY <1>1, <2>1, Ticked, Configured, LeaseEnded
  <2>2. CASE FireDue \/ RunNow
    BY <1>1, <2>2, Claimed DEF FireDue, RunNow
  <2>3. CASE Firing \/ FireFails
    BY <1>1, <2>3, DecideStep, Enqueued, Recorded, FireEnds DEF Firing
  <2>4. CASE Consume \/ Consuming \/ ConsumeFails
    BY <1>1, <2>4, Consumed, Taken, Starting, Spawned, SettleStep, CutOff DEF Consuming
  <2>5. CASE Crash \/ Boot
    BY <1>1, <2>5, CutOff, Booted
  <2> QED
    BY <1>1, <2>1, <2>2, <2>3, <2>4, <2>5 DEF Next
<1>2. ASSUME IInv, UNCHANGED vars PROVE IInv'
  BY <1>2, RecordsKept DEF vars, IInv, TypeInv
<1>3. IInv /\ [Next]_vars => IInv'
  BY <1>1, <1>2
<1> QED
  BY InitInv, <1>3, PTL DEF Spec

-----------------------------------------------------------------------------
(* The theorems.                                                              *)

\* Every variable keeps its type (automation.rs, automation_dispatch.rs).
THEOREM AutomationTypeCorrect == Spec => []TypeOK
<1>1. IInv => TypeOK
  BY DEF IInv, TypeInv, TypeOK, AutoRow, Rows, IntentRow, Runs
<1> QED
  BY <1>1, Inductive, PTL

\* A trigger that is recorded as skipped, shadowed or blocked has no intent and no Run,
\* whatever writes failed and wherever the process died (fire_one, claim_receipt).
THEOREM RefusedNeverRuns == Spec => []RefusedStaysQuiet
<1>1. IInv => RefusedStaysQuiet
  BY DEF IInv, TriggerInv, RefusedStaysQuiet
<1> QED
  BY <1>1, Inductive, PTL

\* A started Run is never open to be started again by the consumer (agent.start,
\* consume_pending_intents, reconcile_stale_intents).
THEOREM NoSecondStart == Spec => []StartedIsNotRetried
<1>1. IInv => StartedIsNotRetried
  BY DEF IInv, TriggerInv, StartedIsNotRetried
<1> QED
  BY <1>1, Inductive, PTL
=============================================================================
