------------------------- MODULE GrantLedger_proofs -------------------------
(* Proofs about GrantLedger, for every set of Runs, limits, estimates and     *)
(* usages, and any number of crashes.                                        *)
EXTENDS GrantLedger, FiniteSetTheorems, WellFoundedInduction, TLAPS

USE BoundsAssumption, LimitAssumption, AmountsAssumption

-----------------------------------------------------------------------------
(* Types.                                                                   *)

Row == [state : {"none", "reserved", "settled", "reconciliation_required"},
        reserved : Nat, settled : Amount]
Ledger == [Keys -> [Dims -> Row]]
Decisions == {"executed", "unknown", "exec_failed"}

\* Where a Run has a key in hand.
KeyThreads == {"send", "fallback", "settle", "validate", "expire", "measure",
               "exhaust", "consume", "execute", "charge", "mark", "refuse"}

KeyInHand ==
  \A r \in Runs : pc[r] \in KeyThreads \/ run[r] = "paused" => made[r] # 0

ToolResult ==
  \A r \in Runs : pc[r] \in {"charge", "mark"} => call[r].result \in Decisions

TypeInv == TypeOK /\ KeyInHand /\ ToolResult

LEMMA KeyOf ==
  ASSUME TypeInv, NEW r \in Runs, pc[r] \in KeyThreads
  PROVE  Key(r) \in Keys
<1>1. made[r] \in 0 .. MaxKeys /\ made[r] # 0
  BY DEF TypeInv, TypeOK, KeyInHand
<1>2. made[r] \in 1 .. MaxKeys
  BY <1>1
<1> QED
  BY <1>2 DEF Key, Keys

LEMMA NextKey ==
  ASSUME TypeInv, NEW r \in Runs, made[r] < MaxKeys
  PROVE  <<r, made[r] + 1>> \in Keys
<1>1. made[r] + 1 \in 1 .. MaxKeys
  BY DEF TypeInv, TypeOK
<1> QED
  BY <1>1 DEF Keys

\* What a reservation leaves in the ledger.
LEMMA ReservedRow ==
  ASSUME ledger \in Ledger, NEW k \in Keys, NEW D \in SUBSET Dims,
         NEW amounts \in [D -> Nat]
  PROVE  /\ Reserved(k, amounts) \in Ledger
         /\ \A d \in D :
              /\ Reserved(k, amounts)[k][d].state = "reserved"
              /\ Reserved(k, amounts)[k][d].reserved = amounts[d]
              /\ Reserved(k, amounts)[k][d].settled = NoAmount
         /\ \A j \in Keys, d \in Dims :
              j # k \/ d \notin D => Reserved(k, amounts)[j][d] = ledger[j][d]
<1> DEFINE new == [d \in Dims |->
      IF d \in D
      THEN [state |-> "reserved", reserved |-> amounts[d], settled |-> NoAmount]
      ELSE ledger[k][d]]
<1>1. new \in [Dims -> Row]
  BY DEF Ledger, Row, Amount
<1>2. Reserved(k, amounts) = [ledger EXCEPT ![k] = new]
  BY DEF Reserved
<1> HIDE DEF new
<1>3. Reserved(k, amounts) \in Ledger
  BY <1>1, <1>2 DEF Ledger
<1>4. \A j \in Keys : Reserved(k, amounts)[j] = IF j = k THEN new ELSE ledger[j]
  BY <1>2 DEF Ledger
<1>5. \A d \in Dims :
        /\ d \in D => new[d].state = "reserved" /\ new[d].reserved = amounts[d]
                     /\ new[d].settled = NoAmount
        /\ d \notin D => new[d] = ledger[k][d]
  BY DEF new
<1> QED
  BY <1>3, <1>4, <1>5

LEMMA DecidedRow ==
  ASSUME NEW row \in Row, NEW actual \in Amount
  PROVE  /\ Decided(row, actual) \in Row
         /\ Decided(row, actual).reserved = row.reserved
         /\ Decided(row, actual).state \in {"settled", "reconciliation_required"}
         /\ Decided(row, actual).state = "settled" =>
              actual \in Nat /\ actual <= row.reserved /\ Decided(row, actual).settled = actual
         /\ Decided(row, actual).state # "settled" =>
              /\ Decided(row, actual).settled = row.settled
              /\ actual # NoAmount => ~(actual <= row.reserved)
  BY DEF Decided, Row, Amount

\* What a settlement leaves in the ledger.
LEMMA SettledRow ==
  ASSUME ledger \in Ledger, NEW k \in Keys, NEW D \in SUBSET Dims,
         NEW actuals \in [D -> Amount]
  PROVE  /\ Settled(k, actuals) \in Ledger
         /\ \A d \in D : ledger[k][d].state = "reserved" =>
              Settled(k, actuals)[k][d] = Decided(ledger[k][d], actuals[d])
         /\ \A j \in Keys, d \in Dims :
              j # k \/ d \notin D \/ ledger[k][d].state # "reserved" =>
                Settled(k, actuals)[j][d] = ledger[j][d]
<1> DEFINE new == [d \in Dims |->
      IF d \in D /\ ledger[k][d].state = "reserved"
      THEN Decided(ledger[k][d], actuals[d])
      ELSE ledger[k][d]]
<1>1. \A d \in Dims : ledger[k][d] \in Row
  BY DEF Ledger
<1>2. new \in [Dims -> Row]
  BY <1>1, DecidedRow
<1>3. Settled(k, actuals) = [ledger EXCEPT ![k] = new]
  BY DEF Settled
<1> HIDE DEF new
<1>4. Settled(k, actuals) \in Ledger
  BY <1>2, <1>3 DEF Ledger
<1>5. \A j \in Keys : Settled(k, actuals)[j] = IF j = k THEN new ELSE ledger[j]
  BY <1>3 DEF Ledger
<1>6. \A d \in Dims :
        /\ d \in D /\ ledger[k][d].state = "reserved"
             => new[d] = Decided(ledger[k][d], actuals[d])
        /\ d \notin D \/ ledger[k][d].state # "reserved" => new[d] = ledger[k][d]
  BY DEF new
<1> QED
  BY <1>4, <1>5, <1>6

LEMMA CallActualsType ==
  ASSUME TypeInv, NEW r \in Runs
  PROVE  \E D \in SUBSET ModelDims :
           /\ CallActuals(call[r]) \in [D -> Amount]
           /\ call[r].result = "ok" =>
                /\ D = ModelDims
                /\ CallActuals(call[r])["model_calls"] = 1
                /\ CallActuals(call[r])["tokens"] = call[r].usage
<1>1. call[r].usage \in Amount
  BY DEF TypeInv, TypeOK
<1>2. CASE call[r].result = "ok"
  <2> DEFINE actuals == [d \in ModelDims |-> IF d = "model_calls" THEN 1 ELSE call[r].usage]
  <2>1. CallActuals(call[r]) = actuals
    BY <1>2 DEF CallActuals, Preflight, OpenPhaseFailure
  <2>2. /\ actuals \in [ModelDims -> Amount]
        /\ actuals["model_calls"] = 1 /\ actuals["tokens"] = call[r].usage
    BY <1>1 DEF Amount, ModelDims
  <2> QED
    BY <2>1, <2>2
<1>3. CASE call[r].result # "ok" /\ Preflight(call[r])
  <2>1. CallActuals(call[r]) \in [ModelDims -> Amount]
    BY <1>3 DEF CallActuals, Amount
  <2> QED
    BY <1>3, <2>1
<1>4. CASE call[r].result # "ok" /\ ~Preflight(call[r])
  <2>1. CallActuals(call[r]) \in [{"model_calls"} -> Amount]
    BY <1>4 DEF CallActuals, Amount
  <2> QED
    BY <1>4, <2>1 DEF ModelDims
<1> QED
  BY <1>2, <1>3, <1>4

LEMMA InitType == Init => TypeInv
  BY DEF Init, TypeInv, TypeOK, KeyInHand, ToolResult, NoRow, NoCall, Amount, Results,
         Sites, StreamErrors, Terminal, Threads, KeyThreads

LEMMA LedgerType == TypeOK => ledger \in Ledger
  BY DEF TypeOK, Ledger, Row

\* The parts of the type that an answer or a failure of a call writes.
AnswerTyped ==
  /\ pc' \in [Runs -> Threads]
  /\ call' \in [Runs -> [site : Sites \cup {"none"}, result : Results, usage : Amount]]
  /\ KeyInHand' /\ ToolResult'
RecordTyped == recorded' \in [Keys -> [status : {"none", "ok", "error"}, tokens : Nat]]
FactTyped == fact' \in [Keys -> [reported : Amount, answered : BOOLEAN, shown : BOOLEAN]]

LEMMA AnswerType ==
  ASSUME TypeInv, NEW r \in Runs, NEW result \in Results, NEW usage \in Amount,
         made[r] # 0, made' = made, run' = run, Answered(r, result, usage)
  PROVE  AnswerTyped
<1> DEFINE CallRow == [site : Sites \cup {"none"}, result : Results, usage : Amount]
<1>1. pc' = [pc EXCEPT ![r] = "settle"] /\ pc' \in [Runs -> Threads]
  BY DEF Answered, TypeInv, TypeOK, Threads
<1>2. call \in [Runs -> CallRow]
  BY DEF TypeInv, TypeOK
<1>3. call' = [call EXCEPT ![r] = [@ EXCEPT !.result = result, !.usage = usage]]
  BY <1>2 DEF Answered
<1>4. [call[r] EXCEPT !.result = result, !.usage = usage] \in CallRow
  BY <1>2
<1> HIDE DEF CallRow
<1>5. call' \in [Runs -> CallRow] /\ \A q \in Runs : q # r => call'[q] = call[q]
  BY <1>2, <1>3, <1>4
<1>6. KeyInHand'
  BY <1>1 DEF TypeInv, TypeOK, KeyInHand
<1>7. ToolResult'
  BY <1>1, <1>5 DEF TypeInv, TypeOK, ToolResult
<1> QED
  BY <1>1, <1>5, <1>6, <1>7 DEF AnswerTyped, CallRow

LEMMA RecordType ==
  ASSUME TypeInv, NEW k \in Keys, NEW status \in {"ok", "error"}, NEW tokens \in Nat,
         Record(k, status, tokens)
  PROVE  RecordTyped
<1> DEFINE RecordRow == [status : {"none", "ok", "error"}, tokens : Nat]
<1>1. recorded \in [Keys -> RecordRow] /\ [status |-> status, tokens |-> tokens] \in RecordRow
  BY DEF TypeInv, TypeOK
<1> HIDE DEF RecordRow
<1>2. recorded' \in [Keys -> RecordRow]
  BY <1>1 DEF Record
<1> QED
  BY <1>2 DEF RecordTyped, RecordRow

LEMMA CallType ==
  ASSUME TypeInv, NEW r \in Runs, CallStep(r)
  PROVE  TypeInv'
<1> USE DEF TypeInv, TypeOK, KeyInHand, ToolResult, runVars, procVars, Threads, KeyThreads
<1>1. ASSUME NEW site \in Sites, NEW estimate \in Estimates, ReserveCall(r, site, estimate)
      PROVE  TypeInv'
  <2>1. Amounts(estimate) \in [ModelDims -> Nat] /\ ModelDims \in SUBSET Dims
    BY DEF Amounts, ModelDims, Dims
  <2>2. made[r] + 1 \in 0 .. MaxKeys /\ made[r] + 1 # 0
    BY <1>1 DEF ReserveCall
  <2>3. Reserved(<<r, made[r] + 1>>, Amounts(estimate)) \in Ledger
    BY <1>1, <2>1, NextKey, LedgerType, ReservedRow DEF ReserveCall
  <2>4. ledger' \in Ledger
    BY <1>1, <2>3, LedgerType DEF ReserveCall
  <2> QED
    BY <1>1, <2>2, <2>4 DEF ReserveCall, NoCall, Ledger, Row, Amount, Results
<1>2. CASE OverBudget(r)
  <2>1. made[r] # 0 /\ made' = made /\ run' = run /\ Answered(r, "budget", NoAmount)
    BY <1>2 DEF OverBudget
  <2>2. AnswerTyped
    BY <2>1, AnswerType DEF Results, Amount
  <2> QED
    BY <1>2, <2>2 DEF OverBudget, AnswerTyped
<1>3. ASSUME NEW reported \in Usages \cup {NoAmount}, StreamAnswers(r, reported)
      PROVE  TypeInv'
  <2>1. Key(r) \in Keys
    BY <1>3, KeyOf DEF StreamAnswers
  <2>2. StreamUsage(reported) \in Nat /\ reported \in Amount
    BY DEF StreamUsage, Amount
  <2>3. /\ made[r] # 0 /\ made' = made /\ run' = run
        /\ Answered(r, "ok", StreamUsage(reported)) /\ Record(Key(r), "ok", StreamUsage(reported))
    BY <1>3 DEF StreamAnswers
  <2>4. AnswerTyped /\ RecordTyped
    BY <2>1, <2>2, <2>3, AnswerType, RecordType DEF Results, Amount
  <2>5. FactTyped
    BY <1>3, <2>1, <2>2 DEF StreamAnswers, FactTyped
  <2> QED
    BY <1>3, <2>4, <2>5 DEF StreamAnswers, AnswerTyped, RecordTyped, FactTyped
<1>4. ASSUME NEW reported \in Usages \cup {NoAmount}, CompleteAnswers(r, reported)
      PROVE  TypeInv'
  <2>1. Key(r) \in Keys
    BY <1>4, KeyOf DEF CompleteAnswers
  <2>2. RecordedUsage(reported) \in Nat /\ reported \in Amount
    BY DEF RecordedUsage, Amount
  <2>3. /\ made[r] # 0 /\ made' = made /\ run' = run
        /\ Answered(r, "ok", reported) /\ Record(Key(r), "ok", RecordedUsage(reported))
    BY <1>4 DEF CompleteAnswers
  <2>4. AnswerTyped /\ RecordTyped
    BY <2>1, <2>2, <2>3, AnswerType, RecordType DEF Results
  <2>5. FactTyped
    BY <1>4, <2>1, <2>2 DEF CompleteAnswers, FactTyped
  <2> QED
    BY <1>4, <2>4, <2>5 DEF CompleteAnswers, AnswerTyped, RecordTyped, FactTyped
<1>5. ASSUME NEW error \in StreamErrors, NEW shown \in BOOLEAN, NEW cancelled \in BOOLEAN,
             StreamFails(r, error, shown, cancelled)
      PROVE  TypeInv'
  <2>1. Key(r) \in Keys
    BY <1>5, KeyOf DEF StreamFails
  <2>2. /\ made[r] # 0 /\ made' = made /\ run' = run /\ Record(Key(r), "error", 0)
        /\ \/ pc' = [pc EXCEPT ![r] = "fallback"] /\ call' = call
           \/ Answered(r, error, NoAmount)
    BY <1>5 DEF StreamFails
  <2>3. RecordTyped
    BY <2>1, <2>2, RecordType
  <2>4. AnswerTyped
    <3>1. CASE Answered(r, error, NoAmount)
      BY <2>2, <3>1, AnswerType DEF Results, Amount
    <3>2. CASE pc' = [pc EXCEPT ![r] = "fallback"] /\ call' = call
      BY <2>2, <3>2 DEF AnswerTyped
    <3> QED
      BY <2>2, <3>1, <3>2
  <2>5. FactTyped
    BY <1>5, <2>1 DEF StreamFails, FactTyped
  <2> QED
    BY <1>5, <2>3, <2>4, <2>5 DEF StreamFails, AnswerTyped, RecordTyped, FactTyped
<1>6. ASSUME NEW error \in CompleteErrors, CompleteFails(r, error)
      PROVE  TypeInv'
  <2>1. Key(r) \in Keys
    BY <1>6, KeyOf DEF CompleteFails
  <2>2. /\ made[r] # 0 /\ made' = made /\ run' = run
        /\ Answered(r, error, NoAmount) /\ Record(Key(r), "error", 0)
    BY <1>6 DEF CompleteFails
  <2>3. AnswerTyped /\ RecordTyped
    BY <2>1, <2>2, AnswerType, RecordType DEF Results, Amount, CompleteErrors, StreamErrors
  <2> QED
    BY <1>6, <2>3 DEF CompleteFails, AnswerTyped, RecordTyped
<1>7. CASE SettleCall(r)
  <2>1. PICK D \in SUBSET Dims : CallActuals(call[r]) \in [D -> Amount]
    BY CallActualsType DEF ModelDims, Dims
  <2>2. Settled(Key(r), CallActuals(call[r])) \in Ledger
    BY <1>7, <2>1, KeyOf, LedgerType, SettledRow DEF SettleCall
  <2>3. ledger' \in Ledger
    BY <1>7, <2>2, LedgerType DEF SettleCall, Settle
  <2>4. AfterCall(call[r]) \in {"turn", "loop", "failed"}
    BY DEF AfterCall
  <2> QED
    BY <1>7, <2>3, <2>4 DEF SettleCall, NoCall, Ledger, Row, Amount, Results
<1> QED
  BY <1>1, <1>2, <1>3, <1>4, <1>5, <1>6, <1>7 DEF CallStep

LEMMA ToolType ==
  ASSUME TypeInv, NEW r \in Runs, ToolStep(r)
  PROVE  TypeInv'
<1> USE DEF TypeInv, TypeOK, KeyInHand, ToolResult, runVars, procVars
<1> USE DEF Amount, Results, Threads, KeyThreads, Decisions
<1>1. CASE Propose(r)
  <2>1. made[r] + 1 # 0
    OBVIOUS
  <2>2. made[r] < MaxKeys => made[r] + 1 \in 0 .. MaxKeys
    OBVIOUS
  <2>3. made[r] < MaxKeys => <<r, made[r] + 1>> \in Keys
    BY NextKey
  <2>4. made' \in [Runs -> 0 .. MaxKeys] /\ pc' \in [Runs -> Threads]
    <3>1. CASE made' = [made EXCEPT ![r] = @ + 1] /\ made[r] < MaxKeys
      BY <1>1, <2>2, <3>1 DEF Propose
    <3>2. CASE made' = made
      BY <1>1, <3>2 DEF Propose
    <3> QED
      BY <1>1, <3>1, <3>2 DEF Propose
  <2>5. proposal' \in [Keys -> {"none", "proposed", "executed", "unknown", "exec_failed"}]
    BY <1>1, <2>3 DEF Propose
  <2>6. KeyInHand'
    BY <1>1, <2>1 DEF Propose
  <2>7. ToolResult'
    BY <1>1 DEF Propose
  <2> QED
    BY <1>1, <2>4, <2>5, <2>6, <2>7 DEF Propose
<1>2. CASE LoadGrant(r)
  BY <1>2 DEF LoadGrant
<1>3. CASE RefreshExpiry(r)
  BY <1>3 DEF RefreshExpiry, SetGrant
<1>4. CASE MeasureUsage(r)
  BY <1>4 DEF MeasureUsage
<1>5. CASE ExhaustGrant(r)
  BY <1>5 DEF ExhaustGrant, SetGrant
<1>6. CASE ConsumeTool(r)
  <2> DEFINE amounts == [d \in {"tool_calls"} |-> 1]
  <2>1. {"tool_calls"} \in SUBSET Dims /\ amounts \in [{"tool_calls"} -> Nat]
    BY DEF Dims
  <2>2. ledger' = Reserved(Key(r), amounts) \/ ledger' = ledger
    BY <1>6 DEF ConsumeTool
  <2> HIDE DEF amounts
  <2>5. Key(r) \in Keys
    BY <1>6, KeyOf DEF ConsumeTool
  <2>3. Reserved(Key(r), amounts) \in Ledger
    BY <2>1, <2>5, LedgerType, ReservedRow
  <2>4. ledger' \in Ledger
    BY <2>2, <2>3, LedgerType
  <2> QED
    BY <1>6, <2>4 DEF ConsumeTool, Ledger, Row
<1>7. CASE ExecuteTool(r)
  <2>1. CASE pc' = [pc EXCEPT ![r] = "refuse"] /\ call' = call
    BY <1>7, <2>1 DEF ExecuteTool
  <2>2. ASSUME NEW decision \in Decisions, NEW usage \in {1, NoAmount},
               call' = [call EXCEPT ![r].result = decision, ![r].usage = usage],
               pc' = [pc EXCEPT ![r] = "charge"]
        PROVE  TypeInv'
    <3>1. call'[r].result = decision /\ \A q \in Runs : q # r => call'[q] = call[q]
      BY <2>2
    <3>2. call' \in [Runs -> [site : Sites \cup {"none"}, result : Results, usage : Amount]]
      <4>1. call' = [call EXCEPT ![r] = [@ EXCEPT !.result = decision, !.usage = usage]]
        BY <2>2
      <4>2. call[r] \in [site : Sites \cup {"none"}, result : Results, usage : Amount]
        OBVIOUS
      <4>3. decision \in Results /\ usage \in Amount
        OBVIOUS
      <4>4. [call[r] EXCEPT !.result = decision, !.usage = usage] \in
              [site : Sites \cup {"none"}, result : Results, usage : Amount]
        BY <4>2, <4>3
      <4> QED
        BY <4>1, <4>4
    <3>3. ToolResult'
      BY <2>2, <3>1
    <3>4. KeyInHand'
      BY <1>7, <2>2 DEF ExecuteTool
    <3> QED
      BY <1>7, <2>2, <3>2, <3>3, <3>4 DEF ExecuteTool
  <2> QED
    BY <1>7, <2>1, <2>2 DEF ExecuteTool
<1>8. CASE SettleTool(r)
  <2> DEFINE actuals == [d \in {"tool_calls"} |-> call[r].usage]
  <2>1. {"tool_calls"} \in SUBSET Dims /\ actuals \in [{"tool_calls"} -> Amount]
    BY DEF Dims
  <2>2. ledger' = Settled(Key(r), actuals) \/ ledger' = ledger
    BY <1>8 DEF SettleTool, Settle
  <2> HIDE DEF actuals
  <2>3. Settled(Key(r), actuals) \in Ledger
    BY <1>8, <2>1, KeyOf, LedgerType, SettledRow DEF SettleTool
  <2>4. ledger' \in Ledger
    BY <2>2, <2>3, LedgerType
  <2> QED
    BY <1>8, <2>4 DEF SettleTool, Ledger, Row
<1>9. CASE MarkProposal(r)
  BY <1>9, KeyOf DEF MarkProposal, NoCall
<1> QED
  BY <1>1, <1>2, <1>3, <1>4, <1>5, <1>6, <1>7, <1>8, <1>9 DEF ToolStep

LEMMA RunType ==
  ASSUME TypeInv, NEW r \in Runs, RunStep(r)
  PROVE  TypeInv'
<1> USE DEF TypeInv, TypeOK, KeyInHand, ToolResult, procVars, Threads, KeyThreads, Terminal
<1>1. CASE StartRun(r)
  <2>1. CASE grant' = grant
    <3>1. run' \in [Runs -> {"absent", "running", "paused"} \cup Terminal]
      BY <1>1 DEF StartRun
    <3>2. pc' \in [Runs -> Threads] /\ lived' \subseteq Runs
      BY <1>1 DEF StartRun
    <3>3. KeyInHand'
      BY <1>1 DEF StartRun
    <3>4. ToolResult'
      BY <1>1 DEF StartRun
    <3> QED
      BY <1>1, <2>1, <3>1, <3>2, <3>3, <3>4 DEF StartRun
  <2>2. CASE grant' = "expired" /\ UNCHANGED <<run, pc, lived>>
    BY <1>1, <2>2 DEF StartRun
  <2> QED
    BY <1>1, <2>1, <2>2 DEF StartRun
<1>2. CASE PauseRun(r)
  BY <1>2 DEF PauseRun
<1>3. CASE ResumeRun(r)
  BY <1>3 DEF ResumeRun
<1>4. ASSUME NEW status \in Terminal, EndRun(r, status)
      PROVE  TypeInv'
  BY <1>4 DEF EndRun
<1> QED
  BY <1>1, <1>2, <1>3, <1>4 DEF RunStep

LEMMA ResidueType ==
  ASSUME TypeInv, ReconcileResidues
  PROVE  TypeInv'
<1> USE DEF TypeInv
<1>1. CASE ledger' = ledger
  BY <1>1 DEF ReconcileResidues, TypeOK, KeyInHand, ToolResult, runVars
<1>2. ASSUME NEW kd \in Residues,
             ledger' = [ledger EXCEPT ![kd[1]][kd[2]] = Decided(@, RecordedActual(kd[1], kd[2]))]
      PROVE  TypeInv'
  <2>1. kd[1] \in Keys /\ kd[2] \in Dims
    BY <1>2 DEF Residues
  <2>2. RecordedActual(kd[1], kd[2]) \in Amount
    BY <2>1 DEF RecordedActual, Amount, TypeOK
  <2>3. ledger[kd[1]][kd[2]] \in Row
    BY <2>1, LedgerType DEF Ledger
  <2>4. Decided(ledger[kd[1]][kd[2]], RecordedActual(kd[1], kd[2])) \in Row
    BY <2>2, <2>3, DecidedRow
  <2>5. ledger' \in Ledger
    BY <1>2, <2>1, <2>4, LedgerType DEF Ledger
  <2> QED
    BY <2>5 DEF ReconcileResidues, TypeOK, KeyInHand, ToolResult, runVars, Ledger, Row
<1> QED
  BY <1>1, <1>2 DEF ReconcileResidues

LEMMA ProcessType ==
  ASSUME TypeInv, RevokeGrant \/ Crash \/ Startup
  PROVE  TypeInv'
<1> USE DEF TypeInv, TypeOK, KeyInHand, ToolResult, runVars, procVars
<1>1. CASE RevokeGrant
  BY <1>1 DEF RevokeGrant
<1>2. CASE Crash
  BY <1>2 DEF Crash, NoCall, Amount, Results, Threads, KeyThreads
<1>3. CASE ReconcileInterrupted
  BY <1>3 DEF ReconcileInterrupted, Terminal
<1>4. CASE ReconcileOrphans
  BY <1>4 DEF ReconcileOrphans, Orphans
<1> QED
  BY <1>1, <1>2, <1>3, <1>4, ResidueType DEF Startup

LEMMA NextType == TypeInv /\ [Next]_vars => TypeInv'
<1>1. ASSUME TypeInv, UNCHANGED vars PROVE TypeInv'
  BY <1>1 DEF vars, runVars, procVars, TypeInv, TypeOK, KeyInHand, ToolResult
<1> QED
  BY <1>1, CallType, ToolType, RunType, ProcessType DEF Next

\* Every reachable state is of the declared types; a Run that makes a call or
\* executes a proposal has a key of its own for it (agent/src/lib.rs, tool_exec.rs).
THEOREM GrantTypeCorrect == Spec => []TypeOK
<1>1. TypeInv => TypeOK
  BY DEF TypeInv
<1> QED
  BY <1>1, InitType, NextType, PTL DEF Spec

-----------------------------------------------------------------------------
(* The inductive invariant.                                                 *)

\* A thread works only in a process that is up, for a running Run that this
\* process has executed; a startup has left no Run running; rows belong to Runs
\* that were started.
ProcessInv ==
  /\ \A r \in Runs : pc[r] # "none" => phase = "up" /\ run[r] = "running" /\ r \in lived
  /\ phase \in {"orphans", "ledger"} => \A r \in Runs : run[r] # "running"
  /\ \A k \in Keys, d \in Dims : ledger[k][d].state # "none" => run[k[1]] # "absent"

CallThreads == {"send", "fallback", "settle"}

\* What a call in hand and a key to come have in the store and outside.
CallInv(r) ==
  /\ \A n \in 1 .. MaxKeys : n > made[r] => ~fact[<<r, n>>].answered
  /\ pc[r] \in {"send", "fallback"} =>
       /\ ~fact[Key(r)].answered
       /\ \A d \in ModelDims : ledger[Key(r)][d].state = "reserved"
  /\ pc[r] = "settle" =>
       /\ fact[Key(r)].answered <=> call[r].result = "ok"
       /\ fact[Key(r)].answered /\ fact[Key(r)].reported # NoAmount
            => call[r].usage = fact[Key(r)].reported

\* The rows of a key, its record, and what happened outside.
RowInv(calls, tokens, record, outside) ==
  /\ calls.state = "reserved" => calls.reserved = 1 /\ calls.settled = NoAmount
  /\ outside.answered => Occupied(calls) = 1
  /\ outside.answered /\ outside.reported # NoAmount /\ tokens.state = "settled"
       => tokens.settled = outside.reported
  /\ record.status = "ok" =>
       /\ outside.answered /\ tokens.state # "none"
       /\ outside.reported # NoAmount =>
            /\ record.tokens = outside.reported
            /\ tokens.state = "reconciliation_required"
                 => ~(outside.reported <= tokens.reserved)

KeyInv(k) ==
  RowInv(ledger[k]["model_calls"], ledger[k]["tokens"], recorded[k], fact[k])

LedgerInv == (\A r \in Runs : CallInv(r)) /\ (\A k \in Keys : KeyInv(k))

IInv == TypeInv /\ ProcessInv /\ NoResidue /\ LedgerInv

LEMMA InitInv == Init => IInv
<1> SUFFICES ASSUME Init PROVE IInv
  OBVIOUS
<1>1. ProcessInv /\ NoResidue
  BY DEF Init, ProcessInv, NoResidue, NoRow, Keys
<1>2. LedgerInv
  BY DEF Init, LedgerInv, CallInv, KeyInv, RowInv, NoRow, ModelDims, Dims, Keys
<1> QED
  BY <1>1, <1>2, InitType DEF IInv

-----------------------------------------------------------------------------
(* LedgerInv: steps that touch no call in hand, and steps of one call.       *)

Quiet ==
  /\ recorded' = recorded /\ fact' = fact
  /\ \A k \in Keys, d \in ModelDims : ledger'[k][d] = ledger[k][d]
  /\ \A r \in Runs : made[r] <= made'[r]
  /\ \A r \in Runs : pc'[r] \in CallThreads =>
       pc'[r] = pc[r] /\ call'[r] = call[r] /\ made'[r] = made[r]

LEMMA QuietKeeps ==
  ASSUME TypeInv, TypeInv', LedgerInv, Quiet
  PROVE  LedgerInv'
<1>1. ASSUME NEW r \in Runs PROVE CallInv(r)'
  <2>1. CallInv(r)
    BY DEF LedgerInv
  <2>2. \A n \in 1 .. MaxKeys : n > made'[r] => ~fact'[<<r, n>>].answered
    <3>1. made[r] \in Nat /\ made'[r] \in Nat /\ made[r] <= made'[r]
      BY DEF TypeInv, TypeOK, Quiet
    <3> QED
      BY <2>1, <3>1 DEF CallInv, Quiet
  <2>3. ASSUME pc'[r] \in CallThreads
        PROVE  /\ pc'[r] = pc[r] /\ call'[r] = call[r] /\ Key(r)' = Key(r)
               /\ Key(r) \in Keys
    BY <2>3, KeyOf DEF Quiet, Key, CallThreads, KeyThreads
  <2> QED
    BY <2>1, <2>2, <2>3 DEF CallInv, Quiet, CallThreads
<1>2. ASSUME NEW k \in Keys PROVE KeyInv(k)'
  <2>1. KeyInv(k)
    BY DEF LedgerInv
  <2> QED
    BY <2>1 DEF KeyInv, Quiet, ModelDims
<1> QED
  BY <1>1, <1>2 DEF LedgerInv

LEMMA CallKeeps ==
  ASSUME TypeInv, LedgerInv, NEW r \in Runs, Key(r) \in Keys, made' = made,
         \A q \in Runs : q # r => pc'[q] = pc[q] /\ call'[q] = call[q],
         \A k \in Keys : k # Key(r) =>
           fact'[k] = fact[k] /\ recorded'[k] = recorded[k] /\ ledger'[k] = ledger[k],
         CallInv(r)', KeyInv(Key(r))'
  PROVE  LedgerInv'
<1>1. ASSUME NEW q \in Runs, q # r PROVE CallInv(q)'
  <2>1. CallInv(q)
    BY DEF LedgerInv
  <2>2. \A n \in 1 .. MaxKeys : <<q, n>> \in Keys /\ <<q, n>> # Key(r)
    BY <1>1 DEF Keys, Key
  <2>3. Key(q)' = Key(q) /\ Key(q) # Key(r)
    BY <1>1 DEF Key
  <2>4. pc[q] \in CallThreads => Key(q) \in Keys
    BY KeyOf DEF CallThreads, KeyThreads
  <2> QED
    BY <1>1, <2>1, <2>2, <2>3, <2>4 DEF CallInv, CallThreads
<1>2. ASSUME NEW k \in Keys PROVE KeyInv(k)'
  <2>1. CASE k = Key(r)
    <3>1. Key(r)' = Key(r)
      BY DEF Key
    <3> QED
      BY <2>1, <3>1
  <2>2. CASE k # Key(r)
    <3>1. KeyInv(k)
      BY DEF LedgerInv
    <3> QED
      BY <2>2, <3>1 DEF KeyInv
  <2> QED
    BY <2>1, <2>2
<1> QED
  BY <1>1, <1>2 DEF LedgerInv

\* Nothing is known outside of a key that is still to come.
LEMMA KeysToCome ==
  ASSUME TypeInv, LedgerInv, NEW r \in Runs, made' = made,
         \A k \in Keys : k # Key(r) => fact'[k] = fact[k]
  PROVE  \A n \in 1 .. MaxKeys : n > made'[r] => ~fact'[<<r, n>>].answered
<1>1. CallInv(r) /\ made[r] \in Nat
  BY DEF LedgerInv, TypeInv, TypeOK
<1>2. \A n \in 1 .. MaxKeys : n > made[r] => <<r, n>> \in Keys /\ <<r, n>> # Key(r)
  BY <1>1 DEF Keys, Key
<1> QED
  BY <1>1, <1>2 DEF CallInv

LEMMA AnsweredCall ==
  ASSUME TypeInv, NEW r \in Runs, NEW result, NEW usage, Answered(r, result, usage)
  PROVE  /\ pc'[r] = "settle" /\ call'[r].result = result /\ call'[r].usage = usage
         /\ \A q \in Runs : q # r => pc'[q] = pc[q] /\ call'[q] = call[q]
  BY DEF Answered, TypeInv, TypeOK

LEMMA RecordedCall ==
  ASSUME TypeInv, NEW k \in Keys, NEW status, NEW tokens, Record(k, status, tokens)
  PROVE  /\ \A j \in Keys : j # k => recorded'[j] = recorded[j]
         /\ \/ recorded'[k] = recorded[k]
            \/ recorded'[k] = [status |-> status, tokens |-> tokens]
  BY DEF Record, TypeInv, TypeOK

\* An answer comes, with or without its usage.
LEMMA AnswerKeeps ==
  ASSUME TypeInv, LedgerInv, NEW r \in Runs, pc[r] \in {"send", "fallback"},
         NEW tokens \in Nat, NEW usage,
         fact'[Key(r)].answered,
         fact'[Key(r)].reported # NoAmount =>
           tokens = fact'[Key(r)].reported /\ usage = fact'[Key(r)].reported,
         \A k \in Keys : k # Key(r) => fact'[k] = fact[k],
         Record(Key(r), "ok", tokens), Answered(r, "ok", usage),
         made' = made, ledger' = ledger
  PROVE  LedgerInv'
<1>1. Key(r) \in Keys /\ Key(r)' = Key(r)
  BY KeyOf DEF KeyThreads, Key
<1>2. CallInv(r) /\ KeyInv(Key(r))
  BY <1>1 DEF LedgerInv
<1>3. \A d \in ModelDims : ledger[Key(r)][d].state = "reserved"
  BY <1>2 DEF CallInv
<1>4. /\ pc'[r] = "settle" /\ call'[r].result = "ok" /\ call'[r].usage = usage
      /\ \A q \in Runs : q # r => pc'[q] = pc[q] /\ call'[q] = call[q]
  BY AnsweredCall
<1>5. /\ \A k \in Keys : k # Key(r) => recorded'[k] = recorded[k]
      /\ \/ recorded'[Key(r)] = recorded[Key(r)]
         \/ recorded'[Key(r)] = [status |-> "ok", tokens |-> tokens]
  BY <1>1, RecordedCall
<1>6. CallInv(r)'
  BY <1>1, <1>4, KeysToCome DEF CallInv
<1>7. KeyInv(Key(r))'
  <2>1. /\ ledger[Key(r)]["model_calls"].state = "reserved"
        /\ ledger[Key(r)]["tokens"].state = "reserved"
    BY <1>3 DEF ModelDims
  <2>2. recorded[Key(r)].status # "ok"
    BY <1>2 DEF CallInv, KeyInv, RowInv
  <2>3. ledger[Key(r)]["model_calls"].reserved = 1 /\ ledger[Key(r)]["model_calls"].settled = NoAmount
    BY <1>2, <2>1 DEF KeyInv, RowInv
  <2> QED
    BY <1>1, <1>5, <2>1, <2>2, <2>3 DEF KeyInv, RowInv, Occupied
<1> QED
  BY <1>1, <1>4, <1>5, <1>6, <1>7, CallKeeps

\* A call fails, or its stream does and the plain call follows.
LEMMA FailureKeeps ==
  ASSUME TypeInv, LedgerInv, NEW r \in Runs, pc[r] \in {"send", "fallback"},
         fact'[Key(r)].answered = fact[Key(r)].answered,
         fact'[Key(r)].reported = fact[Key(r)].reported,
         \A k \in Keys : k # Key(r) => fact'[k] = fact[k],
         recorded' = recorded \/ Record(Key(r), "error", 0),
         \/ pc' = [pc EXCEPT ![r] = "fallback"] /\ call' = call
         \/ \E result \in Results \ {"ok"} : Answered(r, result, NoAmount),
         made' = made, ledger' = ledger
  PROVE  LedgerInv'
<1>1. Key(r) \in Keys /\ Key(r)' = Key(r)
  BY KeyOf DEF KeyThreads, Key
<1>2. CallInv(r) /\ KeyInv(Key(r))
  BY <1>1 DEF LedgerInv
<1>3. /\ \/ pc'[r] = "fallback"
         \/ pc'[r] = "settle" /\ call'[r].result # "ok"
      /\ \A q \in Runs : q # r => pc'[q] = pc[q] /\ call'[q] = call[q]
  <2>1. CASE pc' = [pc EXCEPT ![r] = "fallback"] /\ call' = call
    BY <2>1 DEF TypeInv, TypeOK
  <2>2. ASSUME NEW result \in Results \ {"ok"}, Answered(r, result, NoAmount)
        PROVE  /\ pc'[r] = "settle" /\ call'[r].result # "ok"
               /\ \A q \in Runs : q # r => pc'[q] = pc[q] /\ call'[q] = call[q]
    BY <2>2, AnsweredCall
  <2> QED
    BY <2>1, <2>2
<1>4. /\ \A k \in Keys : k # Key(r) => recorded'[k] = recorded[k]
      /\ \/ recorded'[Key(r)] = recorded[Key(r)]
         \/ recorded'[Key(r)] = [status |-> "error", tokens |-> 0]
  BY <1>1, RecordedCall
<1>5. ~fact[Key(r)].answered
  BY <1>2 DEF CallInv
<1>6. CallInv(r)'
  BY <1>1, <1>2, <1>3, <1>5, KeysToCome DEF CallInv
<1>7. KeyInv(Key(r))'
  BY <1>1, <1>2, <1>4, <1>5 DEF KeyInv, RowInv
<1> QED
  BY <1>1, <1>3, <1>4, <1>6, <1>7, CallKeeps

LEMMA ReserveKeeps ==
  ASSUME TypeInv, LedgerInv, NEW r \in Runs, NEW site \in Sites, NEW estimate \in Estimates,
         ReserveCall(r, site, estimate)
  PROVE  LedgerInv'
<1> DEFINE k == <<r, made[r] + 1>>
<1>1. k \in Keys /\ made[r] \in Nat /\ made'[r] = made[r] + 1 /\ Key(r)' = k
  BY NextKey DEF ReserveCall, TypeInv, TypeOK, Key
<1>2. CallInv(r) /\ KeyInv(k)
  BY <1>1 DEF LedgerInv
<1>3. ~fact[k].answered
  <2>1. made[r] + 1 \in 1 .. MaxKeys /\ made[r] + 1 > made[r]
    BY <1>1 DEF ReserveCall, TypeInv, TypeOK
  <2> QED
    BY <1>2, <2>1 DEF CallInv
<1>4. /\ fact' = fact /\ recorded' = recorded
      /\ \A q \in Runs : q # r => pc'[q] = pc[q] /\ call'[q] = call[q] /\ made'[q] = made[q]
  BY DEF ReserveCall, TypeInv, TypeOK
<1>5. \/ pc'[r] = "failed" /\ ledger' = ledger
      \/ pc'[r] = "send" /\ ledger' = Reserved(k, Amounts(estimate))
  BY DEF ReserveCall, TypeInv, TypeOK
<1>6. Amounts(estimate) \in [ModelDims -> Nat] /\ ModelDims \in SUBSET Dims
      /\ Amounts(estimate)["model_calls"] = 1
  BY DEF Amounts, ModelDims, Dims
<1>7. /\ \A j \in Keys : j # k => \A d \in ModelDims : ledger'[j][d] = ledger[j][d]
      /\ pc'[r] = "send" => \A d \in ModelDims :
           /\ ledger'[k][d].state = "reserved"
           /\ ledger'[k][d].reserved = Amounts(estimate)[d]
           /\ ledger'[k][d].settled = NoAmount
  <2>1. CASE pc'[r] = "failed" /\ ledger' = ledger
    BY <2>1
  <2>2. CASE pc'[r] = "send" /\ ledger' = Reserved(k, Amounts(estimate))
    <3>1. ledger \in Ledger
      BY LedgerType DEF TypeInv
    <3> DEFINE amounts == Amounts(estimate)
    <3>2. k \in Keys /\ ModelDims \in SUBSET Dims /\ amounts \in [ModelDims -> Nat]
      BY <1>1, <1>6
    <3> HIDE DEF amounts
    <3>3. /\ \A d \in ModelDims :
               /\ Reserved(k, amounts)[k][d].state = "reserved"
               /\ Reserved(k, amounts)[k][d].reserved = amounts[d]
               /\ Reserved(k, amounts)[k][d].settled = NoAmount
          /\ \A j \in Keys, d \in Dims :
               j # k \/ d \notin ModelDims => Reserved(k, amounts)[j][d] = ledger[j][d]
      <4> HIDE DEF k
      <4> QED
        BY ONLY <3>1, <3>2, ReservedRow
    <3> QED
      BY <2>2, <3>2, <3>3 DEF amounts
  <2> QED
    BY <1>5, <2>1, <2>2
<1> HIDE DEF k
<1>8. ASSUME NEW q \in Runs PROVE CallInv(q)'
  <2>1. CallInv(r)'
    <3>1. \A n \in 1 .. MaxKeys : n > made'[r] => ~fact'[<<r, n>>].answered
      BY <1>1, <1>2, <1>4 DEF CallInv
    <3>2. pc'[r] # "settle" /\ pc'[r] # "fallback"
      BY <1>5
    <3>3. pc'[r] = "send" =>
            ~fact'[Key(r)'].answered /\ \A d \in ModelDims : ledger'[Key(r)'][d].state = "reserved"
      <4>1. ~fact'[k].answered
        BY <1>3, <1>4
      <4>2. pc'[r] = "send" => \A d \in ModelDims : ledger'[k][d].state = "reserved"
        BY <1>7
      <4> QED
        BY <1>1, <4>1, <4>2, Zenon
    <3> QED
      BY <3>1, <3>2, <3>3 DEF CallInv
  <2>2. CASE q # r
    <3>1. CallInv(q) /\ Key(q)' = Key(q) /\ Key(q) # k
      BY <1>4, <2>2 DEF LedgerInv, Key, k
    <3>2. pc[q] \in CallThreads => Key(q) \in Keys
      BY KeyOf DEF CallThreads, KeyThreads
    <3> QED
      BY <1>4, <1>7, <2>2, <3>1, <3>2 DEF CallInv, CallThreads
  <2> QED
    BY <2>1, <2>2
<1>9. ASSUME NEW j \in Keys PROVE KeyInv(j)'
  <2>1. KeyInv(j)
    BY DEF LedgerInv
  <2>2. CASE \A d \in ModelDims : ledger'[j][d] = ledger[j][d]
    BY <1>4, <2>1, <2>2 DEF KeyInv, ModelDims
  <2>3. CASE j = k /\ pc'[r] = "send"
    <3>1. /\ ledger'[k]["model_calls"].reserved = 1 /\ ledger'[k]["model_calls"].settled = NoAmount
          /\ ledger'[k]["tokens"].state = "reserved"
      BY <1>6, <1>7, <2>3 DEF ModelDims
    <3> QED
      BY <1>2, <1>3, <1>4, <2>3, <3>1 DEF KeyInv, RowInv
  <2> QED
    BY <1>5, <1>7, <2>2, <2>3
<1> QED
  BY <1>8, <1>9 DEF LedgerInv

\* The call is settled: with an answer as one call and its usage.
LEMMA SettleKeeps ==
  ASSUME TypeInv, TypeInv', LedgerInv, NEW r \in Runs, SettleCall(r)
  PROVE  LedgerInv'
<1> DEFINE k == Key(r)
           actuals == CallActuals(call[r])
           calls == ledger[k]["model_calls"]
           tokens == ledger[k]["tokens"]
<1>1. k \in Keys /\ k' = k
  BY KeyOf DEF KeyThreads, Key, SettleCall
<1>2. pc[r] = "settle" /\ CallInv(r) /\ KeyInv(k)
  BY <1>1 DEF SettleCall, LedgerInv
<1>3. PICK D \in SUBSET ModelDims :
        /\ actuals \in [D -> Amount]
        /\ call[r].result = "ok" =>
             D = ModelDims /\ actuals["model_calls"] = 1 /\ actuals["tokens"] = call[r].usage
  BY CallActualsType
<1>4. AfterCall(call[r]) \notin CallThreads
  BY DEF AfterCall, CallThreads
<1>5. /\ pc'[r] \notin CallThreads
      /\ \A q \in Runs : q # r => pc'[q] = pc[q] /\ call'[q] = call[q]
      /\ made' = made /\ fact' = fact /\ recorded' = recorded
      /\ ledger' = ledger \/ ledger' = Settled(k, actuals)
  BY <1>4 DEF SettleCall, Settle, TypeInv, TypeOK
<1>6. CASE ledger' = ledger
  <2>1. Quiet
    BY <1>5, <1>6 DEF Quiet, TypeInv, TypeOK
  <2> QED
    BY <2>1, QuietKeeps
<1>7. CASE ledger' = Settled(k, actuals)
  <2>1. ledger \in Ledger /\ ledger' \in Ledger
    BY LedgerType, LedgerType DEF TypeInv, TypeOK, Ledger, Row
  <2>2. D \in SUBSET Dims
    BY <1>3 DEF ModelDims, Dims
  <2>3. /\ \A d \in D : ledger[k][d].state = "reserved" =>
             ledger'[k][d] = Decided(ledger[k][d], actuals[d])
        /\ \A j \in Keys, d \in Dims :
             j # k \/ d \notin D \/ ledger[k][d].state # "reserved" =>
               ledger'[j][d] = ledger[j][d]
    <3>1. actuals \in [D -> Amount] /\ k \in Keys
      BY <1>1, <1>3
    <3> HIDE DEF k, actuals
    <3> QED
      BY ONLY <1>7, <2>1, <2>2, <3>1, SettledRow
  <2>4. \A j \in Keys : j # k => ledger'[j] = ledger[j]
    <3> HIDE DEF k
    <3> QED
      BY <2>1, <2>3 DEF Ledger
  <2>5. calls \in Row /\ tokens \in Row
    BY <1>1, <2>1 DEF Ledger, Dims
  <2>6. CallInv(r)'
    BY <1>5, KeysToCome DEF CallInv, CallThreads
  <2>7. ~fact[k].answered => KeyInv(k)'
    <3>1. \/ ledger'[k]["model_calls"] = calls
          \/ ledger'[k]["model_calls"].state # "reserved"
      <4>1. "model_calls" \in D /\ calls.state = "reserved" =>
              /\ ledger'[k]["model_calls"] = Decided(calls, actuals["model_calls"])
              /\ actuals["model_calls"] \in Amount
        BY <1>3, <2>3
      <4>2. ~("model_calls" \in D /\ calls.state = "reserved") =>
              ledger'[k]["model_calls"] = calls
        BY <1>1, <2>3 DEF Dims
      <4> QED
        BY <2>5, <4>1, <4>2, DecidedRow
    <3> QED
      BY <1>1, <1>2, <1>5, <3>1 DEF KeyInv, RowInv
  <2>8. ASSUME fact[k].answered PROVE KeyInv(k)'
    <3>1. call[r].result = "ok" /\ D = ModelDims
      BY <1>2, <1>3, <2>8 DEF CallInv
    <3>2. calls.state = "reserved" => ledger'[k]["model_calls"] = Decided(calls, 1)
      BY <1>3, <2>3, <3>1 DEF ModelDims
    <3>3. calls.state # "reserved" => ledger'[k]["model_calls"] = calls
      BY <1>1, <2>3 DEF Dims
    <3>4. tokens.state = "reserved" =>
            ledger'[k]["tokens"] = Decided(tokens, call[r].usage) /\ call[r].usage \in Amount
      BY <1>3, <2>3, <3>1 DEF ModelDims, TypeInv, TypeOK
    <3>5. tokens.state # "reserved" => ledger'[k]["tokens"] = tokens
      BY <1>1, <2>3 DEF Dims
    <3>6. /\ ledger'[k]["model_calls"].state = "reserved" =>
               ledger'[k]["model_calls"].reserved = 1 /\ ledger'[k]["model_calls"].settled = NoAmount
          /\ Occupied(ledger'[k]["model_calls"]) = 1
      <4>1. 1 \in Amount /\ 1 # NoAmount
        BY DEF Amount
      <4>2. CASE calls.state = "reserved"
        <5>1. calls.reserved = 1 /\ ledger'[k]["model_calls"] = Decided(calls, 1)
          BY <1>2, <3>2, <4>2 DEF KeyInv, RowInv
        <5>2. ledger'[k]["model_calls"].state = "settled" /\ ledger'[k]["model_calls"].settled = 1
          BY <2>5, <4>1, <5>1, DecidedRow
        <5> QED
          BY <4>1, <5>2 DEF Occupied
      <4>3. CASE calls.state # "reserved"
        BY <1>2, <2>8, <3>3, <4>3 DEF KeyInv, RowInv
      <4> QED
        BY <4>2, <4>3
    <3>7. fact[k].reported # NoAmount => call[r].usage = fact[k].reported
      BY <1>2, <2>8 DEF CallInv
    <3>8. CASE tokens.state = "reserved"
      <4>1. /\ ledger'[k]["tokens"].state \in {"settled", "reconciliation_required"}
            /\ fact[k].reported # NoAmount =>
                 /\ ledger'[k]["tokens"].state = "settled"
                      => ledger'[k]["tokens"].settled = fact[k].reported
                 /\ ledger'[k]["tokens"].state = "reconciliation_required"
                      => ~(fact[k].reported <= ledger'[k]["tokens"].reserved)
        BY <2>5, <3>4, <3>7, <3>8, DecidedRow
      <4> QED
        BY <1>1, <1>2, <1>5, <3>6, <4>1 DEF KeyInv, RowInv
    <3>9. CASE tokens.state # "reserved"
      BY <1>1, <1>2, <1>5, <3>5, <3>6, <3>9 DEF KeyInv, RowInv
    <3> QED
      BY <3>8, <3>9
  <2> QED
    BY <1>1, <1>5, <2>4, <2>6, <2>7, <2>8, CallKeeps
<1> QED
  BY <1>5, <1>6, <1>7

\* What a startup settles from the record of a call is what was reported.
LEMMA ResidueKeeps ==
  ASSUME TypeInv, TypeInv', ProcessInv, LedgerInv, ReconcileResidues
  PROVE  LedgerInv'
<1>1. /\ \A r \in Runs : pc'[r] = pc[r] /\ pc[r] = "none"
      /\ pc' = pc /\ call' = call /\ made' = made /\ recorded' = recorded /\ fact' = fact
  BY DEF ReconcileResidues, ProcessInv, runVars
<1>2. CASE ledger' = ledger
  <2>1. Quiet
    BY <1>1, <1>2 DEF Quiet, TypeInv, TypeOK
  <2> QED
    BY <2>1, QuietKeeps
<1>3. ASSUME NEW kd \in Residues,
             ledger' = [ledger EXCEPT ![kd[1]][kd[2]] = Decided(@, RecordedActual(kd[1], kd[2]))]
      PROVE  LedgerInv'
  <2> DEFINE k == kd[1]
             d == kd[2]
             actual == RecordedActual(k, d)
             row == Decided(ledger[k][d], actual)
  <2>1. k \in Keys /\ d \in Dims /\ ledger[k][d].state = "reserved"
    BY <1>3 DEF Residues
  <2>2. ledger \in Ledger
    BY LedgerType DEF TypeInv
  <2>3. actual \in Amount
    BY <2>1 DEF RecordedActual, Amount, TypeInv, TypeOK
  <2>4. ledger[k][d] \in Row
    BY <2>1, <2>2 DEF Ledger
  <2>5. /\ ledger'[k][d] = row
        /\ \A j \in Keys, e \in Dims : j # k \/ e # d => ledger'[j][e] = ledger[j][e]
    <3>1. ledger' = [ledger EXCEPT ![k][d] = row]
      BY <1>3
    <3> HIDE DEF k, d, row
    <3> QED
      BY <2>1, <2>2, <3>1 DEF Ledger
  <2>6. /\ row.reserved = ledger[k][d].reserved
        /\ row.state \in {"settled", "reconciliation_required"}
        /\ row.state = "settled" =>
             actual \in Nat /\ actual <= ledger[k][d].reserved /\ row.settled = actual
        /\ row.state # "settled" =>
             /\ row.settled = ledger[k][d].settled
             /\ actual # NoAmount => ~(actual <= ledger[k][d].reserved)
    BY <2>3, <2>4, DecidedRow
  <2>7. ASSUME NEW j \in Keys PROVE KeyInv(j)'
    <3>1. KeyInv(j)
      BY DEF LedgerInv
    <3>2. CASE j # k \/ d = "tool_calls"
      <4>1. ledger'[j]["model_calls"] = ledger[j]["model_calls"]
            /\ ledger'[j]["tokens"] = ledger[j]["tokens"]
        BY <2>5, <3>2 DEF Dims
      <4> QED
        BY <1>1, <3>1, <4>1 DEF KeyInv
    <3>3. CASE j = k /\ d = "model_calls"
      <4>1. actual # NoAmount => actual = 1
        BY <3>3 DEF RecordedActual
      <4>2. ledger'[k]["tokens"] = ledger[k]["tokens"] /\ ledger'[k]["model_calls"] = row
        BY <2>1, <2>5, <3>3 DEF Dims
      <4>3. ledger[k]["model_calls"].reserved = 1 /\ ledger[k]["model_calls"].settled = NoAmount
        BY <2>1, <3>1, <3>3 DEF KeyInv, RowInv
      <4>4. 1 # NoAmount
        OBVIOUS
      <4>5. Occupied(row) = 1 /\ row.state # "reserved"
        BY <2>6, <3>3, <4>1, <4>3, <4>4 DEF Occupied
      <4> QED
        BY <1>1, <3>1, <3>3, <4>2, <4>5 DEF KeyInv, RowInv
    <3>4. CASE j = k /\ d = "tokens"
      <4>1. /\ recorded[k].status = "ok" => actual = recorded[k].tokens
            /\ recorded[k].status # "ok" => actual = NoAmount
        BY <3>4 DEF RecordedActual
      <4>2. ledger'[k]["model_calls"] = ledger[k]["model_calls"] /\ ledger'[k]["tokens"] = row
        BY <2>1, <2>5, <3>4 DEF Dims
      <4>3. row.state = "settled" => recorded[k].status = "ok" /\ row.settled = recorded[k].tokens
        BY <2>6, <4>1
      <4>4. recorded[k].status = "ok" /\ row.state # "settled" =>
              ~(recorded[k].tokens <= row.reserved)
        BY <2>1, <2>6, <4>1 DEF TypeInv, TypeOK
      <4> QED
        BY <1>1, <2>6, <3>1, <3>4, <4>2, <4>3, <4>4 DEF KeyInv, RowInv
    <3> QED
      BY <2>1, <3>2, <3>3, <3>4 DEF Dims
  <2>8. ASSUME NEW r \in Runs PROVE CallInv(r)'
    <3>1. CallInv(r)
      BY DEF LedgerInv
    <3> QED
      BY <1>1, <3>1 DEF CallInv
  <2> QED
    BY <2>7, <2>8 DEF LedgerInv
<1> QED
  BY <1>2, <1>3 DEF ReconcileResidues

LEMMA CallStepKeeps ==
  ASSUME TypeInv, TypeInv', LedgerInv, NEW r \in Runs, CallStep(r)
  PROVE  LedgerInv'
<1>0. pc[r] \in KeyThreads => Key(r) \in Keys
  BY KeyOf
<1>1. ASSUME NEW site \in Sites, NEW estimate \in Estimates, ReserveCall(r, site, estimate)
      PROVE  LedgerInv'
  BY <1>1, ReserveKeeps
<1>2. CASE OverBudget(r)
  <2>1. "budget" \in Results \ {"ok"} /\ Answered(r, "budget", NoAmount)
    BY <1>2 DEF OverBudget, Results
  <2> QED
    BY <1>2, <2>1, FailureKeeps DEF OverBudget
<1>3. ASSUME NEW reported \in Usages \cup {NoAmount}, StreamAnswers(r, reported)
      PROVE  LedgerInv'
  <2>1. /\ fact'[Key(r)].answered /\ fact'[Key(r)].reported = reported
        /\ \A k \in Keys : k # Key(r) => fact'[k] = fact[k]
    BY <1>0, <1>3 DEF StreamAnswers, KeyThreads, TypeInv, TypeOK
  <2>2. StreamUsage(reported) \in Nat /\ (reported # NoAmount => StreamUsage(reported) = reported)
    BY DEF StreamUsage
  <2> QED
    BY <1>3, <2>1, <2>2, AnswerKeeps DEF StreamAnswers
<1>4. ASSUME NEW reported \in Usages \cup {NoAmount}, CompleteAnswers(r, reported)
      PROVE  LedgerInv'
  <2>1. /\ fact'[Key(r)].answered /\ fact'[Key(r)].reported = reported
        /\ \A k \in Keys : k # Key(r) => fact'[k] = fact[k]
    BY <1>0, <1>4 DEF CompleteAnswers, KeyThreads, TypeInv, TypeOK
  <2>2. /\ RecordedUsage(reported) \in Nat
        /\ reported # NoAmount => RecordedUsage(reported) = reported
    BY DEF RecordedUsage
  <2> QED
    BY <1>4, <2>1, <2>2, AnswerKeeps DEF CompleteAnswers
<1>5. ASSUME NEW error \in StreamErrors, NEW shown \in BOOLEAN, NEW cancelled \in BOOLEAN,
             StreamFails(r, error, shown, cancelled)
      PROVE  LedgerInv'
  <2>1. /\ fact'[Key(r)].answered = fact[Key(r)].answered
        /\ fact'[Key(r)].reported = fact[Key(r)].reported
        /\ \A k \in Keys : k # Key(r) => fact'[k] = fact[k]
    BY <1>0, <1>5 DEF StreamFails, KeyThreads, TypeInv, TypeOK
  <2>2. error \in Results \ {"ok"}
    BY DEF Results, StreamErrors
  <2>3. \/ pc' = [pc EXCEPT ![r] = "fallback"] /\ call' = call
        \/ Answered(r, error, NoAmount)
    BY <1>5 DEF StreamFails
  <2> QED
    BY <1>5, <2>1, <2>2, <2>3, FailureKeeps DEF StreamFails
<1>6. ASSUME NEW error \in CompleteErrors, CompleteFails(r, error)
      PROVE  LedgerInv'
  <2>1. error \in Results \ {"ok"} /\ Answered(r, error, NoAmount)
    BY <1>6 DEF CompleteFails, Results, StreamErrors, CompleteErrors
  <2> QED
    BY <1>6, <2>1, FailureKeeps DEF CompleteFails
<1>7. CASE SettleCall(r)
  BY <1>7, SettleKeeps
<1> QED
  BY <1>1, <1>2, <1>3, <1>4, <1>5, <1>6, <1>7 DEF CallStep

\* A tool call touches no row of a model call.
LEMMA ToolRowsKept ==
  ASSUME TypeInv, NEW r \in Runs, ConsumeTool(r) \/ SettleTool(r)
  PROVE  \A k \in Keys, d \in Dims :
           k # Key(r) \/ d # "tool_calls" => ledger'[k][d] = ledger[k][d]
<1>1. Key(r) \in Keys /\ ledger \in Ledger /\ {"tool_calls"} \in SUBSET Dims
  BY KeyOf, LedgerType DEF ConsumeTool, SettleTool, KeyThreads, TypeInv, Dims
<1>2. CASE ConsumeTool(r)
  <2> DEFINE amounts == [d \in {"tool_calls"} |-> 1]
  <2>1. amounts \in [{"tool_calls"} -> Nat] /\ (ledger' = ledger \/ ledger' = Reserved(Key(r), amounts))
    BY <1>2 DEF ConsumeTool
  <2> HIDE DEF amounts
  <2>2. \A k \in Keys, d \in Dims : k # Key(r) \/ d \notin {"tool_calls"} =>
          Reserved(Key(r), amounts)[k][d] = ledger[k][d]
    BY ONLY <1>1, <2>1, ReservedRow
  <2> QED
    BY <2>1, <2>2
<1>3. CASE SettleTool(r)
  <2> DEFINE actuals == [d \in {"tool_calls"} |-> call[r].usage]
  <2>1. actuals \in [{"tool_calls"} -> Amount] /\ (ledger' = ledger \/ ledger' = Settled(Key(r), actuals))
    BY <1>3 DEF SettleTool, Settle, TypeInv, TypeOK
  <2> HIDE DEF actuals
  <2> QED
    BY <1>1, <2>1, SettledRow
<1> QED
  BY <1>2, <1>3

LEMMA ToolQuiet ==
  ASSUME TypeInv, TypeInv', NEW r \in Runs, ToolStep(r)
  PROVE  Quiet
<1> USE DEF TypeInv, TypeOK, CallThreads
<1>1. CASE Propose(r)
  <2>1. \A q \in Runs : made[q] <= made'[q] /\ (q # r => made'[q] = made[q])
    <3>1. CASE made' = [made EXCEPT ![r] = @ + 1]
      BY <3>1
    <3> QED
      BY <1>1, <3>1 DEF Propose
  <2>2. pc'[r] \in {"validate", "loop"} /\ \A q \in Runs : q # r => pc'[q] = pc[q]
    BY <1>1 DEF Propose
  <2> QED
    BY <1>1, <2>1, <2>2 DEF Propose, Quiet
<1>2. CASE ConsumeTool(r) \/ SettleTool(r)
  <2>1. \A k \in Keys, d \in ModelDims : ledger'[k][d] = ledger[k][d]
    BY <1>2, ToolRowsKept DEF ModelDims, Dims
  <2>2. CASE ConsumeTool(r)
    BY <2>1, <2>2 DEF ConsumeTool, Quiet
  <2>3. CASE SettleTool(r)
    BY <2>1, <2>3 DEF SettleTool, Quiet
  <2> QED
    BY <1>2, <2>2, <2>3
<1>3. CASE LoadGrant(r) \/ RefreshExpiry(r) \/ MeasureUsage(r) \/ ExhaustGrant(r)
  BY <1>3 DEF LoadGrant, RefreshExpiry, MeasureUsage, ExhaustGrant, Quiet
<1>4. CASE ExecuteTool(r)
  <2>1. pc'[r] \in {"refuse", "charge"} /\ \A q \in Runs : q # r => pc'[q] = pc[q] /\ call'[q] = call[q]
    BY <1>4 DEF ExecuteTool
  <2> QED
    BY <1>4, <2>1 DEF ExecuteTool, Quiet
<1>5. CASE MarkProposal(r)
  BY <1>5 DEF MarkProposal, Quiet
<1> QED
  BY <1>1, <1>2, <1>3, <1>4, <1>5 DEF ToolStep

LEMMA RunQuiet ==
  ASSUME TypeInv, NEW r \in Runs, RunStep(r)
  PROVE  Quiet
<1> USE DEF TypeInv, TypeOK, CallThreads, Quiet
<1>1. CASE StartRun(r)
  BY <1>1 DEF StartRun
<1>2. CASE PauseRun(r)
  BY <1>2 DEF PauseRun
<1>3. CASE ResumeRun(r)
  BY <1>3 DEF ResumeRun
<1>4. ASSUME NEW status \in Terminal, EndRun(r, status)
      PROVE  Quiet
  BY <1>4 DEF EndRun
<1> QED
  BY <1>1, <1>2, <1>3, <1>4 DEF RunStep

LEMMA ProcessQuiet ==
  ASSUME TypeInv, RevokeGrant \/ Crash \/ ReconcileInterrupted \/ ReconcileOrphans
  PROVE  Quiet
  BY DEF RevokeGrant, Crash, ReconcileInterrupted, ReconcileOrphans, runVars, procVars,
         TypeInv, TypeOK, CallThreads, Quiet

LEMMA NextLedger ==
  ASSUME TypeInv, ProcessInv, LedgerInv, [Next]_vars
  PROVE  LedgerInv'
<1>1. TypeInv'
  BY NextType
<1>2. CASE UNCHANGED vars
  BY <1>2 DEF vars, runVars, LedgerInv, CallInv, KeyInv, Key
<1>3. CASE Next
  BY <1>1, <1>3, CallStepKeeps, ToolQuiet, RunQuiet, ProcessQuiet, QuietKeeps, ResidueKeeps
     DEF Next, Startup
<1> QED
  BY <1>2, <1>3

-----------------------------------------------------------------------------
(* ProcessInv and NoResidue.                                                *)

\* A step of a thread: it changes rows of its own Run only.
ThreadStep(r) ==
  /\ pc[r] # "none" /\ run' = run /\ procVars' = procVars
  /\ \A q \in Runs : q # r => pc'[q] = pc[q]
  /\ \A k \in Keys, d \in Dims : k[1] # r => ledger'[k][d] = ledger[k][d]

LEMMA ThreadKeeps ==
  ASSUME TypeInv, ProcessInv, NoResidue, NEW r \in Runs, ThreadStep(r)
  PROVE  ProcessInv' /\ NoResidue'
<1>1. phase = "up" /\ run[r] = "running" /\ r \in lived
  BY DEF ProcessInv, ThreadStep
<1>2. phase' = phase /\ lived' = lived /\ run' = run
  BY DEF ThreadStep, procVars
<1>3. ProcessInv'
  BY <1>1, <1>2 DEF ProcessInv, ThreadStep
<1>4. NoResidue'
  BY <1>1, <1>2 DEF NoResidue, ThreadStep
<1> QED
  BY <1>3, <1>4

LEMMA KeyRun == \A r \in Runs : Key(r)[1] = r
  BY DEF Key

LEMMA CallThread ==
  ASSUME TypeInv, NEW r \in Runs, CallStep(r)
  PROVE  ThreadStep(r)
<1> USE DEF TypeInv, TypeOK, ThreadStep
<1>1. ASSUME NEW site \in Sites, NEW estimate \in Estimates, ReserveCall(r, site, estimate)
      PROVE  ThreadStep(r)
  <2> DEFINE k == <<r, made[r] + 1>>
             amounts == Amounts(estimate)
  <2>1. k \in Keys /\ k[1] = r /\ ledger \in Ledger
    BY <1>1, NextKey, LedgerType DEF ReserveCall
  <2>2. ModelDims \in SUBSET Dims /\ amounts \in [ModelDims -> Nat]
    BY DEF Amounts, ModelDims, Dims
  <2>3. ledger' = ledger \/ ledger' = Reserved(k, amounts)
    BY <1>1 DEF ReserveCall
  <2> HIDE DEF k, amounts
  <2>4. \A j \in Keys, d \in Dims : j[1] # r => ledger'[j][d] = ledger[j][d]
    BY ONLY <2>1, <2>2, <2>3, ReservedRow
  <2> QED
    BY <1>1, <2>4 DEF ReserveCall
<1>2. CASE OverBudget(r)
  BY <1>2 DEF OverBudget, Answered
<1>3. ASSUME NEW reported \in Usages \cup {NoAmount},
             StreamAnswers(r, reported) \/ CompleteAnswers(r, reported)
      PROVE  ThreadStep(r)
  BY <1>3 DEF StreamAnswers, CompleteAnswers, Answered
<1>4. ASSUME NEW error \in StreamErrors, NEW shown \in BOOLEAN, NEW cancelled \in BOOLEAN,
             StreamFails(r, error, shown, cancelled)
      PROVE  ThreadStep(r)
  BY <1>4 DEF StreamFails, Answered
<1>5. ASSUME NEW error \in CompleteErrors, CompleteFails(r, error)
      PROVE  ThreadStep(r)
  BY <1>5 DEF CompleteFails, Answered
<1>6. CASE SettleCall(r)
  <2> DEFINE actuals == CallActuals(call[r])
  <2>1. PICK D \in SUBSET Dims : actuals \in [D -> Amount]
    BY CallActualsType DEF ModelDims, Dims
  <2>2. Key(r) \in Keys /\ Key(r)[1] = r /\ ledger \in Ledger
    BY <1>6, KeyOf, KeyRun, LedgerType DEF SettleCall, KeyThreads
  <2>3. ledger' = ledger \/ ledger' = Settled(Key(r), actuals)
    BY <1>6 DEF SettleCall, Settle
  <2> HIDE DEF actuals
  <2>4. \A j \in Keys, d \in Dims : j[1] # r => ledger'[j][d] = ledger[j][d]
    BY ONLY <2>1, <2>2, <2>3, SettledRow
  <2> QED
    BY <1>6, <2>4 DEF SettleCall
<1> QED
  BY <1>1, <1>2, <1>3, <1>4, <1>5, <1>6 DEF CallStep

LEMMA ToolThread ==
  ASSUME TypeInv, NEW r \in Runs, ToolStep(r)
  PROVE  ThreadStep(r)
<1> USE DEF TypeInv, TypeOK, ThreadStep
<1>1. CASE Propose(r) \/ LoadGrant(r) \/ RefreshExpiry(r) \/ MeasureUsage(r) \/ ExhaustGrant(r)
  BY <1>1 DEF Propose, LoadGrant, RefreshExpiry, MeasureUsage, ExhaustGrant
<1>2. CASE ConsumeTool(r) \/ SettleTool(r)
  <2>1. \A k \in Keys, d \in Dims : k[1] # r => ledger'[k][d] = ledger[k][d]
    BY <1>2, ToolRowsKept, KeyRun
  <2> QED
    BY <1>2, <2>1 DEF ConsumeTool, SettleTool
<1>3. CASE ExecuteTool(r) \/ MarkProposal(r)
  BY <1>3 DEF ExecuteTool, MarkProposal
<1> QED
  BY <1>1, <1>2, <1>3 DEF ToolStep

LEMMA RunProcess ==
  ASSUME TypeInv, ProcessInv, NoResidue, NEW r \in Runs, RunStep(r)
  PROVE  ProcessInv' /\ NoResidue'
<1> USE DEF TypeInv, TypeOK, procVars
<1>0. \A k \in Keys : k[1] \in Runs
  BY DEF Keys
<1>1. CASE StartRun(r)
  <2>1. CASE grant' = grant
    <3>1. ProcessInv'
      BY <1>0, <1>1, <2>1 DEF StartRun, ProcessInv
    <3>2. NoResidue'
      BY <1>0, <1>1, <2>1 DEF StartRun, NoResidue
    <3> QED
      BY <3>1, <3>2
  <2>2. CASE UNCHANGED <<run, pc, lived>>
    BY <1>1, <2>2 DEF StartRun, ProcessInv, NoResidue
  <2> QED
    BY <1>1, <2>1, <2>2 DEF StartRun
<1>2. CASE PauseRun(r)
  <2>1. phase = "up" /\ r \in lived
    BY <1>2 DEF PauseRun, ProcessInv
  <2>2. ProcessInv'
    BY <1>0, <1>2, <2>1 DEF PauseRun, ProcessInv
  <2>3. NoResidue'
    BY <1>0, <1>2, <2>1 DEF PauseRun, NoResidue
  <2> QED
    BY <2>2, <2>3
<1>3. CASE ResumeRun(r)
  <2>1. ProcessInv'
    BY <1>0, <1>3 DEF ResumeRun, ProcessInv
  <2>2. NoResidue'
    BY <1>0, <1>3 DEF ResumeRun, NoResidue
  <2> QED
    BY <2>1, <2>2
<1>4. ASSUME NEW status \in Terminal, EndRun(r, status)
      PROVE  ProcessInv' /\ NoResidue'
  <2>1. phase = "up" /\ r \in lived
    BY <1>4 DEF EndRun, ProcessInv
  <2>2. ProcessInv'
    BY <1>0, <1>4, <2>1 DEF EndRun, ProcessInv, Terminal
  <2>3. NoResidue'
    BY <1>0, <1>4, <2>1 DEF EndRun, NoResidue
  <2> QED
    BY <2>2, <2>3
<1> QED
  BY <1>1, <1>2, <1>3, <1>4 DEF RunStep

LEMMA StartupProcess ==
  ASSUME TypeInv, ProcessInv, NoResidue, RevokeGrant \/ Crash \/ Startup
  PROVE  ProcessInv' /\ NoResidue'
<1> USE DEF runVars, procVars
<1>1. CASE RevokeGrant
  BY <1>1 DEF RevokeGrant, ProcessInv, NoResidue
<1>2. CASE Crash
  BY <1>2 DEF Crash, ProcessInv, NoResidue
<1>3. CASE ReconcileInterrupted
  <2>1. \A r \in Runs : run'[r] # "running" /\ (run[r] # "absent" => run'[r] # "absent")
    BY <1>3 DEF ReconcileInterrupted, TypeInv, TypeOK
  <2>2. \A k \in Keys : k[1] \in Runs
    BY DEF Keys
  <2> QED
    BY <1>3, <2>1, <2>2 DEF ReconcileInterrupted, ProcessInv, NoResidue
<1>4. CASE ReconcileOrphans
  BY <1>4 DEF ReconcileOrphans, ProcessInv, NoResidue
<1>5. CASE ReconcileResidues
  <2>1. phase = "ledger" /\ run' = run /\ pc' = pc /\ lived' = lived
    BY <1>5 DEF ReconcileResidues
  <2>2. CASE Residues = {} /\ phase' = "up" /\ ledger' = ledger
    <3>1. \A k \in Keys, d \in Dims : ledger[k][d].state = "reserved" => run[k[1]] \notin Terminal
      <4>1. ASSUME NEW k \in Keys, NEW d \in Dims, ledger[k][d].state = "reserved",
                   run[k[1]] \in Terminal
            PROVE  FALSE
        <5>1. <<k, d>> \in Residues
          BY <4>1 DEF Residues
        <5> QED
          BY <2>2, <5>1
      <4> QED
        BY <4>1
    <3>2. \A k \in Keys : k[1] \in Runs
      BY DEF Keys
    <3>3. \A k \in Keys, d \in Dims :
            ledger[k][d].state = "reserved" => run[k[1]] # "absent" /\ run[k[1]] # "running"
      BY <2>1, <3>2 DEF ProcessInv
    <3>4. \A k \in Keys, d \in Dims : ledger[k][d].state = "reserved" => run[k[1]] = "paused"
      BY <3>1, <3>2, <3>3 DEF TypeInv, TypeOK
    <3> QED
      BY <2>1, <2>2, <3>4 DEF ProcessInv, NoResidue
  <2>3. ASSUME NEW kd \in Residues, phase' = phase,
               ledger' = [ledger EXCEPT ![kd[1]][kd[2]] = Decided(@, RecordedActual(kd[1], kd[2]))]
        PROVE  ProcessInv' /\ NoResidue'
    <3>1. kd[1] \in Keys /\ kd[2] \in Dims /\ ledger[kd[1]][kd[2]].state = "reserved"
      BY DEF Residues
    <3>2. ledger \in Ledger
      BY LedgerType DEF TypeInv
    <3>3. \A k \in Keys, d \in Dims :
            k # kd[1] \/ d # kd[2] => ledger'[k][d] = ledger[k][d]
      BY <2>3, <3>1, <3>2 DEF Ledger
    <3>4. \A k \in Keys, d \in Dims : ledger'[k][d].state # "none" => ledger[k][d].state # "none"
      BY <3>1, <3>3
    <3> QED
      BY <2>1, <2>3, <3>4 DEF ProcessInv, NoResidue
  <2> QED
    BY <1>5, <2>2, <2>3 DEF ReconcileResidues
<1> QED
  BY <1>1, <1>2, <1>3, <1>4, <1>5 DEF Startup

LEMMA NextProcess ==
  ASSUME TypeInv, ProcessInv, NoResidue, [Next]_vars
  PROVE  ProcessInv' /\ NoResidue'
<1>1. CASE UNCHANGED vars
  BY <1>1 DEF vars, runVars, procVars, ProcessInv, NoResidue
<1>2. CASE Next
  BY <1>2, CallThread, ToolThread, ThreadKeeps, RunProcess, StartupProcess DEF Next
<1> QED
  BY <1>1, <1>2

-----------------------------------------------------------------------------

LEMMA NextInv == IInv /\ [Next]_vars => IInv'
  BY NextType, NextLedger, NextProcess DEF IInv

LEMMA Inductive == Spec => []IInv
  BY InitInv, NextInv, PTL DEF Spec

\* A settled call is charged exactly what its provider reported, by the Run or by
\* a later startup, whatever else happens in between (autonomy.rs:416, 498-577).
THEOREM SettledExactly == Spec => []SettledIsReported
<1>1. IInv => SettledIsReported
  BY DEF IInv, LedgerInv, KeyInv, RowInv, SettledIsReported
<1> QED
  BY <1>1, Inductive, PTL

\* No reservation of a call that was answered is given up (lib.rs:466-490).
THEOREM AnswersAreCharged == Spec => []AnsweredIsCharged
<1>1. IInv => AnsweredIsCharged
  BY DEF IInv, LedgerInv, KeyInv, RowInv, AnsweredIsCharged
<1> QED
  BY <1>1, Inductive, PTL

\* A startup leaves no reservation of a Run that has ended (main.rs:215-231).
THEOREM StartupLeavesNoResidue == Spec => []NoResidue
<1>1. IInv => NoResidue
  BY DEF IInv
<1> QED
  BY <1>1, Inductive, PTL

\* A startup settles every call whose answer was recorded within its reservation
\* (autonomy.rs:491).
THEOREM StartupRecovers == Spec => []RecoveredFromRecord
<1>1. ASSUME IInv, phase = "up", NEW k \in Keys,
             k[1] \notin lived, run[k[1]] \in Terminal,
             recorded[k].status = "ok", fact[k].reported # NoAmount,
             fact[k].reported <= ledger[k]["tokens"].reserved
      PROVE  ledger[k]["tokens"].state = "settled"
  <2>1. KeyInv(k) /\ NoResidue /\ ledger \in Ledger
    BY <1>1, LedgerType DEF IInv, LedgerInv, TypeInv
  <2>2. ledger[k]["tokens"].state # "reserved"
    BY <1>1, <2>1 DEF NoResidue, Dims, Terminal
  <2>3. ledger[k]["tokens"].state \notin {"none", "reconciliation_required"}
    BY <1>1, <2>1 DEF KeyInv, RowInv
  <2>4. ledger[k]["tokens"] \in Row
    BY <2>1 DEF Ledger, Dims
  <2> QED
    BY <2>2, <2>3, <2>4 DEF Row
<1>2. IInv => RecoveredFromRecord
  BY <1>1 DEF RecoveredFromRecord
<1> QED
  BY <1>2, Inductive, PTL

\* A grant that is revoked, expired or exhausted is never anything else again,
\* however the check of a tool call is cut up (autonomy.rs:179).
THEOREM GrantEndsOnce == Spec => GrantStatusIsFinal
<1>1. ASSUME [Next]_vars, grant # "active"
      PROVE  grant' = grant
  <2>1. CASE UNCHANGED vars
    BY <2>1 DEF vars
  <2>2. ASSUME NEW r \in Runs, CallStep(r) PROVE grant' = grant
    BY <2>2 DEF CallStep, ReserveCall, OverBudget, StreamAnswers, CompleteAnswers, StreamFails,
                CompleteFails, SettleCall
  <2>3. ASSUME NEW r \in Runs, ToolStep(r) PROVE grant' = grant
    BY <1>1, <2>3 DEF ToolStep, Propose, LoadGrant, RefreshExpiry, MeasureUsage, ExhaustGrant,
                ConsumeTool, ExecuteTool, SettleTool, MarkProposal, SetGrant
  <2>4. ASSUME NEW r \in Runs, RunStep(r) PROVE grant' = grant
    BY <1>1, <2>4 DEF RunStep, StartRun, PauseRun, ResumeRun, EndRun
  <2>5. CASE RevokeGrant \/ Crash \/ Startup
    BY <1>1, <2>5 DEF RevokeGrant, Crash, Startup, ReconcileInterrupted, ReconcileOrphans,
                ReconcileResidues
  <2> QED
    BY <1>1, <2>1, <2>2, <2>3, <2>4, <2>5 DEF Next
<1>2. [Next]_vars => [grant # "active" => grant' = grant]_vars
  BY <1>1
<1> QED
  BY <1>2, PTL DEF Spec, GrantStatusIsFinal

-----------------------------------------------------------------------------
(* The limits.  First the total of a finite set, as MapThenSumSet computes it:  *)
(* one element at a time, in the order of CHOOSE.                            *)

OneOf(s) == CHOOSE x \in s : TRUE
Added(f, g, s) == IF s = {} THEN 0 ELSE f[OneOf(s)] + g[s \ {OneOf(s)}]
Sums(g, f, K) == g = [s \in SUBSET K |-> Added(f, g, s)]

LEMMA OneOfIn == \A s : s # {} => OneOf(s) \in s
BY DEF OneOf

\* A set of finite sets, if there is one, has one that has no other inside it.
LEMMA SmallestSet ==
  ASSUME NEW K, IsFiniteSet(K), NEW T \in SUBSET SUBSET K, T # {}
  PROVE  \E s \in T : \A t \in T : ~ (t \subseteq s /\ t # s)
<1>1. T \subseteq FiniteSubsetsOf(K)
  BY FS_Subset DEF FiniteSubsetsOf
<1>2. IsWellFoundedOn(StrictSubsetOrdering(K), FiniteSubsetsOf(K))
  BY FS_StrictSubsetOrderingWellFounded
<1>3. \E s \in T : \A t \in T : ~ (<<t, s>> \in StrictSubsetOrdering(K))
  BY <1>1, <1>2, WFMin
<1> QED
  BY <1>3 DEF StrictSubsetOrdering

\* Sums over two sets agree on what is part of both.
LEMMA SumsAgree ==
  ASSUME NEW K, IsFiniteSet(K), NEW A \in SUBSET K, NEW B \in SUBSET K,
         NEW f, NEW g, NEW h, Sums(g, f, A), Sums(h, f, B),
         NEW s \in SUBSET A, s \in SUBSET B
  PROVE  g[s] = h[s]
<1> DEFINE T == {t \in SUBSET s : g[t] # h[t]}
<1>1. SUFFICES ASSUME T # {} PROVE FALSE
  OBVIOUS
<1>2. PICK t \in T : \A u \in T : ~ (u \subseteq t /\ u # t)
  <2>1. T \in SUBSET SUBSET K
    OBVIOUS
  <2> HIDE DEF T
  <2> QED
    BY <1>1, <2>1, SmallestSet
<1>3. g[t] = Added(f, g, t) /\ h[t] = Added(f, h, t)
  BY <1>2 DEF Sums
<1>4. t # {}
  BY <1>2, <1>3 DEF Added
<1> DEFINE u == t \ {OneOf(t)}
<1>5. u \subseteq t /\ u # t
  BY <1>4, OneOfIn
<1>6. g[u] = h[u]
  BY <1>2, <1>5
<1> QED
  BY <1>2, <1>3, <1>4, <1>6 DEF Added

Summed(g, f, K) == g \in [SUBSET K -> Nat] /\ Sums(g, f, K)
SumIn(f, s) == CHOOSE g : Summed(g, f, s)

\* The numbers of a finite set have a sum.
LEMMA SumsExist ==
  ASSUME NEW K, IsFiniteSet(K), NEW f \in [K -> Nat]
  PROVE  \E g : Summed(g, f, K)
<1> DEFINE T == {s \in SUBSET K : ~ \E g : Summed(g, f, s)}
<1>1. SUFFICES ASSUME T # {} PROVE FALSE
  OBVIOUS
<1>2. PICK s \in T : \A t \in T : ~ (t \subseteq s /\ t # s)
  <2>1. T \in SUBSET SUBSET K
    OBVIOUS
  <2> HIDE DEF T
  <2> QED
    BY <1>1, <2>1, SmallestSet
<1> DEFINE h(t) == SumIn(f, t)
           g == [t \in SUBSET s |-> IF t = {} THEN 0 ELSE f[OneOf(t)] + h(t \ {OneOf(t)})[t \ {OneOf(t)}]]
<1>3. ASSUME NEW t \in SUBSET s, t # {}
      PROVE  /\ t \ {OneOf(t)} \in SUBSET s
             /\ Summed(h(t \ {OneOf(t)}), f, t \ {OneOf(t)}) /\ f[OneOf(t)] \in Nat
  <2>1. t \ {OneOf(t)} \subseteq s /\ t \ {OneOf(t)} # s /\ OneOf(t) \in K
    BY <1>3, OneOfIn
  <2>2. t \ {OneOf(t)} \notin T /\ t \ {OneOf(t)} \in SUBSET K
    BY <1>2, <2>1
  <2>3. \E x : Summed(x, f, t \ {OneOf(t)})
    BY <2>2
  <2> QED
    BY <2>1, <2>3 DEF SumIn
<1>4. g \in [SUBSET s -> Nat]
  <2>1. ASSUME NEW t \in SUBSET s
        PROVE  (IF t = {} THEN 0 ELSE f[OneOf(t)] + h(t \ {OneOf(t)})[t \ {OneOf(t)}]) \in Nat
    <3>1. CASE t = {}
      BY <3>1
    <3>2. CASE t # {}
      <4>1. f[OneOf(t)] \in Nat /\ h(t \ {OneOf(t)})[t \ {OneOf(t)}] \in Nat
        <5>1. PICK u, x : u = t \ {OneOf(t)} /\ x = h(t \ {OneOf(t)})
          OBVIOUS
        <5>2. f[OneOf(t)] \in Nat /\ Summed(x, f, u)
          BY <1>3, <3>2, <5>1
        <5> HIDE DEF h
        <5>3. x[u] \in Nat
          BY <5>2 DEF Summed
        <5> QED
          BY <5>1, <5>2, <5>3
      <4> HIDE DEF h
      <4> QED
        BY <3>2, <4>1
    <3> QED
      BY <3>1, <3>2
  <2> HIDE DEF h
  <2> QED
    BY <2>1
<1>5. ASSUME NEW t \in SUBSET s PROVE g[t] = Added(f, g, t)
  <2>1. CASE t = {}
    BY <2>1 DEF Added
  <2>2. CASE t # {}
    <3> DEFINE u == t \ {OneOf(t)}
    <3>1. u \in SUBSET s /\ Summed(h(u), f, u)
      BY <1>3, <2>2
    <3>2. g[u] = h(u)[u]
      <4>1. h(u)[u] = Added(f, h(u), u)
        BY <3>1 DEF Summed, Sums
      <4>2. CASE u = {}
        BY <3>1, <4>1, <4>2 DEF Added
      <4>3. CASE u # {}
        <5> DEFINE v == u \ {OneOf(u)}
        <5>1. Summed(h(v), f, v) /\ v \in SUBSET u
          BY <1>3, <3>1, <4>3
        <5>2. h(u)[v] = h(v)[v]
          <6>1. v \in SUBSET K /\ u \in SUBSET K
            BY <3>1
          <6>2. Sums(h(v), f, v) /\ Sums(h(u), f, u)
            BY <3>1, <5>1 DEF Summed
          <6>3. v \in SUBSET v
            OBVIOUS
          <6> HIDE DEF h, u, v
          <6>4. \A x, y : Sums(x, f, u) /\ Sums(y, f, v) => x[v] = y[v]
            BY <5>1, <6>1, <6>3, SumsAgree
          <6> QED
            BY <6>2, <6>4
        <5> HIDE DEF h
        <5> QED
          BY <3>1, <4>1, <4>3, <5>2 DEF Added
      <4> QED
        BY <4>2, <4>3
    <3>3. g[t] = f[OneOf(t)] + h(u)[u]
      BY <2>2
    <3> HIDE DEF g, h
    <3> QED
      BY <2>2, <3>2, <3>3 DEF Added
  <2> QED
    BY <2>1, <2>2
<1>6. Sums(g, f, s)
  <2>1. g = [t \in SUBSET s |-> g[t]]
    BY <1>4
  <2> HIDE DEF g
  <2> QED
    BY <1>5, <2>1 DEF Sums
<1>7. Summed(g, f, s)
  BY <1>4, <1>6 DEF Summed
<1> QED
  BY <1>2, <1>7

\* One number changes: the sum changes by as much.
LEMMA SumChanges ==
  ASSUME NEW K, IsFiniteSet(K), NEW k \in K,
         NEW f \in [K -> Nat], NEW e \in [K -> Nat], \A j \in K : j # k => e[j] = f[j],
         NEW g, NEW h, Summed(g, f, K), Summed(h, e, K)
  PROVE  h[K] + f[k] = g[K] + e[k]
<1> DEFINE P(s) == h[s] + (IF k \in s THEN f[k] ELSE 0) = g[s] + (IF k \in s THEN e[k] ELSE 0)
           T == {s \in SUBSET K : ~ P(s)}
<1>1. ASSUME T # {} PROVE FALSE
  <2>1. PICK s \in T : \A t \in T : ~ (t \subseteq s /\ t # s)
    <3>1. T \in SUBSET SUBSET K
      OBVIOUS
    <3> HIDE DEF T
    <3> QED
      BY <1>1, <3>1, SmallestSet
  <2>2. g[s] = Added(f, g, s) /\ h[s] = Added(e, h, s)
    BY <2>1 DEF Summed, Sums
  <2>3. s # {}
    BY <2>1, <2>2 DEF Added
  <2> DEFINE u == s \ {OneOf(s)}
  <2>4. OneOf(s) \in s /\ u \in SUBSET K /\ u \subseteq s /\ u # s
    BY <2>1, <2>3, OneOfIn
  <2>5. P(u)
    BY <2>1, <2>4
  <2>6. g[s] = f[OneOf(s)] + g[u] /\ h[s] = e[OneOf(s)] + h[u]
    BY <2>2, <2>3 DEF Added
  <2>7. g[u] \in Nat /\ h[u] \in Nat /\ OneOf(s) \in K
    BY <2>4 DEF Summed
  <2>8. CASE OneOf(s) = k
    <3>1. k \in s /\ k \notin u
      BY <2>4, <2>8
    <3> HIDE DEF u
    <3>2. h[u] = g[u]
      BY <2>5, <2>7, <3>1
    <3>3. f[k] \in Nat /\ e[k] \in Nat
      OBVIOUS
    <3>4. P(s)
      BY <2>6, <2>7, <2>8, <3>1, <3>2, <3>3
    <3> QED
      BY <2>1, <3>4
  <2>9. CASE OneOf(s) # k
    <3>1. (k \in s <=> k \in u) /\ e[OneOf(s)] = f[OneOf(s)]
      BY <2>4, <2>7, <2>9
    <3> HIDE DEF u
    <3>2. f[k] \in Nat /\ e[k] \in Nat /\ f[OneOf(s)] \in Nat
      BY <2>7
    <3>3. P(s)
      BY <2>5, <2>6, <2>7, <3>1, <3>2
    <3> QED
      BY <2>1, <3>3
  <2> QED
    BY <2>8, <2>9
<1>2. P(K)
  BY <1>1
<1> QED
  BY <1>2

-----------------------------------------------------------------------------
(* The usage of a grant as such a total.                                    *)

UsageOf(L, d) == MapThenSumSet(LAMBDA k : Occupied(L[k][d]), Keys)
OccupiedIn(L, d) == [k \in Keys |-> Occupied(L[k][d])]

LEMMA UsageIs ==
  ASSUME NEW CONSTANT d
  PROVE  UsageTotal(d) = UsageOf(ledger, d) /\ UsageTotal(d)' = UsageOf(ledger', d)
<1>1. UsageTotal(d) = UsageOf(ledger, d)
  BY DEF UsageTotal, UsageOf, MapThenSumSet, MapThenFoldSet
<1>2. UsageTotal(d)' = UsageOf(ledger', d)
  BY DEF UsageTotal, UsageOf, MapThenSumSet, MapThenFoldSet
<1> QED
  BY <1>1, <1>2

LEMMA KeysFinite == IsFiniteSet(Keys)
<1>1. IsFiniteSet(1 .. MaxKeys)
  BY FS_Interval
<1> QED
  BY <1>1, RunsAssumption, FS_Product DEF Keys

LEMMA OccupiedType ==
  ASSUME NEW L \in Ledger, NEW d \in Dims
  PROVE  OccupiedIn(L, d) \in [Keys -> Nat]
BY DEF OccupiedIn, Occupied, Ledger, Row, Amount

LEMMA UsageIsSum ==
  ASSUME NEW L \in Ledger, NEW d \in Dims, NEW g, Summed(g, OccupiedIn(L, d), Keys)
  PROVE  UsageOf(L, d) = g[Keys] /\ UsageOf(L, d) \in Nat
<1>1. Sums(g, OccupiedIn(L, d), Keys) /\ g[Keys] \in Nat
  BY DEF Summed
<1>2. \E h : Sums(h, OccupiedIn(L, d), Keys) /\ UsageOf(L, d) = h[Keys]
  <2> DEFINE Occ(k) == Occupied(L[k][d])
             IsTotal(h) == h = [s \in SUBSET Keys |->
                            IF s = {} THEN 0 ELSE Occ(OneOf(s)) + h[s \ {OneOf(s)}]]
  <2>1. OccupiedIn(L, d) = [k \in Keys |-> Occ(k)]
    BY DEF OccupiedIn
  <2>2. UsageOf(L, d) = MapThenSumSet(LAMBDA k : Occ(k), Keys)
    BY DEF UsageOf
  <2> HIDE DEF Occ
  <2>3. MapThenSumSet(LAMBDA k : Occ(k), Keys) =
          (CHOOSE h : h = [s \in SUBSET Keys |->
             IF s = {} THEN 0 ELSE Occ(CHOOSE x \in s : TRUE) + h[s \ {CHOOSE x \in s : TRUE}]])[Keys]
    BY ONLY DEF MapThenSumSet, MapThenFoldSet
  <2>4. UsageOf(L, d) = (CHOOSE h : IsTotal(h))[Keys]
    BY ONLY <2>2, <2>3 DEF OneOf, IsTotal
  <2>5. PICK f : f = OccupiedIn(L, d)
    OBVIOUS
  <2>6. f = [k \in Keys |-> Occ(k)]
    BY <2>1, <2>5
  <2>7. ASSUME NEW h PROVE Sums(h, f, Keys) <=> IsTotal(h)
    BY ONLY <2>6 DEF Sums, Added, OneOf, IsTotal
  <2> HIDE DEF IsTotal
  <2>8. IsTotal(g)
    BY <1>1, <2>5, <2>7
  <2>9. IsTotal(CHOOSE h : IsTotal(h))
    BY ONLY <2>8
  <2> QED
    BY <2>4, <2>5, <2>7, <2>9
<1>3. \A h : Sums(h, OccupiedIn(L, d), Keys) => h[Keys] = g[Keys]
  BY <1>1, KeysFinite, SumsAgree
<1> QED
  BY <1>1, <1>2, <1>3

\* The rows of one key are written: the usage changes by what they occupy.
LEMMA UsageChanges ==
  ASSUME NEW L \in Ledger, NEW M \in Ledger, NEW k \in Keys, NEW d \in Dims,
         \A j \in Keys : j # k => M[j][d] = L[j][d]
  PROVE  /\ UsageOf(L, d) \in Nat /\ UsageOf(M, d) \in Nat
         /\ UsageOf(M, d) + Occupied(L[k][d]) = UsageOf(L, d) + Occupied(M[k][d])
<1> DEFINE f == OccupiedIn(L, d)
           e == OccupiedIn(M, d)
<1>1. f \in [Keys -> Nat] /\ e \in [Keys -> Nat]
  BY OccupiedType
<1>2. \A j \in Keys : j # k => e[j] = f[j]
  BY DEF OccupiedIn
<1>3. PICK g, h : Summed(g, f, Keys) /\ Summed(h, e, Keys)
  <2> HIDE DEF f, e
  <2> QED
    BY <1>1, KeysFinite, SumsExist
<1>4. h[Keys] + f[k] = g[Keys] + e[k]
  <2> HIDE DEF f, e
  <2> QED
    BY <1>1, <1>2, <1>3, KeysFinite, SumChanges
<1>5. /\ UsageOf(L, d) = g[Keys] /\ UsageOf(L, d) \in Nat
      /\ UsageOf(M, d) = h[Keys] /\ UsageOf(M, d) \in Nat
  BY <1>3, UsageIsSum
<1>6. f[k] = Occupied(L[k][d]) /\ e[k] = Occupied(M[k][d])
  BY DEF OccupiedIn
<1> QED
  BY <1>4, <1>5, <1>6

\* What is reserved has not been settled: a settlement gives back, it never adds.
OpenRows(L) == \A k \in Keys, d \in Dims : L[k][d].state = "reserved" => L[k][d].settled = NoAmount
LimitsOf(L) == \A d \in Dims : Limit[d] > 0 => UsageOf(L, d) <= Limit[d]
LimitInv(L) == OpenRows(L) /\ LimitsOf(L)

\* A key's rows are reserved when they fit, and only then.
LEMMA ReservedFits ==
  ASSUME ledger \in Ledger, LimitInv(ledger), NEW k \in Keys, NEW D \in SUBSET Dims,
         NEW amounts \in [D -> Nat], Fits(amounts)
  PROVE  LimitInv(Reserved(k, amounts))
<1>1. PICK M : /\ M = Reserved(k, amounts)
               /\ M \in Ledger
               /\ \A d \in D : M[k][d].state = "reserved" /\ M[k][d].reserved = amounts[d]
                               /\ M[k][d].settled = NoAmount
               /\ \A j \in Keys, d \in Dims : j # k \/ d \notin D => M[j][d] = ledger[j][d]
  <2>1. ledger \in Ledger /\ k \in Keys /\ D \in SUBSET Dims /\ amounts \in [D -> Nat]
    OBVIOUS
  <2> QED
    BY ONLY <2>1, ReservedRow
<1>2. /\ M \in Ledger
      /\ \A d \in D : M[k][d].state = "reserved" /\ M[k][d].reserved = amounts[d]
                      /\ M[k][d].settled = NoAmount
      /\ \A j \in Keys, d \in Dims : j # k \/ d \notin D => M[j][d] = ledger[j][d]
  BY <1>1
<1>3. OpenRows(M)
  BY <1>2 DEF LimitInv, OpenRows
<1>4. ASSUME NEW d \in Dims, Limit[d] > 0 PROVE UsageOf(M, d) <= Limit[d]
  <2>1. /\ UsageOf(ledger, d) \in Nat /\ UsageOf(M, d) \in Nat
        /\ UsageOf(M, d) + Occupied(ledger[k][d]) = UsageOf(ledger, d) + Occupied(M[k][d])
    BY <1>2, UsageChanges
  <2>2. Occupied(ledger[k][d]) \in Nat /\ Limit[d] \in Nat
    BY DEF Occupied, Ledger, Row, Amount
  <2>3. CASE d \in D
    <3>1. Occupied(M[k][d]) = amounts[d] /\ amounts[d] \in Nat
      BY <1>2, <2>3 DEF Occupied
    <3>2. UsageOf(ledger, d) + amounts[d] <= Limit[d]
      BY <1>4, <2>3, UsageIs DEF Fits
    <3> QED
      BY <2>1, <2>2, <3>1, <3>2
  <2>4. CASE d \notin D
    <3>1. M[k][d] = ledger[k][d] /\ UsageOf(ledger, d) <= Limit[d]
      BY <1>2, <1>4, <2>4 DEF LimitInv, LimitsOf
    <3> QED
      BY <2>1, <2>2, <3>1
  <2> QED
    BY <2>3, <2>4
<1> QED
  BY <1>1, <1>3, <1>4 DEF LimitInv, LimitsOf

\* What a reserved row becomes occupies no more.
LEMMA DecidedOccupies ==
  ASSUME NEW row \in Row, NEW actual \in Amount, row.state = "reserved" => row.settled = NoAmount,
         row.state = "reserved"
  PROVE  /\ Decided(row, actual).state # "reserved"
         /\ Occupied(Decided(row, actual)) \in Nat /\ Occupied(row) \in Nat
         /\ Occupied(Decided(row, actual)) <= Occupied(row)
<1>1. Occupied(row) = row.reserved /\ row.reserved \in Nat
  BY DEF Occupied, Row
<1>2. CASE Decided(row, actual).state = "settled"
  BY <1>1, <1>2, DecidedRow DEF Occupied
<1>3. CASE Decided(row, actual).state # "settled"
  BY <1>1, <1>3, DecidedRow DEF Occupied
<1> QED
  BY <1>2, <1>3

\* Rows of one key are decided, the others kept.
LEMMA DecidedFits ==
  ASSUME NEW L \in Ledger, LimitInv(L), NEW M \in Ledger, NEW k \in Keys,
         \A j \in Keys, d \in Dims :
           \/ M[j][d] = L[j][d]
           \/ /\ j = k /\ L[k][d].state = "reserved"
              /\ \E actual \in Amount : M[k][d] = Decided(L[k][d], actual)
  PROVE  LimitInv(M)
<1>1. \A j \in Keys, d \in Dims : L[j][d] \in Row /\ Occupied(L[j][d]) \in Nat
  BY DEF Ledger, Occupied, Row, Amount
<1>2. \A j \in Keys, d \in Dims :
        \/ M[j][d] = L[j][d]
        \/ j = k /\ M[k][d].state # "reserved" /\ Occupied(M[k][d]) \in Nat
           /\ Occupied(M[k][d]) <= Occupied(L[k][d])
  BY <1>1, DecidedOccupies DEF LimitInv, OpenRows
<1>3. OpenRows(M)
  BY <1>2 DEF LimitInv, OpenRows
<1>4. ASSUME NEW d \in Dims, Limit[d] > 0 PROVE UsageOf(M, d) <= Limit[d]
  <2>1. /\ UsageOf(L, d) \in Nat /\ UsageOf(M, d) \in Nat
        /\ UsageOf(M, d) + Occupied(L[k][d]) = UsageOf(L, d) + Occupied(M[k][d])
    BY <1>2, UsageChanges
  <2>2. /\ Occupied(L[k][d]) \in Nat /\ Occupied(M[k][d]) \in Nat
        /\ Occupied(M[k][d]) <= Occupied(L[k][d])
    BY <1>1, <1>2
  <2>3. UsageOf(L, d) <= Limit[d] /\ Limit[d] \in Nat
    BY <1>4 DEF LimitInv, LimitsOf
  <2> QED
    BY <2>1, <2>2, <2>3
<1> QED
  BY <1>3, <1>4 DEF LimitInv, LimitsOf

LEMMA SettledFits ==
  ASSUME ledger \in Ledger, LimitInv(ledger), NEW k \in Keys, NEW D \in SUBSET Dims,
         NEW actuals \in [D -> Amount], Settle(k, actuals)
  PROVE  LimitInv(ledger')
<1>1. PICK M : M = Settled(k, actuals)
  OBVIOUS
<1>2. M \in Ledger /\ \A j \in Keys, d \in Dims :
           \/ M[j][d] = ledger[j][d]
           \/ /\ j = k /\ ledger[k][d].state = "reserved"
              /\ \E actual \in Amount : M[k][d] = Decided(ledger[k][d], actual)
  <2>1. /\ M \in Ledger
        /\ \A d \in D : ledger[k][d].state = "reserved" => M[k][d] = Decided(ledger[k][d], actuals[d])
        /\ \A j \in Keys, d \in Dims :
             j # k \/ d \notin D \/ ledger[k][d].state # "reserved" => M[j][d] = ledger[j][d]
    <3>1. ledger \in Ledger /\ k \in Keys /\ D \in SUBSET Dims /\ actuals \in [D -> Amount]
      OBVIOUS
    <3> QED
      BY ONLY <1>1, <3>1, SettledRow
  <2>2. \A d \in D : actuals[d] \in Amount
    OBVIOUS
  <2> QED
    BY <2>1, <2>2
<1>3. LimitInv(M)
  BY <1>2, DecidedFits
<1> QED
  BY <1>1, <1>3 DEF Settle

LEMMA InitFits == Init => LimitInv(ledger)
<1> SUFFICES ASSUME Init PROVE LimitInv(ledger)
  OBVIOUS
<1>1. ledger = [k \in Keys |-> [d \in Dims |-> NoRow]] /\ ledger \in Ledger
  BY InitType, LedgerType DEF Init, TypeInv
<1>2. OpenRows(ledger)
  BY <1>1 DEF OpenRows, NoRow
<1>3. ASSUME NEW d \in Dims PROVE UsageOf(ledger, d) = 0
  <2> DEFINE f == OccupiedIn(ledger, d)
             zero == [s \in SUBSET Keys |-> 0]
  <2>1. \A k \in Keys : f[k] = 0
    BY <1>1 DEF OccupiedIn, Occupied, NoRow
  <2>2. zero \in [SUBSET Keys -> Nat]
    OBVIOUS
  <2>3. ASSUME NEW s \in SUBSET Keys PROVE Added(f, zero, s) = 0
    <3>1. s # {} => f[OneOf(s)] = 0 /\ zero[s \ {OneOf(s)}] = 0
      BY <2>1, OneOfIn
    <3> HIDE DEF f, zero
    <3> QED
      BY <3>1 DEF Added
  <2>4. Summed(zero, f, Keys)
    <3> HIDE DEF f
    <3> QED
      BY <2>2, <2>3 DEF Summed, Sums
  <2> QED
    BY <1>1, <2>4, UsageIsSum
<1> QED
  BY <1>2, <1>3 DEF LimitInv, LimitsOf

LEMMA NextFits ==
  ASSUME TypeInv, LimitInv(ledger), [Next]_vars
  PROVE  LimitInv(ledger')
<1>1. ledger \in Ledger
  BY LedgerType DEF TypeInv
<1>2. ASSUME NEW r \in Runs, NEW site \in Sites, NEW estimate \in Estimates,
             ReserveCall(r, site, estimate)
      PROVE  LimitInv(ledger')
  <2>1. Amounts(estimate) \in [ModelDims -> Nat] /\ ModelDims \in SUBSET Dims
    BY DEF Amounts, ModelDims, Dims
  <2>2. <<r, made[r] + 1>> \in Keys
    BY <1>2, NextKey DEF ReserveCall
  <2> QED
    BY <1>1, <1>2, <2>1, <2>2, ReservedFits DEF ReserveCall
<1>3. ASSUME NEW r \in Runs, ConsumeTool(r) PROVE LimitInv(ledger')
  <2> DEFINE amounts == [d \in {"tool_calls"} |-> 1]
  <2>1. {"tool_calls"} \in SUBSET Dims /\ amounts \in [{"tool_calls"} -> Nat]
    BY DEF Dims
  <2>2. Key(r) \in Keys
    BY <1>3, KeyOf DEF ConsumeTool, KeyThreads
  <2>3. (Fits(amounts) /\ ledger' = Reserved(Key(r), amounts)) \/ ledger' = ledger
    BY <1>3 DEF ConsumeTool
  <2> HIDE DEF amounts
  <2> QED
    BY <1>1, <2>1, <2>2, <2>3, ReservedFits
<1>4. ASSUME NEW r \in Runs, SettleCall(r) PROVE LimitInv(ledger')
  <2>1. PICK D \in SUBSET Dims : CallActuals(call[r]) \in [D -> Amount]
    BY CallActualsType DEF ModelDims, Dims
  <2>2. Key(r) \in Keys /\ Settle(Key(r), CallActuals(call[r]))
    BY <1>4, KeyOf DEF SettleCall, KeyThreads
  <2> QED
    BY <1>1, <2>1, <2>2, SettledFits
<1>5. ASSUME NEW r \in Runs, SettleTool(r) PROVE LimitInv(ledger')
  <2> DEFINE actuals == [d \in {"tool_calls"} |-> call[r].usage]
  <2>1. {"tool_calls"} \in SUBSET Dims /\ actuals \in [{"tool_calls"} -> Amount]
    BY DEF TypeInv, TypeOK, Dims
  <2>2. Key(r) \in Keys /\ Settle(Key(r), actuals)
    BY <1>5, KeyOf DEF SettleTool, KeyThreads
  <2> HIDE DEF actuals
  <2> QED
    BY <1>1, <2>1, <2>2, SettledFits
<1>6. CASE ReconcileResidues
  <2>1. CASE ledger' = ledger
    BY <2>1
  <2>2. ASSUME NEW kd \in Residues,
               ledger' = [ledger EXCEPT ![kd[1]][kd[2]] =
                            Decided(@, RecordedActual(kd[1], kd[2]))]
        PROVE  LimitInv(ledger')
    <3>1. PICK k \in Keys, d \in Dims : kd[1] = k /\ kd[2] = d /\ ledger[k][d].state = "reserved"
      BY <2>2 DEF Residues
    <3>2. PICK actual \in Amount : actual = RecordedActual(k, d)
      BY <3>1 DEF RecordedActual, Amount, TypeInv, TypeOK
    <3>3. PICK row \in Row : row = Decided(ledger[k][d], actual)
      BY <1>1, <3>1, DecidedRow DEF Ledger
    <3>4. PICK M : M = [ledger EXCEPT ![k] = [@ EXCEPT ![d] = row]] /\ ledger' = M
      BY <1>1, <2>2, <3>1, <3>2, <3>3 DEF Ledger
    <3>5. M \in Ledger
      <4>1. ledger[k] \in [Dims -> Row]
        BY <1>1 DEF Ledger
      <4>2. [ledger[k] EXCEPT ![d] = row] \in [Dims -> Row]
        BY ONLY <4>1
      <4>3. M = [ledger EXCEPT ![k] = [ledger[k] EXCEPT ![d] = row]]
        BY <1>1, <3>4 DEF Ledger
      <4> QED
        BY ONLY <1>1, <4>2, <4>3 DEF Ledger
    <3>6. \A j \in Keys, e \in Dims : M[j][e] = ledger[j][e] \/ (j = k /\ e = d /\ M[j][e] = row)
      BY <1>1, <3>4 DEF Ledger
    <3>7. \A j \in Keys, e \in Dims :
            \/ M[j][e] = ledger[j][e]
            \/ /\ j = k /\ ledger[k][e].state = "reserved"
               /\ \E a \in Amount : M[k][e] = Decided(ledger[k][e], a)
      BY <3>1, <3>2, <3>3, <3>6
    <3> QED
      BY <1>1, <3>4, <3>5, <3>7, DecidedFits
  <2> QED
    BY <1>6, <2>1, <2>2 DEF ReconcileResidues
<1>7. CASE ledger' = ledger
  BY <1>7
<1>8. ASSUME NEW r \in Runs, CallStep(r) PROVE LimitInv(ledger')
  BY <1>2, <1>4, <1>7, <1>8 DEF CallStep, OverBudget, StreamAnswers, CompleteAnswers, StreamFails,
                          CompleteFails
<1>9. ASSUME NEW r \in Runs, ToolStep(r) PROVE LimitInv(ledger')
  BY <1>3, <1>5, <1>7, <1>9 DEF ToolStep, Propose, LoadGrant, RefreshExpiry, MeasureUsage, ExhaustGrant,
                          ExecuteTool, MarkProposal
<1>10. ASSUME NEW r \in Runs, RunStep(r) PROVE ledger' = ledger
  BY <1>10 DEF RunStep, StartRun, PauseRun, ResumeRun, EndRun
<1>11. RevokeGrant \/ Crash \/ ReconcileInterrupted \/ ReconcileOrphans \/ UNCHANGED vars
         => ledger' = ledger
  BY DEF RevokeGrant, Crash, ReconcileInterrupted, ReconcileOrphans, vars
<1> QED
  BY <1>6, <1>7, <1>8, <1>9, <1>10, <1>11 DEF Next, Startup

\* Whatever Runs reserve at the same time, whatever a settlement that was lost or a
\* crash leaves, the limits of a grant hold (autonomy.rs:328).
THEOREM LimitsHold == Spec => []WithinLimits
<1>1. LimitInv(ledger) => WithinLimits
  BY UsageIs DEF LimitInv, LimitsOf, WithinLimits
<1>2. TypeInv /\ LimitInv(ledger) /\ [Next]_vars => (TypeInv /\ LimitInv(ledger))'
  BY NextType, NextFits
<1>3. Init => TypeInv /\ LimitInv(ledger)
  BY InitType, InitFits
<1> QED
  BY <1>1, <1>2, <1>3, PTL DEF Spec
=============================================================================
