--------------------------- MODULE Delivery_proofs ---------------------------
(***************************************************************************)
(* Proofs about what leaves the process: calls of tools (ToolCall, for any  *)
(* number of crashes and lost writes) and pushed events (OutboxPush, for    *)
(* every number of flushing tasks, events and restarts and every limit of   *)
(* one replay).  The second half's names begin with Push.                   *)
(***************************************************************************)
EXTENDS ToolCall, OutboxPush, TLAPS

USE ToolCallAssumption, FlushersAssumption, LimitAssumption

-----------------------------------------------------------------------------
(* Tool calls: where the worker is, and what that says of server and phase.   *)

HasSent     == {"sent", "flushing", "flushed", "answered", "shutdown", "ok"}
HasAnswer   == {"answered", "shutdown", "ok"}
HasFlushed  == {"flushed", "answered", "shutdown", "ok"}

\* Nothing has happened before the worker is started, and nothing is stored
\* before the request is prepared.
WorkerInv ==
  /\ caller = "call" => worker = "none" /\ ~server.received /\ phase = "not_sent"
  /\ caller = "wait" => worker # "none"
  /\ worker = "started" => ~server.received /\ phase = "not_sent"
  /\ worker = "intent" => ~server.received /\ phase = "send_intent_persisted"
  /\ worker \in HasSent => server.received
  /\ worker \in HasFlushed => flushed
  /\ worker \in HasAnswer => server.answered

\* What is stored and what was returned against what the server saw.
RecordInv ==
  /\ server.received => phase # "not_sent"
  /\ phase \in {"request_flushed", "response_received", "shutdown_after_response"}
       => server.received
  /\ phase \in {"response_received", "shutdown_after_response"} => server.answered
  /\ result = "executed" \/ outcome = "ok" => server.answered

\* A failure that is told to the caller as such: the worker is not there or broke
\* before it wrote, for ever.
Unsent ==
  /\ worker \in {"none", "error"}
  /\ ~server.received

FailureInv ==
  ~tool.read_only /\ tool.transport = "line" =>
    /\ worker = "error" /\ ~flushed => ~server.received
    /\ ~cancelled /\ (result = "exec_failed" \/ outcome = "failed") => Unsent

CallerInv ==
  /\ caller = "call" => result = "none"
  /\ caller \in {"call", "wait"} => outcome # "failed"
  /\ caller \in {"mark", "record"} => result # "none"

IInv == TypeOK /\ WorkerInv /\ RecordInv /\ FailureInv /\ CallerInv

-----------------------------------------------------------------------------
(* The invariant holds at first and is kept by every step.                    *)

LEMMA InitInv == Init => IInv
<1> SUFFICES ASSUME Init PROVE IInv
  OBVIOUS
<1>1. TypeOK
  <2>1. /\ server \in [received : BOOLEAN, answered : BOOLEAN]
        /\ bounds \in [crashes : 0 .. MaxCrashes, faults : 0 .. MaxFaults]
    BY DEF Init
  <2>2. tool \in [transport : Transports, read_only : BOOLEAN]
    BY DEF Init
  <2> QED
    BY <2>1, <2>2 DEF Init, TypeOK, Results
<1>2. ~server.received /\ ~server.answered
  BY DEF Init
<1>3. WorkerInv /\ RecordInv /\ FailureInv /\ CallerInv
  BY <1>2 DEF Init, WorkerInv, RecordInv, FailureInv, CallerInv, HasSent, HasAnswer, HasFlushed
<1> QED
  BY <1>1, <1>3 DEF IInv

\* The phase only goes forward.
LEMMA PhaseForward ==
  ASSUME TypeOK, NEW p \in {"send_intent_persisted", "request_flushed",
                            "response_received", "shutdown_after_response"},
         AdvanceSendPhase(p)
  PROVE  /\ phase' \in {phase, p} /\ phase' # "not_sent"
         /\ phase = "not_sent" => phase' = p
BY DEF TypeOK, AdvanceSendPhase, Rank

LEMMA CallerStep == IInv /\ Caller => IInv'
<1> SUFFICES ASSUME IInv, Caller PROVE IInv'
  OBVIOUS
<1> USE DEF IInv, TypeOK, WorkerInv, RecordInv, FailureInv, CallerInv, Unsent,
            HasSent, HasAnswer, HasFlushed, Results, callee, rows, Fault
<1>1. CASE CallTool
  BY <1>1 DEF CallTool
<1>2. CASE SeeCancelled
  BY <1>2 DEF SeeCancelled, Interrupted
<1>3. CASE Receive
  BY <1>3 DEF Receive, Interrupted
<1>4. CASE MarkProposal
  BY <1>4 DEF MarkProposal
<1>5. CASE RecordOutcome
  BY <1>5 DEF RecordOutcome, Recorded
<1> QED
  BY <1>1, <1>2, <1>3, <1>4, <1>5 DEF Caller

LEMMA WorkerStep == IInv /\ Worker => IInv'
<1> SUFFICES ASSUME IInv, Worker PROVE IInv'
  OBVIOUS
<1> USE DEF IInv, TypeOK, WorkerInv, RecordInv, FailureInv, CallerInv, Unsent,
            HasSent, HasAnswer, HasFlushed, Results, Transports, waiting, rows, Fault
<1>1. CASE ConnectFails
  BY <1>1 DEF ConnectFails
<1>2. CASE PersistIntent
  BY <1>2, PhaseForward DEF PersistIntent
<1>3. CASE Write
  <2>1. /\ server' \in [received : BOOLEAN, answered : BOOLEAN]
        /\ server'.answered = server.answered
        /\ worker' = "sent" => server'.received
        /\ worker' = "error" => server' = server
    BY <1>3 DEF Write
  <2> QED
    BY <1>3, <2>1 DEF Write
<1>4. CASE HeadFails
  BY <1>4 DEF HeadFails
<1>5. CASE PersistFlush
  BY <1>5, PhaseForward DEF PersistFlush, TryAdvance
<1>6. CASE SetFlushed
  BY <1>6 DEF SetFlushed
<1>7. CASE Respond
  <2>1. /\ server' \in [received : BOOLEAN, answered : BOOLEAN]
        /\ server'.received = server.received
        /\ server.answered => server'.answered
        /\ worker' = "answered" => server'.answered
    BY <1>7 DEF Respond
  <2> QED
    BY <1>7, <2>1 DEF Respond
<1>8. CASE PersistResponse
  BY <1>8, PhaseForward DEF PersistResponse, TryAdvance
<1>9. CASE Shutdown
  BY <1>9, PhaseForward DEF Shutdown, TryAdvance
<1> QED
  BY <1>1, <1>2, <1>3, <1>4, <1>5, <1>6, <1>7, <1>8, <1>9 DEF Worker

LEMMA OtherStep == IInv /\ (CancelRun \/ Crash \/ Startup \/ UNCHANGED vars) => IInv'
<1> SUFFICES ASSUME IInv, CancelRun \/ Crash \/ Startup \/ UNCHANGED vars PROVE IInv'
  OBVIOUS
<1> USE DEF IInv, TypeOK, WorkerInv, RecordInv, FailureInv, CallerInv, Unsent,
            HasSent, HasAnswer, HasFlushed, Results, callee, rows
<1>1. CASE CancelRun
  BY <1>1 DEF CancelRun
<1>2. CASE Crash
  <2>1. bounds' \in [crashes : 0 .. MaxCrashes, faults : 0 .. MaxFaults]
    BY <1>2 DEF Crash
  <2>2. /\ UNCHANGED <<tool, result, cancelled, phase, decision, outcome, run, server>>
        /\ caller' = "gone" /\ worker' = "none" /\ flushed' = FALSE /\ boot' = "runs"
    BY <1>2 DEF Crash
  <2>3. TypeOK'
    <3>1. /\ tool' \in [transport : Transports, read_only : BOOLEAN]
          /\ server' \in [received : BOOLEAN, answered : BOOLEAN]
      BY <2>2
    <3>2. /\ caller' \in {"call", "wait", "mark", "record", "gone"}
          /\ flushed' \in BOOLEAN /\ cancelled' \in BOOLEAN
          /\ boot' \in {"runs", "orphans", "row", "up"} 
      BY <2>2
    <3> QED
      BY <2>1, <2>2, <3>1, <3>2
  <2>4. WorkerInv' /\ CallerInv'
    BY <2>2
  <2>5. RecordInv' /\ FailureInv'
    BY <2>2
  <2> QED
    BY <2>3, <2>4, <2>5
<1>3. CASE Startup
  BY <1>3 DEF Startup, ReconcileRun, MarkOrphan, RecordOrphan, Serve, Recorded, over
<1>4. CASE UNCHANGED vars
  BY <1>4 DEF vars
<1> QED
  BY <1>1, <1>2, <1>3, <1>4

LEMMA Inductive == Spec => []IInv
<1>1. IInv /\ [Next]_vars => IInv'
  BY CallerStep, WorkerStep, OtherStep DEF Next
<1> QED
  BY InitInv, <1>1, PTL DEF Spec
-----------------------------------------------------------------------------
(* The theorems.                                                              *)

\* Every variable keeps its type (run_executor, mcp_invoke, the worker thread).
THEOREM CallTypeCorrect == Spec => []TypeOK
<1>1. IInv => TypeOK
  BY DEF IInv
<1> QED
  BY <1>1, Inductive, PTL

\* What is stored of a call never claims more, or less, than the server saw, over
\* any number of crashes and lost writes (tool_exec.rs, advance_send_phase).
THEOREM HonestRecords == Spec => []RecordsAreHonest
<1>1. IInv => RecordsAreHonest
  BY DEF IInv, TypeOK, RecordInv, RecordsAreHonest, Rank
<1> QED
  BY <1>1, Inductive, PTL

\* Over a line transport a write that is stored as failed never reached the
\* server, unless the Run was cancelled (tool_exec.rs, run_executor).
THEOREM FailedWriteWasNotSent == Spec => []LineFailureWasNotSent
<1>1. IInv => LineFailureWasNotSent
  BY DEF IInv, FailureInv, Unsent, LineFailureWasNotSent
<1> QED
  BY <1>1, Inductive, PTL

-----------------------------------------------------------------------------
(* Pushed events: the inductive invariant.                                    *)

\* What one flush knows: a watermark that was right when it was loaded, a later
\* event, and an interval of events that are committed.
Local(x) ==
  /\ x.pc # "idle" => x.last <= lastPushed
  /\ x.pc \in {"replay", "claim"} => x.last < x.latest /\ x.latest <= latest
  /\ \E a, b \in Nat : x.batch = a .. b
  /\ \A e \in x.batch : e <= latest
  /\ x.pc = "claim" => \A e \in x.batch : x.last < e

Bounds ==
  /\ lastPushed <= latest
  /\ \A e \in Events : sent[e] > 0 => e <= latest
  /\ \A f \in Flushers : Local(flush[f])

Holders(e) == {f \in Flushers : flush[f].pc = "send" /\ e \in flush[f].batch}

\* What is sent of an event and what is about to be: at most once, at most twice.
Once(e) ==
  /\ sent[e] = 0 \/ sent[e] = 1
  /\ sent[e] = 1 => Holders(e) = {}
  /\ \A f, g \in Holders(e) : f = g
Twice(e) ==
  /\ sent[e] = 0 \/ sent[e] = 1 \/ sent[e] = 2
  /\ sent[e] = 2 => Holders(e) = {}
  /\ sent[e] = 1 => \A f, g \in Holders(e) : f = g
  /\ \A f, g, h \in Holders(e) : f = g \/ g = h \/ f = h

\* An event beyond the watermark that was read too early is covered by every flush
\* that may still claim the range after the watermark.
Covered(e, x) == x.pc \in {"replay", "claim"} /\ x.last = lastPushed => e <= x.latest
Copies(e) ==
  /\ Twice(e)
  /\ e > lastPushed => Once(e)
  /\ e > lastPushed /\ (sent[e] > 0 \/ Holders(e) # {}) => \A f \in Flushers : Covered(e, flush[f])

PushInv == PushTypeOK /\ Bounds /\ \A e \in Events : Copies(e)

-----------------------------------------------------------------------------
(* The steps.                                                                 *)

LEMMA IdleType == Idle \in FlushState /\ Idle.pc = "idle" /\ Idle.batch = 1 .. 0
BY DEF Idle, FlushState

LEMMA IdleLocal == Local(Idle) /\ Local(Idle)'
BY IdleType DEF Local

\* Only one flush changes, and neither the watermark nor the events do.
LEMMA BoundsOfOne ==
  ASSUME Bounds, UNCHANGED <<latest, lastPushed>>, \A e \in Events : sent'[e] > 0 => e <= latest,
         NEW f \in Flushers, Local(flush'[f]), \A g \in Flushers \ {f} : flush'[g] = flush[g]
  PROVE  Bounds'
<1>1. ASSUME NEW g \in Flushers PROVE Local(flush[g])'
  <2>1. Local(flush[g]) => (flush'[g] = flush[g] => Local(flush[g])')
    BY DEF Local
  <2>2. Local(flush'[f]) => (g = f => Local(flush[g])')
    BY DEF Local
  <2> QED
    BY <2>1, <2>2 DEF Bounds
<1> QED
  BY <1>1 DEF Bounds

LEMMA PushInitInv == PushInit => PushInv
<1> SUFFICES ASSUME PushInit PROVE PushInv
  OBVIOUS
<1>1. /\ latest = 0 /\ lastPushed = 0 /\ booted = 0 /\ restarts = 0 /\ overflow = {}
      /\ \A f \in Flushers : flush[f] = Idle
      /\ \A e \in Events : sent[e] = 0
      /\ flush = [f \in Flushers |-> Idle] /\ sent = [e \in Events |-> 0]
  BY DEF PushInit
<1>3. PushTypeOK
  BY <1>1, IdleType DEF PushTypeOK
<1>4. Bounds
  BY <1>1, IdleLocal DEF Bounds
<1>5. \A e \in Events : Copies(e)
  BY <1>1, IdleType DEF Copies, Twice, Once, Holders, Covered, Events
<1> QED
  BY <1>3, <1>4, <1>5 DEF PushInv

\* One flush moves on without having claimed its range.
LEMMA OwnStep ==
  ASSUME PushInv, NEW f \in Flushers, NEW x \in FlushState, flush' = [flush EXCEPT ![f] = x],
         UNCHANGED <<latest, lastPushed, sent, booted, overflow, restarts>>,
         flush[f].pc # "send", x.pc # "send", Local(x),
         x.pc \in {"replay", "claim"} =>
           \/ x.latest = latest
           \/ /\ flush[f].pc \in {"replay", "claim"}
              /\ x.last = flush[f].last /\ x.latest = flush[f].latest
  PROVE  PushInv'
<1>1. /\ PushTypeOK /\ Bounds /\ flush \in [Flushers -> FlushState] /\ latest \in Nat /\ lastPushed \in Nat
      /\ sent \in [Events -> Nat]
  BY DEF PushInv, PushTypeOK, Events
<1>2. flush' \in [Flushers -> FlushState] /\ flush'[f] = x /\ \A g \in Flushers \ {f} : flush'[g] = flush[g]
  BY <1>1
<1>3. PushTypeOK'
  BY <1>1, <1>2 DEF PushTypeOK
<1>4. Bounds'
  BY <1>1, <1>2, BoundsOfOne DEF Bounds
<1>5. ASSUME NEW e \in Events PROVE Copies(e)'
  <2>1. Copies(e) /\ e \in Nat /\ sent[e] \in Nat
    BY <1>1 DEF PushInv, Events
  <2>2. Holders(e)' = Holders(e)
    BY <1>2 DEF Holders
  <2>3. sent[e] > 0 \/ Holders(e) # {} => e <= latest
    BY <1>1 DEF Bounds, Holders, Local
  <2>4. Twice(e)' /\ (e > lastPushed => Once(e)')
    BY <2>1, <2>2 DEF Copies, Twice, Once
  <2>5. ASSUME e > lastPushed, sent[e] > 0 \/ Holders(e) # {}, NEW g \in Flushers
        PROVE  Covered(e, flush[g])'
    <3>1. Covered(e, flush[g])
      BY <2>1, <2>5 DEF Copies
    <3>2. CASE g # f
      BY <1>2, <3>1, <3>2 DEF Covered
    <3>3. CASE g = f
      BY <1>2, <2>3, <2>5, <3>1, <3>3 DEF Covered
    <3> QED
      BY <3>2, <3>3
  <2> QED
    BY <2>2, <2>4, <2>5 DEF Copies
<1> QED
  BY <1>3, <1>4, <1>5 DEF PushInv

LEMMA Emitted ==
  ASSUME PushInv, Emit
  PROVE  PushInv'
<1>1. /\ PushTypeOK /\ Bounds /\ latest \in Nat /\ lastPushed \in Nat /\ latest' = latest + 1
      /\ latest < MaxEvents /\ UNCHANGED <<lastPushed, flush, sent, booted, overflow, restarts>>
      /\ flush \in [Flushers -> FlushState] /\ sent \in [Events -> Nat]
  BY DEF PushInv, PushTypeOK, Events, Emit
<1>2. PushTypeOK'
  BY <1>1 DEF PushTypeOK, Events
<1>3. Bounds'
  <2>1. ASSUME NEW f \in Flushers PROVE Local(flush[f])'
    <3>1. Local(flush[f]) /\ flush[f].last \in Nat /\ flush[f].latest \in Nat /\ flush[f].batch \subseteq Nat
      BY <1>1 DEF Bounds, FlushState, Events
    <3> QED
      BY <1>1, <3>1 DEF Local
  <2>2. \A e \in Events : e \in Nat
    BY DEF Events
  <2> QED
    BY <1>1, <2>1, <2>2 DEF Bounds
<1>4. \A e \in Events : Copies(e)'
  BY <1>1 DEF PushInv, Copies, Twice, Once, Holders, Covered
<1> QED
  BY <1>2, <1>3, <1>4 DEF PushInv

LEMMA Stepped ==
  ASSUME PushInv, NEW f \in Flushers, Load(f) \/ Query(f) \/ Replay(f) \/ ReadFails(f)
  PROVE  PushInv'
<1>1. /\ PushTypeOK /\ Bounds /\ flush[f] \in FlushState /\ latest \in Events \cup {0}
      /\ lastPushed \in Events \cup {0} /\ flush[f].pc # "send"
      /\ UNCHANGED <<latest, lastPushed, sent, booted, overflow, restarts>>
  BY DEF PushInv, PushTypeOK, Load, Query, Replay, ReadFails
<1>2. flush[f].last \in Nat /\ latest \in Nat /\ lastPushed \in Nat
  BY <1>1 DEF FlushState, Events
<1>3. Local(Idle)
  BY IdleType DEF Local
<1>4. CASE Load(f)
  <2> DEFINE x == [Idle EXCEPT !.pc = "query", !.last = lastPushed]
  <2>1. x \in FlushState /\ x.pc = "query" /\ x.last = lastPushed /\ x.batch = 1 .. 0
    BY <1>1, IdleType DEF FlushState, Idle
  <2>2. flush' = [flush EXCEPT ![f] = x]
    BY <1>4 DEF Load
  <2> HIDE DEF x
  <2>3. Local(x)
    BY <1>2, <2>1 DEF Local
  <2> QED
    BY <1>1, <2>1, <2>2, <2>3, OwnStep
<1>5. CASE Query(f) /\ latest > flush[f].last
  <2> DEFINE x == [flush[f] EXCEPT !.pc = "replay", !.latest = latest]
  <2>1. /\ x \in FlushState /\ x.pc = "replay" /\ x.last = flush[f].last /\ x.latest = latest
        /\ x.batch = flush[f].batch
    BY <1>1 DEF FlushState
  <2>2. flush' = [flush EXCEPT ![f] = x] /\ flush[f].pc = "query"
    BY <1>5 DEF Query
  <2> HIDE DEF x
  <2>3. Local(flush[f])
    BY <1>1 DEF Bounds
  <2>4. Local(x)
    BY <1>2, <1>5, <2>1, <2>2, <2>3 DEF Local
  <2> QED
    BY <1>1, <2>1, <2>2, <2>4, OwnStep
<1>6. CASE Replay(f)
  <2> DEFINE x == [flush[f] EXCEPT !.pc = "claim", !.batch = Replayed(flush[f].last)]
             hi == IF latest <= flush[f].last + Limit THEN latest ELSE flush[f].last + Limit
  <2>1. /\ Replayed(flush[f].last) = flush[f].last + 1 .. hi
        /\ flush[f].last + 1 \in Nat /\ hi \in Nat /\ hi <= latest
    BY <1>2 DEF Replayed
  <2>2. Replayed(flush[f].last) \subseteq Events
    BY <1>1, <1>2, <2>1 DEF Events
  <2>3. /\ x \in FlushState /\ x.pc = "claim" /\ x.last = flush[f].last /\ x.latest = flush[f].latest
        /\ x.batch = flush[f].last + 1 .. hi
    BY <1>1, <2>1, <2>2 DEF FlushState
  <2>4. flush' = [flush EXCEPT ![f] = x] /\ flush[f].pc = "replay"
    BY <1>6 DEF Replay
  <2>5. Local(flush[f])
    BY <1>1 DEF Bounds
  <2> HIDE DEF x, hi
  <2>6. \A e \in x.batch : e <= latest /\ x.last < e
    BY <1>2, <2>1, <2>3
  <2>7. Local(x)
    BY <2>1, <2>3, <2>4, <2>5, <2>6 DEF Local
  <2> QED
    BY <1>1, <2>3, <2>4, <2>7, OwnStep
<1>7. CASE flush' = [flush EXCEPT ![f] = Idle]
  BY <1>1, <1>3, <1>7, IdleType, OwnStep
<1> QED
  BY <1>4, <1>5, <1>6, <1>7 DEF Query, ReadFails, AfterError

\* The compare-exchange succeeds: nobody else holds the new watermark, so what is
\* read beyond it was read for the first time.
LEMMA ClaimWon ==
  ASSUME PushInv, NEW f \in Flushers, Claim(f), Claimable(f)
  PROVE  PushInv'
<1> DEFINE x == [flush[f] EXCEPT !.pc = "send"]
<1>1. /\ PushTypeOK /\ Bounds /\ flush \in [Flushers -> FlushState] /\ latest \in Nat /\ lastPushed \in Nat
      /\ sent \in [Events -> Nat] /\ flush[f] \in FlushState /\ flush[f].pc = "claim"
      /\ lastPushed = flush[f].last /\ lastPushed' = flush[f].latest
      /\ UNCHANGED <<latest, sent, booted, restarts>>
  BY DEF PushInv, PushTypeOK, Events, Claim, Claimable
<1>2. /\ x \in FlushState /\ x.pc = "send" /\ x.last = flush[f].last /\ x.batch = flush[f].batch
  BY <1>1 DEF FlushState
<1>3. flush' = [flush EXCEPT ![f] = x]
  BY DEF Claim, Claimable
<1> HIDE DEF x
<1>4. flush' \in [Flushers -> FlushState] /\ flush'[f] = x /\ \A g \in Flushers \ {f} : flush'[g] = flush[g]
  BY <1>1, <1>2, <1>3
<1>5. Local(flush[f]) /\ flush[f].latest \in Nat /\ flush[f].latest \in Events \cup {0}
  BY <1>1 DEF Bounds, FlushState, Events
<1>6. lastPushed < flush[f].latest /\ flush[f].latest <= latest
  BY <1>1, <1>5 DEF Local
<1>7. PushTypeOK'
  <2>1. flush[f].last \in Nat /\ flush[f].latest \in 0 .. MaxEvents
    BY <1>1, <1>5 DEF FlushState, Events
  <2>2. Overrun(flush[f].last, flush[f].latest) \subseteq Events
    BY <2>1 DEF Overrun, Events
  <2>3. overflow' = overflow \cup Overrun(flush[f].last, flush[f].latest)
    BY DEF Claim
  <2>4. overflow' \in SUBSET Events
    BY <1>1, <2>2, <2>3 DEF PushTypeOK
  <2> QED
    BY <1>1, <1>4, <1>5, <2>4 DEF PushTypeOK
<1>8. ASSUME NEW g \in Flushers
      PROVE  Local(flush[g])' /\ (flush'[g].pc \in {"replay", "claim"} => flush'[g].last # lastPushed')
  <2>1. Local(flush[g]) /\ flush[g].last \in Nat
    BY <1>1 DEF Bounds, FlushState, Events
  <2>2. CASE g = f
    BY <1>1, <1>2, <1>4, <1>5, <1>6, <2>2 DEF Local
  <2>3. CASE g # f
    BY <1>1, <1>4, <1>5, <1>6, <2>1, <2>3 DEF Local
  <2> QED
    BY <2>2, <2>3
<1>9. Bounds'
  BY <1>1, <1>6, <1>8 DEF Bounds
<1>10. ASSUME NEW e \in Events PROVE Copies(e)'
  <2>1. Copies(e) /\ e \in Nat /\ sent[e] \in Nat
    BY <1>1 DEF PushInv, Events
  <2>2. Holders(e)' = IF e \in flush[f].batch THEN Holders(e) \cup {f} ELSE Holders(e)
    BY <1>1, <1>2, <1>4 DEF Holders
  <2>3. CASE e \notin flush[f].batch
    BY <1>1, <1>5, <1>6, <1>8, <2>1, <2>2, <2>3 DEF Copies, Once, Twice, Covered
  <2>4. CASE e \in flush[f].batch
    <3>1. e > lastPushed
      BY <1>1, <1>5, <2>1, <2>4 DEF Local
    <3>2. Once(e)
      BY <2>1, <3>1 DEF Copies
    <3>3. Twice(e)'
      BY <1>1, <2>1, <2>2, <2>4, <3>2 DEF Once, Twice
    <3>4. ASSUME e > lastPushed' PROVE Once(e)'
      <4>1. sent[e] = 0 /\ Holders(e) = {}
        BY <1>1, <1>5, <2>1, <3>1, <3>4 DEF Copies, Covered
      <4> QED
        BY <1>1, <2>2, <2>4, <4>1 DEF Once
    <3> QED
      BY <1>8, <3>3, <3>4 DEF Copies, Covered
  <2> QED
    BY <2>3, <2>4
<1> QED
  BY <1>7, <1>9, <1>10 DEF PushInv

LEMMA Claimed ==
  ASSUME PushInv, NEW f \in Flushers, Claim(f)
  PROVE  PushInv'
<1>1. CASE Claimable(f)
  BY <1>1, ClaimWon
<1>2. CASE ~Claimable(f)
  <2>1. /\ flush' = [flush EXCEPT ![f] = Idle] /\ flush[f].pc = "claim"
        /\ UNCHANGED <<latest, lastPushed, sent, booted, overflow, restarts>>
    BY <1>2 DEF Claim
  <2>2. Local(Idle)
    BY IdleType DEF Local
  <2> QED
    BY <2>1, <2>2, IdleType, OwnStep
<1> QED
  BY <1>1, <1>2

LEMMA Sent ==
  ASSUME PushInv, NEW f \in Flushers, Send(f)
  PROVE  PushInv'
<1>1. /\ PushTypeOK /\ Bounds /\ flush \in [Flushers -> FlushState] /\ latest \in Nat /\ lastPushed \in Nat
      /\ sent \in [Events -> Nat] /\ flush[f] \in FlushState /\ flush[f].pc = "send"
      /\ UNCHANGED <<latest, lastPushed, booted, overflow, restarts>>
  BY DEF PushInv, PushTypeOK, Events, Send
<1>2. CASE flush[f].batch = {}
  <2>1. /\ flush' = [flush EXCEPT ![f] = Idle] /\ UNCHANGED sent
    BY <1>2 DEF Send
  <2>2. flush' \in [Flushers -> FlushState] /\ flush'[f] = Idle /\ \A g \in Flushers \ {f} : flush'[g] = flush[g]
    BY <1>1, <2>1, IdleType
  <2>3. PushTypeOK'
    BY <1>1, <2>1, <2>2 DEF PushTypeOK
  <2>4. Bounds'
    BY <1>1, <2>1, <2>2, IdleLocal, BoundsOfOne DEF Bounds
  <2>5. ASSUME NEW e \in Events PROVE Copies(e)'
    <3>1. Holders(e)' = Holders(e)
      BY <1>1, <1>2, <2>2, IdleType DEF Holders
    <3>2. \A g \in Flushers : Covered(e, flush[g]) => Covered(e, flush[g])'
      BY <1>1, <2>2, IdleType DEF Covered
    <3> QED
      BY <1>1, <2>1, <3>1, <3>2 DEF PushInv, Copies, Once, Twice
  <2> QED
    BY <2>3, <2>4, <2>5 DEF PushInv
<1>3. CASE flush[f].batch # {}
  <2>1. PICK a, b \in Nat : flush[f].batch = a .. b
    BY <1>1 DEF Bounds, Local
  <2>2. a <= b /\ a \in flush[f].batch /\ a \in Events /\ a <= latest
    BY <1>1, <1>3, <2>1 DEF Bounds, Local, FlushState
  <2>3. Min(flush[f].batch) = a
    BY <2>1, <2>2 DEF Min
  <2> DEFINE x == [flush[f] EXCEPT !.batch = flush[f].batch \ {a}]
  <2>4. /\ x \in FlushState /\ x.pc = "send" /\ x.last = flush[f].last
        /\ x.batch = flush[f].batch \ {a}
    BY <1>1 DEF FlushState
  <2>5. flush' = [flush EXCEPT ![f] = x] /\ sent' = [sent EXCEPT ![a] = sent[a] + 1]
    BY <1>3, <2>3 DEF Send
  <2> HIDE DEF x
  <2>6. /\ flush' \in [Flushers -> FlushState] /\ flush'[f] = x
        /\ \A g \in Flushers \ {f} : flush'[g] = flush[g]
    BY <1>1, <2>4, <2>5
  <2>7. /\ sent' \in [Events -> Nat] /\ sent'[a] = sent[a] + 1 /\ sent[a] \in Nat
        /\ \A e \in Events \ {a} : sent'[e] = sent[e]
    BY <1>1, <2>2, <2>5
  <2>8. PushTypeOK'
    BY <1>1, <2>6, <2>7 DEF PushTypeOK
  <2>9. x.batch = a + 1 .. b /\ a + 1 \in Nat
    BY <2>1, <2>4
  <2>10. Bounds'
    <3>1. Local(flush[f])
      BY <1>1 DEF Bounds
    <3>2. Local(x)
      BY <1>1, <2>4, <2>9, <3>1 DEF Local
    <3>3. \A e \in Events : sent'[e] > 0 => e <= latest
      BY <1>1, <2>2, <2>7 DEF Bounds
    <3> QED
      BY <1>1, <2>6, <3>2, <3>3, BoundsOfOne
  <2>11. ASSUME NEW e \in Events PROVE Copies(e)'
    <3>1. Copies(e) /\ f \in Holders(a) /\ e \in Nat
      BY <1>1, <2>2 DEF PushInv, Holders, Events
    <3>2. \A g \in Flushers : Covered(e, flush[g]) => Covered(e, flush[g])'
      BY <1>1, <2>4, <2>6 DEF Covered
    <3>3. CASE e # a
      <4>1. Holders(e)' = Holders(e)
        BY <1>1, <2>4, <2>6, <3>3 DEF Holders
      <4> QED
        BY <1>1, <2>7, <3>1, <3>2, <3>3, <4>1 DEF Copies, Once, Twice
    <3>4. CASE e = a
      <4>1. Holders(e)' = Holders(e) \ {f}
        BY <1>1, <2>4, <2>6, <3>4 DEF Holders
      <4>2. Twice(e)'
        BY <2>7, <3>1, <3>4, <4>1 DEF Copies, Twice
      <4>3. e > lastPushed => Once(e)'
        BY <2>7, <3>1, <3>4, <4>1 DEF Copies, Once
      <4>4. e > lastPushed => \A g \in Flushers : Covered(e, flush[g])'
        BY <3>1, <3>2, <3>4 DEF Copies
      <4> QED
        BY <1>1, <4>2, <4>3, <4>4 DEF Copies
    <3> QED
      BY <3>3, <3>4
  <2> QED
    BY <2>8, <2>10, <2>11 DEF PushInv
<1> QED
  BY <1>2, <1>3

LEMMA Restarted ==
  ASSUME PushInv, Restart
  PROVE  PushInv'
<1>1. /\ PushTypeOK /\ latest \in Events \cup {0} /\ latest \in Nat
      /\ lastPushed' = latest /\ booted' = latest /\ latest' = latest
      /\ restarts \in 0 .. MaxRestarts /\ restarts < MaxRestarts /\ restarts' = restarts + 1
      /\ flush' = [f \in Flushers |-> Idle] /\ sent' = [e \in Events |-> 0] /\ overflow' = {}
  BY DEF PushInv, PushTypeOK, Events, Restart
<1>2. PushTypeOK'
  BY <1>1, IdleType DEF PushTypeOK
<1>3. Bounds'
  <2>1. \A f \in Flushers : flush'[f] = Idle
    BY <1>1
  <2> QED
    BY <1>1, <2>1, IdleLocal DEF Bounds
<1>4. \A e \in Events : Copies(e)'
  BY <1>1, IdleType DEF Copies, Twice, Once, Holders, Covered, Events
<1> QED
  BY <1>2, <1>3, <1>4 DEF PushInv

LEMMA PushNextInv ==
  ASSUME PushInv, [PushNext]_pushVars
  PROVE  PushInv'
<1>1. CASE PushNext
  BY <1>1, Emitted, Restarted, Stepped, Claimed, Sent DEF PushNext, Step
<1>2. CASE UNCHANGED pushVars
  <2>1. PushTypeOK' /\ Bounds'
    BY <1>2 DEF pushVars, PushInv, PushTypeOK, Bounds, Local
  <2>2. \A e \in Events : Copies(e)'
    BY <1>2 DEF pushVars, PushInv, Copies, Twice, Once, Holders, Covered
  <2> QED
    BY <2>1, <2>2 DEF PushInv
<1> QED
  BY <1>1, <1>2

LEMMA PushInductive == PushSpec => []PushInv
BY PushInitInv, PushNextInv, PTL DEF PushSpec

-----------------------------------------------------------------------------
(* What a claim leaves to be sent.                                            *)

\* A flush that may still claim has read all that one replay returns of its range.
ReadAll == \A f \in Flushers :
  flush[f].pc = "claim" =>
    \A e \in flush[f].last + 1 .. flush[f].latest :
      e <= flush[f].last + Limit => e \in flush[f].batch

\* A flush that may claim after this step could claim before it, or has just read.
LEMMA ClaimsAfter ==
  ASSUME PushInv, [PushNext]_pushVars, NEW g \in Flushers, flush'[g].pc = "claim"
  PROVE  flush'[g] = flush[g] \/ Replay(g)
<1>1. flush \in [Flushers -> FlushState] /\ Idle.pc = "idle"
  BY IdleType DEF PushInv, PushTypeOK
<1>2. CASE Emit \/ UNCHANGED pushVars
  BY <1>2 DEF Emit, pushVars
<1>3. CASE Restart
  BY <1>1, <1>3 DEF Restart
<1>4. ASSUME NEW f \in Flushers, Step(f) \/ ReadFails(f)
      PROVE  flush'[g] = flush[g] \/ Replay(g)
  <2>1. CASE f = g /\ ~Replay(g)
    <3>1. CASE Load(g) \/ ReadFails(g) \/ Query(g)
      BY <1>1, <3>1 DEF Load, Query, ReadFails, AfterError, FlushState, Idle
    <3>2. CASE Claim(g)
      BY <1>1, <3>2 DEF Claim, FlushState
    <3>3. CASE Send(g)
      BY <1>1, <3>3 DEF Send, FlushState
    <3> QED
      BY <1>4, <2>1, <3>1, <3>2, <3>3 DEF Step
  <2>2. CASE f # g
    BY <1>1, <1>4, <2>2 DEF Step, Load, Query, Replay, Claim, Send, ReadFails
  <2> QED
    BY <2>1, <2>2
<1> QED
  BY <1>2, <1>3, <1>4 DEF PushNext

\* What the replay gives the flush.
LEMMA ReadNow ==
  ASSUME PushInv, NEW g \in Flushers, Replay(g)
  PROVE  /\ flush'[g].last = flush[g].last /\ flush'[g].latest = flush[g].latest
         /\ flush'[g].batch = Replayed(flush[g].last)
         /\ flush[g].last \in Nat /\ flush[g].latest \in Nat /\ latest \in Nat
         /\ flush[g].latest <= latest
<1>1. /\ flush \in [Flushers -> FlushState] /\ flush[g].pc = "replay" /\ Local(flush[g])
      /\ flush[g].last \in Nat /\ flush[g].latest \in Nat /\ latest \in Nat
  <2>1. flush \in [Flushers -> FlushState] /\ flush[g].pc = "replay" /\ latest \in Nat
    BY DEF Replay, PushInv, PushTypeOK, Events
  <2>2. flush[g].last \in Nat /\ flush[g].latest \in Nat
    BY <2>1 DEF FlushState, Events
  <2>3. Local(flush[g])
    BY DEF PushInv, Bounds
  <2> QED
    BY <2>1, <2>2, <2>3
<1>2. flush[g].latest <= latest
  BY <1>1 DEF Local
<1>3. PICK b : b = Replayed(flush[g].last)
  OBVIOUS
<1>4. flush' = [flush EXCEPT ![g].pc = "claim", ![g].batch = b]
  BY <1>3 DEF Replay
<1>5. /\ flush'[g].last = flush[g].last /\ flush'[g].latest = flush[g].latest
      /\ flush'[g].batch = b
  BY <1>1, <1>4 DEF FlushState
<1> QED
  BY <1>1, <1>2, <1>3, <1>5

LEMMA ReadAllKept ==
  ASSUME PushInv, ReadAll, [PushNext]_pushVars
  PROVE  ReadAll'
<1> SUFFICES ASSUME NEW g \in Flushers, flush'[g].pc = "claim",
                    NEW e \in flush'[g].last + 1 .. flush'[g].latest, e <= flush'[g].last + Limit
             PROVE  e \in flush'[g].batch
  BY DEF ReadAll
<1>1. CASE flush'[g] = flush[g]
  BY <1>1 DEF ReadAll
<1>2. CASE Replay(g)
  BY <1>2, ReadNow DEF Replayed
<1> QED
  BY <1>1, <1>2, ClaimsAfter

LEMMA SkipsNoOther ==
  ASSUME PushInv, ReadAll, OnlyOverflowSkipped, [PushNext]_pushVars
  PROVE  OnlyOverflowSkipped'
<1> SUFFICES ASSUME NEW e \in Events, booted' < e, e <= lastPushed'
             PROVE  (sent[e] > 0 \/ InHand(e) \/ e \in overflow)'
  BY DEF OnlyOverflowSkipped
<1>1. /\ flush \in [Flushers -> FlushState] /\ latest \in Nat /\ lastPushed \in Nat /\ booted \in Nat
      /\ sent \in [Events -> Nat] /\ e \in Nat /\ sent[e] \in Nat
  BY DEF PushInv, PushTypeOK, Events
<1>2. CASE Emit \/ UNCHANGED pushVars
  BY <1>2 DEF Emit, pushVars, OnlyOverflowSkipped, InHand
<1>3. CASE Restart
  BY <1>1, <1>3 DEF Restart
<1>4. ASSUME NEW f \in Flushers, flush[f].pc # "send", UNCHANGED <<lastPushed, sent, booted, overflow>>,
             \A g \in Flushers \ {f} : flush'[g] = flush[g]
      PROVE  (sent[e] > 0 \/ InHand(e) \/ e \in overflow)'
  BY <1>4 DEF OnlyOverflowSkipped, InHand
<1>5. ASSUME NEW f \in Flushers, Load(f) \/ Query(f) \/ Replay(f) \/ ReadFails(f) \/ (Claim(f) /\ ~Claimable(f))
      PROVE  (sent[e] > 0 \/ InHand(e) \/ e \in overflow)'
  <2>1. flush[f].pc # "send" /\ UNCHANGED <<lastPushed, sent, booted, overflow>>
    BY <1>5 DEF Load, Query, Replay, ReadFails, Claim
  <2>2. \A g \in Flushers \ {f} : flush'[g] = flush[g]
    BY <1>1, <1>5 DEF Load, Query, Replay, ReadFails, Claim
  <2> QED
    BY <1>4, <2>1, <2>2
<1>6. ASSUME NEW f \in Flushers, Claim(f), Claimable(f)
      PROVE  (sent[e] > 0 \/ InHand(e) \/ e \in overflow)'
  <2>1. /\ flush[f].pc = "claim" /\ lastPushed = flush[f].last /\ lastPushed' = flush[f].latest
        /\ flush'[f].pc = "send" /\ flush'[f].batch = flush[f].batch
        /\ \A g \in Flushers \ {f} : flush'[g] = flush[g]
        /\ UNCHANGED <<sent, booted>> /\ flush[f].latest \in Nat
        /\ overflow' = overflow \cup Overrun(flush[f].last, flush[f].latest)
    BY <1>1, <1>6 DEF Claim, Claimable, FlushState, Events
  <2>2. CASE e <= lastPushed
    BY <2>1, <2>2 DEF OnlyOverflowSkipped, InHand
  <2>3. CASE e > lastPushed
    <3>1. e \in flush[f].last + 1 .. flush[f].latest
      BY <1>1, <2>1, <2>3
    <3>2. CASE e <= flush[f].last + Limit
      <4>1. e \in flush[f].batch
        BY <2>1, <3>1, <3>2 DEF ReadAll
      <4> QED
        BY <2>1, <4>1 DEF InHand
    <3>3. CASE ~(e <= flush[f].last + Limit)
      BY <1>1, <2>1, <3>1, <3>3 DEF Overrun
    <3> QED
      BY <3>2, <3>3
  <2> QED
    BY <1>1, <2>2, <2>3
<1>7. ASSUME NEW f \in Flushers, Send(f)
      PROVE  (sent[e] > 0 \/ InHand(e) \/ e \in overflow)'
  <2>1. sent[e] > 0 \/ InHand(e) \/ e \in overflow
    BY <1>7 DEF Send, OnlyOverflowSkipped
  <2>2. CASE flush[f].batch = {}
    <3>1. UNCHANGED <<sent, overflow>> /\ \A g \in Flushers \ {f} : flush'[g] = flush[g]
      BY <1>1, <1>7, <2>2 DEF Send
    <3> QED
      BY <2>1, <2>2, <3>1 DEF InHand
  <2>3. CASE flush[f].batch # {}
    <3>1. PICK m : m = Min(flush[f].batch)
      OBVIOUS
    <3>2. /\ flush' = [flush EXCEPT ![f].batch = flush[f].batch \ {m}]
          /\ sent' = [sent EXCEPT ![m] = sent[m] + 1] /\ overflow' = overflow
      BY <1>7, <2>3, <3>1 DEF Send
    <3>3. /\ flush'[f].pc = flush[f].pc /\ flush'[f].batch = flush[f].batch \ {m}
          /\ \A g \in Flushers \ {f} : flush'[g] = flush[g]
      BY <1>1, <3>2 DEF FlushState
    <3>4. sent'[e] = IF e = m THEN sent[e] + 1 ELSE sent[e]
      BY <1>1, <3>2
    <3>5. CASE e = m \/ e \in overflow \/ sent[e] > 0
      BY <1>1, <3>2, <3>4, <3>5
    <3>6. CASE e # m /\ InHand(e)
      BY <3>3, <3>6 DEF InHand
    <3> QED
      BY <2>1, <3>5, <3>6
  <2> QED
    BY <2>2, <2>3
<1> QED
  BY <1>2, <1>3, <1>5, <1>6, <1>7 DEF PushNext, Step

-----------------------------------------------------------------------------
(* Backlogs that fit one replay.                                              *)

\* No replay finds more than it may return.
BacklogFits == \A f \in Flushers : flush[f].pc = "replay" => latest <= flush[f].last + Limit

\* Then no claim passes more than was read.
NoOverflow ==
  /\ overflow = {}
  /\ \A f \in Flushers : flush[f].pc = "claim" => flush[f].latest <= flush[f].last + Limit

LEMMA NoOverflowKept ==
  ASSUME PushInv, BacklogFits, NoOverflow, [PushNext]_pushVars
  PROVE  NoOverflow'
<1>1. ASSUME NEW g \in Flushers, flush'[g].pc = "claim"
      PROVE  (flush[g].latest <= flush[g].last + Limit)'
  <2>1. CASE flush'[g] = flush[g]
    BY <1>1, <2>1 DEF NoOverflow
  <2>2. CASE Replay(g)
    <3>1. latest <= flush[g].last + Limit
      BY <2>2 DEF BacklogFits, Replay
    <3> QED
      BY <2>2, <3>1, ReadNow
  <2> QED
    BY <1>1, <2>1, <2>2, ClaimsAfter
<1>2. overflow' = {}
  <2>1. ASSUME NEW f \in Flushers, Claim(f) PROVE overflow' = {}
    <3>1. /\ flush[f].pc = "claim" /\ flush[f].last \in Nat /\ flush[f].latest \in Nat
      BY <2>1 DEF PushInv, PushTypeOK, FlushState, Events, Claim
    <3>2. Overrun(flush[f].last, flush[f].latest) = {}
      BY <2>1, <3>1 DEF NoOverflow, Overrun
    <3> QED
      BY <2>1, <3>2 DEF NoOverflow, Claim
  <2> QED
    BY <2>1 DEF NoOverflow, PushNext, Step, Emit, Restart, Load, Query, Replay, Send, ReadFails,
                pushVars
<1> QED
  BY <1>1, <1>2 DEF NoOverflow

-----------------------------------------------------------------------------
(* The theorems.                                                              *)

\* Every variable keeps its type (main.rs flush_once, outbox.rs).
THEOREM PushTypeCorrect == PushSpec => []PushTypeOK
<1>1. PushInv => PushTypeOK
  BY DEF PushInv
<1> QED
  BY <1>1, PushInductive, PTL

\* An event that is committed between the two reads of a flush is pushed a second time
\* by the next one and by no later one, however many tasks flush and whatever the limit
\* of one replay (flush_once).
THEOREM NoThirdPush == PushSpec => []AtMostTwice
<1>1. PushInv => AtMostTwice
  BY DEF PushInv, AtMostTwice, Copies, Twice
<1> QED
  BY <1>1, PushInductive, PTL

\* The watermark skips only what lay beyond one replay of the flush that moved it, however
\* many tasks flush, fail and lose the race, and wherever the process restarts (flush_once).
THEOREM OnlyOverflowIsSkipped == PushSpec => []OnlyOverflowSkipped
<1>1. PushInit => ReadAll /\ OnlyOverflowSkipped
  BY DEF PushInit, ReadAll, OnlyOverflowSkipped, Idle, Events
<1>2. PushInv /\ ReadAll /\ OnlyOverflowSkipped /\ [PushNext]_pushVars
        => (ReadAll /\ OnlyOverflowSkipped)'
  BY ReadAllKept, SkipsNoOther
<1> QED
  BY <1>1, <1>2, PushInductive, PTL DEF PushSpec

\* As long as no flush finds more events than one replay returns, the watermark never
\* passes an event that is neither sent nor about to be (flush_once, outbox::replay).
THEOREM WatermarkSkipsNothing == PushSpec /\ []BacklogFits => []NothingSkipped
<1>1. PushInit => NoOverflow
  BY DEF PushInit, NoOverflow, Idle
<1>2. PushInv /\ BacklogFits /\ NoOverflow /\ [PushNext]_pushVars => NoOverflow'
  BY NoOverflowKept
<1>3. NoOverflow /\ OnlyOverflowSkipped => NothingSkipped
  BY DEF NoOverflow, OnlyOverflowSkipped, NothingSkipped
<1> QED
  BY <1>1, <1>2, <1>3, OnlyOverflowIsSkipped, PushInductive, PTL DEF PushSpec
=============================================================================
