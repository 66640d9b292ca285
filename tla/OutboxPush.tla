----------------------------- MODULE OutboxPush -----------------------------
(***************************************************************************)
(* Pushing committed domain events to the desktop (ratiflow-core main.rs,   *)
(* store/src/outbox.rs).  Two tasks run flush_once: the 250 ms tick and the *)
(* read loop after each response.  They share only the atomic watermark     *)
(* last_pushed.  The two reads of flush_once are one job of the database    *)
(* actor, so no other flush and no RPC runs between them, but the events of *)
(* Agent Runs are committed through a second connection at any moment.      *)
(***************************************************************************)
EXTENDS Naturals, FiniteSets, FiniteSetsExt

CONSTANTS
  Flushers,      \* the tasks that call flush_once
  Ticker,        \* the one that never stops calling it
  MaxEvents,     \* bound: rows of events_outbox
  Limit,         \* rows one replay returns at most (500 in the code)
  MaxRestarts    \* bound: restarts of the process

ASSUME FlushersAssumption == Ticker \in Flushers
ASSUME LimitAssumption == Limit \in Nat \ {0} /\ MaxEvents \in Nat /\ MaxRestarts \in Nat

Events == 1 .. MaxEvents     \* events_outbox.sequence, in commit order

VARIABLES
  latest,      \* MAX(sequence) of events_outbox
  lastPushed,  \* AppState.last_pushed
  flush,       \* each task's run of flush_once
  sent,        \* how often this process has queued each event to stdout
  booted,      \* initial_seq of this process
  overflow,    \* history: events a claim has passed that its replay had no room for
  restarts

pushVars == <<latest, lastPushed, flush, sent, booted, overflow, restarts>>

Idle == [pc |-> "idle", last |-> 0, latest |-> 0, batch |-> {}]

PushInit ==
  /\ latest = 0 /\ lastPushed = 0 /\ booted = 0 /\ restarts = 0
  /\ flush = [f \in Flushers |-> Idle]
  /\ sent = [e \in Events |-> 0] /\ overflow = {}

\* outbox::emit, on either connection.
Emit ==
  /\ latest < MaxEvents
  /\ latest' = latest + 1
  /\ UNCHANGED <<lastPushed, flush, sent, booted, overflow, restarts>>

\* last_pushed.load
Load(f) ==
  /\ flush[f].pc = "idle"
  /\ flush' = [flush EXCEPT ![f] = [Idle EXCEPT !.pc = "query", !.last = lastPushed]]
  /\ UNCHANGED <<latest, lastPushed, sent, booted, overflow, restarts>>

ActorFree == \A f \in Flushers : flush[f].pc # "replay"

\* outbox::latest_sequence, the first read of the job: the actor is free.
Query(f) ==
  /\ flush[f].pc = "query" /\ ActorFree
  /\ flush' = [flush EXCEPT ![f] =
       IF latest > flush[f].last THEN [@ EXCEPT !.pc = "replay", !.latest = latest]
                                 ELSE Idle]
  /\ UNCHANGED <<latest, lastPushed, sent, booted, overflow, restarts>>

Replayed(last) == {e \in last + 1 .. latest : e <= last + Limit}

\* What a claim of the range up to upTo leaves behind it without having read it.
Overrun(last, upTo) == {e \in last + 1 .. upTo : e > last + Limit}

\* outbox::replay, the second read of the job.
Replay(f) ==
  /\ flush[f].pc = "replay"
  /\ flush' = [flush EXCEPT ![f].pc = "claim", ![f].batch = Replayed(flush[f].last)]
  /\ UNCHANGED <<latest, lastPushed, sent, booted, overflow, restarts>>

\* Mutant: a failed read counts as an empty batch.
AfterErrorClaim(f) ==
  IF flush[f].pc = "replay" THEN [flush[f] EXCEPT !.pc = "claim"] ELSE Idle

\* What a failed read leaves of the flush: nothing, the next one retries.
AfterError(f) == Idle

ReadFails(f) ==
  /\ (flush[f].pc = "query" /\ ActorFree) \/ flush[f].pc = "replay"
  /\ flush' = [flush EXCEPT ![f] = AfterError(f)]
  /\ UNCHANGED <<latest, lastPushed, sent, booted, overflow, restarts>>

\* Mutant: a store instead of the compare-exchange.
ClaimableAlways(f) == flush[f].pc = "claim"

Claimable(f) == lastPushed = flush[f].last

\* last_pushed.compare_exchange(last, latest)
Claim(f) ==
  /\ flush[f].pc = "claim"
  /\ IF Claimable(f)
       THEN /\ lastPushed' = flush[f].latest
            /\ flush' = [flush EXCEPT ![f].pc = "send"]
            /\ overflow' = overflow \cup Overrun(flush[f].last, flush[f].latest)
       ELSE /\ flush' = [flush EXCEPT ![f] = Idle]
            /\ UNCHANGED <<lastPushed, overflow>>
  /\ UNCHANGED <<latest, sent, booted, restarts>>

\* One event of the batch goes to the stdout queue.
Send(f) ==
  /\ flush[f].pc = "send"
  /\ IF flush[f].batch = {}
       THEN flush' = [flush EXCEPT ![f] = Idle] /\ UNCHANGED sent
       ELSE LET e == Min(flush[f].batch)
            IN /\ flush' = [flush EXCEPT ![f].batch = @ \ {e}]
               /\ sent' = [sent EXCEPT ![e] = @ + 1]
  /\ UNCHANGED <<latest, lastPushed, booted, overflow, restarts>>

\* The process is killed and the next one starts at the latest sequence.
Restart ==
  /\ restarts < MaxRestarts
  /\ restarts' = restarts + 1
  /\ lastPushed' = latest /\ booted' = latest
  /\ flush' = [f \in Flushers |-> Idle]
  /\ sent' = [e \in Events |-> 0] /\ overflow' = {}
  /\ UNCHANGED latest

Step(f) == Load(f) \/ Query(f) \/ Replay(f) \/ Claim(f) \/ Send(f)

PushNext == \/ Emit \/ Restart
        \/ \E f \in Flushers : Step(f) \/ ReadFails(f)

\* Both tasks are polled while they have something to do; the tick comes again
\* and again, and its reads do not fail for ever.
Fairness ==
  /\ \A f \in Flushers : WF_pushVars(Claim(f)) /\ WF_pushVars(Send(f))
                           /\ WF_pushVars(Query(f) \/ ReadFails(f))
                           /\ WF_pushVars(Replay(f) \/ ReadFails(f))
  /\ WF_pushVars(Load(Ticker))
  /\ SF_pushVars(Query(Ticker)) /\ SF_pushVars(Replay(Ticker))

PushSpec == PushInit /\ [][PushNext]_pushVars /\ Fairness

-----------------------------------------------------------------------------
FlushState == [pc: {"idle", "query", "replay", "claim", "send"},
               last: Events \union {0}, latest: Events \union {0},
               batch: SUBSET Events]

PushTypeOK ==
  /\ latest \in Events \union {0}
  /\ lastPushed \in Events \union {0}
  /\ flush \in [Flushers -> FlushState]
  /\ sent \in [Events -> Nat]
  /\ booted \in Events \union {0}
  /\ overflow \in SUBSET Events
  /\ restarts \in 0 .. MaxRestarts

InHand(e) == \E f \in Flushers : flush[f].pc = "send" /\ e \in flush[f].batch

\* The watermark passes an event that is neither on its way nor sent only if the
\* flush that moved it found more than one replay returns, and the event lay beyond:
\* no failed read, no lost race and no restart skips any other.  (flush_once)
OnlyOverflowSkipped ==
  \A e \in Events :
    booted < e /\ e <= lastPushed => sent[e] > 0 \/ InHand(e) \/ e \in overflow

\* main.rs:447: no event is lost, the watermark passes none that is neither on its
\* way nor sent.  (The code does not keep it: it claims up to the latest event and
\* sends at most one replay.)
NothingSkipped ==
  \A e \in Events : booted < e /\ e <= lastPushed => sent[e] > 0 \/ InHand(e)

\* An event committed between the two reads of one flush is read again by the
\* next one, but by no later one: nothing is pushed three times.  (flush_once)
AtMostTwice == \A e \in Events : sent[e] <= 2

\* Every event committed while the process lives reaches the stdout queue, however
\* flushes race and fail; only a restart forgets it, and only a backlog above the limit
\* of one replay loses it.  (250 ms tick)
EventuallyPushed ==
  \A e \in Events : latest >= e ~> sent[e] > 0 \/ booted >= e \/ e \in overflow
=============================================================================
