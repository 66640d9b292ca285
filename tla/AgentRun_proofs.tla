--------------------------- MODULE AgentRun_proofs ---------------------------
(* Proofs about AgentRun, for every number of proposals, turns, changes of    *)
(* the provider and crashes.                                                  *)
EXTENDS AgentRun, FiniteSetTheorems, TLAPS

USE AgentAssumption

-----------------------------------------------------------------------------
(* The inductive invariant.                                                   *)

InTurn  == {"judge", "pause", "call", "mark", "record"}
Working == InTurn \cup {"turn"}

\* Only a paused Run is given a task, and a task that drives one has made it
\* run, or somebody has cancelled the row behind its back.
DriverInv ==
  /\ OneDriver
  /\ \A t \in Tasks : Driving(t) =>
       /\ boot = "up" /\ status \in {"paused", "running", "cancelled"}
       /\ status = "paused" => task[t].pc = "begin"
  /\ boot \in {"orphans", "row"} => status # "running"
  /\ rpc.op = "decide" => boot = "up"
  /\ status = "none" => Saved = {} /\ \A t \in Tasks : ~Driving(t)

\* One request is open at a time, of the proposal that the Run waits for; while a
\* task drives the Run there is none, but for the moment before the pause.
RequestInv ==
  /\ \A p, q \in Props : appr[p] = "requested" /\ appr[q] = "requested" => p = q
  /\ rpc.op = "decide" => \A p \in Props : appr[p] # "requested"
  /\ \A t \in Tasks : Driving(t) /\ task[t].pc # "pause" =>
       rpc.op = "none" /\ \A p \in Props : appr[p] # "requested"
  /\ status = "none" => \A p \in Props : appr[p] # "requested"

\* The proposals are made in their order, and called once.
ProposalInv ==
  /\ \E n \in 0 .. MaxProposals : Made = 1 .. n
  /\ \A p \in Props :
       /\ prop[p].decision = "none" => ~prop[p].gated /\ appr[p] = "none" /\ calls[p] = 0
       /\ PausesSaved => calls[p] \in {0, 1}

\* What is known of a proposal while no pause has lost its checkpoint.
Open(p) == PausesSaved => prop[p].decision = "proposed" /\ calls[p] = 0
Unsaved(p) == PausesSaved => \A s \in Seqs : ckpt[s].pend # p
Reaches(t, s) == task[t].iter >= s

\* What a task has in hand: a proposal that is open until it is called, and that no
\* checkpoint can bring back unless the task itself replaces it.
TaskInv(t) ==
  LET p == task[t].prop IN
  /\ task[t].pc \in InTurn =>
       p \in Props /\ task[t].iter < MaxIterations /\ prop[p].decision # "none"
  /\ task[t].pc \in {"judge", "pause", "call"} => Open(p)
  /\ task[t].pc \in {"judge", "pause"} => Unsaved(p)
  /\ task[t].pc = "judge" => appr[p] = "none"
  /\ task[t].pc = "call" =>
       /\ prop[p].gated => appr[p] = "approved"
       /\ Unsaved(p) \/ \A s \in Saved : Reaches(t, s)
  /\ task[t].pc = "mark" =>
       /\ task[t].result \in Decisions
       /\ PausesSaved => prop[p].decision = "proposed" /\ calls[p] = 1

Newest(s) == s \in Saved /\ \A r \in Saved : r <= s

\* The proposal that the newest checkpoint names is open, or a task is at work that
\* writes that checkpoint or a later one before the Run can pause again, or the
\* Run is not resumed any more.
CkptInv ==
  /\ Saved = {} \/ \E s \in Seqs : Newest(s)
  /\ \A s \in Seqs : ckpt[s].pend # None => prop[ckpt[s].pend].decision # "none"
  /\ \A s \in Seqs : Newest(s) /\ ckpt[s].pend # None =>
       \/ Open(ckpt[s].pend)
       \/ \E t \in Tasks : task[t].pc \in Working /\ Reaches(t, s)
       \/ status # "paused" /\ \A t \in Tasks : ~Driving(t)

IInv ==
  TypeOK /\ DriverInv /\ RequestInv /\ ProposalInv /\ (\A t \in Tasks : TaskInv(t)) /\ CkptInv

-----------------------------------------------------------------------------
(* Types.                                                                     *)

Ckpt == [saved : BOOLEAN, pend : Props \cup {None}, fp : Fingerprints]
Prop == [decision : Decisions \cup {"none", "proposed", "rejected"}, gated : BOOLEAN,
         outcome : {"none", "ok", "failed", "unknown"}]
TaskRow == [pc : Pcs, iter : 0 .. MaxIterations, prop : Props \cup {None},
            resumed : BOOLEAN, cancelled : BOOLEAN,
            result : Decisions \cup {"none"}, fp : Fingerprints]
Rpcs == [op : {"none", "decide"}, prop : Props \cup {None},
         decision : {"none", "approved", "rejected"}]
Answers == {"none", "requested", "approved", "rejected", "expired"}
Bounds == [changes : 0 .. MaxChanges, crashes : 0 .. MaxCrashes, lost : 0 .. MaxLost]
Statuses == Terminal \cup {"none", "running", "paused"}

\* TypeOK in the names of this module.
LEMMA TypeOKIs ==
  TypeOK <=>
    /\ status \in Statuses /\ ended \in Nat
    /\ ckpt \in [Seqs -> Ckpt] /\ prop \in [Props -> Prop] /\ appr \in [Props -> Answers]
    /\ late \in SUBSET Props /\ provider \in Fingerprints
    /\ task \in [Tasks -> TaskRow] /\ registry \in Tasks \cup {None}
    /\ calls \in [Props -> Nat] /\ rpc \in Rpcs
    /\ boot \in {"runs", "orphans", "row", "up"} /\ bounds \in Bounds
BY DEF TypeOK, Statuses, Ckpt, Prop, Answers, TaskRow, Rpcs, Bounds

\* The parts of TypeOK that the steps of a task can disturb.
LEMMA TypeKept ==
  ASSUME TypeOK,
         status' \in Statuses, ended' \in Nat, ckpt' \in [Seqs -> Ckpt],
         prop' \in [Props -> Prop], appr' \in [Props -> Answers],
         task' \in [Tasks -> TaskRow], registry' \in Tasks \cup {None},
         calls' \in [Props -> Nat], rpc' \in Rpcs,
         boot' \in {"runs", "orphans", "row", "up"}, bounds' \in Bounds,
         UNCHANGED <<late, provider>>
  PROVE  TypeOK'
BY TypeOKIs DEF TypeOK, Statuses, Ckpt, Prop, Answers, TaskRow, Rpcs, Bounds

LEMMA NoTaskType ==
  /\ NoTask \in TaskRow /\ NoTask.pc = "free"
  /\ \A pc \in Pcs : [NoTask EXCEPT !.pc = pc] \in TaskRow /\ [NoTask EXCEPT !.pc = pc].pc = pc
<1>1. (CHOOSE f \in Fingerprints : TRUE) \in Fingerprints
  OBVIOUS
<1>2. NoTask \in TaskRow /\ NoTask.pc = "free"
  BY <1>1 DEF NoTask, TaskRow, Pcs, None
<1> QED
  BY <1>2 DEF TaskRow

LEMMA SetStatusType ==
  ASSUME TypeOK, NEW to \in Statuses, SetStatus(to)
  PROVE  /\ status' \in {status, to} /\ ended' \in Nat
         /\ status \notin Terminal => status' = to
         /\ status \in Terminal => status' = status
BY TypeOKIs DEF SetStatus

\* The task that t steps in is the only one that changes.
StepOf(t) ==
  task' \in [Tasks -> TaskRow] /\ \A u \in Tasks \ {t} : task'[u] = task[u]

LEMMA GotoStep ==
  ASSUME TypeOK, NEW t \in Tasks, NEW pc \in Pcs, Goto(t, pc)
  PROVE  /\ StepOf(t) /\ task'[t].pc = pc /\ task'[t].iter = task[t].iter
         /\ task'[t].prop = task[t].prop /\ task'[t].result = task[t].result
<1>1. task \in [Tasks -> TaskRow] /\ task[t] \in TaskRow
  BY TypeOKIs
<1>2. [task[t] EXCEPT !.pc = pc] \in TaskRow
  BY <1>1 DEF TaskRow
<1>3. task' = [task EXCEPT ![t] = [task[t] EXCEPT !.pc = pc]]
  BY <1>1 DEF Goto
<1> QED
  BY <1>1, <1>2, <1>3 DEF StepOf, TaskRow

LEMMA LeaveStep ==
  ASSUME TypeOK, NEW t \in Tasks, NEW pc \in Pcs, Leave(t, pc)
  PROVE  StepOf(t) /\ task'[t].pc = pc
<1>1. task \in [Tasks -> TaskRow]
  BY TypeOKIs
<1> QED
  BY <1>1, NoTaskType DEF Leave, StepOf

LEMMA NextTurnStep ==
  ASSUME TypeOK, NEW t \in Tasks, NextTurn(t), task[t].iter < MaxIterations
  PROVE  StepOf(t) /\ task'[t].pc = "turn" /\ task'[t].iter = task[t].iter + 1
<1>1. task \in [Tasks -> TaskRow] /\ task[t] \in TaskRow
  BY TypeOKIs
<1>2. task[t].iter \in 0 .. MaxIterations
  BY <1>1 DEF TaskRow
<1>3. task[t].iter + 1 \in 0 .. MaxIterations
  BY <1>2
<1> DEFINE new == [task[t] EXCEPT !.pc = "turn", !.iter = task[t].iter + 1, !.prop = None,
                                  !.result = "none"]
<1>4. new \in TaskRow /\ new.pc = "turn" /\ new.iter = task[t].iter + 1
  BY <1>1, <1>3 DEF TaskRow, Pcs, None
<1>5. task' = [task EXCEPT ![t] = new]
  BY <1>1 DEF NextTurn
<1> HIDE DEF new
<1> QED
  BY <1>1, <1>4, <1>5 DEF StepOf

-----------------------------------------------------------------------------
(* What a step of a task keeps.                                               *)

LEMMA Alone ==
  ASSUME IInv, NEW t \in Tasks, Driving(t)
  PROVE  /\ \A u \in Tasks \ {t} : ~Driving(u)
         /\ boot = "up" /\ status \in {"paused", "running", "cancelled"}
         /\ task[t].pc # "begin" => status # "paused"
BY DEF IInv, DriverInv, OneDriver

LEMMA AtWork ==
  ASSUME NEW t \in Tasks, task[t].pc \in Working
  PROVE  Driving(t)
BY DEF Working, InTurn, Driving, Live

LEMMA OthersRest ==
  ASSUME IInv, NEW t \in Tasks, Driving(t), StepOf(t)
  PROVE  \A u \in Tasks \ {t} : ~Driving(u)'
BY Alone DEF StepOf, Driving, Live

LEMMA DriverKept ==
  ASSUME IInv, NEW t \in Tasks, Driving(t), StepOf(t), UNCHANGED <<boot, rpc>>,
         status' # "none", Driving(t)' => status' \in {"running", "cancelled"}
  PROVE  DriverInv'
<1>1. boot' = "up" /\ \A u \in Tasks \ {t} : ~Driving(u)'
  BY Alone, OthersRest
<1>2. OneDriver'
  BY <1>1 DEF OneDriver
<1> QED
  BY <1>1, <1>2 DEF DriverInv

LEMMA RequestKept ==
  ASSUME IInv, NEW t \in Tasks, Driving(t), task[t].pc # "pause", UNCHANGED rpc,
         \A p \in Props : appr'[p] = "requested" => appr[p] = "requested"
  PROVE  RequestInv'
<1>1. rpc.op = "none" /\ \A p \in Props : appr'[p] # "requested"
  BY DEF IInv, RequestInv
<1> QED
  BY <1>1 DEF RequestInv

LEMMA SameBounds ==
  ASSUME UNCHANGED bounds
  PROVE  bounds'.lost = bounds.lost /\ (PausesSaved' <=> PausesSaved)
BY DEF PausesSaved

LEMMA ProposalKept ==
  ASSUME IInv, UNCHANGED calls, PausesSaved' => PausesSaved,
         \A p \in Props :
           /\ prop'[p].decision = "none" <=> prop[p].decision = "none"
           /\ prop'[p].gated = prop[p].gated
           /\ appr'[p] = "none" <=> appr[p] = "none"
  PROVE  ProposalInv'
<1>1. Made' = Made
  BY DEF Made
<1> QED
  BY <1>1 DEF IInv, ProposalInv

LEMMA TasksKept ==
  ASSUME IInv, NEW t \in Tasks, Driving(t), StepOf(t), TaskInv(t)'
  PROVE  \A u \in Tasks : TaskInv(u)'
<1>1. ASSUME NEW u \in Tasks \ {t} PROVE TaskInv(u)'
  BY OthersRest DEF Driving, Live, TaskInv, InTurn
<1> QED
  BY <1>1

LEMMA IterType ==
  ASSUME IInv, NEW t \in Tasks
  PROVE  /\ task[t] \in TaskRow /\ task[t].iter \in 0 .. MaxIterations
         /\ task[t].iter < MaxIterations => task[t].iter \in Seqs
<1>1. task[t] \in TaskRow
  BY TypeOKIs DEF IInv
<1>2. task[t].iter \in 0 .. MaxIterations
  BY <1>1 DEF TaskRow
<1> QED
  BY <1>1, <1>2 DEF Seqs

\* The newest checkpoint of a Run that is not being worked on and can still be
\* resumed, and one that the task at work does not reach, name an open proposal.
LEMMA NewestOpen ==
  ASSUME IInv, NEW t \in Tasks, Driving(t), NEW s \in Seqs, Newest(s), ckpt[s].pend # None,
         task[t].pc \notin Working \/ ~Reaches(t, s)
  PROVE  Open(ckpt[s].pend)
BY Alone, AtWork DEF IInv, CkptInv

\* A step at work that writes no checkpoint.
LEMMA CkptKept ==
  ASSUME IInv, NEW t \in Tasks, Driving(t), StepOf(t), UNCHANGED <<ckpt, bounds>>,
         \A p \in Props : prop[p].decision # "none" => prop'[p].decision # "none",
         \A p \in Props : Open(p) /\ ~Open(p)' =>
           \A s \in Seqs : Newest(s) /\ ckpt[s].pend = p => Reaches(t, s),
         task[t].pc \in Working,
         \/ task'[t].pc \in Working /\ task'[t].iter >= task[t].iter
         \/ status' # "paused" /\ ~Driving(t)'
  PROVE  CkptInv'
<1>1. Saved' = Saved /\ \A s \in Seqs : Newest(s)' <=> Newest(s)
  BY DEF Saved, Newest
<1>2. \A s \in Seqs : ckpt[s].pend \in Props \cup {None}
  BY TypeOKIs DEF IInv, Ckpt
<1>3. \A s \in Seqs : ckpt'[s].pend # None => prop'[ckpt'[s].pend].decision # "none"
  BY <1>2 DEF IInv, CkptInv
<1>4. ASSUME NEW s \in Seqs, Newest(s), ckpt[s].pend # None
      PROVE  \/ Open(ckpt[s].pend)'
             \/ \E u \in Tasks : task'[u].pc \in Working /\ Reaches(u, s)'
             \/ status' # "paused" /\ \A u \in Tasks : ~Driving(u)'
  <2>1. CASE Reaches(t, s)
    <3>1. task[t].iter \in Nat /\ s \in Nat /\ (task'[t].pc \in Working => task'[t].iter \in Nat)
      <4>1. task'[t] \in TaskRow
        BY DEF StepOf
      <4>2. task'[t].iter \in 0 .. MaxIterations
        BY <4>1 DEF TaskRow
      <4> QED
        BY <4>2, IterType DEF Seqs
    <3>2. task'[t].pc \in Working => Reaches(t, s)'
      BY <2>1, <3>1 DEF Reaches, Working, InTurn, Driving, Live
    <3> QED
      BY <3>2, OthersRest
  <2>2. CASE ~Reaches(t, s)
    <3>1. Open(ckpt[s].pend)
      BY <1>4, <2>2, NewestOpen
    <3> QED
      BY <1>2, <1>4, <2>2, <3>1 DEF Open, PausesSaved
  <2> QED
    BY <2>1, <2>2
<1> QED
  BY <1>1, <1>3, <1>4 DEF IInv, CkptInv

\* What a checkpoint leaves: the row of the task's turn, and a newest row.
LEMMA CheckpointSaved ==
  ASSUME IInv, NEW t \in Tasks, NEW p \in Props \cup {None}, Checkpoint(t, p),
         task[t].iter < MaxIterations
  PROVE  /\ ckpt' \in [Seqs -> Ckpt] /\ task[t].iter \in Seqs
         /\ ckpt'[task[t].iter].saved /\ ckpt'[task[t].iter].pend = p
         /\ \A s \in Seqs \ {task[t].iter} : ckpt'[s] = ckpt[s]
         /\ Saved' = Saved \cup {task[t].iter}
<1>1. task[t].iter \in Seqs /\ task[t].fp \in Fingerprints
  BY IterType DEF TaskRow
<1>2. ckpt \in [Seqs -> Ckpt]
  BY TypeOKIs DEF IInv
<1> DEFINE new == [saved |-> TRUE, pend |-> p, fp |-> task[t].fp]
<1>3. new \in Ckpt /\ new.saved /\ new.pend = p
  BY <1>1 DEF Ckpt
<1>4. ckpt' = [ckpt EXCEPT ![task[t].iter] = new]
  BY DEF Checkpoint
<1> HIDE DEF new
<1>5. /\ ckpt' \in [Seqs -> Ckpt] /\ ckpt'[task[t].iter] = new
      /\ \A s \in Seqs \ {task[t].iter} : ckpt'[s] = ckpt[s]
  BY <1>1, <1>2, <1>3, <1>4
<1>6. Saved' = Saved \cup {task[t].iter}
  BY <1>1, <1>3, <1>5 DEF Saved
<1> QED
  BY <1>1, <1>3, <1>5, <1>6

\* A step at work that writes one.
LEMMA CkptWritten ==
  ASSUME IInv, NEW t \in Tasks, Driving(t), NEW p \in Props \cup {None}, Checkpoint(t, p),
         task[t].iter < MaxIterations, UNCHANGED bounds,
         p # None => Open(p)' /\ prop'[p].decision # "none",
         \A q \in Props : prop[q].decision # "none" => prop'[q].decision # "none",
         \A q \in Props : Open(q) /\ ~Unsaved(q) => Open(q)'
  PROVE  CkptInv'
<1> DEFINE i == task[t].iter
<1>1. /\ i \in Seqs /\ ckpt'[i].saved /\ ckpt'[i].pend = p
      /\ \A s \in Seqs \ {i} : ckpt'[s] = ckpt[s]
      /\ Saved' = Saved \cup {i}
  BY CheckpointSaved
<1> HIDE DEF i
<1>2. Seqs \subseteq Nat /\ Saved \subseteq Seqs
  BY DEF Seqs, Saved
<1>3. \A s \in Seqs : ckpt[s].pend \in Props \cup {None}
  BY TypeOKIs DEF IInv, Ckpt
<1>4. \E s \in Seqs : Newest(s)'
  <2>1. CASE \A s \in Saved : s <= i
    BY <1>1, <1>2, <2>1 DEF Newest
  <2>2. CASE \E s \in Saved : ~(s <= i)
    <3>1. PICK s \in Seqs : Newest(s)
      BY <2>2 DEF IInv, CkptInv
    <3>2. PICK r \in Saved : ~(r <= i)
      BY <2>2
    <3>3. i \in Nat /\ s \in Nat /\ r \in Nat /\ r <= s
      BY <1>1, <1>2, <3>1, <3>2 DEF Newest
    <3>4. i <= s
      BY <3>2, <3>3
    <3> QED
      BY <1>1, <3>1, <3>4 DEF Newest
  <2> QED
    BY <2>1, <2>2
<1>5. \A s \in Seqs : ckpt'[s].pend # None => prop'[ckpt'[s].pend].decision # "none"
  <2>1. p # None => prop'[p].decision # "none"
    BY DEF Open, PausesSaved
  <2> QED
    BY <1>1, <1>3, <2>1 DEF IInv, CkptInv
<1>6. ASSUME NEW s \in Seqs, Newest(s)', ckpt'[s].pend # None
      PROVE  Open(ckpt[s].pend)'
  <2>1. CASE s = i
    BY <1>1, <1>6, <2>1 DEF Open, PausesSaved
  <2>2. CASE s # i
    <3>1. Newest(s) /\ i < s /\ ckpt'[s] = ckpt[s]
      BY <1>1, <1>2, <1>6, <2>2 DEF Newest
    <3>2. ~Reaches(t, s)
      <4>1. i \in Nat /\ s \in Nat
        BY <1>1, <1>2
      <4>2. ~(i >= s)
        BY <3>1, <4>1
      <4> QED
        BY <4>2 DEF Reaches, i
    <3>3. Open(ckpt[s].pend)
      BY <1>6, <3>1, <3>2, NewestOpen
    <3>4. ckpt[s].pend \in Props /\ (PausesSaved => ~Unsaved(ckpt[s].pend))
      BY <1>3, <1>6, <3>1 DEF Unsaved
    <3>5. CASE PausesSaved
      <4>1. PICK q \in Props : q = ckpt[s].pend
        BY <3>4
      <4>2. Open(q)'
        BY <3>3, <3>4, <3>5, <4>1
      <4> QED
        BY <3>1, <4>1, <4>2 DEF Open
    <3>6. CASE ~PausesSaved
      BY <3>6, SameBounds DEF Open
    <3> QED
      BY <3>5, <3>6
  <2> QED
    BY <2>1, <2>2
<1>7. \A s \in Seqs : Newest(s)' /\ ckpt'[s].pend # None => Open(ckpt[s].pend)'
  BY <1>6
<1> QED
  BY <1>4, <1>5, <1>7 DEF CkptInv

-----------------------------------------------------------------------------
(* The steps of a task.                                                       *)

LEMMA InitInv == Init => IInv
<1> SUFFICES ASSUME Init PROVE IInv
  OBVIOUS
<1>1. \A t \in Tasks : task[t] = NoTask /\ ~Driving(t)
  BY NoTaskType DEF Init, Driving, Live
<1>2. /\ (CHOOSE f \in Fingerprints : TRUE) \in Fingerprints /\ NoCkpt \in Ckpt
      /\ ~NoCkpt.saved /\ NoCkpt.pend = None
  BY DEF NoCkpt, Ckpt
<1>3. provider \in Fingerprints
  BY <1>2 DEF Init, NoTask
<1>4. NoProp \in Prop /\ NoRpc \in Rpcs /\ NoRpc.op = "none" /\ NoProp.decision = "none" /\ ~NoProp.gated
  BY DEF NoProp, Prop, NoRpc, Rpcs
<1>5. TypeOK
  BY <1>1, <1>2, <1>3, <1>4, NoTaskType, TypeOKIs DEF Init, Statuses, Terminal, Answers, Bounds, None
<1>6. Saved = {} /\ \A s \in Seqs : ckpt[s].pend = None
  BY <1>2 DEF Init, Saved
<1>7. Made = {}
  BY <1>4 DEF Init, Made
<1>8. DriverInv /\ RequestInv /\ CkptInv
  BY <1>1, <1>4, <1>6 DEF Init, DriverInv, OneDriver, RequestInv, CkptInv, Newest
<1>9. ProposalInv
  <2>1. 0 \in 0 .. MaxProposals /\ 1 .. 0 = {}
    OBVIOUS
  <2>2. \E n \in 0 .. MaxProposals : Made = 1 .. n
    BY <1>7, <2>1
  <2> QED
    BY <1>4, <2>2 DEF Init, ProposalInv
<1>10. \A t \in Tasks : TaskInv(t)
  BY <1>1, NoTaskType DEF TaskInv, InTurn
<1> QED
  BY <1>5, <1>8, <1>9, <1>10 DEF IInv

LEMMA Expired ==
  ASSUME TypeOK
  PROVE  \A p \in Props :
           /\ Refreshed(p) \in Answers
           /\ Refreshed(p) = "requested" => appr[p] = "requested"
           /\ Refreshed(p) = "none" <=> appr[p] = "none"
           /\ Refreshed(p) = "approved" <=> appr[p] = "approved"
BY TypeOKIs DEF Refreshed, Answers

LEMMA NewestIsMax ==
  ASSUME IInv, Saved # {}
  PROVE  Max(Saved) \in Seqs /\ Newest(Max(Saved))
<1>1. PICK m \in Seqs : Newest(m)
  BY DEF IInv, CkptInv
<1>2. Saved \subseteq Nat /\ Saved \subseteq Seqs
  BY DEF Saved, Seqs
<1>3. m \in Saved /\ \A r \in Saved : m >= r
  BY <1>1, <1>2 DEF Newest
<1>4. Max(Saved) \in Saved /\ \A r \in Saved : Max(Saved) >= r
  BY <1>3 DEF Max
<1> QED
  BY <1>2, <1>4 DEF Newest

LEMMA Began ==
  ASSUME IInv, NEW t \in Tasks, Begin(t)
  PROVE  IInv'
<1>1. /\ TypeOK /\ task \in [Tasks -> TaskRow] /\ task[t].pc = "begin" /\ Driving(t)
      /\ UNCHANGED <<ended, ckpt, prop, late, provider, registry, calls, rpc, boot, bounds>>
      /\ provider \in Fingerprints
  BY TypeOKIs DEF IInv, Begin, Driving, Live
<1>2. status' \in {"running", "cancelled"}
  BY <1>1, Alone DEF Begin
<1> DEFINE top    == IF Saved = {} THEN 0 ELSE Max(Saved)
           replay == Saved # {} /\ ckpt[top].fp = provider
           pend   == IF replay THEN ckpt[top].pend ELSE None
           start  == [task[t] EXCEPT !.pc = "turn", !.iter = IF replay THEN top ELSE 0,
                                     !.fp = provider]
<1>3. /\ top \in Seqs /\ (Saved # {} => Newest(top))
      /\ 0 \in Seqs
  BY NewestIsMax DEF Seqs
<1>4. /\ pend \in Props \cup {None}
      /\ pend # None => Open(pend) /\ replay /\ prop[pend].decision # "none"
  <2>1. ckpt[top] \in Ckpt
    BY <1>1, <1>3, TypeOKIs
  <2>2. ckpt[top].pend \in Props \cup {None}
    BY <2>1 DEF Ckpt
  <2>3. ckpt[top].pend # None => prop[ckpt[top].pend].decision # "none"
    BY <1>3 DEF IInv, CkptInv
  <2> QED
    BY <1>1, <1>3, <2>2, <2>3, NewestOpen DEF Working, InTurn
<1>5. /\ start \in TaskRow /\ start.pc = "turn" /\ start.iter \in Seqs
      /\ replay => start.iter = top
  <2>1. task[t] \in TaskRow
    BY <1>1
  <2>2. (IF replay THEN top ELSE 0) \in Seqs /\ Seqs \subseteq 0 .. MaxIterations
    BY <1>3 DEF Seqs
  <2> HIDE DEF replay, top
  <2>3. (IF replay THEN top ELSE 0) \in 0 .. MaxIterations
    BY <2>2
  <2> QED
    BY <1>1, <2>1, <2>2, <2>3 DEF TaskRow, Pcs
<1>6. IF pend = None
      THEN task' = [task EXCEPT ![t] = start] /\ UNCHANGED appr
      ELSE /\ ExpireStale
           /\ IF appr[pend] = "approved" /\ pend \notin late
              THEN task' = [task EXCEPT ![t] =
                     [start EXCEPT !.pc = "call", !.prop = pend, !.resumed = TRUE]]
              ELSE Leave(t, "ended")
  BY DEF Begin
<1> DEFINE call == [start EXCEPT !.pc = "call", !.prop = pend, !.resumed = TRUE]
<1> HIDE DEF start, pend
<1>p. PICK p \in Props \cup {None} : p = pend
  BY <1>4
<1>7. pend # None => /\ call \in TaskRow /\ call.pc = "call" /\ call.prop = pend
                     /\ call.iter = start.iter
  BY <1>4, <1>5 DEF TaskRow, Pcs
<1> HIDE DEF call
<1>8. /\ StepOf(t)
      /\ \/ task'[t] = start
         \/ task'[t].pc = "ended"
         \/ pend # None /\ task'[t] = call /\ appr[pend] = "approved"
  <2>1. CASE pend = None
    BY <1>1, <1>5, <1>6, <2>1 DEF StepOf
  <2>2. CASE pend # None /\ appr[pend] = "approved" /\ pend \notin late
    BY <1>1, <1>6, <1>7, <2>2 DEF StepOf, call
  <2>3. CASE pend # None /\ ~(appr[pend] = "approved" /\ pend \notin late)
    BY <1>1, <1>6, <2>3, LeaveStep DEF Pcs
  <2> QED
    BY <2>1, <2>2, <2>3
<1>9. /\ appr' \in [Props -> Answers]
      /\ \A q \in Props : /\ appr'[q] = "requested" => appr[q] = "requested"
                          /\ appr'[q] = "none" <=> appr[q] = "none"
                          /\ appr'[q] = "approved" <=> appr[q] = "approved"
  BY <1>1, <1>6, Expired, TypeOKIs DEF ExpireStale
<1>10. TypeOK'
  BY <1>1, <1>2, <1>8, <1>9, TypeOKIs, TypeKept DEF StepOf, Statuses, Terminal
<1>11. DriverInv' /\ RequestInv' /\ ProposalInv'
  BY <1>1, <1>2, <1>8, <1>9, DriverKept, RequestKept, ProposalKept, SameBounds
<1>12. TaskInv(t)'
  <2>1. CASE task'[t] = start
    BY <1>5, <2>1 DEF TaskInv, InTurn
  <2>2. CASE task'[t].pc = "ended"
    BY <2>2 DEF TaskInv, InTurn
  <2>3. CASE pend # None /\ task'[t] = call /\ appr[pend] = "approved"
    <3>1. /\ p \in Props /\ Open(p)' /\ task'[t].prop = p /\ task'[t].pc = "call"
          /\ prop'[p].decision # "none"
      BY <1>1, <1>4, <1>p, <1>7, <2>3 DEF Open, PausesSaved
    <3>2. /\ task'[t].iter = top /\ top \in Nat /\ task'[t].iter < MaxIterations
      BY <1>3, <1>4, <1>5, <1>7, <2>3 DEF Seqs
    <3>3. \A s \in Saved : s <= top
      BY <1>3 DEF Newest
    <3>4. Saved' = Saved /\ Saved \subseteq Nat
      BY <1>1 DEF Saved, Seqs
    <3>5. \A s \in Saved' : Reaches(t, s)'
      BY <3>2, <3>3, <3>4 DEF Reaches
    <3>6. appr'[p] = "approved"
      BY <1>9, <1>p, <2>3, <3>1
    <3> QED
      BY <3>1, <3>2, <3>5, <3>6 DEF TaskInv, InTurn
  <2> QED
    BY <1>8, <2>1, <2>2, <2>3
<1>13. CkptInv'
  <2>1. \A s \in Seqs : Newest(s) /\ ckpt[s].pend # None => Open(ckpt[s].pend)
    BY <1>1, NewestOpen DEF Working, InTurn
  <2> QED
    BY <1>1, <2>1 DEF IInv, CkptInv, Newest, Saved, Open, PausesSaved
<1> QED
  BY <1>1, <1>8, <1>10, <1>11, <1>12, <1>13, TasksKept DEF IInv

\* The facts about a task at work that every step of one begins with.
LEMMA WorkingTask ==
  ASSUME IInv, NEW t \in Tasks, task[t].pc \in Working
  PROVE  /\ TypeOK /\ Driving(t) /\ TaskInv(t) /\ task[t] \in TaskRow
         /\ task[t].iter \in 0 .. MaxIterations /\ status \in {"running", "cancelled"}
         /\ task[t].pc \in InTurn =>
              /\ task[t].prop \in Props /\ task[t].iter < MaxIterations
              /\ prop[task[t].prop].decision # "none"
<1>1. Driving(t) /\ task[t].pc # "begin"
  BY AtWork DEF Working, InTurn
<1> QED
  BY <1>1, Alone, IterType DEF IInv, TaskInv

LEMMA Ended ==
  ASSUME IInv, NEW t \in Tasks, task[t].pc \in Working,
         NEW to \in Terminal \cup {"paused"}, EndTask(t, to)
  PROVE  /\ StepOf(t) /\ task'[t].pc = "ended" /\ ~Driving(t)' /\ TaskInv(t)'
         /\ status' \in Statuses /\ status' # "none" /\ ended' \in Nat
         /\ status' # to => status' \in Terminal
<1>1. TypeOK /\ status \in {"running", "cancelled"}
  BY WorkingTask
<1>2. StepOf(t) /\ task'[t].pc = "ended"
  BY <1>1, LeaveStep DEF EndTask, Pcs
<1>3. /\ status' \in {status, to} /\ ended' \in Nat
      /\ status \notin Terminal => status' = to
  BY <1>1, SetStatusType DEF EndTask, Statuses
<1> QED
  BY <1>1, <1>2, <1>3 DEF Driving, Live, TaskInv, InTurn, Terminal, Statuses

LEMMA TurnEnded ==
  ASSUME IInv, NEW t \in Tasks, task[t].pc = "turn",
         NEW to \in Terminal, EndTask(t, to),
         UNCHANGED ckpt \/ (task[t].iter < MaxIterations /\ Checkpoint(t, None)),
         UNCHANGED <<prop, appr, late, provider, registry, calls, rpc, boot, bounds>>
  PROVE  IInv'
<1>1. task[t].pc \in Working /\ TypeOK /\ Driving(t)
  BY WorkingTask DEF Working
<1>2. /\ StepOf(t) /\ task'[t].pc = "ended" /\ ~Driving(t)' /\ TaskInv(t)'
      /\ status' \in Statuses /\ status' \notin {"none", "paused"} /\ ended' \in Nat
  BY <1>1, Ended DEF Terminal
<1>3. ckpt' \in [Seqs -> Ckpt]
  BY <1>1, CheckpointSaved, TypeOKIs
<1>4. TypeOK'
  BY <1>1, <1>2, <1>3, TypeOKIs, TypeKept DEF StepOf
<1>5. DriverInv' /\ RequestInv' /\ ProposalInv'
  BY <1>1, <1>2, DriverKept, RequestKept, ProposalKept, SameBounds
<1>6. \A p \in Props : Open(p) <=> Open(p)'
  BY DEF Open, PausesSaved
<1>7. CkptInv'
  <2>1. CASE UNCHANGED ckpt
    BY <1>1, <1>2, <1>6, <2>1, CkptKept
  <2>2. CASE task[t].iter < MaxIterations /\ Checkpoint(t, None)
    BY <1>1, <1>6, <2>2, CkptWritten
  <2> QED
    BY <2>1, <2>2
<1> QED
  BY <1>1, <1>2, <1>4, <1>5, <1>7, TasksKept DEF IInv

LEMMA CountedFromOne ==
  ASSUME NEW n \in Nat
  PROVE  Cardinality(1 .. n) = n
<1>1. Cardinality(1 .. n) = IF 1 > n THEN 0 ELSE n - 1 + 1
  BY FS_Interval
<1>2. (IF 1 > n THEN 0 ELSE n - 1 + 1) = n
  OBVIOUS
<1> QED
  BY <1>1, <1>2

LEMMA Proposed ==
  ASSUME IInv, NEW t \in Tasks, task[t].pc = "turn", task[t].iter < MaxIterations, Propose(t),
         UNCHANGED <<status, ended, ckpt, appr, late, provider, registry, calls, rpc, boot, bounds>>
  PROVE  IInv'
<1>1. /\ task[t].pc \in Working /\ TypeOK /\ Driving(t) /\ task[t] \in TaskRow
      /\ status \in {"running", "cancelled"}
      /\ task \in [Tasks -> TaskRow] /\ prop \in [Props -> Prop]
  BY WorkingTask, TypeOKIs DEF Working
<1>2. PICK n \in 0 .. MaxProposals : Made = 1 .. n
  BY DEF IInv, ProposalInv
<1> DEFINE p == n + 1
<1>3. /\ p \in Props /\ p = Cardinality(Made) + 1 /\ 1 .. p = Made \cup {p}
      /\ p \in 0 .. MaxProposals
  <2>1. Cardinality(1 .. n) = n
    BY CountedFromOne
  <2> QED
    BY <1>2, <2>1 DEF Propose, Props
<1>4. prop[p].decision = "none" /\ appr[p] = "none" /\ calls[p] = 0
  BY <1>2, <1>3 DEF Made, IInv, ProposalInv
<1>5. PICK gated \in BOOLEAN :
        /\ prop' = [prop EXCEPT ![p] = [NoProp EXCEPT !.decision = "proposed", !.gated = gated]]
        /\ task' = [task EXCEPT ![t].pc = "judge", ![t].prop = p]
  BY <1>3 DEF Propose
<1> HIDE DEF p
<1> DEFINE new == [NoProp EXCEPT !.decision = "proposed", !.gated = gated]
           row == [task[t] EXCEPT !.pc = "judge", !.prop = p]
<1>6. new \in Prop /\ new.decision = "proposed"
  BY DEF NoProp, Prop
<1>7. row \in TaskRow /\ row.pc = "judge" /\ row.prop = p /\ row.iter = task[t].iter
  BY <1>1, <1>3 DEF TaskRow, Pcs
<1>8. task' = [task EXCEPT ![t] = row]
  BY <1>1, <1>5
<1> HIDE DEF new, row
<1>9. StepOf(t) /\ task'[t] = row
  BY <1>1, <1>7, <1>8 DEF StepOf
<1>10. /\ prop' \in [Props -> Prop] /\ prop'[p] = new
       /\ \A q \in Props \ {p} : prop'[q] = prop[q]
  BY <1>1, <1>3, <1>5, <1>6 DEF new
<1>11. TypeOK'
  BY <1>1, <1>9, <1>10, TypeOKIs, TypeKept DEF StepOf
<1>12. DriverInv' /\ RequestInv'
  BY <1>1, <1>9, DriverKept, RequestKept
<1>13. ProposalInv'
  <2>1. Made' = Made \cup {p}
    BY <1>3, <1>6, <1>10 DEF Made
  <2>2. \E m \in 0 .. MaxProposals : Made' = 1 .. m
    BY <1>3, <2>1
  <2> QED
    BY <1>3, <1>4, <1>6, <1>10, <2>2, SameBounds DEF IInv, ProposalInv
<1>14. Unsaved(p)
  BY <1>3, <1>4 DEF IInv, CkptInv, Unsaved, Props, None, PausesSaved
<1>15. TaskInv(t)'
  BY <1>3, <1>4, <1>6, <1>7, <1>9, <1>10, <1>14 DEF TaskInv, InTurn, Open, Unsaved, PausesSaved
<1>16. CkptInv'
  <2>1. \A q \in Props : Open(q) => Open(q)'
    BY <1>4, <1>6, <1>10 DEF Open, PausesSaved
  <2>2. \A q \in Props : prop[q].decision # "none" => prop'[q].decision # "none"
    BY <1>6, <1>10
  <2>3. task'[t].pc \in Working /\ task'[t].iter >= task[t].iter
    BY <1>7, <1>9, WorkingTask, <1>1 DEF Working, InTurn
  <2> QED
    BY <1>1, <1>9, <2>1, <2>2, <2>3, CkptKept
<1> QED
  BY <1>1, <1>9, <1>11, <1>12, <1>13, <1>15, <1>16, TasksKept DEF IInv

LEMMA Turned ==
  ASSUME IInv, NEW t \in Tasks, Turn(t)
  PROVE  IInv'
<1>1. /\ task[t].pc = "turn" /\ task[t].pc \in Working /\ TypeOK /\ Driving(t)
      /\ task[t].iter \in 0 .. MaxIterations /\ status \in {"running", "cancelled"}
      /\ UNCHANGED <<appr, late, provider, registry, calls, rpc, boot, bounds>>
  BY WorkingTask DEF Turn, Working
<1>2. \/ EndTask(t, "failed") /\ UNCHANGED <<ckpt, prop>>
      \/ EndTask(t, "cancelled") /\ UNCHANGED <<ckpt, prop>>
      \/ /\ task[t].iter < MaxIterations
         /\ \/ EndTask(t, "completed_execution") /\ TryCheckpoint(t, None) /\ UNCHANGED prop
            \/ NextTurn(t) /\ UNCHANGED <<status, ended, ckpt, prop>>
            \/ Propose(t) /\ UNCHANGED <<status, ended, ckpt>>
  BY <1>1 DEF Turn, Exhausted
<1>3. CASE EndTask(t, "failed") /\ UNCHANGED <<ckpt, prop>>
  BY <1>1, <1>3, TurnEnded DEF Terminal
<1>4. CASE EndTask(t, "cancelled") /\ UNCHANGED <<ckpt, prop>>
  BY <1>1, <1>4, TurnEnded DEF Terminal
<1>5. CASE /\ task[t].iter < MaxIterations
           /\ EndTask(t, "completed_execution") /\ TryCheckpoint(t, None) /\ UNCHANGED prop
  BY <1>1, <1>5, TurnEnded DEF Terminal, TryCheckpoint
<1>6. CASE /\ task[t].iter < MaxIterations
           /\ NextTurn(t) /\ UNCHANGED <<status, ended, ckpt, prop>>
  <2>1. StepOf(t) /\ task'[t].pc = "turn" /\ task'[t].iter = task[t].iter + 1
    BY <1>1, <1>6, NextTurnStep
  <2>2. TypeOK'
    BY <1>1, <1>6, <2>1, TypeOKIs, TypeKept DEF StepOf
  <2>3. DriverInv' /\ RequestInv' /\ ProposalInv' /\ TaskInv(t)'
    BY <1>1, <1>6, <2>1, DriverKept, RequestKept, ProposalKept, SameBounds DEF TaskInv, InTurn
  <2>4. task'[t].pc \in Working /\ task'[t].iter >= task[t].iter
    BY <1>1, <2>1 DEF Working
  <2>5. CkptInv'
    BY <1>1, <1>6, <2>1, <2>4, CkptKept DEF Open, PausesSaved
  <2> QED
    BY <1>1, <2>1, <2>2, <2>3, <2>5, TasksKept DEF IInv
<1>7. CASE /\ task[t].iter < MaxIterations
           /\ Propose(t) /\ UNCHANGED <<status, ended, ckpt>>
  BY <1>1, <1>7, Proposed
<1> QED
  BY <1>2, <1>3, <1>4, <1>5, <1>6, <1>7

\* A decision is written over another: nothing else of the proposal changes.
LEMMA DecidedRow ==
  ASSUME TypeOK, NEW p \in Props, NEW d \in Decisions \cup {"rejected"},
         prop' = [prop EXCEPT ![p].decision = d]
  PROVE  /\ prop' \in [Props -> Prop]
         /\ prop'[p].decision = d /\ prop'[p].gated = prop[p].gated
         /\ \A q \in Props \ {p} : prop'[q] = prop[q]
<1>1. prop \in [Props -> Prop] /\ prop[p] \in Prop
  BY TypeOKIs
<1> DEFINE new == [prop[p] EXCEPT !.decision = d]
<1>2. new \in Prop /\ new.decision = d /\ new.gated = prop[p].gated
  BY <1>1 DEF Prop
<1>3. prop' = [prop EXCEPT ![p] = new]
  BY <1>1
<1> HIDE DEF new
<1> QED
  BY <1>1, <1>2, <1>3

LEMMA JudgedAs ==
  ASSUME IInv, NEW t \in Tasks, task[t].pc = "judge",
         prop' = [prop EXCEPT ![task[t].prop].decision = "rejected"],
         TryCheckpoint(t, None), NextTurn(t),
         UNCHANGED <<status, ended, appr, late, provider, registry, calls, rpc, boot, bounds>>
  PROVE  IInv'
<1>1. /\ task[t].pc \in Working /\ TypeOK /\ Driving(t) /\ task[t] \in TaskRow
      /\ status \in {"running", "cancelled"}
      /\ task[t].prop \in Props /\ task[t].iter < MaxIterations /\ task[t].iter \in Nat
      /\ prop[task[t].prop].decision # "none"
      /\ Open(task[t].prop) /\ Unsaved(task[t].prop)
  BY WorkingTask DEF Working, InTurn, TaskInv
<1>2. PICK p \in Props : p = task[t].prop
  BY <1>1
<1>3. StepOf(t) /\ task'[t].pc = "turn" /\ task'[t].iter = task[t].iter + 1
  BY <1>1, NextTurnStep
<1>4. /\ prop' \in [Props -> Prop]
      /\ prop'[p].decision = "rejected" /\ prop'[p].gated = prop[p].gated
      /\ \A q \in Props \ {p} : prop'[q] = prop[q]
  BY <1>1, <1>2, DecidedRow
<1>5. ckpt' \in [Seqs -> Ckpt]
  BY <1>1, CheckpointSaved, TypeOKIs DEF TryCheckpoint
<1>6. TypeOK'
  BY <1>1, <1>3, <1>4, <1>5, TypeOKIs, TypeKept DEF StepOf
<1>7. prop[p].decision # "none" /\ Open(p) /\ Unsaved(p)
  BY <1>1, <1>2
<1>8. DriverInv' /\ RequestInv' /\ ProposalInv' /\ TaskInv(t)'
  BY <1>1, <1>3, <1>4, <1>7, DriverKept, RequestKept, ProposalKept, SameBounds DEF TaskInv, InTurn
<1>9. \A q \in Props : Open(q) /\ ~Unsaved(q) => Open(q)'
  BY <1>4, <1>7 DEF Open, PausesSaved
<1>10. CkptInv'
  <2>1. \A q \in Props : prop[q].decision # "none" => prop'[q].decision # "none"
    BY <1>4
  <2>2. CASE Checkpoint(t, None)
    BY <1>1, <1>9, <2>1, <2>2, CkptWritten
  <2>3. CASE UNCHANGED ckpt
    <3>1. \A q \in Props : Open(q) /\ ~Open(q)' =>
            \A s \in Seqs : Newest(s) /\ ckpt[s].pend = q => Reaches(t, s)
      BY <1>4, <1>7 DEF Open, Unsaved, PausesSaved
    <3>2. task'[t].pc \in Working /\ task'[t].iter >= task[t].iter
      BY <1>1, <1>3 DEF Working
    <3> QED
      BY <1>1, <1>3, <2>1, <2>3, <3>1, <3>2, CkptKept
  <2> QED
    BY <2>2, <2>3 DEF TryCheckpoint
<1> QED
  BY <1>1, <1>3, <1>6, <1>8, <1>10, TasksKept DEF IInv

LEMMA Gated ==
  ASSUME IInv, NEW t \in Tasks, task[t].pc = "judge",
         appr' = [q \in Props |-> IF q = task[t].prop THEN "requested" ELSE Refreshed(q)],
         Goto(t, "pause"),
         UNCHANGED <<status, ended, ckpt, prop, late, provider, registry, calls, rpc, boot, bounds>>
  PROVE  IInv'
<1>1. /\ task[t].pc \in Working /\ TypeOK /\ Driving(t) /\ task[t] \in TaskRow
      /\ status \in {"running", "cancelled"}
      /\ task[t].prop \in Props /\ task[t].iter < MaxIterations /\ task[t].iter \in Nat
      /\ prop[task[t].prop].decision # "none"
      /\ Open(task[t].prop) /\ Unsaved(task[t].prop) /\ appr[task[t].prop] = "none"
  BY WorkingTask DEF Working, InTurn, TaskInv
<1>2. PICK p \in Props : p = task[t].prop
  BY <1>1
<1>3. /\ StepOf(t) /\ task'[t].pc = "pause" /\ task'[t].iter = task[t].iter
      /\ task'[t].prop = p
  BY <1>1, <1>2, GotoStep DEF Pcs
<1>4. /\ appr' \in [Props -> Answers] /\ appr'[p] = "requested"
      /\ \A q \in Props \ {p} : /\ appr'[q] = "requested" => appr[q] = "requested"
                                /\ appr'[q] = "none" <=> appr[q] = "none"
  BY <1>1, <1>2, Expired DEF Answers
<1>5. TypeOK'
  BY <1>1, <1>3, <1>4, TypeOKIs, TypeKept DEF StepOf
<1>6. rpc.op = "none" /\ \A q \in Props : appr[q] # "requested"
  BY <1>1 DEF IInv, RequestInv
<1>7. RequestInv'
  BY <1>1, <1>3, <1>4, <1>6, OthersRest DEF RequestInv
<1>8. prop[p].decision # "none" /\ Open(p) /\ Unsaved(p)
  BY <1>1, <1>2
<1>9. ProposalInv'
  BY <1>4, <1>8, SameBounds DEF IInv, ProposalInv, Made
<1>10. DriverInv'
  BY <1>1, <1>3, DriverKept
<1>11. TaskInv(t)'
  BY <1>1, <1>3, <1>8 DEF TaskInv, InTurn, Open, Unsaved, PausesSaved
<1>12. task'[t].pc \in Working /\ task'[t].iter >= task[t].iter
  BY <1>1, <1>3 DEF Working, InTurn
<1>13. CkptInv'
  BY <1>1, <1>3, <1>12, CkptKept DEF Open, PausesSaved
<1> QED
  BY <1>1, <1>3, <1>5, <1>7, <1>9, <1>10, <1>11, <1>13, TasksKept DEF IInv

LEMMA LetThrough ==
  ASSUME IInv, NEW t \in Tasks, task[t].pc = "judge", ~prop[task[t].prop].gated, Goto(t, "call"),
         UNCHANGED <<status, ended, ckpt, prop, appr, late, provider, registry, calls, rpc, boot,
                     bounds>>
  PROVE  IInv'
<1>1. /\ task[t].pc \in Working /\ TypeOK /\ Driving(t)
      /\ status \in {"running", "cancelled"}
      /\ task[t].prop \in Props /\ task[t].iter < MaxIterations /\ task[t].iter \in Nat
      /\ prop[task[t].prop].decision # "none"
      /\ Open(task[t].prop) /\ Unsaved(task[t].prop)
  BY WorkingTask DEF Working, InTurn, TaskInv
<1>2. PICK p \in Props : p = task[t].prop
  BY <1>1
<1>3. /\ StepOf(t) /\ task'[t].pc = "call" /\ task'[t].iter = task[t].iter
      /\ task'[t].prop = p
  BY <1>1, <1>2, GotoStep DEF Pcs
<1>4. TypeOK'
  BY <1>1, <1>3, TypeOKIs, TypeKept DEF StepOf
<1>5. DriverInv' /\ RequestInv' /\ ProposalInv'
  BY <1>1, <1>3, DriverKept, RequestKept, ProposalKept, SameBounds
<1>6. TaskInv(t)'
  BY <1>1, <1>2, <1>3 DEF TaskInv, InTurn, Open, Unsaved, PausesSaved
<1>7. task'[t].pc \in Working /\ task'[t].iter >= task[t].iter
  BY <1>1, <1>3 DEF Working, InTurn
<1>8. CkptInv'
  BY <1>1, <1>3, <1>7, CkptKept DEF Open, PausesSaved
<1> QED
  BY <1>1, <1>3, <1>4, <1>5, <1>6, <1>8, TasksKept DEF IInv

LEMMA Judged ==
  ASSUME IInv, NEW t \in Tasks, Judge(t)
  PROVE  IInv'
BY JudgedAs, Gated, LetThrough DEF Judge

\* A pause that leaves its checkpoint, or loses it.
LEMMA Paused ==
  ASSUME IInv, NEW t \in Tasks, Pause(t)
  PROVE  IInv'
<1>1. /\ task[t].pc = "pause" /\ task[t].pc \in Working /\ TypeOK /\ Driving(t)
      /\ task[t].prop \in Props /\ task[t].iter < MaxIterations
      /\ prop[task[t].prop].decision # "none" /\ Open(task[t].prop)
      /\ UNCHANGED <<prop, appr, late, provider, registry, calls, rpc, boot>>
  BY WorkingTask DEF Working, InTurn, TaskInv, Pause
<1>2. PICK p \in Props : p = task[t].prop
  BY <1>1
<1>3. /\ StepOf(t) /\ task'[t].pc = "ended" /\ ~Driving(t)' /\ TaskInv(t)'
      /\ status' \in Statuses /\ status' # "none" /\ ended' \in Nat
  BY <1>1, Ended DEF Pause
<1>4. RequestInv'
  BY <1>1, <1>3, OthersRest DEF IInv, RequestInv
<1>5. DriverInv'
  BY <1>1, <1>3, DriverKept
<1>6. CASE Checkpoint(t, p) /\ UNCHANGED bounds
  <2>1. ckpt' \in [Seqs -> Ckpt]
    BY <1>1, <1>6, CheckpointSaved
  <2>2. TypeOK'
    BY <1>1, <1>3, <1>6, <2>1, TypeOKIs, TypeKept DEF StepOf
  <2>3. ProposalInv'
    BY <1>1, <1>6, ProposalKept, SameBounds
  <2>4. Open(p)' /\ prop'[p].decision # "none" /\ \A q \in Props : Open(q) => Open(q)'
    BY <1>1, <1>2, <1>6 DEF Open, PausesSaved
  <2>5. CkptInv'
    BY <1>1, <1>2, <1>6, <2>4, CkptWritten
  <2> QED
    BY <1>1, <1>3, <1>4, <1>5, <2>2, <2>3, <2>5, TasksKept DEF IInv
<1>7. CASE /\ bounds.lost < MaxLost /\ bounds' = [bounds EXCEPT !.lost = @ + 1]
           /\ UNCHANGED ckpt
  <2>1. bounds \in Bounds /\ bounds.lost \in 0 .. MaxLost
    BY <1>1, TypeOKIs DEF Bounds
  <2>2. bounds.lost + 1 \in 0 .. MaxLost /\ bounds.lost + 1 # 0
    BY <1>7, <2>1
  <2>3. bounds' \in Bounds /\ ~PausesSaved'
    BY <1>7, <2>1, <2>2 DEF Bounds, PausesSaved
  <2>4. TypeOK'
    BY <1>1, <1>3, <1>7, <2>3, TypeOKIs, TypeKept DEF StepOf
  <2>5. ProposalInv'
    BY <1>1, <2>3, ProposalKept
  <2>6. CkptInv'
    BY <1>1, <1>7, <2>3 DEF IInv, CkptInv, Newest, Saved, Open
  <2> QED
    BY <1>1, <1>3, <1>4, <1>5, <2>4, <2>5, <2>6, TasksKept DEF IInv
<1> QED
  BY <1>2, <1>6, <1>7 DEF Pause

LEMMA Called ==
  ASSUME IInv, NEW t \in Tasks, CallTool(t)
  PROVE  IInv'
<1>1. /\ task[t].pc = "call" /\ task[t].pc \in Working /\ TypeOK /\ Driving(t)
      /\ task[t] \in TaskRow /\ status \in {"running", "cancelled"}
      /\ task[t].prop \in Props /\ task[t].iter < MaxIterations /\ task[t].iter \in Nat
      /\ prop[task[t].prop].decision # "none"
      /\ Open(task[t].prop)
      /\ Unsaved(task[t].prop) \/ \A s \in Saved : Reaches(t, s)
      /\ UNCHANGED <<status, ended, ckpt, prop, appr, late, provider, registry, rpc, boot, bounds>>
      /\ task \in [Tasks -> TaskRow] /\ calls \in [Props -> Nat]
  BY WorkingTask, TypeOKIs DEF Working, InTurn, TaskInv, CallTool
<1>2. PICK p \in Props : p = task[t].prop
  BY <1>1
<1>3. PICK result \in Decisions :
        task' = [task EXCEPT ![t] = [task[t] EXCEPT !.pc = "mark", !.result = result]]
  BY <1>1 DEF CallTool, Decisions
<1> DEFINE row == [task[t] EXCEPT !.pc = "mark", !.result = result]
<1>4. /\ row \in TaskRow /\ row.pc = "mark" /\ row.result = result
      /\ row.prop = p /\ row.iter = task[t].iter
  BY <1>1, <1>2 DEF TaskRow, Pcs
<1>5. task' = [task EXCEPT ![t] = row]
  BY <1>3
<1> HIDE DEF row
<1>6. StepOf(t) /\ task'[t] = row
  BY <1>1, <1>4, <1>5 DEF StepOf
<1>7. /\ calls' \in [Props -> Nat] /\ (PausesSaved => calls'[p] = 1)
      /\ \A q \in Props \ {p} : calls'[q] = calls[q]
  <2>1. calls' = [calls EXCEPT ![p] = calls[p] + 1]
    BY <1>1, <1>2 DEF CallTool
  <2>2. PausesSaved => calls[p] = 0
    BY <1>1, <1>2 DEF Open
  <2> QED
    BY <1>1, <2>1, <2>2
<1>8. TypeOK'
  BY <1>1, <1>6, <1>7, TypeOKIs, TypeKept DEF StepOf
<1>9. /\ prop[p].decision # "none" /\ (PausesSaved => prop[p].decision = "proposed")
      /\ PausesSaved' <=> PausesSaved
  BY <1>1, <1>2, SameBounds DEF Open
<1>10. ProposalInv'
  BY <1>1, <1>7, <1>9 DEF IInv, ProposalInv, Made
<1>11. DriverInv' /\ RequestInv'
  BY <1>1, <1>6, DriverKept, RequestKept
<1>12. TaskInv(t)'
  BY <1>1, <1>4, <1>6, <1>7, <1>9 DEF TaskInv, InTurn
<1>13. CkptInv'
  <2>1. \A q \in Props : Open(q) /\ ~Open(q)' =>
          \A s \in Seqs : Newest(s) /\ ckpt[s].pend = q => Reaches(t, s)
    BY <1>1, <1>2, <1>7 DEF Open, Unsaved, Newest, PausesSaved
  <2>2. task'[t].pc \in Working /\ task'[t].iter >= task[t].iter
    BY <1>1, <1>4, <1>6 DEF Working, InTurn
  <2> QED
    BY <1>1, <1>6, <2>1, <2>2, CkptKept
<1> QED
  BY <1>1, <1>6, <1>8, <1>10, <1>11, <1>12, <1>13, TasksKept DEF IInv

LEMMA Marked ==
  ASSUME IInv, NEW t \in Tasks, Mark(t)
  PROVE  IInv'
<1>1. /\ task[t].pc = "mark" /\ task[t].pc \in Working /\ TypeOK /\ Driving(t)
      /\ status \in {"running", "cancelled"}
      /\ task[t].prop \in Props /\ task[t].iter < MaxIterations /\ task[t].iter \in Nat
      /\ prop[task[t].prop].decision # "none"
      /\ PausesSaved => prop[task[t].prop].decision = "proposed" /\ calls[task[t].prop] = 1
      /\ task[t].result \in Decisions
      /\ UNCHANGED <<status, ended, ckpt, appr, late, provider, registry, calls, rpc, boot, bounds>>
  BY WorkingTask DEF Working, InTurn, TaskInv, Mark
<1>2. PICK p \in Props : p = task[t].prop
  BY <1>1
<1>3. /\ StepOf(t) /\ task'[t].pc = "record" /\ task'[t].iter = task[t].iter
      /\ task'[t].prop = p
  BY <1>1, <1>2, GotoStep DEF Pcs, Mark
<1>4. /\ prop' \in [Props -> Prop]
      /\ prop'[p].decision \in Decisions /\ prop'[p].gated = prop[p].gated
      /\ \A q \in Props \ {p} : prop'[q] = prop[q]
  BY <1>1, <1>2, DecidedRow DEF Mark
<1>5. TypeOK'
  BY <1>1, <1>3, <1>4, TypeOKIs, TypeKept DEF StepOf
<1>6. prop[p].decision # "none" /\ prop'[p].decision # "none" /\ (PausesSaved => ~Open(p))
  BY <1>1, <1>2, <1>4 DEF Open, Decisions
<1>7. DriverInv' /\ RequestInv' /\ ProposalInv'
  BY <1>1, <1>3, <1>4, <1>6, DriverKept, RequestKept, ProposalKept, SameBounds
<1>8. TaskInv(t)'
  BY <1>1, <1>2, <1>3, <1>6 DEF TaskInv, InTurn
<1>9. CkptInv'
  <2>1. \A q \in Props : Open(q) => Open(q)'
    BY <1>1, <1>4, <1>6 DEF Open, PausesSaved
  <2>2. task'[t].pc \in Working /\ task'[t].iter >= task[t].iter
    BY <1>1, <1>3 DEF Working, InTurn
  <2>3. \A q \in Props : prop[q].decision # "none" => prop'[q].decision # "none"
    BY <1>4, <1>6
  <2> QED
    BY <1>1, <1>3, <2>1, <2>2, <2>3, CkptKept
<1> QED
  BY <1>1, <1>3, <1>5, <1>7, <1>8, <1>9, TasksKept DEF IInv

LEMMA RecordedRow ==
  ASSUME TypeOK, NEW p, NEW outcome \in {"ok", "failed", "unknown"}, Recorded(p, outcome)
  PROVE  /\ prop' \in [Props -> Prop]
         /\ \A q \in Props : /\ prop'[q].decision = prop[q].decision
                             /\ prop'[q].gated = prop[q].gated
<1>1. prop \in [Props -> Prop] /\ \A q \in Props : prop[q] \in Prop
  BY TypeOKIs
<1>2. CASE p \in Props
  <2> DEFINE new == [prop[p] EXCEPT !.outcome = IF prop[p].outcome = "none" THEN outcome
                                                ELSE prop[p].outcome]
  <2>1. new \in Prop /\ new.decision = prop[p].decision /\ new.gated = prop[p].gated
    BY <1>1, <1>2 DEF Prop
  <2>2. prop' = [prop EXCEPT ![p] = new]
    BY <1>1, <1>2 DEF Recorded
  <2> HIDE DEF new
  <2> QED
    BY <1>1, <1>2, <2>1, <2>2
<1>3. CASE p \notin Props
  BY <1>1, <1>3 DEF Recorded
<1> QED
  BY <1>2, <1>3

LEMMA RecordStep ==
  ASSUME IInv, NEW t \in Tasks, Record(t)
  PROVE  IInv'
<1>1. /\ task[t].pc = "record" /\ task[t].pc \in Working /\ TypeOK /\ Driving(t)
      /\ task[t] \in TaskRow /\ status \in {"running", "cancelled"}
      /\ task[t].prop \in Props /\ task[t].iter < MaxIterations /\ task[t].iter \in Nat
      /\ prop[task[t].prop].decision # "none"
      /\ UNCHANGED <<status, ended, appr, late, provider, registry, calls, rpc, boot, bounds>>
      /\ task \in [Tasks -> TaskRow]
  BY WorkingTask, TypeOKIs DEF Working, InTurn, Record
<1>2. /\ prop' \in [Props -> Prop]
      /\ \A q \in Props : /\ prop'[q].decision = prop[q].decision
                          /\ prop'[q].gated = prop[q].gated
  BY <1>1, RecordedRow DEF Record, OutcomeOf
<1>3. \A q \in Props : Open(q) <=> Open(q)'
  BY <1>1, <1>2 DEF Open, PausesSaved
<1>4. CASE /\ task' = [task EXCEPT ![t] = [task[t] EXCEPT !.pc = "turn", !.prop = None,
                                             !.resumed = FALSE, !.result = "none"]]
           /\ UNCHANGED ckpt
  <2> DEFINE row == [task[t] EXCEPT !.pc = "turn", !.prop = None, !.resumed = FALSE,
                                    !.result = "none"]
  <2>1. row \in TaskRow /\ row.pc = "turn" /\ row.iter = task[t].iter
    BY <1>1 DEF TaskRow, Pcs
  <2>2. task' = [task EXCEPT ![t] = row]
    BY <1>4
  <2> HIDE DEF row
  <2>3. StepOf(t) /\ task'[t].pc = "turn" /\ task'[t].iter = task[t].iter
    BY <1>1, <2>1, <2>2 DEF StepOf
  <2>4. TypeOK'
    BY <1>1, <1>2, <1>4, <2>3, TypeOKIs, TypeKept DEF StepOf
  <2>5. DriverInv' /\ RequestInv' /\ ProposalInv' /\ TaskInv(t)'
    BY <1>1, <1>2, <2>3, DriverKept, RequestKept, ProposalKept, SameBounds DEF TaskInv, InTurn
  <2>6. task'[t].pc \in Working /\ task'[t].iter >= task[t].iter
    BY <1>1, <2>3 DEF Working
  <2>7. CkptInv'
    BY <1>1, <1>2, <1>3, <1>4, <2>3, <2>6, CkptKept
  <2> QED
    BY <1>1, <2>3, <2>4, <2>5, <2>7, TasksKept DEF IInv
<1>5. CASE NextTurn(t) /\ TryCheckpoint(t, None)
  <2>1. StepOf(t) /\ task'[t].pc = "turn" /\ task'[t].iter = task[t].iter + 1
    BY <1>1, <1>5, NextTurnStep
  <2>2. ckpt' \in [Seqs -> Ckpt]
    BY <1>1, <1>5, CheckpointSaved, TypeOKIs DEF TryCheckpoint
  <2>3. TypeOK'
    BY <1>1, <1>2, <2>1, <2>2, TypeOKIs, TypeKept DEF StepOf
  <2>4. DriverInv' /\ RequestInv' /\ ProposalInv' /\ TaskInv(t)'
    BY <1>1, <1>2, <2>1, DriverKept, RequestKept, ProposalKept, SameBounds DEF TaskInv, InTurn
  <2>5. CkptInv'
    <3>1. task'[t].pc \in Working /\ task'[t].iter >= task[t].iter
      BY <1>1, <2>1 DEF Working
    <3>2. CASE Checkpoint(t, None)
      BY <1>1, <1>2, <1>3, <3>2, CkptWritten
    <3>3. CASE UNCHANGED ckpt
      BY <1>1, <1>2, <1>3, <2>1, <3>1, <3>3, CkptKept
    <3> QED
      BY <1>5, <3>2, <3>3 DEF TryCheckpoint
  <2> QED
    BY <1>1, <2>1, <2>3, <2>4, <2>5, TasksKept DEF IInv
<1> QED
  BY <1>4, <1>5 DEF Record

\* A write that failed: the Run is left as it is, not paused if it was at work.
LEMMA GaveUp ==
  ASSUME IInv, NEW t \in Tasks, GiveUp(t)
  PROVE  IInv'
<1>1. /\ TypeOK /\ Driving(t) /\ task[t].pc \in Working \cup {"begin"}
      /\ UNCHANGED <<status, ended, ckpt, prop, appr, late, provider, registry, calls, rpc, boot, bounds>>
  BY DEF IInv, GiveUp, Driving, Live, Working, InTurn
<1>2. StepOf(t) /\ task'[t].pc = "ended" /\ ~Driving(t)'
  BY <1>1, LeaveStep DEF GiveUp, Pcs, Driving, Live
<1>3. TypeOK'
  BY <1>1, <1>2, TypeOKIs, TypeKept DEF StepOf
<1>4. status \in {"paused", "running", "cancelled"}
  BY <1>1, Alone
<1>5. DriverInv'
  BY <1>1, <1>2, <1>4, DriverKept
<1>6. RequestInv'
  BY <1>1, <1>2, OthersRest DEF IInv, RequestInv
<1>7. ProposalInv'
  BY <1>1, ProposalKept, SameBounds
<1>8. TaskInv(t)'
  BY <1>2 DEF TaskInv, InTurn
<1>9. CkptInv'
  <2>1. \A p \in Props : Open(p) <=> Open(p)'
    BY <1>1 DEF Open, PausesSaved
  <2>2. CASE task[t].pc \in Working
    <3>1. status' # "paused"
      BY <1>1, <2>2, WorkingTask
    <3> QED
      BY <1>1, <1>2, <2>1, <2>2, <3>1, CkptKept
  <2>3. CASE task[t].pc = "begin"
    <3>1. \A s \in Seqs : Newest(s) /\ ckpt[s].pend # None => Open(ckpt[s].pend)
      BY <1>1, <2>3, NewestOpen DEF Working, InTurn
    <3> QED
      BY <1>1, <3>1 DEF IInv, CkptInv, Newest, Saved, Open, PausesSaved
  <2> QED
    BY <1>1, <2>2, <2>3
<1> QED
  BY <1>1, <1>2, <1>3, <1>5, <1>6, <1>7, <1>8, <1>9, TasksKept DEF IInv

-----------------------------------------------------------------------------
(* The RPCs, the world and the startup.                                       *)

\* No task begins, moves or stops driving.
SameTask(t) ==
  \/ ~Driving(t) /\ ~Driving(t)'
  \/ /\ task'[t].pc = task[t].pc /\ task'[t].iter = task[t].iter
     /\ task'[t].prop = task[t].prop /\ task'[t].result = task[t].result
SameTasks == \A t \in Tasks : SameTask(t)

\* Approvals only leave the state of being requested.
ApprovalsSettle ==
  \A p \in Props : appr[p] # "requested" \/ appr'[p] = "none" => appr'[p] = appr[p]

LEMMA SameDriver ==
  ASSUME SameTasks
  PROVE  \A t \in Tasks : /\ Driving(t)' <=> Driving(t)
                          /\ Driving(t) => task'[t].pc = task[t].pc
BY DEF SameTasks, SameTask, Driving, Live

LEMMA TasksQuiet ==
  ASSUME IInv, SameTasks, UNCHANGED <<ckpt, prop, calls>>, ApprovalsSettle,
         bounds'.lost = bounds.lost
  PROVE  \A t \in Tasks : TaskInv(t)'
<1> SUFFICES ASSUME NEW t \in Tasks PROVE TaskInv(t)'
  OBVIOUS
<1>1. TaskInv(t) /\ SameTask(t)
  BY DEF IInv, SameTasks
<1>2. CASE ~Driving(t)'
  BY <1>2 DEF TaskInv, InTurn, Driving, Live
<1>3. CASE Driving(t)'
  <2>1. /\ task'[t].pc = task[t].pc /\ task'[t].iter = task[t].iter
        /\ task'[t].prop = task[t].prop /\ task'[t].result = task[t].result
    BY <1>1, <1>3 DEF SameTask
  <2>2. (\A s \in Saved' : Reaches(t, s)') <=> (\A s \in Saved : Reaches(t, s))
    BY <2>1 DEF Saved, Reaches
  <2> QED
    BY <1>1, <2>1, <2>2 DEF TaskInv, InTurn, Open, Unsaved, ApprovalsSettle, PausesSaved
<1> QED
  BY <1>2, <1>3

LEMMA CkptQuiet ==
  ASSUME IInv, SameTasks, UNCHANGED <<ckpt, prop, calls>>, bounds'.lost = bounds.lost,
         status' = "paused" => status = "paused"
  PROVE  CkptInv'
<1>1. \A s \in Seqs : Newest(s)' <=> Newest(s)
  BY DEF Newest, Saved
<1>2. \A t \in Tasks : task[t].pc \in Working =>
        task'[t].pc \in Working /\ task'[t].iter = task[t].iter
  BY AtWork DEF SameTasks, SameTask
<1>3. \A s \in Seqs : (\E t \in Tasks : task[t].pc \in Working /\ Reaches(t, s)) =>
        \E t \in Tasks : task'[t].pc \in Working /\ Reaches(t, s)'
  BY <1>2 DEF Reaches
<1>4. (\A t \in Tasks : ~Driving(t)) => \A t \in Tasks : ~Driving(t)'
  BY SameDriver
<1>5. \A s \in Seqs : ckpt'[s] = ckpt[s] /\ (Open(ckpt[s].pend) => Open(ckpt[s].pend)')
  BY DEF Open, PausesSaved
<1>6. Saved' = {} \/ \E s \in Seqs : Newest(s)'
  BY <1>1 DEF IInv, CkptInv, Saved
<1>7. \A s \in Seqs : ckpt'[s].pend # None => prop'[ckpt'[s].pend].decision # "none"
  BY DEF IInv, CkptInv
<1>8. ASSUME NEW s \in Seqs, Newest(s)', ckpt'[s].pend # None
      PROVE  \/ Open(ckpt[s].pend)'
             \/ \E t \in Tasks : task'[t].pc \in Working /\ Reaches(t, s)'
             \/ status' # "paused" /\ \A t \in Tasks : ~Driving(t)'
  BY <1>1, <1>3, <1>4, <1>5, <1>8 DEF IInv, CkptInv
<1> QED
  BY <1>6, <1>7, <1>8 DEF CkptInv, Open, PausesSaved

\* What most of these steps have in common.
LEMMA QuietStep ==
  ASSUME IInv, SameTasks, UNCHANGED <<ckpt, prop, calls>>, ApprovalsSettle, TypeOK',
         DriverInv', RequestInv', status' = "paused" => status = "paused",
         bounds'.lost = bounds.lost
  PROVE  IInv'
<1>1. ProposalInv'
  BY ProposalKept DEF ApprovalsSettle, PausesSaved
<1> QED
  BY <1>1, TasksQuiet, CkptQuiet DEF IInv

LEMMA Unregistered ==
  ASSUME IInv, NEW t \in Tasks, Unregister(t)
  PROVE  IInv'
<1>1. /\ TypeOK /\ task[t].pc = "ended" /\ registry' = None
      /\ UNCHANGED <<status, ended, ckpt, prop, appr, late, provider, calls, rpc, boot, bounds>>
  BY DEF IInv, Unregister
<1>2. StepOf(t) /\ task'[t].pc = "gone"
  BY <1>1, LeaveStep DEF Unregister, Pcs
<1>3. SameTasks
  BY <1>1, <1>2 DEF SameTasks, SameTask, StepOf, Driving, Live
<1>4. TypeOK'
  BY <1>1, <1>2, TypeOKIs, TypeKept DEF StepOf
<1>5. DriverInv' /\ RequestInv'
  BY <1>1, <1>3, SameDriver DEF IInv, DriverInv, OneDriver, RequestInv, Saved
<1> QED
  BY <1>1, <1>3, <1>4, <1>5, QuietStep DEF ApprovalsSettle

\* A Run is given a task when none drives it and no request is open.
LEMMA Spawned ==
  ASSUME IInv, Spawn, boot = "up", \A t \in Tasks : ~Driving(t),
         \A p \in Props : appr[p] # "requested",
         \/ status = "paused" /\ status' = "paused"
         \/ Saved = {} /\ status' = "running",
         ended' \in Nat, rpc' = NoRpc,
         UNCHANGED <<ckpt, prop, appr, late, provider, calls, boot, bounds>>
  PROVE  IInv'
<1>1. PICK t \in Tasks : /\ task[t].pc = "free" /\ registry' = t
                         /\ task' = [task EXCEPT ![t].pc = "begin"]
  BY DEF Spawn
<1>2. TypeOK /\ task \in [Tasks -> TaskRow] /\ task[t] \in TaskRow
  BY TypeOKIs DEF IInv
<1> DEFINE row == [task[t] EXCEPT !.pc = "begin"]
<1>3. row \in TaskRow /\ row.pc = "begin"
  BY <1>2 DEF TaskRow, Pcs
<1>4. task' = [task EXCEPT ![t] = row]
  BY <1>1, <1>2
<1> HIDE DEF row
<1>5. StepOf(t) /\ task'[t].pc = "begin"
  BY <1>2, <1>3, <1>4 DEF StepOf
<1>6. NoRpc \in Rpcs /\ NoRpc.op = "none" /\ status' \in {"paused", "running"}
  BY DEF NoRpc, Rpcs
<1>7. TypeOK'
  BY <1>1, <1>2, <1>5, <1>6, TypeOKIs, TypeKept DEF StepOf, Statuses
<1>8. \A u \in Tasks : Driving(u)' <=> u = t
  BY <1>5 DEF StepOf, Driving, Live
<1>9. DriverInv' /\ RequestInv'
  BY <1>5, <1>6, <1>8 DEF DriverInv, OneDriver, RequestInv
<1>10. ProposalInv'
  BY ProposalKept, SameBounds
<1>11. \A u \in Tasks : TaskInv(u)'
  BY <1>5, <1>8 DEF TaskInv, InTurn, Driving, Live
<1>12. CkptInv'
  <2>1. \A s \in Seqs : Newest(s) /\ ckpt[s].pend # None => Open(ckpt[s].pend)
    BY AtWork DEF IInv, CkptInv, Newest
  <2> QED
    BY <2>1 DEF IInv, CkptInv, Newest, Saved, Open, PausesSaved
<1> QED
  BY <1>7, <1>9, <1>10, <1>11, <1>12 DEF IInv

LEMMA Same ==
  ASSUME UNCHANGED task
  PROVE  SameTasks
BY DEF SameTasks, SameTask

LEMMA RunStarted ==
  ASSUME IInv, StartRun
  PROVE  IInv'
<1>1. /\ TypeOK /\ boot = "up" /\ rpc = NoRpc /\ status = "none"
      /\ \A t \in Tasks : ~Driving(t)
      /\ \A p \in Props : appr[p] # "requested"
      /\ Saved = {}
      /\ UNCHANGED <<ckpt, prop, appr, late, provider, calls, rpc, boot, bounds>>
  BY DEF IInv, DriverInv, RequestInv, StartRun, Idle
<1>2. status' = "running" /\ ended' \in Nat
  BY <1>1, SetStatusType DEF StartRun, Statuses, Terminal
<1>3. CASE Spawn
  BY <1>1, <1>2, <1>3, Spawned
<1>4. CASE UNCHANGED <<task, registry>>
  <2>1. TypeOK'
    BY <1>1, <1>2, <1>4, TypeOKIs, TypeKept DEF Statuses
  <2>2. SameTasks
    BY <1>4, Same
  <2>3. DriverInv' /\ RequestInv'
    BY <1>1, <1>2, <2>2, SameDriver DEF IInv, DriverInv, OneDriver, RequestInv
  <2> QED
    BY <1>1, <1>2, <2>1, <2>2, <2>3, QuietStep DEF ApprovalsSettle
<1> QED
  BY <1>3, <1>4 DEF StartRun

LEMMA Decided ==
  ASSUME IInv, NEW p \in Props, NEW d \in {"approved", "rejected"}, Decide(p, d)
  PROVE  IInv'
<1>1. /\ TypeOK /\ boot = "up" /\ appr[p] = "requested"
      /\ appr' = [appr EXCEPT ![p] = d] /\ rpc' = [op |-> "decide", prop |-> p, decision |-> d]
      /\ UNCHANGED <<status, ended, ckpt, prop, late, provider, task, registry, calls, boot, bounds>>
  BY DEF IInv, Decide, Idle
<1>2. appr \in [Props -> Answers]
  BY <1>1, TypeOKIs
<1>3. /\ appr' \in [Props -> Answers] /\ appr'[p] = d
      /\ \A q \in Props \ {p} : appr'[q] = appr[q]
  BY <1>1, <1>2 DEF Answers
<1>4. rpc' \in Rpcs /\ rpc'.op = "decide"
  BY <1>1 DEF Rpcs
<1>5. TypeOK'
  BY <1>1, <1>3, <1>4, TypeOKIs, TypeKept
<1>6. SameTasks
  BY <1>1, Same
<1>7. RequestInv'
  BY <1>1, <1>3, <1>6, SameDriver DEF IInv, RequestInv
<1>8. DriverInv'
  BY <1>1, <1>4, <1>6, SameDriver DEF IInv, DriverInv, OneDriver, Saved
<1> QED
  BY <1>1, <1>3, <1>5, <1>6, <1>7, <1>8, QuietStep DEF ApprovalsSettle

\* A step after which fewer requests are open, and nothing else is different.
LEMMA RequestsEnd ==
  ASSUME IInv, appr' \in [Props -> Answers], ApprovalsSettle,
         \A p \in Props : appr'[p] = "requested" => appr[p] = "requested",
         UNCHANGED <<status, ended, ckpt, prop, late, provider, task, registry, calls, rpc, boot,
                     bounds>>
  PROVE  IInv'
<1>1. SameTasks
  BY Same
<1>2. TypeOK'
  BY TypeOKIs, TypeKept DEF IInv
<1>3. RequestInv'
  BY <1>1, SameDriver DEF IInv, RequestInv
<1>4. DriverInv'
  BY <1>1, SameDriver DEF IInv, DriverInv, OneDriver, Saved
<1> QED
  BY <1>1, <1>2, <1>3, <1>4, QuietStep

LEMMA Drifted ==
  ASSUME IInv, NEW p \in Props, DriftDecide(p)
  PROVE  IInv'
<1>1. appr \in [Props -> Answers]
  BY TypeOKIs DEF IInv
<1>2. /\ appr' \in [Props -> Answers]
      /\ \A q \in Props : \/ appr'[q] = appr[q]
                          \/ appr[q] = "requested" /\ appr'[q] = "expired"
  BY <1>1 DEF DriftDecide, Answers
<1> QED
  BY <1>2, RequestsEnd DEF DriftDecide, ApprovalsSettle

LEMMA ExpiredElsewhere ==
  ASSUME IInv, ExpireElsewhere
  PROVE  IInv'
<1>1. /\ appr' \in [Props -> Answers]
      /\ \A q \in Props : appr'[q] = Refreshed(q)
  BY Expired DEF IInv, ExpireElsewhere, ExpireStale
<1>2. \A q \in Props : /\ appr'[q] = "requested" => appr[q] = "requested"
                       /\ appr[q] # "requested" => appr'[q] = appr[q]
                       /\ appr'[q] = "none" <=> appr[q] = "none"
  BY <1>1, Expired DEF IInv, Refreshed
<1> QED
  BY <1>1, <1>2, RequestsEnd DEF ExpireElsewhere, ApprovalsSettle

LEMMA FollowedUp ==
  ASSUME IInv, FollowUp
  PROVE  IInv'
<1>1. /\ TypeOK /\ boot = "up" /\ rpc.op = "decide" /\ rpc' = NoRpc
      /\ \A p \in Props : appr[p] # "requested"
      /\ UNCHANGED <<ckpt, prop, appr, late, provider, calls, boot, bounds>>
      /\ NoRpc \in Rpcs /\ NoRpc.op = "none"
  BY DEF IInv, DriverInv, RequestInv, FollowUp, NoRpc, Rpcs
<1>2. status = "paused" => \A t \in Tasks : ~Driving(t)
  BY <1>1, Alone DEF IInv, RequestInv, DriverInv
<1>3. CASE Waits /\ Spawn /\ UNCHANGED <<status, ended>>
  BY <1>1, <1>2, <1>3, Spawned, TypeOKIs DEF Waits
<1>4. CASE Waits /\ SetStatus("failed") /\ UNCHANGED <<task, registry>>
  <2>1. status' = "failed" /\ ended' \in Nat
    BY <1>1, <1>4, SetStatusType DEF Waits, Statuses, Terminal
  <2>2. TypeOK'
    BY <1>1, <1>4, <2>1, TypeOKIs, TypeKept DEF Statuses, Terminal
  <2>3. SameTasks
    BY <1>4, Same
  <2>4. DriverInv' /\ RequestInv'
    BY <1>1, <1>2, <1>4, <2>1, <2>3, SameDriver DEF IInv, DriverInv, OneDriver, RequestInv, Waits
  <2> QED
    BY <1>1, <2>1, <2>2, <2>3, <2>4, QuietStep DEF ApprovalsSettle
<1>5. CASE UNCHANGED <<status, ended, task, registry>>
  <2>1. TypeOK'
    BY <1>1, <1>5, TypeOKIs, TypeKept
  <2>2. SameTasks
    BY <1>5, Same
  <2>3. DriverInv' /\ RequestInv'
    BY <1>1, <1>5, <2>2, SameDriver DEF IInv, DriverInv, OneDriver, RequestInv, Saved
  <2> QED
    BY <1>1, <1>5, <2>1, <2>2, <2>3, QuietStep DEF ApprovalsSettle
<1> QED
  BY <1>3, <1>4, <1>5 DEF FollowUp

LEMMA Cancelled ==
  ASSUME IInv, CancelRun
  PROVE  IInv'
<1>1. /\ TypeOK /\ status \in {"running", "paused"}
      /\ UNCHANGED <<ckpt, prop, appr, late, provider, registry, calls, rpc, boot, bounds>>
      /\ task \in [Tasks -> TaskRow] /\ registry \in Tasks \cup {None}
  BY TypeOKIs DEF IInv, CancelRun, Statuses, Terminal
<1>2. CASE /\ registry # None /\ UNCHANGED <<status, ended>>
           /\ task' = [task EXCEPT ![registry].cancelled = Driving(registry)]
  <2>1. PICK r \in Tasks : r = registry
    BY <1>1, <1>2
  <2>2. Driving(r) \in BOOLEAN
    BY DEF Driving, Live
  <2> DEFINE row == [task[r] EXCEPT !.cancelled = Driving(r)]
  <2>3. /\ row \in TaskRow /\ row.pc = task[r].pc /\ row.iter = task[r].iter
        /\ row.prop = task[r].prop /\ row.result = task[r].result
    BY <1>1, <2>2 DEF TaskRow
  <2>4. task' = [task EXCEPT ![r] = row]
    BY <1>1, <1>2, <2>1
  <2> HIDE DEF row
  <2>5. task' \in [Tasks -> TaskRow] /\ SameTasks
    BY <1>1, <2>3, <2>4 DEF SameTasks, SameTask
  <2>6. TypeOK'
    BY <1>1, <1>2, <2>5, TypeOKIs, TypeKept
  <2>7. DriverInv' /\ RequestInv'
    BY <1>1, <1>2, <2>5, SameDriver DEF IInv, DriverInv, OneDriver, RequestInv, Saved
  <2> QED
    BY <1>1, <1>2, <2>5, <2>6, <2>7, QuietStep DEF ApprovalsSettle
<1>3. CASE SetStatus("cancelled") /\ UNCHANGED task
  <2>1. status' = "cancelled" /\ ended' \in Nat
    BY <1>1, <1>3, SetStatusType DEF Statuses, Terminal
  <2>2. TypeOK'
    BY <1>1, <1>3, <2>1, TypeOKIs, TypeKept DEF Statuses, Terminal
  <2>3. SameTasks
    BY <1>3, Same
  <2>4. DriverInv' /\ RequestInv'
    BY <1>1, <2>1, <2>3, SameDriver DEF IInv, DriverInv, OneDriver, RequestInv, Saved
  <2> QED
    BY <1>1, <2>1, <2>2, <2>3, <2>4, QuietStep DEF ApprovalsSettle
<1> QED
  BY <1>2, <1>3 DEF CancelRun

LEMMA Lapsed ==
  ASSUME IInv, NEW p \in Props, Lapse(p)
  PROVE  IInv'
<1>1. /\ late' \in SUBSET Props
      /\ UNCHANGED <<status, ended, ckpt, prop, appr, provider, task, registry, calls, rpc, boot, bounds>>
  BY TypeOKIs DEF IInv, Lapse
<1>2. TypeOK'
  BY <1>1 DEF IInv, TypeOK
<1>3. SameTasks
  BY <1>1, Same
<1>4. DriverInv' /\ RequestInv'
  BY <1>1, <1>3, SameDriver DEF IInv, DriverInv, OneDriver, RequestInv, Saved
<1> QED
  BY <1>1, <1>2, <1>3, <1>4, QuietStep DEF ApprovalsSettle

LEMMA ProviderChanged ==
  ASSUME IInv, ChangeProvider
  PROVE  IInv'
<1>1. /\ TypeOK /\ provider' \in Fingerprints
      /\ UNCHANGED <<status, ended, ckpt, prop, appr, late, task, registry, calls, rpc, boot>>
  BY DEF IInv, ChangeProvider
<1>2. bounds' \in Bounds /\ bounds'.lost = bounds.lost
  <2>1. bounds \in Bounds
    BY <1>1, TypeOKIs
  <2>2. bounds.changes \in 0 .. MaxChanges /\ bounds.changes < MaxChanges
    BY <2>1 DEF Bounds, ChangeProvider
  <2>3. bounds.changes + 1 \in 0 .. MaxChanges
    BY <2>2
  <2> QED
    BY <2>1, <2>3 DEF Bounds, ChangeProvider
<1>3. TypeOK'
  BY <1>1, <1>2 DEF TypeOK, Bounds
<1>4. SameTasks
  BY <1>1, Same
<1>5. DriverInv' /\ RequestInv'
  BY <1>1, <1>4, SameDriver DEF IInv, DriverInv, OneDriver, RequestInv, Saved
<1> QED
  BY <1>1, <1>2, <1>3, <1>4, <1>5, QuietStep DEF ApprovalsSettle

\* No task survives: a Run that one was working on is not resumed any more.
LEMMA Crashed ==
  ASSUME IInv, Crash
  PROVE  IInv'
<1>1. /\ TypeOK /\ boot' = "runs" /\ rpc' = NoRpc /\ registry' = None
      /\ UNCHANGED <<status, ended, ckpt, prop, appr, late, provider, calls>>
      /\ NoRpc \in Rpcs /\ NoRpc.op = "none" /\ task \in [Tasks -> TaskRow]
  BY TypeOKIs DEF IInv, Crash, NoRpc, Rpcs
<1>2. task' = [t \in Tasks |-> IF Live(t) THEN [NoTask EXCEPT !.pc = "gone"] ELSE task[t]]
  BY DEF Crash
<1>3. /\ [NoTask EXCEPT !.pc = "gone"] \in TaskRow
      /\ [NoTask EXCEPT !.pc = "gone"].pc = "gone"
  BY NoTaskType DEF Pcs
<1>4. task' \in [Tasks -> TaskRow]
  BY <1>1, <1>2, <1>3
<1>5. \A t \in Tasks : ~Driving(t)'
  BY <1>2, <1>3 DEF Driving, Live
<1>6. bounds' \in Bounds /\ (PausesSaved' <=> PausesSaved)
  <2>1. bounds \in Bounds
    BY <1>1, TypeOKIs
  <2>2. bounds.crashes \in 0 .. MaxCrashes /\ bounds.crashes < MaxCrashes
    BY <2>1 DEF Bounds, Crash
  <2>3. bounds.crashes + 1 \in 0 .. MaxCrashes
    BY <2>2
  <2> QED
    BY <2>1, <2>3 DEF Bounds, Crash, PausesSaved
<1>7. TypeOK'
  BY <1>1, <1>4, <1>6 DEF TypeOK, TaskRow, Bounds, Rpcs
<1>8. DriverInv' /\ RequestInv'
  BY <1>1, <1>5 DEF IInv, DriverInv, OneDriver, RequestInv, Saved
<1>9. ProposalInv'
  BY <1>1, <1>6, ProposalKept
<1>10. \A t \in Tasks : TaskInv(t)'
  BY <1>5 DEF TaskInv, InTurn, Driving, Live
<1>11. CkptInv'
  <2>1. \A t \in Tasks : task[t].pc \in Working => status # "paused"
    BY WorkingTask
  <2>2. \A s \in Seqs : Newest(s)' <=> Newest(s)
    BY <1>1 DEF Newest, Saved
  <2>3. \A s \in Seqs : Open(ckpt[s].pend) => Open(ckpt[s].pend)'
    BY <1>1, <1>6 DEF Open
  <2>4. Saved' = {} \/ \E s \in Seqs : Newest(s)'
    BY <1>1, <2>2 DEF IInv, CkptInv, Saved
  <2>5. \A s \in Seqs : Newest(s)' /\ ckpt'[s].pend # None =>
          Open(ckpt[s].pend)' \/ status' # "paused"
    BY <1>1, <2>1, <2>2, <2>3 DEF IInv, CkptInv
  <2> QED
    BY <1>1, <1>5, <2>4, <2>5 DEF IInv, CkptInv, Open, PausesSaved
<1> QED
  BY <1>7, <1>8, <1>9, <1>10, <1>11 DEF IInv

LEMMA Resting ==
  ASSUME IInv, boot # "up"
  PROVE  \A t \in Tasks : ~Driving(t)
BY DEF IInv, DriverInv

LEMMA RunReconciled ==
  ASSUME IInv, ReconcileRun
  PROVE  IInv'
<1>1. /\ TypeOK /\ boot = "runs" /\ boot' = "orphans"
      /\ \A t \in Tasks : ~Driving(t)
      /\ UNCHANGED <<ckpt, prop, appr, late, provider, task, registry, calls, rpc, bounds>>
  BY Resting DEF IInv, ReconcileRun
<1>2. /\ status' \in Statuses /\ ended' \in Nat /\ status' # "running"
      /\ status' = status \/ (status = "running" /\ status' = "failed")
  BY <1>1, SetStatusType, TypeOKIs DEF ReconcileRun, Statuses, Terminal
<1>3. TypeOK'
  BY <1>1, <1>2, TypeOKIs, TypeKept
<1>4. SameTasks
  BY <1>1, Same
<1>5. DriverInv'
  BY <1>1, <1>2, <1>4, SameDriver DEF IInv, DriverInv, OneDriver, Saved
<1>6. RequestInv'
  BY <1>1, <1>2, <1>4, SameDriver DEF IInv, RequestInv
<1> QED
  BY <1>1, <1>2, <1>3, <1>4, <1>5, <1>6, QuietStep DEF ApprovalsSettle

LEMMA OrphanMarked ==
  ASSUME IInv, NEW p \in Props, MarkOrphan(p)
  PROVE  IInv'
<1>1. /\ TypeOK /\ boot = "orphans" /\ boot' = "row" /\ rpc' = [NoRpc EXCEPT !.prop = p]
      /\ prop[p].decision = "proposed" /\ status \in {"failed", "cancelled"}
      /\ \A t \in Tasks : ~Driving(t)
      /\ UNCHANGED <<status, ended, ckpt, appr, late, provider, task, registry, calls, bounds>>
  BY Resting DEF IInv, MarkOrphan, Orphans
<1>2. /\ prop' \in [Props -> Prop]
      /\ prop'[p].decision = "unknown" /\ prop'[p].gated = prop[p].gated
      /\ \A q \in Props \ {p} : prop'[q] = prop[q]
  BY <1>1, DecidedRow DEF MarkOrphan, Decisions
<1>3. rpc' \in Rpcs /\ rpc'.op = "none"
  BY <1>1 DEF NoRpc, Rpcs
<1>4. TypeOK'
  BY <1>1, <1>2, <1>3, TypeOKIs, TypeKept
<1>5. \A t \in Tasks : ~Driving(t)'
  BY <1>1 DEF Driving, Live
<1>6. DriverInv' /\ RequestInv'
  BY <1>1, <1>3, <1>5 DEF IInv, DriverInv, OneDriver, RequestInv
<1>7. ProposalInv'
  BY <1>1, <1>2, ProposalKept, SameBounds
<1>8. \A t \in Tasks : TaskInv(t)'
  BY <1>5 DEF TaskInv, InTurn, Driving, Live
<1>9. CkptInv'
  <2>1. \A s \in Seqs : ckpt[s].pend \in Props \cup {None}
    BY <1>1, TypeOKIs DEF Ckpt
  <2>2. \A s \in Seqs : ckpt'[s].pend # None => prop'[ckpt'[s].pend].decision # "none"
    BY <1>1, <1>2, <2>1 DEF IInv, CkptInv
  <2>3. Saved' = Saved /\ \A s \in Seqs : Newest(s)' <=> Newest(s)
    BY <1>1 DEF Newest, Saved
  <2> QED
    BY <1>1, <1>5, <2>2, <2>3 DEF IInv, CkptInv
<1> QED
  BY <1>4, <1>6, <1>7, <1>8, <1>9 DEF IInv

LEMMA OrphanRecorded ==
  ASSUME IInv, RecordOrphan
  PROVE  IInv'
<1>1. /\ TypeOK /\ boot = "row" /\ boot' = "orphans" /\ rpc' = NoRpc
      /\ status # "running" /\ \A t \in Tasks : ~Driving(t)
      /\ UNCHANGED <<status, ended, ckpt, appr, late, provider, task, registry, calls, bounds>>
      /\ NoRpc \in Rpcs /\ NoRpc.op = "none"
  BY Resting DEF IInv, DriverInv, RecordOrphan, NoRpc, Rpcs
<1>2. /\ prop' \in [Props -> Prop]
      /\ \A q \in Props : /\ prop'[q].decision = prop[q].decision
                          /\ prop'[q].gated = prop[q].gated
  BY <1>1, RecordedRow DEF RecordOrphan
<1>3. TypeOK'
  BY <1>1, <1>2, TypeOKIs, TypeKept
<1>4. \A t \in Tasks : ~Driving(t)'
  BY <1>1 DEF Driving, Live
<1>5. DriverInv' /\ RequestInv'
  BY <1>1, <1>4 DEF IInv, DriverInv, OneDriver, RequestInv, Saved
<1>6. ProposalInv'
  BY <1>1, <1>2, ProposalKept, SameBounds
<1>7. \A t \in Tasks : TaskInv(t)'
  BY <1>4 DEF TaskInv, InTurn, Driving, Live
<1>8. CkptInv'
  <2>1. \A s \in Seqs : ckpt[s].pend \in Props \cup {None}
    BY <1>1, TypeOKIs DEF Ckpt
  <2>2. \A s \in Seqs : ckpt'[s].pend # None => prop'[ckpt'[s].pend].decision # "none"
    BY <1>1, <1>2, <2>1 DEF IInv, CkptInv
  <2>3. Saved' = Saved /\ \A s \in Seqs : Newest(s)' <=> Newest(s)
    BY <1>1 DEF Newest, Saved
  <2>4. \A s \in Seqs : ckpt[s].pend # None =>
          (Open(ckpt[s].pend) => Open(ckpt[s].pend)')
    BY <1>1, <1>2, <2>1 DEF Open, PausesSaved
  <2>5. \A t \in Tasks : task[t].pc \notin Working
    BY <1>1, AtWork
  <2>6. \A s \in Seqs : Newest(s)' /\ ckpt'[s].pend # None =>
          Open(ckpt[s].pend)' \/ status' # "paused"
    BY <1>1, <2>3, <2>4, <2>5 DEF IInv, CkptInv
  <2>7. Saved' = {} \/ \E s \in Seqs : Newest(s)'
    BY <2>3 DEF IInv, CkptInv
  <2> QED
    BY <1>1, <1>4, <2>2, <2>6, <2>7 DEF CkptInv, Open, PausesSaved
<1> QED
  BY <1>3, <1>5, <1>6, <1>7, <1>8 DEF IInv

LEMMA Served ==
  ASSUME IInv, Serve
  PROVE  IInv'
<1>1. /\ TypeOK /\ boot' = "up" /\ \A t \in Tasks : ~Driving(t)
      /\ UNCHANGED <<status, ended, ckpt, prop, appr, late, provider, task, registry, calls, rpc, bounds>>
  BY Resting DEF IInv, Serve
<1>2. TypeOK'
  BY <1>1, TypeOKIs, TypeKept
<1>3. SameTasks
  BY <1>1, Same
<1>4. DriverInv' /\ RequestInv'
  BY <1>1, <1>3, SameDriver DEF IInv, DriverInv, OneDriver, RequestInv, Saved
<1> QED
  BY <1>1, <1>2, <1>3, <1>4, QuietStep DEF ApprovalsSettle

LEMMA Stuttering ==
  ASSUME IInv, UNCHANGED vars
  PROVE  IInv'
<1>1. UNCHANGED <<status, ended, ckpt, prop, appr, late, provider, task, registry, calls, rpc, boot, bounds>>
  BY DEF vars
<1>2. TypeOK'
  BY <1>1, TypeOKIs, TypeKept DEF IInv
<1>3. SameTasks
  BY <1>1, Same
<1>4. DriverInv' /\ RequestInv'
  BY <1>1, <1>3, SameDriver DEF IInv, DriverInv, OneDriver, RequestInv, Saved
<1> QED
  BY <1>1, <1>2, <1>3, <1>4, QuietStep DEF ApprovalsSettle

LEMMA Inductive == Spec => []IInv
<1>1. ASSUME IInv, Next PROVE IInv'
  <2>1. CASE \E t \in Tasks : TaskStep(t)
    BY <1>1, <2>1, Began, Turned, Judged, Paused, Called, Marked, RecordStep, GaveUp,
       Unregistered
       DEF TaskStep
  <2>2. CASE Rpc
    BY <1>1, <2>2, RunStarted, FollowedUp, Cancelled, Drifted, Decided DEF Rpc
  <2>3. CASE World
    BY <1>1, <2>3, Lapsed, ExpiredElsewhere, ProviderChanged, Crashed DEF World
  <2>4. CASE Startup
    BY <1>1, <2>4, RunReconciled, OrphanRecorded, Served, OrphanMarked DEF Startup
  <2> QED
    BY <1>1, <2>1, <2>2, <2>3, <2>4 DEF Next
<1>2. IInv /\ [Next]_vars => IInv'
  BY <1>1, Stuttering
<1> QED
  BY InitInv, <1>2, PTL DEF Spec

-----------------------------------------------------------------------------
(* The refinement: every step of the Run is one of ToolContract, or none.     *)

\* The mapping of the steps that leave the decisions as they are.
LEMMA SameDecisions ==
  ASSUME \A p \in Props : prop'[p].decision = prop[p].decision /\ prop'[p].gated = prop[p].gated
  PROVE  /\ [p \in Props |-> prop[p].decision]' = [p \in Props |-> prop[p].decision]
         /\ {p \in Props : prop[p].gated}' = {p \in Props : prop[p].gated}
OBVIOUS

LEMMA NoContractStep ==
  ASSUME UNCHANGED <<appr, calls>>,
         \A p \in Props : prop'[p].decision = prop[p].decision /\ prop'[p].gated = prop[p].gated
  PROVE  UNCHANGED Contract!contract
BY SameDecisions DEF Contract!contract

\* Requests are made and answered.
Answered ==
  /\ appr' \in [Props -> Answers]
  /\ \A p \in Props : appr'[p] # appr[p] =>
       \/ appr[p] = "none" /\ appr'[p] = "requested"
       \/ appr[p] = "requested" /\ appr'[p] \in {"approved", "rejected", "expired"}

LEMMA AnswerStep ==
  ASSUME Answered, UNCHANGED <<prop, calls>>
  PROVE  Contract!Next
<1>1. Contract!AskOrAnswer
  BY SameDecisions DEF Contract!AskOrAnswer, Answered, Answers
<1> QED
  BY <1>1 DEF Contract!Next, Contract!Consult

LEMMA Initially == Init => Contract!Init
<1> SUFFICES ASSUME Init PROVE Contract!Init
  OBVIOUS
<1>1. \A p \in Props : prop[p].decision = "none" /\ ~prop[p].gated
  BY DEF Init, NoProp
<1>2. /\ [p \in Props |-> prop[p].decision] = [p \in Props |-> "none"]
      /\ {p \in Props : prop[p].gated} = {}
  BY <1>1
<1> QED
  BY <1>2 DEF Init, Contract!Init

LEMMA ExpireAnswers ==
  ASSUME TypeOK, ExpireStale
  PROVE  Answered
<1>1. \A p \in Props : appr'[p] = Refreshed(p)
  BY DEF ExpireStale
<1>2. appr' \in [Props -> Answers]
  BY Expired DEF ExpireStale
<1> QED
  BY <1>1, <1>2 DEF Answered, Refreshed

LEMMA SettleStep ==
  ASSUME TypeOK, NEW p \in Props, NEW d \in Decisions \cup {"rejected"},
         prop[p].decision = "proposed",
         \/ d \in Decisions /\ calls[p] = 1
         \/ d \in {"rejected", "unknown"} /\ calls[p] = 0,
         prop' = [prop EXCEPT ![p].decision = d], UNCHANGED <<appr, calls>>
  PROVE  Contract!Next
<1>1. /\ prop'[p].decision = d /\ prop'[p].gated = prop[p].gated
      /\ \A q \in Props \ {p} : prop'[q] = prop[q]
  BY DecidedRow
<1>2. [q \in Props |-> prop[q].decision]' = [[q \in Props |-> prop[q].decision] EXCEPT ![p] = d]
  <2>1. \A q \in Props : prop'[q].decision = IF q = p THEN d ELSE prop[q].decision
    BY <1>1
  <2> QED
    BY <2>1, Zenon
<1>3. {q \in Props : prop[q].gated}' = {q \in Props : prop[q].gated}
  BY <1>1
<1>4. Contract!Settle(p, d)
  BY <1>2, <1>3 DEF Contract!Settle, Decisions
<1>5. d \in {"executed", "exec_failed", "unknown", "rejected"}
  BY DEF Decisions
<1> QED
  BY <1>4, <1>5 DEF Contract!Next

LEMMA ProposeStep ==
  ASSUME IInv, NEW t \in Tasks, Propose(t), UNCHANGED <<appr, calls>>
  PROVE  Contract!Next
<1>1. PICK n \in 0 .. MaxProposals : Made = 1 .. n
  BY DEF IInv, ProposalInv
<1>2. Cardinality(1 .. n) = n
  BY FS_Interval
<1>3. PICK p \in Props : p = Cardinality(Made) + 1 /\ p \notin Made
  BY <1>1, <1>2 DEF Propose, Props
<1>4. PICK gated \in BOOLEAN :
        prop' = [prop EXCEPT ![p] = [NoProp EXCEPT !.decision = "proposed", !.gated = gated]]
  BY <1>3 DEF Propose
<1>5. prop[p].decision = "none" /\ ~prop[p].gated
  BY <1>3 DEF Made, IInv, ProposalInv
<1>6. prop \in [Props -> Prop]
  BY TypeOKIs DEF IInv
<1>7. /\ prop'[p].decision = "proposed" /\ prop'[p].gated = gated
      /\ \A q \in Props \ {p} : prop'[q] = prop[q]
  BY <1>4, <1>6 DEF NoProp
<1>8. [q \in Props |-> prop[q].decision]'
        = [[q \in Props |-> prop[q].decision] EXCEPT ![p] = "proposed"]
  BY <1>7
<1>9. {q \in Props : prop[q].gated}'
        \in {{q \in Props : prop[q].gated}, {q \in Props : prop[q].gated} \cup {p}}
  <2>1. CASE gated
    BY <1>5, <1>7, <2>1
  <2>2. CASE ~gated
    BY <1>5, <1>7, <2>2
  <2> QED
    BY <2>1, <2>2
<1>10. Contract!Propose(p)
  BY <1>5, <1>8, <1>9 DEF Contract!Propose
<1> QED
  BY <1>10 DEF Contract!Next

LEMMA ExecuteStep ==
  ASSUME IInv, PausesSaved, NEW t \in Tasks, CallTool(t)
  PROVE  Contract!Next
<1>1. /\ task[t].pc = "call" /\ TypeOK /\ task[t].prop \in Props /\ Open(task[t].prop)
      /\ prop[task[t].prop].gated => appr[task[t].prop] = "approved"
      /\ UNCHANGED <<prop, appr>>
      /\ appr \in [Props -> Answers] /\ calls \in [Props -> Nat]
  BY TypeOKIs DEF IInv, TaskInv, InTurn, CallTool
<1>2. PICK p \in Props : p = task[t].prop
  BY <1>1
<1>3. calls' = [calls EXCEPT ![p] = 1]
  <2>1. calls' = [calls EXCEPT ![p] = calls[p] + 1] /\ calls[p] = 0
    BY <1>1, <1>2 DEF CallTool, Open, PausesSaved
  <2> QED
    BY <2>1
<1>4. Contract!AskOrAnswer
  BY <1>1, SameDecisions DEF Contract!AskOrAnswer, Answers
<1>5. Contract!Execute(p)
  BY <1>1, <1>2, <1>3 DEF Contract!Execute, Open, PausesSaved
<1> QED
  BY <1>4, <1>5 DEF Contract!Next, Contract!Consult

LEMMA TurnStep ==
  ASSUME IInv, NEW t \in Tasks, Turn(t)
  PROVE  Contract!Next \/ UNCHANGED Contract!contract
<1>1. UNCHANGED <<appr, calls>> /\ (UNCHANGED prop \/ Propose(t))
  BY DEF Turn
<1> QED
  BY <1>1, ProposeStep, NoContractStep

LEMMA JudgeStep ==
  ASSUME IInv, PausesSaved, NEW t \in Tasks, Judge(t)
  PROVE  Contract!Next \/ UNCHANGED Contract!contract
<1>1. /\ task[t].pc = "judge" /\ TypeOK /\ task[t].prop \in Props /\ Open(task[t].prop)
      /\ appr[task[t].prop] = "none" /\ UNCHANGED calls
  BY DEF IInv, TaskInv, InTurn, Judge
<1>2. PICK p \in Props : p = task[t].prop
  BY <1>1
<1>3. CASE prop' = [prop EXCEPT ![p].decision = "rejected"] /\ UNCHANGED appr
  BY <1>1, <1>2, <1>3, SettleStep DEF Open, PausesSaved
<1>4. CASE /\ appr' = [q \in Props |-> IF q = p THEN "requested" ELSE Refreshed(q)]
           /\ UNCHANGED prop
  <2>1. \A q \in Props : appr'[q] = IF q = p THEN "requested" ELSE Refreshed(q)
    BY <1>4
  <2>2. appr' \in [Props -> Answers]
    BY <1>1, <1>4, Expired DEF Answers
  <2>3. Answered
    BY <1>1, <1>2, <2>1, <2>2 DEF Answered, Refreshed
  <2> QED
    BY <1>1, <1>4, <2>3, AnswerStep
<1>5. CASE UNCHANGED <<prop, appr>>
  BY <1>1, <1>5, NoContractStep
<1> QED
  BY <1>2, <1>3, <1>4, <1>5 DEF Judge

LEMMA TaskStepMaps ==
  ASSUME IInv, PausesSaved, NEW t \in Tasks, TaskStep(t)
  PROVE  Contract!Next \/ UNCHANGED Contract!contract
<1>1. TypeOK /\ TaskInv(t)
  BY DEF IInv
<1>2. CASE Begin(t)
  <2>1. UNCHANGED <<prop, calls>> /\ (UNCHANGED appr \/ ExpireStale)
    BY <1>2 DEF Begin
  <2> QED
    BY <1>1, <2>1, ExpireAnswers, AnswerStep, NoContractStep
<1>3. CASE Turn(t)
  BY <1>3, TurnStep
<1>4. CASE Judge(t)
  BY <1>4, JudgeStep
<1>5. CASE Pause(t) \/ GiveUp(t) \/ Unregister(t)
  BY <1>5, NoContractStep DEF Pause, GiveUp, Unregister
<1>6. CASE CallTool(t)
  BY <1>6, ExecuteStep
<1>7. CASE Mark(t)
  <2>1. /\ task[t].prop \in Props /\ prop[task[t].prop].decision = "proposed"
        /\ calls[task[t].prop] = 1 /\ task[t].result \in Decisions
        /\ UNCHANGED <<appr, calls>>
    BY <1>1, <1>7 DEF TaskInv, InTurn, Mark
  <2> QED
    BY <1>1, <1>7, <2>1, SettleStep DEF Mark
<1>8. CASE Record(t)
  <2>1. \A q \in Props : prop'[q].decision = prop[q].decision /\ prop'[q].gated = prop[q].gated
    BY <1>1, <1>8, RecordedRow DEF Record, OutcomeOf
  <2> QED
    BY <1>8, <2>1, NoContractStep DEF Record
<1> QED
  BY <1>2, <1>3, <1>4, <1>5, <1>6, <1>7, <1>8 DEF TaskStep

LEMMA RpcMaps ==
  ASSUME IInv, Rpc
  PROVE  Contract!Next \/ UNCHANGED Contract!contract
<1>1. TypeOK /\ appr \in [Props -> Answers]
  BY TypeOKIs DEF IInv
<1>2. CASE StartRun \/ FollowUp \/ CancelRun
  BY <1>2, NoContractStep DEF StartRun, FollowUp, CancelRun
<1>3. ASSUME NEW p \in Props, NEW d \in {"approved", "rejected", "expired"},
             appr[p] = "requested", appr' = [appr EXCEPT ![p] = d], UNCHANGED <<prop, calls>>
      PROVE  Contract!Next
  <2>1. Answered
    BY <1>1, <1>3 DEF Answered, Answers
  <2> QED
    BY <1>3, <2>1, AnswerStep
<1>4. ASSUME NEW p \in Props, DriftDecide(p) \/ \E d \in {"approved", "rejected"} : Decide(p, d)
      PROVE  Contract!Next
  BY <1>3, <1>4 DEF DriftDecide, Decide
<1> QED
  BY <1>2, <1>4 DEF Rpc

LEMMA WorldMaps ==
  ASSUME IInv, World
  PROVE  Contract!Next \/ UNCHANGED Contract!contract
<1>1. CASE \E p \in Props : Lapse(p)
  BY <1>1, NoContractStep DEF Lapse
<1>2. CASE ExpireElsewhere
  BY <1>2, ExpireAnswers, AnswerStep DEF IInv, ExpireElsewhere
<1>3. CASE ChangeProvider \/ Crash
  BY <1>3, NoContractStep DEF ChangeProvider, Crash
<1> QED
  BY <1>1, <1>2, <1>3 DEF World

LEMMA StartupMaps ==
  ASSUME IInv, PausesSaved, Startup
  PROVE  Contract!Next \/ UNCHANGED Contract!contract
<1>1. TypeOK /\ \A p \in Props : calls[p] \in {0, 1}
  BY DEF IInv, ProposalInv
<1>2. CASE ReconcileRun \/ Serve
  BY <1>2, NoContractStep DEF ReconcileRun, Serve
<1>3. CASE RecordOrphan
  <2>1. \A q \in Props : prop'[q].decision = prop[q].decision /\ prop'[q].gated = prop[q].gated
    BY <1>1, <1>3, RecordedRow DEF RecordOrphan
  <2> QED
    BY <1>3, <2>1, NoContractStep DEF RecordOrphan
<1>4. ASSUME NEW p \in Props, MarkOrphan(p) PROVE Contract!Next
  <2>1. /\ prop[p].decision = "proposed" /\ prop' = [prop EXCEPT ![p].decision = "unknown"]
        /\ UNCHANGED <<appr, calls>>
    BY <1>4 DEF MarkOrphan, Orphans
  <2> QED
    BY <1>1, <2>1, SettleStep DEF Decisions
<1> QED
  BY <1>2, <1>3, <1>4 DEF Startup

-----------------------------------------------------------------------------
(* The theorems.                                                              *)

\* Every variable keeps its type (agent/src/lib.rs, dispatch.rs).
THEOREM RunTypeCorrect == Spec => []TypeOK
<1>1. IInv => TypeOK
  BY DEF IInv
<1> QED
  BY <1>1, Inductive, PTL

\* At most one task drives the Run, though the token of an old one may be registered
\* while a new one works, and none while the new one does (execute_run,
\* spawn_run_task, act_on_tool_proposal_decision).
THEOREM OneTaskDrives == Spec => []OneDriver
<1>1. IInv => OneDriver
  BY DEF IInv, DriverInv
<1> QED
  BY <1>1, Inductive, PTL

\* The startup leaves no Run running and no proposal of a failed or cancelled Run open,
\* however often it is cut short (reconcile_interrupted, reconcile_orphan_proposals).
THEOREM StartupReconciles == Spec => StartupSettles
<1>1. IInv /\ [Next]_vars =>
        (boot # "up" /\ boot' = "up" =>
           /\ status # "running"
           /\ status \in {"failed", "cancelled"} => \A p \in Props : prop[p].decision # "proposed")
  <2> SUFFICES ASSUME IInv, [Next]_vars, boot # "up", boot' = "up"
               PROVE  /\ status # "running"
                      /\ status \in {"failed", "cancelled"} =>
                           \A p \in Props : prop[p].decision # "proposed"
    OBVIOUS
  <2>1. Serve
    <3>1. \A t \in Tasks : ~TaskStep(t)
      BY DEF TaskStep, Begin, Turn, Judge, Pause, CallTool, Mark, Record, GiveUp, Unregister
    <3>2. ~Rpc /\ ~World
      BY DEF Rpc, StartRun, FollowUp, CancelRun, DriftDecide, Decide, World, Lapse,
         ExpireElsewhere, ChangeProvider, Crash
    <3> QED
      BY <3>1, <3>2 DEF Next, vars, Startup, ReconcileRun, MarkOrphan, RecordOrphan
  <2> QED
    BY <2>1 DEF Serve, Orphans, IInv, DriverInv
<1> QED
  BY <1>1, Inductive, PTL DEF Spec, StartupSettles

\* A pause that loses its checkpoint stays lost.
LEMMA LostStays ==
  ASSUME TypeOK, [Next]_vars, PausesSaved'
  PROVE  PausesSaved
<1>1. bounds \in Bounds /\ bounds.lost \in Nat
  BY TypeOKIs DEF Bounds
<1>2. \/ UNCHANGED bounds
      \/ bounds' = [bounds EXCEPT !.lost = @ + 1]
      \/ bounds' = [bounds EXCEPT !.changes = @ + 1]
      \/ bounds' = [bounds EXCEPT !.crashes = @ + 1]
  <2>1. ASSUME NEW t \in Tasks, TaskStep(t)
        PROVE  UNCHANGED bounds \/ bounds' = [bounds EXCEPT !.lost = @ + 1]
    BY <2>1 DEF TaskStep, Begin, Turn, Judge, Pause, CallTool, Mark, Record, GiveUp, Unregister
  <2>2. Rpc \/ Startup => UNCHANGED bounds
    BY DEF Rpc, StartRun, FollowUp, CancelRun, DriftDecide, Decide, Startup, ReconcileRun,
       RecordOrphan, Serve, MarkOrphan
  <2>3. World => \/ UNCHANGED bounds
                 \/ bounds' = [bounds EXCEPT !.changes = @ + 1]
                 \/ bounds' = [bounds EXCEPT !.crashes = @ + 1]
    BY DEF World, Lapse, ExpireElsewhere, ChangeProvider, Crash
  <2> QED
    BY <2>1, <2>2, <2>3 DEF Next, vars
<1> QED
  BY <1>1, <1>2 DEF PausesSaved, Bounds

\* The Run keeps ToolContract until a pause goes by whose checkpoint was lost: however it
\* is paused, resumed, cancelled, killed or moved to another provider, and whichever
\* other write fails, a proposal is executed at most once, while it is open, and with
\* its approval if it needs one (execute_run, propose_and_execute, validate_for,
\* checkpoint).
THEOREM RunKeepsContract == Spec => KeepsContract
<1>1. Init => Contract!Init
  BY Initially
<1>2. IInv /\ [Next]_vars => [PausesSaved' => Contract!Next \/ UNCHANGED Contract!contract]_vars
  <2>1. ASSUME IInv, Next, PausesSaved' PROVE Contract!Next \/ UNCHANGED Contract!contract
    <3>1. PausesSaved
      BY <2>1, LostStays DEF IInv
    <3> QED
      BY <2>1, <3>1, TaskStepMaps, RpcMaps, WorldMaps, StartupMaps DEF Next
  <2> QED
    BY <2>1
<1> QED
  BY <1>1, <1>2, Inductive, PTL DEF Spec, KeepsContract

\* So a Run none of whose pauses loses its checkpoint implements ToolContract.
THEOREM RunImplementsContract == Spec /\ []PausesSaved => Contract!Spec
<1>1. [PausesSaved' => Contract!Next \/ UNCHANGED Contract!contract]_vars /\ PausesSaved'
        => [Contract!Next]_(Contract!contract)
  <2>1. ASSUME UNCHANGED vars PROVE UNCHANGED Contract!contract
    BY <2>1, NoContractStep DEF vars
  <2> QED
    BY <2>1
<1> QED
  BY <1>1, RunKeepsContract, PTL DEF KeepsContract, Contract!Spec
=============================================================================
