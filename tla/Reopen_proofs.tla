---------------------------- MODULE Reopen_proofs ----------------------------
(* Proofs about Reopen, for every number of gates, attempts and operations.   *)
EXTENDS Reopen, FiniteSetTheorems, SequenceTheorems, WellFoundedInduction, TLAPS

USE ReopenAssumption

States   == {"superseded"} \cup NonFinal
Row      == [st : States, rel : {"none", "asked", "granted"}]
Attempts == [Gates -> Seq(Row)]
Kinds    == {"none", "rollback", "rework", "skip"}
Fields   == {"kind", "target", "on", "st", "prog", "ap", "seen", "fresh", "post", "last"}

-----------------------------------------------------------------------------
(* The inductive invariant.                                                   *)

SingleActive == \A a, b \in Busy : a = b

\* The tables: what TypeOK says, and the shape of the rows.
TableInv ==
  /\ gate \in Gates /\ stage \in [Gates -> {"not_started", "passed", "skipped"}]
  /\ att \in Attempts
  /\ SingleActive

\* An operation that is over names no kind.  What a rework left behind at its target
\* gate is what it compares when it is resumed.
RowInv(r, known) ==
  /\ r = [f \in Fields |-> r[f]]
  /\ r.kind \in Kinds /\ r.target \in Gates \cup {0} /\ r.on \in known \cup {None}
  /\ r.st \in {"none", "awaiting", "executing", "blocked", "completed"}
  /\ r.prog \in {"none", "prepared", "step_a"}
  /\ r.kind = "none" <=> r.st \in {"none", "completed"}
  /\ r.kind # "none" => r.target \in Gates
  /\ r.prog = "step_a" /\ r.kind = "rework" =>
       /\ r.post[1] = r.target /\ r.last \in Gates /\ r.target <= r.last
       /\ \A g \in r.target .. r.last : r.post[2][g] = "not_started"
  /\ r.prog = "step_a" /\ r.kind = "skip" => r.fresh \in known
OpsInv == ops = [o \in Ops |-> ops[o]] /\ \A o \in Ops : RowInv(ops[o], Known)

Serves(kind) == call.op \in Ops /\ Op.kind = kind
Open(S)      == \A g \in S : stage[g] = "not_started"
AtTarget(S)  == call.att \in Of(Target) /\ A(call.att).st \in S

ReleaseCall ==
  /\ call.pc \in {"advance", "pass", "next", "close"} => call.att \in Known
  /\ At("pass") => A(call.att).st = "approved"

\* A stage is reset before its attempts are withdrawn, that of the target first.
RollbackCall ==
  /\ call.pc \in {"begin", "check", "reset", "withdraw", "expire", "point", "insert",
                  "prepare", "complete"} => Serves("rollback")
  /\ call.pc \in {"reset", "withdraw", "expire"} => call.g \in Target .. N
  /\ At("reset") => Open(Target .. call.g - 1)
  /\ call.pc \in {"withdraw", "expire"} => Open(Target .. call.g)
  /\ call.pc \in {"point", "insert", "prepare", "complete"} => Open(Target .. N)
  /\ At("expire") => call.att \in Known
  /\ call.pc \in {"insert", "prepare", "complete"} => gate = Target
  /\ At("prepare") => AtTarget({"preparing"})
  /\ At("complete") => AtTarget({"prepared"})

ReworkCall ==
  /\ call.pc \in {"rework", "stepA", "stepB", "finish"} => Serves("rework")
  /\ call.pc \in {"stepB", "finish"} =>
       /\ gate = Target /\ Target <= Op.last /\ Op.last \in Gates /\ Open(Target .. Op.last)
       /\ AtTarget({"preparing", "prepared"})

SkipCall ==
  /\ call.pc \in {"skipA", "skipB"} => Serves("skip")
  /\ At("skipB") => call.att \in Known

CallFields == {"pc", "op", "att", "g", "boot", "tried"}
CallShape  == call = [f \in CallFields |-> call[f]] /\ call.pc \in Pcs
CallInv == CallShape /\ ReleaseCall /\ RollbackCall /\ ReworkCall /\ SkipCall

IInv == TableInv /\ OpsInv /\ CallInv /\ PassedIsApproved

\* What WithdrawnIsFinal and CompletedAtTarget say of one step.
Kept == \A a \in Known : (A(a).st = "superseded") => A(a)'.st = "superseded"
Reported ==
  \A o \in Ops :
    (ops[o].kind \in {"rollback", "rework"} /\ ops'[o].st = "completed") =>
      /\ gate' = ops[o].target /\ gate' \in Interval(ops[o])
      /\ \A g \in Interval(ops[o]) : stage'[g] = "not_started"
      /\ Busy' # {} /\ \A a \in Busy' : a[1] = gate'

-----------------------------------------------------------------------------
(* The least element of a set of numbers.                                     *)

LEMMA NatMin ==
  ASSUME NEW S \in SUBSET Nat, S # {}
  PROVE  \E m \in S : \A k \in S : m <= k
<1> DEFINE Below(n) == 0 .. n - 1
           T == {Below(n) : n \in S}
<1>1. T \subseteq FiniteSubsetsOf(Nat)
  <2>1. ASSUME NEW n \in S PROVE Below(n) \in FiniteSubsetsOf(Nat)
    <3>1. IsFiniteSet(0 .. n - 1)
      BY FS_Interval
    <3> QED
      BY <3>1 DEF FiniteSubsetsOf
  <2> QED
    BY <2>1
<1>2. T # {}
  OBVIOUS
<1>3. IsWellFoundedOn(StrictSubsetOrdering(Nat), FiniteSubsetsOf(Nat))
  BY FS_StrictSubsetOrderingWellFounded
<1>4. \E x \in T : \A y \in T : ~ (<<y, x>> \in StrictSubsetOrdering(Nat))
  <2> HIDE DEF T
  <2> QED
    BY <1>1, <1>2, <1>3, WFMin
<1>5. PICK m \in S : \A k \in S : ~ (<<Below(k), Below(m)>> \in StrictSubsetOrdering(Nat))
  BY <1>4
<1>6. ASSUME NEW k \in S, k < m PROVE FALSE
  <2>1. Below(k) \in SUBSET Nat /\ Below(m) \in SUBSET Nat /\ Below(k) \subseteq Below(m)
    BY <1>6
  <2>2. k \in Below(m) /\ k \notin Below(k)
    BY <1>6
  <2>3. Below(k) # Below(m)
    BY <2>2
  <2>4. <<Below(k), Below(m)>> \in StrictSubsetOrdering(Nat)
    BY <2>1, <2>3 DEF StrictSubsetOrdering
  <2> QED
    BY <1>5, <2>4
<1> QED
  BY <1>6

LEMMA MinIn ==
  ASSUME NEW S \in SUBSET Nat, S # {}
  PROVE  Min(S) \in S
BY NatMin DEF Min

-----------------------------------------------------------------------------
(* The attempts as a table.                                                   *)

KnownOf(t)  == UNION {{g} \X DOMAIN t[g] : g \in Gates}
Cell(t, a)  == t[a[1]][a[2]]

LEMMA KnownIs == Known = KnownOf(att) /\ \A a : A(a) = Cell(att, a)
BY DEF Known, KnownOf, Of, A, Cell

LEMMA KnownIsNext == Known' = KnownOf(att') /\ \A a : A(a)' = Cell(att', a)
BY DEF Known, KnownOf, Of, A, Cell

LEMMA Cells ==
  ASSUME NEW t \in Attempts
  PROVE  /\ \A a : a \in KnownOf(t) <=> /\ a = <<a[1], a[2]>> /\ a[1] \in Gates
                                        /\ a[2] \in 1 .. Len(t[a[1]])
         /\ \A a \in KnownOf(t) : Cell(t, a) \in Row
<1>1. \A g \in Gates : /\ t[g] \in Seq(Row) /\ Len(t[g]) \in Nat
                       /\ DOMAIN t[g] = 1 .. Len(t[g])
                       /\ \A n \in 1 .. Len(t[g]) : t[g][n] \in Row
  BY LenProperties, ElementOfSeq DEF Attempts
<1>2. ASSUME NEW a PROVE a \in KnownOf(t) <=> /\ a = <<a[1], a[2]>> /\ a[1] \in Gates
                                              /\ a[2] \in 1 .. Len(t[a[1]])
  <2>1. a \in KnownOf(t) <=> \E g \in Gates : a \in {g} \X (1 .. Len(t[g]))
    BY <1>1 DEF KnownOf
  <2> QED
    BY <2>1
<1> QED
  BY <1>1, <1>2 DEF Cell

Written(t, g, n, r) == [t EXCEPT ![g][n] = r]

\* One row is written; nothing is, when there is no such row.
LEMMA CellWritten ==
  ASSUME NEW t \in Attempts, NEW g \in Gates, NEW n, NEW r, NEW u,
         <<g, n>> \in KnownOf(t) => r \in Row,
         u = Written(t, g, n, r)
  PROVE  /\ u \in Attempts /\ KnownOf(u) = KnownOf(t)
         /\ \A a \in KnownOf(t) : Cell(u, a) = IF a = <<g, n>> THEN r ELSE Cell(t, a)
<1>1. \A h \in Gates : /\ t[h] \in Seq(Row) /\ Len(t[h]) \in Nat
                       /\ DOMAIN t[h] = 1 .. Len(t[h])
                       /\ t[h] \in [1 .. Len(t[h]) -> Row]
  BY LenProperties DEF Attempts
<1>2. u = [t EXCEPT ![g] = [t[g] EXCEPT ![n] = r]]
  BY DEF Attempts, Written
<1>3. u[g] = [t[g] EXCEPT ![n] = r] /\ \A h \in Gates : h # g => u[h] = t[h]
  BY <1>2 DEF Attempts
<1>4. n \in 1 .. Len(t[g]) => r \in Row
  <2>1. n \in 1 .. Len(t[g]) => <<g, n>> \in KnownOf(t)
    BY Cells
  <2> QED
    BY <2>1
<1>5. u[g] \in Seq(Row) /\ DOMAIN u[g] = 1 .. Len(t[g])
  <2>1. CASE n \in 1 .. Len(t[g])
    BY <2>1, <1>1, <1>3, <1>4, ExceptSeq
  <2>2. CASE n \notin 1 .. Len(t[g])
    <3>1. u[g] = t[g]
      BY <2>2, <1>1, <1>3
    <3> QED
      BY <3>1, <1>1
  <2> QED
    BY <2>1, <2>2
<1>6. u \in Attempts
  <2>1. u = [h \in Gates |-> u[h]]
    BY <1>2 DEF Attempts
  <2>2. \A h \in Gates : u[h] \in Seq(Row)
    BY <1>1, <1>3, <1>5
  <2> QED
    BY <2>1, <2>2 DEF Attempts
<1>7. KnownOf(u) = KnownOf(t)
  <2>1. \A h \in Gates : DOMAIN u[h] = DOMAIN t[h]
    BY <1>1, <1>3, <1>5
  <2> QED
    BY <2>1 DEF KnownOf
<1>8. ASSUME NEW a \in KnownOf(t) PROVE Cell(u, a) = IF a = <<g, n>> THEN r ELSE Cell(t, a)
  <2>1. a = <<a[1], a[2]>> /\ a[1] \in Gates /\ a[2] \in 1 .. Len(t[a[1]])
    BY Cells
  <2>2. CASE a[1] # g
    BY <2>1, <2>2, <1>3 DEF Cell
  <2>3. CASE a[1] = g
    <3>1. u[g][a[2]] = IF a[2] = n THEN r ELSE t[g][a[2]]
      BY <2>1, <2>3, <1>1, <1>3
    <3>2. a = <<g, n>> <=> a[2] = n
      BY <2>1, <2>3
    <3> QED
      BY <3>1, <3>2, <2>3 DEF Cell
  <2> QED
    BY <2>2, <2>3
<1> QED
  BY <1>6, <1>7, <1>8

NewIn(t, g) == <<g, Len(t[g]) + 1>>

\* attempt::create: one row more, and all others as they were.
LEMMA CellInserted ==
  ASSUME NEW t \in Attempts, NEW g \in Gates, NEW s \in States, NEW u,
         u = Inserted(t, g, s)
  PROVE  /\ u \in Attempts /\ KnownOf(u) = KnownOf(t) \cup {NewIn(t, g)}
         /\ NewIn(t, g) \notin KnownOf(t)
         /\ Cell(u, NewIn(t, g)) = [st |-> s, rel |-> "none"]
         /\ \A a \in KnownOf(t) : Cell(u, a) = Cell(t, a)
<1> DEFINE r == [st |-> s, rel |-> "none"]
<1>1. \A h \in Gates : /\ t[h] \in Seq(Row) /\ Len(t[h]) \in Nat
                       /\ DOMAIN t[h] = 1 .. Len(t[h])
  BY LenProperties DEF Attempts
<1>2. u[g] = Append(t[g], r) /\ \A h \in Gates : h # g => u[h] = t[h]
  BY DEF Attempts, Inserted
<1>3. r \in Row
  BY DEF Row
<1>4. /\ u[g] \in Seq(Row) /\ Len(u[g]) = Len(t[g]) + 1
      /\ DOMAIN u[g] = 1 .. Len(t[g]) + 1
      /\ \A i \in 1 .. Len(t[g]) : u[g][i] = t[g][i]
      /\ u[g][Len(t[g]) + 1] = r
  <2> HIDE DEF r
  <2>1. t[g] \in Seq(Row)
    BY <1>1
  <2>2. /\ Append(t[g], r) \in Seq(Row) /\ Len(Append(t[g], r)) = Len(t[g]) + 1
        /\ \A i \in 1 .. Len(t[g]) : Append(t[g], r)[i] = t[g][i]
        /\ Append(t[g], r)[Len(t[g]) + 1] = r
    BY <1>3, <2>1, AppendProperties
  <2> QED
    BY <1>2, <2>2, LenProperties
<1>5. u \in Attempts
  <2>1. u = [h \in Gates |-> u[h]]
    BY DEF Attempts, Inserted
  <2>2. \A h \in Gates : u[h] \in Seq(Row)
    BY <1>1, <1>2, <1>4
  <2> QED
    BY <2>1, <2>2 DEF Attempts
<1>6. ASSUME NEW a PROVE a \in KnownOf(u) <=> a \in KnownOf(t) \/ a = NewIn(t, g)
  <2>1. a \in KnownOf(u) <=> /\ a = <<a[1], a[2]>> /\ a[1] \in Gates
                             /\ a[2] \in 1 .. Len(u[a[1]])
    BY <1>5, Cells
  <2>2. a \in KnownOf(t) <=> /\ a = <<a[1], a[2]>> /\ a[1] \in Gates
                             /\ a[2] \in 1 .. Len(t[a[1]])
    BY Cells
  <2>3. CASE a[1] = g
    <3>1. Len(u[a[1]]) = Len(t[a[1]]) + 1 /\ Len(t[a[1]]) \in Nat
      BY <1>1, <1>4, <2>3
    <3>2. a[2] \in 1 .. Len(u[a[1]]) <=> a[2] \in 1 .. Len(t[a[1]]) \/ a[2] = Len(t[a[1]]) + 1
      BY <3>1
    <3>3. NewIn(t, g) = <<g, Len(t[g]) + 1>>
      BY DEF NewIn
    <3> QED
      BY <2>1, <2>2, <2>3, <3>2, <3>3
  <2>4. CASE a[1] # g
    <3>1. NewIn(t, g)[1] = g
      BY DEF NewIn
    <3>2. a[1] \in Gates => u[a[1]] = t[a[1]]
      BY <1>2, <2>4
    <3> QED
      BY <2>1, <2>2, <2>4, <3>1, <3>2
  <2> QED
    BY <2>3, <2>4
<1>7. NewIn(t, g) \notin KnownOf(t)
  BY <1>1, Cells DEF NewIn
<1>8. Cell(u, NewIn(t, g)) = r
  BY <1>4 DEF Cell, NewIn
<1>9. ASSUME NEW a \in KnownOf(t) PROVE Cell(u, a) = Cell(t, a)
  <2>1. a = <<a[1], a[2]>> /\ a[1] \in Gates /\ a[2] \in 1 .. Len(t[a[1]])
    BY Cells
  <2>2. CASE a[1] = g
    <3>1. u[g][a[2]] = t[g][a[2]]
      BY <1>4, <2>1, <2>2
    <3> QED
      BY <3>1, <2>2 DEF Cell
  <2>3. CASE a[1] # g
    BY <1>2, <2>1, <2>3 DEF Cell
  <2> QED
    BY <2>2, <2>3
<1>10. KnownOf(u) = KnownOf(t) \cup {NewIn(t, g)}
  BY <1>6
<1> QED
  BY <1>5, <1>7, <1>8, <1>9, <1>10

-----------------------------------------------------------------------------
(* Steps of the attempts.                                                     *)

LEMMA KnownType ==
  ASSUME att \in Attempts
  PROVE  /\ \A a \in Known : /\ a = <<a[1], a[2]>> /\ a[1] \in Gates /\ A(a) \in Row
                             /\ A(a).st \in States /\ a \in Of(a[1])
         /\ \A g \in Gates : Of(g) = {a \in Known : a[1] = g}
<1>1. \A a \in Known : a = <<a[1], a[2]>> /\ a[1] \in Gates /\ a[2] \in 1 .. Len(att[a[1]])
                       /\ A(a) \in Row
  BY KnownIs, Cells
<1>2. \A a \in Known : A(a).st \in States
  BY <1>1 DEF Row
<1>3. \A g \in Gates : DOMAIN att[g] = 1 .. Len(att[g])
  BY LenProperties DEF Attempts
<1>4. \A a \in Known : a \in Of(a[1])
  BY <1>1, <1>3 DEF Of
<1>5. \A g \in Gates : Of(g) = {a \in Known : a[1] = g}
  <2> SUFFICES ASSUME NEW g \in Gates PROVE Of(g) = {a \in Known : a[1] = g}
    OBVIOUS
  <2>1. \A a \in Of(g) : a[1] = g /\ a \in Known
    BY DEF Of, Known
  <2> QED
    BY <1>4, <2>1
<1> QED
  BY <1>1, <1>2, <1>4, <1>5

LEMMA SameTable ==
  ASSUME UNCHANGED att
  PROVE  Known' = Known /\ (\A a : A(a)' = A(a)) /\ Busy' = Busy
<1>1. Known' = Known /\ \A a : A(a)' = A(a)
  BY KnownIs, KnownIsNext
<1> QED
  BY <1>1 DEF Busy

StateIn(t, g, n, s) == [t EXCEPT ![g][n].st = s]

\* The state of one attempt is written.
LEMMA StateWritten ==
  ASSUME att \in Attempts, NEW g \in Gates, NEW n, NEW s \in States,
         att' = StateIn(att, g, n, s)
  PROVE  /\ att' \in Attempts /\ Known' = Known
         /\ \A a \in Known : A(a)'.st = IF a = <<g, n>> THEN s ELSE A(a).st
<1>0. PICK r : r = [att[g][n] EXCEPT !.st = s]
  OBVIOUS
<1>1. att' = Written(att, g, n, r)
  BY <1>0 DEF Written, StateIn
<1>2. <<g, n>> \in KnownOf(att) => r \in Row /\ r.st = s
  <2>1. <<g, n>> \in KnownOf(att) => att[g][n] \in Row
    BY Cells DEF Cell
  <2> QED
    BY <1>0, <2>1 DEF Row
<1>3. ASSUME NEW u, u = Written(att, g, n, r)
      PROVE  /\ u \in Attempts /\ KnownOf(u) = KnownOf(att)
             /\ \A a \in KnownOf(att) : Cell(u, a) = IF a = <<g, n>> THEN r ELSE Cell(att, a)
  BY <1>2, <1>3, CellWritten
<1> QED
  BY <1>1, <1>2, <1>3, KnownIs, KnownIsNext

\* Its release request is written.
LEMMA RequestWritten ==
  ASSUME att \in Attempts, NEW a \in Known, NEW x \in {"none", "asked", "granted"},
         att' = [att EXCEPT ![a[1]][a[2]].rel = x]
  PROVE  /\ att' \in Attempts /\ Known' = Known
         /\ \A b \in Known : A(b)'.st = A(b).st
<1>0. PICK r : r = [A(a) EXCEPT !.rel = x]
  OBVIOUS
<1>1. a = <<a[1], a[2]>> /\ a[1] \in Gates /\ A(a) \in Row
  BY KnownType
<1>2. r \in Row /\ r.st = A(a).st
  BY <1>0, <1>1 DEF Row
<1>3. att' = Written(att, a[1], a[2], r)
  BY <1>0 DEF A, Written
<1>4. ASSUME NEW u, u = Written(att, a[1], a[2], r)
      PROVE  /\ u \in Attempts /\ KnownOf(u) = KnownOf(att)
             /\ \A b \in KnownOf(att) : Cell(u, b) = IF b = <<a[1], a[2]>> THEN r ELSE Cell(att, b)
  BY <1>1, <1>2, <1>4, CellWritten
<1> QED
  BY <1>1, <1>2, <1>3, <1>4, KnownIs, KnownIsNext

LEMMA RowInserted ==
  ASSUME att \in Attempts, NEW g \in Gates, NEW s \in States,
         att' = Inserted(att, g, s),
         NEW b, b = New(g)
  PROVE  /\ att' \in Attempts /\ Known' = Known \cup {b} /\ b \notin Known /\ b[1] = g
         /\ A(b)'.st = s /\ \A a \in Known : A(a)'.st = A(a).st
<1>1. b = NewIn(att, g) /\ b[1] = g
  BY DEF New, NewIn
<1>2. /\ att' \in Attempts /\ KnownOf(att') = KnownOf(att) \cup {NewIn(att, g)}
      /\ NewIn(att, g) \notin KnownOf(att)
      /\ Cell(att', NewIn(att, g)) = [st |-> s, rel |-> "none"]
      /\ \A a \in KnownOf(att) : Cell(att', a) = Cell(att, a)
  BY CellInserted
<1>3. Cell(att', NewIn(att, g)).st = s
  BY <1>2
<1> QED
  BY <1>1, <1>2, <1>3, KnownIs, KnownIsNext

-----------------------------------------------------------------------------
(* What such steps keep.                                                      *)

LEMMA StillSingle ==
  ASSUME SingleActive, \A a \in Known' : A(a)'.st \in Active => a \in Busy
  PROVE  SingleActive'
BY DEF SingleActive, Busy

LEMMA NewSingle ==
  ASSUME NEW b, Busy \subseteq {b}, \A a \in Known' : A(a)'.st \in Active => a \in Busy \cup {b}
  PROVE  SingleActive'
BY DEF SingleActive, Busy

\* A stage reads passed that did so before, and its approved attempt is still that.
LEMMA StillApproved ==
  ASSUME PassedIsApproved, att \in Attempts, att' \in Attempts, Known \subseteq Known',
         \A g \in Gates : stage'[g] = "passed" => stage[g] = "passed",
         \A a \in Known : A(a).st = "approved" /\ stage'[a[1]] = "passed" => A(a)'.st = "approved"
  PROVE  PassedIsApproved'
<1> SUFFICES ASSUME NEW g \in Gates, stage'[g] = "passed"
             PROVE  \E a \in Of(g)' : A(a)'.st = "approved"
  BY DEF PassedIsApproved
<1>1. PICK a \in Of(g) : A(a).st = "approved"
  BY DEF PassedIsApproved
<1>2. a \in Known /\ a[1] = g
  BY KnownType
<1>3. A(a)'.st = "approved" /\ a \in Known'
  BY <1>1, <1>2
<1>4. a \in Of(g)'
  <2>1. a \in KnownOf(att')
    BY <1>3, KnownIsNext
  <2>2. a = <<a[1], a[2]>> /\ a[2] \in 1 .. Len(att'[g])
    BY <1>2, <2>1, Cells
  <2>3. DOMAIN att'[g] = 1 .. Len(att'[g])
    BY LenProperties DEF Attempts
  <2> QED
    BY <1>2, <2>2, <2>3 DEF Of
<1> QED
  BY <1>3, <1>4

\* The state of one attempt changes, the stages and the pointer stay.
LEMMA TableStep ==
  ASSUME TableInv, PassedIsApproved, UNCHANGED <<gate, stage>>,
         NEW a \in Known, NEW s, att' \in Attempts, Known' = Known,
         \A b \in Known : A(b)'.st = IF b = a THEN s ELSE A(b).st,
         s \in Active => Busy \subseteq {a},
         A(a).st = "approved" => s = "approved" \/ stage[a[1]] # "passed",
         A(a).st = "superseded" => s = "superseded"
  PROVE  TableInv' /\ PassedIsApproved' /\ Kept
<1>1. SingleActive'
  <2>1. CASE s \in Active
    <3>1. \A b \in Known' : A(b)'.st \in Active => b \in Busy \cup {a}
      BY <2>1 DEF Busy
    <3>2. Busy \subseteq {a}
      BY <2>1
    <3> QED
      BY <3>1, <3>2, NewSingle
  <2>2. CASE s \notin Active
    <3>1. \A b \in Known' : A(b)'.st \in Active => b \in Busy
      BY <2>2 DEF Busy
    <3>2. SingleActive
      BY DEF TableInv
    <3> QED
      BY <3>1, <3>2, StillSingle
  <2> QED
    BY <2>1, <2>2
<1>2. PassedIsApproved'
  BY StillApproved DEF TableInv
<1> QED
  BY <1>1, <1>2 DEF TableInv, Kept

LEMMA StateStep ==
  ASSUME TableInv, PassedIsApproved, UNCHANGED <<gate, stage>>,
         NEW a \in Known, NEW s \in States, SetAttempt(a, s),
         s \in Active => Busy \subseteq {a},
         A(a).st = "approved" => s = "approved" \/ stage[a[1]] # "passed",
         A(a).st = "superseded" => s = "superseded"
  PROVE  /\ TableInv' /\ PassedIsApproved' /\ Kept /\ Known' = Known
         /\ \A b \in Known : A(b)'.st = IF b = a THEN s ELSE A(b).st
<1>1. a = <<a[1], a[2]>> /\ a[1] \in Gates
  BY KnownType DEF TableInv
<1>2. /\ att' \in Attempts /\ Known' = Known
      /\ \A b \in Known : A(b)'.st = IF b = a THEN s ELSE A(b).st
  <2>1. att' = StateIn(att, a[1], a[2], s)
    BY DEF SetAttempt, StateIn
  <2> QED
    BY <1>1, <2>1, StateWritten DEF TableInv
<1> QED
  BY <1>2, TableStep

\* The row of one attempt is written whole.
LEMMA RowStep ==
  ASSUME TableInv, PassedIsApproved, UNCHANGED <<gate, stage>>,
         NEW a \in Known, NEW r \in Row, att' = Written(att, a[1], a[2], r),
         r.st \in Active => Busy \subseteq {a},
         A(a).st \notin {"approved", "superseded"}
  PROVE  TableInv' /\ PassedIsApproved' /\ Kept /\ Known' = Known
<1>1. a = <<a[1], a[2]>> /\ a[1] \in Gates
  BY KnownType DEF TableInv
<1>2. /\ att' \in Attempts /\ KnownOf(att') = KnownOf(att)
      /\ \A b \in KnownOf(att) : Cell(att', b) = IF b = <<a[1], a[2]>> THEN r ELSE Cell(att, b)
  BY <1>1, CellWritten DEF TableInv
<1>3. Known' = Known /\ \A b \in Known : A(b)'.st = IF b = a THEN r.st ELSE A(b).st
  BY <1>1, <1>2, KnownIs, KnownIsNext
<1> QED
  BY <1>2, <1>3, TableStep

\* Its release request changes.
LEMMA RequestStep ==
  ASSUME TableInv, PassedIsApproved, UNCHANGED <<gate, stage>>,
         NEW a \in Known, NEW x \in {"none", "asked", "granted"},
         att' = [att EXCEPT ![a[1]][a[2]].rel = x]
  PROVE  TableInv' /\ PassedIsApproved' /\ Kept /\ Known' = Known
<1>1. att' \in Attempts /\ Known' = Known /\ \A b \in Known : A(b)'.st = A(b).st
  BY RequestWritten DEF TableInv
<1>2. PICK s : s = A(a).st
  OBVIOUS
<1>3. s \in Active => Busy \subseteq {a}
  BY <1>2 DEF Busy, TableInv, SingleActive
<1>4. \A b \in Known : A(b)'.st = IF b = a THEN s ELSE A(b).st
  BY <1>1, <1>2
<1> QED
  BY <1>1, <1>2, <1>3, <1>4, TableStep

\* An attempt is created, the stages and the pointer stay.
LEMMA InsertStep ==
  ASSUME TableInv, PassedIsApproved, UNCHANGED <<gate, stage>>,
         NEW g \in Gates, NEW s \in {"preparing", "prepared"}, att' = Inserted(att, g, s),
         s = "prepared" => Busy = {}
  PROVE  /\ TableInv' /\ PassedIsApproved' /\ Kept
         /\ \A b : b = New(g) => /\ Known' = Known \cup {b} /\ b[1] = g
                                 /\ b \in Of(g)' /\ A(b)'.st = s
<1>0. s \in States
  BY DEF States, NonFinal, Active
<1>1. PICK b : b = New(g)
  OBVIOUS
<1>2. /\ att' \in Attempts /\ Known' = Known \cup {b} /\ b \notin Known /\ b[1] = g
      /\ A(b)'.st = s /\ \A a \in Known : A(a)'.st = A(a).st
  BY <1>0, <1>1, RowInserted DEF TableInv
<1>3. SingleActive'
  <2>1. CASE s = "prepared"
    <3>1. \A a \in Known' : A(a)'.st \in Active => a \in Busy \cup {b}
      BY <1>2 DEF Busy
    <3> QED
      BY <2>1, <3>1, NewSingle DEF TableInv
  <2>2. CASE s = "preparing"
    <3>1. \A a \in Known' : A(a)'.st \in Active => a \in Busy
      BY <1>2, <2>2 DEF Busy, Active
    <3> QED
      BY <3>1, StillSingle DEF TableInv
  <2> QED
    BY <2>1, <2>2
<1>4. PassedIsApproved'
  BY <1>2, StillApproved DEF TableInv
<1>5. b \in Of(g)'
  <2>1. b \in KnownOf(att') /\ b[1] = g
    BY <1>2, KnownIsNext
  <2>2. b = <<b[1], b[2]>> /\ b[2] \in 1 .. Len(att'[g])
    BY <1>2, <2>1, Cells
  <2>3. DOMAIN att'[g] = 1 .. Len(att'[g])
    BY <1>2, LenProperties DEF Attempts
  <2> QED
    BY <2>1, <2>2, <2>3 DEF Of
<1> QED
  BY <1>1, <1>2, <1>3, <1>4, <1>5 DEF TableInv, Kept

\* Nothing is written of the attempts.
LEMMA TableKept ==
  ASSUME TableInv, PassedIsApproved, UNCHANGED <<gate, stage, att>>
  PROVE  TableInv' /\ PassedIsApproved' /\ Kept /\ Known' = Known
<1>1. Known' = Known /\ (\A a : A(a)' = A(a)) /\ Busy' = Busy
  BY SameTable
<1>2. TableInv'
  BY <1>1 DEF TableInv, SingleActive
<1>3. PassedIsApproved'
  BY <1>1, StillApproved DEF TableInv
<1> QED
  BY <1>1, <1>2, <1>3 DEF Kept

-----------------------------------------------------------------------------
(* Steps of the operations and of the call.                                   *)

LEMMA OpsKept ==
  ASSUME OpsInv, UNCHANGED ops, Known \subseteq Known'
  PROVE  OpsInv' /\ Reported
<1>1. OpsInv'
  BY DEF OpsInv, RowInv
<1>2. \A o \in Ops : ops'[o].st = "completed" => ops[o].kind = "none"
  BY DEF OpsInv, RowInv
<1> QED
  BY <1>1, <1>2 DEF Reported

\* One row is written, and does not say that the operation is completed.
LEMMA OpsWritten ==
  ASSUME OpsInv, Known \subseteq Known', NEW o \in Ops, NEW r,
         ops' = [ops EXCEPT ![o] = r], RowInv(r, Known')
  PROVE  /\ OpsInv'
         /\ r.st # "completed" \/ ops[o].kind \notin {"rollback", "rework"} => Reported
<1>1. ops'[o] = r /\ \A p \in Ops : p # o => ops'[p] = ops[p]
  BY DEF OpsInv
<1>2. \A p \in Ops : RowInv(ops[p], Known')
  BY DEF OpsInv, RowInv
<1>3. OpsInv'
  <2>1. ops' = [p \in Ops |-> ops'[p]]
    BY DEF OpsInv
  <2>2. \A p \in Ops : RowInv(ops'[p], Known')
    BY <1>1, <1>2
  <2> QED
    BY <2>1, <2>2 DEF OpsInv, RowInv
<1>4. \A p \in Ops : p # o /\ ops'[p].st = "completed" => ops[p].kind = "none"
  BY <1>1 DEF OpsInv, RowInv
<1> QED
  BY <1>1, <1>3, <1>4 DEF Reported

\* The operation is over.
LEMMA Ended ==
  ASSUME NEW s \in {"none", "completed"}, NEW known
  PROVE  RowInv([NoOp EXCEPT !.st = s], known) /\ [NoOp EXCEPT !.st = s].st = s
<1>1. NoOp.kind = "none" /\ NoOp.target = 0 /\ NoOp.on = None /\ NoOp.prog = "none"
  BY DEF NoOp
<1>2. [NoOp EXCEPT !.st = s].st = s /\ [NoOp EXCEPT !.st = s].kind = "none"
      /\ [NoOp EXCEPT !.st = s].target = 0 /\ [NoOp EXCEPT !.st = s].on = None
      /\ [NoOp EXCEPT !.st = s].prog = "none"
  BY DEF NoOp
<1>3. [NoOp EXCEPT !.st = s] = [f \in Fields |-> [NoOp EXCEPT !.st = s][f]]
  BY DEF NoOp, Fields
<1> QED
  BY <1>2, <1>3 DEF RowInv, Kinds

LEMMA EndStep ==
  ASSUME OpsInv, Known \subseteq Known', NEW o \in Ops, NEW s \in {"none", "completed"}, End(o, s)
  PROVE  /\ OpsInv'
         /\ s = "none" \/ ops[o].kind \notin {"rollback", "rework"} => Reported
<1>1. PICK r : r = [NoOp EXCEPT !.st = s]
  OBVIOUS
<1>2. RowInv(r, Known') /\ r.st = s
  BY <1>1, Ended
<1>3. ops' = [ops EXCEPT ![o] = r]
  BY <1>1 DEF End
<1> QED
  BY <1>2, <1>3, OpsWritten

LEMMA SetStateStep ==
  ASSUME OpsInv, Known \subseteq Known', NEW o \in Ops, NEW s \in {"executing", "blocked"},
         ops[o].kind # "none", SetState(o, s)
  PROVE  OpsInv' /\ Reported /\ \A p \in Ops : ops'[p].kind = ops[p].kind /\ ops'[p].target = ops[p].target
<1>1. PICK r : r = [ops[o] EXCEPT !.st = s]
  OBVIOUS
<1>2. RowInv(ops[o], Known)
  BY DEF OpsInv
<1>3. /\ r = [f \in Fields |-> r[f]] /\ r.st = s
      /\ \A f \in Fields \ {"st"} : r[f] = ops[o][f]
  BY <1>1, <1>2 DEF RowInv, Fields
<1>4. RowInv(r, Known')
  BY <1>2, <1>3 DEF RowInv, Fields
<1>5. ops' = [ops EXCEPT ![o] = r]
  BY <1>1 DEF SetState
<1>6. \A p \in Ops : ops'[p].kind = ops[p].kind /\ ops'[p].target = ops[p].target
  BY <1>3, <1>5 DEF OpsInv, Fields
<1> QED
  BY <1>3, <1>4, <1>5, <1>6, OpsWritten

\* Between calls there is nothing to say of the call.
LEMMA CallOver ==
  ASSUME call' = [f \in CallFields |-> call'[f]], call'.pc \in {"idle", "boot"}
  PROVE  CallInv'
BY DEF CallInv, CallShape, ReleaseCall, RollbackCall, ReworkCall, SkipCall, At, Pcs

LEMMA NoCallShape ==
  /\ NoCall = [f \in CallFields |-> NoCall[f]]
  /\ NoCall.pc = "idle"
BY DEF NoCall, CallFields

LEMMA ReturnStep ==
  ASSUME Return
  PROVE  CallInv'
<1>1. call'.pc \in {"idle", "boot"} /\ call' = [f \in CallFields |-> call'[f]]
  BY DEF Return, NoCall, CallFields
<1> QED
  BY <1>1, CallOver

\* Nothing is written of the call, which is none.
LEMMA NoCallKept ==
  ASSUME Idle, CallInv, UNCHANGED call
  PROVE  CallInv'
BY CallOver DEF Idle, CallInv, CallShape

LEMMA GotoStep ==
  ASSUME CallInv, NEW pc \in Pcs, Goto(pc)
  PROVE  /\ CallShape' /\ call'.pc = pc
         /\ \A f \in CallFields \ {"pc"} : call'[f] = call[f]
BY DEF Goto, CallInv, CallShape, CallFields

-----------------------------------------------------------------------------
(* The first and the last of some attempts.                                   *)

LEMMA GateNat == Gates \subseteq Nat
BY DEF Gates

LEMMA FirstIn ==
  ASSUME att \in Attempts, NEW S \in SUBSET Known, S # {}
  PROVE  FirstOf(S) \in S
<1>1. \A a \in S : a[1] \in Nat /\ a[2] \in Nat
  <2>1. \A g \in Gates : Len(att[g]) \in Nat
    BY LenProperties DEF Attempts
  <2> QED
    BY <2>1, KnownIs, Cells, GateNat
<1>2. PICK g \in {a[1] : a \in S} : \A h \in {a[1] : a \in S} : g <= h
  <2> DEFINE T == {a[1] : a \in S}
  <2>1. T \in SUBSET Nat /\ T # {}
    BY <1>1
  <2> HIDE DEF T
  <2>2. \E g \in T : \A h \in T : g <= h
    BY <2>1, NatMin
  <2> QED
    BY <2>2 DEF T
<1>3. PICK n \in {a[2] : a \in {b \in S : b[1] = g}} :
             \A m \in {a[2] : a \in {b \in S : b[1] = g}} : n <= m
  <2> DEFINE T == {a[2] : a \in {b \in S : b[1] = g}}
  <2>1. T \in SUBSET Nat /\ T # {}
    BY <1>1, <1>2
  <2> HIDE DEF T
  <2>2. \E k \in T : \A m \in T : k <= m
    BY <2>1, NatMin
  <2> QED
    BY <2>2 DEF T
<1>4. PICK a \in S : a[1] = g /\ a[2] = n
  BY <1>3
<1>5. \A b \in S : b[1] > a[1] \/ (b[1] = a[1] /\ b[2] >= a[2])
  <2> TAKE b \in S
  <2>1. g <= b[1] /\ (b[1] = g => n <= b[2])
    BY <1>2, <1>3
  <2> QED
    BY <1>1, <1>4, <2>1
<1> QED
  BY <1>5 DEF FirstOf

LEMMA LastIn ==
  ASSUME att \in Attempts, NEW g \in Gates, NEW S \in SUBSET Of(g), S # {}
  PROVE  LastOf(S) \in S
<1> DEFINE T == {Len(att[g]) - a[2] : a \in S}
<1>1. Len(att[g]) \in Nat /\ DOMAIN att[g] = 1 .. Len(att[g])
  BY LenProperties DEF Attempts
<1>2. \A a \in S : a[2] \in 1 .. Len(att[g])
  BY <1>1 DEF Of
<1>3. T \in SUBSET Nat /\ T # {}
  BY <1>1, <1>2
<1>4. PICK k \in T : \A m \in T : k <= m
  <2> HIDE DEF T
  <2> QED
    BY <1>3, NatMin
<1>5. PICK a \in S : k = Len(att[g]) - a[2]
  BY <1>4
<1>6. \A b \in S : b[2] <= a[2]
  <2> TAKE b \in S
  <2>1. k <= Len(att[g]) - b[2]
    BY <1>4
  <2> HIDE DEF T
  <2>2. a[2] \in Nat /\ b[2] \in Nat
    BY <1>1, <1>2
  <2> QED
    BY <1>1, <1>5, <2>1, <2>2
<1> QED
  BY <1>6 DEF LastOf

-----------------------------------------------------------------------------
(* Work between the operations, requests and rejections.                      *)

\* What every step is shown to do.
Good == IInv' /\ Kept /\ Reported

LEMMA StartStep == ASSUME IInv, NEW g \in Gates, Start(g) PROVE Good
<1>1. TableInv' /\ PassedIsApproved' /\ Kept /\ Known \subseteq Known'
  BY InsertStep DEF IInv, Start
<1>2. OpsInv' /\ Reported
  BY <1>1, OpsKept DEF IInv, Start
<1>3. CallInv'
  BY NoCallKept DEF IInv, Start
<1> QED
  BY <1>1, <1>2, <1>3 DEF Good, IInv

LEMMA AskStep == ASSUME IInv, NEW a \in Known, Ask(a) PROVE Good
<1>1. PICK r : r = [st |-> "awaiting", rel |-> "asked"]
  OBVIOUS
<1>2. r \in Row /\ r.st = "awaiting"
  BY <1>1 DEF Row, States, NonFinal, Active
<1>3. Busy \subseteq {a} /\ A(a).st = "prepared"
  BY DEF Ask, IInv, TableInv, SingleActive, Busy, Active
<1>4. att' = Written(att, a[1], a[2], r)
  BY <1>1 DEF Ask, Written
<1>5. TableInv' /\ PassedIsApproved' /\ Kept /\ Known' = Known
  BY <1>2, <1>3, <1>4, RowStep DEF IInv, Ask
<1>6. OpsInv' /\ Reported
  BY <1>5, OpsKept DEF IInv, Ask
<1>7. CallInv'
  BY NoCallKept DEF IInv, Ask
<1> QED
  BY <1>5, <1>6, <1>7 DEF Good, IInv

LEMMA AnswerStep == ASSUME IInv, NEW a \in Known, Answer(a) PROVE Good
<1>1. TableInv' /\ PassedIsApproved' /\ Kept /\ Known' = Known
  BY RequestStep DEF IInv, Answer
<1>2. OpsInv' /\ Reported
  BY <1>1, OpsKept DEF IInv, Answer
<1>3. CallShape' /\ call'.pc = "advance" /\ call'.att = a
  BY DEF IInv, Answer, CallInv, CallShape, CallFields, Pcs
<1>4. CallInv'
  BY <1>1, <1>3 DEF CallInv, ReleaseCall, RollbackCall, ReworkCall, SkipCall, At
<1> QED
  BY <1>1, <1>2, <1>4 DEF Good, IInv

\* A new operation is one that has just been asked for.
LEMMA NewOpStep ==
  ASSUME IInv, Idle, UNCHANGED <<gate, stage, att, call>>,
         NEW kind \in {"rollback", "rework", "skip"}, NEW t \in Gates, NEW on \in Known \cup {None},
         NewOp(kind, t, on)
  PROVE  Good
<1>1. TableInv' /\ PassedIsApproved' /\ Kept /\ Known' = Known
  BY TableKept DEF IInv
<1>2. PICK o \in Ops :
        ops' = [ops EXCEPT ![o] = [NoOp EXCEPT !.kind = kind, !.target = t, !.on = on,
                 !.st = "awaiting", !.prog = "prepared", !.ap = "requested", !.seen = Compared(kind, t)]]
  BY DEF NewOp
<1>3. PICK r : r = [NoOp EXCEPT !.kind = kind, !.target = t, !.on = on,
                 !.st = "awaiting", !.prog = "prepared", !.ap = "requested", !.seen = Compared(kind, t)]
  OBVIOUS
<1>4. /\ r = [f \in Fields |-> r[f]]
      /\ r.kind = kind /\ r.target = t /\ r.on = on /\ r.st = "awaiting" /\ r.prog = "prepared"
  BY <1>3 DEF NoOp, Fields
<1>5. RowInv(r, Known')
  BY <1>1, <1>4 DEF RowInv, Kinds
<1>6. ops' = [ops EXCEPT ![o] = r]
  BY <1>2, <1>3
<1>7. OpsInv' /\ Reported
  <2>1. OpsInv' /\ (r.st # "completed" => Reported)
    BY <1>1, <1>5, <1>6, OpsWritten DEF IInv
  <2> QED
    BY <1>4, <2>1
<1>8. CallInv'
  BY NoCallKept DEF IInv
<1> QED
  BY <1>1, <1>7, <1>8 DEF Good, IInv

LEMMA RequestRollbackStep == ASSUME IInv, NEW a \in Known, RequestRollback(a) PROVE Good
<1>1. a[1] \in Gates
  BY KnownType DEF IInv, TableInv
<1> QED
  BY <1>1, NewOpStep DEF RequestRollback

LEMMA RequestReworkStep == ASSUME IInv, NEW t \in Gates, RequestRework(t) PROVE Good
<1>1. PICK on : on = IF Busy \cap Of(gate) = {} THEN None ELSE FirstOf(Busy \cap Of(gate))
  OBVIOUS
<1>2. on \in Known \cup {None}
  <2>1. Busy \cap Of(gate) \in SUBSET Known
    BY DEF Busy
  <2>2. Busy \cap Of(gate) # {} => FirstOf(Busy \cap Of(gate)) \in Busy \cap Of(gate)
    BY <2>1, FirstIn DEF IInv, TableInv
  <2> QED
    BY <1>1, <2>1, <2>2
<1>3. NewOp("rework", t, on)
  BY <1>1 DEF RequestRework
<1> QED
  BY <1>2, <1>3, NewOpStep DEF RequestRework

LEMMA RequestSkipStep == ASSUME IInv, NEW g \in Gates, RequestSkip(g) PROVE Good
<1>1. PICK a \in Busy \cap Of(g) : NewOp("skip", g, a)
  BY DEF RequestSkip
<1>2. a \in Known
  BY DEF Busy
<1> QED
  BY <1>1, <1>2, NewOpStep DEF RequestSkip

LEMMA RejectStep == ASSUME IInv, NEW o \in Ops, Reject(o) PROVE Good
<1>1. TableInv' /\ PassedIsApproved' /\ Kept /\ Known' = Known
  BY TableKept DEF IInv, Reject
<1>2. OpsInv' /\ Reported
  BY <1>1, EndStep DEF IInv, Reject
<1>3. CallInv'
  BY NoCallKept DEF IInv, Reject
<1> QED
  BY <1>1, <1>2, <1>3 DEF Good, IInv

\* An approval expires.
LEMMA ExpiredRow ==
  ASSUME NEW r, NEW known, RowInv(r, known)
  PROVE  /\ RowInv([r EXCEPT !.ap = "expired"], known)
         /\ \A f \in Fields \ {"ap"} : [r EXCEPT !.ap = "expired"][f] = r[f]
<1>1. PICK u : u = [r EXCEPT !.ap = "expired"]
  OBVIOUS
<1>2. u = [f \in Fields |-> u[f]] /\ \A f \in Fields \ {"ap"} : u[f] = r[f]
  BY <1>1 DEF RowInv, Fields
<1>3. RowInv(u, known)
  BY <1>2 DEF RowInv, Fields
<1> QED
  BY <1>1, <1>2, <1>3

LEMMA LapseStep == ASSUME IInv, NEW o \in Ops, Lapse(o) PROVE Good
<1>1. TableInv' /\ PassedIsApproved' /\ Kept /\ Known' = Known
  BY TableKept DEF IInv, Lapse
<1>2. PICK r : r = [ops[o] EXCEPT !.ap = "expired"]
  OBVIOUS
<1>3. RowInv(r, Known') /\ r.st = ops[o].st
  BY <1>1, <1>2, ExpiredRow DEF IInv, OpsInv, Fields
<1>4. ops' = [ops EXCEPT ![o] = r]
  BY <1>2 DEF Lapse
<1>5. r.st # "completed"
  BY <1>3 DEF Lapse, IInv, OpsInv, RowInv
<1>6. OpsInv' /\ Reported
  <2>1. OpsInv' /\ (r.st # "completed" => Reported)
    BY <1>1, <1>3, <1>4, OpsWritten DEF IInv
  <2> QED
    BY <1>5, <2>1
<1>7. CallInv'
  BY NoCallKept DEF IInv, Lapse
<1> QED
  BY <1>1, <1>6, <1>7 DEF Good, IInv

-----------------------------------------------------------------------------
(* Decisions.                                                                 *)

\* A call that serves an operation begins.
LEMMA Begun ==
  ASSUME CallInv, NEW o \in Ops, ops'[o].kind = ops[o].kind,
         ops[o].kind \in {"rollback", "rework", "skip"},
         call' = [call EXCEPT !.pc = First(ops[o].kind), !.op = o]
  PROVE  CallInv'
<1>1. First(ops[o].kind) \in Pcs
  BY DEF First, Pcs
<1>2. CallShape' /\ call'.pc = First(ops[o].kind) /\ call'.op = o
  BY <1>1 DEF CallInv, CallShape, CallFields
<1>3. ReleaseCall'
  BY <1>2 DEF ReleaseCall, At, First
<1>4. RollbackCall'
  BY <1>2 DEF RollbackCall, At, First, Serves, Op
<1>5. ReworkCall'
  BY <1>2 DEF ReworkCall, At, First, Serves, Op
<1>6. SkipCall'
  BY <1>2 DEF SkipCall, At, First, Serves, Op
<1> QED
  BY <1>2, <1>3, <1>4, <1>5, <1>6 DEF CallInv

LEMMA ApprovedRow ==
  ASSUME NEW r, NEW known, RowInv(r, known)
  PROVE  /\ RowInv(Approved(r), known) /\ Approved(r).st = r.st /\ Approved(r).kind = r.kind
         /\ \A f \in Fields \ {"ap", "on", "seen"} : Approved(r)[f] = r[f]
         /\ Approved(r).on = None
<1>1. PICK u : u = Approved(r)
  OBVIOUS
<1>2. /\ u = [f \in Fields |-> u[f]] /\ u.on = None
      /\ \A f \in Fields \ {"ap", "on", "seen"} : u[f] = r[f]
  BY <1>1 DEF RowInv, Fields, Approved
<1>3. RowInv(u, known) /\ u.st = r.st /\ u.kind = r.kind
  BY <1>2 DEF RowInv, Fields
<1> QED
  BY <1>1, <1>2, <1>3

LEMMA ApproveStep == ASSUME IInv, NEW o \in Ops, Approve(o) PROVE Good
<1>1. TableInv' /\ PassedIsApproved' /\ Kept /\ Known' = Known
  BY TableKept DEF IInv, Approve
<1>2. RowInv(ops[o], Known) /\ ops[o].kind \in {"rollback", "rework", "skip"}
      /\ ops[o].st \in {"awaiting", "executing"}
  BY DEF Approve, IInv, OpsInv, RowInv, Kinds
<1>3. CASE /\ ops' = [ops EXCEPT ![o] = IF @.kind = "skip" THEN @ ELSE Approved(@)]
           /\ call' = [call EXCEPT !.pc = First(ops[o].kind), !.op = o]
  <2>1. PICK r : r = IF ops[o].kind = "skip" THEN ops[o] ELSE Approved(ops[o])
    OBVIOUS
  <2>2. RowInv(r, Known') /\ r.st = ops[o].st /\ r.kind = ops[o].kind
    BY <1>1, <1>2, <2>1, ApprovedRow
  <2>3. ops' = [ops EXCEPT ![o] = r]
    BY <1>3, <2>1
  <2>4. OpsInv' /\ Reported
    <3>1. OpsInv' /\ (r.st # "completed" => Reported)
      BY <1>1, <2>2, <2>3, OpsWritten DEF IInv
    <3> QED
      BY <1>2, <2>2, <3>1
  <2>5. ops'[o].kind = ops[o].kind
    BY <2>2, <2>3 DEF IInv, OpsInv
  <2>6. CallInv'
    BY <1>2, <1>3, <2>5, Begun DEF IInv
  <2> QED
    BY <1>1, <2>4, <2>6 DEF Good, IInv
<1>4. CASE UNCHANGED ops /\ call' = [call EXCEPT !.pc = First(ops[o].kind), !.op = o]
  <2>1. OpsInv' /\ Reported
    BY <1>1, <1>4, OpsKept DEF IInv
  <2>2. CallInv'
    BY <1>2, <1>4, Begun DEF IInv
  <2> QED
    BY <1>1, <2>1, <2>2 DEF Good, IInv
<1>5. CASE End(o, "none") /\ UNCHANGED call
  <2>1. OpsInv' /\ Reported
    BY <1>1, <1>5, EndStep DEF IInv
  <2>2. CallInv'
    BY <1>5, NoCallKept DEF IInv, Approve
  <2> QED
    BY <1>1, <2>1, <2>2 DEF Good, IInv
<1> QED
  BY <1>3, <1>4, <1>5 DEF Approve

-----------------------------------------------------------------------------
(* The release of a gate.                                                     *)

\* A call of a release goes on.
LEMMA ReleaseGoesOn ==
  ASSUME CallInv, NEW pc \in {"pass", "next", "close"}, Goto(pc), NEW a, a = call.att, a \in Known',
         pc = "pass" => A(a)'.st = "approved"
  PROVE  CallInv'
<1>1. CallShape' /\ call'.pc = pc /\ call'.att = a
  BY GotoStep DEF CallFields, Pcs
<1>2. ReleaseCall'
  BY <1>1 DEF ReleaseCall, At, A
<1> QED
  BY <1>1, <1>2 DEF CallInv, RollbackCall, ReworkCall, SkipCall, At

LEMMA AdvanceStep == ASSUME IInv, Advance PROVE Good
<1>1. PICK a : a = call.att
  OBVIOUS
<1>2. a \in Known
  BY <1>1 DEF IInv, CallInv, ReleaseCall, Advance, At
<1>3. CASE Releasable(a) /\ SetAttempt(a, "approved") /\ Goto("pass")
  <2>1. "approved" \in States /\ "approved" \notin Active /\ A(a).st # "superseded"
    BY <1>3 DEF States, NonFinal, Active, Releasable
  <2>2. /\ TableInv' /\ PassedIsApproved' /\ Kept /\ Known' = Known
        /\ A(a)'.st = "approved"
    <3>1. /\ TableInv' /\ PassedIsApproved' /\ Kept /\ Known' = Known
          /\ \A b \in Known : A(b)'.st = IF b = a THEN "approved" ELSE A(b).st
      BY <1>2, <1>3, <2>1, StateStep DEF IInv, Advance
    <3> QED
      BY <1>2, <3>1
  <2>3. OpsInv' /\ Reported
    BY <2>2, OpsKept DEF IInv, Advance
  <2>4. CallInv'
    BY <1>1, <1>2, <1>3, <2>2, ReleaseGoesOn DEF IInv
  <2> QED
    BY <2>2, <2>3, <2>4 DEF Good, IInv
<1>4. CASE UNCHANGED att /\ Return
  <2>1. TableInv' /\ PassedIsApproved' /\ Kept /\ Known' = Known
    BY <1>4, TableKept DEF IInv, Advance
  <2>2. OpsInv' /\ Reported
    BY <2>1, OpsKept DEF IInv, Advance
  <2> QED
    BY <1>4, <2>1, <2>2, ReturnStep DEF Good, IInv
<1> QED
  BY <1>1, <1>3, <1>4 DEF Advance

LEMMA PassStep == ASSUME IInv, Pass PROVE Good
<1>1. PICK a : a = call.att
  OBVIOUS
<1>2. a \in Known /\ A(a).st = "approved" /\ a[1] \in Gates /\ a \in Of(a[1])
  <2>1. a \in Known /\ A(a).st = "approved"
    BY <1>1 DEF IInv, CallInv, ReleaseCall, Pass, At
  <2> QED
    BY <2>1, KnownType DEF IInv, TableInv
<1>3. UNCHANGED <<att, ops>>
  BY DEF Pass
<1>4. Known' = Known /\ (\A b : A(b)' = A(b)) /\ Busy' = Busy
  BY <1>3, SameTable
<1>5. Kept /\ OpsInv' /\ Reported
  BY <1>3, <1>4, OpsKept DEF IInv, Kept
<1>6. CASE /\ stage' = [stage EXCEPT ![a[1]] = "passed"]
           /\ gate' = (IF a[1] < N THEN a[1] + 1 ELSE gate) /\ Goto("next")
  <2>1. /\ stage' \in [Gates -> {"not_started", "passed", "skipped"}]
        /\ \A g \in Gates : g # a[1] => stage'[g] = stage[g]
    BY <1>2, <1>6 DEF IInv, TableInv
  <2>2. gate' \in Gates
    BY <1>2, <1>6 DEF IInv, TableInv, Gates
  <2>3. TableInv'
    BY <1>3, <1>4, <2>1, <2>2 DEF IInv, TableInv, SingleActive
  <2>4. PassedIsApproved'
    <3> SUFFICES ASSUME NEW g \in Gates, stage'[g] = "passed"
                 PROVE  \E b \in Of(g)' : A(b)'.st = "approved"
      BY DEF PassedIsApproved
    <3>1. Of(g)' = Of(g)
      BY <1>3 DEF Of
    <3>2. \E b \in Of(g) : A(b).st = "approved"
      <4>1. CASE g = a[1]
        BY <1>2, <4>1
      <4>2. CASE g # a[1]
        BY <2>1, <4>2 DEF IInv, PassedIsApproved
      <4> QED
        BY <4>1, <4>2
    <3> QED
      BY <1>4, <3>1, <3>2
  <2>5. CallInv'
    BY <1>1, <1>2, <1>4, <1>6, ReleaseGoesOn DEF IInv
  <2> QED
    BY <1>5, <2>3, <2>4, <2>5 DEF Good, IInv
<1>7. CASE UNCHANGED <<stage, gate>>
  <2>1. TableInv' /\ PassedIsApproved'
    BY <1>3, <1>7, TableKept DEF IInv
  <2>2. CASE Goto("next")
    <3>1. CallInv'
      BY <1>1, <1>2, <1>4, <2>2, ReleaseGoesOn DEF IInv
    <3> QED
      BY <1>5, <2>1, <3>1 DEF Good, IInv
  <2>3. CASE Return
    BY <1>5, <2>1, <2>3, ReturnStep DEF Good, IInv
  <2> QED
    BY <1>7, <2>2, <2>3 DEF Pass
<1> QED
  BY <1>1, <1>6, <1>7 DEF Pass

LEMMA NextAttemptStep == ASSUME IInv, NextAttempt PROVE Good
<1>1. PICK a : a = call.att
  OBVIOUS
<1>2. a \in Known
  BY <1>1 DEF IInv, CallInv, ReleaseCall, NextAttempt, At
<1>3. UNCHANGED <<gate, stage, ops>>
  BY DEF NextAttempt
<1>4. CASE /\ a[1] + 1 \in Gates
           /\ \/ Busy = {} /\ att' = Inserted(att, a[1] + 1, "prepared") /\ Goto("close")
              \/ att' = Inserted(att, a[1] + 1, "preparing") /\ Return
  <2>1. TableInv' /\ PassedIsApproved' /\ Kept /\ Known \subseteq Known'
    <3>1. PICK g \in Gates : g = a[1] + 1
      BY <1>4
    <3>2. CASE Busy = {} /\ att' = Inserted(att, g, "prepared")
      BY <1>3, <3>2, InsertStep DEF IInv
    <3>3. CASE att' = Inserted(att, g, "preparing")
      BY <1>3, <3>3, InsertStep DEF IInv
    <3> QED
      BY <1>4, <3>1, <3>2, <3>3
  <2>2. OpsInv' /\ Reported
    BY <1>3, <2>1, OpsKept DEF IInv
  <2>3. CallInv'
    BY <1>1, <1>2, <1>4, <2>1, ReleaseGoesOn, ReturnStep DEF IInv
  <2> QED
    BY <2>1, <2>2, <2>3 DEF Good, IInv
<1>5. CASE UNCHANGED att /\ Goto("close")
  <2>1. TableInv' /\ PassedIsApproved' /\ Kept /\ Known' = Known
    BY <1>3, <1>5, TableKept DEF IInv
  <2>2. OpsInv' /\ Reported
    BY <1>3, <2>1, OpsKept DEF IInv
  <2>3. CallInv'
    BY <1>1, <1>2, <1>5, <2>1, ReleaseGoesOn DEF IInv
  <2> QED
    BY <2>1, <2>2, <2>3 DEF Good, IInv
<1> QED
  BY <1>1, <1>4, <1>5 DEF NextAttempt

LEMMA CloseStep == ASSUME IInv, Close PROVE Good
<1>1. PICK a : a = call.att
  OBVIOUS
<1>2. a \in Known
  BY <1>1 DEF IInv, CallInv, ReleaseCall, Close, At
<1>3. TableInv' /\ PassedIsApproved' /\ Kept /\ Known' = Known
  BY <1>1, <1>2, RequestStep DEF IInv, Close
<1>4. OpsInv' /\ Reported
  BY <1>3, OpsKept DEF IInv, Close
<1>5. CallInv'
  BY ReturnStep DEF Close
<1> QED
  BY <1>3, <1>4, <1>5 DEF Good, IInv

-----------------------------------------------------------------------------
(* The rollback.                                                              *)

\* The operation that a call serves, and its target gate.
LEMMA Served ==
  ASSUME IInv, NEW kind \in {"rollback", "rework", "skip"}, Serves(kind), NEW o, o = call.op
  PROVE  /\ o \in Ops /\ ops[o].kind = kind /\ ops[o].target \in Gates /\ RowInv(ops[o], Known)
         /\ Op = ops[o] /\ Target = ops[o].target
         /\ ops[o].target \in Nat /\ ops[o].target \in 1 .. N
BY DEF IInv, OpsInv, RowInv, Serves, Op, Target, Gates

\* Only the pointer and the stages move.
LEMMA StagesStep ==
  ASSUME TableInv, PassedIsApproved, UNCHANGED att, gate' \in Gates,
         stage' \in [Gates -> {"not_started", "passed", "skipped"}],
         \A g \in Gates : stage'[g] = "passed" => stage[g] = "passed"
  PROVE  TableInv' /\ PassedIsApproved' /\ Kept /\ Known' = Known
<1>1. Known' = Known /\ (\A a : A(a)' = A(a)) /\ Busy' = Busy
  BY SameTable
<1>2. TableInv'
  BY <1>1 DEF TableInv, SingleActive
<1>3. PassedIsApproved'
  BY <1>1, StillApproved DEF TableInv
<1> QED
  BY <1>1, <1>2, <1>3 DEF Kept

LEMMA BeginStep == ASSUME IInv, Begin PROVE Good
<1>1. PICK o : o = call.op
  OBVIOUS
<1>2. o \in Ops /\ ops[o].kind = "rollback"
  BY <1>1, Served DEF IInv, CallInv, RollbackCall, Begin, At
<1>3. TableInv' /\ PassedIsApproved' /\ Kept /\ Known' = Known
  BY TableKept DEF IInv, Begin
<1>4. OpsInv' /\ Reported /\ ops'[o].kind = "rollback"
  BY <1>1, <1>2, <1>3, SetStateStep DEF IInv, Begin
<1>5. CallShape' /\ call'.pc = "check" /\ call'.op = o
  BY <1>1, GotoStep DEF CallFields, Pcs, Begin, IInv
<1>6. CallInv'
  BY <1>2, <1>4, <1>5 DEF CallInv, ReleaseCall, RollbackCall, ReworkCall, SkipCall, At, Serves, Op
<1> QED
  BY <1>3, <1>4, <1>6 DEF Good, IInv

LEMMA CheckStep == ASSUME IInv, Check PROVE Good
<1>1. PICK o : o = call.op
  OBVIOUS
<1>2. /\ o \in Ops /\ ops[o].kind = "rollback" /\ ops[o].target \in 1 .. N
      /\ Target = ops[o].target
  BY <1>1, Served DEF IInv, CallInv, RollbackCall, Check, At
<1>3. TableInv' /\ PassedIsApproved' /\ Kept /\ Known' = Known
  BY TableKept DEF IInv, Check
<1>4. CASE End(o, "none") /\ Return
  BY <1>2, <1>3, <1>4, EndStep, ReturnStep DEF Good, IInv
<1>5. CASE call' = [call EXCEPT !.pc = "reset", !.g = Target] /\ UNCHANGED ops
  <2>1. OpsInv' /\ Reported
    BY <1>3, <1>5, OpsKept DEF IInv
  <2>2. CallShape' /\ call'.pc = "reset" /\ call'.op = o /\ call'.g = ops[o].target
    BY <1>1, <1>2, <1>5 DEF IInv, CallInv, CallShape, CallFields, Pcs
  <2>3. ops[o].target \in ops[o].target .. N /\ \A h \in ops[o].target .. ops[o].target - 1 : FALSE
    BY <1>2
  <2>4. CallInv'
    BY <1>2, <1>5, <2>2, <2>3
       DEF CallInv, ReleaseCall, RollbackCall, ReworkCall, SkipCall, At, Serves, Op, Target, Open
  <2> QED
    BY <1>3, <2>1, <2>4 DEF Good, IInv
<1> QED
  BY <1>1, <1>4, <1>5 DEF Check

LEMMA ResetStep == ASSUME IInv, Reset PROVE Good
<1>1. PICK o : o = call.op
  OBVIOUS
<1>2. /\ o \in Ops /\ ops[o].kind = "rollback" /\ ops[o].target \in 1 .. N
      /\ Target = ops[o].target
  BY <1>1, Served DEF IInv, CallInv, RollbackCall, Reset, At
<1>3. PICK g : g = call.g
  OBVIOUS
<1>4. g \in ops[o].target .. N /\ \A h \in ops[o].target .. g - 1 : stage[h] = "not_started"
  BY <1>1, <1>2, <1>3 DEF IInv, CallInv, RollbackCall, Reset, At, Open
<1>5. g \in Gates /\ ops[o].target \in Gates
  BY <1>2, <1>4 DEF Gates
<1>6. /\ stage' \in [Gates -> {"not_started", "passed", "skipped"}]
      /\ \A h \in Gates : stage'[h] = IF h = g THEN "not_started" ELSE stage[h]
  BY <1>3, <1>5 DEF Reset, IInv, TableInv
<1>7. TableInv' /\ PassedIsApproved' /\ Kept /\ Known' = Known
  BY <1>6, StagesStep DEF IInv, Reset, TableInv
<1>8. OpsInv' /\ Reported
  BY <1>7, OpsKept DEF IInv, Reset
<1>9. CallShape' /\ call'.pc = "withdraw" /\ call'.op = o /\ call'.g = g /\ ops' = ops
  BY <1>1, <1>3, GotoStep DEF CallFields, Pcs, Reset, IInv
<1>10. \A h \in ops[o].target .. g : stage'[h] = "not_started"
  <2>1. \A h \in ops[o].target .. g : h \in Gates /\ (h = g \/ h \in ops[o].target .. g - 1)
    BY <1>2, <1>4 DEF Gates
  <2> QED
    BY <1>4, <1>6, <2>1
<1>11. CallInv'
  BY <1>2, <1>4, <1>9, <1>10
     DEF CallInv, ReleaseCall, RollbackCall, ReworkCall, SkipCall, At, Serves, Op, Target, Open
<1> QED
  BY <1>7, <1>8, <1>11 DEF Good, IInv

LEMMA WithdrawStep == ASSUME IInv, Withdraw PROVE Good
<1>1. PICK o : o = call.op
  OBVIOUS
<1>2. /\ o \in Ops /\ ops[o].kind = "rollback" /\ ops[o].target \in 1 .. N
      /\ Target = ops[o].target
  BY <1>1, Served DEF IInv, CallInv, RollbackCall, Withdraw, At
<1>3. PICK g : g = call.g
  OBVIOUS
<1>4. g \in ops[o].target .. N /\ \A h \in ops[o].target .. g : stage[h] = "not_started"
  BY <1>1, <1>2, <1>3 DEF IInv, CallInv, RollbackCall, Withdraw, At, Open
<1>5. g \in Gates /\ g \in Nat
  BY <1>2, <1>4 DEF Gates
<1>6. UNCHANGED <<gate, stage, ops>>
  BY DEF Withdraw
<1>7. CASE Withdrawable(g) # {}
  <2>1. PICK a : a = FirstOf(Withdrawable(g))
    OBVIOUS
  <2>2. a \in Known /\ a[1] = g /\ A(a).st # "superseded"
    <3>1. Withdrawable(g) \in SUBSET Known
      BY <1>5, KnownType DEF Withdrawable, IInv, TableInv
    <3>2. a \in Withdrawable(g)
      BY <1>7, <2>1, <3>1, FirstIn DEF IInv, TableInv
    <3>3. a \in Of(g) /\ A(a).st \in Active \cup {"approved"}
      BY <3>2 DEF Withdrawable
    <3> QED
      BY <1>5, <3>3, KnownType DEF Active, IInv, TableInv
  <2>3. SetAttempt(a, "superseded") /\ call' = [call EXCEPT !.pc = "expire", !.att = a]
    BY <1>3, <1>7, <2>1 DEF Withdraw
  <2>4. TableInv' /\ PassedIsApproved' /\ Kept /\ Known' = Known
    <3>1. "superseded" \in States /\ "superseded" \notin Active
      BY DEF States, Active
    <3> QED
      BY <1>4, <1>6, <2>2, <2>3, <3>1, StateStep DEF IInv
  <2>5. OpsInv' /\ Reported
    BY <1>6, <2>4, OpsKept DEF IInv
  <2>6. CallShape' /\ call'.pc = "expire" /\ call'.op = o /\ call'.g = g /\ call'.att = a
    BY <1>1, <1>3, <2>3 DEF IInv, CallInv, CallShape, CallFields, Pcs
  <2>7. CallInv'
    BY <1>2, <1>4, <1>6, <2>2, <2>4, <2>6
       DEF CallInv, ReleaseCall, RollbackCall, ReworkCall, SkipCall, At, Serves, Op, Target, Open
  <2> QED
    BY <2>4, <2>5, <2>7 DEF Good, IInv
<1>8. CASE Withdrawable(g) = {}
  <2>1. TableInv' /\ PassedIsApproved' /\ Kept /\ Known' = Known
    BY <1>3, <1>6, <1>8, TableKept DEF IInv, Withdraw
  <2>2. OpsInv' /\ Reported
    BY <1>6, <2>1, OpsKept DEF IInv
  <2>3. CASE g < N /\ call' = [call EXCEPT !.pc = "reset", !.g = @ + 1]
    <3>1. CallShape' /\ call'.pc = "reset" /\ call'.op = o /\ call'.g = g + 1
      BY <1>1, <1>3, <2>3 DEF IInv, CallInv, CallShape, CallFields, Pcs
    <3>2. g + 1 \in ops[o].target .. N /\ (g + 1) - 1 = g
      BY <1>2, <1>4, <1>5, <2>3
    <3>3. CallInv'
      BY <1>2, <1>4, <1>6, <3>1, <3>2
         DEF CallInv, ReleaseCall, RollbackCall, ReworkCall, SkipCall, At, Serves, Op, Target, Open
    <3> QED
      BY <2>1, <2>2, <3>3 DEF Good, IInv
  <2>4. CASE g = N /\ call' = [call EXCEPT !.pc = "point", !.g = 0, !.att = None]
    <3>1. CallShape' /\ call'.pc = "point" /\ call'.op = o
      BY <1>1, <2>4 DEF IInv, CallInv, CallShape, CallFields, Pcs
    <3>2. CallInv'
      BY <1>2, <1>4, <1>6, <2>4, <3>1
         DEF CallInv, ReleaseCall, RollbackCall, ReworkCall, SkipCall, At, Serves, Op, Target, Open
    <3> QED
      BY <2>1, <2>2, <3>2 DEF Good, IInv
  <2>5. g < N \/ g = N
    BY <1>2, <1>4
  <2> QED
    BY <1>3, <1>8, <2>3, <2>4, <2>5 DEF Withdraw
<1> QED
  BY <1>7, <1>8

LEMMA ExpireStep == ASSUME IInv, Expire PROVE Good
<1>1. PICK o : o = call.op
  OBVIOUS
<1>2. /\ o \in Ops /\ ops[o].kind = "rollback" /\ Target = ops[o].target
  BY <1>1, Served DEF IInv, CallInv, RollbackCall, Expire, At
<1>3. PICK g : g = call.g
  OBVIOUS
<1>4. g \in ops[o].target .. N /\ \A h \in ops[o].target .. g : stage[h] = "not_started"
  BY <1>1, <1>2, <1>3 DEF IInv, CallInv, RollbackCall, Expire, At, Open
<1>5. PICK a : a = call.att
  OBVIOUS
<1>6. a \in Known
  BY <1>5 DEF IInv, CallInv, RollbackCall, Expire, At
<1>7. TableInv' /\ PassedIsApproved' /\ Kept /\ Known' = Known
  <2>1. PICK x : x = IF A(a).rel = "asked" THEN "none" ELSE A(a).rel
    OBVIOUS
  <2>2. x \in {"none", "asked", "granted"}
    BY <1>6, <2>1, KnownType DEF IInv, TableInv, Row
  <2>3. att' = [att EXCEPT ![a[1]][a[2]].rel = x]
    BY <1>5, <2>1 DEF Expire, A
  <2> QED
    BY <1>6, <2>2, <2>3, RequestStep DEF IInv, Expire
<1>8. \A p \in Ops : /\ RowInv(ops'[p], Known') /\ ops'[p].st = ops[p].st
                     /\ ops'[p].kind = ops[p].kind /\ ops'[p].target = ops[p].target
  <2> SUFFICES ASSUME NEW p \in Ops
               PROVE  /\ RowInv(ops'[p], Known') /\ ops'[p].st = ops[p].st
                      /\ ops'[p].kind = ops[p].kind /\ ops'[p].target = ops[p].target
    OBVIOUS
  <2>1. ops'[p] = ops[p] \/ ops'[p] = [ops[p] EXCEPT !.ap = "expired"]
    BY DEF Expire
  <2>2. RowInv(ops[p], Known')
    BY <1>7 DEF IInv, OpsInv
  <2>3. PICK r : r = [ops[p] EXCEPT !.ap = "expired"]
    OBVIOUS
  <2>4. RowInv(r, Known') /\ \A f \in Fields \ {"ap"} : r[f] = ops[p][f]
    BY <2>2, <2>3, ExpiredRow
  <2>5. r.st = ops[p].st /\ r.kind = ops[p].kind /\ r.target = ops[p].target
    BY <2>4 DEF Fields
  <2> QED
    BY <2>1, <2>2, <2>3, <2>4, <2>5
<1>9. OpsInv'
  <2>1. ops' = [p \in Ops |-> ops'[p]]
    BY DEF Expire
  <2> QED
    BY <1>8, <2>1 DEF OpsInv, RowInv
<1>10. Reported
  <2>1. \A p \in Ops : ops[p].st = "completed" => ops[p].kind = "none"
    BY DEF IInv, OpsInv, RowInv
  <2> QED
    BY <1>8, <2>1 DEF Reported
<1>11. CallShape' /\ call'.pc = "withdraw" /\ call'.op = o /\ call'.g = g /\ stage' = stage
  BY <1>1, <1>3, GotoStep DEF CallFields, Pcs, Expire, IInv
<1>12. CallInv'
  BY <1>2, <1>4, <1>8, <1>11
     DEF CallInv, ReleaseCall, RollbackCall, ReworkCall, SkipCall, At, Serves, Op, Target, Open
<1> QED
  BY <1>7, <1>9, <1>10, <1>12 DEF Good, IInv

LEMMA PointStep == ASSUME IInv, Point PROVE Good
<1>1. PICK o : o = call.op
  OBVIOUS
<1>2. /\ o \in Ops /\ ops[o].kind = "rollback" /\ ops[o].target \in Gates
      /\ Target = ops[o].target
  BY <1>1, Served DEF IInv, CallInv, RollbackCall, Point, At
<1>3. \A h \in ops[o].target .. N : stage[h] = "not_started"
  BY <1>2 DEF IInv, CallInv, RollbackCall, Point, At, Open
<1>4. TableInv' /\ PassedIsApproved' /\ Kept /\ Known' = Known
  BY <1>2, StagesStep DEF IInv, Point, TableInv
<1>5. OpsInv' /\ Reported
  BY <1>4, OpsKept DEF IInv, Point
<1>6. /\ CallShape' /\ call'.pc = "insert" /\ call'.op = o
      /\ gate' = ops[o].target /\ stage' = stage /\ ops' = ops
  BY <1>1, <1>2, GotoStep DEF CallFields, Pcs, Point, IInv
<1>7. CallInv'
  BY <1>2, <1>3, <1>6
     DEF CallInv, ReleaseCall, RollbackCall, ReworkCall, SkipCall, At, Serves, Op, Target, Open
<1> QED
  BY <1>4, <1>5, <1>7 DEF Good, IInv

LEMMA InsertedStep == ASSUME IInv, Insert PROVE Good
<1>1. PICK o : o = call.op
  OBVIOUS
<1>2. /\ o \in Ops /\ ops[o].kind = "rollback" /\ Target = ops[o].target
  BY <1>1, Served DEF IInv, CallInv, RollbackCall, Insert, At
<1>3. PICK t \in Gates : t = ops[o].target
  BY <1>1, Served DEF IInv, CallInv, RollbackCall, Insert, At
<1>4. (\A h \in t .. N : stage[h] = "not_started") /\ gate = t
  BY <1>2, <1>3 DEF IInv, CallInv, RollbackCall, Insert, At, Open
<1>5. PICK b : b = New(t)
  OBVIOUS
<1>6. /\ TableInv' /\ PassedIsApproved' /\ Kept /\ Known \subseteq Known'
      /\ b \in Of(t)' /\ A(b)'.st = "preparing"
  <2>1. att' = Inserted(att, t, "preparing")
    BY <1>2, <1>3 DEF Insert
  <2> QED
    BY <1>5, <2>1, InsertStep DEF IInv, Insert
<1>7. OpsInv' /\ Reported
  BY <1>6, OpsKept DEF IInv, Insert
<1>8. /\ CallShape' /\ call'.pc = "prepare" /\ call'.op = o /\ call'.att = b
      /\ gate' = t /\ stage' = stage /\ ops' = ops
  <2>1. call' = [call EXCEPT !.pc = "prepare", !.att = b]
    BY <1>2, <1>3, <1>5 DEF Insert
  <2> QED
    BY <1>1, <1>4, <2>1 DEF Insert, IInv, CallInv, CallShape, CallFields, Pcs
<1>9. AtTarget({"preparing"})'
  BY <1>3, <1>6, <1>8 DEF AtTarget, Of, A, Target, Op
<1>10. CallInv'
  BY <1>2, <1>3, <1>4, <1>8, <1>9
     DEF CallInv, ReleaseCall, RollbackCall, ReworkCall, SkipCall, At, Serves, Op, Target, Open
<1> QED
  BY <1>6, <1>7, <1>10 DEF Good, IInv

\* What a call that holds an attempt of its target gate knows of it.
LEMMA HeldAttempt ==
  ASSUME IInv, NEW S, AtTarget(S), NEW t \in Gates, t = Target, NEW a, a = call.att
  PROVE  a \in Known /\ a[1] = t /\ A(a).st \in S /\ a \in Of(t)
<1>1. a \in Of(t) /\ A(a).st \in S
  BY DEF AtTarget
<1> QED
  BY <1>1, KnownType DEF IInv, TableInv

\* It stays at its gate.
LEMMA StaysAtGate ==
  ASSUME att \in Attempts, att' \in Attempts, Known \subseteq Known',
         NEW t \in Gates, NEW a \in Known, a[1] = t
  PROVE  a \in Of(t)'
<1>1. a \in KnownOf(att')
  BY KnownIsNext
<1>2. a = <<a[1], a[2]>> /\ a[2] \in 1 .. Len(att'[t])
  BY <1>1, Cells
<1>3. DOMAIN att'[t] = 1 .. Len(att'[t])
  BY LenProperties DEF Attempts
<1> QED
  BY <1>2, <1>3 DEF Of

LEMMA PrepareStep == ASSUME IInv, Prepare PROVE Good
<1>1. PICK o : o = call.op
  OBVIOUS
<1>2. /\ o \in Ops /\ ops[o].kind = "rollback" /\ Target = ops[o].target
  BY <1>1, Served DEF IInv, CallInv, RollbackCall, Prepare, At
<1>3. PICK t \in Gates : t = ops[o].target
  BY <1>1, Served DEF IInv, CallInv, RollbackCall, Prepare, At
<1>4. (\A h \in t .. N : stage[h] = "not_started") /\ gate = t /\ AtTarget({"preparing"})
  BY <1>2, <1>3 DEF IInv, CallInv, RollbackCall, Prepare, At, Open
<1>5. PICK a : a = call.att
  OBVIOUS
<1>6. a \in Known /\ a[1] = t /\ A(a).st = "preparing"
  BY <1>2, <1>3, <1>4, <1>5, HeldAttempt
<1>7. CASE MayActivate(a) /\ SetAttempt(a, "prepared") /\ Goto("complete")
  <2>1. /\ TableInv' /\ PassedIsApproved' /\ Kept /\ Known' = Known
        /\ \A b \in Known : A(b)'.st = IF b = a THEN "prepared" ELSE A(b).st
    <3>1. "prepared" \in States /\ Busy \subseteq {a}
      BY <1>7 DEF States, NonFinal, Active, MayActivate
    <3> QED
      BY <1>6, <1>7, <3>1, StateStep DEF IInv, Prepare
  <2>2. OpsInv' /\ Reported
    BY <2>1, OpsKept DEF IInv, Prepare
  <2>3. a \in Of(t)' /\ A(a)'.st = "prepared"
    BY <1>6, <2>1, StaysAtGate DEF IInv, TableInv
  <2>4. /\ CallShape' /\ call'.pc = "complete" /\ call'.op = o /\ call'.att = a
        /\ gate' = t /\ stage' = stage /\ ops' = ops
    BY <1>1, <1>4, <1>5, <1>7, GotoStep DEF CallFields, Pcs, Prepare, IInv
  <2>5. AtTarget({"prepared"})'
    BY <1>3, <2>3, <2>4 DEF AtTarget, Of, A, Target, Op
  <2>6. CallInv'
    BY <1>2, <1>3, <1>4, <2>4, <2>5
       DEF CallInv, ReleaseCall, RollbackCall, ReworkCall, SkipCall, At, Serves, Op, Target, Open
  <2> QED
    BY <2>1, <2>2, <2>6 DEF Good, IInv
<1>8. CASE UNCHANGED att /\ Return
  <2>1. TableInv' /\ PassedIsApproved' /\ Kept /\ Known' = Known
    BY <1>8, TableKept DEF IInv, Prepare
  <2>2. OpsInv' /\ Reported
    BY <2>1, OpsKept DEF IInv, Prepare
  <2> QED
    BY <1>8, <2>1, <2>2, ReturnStep DEF Good, IInv
<1> QED
  BY <1>5, <1>7, <1>8 DEF Prepare

\* An operation reports completion with an active attempt at its target gate.
LEMMA ReportedDone ==
  ASSUME OpsInv, NEW o \in Ops, End(o, "completed"), UNCHANGED <<gate, stage>>,
         gate = ops[o].target, gate \in Interval(ops[o]),
         \A g \in Interval(ops[o]) : stage[g] = "not_started",
         NEW a \in Known', a[1] = gate, A(a)'.st \in Active, SingleActive'
  PROVE  Reported
<1>1. \A p \in Ops : p # o /\ ops'[p].st = "completed" => ops[p].kind = "none"
  BY DEF OpsInv, RowInv, End
<1>2. a \in Busy'
  BY DEF Busy
<1>3. Busy' # {} /\ \A b \in Busy' : b[1] = gate'
  BY <1>2 DEF SingleActive
<1> QED
  BY <1>1, <1>3 DEF Reported

LEMMA CompleteStep == ASSUME IInv, Complete PROVE Good
<1>1. PICK o : o = call.op
  OBVIOUS
<1>2. /\ o \in Ops /\ ops[o].kind = "rollback" /\ Target = ops[o].target
  BY <1>1, Served DEF IInv, CallInv, RollbackCall, Complete, At
<1>3. PICK t \in Gates : t = ops[o].target
  BY <1>1, Served DEF IInv, CallInv, RollbackCall, Complete, At
<1>4. (\A h \in t .. N : stage[h] = "not_started") /\ gate = t /\ AtTarget({"prepared"})
  BY <1>2, <1>3 DEF IInv, CallInv, RollbackCall, Complete, At, Open
<1>5. PICK a : a = call.att
  OBVIOUS
<1>6. a \in Known /\ a[1] = t /\ A(a).st = "prepared"
  BY <1>2, <1>3, <1>4, <1>5, HeldAttempt
<1>7. TableInv' /\ PassedIsApproved' /\ Kept /\ Known' = Known
  BY TableKept DEF IInv, Complete
<1>8. End(o, "completed")
  BY <1>1 DEF Complete
<1>9. OpsInv'
  BY <1>2, <1>7, <1>8, EndStep DEF IInv
<1>10. Reported
  <2>1. A(a)'.st \in Active
    BY <1>6, SameTable DEF Complete, Active
  <2>2. t \in Interval(ops[o]) /\ \A h \in Interval(ops[o]) : stage[h] = "not_started"
    BY <1>2, <1>3, <1>4 DEF Interval, Gates
  <2> QED
    BY <1>2, <1>3, <1>4, <1>6, <1>7, <1>8, <2>1, <2>2, ReportedDone DEF IInv, Complete, TableInv
<1>11. CallInv'
  BY ReturnStep DEF Complete
<1> QED
  BY <1>7, <1>9, <1>10, <1>11 DEF Good, IInv

-----------------------------------------------------------------------------
(* The rework.                                                                *)

\* What step A leaves of the attempts of some gates.
LeftRow(r) == [st |-> IF r.st \in NonFinal THEN "superseded" ELSE r.st, rel |-> "none"]
Left(t, S) ==
  [g \in Gates |-> IF g \in S THEN [n \in DOMAIN t[g] |-> LeftRow(t[g][n])] ELSE t[g]]

LEMMA CellsLeft ==
  ASSUME NEW t \in Attempts, NEW S, NEW u, u = Left(t, S)
  PROVE  /\ u \in Attempts /\ KnownOf(u) = KnownOf(t)
         /\ \A g \in Gates : NewIn(u, g) = NewIn(t, g)
         /\ \A a \in KnownOf(t) : Cell(u, a).st = IF a[1] \in S THEN "superseded" ELSE Cell(t, a).st
<1>1. \A g \in Gates : /\ t[g] \in Seq(Row) /\ Len(t[g]) \in Nat
                       /\ DOMAIN t[g] = 1 .. Len(t[g])
                       /\ \A n \in 1 .. Len(t[g]) : t[g][n] \in Row
  BY LenProperties, ElementOfSeq DEF Attempts
<1>2. \A r \in Row : LeftRow(r) \in Row /\ LeftRow(r).st = "superseded"
  BY DEF Row, LeftRow, States
<1>3. \A g \in Gates : u[g] = IF g \in S THEN [n \in 1 .. Len(t[g]) |-> LeftRow(t[g][n])] ELSE t[g]
  BY <1>1 DEF Left
<1>4. ASSUME NEW g \in Gates
      PROVE  /\ u[g] \in Seq(Row) /\ Len(u[g]) = Len(t[g]) /\ DOMAIN u[g] = DOMAIN t[g]
             /\ \A n \in 1 .. Len(t[g]) : g \in S => u[g][n] = LeftRow(t[g][n])
  <2>1. CASE g \notin S
    BY <1>1, <1>3, <2>1
  <2>2. CASE g \in S
    <3>1. PICK k \in Nat : k = Len(t[g])
      BY <1>1
    <3>2. u[g] = [n \in 1 .. k |-> LeftRow(t[g][n])]
      BY <1>3, <2>2, <3>1
    <3>3. u[g] \in [1 .. k -> Row]
      BY <1>1, <1>2, <3>1, <3>2
    <3>4. u[g] \in Seq(Row) /\ DOMAIN u[g] = 1 .. k
      BY <3>1, <3>3
    <3>5. Len(u[g]) = k
      BY <3>1, <3>4, LenProperties
    <3> QED
      BY <1>1, <3>1, <3>2, <3>4, <3>5
  <2> QED
    BY <2>1, <2>2
<1>5. u \in Attempts
  <2>1. u = [g \in Gates |-> u[g]]
    BY DEF Left
  <2> QED
    BY <1>4, <2>1 DEF Attempts
<1>6. KnownOf(u) = KnownOf(t)
  BY <1>4 DEF KnownOf
<1>7. ASSUME NEW a \in KnownOf(t)
      PROVE  Cell(u, a).st = IF a[1] \in S THEN "superseded" ELSE Cell(t, a).st
  <2>1. a[1] \in Gates /\ a[2] \in 1 .. Len(t[a[1]])
    BY Cells
  <2>2. CASE a[1] \in S
    <3>1. u[a[1]][a[2]] = LeftRow(t[a[1]][a[2]]) /\ t[a[1]][a[2]] \in Row
      BY <1>1, <1>4, <2>1, <2>2
    <3> QED
      BY <1>2, <2>2, <3>1 DEF Cell
  <2>3. CASE a[1] \notin S
    BY <1>3, <2>1, <2>3 DEF Cell
  <2> QED
    BY <2>2, <2>3
<1> QED
  BY <1>4, <1>5, <1>6, <1>7 DEF NewIn

LEMMA ReworkStep == ASSUME IInv, Rework PROVE Good
<1>1. PICK o : o = call.op
  OBVIOUS
<1>2. o \in Ops /\ ops[o].kind = "rework"
  BY <1>1, Served DEF IInv, CallInv, ReworkCall, Rework, At
<1>3. TableInv' /\ PassedIsApproved' /\ Kept /\ Known' = Known
  BY TableKept DEF IInv, Rework
<1>4. OpsInv' /\ Reported /\ ops'[o].kind = "rework"
  BY <1>1, <1>2, <1>3, SetStateStep DEF IInv, Rework
<1>5. CASE Return
  BY <1>3, <1>4, <1>5, ReturnStep DEF Good, IInv
<1>6. CASE Goto("stepA")
  <2>1. CallShape' /\ call'.pc = "stepA" /\ call'.op = o
    BY <1>1, <1>6, GotoStep DEF CallFields, Pcs, IInv
  <2>2. CallInv'
    BY <1>2, <1>4, <2>1 DEF CallInv, ReleaseCall, RollbackCall, ReworkCall, SkipCall, At, Serves, Op
  <2> QED
    BY <1>3, <1>4, <2>2 DEF Good, IInv
<1> QED
  BY <1>5, <1>6 DEF Rework

LEMMA StepAStep == ASSUME IInv, StepA PROVE Good
<1>1. PICK o : o = call.op
  OBVIOUS
<1>2. /\ o \in Ops /\ ops[o].kind = "rework" /\ Target = ops[o].target /\ RowInv(ops[o], Known)
  BY <1>1, Served DEF IInv, CallInv, ReworkCall, StepA, At
<1>3. PICK t \in Gates : t = ops[o].target
  BY <1>1, Served DEF IInv, CallInv, ReworkCall, StepA, At
<1>4. PICK S : S = t .. gate
  OBVIOUS
<1>5. PICK left : left = Left(att, S)
  OBVIOUS
<1>6. PICK reset : reset = [g \in Gates |-> IF g \in S THEN "not_started" ELSE stage[g]]
  OBVIOUS
<1>7. PICK b : b = New(t)
  OBVIOUS
<1>8. PICK post : post = CasWithout(t, t, reset, left)
  OBVIOUS
<1>9. CASE /\ t < gate
           /\ att' = Inserted(left, t, "preparing")
           /\ stage' = reset /\ gate' = t
           /\ ops' = [ops EXCEPT ![o].prog = "step_a", ![o].seen = <<>>,
                                ![o].last = gate, ![o].post = post]
           /\ call' = [call EXCEPT !.pc = "stepB", !.att = b]
  <2>1. t \in S
    BY <1>4, <1>9, GateNat DEF IInv, TableInv, Gates
  <2>2. /\ left \in Attempts /\ KnownOf(left) = KnownOf(att) /\ b = NewIn(left, t)
        /\ \A a \in KnownOf(att) :
             Cell(left, a).st = IF a[1] \in S THEN "superseded" ELSE Cell(att, a).st
    <3>1. NewIn(att, t) = b
      BY <1>7 DEF New, NewIn
    <3> QED
      BY <1>5, <3>1, CellsLeft DEF IInv, TableInv
  <2>3. "preparing" \in States
    BY DEF States, NonFinal
  <2>4. /\ att' \in Attempts /\ KnownOf(att') = KnownOf(att) \cup {b}
        /\ b \notin KnownOf(att) /\ Cell(att', b).st = "preparing"
        /\ \A a \in KnownOf(att) : Cell(att', a) = Cell(left, a)
    <3>1. PICK u : u = att'
      OBVIOUS
    <3>2. u = Inserted(left, t, "preparing")
      BY <1>9, <3>1
    <3>3. /\ u \in Attempts /\ KnownOf(u) = KnownOf(left) \cup {NewIn(left, t)}
          /\ NewIn(left, t) \notin KnownOf(left)
          /\ Cell(u, NewIn(left, t)) = [st |-> "preparing", rel |-> "none"]
          /\ \A a \in KnownOf(left) : Cell(u, a) = Cell(left, a)
      BY <2>2, <2>3, <3>2, CellInserted
    <3> QED
      BY <2>2, <3>1, <3>3
  <2>5. /\ Known' = Known \cup {b} /\ A(b)'.st = "preparing"
        /\ \A a \in Known : A(a)'.st = IF a[1] \in S THEN "superseded" ELSE A(a).st
    BY <2>2, <2>4, KnownIs, KnownIsNext
  <2>6. /\ stage' \in [Gates -> {"not_started", "passed", "skipped"}]
        /\ \A g \in Gates : stage'[g] = IF g \in S THEN "not_started" ELSE stage[g]
    BY <1>6, <1>9 DEF IInv, TableInv
  <2>7. SingleActive'
    <3>1. \A a \in Known' : A(a)'.st \in Active => a \in Busy
      BY <2>5 DEF Active, Busy
    <3> QED
      BY <3>1, StillSingle DEF IInv, TableInv
  <2>8. TableInv'
    BY <1>9, <2>4, <2>6, <2>7 DEF TableInv
  <2>9. PassedIsApproved'
    BY <2>4, <2>5, <2>6, StillApproved, KnownType DEF IInv, TableInv
  <2>10. Kept
    BY <2>5 DEF Kept
  <2>11. /\ OpsInv' /\ Reported /\ ops'[o].kind = "rework" /\ ops'[o].target = t
         /\ ops'[o].last = gate /\ gate \in Gates /\ t <= gate
    <3>1. PICK r : r = [ops[o] EXCEPT !.prog = "step_a", !.seen = <<>>, !.last = gate, !.post = post]
      OBVIOUS
    <3>2. /\ r = [f \in Fields |-> r[f]] /\ r.prog = "step_a" /\ r.post = post /\ r.last = gate
          /\ \A f \in Fields \ {"prog", "seen", "post", "last"} : r[f] = ops[o][f]
      BY <1>2, <3>1 DEF RowInv, Fields
    <3>3. /\ post[1] = t /\ post[2] = reset /\ gate \in Gates /\ t <= gate
          /\ \A g \in t .. gate : reset[g] = "not_started"
      <4>1. gate \in Gates /\ t .. gate \subseteq Gates /\ t <= gate
        BY <1>9 DEF IInv, TableInv, Gates
      <4> QED
        BY <1>4, <1>6, <1>8, <4>1 DEF CasWithout
    <3>4. RowInv(r, Known')
      BY <1>2, <1>3, <2>5, <3>2, <3>3 DEF RowInv, Fields
    <3>5. ops' = [ops EXCEPT ![o] = r]
      BY <1>9, <3>1
    <3>6. OpsInv' /\ (r.st # "completed" => Reported)
      BY <1>2, <2>5, <3>4, <3>5, OpsWritten DEF IInv
    <3>7. r.st # "completed"
      BY <1>2, <3>2 DEF RowInv, Fields
    <3>8. ops'[o] = r
      BY <1>2, <3>5 DEF IInv, OpsInv
    <3> QED
      BY <1>2, <1>3, <3>2, <3>3, <3>6, <3>7, <3>8 DEF Fields
  <2>12. CallShape' /\ call'.pc = "stepB" /\ call'.op = o /\ call'.att = b
    BY <1>1, <1>9 DEF IInv, CallInv, CallShape, CallFields, Pcs
  <2>13. AtTarget({"preparing", "prepared"})'
    <3>1. b \in Of(t)'
      <4>1. b \in Known' /\ b[1] = t
        BY <1>7, <2>5 DEF New
      <4>2. b \in KnownOf(att')
        BY <4>1, KnownIsNext
      <4>3. b = <<b[1], b[2]>> /\ b[2] \in 1 .. Len(att'[t])
        BY <2>4, <4>1, <4>2, Cells
      <4>4. DOMAIN att'[t] = 1 .. Len(att'[t])
        BY <2>4, LenProperties DEF Attempts
      <4> QED
        BY <4>1, <4>3, <4>4 DEF Of
    <3> QED
      BY <2>5, <2>11, <2>12, <3>1 DEF AtTarget, Of, A, Target, Op
  <2>14. \A g \in t .. gate : stage'[g] = "not_started"
    <3>1. t .. gate \subseteq Gates
      BY <1>9 DEF IInv, TableInv, Gates
    <3> QED
      BY <1>4, <2>6, <3>1
  <2>15. CallInv'
    BY <1>2, <1>9, <2>11, <2>12, <2>13, <2>14
       DEF CallInv, ReleaseCall, RollbackCall, ReworkCall, SkipCall, At, Serves, Op, Target, Open
  <2> QED
    BY <2>8, <2>9, <2>10, <2>11, <2>15 DEF Good, IInv
<1>10. CASE Return /\ UNCHANGED <<gate, stage, att, ops>>
  <2>1. TableInv' /\ PassedIsApproved' /\ Kept /\ Known' = Known
    BY <1>10, TableKept DEF IInv
  <2>2. OpsInv' /\ Reported
    BY <1>10, <2>1, OpsKept DEF IInv
  <2> QED
    BY <1>10, <2>1, <2>2, ReturnStep DEF Good, IInv
<1> QED
  <2>1. Left(att, S) = [g \in Gates |-> IF g \in S
          THEN [n \in DOMAIN att[g] |-> [st  |-> IF att[g][n].st \in NonFinal THEN "superseded"
                                                 ELSE att[g][n].st, rel |-> "none"]]
          ELSE att[g]]
    BY DEF Left, LeftRow
  <2> QED
    BY <1>1, <1>2, <1>3, <1>4, <1>5, <1>6, <1>7, <1>8, <1>9, <1>10, <2>1 DEF StepA

\* Step B makes a preparing attempt ready.
LEMMA BoundStep ==
  ASSUME TableInv, PassedIsApproved, UNCHANGED <<gate, stage>>, NEW a \in Known, Bound(a)
  PROVE  /\ TableInv' /\ PassedIsApproved' /\ Kept /\ Known' = Known
         /\ A(a).st \in {"preparing", "prepared"} => A(a)'.st = "prepared"
<1>1. CASE A(a).st = "preparing" /\ MayActivate(a) /\ SetAttempt(a, "prepared")
  <2>1. "prepared" \in States /\ Busy \subseteq {a}
    BY <1>1 DEF States, NonFinal, Active, MayActivate
  <2>2. /\ TableInv' /\ PassedIsApproved' /\ Kept /\ Known' = Known
        /\ \A b \in Known : A(b)'.st = IF b = a THEN "prepared" ELSE A(b).st
    BY <1>1, <2>1, StateStep
  <2> QED
    BY <2>2
<1>2. CASE A(a).st # "preparing" /\ UNCHANGED att
  BY <1>2, TableKept, SameTable
<1> QED
  BY <1>1, <1>2 DEF Bound

LEMMA StepBStep == ASSUME IInv, StepB PROVE Good
<1>1. PICK o : o = call.op
  OBVIOUS
<1>2. /\ o \in Ops /\ ops[o].kind = "rework" /\ Target = ops[o].target
  BY <1>1, Served DEF IInv, CallInv, ReworkCall, StepB, At
<1>3. PICK t \in Gates : t = ops[o].target
  BY <1>1, Served DEF IInv, CallInv, ReworkCall, StepB, At
<1>4. /\ gate = t /\ AtTarget({"preparing", "prepared"})
      /\ t <= ops[o].last /\ \A g \in t .. ops[o].last : stage[g] = "not_started"
  BY <1>1, <1>2, <1>3 DEF IInv, CallInv, ReworkCall, StepB, At, Open, Op
<1>5. PICK a : a = call.att
  OBVIOUS
<1>6. a \in Known /\ a[1] = t /\ A(a).st \in {"preparing", "prepared"}
  BY <1>2, <1>3, <1>4, <1>5, HeldAttempt
<1>7. CallInv' /\ UNCHANGED <<gate, stage>>
  BY ReturnStep DEF StepB
<1>8. CASE Bound(a) /\ End(o, "completed")
  <2>1. /\ TableInv' /\ PassedIsApproved' /\ Kept /\ Known' = Known /\ A(a)'.st = "prepared"
    BY <1>6, <1>7, <1>8, BoundStep DEF IInv
  <2>2. OpsInv'
    BY <1>2, <1>8, <2>1, EndStep DEF IInv
  <2>3. Reported
    <3>1. A(a)'.st \in Active /\ SingleActive' /\ a \in Known'
      BY <1>6, <2>1 DEF Active, TableInv
    <3>2. t \in Interval(ops[o]) /\ \A g \in Interval(ops[o]) : stage[g] = "not_started"
      <4>1. Interval(ops[o]) = t .. ops[o].last
        BY <1>2, <1>3 DEF Interval
      <4>2. t \in t .. ops[o].last
        BY <1>4 DEF Gates
      <4> QED
        BY <1>4, <4>1, <4>2
    <3> QED
      BY <1>2, <1>3, <1>4, <1>6, <1>7, <1>8, <3>1, <3>2, ReportedDone DEF IInv
  <2> QED
    BY <1>7, <2>1, <2>2, <2>3 DEF Good, IInv
<1>9. CASE SetState(o, "blocked") /\ UNCHANGED att
  <2>1. TableInv' /\ PassedIsApproved' /\ Kept /\ Known' = Known
    BY <1>7, <1>9, TableKept DEF IInv
  <2>2. OpsInv' /\ Reported
    BY <1>2, <1>9, <2>1, SetStateStep DEF IInv
  <2> QED
    BY <1>7, <2>1, <2>2 DEF Good, IInv
<1>10. CASE UNCHANGED <<ops, att>>
  <2>1. TableInv' /\ PassedIsApproved' /\ Kept /\ Known' = Known
    BY <1>7, <1>10, TableKept DEF IInv
  <2>2. OpsInv' /\ Reported
    BY <1>10, <2>1, OpsKept DEF IInv
  <2> QED
    BY <1>7, <2>1, <2>2 DEF Good, IInv
<1> QED
  BY <1>1, <1>5, <1>8, <1>9, <1>10 DEF StepB

\* What a resumed rework finds when nothing has happened since step A.
LEMMA FoundUnchanged ==
  ASSUME IInv, NEW o \in Ops, ops[o].kind = "rework", ops[o].prog = "step_a",
         Unchanged(o), Candidates(o) # {}
  PROVE  /\ gate = ops[o].target /\ ops[o].last \in Gates /\ ops[o].target <= ops[o].last
         /\ \A g \in ops[o].target .. ops[o].last : stage[g] = "not_started"
         /\ LastOf(Candidates(o)) \in Candidates(o)
<1>1. /\ RowInv(ops[o], Known) /\ ops[o].target \in Gates
      /\ ops[o].post[1] = ops[o].target /\ ops[o].last \in Gates /\ ops[o].target <= ops[o].last
      /\ \A g \in ops[o].target .. ops[o].last : ops[o].post[2][g] = "not_started"
  BY DEF IInv, OpsInv, RowInv
<1>2. ops[o].post[1] = gate /\ ops[o].post[2] = stage
  BY DEF Unchanged, CasWithout
<1>3. Candidates(o) \in SUBSET Of(ops[o].target)
  BY DEF Candidates
<1>4. LastOf(Candidates(o)) \in Candidates(o)
  BY <1>1, <1>3, LastIn DEF IInv, TableInv
<1> QED
  BY <1>1, <1>2, <1>4

\* It goes on with step B.
LEMMA Finishes ==
  ASSUME IInv, UNCHANGED <<gate, stage, att, ops>>,
         NEW o \in Ops, ops[o].kind = "rework", ops[o].prog = "step_a",
         Unchanged(o), Candidates(o) # {}, CallShape', call'.pc = "finish", call'.op = o,
         call'.att = LastOf(Candidates(o))
  PROVE  CallInv'
<1>1. PICK a : a = LastOf(Candidates(o))
  OBVIOUS
<1>2. /\ gate = ops[o].target /\ ops[o].last \in Gates /\ ops[o].target <= ops[o].last
      /\ \A g \in ops[o].target .. ops[o].last : stage[g] = "not_started"
      /\ a \in Of(ops[o].target) /\ A(a).st \in {"preparing", "prepared"}
  BY <1>1, FoundUnchanged DEF Candidates
<1>3. call'.att = a
  BY <1>1
<1>4. AtTarget({"preparing", "prepared"})'
  BY <1>2, <1>3 DEF AtTarget, Of, A, Target, Op
<1> QED
  BY <1>2, <1>4
     DEF CallInv, ReleaseCall, RollbackCall, ReworkCall, SkipCall, At, Serves, Op, Target, Open

LEMMA ResumeReworkStep == ASSUME IInv, NEW o \in Ops, ResumeRework(o) PROVE Good
<1>1. /\ ops[o].kind = "rework" /\ UNCHANGED <<gate, stage, att>>
  BY DEF ResumeRework, Resume
<1>2. TableInv' /\ PassedIsApproved' /\ Kept /\ Known' = Known
  BY <1>1, TableKept DEF IInv
<1>3. CASE call' = [call EXCEPT !.pc = "rework", !.op = o] /\ UNCHANGED ops
  <2>1. CallInv'
    BY <1>1, <1>3, Begun DEF IInv, First
  <2> QED
    BY <1>2, <1>3, <2>1, OpsKept DEF Good, IInv
<1>4. CASE /\ ops[o].prog = "step_a" /\ Unchanged(o) /\ Candidates(o) # {}
           /\ call' = [call EXCEPT !.pc = "finish", !.op = o, !.att = LastOf(Candidates(o))]
           /\ UNCHANGED ops
  <2>1. CallShape' /\ call'.pc = "finish" /\ call'.op = o /\ call'.att = LastOf(Candidates(o))
    BY <1>4 DEF IInv, CallInv, CallShape, CallFields, Pcs
  <2>2. CallInv'
    BY <1>1, <1>4, <2>1, Finishes
  <2> QED
    BY <1>2, <1>4, <2>2, OpsKept DEF Good, IInv
<1>5. CASE End(o, "none") /\ Return
  BY <1>2, <1>5, EndStep, ReturnStep DEF Good, IInv
<1> QED
  BY <1>3, <1>4, <1>5 DEF ResumeRework, Resume

-----------------------------------------------------------------------------
(* The skip.                                                                  *)

LEMMA SkipAStep == ASSUME IInv, SkipA PROVE Good
<1>1. PICK o : o = call.op
  OBVIOUS
<1>2. /\ o \in Ops /\ ops[o].kind = "skip" /\ Target = ops[o].target /\ RowInv(ops[o], Known)
      /\ Op = ops[o]
  BY <1>1, Served DEF IInv, CallInv, SkipCall, SkipA, At
<1>3. PICK t \in Gates : t = ops[o].target
  BY <1>1, Served DEF IInv, CallInv, SkipCall, SkipA, At
<1>4. PICK n : n = ops[o].on[2]
  OBVIOUS
<1>5. PICK mid : mid = [att EXCEPT ![t][n].st = "superseded"]
  OBVIOUS
<1>6. PICK g : g = t + 1
  OBVIOUS
<1>7. PICK b : b = New(g)
  OBVIOUS
<1>8. CASE /\ t < N /\ stage' = [stage EXCEPT ![t] = "skipped"] /\ gate' = g
           /\ att' = Inserted(mid, g, "preparing")
           /\ ops' = [ops EXCEPT ![o] =
                [Approved(@) EXCEPT !.st = "executing", !.prog = "step_a", !.fresh = b]]
           /\ call' = [call EXCEPT !.pc = "skipB", !.att = b]
  <2>1. g \in Gates /\ g # t
    BY <1>6, <1>8 DEF Gates
  <2>2. PICK r : r = [att[t][n] EXCEPT !.st = "superseded"]
    OBVIOUS
  <2>3. <<t, n>> \in KnownOf(att) => r \in Row /\ r.st = "superseded"
    <3>1. <<t, n>> \in KnownOf(att) => att[t][n] \in Row
      BY Cells DEF Cell, IInv, TableInv
    <3> QED
      BY <2>2, <3>1 DEF Row, States
  <2>4. mid = Written(att, t, n, r)
    BY <1>5, <2>2 DEF Written
  <2>5. /\ mid \in Attempts /\ KnownOf(mid) = KnownOf(att)
        /\ \A a \in KnownOf(att) : Cell(mid, a) = IF a = <<t, n>> THEN r ELSE Cell(att, a)
    BY <2>3, <2>4, CellWritten DEF IInv, TableInv
  <2>6. b = NewIn(mid, g)
    <3>1. mid[g] = att[g]
      BY <1>5, <2>1 DEF IInv, TableInv, Attempts
    <3> QED
      BY <1>7, <3>1 DEF New, NewIn
  <2>7. /\ att' \in Attempts /\ KnownOf(att') = KnownOf(att) \cup {b}
        /\ b \notin KnownOf(att) /\ Cell(att', b).st = "preparing"
        /\ \A a \in KnownOf(att) : Cell(att', a) = Cell(mid, a)
    <3>1. PICK u : u = att'
      OBVIOUS
    <3>2. u = Inserted(mid, g, "preparing") /\ "preparing" \in States
      BY <1>8, <3>1 DEF States, NonFinal
    <3>3. /\ u \in Attempts /\ KnownOf(u) = KnownOf(mid) \cup {NewIn(mid, g)}
          /\ NewIn(mid, g) \notin KnownOf(mid)
          /\ Cell(u, NewIn(mid, g)) = [st |-> "preparing", rel |-> "none"]
          /\ \A a \in KnownOf(mid) : Cell(u, a) = Cell(mid, a)
      BY <2>1, <2>5, <3>2, CellInserted
    <3> QED
      BY <2>5, <2>6, <3>1, <3>3
  <2>8. /\ Known' = Known \cup {b} /\ A(b)'.st = "preparing"
        /\ \A a \in Known : A(a)'.st = IF a = <<t, n>> THEN "superseded" ELSE A(a).st
    BY <2>3, <2>5, <2>7, KnownIs, KnownIsNext
  <2>9. /\ stage' \in [Gates -> {"not_started", "passed", "skipped"}]
        /\ \A h \in Gates : stage'[h] = IF h = t THEN "skipped" ELSE stage[h]
    BY <1>8 DEF IInv, TableInv
  <2>10. SingleActive'
    <3>1. \A a \in Known' : A(a)'.st \in Active => a \in Busy
      BY <2>8 DEF Active, Busy
    <3> QED
      BY <3>1, StillSingle DEF IInv, TableInv
  <2>11. TableInv'
    BY <1>8, <2>1, <2>7, <2>9, <2>10 DEF TableInv
  <2>12. PassedIsApproved'
    <3>1. \A a \in Known : A(a).st = "approved" /\ stage'[a[1]] = "passed" => A(a)'.st = "approved"
      <4> TAKE a \in Known
      <4>1. a[1] \in Gates
        BY KnownType DEF IInv, TableInv
      <4>2. a = <<t, n>> => stage'[a[1]] = "skipped"
        BY <2>9, <4>1
      <4> QED
        BY <2>8, <4>2
    <3> QED
      BY <2>7, <2>8, <2>9, <3>1, StillApproved DEF IInv, TableInv
  <2>13. Kept
    BY <2>8 DEF Kept
  <2>14. OpsInv' /\ Reported /\ ops'[o].kind = "skip"
    <3>1. PICK v : v = Approved(ops[o])
      OBVIOUS
    <3>2. PICK w : w = [v EXCEPT !.st = "executing", !.prog = "step_a", !.fresh = b]
      OBVIOUS
    <3>3. RowInv(v, Known) /\ v.kind = "skip" /\ v.on = None
      BY <1>2, <3>1, ApprovedRow
    <3>4. /\ w = [f \in Fields |-> w[f]] /\ w.st = "executing" /\ w.prog = "step_a" /\ w.fresh = b
          /\ \A f \in Fields \ {"st", "prog", "fresh"} : w[f] = v[f]
      BY <3>2, <3>3 DEF RowInv, Fields
    <3>5. w.kind = "skip" /\ w.target = v.target /\ w.on = None
      BY <3>3, <3>4 DEF Fields
    <3>6. RowInv(w, Known')
      BY <2>8, <3>3, <3>4, <3>5 DEF RowInv
    <3>7. ops' = [ops EXCEPT ![o] = w]
      BY <1>8, <3>1, <3>2
    <3>8. OpsInv' /\ (w.st # "completed" => Reported)
      BY <1>2, <2>8, <3>6, <3>7, OpsWritten DEF IInv
    <3>9. ops'[o] = w
      BY <1>2, <3>7 DEF IInv, OpsInv
    <3> QED
      BY <3>4, <3>5, <3>8, <3>9
  <2>15. CallShape' /\ call'.pc = "skipB" /\ call'.op = o /\ call'.att = b
    BY <1>1, <1>8 DEF IInv, CallInv, CallShape, CallFields, Pcs
  <2>16. CallInv'
    BY <1>2, <2>8, <2>14, <2>15
       DEF CallInv, ReleaseCall, RollbackCall, ReworkCall, SkipCall, At, Serves, Op
  <2> QED
    BY <2>11, <2>12, <2>13, <2>14, <2>16 DEF Good, IInv
<1>9. CASE Return /\ UNCHANGED <<gate, stage, att, ops>>
  <2>1. TableInv' /\ PassedIsApproved' /\ Kept /\ Known' = Known
    BY <1>9, TableKept DEF IInv
  <2>2. OpsInv' /\ Reported
    BY <1>9, <2>1, OpsKept DEF IInv
  <2> QED
    BY <1>9, <2>1, <2>2, ReturnStep DEF Good, IInv
<1> QED
  BY <1>1, <1>2, <1>3, <1>4, <1>5, <1>6, <1>7, <1>8, <1>9 DEF SkipA

LEMMA SkipBStep == ASSUME IInv, SkipB PROVE Good
<1>1. PICK o : o = call.op
  OBVIOUS
<1>2. o \in Ops /\ ops[o].kind = "skip"
  BY <1>1, Served DEF IInv, CallInv, SkipCall, SkipB, At
<1>3. PICK a : a = call.att
  OBVIOUS
<1>4. a \in Known
  BY <1>3 DEF IInv, CallInv, SkipCall, SkipB, At
<1>5. CallInv' /\ UNCHANGED <<gate, stage>>
  BY ReturnStep DEF SkipB
<1>6. CASE Bound(a) /\ End(o, "completed")
  <2>1. TableInv' /\ PassedIsApproved' /\ Kept /\ Known' = Known
    BY <1>4, <1>5, <1>6, BoundStep DEF IInv
  <2>2. OpsInv' /\ Reported
    BY <1>2, <1>6, <2>1, EndStep DEF IInv
  <2> QED
    BY <1>5, <2>1, <2>2 DEF Good, IInv
<1>7. CASE SetState(o, "blocked") /\ UNCHANGED att
  <2>1. TableInv' /\ PassedIsApproved' /\ Kept /\ Known' = Known
    BY <1>5, <1>7, TableKept DEF IInv
  <2>2. OpsInv' /\ Reported
    BY <1>2, <1>7, <2>1, SetStateStep DEF IInv
  <2> QED
    BY <1>5, <2>1, <2>2 DEF Good, IInv
<1> QED
  BY <1>1, <1>3, <1>6, <1>7 DEF SkipB

LEMMA ResumeSkipStep == ASSUME IInv, NEW o \in Ops, ResumeSkip(o) PROVE Good
<1>1. PICK a : a = ops[o].fresh
  OBVIOUS
<1>2. ops[o].kind = "skip" /\ a \in Known
  BY <1>1 DEF ResumeSkip, IInv, OpsInv, RowInv
<1>3. TableInv' /\ PassedIsApproved' /\ Kept /\ Known' = Known
  BY TableKept DEF IInv, ResumeSkip
<1>4. OpsInv' /\ Reported
  BY <1>3, OpsKept DEF IInv, ResumeSkip
<1>5. CallShape' /\ call'.pc = "skipB" /\ call'.op = o /\ call'.att = a /\ ops' = ops
  BY <1>1 DEF ResumeSkip, IInv, CallInv, CallShape, CallFields, Pcs
<1>6. CallInv'
  BY <1>2, <1>3, <1>5
     DEF CallInv, ReleaseCall, RollbackCall, ReworkCall, SkipCall, At, Serves, Op
<1> QED
  BY <1>3, <1>4, <1>6 DEF Good, IInv

-----------------------------------------------------------------------------
(* Calls that are cut short, and the next start.                              *)

\* The tables and the operations stay as they are.
LEMMA OnlyCall ==
  ASSUME IInv, UNCHANGED <<gate, stage, att, ops>>, CallInv'
  PROVE  Good
<1>1. TableInv' /\ PassedIsApproved' /\ Kept /\ Known' = Known
  BY TableKept DEF IInv
<1>2. OpsInv' /\ Reported
  BY <1>1, OpsKept DEF IInv
<1> QED
  BY <1>1, <1>2 DEF Good, IInv

LEMMA WriteFailsStep == ASSUME IInv, WriteFails PROVE Good
BY OnlyCall, ReturnStep DEF WriteFails

LEMMA CrashStep == ASSUME IInv, Crash PROVE Good
<1>1. call' = [f \in CallFields |-> call'[f]] /\ call'.pc = "boot"
  BY DEF Crash, NoCall, CallFields
<1> QED
  BY <1>1, CallOver, OnlyCall DEF Crash

LEMMA PhaseOver ==
  ASSUME NEW phase \in {"rollback", "rework", "up"}, NextPhase(phase)
  PROVE  CallInv'
<1>1. call' = [f \in CallFields |-> call'[f]] /\ call'.pc \in {"idle", "boot"}
  BY DEF NextPhase, NoCall, CallFields
<1> QED
  BY <1>1, CallOver

LEMMA BootReleaseStep == ASSUME IInv, BootRelease PROVE Good
<1>1. PICK todo : todo = {a \in Known : A(a).rel = "granted"} \ call.tried
  OBVIOUS
<1>2. CASE NextPhase("rollback")
  BY <1>2, PhaseOver, OnlyCall DEF BootRelease
<1>3. CASE /\ todo # {}
           /\ Enter("advance", FirstOf(todo), [call EXCEPT !.att = FirstOf(todo)])
  <2>1. PICK a : a = FirstOf(todo)
    OBVIOUS
  <2>2. a \in Known
    <3>1. todo \in SUBSET Known
      BY <1>1
    <3> QED
      BY <1>3, <2>1, <3>1, FirstIn DEF IInv, TableInv
  <2>3. CallShape' /\ call'.pc = "advance" /\ call'.att = a
    BY <1>3, <2>1 DEF Enter, IInv, CallInv, CallShape, CallFields, Pcs
  <2>4. Known' = Known
    BY SameTable DEF BootRelease
  <2>5. CallInv'
    BY <2>2, <2>3, <2>4 DEF CallInv, ReleaseCall, RollbackCall, ReworkCall, SkipCall, At
  <2> QED
    BY <2>5, OnlyCall DEF BootRelease
<1> QED
  BY <1>1, <1>2, <1>3 DEF BootRelease

LEMMA BootRollbackStep == ASSUME IInv, BootRollback PROVE Good
<1>1. PICK todo : todo = {o \in Ops : ops[o].kind = "rollback" /\ ops[o].st = "executing"} \ call.tried
  OBVIOUS
<1>2. CASE NextPhase("rework")
  BY <1>2, PhaseOver, OnlyCall DEF BootRollback
<1>3. CASE todo # {} /\ Enter("begin", Min(todo), [call EXCEPT !.op = Min(todo)])
  <2>1. PICK o : o = Min(todo)
    OBVIOUS
  <2>2. o \in Ops /\ ops[o].kind = "rollback"
    <3>1. todo \in SUBSET Nat
      BY <1>1 DEF Ops
    <3>2. o \in todo
      BY <1>3, <2>1, <3>1, MinIn
    <3> QED
      BY <1>1, <3>2
  <2>3. CallShape' /\ call'.pc = "begin" /\ call'.op = o /\ ops' = ops
    BY <1>3, <2>1 DEF Enter, IInv, CallInv, CallShape, CallFields, Pcs, BootRollback
  <2>4. CallInv'
    BY <2>2, <2>3 DEF CallInv, ReleaseCall, RollbackCall, ReworkCall, SkipCall, At, Serves, Op
  <2> QED
    BY <2>4, OnlyCall DEF BootRollback
<1> QED
  BY <1>1, <1>2, <1>3 DEF BootRollback

LEMMA BootReworkStep == ASSUME IInv, BootRework PROVE Good
<1>1. PICK todo : todo = {o \in Ops : /\ ops[o].kind = "rework" /\ ops[o].prog = "step_a"
                                      /\ ops[o].st \in {"executing", "blocked"}} \ call.tried
  OBVIOUS
<1>2. UNCHANGED <<gate, stage, att>>
  BY DEF BootRework
<1>3. CASE NextPhase("up") /\ UNCHANGED ops
  BY <1>2, <1>3, PhaseOver, OnlyCall
<1>4. ASSUME todo # {}, NEW o, o = Min(todo) PROVE o \in Ops /\ o \in todo
  <2>1. todo \in SUBSET Nat
    BY <1>1 DEF Ops
  <2>2. o \in todo
    BY <1>4, <2>1, MinIn
  <2> QED
    BY <1>1, <2>2
<1>5. PICK o : o = Min(todo)
  OBVIOUS
<1>6. CASE /\ todo # {} /\ Unchanged(o) /\ Candidates(o) # {}
           /\ Enter("finish", o, [call EXCEPT !.op = o, !.att = LastOf(Candidates(o))])
           /\ UNCHANGED ops
  <2>1. o \in Ops /\ ops[o].kind = "rework" /\ ops[o].prog = "step_a"
    BY <1>1, <1>4, <1>5, <1>6
  <2>2. CallShape' /\ call'.pc = "finish" /\ call'.op = o /\ call'.att = LastOf(Candidates(o))
    BY <1>6 DEF Enter, IInv, CallInv, CallShape, CallFields, Pcs
  <2>3. CallInv'
    BY <1>2, <1>6, <2>1, <2>2, Finishes
  <2> QED
    BY <1>2, <1>6, <2>3, OnlyCall
<1>7. CASE /\ todo # {} /\ Enter("boot", o, call) /\ (UNCHANGED ops \/ End(o, "none"))
  <2>1. call' = [f \in CallFields |-> call'[f]] /\ call'.pc = "boot"
    BY <1>7 DEF Enter, IInv, CallInv, CallShape, CallFields
  <2>2. CallInv'
    BY <2>1, CallOver
  <2>3. CASE UNCHANGED ops
    BY <1>2, <2>2, <2>3, OnlyCall
  <2>4. CASE End(o, "none")
    <3>1. TableInv' /\ PassedIsApproved' /\ Kept /\ Known' = Known
      BY <1>2, TableKept DEF IInv
    <3>2. o \in Ops
      BY <1>4, <1>5, <1>7
    <3>3. OpsInv' /\ Reported
      BY <2>4, <3>1, <3>2, EndStep DEF IInv
    <3> QED
      BY <2>2, <3>1, <3>3 DEF Good, IInv
  <2> QED
    BY <1>7, <2>3, <2>4
<1> QED
  BY <1>1, <1>3, <1>5, <1>6, <1>7 DEF BootRework

-----------------------------------------------------------------------------
(* The invariant.                                                             *)

LEMMA InitInv == Init => IInv
<1> SUFFICES ASSUME Init PROVE IInv
  OBVIOUS
<1>1. att \in Attempts /\ Known = {}
  <2>1. \A g \in Gates : att[g] = <<>> /\ <<>> \in Seq(Row)
    BY EmptySeq DEF Init
  <2>2. att \in Attempts
    BY <2>1 DEF Init, Attempts
  <2>3. \A g \in Gates : Len(att[g]) = 0
    BY <2>1, EmptySeq
  <2>4. \A a \in Known : a[2] \in 1 .. 0
    BY <2>2, <2>3, KnownIs, Cells
  <2> QED
    BY <2>2, <2>4
<1>2. TableInv
  <2>1. gate \in Gates
    BY DEF Init, Gates
  <2>2. SingleActive
    BY <1>1 DEF SingleActive, Busy
  <2> QED
    BY <1>1, <2>1, <2>2 DEF Init, TableInv
<1>3. OpsInv
  <2>1. PICK r : r = [NoOp EXCEPT !.st = "none"]
    OBVIOUS
  <2>2. r = NoOp /\ RowInv(r, Known)
    BY <2>1, Ended DEF NoOp
  <2>3. \A o \in Ops : ops[o] = r
    BY <2>2 DEF Init
  <2> QED
    BY <2>2, <2>3 DEF Init, OpsInv
<1>4. CallInv
  <2>1. CallShape /\ call.pc = "idle"
    BY NoCallShape DEF Init, CallShape, Pcs
  <2> QED
    BY <2>1 DEF CallInv, ReleaseCall, RollbackCall, ReworkCall, SkipCall, At
<1>5. PassedIsApproved
  BY DEF Init, PassedIsApproved
<1> QED
  BY <1>2, <1>3, <1>4, <1>5 DEF IInv

LEMMA NextGood == ASSUME IInv, Next PROVE Good
<1>1. CASE \E g \in Gates : Start(g) \/ RequestRework(g) \/ RequestSkip(g)
  BY <1>1, StartStep, RequestReworkStep, RequestSkipStep
<1>2. CASE \E a \in Known : Ask(a) \/ Answer(a) \/ RequestRollback(a)
  BY <1>2, AskStep, AnswerStep, RequestRollbackStep
<1>3. CASE \E o \in Ops : Reject(o) \/ Lapse(o) \/ Approve(o)
  BY <1>3, RejectStep, LapseStep, ApproveStep
<1>4. CASE Releasing
  BY <1>4, AdvanceStep, PassStep, NextAttemptStep, CloseStep DEF Releasing
<1>5. CASE RollingBack
  BY <1>5, BeginStep, CheckStep, ResetStep, WithdrawStep, ExpireStep, PointStep, InsertedStep,
     PrepareStep, CompleteStep DEF RollingBack
<1>6. CASE Reworking
  BY <1>6, ReworkStep, StepAStep, StepBStep, ResumeReworkStep DEF Reworking
<1>7. CASE Skipping
  BY <1>7, SkipAStep, SkipBStep, ResumeSkipStep DEF Skipping
<1>8. CASE WriteFails \/ Crash
  BY <1>8, WriteFailsStep, CrashStep
<1>9. CASE Booting
  BY <1>9, BootReleaseStep, BootRollbackStep, BootReworkStep DEF Booting
<1> QED
  BY <1>1, <1>2, <1>3, <1>4, <1>5, <1>6, <1>7, <1>8, <1>9 DEF Next

LEMMA StutterInv == ASSUME IInv, UNCHANGED vars PROVE IInv'
<1>1. CallInv'
  <2>1. UNCHANGED <<gate, stage, att, ops, call>>
    BY DEF vars
  <2>2. Known' = Known
    BY <2>1, SameTable
  <2> QED
    BY <2>1, <2>2 DEF IInv, CallInv, CallShape, ReleaseCall, RollbackCall, ReworkCall, SkipCall,
                      At, Serves, Op, Target, Open, AtTarget, Of, A
<1>2. Good
  BY <1>1, OnlyCall DEF vars
<1> QED
  BY <1>2 DEF Good

LEMMA Inductive == Spec => []IInv
<1>1. IInv /\ [Next]_vars => IInv'
  BY NextGood, StutterInv DEF Good
<1> QED
  BY InitInv, <1>1, PTL DEF Spec
-----------------------------------------------------------------------------
(* The theorems.                                                              *)

\* Every table keeps its type, and at most one attempt is active, whichever of the
\* operations was cut off and resumed (idx_attempts_single_active).
THEOREM ReopenTypeCorrect == Spec => []TypeOK
<1>1. IInv => TypeOK
  <2> SUFFICES ASSUME IInv PROVE TypeOK
    OBVIOUS
  <2>1. \A g \in Gates : att[g] \in Seq([st : {"superseded"} \cup NonFinal,
                                         rel : {"none", "asked", "granted"}])
    BY DEF IInv, TableInv, Attempts, Row, States
  <2>2. Cardinality(Busy) <= 1
    <3>1. CASE Busy = {}
      BY <3>1, FS_EmptySet
    <3>2. ASSUME NEW a \in Busy PROVE Cardinality(Busy) <= 1
      <4>1. Busy = {a}
        BY DEF IInv, TableInv, SingleActive
      <4> QED
        BY <4>1, FS_Singleton
    <3> QED
      BY <3>1, <3>2
  <2> QED
    BY <2>1, <2>2 DEF IInv, TableInv, OpsInv, RowInv, Kinds, CallInv, CallShape, TypeOK
<1> QED
  BY <1>1, Inductive, PTL

\* A stage reads passed only while an approved attempt of its gate exists, however
\* releases, rollbacks, reworks and skips are cut off and resumed (pass_gate, execute).
THEOREM PassedHasApproval == Spec => []PassedIsApproved
<1>1. IInv => PassedIsApproved
  BY DEF IInv
<1> QED
  BY <1>1, Inductive, PTL

\* No late answer, resumed step or startup brings a withdrawn attempt back
\* (complete_approve, step_b, mark_prepared).
THEOREM WithdrawnStaysWithdrawn == Spec => WithdrawnIsFinal
<1> DEFINE Final == \A a \in Known : (A(a).st = "superseded") => A(a)'.st = "superseded"
<1>1. IInv /\ [Next]_vars => [Final]_vars
  BY NextGood DEF Good, Kept
<1>2. Spec => [][Final]_vars
  BY <1>1, Inductive, PTL DEF Spec
<1> QED
  BY <1>2 DEF WithdrawnIsFinal

\* A rollback or rework that reports completion has brought the work item to its
\* target gate, with every stage of its interval open and the active attempt at the
\* target (complete, step_b).
THEOREM CompletionIsAtTarget == Spec => CompletedAtTarget
<1> DEFINE AtItsTarget ==
      \A o \in Ops :
        (ops[o].kind \in {"rollback", "rework"} /\ ops'[o].st = "completed") =>
          /\ gate' = ops[o].target /\ gate' \in Interval(ops[o])
          /\ \A g \in Interval(ops[o]) : stage'[g] = "not_started"
          /\ Busy' # {} /\ \A a \in Busy' : a[1] = gate'
<1>1. IInv /\ [Next]_vars => [AtItsTarget]_vars
  BY NextGood DEF Good, Reported
<1>2. Spec => [][AtItsTarget]_vars
  BY <1>1, Inductive, PTL DEF Spec
<1> QED
  BY <1>2 DEF CompletedAtTarget
=============================================================================
