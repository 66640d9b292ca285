-------------------------- MODULE McpImport_proofs --------------------------
(* Proofs about McpImport, for every set of imports, any number of requests,  *)
(* lost writes and deaths of the process.                                     *)
EXTENDS McpImport, TLAPS

USE McpImportAssumption

-----------------------------------------------------------------------------
(* What is known of one import.                                               *)

RunPcs == {"clone", "fetch", "cursor", "probe", "finish", "failed"}

\* The worker is between the claim of the import and its last write.
Running(i) == worker.pc \in RunPcs /\ worker.at = i

\* A row that was not added, or whose probe nobody approved.
FreshInv(i) ==
  /\ row[i].status = "absent" =>
       /\ approval["probe"][i] = "none" /\ approval["activate"][i] = "none"
       /\ server[i] = "none" /\ requests[i] = 0 /\ ~withdrawn[i] /\ ~row[i].frozen
  /\ row[i].status = "awaiting_probe_approval" =>
       /\ approval["activate"][i] = "none" /\ requests[i] = 0 /\ ~row[i].frozen
       /\ approval["probe"][i] = "requested" => ~withdrawn[i]

\* A row that is open to be probed, or whose probe was lost, was asked for and not
\* taken back; an approved probe is counted before it is begun.
ProbingInv(i) ==
  /\ row[i].status \in {"probing", "unknown"} =>
       /\ approval["probe"][i] = "approved" /\ approval["activate"][i] = "none"
       /\ ~withdrawn[i] /\ ~row[i].frozen
  /\ row[i].attempt <= requests[i]
  /\ row[i].status = "probing" /\ row[i].owner = "none" => row[i].attempt < requests[i]

\* An import that the worker still writes to has no entrypoint and no request to
\* activate it, whatever became of it: what those writes bring back cannot be
\* activated.
RunningInv(i) ==
  Running(i) =>
    /\ row[i].status \in {"probing", "unknown", "failed", "revoked"}
    /\ approval["probe"][i] = "approved" /\ approval["activate"][i] = "none"
    /\ ~row[i].frozen

\* An entrypoint is stored once, of an approved probe; a request to activate it is
\* one that nobody took back.
FrozenInv(i) ==
  row[i].frozen =>
    /\ approval["probe"][i] = "approved"
    /\ row[i].status = "awaiting_activation" /\ approval["activate"][i] = "requested"
         => ~withdrawn[i]

ServerInv(i) ==
  server[i] = "active" =>
    /\ row[i].status = "active" /\ ~withdrawn[i]
    /\ approval["probe"][i] = "approved" /\ approval["activate"][i] = "approved"

ImportInv(i) ==
  FreshInv(i) /\ ProbingInv(i) /\ RunningInv(i) /\ FrozenInv(i) /\ ServerInv(i)

IInv == TypeOK /\ \A i \in Imports : ImportInv(i)

-----------------------------------------------------------------------------
(* Types.                                                                     *)

Row == [status : Statuses, manifest : {"none", "pending", "digest"},
        frozen : BOOLEAN, cloned : BOOLEAN,
        owner : {"none", "this process", "dead process"},
        lease : {"none", "running", "over"}, attempt : 0 .. MaxRequests]
Answers == {"none", "requested", "approved", "rejected", "changes_requested", "expired"}
WorkerPcs == {"idle", "list", "claim", "clone", "fetch", "cursor", "probe", "finish", "failed"}
Worker == [pc : WorkerPcs, at : Imports, todo : SUBSET Imports]

Approvals == [Kinds -> [Imports -> Answers]]

\* TypeOK in the names of this module.
LEMMA TypeOKIs ==
  TypeOK <=>
    /\ row \in [Imports -> Row] /\ approval \in Approvals
    /\ server \in [Imports -> {"none", "active", "revoked"}]
    /\ dir \in [Imports -> {"absent", "remote", "checkout"}]
    /\ worker \in Worker /\ cleanup \subseteq Imports /\ up \in BOOLEAN /\ mishaps \in 0 .. MaxMishaps
    /\ requests \in [Imports -> 0 .. MaxRequests] /\ withdrawn \in [Imports -> BOOLEAN]
BY DEF TypeOK, Row, Approvals, Answers, WorkerPcs, Worker

\* The approval that a decision is about.
LEMMA Deciding ==
  ASSUME TypeOK, NEW i \in Imports, NEW d \in Answers, DecidedAs(i, d)
  PROVE  /\ approval' \in Approvals
         /\ approval'[Latest(i)][i] = d
         /\ Latest(i) = "activate" => approval'["probe"][i] = approval["probe"][i]
         /\ Latest(i) = "probe" => approval'["activate"][i] = approval["activate"][i]
         /\ \A j \in Imports \ {i}, k \in Kinds : approval'[k][j] = approval[k][j]
         /\ Latest(i) \in Kinds
<1>1. Latest(i) \in Kinds
  BY DEF Latest, Kinds
<1>2. approval \in Approvals
  BY TypeOKIs
<1>3. /\ approval' \in Approvals
      /\ \A l \in Kinds, j \in Imports :
           approval'[l][j] = IF l = Latest(i) /\ j = i THEN d ELSE approval[l][j]
  BY <1>1, <1>2 DEF DecidedAs, Approvals
<1> QED
  BY <1>1, <1>3 DEF Kinds

\* What is known of an import rests on its own rows and on the worker being at it.
Untouched(i) ==
  /\ row'[i] = row[i] /\ server'[i] = server[i]
  /\ \A k \in Kinds : approval'[k][i] = approval[k][i]
  /\ requests'[i] = requests[i] /\ withdrawn'[i] = withdrawn[i]
  /\ Running(i)' => Running(i)

LEMMA Frame ==
  ASSUME NEW i \in Imports, ImportInv(i), Untouched(i)
  PROVE  ImportInv(i)'
<1>1. /\ approval'["probe"][i] = approval["probe"][i]
      /\ approval'["activate"][i] = approval["activate"][i]
  BY DEF Untouched, Kinds
<1>2. FreshInv(i)' /\ ProbingInv(i)' /\ FrozenInv(i)' /\ ServerInv(i)'
  BY <1>1 DEF Untouched, ImportInv, FreshInv, ProbingInv, FrozenInv, ServerInv
<1>3. RunningInv(i)'
  BY <1>1 DEF Untouched, ImportInv, RunningInv
<1> QED
  BY <1>2, <1>3 DEF ImportInv

-----------------------------------------------------------------------------
(* The RPCs.                                                                  *)

LEMMA InitInv == Init => IInv
<1> SUFFICES ASSUME Init PROVE IInv
  OBVIOUS
<1>1. worker \in Worker /\ worker.pc = "idle"
  BY DEF Init, Asleep, Worker, WorkerPcs
<1>2. NoRow \in Row
  BY DEF NoRow, Row, Statuses
<1>3. \A k \in Kinds, i \in Imports : approval[k][i] = "none"
  BY DEF Init
<1>4. TypeOK
  BY <1>1, <1>2, TypeOKIs DEF Init, Approvals, Answers
<1>5. ASSUME NEW i \in Imports PROVE ImportInv(i)
  BY <1>1, <1>3 DEF Init, NoRow, ImportInv, FreshInv, ProbingInv, RunningInv, FrozenInv, ServerInv,
       Running, RunPcs, Kinds
<1> QED
  BY <1>4, <1>5 DEF IInv

LEMMA Add ==
  ASSUME IInv, NEW i \in Imports, ImportAdd(i)
  PROVE  IInv'
<1>1. /\ TypeOK /\ ImportInv(i) /\ row \in [Imports -> Row]
      /\ approval \in Approvals
  BY TypeOKIs DEF IInv
<1>2. /\ approval' \in Approvals
      /\ \A l \in Kinds, j \in Imports :
           approval'[l][j] = IF l = "probe" /\ j = i THEN "requested" ELSE approval[l][j]
  BY <1>1 DEF ImportAdd, Approvals, Kinds, Answers
<1>0. [row[i] EXCEPT !.status = "awaiting_probe_approval", !.manifest = "pending"] \in Row
  BY <1>1 DEF Row, Statuses
<1>3. /\ row' \in [Imports -> Row]
      /\ row'[i].status = "awaiting_probe_approval" /\ row'[i].frozen = row[i].frozen
      /\ row'[i].attempt = row[i].attempt
      /\ \A j \in Imports \ {i} : row'[j] = row[j]
  BY <1>0, <1>1 DEF ImportAdd, Row
<1>4. TypeOK'
  BY <1>1, <1>2, <1>3, TypeOKIs DEF ImportAdd, TypeOK, Row, Approvals, Answers
<1>5. ImportInv(i)'
  BY <1>1, <1>2, <1>3 DEF ImportAdd, ImportInv, FreshInv, ProbingInv, RunningInv, FrozenInv,
       ServerInv, Running, Kinds
<1>6. ASSUME NEW j \in Imports \ {i} PROVE ImportInv(j)'
  BY <1>2, <1>3, Frame DEF ImportAdd, IInv, Untouched, Running
<1> QED
  BY <1>4, <1>5, <1>6 DEF IInv

LEMMA ProbeApproved ==
  ASSUME IInv, NEW i \in Imports, ApproveProbe(i)
  PROVE  IInv'
<1>1. /\ TypeOK /\ ImportInv(i) /\ row \in [Imports -> Row]
  BY TypeOKIs DEF IInv
<1>2. /\ approval' \in Approvals
      /\ approval'["probe"][i] = "approved" /\ approval'["activate"][i] = approval["activate"][i]
      /\ approval["activate"][i] = "none" /\ approval["probe"][i] = "requested"
      /\ \A j \in Imports \ {i}, k \in Kinds : approval'[k][j] = approval[k][j]
  BY <1>1, Deciding DEF ApproveProbe, Latest, Requested, Answers
<1>3. [row[i] EXCEPT !.status = "probing"] \in Row
  BY <1>1 DEF Row, Statuses
<1>4. /\ row' \in [Imports -> Row]
      /\ row'[i].status = "probing" /\ row'[i].frozen = row[i].frozen
      /\ row'[i].attempt = row[i].attempt
      /\ \A j \in Imports \ {i} : row'[j] = row[j]
  BY <1>1, <1>3 DEF ApproveProbe, Row
<1>5. /\ row[i].status = "awaiting_probe_approval"
      /\ requests[i] = 0 /\ requests' = [requests EXCEPT ![i] = requests[i] + 1]
      /\ UNCHANGED <<server, dir, worker, cleanup, up, mishaps, withdrawn>>
  BY <1>1 DEF ApproveProbe, ImportInv, FreshInv
<1>6. /\ requests' \in [Imports -> 0 .. MaxRequests] /\ requests'[i] = 1
      /\ \A j \in Imports \ {i} : requests'[j] = requests[j]
  BY <1>1, <1>5, TypeOKIs
<1>7. TypeOK'
  BY <1>1, <1>2, <1>4, <1>5, <1>6, TypeOKIs DEF TypeOK, Row, Approvals, Answers
<1>8. row[i].attempt = 0
  <2>1. row[i] \in Row
    BY <1>1
  <2>2. row[i].attempt \in 0 .. MaxRequests
    BY <2>1 DEF Row
  <2>3. row[i].attempt <= 0
    BY <1>1, <1>5 DEF ImportInv, ProbingInv
  <2> QED
    BY <2>2, <2>3
<1>9. ImportInv(i)'
  BY <1>1, <1>2, <1>4, <1>5, <1>6, <1>8 DEF ImportInv, FreshInv, ProbingInv, RunningInv, FrozenInv,
       ServerInv, Running
<1>10. ASSUME NEW j \in Imports \ {i} PROVE ImportInv(j)'
  BY <1>2, <1>4, <1>5, <1>6, Frame DEF IInv, Untouched, Running
<1> QED
  BY <1>7, <1>9, <1>10 DEF IInv

LEMMA Activated ==
  ASSUME IInv, NEW i \in Imports, Activate(i)
  PROVE  IInv'
<1>1. /\ TypeOK /\ ImportInv(i) /\ row \in [Imports -> Row]
  BY TypeOKIs DEF IInv
<1>2. /\ approval' \in Approvals
      /\ approval'["activate"][i] = "approved" /\ approval'["probe"][i] = approval["probe"][i]
      /\ approval["activate"][i] = "requested"
      /\ \A j \in Imports \ {i}, k \in Kinds : approval'[k][j] = approval[k][j]
  BY <1>1, Deciding DEF Activate, Latest, Requested, Answers
<1>3. [row[i] EXCEPT !.status = "active"] \in Row
  BY <1>1 DEF Row, Statuses
<1>4. /\ row' \in [Imports -> Row]
      /\ row'[i].status = "active" /\ row'[i].frozen = row[i].frozen
      /\ row'[i].attempt = row[i].attempt
      /\ \A j \in Imports \ {i} : row'[j] = row[j]
  BY <1>1, <1>3 DEF Activate, Row
<1>5. /\ row[i].status = "awaiting_activation" /\ row[i].frozen
      /\ UNCHANGED <<dir, worker, cleanup, up, mishaps, requests, withdrawn>>
  BY DEF Activate
<1>6. /\ server' \in [Imports -> {"none", "active", "revoked"}]
      /\ \A j \in Imports \ {i} : server'[j] = server[j]
  BY <1>1, TypeOKIs DEF Activate
<1>7. TypeOK'
  BY <1>1, <1>2, <1>4, <1>5, <1>6, TypeOKIs DEF TypeOK, Row, Approvals, Answers
<1>8. /\ approval["probe"][i] = "approved" /\ ~withdrawn[i]
  BY <1>1, <1>2, <1>5 DEF ImportInv, FrozenInv
<1>9. ImportInv(i)'
  BY <1>1, <1>2, <1>4, <1>5, <1>8 DEF ImportInv, FreshInv, ProbingInv, RunningInv, FrozenInv,
       ServerInv, Running
<1>10. ASSUME NEW j \in Imports \ {i} PROVE ImportInv(j)'
  BY <1>2, <1>4, <1>5, <1>6, Frame DEF IInv, Untouched, Running
<1> QED
  BY <1>7, <1>9, <1>10 DEF IInv

\* A request that is open is one of an import that is not served, and that the
\* worker is not at unless it is the request it made last.
LEMMA OpenRequest ==
  ASSUME IInv, NEW i \in Imports, Requested(i)
  PROVE  /\ server[i] # "active" /\ ~Running(i)
         /\ row[i].status \notin {"probing", "unknown", "absent"}
         /\ row[i].frozen => Latest(i) = "activate"
BY DEF IInv, ImportInv, FreshInv, ProbingInv, RunningInv, FrozenInv, ServerInv, Requested, Latest

LEMMA Rejected ==
  ASSUME IInv, NEW i \in Imports, Reject(i)
  PROVE  IInv'
<1>1. /\ TypeOK /\ ImportInv(i) /\ row \in [Imports -> Row]
  BY TypeOKIs DEF IInv
<1>2. /\ approval' \in Approvals
      /\ Latest(i) = "activate" => approval'["probe"][i] = approval["probe"][i]
      /\ \A j \in Imports \ {i}, k \in Kinds : approval'[k][j] = approval[k][j]
  BY <1>1, Deciding DEF Reject, Answers
<1>3. [row[i] EXCEPT !.status = "failed"] \in Row
  BY <1>1 DEF Row, Statuses
<1>4. /\ row' \in [Imports -> Row]
      /\ row'[i].status = "failed" /\ row'[i].frozen = row[i].frozen
      /\ row'[i].attempt = row[i].attempt
      /\ \A j \in Imports \ {i} : row'[j] = row[j]
  BY <1>1, <1>3 DEF Reject, Row
<1>5. /\ Requested(i) /\ cleanup' = {i}
      /\ UNCHANGED <<server, dir, worker, up, mishaps, requests>>
  BY DEF Reject
<1>6. /\ withdrawn' \in [Imports -> BOOLEAN]
      /\ \A j \in Imports \ {i} : withdrawn'[j] = withdrawn[j]
  BY <1>1, TypeOKIs DEF Reject
<1>7. TypeOK'
  BY <1>1, <1>2, <1>4, <1>5, <1>6, TypeOKIs DEF TypeOK, Row, Approvals, Answers
<1>8. ImportInv(i)'
  BY <1>1, <1>2, <1>4, <1>5, OpenRequest DEF ImportInv, FreshInv, ProbingInv, RunningInv,
       FrozenInv, ServerInv, Running
<1>9. ASSUME NEW j \in Imports \ {i} PROVE ImportInv(j)'
  BY <1>2, <1>4, <1>5, <1>6, Frame DEF IInv, Untouched, Running
<1> QED
  BY <1>7, <1>8, <1>9 DEF IInv

LEMMA DecidedElsewhere ==
  ASSUME IInv, NEW i \in Imports, DecideElsewhere(i)
  PROVE  IInv'
<1>1. /\ TypeOK /\ ImportInv(i) /\ row \in [Imports -> Row]
  BY TypeOKIs DEF IInv
<1>2. PICK d \in {"approved", "rejected", "changes_requested", "expired"} :
        /\ DecidedAs(i, d)
        /\ withdrawn' = [withdrawn EXCEPT ![i] = @ \/ d = "rejected"]
  BY DEF DecideElsewhere
<1>3. /\ approval' \in Approvals /\ approval'[Latest(i)][i] = d
      /\ Latest(i) \in Kinds
      /\ Latest(i) = "activate" => approval'["probe"][i] = approval["probe"][i]
      /\ Latest(i) = "probe" => approval'["activate"][i] = approval["activate"][i]
      /\ \A j \in Imports \ {i}, k \in Kinds : approval'[k][j] = approval[k][j]
  BY <1>1, <1>2, Deciding DEF Answers
<1>4. /\ Requested(i)
      /\ UNCHANGED <<row, server, dir, worker, cleanup, up, mishaps, requests>>
  BY DEF DecideElsewhere
<1>5. /\ withdrawn' \in [Imports -> BOOLEAN]
      /\ \A j \in Imports \ {i} : withdrawn'[j] = withdrawn[j]
  BY <1>1, <1>2, TypeOKIs
<1>6. TypeOK'
  BY <1>1, <1>3, <1>4, <1>5, TypeOKIs DEF TypeOK, Row, Approvals, Answers
<1>7. /\ server[i] # "active" /\ ~Running(i)
      /\ row[i].status \notin {"probing", "unknown", "absent"}
      /\ row[i].frozen => Latest(i) = "activate"
  BY <1>4, OpenRequest
<1>8. row[i].status = "awaiting_probe_approval" => Latest(i) = "probe"
  BY <1>1 DEF ImportInv, FreshInv, Latest
<1>9. ImportInv(i)'
  <2>1. FreshInv(i)' /\ ServerInv(i)'
    BY <1>1, <1>2, <1>3, <1>4, <1>7, <1>8 DEF ImportInv, FreshInv, ServerInv
  <2>2. ProbingInv(i)' /\ RunningInv(i)'
    BY <1>1, <1>4, <1>7 DEF ImportInv, ProbingInv, RunningInv, Running
  <2>3. FrozenInv(i)'
    BY <1>1, <1>2, <1>3, <1>4, <1>7 DEF ImportInv, FrozenInv
  <2> QED
    BY <2>1, <2>2, <2>3 DEF ImportInv
<1>10. ASSUME NEW j \in Imports \ {i} PROVE ImportInv(j)'
  BY <1>3, <1>4, <1>5, Frame DEF IInv, Untouched, Running
<1> QED
  BY <1>6, <1>9, <1>10 DEF IInv

LEMMA Resumed ==
  ASSUME IInv, NEW i \in Imports, ImportResume(i)
  PROVE  IInv'
<1>1. /\ TypeOK /\ ImportInv(i) /\ row \in [Imports -> Row]
  BY TypeOKIs DEF IInv
<1>2. [row[i] EXCEPT !.status = "probing", !.owner = "none", !.lease = "none"] \in Row
  BY <1>1 DEF Row, Statuses
<1>3. /\ row' \in [Imports -> Row]
      /\ row'[i].status = "probing" /\ row'[i].frozen = row[i].frozen
      /\ row'[i].attempt = row[i].attempt
      /\ \A j \in Imports \ {i} : row'[j] = row[j]
  BY <1>1, <1>2 DEF ImportResume, Row
<1>4. /\ row[i].status = "unknown" /\ requests[i] < MaxRequests
      /\ UNCHANGED <<approval, server, dir, worker, cleanup, up, mishaps, withdrawn>>
  BY DEF ImportResume
<1>5. /\ requests' \in [Imports -> 0 .. MaxRequests] /\ requests'[i] = requests[i] + 1
      /\ requests[i] \in Nat /\ row[i].attempt \in Nat
      /\ \A j \in Imports \ {i} : requests'[j] = requests[j]
  <2>1. /\ requests \in [Imports -> 0 .. MaxRequests]
        /\ requests' = [requests EXCEPT ![i] = requests[i] + 1]
    BY <1>1, TypeOKIs DEF ImportResume
  <2>2. requests[i] \in Nat /\ requests[i] + 1 \in 0 .. MaxRequests
    BY <1>4, <2>1
  <2>3. row[i] \in Row
    BY <1>1
  <2>4. row[i].attempt \in 0 .. MaxRequests
    BY <2>3 DEF Row
  <2> QED
    BY <2>1, <2>2, <2>4
<1>6. TypeOK'
  BY <1>1, <1>3, <1>4, <1>5, TypeOKIs DEF TypeOK, Row, Approvals, Answers
<1>7. ImportInv(i)'
  BY <1>1, <1>3, <1>4, <1>5 DEF ImportInv, FreshInv, ProbingInv, RunningInv, FrozenInv,
       ServerInv, Running
<1>8. ASSUME NEW j \in Imports \ {i} PROVE ImportInv(j)'
  BY <1>3, <1>4, <1>5, Frame DEF IInv, Untouched, Running
<1> QED
  BY <1>6, <1>7, <1>8 DEF IInv

LEMMA Unregistered ==
  ASSUME TypeOK, NEW i \in Imports, Unregister(i)
  PROVE  /\ server' \in [Imports -> {"none", "active", "revoked"}]
         /\ server'[i] # "active"
         /\ server[i] = "none" => server'[i] = "none"
         /\ \A j \in Imports \ {i} : server'[j] = server[j]
BY TypeOKIs DEF Unregister

LEMMA Revoked ==
  ASSUME IInv, NEW i \in Imports, ImportRevoke(i)
  PROVE  IInv'
<1>1. /\ TypeOK /\ ImportInv(i) /\ row \in [Imports -> Row]
  BY TypeOKIs DEF IInv
<1>2. [row[i] EXCEPT !.status = "revoked"] \in Row
  BY <1>1 DEF Row, Statuses
<1>3. /\ row' \in [Imports -> Row]
      /\ row'[i].status = "revoked" /\ row'[i].frozen = row[i].frozen
      /\ row'[i].attempt = row[i].attempt
      /\ \A j \in Imports \ {i} : row'[j] = row[j]
  BY <1>1, <1>2 DEF ImportRevoke, Row
<1>4. /\ cleanup' = {i} /\ UNCHANGED <<approval, dir, worker, up, mishaps, requests>>
  BY DEF ImportRevoke
<1>5. /\ server' \in [Imports -> {"none", "active", "revoked"}]
      /\ server'[i] # "active"
      /\ \A j \in Imports \ {i} : server'[j] = server[j]
  BY <1>1, Unregistered DEF ImportRevoke
<1>6. /\ withdrawn' \in [Imports -> BOOLEAN]
      /\ \A j \in Imports \ {i} : withdrawn'[j] = withdrawn[j]
  BY <1>1, TypeOKIs DEF ImportRevoke
<1>7. TypeOK'
  BY <1>1, <1>3, <1>4, <1>5, <1>6, TypeOKIs DEF TypeOK, Row, Approvals, Answers
<1>8. ImportInv(i)'
  BY <1>1, <1>3, <1>4, <1>5 DEF ImportInv, FreshInv, ProbingInv, RunningInv, FrozenInv,
       ServerInv, Running
<1>9. ASSUME NEW j \in Imports \ {i} PROVE ImportInv(j)'
  BY <1>3, <1>4, <1>5, <1>6, Frame DEF IInv, Untouched, Running
<1> QED
  BY <1>7, <1>8, <1>9 DEF IInv

LEMMA ServerRevoked ==
  ASSUME IInv, NEW i \in Imports, ServerRevoke(i)
  PROVE  IInv'
<1>1. /\ TypeOK /\ ImportInv(i)
  BY DEF IInv
<1>2. UNCHANGED <<row, approval, dir, worker, cleanup, up, mishaps, requests, withdrawn>>
  BY DEF ServerRevoke
<1>3. /\ server' \in [Imports -> {"none", "active", "revoked"}]
      /\ server'[i] # "active"
      /\ server[i] = "none" => server'[i] = "none"
      /\ \A j \in Imports \ {i} : server'[j] = server[j]
  BY <1>1, Unregistered DEF ServerRevoke
<1>4. TypeOK'
  BY <1>1, <1>2, <1>3 DEF TypeOK
<1>5. ImportInv(i)'
  BY <1>1, <1>2, <1>3 DEF ImportInv, FreshInv, ProbingInv, RunningInv, FrozenInv, ServerInv, Running
<1>6. ASSUME NEW j \in Imports \ {i} PROVE ImportInv(j)'
  BY <1>2, <1>3, Frame DEF IInv, Untouched, Running
<1> QED
  BY <1>4, <1>5, <1>6 DEF IInv

LEMMA CleanedUp ==
  ASSUME IInv, Cleanup
  PROVE  IInv'
<1>1. /\ TypeOK
      /\ UNCHANGED <<row, approval, server, worker, up, mishaps, requests, withdrawn>>
  BY DEF IInv, Cleanup
<1>2. dir' \in [Imports -> {"absent", "remote", "checkout"}] /\ cleanup' = {}
  BY <1>1, TypeOKIs DEF Cleanup
<1>3. TypeOK'
  BY <1>1, <1>2, TypeOKIs DEF TypeOK
<1>4. ASSUME NEW j \in Imports PROVE ImportInv(j)'
  BY <1>1, Frame DEF IInv, Untouched, Running
<1> QED
  BY <1>3, <1>4 DEF IInv
-----------------------------------------------------------------------------
(* The worker, time and the process.                                          *)

\* A step of the worker that writes no row, or only fields of no consequence.
LEMMA WorkerFrame ==
  ASSUME IInv, OthersKept, row' \in [Imports -> Row],
         worker' \in Worker,
         mishaps' \in 0 .. MaxMishaps,
         \A i \in Imports : (row'[i] = row[i] /\ (Running(i)' => Running(i))) \/ ImportInv(i)'
  PROVE  IInv'
<1>1. TypeOK'
  BY TypeOKIs DEF IInv, OthersKept, TypeOK, Row, WorkerPcs, Worker
<1>2. ASSUME NEW i \in Imports PROVE ImportInv(i)'
  BY Frame DEF IInv, OthersKept, Untouched
<1> QED
  BY <1>1, <1>2 DEF IInv

\* The worker moves within the import it is at, or leaves it.
LEMMA Moved ==
  ASSUME TypeOK, NEW pc \in WorkerPcs, Goto(pc), pc \in RunPcs => worker.pc \in RunPcs
  PROVE  /\ worker' \in Worker /\ worker'.pc = pc /\ worker'.at = worker.at
         /\ \A j \in Imports : Running(j)' => Running(j)
<1>1. /\ worker' \in Worker /\ worker'.pc = pc /\ worker'.at = worker.at
  BY TypeOKIs DEF Goto, Worker
<1> QED
  BY <1>1 DEF Running

\* What is known of an import whose row changes, of the worker's own accord.
LEMMA RowChanged ==
  ASSUME NEW i \in Imports, IInv, row' \in [Imports -> Row],
         UNCHANGED <<approval, server, requests, withdrawn>>,
         row'[i].frozen = row[i].frozen,
         row'[i].attempt = row[i].attempt,
         Running(i)' => Running(i),
         \/ row[i].status \in {"probing", "unknown"} /\ row'[i].status = "unknown"
         \/ Running(i) /\ row'[i].status \in {"failed", row[i].status}
            /\ (row'[i].owner = "none" => row[i].owner = "none")
         \/ row'[i].status = row[i].status
            /\ (row'[i].owner = "none" => row[i].owner = "none")
  PROVE  ImportInv(i)'
<1>1. ImportInv(i)
  BY DEF IInv
<1>2. CASE row'[i].status = row[i].status
  BY <1>1, <1>2 DEF ImportInv, FreshInv, ProbingInv, RunningInv, FrozenInv, ServerInv
<1>3. CASE row[i].status \in {"probing", "unknown"} /\ row'[i].status = "unknown"
  BY <1>1, <1>3 DEF ImportInv, FreshInv, ProbingInv, RunningInv, FrozenInv, ServerInv
<1>4. CASE Running(i) /\ row'[i].status = "failed"
  BY <1>1, <1>4 DEF ImportInv, FreshInv, ProbingInv, RunningInv, FrozenInv, ServerInv
<1> QED
  BY <1>2, <1>3, <1>4

LEMMA Reconciled ==
  ASSUME IInv, ReconcileExpiredLeases, UNCHANGED <<approval, server, requests, withdrawn>>,
         \A j \in Imports : Running(j)' => Running(j)
  PROVE  row' \in [Imports -> Row] /\ \A i \in Imports : ImportInv(i)'
<1>1. row \in [Imports -> Row]
  BY TypeOKIs DEF IInv
<1>2. ASSUME NEW i \in Imports
      PROVE  /\ GivenUp(row[i]) \in Row /\ row[i] \in Row
             /\ GivenUp(row[i]).status = "unknown"
             /\ GivenUp(row[i]).frozen = row[i].frozen
             /\ GivenUp(row[i]).attempt = row[i].attempt
  BY <1>1 DEF GivenUp, Row, Statuses
<1>3. /\ row' \in [Imports -> Row]
      /\ \A i \in Imports : row'[i] = IF Lapsed(row[i]) THEN GivenUp(row[i]) ELSE row[i]
  BY <1>1, <1>2 DEF ReconcileExpiredLeases
<1>4. ASSUME NEW i \in Imports PROVE ImportInv(i)'
  BY <1>2, <1>3, RowChanged DEF Lapsed
<1> QED
  BY <1>3, <1>4

LEMMA MishapType ==
  ASSUME TypeOK, mishaps < MaxMishaps, mishaps' = mishaps + 1
  PROVE  mishaps' \in 0 .. MaxMishaps
<1>1. mishaps \in 0 .. MaxMishaps
  BY DEF TypeOK
<1> QED
  BY <1>1

LEMMA Ticked ==
  ASSUME IInv, Tick
  PROVE  IInv'
<1>1. TypeOK /\ row \in [Imports -> Row] /\ At("idle") /\ OthersKept
  BY TypeOKIs DEF IInv, Tick
<1>2. CASE ReconcileExpiredLeases /\ Goto("list") /\ UNCHANGED mishaps
  <2>1. worker' \in Worker /\ \A j \in Imports : Running(j)' => Running(j)
    BY <1>1, <1>2, Moved DEF WorkerPcs, RunPcs
  <2>2. row' \in [Imports -> Row] /\ \A i \in Imports : ImportInv(i)'
    BY <1>1, <1>2, <2>1, Reconciled DEF OthersKept
  <2> QED
    BY <1>1, <1>2, <2>1, <2>2, WorkerFrame DEF TypeOK
<1>3. CASE mishaps < MaxMishaps /\ mishaps' = mishaps + 1 /\ Goto("idle") /\ UNCHANGED row
  <2>1. worker' \in Worker /\ \A j \in Imports : Running(j)' => Running(j)
    BY <1>1, <1>3, Moved DEF WorkerPcs, RunPcs
  <2> QED
    BY <1>1, <1>3, <2>1, WorkerFrame, MishapType
<1> QED
  BY <1>2, <1>3 DEF Tick, Write

LEMMA Listed ==
  ASSUME IInv, List
  PROVE  IInv'
<1>1. /\ row' = row /\ row \in [Imports -> Row] /\ mishaps' = mishaps /\ mishaps \in 0 .. MaxMishaps
      /\ worker \in Worker /\ OthersKept
  BY TypeOKIs DEF IInv, List
<1>2. /\ worker' \in Worker /\ worker'.pc = "claim"
  BY <1>1 DEF List, Worker, WorkerPcs
<1> QED
  BY <1>1, <1>2, WorkerFrame DEF Running, RunPcs

LEMMA Claimed ==
  ASSUME IInv, Claim
  PROVE  IInv'
<1>1. /\ TypeOK /\ row \in [Imports -> Row] /\ mishaps \in 0 .. MaxMishaps
      /\ worker \in Worker /\ OthersKept /\ At("claim")
  BY TypeOKIs DEF IInv, Claim
<1>2. /\ Asleep \in Worker /\ Asleep.pc = "idle"
  BY DEF Asleep, Worker, WorkerPcs
<1>3. CASE worker' = Asleep /\ UNCHANGED <<row, mishaps>>
  BY <1>1, <1>2, <1>3, WorkerFrame DEF Running, RunPcs
<1>4. CASE worker' = Asleep /\ mishaps < MaxMishaps /\ mishaps' = mishaps + 1 /\ UNCHANGED row
  BY <1>1, <1>2, <1>4, WorkerFrame, MishapType DEF Running, RunPcs
<1>5. ASSUME NEW i \in worker.todo,
             worker' = [pc |-> IF Claimable(row[i]) THEN "clone" ELSE "claim",
                        at |-> i, todo |-> worker.todo \ {i}],
             row' = IF Claimable(row[i])
                    THEN [row EXCEPT ![i].owner = "this process", ![i].lease = "running",
                                     ![i].attempt = @ + 1]
                    ELSE row,
             UNCHANGED mishaps
      PROVE  IInv'
  <2>1. /\ i \in Imports /\ worker' \in Worker /\ worker'.at = i
        /\ worker'.pc = IF Claimable(row[i]) THEN "clone" ELSE "claim"
    BY <1>1, <1>5 DEF Worker, WorkerPcs
  <2>2. CASE ~Claimable(row[i])
    BY <1>1, <1>5, <2>1, <2>2, WorkerFrame DEF Running, RunPcs
  <2>3. CASE Claimable(row[i])
    <3>1. /\ row[i].attempt < requests[i] /\ row[i].attempt \in 0 .. MaxRequests
          /\ requests[i] \in 0 .. MaxRequests /\ row[i] \in Row
      BY <1>1, <2>1, <2>3, TypeOKIs DEF Claimable, IInv, ImportInv, ProbingInv, Row
    <3>2. row[i].attempt + 1 \in 0 .. MaxRequests /\ row[i].attempt + 1 <= requests[i]
      BY <3>1
    <3> DEFINE new == [row[i] EXCEPT !.owner = "this process", !.lease = "running",
                                     !.attempt = row[i].attempt + 1]
    <3>3. /\ new \in Row /\ new.status = "probing" /\ new.frozen = row[i].frozen
          /\ new.attempt = row[i].attempt + 1 /\ new.owner = "this process"
      BY <2>3, <3>1, <3>2 DEF Row, Claimable
    <3>4. row' = [row EXCEPT ![i] = new]
      BY <1>1, <1>5, <2>1, <2>3
    <3> HIDE DEF new
    <3>5. /\ row' \in [Imports -> Row] /\ row'[i] = new
          /\ \A j \in Imports \ {i} : row'[j] = row[j]
      BY <1>1, <2>1, <3>3, <3>4
    <3>6. row[i].status = "probing" /\ ImportInv(i)
      BY <2>1, <2>3 DEF Claimable, IInv
    <3>7. ImportInv(i)'
      BY <1>1, <3>2, <3>3, <3>5, <3>6 DEF ImportInv, FreshInv, ProbingInv, RunningInv, FrozenInv,
           ServerInv, OthersKept
    <3>8. ASSUME NEW j \in Imports \ {i} PROVE row'[j] = row[j] /\ (Running(j)' => Running(j))
      BY <2>1, <3>5 DEF Running
    <3> QED
      BY <1>1, <1>5, <2>1, <3>5, <3>7, <3>8, WorkerFrame
  <2> QED
    BY <2>2, <2>3
<1> QED
  BY <1>3, <1>4, <1>5 DEF Claim

Dirs == [Imports -> {"absent", "remote", "checkout"}]

\* A step of the worker that changes the checkout only.
LEMMA CheckoutFrame ==
  ASSUME IInv, NEW pc \in RunPcs, At("clone") \/ At("fetch"), Goto(pc), dir' \in Dirs,
         UNCHANGED <<row, approval, server, cleanup, up, mishaps, requests, withdrawn>>
  PROVE  IInv'
<1>1. /\ worker' \in Worker /\ \A j \in Imports : Running(j)' => Running(j)
  BY Moved DEF IInv, RunPcs, WorkerPcs, At
<1>2. TypeOK'
  BY <1>1, TypeOKIs DEF IInv, TypeOK, Dirs, Worker, WorkerPcs
<1>3. ASSUME NEW i \in Imports PROVE ImportInv(i)'
  BY <1>1, Frame DEF IInv, Untouched
<1> QED
  BY <1>2, <1>3 DEF IInv

LEMMA Cloned ==
  ASSUME IInv, Clone
  PROVE  IInv'
<1>1. /\ dir \in Dirs /\ worker.at \in Imports /\ At("clone")
      /\ UNCHANGED <<row, approval, server, cleanup, up, mishaps, requests, withdrawn>>
  BY TypeOKIs DEF IInv, Clone, Dirs, Worker
<1>2. \E pc \in RunPcs : Goto(pc) /\ dir' \in Dirs
  BY <1>1 DEF Clone, RunPcs, Dirs
<1> QED
  BY <1>1, <1>2, CheckoutFrame

LEMMA Fetched ==
  ASSUME IInv, Fetch
  PROVE  IInv'
<1>1. /\ dir \in Dirs /\ worker.at \in Imports /\ At("fetch")
      /\ UNCHANGED <<row, approval, server, cleanup, up, mishaps, requests, withdrawn>>
  BY TypeOKIs DEF IInv, Fetch, Dirs, Worker
<1>2. /\ [dir EXCEPT ![I] = "checkout"] \in Dirs
      /\ [dir EXCEPT ![I] = IF @ = "remote" THEN "checkout" ELSE @] \in Dirs
  BY <1>1 DEF Dirs
<1>3. \E pc \in RunPcs : Goto(pc) /\ dir' \in Dirs
  BY <1>1, <1>2 DEF Fetch, RunPcs
<1> QED
  BY <1>1, <1>3, CheckoutFrame

LEMMA CursorSet ==
  ASSUME IInv, SetCursor
  PROVE  IInv'
<1>1. /\ TypeOK /\ row \in [Imports -> Row] /\ At("cursor") /\ OthersKept
      /\ mishaps \in 0 .. MaxMishaps /\ worker \in Worker
  BY TypeOKIs DEF IInv, SetCursor
<1>i. PICK i \in Imports : i = I
  BY <1>1 DEF Worker, I
<1>2. ASSUME NEW pc \in {"probe", "failed"}, Goto(pc)
      PROVE  worker' \in Worker /\ \A j \in Imports : Running(j)' => Running(j)
  BY <1>1, <1>2, Moved DEF WorkerPcs, RunPcs, At
<1>3. CASE /\ row' = [row EXCEPT ![i].cloned = TRUE, ![i].lease = "running"]
           /\ Goto("probe") /\ UNCHANGED mishaps
  <2>1. [row[i] EXCEPT !.cloned = TRUE, !.lease = "running"] \in Row
    BY <1>1 DEF Row
  <2>2. /\ row' \in [Imports -> Row]
        /\ row'[i].status = row[i].status /\ row'[i].owner = row[i].owner
        /\ row'[i].frozen = row[i].frozen /\ row'[i].attempt = row[i].attempt
        /\ \A j \in Imports \ {i} : row'[j] = row[j]
    BY <1>1, <1>3, <2>1 DEF Row
  <2>3. ImportInv(i)'
    BY <1>1, <1>2, <1>3, <2>2, RowChanged DEF OthersKept
  <2> QED
    BY <1>1, <1>2, <1>3, <2>2, <2>3, WorkerFrame
<1>4. CASE mishaps < MaxMishaps /\ mishaps' = mishaps + 1 /\ Goto("failed") /\ UNCHANGED row
  BY <1>1, <1>2, <1>4, WorkerFrame, MishapType
<1> QED
  BY <1>i, <1>3, <1>4 DEF SetCursor, Write

LEMMA Probed ==
  ASSUME IInv, Probe
  PROVE  IInv'
<1>1. /\ TypeOK /\ row \in [Imports -> Row] /\ At("probe") /\ OthersKept
      /\ mishaps \in 0 .. MaxMishaps /\ UNCHANGED <<row, mishaps>>
  BY TypeOKIs DEF IInv, Probe
<1>2. PICK pc \in {"finish", "failed"} : Goto(pc)
  BY DEF Probe
<1>3. worker' \in Worker /\ \A j \in Imports : Running(j)' => Running(j)
  BY <1>1, <1>2, Moved DEF WorkerPcs, RunPcs, At
<1> QED
  BY <1>1, <1>3, WorkerFrame

LEMMA Failed ==
  ASSUME IInv, MarkFailed
  PROVE  IInv'
<1>1. /\ TypeOK /\ row \in [Imports -> Row] /\ At("failed") /\ OthersKept
      /\ mishaps \in 0 .. MaxMishaps /\ Goto("claim") /\ worker \in Worker
  BY TypeOKIs DEF IInv, MarkFailed, Write
<1>i. PICK i \in Imports : i = I
  BY <1>1 DEF Worker, I
<1>2. worker' \in Worker /\ \A j \in Imports : Running(j)' => Running(j)
  BY <1>1, Moved DEF WorkerPcs, RunPcs, At
<1>3. CASE row' = [row EXCEPT ![i].status = "failed"] /\ UNCHANGED mishaps
  <2>1. [row[i] EXCEPT !.status = "failed"] \in Row
    BY <1>1 DEF Row, Statuses
  <2>2. /\ row' \in [Imports -> Row]
        /\ row'[i].status = "failed" /\ row'[i].owner = row[i].owner
        /\ row'[i].frozen = row[i].frozen /\ row'[i].attempt = row[i].attempt
        /\ \A j \in Imports \ {i} : row'[j] = row[j]
    BY <1>1, <1>3, <2>1 DEF Row
  <2>3. Running(i)
    BY <1>1, <1>i DEF Running, RunPcs, At, I
  <2>4. ImportInv(i)'
    BY <1>1, <1>2, <2>2, <2>3, RowChanged DEF OthersKept
  <2> QED
    BY <1>1, <1>2, <1>3, <2>2, <2>4, WorkerFrame
<1>4. CASE mishaps < MaxMishaps /\ mishaps' = mishaps + 1 /\ UNCHANGED row
  BY <1>1, <1>2, <1>4, WorkerFrame, MishapType
<1> QED
  BY <1>i, <1>3, <1>4 DEF MarkFailed, Write

\* The worker stores the candidate of an import that is still probing; of another
\* it only brings the status back, to a row that has no entrypoint.
LEMMA Finishing ==
  ASSUME IInv, Finish
  PROVE  IInv'
<1>1. /\ TypeOK /\ row \in [Imports -> Row] /\ At("finish")
      /\ mishaps \in 0 .. MaxMishaps /\ approval \in Approvals /\ worker \in Worker
      /\ UNCHANGED <<server, dir, cleanup, up, requests, withdrawn>>
  BY TypeOKIs DEF IInv, Finish
<1>i. PICK i \in Imports : i = I
  BY <1>1 DEF Worker, I
<1>r. Running(i) /\ ImportInv(i)
  BY <1>1, <1>i DEF IInv, Running, RunPcs, At, I
<1>2. ASSUME NEW pc \in {"claim", "failed"}, Goto(pc)
      PROVE  worker' \in Worker /\ \A j \in Imports : Running(j)' => Running(j)
  BY <1>1, <1>2, Moved DEF WorkerPcs, RunPcs, At
<1>3. CASE /\ row' = [row EXCEPT ![i].status = "awaiting_activation",
                                 ![i].frozen = @ \/ StillProbing(i),
                                 ![i].manifest = IF StillProbing(i) THEN "digest" ELSE @]
           /\ approval' = [approval EXCEPT !["activate"][i] = "requested"]
           /\ Goto("claim") /\ UNCHANGED mishaps
  <2>1. ~row[i].frozen /\ row[i] \in Row
    BY <1>1, <1>r DEF ImportInv, RunningInv
  <2>2. /\ approval' \in Approvals
        /\ approval'["activate"][i] = "requested" /\ approval'["probe"][i] = approval["probe"][i]
        /\ \A j \in Imports \ {i}, k \in Kinds : approval'[k][j] = approval[k][j]
    BY <1>1, <1>3 DEF Approvals, Kinds, Answers
  <2> DEFINE new == [row[i] EXCEPT !.status = "awaiting_activation",
                                   !.frozen = @ \/ StillProbing(i),
                                   !.manifest = IF StillProbing(i) THEN "digest" ELSE @]
  <2>3. /\ new \in Row /\ new.status = "awaiting_activation"
        /\ new.frozen => StillProbing(i)
        /\ new.attempt = row[i].attempt
    BY <2>1 DEF Row, Statuses, StillProbing
  <2>4. row' = [row EXCEPT ![i] = new]
    BY <1>1, <1>3
  <2> HIDE DEF new
  <2>5. /\ row' \in [Imports -> Row] /\ row'[i] = new
        /\ \A j \in Imports \ {i} : row'[j] = row[j]
    BY <1>1, <2>3, <2>4
  <2>6. worker' \in Worker /\ worker'.pc = "claim"
    BY <1>1, <1>3, Moved DEF WorkerPcs, RunPcs
  <2>7. /\ approval["probe"][i] = "approved" /\ server[i] # "active"
        /\ StillProbing(i) => ~withdrawn[i]
    BY <1>1, <1>r DEF ImportInv, RunningInv, ServerInv, ProbingInv, StillProbing
  <2>8. ImportInv(i)'
    BY <1>1, <1>r, <2>2, <2>3, <2>5, <2>6, <2>7 DEF ImportInv, FreshInv, ProbingInv, RunningInv,
         FrozenInv, ServerInv, Running, RunPcs
  <2>9. ASSUME NEW j \in Imports \ {i} PROVE ImportInv(j)'
    BY <1>1, <1>2, <1>3, <2>2, <2>5, Frame DEF IInv, Untouched
  <2>10. TypeOK'
    BY <1>1, <1>3, <2>2, <2>5, <2>6, TypeOKIs DEF TypeOK, Row, Approvals, Answers,
         Worker, WorkerPcs
  <2> QED
    BY <2>8, <2>9, <2>10 DEF IInv
<1>4. CASE Goto("failed") /\ UNCHANGED <<row, approval>> /\ mishaps' \in 0 .. MaxMishaps
  BY <1>1, <1>2, <1>4, WorkerFrame DEF OthersKept
<1> QED
  BY <1>1, <1>i, <1>3, <1>4, MishapType DEF Finish

LEMMA LeaseEnded ==
  ASSUME IInv, NEW i \in Imports, LeaseEnds(i)
  PROVE  IInv'
<1>1. /\ TypeOK /\ row \in [Imports -> Row]
      /\ UNCHANGED <<approval, server, dir, worker, cleanup, up, mishaps, requests, withdrawn>>
  BY TypeOKIs DEF IInv, LeaseEnds
<1>2. [row[i] EXCEPT !.lease = "over"] \in Row
  BY <1>1 DEF Row
<1>3. /\ row' \in [Imports -> Row]
      /\ row'[i].status = row[i].status /\ row'[i].owner = row[i].owner
      /\ row'[i].frozen = row[i].frozen /\ row'[i].attempt = row[i].attempt
      /\ \A j \in Imports \ {i} : row'[j] = row[j]
  BY <1>1, <1>2 DEF LeaseEnds, Row
<1>4. ImportInv(i)'
  BY <1>1, <1>3, RowChanged DEF Running
<1>5. ASSUME NEW j \in Imports \ {i} PROVE ImportInv(j)'
  BY <1>1, <1>3, Frame DEF IInv, Untouched, Running
<1>6. TypeOK'
  BY <1>1, <1>3, TypeOKIs DEF TypeOK, Row
<1> QED
  BY <1>4, <1>5, <1>6 DEF IInv

LEMMA Crashed ==
  ASSUME IInv, Crash
  PROVE  IInv'
<1>1. /\ TypeOK /\ row \in [Imports -> Row] /\ up' = FALSE /\ cleanup' = {} /\ worker' = Asleep
      /\ mishaps < MaxMishaps /\ mishaps' = mishaps + 1
      /\ UNCHANGED <<approval, server, dir, requests, withdrawn>>
  BY TypeOKIs DEF IInv, Crash
<1>2. worker' \in Worker /\ worker'.pc = "idle"
  BY <1>1 DEF Asleep, Worker, WorkerPcs
<1>3. ASSUME NEW i \in Imports
      PROVE  /\ [row[i] EXCEPT !.owner = "dead process"] \in Row /\ row[i] \in Row
             /\ [row[i] EXCEPT !.owner = "dead process"].status = row[i].status
             /\ [row[i] EXCEPT !.owner = "dead process"].frozen = row[i].frozen
             /\ [row[i] EXCEPT !.owner = "dead process"].attempt = row[i].attempt
             /\ [row[i] EXCEPT !.owner = "dead process"].owner = "dead process"
  BY <1>1 DEF Row
<1>4. /\ row' \in [Imports -> Row]
      /\ \A i \in Imports : row'[i] = IF row[i].owner = "this process"
                                     THEN [row[i] EXCEPT !.owner = "dead process"] ELSE row[i]
  BY <1>1, <1>3 DEF Crash
<1>5. ASSUME NEW i \in Imports PROVE ImportInv(i)'
  <2>1. ~Running(i)'
    BY <1>2 DEF Running, RunPcs
  <2> QED
    BY <1>1, <1>3, <1>4, <2>1, RowChanged
<1>6. mishaps' \in 0 .. MaxMishaps
  BY <1>1, MishapType
<1>7. TypeOK'
  BY <1>1, <1>2, <1>4, <1>6, TypeOKIs DEF TypeOK, Row, Worker, WorkerPcs
<1> QED
  BY <1>5, <1>7 DEF IInv

LEMMA Started ==
  ASSUME IInv, Startup
  PROVE  IInv'
<1>1. /\ TypeOK /\ row \in [Imports -> Row] /\ mishaps \in 0 .. MaxMishaps
      /\ up' = TRUE /\ UNCHANGED <<approval, server, dir, worker, cleanup, requests, withdrawn>>
      /\ \A j \in Imports : Running(j)' => Running(j)
  BY TypeOKIs DEF IInv, Startup, Running
<1>2. /\ mishaps' \in 0 .. MaxMishaps
      /\ row' \in [Imports -> Row] /\ \A i \in Imports : ImportInv(i)'
  <2>1. CASE ReconcileExpiredLeases /\ UNCHANGED mishaps
    BY <1>1, <2>1, Reconciled
  <2>2. CASE mishaps < MaxMishaps /\ mishaps' = mishaps + 1 /\ UNCHANGED row
    BY <1>1, <2>2, MishapType, Frame DEF IInv, Untouched
  <2> QED
    BY <2>1, <2>2 DEF Startup
<1>3. TypeOK'
  BY <1>1, <1>2, TypeOKIs DEF TypeOK, Row
<1> QED
  BY <1>2, <1>3 DEF IInv

LEMMA Stuttering ==
  ASSUME IInv, UNCHANGED vars
  PROVE  IInv'
<1>1. TypeOK'
  BY DEF IInv, vars, TypeOK
<1>2. ASSUME NEW i \in Imports PROVE ImportInv(i)'
  BY Frame DEF IInv, vars, Untouched, Running
<1> QED
  BY <1>1, <1>2 DEF IInv

LEMMA Inductive == Spec => []IInv
<1>1. ASSUME IInv, Next PROVE IInv'
  <2>1. CASE \E i \in Imports :
               \/ ImportAdd(i) \/ ApproveProbe(i) \/ Activate(i) \/ Reject(i) \/ DecideElsewhere(i)
               \/ ImportResume(i) \/ ImportRevoke(i) \/ ServerRevoke(i) \/ LeaseEnds(i)
    BY <1>1, <2>1, Add, ProbeApproved, Activated, Rejected, DecidedElsewhere, Resumed, Revoked,
       ServerRevoked, LeaseEnded
  <2>2. CASE Work
    BY <1>1, <2>2, Ticked, Listed, Claimed, Cloned, Fetched, CursorSet, Probed, Finishing, Failed
       DEF Work
  <2>3. CASE Cleanup \/ Crash \/ Startup
    BY <1>1, <2>3, CleanedUp, Crashed, Started
  <2> QED
    BY <1>1, <2>1, <2>2, <2>3 DEF Next
<1>2. IInv /\ [Next]_vars => IInv'
  BY <1>1, Stuttering
<1> QED
  BY InitInv, <1>2, PTL DEF Spec
-----------------------------------------------------------------------------
(* The theorems.                                                              *)

\* Every variable keeps its type (mcp_import.rs).
THEOREM ImportTypeCorrect == Spec => []TypeOK
<1>1. IInv => TypeOK
  BY DEF IInv
<1> QED
  BY <1>1, Inductive, PTL

\* A server that serves was approved twice and never taken back, whatever the
\* worker writes late (mcp_import.rs, import_decide, import_revoke, run_probing).
THEOREM WithdrawnStaysOut == Spec => []WithdrawnNeverServes
<1>1. IInv => WithdrawnNeverServes
  BY DEF IInv, ImportInv, ServerInv, WithdrawnNeverServes, Kinds
<1> QED
  BY <1>1, Inductive, PTL

\* No probe without a request of a person for it, over any number of crashes and
\* lost leases (mcp_import.rs, tick_probing, reconcile_expired_leases).
THEOREM OneProbePerRequest == Spec => []ProbesOnRequest
<1>1. IInv => ProbesOnRequest
  BY DEF IInv, ImportInv, ProbingInv, ProbesOnRequest
<1> QED
  BY <1>1, Inductive, PTL
=============================================================================
