----------------------------- MODULE McpImport -----------------------------
(***************************************************************************)
(* MCP servers imported from a Git repository (settings/src/mcp_import.rs).  *)
(* A person approves the probe; a worker thread with a database connection   *)
(* of its own claims the row, clones the pinned commit, freezes and probes   *)
(* it, and asks for the activation; a person activates it, which registers   *)
(* the server.  The RPCs (add, decide, resume, revoke) run on the database   *)
(* actor at the same time.  The imports looked at pin one commit.            *)
(***************************************************************************)
EXTENDS Naturals

CONSTANTS
  Imports,     \* rows of mcp_repo_imports, of one repository and commit
  MaxRequests, \* bound: probe approvals and resumptions of a row
  MaxMishaps   \* bound: failing writes and deaths of the process

ASSUME McpImportAssumption ==
  Imports # {} /\ MaxRequests \in Nat \ {0} /\ MaxMishaps \in Nat

VARIABLES
  row,       \* mcp_repo_imports
  approval,  \* approvals by subject_type and subject_id
  server,    \* mcp_servers.status of the import's server
  dir,       \* the checkout on disk
  worker,    \* the thread that runs tick_probing
  cleanup,   \* imports whose directory the RPC being served still removes
  up,        \* the process serves
  mishaps,
  requests,  \* history: how often a person asked for a probe
  withdrawn  \* history: a person rejected or revoked the import

vars == <<row, approval, server, dir, worker, cleanup, up, mishaps, requests, withdrawn>>

Statuses == {"absent", "awaiting_probe_approval", "probing", "awaiting_activation",
             "active", "failed", "unknown", "revoked"}
Kinds == {"probe", "activate"}
NoRow == [status |-> "absent", manifest |-> "none", frozen |-> FALSE, cloned |-> FALSE,
          owner |-> "none", lease |-> "none", attempt |-> 0]
Asleep == [pc |-> "idle", at |-> CHOOSE i \in Imports : TRUE, todo |-> {}]

Init ==
  /\ row = [i \in Imports |-> NoRow]
  /\ approval = [k \in Kinds |-> [i \in Imports |-> "none"]]
  /\ server = [i \in Imports |-> "none"] /\ dir = [i \in Imports |-> "absent"]
  /\ worker = Asleep /\ cleanup = {} /\ up = TRUE /\ mishaps = 0
  /\ requests = [i \in Imports |-> 0] /\ withdrawn = [i \in Imports |-> FALSE]

RpcFree == up /\ cleanup = {}
\* UNIQUE(repo_url, pinned_sha, manifest_digest): nobody else holds this key.
KeyFree(i, manifest) == \A j \in Imports \ {i} : row[j].manifest # manifest
\* The approval that import_decide reads: the latest one of the import.
Latest(i) == IF approval["activate"][i] # "none" THEN "activate" ELSE "probe"
Requested(i) == approval[Latest(i)][i] = "requested"
DecidedAs(i, d) == approval' = [approval EXCEPT ![Latest(i)][i] = d]
-----------------------------------------------------------------------------
(* The RPCs.                                                                  *)

ImportAdd(i) ==
  /\ RpcFree /\ row[i].status = "absent" /\ KeyFree(i, "pending")
  /\ row' = [row EXCEPT ![i].status = "awaiting_probe_approval", ![i].manifest = "pending"]
  /\ approval' = [approval EXCEPT !["probe"][i] = "requested"]
  /\ UNCHANGED <<server, dir, worker, cleanup, up, mishaps, requests, withdrawn>>

ApproveProbe(i) ==
  /\ RpcFree /\ Requested(i) /\ Latest(i) = "probe" /\ row[i].status = "awaiting_probe_approval"
  /\ DecidedAs(i, "approved") /\ row' = [row EXCEPT ![i].status = "probing"]
  /\ requests' = [requests EXCEPT ![i] = @ + 1]
  /\ UNCHANGED <<server, dir, worker, cleanup, up, mishaps, withdrawn>>

\* activate: without a frozen entrypoint there is nothing to register.
Activate(i) ==
  /\ RpcFree /\ Requested(i) /\ Latest(i) = "activate"
  /\ row[i].status = "awaiting_activation" /\ row[i].frozen
  /\ DecidedAs(i, "approved") /\ row' = [row EXCEPT ![i].status = "active"]
  /\ server' = [server EXCEPT ![i] = "active"]
  /\ UNCHANGED <<dir, worker, cleanup, up, mishaps, requests, withdrawn>>

\* The status of the import is not asked for.
Reject(i) ==
  /\ RpcFree /\ Requested(i)
  /\ DecidedAs(i, "rejected")
  /\ row' = [row EXCEPT ![i].status = "failed"]
  /\ withdrawn' = [withdrawn EXCEPT ![i] = TRUE] /\ cleanup' = {i}
  /\ UNCHANGED <<server, dir, worker, up, mishaps, requests>>

\* approval.decide takes these approvals too, and leaves the import as it is;
\* expire_stale ends them after seven days.
DecideElsewhere(i) ==
  /\ RpcFree /\ Requested(i)
  /\ \E d \in {"approved", "rejected", "changes_requested", "expired"} :
       /\ DecidedAs(i, d)
       /\ withdrawn' = [withdrawn EXCEPT ![i] = @ \/ d = "rejected"]
  /\ UNCHANGED <<row, server, dir, worker, cleanup, up, mishaps, requests>>

\* Refused while the process that claimed the row runs (lease_alive).
ImportResume(i) ==
  /\ RpcFree /\ row[i].status = "unknown" /\ row[i].owner # "this process"
  /\ requests[i] < MaxRequests
  /\ row' = [row EXCEPT ![i].status = "probing", ![i].owner = "none", ![i].lease = "none"]
  /\ requests' = [requests EXCEPT ![i] = @ + 1]
  /\ UNCHANGED <<approval, server, dir, worker, cleanup, up, mishaps, withdrawn>>

Unregister(i) == server' = [server EXCEPT ![i] = IF @ = "none" THEN @ ELSE "revoked"]

ImportRevoke(i) ==
  /\ RpcFree /\ row[i].status \notin {"absent", "revoked"}
  /\ row' = [row EXCEPT ![i].status = "revoked"]
  /\ Unregister(i)
  /\ withdrawn' = [withdrawn EXCEPT ![i] = TRUE] /\ cleanup' = {i}
  /\ UNCHANGED <<approval, dir, worker, up, mishaps, requests>>

\* mcp.serverRemove: the import stays as it is.
ServerRevoke(i) ==
  /\ RpcFree /\ server[i] = "active" /\ Unregister(i)
  /\ UNCHANGED <<row, approval, dir, worker, cleanup, up, mishaps, requests, withdrawn>>

\* cleanup_import_dir, after the commit of Reject or ImportRevoke.
Cleanup ==
  /\ up /\ cleanup # {}
  /\ dir' = [i \in Imports |-> IF i \in cleanup THEN "absent" ELSE dir[i]] /\ cleanup' = {}
  /\ UNCHANGED <<row, approval, server, worker, up, mishaps, requests, withdrawn>>
-----------------------------------------------------------------------------
(* The worker thread: tick_probing and run_probing.                           *)

I == worker.at
At(pc) == up /\ worker.pc = pc
Goto(pc) == worker' = [worker EXCEPT !.pc = pc]
OthersKept == UNCHANGED <<approval, server, dir, cleanup, up, requests, withdrawn>>
\* A write of the worker succeeds, or fails and changes nothing.
Write(effect, next, failed) ==
  \/ effect /\ Goto(next) /\ UNCHANGED mishaps
  \/ /\ mishaps < MaxMishaps /\ mishaps' = mishaps + 1
     /\ Goto(failed) /\ UNCHANGED row

\* Mutant: only the claim of a process that is gone is given up.
LapsedOfDead(r) == r.status = "probing" /\ r.owner = "dead process" /\ r.lease = "over"

Lapsed(r) == r.status = "probing" /\ r.owner # "none" /\ r.lease = "over"

\* Mutant: the row is put back instead of waiting for a person.
GivenUpRetried(r) == [r EXCEPT !.owner = "none", !.lease = "none"]

GivenUp(r) == [r EXCEPT !.status = "unknown"]

ReconcileExpiredLeases ==
  row' = [i \in Imports |-> IF Lapsed(row[i]) THEN GivenUp(row[i]) ELSE row[i]]

Tick == At("idle") /\ Write(ReconcileExpiredLeases, "list", "idle") /\ OthersKept

Claimable(r) == r.status = "probing" /\ r.owner = "none"

List ==
  /\ At("list")
  /\ worker' = [worker EXCEPT !.pc = "claim", !.todo = {i \in Imports : Claimable(row[i])}]
  /\ OthersKept /\ UNCHANGED <<row, mishaps>>

\* The next candidate: claimed, or missed because it changed since the list was
\* read, or the write fails and ends the tick.
Claim ==
  /\ At("claim") /\ OthersKept
  /\ \/ worker.todo = {} /\ worker' = Asleep /\ UNCHANGED <<row, mishaps>>
     \/ \E i \in worker.todo :
          /\ worker' = [pc |-> IF Claimable(row[i]) THEN "clone" ELSE "claim",
                        at |-> i, todo |-> worker.todo \ {i}]
          /\ row' = IF Claimable(row[i])
                    THEN [row EXCEPT ![i].owner = "this process", ![i].lease = "running",
                                     ![i].attempt = @ + 1]
                    ELSE row
          /\ UNCHANGED mishaps
     \/ /\ worker.todo # {} /\ mishaps < MaxMishaps /\ mishaps' = mishaps + 1
        /\ worker' = Asleep /\ UNCHANGED row

\* git init and git remote add, unless the cursor says cloned.  Both may fail; a
\* second remote add always does.
Clone ==
  /\ At("clone")
  /\ \/ row[I].cloned /\ Goto("probe") /\ UNCHANGED dir
     \/ /\ ~row[I].cloned /\ dir[I] = "absent"
        /\ dir' = [dir EXCEPT ![I] = "remote"] /\ Goto("fetch")
     \/ ~row[I].cloned /\ Goto("failed") /\ UNCHANGED dir
  /\ UNCHANGED <<row, approval, server, cleanup, up, mishaps, requests, withdrawn>>

\* Fetch, checkout and the checks of what was checked out.
Fetch ==
  /\ At("fetch")
  /\ \/ dir[I] = "remote" /\ dir' = [dir EXCEPT ![I] = "checkout"] /\ Goto("cursor")
     \/ /\ dir' \in {dir, [dir EXCEPT ![I] = IF @ = "remote" THEN "checkout" ELSE @]}
        /\ Goto("failed")
  /\ UNCHANGED <<row, approval, server, cleanup, up, mishaps, requests, withdrawn>>

\* set_cursor, whatever has become of the import; the lease starts again.
SetCursor ==
  /\ At("cursor") /\ OthersKept
  /\ Write(row' = [row EXCEPT ![I].cloned = TRUE, ![I].lease = "running"], "probe", "failed")

\* Manifest, freeze, and the sandboxed probe of the server.
Probe ==
  /\ At("probe")
  /\ (dir[I] = "checkout" /\ Goto("finish")) \/ Goto("failed")
  /\ UNCHANGED <<row, mishaps>> /\ OthersKept

\* Mutant: the candidate is stored whatever the status.
StillProbingAlways(i) == row[i].status \in Statuses

StillProbing(i) == row[i].status = "probing"

\* The transaction that stores the candidate and asks for the activation.  Only its
\* first UPDATE looks at the status; the unique key holds for what it writes.
Finish ==
  /\ At("finish") /\ UNCHANGED <<server, dir, cleanup, up, requests, withdrawn>>
  /\ \/ /\ ~StillProbing(I) \/ KeyFree(I, "digest")
        /\ row' = [row EXCEPT ![I].status = "awaiting_activation",
                              ![I].frozen = @ \/ StillProbing(I),
                              ![I].manifest = IF StillProbing(I) THEN "digest" ELSE @]
        /\ approval' = [approval EXCEPT !["activate"][I] = "requested"]
        /\ Goto("claim") /\ UNCHANGED mishaps
     \/ /\ StillProbing(I) /\ ~KeyFree(I, "digest")
        /\ Goto("failed") /\ UNCHANGED <<row, approval, mishaps>>
     \/ /\ mishaps < MaxMishaps /\ mishaps' = mishaps + 1
        /\ Goto("failed") /\ UNCHANGED <<row, approval>>

\* mark_failed, whatever has become of the import; its own error is dropped.
MarkFailed ==
  /\ At("failed") /\ OthersKept
  /\ Write(row' = [row EXCEPT ![I].status = "failed"], "claim", "claim")

Work == \/ Tick \/ List \/ Claim \/ Clone \/ Fetch \/ SetCursor \/ Probe \/ Finish \/ MarkFailed
-----------------------------------------------------------------------------
(* Time and the process.                                                      *)

\* Only the lease of a probing row is ever read.
LeaseEnds(i) ==
  /\ row[i].status = "probing" /\ row[i].lease = "running"
  /\ row' = [row EXCEPT ![i].lease = "over"]
  /\ UNCHANGED <<approval, server, dir, worker, cleanup, up, mishaps, requests, withdrawn>>

Crash ==
  /\ up /\ mishaps < MaxMishaps /\ up' = FALSE /\ mishaps' = mishaps + 1
  /\ worker' = Asleep /\ cleanup' = {}
  /\ row' = [i \in Imports |-> IF row[i].owner = "this process"
                              THEN [row[i] EXCEPT !.owner = "dead process"] ELSE row[i]]
  /\ UNCHANGED <<approval, server, dir, requests, withdrawn>>

\* startup_reconcile; every directory has its row, so none is removed.
Startup ==
  /\ ~up /\ up' = TRUE
  /\ \/ ReconcileExpiredLeases /\ UNCHANGED mishaps
     \/ mishaps < MaxMishaps /\ mishaps' = mishaps + 1 /\ UNCHANGED row
  /\ UNCHANGED <<approval, server, dir, worker, cleanup, requests, withdrawn>>

Next ==
  \/ \E i \in Imports :
       \/ ImportAdd(i) \/ ApproveProbe(i) \/ Activate(i) \/ Reject(i) \/ DecideElsewhere(i)
       \/ ImportResume(i) \/ ImportRevoke(i) \/ ServerRevoke(i) \/ LeaseEnds(i)
  \/ Cleanup \/ Work \/ Crash \/ Startup

\* The worker thread loops for ever, a lease ends, a process that died is started.
Fairness == WF_vars(Work) /\ WF_vars(Startup) /\ \A i \in Imports : WF_vars(LeaseEnds(i))

Spec == Init /\ [][Next]_vars /\ Fairness
-----------------------------------------------------------------------------
(* Properties.                                                                *)

\* The types of the variables.
TypeOK ==
  /\ row \in [Imports -> [status : Statuses, manifest : {"none", "pending", "digest"},
                          frozen : BOOLEAN, cloned : BOOLEAN,
                          owner : {"none", "this process", "dead process"},
                          lease : {"none", "running", "over"}, attempt : 0 .. MaxRequests]]
  /\ approval \in [Kinds -> [Imports ->
       {"none", "requested", "approved", "rejected", "changes_requested", "expired"}]]
  /\ server \in [Imports -> {"none", "active", "revoked"}]
  /\ dir \in [Imports -> {"absent", "remote", "checkout"}]
  /\ worker \in [pc : {"idle", "list", "claim", "clone", "fetch", "cursor", "probe", "finish", "failed"},
                 at : Imports, todo : SUBSET Imports]
  /\ cleanup \subseteq Imports
  /\ up \in BOOLEAN /\ mishaps \in 0 .. MaxMishaps
  /\ requests \in [Imports -> 0 .. MaxRequests] /\ withdrawn \in [Imports -> BOOLEAN]

\* A server that serves was approved twice, its import is active (verify_freeze checks
\* the checkout of an active import only), and nobody rejected or revoked it, not even
\* while the worker was at it, whose last writes ignore what became of the import.
WithdrawnNeverServes ==
  \A i \in Imports : server[i] = "active" =>
    /\ row[i].status = "active" /\ ~withdrawn[i]
    /\ \A k \in Kinds : approval[k][i] = "approved"

\* The code of a repository is probed once for each time a person asked for it: not
\* twice at the same time, and not again by itself after a crash or a lost lease.
ProbesOnRequest == \A i \in Imports : row[i].attempt <= requests[i]

\* A probe ends or is reported as unknown, whatever write of the worker is lost and
\* wherever the process dies.
ProbingEnds == \A i \in Imports : row[i].status = "probing" ~> row[i].status # "probing"
-----------------------------------------------------------------------------
(* Statements of the source that the code does not keep; no run checks them.    *)

\* "clone (idempotent ...)", run_probing: a resumed import clones anew.  git remote add
\* fails in the directory that the interrupted clone left behind.
CloneStartsClean == At("clone") /\ ~row[I].cloned => dir[I] = "absent"

\* revoked is an end state of the header's list.  The last writes of the worker and a
\* rejection bring a revoked import back to failed or awaiting_activation.
RevokedStays == [][\A i \in Imports : row[i].status = "revoked" => row'[i].status = "revoked"]_vars
=============================================================================
