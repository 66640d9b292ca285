---------------------------- MODULE ToolContract ----------------------------
(***************************************************************************)
(* What an Agent Run promises about the tool proposals it makes, whatever   *)
(* its checkpoints, tokens and restarts are: a proposal is executed at most *)
(* once, while it is open, and with its approval when it needs one; once    *)
(* decided it stays as it is.                                               *)
(***************************************************************************)
EXTENDS Naturals

CONSTANT Proposals

VARIABLES
  decision,   \* of each proposal
  gated,      \* proposals that need an approval
  approval,   \* the state of each approval
  executions  \* how often each proposal was handed to the executor

contract == <<decision, gated, approval, executions>>

Init ==
  /\ decision   = [p \in Proposals |-> "none"]
  /\ gated      = {}
  /\ approval   = [p \in Proposals |-> "none"]
  /\ executions = [p \in Proposals |-> 0]

Propose(p) ==
  /\ decision[p] = "none"
  /\ decision' = [decision EXCEPT ![p] = "proposed"]
  /\ gated' \in {gated, gated \cup {p}}
  /\ UNCHANGED <<approval, executions>>

\* Asking and answering; a check of one request may expire others with it.
AskOrAnswer ==
  /\ approval' \in [Proposals -> {"none", "requested", "approved", "rejected", "expired"}]
  /\ \A p \in Proposals : approval'[p] # approval[p] =>
       \/ approval[p] = "none" /\ approval'[p] = "requested"
       \/ approval[p] = "requested" /\ approval'[p] \in {"approved", "rejected", "expired"}
  /\ UNCHANGED <<decision, gated>>

Execute(p) ==
  /\ decision[p] = "proposed" /\ executions[p] = 0
  /\ p \in gated => approval[p] = "approved"
  /\ executions' = [executions EXCEPT ![p] = 1]

\* The two may be one step: an executor is called after a check that expires.
Consult == AskOrAnswer /\ (UNCHANGED executions \/ \E p \in Proposals : Execute(p))

Settle(p, d) ==
  /\ decision[p] = "proposed"
  /\ \/ d \in {"executed", "exec_failed", "unknown"} /\ executions[p] = 1
     \/ d \in {"rejected", "unknown"} /\ executions[p] = 0
  /\ decision' = [decision EXCEPT ![p] = d]
  /\ UNCHANGED <<gated, approval, executions>>

Next ==
  \/ Consult
  \/ \E p \in Proposals :
       Propose(p) \/ \E d \in {"executed", "exec_failed", "unknown", "rejected"} : Settle(p, d)

Spec == Init /\ [][Next]_contract
=============================================================================
