---------------------------- MODULE MCGrantLedger ----------------------------
(* Small instances of GrantLedger for TLC. *)
EXTENDS GrantLedger, TLC

\* Two model calls, one tool call; tokens for one reservation and a settled call.
SmallLimit == [d \in Dims |->
  CASE d = "model_calls" -> 2 [] d = "tokens" -> 3 [] d = "tool_calls" -> 1]

RunSymmetry == Permutations(Runs)
=============================================================================
