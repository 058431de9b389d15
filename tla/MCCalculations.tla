--------------------------- MODULE MCCalculations ---------------------------
(***************************************************************************)
(* What the program calculates, in one run: the pure algorithms for all    *)
(* the small inputs of MCOperators, one state for each, and the number of  *)
(* shards (ShardCalculator), which takes turns with enqueue and            *)
(* sendSamples.                                                            *)
(***************************************************************************)
EXTENDS MCOperators, ShardCalculator

MCInit ==
  /\ Init
  /\ OperatorsInit \/ (kind = "shards" /\ input = <<>>)

MCNext ==
  \/ kind = "shards" /\ Next /\ UNCHANGED <<kind, input>>
  \/ kind # "shards" /\ OperatorsNext /\ UNCHANGED vars

MCSpec == MCInit /\ [][MCNext]_<<vars, kind, input>>
=============================================================================
