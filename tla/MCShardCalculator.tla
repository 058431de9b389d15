-------------------------- MODULE MCShardCalculator -------------------------
(* Small instances of ShardCalculator for TLC.                             *)
EXTENDS ShardCalculator

\* The behaviours in which no tick falls between the two incr calls of
\* sendSamples.
MCAtomicIncr == pc # "idle" => \A s \in Senders : sender[s] = 0
=============================================================================
