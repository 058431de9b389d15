--------------------------- MODULE MCQueueManager ---------------------------
(* Small instances of QueueManager for TLC.                                *)
EXTENDS QueueManager, TLC

CONSTANTS m1, m2, m3, s1, s2

\* m1 and m2 keep their own series; relabelling drops m3.
MCRelabel == (m1 :> s1) @@ (m2 :> s2) @@ (m3 :> NoSeries)

\* Alone in a shard of two, together in a shard of one.
MCHash == (s1 :> 2) @@ (s2 :> 3)

\* In tenths of a shard: -15 and -5 ask for -1 and 0 shards, 5 for 1, and 14
\* and 25 for 2, the latter through the cap.
MCDesired == {-15, -5, 5, 14, 25}

\* Appenders are interchangeable.
MCSymmetry == Permutations(Appenders)
=============================================================================
