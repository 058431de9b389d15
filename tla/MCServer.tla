------------------------------ MODULE MCServer ------------------------------
(* A small instance of Server for TLC.                                     *)
EXTENDS Server, TLC

CONSTANTS c1, c2, t1, t2

\* A client of the API, beside one that asks for a reload.  The handlers of
\* targets and alertmanagers do what that of series does.
MCKindsOf == (c1 :> {"options", "query", "query_range", "label_values", "series", "drop_series"})
             @@ (c2 :> {"reload"})

\* Not JSON; a list that is not in order.  Two of it hold duplicates.
MCBodies == {[json |-> FALSE, data |-> <<>>], [json |-> TRUE, data |-> <<2, 1>>]}

\* A bound: the words of an append are interleaved with those of other appends,
\* and not with a reload, the end of the web server or that of Main, which share
\* nothing with them.  Reloads do meet requests that wait for an answer.
MCApart ==
  (\E g \in Conns \X Targets : Appending(g)) =>
     main = "select" /\ web = "serve" /\ reload = "idle" /\ failed = {}
=============================================================================
