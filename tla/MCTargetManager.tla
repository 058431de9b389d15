--------------------------- MODULE MCTargetManager --------------------------
(* A small instance of TargetManager for TLC.                              *)
EXTENDS TargetManager, TLC

CONSTANTS j1, v1, v2, g1, g2, g3, x, y

\* The job, the job changed, and no job.
MCConfigs == {(j1 :> v1), (j1 :> v2), (j1 :> None)}

\* The change takes the provider of g2 away and changes what that of g1 has ...
MCGroupsOf == (v1 :> {g1, g2}) @@ (v2 :> {g3})

\* ... so that g3 has the key of g1 ...
MCSource == (g1 :> "static/0") @@ (g3 :> "static/0") @@ (g2 :> "dns/0/a")

\* ... and relabels g2; g1 has a bad target under v2.
MCFromGroup == (<<g1, v1>> :> {x}) @@ (<<g2, v1>> :> {x, y})
               @@ (<<g3, v1>> :> {y}) @@ (<<g1, v2>> :> {})
               @@ (<<g2, v2>> :> {y}) @@ (<<g3, v2>> :> {x})
=============================================================================
