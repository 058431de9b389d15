---------------------------- MODULE MCRemoteRead ----------------------------
(* Small instances of RemoteRead for TLC.                                  *)
EXTENDS RemoteRead

CONSTANTS r1, r2

\* One endpoint at first; a reload adds another.
MCGrowing == [g \in Gens |-> IF g = 0 THEN {r1} ELSE {r1, r2}]

\* Two endpoints.
MCBoth == [g \in Gens |-> {r1, r2}]

\* One endpoint.
MCSingle == [g \in Gens |-> {r1}]
=============================================================================
