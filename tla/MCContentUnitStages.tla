------------------------ MODULE MCContentUnitStages ------------------------
(***************************************************************************)
(* Model-checking instances of ContentUnitStages.                          *)
(***************************************************************************)
EXTENDS ContentUnitStages

CONSTANTS r1, r2, k1, k2, k3, p1, p2

\* Two runs race on k2; inside each run two new units share a relative path
\* (k1 and k2 share p1 in r1, k2 and k3 share p2 in r2).
MCRuns == {r1, r2}
MCKeys == {k1, k2, k3}
MCPaths == {p1, p2}
MCFeed == [r \in MCRuns |-> IF r = r1 THEN <<k1, k2>> ELSE <<k2, k3>>]
MCArtifactPaths == [k \in MCKeys |-> IF k = k1 THEN {p1} ELSE IF k = k2 THEN {p1, p2} ELSE {p2}]

\* One run, one unit: enough to see the resolver's sentinels.
OneRuns == {r1}
OneFeed == [r \in OneRuns |-> <<k1>>]

\* One run, two units with an artifact at the same relative path.
SharedFeed == [r \in OneRuns |-> <<k1, k3>>]
SharedArtifactPaths == [k \in MCKeys |-> {p1}]

\* Two runs declaring the same unit, no path shared inside a run.
RaceFeed == [r \in MCRuns |-> <<k1>>]
=============================================================================
