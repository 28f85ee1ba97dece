--------------------------- MODULE MCRepairEngine ---------------------------
EXTENDS RepairEngine, TLC

CONSTANTS u1, u2, u3, a1, a2, a3, a4

\* Five ContentArtifacts: four of the version's content, one outside it.
\* 2 and 5 share Artifact a2, as two content units with the same file do.
MCContents == {u1, u2, u3}
MCArtifacts == {a1, a2, a3, a4}
MCContentOf == (1 :> u1) @@ (2 :> u1) @@ (3 :> u2) @@ (4 :> u3) @@ (5 :> u2)
MCArtOf == (1 :> a1) @@ (2 :> a2) @@ (3 :> a3) @@ (4 :> a4) @@ (5 :> a2)
\* The first remote of 1 serves corrupt bytes and the second good ones
\* (spec 8); 2 has no remote; 3, 4 and 5 have one good remote.
MCSources == (1 :> <<"corrupt", "good">>) @@ (2 :> <<>>) @@ (3 :> <<"good">>)
             @@ (4 :> <<"good">>) @@ (5 :> <<"good">>)
MCSubset == {u1, u2}
\* Two in flight at once, so that three invalid artifacts reach the cap.
MCMaxPending == 2

\* repair_version of an empty repository version.
EmptySubset == {}

=============================================================================
