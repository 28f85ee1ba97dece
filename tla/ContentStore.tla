---------------------------- MODULE ContentStore ----------------------------
(***************************************************************************)
(* What the content store promises the ingestion pipeline (spec sections  *)
(* 2 and 4.2, "Batch atomicity"): content units appear in batches; a unit *)
(* appears once, together with one ContentArtifact for each of its        *)
(* artifacts and, for each of these, exactly one RemoteArtifact whose     *)
(* provenance comes from a declaration of that very unit; nothing that    *)
(* appeared ever disappears.                                               *)
(***************************************************************************)
CONSTANTS
    Keys,           \* natural keys of content units
    ArtifactPaths,  \* ArtifactPaths[k]: relative paths of the artifacts of unit k
    Sources,        \* declarations a RemoteArtifact's provenance can come from
    SourceKey       \* SourceKey[s]: the natural key of the unit declaration s is about

VARIABLES
    units,      \* natural keys of the stored Content rows
    artifacts,  \* stored ContentArtifact rows [key, path]
    remotes     \* stored RemoteArtifact rows [key, path, src]

absvars == <<units, artifacts, remotes>>

\* The ContentArtifacts of the units N.
Slots(N) == UNION {{[key |-> k, path |-> p] : p \in ArtifactPaths[k]} : k \in N}

Init ==
    /\ units = {}
    /\ artifacts = {}
    /\ remotes = {}

\* The units N, none stored yet, appear with all their ContentArtifacts and
\* one RemoteArtifact each, from the source src[s] of ContentArtifact s.
AddBatch(N, src) ==
    /\ N \cap units = {}
    /\ \A s \in Slots(N) : SourceKey[src[s]] = s.key
    /\ units' = units \cup N
    /\ artifacts' = artifacts \cup Slots(N)
    /\ remotes' = remotes \cup {[key |-> s.key, path |-> s.path, src |-> src[s]] : s \in Slots(N)}

Next == \E N \in SUBSET Keys : \E src \in [Slots(N) -> Sources] : AddBatch(N, src)

Spec == Init /\ [][Next]_absvars

=============================================================================
