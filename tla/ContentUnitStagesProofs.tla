----------------------- MODULE ContentUnitStagesProofs -----------------------
(***************************************************************************)
(* Proofs about the resolver/saver pipeline of ContentUnitStages, for      *)
(* every set of runs, keys, paths and feeds the assumptions allow.         *)
(***************************************************************************)
EXTENDS ContentUnitStages, FiniteSetTheorems, SequenceTheorems,
        WellFoundedInduction, TLAPS

-----------------------------------------------------------------------------
(* Lemmas about the constants and the batch helpers.                       *)

\* Every DeclarativeContent names a natural key of Keys.
LEMMA KeyType ==
    ASSUME NEW d \in DCs
    PROVE  Key(d) \in Keys /\ d[1] \in Runs /\ d[2] \in 1..Len(Feed[d[1]])
  <1>1. PICK r \in Runs : d \in {<<r, i>> : i \in 1..Len(Feed[r])}
    BY DEF DCs
  <1>2. PICK i \in 1..Len(Feed[r]) : d = <<r, i>>
    BY <1>1
  <1>3. Feed[r] \in Seq(Keys)
    BY FeedAssumption
  <1>. QED
    BY <1>2, <1>3 DEF Key

\* A position drained from a run's queue names a DeclarativeContent of that run.
LEMMA ItemIsDC ==
    ASSUME NEW r \in Runs, NEW b \in Seq(0..Len(Feed[r])), NEW i \in Items(b)
    PROVE  <<r, i>> \in DCs /\ i \in 1..Len(Feed[r])
  <1>1. i \in 1..Len(Feed[r])
    BY DEF Items, None
  <1>. QED
    BY <1>1 DEF DCs

\* The number of occurrences of a value in a sequence is a natural number.
LEMMA OccurrencesType ==
    ASSUME NEW S, NEW b \in Seq(S), NEW x
    PROVE  Occurrences(b, x) \in Nat
  <1>1. IsFiniteSet(1..Len(b))
    BY FS_Interval
  <1>2. {j \in DOMAIN b : b[j] = x} \subseteq 1..Len(b)
    OBVIOUS
  <1>. QED
    BY <1>1, <1>2, FS_Subset, FS_CardinalityType DEF Occurrences

\* A nonempty set of naturals bounded by n has a largest element.
LEMMA BoundedMaxExists ==
    ASSUME NEW S \in SUBSET Nat, S # {}, NEW n \in Nat, \A s \in S : s <= n
    PROVE  \E j \in S : \A m \in S : m <= j
  <1>. DEFINE T == {n - s : s \in S}
  <1>1. ASSUME NEW s \in S PROVE n - s \in Nat
    OBVIOUS
  <1>2. T \subseteq Nat
    BY <1>1, Zenon
  <1>3. T # {}
    BY Zenon
  <1>4. IsWellFoundedOn(OpToRel(<, Nat), Nat)
    BY NatLessThanWellFounded, Zenon
  <1>5. PICK x \in T : \A y \in T : ~(<<y, x>> \in OpToRel(<, Nat))
    BY <1>2, <1>3, <1>4, WFMin, Zenon
  <1>6. PICK j \in S : x = n - j
    OBVIOUS
  <1>7. ASSUME NEW m \in S PROVE m <= j
    <2>1. n - m \in T /\ n - m \in Nat /\ x \in Nat
      BY <1>1, <1>6
    <2>2. ~(<<n - m, x>> \in OpToRel(<, Nat))
      BY <1>5, <2>1, Zenon
    <2>3. ~(n - m < x)
      BY <2>1, <2>2 DEF OpToRel
    <2>. QED
      BY <2>3, <1>6
  <1>. QED
    BY <1>7

-----------------------------------------------------------------------------
(* Type correctness.                                                       *)

\* Replacing one run's queue by a sequence of its positions keeps QueueOK.
LEMMA QueueOKUpdate ==
    ASSUME NEW q, QueueOK(q), NEW r \in Runs, NEW x \in Seq(0..Len(Feed[r]))
    PROVE  QueueOK([q EXCEPT ![r] = x])
  <1>1. Len(Feed[r]) \in Nat
    BY FeedAssumption
  <1>2. x \in Seq(Nat)
    BY <1>1, SeqMonotonic
  <1>. QED
    BY <1>2 DEF QueueOK

\* The saver's join of a ContentArtifact to remote_artifact_map yields a new
\* DeclarativeContent of the batch that has an artifact at that path: the
\* last new item with that path exists.
LEMMA RemoteArtifactMapType ==
    ASSUME NEW r \in Runs, NEW b \in Seq(0..Len(Feed[r])),
           NEW ca \in ContentArtifactBulk(r, b)
    PROVE  /\ RemoteArtifactMap(r, b)[ca.path] \in Adding(r, b)
           /\ ca.path \in ArtifactPaths[Key(<<r, RemoteArtifactMap(r, b)[ca.path]>>)]
  <1>. DEFINE Has(j) == b[j] \in Adding(r, b) /\ ca.path \in ArtifactPaths[Key(<<r, b[j]>>)]
  <1>. DEFINE J == {j \in DOMAIN b : Has(j)}
  <1>1. PICK i \in Adding(r, b) :
             ca \in {[key |-> Key(<<r, i>>), path |-> p] : p \in ArtifactPaths[Key(<<r, i>>)]}
    BY Zenon DEF ContentArtifactBulk
  <1>2. ca.path \in ArtifactPaths[Key(<<r, i>>)]
    BY <1>1
  <1>3. ca.path \in UNION {ArtifactPaths[Key(<<r, k>>)] : k \in Adding(r, b)}
    BY <1>2, Zenon
  <1>4. PICK j0 \in DOMAIN b : b[j0] = i
    BY Zenon DEF Adding, Items
  <1>5. j0 \in J
    BY <1>2, <1>4, Zenon
  <1>6. J \subseteq Nat /\ \A j \in J : j <= Len(b)
    OBVIOUS
  <1>7. Len(b) \in Nat /\ J # {}
    BY <1>5, LenProperties, Zenon
  <1>8. PICK j \in J : \A m \in J : m <= j
    BY <1>6, <1>7, BoundedMaxExists
  <1>9. \E jj \in DOMAIN b : Has(jj) /\ \A m \in DOMAIN b : Has(m) => m <= jj
    BY <1>8
  <1>10. RemoteArtifactMap(r, b)[ca.path]
          = b[CHOOSE jj \in DOMAIN b : Has(jj) /\ \A m \in DOMAIN b : Has(m) => m <= jj]
    BY <1>3, Zenon DEF RemoteArtifactMap
  <1>. QED
    BY <1>9, <1>10, Zenon

\* Facts about one drained batch of the saver that several steps use.
LEMMA AddingType ==
    ASSUME NEW r \in Runs, NEW b \in Seq(0..Len(Feed[r])), NEW i \in Adding(r, b)
    PROVE  <<r, i>> \in DCs /\ Key(<<r, i>>) \in Keys /\ ArtifactPaths[Key(<<r, i>>)] \subseteq Paths
  <1>1. i \in Items(b)
    BY DEF Adding
  <1>2. <<r, i>> \in DCs
    BY <1>1, ItemIsDC
  <1>3. Key(<<r, i>>) \in Keys
    BY <1>2, KeyType
  <1>. QED
    BY <1>2, <1>3, ArtifactAssumption

LEMMA BulkType ==
    ASSUME NEW r \in Runs, NEW b \in Seq(0..Len(Feed[r]))
    PROVE  ContentArtifactBulk(r, b) \subseteq CAType
  <1>1. ASSUME NEW ca \in ContentArtifactBulk(r, b) PROVE ca \in CAType
    <2>1. PICK i \in Adding(r, b) :
               ca \in {[key |-> Key(<<r, i>>), path |-> p] : p \in ArtifactPaths[Key(<<r, i>>)]}
      BY Zenon DEF ContentArtifactBulk
    <2>. QED
      BY <2>1, AddingType DEF CAType
  <1>. QED
    BY <1>1

\* Every step keeps the types.
LEMMA TypeStep == TypeOK /\ [Next]_vars => TypeOK'
  <1> SUFFICES ASSUME TypeOK, [Next]_vars PROVE TypeOK'
    OBVIOUS
  <1>1. ASSUME NEW r \in Runs, Emit(r) PROVE TypeOK'
    <2>1. Len(Feed[r]) \in Nat
      BY FeedAssumption
    <2>2. (IF sent[r] < Len(Feed[r]) THEN sent[r] + 1 ELSE None) \in 0..Len(Feed[r])
      BY <1>1, <2>1 DEF Emit, TypeOK, None
    <2>3. Append(q1[r], IF sent[r] < Len(Feed[r]) THEN sent[r] + 1 ELSE None) \in Seq(0..Len(Feed[r]))
      BY <2>2 DEF TypeOK, QueueOK
    <2>4. QueueOK(q1')
      BY <1>1, <2>3, QueueOKUpdate DEF Emit, TypeOK
    <2>. QED
      BY <1>1, <2>4 DEF Emit, TypeOK
  <1>2. ASSUME NEW r \in Runs, QueryExistingContentUnits(r) PROVE TypeOK'
    <2>. DEFINE b == q1[r]
    <2>1. b \in Seq(0..Len(Feed[r]))
      BY DEF TypeOK, QueueOK
    <2>2. ResolverOutput(b) \in Seq(0..Len(Feed[r]))
      <3>1. <<None>> \in Seq(0..Len(Feed[r])) /\ <<>> \in Seq(0..Len(Feed[r]))
        BY FeedAssumption DEF None
      <3>2. CASE HasShutdown(b)
        BY <2>1, <3>1, <3>2 DEF ResolverOutput
      <3>3. CASE ~HasShutdown(b)
        BY <2>1, <3>1, <3>3 DEF ResolverOutput
      <3>. QED
        BY <3>2, <3>3
    <2>3. ASSUME NEW d \in DCs PROVE ResolvedRef(r, b, d) \in Keys \cup {Unsaved}
      <3>1. ExistingResults(r, b) \subseteq Keys
        BY DEF ExistingResults, TypeOK
      <3>2. ref[d] \in Keys \cup {Unsaved}
        BY DEF TypeOK
      <3>. QED
        BY <3>1, <3>2 DEF ResolvedRef
    <2>4. Occurrences(ResolverOutput(b), None) \in Nat
      BY <2>2, OccurrencesType
    <2>5. /\ ref' = [d \in DCs |-> ResolvedRef(r, b, d)]
          /\ q1' = [q1 EXCEPT ![r] = <<>>]
          /\ q2' = [q2 EXCEPT ![r] = q2[r] \o ResolverOutput(b)]
          /\ rNones' = [rNones EXCEPT ![r] = rNones[r] + Occurrences(ResolverOutput(b), None)]
          /\ resolverUp' = [resolverUp EXCEPT ![r] = ~HasShutdown(b)]
          /\ UNCHANGED <<sent, saver, fwd, stored, cas, ras>>
      BY <1>2, Zenon DEF QueryExistingContentUnits
    <2>6. QueueOK(q1')
      <3>1. <<>> \in Seq(0..Len(Feed[r]))
        BY EmptySeq
      <3>. QED
        BY <2>5, <3>1, QueueOKUpdate DEF TypeOK
    <2>7. QueueOK(q2')
      <3>1. q2[r] \o ResolverOutput(b) \in Seq(0..Len(Feed[r]))
        BY <2>2 DEF TypeOK, QueueOK
      <3>. QED
        BY <2>5, <3>1, QueueOKUpdate DEF TypeOK
    <2>8. ref' \in [DCs -> Keys \cup {Unsaved}]
      BY <2>3, <2>5
    <2>9. rNones' \in [Runs -> Nat] /\ resolverUp' \in [Runs -> BOOLEAN]
      BY <2>4, <2>5 DEF TypeOK
    <2>. QED
      BY <2>5, <2>6, <2>7, <2>8, <2>9 DEF TypeOK
  <1>3. ASSUME NEW r \in Runs, ContentUnitSaver(r) PROVE TypeOK'
    <2>. DEFINE b == q2[r]
    <2>1. b \in Seq(0..Len(Feed[r]))
      BY DEF TypeOK, QueueOK
    <2>2. /\ DrainSaverQueue(r)
          /\ SaverCommits(r, b) \/ SaverRaises(r, b)
          /\ UNCHANGED <<sent, q1, resolverUp, rNones>>
      BY <1>3, Zenon DEF ContentUnitSaver
    <2>3. QueueOK(q2')
      <3>1. <<>> \in Seq(0..Len(Feed[r]))
        BY EmptySeq
      <3>. QED
        BY <2>2, <3>1, QueueOKUpdate DEF DrainSaverQueue, TypeOK
    <2>4. UNCHANGED <<sent, q1, resolverUp, rNones>>
      BY <2>2
    <2>5. CASE SaverCommits(r, b)
      <3>1. /\ stored' = stored \cup {Key(<<r, i>>) : i \in Adding(r, b)}
            /\ cas' = cas \cup ContentArtifactBulk(r, b)
            /\ ras' = ras \cup {[key |-> ca.key, path |-> ca.path,
                                 src |-> <<r, RemoteArtifactMap(r, b)[ca.path]>>]
                                : ca \in ContentArtifactBulk(r, b)}
            /\ ref' = [d \in DCs |-> IF d[1] = r /\ d[2] \in Adding(r, b) THEN Key(d) ELSE ref[d]]
            /\ ForwardBatch(r, b)
            /\ saver' = [saver EXCEPT ![r] = IF HasShutdown(b) THEN "done" ELSE "running"]
        BY <2>5, Zenon DEF SaverCommits, Commit
      <3>2. stored' \subseteq Keys
        BY <2>1, <3>1, AddingType DEF TypeOK
      <3>3. cas' \subseteq CAType
        BY <2>1, <3>1, BulkType DEF TypeOK
      <3>4. ras' \subseteq [key : Keys, path : Paths, src : DCs]
        <4>1. ASSUME NEW ca \in ContentArtifactBulk(r, b)
              PROVE  [key |-> ca.key, path |-> ca.path,
                      src |-> <<r, RemoteArtifactMap(r, b)[ca.path]>>]
                     \in [key : Keys, path : Paths, src : DCs]
          <5>1. ca \in CAType
            BY <2>1, BulkType
          <5>2. <<r, RemoteArtifactMap(r, b)[ca.path]>> \in DCs
            BY <2>1, RemoteArtifactMapType, AddingType
          <5>. QED
            BY <5>1, <5>2 DEF CAType
        <4>. QED
          BY <3>1, <4>1 DEF TypeOK
      <3>5. ref' \in [DCs -> Keys \cup {Unsaved}]
        BY <3>1, KeyType DEF TypeOK
      <3>6. fwd' \in [DCs -> Nat]
        <4>1. ASSUME NEW d \in DCs PROVE fwd[d] + Occurrences(b, d[2]) \in Nat
          BY <2>1, OccurrencesType DEF TypeOK
        <4>. QED
          BY <3>1, <4>1 DEF ForwardBatch, TypeOK
      <3>7. saver' \in [Runs -> {"running", "done", "failed"}]
        BY <3>1 DEF TypeOK
      <3>. QED
        BY <2>3, <2>4, <3>2, <3>3, <3>4, <3>5, <3>6, <3>7 DEF TypeOK
    <2>6. CASE SaverRaises(r, b)
      <3>1. UNCHANGED <<stored, cas, ras, ref, fwd>> /\ saver' = [saver EXCEPT ![r] = "failed"]
        BY <2>6, Zenon DEF SaverRaises, Rollback
      <3>. QED
        BY <2>3, <2>4, <3>1 DEF TypeOK
    <2>. QED
      BY <2>2, <2>5, <2>6
  <1>4. CASE Idle
    BY <1>4 DEF Idle, vars, TypeOK
  <1>5. CASE UNCHANGED vars
    BY <1>5 DEF vars, TypeOK
  <1>. QED
    BY <1>1, <1>2, <1>3, <1>4, <1>5 DEF Next

\* Every variable of the pipeline keeps its type, for every set of runs, feeds and artifact layouts.
THEOREM TypeCorrect == Spec => []TypeOK
  <1>1. Init => TypeOK
    BY DEF Init, TypeOK, QueueOK
  <1>. QED
    BY <1>1, TypeStep, PTL DEF Spec

-----------------------------------------------------------------------------
(* Batch atomicity and provenance.                                         *)

\* StoreLinked and ProvenanceSound are inductive together with TypeOK: only
\* a committed transaction changes the store, and it adds the Content rows,
\* their ContentArtifacts and their RemoteArtifacts in one step.
LinkedInv == TypeOK /\ StoreLinked /\ ProvenanceSound

\* Within a batch that does not raise KeyError, at most one new item has an
\* artifact at a given relative path.
LEMMA UniqueAdderOfPath ==
    ASSUME NEW r \in Runs, NEW b \in Seq(0..Len(Feed[r])), ~PopFails(r, b),
           NEW x \in Adding(r, b), NEW y \in Adding(r, b),
           NEW p \in ArtifactPaths[Key(<<r, x>>)], p \in ArtifactPaths[Key(<<r, y>>)]
    PROVE  x = y
  <1>. DEFINE S == {i \in Adding(r, b) : p \in ArtifactPaths[Key(<<r, i>>)]}
  <1>1. p \in Paths
    BY AddingType
  <1>2. IsFiniteSet(S) /\ Cardinality(S) \in Nat
    <2>1. Len(Feed[r]) \in Nat
      BY FeedAssumption
    <2>2. S \subseteq 0..Len(Feed[r])
      BY DEF Adding, Items
    <2>3. IsFiniteSet(0..Len(Feed[r]))
      BY <2>1, FS_Interval
    <2>4. IsFiniteSet(S)
      BY <2>2, <2>3, FS_Subset, Zenon
    <2>. QED
      BY <2>4, FS_CardinalityType
  <1>3. Cardinality(S) <= 1
    <2>1. ~(Cardinality(S) > 1)
      BY <1>1, Zenon DEF PopFails
    <2>. QED
      BY <1>2, <2>1
  <1>4. SUFFICES ASSUME x # y PROVE FALSE
    OBVIOUS
  <1>5. IsFiniteSet({x}) /\ Cardinality({x}) = 1
    BY FS_Singleton, Zenon
  <1>6. Cardinality({x} \cup {y}) = Cardinality({x}) + 1
    <2>1. y \notin {x}
      BY <1>4
    <2>. QED
      BY <1>5, <2>1, FS_AddElement, Zenon
  <1>7a. {x} \cup {y} \subseteq S
    BY Zenon
  <1>7. Cardinality({x} \cup {y}) <= Cardinality(S)
    BY <1>2, <1>7a, FS_Subset
  <1>. QED
    BY <1>3, <1>5, <1>6, <1>7, <1>2

\* The ContentArtifacts of a batch are those of the artifacts of its new units.
LEMMA BulkMember ==
    ASSUME NEW r \in Runs, NEW b \in Seq(0..Len(Feed[r])),
           NEW ca \in ContentArtifactBulk(r, b)
    PROVE  \E i \in Adding(r, b) : ca.key = Key(<<r, i>>) /\ ca.path \in ArtifactPaths[Key(<<r, i>>)]
  <1>1. PICK i \in Adding(r, b) :
             ca \in {[key |-> Key(<<r, i>>), path |-> p] : p \in ArtifactPaths[Key(<<r, i>>)]}
    BY Zenon DEF ContentArtifactBulk
  <1>2. PICK p \in ArtifactPaths[Key(<<r, i>>)] : ca = [key |-> Key(<<r, i>>), path |-> p]
    BY <1>1
  <1>. QED
    BY <1>2

LEMMA BulkHas ==
    ASSUME NEW r \in Runs, NEW b \in Seq(0..Len(Feed[r])),
           NEW i \in Adding(r, b), NEW p \in ArtifactPaths[Key(<<r, i>>)]
    PROVE  [key |-> Key(<<r, i>>), path |-> p] \in ContentArtifactBulk(r, b)
  <1>. DEFINE Of(j) == {[key |-> Key(<<r, j>>), path |-> q] : q \in ArtifactPaths[Key(<<r, j>>)]}
  <1>1. [key |-> Key(<<r, i>>), path |-> p] \in Of(i)
    BY DEF Of
  <1>2. Of(i) \in {Of(j) : j \in Adding(r, b)}
    BY DEF Of
  <1>. QED
    BY <1>1, <1>2, Zenon DEF ContentArtifactBulk, Of

\* The RemoteArtifact the saver writes for a ContentArtifact of the batch
\* holds the data of the unit that ContentArtifact belongs to.
LEMMA JoinedSource ==
    ASSUME NEW r \in Runs, NEW b \in Seq(0..Len(Feed[r])), ~PopFails(r, b),
           NEW ca \in ContentArtifactBulk(r, b)
    PROVE  /\ Key(<<r, RemoteArtifactMap(r, b)[ca.path]>>) = ca.key
           /\ ca.path \in ArtifactPaths[ca.key]
  <1>2. PICK i \in Adding(r, b) : ca.key = Key(<<r, i>>) /\ ca.path \in ArtifactPaths[Key(<<r, i>>)]
    BY BulkMember
  <1>. DEFINE m == RemoteArtifactMap(r, b)[ca.path]
  <1>3. m \in Adding(r, b) /\ ca.path \in ArtifactPaths[Key(<<r, m>>)]
    BY RemoteArtifactMapType
  <1>4. m = i
    BY <1>2, <1>3, UniqueAdderOfPath
  <1>. QED
    BY <1>2, <1>4

LEMMA InitLinked == Init => LinkedInv
  BY DEF Init, LinkedInv, TypeOK, QueueOK, StoreLinked, ProvenanceSound

\* A committed batch keeps the store linked and the provenance sound.
LEMMA CommitLinked ==
    ASSUME LinkedInv, NEW r \in Runs, NEW b \in Seq(0..Len(Feed[r])),
           ~PopFails(r, b), Commit(r, b)
    PROVE  StoreLinked' /\ ProvenanceSound'
  <1>1. /\ stored' = stored \cup {Key(<<r, i>>) : i \in Adding(r, b)}
        /\ cas' = cas \cup ContentArtifactBulk(r, b)
        /\ ras' = ras \cup {[key |-> ca.key, path |-> ca.path,
                             src |-> <<r, RemoteArtifactMap(r, b)[ca.path]>>]
                            : ca \in ContentArtifactBulk(r, b)}
    BY Zenon DEF Commit
  <1>2. ASSUME NEW ca \in cas' PROVE ca.key \in stored' /\ ca.path \in ArtifactPaths[ca.key]
    <2>1. CASE ca \in cas
      BY <1>1, <2>1 DEF LinkedInv, StoreLinked
    <2>2. CASE ca \in ContentArtifactBulk(r, b)
      <3>1. PICK i \in Adding(r, b) : ca.key = Key(<<r, i>>) /\ ca.path \in ArtifactPaths[Key(<<r, i>>)]
        BY <2>2, BulkMember
      <3>. QED
        BY <1>1, <3>1
    <2>. QED
      BY <1>1, <2>1, <2>2
  <1>3. ASSUME NEW k \in stored', NEW p \in ArtifactPaths[k] PROVE [key |-> k, path |-> p] \in cas'
    <2>1. CASE k \in stored
      BY <1>1, <2>1 DEF LinkedInv, StoreLinked
    <2>2. CASE k \notin stored
      <3>1. PICK i \in Adding(r, b) : k = Key(<<r, i>>)
        BY <1>1, <2>2
      <3>. QED
        BY <1>1, <3>1, BulkHas
    <2>. QED
      BY <2>1, <2>2
  <1>4. ASSUME NEW ca \in cas' PROVE \E ra \in ras' : ra.key = ca.key /\ ra.path = ca.path
    <2>1. CASE ca \in cas
      BY <1>1, <2>1 DEF LinkedInv, StoreLinked
    <2>2. CASE ca \in ContentArtifactBulk(r, b)
      <3>1. [key |-> ca.key, path |-> ca.path,
             src |-> <<r, RemoteArtifactMap(r, b)[ca.path]>>] \in ras'
        BY <1>1, <2>2
      <3>. QED
        BY <3>1
    <2>. QED
      BY <1>1, <2>1, <2>2
  <1>5. ASSUME NEW ra \in ras'
        PROVE  /\ [key |-> ra.key, path |-> ra.path] \in cas'
               /\ Key(ra.src) = ra.key /\ ra.path \in ArtifactPaths[Key(ra.src)]
    <2>1. CASE ra \in ras
      BY <1>1, <2>1 DEF LinkedInv, StoreLinked, ProvenanceSound
    <2>2. CASE ra \notin ras
      <3>1. PICK ca \in ContentArtifactBulk(r, b) :
                 ra = [key |-> ca.key, path |-> ca.path,
                       src |-> <<r, RemoteArtifactMap(r, b)[ca.path]>>]
        BY <1>1, <2>2
      <3>2. [key |-> ca.key, path |-> ca.path] = ca
        BY BulkType DEF CAType
      <3>3. Key(<<r, RemoteArtifactMap(r, b)[ca.path]>>) = ca.key /\ ca.path \in ArtifactPaths[ca.key]
        BY JoinedSource
      <3>. QED
        BY <1>1, <3>1, <3>2, <3>3
    <2>. QED
      BY <2>1, <2>2
  <1>6. ProvenanceSound'
    BY <1>5 DEF ProvenanceSound
  <1>. QED
    BY <1>2, <1>3, <1>4, <1>5, <1>6 DEF StoreLinked

LEMMA NextLinked == LinkedInv /\ [Next]_vars => LinkedInv'
  <1> SUFFICES ASSUME LinkedInv, [Next]_vars PROVE LinkedInv'
    OBVIOUS
  <1>1. TypeOK'
    BY TypeStep DEF LinkedInv
  <1>2. ASSUME NEW r \in Runs, Emit(r) \/ QueryExistingContentUnits(r)
        PROVE  StoreLinked' /\ ProvenanceSound'
    <2>1. UNCHANGED <<stored, cas, ras>>
      BY <1>2 DEF Emit, QueryExistingContentUnits
    <2>. QED
      BY <2>1 DEF LinkedInv, StoreLinked, ProvenanceSound
  <1>3. ASSUME NEW r \in Runs, ContentUnitSaver(r) PROVE StoreLinked' /\ ProvenanceSound'
    <2>. DEFINE b == q2[r]
    <2>1. b \in Seq(0..Len(Feed[r]))
      BY DEF LinkedInv, TypeOK, QueueOK
    <2>2. SaverCommits(r, b) \/ SaverRaises(r, b)
      BY <1>3 DEF ContentUnitSaver
    <2>3. CASE SaverCommits(r, b)
      BY <2>1, <2>3, CommitLinked DEF SaverCommits
    <2>4. CASE SaverRaises(r, b)
      <3>1. UNCHANGED <<stored, cas, ras>>
        BY <2>4 DEF SaverRaises, Rollback
      <3>. QED
        BY <3>1 DEF LinkedInv, StoreLinked, ProvenanceSound
    <2>. QED
      BY <2>2, <2>3, <2>4
  <1>4. ASSUME Idle \/ UNCHANGED vars PROVE StoreLinked' /\ ProvenanceSound'
    <2>1. UNCHANGED <<stored, cas, ras>>
      BY <1>4 DEF Idle, vars
    <2>. QED
      BY <2>1 DEF LinkedInv, StoreLinked, ProvenanceSound
  <1>5. ASSUME \E r \in Runs : Emit(r) \/ QueryExistingContentUnits(r) \/ ContentUnitSaver(r)
        PROVE  StoreLinked' /\ ProvenanceSound'
    <2>1. PICK r \in Runs : Emit(r) \/ QueryExistingContentUnits(r) \/ ContentUnitSaver(r)
      BY <1>5
    <2>. QED
      BY <2>1, <1>2, <1>3
  <1>6. StoreLinked' /\ ProvenanceSound'
    BY <1>4, <1>5 DEF Next
  <1>. QED
    BY <1>1, <1>6 DEF LinkedInv

\* Batch atomicity (spec section 5): a persisted content unit has exactly the
\* ContentArtifacts of its artifacts, each with a RemoteArtifact, and no link
\* row dangles, whatever the interleaving of the runs and whichever batch raises.
THEOREM StoreAlwaysLinked == Spec => []StoreLinked
  BY InitLinked, NextLinked, PTL DEF Spec, LinkedInv

\* Provenance: every RemoteArtifact the saver writes holds the url and
\* checksums of an artifact of its own unit, for every batching.
THEOREM ProvenanceAlwaysSound == Spec => []ProvenanceSound
  BY InitLinked, NextLinked, PTL DEF Spec, LinkedInv

-----------------------------------------------------------------------------
(* Dedup: what the saver forwards refers to its own persisted record.     *)

\* Every DeclarativeContent refers to the unsaved candidate or to the record
\* with its own natural key, which is then persisted; one that the saver
\* has forwarded no longer refers to the candidate.
RefsOwnKey ==
    \A d \in DCs :
        /\ ref[d] \in {Unsaved, Key(d)}
        /\ ref[d] # Unsaved => Key(d) \in stored
        /\ fwd[d] > 0 => ref[d] # Unsaved

DedupInv == TypeOK /\ RefsOwnKey

\* A DeclarativeContent is the pair of its run and its position.
LEMMA DCPair ==
    ASSUME NEW d \in DCs
    PROVE  d = <<d[1], d[2]>>
  BY DEF DCs

\* A value that occurs in a sequence is one of its elements.
LEMMA OccursIn ==
    ASSUME NEW S, NEW b \in Seq(S), NEW x, Occurrences(b, x) # 0
    PROVE  \E j \in DOMAIN b : b[j] = x
  <1>1. SUFFICES ASSUME {j \in DOMAIN b : b[j] = x} = {} PROVE FALSE
    OBVIOUS
  <1>2. Cardinality({j \in DOMAIN b : b[j] = x}) = 0
    BY <1>1, FS_EmptySet
  <1>. QED
    BY <1>2 DEF Occurrences

LEMMA InitDedup == Init => DedupInv
  BY DEF Init, DedupInv, TypeOK, QueueOK, RefsOwnKey

\* The resolver only points a DeclarativeContent at a persisted record of
\* its own natural key.
LEMMA ResolverDedup ==
    ASSUME DedupInv, NEW r \in Runs, QueryExistingContentUnits(r)
    PROVE  RefsOwnKey'
  <1>. DEFINE b == q1[r]
  <1>1. ref' = [d \in DCs |-> ResolvedRef(r, b, d)] /\ UNCHANGED <<fwd, stored>>
    BY Zenon DEF QueryExistingContentUnits
  <1>2. ASSUME NEW d \in DCs
        PROVE  /\ ResolvedRef(r, b, d) \in {Unsaved, Key(d)}
               /\ ResolvedRef(r, b, d) # Unsaved => Key(d) \in stored
               /\ fwd[d] > 0 => ResolvedRef(r, b, d) # Unsaved
    <2>1. CASE \E k \in ExistingResults(r, b) : SameUnit(k, d)
      <3>1. (CHOOSE k \in ExistingResults(r, b) : SameUnit(k, d)) \in ExistingResults(r, b)
            /\ SameUnit(CHOOSE k \in ExistingResults(r, b) : SameUnit(k, d), d)
        BY <2>1
      <3>2. Key(d) \in stored /\ Key(d) \in Keys
        BY <3>1, KeyType DEF ExistingResults, SameUnit
      <3>3. Key(d) # Unsaved
        BY <3>2, ArtifactAssumption
      <3>4. CASE d[1] = r /\ d[2] \in Items(b)
        <4>1. ResolvedRef(r, b, d) = Key(d)
          BY <2>1, <3>1, <3>4 DEF ResolvedRef, SameUnit
        <4>. QED
          BY <4>1, <3>2, <3>3
      <3>5. CASE ~(d[1] = r /\ d[2] \in Items(b))
        BY <3>5 DEF ResolvedRef, DedupInv, RefsOwnKey
      <3>. QED
        BY <3>4, <3>5
    <2>2. CASE ~\E k \in ExistingResults(r, b) : SameUnit(k, d)
      BY <2>2 DEF ResolvedRef, DedupInv, RefsOwnKey
    <2>. QED
      BY <2>1, <2>2
  <1>. QED
    BY <1>1, <1>2 DEF RefsOwnKey

\* A committed batch points its new items at their new records and forwards
\* only items that refer to a record.
LEMMA CommitDedup ==
    ASSUME DedupInv, NEW r \in Runs, NEW b \in Seq(0..Len(Feed[r])),
           Commit(r, b), ForwardBatch(r, b)
    PROVE  RefsOwnKey'
  <1>1. /\ stored' = stored \cup {Key(<<r, i>>) : i \in Adding(r, b)}
        /\ ref' = [d \in DCs |-> IF d[1] = r /\ d[2] \in Adding(r, b) THEN Key(d) ELSE ref[d]]
        /\ fwd' = [d \in DCs |-> IF d[1] = r THEN fwd[d] + Occurrences(b, d[2]) ELSE fwd[d]]
    BY Zenon DEF Commit, ForwardBatch
  <1>2. SUFFICES ASSUME NEW d \in DCs
                 PROVE  /\ ref'[d] \in {Unsaved, Key(d)}
                        /\ ref'[d] # Unsaved => Key(d) \in stored'
                        /\ fwd'[d] > 0 => ref'[d] # Unsaved
    BY DEF RefsOwnKey
  <1>3. Key(d) \in Keys /\ Key(d) # Unsaved /\ d[1] \in Runs /\ d[2] \in 1..Len(Feed[d[1]])
    BY KeyType, ArtifactAssumption
  <1>4. CASE d[1] = r /\ d[2] \in Adding(r, b)
    <2>1. ref'[d] = Key(d)
      BY <1>1, <1>4
    <2>2. Key(d) \in stored'
      BY <1>1, <1>4, DCPair
    <2>. QED
      BY <2>1, <2>2, <1>3
  <1>5. CASE ~(d[1] = r /\ d[2] \in Adding(r, b))
    <2>1. ref'[d] = ref[d]
      BY <1>1, <1>5
    <2>2. ref[d] \in {Unsaved, Key(d)} /\ (ref[d] # Unsaved => Key(d) \in stored')
      BY <1>1 DEF DedupInv, RefsOwnKey
    <2>3. ASSUME fwd'[d] > 0 PROVE ref[d] # Unsaved
      <3>1. CASE fwd[d] > 0
        BY <3>1 DEF DedupInv, RefsOwnKey
      <3>2. CASE fwd[d] = 0
        <4>1. d[1] = r /\ Occurrences(b, d[2]) # 0
          <5>1. fwd[d] \in Nat
            BY DEF DedupInv, TypeOK
          <5>. QED
            BY <1>1, <2>3, <3>2, <5>1
        <4>2. PICK j \in DOMAIN b : b[j] = d[2]
          BY <4>1, OccursIn
        <4>3. d[2] \in Items(b)
          BY <1>3, <4>2 DEF Items, None
        <4>4. d[2] \notin Adding(r, b)
          BY <1>5, <4>1
        <4>5. ref[<<r, d[2]>>] # Unsaved
          BY <4>3, <4>4 DEF Adding
        <4>. QED
          BY <4>1, <4>5, DCPair
      <3>. QED
        BY <3>1, <3>2 DEF DedupInv, TypeOK
    <2>. QED
      BY <2>1, <2>2, <2>3
  <1>. QED
    BY <1>4, <1>5

LEMMA NextDedup == DedupInv /\ [Next]_vars => DedupInv'
  <1> SUFFICES ASSUME DedupInv, [Next]_vars PROVE DedupInv'
    OBVIOUS
  <1>1. TypeOK'
    BY TypeStep DEF DedupInv
  <1>2. ASSUME NEW r \in Runs, Emit(r) PROVE RefsOwnKey'
    <2>1. UNCHANGED <<ref, fwd, stored>>
      BY <1>2 DEF Emit
    <2>. QED
      BY <2>1 DEF DedupInv, RefsOwnKey
  <1>3. ASSUME NEW r \in Runs, QueryExistingContentUnits(r) PROVE RefsOwnKey'
    BY <1>3, ResolverDedup
  <1>4. ASSUME NEW r \in Runs, ContentUnitSaver(r) PROVE RefsOwnKey'
    <2>. DEFINE b == q2[r]
    <2>1. b \in Seq(0..Len(Feed[r]))
      BY DEF DedupInv, TypeOK, QueueOK
    <2>2. SaverCommits(r, b) \/ SaverRaises(r, b)
      BY <1>4 DEF ContentUnitSaver
    <2>3. CASE SaverCommits(r, b)
      BY <2>1, <2>3, CommitDedup DEF SaverCommits
    <2>4. CASE SaverRaises(r, b)
      <3>1. UNCHANGED <<ref, fwd, stored>>
        BY <2>4 DEF SaverRaises, Rollback
      <3>. QED
        BY <3>1 DEF DedupInv, RefsOwnKey
    <2>. QED
      BY <2>2, <2>3, <2>4
  <1>5. ASSUME Idle \/ UNCHANGED vars PROVE RefsOwnKey'
    <2>1. UNCHANGED <<ref, fwd, stored>>
      BY <1>5 DEF Idle, vars
    <2>. QED
      BY <2>1 DEF DedupInv, RefsOwnKey
  <1>6. RefsOwnKey'
    BY <1>2, <1>3, <1>4, <1>5 DEF Next
  <1>. QED
    BY <1>1, <1>6 DEF DedupInv

\* Dedup (the resolver's per-field recheck and the saver's save): every
\* DeclarativeContent the saver forwards refers to the persisted record with
\* its own natural key, for every interleaving of the runs.
THEOREM ForwardedOwnRecord == Spec => []ForwardedRefersToOwnRecord
  <1>1. DedupInv => ForwardedRefersToOwnRecord
    BY DEF DedupInv, RefsOwnKey, ForwardedRefersToOwnRecord
  <1>. QED
    BY InitDedup, NextDedup, <1>1, PTL DEF Spec

-----------------------------------------------------------------------------
(* Exactly once: the saver forwards a DeclarativeContent at most once.    *)

\* A queue holds each position at most once (the sentinel may repeat).
NoDup(s) == \A j, k \in DOMAIN s : s[j] = s[k] /\ s[j] # None => j = k

\* A run's two queues hold distinct positions, none twice, all emitted.
QueuesOnce(r) ==
    /\ NoDup(q1[r]) /\ NoDup(q2[r])
    /\ Items(q1[r]) \cap Items(q2[r]) = {}
    /\ \A i \in Items(q1[r]) \cup Items(q2[r]) : i <= sent[r]

\* A DeclarativeContent is forwarded at most once, is in no queue once it
\* has been, and is not forwarded before it is emitted.
FwdOnce(d) ==
    /\ fwd[d] <= 1
    /\ fwd[d] = 1 => d[2] \notin Items(q1[d[1]]) \cup Items(q2[d[1]])
    /\ d[2] > sent[d[1]] => fwd[d] = 0

OnceInv == TypeOK /\ (\A r \in Runs : QueuesOnce(r)) /\ (\A d \in DCs : FwdOnce(d))

\* Appending a position adds it to a queue's items (the sentinel adds none).
LEMMA ItemsAppend ==
    ASSUME NEW s \in Seq(Nat), NEW x \in Nat
    PROVE  Items(Append(s, x)) = Items(s) \cup ({x} \ {None})
  BY AppendProperties DEF Items

\* Appending a position not yet queued keeps a queue free of duplicates.
LEMMA NoDupAppend ==
    ASSUME NEW s \in Seq(Nat), NEW x \in Nat, NoDup(s), x \notin Items(s)
    PROVE  NoDup(Append(s, x))
  BY AppendProperties DEF NoDup, Items

\* The items of two queues joined are the items of each.
LEMMA ItemsConcat ==
    ASSUME NEW s \in Seq(Nat), NEW t \in Seq(Nat)
    PROVE  Items(s \o t) = Items(s) \cup Items(t)
  <1>1. Items(s \o t) \subseteq Items(s) \cup Items(t)
    BY ConcatProperties DEF Items
  <1>2. ASSUME NEW x \in Items(s) PROVE x \in Items(s \o t)
    <2>1. PICK j \in DOMAIN s : s[j] = x /\ x # None
      BY <1>2 DEF Items
    <2>2. j \in DOMAIN (s \o t) /\ (s \o t)[j] = x
      BY <2>1, ConcatProperties
    <2>. QED
      BY <2>1, <2>2 DEF Items
  <1>3. ASSUME NEW x \in Items(t) PROVE x \in Items(s \o t)
    <2>1. PICK j \in DOMAIN t : t[j] = x /\ x # None
      BY <1>3 DEF Items
    <2>2. Len(s) + j \in DOMAIN (s \o t) /\ (s \o t)[Len(s) + j] = x
      BY <2>1, ConcatProperties
    <2>. QED
      BY <2>1, <2>2 DEF Items
  <1>. QED
    BY <1>1, <1>2, <1>3

\* Joining two duplicate-free queues with no common item gives one.
LEMMA NoDupConcat ==
    ASSUME NEW s \in Seq(Nat), NEW t \in Seq(Nat), NoDup(s), NoDup(t),
           Items(s) \cap Items(t) = {}
    PROVE  NoDup(s \o t)
  <1> SUFFICES ASSUME NEW j \in DOMAIN (s \o t), NEW k \in DOMAIN (s \o t),
                      (s \o t)[j] = (s \o t)[k], (s \o t)[j] # None
               PROVE  j = k
    BY DEF NoDup
  <1>1. CASE j <= Len(s) /\ k <= Len(s)
    BY <1>1, ConcatProperties DEF NoDup
  <1>2. CASE j > Len(s) /\ k > Len(s)
    <2>1. j - Len(s) \in DOMAIN t /\ k - Len(s) \in DOMAIN t
          /\ t[j - Len(s)] = t[k - Len(s)] /\ t[j - Len(s)] # None
      BY <1>2, ConcatProperties
    <2>. QED
      BY <2>1 DEF NoDup
  <1>3. CASE j <= Len(s) /\ k > Len(s)
    <2>1. s[j] \in Items(s) /\ t[k - Len(s)] \in Items(t) /\ s[j] = t[k - Len(s)]
      BY <1>3, ConcatProperties DEF Items
    <2>. QED
      BY <2>1
  <1>4. CASE j > Len(s) /\ k <= Len(s)
    <2>1. s[k] \in Items(s) /\ t[j - Len(s)] \in Items(t) /\ s[k] = t[j - Len(s)]
      BY <1>4, ConcatProperties DEF Items
    <2>. QED
      BY <2>1
  <1>. QED
    BY <1>1, <1>2, <1>3, <1>4, ConcatProperties

\* The resolver forwards its batch as it is, with at most one more sentinel.
LEMMA ResolverOutputOnce ==
    ASSUME NEW b \in Seq(Nat), NoDup(b)
    PROVE  /\ ResolverOutput(b) \in Seq(Nat)
           /\ Items(ResolverOutput(b)) = Items(b)
           /\ NoDup(ResolverOutput(b))
  <1>1. /\ <<None>> \in Seq(Nat) /\ Items(<<None>>) = {} /\ NoDup(<<None>>)
        /\ <<>> \in Seq(Nat) /\ Items(<<>>) = {} /\ NoDup(<<>>)
    BY DEF Items, NoDup, None
  <1>2. CASE HasShutdown(b)
    <2>1. ResolverOutput(b) = b \o <<None>>
      BY <1>2 DEF ResolverOutput
    <2>2. Items(b \o <<None>>) = Items(b) \cup Items(<<None>>)
      BY <1>1, ItemsConcat
    <2>3. NoDup(b \o <<None>>)
      BY <1>1, NoDupConcat
    <2>. QED
      BY <1>1, <2>1, <2>2, <2>3, ConcatProperties
  <1>3. CASE ~HasShutdown(b)
    <2>1. ResolverOutput(b) = b \o <<>>
      BY <1>3 DEF ResolverOutput
    <2>2. Items(b \o <<>>) = Items(b) \cup Items(<<>>)
      BY <1>1, ItemsConcat
    <2>3. NoDup(b \o <<>>)
      BY <1>1, NoDupConcat
    <2>. QED
      BY <1>1, <2>1, <2>2, <2>3, ConcatProperties
  <1>. QED
    BY <1>2, <1>3

\* A position occurs at most once in a queue without duplicates.
LEMMA OccAtMostOne ==
    ASSUME NEW b \in Seq(Nat), NoDup(b), NEW x, x # None
    PROVE  Occurrences(b, x) <= 1
  <1>. DEFINE T == {j \in DOMAIN b : b[j] = x}
  <1>1. CASE T = {}
    <2>1. Cardinality(T) = 0
      BY <1>1, FS_EmptySet, Zenon
    <2>. QED
      BY <2>1 DEF Occurrences, T
  <1>2. CASE T # {}
    <2>1. PICK j \in T : TRUE
      BY <1>2
    <2>2. T = {j}
      BY <2>1 DEF NoDup, T
    <2>3. Cardinality(T) = 1
      BY <2>2, FS_Singleton, Zenon
    <2>. QED
      BY <2>3 DEF Occurrences, T
  <1>. QED
    BY <1>1, <1>2

\* A position not in a queue does not occur in it.
LEMMA OccAbsent ==
    ASSUME NEW b \in Seq(Nat), NEW x, x # None, x \notin Items(b)
    PROVE  Occurrences(b, x) = 0
  <1>1. {j \in DOMAIN b : b[j] = x} = {}
    BY DEF Items
  <1>. QED
    BY <1>1, FS_EmptySet DEF Occurrences

\* Every queue starts empty and nothing has been forwarded.
LEMMA InitOnce == Init => OnceInv
  BY DEF Init, OnceInv, TypeOK, QueueOK, QueuesOnce, FwdOnce, NoDup, Items

\* A run's queues hold naturals, and so does its count of emitted items.
LEMMA QueuesNat ==
    ASSUME TypeOK, NEW r \in Runs
    PROVE  q1[r] \in Seq(Nat) /\ q2[r] \in Seq(Nat) /\ sent[r] \in Nat /\ Len(Feed[r]) \in Nat
  <1>1. Len(Feed[r]) \in Nat
    BY FeedAssumption
  <1>. QED
    BY <1>1, SeqMonotonic DEF TypeOK, QueueOK

\* Upstream emits the next position, never one that is queued or forwarded.
LEMMA EmitOnce ==
    ASSUME OnceInv, NEW r \in Runs, Emit(r)
    PROVE  (\A s \in Runs : QueuesOnce(s))' /\ (\A d \in DCs : FwdOnce(d))'
  <1>. DEFINE v == IF sent[r] < Len(Feed[r]) THEN sent[r] + 1 ELSE None
  <1>1. /\ q1' = [q1 EXCEPT ![r] = Append(q1[r], v)]
        /\ sent' = [sent EXCEPT ![r] = sent[r] + 1]
        /\ UNCHANGED <<q2, fwd>>
    BY Zenon DEF Emit
  <1>2. q1[r] \in Seq(Nat) /\ q2[r] \in Seq(Nat) /\ sent[r] \in Nat /\ v \in Nat
    BY QueuesNat DEF OnceInv, None
  <1>3. v \notin Items(q1[r]) \cup Items(q2[r])
    <2>1. CASE sent[r] < Len(Feed[r])
      <3>1. v = sent[r] + 1
        BY <2>1 DEF v
      <3>2. \A i \in Items(q1[r]) \cup Items(q2[r]) : i <= sent[r]
        BY DEF OnceInv, QueuesOnce
      <3>. QED
        BY <1>2, <3>1, <3>2
    <2>2. CASE ~(sent[r] < Len(Feed[r]))
      <3>1. v = None
        BY <2>2 DEF v
      <3>. QED
        BY <3>1 DEF Items
    <2>. QED
      BY <2>1, <2>2
  <1>4. Items(q1'[r]) = Items(q1[r]) \cup ({v} \ {None}) /\ NoDup(q1'[r])
    <2>1. q1'[r] = Append(q1[r], v)
      BY <1>1 DEF OnceInv, TypeOK, QueueOK, v
    <2>. QED
      BY <1>2, <1>3, <2>1, ItemsAppend, NoDupAppend DEF OnceInv, QueuesOnce
  <1>5. ASSUME NEW s \in Runs PROVE QueuesOnce(s)'
    <2>1. CASE s = r
      <3>1. q2'[r] = q2[r] /\ sent'[r] = sent[r] + 1
        BY <1>1 DEF OnceInv, TypeOK
      <3>2. \A i \in Items(q1'[r]) \cup Items(q2'[r]) : i <= sent'[r]
        <4>1. \A i \in Items(q1[r]) \cup Items(q2[r]) : i <= sent[r]
          BY DEF OnceInv, QueuesOnce
        <4>2. v \in Nat /\ (v # None => v = sent[r] + 1)
          BY <1>2 DEF v
        <4>3. ASSUME NEW i \in Items(q1'[r]) \cup Items(q2'[r]) PROVE i <= sent'[r]
          <5>1. i \in Items(q1[r]) \cup Items(q2[r]) \/ (i = v /\ v # None)
            BY <1>4, <3>1
          <5>2. i \in Nat
            BY <1>2, <4>2, <5>1 DEF Items
          <5>. QED
            BY <1>2, <3>1, <4>1, <4>2, <5>1, <5>2
        <4>. QED
          BY <4>3
      <3>3. Items(q1'[r]) \cap Items(q2'[r]) = {}
        BY <1>3, <1>4, <3>1 DEF OnceInv, QueuesOnce
      <3>. QED
        BY <1>4, <2>1, <3>1, <3>2, <3>3 DEF OnceInv, QueuesOnce
    <2>2. CASE s # r
      <3>1. q1'[s] = q1[s] /\ q2'[s] = q2[s] /\ sent'[s] = sent[s]
        BY <1>1, <2>2 DEF OnceInv, TypeOK
      <3>. QED
        BY <3>1 DEF OnceInv, QueuesOnce
    <2>. QED
      BY <2>1, <2>2
  <1>6. ASSUME NEW d \in DCs PROVE FwdOnce(d)'
    <2>1. d[1] \in Runs /\ d[2] \in 1..Len(Feed[d[1]]) /\ fwd[d] \in Nat
      BY KeyType DEF OnceInv, TypeOK
    <2>2. CASE d[1] = r
      <3>1. q2'[r] = q2[r] /\ sent'[r] = sent[r] + 1 /\ fwd'[d] = fwd[d]
        BY <1>1 DEF OnceInv, TypeOK
      <3>2. fwd[d] = 1 => d[2] # v
        BY <1>2, <2>1, <2>2 DEF OnceInv, FwdOnce, None, v
      <3>. QED
        BY <1>2, <1>4, <2>1, <2>2, <3>1, <3>2 DEF OnceInv, FwdOnce, None
    <2>3. CASE d[1] # r
      <3>1. q1'[d[1]] = q1[d[1]] /\ q2'[d[1]] = q2[d[1]] /\ sent'[d[1]] = sent[d[1]]
            /\ fwd'[d] = fwd[d]
        BY <1>1, <2>1, <2>3 DEF OnceInv, TypeOK
      <3>. QED
        BY <3>1 DEF OnceInv, FwdOnce
    <2>. QED
      BY <2>2, <2>3
  <1>. QED
    BY <1>5, <1>6


\* The resolver moves its whole batch on, sentinels aside, in order.
LEMMA ResolverOnce ==
    ASSUME OnceInv, NEW r \in Runs, QueryExistingContentUnits(r)
    PROVE  (\A s \in Runs : QueuesOnce(s))' /\ (\A d \in DCs : FwdOnce(d))'
  <1>. DEFINE b == q1[r]
  <1>1. /\ q1' = [q1 EXCEPT ![r] = <<>>]
        /\ q2' = [q2 EXCEPT ![r] = q2[r] \o ResolverOutput(b)]
        /\ UNCHANGED <<sent, fwd>>
    BY Zenon DEF QueryExistingContentUnits
  <1>2. b \in Seq(Nat) /\ q2[r] \in Seq(Nat) /\ NoDup(b) /\ NoDup(q2[r])
        /\ Items(b) \cap Items(q2[r]) = {}
    BY QueuesNat DEF OnceInv, QueuesOnce
  <1>3. /\ ResolverOutput(b) \in Seq(Nat)
        /\ Items(ResolverOutput(b)) = Items(b)
        /\ NoDup(ResolverOutput(b))
    BY <1>2, ResolverOutputOnce
  <1>4. /\ q1'[r] = <<>> /\ q2'[r] = q2[r] \o ResolverOutput(b)
        /\ Items(q1'[r]) = {} /\ NoDup(q1'[r])
    <2>1. q1'[r] = <<>> /\ q2'[r] = q2[r] \o ResolverOutput(b)
      BY <1>1 DEF OnceInv, TypeOK, QueueOK
    <2>. QED
      BY <2>1 DEF Items, NoDup
  <1>5. Items(q2'[r]) = Items(q2[r]) \cup Items(b) /\ NoDup(q2'[r])
    <2>1. Items(q2[r] \o ResolverOutput(b)) = Items(q2[r]) \cup Items(b)
      BY <1>2, <1>3, ItemsConcat
    <2>2. NoDup(q2[r] \o ResolverOutput(b))
      BY <1>2, <1>3, NoDupConcat
    <2>. QED
      BY <1>4, <2>1, <2>2
  <1>6. ASSUME NEW s \in Runs PROVE QueuesOnce(s)'
    <2>1. CASE s = r
      <3>1. \A i \in Items(b) \cup Items(q2[r]) : i <= sent[r]
        BY DEF OnceInv, QueuesOnce
      <3>. QED
        BY <1>1, <1>4, <1>5, <2>1, <3>1 DEF QueuesOnce
    <2>2. CASE s # r
      <3>1. q1'[s] = q1[s] /\ q2'[s] = q2[s] /\ sent'[s] = sent[s]
        BY <1>1, <2>2 DEF OnceInv, TypeOK, QueueOK
      <3>. QED
        BY <3>1 DEF OnceInv, QueuesOnce
    <2>. QED
      BY <2>1, <2>2
  <1>7. ASSUME NEW d \in DCs PROVE FwdOnce(d)'
    <2>1. d[1] \in Runs
      BY KeyType
    <2>2. Items(q1'[d[1]]) \cup Items(q2'[d[1]]) = Items(q1[d[1]]) \cup Items(q2[d[1]])
      <3>1. CASE d[1] = r
        BY <1>4, <1>5, <3>1
      <3>2. CASE d[1] # r
        BY <1>1, <2>1, <3>2 DEF OnceInv, TypeOK, QueueOK
      <3>. QED
        BY <3>1, <3>2
    <2>. QED
      BY <1>1, <2>2 DEF OnceInv, FwdOnce
  <1>. QED
    BY <1>6, <1>7


\* The saver forwards each item of its batch once, and only items it has
\* not forwarded before, whether the batch commits or raises.
LEMMA SaverOnce ==
    ASSUME OnceInv, NEW r \in Runs, ContentUnitSaver(r)
    PROVE  (\A s \in Runs : QueuesOnce(s))' /\ (\A d \in DCs : FwdOnce(d))'
  <1>. DEFINE b == q2[r]
  <1>1. q2' = [q2 EXCEPT ![r] = <<>>] /\ UNCHANGED <<sent, q1>>
    BY Zenon DEF ContentUnitSaver, DrainSaverQueue
  <1>2. \/ fwd' = [d \in DCs |-> IF d[1] = r THEN fwd[d] + Occurrences(b, d[2]) ELSE fwd[d]]
        \/ fwd' = fwd
    BY Zenon DEF ContentUnitSaver, SaverCommits, ForwardBatch, SaverRaises
  <1>3. q2'[r] = <<>> /\ Items(q2'[r]) = {} /\ NoDup(q2'[r])
    <2>1. q2'[r] = <<>>
      BY <1>1 DEF OnceInv, TypeOK, QueueOK
    <2>. QED
      BY <2>1 DEF Items, NoDup
  <1>4. ASSUME NEW s \in Runs PROVE QueuesOnce(s)'
    <2>1. CASE s = r
      BY <1>1, <1>3, <2>1 DEF OnceInv, QueuesOnce
    <2>2. CASE s # r
      <3>1. q1'[s] = q1[s] /\ q2'[s] = q2[s] /\ sent'[s] = sent[s]
        BY <1>1, <2>2 DEF OnceInv, TypeOK, QueueOK
      <3>. QED
        BY <3>1 DEF OnceInv, QueuesOnce
    <2>. QED
      BY <2>1, <2>2
  <1>5. ASSUME NEW d \in DCs PROVE FwdOnce(d)'
    <2>1. d[1] \in Runs /\ d[2] \in 1..Len(Feed[d[1]]) /\ fwd[d] \in Nat /\ d[2] # None
      BY KeyType DEF OnceInv, TypeOK, None
    <2>2. CASE d[1] # r
      <3>1. q1'[d[1]] = q1[d[1]] /\ q2'[d[1]] = q2[d[1]] /\ sent'[d[1]] = sent[d[1]]
            /\ fwd'[d] = fwd[d]
        BY <1>1, <1>2, <2>1, <2>2 DEF OnceInv, TypeOK, QueueOK
      <3>. QED
        BY <3>1 DEF OnceInv, FwdOnce
    <2>3. CASE d[1] = r
      <3>1. b \in Seq(Nat) /\ NoDup(b) /\ Items(q1[r]) \cap Items(b) = {}
            /\ \A i \in Items(b) : i <= sent[r]
        BY QueuesNat DEF OnceInv, QueuesOnce
      <3>2. fwd'[d] = fwd[d] + Occurrences(b, d[2]) \/ fwd'[d] = fwd[d]
        BY <1>2, <2>3
      <3>3. q1'[r] = q1[r] /\ sent'[r] = sent[r]
        BY <1>1
      <3>4. CASE d[2] \in Items(b)
        <4>1. fwd[d] = 0
          BY <2>1, <2>3, <3>4 DEF OnceInv, FwdOnce
        <4>2. Occurrences(b, d[2]) \in {0, 1}
          <5>1. Occurrences(b, d[2]) <= 1
            BY <2>1, <3>1, OccAtMostOne
          <5>2. Occurrences(b, d[2]) \in Nat
            BY <3>1, OccurrencesType
          <5>. QED
            BY <5>1, <5>2
        <4>2a. fwd'[d] \in {0, 1}
          BY <3>2, <4>1, <4>2
        <4>3. d[2] \notin Items(q1[r]) /\ d[2] <= sent[r]
          BY <3>1, <3>4
        <4>4. d[2] \notin Items(q1'[d[1]]) \cup Items(q2'[d[1]]) /\ d[2] <= sent'[d[1]]
          BY <1>3, <2>3, <3>3, <4>3
        <4>5. fwd'[d] <= 1
          BY <4>2a
        <4>6. d[2] > sent'[d[1]] => fwd'[d] = 0
          <5>1. sent'[d[1]] \in Nat /\ d[2] \in Nat
            BY <2>1, <2>3, <3>3, QueuesNat DEF OnceInv
          <5>. QED
            BY <4>4, <5>1
        <4>. QED
          BY <4>4, <4>5, <4>6, Zenon DEF FwdOnce
      <3>5. CASE d[2] \notin Items(b)
        <4>1. Occurrences(b, d[2]) = 0
          BY <2>1, <3>1, <3>5, OccAbsent
        <4>2. fwd'[d] = fwd[d]
          BY <2>1, <3>2, <4>1
        <4>. QED
          BY <1>3, <2>3, <3>3, <4>2 DEF OnceInv, FwdOnce
      <3>. QED
        BY <3>4, <3>5
    <2>. QED
      BY <2>2, <2>3
  <1>. QED
    BY <1>4, <1>5


\* Every step of every stage keeps the exactly-once invariant.
LEMMA NextOnce == OnceInv /\ [Next]_vars => OnceInv'
  <1> SUFFICES ASSUME OnceInv, [Next]_vars PROVE OnceInv'
    OBVIOUS
  <1>1. TypeOK'
    BY TypeStep DEF OnceInv
  <1>2. (\A s \in Runs : QueuesOnce(s))' /\ (\A d \in DCs : FwdOnce(d))'
    <2>1. ASSUME NEW r \in Runs, Emit(r) PROVE (\A s \in Runs : QueuesOnce(s))' /\ (\A d \in DCs : FwdOnce(d))'
      BY <2>1, EmitOnce
    <2>2. ASSUME NEW r \in Runs, QueryExistingContentUnits(r)
          PROVE (\A s \in Runs : QueuesOnce(s))' /\ (\A d \in DCs : FwdOnce(d))'
      BY <2>2, ResolverOnce
    <2>3. ASSUME NEW r \in Runs, ContentUnitSaver(r)
          PROVE (\A s \in Runs : QueuesOnce(s))' /\ (\A d \in DCs : FwdOnce(d))'
      BY <2>3, SaverOnce
    <2>4. ASSUME Idle \/ UNCHANGED vars
          PROVE (\A s \in Runs : QueuesOnce(s))' /\ (\A d \in DCs : FwdOnce(d))'
      <3>1. UNCHANGED <<sent, q1, q2, fwd>>
        BY <2>4 DEF Idle, vars
      <3>. QED
        BY <3>1 DEF OnceInv, QueuesOnce, FwdOnce
    <2>. QED
      BY <2>1, <2>2, <2>3, <2>4 DEF Next
  <1>. QED
    BY <1>1, <1>2 DEF OnceInv

\* Exactly-once, first half: in every run the saver puts each
\* DeclarativeContent on its out_q at most once, across batches and the
\* shutdown boundary (content_unit_saver, lines 158-165).  The invariant
\* OnceInv says why: upstream emits a position once, the resolver moves
\* each batch on whole, the saver drains its queue per batch, and an item
\* is in a queue or forwarded, never both.
THEOREM ForwardedOnce == Spec => []SaverNoDuplicates
  <1>1. OnceInv => SaverNoDuplicates
    BY DEF OnceInv, FwdOnce, SaverNoDuplicates
  <1>. QED
    BY <1>1, InitOnce, NextOnce, PTL DEF Spec


-----------------------------------------------------------------------------
(* Refinement: ContentUnitStages implements ContentStore.                  *)

\* The ContentArtifacts of a batch's new units are the store's slots of
\* their natural keys.
LEMMA BulkSlots ==
    ASSUME NEW r \in Runs, NEW b \in Seq(0..Len(Feed[r]))
    PROVE  ContentArtifactBulk(r, b) = Store!Slots({Key(<<r, i>>) : i \in Adding(r, b)})
  <1>. DEFINE N == {Key(<<r, i>>) : i \in Adding(r, b)}
  <1>1. ASSUME NEW ca \in ContentArtifactBulk(r, b) PROVE ca \in Store!Slots(N)
    <2>1. PICK i \in Adding(r, b) :
               ca \in {[key |-> Key(<<r, i>>), path |-> p] : p \in ArtifactPaths[Key(<<r, i>>)]}
      BY Zenon DEF ContentArtifactBulk
    <2>2. Key(<<r, i>>) \in N
      BY DEF N
    <2>. QED
      BY <2>1, <2>2 DEF Store!Slots
  <1>2. ASSUME NEW s \in Store!Slots(N) PROVE s \in ContentArtifactBulk(r, b)
    <2>1. PICK k \in N : s \in {[key |-> k, path |-> p] : p \in ArtifactPaths[k]}
      BY Zenon DEF Store!Slots
    <2>2. PICK i \in Adding(r, b) : k = Key(<<r, i>>)
      BY DEF N
    <2>3. PICK p \in ArtifactPaths[Key(<<r, i>>)] : s = [key |-> Key(<<r, i>>), path |-> p]
      BY <2>1, <2>2
    <2>. QED
      BY <2>3, BulkHas
  <1>. QED
    BY <1>1, <1>2

\* A committed transaction of content_unit_saver is one AddBatch of the
\* store: its new units, with the relative-path join as the provenance.
LEMMA CommitRefines ==
    ASSUME NEW r \in Runs, NEW b \in Seq(0..Len(Feed[r])),
           ~SaveFails(r, b), ~PopFails(r, b), Commit(r, b)
    PROVE  Store!Next
  <1>. DEFINE N == {Key(<<r, i>>) : i \in Adding(r, b)}
              src == [s \in Store!Slots(N) |-> <<r, RemoteArtifactMap(r, b)[s.path]>>]
  <1>1. N \in SUBSET Keys
    BY AddingType DEF N
  <1>2. src \in [Store!Slots(N) -> DCs]
    <2>1. ASSUME NEW s \in Store!Slots(N) PROVE <<r, RemoteArtifactMap(r, b)[s.path]>> \in DCs
      <3>1. s \in ContentArtifactBulk(r, b)
        BY BulkSlots DEF N
      <3>2. RemoteArtifactMap(r, b)[s.path] \in Adding(r, b)
        BY <3>1, RemoteArtifactMapType
      <3>. QED
        BY <3>2, AddingType
    <2>. QED
      BY <2>1 DEF src
  <1>3. N \cap stored = {}
    BY DEF SaveFails, N
  <1>4. ASSUME NEW s \in Store!Slots(N) PROVE [d \in DCs |-> Key(d)][src[s]] = s.key
    <2>1. s \in ContentArtifactBulk(r, b)
      BY BulkSlots DEF N
    <2>2. Key(<<r, RemoteArtifactMap(r, b)[s.path]>>) = s.key
      BY <2>1, JoinedSource
    <2>. QED
      BY <1>2, <2>2 DEF src
  <1>5. /\ stored' = stored \cup N
        /\ cas' = cas \cup Store!Slots(N)
        /\ ras' = ras \cup {[key |-> s.key, path |-> s.path, src |-> src[s]] : s \in Store!Slots(N)}
    <2>1. /\ stored' = stored \cup N
          /\ cas' = cas \cup ContentArtifactBulk(r, b)
          /\ ras' = ras \cup {[key |-> ca.key, path |-> ca.path,
                               src |-> <<r, RemoteArtifactMap(r, b)[ca.path]>>]
                              : ca \in ContentArtifactBulk(r, b)}
      BY Zenon DEF Commit, N
    <2>2. ContentArtifactBulk(r, b) = Store!Slots(N)
      BY BulkSlots DEF N
    <2>. QED
      BY <2>1, <2>2 DEF src
  <1>6. Store!AddBatch(N, src)
    BY <1>3, <1>4, <1>5 DEF Store!AddBatch
  <1>. QED
    BY <1>1, <1>2, <1>6 DEF Store!Next

\* A step of the pipeline is a step of the store or leaves it as it is.
LEMMA StepRefines == TypeOK /\ [Next]_vars => [Store!Next]_Store!absvars
  <1> SUFFICES ASSUME TypeOK, [Next]_vars PROVE [Store!Next]_Store!absvars
    OBVIOUS
  <1>1. ASSUME NEW r \in Runs, ContentUnitSaver(r) PROVE [Store!Next]_Store!absvars
    <2>. DEFINE b == q2[r]
    <2>1. b \in Seq(0..Len(Feed[r]))
      BY DEF TypeOK, QueueOK
    <2>2. CASE SaverCommits(r, b)
      BY <2>1, <2>2, CommitRefines DEF SaverCommits
    <2>3. CASE SaverRaises(r, b)
      BY <2>3 DEF SaverRaises, Rollback, Store!absvars
    <2>. QED
      BY <1>1, <2>2, <2>3 DEF ContentUnitSaver
  <1>2. ASSUME NEW r \in Runs, Emit(r) \/ QueryExistingContentUnits(r)
        PROVE  UNCHANGED Store!absvars
    BY <1>2 DEF Emit, QueryExistingContentUnits, Store!absvars
  <1>3. ASSUME Idle \/ UNCHANGED vars PROVE UNCHANGED Store!absvars
    BY <1>3 DEF Idle, vars, Store!absvars
  <1>. QED
    BY <1>1, <1>2, <1>3 DEF Next

\* The pipeline implements ContentStore (ImplementsContentStore): from
\* every initial state, every step of every stage of every run either
\* leaves the store as it is or adds one batch atomically -- units not
\* stored before, with all their ContentArtifacts and one RemoteArtifact
\* each from a declaration of the same unit.
THEOREM Refinement == Spec => ImplementsContentStore
  <1>1. Init => Store!Init
    BY DEF Init, Store!Init
  <1>. QED
    BY <1>1, TypeCorrect, StepRefines, PTL DEF Spec, ImplementsContentStore, Store!Spec

=============================================================================
