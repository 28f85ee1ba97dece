------------------------- MODULE RepairEngineProofs -------------------------
(***************************************************************************)
(* Proofs about the repair engine of RepairEngine, for every number of     *)
(* ContentArtifacts, every layout of artifacts and sources, and every cap. *)
(***************************************************************************)
EXTENDS RepairEngine, FiniteSetTheorems, WellFoundedInduction, TLAPS

-----------------------------------------------------------------------------
(* Lemmas about the scan order.                                            *)

\* A nonempty set of naturals has a least element.
LEMMA MinExists ==
    ASSUME NEW S \in SUBSET Nat, S # {}
    PROVE  \E d \in S : \A e \in S : d <= e
  <1>1. IsWellFoundedOn(OpToRel(<, Nat), Nat)
    BY NatLessThanWellFounded, Zenon
  <1>2. PICK d \in S : \A e \in S : ~(<<e, d>> \in OpToRel(<, Nat))
    BY <1>1, WFMin, Zenon
  <1>3. ASSUME NEW e \in S PROVE d <= e
    <2>1. ~(<<e, d>> \in OpToRel(<, Nat))
      BY <1>2
    <2>2. ~(e < d)
      BY <2>1 DEF OpToRel
    <2>. QED
      BY <2>2
  <1>. QED
    BY <1>3

\* The async iterator moves to a ContentArtifact of the scope, or past the end.
LEMMA NextInScopeType ==
    ASSUME NEW c \in Nat
    PROVE  /\ NextInScope(c) \in 1..NumCAs + 1
           /\ NextInScope(c) # NumCAs + 1 => NextInScope(c) \in Scope
  <1>1. Scope \subseteq CAs /\ NumCAs \in Nat
    <2>1. NumCAs \in Nat
      BY RepairAssumption, Zenon
    <2>2. Scope \subseteq CAs
      BY Zenon DEF Scope
    <2>. QED
      BY <2>1, <2>2
  <1>2. CASE \E d \in Scope : d > c
    <2>. DEFINE Later == {d \in Scope : d > c}
    <2>0. CAs \subseteq Nat
      BY DEF CAs
    <2>1. Later \subseteq Nat /\ Later # {}
      BY <1>1, <1>2, <2>0, Zenon
    <2>2. PICK d \in Later : \A e \in Later : d <= e
      BY <2>1, MinExists
    <2>3. \E x \in Scope : x > c /\ \A e \in Scope : e > c => x <= e
      BY <2>2, Zenon
    <2>4. NextInScope(c) \in Scope
      BY <1>2, <2>3 DEF NextInScope
    <2>5. NextInScope(c) \in 1..NumCAs
      BY <1>1, <2>4, Zenon DEF CAs
    <2>6. NextInScope(c) \in 1..NumCAs + 1
      BY <1>1, <2>5
    <2>. QED
      BY <2>4, <2>6
  <1>3. CASE ~\E d \in Scope : d > c
    BY <1>1, <1>3 DEF NextInScope
  <1>. QED
    BY <1>2, <1>3

-----------------------------------------------------------------------------
(* The inductive invariant.                                                *)

\* The scan checks and admits ContentArtifacts of the scope only, and every
\* repair task was started for one.
ScanInScope ==
    /\ spc \in {"verify", "admit"} => pos \in Scope
    /\ \A c \in CAs : tpc[c] # "idle" => c \in Scope

\* Every in-flight repair is still in pending, and pending never exceeds the cap.
PendingCapped ==
    /\ \A c \in CAs : Running(c) => c \in pending
    /\ Cardinality(pending) <= MaxPending

IInv == TypeOK /\ ScanInScope /\ PendingCapped

\* pending is a finite set.
LEMMA PendingFinite ==
    ASSUME TypeOK
    PROVE  IsFiniteSet(pending)
  <1>0. NumCAs \in Nat
    BY RepairAssumption, Zenon
  <1>1. IsFiniteSet(CAs)
    BY <1>0, FS_Interval DEF CAs
  <1>. QED
    BY <1>1, FS_Subset DEF TypeOK

LEMMA InitIInv == Init => IInv
  <1> SUFFICES ASSUME Init PROVE IInv
    OBVIOUS
  <1>1. NextInScope(0) \in 1..NumCAs + 1
    BY NextInScopeType
  <1>2. Cardinality(pending) = 0
    BY FS_EmptySet DEF Init
  <1>3. TypeOK
    BY <1>1 DEF Init, TypeOK
  <1>4. MaxPending \in Nat \ {0}
    BY RepairAssumption, Zenon
  <1>. QED
    BY <1>2, <1>3, <1>4 DEF Init, IInv, ScanInScope, PendingCapped, Running

\* Facts about the constants that the steps below use.
LEMMA ConstantFacts ==
    /\ NumCAs \in Nat
    /\ MaxPending \in Nat \ {0}
    /\ ArtOf \in [CAs -> Artifacts \cup {NoArtifact}]
    /\ NoArtifact \notin Artifacts
    /\ Sources \in [CAs -> Seq({"good", "corrupt"})]
  BY RepairAssumption, Zenon

\* A ContentArtifact of the scope has an Artifact.
LEMMA ScopeArtifact ==
    ASSUME NEW c \in Scope
    PROVE  c \in CAs /\ ArtOf[c] \in Artifacts
  BY ConstantFacts DEF Scope

\* Adding one element to a finite set adds at most one to its size.
LEMMA CardAddBound ==
    ASSUME NEW S, IsFiniteSet(S), NEW x
    PROVE  Cardinality(S \cup {x}) <= Cardinality(S) + 1
  <1>1. Cardinality(S) \in Nat
    BY FS_CardinalityType
  <1>2. Cardinality(S \cup {x}) = IF x \in S THEN Cardinality(S) ELSE Cardinality(S) + 1
    BY FS_AddElement
  <1>3. CASE x \in S
    BY <1>1, <1>2, <1>3
  <1>4. CASE x \notin S
    BY <1>1, <1>2, <1>4
  <1>. QED
    BY <1>3, <1>4

\* Starting a repair or moving the scan keeps the invariant.
LEMMA AdmitIInv ==
    ASSUME IInv, Admit
    PROVE  IInv'
  <1>1. pos \in Scope /\ pos \in CAs
    BY ScopeArtifact DEF Admit, IInv, ScanInScope
  <1>2. pos \in Nat
    BY <1>1 DEF CAs
  <1>3. NextInScope(pos) \in 1..NumCAs + 1
    BY <1>2, NextInScopeType
  <1>4. IsFiniteSet(pending)
    BY PendingFinite DEF IInv
  <1>. DEFINE D == IF AtCap(pending) THEN {c \in pending : Done(c)} ELSE {}
  <1>0. PICK K : K = pending \ D
    OBVIOUS
  <1>6. K \subseteq pending /\ IsFiniteSet(K)
    BY <1>0, <1>4, FS_Subset
  <1>12. \A c \in CAs : Running(c) => c \in K
    BY <1>0 DEF IInv, PendingCapped, Running, Done
  <1>13. Cardinality(K) \in Nat /\ Cardinality(pending) \in Nat /\ MaxPending \in Nat
    BY <1>4, <1>6, FS_CardinalityType, ConstantFacts
  <1>14. CASE \E c \in D : tpc[c] = "raised"
    <2>1. pending' = K /\ spc' = "failed" /\ UNCHANGED <<pos, tpc>>
      BY <1>0, <1>14 DEF Admit
    <2>2. Cardinality(K) <= Cardinality(pending)
      BY <1>4, <1>6, FS_Subset
    <2>3. UNCHANGED <<file, damage, verify, src, missing, corrupted, repaired>>
      BY DEF Admit
    <2>. QED
      BY <1>12, <1>13, <1>6, <2>1, <2>2, <2>3 DEF IInv, TypeOK, ScanInScope, PendingCapped, Running
  <1>15. CASE ~\E c \in D : tpc[c] = "raised"
    <2>5. pending' = K \cup {pos} /\ tpc' = [tpc EXCEPT ![pos] = "start"] /\ Advance
      BY <1>0, <1>15 DEF Admit
    <2>7. Cardinality(K) < MaxPending
      <3>1. CASE AtCap(pending)
        <4>1. PICK x \in pending : Done(x)
          BY <3>1 DEF Admit
        <4>2. K # pending
          BY <1>0, <3>1, <4>1
        <4>3. Cardinality(K) < Cardinality(pending)
          BY <1>4, <1>6, <4>2, FS_Subset, FS_CardinalityType
        <4>. QED
          BY <1>13, <4>3 DEF IInv, PendingCapped
      <3>2. CASE ~AtCap(pending)
        <4>1. K = pending
          BY <1>0, <3>2
        <4>. QED
          BY <1>13, <3>2, <4>1 DEF AtCap
      <3>. QED
        BY <3>1, <3>2
    <2>8. Cardinality(pending') <= MaxPending
      <3>1. Cardinality(K \cup {pos}) <= Cardinality(K) + 1
        BY <1>6, CardAddBound
      <3>4. IsFiniteSet(K \cup {pos})
        BY <1>6, FS_AddElement
      <3>5. Cardinality(K \cup {pos}) \in Nat
        BY <3>4, FS_CardinalityType
      <3>. QED
        BY <1>13, <2>5, <2>7, <3>1, <3>5
    <2>9. TypeOK'
      BY <1>1, <1>3, <1>6, <2>5 DEF Admit, Advance, IInv, TypeOK
    <2>10. ScanInScope'
      BY <1>1, <2>5 DEF Admit, Advance, IInv, ScanInScope
    <2>11. ASSUME NEW c \in CAs, Running(c)' PROVE c \in pending'
      <3>1. CASE c = pos
        BY <2>5, <3>1
      <3>2. CASE c # pos
        BY <1>12, <2>5, <3>2, <2>11 DEF Running
      <3>. QED
        BY <3>1, <3>2
    <2>. QED
      BY <2>8, <2>9, <2>10, <2>11 DEF IInv, PendingCapped
  <1>. QED
    BY <1>14, <1>15

\* The scan's existence check and checksum keep the invariant.
LEMMA ScanIInv ==
    ASSUME IInv, ScanExists \/ ScanVerify
    PROVE  IInv'
  <1>1. pos \in Nat /\ NextInScope(pos) \in 1..NumCAs + 1
    BY NextInScopeType DEF IInv, TypeOK
  <1>2. UNCHANGED <<file, damage, verify, pending, tpc, src>>
    BY DEF ScanExists, ScanVerify
  <1>3. missing' \in Nat /\ corrupted' \in Nat
    BY DEF ScanExists, ScanVerify, IInv, TypeOK
  <1>4. spc' \in {"scan", "verify", "admit", "failed"}
    BY DEF ScanExists, ScanVerify, Advance
  <1>5. spc' \in {"verify", "admit"} => pos' = pos /\ pos \in Scope
    BY DEF ScanExists, ScanVerify, Advance, IInv, ScanInScope
  <1>6. pos' \in 1..NumCAs + 1
    BY <1>1 DEF ScanExists, ScanVerify, Advance, IInv, TypeOK
  <1>7. repaired' = repaired
    BY DEF ScanExists, ScanVerify
  <1>. QED
    BY <1>2, <1>3, <1>4, <1>5, <1>6, <1>7 DEF IInv, TypeOK, ScanInScope, PendingCapped, Running

\* The first step of a repair task keeps the invariant.
LEMMA RepairStartIInv ==
    ASSUME IInv, NEW c \in CAs, RepairStart(c)
    PROVE  IInv'
  <1>1. c \in Scope /\ ArtOf[c] \in Artifacts
    BY ScopeArtifact DEF RepairStart, IInv, ScanInScope
  <1>2. Sources[c] \in Seq({"good", "corrupt"})
    BY ConstantFacts
  <1>3. UNCHANGED <<damage, verify, pos, spc, pending, missing, corrupted, repaired>>
    BY DEF RepairStart
  <1>4. CASE file' = [file EXCEPT ![ArtOf[c]] = "absent"] /\ tpc' = [tpc EXCEPT ![c] = "unrepaired"]
             /\ UNCHANGED src
    BY <1>1, <1>3, <1>4 DEF IInv, TypeOK, ScanInScope, PendingCapped, Running, FileStates
  <1>5. CASE Raise(c) /\ UNCHANGED <<src, file>>
    BY <1>1, <1>3, <1>5 DEF Raise, IInv, TypeOK, ScanInScope, PendingCapped, Running
  <1>6. CASE Sources[c] # <<>> /\ tpc' = [tpc EXCEPT ![c] = "fetch"] /\ src' = [src EXCEPT ![c] = 1]
             /\ UNCHANGED file
    <2>2. 1 \in 1..Len(Sources[c])
      BY <1>2, <1>6
    <2>3. Running(c) /\ c \in pending
      BY DEF RepairStart, Running, IInv, PendingCapped
    <2>. QED
      BY <1>1, <1>3, <1>6, <2>2, <2>3 DEF IInv, TypeOK, ScanInScope, PendingCapped, Running
  <1>. QED
    BY <1>4, <1>5, <1>6 DEF RepairStart

\* Moving to the next source, or giving up, keeps the invariant.
LEMMA NextSourceIInv ==
    ASSUME IInv, NEW c \in CAs, tpc[c] = "fetch", NextSource(c),
           UNCHANGED <<damage, verify, pos, spc, pending, missing, corrupted, repaired>>
    PROVE  IInv'
  <1>1. c \in Scope /\ ArtOf[c] \in Artifacts
    BY ScopeArtifact DEF IInv, ScanInScope
  <1>2. Sources[c] \in Seq({"good", "corrupt"}) /\ src[c] \in 1..Len(Sources[c])
    BY ConstantFacts DEF IInv, TypeOK
  <1>3. CASE src[c] < Len(Sources[c])
    <2>1. src' = [src EXCEPT ![c] = @ + 1] /\ UNCHANGED <<file, tpc>>
      BY <1>3 DEF NextSource
    <2>2. src[c] + 1 \in 1..Len(Sources[c])
      BY <1>2, <1>3
    <2>. QED
      BY <2>1, <2>2 DEF IInv, TypeOK, ScanInScope, PendingCapped, Running
  <1>4. CASE ~(src[c] < Len(Sources[c]))
    <2>1. \/ file' = [file EXCEPT ![ArtOf[c]] = "absent"] /\ tpc' = [tpc EXCEPT ![c] = "unrepaired"]
          \/ Raise(c) /\ UNCHANGED file
      BY <1>4 DEF NextSource
    <2>2. UNCHANGED src
      BY <1>4 DEF NextSource
    <2>. QED
      BY <1>1, <2>1, <2>2 DEF Raise, IInv, TypeOK, ScanInScope, PendingCapped, Running, FileStates
  <1>. QED
    BY <1>3, <1>4

\* A download keeps the invariant.
LEMMA FetchIInv ==
    ASSUME IInv, NEW c \in CAs, Fetch(c)
    PROVE  IInv'
  <1>1. UNCHANGED <<damage, verify, pos, spc, pending, missing, corrupted, repaired>>
    BY DEF Fetch
  <1>2. CASE NextSource(c)
    BY <1>1, <1>2, NextSourceIInv DEF Fetch
  <1>4. CASE Raise(c) /\ UNCHANGED <<src, file>>
    <2>1. c \in Scope /\ ArtOf[c] \in Artifacts
      BY ScopeArtifact DEF Fetch, IInv, ScanInScope
    <2>. QED
      BY <1>1, <1>4, <2>1 DEF Raise, IInv, TypeOK, ScanInScope, PendingCapped, Running
  <1>3. CASE file' = [file EXCEPT ![ArtOf[c]] = "absent"] /\ tpc' = [tpc EXCEPT ![c] = "save"]
             /\ UNCHANGED src
    <2>1. file' = [file EXCEPT ![ArtOf[c]] = "absent"] /\ tpc' = [tpc EXCEPT ![c] = "save"]
          /\ UNCHANGED src /\ tpc[c] = "fetch"
      BY <1>3 DEF Fetch
    <2>2. c \in Scope /\ ArtOf[c] \in Artifacts
      BY <2>1, ScopeArtifact DEF IInv, ScanInScope
    <2>3. Running(c) /\ c \in pending
      BY <2>1 DEF Running, IInv, PendingCapped
    <2>. QED
      BY <1>1, <2>1, <2>2, <2>3 DEF IInv, TypeOK, ScanInScope, PendingCapped, Running, FileStates
  <1>. QED
    BY <1>2, <1>3, <1>4 DEF Fetch

\* Saving the download keeps the invariant.
LEMMA SaveIInv ==
    ASSUME IInv, NEW c \in CAs, Save(c)
    PROVE  IInv'
  <1>1. c \in Scope /\ ArtOf[c] \in Artifacts
    BY ScopeArtifact DEF Save, IInv, ScanInScope
  <1>2. Sources[c][src[c]] \in {"good", "corrupt"}
    <2>1. Sources[c] \in Seq({"good", "corrupt"}) /\ src[c] \in 1..Len(Sources[c])
      BY ConstantFacts DEF Save, IInv, TypeOK
    <2>. QED
      BY <2>1
  <1>3. UNCHANGED <<damage, verify, pos, spc, pending, src, missing, corrupted>>
    BY DEF Save
  <1>4. CASE file' = [file EXCEPT ![ArtOf[c]] = Sources[c][src[c]]]
             /\ tpc' = [tpc EXCEPT ![c] = "repaired"] /\ repaired' = repaired + 1
    BY <1>1, <1>2, <1>3, <1>4 DEF IInv, TypeOK, ScanInScope, PendingCapped, Running, FileStates
  <1>5. CASE Raise(c) /\ UNCHANGED <<file, repaired>>
    BY <1>1, <1>3, <1>5 DEF Raise, IInv, TypeOK, ScanInScope, PendingCapped, Running
  <1>. QED
    BY <1>4, <1>5 DEF Save

LEMMA NextIInv == IInv /\ [Next]_vars => IInv'
  <1> SUFFICES ASSUME IInv, [Next]_vars PROVE IInv'
    OBVIOUS
  <1>1. CASE ScanExists \/ ScanVerify
    BY <1>1, ScanIInv
  <1>2. CASE Admit
    BY <1>2, AdmitIInv
  <1>3. CASE Gather
    BY <1>3 DEF Gather, IInv, TypeOK, ScanInScope, PendingCapped, Running
  <1>4. ASSUME NEW c \in CAs, RepairStart(c) \/ Fetch(c) \/ Save(c) PROVE IInv'
    BY <1>4, RepairStartIInv, FetchIInv, SaveIInv
  <1>5. CASE Idle \/ UNCHANGED vars
    BY <1>5 DEF Idle, vars, IInv, TypeOK, ScanInScope, PendingCapped, Running
  <1>. QED
    BY <1>1, <1>2, <1>3, <1>4, <1>5 DEF Next

\* The variables keep their types in every reachable state of the repair.
THEOREM TypeCorrect == Spec => []TypeOK
  <1>1. IInv => TypeOK
    BY DEF IInv
  <1>. QED
    BY <1>1, InitIInv, NextIInv, PTL DEF Spec

\* Admission (lines 156-162): for every cap and every set of ContentArtifacts,
\* never more than MaxPending repairs are in flight at once.
THEOREM InFlightBounded == Spec => []InFlightBound
  <1>1. IInv => InFlightBound
    <2> SUFFICES ASSUME IInv PROVE InFlightBound
      OBVIOUS
    <2>1. IsFiniteSet(pending)
      BY PendingFinite DEF IInv
    <2>2. {c \in CAs : Running(c)} \subseteq pending
      BY DEF IInv, PendingCapped
    <2>3. Cardinality({c \in CAs : Running(c)}) <= Cardinality(pending)
      BY <2>1, <2>2, FS_Subset
    <2>4. Cardinality({c \in CAs : Running(c)}) \in Nat /\ Cardinality(pending) \in Nat
      BY <2>1, <2>2, FS_Subset, FS_CardinalityType
    <2>5. MaxPending \in Nat
      BY ConstantFacts
    <2>. QED
      BY <2>3, <2>4, <2>5 DEF IInv, PendingCapped, InFlightBound
  <1>. QED
    BY <1>1, InitIInv, NextIInv, PTL DEF Spec


-----------------------------------------------------------------------------
(* A repair never harms a file, even when a storage error ends the run.    *)

\* Every repair task was started for an invalid artifact.
TasksInvalid == \A c \in CAs : tpc[c] # "idle" => Invalid(c)

\* The scan admits only what it found invalid, and hashes only when asked to.
ScanFound ==
    /\ spc = "admit" => Invalid(pos)
    /\ spc = "verify" => verify

\* A task about to save holds a download with the Artifact's digest.
SaveGood == \A c \in CAs : tpc[c] = "save" => Sources[c][src[c]] = "good"

HarmInv == IInv /\ RepairNeverHarms /\ TasksInvalid /\ ScanFound /\ SaveGood

LEMMA InitHarm == Init => HarmInv
  <1> SUFFICES ASSUME Init PROVE HarmInv
    OBVIOUS
  <1>1. IInv
    BY InitIInv
  <1>. QED
    BY <1>1 DEF Init, HarmInv, RepairNeverHarms, TasksInvalid, ScanFound, SaveGood

\* Whether an artifact is invalid depends on the artifact only.
LEMMA InvalidOfArtifact ==
    ASSUME NEW c, NEW d, ArtOf[c] = ArtOf[d], Invalid(d)
    PROVE  Invalid(c)
  BY DEF Invalid

\* What the scan finds missing, or corrupt when hashing, is invalid.
LEMMA FoundInvalid ==
    ASSUME HarmInv, NEW c \in Scope,
           file[ArtOf[c]] = "absent" \/ (verify /\ file[ArtOf[c]] # "good")
    PROVE  Invalid(c)
  <1>1. ArtOf[c] \in Artifacts
    BY ScopeArtifact
  <1>2. CASE file[ArtOf[c]] = damage[ArtOf[c]]
    <2>1. damage[ArtOf[c]] \in FileStates
      BY <1>1 DEF HarmInv, IInv, TypeOK
    <2>. QED
      BY <1>2, <2>1 DEF Invalid, FileStates
  <1>3. CASE file[ArtOf[c]] # damage[ArtOf[c]]
    <2>1. PICK d \in Scope : ArtOf[d] = ArtOf[c] /\ Invalid(d)
      BY <1>1, <1>3 DEF HarmInv, RepairNeverHarms
    <2>. QED
      BY <2>1, InvalidOfArtifact
  <1>. QED
    BY <1>2, <1>3

\* A step of the repair task of c keeps the invariant's last four parts
\* when it writes good bytes or no file, and only to its own artifact.
LEMMA TaskStepHarm ==
    ASSUME HarmInv, NEW c \in CAs, tpc[c] \in {"start", "fetch", "save"},
           UNCHANGED <<damage, verify, pos, spc>>,
           \/ UNCHANGED file
           \/ \E v \in {"good", "absent"} : file' = [file EXCEPT ![ArtOf[c]] = v],
           tpc' \in [CAs -> {"idle", "start", "fetch", "save", "repaired", "unrepaired", "raised"}],
           \A d \in CAs : d # c => tpc'[d] = tpc[d] /\ src'[d] = src[d],
           tpc'[c] # "idle",
           tpc'[c] = "save" => Sources[c][src'[c]] = "good"
    PROVE  RepairNeverHarms' /\ TasksInvalid' /\ ScanFound' /\ SaveGood'
  <1>1. c \in Scope /\ ArtOf[c] \in Artifacts /\ Invalid(c)
    BY ScopeArtifact DEF HarmInv, IInv, ScanInScope, TasksInvalid
  <1>2. RepairNeverHarms'
    <2> SUFFICES ASSUME NEW a \in Artifacts, file'[a] # damage'[a]
                 PROVE  file'[a] \in {"good", "absent"} /\ \E d \in Scope : ArtOf[d] = a /\ Invalid(d)
      BY DEF RepairNeverHarms, Invalid
    <2>1. CASE UNCHANGED file
      BY <2>1 DEF HarmInv, RepairNeverHarms, Invalid
    <2>2. CASE \E v \in {"good", "absent"} : file' = [file EXCEPT ![ArtOf[c]] = v]
      <3>1. PICK v \in {"good", "absent"} : file' = [file EXCEPT ![ArtOf[c]] = v]
        BY <2>2
      <3>2. CASE a = ArtOf[c]
        BY <1>1, <3>1, <3>2 DEF HarmInv, IInv, TypeOK
      <3>3. CASE a # ArtOf[c]
        BY <3>1, <3>3 DEF HarmInv, IInv, TypeOK, RepairNeverHarms
      <3>. QED
        BY <3>2, <3>3
    <2>. QED
      BY <2>1, <2>2
  <1>3. TasksInvalid'
    BY <1>1 DEF HarmInv, TasksInvalid, Invalid
  <1>4. ScanFound'
    BY DEF HarmInv, ScanFound, Invalid
  <1>5. SaveGood'
    BY DEF HarmInv, SaveGood
  <1>. QED
    BY <1>2, <1>3, <1>4, <1>5


\* The scan's checks change no file and admit only what they found invalid.
LEMMA ScanHarm ==
    ASSUME HarmInv, ScanExists \/ ScanVerify
    PROVE  RepairNeverHarms' /\ TasksInvalid' /\ ScanFound' /\ SaveGood'
  <1>1. UNCHANGED <<file, damage, verify, tpc, src>>
    BY DEF ScanExists, ScanVerify
  <1>2. RepairNeverHarms' /\ TasksInvalid' /\ SaveGood'
    BY <1>1 DEF HarmInv, RepairNeverHarms, TasksInvalid, SaveGood, Invalid
  <1>3. CASE ScanExists
    <2>1. pos \in Scope
      BY <1>3 DEF ScanExists
    <2>2. spc' = "admit" => file[ArtOf[pos]] = "absent" /\ pos' = pos
      BY <1>3 DEF ScanExists, Advance
    <2>3. spc' = "verify" => verify
      BY <1>1, <1>3 DEF ScanExists, Advance
    <2>4. spc' = "admit" => Invalid(pos)
      BY <2>1, <2>2, FoundInvalid
    <2>5. spc' = "admit" => Invalid(pos)'
      BY <1>1, <2>2, <2>4 DEF Invalid
    <2>. QED
      BY <1>1, <1>2, <2>3, <2>5 DEF ScanFound
  <1>4. CASE ScanVerify
    <2>1. pos \in Scope /\ verify
      BY <1>4 DEF ScanVerify, HarmInv, IInv, ScanInScope, ScanFound
    <2>2. spc' = "admit" => file[ArtOf[pos]] # "good" /\ pos' = pos
      BY <1>4 DEF ScanVerify, Advance
    <2>3. spc' # "verify"
      BY <1>4 DEF ScanVerify, Advance
    <2>4. spc' = "admit" => Invalid(pos)
      BY <2>1, <2>2, FoundInvalid
    <2>5. spc' = "admit" => Invalid(pos)'
      BY <1>1, <2>2, <2>4 DEF Invalid
    <2>. QED
      BY <1>2, <2>3, <2>5 DEF ScanFound
  <1>. QED
    BY <1>2, <1>3, <1>4

\* Admission starts the repair of what the scan found invalid.
LEMMA AdmitHarm ==
    ASSUME HarmInv, Admit
    PROVE  RepairNeverHarms' /\ TasksInvalid' /\ ScanFound' /\ SaveGood'
  <1>1. UNCHANGED <<file, damage, verify, src>>
    BY DEF Admit
  <1>2. RepairNeverHarms'
    BY <1>1 DEF HarmInv, RepairNeverHarms, Invalid
  <1>3. pos \in CAs /\ Invalid(pos)
    BY ScopeArtifact DEF Admit, HarmInv, IInv, ScanInScope, ScanFound
  <1>4. \/ UNCHANGED tpc /\ spc' = "failed"
        \/ tpc' = [tpc EXCEPT ![pos] = "start"] /\ spc' = "scan"
    BY DEF Admit, Advance
  <1>5. CASE UNCHANGED tpc /\ spc' = "failed"
    BY <1>1, <1>2, <1>5 DEF HarmInv, TasksInvalid, ScanFound, SaveGood, Invalid
  <1>6. CASE tpc' = [tpc EXCEPT ![pos] = "start"] /\ spc' = "scan"
    <2>1. TasksInvalid'
      BY <1>1, <1>3, <1>6 DEF HarmInv, TasksInvalid, Invalid
    <2>2. SaveGood'
      BY <1>1, <1>3, <1>6 DEF HarmInv, SaveGood
    <2>. QED
      BY <1>2, <1>6, <2>1, <2>2 DEF ScanFound
  <1>. QED
    BY <1>4, <1>5, <1>6

\* The first step of a repair task harms no file.
LEMMA RepairStartHarm ==
    ASSUME HarmInv, TypeOK', NEW c \in CAs, RepairStart(c)
    PROVE  RepairNeverHarms' /\ TasksInvalid' /\ ScanFound' /\ SaveGood'
  <1>1. tpc \in [CAs -> {"idle", "start", "fetch", "save", "repaired", "unrepaired", "raised"}]
        /\ src \in [CAs -> Nat]
    BY DEF HarmInv, IInv, TypeOK
  <1>2. UNCHANGED <<damage, verify, pos, spc>> /\ tpc[c] = "start"
    BY DEF RepairStart
  <1>3. \/ file' = [file EXCEPT ![ArtOf[c]] = "absent"] /\ tpc' = [tpc EXCEPT ![c] = "unrepaired"] /\ UNCHANGED src
        \/ tpc' = [tpc EXCEPT ![c] = "raised"] /\ UNCHANGED <<src, file>>
        \/ tpc' = [tpc EXCEPT ![c] = "fetch"] /\ src' = [src EXCEPT ![c] = 1] /\ UNCHANGED file
    BY DEF RepairStart, Raise
  <1>. QED
    BY <1>1, <1>2, <1>3, TaskStepHarm DEF TypeOK

\* A download step writes no file but deletes its own, and saves only a
\* download with the Artifact's digest.
LEMMA FetchHarm ==
    ASSUME HarmInv, TypeOK', NEW c \in CAs, Fetch(c)
    PROVE  RepairNeverHarms' /\ TasksInvalid' /\ ScanFound' /\ SaveGood'
  <1>1. tpc \in [CAs -> {"idle", "start", "fetch", "save", "repaired", "unrepaired", "raised"}]
        /\ src \in [CAs -> Nat]
    BY DEF HarmInv, IInv, TypeOK
  <1>2. UNCHANGED <<damage, verify, pos, spc>> /\ tpc[c] = "fetch"
    BY DEF Fetch
  <1>3. \/ src' = [src EXCEPT ![c] = src[c] + 1] /\ UNCHANGED <<file, tpc>>
        \/ file' = [file EXCEPT ![ArtOf[c]] = "absent"] /\ tpc' = [tpc EXCEPT ![c] = "unrepaired"] /\ UNCHANGED src
        \/ tpc' = [tpc EXCEPT ![c] = "raised"] /\ UNCHANGED <<src, file>>
        \/ /\ DigestMatches(c)
           /\ file' = [file EXCEPT ![ArtOf[c]] = "absent"] /\ tpc' = [tpc EXCEPT ![c] = "save"] /\ UNCHANGED src
    BY DEF Fetch, NextSource, Raise
  <1>. QED
    BY <1>1, <1>2, <1>3, TaskStepHarm DEF TypeOK, DigestMatches

\* Saving writes the download, which has the Artifact's digest.
LEMMA SaveHarm ==
    ASSUME HarmInv, TypeOK', NEW c \in CAs, Save(c)
    PROVE  RepairNeverHarms' /\ TasksInvalid' /\ ScanFound' /\ SaveGood'
  <1>1. tpc \in [CAs -> {"idle", "start", "fetch", "save", "repaired", "unrepaired", "raised"}]
        /\ src \in [CAs -> Nat]
    BY DEF HarmInv, IInv, TypeOK
  <1>2. UNCHANGED <<damage, verify, pos, spc, src>> /\ tpc[c] = "save"
    BY DEF Save
  <1>3. Sources[c][src[c]] = "good"
    BY <1>2 DEF HarmInv, SaveGood
  <1>4. \/ file' = [file EXCEPT ![ArtOf[c]] = "good"] /\ tpc' = [tpc EXCEPT ![c] = "repaired"]
        \/ tpc' = [tpc EXCEPT ![c] = "raised"] /\ UNCHANGED file
    BY <1>3 DEF Save, Raise
  <1>. QED
    BY <1>1, <1>2, <1>4, TaskStepHarm DEF TypeOK

LEMMA NextHarm == HarmInv /\ [Next]_vars => HarmInv'
  <1> SUFFICES ASSUME HarmInv, [Next]_vars PROVE HarmInv'
    OBVIOUS
  <1>0. IInv' /\ TypeOK'
    BY NextIInv DEF HarmInv, IInv
  <1>1. CASE ScanExists \/ ScanVerify
    BY <1>0, <1>1, ScanHarm DEF HarmInv
  <1>2. CASE Admit
    BY <1>0, <1>2, AdmitHarm DEF HarmInv
  <1>3. CASE Gather \/ Idle \/ UNCHANGED vars
    <2>1. UNCHANGED <<file, damage, verify, tpc, src>> /\ spc' \in {spc, "done", "failed"}
          /\ UNCHANGED pos
      BY <1>3 DEF Gather, Idle, vars
    <2>. QED
      BY <1>0, <2>1 DEF HarmInv, RepairNeverHarms, TasksInvalid, ScanFound, SaveGood, Invalid
  <1>4. ASSUME NEW c \in CAs, RepairStart(c) \/ Fetch(c) \/ Save(c) PROVE HarmInv'
    BY <1>0, <1>4, RepairStartHarm, FetchHarm, SaveHarm DEF HarmInv
  <1>. QED
    BY <1>1, <1>2, <1>3, <1>4 DEF Next

\* Spec 5 and 7 (RepairNeverHarms), for every layout of artifacts, sources
\* and scope, every cap and every storage error: a file has changed only if
\* its artifact was found invalid, and only to good bytes or to no file, so
\* a repair ended by a storage error with repairs in flight is safe to rerun.
THEOREM NeverHarms == Spec => []RepairNeverHarms
  <1>1. HarmInv => RepairNeverHarms
    BY DEF HarmInv
  <1>. QED
    BY <1>1, InitHarm, NextHarm, PTL DEF Spec

=============================================================================
