------------------------ MODULE RepairOutcomeProofs ------------------------
(***************************************************************************)
(* Proofs of what a repair run reports and leaves behind: the counters of  *)
(* its ProgressReports, the file of every artifact when it ends, and that  *)
(* repair_version stays within its version.  They hold for every layout:   *)
(* ContentArtifacts that share an Artifact are repaired concurrently into  *)
(* one file (line 87), so the invariant speaks of each Artifact and of the *)
(* set of its ContentArtifacts' repair tasks.                              *)
(***************************************************************************)
EXTENDS RepairEngineProofs

-----------------------------------------------------------------------------
(* The inductive invariant.                                                *)

\* The ContentArtifacts whose checks the counters already include.
Counted == {c \in Scope : c < pos \/ (c = pos /\ spc = "admit")}

\* The ContentArtifacts whose repair task has been started.
Started == {c \in CAs : tpc[c] # "idle"}

\* The ContentArtifacts of S that lead their Artifact and found its file
\* missing, or corrupt and hashed.
LeadMissing(S) == {c \in S : Leads(c) /\ damage[ArtOf[c]] = "absent"}
LeadCorrupt(S) == {c \in S : Leads(c) /\ verify /\ damage[ArtOf[c]] = "corrupt"}

\* While the scan runs, every count is a repair task started, or about to be
\* started at admission; the leaders checked so far are all counted; a
\* leader at the checksum was found present.
CountsInv ==
    spc \in {"scan", "verify", "admit", "done"} =>
        /\ missing + corrupted = Cardinality(Started) + (IF spc = "admit" THEN 1 ELSE 0)
        /\ Cardinality(LeadMissing(Counted)) <= missing
        /\ Cardinality(LeadCorrupt(Counted)) <= corrupted
        /\ spc = "verify" /\ Leads(pos) => damage[ArtOf[pos]] # "absent"

\* repaired counts the tasks that returned True.
RepairedInv == repaired = Cardinality({c \in CAs : tpc[c] = "repaired"})

\* A repair is started only for a ContentArtifact the scan has passed.
StartedBefore == \A c \in CAs : tpc[c] # "idle" => c < pos

\* Some ContentArtifact of Artifact a has its repair task at st.
HasTask(a, st) == \E d \in UsersOf(a) : tpc[d] = st

\* The file of an Artifact: untouched while none of its repairs started;
\* good or absent once one returned; good while every one that returned
\* returned True and none deleted the file since; absent while every one
\* that returned returned False.
FilesInv ==
    \A a \in Artifacts :
        /\ (\A d \in UsersOf(a) : tpc[d] = "idle") => file[a] = damage[a]
        /\ HasTask(a, "repaired") \/ HasTask(a, "unrepaired") => file[a] \in {"good", "absent"}
        /\ HasTask(a, "repaired") /\ ~HasTask(a, "unrepaired") /\ ~HasTask(a, "save")
             /\ ~HasTask(a, "raised") => file[a] = "good"
        /\ HasTask(a, "unrepaired") /\ ~HasTask(a, "repaired") => file[a] = "absent"

\* A task that raised stays in pending until a gather re-raises it.
RaisedPending == spc # "failed" => \A c \in CAs : tpc[c] = "raised" => c \in pending

\* Every invalid ContentArtifact the scan has passed has a repair of its
\* Artifact started, its own or another's.
InvalidStarted ==
    \A c \in Scope : c < pos /\ Invalid(c) => \E d \in UsersOf(ArtOf[c]) : tpc[d] # "idle"

\* A finished run has scanned everything, and has no task in flight and
\* none that raised.
DoneInv ==
    spc = "done" =>
        /\ pos = NumCAs + 1
        /\ \A c \in CAs : tpc[c] \in {"idle", "repaired", "unrepaired"}

OutInv ==
    /\ HarmInv /\ CountsInv /\ RepairedInv /\ StartedBefore /\ FilesInv
    /\ RaisedPending /\ InvalidStarted /\ DoneInv

-----------------------------------------------------------------------------
(* Lemmas.                                                                 *)

\* The async iterator skips no ContentArtifact of the scope: after c it
\* moves to the first one above c.
LEMMA NextInScopeGap ==
    ASSUME NEW c \in Nat
    PROVE  \A e \in Scope : e < NextInScope(c) <=> e <= c
  <1> SUFFICES ASSUME NEW e \in Scope PROVE e < NextInScope(c) <=> e <= c
    OBVIOUS
  <1>1. Scope \subseteq 1..NumCAs /\ NumCAs \in Nat
    BY ConstantFacts DEF Scope, CAs
  <1>0. Scope \subseteq Nat
    BY <1>1
  <1>2. CASE \E d \in Scope : d > c
    <2>. DEFINE Later == {d \in Scope : d > c}
    <2>1. Later \subseteq Nat /\ Later # {}
      BY <1>0, <1>2, Zenon DEF Later
    <2>2. PICK x \in Later : \A y \in Later : x <= y
      BY <2>1, MinExists
    <2>3. \E x2 \in Scope : x2 > c /\ \A y \in Scope : y > c => x2 <= y
      BY <2>2, Zenon DEF Later
    <2>4. /\ NextInScope(c) \in Scope /\ NextInScope(c) > c
          /\ \A y \in Scope : y > c => NextInScope(c) <= y
      BY <1>2, <2>3 DEF NextInScope
    <2>5. e \in Nat /\ NextInScope(c) \in Nat
      BY <1>0, <2>4, Zenon
    <2>6. e > c => NextInScope(c) <= e
      BY <2>4
    <2>. QED
      BY <2>4, <2>5, <2>6
  <1>3. CASE ~\E d \in Scope : d > c
    <2>1. NextInScope(c) = NumCAs + 1
      BY <1>3 DEF NextInScope
    <2>2. ~(e > c)
      BY <1>3
    <2>. QED
      BY <1>1, <2>1, <2>2
  <1>. QED
    BY <1>2, <1>3

\* Adding a new ContentArtifact to a set of them adds one to its size.
LEMMA CardPlusOne ==
    ASSUME NEW S \in SUBSET CAs, NEW x, x \notin S
    PROVE  Cardinality(S \cup {x}) = Cardinality(S) + 1
  <1>1. IsFiniteSet(CAs)
    BY ConstantFacts, FS_Interval DEF CAs
  <1>2. IsFiniteSet(S)
    BY <1>1, FS_Subset
  <1>. QED
    BY <1>2, FS_AddElement

\* The scan starts before the first ContentArtifact of the scope.
LEMMA InitCounted == Init => Counted = {}
  <1> SUFFICES ASSUME Init, NEW e \in Scope PROVE ~(e < pos)
    BY DEF Counted, Init
  <1>1. e >= 1 /\ e \in Nat
    BY ConstantFacts DEF Scope, CAs
  <1>2. e < NextInScope(0) <=> e <= 0
    BY NextInScopeGap
  <1>. QED
    BY <1>1, <1>2 DEF Init

LEMMA InitOut == Init => OutInv
  <1> SUFFICES ASSUME Init PROVE OutInv
    OBVIOUS
  <1>1. HarmInv
    BY InitHarm
  <1>2. Counted = {} /\ Started = {}
    BY InitCounted DEF Init, Started
  <1>3. CountsInv
    BY <1>2, FS_EmptySet DEF Init, CountsInv, LeadMissing, LeadCorrupt
  <1>4. {c \in CAs : tpc[c] = "repaired"} = {}
    BY DEF Init
  <1>5. RepairedInv
    BY <1>4, FS_EmptySet DEF Init, RepairedInv
  <1>6. InvalidStarted
    <2>1. ASSUME NEW e \in Scope PROVE ~(e < pos)
      BY <1>2 DEF Counted
    <2>. QED
      BY <2>1 DEF InvalidStarted
  <1>7. StartedBefore /\ RaisedPending /\ DoneInv
    BY DEF Init, StartedBefore, RaisedPending, DoneInv
  <1>8. FilesInv
    BY DEF Init, FilesInv, HasTask, UsersOf, Scope
  <1>. QED
    BY <1>1, <1>3, <1>5, <1>6, <1>7, <1>8 DEF OutInv

\* Counting one more checked ContentArtifact x adds x to the leaders of its kind.
LEMMA LeadAdd ==
    ASSUME NEW S \in SUBSET CAs, NEW x \in CAs, x \notin S
    PROVE  /\ Cardinality(LeadMissing(S \cup {x})) =
                 IF Leads(x) /\ damage[ArtOf[x]] = "absent"
                 THEN Cardinality(LeadMissing(S)) + 1 ELSE Cardinality(LeadMissing(S))
           /\ Cardinality(LeadCorrupt(S \cup {x})) =
                 IF Leads(x) /\ verify /\ damage[ArtOf[x]] = "corrupt"
                 THEN Cardinality(LeadCorrupt(S)) + 1 ELSE Cardinality(LeadCorrupt(S))
  <1>1. LeadMissing(S) \in SUBSET CAs /\ x \notin LeadMissing(S)
        /\ LeadCorrupt(S) \in SUBSET CAs /\ x \notin LeadCorrupt(S)
    BY DEF LeadMissing, LeadCorrupt
  <1>2. LeadMissing(S \cup {x}) =
          IF Leads(x) /\ damage[ArtOf[x]] = "absent"
          THEN LeadMissing(S) \cup {x} ELSE LeadMissing(S)
    BY DEF LeadMissing
  <1>3. LeadCorrupt(S \cup {x}) =
          IF Leads(x) /\ verify /\ damage[ArtOf[x]] = "corrupt"
          THEN LeadCorrupt(S) \cup {x} ELSE LeadCorrupt(S)
    BY DEF LeadCorrupt
  <1>. QED
    BY <1>1, <1>2, <1>3, CardPlusOne

\* Scope is a set of ContentArtifacts, numbered from 1.
LEMMA ScopeNat == Scope \subseteq CAs /\ CAs \subseteq Nat
  BY DEF Scope, CAs

\* An Artifact none of whose repairs has started has its file as found.
LEMMA Untouched ==
    ASSUME OutInv, NEW c \in Scope, \A d \in UsersOf(ArtOf[c]) : tpc[d] = "idle"
    PROVE  file[ArtOf[c]] = damage[ArtOf[c]]
  BY ScopeArtifact DEF OutInv, FilesInv

\* The leader of an Artifact, not yet passed by the scan, finds its file as
\* it was: no repair of the Artifact can have started before it.
LEMMA LeaderUntouched ==
    ASSUME OutInv, NEW c \in Scope, Leads(c), pos <= c
    PROVE  file[ArtOf[c]] = damage[ArtOf[c]]
  <1>1. ASSUME NEW d \in UsersOf(ArtOf[c]) PROVE tpc[d] = "idle"
    <2>1. d \in Scope /\ c <= d
      BY DEF Leads, UsersOf
    <2>2. d \in CAs /\ d \in Nat /\ c \in Nat /\ pos \in Nat
      BY <2>1, ScopeNat DEF OutInv, HarmInv, IInv, TypeOK
    <2>3. ~(d < pos)
      BY <2>1, <2>2
    <2>. QED
      BY <2>2, <2>3 DEF OutInv, StartedBefore
  <1>. QED
    BY <1>1, Untouched

\* A set of ContentArtifacts has a size.
LEMMA CardNat ==
    ASSUME NEW S \in SUBSET CAs
    PROVE  Cardinality(S) \in Nat
  <1>1. IsFiniteSet(CAs)
    BY ConstantFacts, FS_Interval DEF CAs
  <1>. QED
    BY <1>1, FS_Subset, FS_CardinalityType

\* Parts of the invariant that a step of the scan keeps because it leaves
\* the files, the tasks and repaired alone and does not finish the run.
LEMMA ScanSideOut ==
    ASSUME OutInv, UNCHANGED <<file, damage, verify, pending, tpc, src, repaired>>,
           spc \in {"scan", "verify", "admit"}, spc' # "done"
    PROVE  RepairedInv' /\ FilesInv' /\ RaisedPending' /\ DoneInv'
  <1>1. RepairedInv'
    BY DEF OutInv, RepairedInv
  <1>2. FilesInv'
    BY DEF OutInv, FilesInv, HasTask
  <1>3. RaisedPending'
    BY DEF OutInv, RaisedPending
  <1>4. DoneInv'
    BY DEF DoneInv
  <1>. QED
    BY <1>1, <1>2, <1>3, <1>4

\* The scan is at a ContentArtifact of the scope it has not started a repair for.
LEMMA ScanPos ==
    ASSUME OutInv, spc \in {"scan", "verify", "admit"}, pos \in Scope
    PROVE  /\ pos \in CAs /\ pos \in Nat /\ ArtOf[pos] \in Artifacts
           /\ tpc[pos] = "idle"
           /\ pos \notin {c \in Scope : c < pos}
           /\ Leads(pos) => file[ArtOf[pos]] = damage[ArtOf[pos]]
  <1>1. pos \in CAs /\ pos \in Nat /\ ArtOf[pos] \in Artifacts
    BY ScopeArtifact, ScopeNat
  <1>2. tpc[pos] = "idle"
    BY <1>1 DEF OutInv, StartedBefore
  <1>3. Leads(pos) => file[ArtOf[pos]] = damage[ArtOf[pos]]
    BY <1>1, LeaderUntouched
  <1>. QED
    BY <1>1, <1>2, <1>3

\* After c, the scan has passed exactly the ContentArtifacts up to c.
LEMMA PassedAfter ==
    ASSUME NEW c \in Nat
    PROVE  {e \in Scope : e < NextInScope(c)} = {e \in Scope : e < c} \cup ({c} \cap Scope)
  <1>1. ASSUME NEW e \in Scope PROVE e < NextInScope(c) <=> e < c \/ e = c
    <2>1. e \in Nat
      BY ScopeNat
    <2>. QED
      BY <2>1, NextInScopeGap
  <1>. QED
    BY <1>1

\* Once the scan moves past c, every ContentArtifact it started stays below it.
LEMMA PassedGrows ==
    ASSUME NEW c \in Scope
    PROVE  c < NextInScope(c)
  BY ScopeNat, NextInScopeGap

\* The scan moves past pos without starting a repair: pos joins the
\* counted ones, and if pos is invalid a repair of its Artifact had started.
LEMMA PassOut ==
    ASSUME OutInv, spc \in {"scan", "verify"}, pos \in Scope,
           pos' = NextInScope(pos), spc' = "scan",
           UNCHANGED <<file, damage, verify, tpc, missing, corrupted>>,
           ~(Leads(pos) /\ damage[ArtOf[pos]] = "absent"),
           ~(Leads(pos) /\ verify /\ damage[ArtOf[pos]] = "corrupt"),
           (\A d \in UsersOf(ArtOf[pos]) : tpc[d] = "idle") => ~Invalid(pos)
    PROVE  CountsInv' /\ StartedBefore' /\ InvalidStarted'
  <1>0. /\ pos \in CAs /\ pos \in Nat /\ pos \notin {c \in Scope : c < pos}
        /\ pos < pos' /\ pos' \in Nat
    BY ScanPos, PassedGrows, NextInScopeType
  <1>1. Counted = {c \in Scope : c < pos} /\ {c \in Scope : c < pos} \in SUBSET CAs
    BY ScopeNat DEF Counted
  <1>2. Counted' = {c \in Scope : c < pos} \cup {pos}
    <2>1. {e \in Scope : e < NextInScope(pos)} = {e \in Scope : e < pos} \cup ({pos} \cap Scope)
      BY <1>0, PassedAfter
    <2>. QED
      BY <2>1 DEF Counted
  <1>3. /\ LeadMissing(Counted)' = LeadMissing({c \in Scope : c < pos} \cup {pos})
        /\ LeadCorrupt(Counted)' = LeadCorrupt({c \in Scope : c < pos} \cup {pos})
    BY <1>2 DEF LeadMissing, LeadCorrupt
  <1>4. /\ Cardinality(LeadMissing({c \in Scope : c < pos} \cup {pos}))
             = Cardinality(LeadMissing(Counted))
        /\ Cardinality(LeadCorrupt({c \in Scope : c < pos} \cup {pos}))
             = Cardinality(LeadCorrupt(Counted))
    BY <1>0, <1>1, LeadAdd
  <1>5. Started' = Started
    BY DEF Started
  <1>6. CountsInv'
    BY <1>3, <1>4, <1>5 DEF OutInv, CountsInv
  <1>7. StartedBefore'
    BY <1>0 DEF OutInv, StartedBefore, CAs
  <1>8. InvalidStarted'
    <2> SUFFICES ASSUME NEW e \in Scope, e < pos', Invalid(e)'
                 PROVE  \E d \in UsersOf(ArtOf[e]) : tpc'[d] # "idle"
      BY DEF InvalidStarted
    <2>0. e < NextInScope(pos) <=> e <= pos
      BY <1>0, NextInScopeGap
    <2>1. e < pos \/ e = pos
      BY <2>0, ScopeNat
    <2>2. Invalid(e)
      BY DEF Invalid
    <2>. QED
      BY <2>1, <2>2 DEF OutInv, InvalidStarted
  <1>. QED
    BY <1>6, <1>7, <1>8

\* The facts about the counters that the scan's steps use.
LEMMA ScanCounts ==
    ASSUME OutInv, spc \in {"scan", "verify"}, pos \in Scope
    PROVE  /\ Counted = {c \in Scope : c < pos}
           /\ {c \in Scope : c < pos} \in SUBSET CAs
           /\ missing \in Nat /\ corrupted \in Nat
           /\ missing + corrupted = Cardinality(Started)
           /\ Cardinality(LeadMissing(Counted)) <= missing
           /\ Cardinality(LeadCorrupt(Counted)) <= corrupted
           /\ Cardinality(LeadMissing(Counted)) \in Nat
           /\ Cardinality(LeadCorrupt(Counted)) \in Nat
  <1>1. Counted = {c \in Scope : c < pos} /\ {c \in Scope : c < pos} \in SUBSET CAs
    BY ScopeNat DEF Counted
  <1>2. LeadMissing(Counted) \in SUBSET CAs /\ LeadCorrupt(Counted) \in SUBSET CAs
    BY <1>1 DEF LeadMissing, LeadCorrupt
  <1>3. Cardinality(LeadMissing(Counted)) \in Nat /\ Cardinality(LeadCorrupt(Counted)) \in Nat
    BY <1>2, CardNat
  <1>4. missing \in Nat /\ corrupted \in Nat
    BY DEF OutInv, HarmInv, IInv, TypeOK
  <1>6. Cardinality(Started) \in Nat
    BY CardNat DEF Started
  <1>5. /\ missing + corrupted = Cardinality(Started)
        /\ Cardinality(LeadMissing(Counted)) <= missing
        /\ Cardinality(LeadCorrupt(Counted)) <= corrupted
    BY <1>6 DEF OutInv, CountsInv
  <1>. QED
    BY <1>1, <1>3, <1>4, <1>5

\* The scan counts pos, which is about to be admitted: the counters grow by
\* one and pos joins the counted ones.
LEMMA CountOut ==
    ASSUME OutInv, spc \in {"scan", "verify"}, pos \in Scope, spc' = "admit",
           UNCHANGED <<file, damage, verify, tpc, pos>>,
           missing' + corrupted' = missing + corrupted + 1,
           missing' \in {missing, missing + 1}, corrupted' \in {corrupted, corrupted + 1},
           Leads(pos) /\ damage[ArtOf[pos]] = "absent" => missing' = missing + 1,
           Leads(pos) /\ verify /\ damage[ArtOf[pos]] = "corrupt" => corrupted' = corrupted + 1
    PROVE  CountsInv' /\ StartedBefore' /\ InvalidStarted'
  <1>0. /\ pos \in CAs /\ pos \in Nat /\ pos \notin {c \in Scope : c < pos}
    BY ScanPos
  <1>1. /\ Counted = {c \in Scope : c < pos} /\ {c \in Scope : c < pos} \in SUBSET CAs
        /\ missing \in Nat /\ corrupted \in Nat
        /\ missing + corrupted = Cardinality(Started)
        /\ Cardinality(LeadMissing(Counted)) <= missing
        /\ Cardinality(LeadCorrupt(Counted)) <= corrupted
        /\ Cardinality(LeadMissing(Counted)) \in Nat
        /\ Cardinality(LeadCorrupt(Counted)) \in Nat
    BY ScanCounts
  <1>2. Counted' = {c \in Scope : c < pos} \cup {pos}
    BY DEF Counted
  <1>3. /\ LeadMissing(Counted)' = LeadMissing({c \in Scope : c < pos} \cup {pos})
        /\ LeadCorrupt(Counted)' = LeadCorrupt({c \in Scope : c < pos} \cup {pos})
    BY <1>2 DEF LeadMissing, LeadCorrupt
  <1>4. /\ Cardinality(LeadMissing({c \in Scope : c < pos} \cup {pos})) <= missing'
        /\ Cardinality(LeadCorrupt({c \in Scope : c < pos} \cup {pos})) <= corrupted'
    BY <1>0, <1>1, LeadAdd
  <1>5. Started' = Started
    BY DEF Started
  <1>6. CountsInv'
    BY <1>1, <1>3, <1>4, <1>5 DEF CountsInv
  <1>. QED
    BY <1>6 DEF OutInv, StartedBefore, InvalidStarted, Invalid

\* The existence check counts a missing file and moves on from a present one.
LEMMA ScanExistsOut ==
    ASSUME OutInv, ScanExists
    PROVE  CountsInv' /\ StartedBefore' /\ InvalidStarted'
  <1>0. /\ spc = "scan" /\ pos \in Scope
        /\ UNCHANGED <<file, damage, verify, pending, tpc, src, corrupted, repaired>>
    BY DEF ScanExists
  <1>1. /\ ArtOf[pos] \in Artifacts /\ missing \in Nat /\ corrupted \in Nat
        /\ Leads(pos) => file[ArtOf[pos]] = damage[ArtOf[pos]]
    BY <1>0, ScanPos, ScanCounts
  <1>2. CASE /\ file[ArtOf[pos]] = "absent" /\ missing' = missing + 1
             /\ spc' = "admit" /\ UNCHANGED pos
    <2>1. ~(Leads(pos) /\ verify /\ damage[ArtOf[pos]] = "corrupt")
      BY <1>1, <1>2
    <2>2. /\ missing' + corrupted' = missing + corrupted + 1
          /\ missing' \in {missing, missing + 1} /\ corrupted' \in {corrupted, corrupted + 1}
      BY <1>0, <1>1, <1>2
    <2>. QED
      BY <1>0, <1>2, <2>1, <2>2, CountOut
  <1>3. CASE /\ file[ArtOf[pos]] # "absent" /\ verify /\ spc' = "verify"
             /\ UNCHANGED <<pos, missing>>
    <2>1. Counted' = Counted
      BY <1>0, <1>3 DEF Counted
    <2>2. Started' = Started
      BY <1>0 DEF Started
    <2>3. CountsInv'
      BY <1>0, <1>1, <1>3, <2>1, <2>2 DEF OutInv, CountsInv, LeadMissing, LeadCorrupt
    <2>. QED
      BY <1>0, <1>3, <2>3 DEF OutInv, StartedBefore, InvalidStarted, Invalid
  <1>4. CASE /\ file[ArtOf[pos]] # "absent" /\ ~verify /\ Advance
             /\ UNCHANGED missing
    <2>1. (\A d \in UsersOf(ArtOf[pos]) : tpc[d] = "idle") => ~Invalid(pos)
      BY <1>0, <1>4, Untouched DEF Invalid
    <2>. QED
      BY <1>0, <1>1, <1>4, <2>1, PassOut DEF Advance
  <1>5. CASE spc' = "failed" /\ UNCHANGED <<pos, missing>>
    BY <1>0, <1>5 DEF CountsInv, OutInv, StartedBefore, InvalidStarted, Invalid
  <1>. QED
    BY <1>2, <1>3, <1>4, <1>5 DEF ScanExists

\* The checksum counts a file that is not good and moves on from a good one.
LEMMA ScanVerifyOut ==
    ASSUME OutInv, ScanVerify
    PROVE  CountsInv' /\ StartedBefore' /\ InvalidStarted'
  <1>0. /\ spc = "verify" /\ pos \in Scope /\ verify
        /\ UNCHANGED <<file, damage, verify, pending, tpc, src, missing, repaired>>
    BY DEF ScanVerify, OutInv, HarmInv, IInv, ScanInScope, ScanFound
  <1>1. /\ ArtOf[pos] \in Artifacts /\ missing \in Nat /\ corrupted \in Nat
        /\ Leads(pos) => file[ArtOf[pos]] = damage[ArtOf[pos]]
        /\ Leads(pos) => damage[ArtOf[pos]] # "absent"
    BY <1>0, ScanPos, ScanCounts DEF OutInv, CountsInv
  <1>2. CASE file[ArtOf[pos]] = "good" /\ Advance /\ UNCHANGED corrupted
    <2>1. (\A d \in UsersOf(ArtOf[pos]) : tpc[d] = "idle") => ~Invalid(pos)
      BY <1>0, <1>2, Untouched DEF Invalid
    <2>. QED
      BY <1>0, <1>1, <1>2, <2>1, PassOut DEF Advance
  <1>3. CASE /\ file[ArtOf[pos]] # "good" /\ corrupted' = corrupted + 1
             /\ spc' = "admit" /\ UNCHANGED pos
    <2>1. ~(Leads(pos) /\ damage[ArtOf[pos]] = "absent")
      BY <1>1
    <2>2. /\ missing' + corrupted' = missing + corrupted + 1
          /\ missing' \in {missing, missing + 1} /\ corrupted' \in {corrupted, corrupted + 1}
      BY <1>0, <1>1, <1>3
    <2>. QED
      BY <1>0, <1>3, <2>1, <2>2, CountOut
  <1>4. CASE spc' = "failed" /\ UNCHANGED <<pos, corrupted>>
    BY <1>0, <1>4 DEF CountsInv, OutInv, StartedBefore, InvalidStarted, Invalid
  <1>. QED
    BY <1>2, <1>3, <1>4 DEF ScanVerify

\* A step that moves only the task of c, from one state to another, leaves
\* every Artifact's tasks at any third state as they were.
LEMMA HasTaskSame ==
    ASSUME NEW c \in CAs, NEW t, tpc' = [tpc EXCEPT ![c] = t],
           tpc \in [CAs -> {"idle", "start", "fetch", "save", "repaired", "unrepaired", "raised"}],
           NEW a, NEW st, st # tpc[c], st # t
    PROVE  HasTask(a, st)' <=> HasTask(a, st)
  <1>1. UsersOf(a) \subseteq CAs
    BY DEF UsersOf, Scope
  <1>2. \A d \in UsersOf(a) : tpc'[d] = st <=> tpc[d] = st
    BY <1>1
  <1>. QED
    BY <1>2 DEF HasTask

\* Admission starts the repair of the ContentArtifact the scan has just
\* counted, or re-raises a harvested task's exception.
LEMMA AdmitOut ==
    ASSUME OutInv, Admit
    PROVE  /\ CountsInv' /\ RepairedInv' /\ StartedBefore' /\ FilesInv'
           /\ RaisedPending' /\ InvalidStarted' /\ DoneInv'
  <1> DEFINE D == IF AtCap(pending) THEN {c \in pending : Done(c)} ELSE {}
  <1>0. /\ spc = "admit" /\ pos \in Scope /\ Invalid(pos)
        /\ UNCHANGED <<file, damage, verify, src, missing, corrupted, repaired>>
        /\ tpc \in [CAs -> {"idle", "start", "fetch", "save", "repaired", "unrepaired", "raised"}]
    BY DEF Admit, OutInv, HarmInv, IInv, ScanInScope, ScanFound, TypeOK
  <1>1. /\ pos \in CAs /\ pos \in Nat /\ tpc[pos] = "idle"
    BY <1>0, ScanPos
  <1>2. CASE \E c \in D : tpc[c] = "raised"
    <2>1. spc' = "failed" /\ UNCHANGED <<pos, tpc>>
      BY <1>2 DEF Admit
    <2>. QED
      BY <1>0, <2>1
         DEF CountsInv, OutInv, RepairedInv, StartedBefore, FilesInv, HasTask,
             RaisedPending, InvalidStarted, Invalid, DoneInv
  <1>3. CASE ~\E c \in D : tpc[c] = "raised"
    <2>1. /\ pending' = (pending \ D) \cup {pos}
          /\ tpc' = [tpc EXCEPT ![pos] = "start"]
          /\ pos' = NextInScope(pos) /\ spc' = "scan"
      BY <1>3 DEF Admit, Advance
    <2>2. pos < pos' /\ pos' \in Nat
      BY <1>0, <1>1, <2>1, PassedGrows, NextInScopeType
    <2>3. Counted' = Counted
      <3>1. {e \in Scope : e < NextInScope(pos)} = {e \in Scope : e < pos} \cup ({pos} \cap Scope)
        BY <1>1, PassedAfter
      <3>. QED
        BY <1>0, <2>1, <3>1 DEF Counted
    <2>4. Cardinality(Started') = Cardinality(Started) + 1
      <3>1. Started' = Started \cup {pos} /\ pos \notin Started /\ Started \in SUBSET CAs
        BY <1>0, <1>1, <2>1 DEF Started
      <3>. QED
        BY <3>1, CardPlusOne
    <2>5. CountsInv'
      <3>1. Cardinality(Started) \in Nat
        BY CardNat DEF Started
      <3>2. missing + corrupted = Cardinality(Started) + 1
        BY <1>0, <3>1 DEF OutInv, CountsInv
      <3>. QED
        BY <1>0, <2>1, <2>3, <2>4, <3>1, <3>2 DEF OutInv, CountsInv, LeadMissing, LeadCorrupt
    <2>6. RepairedInv'
      <3>1. {c \in CAs : tpc'[c] = "repaired"} = {c \in CAs : tpc[c] = "repaired"}
        BY <1>0, <1>1, <2>1
      <3>. QED
        BY <1>0, <3>1 DEF OutInv, RepairedInv
    <2>7. StartedBefore'
      BY <1>0, <1>1, <2>1, <2>2 DEF OutInv, StartedBefore, CAs
    <2>8. FilesInv'
      <3> SUFFICES ASSUME NEW a \in Artifacts
                   PROVE  FilesInv!(a)'
        BY DEF FilesInv
      <3>1. (\A d \in UsersOf(a) : tpc'[d] = "idle") => \A d \in UsersOf(a) : tpc[d] = "idle"
        BY <1>0, <1>1, <2>1 DEF UsersOf, Scope
      <3>2. \A st \in {"repaired", "unrepaired", "save", "raised"} :
              HasTask(a, st)' <=> HasTask(a, st)
        BY <1>0, <1>1, <2>1, HasTaskSame
      <3>. QED
        BY <1>0, <3>1, <3>2 DEF OutInv, FilesInv
    <2>9. RaisedPending'
      BY <1>0, <1>3, <2>1 DEF OutInv, RaisedPending
    <2>10. InvalidStarted'
      <3> SUFFICES ASSUME NEW e \in Scope, e < pos', Invalid(e)'
                   PROVE  \E d \in UsersOf(ArtOf[e]) : tpc'[d] # "idle"
        BY DEF InvalidStarted
      <3>0. e < NextInScope(pos) <=> e <= pos
        BY <1>1, NextInScopeGap
      <3>1. e < pos \/ e = pos
        <4>1. e \in Nat
          BY ScopeNat
        <4>. QED
          BY <1>1, <2>1, <3>0, <4>1
      <3>2. CASE e = pos
        <4>1. pos \in UsersOf(ArtOf[e]) /\ tpc'[pos] = "start"
          BY <1>0, <1>1, <2>1, <3>2 DEF UsersOf
        <4>. QED
          BY <4>1
      <3>3. CASE e < pos
        <4>1. PICK d \in UsersOf(ArtOf[e]) : tpc[d] # "idle"
          BY <1>0, <3>3 DEF OutInv, InvalidStarted, Invalid
        <4>2. d \in CAs
          BY DEF UsersOf, Scope
        <4>. QED
          BY <1>0, <2>1, <4>1, <4>2
      <3>. QED
        BY <3>1, <3>2, <3>3
    <2>11. DoneInv'
      BY <2>1 DEF DoneInv
    <2>. QED
      BY <2>5, <2>6, <2>7, <2>8, <2>9, <2>10, <2>11
  <1>. QED
    BY <1>2, <1>3

\* The final gather ends the run only when every started repair returned.
LEMMA GatherOut ==
    ASSUME OutInv, Gather
    PROVE  /\ CountsInv' /\ RepairedInv' /\ StartedBefore' /\ FilesInv'
           /\ RaisedPending' /\ InvalidStarted' /\ DoneInv'
  <1>0. /\ spc = "scan" /\ pos = NumCAs + 1
        /\ UNCHANGED <<file, damage, verify, pos, pending, tpc, src, missing, corrupted, repaired>>
    BY DEF Gather
  <1>1. /\ RepairedInv' /\ StartedBefore' /\ FilesInv' /\ InvalidStarted'
    BY <1>0 DEF OutInv, RepairedInv, StartedBefore, FilesInv, HasTask, InvalidStarted, Invalid
  <1>2. CASE spc' = "done" /\ \A c \in pending : Done(c) /\ tpc[c] # "raised"
    <2>1. Counted' = Counted /\ Started' = Started
      BY <1>0, <1>2 DEF Counted, Started
    <2>2. CountsInv'
      BY <1>0, <1>2, <2>1 DEF OutInv, CountsInv, LeadMissing, LeadCorrupt
    <2>3. ASSUME NEW c \in CAs PROVE tpc[c] \in {"idle", "repaired", "unrepaired"}
      <3>1. tpc[c] \in {"idle", "start", "fetch", "save", "repaired", "unrepaired", "raised"}
        BY DEF OutInv, HarmInv, IInv, TypeOK
      <3>2. Running(c) => c \in pending
        BY DEF OutInv, HarmInv, IInv, PendingCapped
      <3>3. tpc[c] = "raised" => c \in pending
        BY <1>0 DEF OutInv, RaisedPending
      <3>. QED
        BY <1>2, <3>1, <3>2, <3>3 DEF Running, Done
    <2>4. DoneInv'
      BY <1>0, <1>2, <2>3 DEF DoneInv
    <2>5. RaisedPending'
      BY <1>0, <1>2 DEF OutInv, RaisedPending
    <2>. QED
      BY <1>1, <2>2, <2>4, <2>5
  <1>3. CASE spc' = "failed"
    BY <1>1, <1>3 DEF CountsInv, RaisedPending, DoneInv
  <1>. QED
    BY <1>2, <1>3 DEF Gather

\* A step of the repair task of c moves that task only, and writes at most
\* the file of c's Artifact: good bytes when it returns True, no file when
\* it deletes (to save the download, or to return False).  The file is
\* shared by the other ContentArtifacts of the Artifact: the invariant
\* speaks of all of their tasks at once.
LEMMA TaskStepOut ==
    ASSUME OutInv, NEW c \in CAs, tpc[c] \in {"start", "fetch", "save"},
           LoopRunning,
           UNCHANGED <<damage, verify, pos, spc, pending, missing, corrupted>>,
           NEW t \in {"fetch", "save", "repaired", "unrepaired", "raised"},
           tpc' = [tpc EXCEPT ![c] = t],
           repaired' = IF t = "repaired" THEN repaired + 1 ELSE repaired,
           t = "fetch" => tpc[c] \in {"start", "fetch"},
           t \in {"fetch", "raised"} => UNCHANGED file,
           t = "repaired" => file' = [file EXCEPT ![ArtOf[c]] = "good"],
           t \in {"unrepaired", "save"} => file' = [file EXCEPT ![ArtOf[c]] = "absent"]
    PROVE  /\ CountsInv' /\ RepairedInv' /\ StartedBefore' /\ FilesInv'
           /\ RaisedPending' /\ InvalidStarted' /\ DoneInv'
  <1>0. /\ c \in Scope /\ ArtOf[c] \in Artifacts /\ c < pos
        /\ tpc \in [CAs -> {"idle", "start", "fetch", "save", "repaired", "unrepaired", "raised"}]
        /\ file \in [Artifacts -> FileStates]
        /\ spc \notin {"done", "failed"}
    BY ScopeArtifact DEF OutInv, HarmInv, IInv, ScanInScope, StartedBefore, TypeOK, LoopRunning
  <1>1. CountsInv'
    <2>1. Started' = Started /\ Counted' = Counted
      BY <1>0 DEF Started, Counted
    <2>. QED
      BY <2>1 DEF OutInv, CountsInv, LeadMissing, LeadCorrupt
  <1>2. RepairedInv'
    <2>1. c \notin {d \in CAs : tpc[d] = "repaired"} /\ {d \in CAs : tpc[d] = "repaired"} \in SUBSET CAs
      OBVIOUS
    <2>2. CASE t = "repaired"
      <3>1. {d \in CAs : tpc'[d] = "repaired"} = {d \in CAs : tpc[d] = "repaired"} \cup {c}
        BY <1>0, <2>2
      <3>. QED
        BY <2>1, <2>2, <3>1, CardPlusOne DEF OutInv, RepairedInv
    <2>3. CASE t # "repaired"
      <3>1. {d \in CAs : tpc'[d] = "repaired"} = {d \in CAs : tpc[d] = "repaired"}
        BY <1>0, <2>3
      <3>. QED
        BY <2>3, <3>1 DEF OutInv, RepairedInv
    <2>. QED
      BY <2>2, <2>3
  <1>3. StartedBefore' /\ InvalidStarted'
    <2>1. \A d \in CAs : tpc[d] # "idle" => tpc'[d] # "idle"
      BY <1>0
    <2>2. \A a : UsersOf(a) \subseteq CAs
      BY DEF UsersOf, Scope
    <2>. QED
      BY <1>0, <2>1, <2>2 DEF OutInv, StartedBefore, InvalidStarted, Invalid
  <1>4. FilesInv'
    <2> SUFFICES ASSUME NEW a \in Artifacts PROVE FilesInv!(a)'
      BY DEF FilesInv
    <2>1. CASE a # ArtOf[c]
      <3>1. file'[a] = file[a]
        BY <1>0, <2>1
      <3>2. \A d \in UsersOf(a) : tpc'[d] = tpc[d]
        BY <1>0, <2>1 DEF UsersOf, Scope
      <3>. QED
        BY <3>1, <3>2 DEF OutInv, FilesInv, HasTask
    <2>2. CASE a = ArtOf[c]
      <3>1. c \in UsersOf(a) /\ tpc'[c] = t
        BY <1>0, <2>2 DEF UsersOf
      <3>2. HasTask(a, t)'
        BY <3>1 DEF HasTask
      <3>3. ~(\A d \in UsersOf(a) : tpc'[d] = "idle")
        BY <3>1
      <3>4. CASE t = "repaired"
        BY <1>0, <2>2, <3>2, <3>3, <3>4
      <3>5. CASE t \in {"unrepaired", "save"}
        BY <1>0, <2>2, <3>2, <3>3, <3>5
      <3>6. CASE t = "raised"
        <4>1. /\ HasTask(a, "repaired")' <=> HasTask(a, "repaired")
              /\ HasTask(a, "unrepaired")' <=> HasTask(a, "unrepaired")
          BY <1>0, <3>6, HasTaskSame
        <4>. QED
          BY <3>2, <3>3, <3>6, <4>1 DEF OutInv, FilesInv
      <3>7. CASE t = "fetch"
        <4>1. \A st \in {"repaired", "unrepaired", "save", "raised"} :
                HasTask(a, st)' <=> HasTask(a, st)
          BY <1>0, <3>7, HasTaskSame
        <4>. QED
          BY <3>3, <3>7, <4>1 DEF OutInv, FilesInv
      <3>. QED
        BY <3>4, <3>5, <3>6, <3>7
    <2>. QED
      BY <2>1, <2>2
  <1>5. RaisedPending'
    <2>1. c \in pending
      BY DEF OutInv, HarmInv, IInv, PendingCapped, Running
    <2>. QED
      BY <1>0, <2>1 DEF OutInv, RaisedPending
  <1>6. DoneInv'
    BY <1>0 DEF DoneInv
  <1>. QED
    BY <1>1, <1>2, <1>3, <1>4, <1>5, <1>6

LEMMA TaskFacts ==
    ASSUME OutInv, NEW c \in CAs, tpc[c] # "idle"
    PROVE  /\ ArtOf[c] \in Artifacts
           /\ file \in [Artifacts -> FileStates]
           /\ tpc \in [CAs -> {"idle", "start", "fetch", "save", "repaired", "unrepaired", "raised"}]
  BY ScopeArtifact DEF OutInv, HarmInv, IInv, ScanInScope, TypeOK

LEMMA RepairStartOut ==
    ASSUME OutInv, NEW c \in CAs, RepairStart(c)
    PROVE  /\ CountsInv' /\ RepairedInv' /\ StartedBefore' /\ FilesInv'
           /\ RaisedPending' /\ InvalidStarted' /\ DoneInv'
  <1>0. /\ tpc[c] = "start" /\ LoopRunning
        /\ UNCHANGED <<damage, verify, pos, spc, pending, missing, corrupted, repaired>>
    BY DEF RepairStart
  <1>1. /\ ArtOf[c] \in Artifacts /\ file \in [Artifacts -> FileStates]
        /\ tpc \in [CAs -> {"idle", "start", "fetch", "save", "repaired", "unrepaired", "raised"}]
    BY <1>0, TaskFacts
  <1>2. CASE file' = [file EXCEPT ![ArtOf[c]] = "absent"] /\ tpc' = [tpc EXCEPT ![c] = "unrepaired"]
    BY <1>0, <1>1, <1>2, TaskStepOut
  <1>3. CASE Raise(c) /\ UNCHANGED file
    BY <1>0, <1>1, <1>3, TaskStepOut DEF Raise
  <1>4. CASE tpc' = [tpc EXCEPT ![c] = "fetch"] /\ UNCHANGED file
    BY <1>0, <1>1, <1>4, TaskStepOut
  <1>. QED
    BY <1>2, <1>3, <1>4 DEF RepairStart

LEMMA FetchOut ==
    ASSUME OutInv, NEW c \in CAs, Fetch(c)
    PROVE  /\ CountsInv' /\ RepairedInv' /\ StartedBefore' /\ FilesInv'
           /\ RaisedPending' /\ InvalidStarted' /\ DoneInv'
  <1>0. /\ tpc[c] = "fetch" /\ LoopRunning
        /\ UNCHANGED <<damage, verify, pos, spc, pending, missing, corrupted, repaired>>
    BY DEF Fetch
  <1>1. /\ ArtOf[c] \in Artifacts /\ file \in [Artifacts -> FileStates]
        /\ tpc \in [CAs -> {"idle", "start", "fetch", "save", "repaired", "unrepaired", "raised"}]
    BY <1>0, TaskFacts
  <1>2. CASE UNCHANGED <<file, tpc>>
    <2>1. tpc' = [tpc EXCEPT ![c] = "fetch"]
      BY <1>0, <1>1, <1>2
    <2>. QED
      BY <1>0, <1>1, <1>2, <2>1, TaskStepOut
  <1>3. CASE file' = [file EXCEPT ![ArtOf[c]] = "absent"] /\ tpc' = [tpc EXCEPT ![c] = "unrepaired"]
    BY <1>0, <1>1, <1>3, TaskStepOut
  <1>4. CASE Raise(c) /\ UNCHANGED file
    BY <1>0, <1>1, <1>4, TaskStepOut DEF Raise
  <1>5. CASE file' = [file EXCEPT ![ArtOf[c]] = "absent"] /\ tpc' = [tpc EXCEPT ![c] = "save"]
    BY <1>0, <1>1, <1>5, TaskStepOut
  <1>. QED
    BY <1>2, <1>3, <1>4, <1>5 DEF Fetch, NextSource

LEMMA SaveOut ==
    ASSUME OutInv, NEW c \in CAs, Save(c)
    PROVE  /\ CountsInv' /\ RepairedInv' /\ StartedBefore' /\ FilesInv'
           /\ RaisedPending' /\ InvalidStarted' /\ DoneInv'
  <1>0. /\ tpc[c] = "save" /\ LoopRunning
        /\ UNCHANGED <<damage, verify, pos, spc, pending, missing, corrupted>>
    BY DEF Save
  <1>1. /\ ArtOf[c] \in Artifacts /\ file \in [Artifacts -> FileStates]
        /\ tpc \in [CAs -> {"idle", "start", "fetch", "save", "repaired", "unrepaired", "raised"}]
    BY <1>0, TaskFacts
  <1>2. Sources[c][src[c]] = "good"
    BY <1>0 DEF OutInv, HarmInv, SaveGood
  <1>3. CASE /\ file' = [file EXCEPT ![ArtOf[c]] = Sources[c][src[c]]]
             /\ repaired' = repaired + 1 /\ tpc' = [tpc EXCEPT ![c] = "repaired"]
    BY <1>0, <1>1, <1>2, <1>3, TaskStepOut
  <1>4. CASE Raise(c) /\ UNCHANGED <<file, repaired>>
    BY <1>0, <1>1, <1>4, TaskStepOut DEF Raise
  <1>. QED
    BY <1>3, <1>4 DEF Save

LEMMA NextOut == OutInv /\ [Next]_vars => OutInv'
  <1> SUFFICES ASSUME OutInv, [Next]_vars PROVE OutInv'
    OBVIOUS
  <1>0. HarmInv'
    BY NextHarm DEF OutInv
  <1>1. CASE ScanExists
    <2>1. /\ UNCHANGED <<file, damage, verify, pending, tpc, src, repaired>>
          /\ spc \in {"scan", "verify", "admit"} /\ spc' # "done"
      BY <1>1 DEF ScanExists, Advance
    <2>2. RepairedInv' /\ FilesInv' /\ RaisedPending' /\ DoneInv'
      BY <2>1, ScanSideOut
    <2>3. CountsInv' /\ StartedBefore' /\ InvalidStarted'
      BY <1>1, ScanExistsOut
    <2>. QED
      BY <1>0, <2>2, <2>3 DEF OutInv
  <1>2. CASE ScanVerify
    <2>1. /\ UNCHANGED <<file, damage, verify, pending, tpc, src, repaired>>
          /\ spc \in {"scan", "verify", "admit"} /\ spc' # "done"
      BY <1>2 DEF ScanVerify, Advance
    <2>2. RepairedInv' /\ FilesInv' /\ RaisedPending' /\ DoneInv'
      BY <2>1, ScanSideOut
    <2>3. CountsInv' /\ StartedBefore' /\ InvalidStarted'
      BY <1>2, ScanVerifyOut
    <2>. QED
      BY <1>0, <2>2, <2>3 DEF OutInv
  <1>3. CASE Admit
    BY <1>0, <1>3, AdmitOut DEF OutInv
  <1>4. CASE Gather
    BY <1>0, <1>4, GatherOut DEF OutInv
  <1>5. ASSUME NEW c \in CAs, RepairStart(c) \/ Fetch(c) \/ Save(c) PROVE OutInv'
    BY <1>0, <1>5, RepairStartOut, FetchOut, SaveOut DEF OutInv
  <1>6. CASE Idle \/ UNCHANGED vars
    <2>1. UNCHANGED vars
      BY <1>6 DEF Idle
    <2>. QED
      BY <1>0, <2>1 DEF vars, OutInv, CountsInv, Counted, Started, LeadMissing, LeadCorrupt,
                        Leads, UsersOf, RepairedInv, StartedBefore, FilesInv, HasTask,
                        RaisedPending, InvalidStarted, Invalid, DoneInv
  <1>. QED
    BY <1>1, <1>2, <1>3, <1>4, <1>5, <1>6 DEF Next

LEMMA OutInvariant == Spec => []OutInv
  BY InitOut, NextOut, PTL DEF Spec

-----------------------------------------------------------------------------
(* The theorems.                                                           *)

\* Spec 4.5 (ReportCountsSound): for every layout, cap and interleaving, a
\* run that gathers every repair has counted one missing or corrupted
\* ContentArtifact per repair task it started, counts in repaired the
\* tasks that returned True, and has counted every Artifact that was
\* missing, or corrupt and hashed, at the first of its ContentArtifacts.
THEOREM CountsSound == Spec => []ReportCountsSound
  <1>1. OutInv => ReportCountsSound
    <2> SUFFICES ASSUME OutInv, spc = "done" PROVE ReportCountsSound
      BY DEF ReportCountsSound
    <2>1. pos = NumCAs + 1
      BY DEF OutInv, DoneInv
    <2>2. Counted = Scope
      BY <2>1, ConstantFacts DEF Counted, Scope, CAs
    <2>3. /\ missing + corrupted = Cardinality(Started)
          /\ Cardinality(LeadMissing(Scope)) <= missing
          /\ Cardinality(LeadCorrupt(Scope)) <= corrupted
      <3>1. Cardinality(Started) \in Nat
        BY CardNat DEF Started
      <3>2. /\ missing + corrupted = Cardinality(Started) + (IF spc = "admit" THEN 1 ELSE 0)
            /\ Cardinality(LeadMissing(Counted)) <= missing
            /\ Cardinality(LeadCorrupt(Counted)) <= corrupted
        BY DEF OutInv, CountsInv
      <3>. QED
        BY <2>2, <3>1, <3>2
    <2>. QED
      BY <2>3 DEF OutInv, Started, LeadMissing, LeadCorrupt, RepairedInv, ReportCountsSound
  <1>. QED
    BY <1>1, OutInvariant, PTL

\* Spec 4.5 and 7 (RepairOutcome): for every layout, a run that gathers
\* every repair has repaired invalid ContentArtifacts of the scope only and
\* started a repair of every invalid Artifact of the scope; it left the
\* file of an Artifact untouched when none of its repairs ran, good when
\* all that ran returned True, absent when all returned False, and good or
\* absent when its concurrent repairs disagreed.
THEOREM OutcomeCorrect == Spec => []RepairOutcome
  <1>1. OutInv => RepairOutcome
    <2> SUFFICES ASSUME OutInv, spc = "done" PROVE RepairOutcome
      BY DEF RepairOutcome
    <2>1. pos = NumCAs + 1 /\ \A c \in CAs : tpc[c] \in {"idle", "repaired", "unrepaired"}
      BY DEF OutInv, DoneInv
    <2>2. \A c \in CAs : tpc[c] # "idle" => c \in Scope /\ Invalid(c)
      BY DEF OutInv, HarmInv, IInv, ScanInScope, TasksInvalid
    <2>3. \A c \in Scope : Invalid(c) => \E d \in UsersOf(ArtOf[c]) : tpc[d] # "idle"
      <3>1. \A c \in Scope : c < pos
        BY <2>1, ConstantFacts DEF Scope, CAs
      <3>. QED
        BY <3>1 DEF OutInv, InvalidStarted
    <2>4. ASSUME NEW a \in Artifacts
          PROVE  /\ ~HasTask(a, "save") /\ ~HasTask(a, "raised")
                 /\ (\E d \in UsersOf(a) : tpc[d] # "idle")
                      => HasTask(a, "repaired") \/ HasTask(a, "unrepaired")
      <3>1. UsersOf(a) \subseteq CAs
        BY DEF UsersOf, Scope
      <3>. QED
        BY <2>1, <3>1 DEF HasTask
    <2>5. \A a \in Artifacts :
              LET T == UsersOf(a)
                  Some(st) == \E d \in T : tpc[d] = st
              IN  /\ (\A d \in T : tpc[d] = "idle") => file[a] = damage[a]
                  /\ Some("repaired") /\ ~Some("unrepaired") => file[a] = "good"
                  /\ Some("unrepaired") /\ ~Some("repaired") => file[a] = "absent"
                  /\ (\E d \in T : tpc[d] # "idle") => file[a] \in {"good", "absent"}
      BY <2>4 DEF OutInv, FilesInv, HasTask
    <2>. QED
      BY <2>2, <2>3, <2>5 DEF RepairOutcome
  <1>. QED
    BY <1>1, OutInvariant, PTL

\* Spec 4.5 (RepairStaysInVersion): repair_version of a version with content
\* never touches a file that no content unit of the version uses, whatever
\* the layout, even when ContentArtifacts share an Artifact. The hypothesis
\* is the code's own condition (line 121): an empty version falls back to
\* the whole domain, which the run empty_version_repair shows.
THEOREM StaysInVersion ==
    ASSUME Subset # {}
    PROVE  Spec => []RepairStaysInVersion
  <1>1. RepairNeverHarms => RepairStaysInVersion
    <2> SUFFICES ASSUME RepairNeverHarms, Subset # NoSubset, NEW a \in Artifacts,
                        \A c \in CAs : ArtOf[c] = a => ContentOf[c] \notin Subset,
                        file[a] # damage[a]
                 PROVE  FALSE
      BY DEF RepairStaysInVersion
    <2>1. PICK c \in Scope : ArtOf[c] = a
      BY DEF RepairNeverHarms
    <2>2. c \in CAs /\ ContentOf[c] \in Subset
      BY <2>1 DEF Scope
    <2>. QED
      BY <2>1, <2>2
  <1>. QED
    BY <1>1, NeverHarms, PTL

====
