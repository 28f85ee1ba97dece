---------------------- MODULE RepositoryVersionsProofs ----------------------
(***************************************************************************)
(* Proofs about RepositoryVersions, for every set of content units, every *)
(* bound on versions and every bound on waiting tasks: the tasks keep the *)
(* state well typed, and they implement the abstract RepositoryHistory.   *)
(***************************************************************************)
EXTENDS RepositoryVersions, FiniteSetTheorems, SequenceTheorems,
        WellFoundedInduction, TLAPS

(***************************************************************************)
(* The inductive invariant.  TypeOK alone does not say that the           *)
(* repository keeps a version, which both latest_version() in             *)
(* add_and_remove and the count check in delete_version rely on; nor that *)
(* the versions lie below next_version, which makes the set of versions   *)
(* finite and gives it a greatest element.                                 *)
(***************************************************************************)
VersionsBelowNext == \A n \in vers : n < nextNum

IInv == TypeOK /\ vers # {} /\ VersionsBelowNext

-----------------------------------------------------------------------------
(* Lemmas                                                                  *)

\* A nonempty set of naturals bounded above has a greatest element.
LEMMA GreatestExists ==
    ASSUME NEW S \in SUBSET Nat, S # {}, NEW b \in Nat, \A s \in S : s <= b
    PROVE  \E j \in S : \A m \in S : m <= j
  <1>. DEFINE Gap == {b - s : s \in S}
  <1>0. ASSUME NEW s \in S PROVE b - s \in Nat
    OBVIOUS
  <1>1. Gap \subseteq Nat /\ Gap # {}
    BY <1>0, Zenon
  <1>2. IsWellFoundedOn(OpToRel(<, Nat), Nat)
    BY NatLessThanWellFounded, Zenon
  <1>3. PICK g \in Gap : \A y \in Gap : ~(<<y, g>> \in OpToRel(<, Nat))
    BY <1>1, <1>2, WFMin, Zenon
  <1>4. PICK j \in S : g = b - j
    OBVIOUS
  <1>5. ASSUME NEW m \in S PROVE m <= j
    <2>1. b - m \in Gap /\ b - m \in Nat /\ g \in Nat
      BY <1>4
    <2>2. ~(<<b - m, g>> \in OpToRel(<, Nat))
      BY <1>3, <2>1, Zenon
    <2>. QED
      BY <2>1, <2>2, <1>4 DEF OpToRel
  <1>. QED
    BY <1>5

\* latest_version() is a version of the repository.
LEMMA LatestIsVersion ==
    ASSUME IInv
    PROVE  Latest(vers) \in vers
  <1>1. vers \subseteq Nat /\ nextNum \in Nat /\ vers # {}
    BY DEF IInv, TypeOK
  <1>2. \A s \in vers : s <= nextNum
    BY <1>1 DEF IInv, VersionsBelowNext
  <1>3. \E j \in vers : \A m \in vers : m <= j
    BY <1>1, <1>2, GreatestExists
  <1>. QED
    BY <1>3, Zenon DEF Latest

\* The content of the version add_and_remove creates is a set of units.
LEMMA NewContentType ==
    ASSUME IInv, NEW t \in Task, t.base = NoBase \/ t.base \in vers
    PROVE  NewContent(t) \subseteq Contents
  <1>1. Latest(vers) \in DOMAIN content /\ vers \subseteq DOMAIN content
    BY LatestIsVersion DEF IInv, TypeOK
  <1>2. BaseContent(t) \subseteq Contents
    BY <1>1 DEF IInv, TypeOK, BaseContent
  <1>. QED
    BY <1>2 DEF NewContent, Task

\* The version delete_version deletes is not the only one.
LEMMA OtherVersionRemains ==
    ASSUME IInv, NEW v \in vers, ~IsOnlyVersion(vers)
    PROVE  vers \ {v} # {}
  <1>1. IsFiniteSet(vers)
    <2>1. vers \subseteq Nat /\ nextNum \in Nat /\ \A s \in vers : s <= nextNum
      BY DEF IInv, TypeOK, VersionsBelowNext
    <2>. QED
      BY <2>1, FS_BoundedSetOfNaturals
  <1>2. SUFFICES ASSUME vers \ {v} = {} PROVE FALSE
    OBVIOUS
  <1>3. vers = {v}
    BY <1>2
  <1>4. Cardinality(vers) = 1
    BY <1>3, FS_Singleton
  <1>. QED
    BY <1>4 DEF IsOnlyVersion

-----------------------------------------------------------------------------
(* The invariant                                                           *)

LEMMA InitIInv == Init => IInv
  BY DEF Init, IInv, TypeOK, VersionsBelowNext

LEMMA RequestAddAndRemoveIInv ==
    ASSUME IInv, NEW add \in SUBSET (Contents \cup {Unknown}),
           NEW remove \in SUBSET (Contents \cup {Unknown, Star}),
           NEW base \in vers \cup {NoBase}, RequestAddAndRemove(add, remove, base)
    PROVE  IInv'
  <1>1. add \subseteq Contents
    BY DEF RequestAddAndRemove, ValidAdd
  <1>2. remove \subseteq Contents \cup {Star}
    BY VersionsAssumption DEF RequestAddAndRemove, ValidRemove
  <1>3. base \in Nat \cup {NoBase}
    BY DEF IInv, TypeOK
  <1>4. [kind |-> "add_and_remove", add |-> add, remove |-> remove,
         base |-> base, version |-> 0] \in Task
    BY <1>1, <1>2, <1>3 DEF Task
  <1>5. tasks' \in Seq(Task)
    BY <1>4, AppendProperties DEF IInv, TypeOK, RequestAddAndRemove
  <1>. QED
    BY <1>5 DEF RequestAddAndRemove, IInv, TypeOK, VersionsBelowNext

LEMMA RequestDeleteVersionIInv ==
    ASSUME IInv, NEW v \in vers, RequestDeleteVersion(v)
    PROVE  IInv'
  <1>1. [kind |-> "delete_version", add |-> {}, remove |-> {},
         base |-> NoBase, version |-> v] \in Task
    BY DEF IInv, TypeOK, Task
  <1>2. tasks' \in Seq(Task)
    BY <1>1, AppendProperties DEF IInv, TypeOK, RequestDeleteVersion
  <1>. QED
    BY <1>2 DEF RequestDeleteVersion, IInv, TypeOK, VersionsBelowNext

LEMMA RunTaskIInv ==
    ASSUME IInv, RunTask
    PROVE  IInv'
  <1>. DEFINE t == Head(tasks)
  <1>1. t \in Task /\ tasks' \in Seq(Task)
    BY HeadTailProperties DEF IInv, TypeOK, RunTask
  <1>2. CASE t.kind = "add_and_remove"
    <2>1. AddAndRemove(t)
      BY <1>2 DEF RunTask
    <2>2. CASE t.base # NoBase /\ t.base \notin vers
      BY <1>1, <2>1, <2>2 DEF AddAndRemove, IInv, TypeOK, VersionsBelowNext
    <2>3. CASE t.base = NoBase \/ t.base \in vers
      <3>1. NewContent(t) \subseteq Contents
        BY <1>1, <2>3, NewContentType
      <3>2. /\ vers' = vers \cup {nextNum}
            /\ content' = [n \in DOMAIN content \cup {nextNum} |->
                             IF n = nextNum THEN NewContent(t) ELSE content[n]]
            /\ nextNum' = nextNum + 1 /\ failed' = failed
        BY <2>1, <2>3 DEF AddAndRemove
      <3>3. DOMAIN content' \subseteq Nat /\ vers' \subseteq DOMAIN content'
        BY <3>2 DEF IInv, TypeOK
      <3>4. \A n \in DOMAIN content' : content'[n] \subseteq Contents
        BY <3>1, <3>2 DEF IInv, TypeOK
      <3>5. vers' \subseteq Nat /\ nextNum' \in Nat /\ vers' # {}
        BY <3>2 DEF IInv, TypeOK
      <3>6. VersionsBelowNext'
        BY <3>2 DEF IInv, TypeOK, VersionsBelowNext
      <3>. QED
        BY <1>1, <3>2, <3>3, <3>4, <3>5, <3>6 DEF IInv, TypeOK
    <2>. QED
      BY <2>2, <2>3
  <1>3. CASE t.kind # "add_and_remove"
    <2>1. DeleteVersion(t)
      BY <1>3 DEF RunTask
    <2>2. vers' \subseteq vers /\ vers' # {}
      <3>1. CASE ~(t.version \in vers /\ ~IsOnlyVersion(vers))
        BY <2>1, <3>1 DEF DeleteVersion, IInv
      <3>2. CASE t.version \in vers /\ ~IsOnlyVersion(vers)
        BY <2>1, <3>2, OtherVersionRemains DEF DeleteVersion
      <3>. QED
        BY <3>1, <3>2
    <2>3. UNCHANGED <<content, nextNum>>
          /\ failed' \subseteq {"add_and_remove", "delete_version"}
      BY <2>1 DEF DeleteVersion, IInv, TypeOK
    <2>. QED
      BY <1>1, <2>2, <2>3 DEF IInv, TypeOK, VersionsBelowNext
  <1>. QED
    BY <1>2, <1>3

LEMMA NextIInv == IInv /\ [Next]_vars => IInv'
  <1>. SUFFICES ASSUME IInv, [Next]_vars PROVE IInv'
    OBVIOUS
  <1>1. CASE \E add \in SUBSET (Contents \cup {Unknown}),
               remove \in SUBSET (Contents \cup {Unknown, Star}),
               base \in vers \cup {NoBase} : RequestAddAndRemove(add, remove, base)
    BY <1>1, RequestAddAndRemoveIInv
  <1>2. CASE \E v \in vers : RequestDeleteVersion(v)
    BY <1>2, RequestDeleteVersionIInv
  <1>3. CASE RunTask
    BY <1>3, RunTaskIInv
  <1>4. CASE UNCHANGED vars
    BY <1>4 DEF vars, IInv, TypeOK, VersionsBelowNext
  <1>. QED
    BY <1>1, <1>2, <1>3, <1>4 DEF Next

\* The dispatched tasks keep the version numbers, the content sets and the
\* task queue well typed whatever is requested (delete_version,
\* add_and_remove and the serializer's validation).
THEOREM TypeCorrect == Spec => []TypeOK
  <1>1. IInv => TypeOK
    BY DEF IInv
  <1>. QED
    BY InitIInv, NextIInv, <1>1, PTL DEF Spec

-----------------------------------------------------------------------------
(* Refinement                                                              *)

\* Every step of a task maps to a step of the abstract history or leaves
\* it unchanged.
LEMMA StepRefines == IInv /\ [Next]_vars => [Abs!Next]_Abs!absvars
  <1>. SUFFICES ASSUME IInv, [Next]_vars PROVE [Abs!Next]_Abs!absvars
    OBVIOUS
  <1>1. CASE \/ \E add \in SUBSET (Contents \cup {Unknown}),
                  remove \in SUBSET (Contents \cup {Unknown, Star}),
                  base \in vers \cup {NoBase} : RequestAddAndRemove(add, remove, base)
             \/ \E v \in vers : RequestDeleteVersion(v)
             \/ UNCHANGED vars
    BY <1>1 DEF RequestAddAndRemove, RequestDeleteVersion, vars, Abs!absvars
  <1>2. CASE RunTask
    <2>. DEFINE t == Head(tasks)
    <2>1. t \in Task
      BY <1>2, HeadTailProperties DEF IInv, TypeOK, RunTask
    <2>2. CASE t.kind = "add_and_remove" /\ (t.base = NoBase \/ t.base \in vers)
      <3>1. AddAndRemove(t)
        BY <1>2, <2>2 DEF RunTask
      <3>2. NewContent(t) \in SUBSET Contents
        BY <2>1, <2>2, NewContentType
      <3>3. Abs!CreateVersion(NewContent(t))
        BY <2>2, <3>1, <3>2 DEF AddAndRemove, Abs!CreateVersion
      <3>. QED
        BY <3>2, <3>3 DEF Abs!Next
    <2>3. CASE t.kind = "add_and_remove" /\ t.base # NoBase /\ t.base \notin vers
      BY <1>2, <2>3 DEF RunTask, AddAndRemove, Abs!absvars
    <2>4. CASE t.kind # "add_and_remove" /\ t.version \in vers /\ ~IsOnlyVersion(vers)
      <3>1. DeleteVersion(t)
        BY <1>2, <2>4 DEF RunTask
      <3>2. vers \ {t.version} # {}
        BY <2>4, OtherVersionRemains
      <3>3. Abs!DeleteVersion(t.version)
        BY <2>4, <3>1, <3>2 DEF DeleteVersion, Abs!DeleteVersion
      <3>. QED
        BY <2>4, <3>3 DEF Abs!Next
    <2>5. CASE t.kind # "add_and_remove" /\ ~(t.version \in vers /\ ~IsOnlyVersion(vers))
      <3>1. DeleteVersion(t)
        BY <1>2, <2>5 DEF RunTask
      <3>. QED
        BY <2>5, <3>1 DEF DeleteVersion, Abs!absvars
    <2>. QED
      BY <2>2, <2>3, <2>4, <2>5
  <1>. QED
    BY <1>1, <1>2 DEF Next

\* delete_version and add_and_remove, run in dispatch order on requests the
\* serializer accepted, implement the abstract version history: numbers
\* only grow, a version's content never changes, and the repository always
\* keeps a version (the count check of delete_version, line 46).
THEOREM Refinement == Spec => ImplementsHistory
  <1>1. Init => Abs!Init
    BY DEF Init, Abs!Init
  <1>. QED
    BY <1>1, InitIInv, NextIInv, StepRefines, PTL DEF Spec, ImplementsHistory, Abs!Spec

-----------------------------------------------------------------------------
(* Remove before add                                                       *)

\* A step that creates a version is an add_and_remove task. Its added
\* units all end up in the new version, and with "*" no other unit of the
\* latest version does.
LEMMA StarStep ==
    IInv /\ [Next]_vars
    => [nextNum' = nextNum + 1 =>
         /\ Head(tasks).add \subseteq content'[nextNum]
         /\ Star \in Head(tasks).remove =>
              content'[nextNum] \cap content[Latest(vers)] \subseteq Head(tasks).add]_vars
  <1>. SUFFICES ASSUME IInv, [Next]_vars, nextNum' = nextNum + 1
                PROVE  /\ Head(tasks).add \subseteq content'[nextNum]
                       /\ Star \in Head(tasks).remove =>
                            content'[nextNum] \cap content[Latest(vers)] \subseteq Head(tasks).add
    OBVIOUS
  <1>1. nextNum \in Nat
    BY DEF IInv, TypeOK
  <1>2. CASE \/ \E add \in SUBSET (Contents \cup {Unknown}),
                  remove \in SUBSET (Contents \cup {Unknown, Star}),
                  base \in vers \cup {NoBase} : RequestAddAndRemove(add, remove, base)
             \/ \E v \in vers : RequestDeleteVersion(v)
             \/ UNCHANGED vars
    <2>1. nextNum' = nextNum
      BY <1>2 DEF RequestAddAndRemove, RequestDeleteVersion, vars
    <2>. QED
      BY <1>1, <2>1
  <1>3. CASE RunTask
    <2>. DEFINE t == Head(tasks)
    <2>1. CASE t.kind = "add_and_remove"
      <3>1. AddAndRemove(t)
        BY <1>3, <2>1 DEF RunTask
      <3>2. content'[nextNum] = NewContent(t)
        BY <1>1, <3>1 DEF AddAndRemove
      <3>3. Star \in t.remove => RemoveSet(t) = content[Latest(vers)]
        BY DEF IInv, RemoveSet
      <3>. QED
        BY <3>2, <3>3 DEF NewContent
    <2>2. CASE t.kind # "add_and_remove"
      BY <1>1, <1>3, <2>2 DEF RunTask, DeleteVersion
    <2>. QED
      BY <2>1, <2>2
  <1>. QED
    BY <1>2, <1>3 DEF Next

\* add_and_remove resolves "*" against the latest version when the task
\* runs (lines 229-234) and removes before it adds (lines 236-238): the
\* version it creates holds every unit it was asked to add and, with "*",
\* no other unit of the then-latest version.
THEOREM StarRemovesLatestHolds == Spec => StarRemovesLatest
  BY InitIInv, NextIInv, StarStep, PTL DEF Spec, StarRemovesLatest

====
