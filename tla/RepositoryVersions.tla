------------------------- MODULE RepositoryVersions -------------------------
(***************************************************************************)
(* The Repository Version Manager of pulpcore/app/tasks/repository.py,    *)
(* for one repository:                                                     *)
(*   delete_version   (lines 22-60), and                                   *)
(*   add_and_remove   (lines 208-238),                                     *)
(* dispatched by requests that RepositoryAddRemoveContentSerializer       *)
(* validates (pulpcore/app/serializers/repository.py lines 531-559).      *)
(*                                                                         *)
(* A request is validated when it is made and runs later as a task; the   *)
(* tasks of one repository run one at a time, in the order dispatched, so *)
(* each task is one atomic step.  RepositoryVersion.delete (the squash),  *)
(* Repository.new_version and latest_version are ORM code outside src/    *)
(* and follow spec 4.4.                                                    *)
(***************************************************************************)
EXTENDS Naturals, Sequences, FiniteSets

CONSTANTS
    Contents,    \* pks of the content units that exist
    Unknown,     \* a pk no content unit has
    Star,        \* the "*" entry of remove_content_units
    NoBase,      \* base_version_pk=None
    MaxVersion,  \* the largest version number a run creates
    MaxTasks     \* the most tasks waiting at once

ASSUME VersionsAssumption ==
    /\ Unknown \notin Contents /\ Star \notin Contents /\ Star # Unknown
    /\ NoBase \notin Nat
    /\ MaxVersion \in Nat /\ MaxTasks \in Nat

VARIABLES
    vers,      \* numbers of the repository's complete versions
    content,   \* content[n]: the content set of version n, for every number ever used
    nextNum,   \* repository.next_version
    tasks,     \* the dispatched tasks, oldest first
    failed     \* the kinds of tasks that have failed

vars == <<vers, content, nextNum, tasks, failed>>

\* A dispatched task: its function and its validated arguments.
Task == [kind : {"add_and_remove", "delete_version"},
         add : SUBSET Contents, remove : SUBSET (Contents \cup {Star}),
         base : Nat \cup {NoBase}, version : Nat]

\* repository.latest_version(): the complete version with the greatest number.
Latest(vs) == CHOOSE n \in vs : \A m \in vs : m <= n

-----------------------------------------------------------------------------
(* RepositoryAddRemoveContentSerializer                                    *)

\* Mutant: unknown pks are not rejected.
ValidAddUnchecked(add) == TRUE

\* validate_add_content_units: every pk names an existing content unit,
\* otherwise raise_for_unknown_content_units rejects the request.
ValidAdd(add) == Unknown \notin add

\* validate_remove_content_units: "*" only on its own; otherwise every pk
\* names an existing content unit.
ValidRemove(remove) ==
    IF Star \in remove THEN remove = {Star} ELSE Unknown \notin remove

\* POST .../modify/: the request is validated and add_and_remove is
\* dispatched; an invalid request changes nothing.  The base version is a
\* RepositoryVersionRelatedField: it exists when the request is made.
RequestAddAndRemove(add, remove, base) ==
    /\ Len(tasks) < MaxTasks
    /\ nextNum + Len(tasks) <= MaxVersion
    /\ ValidAdd(add) /\ ValidRemove(remove)
    /\ tasks' = Append(tasks, [kind |-> "add_and_remove", add |-> add,
                               remove |-> remove, base |-> base, version |-> 0])
    /\ UNCHANGED <<vers, content, nextNum, failed>>

\* DELETE of a repository version dispatches delete_version.
RequestDeleteVersion(v) ==
    /\ Len(tasks) < MaxTasks
    /\ tasks' = Append(tasks, [kind |-> "delete_version", add |-> {}, remove |-> {},
                               base |-> NoBase, version |-> v])
    /\ UNCHANGED <<vers, content, nextNum, failed>>

-----------------------------------------------------------------------------
(* The tasks                                                               *)

\* Mutant: the check is count() < 1.
IsOnlyVersionOffByOne(vs) == Cardinality(vs) < 1

\* Line 46: the repository has at most one complete version.
IsOnlyVersion(vs) == Cardinality(vs) <= 1

\* delete_version(pk), lines 39-60, in one transaction: a version already
\* gone is a no-op, the only version is refused with ValidationError, any
\* other version is deleted and squashed into its successor.
DeleteVersion(t) ==
    /\ \/ /\ t.version \notin vers
          /\ UNCHANGED <<vers, failed>>
       \/ /\ t.version \in vers
          /\ IsOnlyVersion(vers)
          /\ failed' = failed \cup {"delete_version"}
          /\ UNCHANGED vers
       \/ /\ t.version \in vers
          /\ ~IsOnlyVersion(vers)
          /\ vers' = vers \ {t.version}
          /\ UNCHANGED failed
    /\ UNCHANGED <<content, nextNum>>

\* Mutant: "*" is resolved to the version numbered next_version - 1, which
\* a delete_version may have removed since.
RemoveSetLastNumber(t) ==
    IF Star \in t.remove THEN content[nextNum - 1] ELSE t.remove

\* Lines 229-234: "*" is resolved when the task runs, to the content of the
\* latest version, or to nothing when there is none.
RemoveSet(t) ==
    IF Star \in t.remove
    THEN IF vers = {} THEN {} ELSE content[Latest(vers)]
    ELSE t.remove

\* The content the new version starts from: base_version's, or the latest's.
BaseContent(t) ==
    IF t.base = NoBase THEN content[Latest(vers)] ELSE content[t.base]

\* Lines 236-238: remove_content, then add_content, on the new version.
NewContent(t) == (BaseContent(t) \ RemoveSet(t)) \cup t.add

\* add_and_remove, lines 222-238: a base version deleted since the request
\* raises DoesNotExist (line 225); otherwise one new version is created.
AddAndRemove(t) ==
    \/ /\ t.base # NoBase
       /\ t.base \notin vers
       /\ failed' = failed \cup {"add_and_remove"}
       /\ UNCHANGED <<vers, content, nextNum>>
    \/ /\ t.base = NoBase \/ t.base \in vers
       /\ vers' = vers \cup {nextNum}
       /\ content' = [n \in DOMAIN content \cup {nextNum} |->
                        IF n = nextNum THEN NewContent(t) ELSE content[n]]
       /\ nextNum' = nextNum + 1
       /\ UNCHANGED failed

\* The oldest dispatched task runs.
RunTask ==
    /\ tasks # <<>>
    /\ tasks' = Tail(tasks)
    /\ IF Head(tasks).kind = "add_and_remove"
       THEN AddAndRemove(Head(tasks))
       ELSE DeleteVersion(Head(tasks))

-----------------------------------------------------------------------------
Init ==
    /\ vers = {0}
    /\ content = [n \in {0} |-> {}]
    /\ nextNum = 1
    /\ tasks = <<>>
    /\ failed = {}

Next ==
    \/ \E add \in SUBSET (Contents \cup {Unknown}), remove \in SUBSET (Contents \cup {Unknown, Star}),
          base \in vers \cup {NoBase} : RequestAddAndRemove(add, remove, base)
    \/ \E v \in vers : RequestDeleteVersion(v)
    \/ RunTask

\* The tasking system eventually runs every dispatched task.
Spec == Init /\ [][Next]_vars /\ WF_vars(RunTask)

-----------------------------------------------------------------------------
(* Properties                                                              *)

TypeOK ==
    /\ vers \subseteq Nat
    /\ DOMAIN content \subseteq Nat /\ vers \subseteq DOMAIN content
    /\ \A n \in DOMAIN content : content[n] \subseteq Contents
    /\ nextNum \in Nat
    /\ tasks \in Seq(Task)
    /\ failed \subseteq {"add_and_remove", "delete_version"}

Abs == INSTANCE RepositoryHistory

\* Spec 4.4 and 8: the tasks implement the version history: numbers only
\* grow and are never reused, a version's content never changes, and a
\* repository always keeps at least one version.
ImplementsHistory == Abs!Spec

\* Spec 4.4: a modify with "*" removes everything that is in the latest
\* version when the task runs (lines 229-234), which may differ from the
\* latest version when it was requested, and removes before it adds
\* (lines 236-238): the version add_and_remove creates holds every unit
\* it was asked to add, and of the then-latest version's units only those.
StarRemovesLatest ==
    [][nextNum' = nextNum + 1 =>
         /\ Head(tasks).add \subseteq content'[nextNum]
         /\ Star \in Head(tasks).remove =>
              content'[nextNum] \cap content[Latest(vers)] \subseteq Head(tasks).add]_vars

=============================================================================
