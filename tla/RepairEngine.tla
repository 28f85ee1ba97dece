---------------------------- MODULE RepairEngine ----------------------------
(***************************************************************************)
(* The artifact repair engine of pulpcore/app/tasks/repository.py:        *)
(*   _repair_artifacts_for_content  (the scan, one coroutine), and         *)
(*   _repair_ca                     (one repair task per invalid artifact),*)
(* entered through repair_version (a repository version's content) or     *)
(* repair_all_artifacts (every content unit of the domain).               *)
(*                                                                         *)
(* The scan and the repair tasks share one asyncio event loop.  A step    *)
(* ends at every await whose effect others can see: storage.exists and    *)
(* the checksum run in executors, each download, each file delete and     *)
(* save.  Between two awaits a coroutine runs alone.                       *)
(*                                                                         *)
(* Data is abstracted to what the properties tell apart: a file is "good" *)
(* (its digest is the Artifact's sha256), "corrupt" or "absent", and a     *)
(* RemoteArtifact is the bytes its remote serves: "good" or "corrupt".     *)
(*                                                                         *)
(* Storage calls other than the download may raise (storage.exists, the   *)
(* read of _verify_artifact other than FileNotFoundError, file.delete and *)
(* file.save): nothing catches them.  In the scan the exception ends the  *)
(* coroutine; in a repair task it is re-raised by the next gather of the  *)
(* task (lines 161, 163).  run_until_complete then returns and the other  *)
(* repair tasks are never resumed.                                         *)
(***************************************************************************)
EXTENDS Naturals, Sequences, FiniteSets

CONSTANTS
    NumCAs,       \* ContentArtifacts, numbered in the order the query yields them
    Contents,     \* content units of the domain
    ContentOf,    \* ContentOf[c]: the content unit of ContentArtifact c
    Artifacts,    \* Artifacts of the domain
    NoArtifact,   \* ContentArtifact.artifact is null (on-demand content)
    ArtOf,        \* ArtOf[c]: the Artifact of ContentArtifact c, or NoArtifact
    Sources,      \* Sources[c]: what each RemoteArtifact of c serves, in stored order
    Subset,       \* the subset argument: a set of content units, or NoSubset
    NoSubset,     \* subset=None (repair_all_artifacts)
    MaxPending    \* the cap on in-flight repairs (5 at line 157)

CAs == 1..NumCAs

ASSUME RepairAssumption ==
    /\ NumCAs \in Nat
    /\ ContentOf \in [CAs -> Contents]
    /\ NoArtifact \notin Artifacts
    /\ ArtOf \in [CAs -> Artifacts \cup {NoArtifact}]
    /\ Sources \in [CAs -> Seq({"good", "corrupt"})]
    /\ Subset \in SUBSET Contents \cup {NoSubset}
    /\ MaxPending \in Nat \ {0}

FileStates == {"good", "corrupt", "absent"}

\* Mutant: line 124 dropped: the subset is never applied.
ScopeUnfiltered == {c \in CAs : ArtOf[c] # NoArtifact}

\* Lines 117-124: ContentArtifacts with an artifact, of the subset's content;
\* a missing or empty subset means every content unit of the domain.
Scope ==
    {c \in CAs : /\ ArtOf[c] # NoArtifact
                 /\ Subset \in {NoSubset, {}} \/ ContentOf[c] \in Subset}

VARIABLES
    file,       \* file[a]: the stored file of Artifact a
    damage,     \* damage[a]: the file as the scan found it before it started (history)
    verify,     \* the verify_checksums argument
    pos,        \* the ContentArtifact the scan is at; NumCAs + 1 once the iterator is exhausted
    spc,        \* the scan: "scan", "verify", "admit", "done", or "failed" (it raised)
    pending,    \* the set pending of repair tasks
    tpc,        \* tpc[c]: the repair task of c: "idle", "start", "fetch", "save",
                \* or returned "repaired", "unrepaired", or "raised"
    src,        \* src[c]: the RemoteArtifact the task of c is downloading from
    missing,    \* ProgressReport repair.missing
    corrupted,  \* ProgressReport repair.corrupted
    repaired    \* ProgressReport repair.repaired

vars == <<file, damage, verify, pos, spc, pending, tpc, src, missing, corrupted, repaired>>

\* The repair task of c has returned.
Done(c) == tpc[c] \in {"repaired", "unrepaired", "raised"}

\* The repair task of c raises: its storage call failed.
Raise(c) == tpc' = [tpc EXCEPT ![c] = "raised"]

\* The event loop runs until the scan's coroutine returns or raises.
LoopRunning == spc \notin {"done", "failed"}

\* The repair task of c is in flight.
Running(c) == tpc[c] \in {"start", "fetch", "save"}

\* The next ContentArtifact the async iterator yields after c.
NextInScope(c) ==
    IF \E d \in Scope : d > c
    THEN CHOOSE d \in Scope : d > c /\ \A e \in Scope : e > c => d <= e
    ELSE NumCAs + 1

\* The scan moves on to the next ContentArtifact of the query.
Advance ==
    /\ pos' = NextInScope(pos)
    /\ spc' = "scan"

-----------------------------------------------------------------------------
(* _repair_artifacts_for_content                                           *)

\* Lines 138-142: storage.exists in the default executor; a missing file is
\* counted and invalid, a present one is hashed if verify_checksums.
ScanExists ==
    /\ spc = "scan"
    /\ pos \in Scope
    /\ \/ /\ file[ArtOf[pos]] = "absent"
          /\ missing' = missing + 1
          /\ spc' = "admit"
          /\ UNCHANGED pos
       \/ /\ file[ArtOf[pos]] # "absent"
          /\ verify
          /\ spc' = "verify"
          /\ UNCHANGED <<pos, missing>>
       \/ /\ file[ArtOf[pos]] # "absent"
          /\ ~verify
          /\ Advance
          /\ UNCHANGED missing
       \/ /\ spc' = "failed"                  \* storage.exists raised
          /\ UNCHANGED <<pos, missing>>
    /\ UNCHANGED <<file, damage, verify, pending, tpc, src, corrupted, repaired>>

\* Mutant: the checksum is never compared (verify_checksums ignored).
ScanVerifySkipped ==
    /\ spc = "verify"
    /\ Advance
    /\ UNCHANGED <<file, damage, verify, pending, tpc, src, missing, corrupted, repaired>>

\* Lines 99-110, 149-154: _verify_artifact on the checksum executor; a
\* digest mismatch, or a file gone by now (FileNotFoundError), is counted
\* corrupted; any other error of the read is raised in the scan.
ScanVerify ==
    /\ spc = "verify"
    /\ \/ /\ file[ArtOf[pos]] = "good"
          /\ Advance
          /\ UNCHANGED corrupted
       \/ /\ file[ArtOf[pos]] # "good"
          /\ corrupted' = corrupted + 1
          /\ spc' = "admit"
          /\ UNCHANGED pos
       \/ /\ spc' = "failed"                  \* the read raised
          /\ UNCHANGED <<pos, corrupted>>
    /\ UNCHANGED <<file, damage, verify, pending, tpc, src, missing, repaired>>

\* Mutant: the cap test is len(pending) > 5.
AtCapOffByOne(p) == Cardinality(p) > MaxPending

\* Line 157: the cap counts every task still in pending, finished or not.
AtCap(p) == Cardinality(p) >= MaxPending

\* Lines 156-162: at the cap, asyncio.wait blocks until a task finishes and
\* keeps the unfinished ones, and gather(*done) re-raises the exception of
\* a finished task that raised; otherwise the repair of pos is started.
Admit ==
    /\ spc = "admit"
    /\ ~AtCap(pending) \/ \E c \in pending : Done(c)
    /\ LET done == IF AtCap(pending) THEN {c \in pending : Done(c)} ELSE {}
       IN IF \E c \in done : tpc[c] = "raised"
          THEN /\ pending' = pending \ done
               /\ spc' = "failed"
               /\ UNCHANGED <<pos, tpc>>
          ELSE /\ pending' = (pending \ done) \cup {pos}
               /\ tpc' = [tpc EXCEPT ![pos] = "start"]
               /\ Advance
    /\ UNCHANGED <<file, damage, verify, src, missing, corrupted, repaired>>

\* Line 163: the scan ends by gathering every pending repair; gather
\* raises as soon as one of them has raised, the others still in flight.
Gather ==
    /\ spc = "scan"
    /\ pos = NumCAs + 1
    /\ \/ /\ \A c \in pending : Done(c) /\ tpc[c] # "raised"
          /\ spc' = "done"
       \/ /\ \E c \in pending : tpc[c] = "raised"
          /\ spc' = "failed"
    /\ UNCHANGED <<file, damage, verify, pos, pending, tpc, src, missing, corrupted, repaired>>

-----------------------------------------------------------------------------
(* _repair_ca(content_artifact, repaired)                                  *)

\* Lines 64-75: with no RemoteArtifact the file is deleted (or the delete
\* raises) and the task returns False; otherwise it downloads from the first one.
RepairStart(c) ==
    /\ LoopRunning
    /\ tpc[c] = "start"
    /\ \/ /\ Sources[c] = <<>>
          /\ file' = [file EXCEPT ![ArtOf[c]] = "absent"]
          /\ tpc' = [tpc EXCEPT ![c] = "unrepaired"]
          /\ UNCHANGED src
       \/ /\ Sources[c] = <<>>
          /\ Raise(c)
          /\ UNCHANGED <<src, file>>
       \/ /\ Sources[c] # <<>>
          /\ tpc' = [tpc EXCEPT ![c] = "fetch"]
          /\ src' = [src EXCEPT ![c] = 1]
          /\ UNCHANGED file
    /\ UNCHANGED <<damage, verify, pos, spc, pending, missing, corrupted, repaired>>

\* Mutant: a failed source is retried instead of moving to the next one.
NextSourceRetry(c) ==
    IF src[c] < Len(Sources[c])
    THEN UNCHANGED <<src, file, tpc>>
    ELSE /\ file' = [file EXCEPT ![ArtOf[c]] = "absent"]
         /\ tpc' = [tpc EXCEPT ![c] = "unrepaired"]
         /\ UNCHANGED src

\* Mutant: the last source is followed by one past the end.
NextSourceOffByOne(c) ==
    IF src[c] <= Len(Sources[c])
    THEN /\ src' = [src EXCEPT ![c] = @ + 1]
         /\ UNCHANGED <<file, tpc>>
    ELSE /\ file' = [file EXCEPT ![ArtOf[c]] = "absent"]
         /\ tpc' = [tpc EXCEPT ![c] = "unrepaired"]
         /\ UNCHANGED src

\* Lines 76, 94-96: the next RemoteArtifact, or, after the last one, the file
\* is deleted (or the delete raises) and the task returns False.
NextSource(c) ==
    IF src[c] < Len(Sources[c])
    THEN /\ src' = [src EXCEPT ![c] = @ + 1]
         /\ UNCHANGED <<file, tpc>>
    ELSE /\ \/ /\ file' = [file EXCEPT ![ArtOf[c]] = "absent"]
               /\ tpc' = [tpc EXCEPT ![c] = "unrepaired"]
            \/ Raise(c) /\ UNCHANGED file
         /\ UNCHANGED src

\* Mutant: the downloaded file is accepted without comparing its sha256.
DigestMatchesUnchecked(c) == TRUE

\* Line 84: the downloaded file's sha256 is the Artifact's.
DigestMatches(c) == Sources[c][src[c]] = "good"

\* Lines 77-90: downloader.run raises (logged, next source) or returns; a
\* download with the Artifact's digest makes the task delete the stored
\* file (or the delete raises), and the new one is saved in a later step.
Fetch(c) ==
    /\ LoopRunning
    /\ tpc[c] = "fetch"
    /\ \/ NextSource(c)                    \* the download raised
       \/ /\ ~DigestMatches(c)
          /\ NextSource(c)
       \/ /\ DigestMatches(c)
          /\ file' = [file EXCEPT ![ArtOf[c]] = "absent"]
          /\ tpc' = [tpc EXCEPT ![c] = "save"]
          /\ UNCHANGED src
       \/ /\ DigestMatches(c)
          /\ Raise(c)
          /\ UNCHANGED <<src, file>>
    /\ UNCHANGED <<damage, verify, pos, spc, pending, missing, corrupted, repaired>>

\* Lines 88-93: the download is saved under the old name, repaired is
\* incremented and the task returns True; or the save raises, the old
\* file already deleted.
Save(c) ==
    /\ LoopRunning
    /\ tpc[c] = "save"
    /\ \/ /\ file' = [file EXCEPT ![ArtOf[c]] = Sources[c][src[c]]]
          /\ repaired' = repaired + 1
          /\ tpc' = [tpc EXCEPT ![c] = "repaired"]
       \/ /\ Raise(c)
          /\ UNCHANGED <<file, repaired>>
    /\ UNCHANGED <<damage, verify, pos, spc, pending, src, missing, corrupted>>

-----------------------------------------------------------------------------
Init ==
    /\ file \in [Artifacts -> FileStates]
    /\ damage = file
    /\ verify \in BOOLEAN
    /\ pos = NextInScope(0)
    /\ spc = "scan"
    /\ pending = {}
    /\ tpc = [c \in CAs |-> "idle"]
    /\ src = [c \in CAs |-> 0]
    /\ missing = 0 /\ corrupted = 0 /\ repaired = 0

\* The task has returned or raised: nothing changes any more.
Idle == ~LoopRunning /\ UNCHANGED vars

Next ==
    \/ ScanExists \/ ScanVerify \/ Admit \/ Gather
    \/ \E c \in CAs : RepairStart(c) \/ Fetch(c) \/ Save(c)
    \/ Idle

\* The event loop resumes every coroutine whose await has completed; the
\* executors and downloads complete (a failing download completes by raising).
Fairness ==
    /\ WF_vars(ScanExists) /\ WF_vars(ScanVerify) /\ WF_vars(Admit) /\ WF_vars(Gather)
    /\ \A c \in CAs : WF_vars(RepairStart(c)) /\ WF_vars(Fetch(c)) /\ WF_vars(Save(c))

Spec == Init /\ [][Next]_vars /\ Fairness

-----------------------------------------------------------------------------
(* Properties                                                              *)

TypeOK ==
    /\ file \in [Artifacts -> FileStates]
    /\ damage \in [Artifacts -> FileStates]
    /\ verify \in BOOLEAN
    /\ pos \in 1..NumCAs + 1
    /\ spc \in {"scan", "verify", "admit", "done", "failed"}
    /\ pending \subseteq CAs
    /\ tpc \in [CAs -> {"idle", "start", "fetch", "save", "repaired", "unrepaired", "raised"}]
    /\ src \in [CAs -> Nat]
    /\ \A c \in CAs : tpc[c] \in {"fetch", "save"} => src[c] \in 1..Len(Sources[c])
    /\ missing \in Nat /\ corrupted \in Nat /\ repaired \in Nat

\* The scan found the artifact of c invalid: missing, or corrupt when checksums are verified.
Invalid(c) == damage[ArtOf[c]] = "absent" \/ (verify /\ damage[ArtOf[c]] = "corrupt")

\* Admission (lines 156-162): however the repairs and the scan interleave,
\* never more than MaxPending repairs are in flight at once.
InFlightBound == Cardinality({c \in CAs : Running(c)}) <= MaxPending

\* The ContentArtifacts of the scope whose Artifact is a.
UsersOf(a) == {c \in Scope : ArtOf[c] = a}

\* c is the first ContentArtifact of its Artifact that the scan reaches.
Leads(c) == \A d \in UsersOf(ArtOf[c]) : c <= d

\* Reporting (spec 4.5): when the scan has gathered every repair, each
\* counted ContentArtifact got exactly one repair task and repaired counts
\* the tasks that returned True.  Every Artifact found invalid is counted
\* at the first of its ContentArtifacts, with the kind of damage it had;
\* a later ContentArtifact of the same Artifact is counted by what its own
\* check sees while another repair of that Artifact runs: absent, good,
\* still corrupt, or gone under the checksum (FileNotFoundError, counted
\* corrupted although the file was missing at the start).
ReportCountsSound ==
    spc = "done" =>
        /\ missing + corrupted = Cardinality({c \in CAs : tpc[c] # "idle"})
        /\ repaired = Cardinality({c \in CAs : tpc[c] = "repaired"})
        /\ Cardinality({c \in Scope : Leads(c) /\ damage[ArtOf[c]] = "absent"}) <= missing
        /\ Cardinality({c \in Scope : Leads(c) /\ verify /\ damage[ArtOf[c]] = "corrupt"})
             <= corrupted

\* Repair correctness (spec 4.5, 7): when the scan has gathered every
\* repair, only invalid artifacts of the scope were repaired, and every
\* invalid one was.  The file of an Artifact no repair touched is as the
\* scan found it; one whose repairs all returned True has its digest; one
\* whose repairs all returned False has no file.  When repairs of two
\* ContentArtifacts sharing the Artifact disagree, the file is good or
\* absent, whichever wrote last (a delete after a good save loses it).
RepairOutcome ==
    spc = "done" =>
        /\ \A c \in CAs : tpc[c] # "idle" => c \in Scope /\ Invalid(c)
        /\ \A c \in Scope : Invalid(c) => \E d \in UsersOf(ArtOf[c]) : tpc[d] # "idle"
        /\ \A a \in Artifacts :
              LET T == UsersOf(a)
                  Some(st) == \E d \in T : tpc[d] = st
              IN  /\ (\A d \in T : tpc[d] = "idle") => file[a] = damage[a]
                  /\ Some("repaired") /\ ~Some("unrepaired") => file[a] = "good"
                  /\ Some("unrepaired") /\ ~Some("repaired") => file[a] = "absent"
                  /\ (\E d \in T : tpc[d] # "idle") => file[a] \in {"good", "absent"}

\* The repair run ends: the scan and every repair it started finish, or
\* a storage error ends it.
RepairTerminates == <>(spc \in {"done", "failed"})

\* Spec 4.5: repair_version repairs the artifacts of the version's content
\* only; a file no content unit of the version uses is never touched
\* (repair_all_artifacts, with no subset, may touch every file).
RepairStaysInVersion ==
    Subset # NoSubset =>
        \A a \in Artifacts :
            (\A c \in CAs : ArtOf[c] = a => ContentOf[c] \notin Subset)
            => file[a] = damage[a]

\* Spec 5 and 7: a repair interrupted at any point, by a storage error that
\* ends the run with other repairs still in flight (lines 161, 163), is safe
\* to run again: a file has changed only if its artifact was found invalid,
\* and only to bytes with its digest or to no file at all.
RepairNeverHarms ==
    \A a \in Artifacts : file[a] # damage[a] =>
        /\ file[a] \in {"good", "absent"}
        /\ \E c \in Scope : ArtOf[c] = a /\ Invalid(c)

=============================================================================
