-------------------------- MODULE ContentUnitStages --------------------------
(***************************************************************************)
(* The two stages of the declarative content pipeline in                   *)
(* plugin/pulpcore/plugin/stages/content_unit_stages.py:                   *)
(*   query_existing_content_units  (the Content Identity Resolver) and     *)
(*   content_unit_saver            (the Batched Content Committer),        *)
(* for a set of pipeline runs that share one content store.                *)
(*                                                                         *)
(* Each stage is an asyncio coroutine.  Between its blocking in_q.get()    *)
(* and the next one it never yields: get_nowait, the ORM calls and         *)
(* out_q.put on an unbounded queue all run without suspending.  So one     *)
(* iteration of a stage's loop -- drain everything queued, process the     *)
(* batch, forward it -- is one atomic step, and its batch is the whole     *)
(* input queue at the moment the stage runs.  Runs are separate worker     *)
(* processes: their steps interleave arbitrarily through the store.        *)
(*                                                                         *)
(* Data is abstracted to what the properties tell apart: a content unit is *)
(* its natural key, a DeclarativeContent is a (run, position) pair, and    *)
(* an artifact is its relative path.                                       *)
(***************************************************************************)
EXTENDS Naturals, Sequences, FiniteSets

CONSTANTS
    Runs,           \* concurrent pipeline runs (sync tasks)
    Keys,           \* natural keys of content units
    Paths,          \* relative paths of artifacts
    Feed,           \* Feed[r]: natural keys of the units run r declares, in order
    ArtifactPaths,  \* ArtifactPaths[k]: relative paths of the artifacts of unit k
    Unsaved         \* DeclarativeContent.content is still the unsaved candidate

ASSUME FeedAssumption ==
    /\ Feed \in [Runs -> Seq(Keys)]
    \* one DeclarativeContent per logical content item per run (spec section 3)
    /\ \A r \in Runs : \A i, j \in 1..Len(Feed[r]) : Feed[r][i] = Feed[r][j] => i = j

ASSUME ArtifactAssumption ==
    /\ ArtifactPaths \in [Keys -> SUBSET Paths]
    /\ Unsaved \notin Keys

\* The shutdown sentinel (Python None); queue items are positions 1..Len(Feed[r]).
None == 0

\* Every DeclarativeContent of every run.
DCs == UNION {{<<r, i>> : i \in 1..Len(Feed[r])} : r \in Runs}

\* The natural key of the candidate content of DeclarativeContent d.
Key(d) == Feed[d[1]][d[2]]

VARIABLES
    sent,       \* sent[r]: how many items (sentinel included) upstream has put
    q1,         \* q1[r]: in_q of query_existing_content_units
    q2,         \* q2[r]: out_q of the resolver = in_q of content_unit_saver
    ref,        \* ref[d]: DeclarativeContent.content: Unsaved or the key of a saved record
    resolverUp, \* resolverUp[r]: the resolver's loop has not yet broken on shutdown
    saver,      \* saver[r]: "running", "done" (put its final None) or "failed" (raised)
    fwd,        \* fwd[d]: how many times content_unit_saver has put d on its out_q
    rNones,     \* rNones[r]: how many None the resolver has put on its out_q
    stored,     \* natural keys of the persisted Content rows
    cas,        \* persisted ContentArtifact rows
    ras         \* persisted RemoteArtifact rows; src is the DeclarativeContent whose data it holds

vars == <<sent, q1, q2, ref, resolverUp, saver, fwd, rNones, stored, cas, ras>>

-----------------------------------------------------------------------------
(* Helpers on a drained batch (declarative_content_list).                  *)

\* The DeclarativeContent positions in batch b, sentinel excluded.
Items(b) == {b[j] : j \in DOMAIN b} \ {None}

\* The batch contains the sentinel: the stage sets shutdown = True.
HasShutdown(b) == \E j \in DOMAIN b : b[j] = None

\* How many times x occurs in batch b.
Occurrences(b, x) == Cardinality({j \in DOMAIN b : b[j] = x})

\* A run's pipeline task is alive until content_unit_saver raises.
Alive(r) == saver[r] # "failed"

-----------------------------------------------------------------------------
(* The upstream stage (out of this file's scope) puts the run's            *)
(* DeclarativeContent in order, then one None.                             *)
Emit(r) ==
    /\ Alive(r)
    /\ sent[r] <= Len(Feed[r])
    /\ q1' = [q1 EXCEPT ![r] = Append(@, IF sent[r] < Len(Feed[r]) THEN sent[r] + 1 ELSE None)]
    /\ sent' = [sent EXCEPT ![r] = @ + 1]
    /\ UNCHANGED <<q2, ref, resolverUp, saver, fwd, rNones, stored, cas, ras>>

-----------------------------------------------------------------------------
(* query_existing_content_units                                            *)

\* Mutant: a returned record replaces every candidate of the batch (no recheck).
SameUnitNoRecheck(k, d) == TRUE

\* The per-field recheck of a returned record against a candidate (lines 63-69).
SameUnit(k, d) == k = Key(d)

\* The records returned by the one OR-query over the batch's natural keys (lines 48-59).
ExistingResults(r, b) == {Key(<<r, i>>) : i \in Items(b)} \cap stored

\* declarative_content.content after the scan of the results (lines 58-70).
ResolvedRef(r, b, d) ==
    IF d[1] = r /\ d[2] \in Items(b) /\ \E k \in ExistingResults(r, b) : SameUnit(k, d)
    THEN CHOOSE k \in ExistingResults(r, b) : SameUnit(k, d)
    ELSE ref[d]

\* What the resolver puts on out_q: the batch as drained, None included
\* (lines 71-72), then one more None once it breaks on shutdown (line 76).
ResolverOutput(b) == b \o (IF HasShutdown(b) THEN <<None>> ELSE <<>>)

QueryExistingContentUnits(r) ==
    /\ Alive(r)
    /\ resolverUp[r]
    /\ q1[r] # <<>>
    /\ LET b == q1[r] IN
       /\ ref' = [d \in DCs |-> ResolvedRef(r, b, d)]
       /\ q1' = [q1 EXCEPT ![r] = <<>>]
       /\ q2' = [q2 EXCEPT ![r] = @ \o ResolverOutput(b)]
       /\ rNones' = [rNones EXCEPT ![r] = @ + Occurrences(ResolverOutput(b), None)]
       /\ resolverUp' = [resolverUp EXCEPT ![r] = ~HasShutdown(b)]
    /\ UNCHANGED <<sent, saver, fwd, stored, cas, ras>>

-----------------------------------------------------------------------------
(* content_unit_saver                                                      *)

\* Items whose content is unsaved (_state.adding, line 126).
Adding(r, b) == {i \in Items(b) : ref[<<r, i>>] = Unsaved}

\* content_artifact_bulk: one ContentArtifact per DeclarativeArtifact of a new unit (128-134).
ContentArtifactBulk(r, b) ==
    UNION {{[key |-> Key(<<r, i>>), path |-> p] : p \in ArtifactPaths[Key(<<r, i>>)]} : i \in Adding(r, b)}

\* remote_artifact_map is keyed by relative_path alone (line 147): for each path,
\* the last new item of the batch that has an artifact there wins.
RemoteArtifactMap(r, b) ==
    [p \in UNION {ArtifactPaths[Key(<<r, i>>)] : i \in Adding(r, b)} |->
        b[CHOOSE j \in DOMAIN b :
              /\ b[j] \in Adding(r, b)
              /\ p \in ArtifactPaths[Key(<<r, b[j]>>)]
              /\ \A m \in DOMAIN b : b[m] \in Adding(r, b) /\ p \in ArtifactPaths[Key(<<r, b[m]>>)] => m <= j]]

\* Mutant: no uniqueness constraint on the natural key; save() never raises.
SaveNeverFails(r, b) == FALSE

\* content.save() of a unit whose natural key is already stored violates the
\* store's uniqueness and raises IntegrityError (line 127).
SaveFails(r, b) == \E i \in Adding(r, b) : Key(<<r, i>>) \in stored

\* Mutant: remote_artifact_map.get(relative_path) in place of pop: never raises.
PopNeverFails(r, b) == FALSE

\* remote_artifact_map.pop(relative_path) raises KeyError for the second
\* ContentArtifact of the batch that has the same relative_path (line 150).
PopFails(r, b) ==
    \E p \in Paths : Cardinality({i \in Adding(r, b) : p \in ArtifactPaths[Key(<<r, i>>)]}) > 1

\* The transaction of lines 121-156 commits: the new Content rows, their
\* ContentArtifacts and one RemoteArtifact per ContentArtifact become visible together.
Commit(r, b) ==
    /\ stored' = stored \cup {Key(<<r, i>>) : i \in Adding(r, b)}
    /\ cas' = cas \cup ContentArtifactBulk(r, b)
    /\ ras' = ras \cup {[key |-> ca.key, path |-> ca.path, src |-> <<r, RemoteArtifactMap(r, b)[ca.path]>>]
                        : ca \in ContentArtifactBulk(r, b)}
    /\ ref' = [d \in DCs |-> IF d[1] = r /\ d[2] \in Adding(r, b) THEN Key(d) ELSE ref[d]]

\* Mutant: no transaction.atomic(): the Content rows and the ContentArtifacts
\* written before the exception stay, the RemoteArtifacts are never written.
RollbackNoTransaction(r, b) ==
    /\ stored' = stored \cup {Key(<<r, i>>) : i \in Adding(r, b)}
    /\ cas' = cas \cup ContentArtifactBulk(r, b)
    /\ UNCHANGED <<ras, ref>>

\* The transaction raised: it is rolled back and the exception ends the stage,
\* and with it the run's pipeline task.
Rollback(r, b) ==
    /\ UNCHANGED <<stored, cas, ras, ref>>

\* Mutant: break on shutdown before the batch is forwarded.
ForwardBatchBreakFirst(r, b) ==
    fwd' = IF HasShutdown(b) THEN fwd
           ELSE [d \in DCs |-> IF d[1] = r THEN fwd[d] + Occurrences(b, d[2]) ELSE fwd[d]]

\* Lines 158-165: every non-None item is put on out_q, then None once shutdown was seen.
ForwardBatch(r, b) ==
    fwd' = [d \in DCs |-> IF d[1] = r THEN fwd[d] + Occurrences(b, d[2]) ELSE fwd[d]]

\* Mutant: declarative_content_list is not reset after a batch (line 164).
DrainSaverKeepList(r) == UNCHANGED q2

\* The saver drains its in_q into declarative_content_list (lines 105-115) and
\* starts the next iteration with an empty list (line 164).
DrainSaverQueue(r) == q2' = [q2 EXCEPT ![r] = <<>>]

\* The batch is committed and forwarded; None in it ends the loop (lines 121-163).
SaverCommits(r, b) ==
    /\ ~SaveFails(r, b) /\ ~PopFails(r, b)
    /\ Commit(r, b)
    /\ ForwardBatch(r, b)
    /\ saver' = [saver EXCEPT ![r] = IF HasShutdown(b) THEN "done" ELSE "running"]

\* The transaction raises: nothing is forwarded and the stage is gone.
SaverRaises(r, b) ==
    /\ SaveFails(r, b) \/ PopFails(r, b)
    /\ Rollback(r, b)
    /\ saver' = [saver EXCEPT ![r] = "failed"]
    /\ UNCHANGED fwd

ContentUnitSaver(r) ==
    /\ saver[r] = "running"
    /\ q2[r] # <<>>
    /\ DrainSaverQueue(r)
    /\ SaverCommits(r, q2[r]) \/ SaverRaises(r, q2[r])
    /\ UNCHANGED <<sent, q1, resolverUp, rNones>>

-----------------------------------------------------------------------------
Init ==
    /\ sent = [r \in Runs |-> 0]
    /\ q1 = [r \in Runs |-> <<>>]
    /\ q2 = [r \in Runs |-> <<>>]
    /\ ref = [d \in DCs |-> Unsaved]
    /\ resolverUp = [r \in Runs |-> TRUE]
    /\ saver = [r \in Runs |-> "running"]
    /\ fwd = [d \in DCs |-> 0]
    /\ rNones = [r \in Runs |-> 0]
    /\ stored = {}
    /\ cas = {}
    /\ ras = {}

\* Every run has finished: its saver put its final None or raised.
Finished == \A r \in Runs : saver[r] # "running"

\* Once every run has finished nothing changes any more.
Idle == Finished /\ UNCHANGED vars

Next ==
    \/ \E r \in Runs : Emit(r) \/ QueryExistingContentUnits(r) \/ ContentUnitSaver(r)
    \/ Idle

\* asyncio runs every task whose awaited get() has an item: each stage with
\* input eventually takes its step.
Fairness ==
    \A r \in Runs : WF_vars(Emit(r)) /\ WF_vars(QueryExistingContentUnits(r)) /\ WF_vars(ContentUnitSaver(r))

Spec == Init /\ [][Next]_vars /\ Fairness

-----------------------------------------------------------------------------
(* Properties                                                              *)

CAType == [key : Keys, path : Paths]

\* A run's queue holds positions of its own feed and the sentinel.
QueueOK(q) == q \in [Runs -> Seq(Nat)] /\ \A r \in Runs : q[r] \in Seq(0..Len(Feed[r]))

TypeOK ==
    /\ sent \in [Runs -> Nat]
    /\ QueueOK(q1)
    /\ QueueOK(q2)
    /\ ref \in [DCs -> Keys \cup {Unsaved}]
    /\ resolverUp \in [Runs -> BOOLEAN]
    /\ saver \in [Runs -> {"running", "done", "failed"}]
    /\ fwd \in [DCs -> Nat]
    /\ rNones \in [Runs -> Nat]
    /\ stored \subseteq Keys
    /\ cas \subseteq CAType
    /\ ras \subseteq [key : Keys, path : Paths, src : DCs]

\* Dedup (resolver recheck, saver save): every DeclarativeContent the saver
\* forwards refers to the persisted record with its own natural key.
ForwardedRefersToOwnRecord ==
    \A d \in DCs : fwd[d] > 0 => ref[d] = Key(d) /\ Key(d) \in stored

\* Batch atomicity: a persisted content unit has exactly the ContentArtifacts of
\* its artifacts, each with a RemoteArtifact, and no link row is dangling.
StoreLinked ==
    /\ \A ca \in cas : ca.key \in stored /\ ca.path \in ArtifactPaths[ca.key]
    /\ \A k \in stored : \A p \in ArtifactPaths[k] : [key |-> k, path |-> p] \in cas
    /\ \A ca \in cas : \E ra \in ras : ra.key = ca.key /\ ra.path = ca.path
    /\ \A ra \in ras : [key |-> ra.key, path |-> ra.path] \in cas

\* Provenance: a RemoteArtifact holds the url/checksums of a DeclarativeArtifact
\* of the same unit (the relative_path-keyed join of lines 147-150).
ProvenanceSound ==
    \A ra \in ras : Key(ra.src) = ra.key /\ ra.path \in ArtifactPaths[Key(ra.src)]

\* Exactly-once, first half: across batches and the shutdown boundary the
\* saver never puts the same DeclarativeContent on its out_q twice.
SaverNoDuplicates == \A d \in DCs : fwd[d] <= 1

\* Exactly-once, second half: no item is lost across a shutdown; every DeclarativeContent of a run is
\* eventually forwarded by the saver, unless the run fails.
EveryItemForwarded == \A d \in DCs : <>(fwd[d] = 1 \/ saver[d[1]] = "failed")

\* Spec 4.1: a stage forwards exactly one sentinel to its output queue.
ResolverSingleSentinel == \A r \in Runs : rNones[r] <= 1

\* Spec 7: transient failures never abort ingestion; a run never fails.
NoRunFails == \A r \in Runs : saver[r] # "failed"

-----------------------------------------------------------------------------
(* Refinement: the store the stages write implements ContentStore.         *)

\* A RemoteArtifact's provenance comes from a DeclarativeContent; the unit it
\* is about is the one with its natural key.
Store == INSTANCE ContentStore
            WITH units <- stored, artifacts <- cas, remotes <- ras,
                 Sources <- DCs, SourceKey <- [d \in DCs |-> Key(d)]

\* Spec 4.2, batch atomicity and dedup, for every interleaving of the runs:
\* each committed transaction of content_unit_saver (lines 121-156) adds
\* units not stored before, each with all its ContentArtifacts and exactly
\* one RemoteArtifact per ContentArtifact drawn from a declaration of the
\* same unit; a rolled-back one adds nothing.
ImplementsContentStore == Store!Spec

=============================================================================
