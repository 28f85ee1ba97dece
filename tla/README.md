# Formal models of the pulpcore content pipeline and repair engine

This directory holds TLA+ models of the concurrent parts of this repository. It has
TLC configurations that model-check them on small instances, and TLAPS proofs of
the results that hold for every instance. Every definition is translated from the
code under `src/`. `PROJECT.json` maps each definition to the lines it models.

## The system

| Part | Code | What it does |
|---|---|---|
| Pipeline Stage Runtime | `src/plugin/pulpcore/plugin/stages/content_unit_stages.py` | Stages are asyncio coroutines joined by unbounded queues. Each stage drains everything queued (`get_nowait` until empty), processes the batch, forwards it and blocks on `get()` again. A `None` is the shutdown sentinel. |
| Content Identity Resolver | `query_existing_content_units` (lines 10-76) | For a batch, one OR-query per content type over the natural keys. Each result replaces the unsaved candidate whose natural-key fields all match it. |
| Batched Content Committer | `content_unit_saver` (lines 79-165) | In one transaction per batch: saves the new units, bulk-creates their ContentArtifacts, and joins the returned rows to RemoteArtifact data by `relative_path`. Then it forwards the batch. |
| Artifact Repair Engine | `src/pulpcore/app/tasks/repository.py` lines 63-205 | Scans ContentArtifacts for missing or corrupt files and starts at most 5 concurrent `_repair_ca` tasks. Each task tries the RemoteArtifacts in order and keeps a download only if its sha256 matches. |
| Repository Version Manager | `src/pulpcore/app/tasks/repository.py` lines 22-60, 208-238 | Deletes a version but keeps at least one; creates a version by remove-then-add. |
| Serializers | `src/pulpcore/app/serializers/repository.py`, `domain.py` | Request validation: add/remove content, remotes, sync URL, domain storage settings. |

How the parts interact:
- Several sync runs execute their pipelines in separate worker processes.
- They interact only through the content store: a unit saved by one run is found by the resolver of another.
- The repair engine works on the files whose provenance (the RemoteArtifacts) the committer wrote.

## Modules

### `ContentUnitStages` (resolver + committer, several runs)

**State.** Per run:
- `q1` and `q2`: the two stage queues, holding feed positions and the sentinel 0.
- `ref`: `DeclarativeContent.content`, either `Unsaved` or the natural key of the stored record.
- `resolverUp`, `saver`: stage liveness.
- `fwd`: how often the saver has forwarded each item.
- `rNones`: how many sentinels the resolver has forwarded.

Shared by all runs: the store (`stored`, `cas`, `ras`). Each RemoteArtifact also records the DeclarativeContent whose data it copied.

**Actions.**
- `Emit(r)` is the upstream stage: the feed in order, then `None`. It is modelled from the spec because that code is not in `src/`.
- `QueryExistingContentUnits(r)` and `ContentUnitSaver(r)` are one loop iteration each.

**Atomicity.** Between the blocking `get()` and the next one a stage does not suspend:
- `get_nowait` and `put` on an unbounded queue return at once;
- the ORM calls are synchronous.

So one iteration is atomic, and its batch is the whole queue. The saver's iteration covers the transaction, the rollback on `IntegrityError` (line 127, `SaveFails`) or `KeyError` (line 150, `PopFails`), the forwarding and the reset of the list. If the transaction raises, the stage ends, and with it the run.

**Abstraction.**
- A content unit is its natural key.
- An artifact is its relative path.
- The store's uniqueness of natural keys is what makes a save raise.

**Refinement.** `ContentStore` is the abstract store that spec section 4.2 promises, with three variables: `units`, `artifacts` and `remotes`. Its one action, `AddBatch(N, src)`, adds the units `N`, none of them stored before. Each comes with one ContentArtifact per artifact and exactly one RemoteArtifact per ContentArtifact. The provenance `src` of each RemoteArtifact is a declaration of the same unit. `ContentUnitStages` instantiates it as `Store == INSTANCE ContentStore WITH units <- stored, artifacts <- cas, remotes <- ras, Sources <- DCs, SourceKey <- [d \in DCs |-> Key(d)]`, and `ImplementsContentStore == Store!Spec`.

### `RepairEngine` (`_repair_artifacts_for_content`, `_repair_ca`, `_verify_artifact`)

**State.**
- `file`: the stored file of each Artifact, one of good, corrupt or absent.
- `damage`: the initial file states, kept as history.
- `verify`: the `verify_checksums` argument.
- `pos` and `spc`: the scan's position and program counter.
- `pending`: the set of started repair tasks.
- `tpc` and `src`: each repair task's program counter and current RemoteArtifact.
- The three ProgressReport counters.

**Steps.** A step ends at each await whose effect another coroutine can observe:
- the existence check;
- the checksum;
- each download;
- the delete and the save of the file.

Admission waits with `asyncio.wait(FIRST_COMPLETED)` when `len(pending) >= 5`. In `AtCap`, that count includes tasks that have already finished.

**Download failures.** A download can always fail; this is the first disjunct of `Fetch`. A successful download serves the bytes of its RemoteArtifact, given by the constant `Sources`.

**Storage failures.** Every other storage call may raise:
- `storage.exists` and the checksum read. `_verify_artifact` catches only `FileNotFoundError`.
- A task's `file.delete` and `file.save` (`Raise`, `tpc = "raised"`).

A raise in the scan sets `spc` to `"failed"` at once. A raised task is harvested like a finished one, and `asyncio.gather(*done)` at the cap or the final `gather` re-raises, which also sets `spc` to `"failed"`. When the coroutine has failed or finished, `run_until_complete` returns and the tasks still in flight are never resumed. This is why every task step is guarded by `LoopRunning`, and why `Idle` is the final stutter.

### `RepositoryHistory` and `RepositoryVersions` (Repository Version Manager)

`RepositoryHistory` is what the manager promises (spec 4.4, 8):
- `vers`: the complete versions.
- `content`: the content set of every number ever used.
- `nextNum`: the next number.

A version is created with any content set under the next number, or deleted while another remains. Nothing else changes.

`RepositoryVersions` models `delete_version` (lines 22-60) and `add_and_remove` (lines 208-238) of `tasks/repository.py`, and the requests that dispatch them:
- A modify request passes `RepositoryAddRemoveContentSerializer`: unknown pks are rejected, and `"*"` is accepted only alone (lines 531-559). Its `base_version` exists when it is made.
- Tasks wait in `tasks` and run one at a time in dispatch order. The tasking system holds the repository as an exclusive resource, so each task is one atomic step.
- `add_and_remove` looks the base version up again, which can fail if it was deleted in between. It resolves `"*"` against the latest version when it runs, then removes and adds.
- `delete_version` is a no-op for a missing version, refuses the only version, and otherwise deletes.
- The ORM squash, `new_version` and `latest_version` are outside `src/` and follow spec 4.4.

The refinement mapping is the identity on `vers`, `content` and `nextNum`. `ImplementsHistory` is `Abs!Spec` for `Abs == INSTANCE RepositoryHistory`.

### Remote serializers: `CertificateValidation`, `ImportPathValidation`, `RemoteProxySettings`

- **`CertificateValidation`** is `validate_certificate`, one loop iteration per step. A line is abstracted to what the loop tests: a BEGIN marker, an END marker, or other text. `load_pem_x509_certificate` accepts one BEGIN line, base64 lines and one END line. The result is checked against a reference definition, `CertsOf`: the certificates of a text are its BEGIN/text/END intervals, in order. `CertsOf` is `CertsFrom(v, CertStarts(v))`. The n-th entry of `CertsFrom(v, S)` is the certificate at the start of `S` that has n - 1 starts of `S` below it (`AtRank`, `NthStart`). So it is a plain function of a set and needs no recursion, which is what lets TLAPS reason about it. The run covers every text of up to 5 lines.
- **`ImportPathValidation`** is `validate_url`. A path is a string over `/`, `a` and `.`. `os.path.realpath` is modelled by what it does: a fold resolves `.`, `..` and repeated separators, and the segments are joined again. The allowed-path test is the code's `str.startswith`.
- **`RemoteProxySettings`** covers the proxy url, username and password of one remote through POST, PUT and PATCH. `validate()` decides on the values the remote will have. The save (from DRF, outside `src/`) writes the given fields and keeps the rest.

### `DomainSettings` (domain serializers)

`DomainSettings` models the storage class and settings of one domain through `DomainSerializer` (POST, PUT, PATCH) and `DomainBackendMigratorSerializer` (a backend migration). The backends are FileSystem, S3 and Azure, the three `BACKEND_CHOICES`.
- A settings dict is abstracted to the keys it gives. The keys are a few per backend: credentials, bucket or container, location. Setting names such as `media_root` are translated as in `BaseSettingsClass.to_internal_value`. Each backend's translation is a definition of its own (`FileSystemMapping`, `S3Mapping`, `AzureMapping`), and `Mapping` selects one, as `STORAGE_MAPPING` does. The SFTP backend and the transfer settings are not modelled.
- A backend serializer's validated data holds all its fields, defaults included. So stored settings are abstracted to the backend whose fields they hold (their "shape") and the keys that were given.
- DRF's field order is kept. `storage_class` is validated first, then `storage_settings`, which reads the raw request; `validate()` runs only when both pass. A `ValidationError` is a 400 (`"invalid"`); any other exception is a 500 (`"error"`).
- `_validate_storage_backend` builds the backend. A django-storages backend raises `ImproperlyConfigured` for an argument it does not know. Django's `FileSystemStorage` raises `TypeError`, which is not caught.

## Runs

| Run | Config | Expect | What it shows |
|---|---|---|---|
| pipeline_safety | `MCContentUnitStages.cfg` | pass | 2 runs with feeds `<<k1,k2>>` and `<<k2,k3>>`. Unit k2 shares path p1 with k1 and path p2 with k3. Checks: `ForwardedRefersToOwnRecord` (dedup), `StoreLinked` (batch atomicity), `ProvenanceSound`, `SaverNoDuplicates`, the liveness `EveryItemForwarded`, and the refinement `ImplementsContentStore`. |
| resolver_double_sentinel | `ResolverSentinel.cfg` | violation | The resolver forwards 2 sentinels (lines 72 and 76). |
| shared_path_batch | `SharedPathBatch.cfg` | violation | Two new units of one batch with the same relative path: `pop` raises `KeyError` and the run fails. |
| racing_runs | `RacingRuns.cfg` | violation | Two runs both resolve k1 as new; the second save raises `IntegrityError`. |
| repair_engine | `MCRepairEngine.cfg` | pass | 5 ContentArtifacts, one outside the version; ContentArtifacts 2 and 5 share Artifact a2. Every initial file state, both values of `verify`, and a cap of 2. Any storage call may raise. Checks: `TypeOK`, `InFlightBound`, `ReportCountsSound` (one missing or corrupted per repair started; every invalid Artifact counted at its first ContentArtifact), `RepairOutcome` (runs that finish: only invalid Artifacts repaired, every one attempted, each file as its repairs decided), `RepairStaysInVersion`, `RepairNeverHarms` (a file changes only if it was found invalid, and only to good bytes or to no file, even when a raise aborts the repair with tasks in flight), `RepairTerminates`. |
| empty_version_repair | `EmptyVersionRepair.cfg` | violation | An empty version's repair falls back to the whole domain (line 121). |
| repository_versions | `MCRepositoryVersions.cfg` | pass | Two content units, versions up to 3, and 2 waiting tasks, with every valid modify and delete request. Checks `TypeOK`, the refinement `ImplementsHistory`, and the action property `StarRemovesLatest`: a new version holds every unit asked to be added and, with `"*"`, none of the other units of the version that is latest when the task runs (remove before add, `"*"` resolved at run time). |
| certificate_validation | `MCCertificateValidation.cfg` | pass | Every text of up to 5 lines: the code returns exactly `CertsOf(value)` and rejects only texts with a stray or broken marker. |
| unclosed_certificate | `UnclosedCertificate.cfg` | violation | `BEGIN,text,END,BEGIN` is accepted; the unclosed segment is dropped. |
| allowed_path_prefix | `AllowedPathPrefix.cfg` | violation | With `ALLOWED_IMPORT_PATHS=["/a"]`, `file:///a.` (a sibling directory) is accepted. |
| proxy_put_omitted | `ProxyPutOmitted.cfg` | violation | A PUT with `proxy_password: null` and the other proxy fields left out passes `validate()`, and the remote is stored with a proxy username and no password. A PATCH-only variant keeps the invariant. |
| domain_server_error | `DomainServerError.cfg` | violation | A POST of a domain with `storage_settings` and no `storage_class` raises `KeyError` at line 380, a 500. A PATCH that changes only `storage_class` to FileSystem reaches the uncaught `TypeError` the same way. |

### Bounds

- **Pipeline.** 2 runs and 3 keys are enough for two runs to meet on the same key, both in the same order and interleaved. Two paths are enough for units to share a path both within a batch and across runs. Feeds of length 2 let a batch hold several items and also split across several batches.
- **Repair cap.** The cap is a constant. With 3 invalid artifacts in scope, a cap of 2 is reached and the wait-for-any admission runs. The code's value, 5, behaves the same way for 6 artifacts, at a cost in states.
- **Versions.** 2 units are enough for a unit to be both removed and added, and for `"*"` to differ from a base. Version numbers up to 3 and 2 waiting tasks are enough for a delete to overtake a queued modify, and to reach the last-version refusal.
- **Mutants.** Each property of a passing run has a mutant in `PROJECT.json`: a plausible bug in a mapped definition that TLC catches with that property.

### Fairness

Both specs use weak fairness of each stage or task step. This matches the asyncio event loop: a coroutine whose awaited queue `get`, executor call or download has completed is resumed eventually. A failing download also completes, by raising. No strong fairness is assumed.

## Proofs

`ContentUnitStagesProofs` proves `THEOREM TypeCorrect == Spec => []TypeOK` for every set of runs, keys, paths, feeds and artifact layouts. It assumes only `FeedAssumption` and `ArtifactAssumption`. The pipeline's `TypeOK` is not a property of a run: every value in the pipeline comes from the feeds, so no plausible bug in the modelled code can break it. It is kept as the lemma the other proofs of the module rest on.

**Lemmas.**
- `QueueOKUpdate`: replacing one run's queue keeps the queue invariant.
- `RemoteArtifactMapType`: the relative-path join always names an item of the batch that is being added. This lemma rests on `BoundedMaxExists`, a maximum of a bounded set of naturals, obtained from well-foundedness.
- `AddingType` and `BulkType`.

**Structure.** The proof of `TypeStep` (`TypeOK /\ [Next]_vars => TypeOK'`) has one step per action. The saver's step splits on commit and rollback.

The same module proves `StoreAlwaysLinked == Spec => []StoreLinked` and `ProvenanceAlwaysSound == Spec => []ProvenanceSound`. Both rest on `LinkedInv == TypeOK /\ StoreLinked /\ ProvenanceSound`, which is inductive as it stands. Only a committed transaction changes `stored`, `cas` and `ras`, and it adds a unit's rows, its ContentArtifacts and their RemoteArtifacts in one step (`CommitLinked`). A batch that raises adds nothing. Provenance needs one more fact: in a batch that commits, `pop` did not raise, so at most one new unit of the batch has an artifact at each relative path (`UniqueAdderOfPath`, a cardinality argument). The join by path therefore picks the ContentArtifact's own unit (`JoinedSource`). The two runs `shared_path_batch` and `racing_runs` show that the two raising cases do occur; the proofs show that they never leave a partial store.

`ForwardedOwnRecord == Spec => []ForwardedRefersToOwnRecord` rests on `DedupInv == TypeOK /\ RefsOwnKey`. `RefsOwnKey` says three things of every DeclarativeContent. Its reference is the unsaved candidate or its own key. A reference to a key means that key is stored. Once forwarded, it no longer refers to the candidate. The invariant is needed because `ForwardedRefersToOwnRecord` says nothing of items not yet forwarded, and the saver forwards items that the resolver resolved in an earlier step. The resolver's step (`ResolverDedup`) rests on the per-field recheck `SameUnit`; the mutant that drops it breaks the run. The saver's step (`CommitDedup`) rests on `OccursIn`: an item it forwards is an item of its batch.

`Refinement == Spec => ImplementsContentStore` shows that the pipeline implements `ContentStore`. The argument has three parts:
- `Init` maps to `Store!Init`.
- Every step other than a committed saver transaction leaves `stored`, `cas` and `ras` unchanged (`StepRefines`).
- A committed transaction is `Store!AddBatch(N, src)` (`CommitRefines`). Here `N` is the set of keys of the batch's new units, and `src` maps each ContentArtifact to `<<r, remote_artifact_map[path]>>`.

Three facts make that last step hold:
- `~SaveFails` gives that no unit of `N` is stored yet.
- `BulkSlots` shows that `content_artifact_bulk` is exactly the slots of `N`.
- `JoinedSource` shows that each joined source is about its own unit.

The only invariant needed is `TypeOK`. The run's mutant `SaveNeverFails` drops the store's uniqueness constraint. The refinement then fails: a unit declared by two runs gets a second RemoteArtifact.

`ForwardedOnce == Spec => []SaverNoDuplicates` rests on `OnceInv`. `OnceInv` is `TypeOK` plus two conjuncts.
- `QueuesOnce(r)`: neither of a run's two queues holds a position twice, they share none, and each position in them has been emitted (`<= sent[r]`).
- `FwdOnce(d)`: an item is forwarded at most once, a forwarded item is in neither queue, and an item not yet emitted has not been forwarded.

`SaverNoDuplicates` alone is not inductive: a saver batch could hold an item that was already forwarded. `FwdOnce` rules that out.
- `EmitOnce`: upstream emits `sent[r] + 1`, which is above every queued position.
- `ResolverOnce`: the resolver moves its whole batch onto the saver's queue, adding at most a sentinel (`ResolverOutputOnce`, `NoDupConcat`).
- `SaverOnce`: the saver empties its queue on both commit and rollback. A committed batch adds `Occurrences(b, i)` to each item's count, which is at most 1 (`OccAtMostOne`) and 0 for an item not in the batch (`OccAbsent`).

The mutant that keeps `declarative_content_list` after a batch (`DrainSaverKeepList`) breaks exactly `SaverOnce`'s first step.

`RepairEngineProofs` proves three theorems for every number of ContentArtifacts, every artifact layout, every list of sources and every cap. It assumes only `RepairAssumption`.
- `TypeCorrect == Spec => []TypeOK`. `TypeOK` includes the fact that a download always reads an existing source.
- `InFlightBounded == Spec => []InFlightBound`.
- `NeverHarms == Spec => []RepairNeverHarms`.

Neither invariant is inductive by itself, so both proofs go through `IInv`:

```
IInv == TypeOK /\ ScanInScope /\ PendingCapped
```

- `ScanInScope`: the scan checks, and starts repairs for, ContentArtifacts of the scope only. This gives every repaired Artifact a file.
- `PendingCapped`: every running repair is still in `pending`, and `Cardinality(pending) <= MaxPending`.

The key step is `AdmitIInv`. If `pending` is below the cap, adding one task keeps it at most the cap. If it is at the cap, `asyncio.wait` has returned at least one finished task. Dropping the finished tasks makes the kept set a strict subset of `pending`, so it is below the cap and one task can be added. `InFlightBound` then follows because the running repairs are a subset of `pending`.

Lemmas:
- `MinExists`: the least element of a nonempty set of naturals.
- `NextInScopeType`: the position of the async iterator stays in range.
- `CardAddBound`: adding an element raises a set's size by at most one.

`NeverHarms` strengthens `IInv` to `HarmInv == IInv /\ RepairNeverHarms /\ TasksInvalid /\ ScanFound /\ SaveGood`:
- `TasksInvalid`: every started task belongs to an invalid artifact, one whose initial file was absent, or corrupt while `verify` holds.
- `ScanFound`: the scan admits only what it has just found invalid, and is at the checksum step only if `verify` holds.
- `SaveGood`: a task about to save holds a download with the artifact's digest.

`RepairNeverHarms` alone is not inductive. A task deletes or writes the file of its own artifact, so the artifact must be invalid (`TasksInvalid`, which `Admit` establishes from `ScanFound`). The write must be good bytes (`SaveGood`, which `Fetch` establishes from `DigestMatches`). `FoundInvalid` turns what the scan saw into `Invalid`, since only changed files can differ from `damage`. `TaskStepHarm` handles every task step at once: it changes at most its own artifact's file, to good bytes or to no file. The mutant that drops the digest check (`DigestMatchesUnchecked`) breaks `SaveGood`, and through it `RepairNeverHarms`.

`RepositoryVersionsProofs` proves, for every set of units and all bounds, from `VersionsAssumption`:
- `TypeCorrect == Spec => []TypeOK`;
- `Refinement == Spec => ImplementsHistory`: every task step is a `CreateVersion` or `DeleteVersion` step of the history, or a stutter.

Both rest on the invariant `IInv == TypeOK /\ vers # {} /\ VersionsBelowNext`, which says the repository keeps a version and every version lies below `next_version`. It is needed because `latest_version()` must exist (`LatestIsVersion`, from `GreatestExists`), and because the count check's `~IsOnlyVersion` must leave another version (`OtherVersionRemains`, from `FS_BoundedSetOfNaturals` and `FS_Singleton`).

`RepositoryVersionsProofs` also proves the action property `StarRemovesLatestHolds == Spec => StarRemovesLatest` from the same `IInv`. The only step that raises `next_version` is an `add_and_remove` that finds its base version (`StarStep`). `NewContent` removes before it adds, so every unit of `add_content_units` is in the new version. `RemoveSet` resolves `"*"` to the content of `latest_version()` at run time, so only added units of that version survive. `IInv` is what makes `Latest(vers)` a version. The mutant `RemoveSetLastNumber` resolves `"*"` to the version numbered `next_version - 1`; TLC breaks it after a create, a create and a delete of the newest version.

`RepairOutcomeProofs` extends `RepairEngineProofs` and proves three more theorems about the repair engine. They hold for every artifact layout, shared Artifacts included.
- `CountsSound == Spec => []ReportCountsSound`.
- `OutcomeCorrect == Spec => []RepairOutcome`.
- `StaysInVersion == ASSUME Subset # {} PROVE Spec => []RepairStaysInVersion`.

`Subset # {}` is the precondition of line 121: for an empty version, the code repairs the whole domain, and `empty_version_repair` shows this.

Both properties are stated per Artifact because ContentArtifacts that share an Artifact are repaired concurrently into one file (line 87). The first ContentArtifact of an Artifact in scan order (`Leads`) sees the file as it was at the start, because no repair of that Artifact can start before the scan reaches it. A later one sees whatever the earlier repair left: the file absent, good, or gone under the checksum. So the counters are exact per repair task, and bounded below per invalid Artifact. An exact count per Artifact is false: with three ContentArtifacts of one corrupt Artifact, the third can find the file deleted by the second and count it corrupted again.

The first two theorems go through `OutInv == HarmInv /\ CountsInv /\ RepairedInv /\ StartedBefore /\ FilesInv /\ RaisedPending /\ InvalidStarted /\ DoneInv`:
- `CountsInv`: missing plus corrupted equals the number of started tasks, plus one while a ContentArtifact is being admitted. The leaders counted so far that found their Artifact missing, or corrupt and hashed, are no more than those counters. A leader at the checksum has found its file present.
- `RepairedInv`: the repaired counter is the number of tasks that returned True.
- `StartedBefore` and `InvalidStarted`: repairs start only behind the scan, and every invalid ContentArtifact behind it has a started repair of its Artifact.
- `FilesInv` relates each file to the set of its ContentArtifacts' tasks. With none started, the file is untouched. Once one has returned, the file is good or absent. While every one that returned returned True and none is deleting or raised, the file is good. While every one that returned returned False, it is absent.
- `RaisedPending`: a raised task stays in `pending` until a gather re-raises it, so a run that reaches `done` has no raised task.
- `DoneInv`: a finished run has scanned every ContentArtifact and has no task in flight.

The lemma `LeaderUntouched` carries the leader argument. The scan's steps are handled by `ScanExistsOut`, `ScanVerifyOut` and `AdmitOut`. The tasks' steps are handled by `TaskStepOut` (through `RepairStartOut`, `FetchOut` and `SaveOut`), and the gathers by `GatherOut`. `TaskStepOut` uses `HasTaskSame`: a step of one task changes the set of states of its Artifact's tasks only at its old and new state. `StaysInVersion` follows from `RepairNeverHarms`: a file outside the version is never found invalid, so it never changes.

`CertificateValidationProofs` proves, for every bound on the number of lines:
- `TypeCorrect == Spec => []TypeOK`, including that the segment being collected starts at a BEGIN line;
- `ReturnsExactly == Spec => []ReturnsExactlyTheCertificates`.

The invariant is `CertInv`. While the loop runs, with `Open == i - Len(acert)` the line where `a_cert` opens:
- `a_cert` is exactly the lines from `Open` to `i - 1`, and none after its first line is an END line;
- `Closed(Open)`: every BEGIN line before `Open` is followed by an END line before `Open`;
- `certs = CertsFrom(value, Below)`, the certificates that start before `Open`.

An END line that makes a loadable segment means a certificate runs from `Open` to `i` (`LoadableIff`). It is the last start below `i + 1`, so `certs` grows by exactly its entry (`CertsFromAppend`, a rank argument with `FS_AddElement`). An END line that does not load gives a marker line outside every certificate, so `~WellFormed`:
- if `a_cert` is empty, the END line itself is uncovered, because by `Closed(Open)` any earlier BEGIN is closed before it;
- otherwise, the BEGIN line at `Open` is uncovered. The first END after it is line `i`, and `Open`..`i` is not a certificate.

At the end of the lines every start lies below `Open`, so `certs = CertsOf(value)`.

### Properties corrected while proving

- **`RepairStaysInVersion`** claimed that no file outside the version changes, also for `repair_all_artifacts` (no subset), which repairs every file. The runs missed this because they always use a subset. It now applies only when a subset is given.
- **`RepairOutcome`** used a CASE whose arms overlapped: a ContentArtifact repaired after it was found invalid matched two arms. TLC takes the first arm, but TLA+ leaves the choice open. The arms are now disjoint, and TLC still passes.

**Limits of TLAPS.**
- Liveness (`EveryItemForwarded`, `RepairTerminates`) and anything that needs ENABLED stay with TLC.
- `RejectsBrokenCertificate` and the other properties of the `violation` runs are disagreements that TLC demonstrates. They are not theorems.
- Induction over data stays with TLC.
- No RECURSIVE operator is used in a proved module.

### Observed and not made runs

- **A lost repair with a shared Artifact.** Two ContentArtifacts can share an Artifact. If one repair saves good bytes and the other then gives up and deletes the file, the file ends absent although `repaired` counted it. `RepairOutcome` allows this: when an Artifact's repairs disagree, the file is only good or absent. Spec section 5 says that concurrent writes to one artifact path are not the engine's to serialize, because content-addressed paths make them semantically identical writes. A delete after a save is not an identical write, so this diverges from the spec. No run states it, since the run slots are taken by the questions above.
- **A save that raises part-way.** The model treats a raising `file.save` as leaving no file, since the delete has already run. `FileSystemStorage` can raise after writing part of the file and leave a truncated one. `RepairNeverHarms`, `NeverHarms` and the abort hazard cover the other outcomes only.
- **Storage read errors abort the repair.** Spec 7 treats a storage read failure as transient: that source fails and processing continues. But `_verify_artifact` catches only `FileNotFoundError` (line 108). Any other read error, or an error of `storage.exists`, aborts the whole repair, and so does a failing delete or save in one task (lines 161, 163). `RepairNeverHarms` and `RepairTerminates` show the abort is safe and the task still ends, but no run claims the remaining artifacts get repaired.
- **`"*"` with a base version.** `add_and_remove` removes the latest version's content from the base version's content, so base units missing from the latest survive. This is what spec 4.4 says, although the serializer's help text says `"*"` removes all content.
- **A deleted base version.** A delete queued before a modify task makes `add_and_remove` raise `DoesNotExist`. The history is unchanged, and `ImplementsHistory` sees that step as a stutter. The abstract history accepts any content for a new version, so the refinement does not check which base a version was built from; `StarRemovesLatest` checks the resolution of `"*"`.

## Not modelled yet, and the plan

1. **Domain serializers.** A passing run of `DomainSettings` for an invariant on the stored settings (they fit their class); the SFTP and Google serializers if they become choices.
2. **Repository and sync serializers.** `validate_remote` and `RepositorySyncURLSerializer.validate` compare a remote's type with the plugin's `REMOTE_TYPES`, which lives outside `src/`. `ContentSummarySerializer` only formats.
3. **Left out.**
   - The `__init__` re-export modules.
   - ORM failures in the repair engine (`aexists`, `acast`, the counters). Like the storage failures that are modelled, they would propagate through `gather`.
