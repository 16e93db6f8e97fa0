# CloudEyes: specifications, model checking and proofs

CloudEyes measures cloud machines (agent), turns samples into cohorts,
assessments and reports (core) and collects verified result bundles from many
agents (platform). This directory holds TLA+ models of its concurrent and
failure-prone parts, TLC configurations that check them on small instances, and
TLAPS proofs for every instance.

    tlc -workers 2 -config MCIngestion_race.cfg MCIngestion   # one run
    tlapm IngestionProofs.tla        # about two minutes, like PlanProofs and DeliveryProofs
    tlapm BundleProofs.tla           # under a minute
    tlapm ProfilesProofs.tla         # about four minutes
    tlapm IsolationProofs.tla        # seconds, like Sums.tla

## 1. The system

| Part | State | Operations | Hard behaviour | What makes it correct |
|---|---|---|---|---|
| HTTP handler (`platform/.../server.py`) | spool files in `tmp/` | `do_POST`, `do_GET` | one thread per connection, lost responses, a client that stalls | every request ends, with its spool file removed |
| Pipeline (`ingestion.py`) | locals of a request | `ingest` | lookups are stale when the insert happens; cleanup after a partial failure | only verified bundles are recorded, a bundle is accepted once |
| Repository (`repository.py`) | tables submissions, samples, evidence; SQLite's write lock | lookups, `persist`, `counts` | transactions of several threads, lock timeouts, crashes | rows are all or nothing, durable, and share no sample |
| Bundle store (`storage.py`) | `bundles/<xx>/<sha256>.zip` | `put`; `ingest` unlinks | two threads put or unlink one digest | every committed row has its file |
| Quarantine (`quarantine.py`) | metadata records, retained payloads | `record` | disk errors, copies that are not atomic | a rejected body is recorded or at least rejected |
| Isolated execution (`agent/.../execution`) | child process, cancellation event, result queue | `run_isolated`, `_child_entry`, `checkpoint` | deadline races the result, interrupts at any wait, a hanging child, a full pipe | the command ends, no child is left, the exit code is truthful |
| Raw evidence (`agent/.../storage/raw_output.py`) | temporary and published file | `write_raw_output` | interruption between the two | a sample's evidence is in place |
| Profiles (`agent/.../profiles`) | temporary directories, pools of threads or processes | six workloads | cancellation inside pools, SQLite contention | cleanup on every path, each operation counted once |
| Bundles (`agent/.../bundle`) | archive, manifest | `build_bundle`, `verify_bundle` | evidence in several places, redaction, limits of one side only | what is built verifies; what does not is refused |
| Submission client (`agent/.../bundle/submission.py`) | digest, ID and body read from one file | `submit_bundle`, receipt | three reads of a file that a build may replace, lost and late answers | a receipt tells the truth |
| Analytics (`core/.../provider`, `cohorts`, `statistics`, `coverage`, `assessment`, `pricing`, `explanation`) | none (pure) | `build_analytics_bundle` and its stages, `cloudeyes analyze` | boundaries, missing values, ties, checks of one stage on the results of another | agreement with independent definitions, nothing lost |
| Sample directory (`core/.../repository`, `serialization/json.py`) | one file per sample | `save`, `delete`, `dump` | check, then replace; two processes; interrupted writes | no sample disappears unasked, no reader sees half a saved file |
| Discovery, bootstrap, reporting, agent and platform command lines | none | reads of the host, text | none | not modelled |

Interaction: `cloudeyes run` writes a sample and its evidence; `cloudeyes
bundle` packs them; `cloudeyes submit` posts the bundle; `do_POST` spools the
body and calls `ingest`, which verifies, stores and records it; `cloudeyes
analyze` turns samples and price catalogs into reports. Handler threads
interact only through SQLite and the file system; `bundle` and `submit` only
through the bundle file; processes on one sample directory only through its
files. Parent and child of an isolated run interact only through the event, the
queue, signals and files.

## 2. Modules

| Module | Role |
|---|---|
| `SubmissionLedger` | abstract specification: a ledger of bundles, recorded in one step, acknowledged once |
| `Ingestion` | the service: handler threads, SQLite, bundle store, spool, quarantine, crashes and faults; its properties and inductive invariant |
| `MCIngestion` | payloads and request sets for TLC |
| `IngestionProofs` | theorems about `Ingestion`, for all constants |
| `Isolation` | `run_isolated` and `run_profile` with the child process of one profile |
| `IsolationProofs` | theorems about `Isolation`, for any number of interrupts |
| `Profiles`, `MCProfiles` | the six measurement profiles as plans of operations, with their pools, locks, errors and cancellation; their instance |
| `Sums` | lemmas about data that several proofs need: sums of functions over finite sets, repetition and concatenation of sequences, extreme elements, images and unions of finite sets |
| `PlanProofs` | theorem that every plan of `Profiles` is well formed (extends `Profiles` and `Sums`) |
| `ProfilesProofs` | theorems about `Profiles`, for all configurations, loops, tasks and workers (extends `PlanProofs`) |
| `Evidence` | operators of the core: validation, keys, cohorts, statistics, coverage, confidence |
| `Analytics`, `MCAnalytics` | `run_analyze` and the stages of `build_analytics_bundle`; families of inputs |
| `AnalyticsProofs` | theorems about `Analytics`, for any samples and quotes (extends `Analytics` and `Sums`) |
| `Bundles` | operators of the agent: redaction, search for evidence, archive, manifest, verification |
| `SampleStore` | processes that save, delete and dump samples in one directory |
| `Delivery`, `MCDelivery` | composition: sample directory, `bundle`, `submit`, network and ledger; its scenarios |
| `BundleProofs` | theorems about the archives of `Bundles`, for all samples and evidence (extends `Bundles` and `Sums`) |
| `DeliveryProofs` | theorems about the sample directory, the bundles and the submission, for any number of processes (extends `Delivery` and `BundleProofs`) |

`Delivery` extends `Bundles` and `SampleStore`, `Analytics` extends `Evidence`.
The service in `Delivery` looks a request up in one step and records it in a later
one, with other requests in between; that the insert itself is atomic is
`ImplementsLedger` of `Ingestion`.

Operators named in a comment as "Mutant of X" are faulty variants of X. They are
used by no specification; substituted for X they must break the property they
were written for.

### Ingestion

`pc[t]` is the next step of thread t. One action is one access to shared state
and the local code around it:

| Code | Actions |
|---|---|
| `do_POST` before and while reading the body | `Receive`, `ReadBody`, `BodyEnds`, `SpoolFails` |
| `ingest`: headers, digest, lookups, verification, conflicts | `ValidateHeaders`, `LookupKey`, `LookupSha`, `Verify`, `CheckConflicts`, `Quarantine` |
| `BundleStore.put` | `PutExists`, `PutHash`, `PutCopy`, `PutReplace`, `PutFails` |
| `persist` in `transaction()` | `Begin`, `Insert`, `Commit`, `BusyTimeout`, `PersistFails` |
| `except IntegrityError`, `except BaseException` | `IntegrityLookup`, `Discard`, `Undo`, `LookupFails` |
| the response | `Respond`, `ResponseLost`, and `Finish` for every other answer |
| process killed and restarted, bit rot | `Crash`, `Corrupt` |

The order of the validation checks decides which error code a request gets;
`Admission` and `Headers` keep that order as sequences. A payload is abstracted
to its digest, IDs, samples, raw paths and the verdict of `verify_bundle`;
digests are assumed free of collisions (`ContentAssumption`). The submission ID
is 24 characters of the digest and may collide: `SubmissionIds` is a set of its
own, and the proofs do not assume that IDs differ. The inserts of a transaction
are one step because no other connection sees them; the commit is another.
`"dropped"` stands for a connection closed without an answer: `do_POST` catches
`IngestionError` and `OSError`, but no `sqlite3.OperationalError`.

Faults are constants: `"busy"` (the lock is held for the whole busy timeout),
`"database"` (any statement raises), `"disk"` (any file operation raises, the
unlinks of the clean-up included), `"corruption"` (a stored file changes behind
the service). `spool` and `partial` name the threads whose scratch files exist;
`None` in them stands for files of no request any more: those whose own unlink
failed (`Leftovers`) and those in progress at a crash (`Orphaned`).

### Isolation

`parent` is the next step of `run_isolated` and `run_profile`, `child` that of
`_child_entry` with the storage profile. Time is abstract: a wait with a timeout
may end at any moment while the child lives. `pipe` distinguishes an empty pipe,
a message cut short and a complete one: a result that does not fit the pipe
buffer keeps the child alive (`"drain"`) because the parent joins before it
reads. An interrupt is handled in `process.join(timeout_seconds)` only; anywhere
else it leaves `run_isolated` or, while the sample is printed and dumped, `run_profile`
(`InterruptElsewhere`, `InterruptEmit`), and multiprocessing's exit handler joins the
child without a timeout (`AtExit`). An interrupt of that join ends the interpreter
and leaves the child (`InterruptAtExit`; these two, `Exit` and `Die` are external). A
terminal signals the child as well (`ChildInterrupt`). Where a removal fails, of the
temporary directory or of the temporary evidence file, the OSError takes the place
of whatever was in flight and makes a failed measurement (`Workload`,
`ReplaceEvidence`). `dump` writes `--output` in place: an OSError leaves no file or a
part of one, with exit code 1.

### Profiles

A profile is a `Plan`: the sequence of checkpoints, with blocks, loops and pool
batches that `benchmark_<profile>_profile` goes through. One action is one item
or one operation of it; an error or a cancellation unwinds `stack`, one block per
step (`Unwind`), as the with and finally blocks do.

| Code | Actions |
|---|---|
| the profile's main thread | `MainNext`: an item of the plan, an operation that succeeds or fails, submission of tasks, results taken, unwinding |
| threads of the web and database pools, processes of the compute pool | `WorkerNext`, `KernelReturns` |
| `BEGIN IMMEDIATE`, update and commit of the mixed workload | `BeginImmediate`, `UpdateAndCommit` |
| a process of the compute pool dies | `PoolBreaks` |
| cancellation from outside | `RequestCancellation`, at any time |

Counters keep what the code counts (`ok`, `bad`), `faults` what really failed.
Values and times are left out. A partly failed upload is visible in the raw
evidence only, so `FailuresVisible` does not speak of it. A place that swallows
`CancellationRequested` would be backed up by the next checkpoint, so the state
alone does not show it: the history variable `raised` remembers that a checkpoint has
raised, and `NothingAfterCancellation` says what may still happen. The exits of
`TemporaryDirectory` and of files may raise (`CleanUpMayFail`), on the normal path and
while `CancellationRequested` is in flight, and so may another task of the batch whose
result is taken first: such an error takes the place of the cancellation, and
`_measurement` makes a failed measurement of it. The property allows that much
(`Replaceable`), and a sample that says so; it allows no further operation, batch or
success.

### Evidence and Analytics

One action per stage: `LoadInputs`, `ReadSample` (one sample after the other),
`Report`, `ComparePeers`, `MatchPricing`, `CompareValue`, `Assemble`,
`WriteOutput`, `WriteMarkdown`. Every stage may refuse its input, and the
constructors of the output models may refuse what the stages hand to them.
Statistics are exact fractions, never rounded. `Observed` gives the metrics of a
sample by their places, and statistics are of functions, so that equal values of
different samples stay apart; the k-th of the `Sorted` values is the one that
fewer than k are less than and at least k are not above. `Samples` and `Quotes`
are what the constructors of the input models admit. Abstractions:

- identifiers stand for what they identify: a cohort key is a record, and keys
  joined with `|` that collide are not modelled;
- an instant is a day, a missing `valid_until` is `Forever`; a machine is one
  value, the operating system is part of the commitment, and prices are whole US
  dollars per hour, so currencies and billing units are left out;
- the coefficient of variation is a class, found by comparing squares;
- the thresholds of the code (samples and days per level of confidence) are
  constants with small values in their order;
- a sample with quality errors has the status INVALID, which is what `validate_sample`
  and the profiles produce.

### Bundles, SampleStore and Delivery

| Code | Actions |
|---|---|
| `JsonSampleRepository.save`: check, temporary file, replace | `SaveCheck`, `WriteTemporary`, `Replace` |
| `delete`, and `dump` in place | `DeleteCheck`, `Unlink`; `Truncate`, `Fill` |
| `build_bundle`: inputs, one sample after the other, archive, replace | `StartBuild`, `LoadSample`, `WriteBundle`, `PublishBundle` |
| `submit_bundle`: digest, contents, body, request, answer | `StartSubmit`, `ReadForDigest`, `VerifyFile`, `ReadBody`, `Post`, `Receive`, `TimeOut` |
| `atomic_write_json` for the receipt | `WriteReceipt`, `PublishReceipt` |
| `ingest`, reduced to its decisions: duplicate and verification, then conflict and insert | `Lookup`, `Persist` |
| network (external) | `Intercept`; `Reply` may lose the answer |
| processes killed | `CrashSaver`, `CrashBuilder`, `CrashClient` |

A digest is the content it is taken of. `Archive` is the whole of what a build
puts into a bundle, `Verifies` the whole of `verify_bundle`. The manifest holds
the time of the build (`created`), so a second build of the same samples is a
different bundle and the service answers it with 409. A replay that overtakes its
original between `Lookup` and `Persist` gets 409 too (`ingestion_replay`), so 409
does not tell which bundle holds the sample. The bundle file may also be
hand-made, by no build at all. Exit code 1 stands for a Python traceback:
`http.client.HTTPException` and `zlib.error` are caught nowhere. A JSON value is the set of
its leaves with the keys that lead to them, enough for redaction. A path of the
archive that is unsafe stands for links, directories and encrypted entries too. A
reference with ".." leads out of the directory it is joined to (`Joined`).
Evidence files do not change during a build, no two processes dump to one name,
symbolic links are not modelled, and a URL that cannot be parsed is kept as it
is, like in the code.

## 3. Runs

| Run | Instance | Shows |
|---|---|---|
| `ingestion_race` | 2 threads, bundles a and b share a sample, disk errors, 1 crash | `TablesConsistent`, `CommittedBundleStored`, `AcknowledgedOnce`, `ConflictIsFinal`, `RetryFindsBundle`; implements the ledger; the inductive invariant `IInv` |
| `ingestion_validation` | 1 thread, one defective request per check, bundles a, b and c, SQL errors, disk errors, corruption | `TypeOK`, `OnlyVerifiedRecorded`, `NoScratchLeak` |
| `ingestion_lock` | 2 threads, four bundles, one of them unverifiable and one that repeats a raw path, lock timeouts, fairness | `NoOrphanBundle`, `EveryRequestEnds` |
| `ingestion_replay` | 2 threads, one bundle | violation, see 5 |
| `ingestion_lost_bundle` | 2 threads, one bundle, lock timeouts | violation, see 5 |
| `isolation_safety` | both result sizes, 3 interrupts anywhere, child interrupted or killed by others, fairness | `TypeOK`, `ExitCodeTruthful`, `EvidenceBehindSample`, `NoChildLeft`, `CooperativeMeansClean`, `EveryRunEnds`, `UndisturbedShutdownCompletes` |
| `isolation_late_result` | no interrupts | violation, see 5 |
| `isolation_second_interrupt` | 2 interrupts, fairness | violation, see 5 |
| `profiles_all` | nine configurations of the six profiles, 2 repetitions, 2 operations, 3 tasks on 2 workers, fairness | `TypeOK`, `CleanExit`, `OnlyFaultsCounted`, `SuccessIsComplete`, `FailuresVisible`, `NothingAfterCancellation`, `CancellationEnds` |
| `analytics_inputs` | five families of inputs: peers and values, several days, competing quotes, levels of confidence, refused or failing input | `TypeOK`, `OutputModelsAgree`, `EvidenceAccounted`, `StatisticsSound`, `ConfidenceSound`, `ComparisonsSound`, `PricesSound`, `OutputsComplete` |
| `analytics_profile_case` | two providers, one sample each, profile spelt in two ways | violation, see 5 |
| `delivery_all` | families of scenarios: two processes on one directory, evidence in every place, bundle files no build wrote, good and bad, submissions with loss, delay, rebuilds, disk errors and kills; fairness | `TypeOK`, `WritesAtomic`, `SavesLast`, `BundlesSound`, `ReceiptTruthful`, `EveryCommandEnds` |

Bounds. Threads, bundles, requests and crashes (`MaxCrashes`) are bounded; a
thread takes requests again and again, so the number of requests is not. Every
race found needs two threads, and two bundles that share a sample are the
smallest conflict. A crash reaches every step of both threads. The proofs cover
any number of threads, bundles and crashes, so that the runs need not be larger.
Threads are interchangeable (`ThreadSymmetry`), except in the run with a
liveness property, where symmetry would be unsound.
Interrupts are bounded by `MaxInterrupts`: three can leave, one after the other, the
first join, the shutdown and the join of the exit handler, and then the parent is
gone. The Isolation runs do not check for deadlock: the command ends.

`Profiles`: three tasks on two workers leave one queued while both work, and two
repetitions show a failure in one and not in the other. `Analytics`: every family
varies what one group of checks depends on and keeps the rest fixed, as the stages
are independent of each other except through their results; three providers are
the fewest with two peers, which high confidence takes. `Delivery`: the limits
(`MaxSamples`, `MaxPayload`, `MaxEntries`, `MaxManifest`) are scaled so that
bundles just within and just beyond each occur; two builds and two submissions
are the fewest for an overtaken file and for a late request; two processes and two
names give every pair of `save`, `delete` and `dump`.

Fairness. `Ingestion!FairSpec`: every handler thread keeps being scheduled, and
no assumption is made on who gets the write lock. A wait for the body is
excluded, because the socket has no timeout. `Isolation!FairSpec`: the parent is
scheduled and its waits end; SIGKILL ends a process; the bookkeeping of the
child proceeds, whereas the benchmark itself may hang and SIGTERM need not have
an effect.
`Profiles!FairSpec`: threads are scheduled and operations end, as sockets and
SQLite have timeouts; a process of the compute pool may hang until it sees the
token. `Delivery!FairSpec`: every command that has begun is scheduled, its timeout
included; network and service need not do anything, and nobody has to begin a
command.

Some restrictions carry meaning. `NoOrphanBundle` is checked without crashes, SQL
errors and disk errors: after each of these the code leaves a stored file
without a row, which the next submission of the bundle reuses. `EveryRunEnds`
names the two waits that nothing bounds: a child killed from outside in the
middle of a large message leaves the parent in `get`, whose timeout covers the
first byte only (`WaitsForRest`), and an interrupt of the shutdown leaves it to
the interpreter's exit handler (`WaitsAtExit`). `NoChildLeft` names the one way in
which the command leaves its child behind: interrupts in a row that reach the exit
handler's join, three of them, or two after an expired deadline.
`CooperativeMeansClean` excludes removals that failed themselves, by the invalid
sample they make, and a child that was signalled by others. `WritesAtomic`
excludes a save whose write fails or is killed: it leaves its temporary file.
`BundlesSound` excludes bundles with more files or a larger manifest than
`verify_bundle` admits: `build_bundle` does not look at these two limits. A
receipt that cannot be written, or a print that fails, gives exit code 8 although
the service has recorded the bundle; `ReceiptTruthful` speaks of exit code 0 only.
`SavesLast` names the one way in which a save without `overwrite` replaces a saved
sample: the check of one was over when the other moved its file into place
(`Overran`), and both succeed. `OutputsComplete` counts a failing print among the
errors after which all files are complete.

## 4. Proofs

`IngestionProofs` proves, from the four assumptions of `Ingestion` and nothing
else, for any set of threads, payloads, requests, faults and number of crashes:

| Theorem | Statement |
|---|---|
| `Safety` | `Spec => []IInv` |
| `TypeCorrect`, `FailsClosed`, `Consistent`, `AcceptedOnce`, `ConflictsFinal`, `ScratchRemoved` | `TypeOK`, `OnlyVerifiedRecorded`, `TablesConsistent`, `AcknowledgedOnce`, `ConflictIsFinal`, `NoScratchLeak` are invariants |
| `BundlesKept`, `RetriesFindBundle` | `CommittedBundleStored` and `RetryFindsBundle` are invariants if neither lock timeouts, SQL errors nor corruption occur; crashes and disk errors may |
| `NoOrphans` | `NoOrphanBundle` is an invariant if neither disk nor SQL errors occur; lock timeouts and corruption may (the invariant itself speaks of the time before a crash) |
| `Refinement` | `Spec => ImplementsLedger` |

The argument. `TablesConsistent` is not inductive: that Commit adds rows without
a conflict depends on what Insert saw. `LockProtectsInsert` carries this over: a
thread between Begin and Commit is the only writer, and at `"commit"` it has no
conflict (`LockStep`, from `OnlyCommitWrites`). `OnlyVerifiedRecorded` needs
`KeyIsDigest` and `VerifiedBeforeStored`, what the earlier steps of the same
thread established. `AcknowledgedOnce` needs `OneAcknowledger`: a thread at
`"respond"` is the one whose commit recorded the digest, as no second commit of
it passes the primary key. `ConflictIsFinal` needs `ConflictsPersist`: rows only
grow, so a transaction that failed fails again; thus the unlink after it takes
away a file that nobody will refer to. `BundlesKept` strengthens the invariant
by `StoredBeforePersist`: a thread that found a stored copy, or put one there, has it
in place and whole until it commits (`RetryFindsBundle`), or the file was removed
because of a conflict which that thread will meet too. This is the step that fails with lock timeouts, as `ingestion_lost_bundle` shows.
`NoOrphans` needs less: `TypeOK` and `NoOrphanBundle` itself are inductive once
`CleansUp` excludes the errors that leave a file behind, as a thread hands a stored
file over only to the commit or to the unlink (`OrphanStep`). For
`Refinement`, Commit maps to `Record`, Respond to `Acknowledge` and every other
step leaves `recorded` and `acks` unchanged (`LedgerStep`).

`IsolationProofs` proves, from `IsolationAssumption`, for any number of
interrupts: `TypeCorrect`, `ExitCodes`, `EvidenceInPlace`, `ChildGone` and
`CooperativeIsClean`, which are `TypeOK`, `ExitCodeTruthful`,
`EvidenceBehindSample`, `NoChildLeft` and `CooperativeMeansClean`. None of them is
inductive. `NoChildLeft` needs that the queue is read after the child is gone
(`ParentProgress`) and how many interrupts it takes to reach each later wait with a
living child (`InterruptsNeeded`); the exit code needs that a result in the pipe is the child's
(`ResultOfChild`, `ResultProgress`); `CooperativeMeansClean` needs
`CleanUntilSignal`: a child that nobody signalled and whose removals succeed has a
scratch directory only in its workload and a temporary file only between the two
steps of `write_raw_output`. `Flags` keeps the Boolean variables apart, since no single
prover handles both them and the rest.

`PlanProofs` and `ProfilesProofs` prove, from `ProfilesAssumption`, for any
configurations, any number of repetitions, operations and tasks and any set of
workers: `TypeCorrect`, `Exits`, `Faults`, `Complete`, `Visible` and
`CancellationStopsWork`, which are `TypeOK`, `CleanExit`, `OnlyFaultsCounted`,
`SuccessIsComplete`, `FailuresVisible` and `NothingAfterCancellation`. The
argument has three parts.

- Plans (`PlansWellFormed`). A point of a plan says which blocks are open there and
  how much has been asked for before it. `Annotates` gives every index its point
  and each item its effect: a block is left as it was entered, a batch stands
  inside a pool, a measurement outside of all blocks. Plans are annotated from
  their parts (concatenation, `Within`, `Repeat`), and the last point holds what
  the configuration promises (`Promised`): repetitions of downloads, batches.
- Steps (`Safety`). `IInv` ties the state to the point of the current item. `Placed`:
  the open blocks are those of the point, and only a raised exception leaves them.
  `Staffed`: tasks run inside the pool only, each on one worker. `Progress`: no
  task completes more than its partition, without which the errors of a batch,
  attempted - completed, could be negative and `TypeOK` fail. `Tallies`: counters
  hold what the point asks for, and while a batch runs, faults and completed
  operations balance what was counted before and what the workers have attempted.
  `OnlyFaultsCounted` is that balance at the end of the plan, `SuccessIsComplete` it
  and `Promised`. `Measures`: a measurement is the last thing but the sample.
- Cancellation (`CInv`). `Sheltered`: blocks stand around the last measurement of a
  plan only, and networking, web and compute have none whose clean-up may fail; both
  are facts about plans (`HoldsLast`, `Light`). `Halted`: once a checkpoint has raised,
  the main thread collects from a batch with a cancelled task, unwinds its blocks, is
  at the end of its plan behind a failed measurement, or is done. An error that takes
  the place of the cancellation arises inside of a block, hence ends the last
  measurement, and `Fail` goes on at the end of the plan.

Errors and cancellations break `Tallies` off: it speaks of undisturbed runs, and
`FailuresVisible` is an invariant because a disturbed one leaves a failed
measurement or no sample. `IInv` mentions a point that is chosen by its defining
property and is therefore not evaluated by TLC; its conjuncts were model-checked
with the annotation given as a function. `Sums` does the inductions over data by
the minimal counterexample: a set of least size, or a least number, for which the
claim fails.

`BundleProofs` proves of the archive that `build_bundle` assembles, whatever the
samples, their references, the candidates found and the JSON below them: that
`verify_bundle` accepts it within the limits (`ArchiveVerifies`), that its evidence
comes from a trusted place without its secrets and with all the rest
(`EvidenceKept`), and that its exceptions are recorded (`ExceptionsListed`). All
that is assumed of the samples (`Proper`) is that there are finitely many of finite
content, with different IDs. A path is made of the rank of its sample and the number
of its reference; both are counts of smaller elements and therefore different
(`NumberUnique`, `NumbersDiffer`), so every path belongs to one sample or one
reference of one sample (`PathsApart`, `PathsUnique`), and looking up a path finds
its own content (`ContentsFound`). `RedactionSound` is about a leaf at any depth:
what is cut off ends with the first sensitive key, and the count of redactions is
zero only if no leaf was changed.

`DeliveryProofs` proves, from `BundlesAssumption`, `ScenariosAssumption`,
`ContentAssumption` and `OutputAssumption`, for any number of processes on one
directory and any number of builds and submissions: `SavedSamplesLast`, `TypeCorrect`,
`AtomicWrites`, `ReceiptsTruthful` and `BundlesAreSound`, which are `SavesLast`,
`TypeOK`, `WritesAtomic`, `ReceiptTruthful` and `BundlesSound`. Every step of a process is first reduced to what it does to the
variables of each part (`StoreStep`, `StoreScratch`, `BuildStep`, `SubmitStep`,
`NetworkStep`), and the invariants are proved from these.

- `SavesLast`. What a process was told to do is not enough for the property: it has
  to have succeeded (`Took`). The invariant carries to the replacement what the
  check of a save without `overwrite` saw (`Checked`): the sample that was there at
  first had been taken away, and every save of that name that has succeeded either
  had its sample deleted or overlaps with this one, which `raced` records. A saved
  file is there unless it was deleted (`Present`), so the check cannot have missed it.
- `ReceiptTruthful`. The client opens the bundle file three times, for digest, ID
  and body, and any of the three may belong to another build. `Honest` says what
  saves it. Builds are numbered (`Numbered`), so a file that was replaced never
  comes back, be it of a build or the hand-made one that was there first (`Source`):
  if digest and body agree, no build came between them, and the ID that was read in
  the middle is that bundle's too (`Reads`; `Passed` is a digest whose file is gone).
  Messages of the current run carry what the client has read, and
  there are none before it posts (`Messages`); what the service is about to record
  it has verified (`Verified`). What an answer says is true of the ledger when it is
  sent and stays true, as rows only grow (`Told`, `ToldStays`), so a late answer or an
  old receipt is no lie. It would be one if 409 promised another bundle: a replay that
  overtakes its original meets its own samples.
- `BundlesSound`. The theorems of `BundleProofs` need samples with different IDs that
  the policy allows; the invariant `BuildsSound` carries that from file to archive:
  whatever processes write, every file holds a proper sample (`ProperStore`), and a
  build keeps only those whose ID it has not met (`ProperLoaded`). Between the check
  of the limits and the replacement of the file the samples do not change, so that
  check still speaks of the archive that is published.

`ContentAssumption` says that JSON is finite and that the samples given to `save` and
`dump` have an ID. `OutputAssumption` says that no build to come produces the very
bundle that the bundle file holds at first: builds are told apart by their
`created_at`. That first file may be the work of an earlier build or of a hand, may
verify or not, and may be submitted.

`AnalyticsProofs` proves, from `EvidenceAssumption` and `InputsAssumption`, for any
number of samples, measurements, metrics and quotes with any values:

| Theorem | Statement |
|---|---|
| `Safety` | `Spec => []IInv` |
| `TypeCorrect`, `OutputsHold` | `TypeOK`, `OutputsComplete` are invariants |
| `NothingLost` | `EvidenceAccounted`: no sample, quote or gap is lost or counted twice |
| `StatisticsHold` | `StatisticsSound`: the order statistics are in order |
| `ConfidenceHolds` | `ConfidenceSound`: no confidence without its evidence |
| `ComparisonsHold` | `ComparisonsSound`: compatible cohorts, outcomes with witnesses |
| `PricesHold` | `PricesSound`: a price holds for the whole cohort, undisputed |
| `ModelsAgree` | `OutputModelsAgree`, if every sample spells its profile in normal form |

The stages compute, so that most of the proof is about operators, and the
invariant `IInv` only says what a stage may find. `ReadSound`: the samples before
`next` have different IDs and are accepted or excluded by their quality. `Pending`:
what later stages fill in is still empty. `ReportsSound` and `Derived`: reports,
comparisons, prices and values are those of the samples accepted, even if the
analysis fails later. `ProvidersSound`: an analytics report explains the report of
its provider, and a finished bundle has one for each. All of it was model-checked
on the instance of `analytics_inputs` before it was proved. The operators:

- Order statistics. The k-th value is the least one with at least k values not above
  it (`PlaceTaken`), and `Sorted` ascends (`SortedSound`). A percentile is a mean of two neighbours (`MeanBetween`,
  `PercentileBetween`), and the tenth never reaches beyond the median, for 1, 2 or
  more values (`SummaryInOrder`). One sample contributes one value to a metric
  (`ContributionsSound`), so the count is that of samples.
- Comparisons. The median of finitely many values has one of them on either side
  (`MedianWitness`). So if a provider is ahead of its baseline, which is a median
  of medians, one of its cohorts is better than one of a peer (`CompareSound`);
  `RelativeToStrict` is the sign of the difference for baselines below zero and
  of zero. `IndexOrder` carries this over to value per price.
- Prices. The rank of a quote is one number, in which source and age never outweigh
  the place (`RankBounds`, `PlaceRanks`), as `LastDay` bounds the age. Finitely many
  quotes have a best one (`BestExists`); those equal to it in place, source and
  age are best too, and `Ambiguous` rejects two of different price.
- Accounts. A sample is in the cohort of its key, which is in the report of its
  provider, and in no other (`SampleHomes`); so is a quote (`QuoteUsers`).
  The two lemmas also give the counts that the constructors recompute
  (`SamplesCounted`, `QuotesCounted`), the greater part of `ModelsAgree`.

`InputsAssumption` says that samples and quotes are what their constructors admit:
finite lists, metrics with one of three directions, positive prices, days of
observation up to the bound `LastDay`. `EvidenceAssumption` orders the thresholds
and keeps the names of the gaps of a cohort apart from `missing_metric:<name>`, the
gap of an expected metric. `ProfilesNormal`, the condition of `ModelsAgree`, holds in
`analytics_inputs` and fails in `analytics_profile_case`, where the theorem's
conclusion is false too: see 5.

Only model-checked: the liveness properties `EveryRequestEnds`, `EveryRunEnds`,
`UndisturbedShutdownCompletes`, `CancellationEnds` and `EveryCommandEnds`, since
fairness is outside the proof system's reach. Every invariant and every action
property of a passing run is proved; under conditions on the constants that
hold in that run, where the tables and the text above say so.

## 5. Disagreements between code and documents

1. `ingestion_replay`. A replay that races the original passes the duplicate
   lookups, finds the original's samples, and is answered 409
   `sample_already_ingested`; `docs/backend-ingestion.md:51` promises 200
   `duplicate`. A later replay gets the promised answer, and nothing is lost.
2. `ingestion_lost_bundle`. The thread that created the file unlinks it after a
   lock timeout although another thread has committed the same bundle;
   `docs/backend-ingestion.md:72` calls stored bundles immutable. The row stays
   without its file, and later replays are answered `duplicate`.
3. `isolation_late_result`. A child that exits between the expired join and
   `is_alive` has its result emitted; `docs/cooperative-cancellation.md:32`
   promises exit code 124.
4. `isolation_second_interrupt`. An interrupt in the grace period skips
   terminate and kill, and the command waits for a hanging child;
   `agent/cloudeyes_agent/execution/README.md:13` names them as the fallback.
5. `analytics_profile_case`. Keys hold the casefolded profile, the scorecard the
   spelling of the first sample (`core/cloudeyes_core/assessment/engine.py:53`);
   with comparable providers and a profile that is not in lower case, the check at
   `core/cloudeyes_core/models/assessment.py:199` refuses the report.
   `docs/provider-analytics.md:3` says that valid samples become reports.

## 6. Not modelled

Power loss and the absence of a directory fsync; the inside of SQLite and of the
file system; HTTP parsing; the syntax of JSON, ZIP, URLs and names; the wording
of messages; measured times and values, and with them the thresholds of the
reliability policy and the TLS, redirect and truncation warnings;
`--no-isolation`, which runs the profile in the parent without a deadline.

`do_GET` and `counts` only read. Retained quarantine payloads are read by nobody.
Pool workers of a profile process that was itself terminated are outside every
model. Discovery, bootstrap, Markdown reports, command lines, configuration and
dependency installation are sequential code around calls of the host.
`cohorts/compatibility.py` is called by nothing. Placeholders under `platform/`
and `agent/` have no code.

What could follow: health counts against concurrent commits, retained payloads
and their crashes.
