------------------------------ MODULE Profiles ------------------------------
(***************************************************************************)
(* The six measurement profiles of agent/cloudeyes_agent/profiles: what     *)
(* benchmark_<profile>_profile executes, in which order, inside which with  *)
(* and finally blocks, and what becomes of an error and of a cancellation   *)
(* at every point.  A profile is a Plan, a sequence of items that the main  *)
(* thread works off: checkpoints, resources entered and left, loops of      *)
(* operations, and batches of tasks on a pool of threads (web, database)    *)
(* or processes (compute).  Timings and values are left out.                *)
(***************************************************************************)
EXTENDS Naturals, FiniteSets, Sequences, SequencesExt

CONSTANTS
    Configurations,  \* profiles to run: records [profile, optional]
    Repetitions,     \* config.repetitions
    Operations,      \* operations per loop
    Tasks,           \* tasks of a batch, 1..n in the order of submission
    Workers          \* threads or processes of a pool

ProfileNames == {"general", "storage", "networking", "web", "database", "compute"}

ASSUME ProfilesAssumption ==
    /\ Configurations \subseteq [profile : ProfileNames, optional : BOOLEAN]
    /\ Repetitions \in Nat \ {0} /\ Operations \in Nat \ {0}
    /\ Tasks # {} /\ IsFiniteSet(Tasks) /\ Tasks = 1..Cardinality(Tasks)
    /\ IsFiniteSet(Workers) /\ Workers # {} /\ 0 \notin Workers

VARIABLES
    config,     \* the profile, and whether its optional part is configured
    main,       \* what the main thread does with the item
    at,         \* index of its item in the plan
    op,         \* operations of the item that are over
    stack,      \* with and finally blocks the main thread is in
    reason,     \* the exception that is unwinding them
    event,      \* cancellation has been requested
    raised,     \* history: a checkpoint raised while no other exception was in flight
    future,     \* the state of every task of the pool
    completed,  \* operations of each task that succeeded
    collected,  \* tasks whose result the main thread has taken
    job, step, left,    \* of each worker: task, next step, operations left
    lock,       \* the worker that holds SQLite's write lock
    ok, bad,    \* operations counted as successes and as failures
    faults,     \* operations that really failed and did not end a measurement
    measured,   \* status of the measurements made
    sample      \* the sample of run_<profile>_profile

poolVars == <<future, completed, job, step, left, lock>>
tally == <<ok, bad, measured, sample>>
vars == <<config, main, at, op, stack, reason, event, raised, collected, faults, poolVars, tally>>

-----------------------------------------------------------------------------
(* Plans. *)

Work(kind, ops, holds, polls, onError) ==
    [kind |-> kind, ops |-> ops, holds |-> holds, polls |-> polls, inner |-> FALSE,
     onError |-> onError]
Item(kind) == Work(kind, 1, <<>>, FALSE, "abort")

Check == Item("check")                                \* token.checkpoint()
Require == Item("serial")                             \* a step that may raise
Enter(resource) == Work("enter", 1, <<resource>>, FALSE, "abort")
Leave == Item("leave")
Batch == Item("batch")                                \* submit Tasks, take results
SomeCompleted == Item("need")                         \* OSError if all failed

(* A loop that polls the token before each of its n operations; an operation  *)
(* polls it inside as well, holds resources, and its error aborts the          *)
(* measurement or is counted under a name.                                     *)
Loop(n, holds, onError) == Work("serial", n, holds, TRUE, onError)
Polling(item) == [item EXCEPT !.inner = TRUE]

Within(resource, items) == <<Enter(resource)>> \o items \o <<Leave>>
Repeat(n, items) == FlattenSeq([i \in 1..n |-> items])
When(condition, items) == IF condition THEN items ELSE <<>>

(* The bodies of the profiles. *)
Download == Polling(Loop(Repetitions, <<"connection">>, "download"))
Upload == Polling(Loop(Repetitions, <<"connection">>, "upload"))
Ping == Loop(1, <<>>, "ping")
ConnectAndHandshake == Loop(Repetitions, <<"socket">>, "abort")

Networking(upload) ==
    <<Check, Loop(Repetitions, <<>>, "abort"), Require, ConnectAndHandshake, Download>>
    \o When(upload, <<Require, Upload>>)
    \o <<Ping, Check>>

Web ==
    <<Check, Require, Polling(Loop(Operations, <<"connection">>, "warmup")), Check>>
    \o Within("pool", <<Batch>>) \o <<SomeCompleted>>

InitializeDatabase ==
    Within("connection",
           <<Require>> \o Within("transaction", <<Loop(Operations, <<>>, "abort")>>))

DatabaseRepetition ==
    <<Check, Loop(Operations, <<"connection">>, "abort")>>
    \o Within("connection", <<Loop(Operations, <<>>, "abort")>>)
    \o Repeat(2, Within("connection", <<Loop(Operations, <<"transaction">>, "abort")>>))
    \o Within("pool", <<Batch>>) \o <<SomeCompleted>>

Database ==
    <<Check, Require>>
    \o Within("directory",
              InitializeDatabase
              \o Within("connection", <<Loop(Operations, <<>>, "abort")>>)
              \o Repeat(Repetitions, DatabaseRepetition)
              \o <<Check>> \o Within("connection", <<Require>>))

Kernels(n) == Polling(Loop(n, <<>>, "abort"))

MultiCore(workers) ==
    IF workers
    THEN Within("pool", <<Batch>> \o Repeat(Repetitions, <<Check, Batch>>))
    ELSE <<Kernels(Repetitions)>>

Compute(workers) ==
    <<Check, Kernels(Operations), Kernels(Repetitions)>>
    \o MultiCore(workers) \o <<Kernels(3 * Repetitions)>>

StorageRepetition == <<Check, Polling(Loop(Operations, <<"file">>, "abort"))>>

Storage ==
    <<Check, Require>>
    \o Within("directory",
              <<Polling(Loop(2, <<"file">>, "abort"))>>
              \o Repeat(Repetitions, StorageRepetition) \o <<Check>>)

(* _measurement: the body, the evidence, and the status of the measurement.    *)
Measure(body) == body \o <<Check, Require, Check, Item("measure")>>

GeneralStorage ==
    <<Check>>
    \o Within("directory", <<Polling(Loop(2, <<"file">>, "abort")), Check>>)
    \o <<Require, Item("measure")>>

General(storage) ==
    Repeat(2, <<Kernels(1), Item("measure")>>)
    \o (IF storage THEN GeneralStorage ELSE <<Item("skip")>>)

(* run_<profile>_profile: a checkpoint, the measurements, the sample *)
Plans == [c \in Configurations |->
    <<Check>> \o
    (CASE c.profile = "general" -> General(c.optional)
       [] c.profile = "storage" -> Measure(Storage)
       [] c.profile = "networking" -> Measure(Networking(c.optional))
       [] c.profile = "web" -> Measure(Web)
       [] c.profile = "database" -> Measure(Database)
       [] c.profile = "compute" -> Measure(Compute(c.optional)))
    \o <<Item("end")>>]

Plan == Plans[config]

-----------------------------------------------------------------------------
(* What a measurement reports. *)

Counters == {"download", "upload", "ping", "warmup", "operation"}

NetworkingMetrics ==
    {"dns", "tcp"}
    \cup (IF bad["download"] > 0 THEN {"request_loss"} ELSE {})
    \cup (IF ok["download"] > 0 THEN {"ttfb", "download"} ELSE {})
    \cup (IF ok["upload"] > 0 THEN {"upload"} ELSE {})
    \cup (IF ok["ping"] > 0 THEN {"packet_loss"} ELSE {})

NetworkingWarnings ==
    (IF ok["download"] = 0 THEN {"http_download_failed"} ELSE {})
    \cup (IF config.optional
          THEN IF ok["upload"] = 0 THEN {"http_upload_failed"} ELSE {}
          ELSE {"upload_target_not_configured"})
    \cup (IF ok["ping"] = 0 THEN {"icmp"} ELSE {})

WebMetrics ==
    {"requests_per_second", "ttfb", "total_latency", "throughput"}
    \cup (IF bad["operation"] > 0 THEN {"error_rate"} ELSE {})

WebWarnings ==
    (IF bad["warmup"] > 0 THEN {"web_warmup_failures"} ELSE {})
    \cup (IF bad["operation"] > 0 THEN {"web_partial_request_failures"} ELSE {})

DatabaseMetrics ==
    {"connection", "point_read", "insert", "update", "write_transaction", "mixed"}
    \cup (IF bad["operation"] > 0 THEN {"error_rate"} ELSE {})

DatabaseWarnings ==
    {"database_profile_uses_local_sqlite"}
    \cup (IF bad["operation"] > 0 THEN {"database_mixed_operation_errors"} ELSE {})

StorageMetrics == {"sequential_write", "sequential_read", "random_read",
                   "random_write", "fsync"}
ComputeMetrics == {"single_core", "multi_core", "floating_point", "sha256",
                   "compression", "scaling_ratio", "worker_efficiency"}
ComputeWarnings == IF config.optional THEN {} ELSE {"compute_single_worker_only"}

(* metrics of the successful measurements; an error rate or loss of zero is    *)
(* reported too, and not distinguished here from its absence                   *)
Metrics ==
    CASE config.profile = "networking" -> NetworkingMetrics
      [] config.profile = "web" -> WebMetrics
      [] config.profile = "database" -> DatabaseMetrics
      [] config.profile = "storage" -> StorageMetrics
      [] config.profile = "compute" -> ComputeMetrics
      [] config.profile = "general" -> {"cpu", "memory", "storage"}

BenchmarkWarnings ==
    CASE config.profile = "networking" -> NetworkingWarnings
      [] config.profile = "web" -> WebWarnings
      [] config.profile = "database" -> DatabaseWarnings
      [] config.profile = "compute" -> ComputeWarnings
      [] OTHER -> {}

(* Mutant of Quality: a failed measurement leaves no warning. *)
QualityWithoutFailures(warnings) ==
    [status |-> CASE ~Contains(measured, "success") -> "invalid"
                  [] Contains(measured, "success") /\ warnings # {} -> "valid_with_warnings"
                  [] OTHER -> "valid",
     warnings |-> warnings]

(* evaluate_sample_quality *)
Quality(warnings) ==
    LET all == warnings
               \cup (IF Contains(measured, "failed") THEN {"measurement_failed"} ELSE {})
               \cup (IF Contains(measured, "skipped") THEN {"measurement_skipped"} ELSE {})
    IN [status |-> CASE ~Contains(measured, "success") -> "invalid"
                     [] Contains(measured, "success") /\ all # {} -> "valid_with_warnings"
                     [] OTHER -> "valid",
        warnings |-> all]

-----------------------------------------------------------------------------
TypeOK ==
    /\ config \in Configurations
    /\ main \in {"ready", "working", "collect", "unwind", "done"}
    /\ at \in 1..Len(Plan) /\ op \in Nat
    /\ stack \in Seq({"directory", "connection", "transaction", "pool", "file", "socket"})
    /\ reason \in {"none", "failed", "cancelled"}
    /\ event \in BOOLEAN /\ raised \in BOOLEAN
    /\ future \in [Tasks -> {"none", "queued", "running", "done", "error", "cancelled"}]
    /\ completed \in [Tasks -> 0..Operations]
    /\ collected \subseteq Tasks
    /\ job \in [Workers -> Tasks \cup {0}]
    /\ step \in [Workers -> {"idle", "start", "open", "poll", "write", "commit"}]
    /\ left \in [Workers -> 0..Operations]
    /\ lock \in Workers \cup {0}
    /\ ok \in [Counters -> Nat] /\ bad \in [Counters -> Nat] /\ faults \in Nat
    /\ measured \in Seq({"success", "failed", "skipped"})

Init ==
    /\ config \in Configurations
    /\ main = "ready" /\ at = 1 /\ op = 0 /\ stack = <<>> /\ reason = "none"
    /\ event = FALSE /\ raised = FALSE
    /\ future = [t \in Tasks |-> "none"] /\ completed = [t \in Tasks |-> 0]
    /\ collected = {}
    /\ job = [w \in Workers |-> 0] /\ step = [w \in Workers |-> "idle"]
    /\ left = [w \in Workers |-> 0] /\ lock = 0
    /\ ok = [c \in Counters |-> 0] /\ bad = [c \in Counters |-> 0] /\ faults = 0
    /\ measured = <<>> /\ sample = [status |-> "none", warnings |-> {}, metrics |-> {}]

Current == Plan[at]
Unfinished == {t \in Tasks : future[t] \in {"queued", "running"}}

(* request_cancellation, by the parent process or in the same process *)
RequestCancellation ==
    /\ ~event /\ main # "done"
    /\ event' = TRUE
    /\ UNCHANGED <<config, main, at, op, stack, reason, raised, collected, faults, poolVars,
                   tally>>

-----------------------------------------------------------------------------
(* The main thread. *)

Continue ==
    /\ at' = at + 1 /\ op' = 0 /\ main' = "ready"
    /\ UNCHANGED <<reason, raised>>

(* An exception: the with and finally blocks run next, innermost first. *)
Raise(exception) ==
    /\ main' = "unwind" /\ reason' = exception
    /\ raised' = (raised \/ exception = "cancelled")
    /\ UNCHANGED <<at, op>>

CheckToken ==
    /\ main = "ready" /\ Current.kind = "check"
    /\ IF event THEN Raise("cancelled") ELSE Continue
    /\ UNCHANGED <<config, stack, event, collected, faults, poolVars, tally>>

EnterResource ==
    /\ main = "ready" /\ Current.kind = "enter"
    /\ \/ Continue /\ stack' = stack \o Current.holds
       \/ Current.holds # <<"pool">> /\ Raise("failed") /\ UNCHANGED stack
    /\ UNCHANGED <<config, event, collected, faults, poolVars, tally>>

(* Mutant of PoolIsQuiet: shutdown(wait=False). *)
PoolAbandoned == TRUE

(* The exit of an executor waits for running and for queued tasks. *)
PoolIsQuiet == Last(stack) = "pool" => Unfinished = {}

(* The exit of TemporaryDirectory, or of a file, may raise an OSError. *)
CleanUpMayFail == Last(stack) \in {"directory", "file"}

LeaveResource ==
    /\ main = "ready" /\ Current.kind = "leave" /\ PoolIsQuiet
    /\ \/ Continue /\ stack' = Front(stack)
       \/ Last(stack) = "transaction" /\ Raise("failed") /\ UNCHANGED stack
       \/ CleanUpMayFail /\ Raise("failed") /\ stack' = Front(stack)
    /\ UNCHANGED <<config, event, collected, faults, poolVars, tally>>

BeginOperation ==
    /\ main = "ready" /\ Current.kind = "serial"
    /\ IF Current.polls /\ event
       THEN Raise("cancelled") /\ UNCHANGED stack
       ELSE /\ main' = "working" /\ stack' = stack \o Current.holds
            /\ UNCHANGED <<at, op, reason, raised>>
    /\ UNCHANGED <<config, event, collected, faults, poolVars, tally>>

NextOperation ==
    IF op + 1 < Current.ops
    THEN op' = op + 1 /\ main' = "ready" /\ UNCHANGED <<at, reason, raised>>
    ELSE Continue

Counted == Current.onError # "abort"
Count(counter) == [counter EXCEPT ![Current.onError] = @ + 1]
Release == stack' = SubSeq(stack, 1, Len(stack) - Len(Current.holds))

OperationSucceeds ==
    /\ main = "working"
    /\ NextOperation /\ Release
    /\ ok' = IF Counted THEN Count(ok) ELSE ok
    /\ UNCHANGED <<config, event, collected, faults, poolVars, bad, measured, sample>>

(* Mutant of OperationFails: the first error ends the loop. *)
LoopEndsOnError ==
    /\ main = "working"
    /\ IF Counted
       THEN /\ Continue /\ Release
            /\ bad' = Count(bad) /\ faults' = faults + 1
       ELSE Raise("failed") /\ UNCHANGED <<stack, bad, faults>>
    /\ UNCHANGED <<config, event, collected, poolVars, ok, measured, sample>>

(* The connection of a warm-up request is made before the try block. *)
OperationFails ==
    /\ main = "working"
    /\ \/ /\ Counted /\ NextOperation /\ Release
          /\ bad' = Count(bad) /\ faults' = faults + 1
       \/ /\ Current.onError \in {"abort", "warmup"} /\ Raise("failed")
          /\ UNCHANGED <<stack, bad, faults>>
    /\ UNCHANGED <<config, event, collected, poolVars, ok, measured, sample>>

(* Mutant of OperationCancelled: the except Exception that counts the errors   *)
(* of a loop takes the cancellation too, and the loop is left.                 *)
CancellationCounted ==
    /\ main = "working" /\ Current.inner /\ event
    /\ IF Counted
       THEN /\ at' = at + 1 /\ op' = 0 /\ main' = "ready" /\ raised' = TRUE
            /\ Release /\ bad' = Count(bad) /\ UNCHANGED reason
       ELSE Raise("cancelled") /\ UNCHANGED <<stack, bad>>
    /\ UNCHANGED <<config, event, collected, faults, poolVars, ok, measured, sample>>

OperationCancelled ==
    /\ main = "working" /\ Current.inner /\ event
    /\ Raise("cancelled")
    /\ UNCHANGED <<config, stack, event, collected, faults, poolVars, tally>>

(* executor.submit for every task of the batch *)
Submit ==
    /\ main = "ready" /\ Current.kind = "batch"
    /\ main' = "collect" /\ collected' = {}
    /\ future' = [t \in Tasks |-> "queued"] /\ completed' = [t \in Tasks |-> 0]
    /\ UNCHANGED <<config, at, op, stack, reason, event, raised, faults, job, step, left,
                   lock, tally>>

(* web: as_completed; database and compute: in the order of submission *)
Awaited == IF config.profile = "web"
           THEN Tasks \ collected
           ELSE {t \in Tasks \ collected : \A u \in Tasks \ collected : t <= u}

(* future.result() re-raises what ended the task. *)
TakeResult(t) ==
    CASE future[t] = "error" -> Raise("failed") /\ UNCHANGED collected
      [] future[t] = "cancelled" -> Raise("cancelled") /\ UNCHANGED collected
      [] future[t] = "done" -> collected' = collected \cup {t}
                               /\ UNCHANGED <<main, at, op, reason, raised>>

Collect ==
    /\ main = "collect"
    /\ \E t \in Awaited :
          /\ t \notin Unfinished
          /\ IF event /\ config.profile = "web"
             THEN Raise("cancelled") /\ UNCHANGED collected
             ELSE TakeResult(t)
    /\ UNCHANGED <<config, stack, event, faults, poolVars, tally>>

(* compute: _future_result polls the token and gives up at its deadline *)
PollFuture ==
    /\ main = "collect" /\ config.profile = "compute" /\ Awaited # {}
    /\ \/ event /\ Raise("cancelled")
       \/ ~event /\ Awaited \subseteq Unfinished /\ Raise("failed")
    /\ UNCHANGED <<config, stack, event, collected, faults, poolVars, tally>>

PerTask == IF config.profile = "database" THEN Operations ELSE 1
BatchCompleted == FoldFunction(+, 0, completed)

BatchDone ==
    /\ main = "collect" /\ collected = Tasks
    /\ Continue
    /\ ok' = [ok EXCEPT !["operation"] = @ + BatchCompleted]
    /\ bad' = [bad EXCEPT !["operation"] = @ + Cardinality(Tasks) * PerTask - BatchCompleted]
    /\ UNCHANGED <<config, stack, event, collected, faults, poolVars, measured, sample>>

(* Mutant of NeedCompleted: the benchmark goes on without a single success. *)
NeedNothing ==
    /\ main = "ready" /\ Current.kind = "need"
    /\ Continue
    /\ UNCHANGED <<config, stack, event, collected, faults, poolVars, tally>>

(* if not successful / if completed == 0: raise OSError *)
NeedCompleted ==
    /\ main = "ready" /\ Current.kind = "need"
    /\ IF BatchCompleted = 0 THEN Raise("failed") ELSE Continue
    /\ UNCHANGED <<config, stack, event, collected, faults, poolVars, tally>>

(* A measurement with status success, or skipped by the configuration. *)
Record ==
    /\ main = "ready" /\ Current.kind \in {"measure", "skip"}
    /\ measured' = Append(measured, IF Current.kind = "skip" THEN "skipped" ELSE "success")
    /\ Continue
    /\ UNCHANGED <<config, stack, event, collected, faults, poolVars, ok, bad, sample>>

(* One with or finally block is left with the exception, or with the error of  *)
(* its own clean-up, which takes the place of the exception.                   *)
Unwind ==
    /\ main = "unwind" /\ stack # <<>> /\ PoolIsQuiet
    /\ stack' = Front(stack)
    /\ UNCHANGED reason \/ (CleanUpMayFail /\ reason' = "failed")
    /\ UNCHANGED <<config, main, at, op, event, raised, collected, faults, poolVars, tally>>

NextMeasurement == CHOOSE i \in at..Len(Plan) :
    Plan[i].kind = "measure" /\ \A j \in at..(i - 1) : Plan[j].kind # "measure"

(* except Exception: a failed measurement, and the next one *)
Fail ==
    /\ main = "unwind" /\ stack = <<>> /\ reason = "failed"
    /\ measured' = Append(measured, "failed")
    /\ main' = "ready" /\ at' = NextMeasurement + 1 /\ op' = 0 /\ reason' = "none"
    /\ UNCHANGED <<config, stack, event, raised, collected, faults, poolVars, ok, bad,
                   sample>>

(* Mutant of Cancel: _measurement has no except CancellationRequested. *)
CancelAsFailure ==
    /\ main = "unwind" /\ stack = <<>> /\ reason = "cancelled"
    /\ measured' = Append(measured, "failed")
    /\ main' = "ready" /\ at' = NextMeasurement + 1 /\ op' = 0
    /\ UNCHANGED <<config, reason, stack, event, raised, collected, faults, poolVars, ok, bad,
                   sample>>

(* except CancellationRequested: raise; run_<profile>_profile has no sample *)
Cancel ==
    /\ main = "unwind" /\ stack = <<>> /\ reason = "cancelled"
    /\ main' = "done"
    /\ UNCHANGED <<config, at, op, stack, reason, event, raised, collected, faults, poolVars,
                   tally>>

(* The sample.  late: a measurement exceeded max_measurement_seconds. *)
Finish ==
    /\ main = "ready" /\ Current.kind = "end"
    /\ main' = "done"
    /\ \E discovered \in {{}, {"provider_unknown"}}, late \in BOOLEAN :
          LET succeeded == Contains(measured, "success")
              quality == Quality(discovered
                                 \cup (IF succeeded THEN BenchmarkWarnings ELSE {})
                                 \cup (IF late THEN {"duration_exceeded"} ELSE {}))
          IN sample' = [status |-> quality.status, warnings |-> quality.warnings,
                        metrics |-> IF succeeded THEN Metrics ELSE {}]
    /\ UNCHANGED <<config, at, op, stack, reason, event, raised, collected, faults, poolVars,
                   ok, bad, measured>>

MainNext ==
    \/ CheckToken \/ EnterResource \/ LeaveResource \/ BeginOperation
    \/ OperationSucceeds \/ OperationFails \/ OperationCancelled
    \/ Submit \/ Collect \/ PollFuture \/ BatchDone \/ NeedCompleted
    \/ Record \/ Unwind \/ Fail \/ Cancel \/ Finish

-----------------------------------------------------------------------------
(* The workers of a pool. *)

mainVars == <<config, main, at, op, stack, reason, event, collected, tally>>

(* A free worker takes the oldest queued task. *)
Take(w) ==
    /\ job[w] = 0
    /\ \E t \in Tasks :
          /\ future[t] = "queued" /\ \A u \in Tasks : u < t => future[u] # "queued"
          /\ future' = [future EXCEPT ![t] = "running"]
          /\ job' = [job EXCEPT ![w] = t]
    /\ step' = [step EXCEPT ![w] = "start"]
    /\ left' = [left EXCEPT ![w] = PerTask]
    /\ UNCHANGED <<mainVars, raised, faults, completed, lock>>

(* The task ends, and its finally block has closed the connection: SQLite     *)
(* rolls an open transaction back.                                             *)
End(w, state) ==
    /\ future' = [future EXCEPT ![job[w]] = state]
    /\ job' = [job EXCEPT ![w] = 0]
    /\ step' = [step EXCEPT ![w] = "idle"]
    /\ left' = [left EXCEPT ![w] = 0]
    /\ lock' = IF lock = w THEN 0 ELSE lock
    /\ raised' = (raised \/ (state = "cancelled" /\ main # "unwind"))

Goto(w, s) == step' = [step EXCEPT ![w] = s] /\ UNCHANGED <<raised, future, job, lock, left>>

(* web: checkpoint and connection, before the try block *)
StartRequest(w) ==
    /\ config.profile = "web" /\ step[w] = "start"
    /\ IF event THEN End(w, "cancelled") ELSE Goto(w, "open") \/ End(w, "error")
    /\ UNCHANGED <<mainVars, faults, completed>>

(* the response: 2xx, or an observation without success, or a checkpoint *)
Request(w) ==
    /\ config.profile = "web" /\ step[w] = "open"
    /\ \/ /\ End(w, "done")
          /\ completed' = [completed EXCEPT ![job[w]] = 1] /\ UNCHANGED faults
       \/ End(w, "done") /\ faults' = faults + 1 /\ UNCHANGED completed
       \/ event /\ End(w, "cancelled") /\ UNCHANGED <<completed, faults>>
    /\ UNCHANGED mainVars

(* compute: _integer_kernel in a process of the pool *)
KernelReturns(w) ==
    /\ config.profile = "compute" /\ step[w] = "start"
    /\ End(w, "done")
    /\ completed' = [completed EXCEPT ![job[w]] = 1]
    /\ UNCHANGED <<mainVars, faults>>

(* Mutant of KernelCancelled: the pool has no initializer for the token. *)
KernelWithoutToken(w) == FALSE /\ UNCHANGED vars

(* the token that _initialize_worker_cancellation gave to the process *)
KernelCancelled(w) ==
    /\ config.profile = "compute" /\ step[w] = "start" /\ event
    /\ End(w, "cancelled")
    /\ UNCHANGED <<mainVars, faults, completed>>

(* a process of the pool dies: BrokenProcessPool for every unfinished task *)
PoolBreaks(w) ==
    /\ config.profile = "compute" /\ job[w] # 0
    /\ future' = [t \in Tasks |-> IF t \in Unfinished THEN "error" ELSE future[t]]
    /\ job' = [v \in Workers |-> 0] /\ step' = [v \in Workers |-> "idle"]
    /\ left' = [v \in Workers |-> 0]
    /\ UNCHANGED <<mainVars, raised, faults, completed, lock>>

(* database: _mixed_worker connects *)
Connect(w) ==
    /\ config.profile = "database" /\ step[w] = "start"
    /\ Goto(w, "poll") \/ End(w, "error")
    /\ UNCHANGED <<mainVars, faults, completed>>

(* Mutant of PollTask: the worker runs past the end of its partition. *)
PartitionOverrun(w) ==
    /\ config.profile = "database" /\ step[w] = "poll"
    /\ IF event THEN End(w, "cancelled") ELSE Goto(w, "open")
    /\ UNCHANGED <<mainVars, faults, completed>>

(* Mutant of PollTask: break after the first sqlite3.Error. *)
StopAtFirstError(w) ==
    /\ config.profile = "database" /\ step[w] = "poll"
    /\ IF left[w] = 0 \/ completed[job[w]] + left[w] < PerTask THEN End(w, "done")
       ELSE IF event THEN End(w, "cancelled") ELSE Goto(w, "open")
    /\ UNCHANGED <<mainVars, faults, completed>>

(* The loop's checkpoint, and the end of the partition. *)
PollTask(w) ==
    /\ config.profile = "database" /\ step[w] = "poll"
    /\ IF left[w] = 0 THEN End(w, "done")
       ELSE IF event THEN End(w, "cancelled") ELSE Goto(w, "open")
    /\ UNCHANGED <<mainVars, faults, completed>>

OperationOver(w, success) ==
    /\ step' = [step EXCEPT ![w] = "poll"]
    /\ left' = [left EXCEPT ![w] = @ - 1]
    /\ completed' = [completed EXCEPT ![job[w]] = IF success THEN @ + 1 ELSE @]
    /\ faults' = IF success THEN faults ELSE faults + 1
    /\ UNCHANGED <<mainVars, raised, future, job>>

(* The RuntimeError of a failed verification is no sqlite3.Error. *)
VerificationFails(w) ==
    /\ config.profile = "database" /\ step[w] \in {"open", "commit"}
    /\ End(w, "error")
    /\ UNCHANGED <<mainVars, faults, completed>>

(* SELECT, which in WAL mode needs no write lock *)
Read(w) ==
    /\ config.profile = "database" /\ step[w] = "open"
    /\ \E success \in BOOLEAN : OperationOver(w, success)
    /\ UNCHANGED lock

(* BEGIN IMMEDIATE, or the busy timeout *)
BeginImmediate(w) ==
    /\ config.profile = "database" /\ step[w] = "open"
    /\ \/ lock = 0 /\ lock' = w /\ step' = [step EXCEPT ![w] = "commit"]
          /\ UNCHANGED <<mainVars, raised, faults, completed, future, job, left>>
       \/ lock # 0 /\ OperationOver(w, FALSE) /\ UNCHANGED lock

(* Mutant of UpdateAndCommit: sqlite3.Error is counted, not rolled back. *)
NoRollback(w) ==
    /\ config.profile = "database" /\ step[w] = "commit"
    /\ \E success \in BOOLEAN :
          OperationOver(w, success) /\ lock' = IF success THEN 0 ELSE lock

(* UPDATE and COMMIT; on sqlite3.Error _rollback_quietly *)
UpdateAndCommit(w) ==
    /\ config.profile = "database" /\ step[w] = "commit"
    /\ \E success \in BOOLEAN : OperationOver(w, success)
    /\ lock' = 0

WorkerNext(w) ==
    \/ Take(w) \/ StartRequest(w) \/ Request(w) \/ KernelCancelled(w)
    \/ Connect(w) \/ PollTask(w) \/ Read(w) \/ BeginImmediate(w) \/ UpdateAndCommit(w)
    \/ VerificationFails(w)

Terminated == main = "done" /\ UNCHANGED vars

Next == \/ RequestCancellation \/ MainNext \/ Terminated
        \/ \E w \in Workers : WorkerNext(w) \/ KernelReturns(w) \/ PoolBreaks(w)

Spec == Init /\ [][Next]_vars

(* Operations end (sockets and SQLite have timeouts) and threads are           *)
(* scheduled; a process of the compute pool may hang until it sees the token.  *)
FairSpec ==
    /\ Spec
    /\ WF_vars(MainNext)
    /\ \A w \in Workers : WF_vars(WorkerNext(w))

-----------------------------------------------------------------------------
(* Properties. *)

(***************************************************************************)
(* The temporary directory with the database outlives every connection, a   *)
(* mixed operation that failed has released SQLite's write lock before its  *)
(* worker goes on, and a profile that has returned or raised leaves no      *)
(* worker, no queued task and no open block behind, on whatever path.       *)
(***************************************************************************)
CleanExit ==
    /\ \A w \in Workers : /\ job[w] # 0 => Contains(stack, "pool")
                          /\ lock = w => step[w] = "commit"
    /\ main = "done" => stack = <<>> /\ Unfinished = {}

(***************************************************************************)
(* Error rates count operations that were attempted and failed.  The        *)
(* database profile computes errors as attempted - completed from the sizes *)
(* of the partitions: no worker may skip an operation of its partition.     *)
(***************************************************************************)
OnlyFaultsCounted ==
    main = "done" /\ measured = <<"success">> =>
        FoldFunction(+, 0, bad) = faults

(***************************************************************************)
(* A successful measurement executed all that its configuration asks for:   *)
(* every download, request and mixed operation is counted exactly once,     *)
(* wherever a cancellation fell; and its rates, medians and percentiles     *)
(* have data: web and database never report about failures only.            *)
(***************************************************************************)
SuccessIsComplete ==
    main = "done" /\ measured = <<"success">> =>
        LET counted(c) == ok[c] + bad[c]
            batch == Cardinality(Tasks) * PerTask
        IN /\ config.profile = "networking" =>
                 counted("download") = Repetitions
                 /\ counted("upload") = (IF config.optional THEN Repetitions ELSE 0)
           /\ config.profile = "web" => counted("operation") = batch
           /\ config.profile = "database" => counted("operation") = Repetitions * batch
           /\ config.profile \in {"web", "database"} => ok["operation"] > 0

(***************************************************************************)
(* docs/web-profile.md, docs/networking-profile.md: partial failures are    *)
(* preserved.  A sample without warnings hides no failed operation: it is   *)
(* in an error rate or a loss metric.  Failed uploads are not covered: they *)
(* are only in the raw evidence unless all of them fail.                    *)
(***************************************************************************)
FailuresVisible ==
    main = "done" /\ sample.status = "valid" =>
        /\ measured = [i \in 1..Len(measured) |-> "success"]
        /\ bad["warmup"] = 0
        /\ bad["download"] + bad["operation"] > 0 =>
              sample.metrics \cap {"request_loss", "error_rate"} # {}

(* The error of a clean-up, or the error of another task whose result is       *)
(* taken first, can take the place of CancellationRequested.                   *)
Replaceable ==
    \/ config.profile \in {"general", "storage", "database"}
    \/ \E t \in Tasks : future[t] = "error"

(***************************************************************************)
(* docs/cooperative-cancellation.md: a cancellation is propagated instead   *)
(* of being turned into an invalid sample.  Once a checkpoint has raised    *)
(* CancellationRequested, in the main thread or in a worker, no except or   *)
(* with block swallows it: no operation or batch begins, no measurement     *)
(* succeeds, and no sample is made, unless an error replaces the exception  *)
(* and the sample says that the measurement failed.                         *)
(***************************************************************************)
NothingAfterCancellation ==
    [][raised =>
        /\ main' # "working" /\ (main' = "collect" => main = "collect")
        /\ measured' # measured =>
              measured' = Append(measured, "failed") /\ Replaceable
        /\ sample' # sample => Last(measured) = "failed"]_vars

(***************************************************************************)
(* docs/cooperative-cancellation.md: the workload observes a cancellation   *)
(* and ends, also with a pool whose processes would otherwise run on.       *)
(***************************************************************************)
CancellationEnds == event ~> main = "done"
=============================================================================
