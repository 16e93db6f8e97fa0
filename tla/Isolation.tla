----------------------------- MODULE Isolation -----------------------------
(***************************************************************************)
(* cloudeyes run: run_profile (agent/cloudeyes_agent/commands/run.py) calls *)
(* run_isolated (execution/isolation.py), which runs one profile in a       *)
(* spawned child process under a deadline.  Parent and child share the      *)
(* cancellation event and the result queue, a pipe that a feeder thread of  *)
(* the child fills.  The child's profile follows profiles/storage: a        *)
(* workload in a temporary directory, then raw evidence, then the sample.   *)
(*                                                                          *)
(* Time is abstract: a wait with a timeout may end at any moment while its  *)
(* process is still alive.                                                  *)
(***************************************************************************)
EXTENDS Naturals

CONSTANTS
    MaxInterrupts,   \* bound: SIGINTs delivered to the parent
    Interruptible,   \* where SIGINT arrives: waits of the parent, the child
    Sizes,           \* sizes of results, "large" ones overflow the pipe buffer
    ChildMayDie      \* whether the child may be killed by others (OOM, user)

ASSUME IsolationAssumption ==
    /\ MaxInterrupts \in Nat
    /\ Interruptible \subseteq {"join", "grace", "term_join", "kill_join", "get",
                                "emit", "atexit", "child"}
    /\ Sizes \subseteq {"small", "large"} /\ Sizes # {}
    /\ ChildMayDie \in BOOLEAN

VARIABLES
    parent,       \* next step of run_isolated and run_profile
    child,        \* next step of _child_entry
    event,        \* the cancellation event is set
    signal,       \* strongest signal sent to the child
    pipe,         \* what the result queue's pipe holds
    result,       \* what the child puts into the queue
    scratch,      \* the workload's temporary directory exists
    raw,          \* the raw evidence file
    expired,      \* process.join(timeout_seconds) ran into the deadline
    interrupts,   \* KeyboardInterrupts delivered to the parent
    disturbed,    \* somebody other than the parent signalled the child
    cooperative,  \* result of _request_cooperative_stop
    outcome,      \* how run_isolated ended
    output,       \* the sample file of --output
    exit          \* exit code of run_profile

parentVars == <<parent, expired, cooperative, outcome, output, exit>>
childVars == <<child, pipe, result, scratch, raw, disturbed>>
vars == <<parentVars, childVars, event, signal, interrupts>>

ParentSteps == {"join", "alive", "grace", "grace_alive", "hard_stop", "term_join",
                "term_alive", "kill_join", "get", "emit", "atexit", "exited"}
ChildSteps == {"start", "workload", "evidence", "replace", "finish", "put",
               "drain", "exit", "dead"}
Results == {"none", "valid", "invalid", "error"}

(* Both processes, the pipe, the files and the exit code stay in their domains. *)
TypeOK ==
    /\ parent \in ParentSteps
    /\ child \in ChildSteps
    /\ event \in BOOLEAN
    /\ signal \in {"none", "term", "kill"}
    /\ pipe \in {"empty", "partial", "full"}
    /\ result \in Results
    /\ scratch \in BOOLEAN
    /\ raw \in {"absent", "temporary", "published"}
    /\ expired \in BOOLEAN
    /\ interrupts \in 0..MaxInterrupts /\ disturbed \in BOOLEAN
    /\ cooperative \in BOOLEAN
    /\ outcome \in Results \cup {"timeout", "cancelled", "interrupt"}
    /\ output \in {"absent", "partial", "sample"}
    /\ exit \in {0, 1, 2, 124, 130, 999}

Init ==
    /\ parent = "join" /\ child = "start"
    /\ event = FALSE /\ signal = "none"
    /\ pipe = "empty" /\ result = "none"
    /\ scratch = FALSE /\ raw = "absent"
    /\ expired = FALSE /\ interrupts = 0 /\ disturbed = FALSE /\ cooperative = FALSE
    /\ outcome = "none" /\ output = "absent" /\ exit = 999

Alive == child # "dead"

-----------------------------------------------------------------------------
(* The child. *)

(* An exception leaves the profile; the with block removed the scratch files. *)
Raise ==
    /\ child' = "put"
    /\ result' = "error"
    /\ scratch' = FALSE

(* token.checkpoint(): CancellationRequested once the event is set. *)
Checkpoint(step) ==
    IF event THEN Raise
             ELSE child' = step /\ UNCHANGED <<result, scratch>>

(* run_storage_profile up to the workload; discovery may raise. *)
Start ==
    /\ child = "start"
    /\ \/ event /\ Raise
       \/ ~event /\ child' = "workload" /\ scratch' = TRUE /\ UNCHANGED result
       \/ Raise
    /\ UNCHANGED <<parentVars, pipe, raw, event, signal, interrupts,
                   disturbed>>

(***************************************************************************)
(* The workload ends, is cancelled at a checkpoint, or fails: a failed      *)
(* measurement becomes an invalid sample without evidence.  So does the     *)
(* failing removal of the temporary directory, whose OSError takes the      *)
(* place of a CancellationRequested in flight.                              *)
(***************************************************************************)
Workload ==
    /\ child = "workload"
    /\ \/ event /\ Raise
       \/ child' = "evidence" /\ scratch' = FALSE /\ UNCHANGED result
       \/ child' = "finish" /\ scratch' \in BOOLEAN /\ result' = "invalid"
    /\ UNCHANGED <<parentVars, pipe, raw, event, signal, interrupts,
                   disturbed>>

(* write_raw_output: mkstemp and write, then os.replace. *)
(* Mutant of WriteEvidence: the checkpoint comes after mkstemp. *)
WriteThenCheckpoint ==
    /\ child = "evidence"
    /\ Checkpoint("replace")
    /\ raw' = "temporary"
    /\ UNCHANGED <<parentVars, pipe, event, signal, interrupts,
                   disturbed>>

WriteEvidence ==
    /\ child = "evidence"
    /\ Checkpoint("replace")
    /\ raw' = IF event THEN raw ELSE "temporary"
    /\ UNCHANGED <<parentVars, pipe, event, signal, interrupts,
                   disturbed>>

(* Mutant of ReplaceEvidence: the OSError is swallowed, the path still returned. *)
ErrorSwallowed ==
    /\ child = "replace"
    /\ child' = "finish"
    /\ raw' \in {"published", "absent"}
    /\ UNCHANGED <<parentVars, pipe, result, scratch, event, signal, interrupts,
                   disturbed>>

ReplaceEvidence ==
    /\ child = "replace"
    /\ child' = "finish"
    /\ \/ raw' = "published" /\ UNCHANGED result
       \/ \* OSError: a failed measurement; unlink may fail as well
          raw' \in {"absent", "temporary"} /\ result' = "invalid"
    /\ UNCHANGED <<parentVars, pipe, scratch, event, signal, interrupts,
                   disturbed>>

(* The last checkpoint, only on the success path, and the sample. *)
FinishProfile ==
    /\ child = "finish"
    /\ IF result = "invalid"
       THEN child' = "put" /\ UNCHANGED <<result, scratch>>
       ELSE \/ event /\ Raise
            \/ ~event /\ child' = "put" /\ result' = "valid" /\ UNCHANGED scratch
    /\ UNCHANGED <<parentVars, pipe, raw, event, signal, interrupts,
                   disturbed>>

(* result_queue.put hands the pickled result to the feeder thread. *)
Put ==
    /\ child = "put"
    /\ \E size \in Sizes :
          \/ size = "small" /\ child' = "exit" /\ pipe' = "full"
          \/ size = "large" /\ child' = "drain" /\ pipe' = "partial"
    /\ UNCHANGED <<parentVars, result, scratch, raw, event, signal, interrupts,
                   disturbed>>

(* The process exits once the feeder has written everything, or nobody reads it. *)
Exit ==
    /\ child = "exit" \/ (child = "drain" /\ parent = "exited")
    /\ child' = "dead"
    /\ UNCHANGED <<parentVars, pipe, result, scratch, raw, event, signal, interrupts,
                   disturbed>>

(* A signal of the parent kills the child, or somebody else does: no cleanup runs. *)
Die ==
    /\ Alive
    /\ \/ signal # "none" /\ UNCHANGED disturbed
       \/ ChildMayDie /\ disturbed' = TRUE
    /\ child' = "dead"
    /\ UNCHANGED <<parentVars, pipe, result, scratch, raw, event, signal, interrupts>>

(***************************************************************************)
(* A terminal signals the whole process group.                              *)
(* KeyboardInterrupt in the child unwinds the profile into _child_entry's   *)
(* except BaseException.  It may cut the removal of the scratch directory   *)
(* short, and write_raw_output's except Exception does not see it, so that  *)
(* a temporary evidence file stays.  Outside the try block it ends the      *)
(* process.                                                                 *)
(***************************************************************************)
ChildInterrupt ==
    /\ Alive
    /\ "child" \in Interruptible
    /\ disturbed' = TRUE
    /\ \/ /\ child \in {"start", "workload", "evidence", "replace", "finish"}
          /\ child' = "put"
          /\ result' = "error"
          /\ scratch' \in {FALSE, scratch}
       \/ /\ child \in {"start", "put", "drain", "exit"}
          /\ child' = "dead"
          /\ UNCHANGED <<result, scratch>>
    /\ UNCHANGED <<parentVars, pipe, raw, event, signal, interrupts>>

-----------------------------------------------------------------------------
(* The parent: run_isolated. *)

Goto(step) == parent' = step

(* process.join(timeout_seconds) *)
Join ==
    /\ parent = "join"
    /\ Goto("alive")
    /\ expired' = Alive
    /\ UNCHANGED <<cooperative, outcome, output, exit, childVars, event, signal,
                   interrupts>>

(* KeyboardInterrupt in that join: request cancellation, then wait. *)
InterruptJoin ==
    /\ parent = "join"
    /\ "join" \in Interruptible
    /\ interrupts < MaxInterrupts
    /\ interrupts' = interrupts + 1
    /\ event' = TRUE
    /\ Goto("grace")
    /\ UNCHANGED <<expired, cooperative, outcome, output, exit, childVars, signal>>

(* if process.is_alive() after the join *)
CheckAlive ==
    /\ parent = "alive"
    /\ IF Alive THEN Goto("grace") /\ event' = TRUE
                ELSE Goto("get") /\ UNCHANGED event
    /\ UNCHANGED <<expired, cooperative, outcome, output, exit, childVars, signal,
                   interrupts>>

(* process.join(grace_seconds) ends with the child or with the time. *)
GraceJoin ==
    /\ parent = "grace"
    /\ Goto("grace_alive")
    /\ UNCHANGED <<expired, cooperative, outcome, output, exit, childVars, event,
                   signal, interrupts>>

(* raise IsolatedExecutionCancelled or IsolatedExecutionTimeout *)
Stopped(byItself) ==
    /\ Goto("emit")
    /\ cooperative' = byItself
    /\ outcome' = IF interrupts > 0 THEN "cancelled" ELSE "timeout"
    /\ UNCHANGED <<expired, output, exit>>

GraceAlive ==
    /\ parent = "grace_alive"
    /\ IF Alive THEN Goto("hard_stop") /\ UNCHANGED <<expired, cooperative, outcome,
                                                      output, exit>>
                ELSE Stopped(TRUE)
    /\ UNCHANGED <<childVars, event, signal, interrupts>>

(* _hard_stop_process *)
HardStop ==
    /\ parent = "hard_stop"
    /\ IF Alive
       THEN /\ Goto("term_join")
            /\ signal' = "term"
            /\ UNCHANGED <<expired, cooperative, outcome, output, exit>>
       ELSE Stopped(FALSE) /\ UNCHANGED signal
    /\ UNCHANGED <<childVars, event, interrupts>>

TermJoin ==
    /\ parent = "term_join"
    /\ Goto("term_alive")
    /\ UNCHANGED <<expired, cooperative, outcome, output, exit, childVars, event,
                   signal, interrupts>>

(* Mutant of TermAlive: no kill after terminate. *)
TermWithoutKill ==
    /\ parent = "term_alive"
    /\ Stopped(FALSE)
    /\ UNCHANGED <<childVars, event, signal, interrupts>>

(* Mutant of TermAlive: process.kill missing, the last join stays. *)
TermThenJoin ==
    /\ parent = "term_alive"
    /\ IF Alive
       THEN Goto("kill_join") /\ UNCHANGED <<expired, cooperative, outcome, output, exit>>
       ELSE Stopped(FALSE)
    /\ UNCHANGED <<childVars, event, signal, interrupts>>

TermAlive ==
    /\ parent = "term_alive"
    /\ IF Alive
       THEN /\ Goto("kill_join")
            /\ signal' = "kill"
            /\ UNCHANGED <<expired, cooperative, outcome, output, exit>>
       ELSE Stopped(FALSE) /\ UNCHANGED signal
    /\ UNCHANGED <<childVars, event, interrupts>>

KillJoin ==
    /\ parent = "kill_join"
    /\ ~Alive
    /\ Stopped(FALSE)
    /\ UNCHANGED <<childVars, event, signal, interrupts>>

(***************************************************************************)
(* result_queue.get(timeout=1.0): the timeout covers the wait for the first *)
(* byte only; a message cut short by the child's death is awaited for ever, *)
(* because the parent itself holds the pipe's write end open.               *)
(***************************************************************************)
Get ==
    /\ parent = "get"
    /\ pipe # "partial"
    /\ Goto("emit")
    /\ outcome' = IF pipe = "full" THEN result ELSE "error"
    /\ UNCHANGED <<expired, cooperative, output, exit, childVars, event, signal,
                   interrupts>>

(***************************************************************************)
(* A KeyboardInterrupt in any other wait of run_isolated is not handled.    *)
(* At interpreter exit multiprocessing joins the child without a timeout.   *)
(***************************************************************************)
InterruptElsewhere ==
    /\ parent \in Interruptible \ {"join", "emit", "atexit"}
    /\ interrupts < MaxInterrupts
    /\ interrupts' = interrupts + 1
    /\ Goto("atexit")
    /\ UNCHANGED <<expired, cooperative, outcome, output, exit, childVars, event, signal>>

(* The interpreter ends with the KeyboardInterrupt that left run_profile. *)
Interrupted ==
    /\ Goto("exited")
    /\ outcome' = "interrupt"
    /\ exit' = 130

AtExit ==
    /\ parent = "atexit"
    /\ ~Alive
    /\ Interrupted
    /\ UNCHANGED <<expired, cooperative, output, childVars, event, signal, interrupts>>

(* A KeyboardInterrupt in that join: the interpreter ends without the child. *)
InterruptAtExit ==
    /\ parent = "atexit"
    /\ "atexit" \in Interruptible
    /\ interrupts < MaxInterrupts
    /\ interrupts' = interrupts + 1
    /\ Interrupted
    /\ UNCHANGED <<expired, cooperative, output, childVars, event, signal>>

(* Mutant of ExitCode: the code of a terminated child, 128 + SIGTERM. *)
ExitCodeOfChild(o) ==
    CASE o = "cancelled" -> 130
      [] o = "timeout" -> 143
      [] o \in {"error", "invalid"} -> 2
      [] o = "valid" -> 0

(* run_profile: the exit code for what run_isolated returned or raised. *)
ExitCode(o) ==
    CASE o = "cancelled" -> 130
      [] o = "timeout" -> 124
      [] o \in {"error", "invalid"} -> 2
      [] o = "valid" -> 0

(* Mutant of Emit: every run writes the output file. *)
EmitAlways ==
    /\ parent = "emit"
    /\ Goto("exited")
    /\ exit' = ExitCode(outcome)
    /\ output' = "sample"
    /\ UNCHANGED <<expired, cooperative, outcome, childVars, event, signal, interrupts>>

(***************************************************************************)
(* The end of run_profile.  A sample is printed and dumped, in place, to    *)
(* --output; an OSError of that is not caught and ends with exit code 1.    *)
(***************************************************************************)
Emit ==
    /\ parent = "emit"
    /\ Goto("exited")
    /\ \/ outcome \notin {"valid", "invalid"} /\ exit' = ExitCode(outcome) /\ UNCHANGED output
       \/ outcome \in {"valid", "invalid"} /\ exit' = ExitCode(outcome) /\ output' = "sample"
       \/ outcome \in {"valid", "invalid"} /\ exit' = 1 /\ output' \in {"absent", "partial"}
    /\ UNCHANGED <<expired, cooperative, outcome, childVars, event, signal, interrupts>>

(* A KeyboardInterrupt before, in or after that dump, which nothing handles. *)
InterruptEmit ==
    /\ parent = "emit"
    /\ "emit" \in Interruptible
    /\ interrupts < MaxInterrupts
    /\ interrupts' = interrupts + 1
    /\ Goto("atexit")
    /\ \/ UNCHANGED output
       \/ outcome \in {"valid", "invalid"} /\ output' \in {"partial", "sample"}
    /\ UNCHANGED <<expired, cooperative, outcome, exit, childVars, event, signal>>

-----------------------------------------------------------------------------
ChildNext ==
    \/ Start \/ Workload \/ WriteEvidence \/ ReplaceEvidence \/ FinishProfile
    \/ Put \/ Exit \/ Die \/ ChildInterrupt

ParentNext ==
    \/ Join \/ CheckAlive \/ GraceJoin \/ GraceAlive \/ HardStop \/ TermJoin
    \/ TermAlive \/ KillJoin \/ Get \/ AtExit \/ Emit

Interrupt == InterruptJoin \/ InterruptElsewhere \/ InterruptEmit \/ InterruptAtExit

Next == ChildNext \/ ParentNext \/ Interrupt

Spec == Init /\ [][Next]_vars

(* Both processes are scheduled, the parent's waits end, and SIGKILL kills; the *)
(* benchmark itself (Start, Workload) may hang.                                 *)
FairSpec ==
    /\ Spec
    /\ WF_vars(ParentNext)
    /\ WF_vars(WriteEvidence \/ ReplaceEvidence \/ FinishProfile \/ Put \/ Exit)
    /\ WF_vars(signal = "kill" /\ Die)

-----------------------------------------------------------------------------
(* Properties. *)

(***************************************************************************)
(* A sample is only emitted from a complete result of the child, never with *)
(* the exit code of a deadline or a caught interruption; exit code 0 means  *)
(* a complete file with a valid sample, and such a file means exit code 0   *)
(* unless a Ctrl-C hit the command while it wrote it.  A file cut short     *)
(* never passes for success.                                                *)
(***************************************************************************)
ExitCodeTruthful ==
    parent = "exited" =>
        /\ output # "absent" => /\ pipe = "full"
                                /\ result \in {"valid", "invalid"}
                                /\ exit \in {0, 1, 2} \/ outcome = "interrupt"
        /\ exit = 0 => output = "sample" /\ result = "valid"
        /\ output = "sample" /\ result = "valid" => exit = 0 \/ outcome = "interrupt"

(***************************************************************************)
(* The evidence file that an emitted valid sample refers to is in place:    *)
(* write_raw_output's replace came before the result was put in the queue.  *)
(***************************************************************************)
EvidenceBehindSample ==
    output = "sample" /\ result = "valid" => raw = "published"

(***************************************************************************)
(* "cooperative cleanup completed": unless somebody else signalled the      *)
(* child, neither scratch directory nor temporary evidence file is left,    *)
(* but for those whose removal itself failed, which makes an invalid sample.*)
(***************************************************************************)
CooperativeMeansClean ==
    cooperative /\ ~disturbed /\ (scratch \/ raw = "temporary") => result = "invalid"

(***************************************************************************)
(* The command does not outlive its shutdown: with a result, a deadline, a  *)
(* caught interruption and an error alike the child process is gone when it *)
(* returns.  One Ctrl-C never changes that, nor do two unless the deadline  *)
(* has passed: a child is only left behind when one interrupt has left the  *)
(* shutdown and another one the join of the interpreter's exit handler.     *)
(***************************************************************************)
NoChildLeft ==
    /\ parent = "emit" => ~Alive
    /\ parent = "exited" /\ Alive =>
          outcome = "interrupt" /\ interrupts >= (IF expired THEN 2 ELSE 3)

(* The two waits that nothing bounds: the interpreter's exit handler joins a  *)
(* living child, and the queue's reader waits for the rest of a result.        *)
WaitsAtExit == parent = "atexit" /\ Alive
WaitsForRest == parent = "get" /\ pipe = "partial"

(***************************************************************************)
(* agent/cloudeyes_agent/execution/README.md: a stuck benchmark does not    *)
(* block the command for ever.  It ends, unless an interrupt has left a     *)
(* wait of the shutdown, or the child died while it wrote a large result.   *)
(***************************************************************************)
EveryRunEnds == <>(parent = "exited" \/ WaitsAtExit \/ WaitsForRest)

(***************************************************************************)
(* After a deadline or an interruption the child exits or is terminated and *)
(* killed, unless a further interrupt reaches the shutdown itself.          *)
(***************************************************************************)
UndisturbedShutdownCompletes ==
    expired \/ interrupts > 0 ~> ~Alive \/ WaitsAtExit \/ outcome = "interrupt"

(***************************************************************************)
(* agent/cloudeyes_agent/execution/README.md: after a deadline or an        *)
(* interruption the child exits, or the parent terminates and kills it.     *)
(***************************************************************************)
ShutdownCompletes == expired \/ interrupts > 0 ~> ~Alive

(***************************************************************************)
(* docs/cooperative-cancellation.md: the command returns 124 whenever the   *)
(* deadline was exceeded, so that no late result passes for one in time.    *)
(***************************************************************************)
DeadlineMeansTimeout == parent = "exited" /\ expired => exit = 124
=============================================================================
