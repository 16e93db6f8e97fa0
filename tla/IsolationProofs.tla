--------------------------- MODULE IsolationProofs ---------------------------
(***************************************************************************)
(* Proofs about Isolation, for every number of interrupts, wherever they    *)
(* arrive, and for every size of results: run_isolated and run_profile      *)
(* return without a child, with a truthful exit code, with the evidence     *)
(* behind an emitted sample, and "cooperative" means clean.                 *)
(***************************************************************************)
EXTENDS Isolation, TLAPS

-----------------------------------------------------------------------------
(* The inductive invariant. *)

(* TypeOK in two parts: flags, and the steps, files and codes. *)
Flags ==
    /\ event \in BOOLEAN /\ scratch \in BOOLEAN /\ expired \in BOOLEAN
    /\ disturbed \in BOOLEAN /\ cooperative \in BOOLEAN

Domains ==
    /\ parent \in ParentSteps /\ child \in ChildSteps /\ result \in Results
    /\ signal \in {"none", "term", "kill"} /\ pipe \in {"empty", "partial", "full"}
    /\ raw \in {"absent", "temporary", "published"}
    /\ interrupts \in 0..MaxInterrupts
    /\ outcome \in Results \cup {"timeout", "cancelled", "interrupt"}
    /\ output \in {"absent", "partial", "sample"} /\ exit \in {0, 1, 2, 124, 130, 999}

(* Nothing is emitted before the end, and a queue is only read after its writer. *)
ParentProgress ==
    /\ parent \in {"get", "emit"} => child = "dead"
    /\ parent \notin {"atexit", "exited"} => output = "absent"
    /\ parent \notin {"emit", "atexit", "exited"} => ~cooperative
    /\ parent = "emit" => outcome \in {"valid", "invalid", "error", "cancelled", "timeout"}

(***************************************************************************)
(* How many interrupts it takes to come so far with the child alive: one to *)
(* begin a shutdown before the deadline, another one to leave it, another   *)
(* one to leave the join of the exit handler.                               *)
(***************************************************************************)
InterruptsNeeded ==
    /\ parent = "alive" /\ Alive => expired
    /\ parent \in {"grace", "grace_alive", "hard_stop", "term_join", "term_alive",
                  "kill_join"} => expired \/ interrupts >= 1
    /\ parent = "atexit" /\ Alive => interrupts >= 1 /\ (expired \/ interrupts >= 2)
    /\ parent = "exited" /\ Alive =>
          outcome = "interrupt" /\ interrupts >= 2 /\ (expired \/ interrupts >= 3)

(* What is returned and emitted as a result was put into the queue by the child. *)
ResultOfChild ==
    /\ parent = "emit" /\ outcome \in {"valid", "invalid"} => pipe = "full" /\ result = outcome
    /\ output # "absent" =>
          child = "dead" /\ pipe = "full" /\ result \in {"valid", "invalid"}

(* _child_entry puts a result exactly once, at its end. *)
ResultProgress ==
    /\ child \in {"start", "workload", "evidence", "replace"} => result = "none"
    /\ child = "finish" => result \in {"none", "invalid"}
    /\ child = "put" \/ pipe # "empty" => result \in {"valid", "invalid", "error"}
    /\ child \notin {"drain", "exit", "dead"} => pipe = "empty"

(* A valid sample comes after the replacement of its evidence file. *)
EvidenceFirst ==
    /\ child = "finish" /\ result = "none" => raw = "published"
    /\ result = "valid" => raw = "published"

(* Only signals and failing removals leave something behind; "cooperative" excludes the former. *)
CleanUntilSignal ==
    /\ signal # "none" =>
          parent \in {"term_join", "term_alive", "kill_join", "emit", "atexit", "exited"}
    /\ cooperative => signal = "none" /\ child = "dead"
    /\ ~disturbed /\ signal = "none" =>
          /\ scratch => child = "workload" \/ result = "invalid"
          /\ raw = "temporary" => child = "replace" \/ result = "invalid"

Relations == /\ Domains /\ ParentProgress /\ InterruptsNeeded /\ ResultOfChild
             /\ ResultProgress /\ EvidenceFirst /\ CleanUntilSignal /\ ExitCodeTruthful
IInv == Flags /\ Relations

(* The initial state of a command satisfies the invariant. *)
LEMMA InitInvariant == Init => IInv
<1> SUFFICES ASSUME Init PROVE IInv
  OBVIOUS
<1>1. Flags
  BY Zenon DEF Init, Flags
<1>2. Domains
  BY IsolationAssumption, SMT DEF Init, Domains, IsolationAssumption, ParentSteps, ChildSteps,
     Results
<1>3. ParentProgress /\ InterruptsNeeded /\ ResultOfChild /\ ResultProgress
  BY SMT DEF Init, ParentProgress, InterruptsNeeded, ResultOfChild, ResultProgress
<1>4. EvidenceFirst /\ CleanUntilSignal /\ ExitCodeTruthful
  BY SMT DEF Init, EvidenceFirst, CleanUntilSignal, ExitCodeTruthful
<1>. QED
  BY <1>1, <1>2, <1>3, <1>4 DEF IInv, Relations

(* Every step of the child keeps the flags Boolean. *)
LEMMA ChildFlags == Flags /\ ChildNext => Flags'
<1> SUFFICES ASSUME Flags, ChildNext PROVE Flags'
  OBVIOUS
<1> USE DEF Flags, parentVars, Raise, Checkpoint
<1>1. CASE Start
  BY <1>1, Zenon DEF Start
<1>2. CASE Workload
  BY <1>2, Zenon DEF Workload
<1>3. CASE WriteEvidence
  BY <1>3, Zenon DEF WriteEvidence
<1>4. CASE ReplaceEvidence
  BY <1>4, Zenon DEF ReplaceEvidence
<1>5. CASE FinishProfile
  BY <1>5, Zenon DEF FinishProfile
<1>6. CASE Put
  BY <1>6, Zenon DEF Put
<1>7. CASE Exit
  BY <1>7, Zenon DEF Exit
<1>8. CASE Die
  BY <1>8, Zenon DEF Die
<1>9. CASE ChildInterrupt
  BY <1>9, Zenon DEF ChildInterrupt
<1>. QED
  BY <1>1, <1>2, <1>3, <1>4, <1>5, <1>6, <1>7, <1>8, <1>9 DEF ChildNext

(* So does every step of run_isolated and run_profile. *)
LEMMA ParentFlags == Flags /\ ParentNext => Flags'
<1> SUFFICES ASSUME Flags, ParentNext PROVE Flags'
  OBVIOUS
<1> USE DEF Flags, childVars, Stopped, Alive
<1>1. CASE Join
  BY <1>1, Zenon DEF Join
<1>2. CASE CheckAlive
  BY <1>2, Zenon DEF CheckAlive
<1>3. CASE GraceJoin
  BY <1>3, Zenon DEF GraceJoin
<1>4. CASE GraceAlive
  BY <1>4, Zenon DEF GraceAlive
<1>5. CASE HardStop
  BY <1>5, Zenon DEF HardStop
<1>6. CASE TermJoin
  BY <1>6, Zenon DEF TermJoin
<1>7. CASE TermAlive
  BY <1>7, Zenon DEF TermAlive
<1>8. CASE KillJoin
  BY <1>8, Zenon DEF KillJoin
<1>9. CASE Get
  BY <1>9, Zenon DEF Get
<1>10. CASE AtExit
  BY <1>10, Zenon DEF AtExit, Interrupted
<1>11. CASE Emit
  BY <1>11, Zenon DEF Emit
<1>. QED
  BY <1>1, <1>2, <1>3, <1>4, <1>5, <1>6, <1>7, <1>8, <1>9, <1>10, <1>11 DEF ParentNext

(* A step of the child keeps everything else, the signals of others included. *)
LEMMA ChildStep == IInv /\ ChildNext => Relations'
<1> SUFFICES ASSUME IInv, ChildNext PROVE Relations'
  OBVIOUS
<1> USE DEF IInv, Flags, Relations, Domains, ParentProgress, InterruptsNeeded, ResultOfChild,
        ResultProgress, EvidenceFirst, CleanUntilSignal, ExitCodeTruthful, ParentSteps, ChildSteps, Results,
        parentVars, Raise, Checkpoint, Alive
<1>1. CASE Start
  BY <1>1, SMT DEF Start
<1>2. CASE Workload
  BY <1>2, SMT DEF Workload
<1>3. CASE WriteEvidence
  BY <1>3, SMT DEF WriteEvidence
<1>4. CASE ReplaceEvidence
  BY <1>4, SMT DEF ReplaceEvidence
<1>5. CASE FinishProfile
  BY <1>5, SMT DEF FinishProfile
<1>6. CASE Put
  BY <1>6, SMT DEF Put
<1>7. CASE Exit
  BY <1>7, SMT DEF Exit
<1>8. CASE Die
  BY <1>8, SMT DEF Die
<1>9. CASE ChildInterrupt
  <2>1. disturbed'
    BY <1>9, Zenon DEF ChildInterrupt
  <2>2. \/ /\ child \in {"start", "workload", "evidence", "replace", "finish"}
           /\ child' = "put" /\ result' = "error"
        \/ /\ child \in {"start", "put", "drain", "exit"}
           /\ child' = "dead" /\ result' = result
    BY <1>9, Zenon DEF ChildInterrupt
  <2>3. /\ pipe' = pipe /\ raw' = raw /\ signal' = signal /\ interrupts' = interrupts
        /\ parent' = parent /\ output' = output /\ outcome' = outcome /\ exit' = exit
    BY <1>9, SMT DEF ChildInterrupt
  <2>4. cooperative' = cooperative /\ expired' = expired
    BY <1>9, SMT DEF ChildInterrupt
  <2>. QED
    BY <2>1, <2>2, <2>3, <2>4, SMT
<1>. QED
  BY <1>1, <1>2, <1>3, <1>4, <1>5, <1>6, <1>7, <1>8, <1>9 DEF ChildNext

(* So does a step of run_isolated and run_profile. *)
LEMMA ParentStep == IInv /\ ParentNext => Relations'
<1> SUFFICES ASSUME IInv, ParentNext PROVE Relations'
  OBVIOUS
<1> USE DEF IInv, Flags, Relations, Domains, ParentProgress, InterruptsNeeded, ResultOfChild,
        ResultProgress, EvidenceFirst, CleanUntilSignal, ExitCodeTruthful, ParentSteps,
        ChildSteps, Results, childVars, Goto, Alive, Stopped
<1>1. CASE Join
  <2>1. (expired' /\ child # "dead") \/ (~expired' /\ child = "dead")
    BY <1>1, Zenon DEF Join
  <2>2. /\ parent = "join" /\ parent' = "alive" /\ child' = child /\ pipe' = pipe
        /\ raw' = raw /\ signal' = signal /\ interrupts' = interrupts /\ result' = result
        /\ output' = output /\ outcome' = outcome /\ exit' = exit
    BY <1>1, SMT DEF Join
  <2>3. cooperative' = cooperative /\ scratch' = scratch /\ disturbed' = disturbed
    BY <1>1, SMT DEF Join
  <2>. QED
    BY <2>1, <2>2, <2>3, SMT
<1>2. CASE CheckAlive
  BY <1>2, SMT DEF CheckAlive
<1>3. CASE GraceJoin
  BY <1>3, SMT DEF GraceJoin
<1>4. CASE GraceAlive
  BY <1>4, SMT DEF GraceAlive
<1>5. CASE HardStop
  BY <1>5, SMT DEF HardStop
<1>6. CASE TermJoin
  BY <1>6, SMT DEF TermJoin
<1>7. CASE TermAlive
  BY <1>7, SMT DEF TermAlive
<1>8. CASE KillJoin
  BY <1>8, SMT DEF KillJoin
<1>9. CASE Get
  BY <1>9, SMT DEF Get
<1>10. CASE AtExit
  BY <1>10, SMT DEF AtExit, Interrupted
<1>11. CASE Emit
  BY <1>11, SMT DEF Emit, ExitCode
<1>. QED
  BY <1>1, <1>2, <1>3, <1>4, <1>5, <1>6, <1>7, <1>8, <1>9, <1>10, <1>11 DEF ParentNext

(* An interrupt in the join, in any other wait, and in the emission keeps the invariant. *)
LEMMA InterruptStep == IInv /\ Interrupt => IInv'
<1> SUFFICES ASSUME IInv, Interrupt PROVE IInv'
  OBVIOUS
<1>1. Flags'
  BY Zenon DEF IInv, Flags, Interrupt, InterruptJoin, InterruptElsewhere, InterruptEmit,
     InterruptAtExit, Interrupted, childVars
<1> USE IsolationAssumption DEF IsolationAssumption, IInv, Flags, Relations, Domains,
        ParentProgress, InterruptsNeeded, ResultOfChild, ResultProgress, EvidenceFirst,
        CleanUntilSignal, ExitCodeTruthful, ParentSteps, ChildSteps, Results, childVars,
        Goto, Alive
<1>2. CASE InterruptJoin
  BY <1>1, <1>2, SMT DEF InterruptJoin
<1>3. CASE InterruptElsewhere
  <2>1. parent \in {"grace", "term_join", "kill_join", "get"}
    BY <1>3, SMT DEF InterruptElsewhere
  <2>2. QED
    BY <1>1, <1>3, <2>1, SMT DEF InterruptElsewhere
<1>4. CASE InterruptEmit
  BY <1>1, <1>4, SMT DEF InterruptEmit
<1>5. CASE InterruptAtExit
  BY <1>1, <1>5, SMT DEF InterruptAtExit, Interrupted
<1>. QED
  BY <1>2, <1>3, <1>4, <1>5 DEF Interrupt

(* The invariant holds in every state of every run of the command. *)
THEOREM Safety == Spec => []IInv
<1>1. IInv /\ [Next]_vars => IInv'
  <2> SUFFICES ASSUME IInv, [Next]_vars PROVE IInv'
    OBVIOUS
  <2>1. CASE ChildNext
    BY <2>1, ChildStep, ChildFlags DEF IInv
  <2>2. CASE ParentNext
    BY <2>2, ParentStep, ParentFlags DEF IInv
  <2>3. CASE Interrupt
    BY <2>3, InterruptStep
  <2>4. CASE UNCHANGED vars
    BY <2>4 DEF vars, parentVars, childVars, IInv, Flags, Relations, Domains, ParentProgress,
       InterruptsNeeded, Alive, ResultOfChild, ResultProgress, EvidenceFirst, CleanUntilSignal, ExitCodeTruthful
  <2>. QED
    BY <2>1, <2>2, <2>3, <2>4 DEF Next
<1>. QED
  BY InitInvariant, <1>1, PTL DEF Spec

(* Both processes, the pipe, the files and the exit code of run_profile stay in their domains. *)
THEOREM TypeCorrect == Spec => []TypeOK
<1>1. IInv => TypeOK
  BY Zenon DEF IInv, Flags, Relations, Domains, TypeOK
<1>. QED
  BY Safety, <1>1, PTL

(* An exit code of run_profile never lies about the sample, for any number of interrupts. *)
THEOREM ExitCodes == Spec => []ExitCodeTruthful
<1>1. IInv => ExitCodeTruthful
  BY DEF IInv, Relations
<1>. QED
  BY Safety, <1>1, PTL

(* The evidence file of an emitted valid sample is in place (write_raw_output). *)
THEOREM EvidenceInPlace == Spec => []EvidenceBehindSample
<1>1. IInv => EvidenceBehindSample
  BY SMT DEF IInv, Relations, Domains, EvidenceFirst, EvidenceBehindSample
<1>. QED
  BY Safety, <1>1, PTL

(***************************************************************************)
(* run_isolated leaves no child behind, on any path and for any number of   *)
(* interrupts wherever they arrive, unless one of them ends the join of     *)
(* multiprocessing's exit handler, which takes two others before it, or one *)
(* after an expired deadline.                                               *)
(***************************************************************************)
THEOREM ChildGone == Spec => []NoChildLeft
<1>1. IInv => NoChildLeft
  BY SMT DEF IInv, Relations, Domains, ParentProgress, InterruptsNeeded, NoChildLeft, Alive
<1>. QED
  BY Safety, <1>1, PTL

(* After a cooperative stop neither scratch directory nor temporary file of a valid sample is left. *)
THEOREM CooperativeIsClean == Spec => []CooperativeMeansClean
<1>1. IInv => CooperativeMeansClean
  BY SMT DEF IInv, Relations, CleanUntilSignal, CooperativeMeansClean
<1>. QED
  BY Safety, <1>1, PTL
=============================================================================
