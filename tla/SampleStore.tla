----------------------------- MODULE SampleStore -----------------------------
(***************************************************************************)
(* A directory of JSON samples (core/cloudeyes_core/repository and          *)
(* serialization/json.py) and processes that save, delete or dump one of    *)
(* them each, at the same time.  save writes a temporary file and moves it  *)
(* into place; dump, which cloudeyes run uses, writes the file itself.      *)
(* A file is [whole, exact, sample]: whole if it was written to its end,    *)
(* exact if it has the fields of a sample and no others.  A file is named   *)
(* by a number, and the name of a saved sample is its ID.                   *)
(***************************************************************************)
EXTENDS Integers, FiniteSets

CONSTANTS Savers    \* processes that use the directory

VARIABLES
    files,      \* files of the directory *.json, by name
    scratch,    \* processes whose temporary file exists
    saver,      \* what each process does and how far it is
    faults,     \* "disk": a write may fail; "crash": a process may be killed
    raced       \* <<q, p>>: q was past its check when the save of p moved its file
                \* into place; for the properties only

storeVars == <<files, scratch, saver, faults, raced>>

WholeFile(sample) == [whole |-> TRUE, exact |-> TRUE, sample |-> sample]
Over == {"done", "error", "leaked", "crashed"}

Proceed(p, pc) == saver' = [saver EXCEPT ![p].pc = pc]
Stored(name, file) ==
    [n \in DOMAIN files \cup {name} |-> IF n = name THEN file ELSE files[n]]
At(p, kind, pc) == saver[p].kind = kind /\ saver[p].pc = pc
Name(p) == saver[p].name
Unsafe == 0     \* the name of a sample whose ID _SAFE_ID does not match

-----------------------------------------------------------------------------
(* save *)

(* Mutant of SaveCheck: overwrite is not looked at. *)
SaveUnchecked(p) ==
    /\ At(p, "save", "start")
    /\ Proceed(p, IF saver[p].sample.valid /\ Name(p) # Unsafe THEN "write" ELSE "error")
    /\ UNCHANGED <<files, scratch, faults, raced>>

SaveCheck(p) ==
    /\ At(p, "save", "start")
    /\ LET accepted == /\ saver[p].sample.valid /\ Name(p) # Unsafe
                       /\ Name(p) \in DOMAIN files => saver[p].overwrite
       IN Proceed(p, IF accepted THEN "write" ELSE "error")
    /\ UNCHANGED <<files, scratch, faults, raced>>

(* The name of the temporary file is noted only after the write: if that fails, *)
(* the finally clause has nothing to remove.                                     *)
WriteTemporary(p) ==
    /\ At(p, "save", "write")
    /\ \/ Proceed(p, "replace") /\ scratch' = scratch \cup {p}
       \/ /\ "disk" \in faults
          /\ \/ Proceed(p, "error") /\ UNCHANGED scratch
             \/ Proceed(p, "leaked") /\ scratch' = scratch \cup {p}
    /\ UNCHANGED <<files, faults, raced>>

(* Mutant of Replace: the bytes are copied over the file that is there. *)
CopyOver(p) ==
    /\ At(p, "save", "replace")
    /\ files' = Stored(Name(p),
           [WholeFile(saver[p].sample) EXCEPT !.whole = Name(p) \notin DOMAIN files])
    /\ Proceed(p, "done")
    /\ scratch' = scratch \ {p}
    /\ UNCHANGED <<faults, raced>>

(* The processes whose save has passed its check and is not over. *)
Committed == {q \in Savers : saver[q].kind = "save" /\ saver[q].pc \in {"write", "replace"}}

Replace(p) ==
    /\ At(p, "save", "replace")
    /\ \/ /\ files' = Stored(Name(p), WholeFile(saver[p].sample)) /\ Proceed(p, "done")
          /\ raced' = raced \cup (Committed \X {p})
       \/ "disk" \in faults /\ Proceed(p, "error") /\ UNCHANGED <<files, raced>>
    /\ scratch' = scratch \ {p}
    /\ UNCHANGED faults

(* delete; FileNotFoundError if another process was faster *)
DeleteCheck(p) ==
    /\ At(p, "delete", "start")
    /\ Proceed(p, IF Name(p) = Unsafe THEN "error"
                  ELSE IF Name(p) \in DOMAIN files THEN "unlink" ELSE "done")
    /\ UNCHANGED <<files, scratch, faults, raced>>

Unlink(p) ==
    /\ At(p, "delete", "unlink")
    /\ files' = [n \in DOMAIN files \ {Name(p)} |-> files[n]]
    /\ Proceed(p, IF Name(p) \in DOMAIN files THEN "done" ELSE "error")
    /\ UNCHANGED <<scratch, faults, raced>>

(* dump: write_text truncates the file and then fills it, wherever the name     *)
(* leads by then: to nothing after a delete, to another file after a save.  No   *)
(* two processes dump to the same name.                                          *)
Begun(p) == [WholeFile(saver[p].sample) EXCEPT !.whole = FALSE]

Truncate(p) ==
    /\ At(p, "dump", "start")
    /\ files' = Stored(Name(p), Begun(p))
    /\ Proceed(p, "fill")
    /\ UNCHANGED <<scratch, faults, raced>>

Fill(p) ==
    /\ At(p, "dump", "fill")
    /\ \/ /\ files' = [n \in DOMAIN files |-> IF n = Name(p) /\ files[n] = Begun(p)
                                               THEN WholeFile(saver[p].sample) ELSE files[n]]
          /\ Proceed(p, "done")
       \/ "disk" \in faults /\ Proceed(p, "error") /\ UNCHANGED files
    /\ UNCHANGED <<scratch, faults, raced>>

SaverNext(p) ==
    \/ SaveCheck(p) \/ WriteTemporary(p) \/ Replace(p)
    \/ DeleteCheck(p) \/ Unlink(p) \/ Truncate(p) \/ Fill(p)

CrashSaver(p) ==
    /\ "crash" \in faults /\ saver[p].pc \notin Over \cup {"start"}
    /\ Proceed(p, "crashed")
    /\ UNCHANGED <<files, scratch, faults, raced>>
=============================================================================
