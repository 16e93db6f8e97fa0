--------------------------- MODULE DeliveryProofs ----------------------------
(***************************************************************************)
(* Proofs about Delivery, for any number of processes and whatever they are  *)
(* told to do: what JsonSampleRepository.save reports as saved is lost to an *)
(* order or to a race of two saves only, files are written atomically, and a *)
(* receipt of submit_bundle tells the truth whatever happened meanwhile.     *)
(***************************************************************************)
EXTENDS Delivery, BundleProofs

Fields == {"kind", "name", "sample", "overwrite", "pc"}
WellFormed == DOMAIN saver = Savers /\ \A p \in Savers : DOMAIN saver[p] = Fields

Taken(n) == \E q \in Savers : Took(q, n)
Deleted(n) == \E q \in Savers : Name(q) = n /\ At(q, "delete", "done")
Intact(p) == Name(p) \in DOMAIN files /\ files[Name(p)] = WholeFile(saver[p].sample)

Kept == \A n \in DOMAIN given.files : Original(n) \/ Taken(n)
Lasting == \A p \in Savers : At(p, "save", "done") =>
    Intact(p) \/ \E q \in Savers \ {p} : Took(q, Name(p)) \/ Overran(q, p)

(* A saved file may be replaced, but nothing except delete removes it. *)
Present == \A p \in Savers : At(p, "save", "done") =>
              Name(p) \in DOMAIN files \/ Deleted(Name(p))

(* What the check of save established still holds when the file is replaced: the   *)
(* sample that was missing had been given up, or has been saved since.             *)
Plain(q) == saver[q].kind = "save" /\ saver[q].pc \in {"write", "replace"} /\ ~saver[q].overwrite
Checked == \A q \in Savers : Plain(q) =>
    /\ Name(q) \in DOMAIN given.files => Taken(Name(q))
    /\ \A p \in Savers \ {q} : At(p, "save", "done") /\ Name(p) = Name(q) =>
          <<q, p>> \in raced \/ Deleted(Name(p))

IInv == WellFormed /\ Kept /\ Lasting /\ Present /\ Checked

(* What a process has been told does not change. *)
SameJobs == \A q \in Savers : /\ saver'[q].kind = saver[q].kind /\ saver'[q].name = saver[q].name
                              /\ saver'[q].sample = saver[q].sample
                              /\ saver'[q].overwrite = saver[q].overwrite

(* A step of a process changes its own program counter only. *)
LEMMA ProceedStep ==
    ASSUME NEW p \in Savers, WellFormed, NEW pc, Proceed(p, pc)
    PROVE  /\ WellFormed' /\ SameJobs
           /\ saver'[p].pc = pc
           /\ \A q \in Savers \ {p} : saver'[q].pc = saver[q].pc
<1>1. \A q \in Savers : saver'[q] = IF q = p THEN [saver[q] EXCEPT !.pc = pc] ELSE saver[q]
  BY DEF Proceed, WellFormed
<1>2. DOMAIN saver' = Savers
  BY DEF Proceed, WellFormed
<1>3. \A q \in Savers : DOMAIN saver'[q] = Fields
  BY <1>1 DEF WellFormed
<1>4. saver'[p].pc = pc
  BY <1>1 DEF WellFormed, Fields
<1>. QED
  BY <1>1, <1>2, <1>3, <1>4 DEF WellFormed, SameJobs, Fields

(* The steps of one process, by what they do to the directory. *)
Untouched == \A n \in DOMAIN files : n \in DOMAIN files' /\ files'[n] = files[n]
OtherFiles(p) == \A n \in DOMAIN files :
                    n # Name(p) => n \in DOMAIN files' /\ files'[n] = files[n]

(* It passes its check. *)
Passes(p) == /\ saver[p].kind = "save" /\ saver'[p].pc = "write"
             /\ Name(p) \in DOMAIN files => saver[p].overwrite
             /\ Untouched /\ raced' = raced
(* It goes on, or ends, without a change of the directory. *)
GoesOn(p) == /\ saver'[p].pc \in {"write", "replace"} => saver[p].pc \in {"write", "replace"}
             /\ saver[p].kind = "save" => saver'[p].pc # "done"
             /\ Untouched /\ raced' = raced
(* It moves its file into place. *)
Publishes(p) == /\ saver[p].kind = "save" /\ saver[p].pc = "replace" /\ saver'[p].pc = "done"
                /\ Name(p) \in DOMAIN files' /\ files'[Name(p)] = WholeFile(saver[p].sample)
                /\ OtherFiles(p) /\ raced' = raced \cup (Committed \X {p})
(* It deletes the file. *)
Deletes(p) == /\ saver[p].kind = "delete" /\ saver'[p].pc = "done"
              /\ OtherFiles(p) /\ raced' = raced
(* It dumps to the file. *)
Dumps(p) == /\ saver[p].kind = "dump" /\ saver'[p].pc \notin {"start", "write", "replace"}
            /\ OtherFiles(p) /\ raced' = raced
            /\ \A n \in DOMAIN files : n \in DOMAIN files'

LEMMA StoreStep ==
    ASSUME NEW p \in Savers, WellFormed, Store(p)
    PROVE  /\ WellFormed' /\ SameJobs /\ given' = given
           /\ \A q \in Savers \ {p} : saver'[q].pc = saver[q].pc
           /\ saver[p].pc # "done" /\ saver'[p].pc # "start"
           /\ Passes(p) \/ GoesOn(p) \/ Publishes(p) \/ Deletes(p) \/ Dumps(p)
<1>0. given' = given
  BY DEF Store
<1>1. CASE SaveCheck(p)
  <2>. DEFINE accepted == /\ saver[p].sample.valid /\ Name(p) # Unsafe
                          /\ Name(p) \in DOMAIN files => saver[p].overwrite
              pc == IF accepted THEN "write" ELSE "error"
  <2>1. /\ Proceed(p, pc) /\ files' = files /\ raced' = raced
        /\ saver[p].kind = "save" /\ saver[p].pc = "start"
    BY <1>1 DEF SaveCheck, At
  <2>2. saver'[p].pc = pc /\ WellFormed' /\ SameJobs
        /\ \A q \in Savers \ {p} : saver'[q].pc = saver[q].pc
    BY <2>1, ProceedStep
  <2>3. CASE accepted
    BY <1>0, <2>1, <2>2, <2>3 DEF Passes, Untouched
  <2>4. CASE ~accepted
    BY <1>0, <2>1, <2>2, <2>4 DEF GoesOn, Untouched
  <2>. QED
    BY <2>3, <2>4
<1>2. CASE WriteTemporary(p)
  <2>1. PICK pc \in {"replace", "error", "leaked"} : Proceed(p, pc)
    BY <1>2 DEF WriteTemporary
  <2>2. saver[p].pc = "write" /\ files' = files /\ raced' = raced
    BY <1>2 DEF WriteTemporary, At
  <2>3. GoesOn(p)
    BY <2>1, <2>2, ProceedStep DEF GoesOn, Untouched
  <2>. QED
    BY <1>0, <2>1, <2>2, <2>3, ProceedStep
<1>3. CASE Replace(p)
  <2>1. saver[p].kind = "save" /\ saver[p].pc = "replace"
    BY <1>3 DEF Replace, At
  <2>2. CASE /\ files' = Stored(Name(p), WholeFile(saver[p].sample)) /\ Proceed(p, "done")
             /\ raced' = raced \cup (Committed \X {p})
    <3>1. /\ Name(p) \in DOMAIN files' /\ files'[Name(p)] = WholeFile(saver[p].sample)
          /\ OtherFiles(p)
      BY <2>2, SMT DEF Stored, OtherFiles
    <3>2. Publishes(p)
      BY <2>1, <2>2, <3>1, ProceedStep DEF Publishes
    <3>. QED
      BY <1>0, <2>1, <2>2, <3>2, ProceedStep
  <2>3. CASE Proceed(p, "error") /\ files' = files /\ raced' = raced
    <3>1. GoesOn(p)
      BY <2>1, <2>3, ProceedStep DEF GoesOn, Untouched
    <3>. QED
      BY <1>0, <2>1, <2>3, <3>1, ProceedStep
  <2>. QED
    BY <1>3, <2>2, <2>3 DEF Replace
<1>4. CASE DeleteCheck(p)
  <2>1. PICK pc \in {"error", "unlink", "done"} : Proceed(p, pc)
    BY <1>4 DEF DeleteCheck
  <2>2. /\ saver[p].kind = "delete" /\ saver[p].pc = "start"
        /\ files' = files /\ raced' = raced
    BY <1>4 DEF DeleteCheck, At
  <2>3. GoesOn(p)
    BY <2>1, <2>2, ProceedStep DEF GoesOn, Untouched
  <2>. QED
    BY <1>0, <2>1, <2>2, <2>3, ProceedStep
<1>5. CASE Unlink(p)
  <2>1. /\ saver[p].kind = "delete" /\ saver[p].pc = "unlink" /\ raced' = raced
        /\ files' = [n \in DOMAIN files \ {Name(p)} |-> files[n]]
        /\ Proceed(p, IF Name(p) \in DOMAIN files THEN "done" ELSE "error")
    BY <1>5 DEF Unlink, At
  <2>2. OtherFiles(p)
    BY <2>1 DEF OtherFiles
  <2>3. CASE Name(p) \in DOMAIN files
    <3>1. Proceed(p, "done")
      BY <2>1, <2>3
    <3>2. Deletes(p)
      BY <2>1, <2>2, <3>1, ProceedStep DEF Deletes
    <3>. QED
      BY <1>0, <2>1, <3>1, <3>2, ProceedStep
  <2>4. CASE Name(p) \notin DOMAIN files
    <3>1. Proceed(p, "error") /\ Untouched
      BY <2>1, <2>4 DEF Untouched
    <3>2. GoesOn(p)
      BY <2>1, <3>1, ProceedStep DEF GoesOn
    <3>. QED
      BY <1>0, <2>1, <3>1, <3>2, ProceedStep
  <2>. QED
    BY <2>3, <2>4
<1>6. CASE Truncate(p)
  <2>1. /\ saver[p].kind = "dump" /\ saver[p].pc = "start" /\ raced' = raced
        /\ files' = Stored(Name(p), Begun(p)) /\ Proceed(p, "fill")
    BY <1>6 DEF Truncate, At
  <2>2. OtherFiles(p) /\ \A n \in DOMAIN files : n \in DOMAIN files'
    BY <2>1, SMT DEF Stored, OtherFiles
  <2>3. Dumps(p)
    BY <2>1, <2>2, ProceedStep DEF Dumps
  <2>. QED
    BY <1>0, <2>1, <2>3, ProceedStep
<1>7. CASE Fill(p)
  <2>1. PICK pc \in {"done", "error"} : Proceed(p, pc)
    BY <1>7 DEF Fill
  <2>2. saver[p].kind = "dump" /\ saver[p].pc = "fill" /\ raced' = raced
    BY <1>7 DEF Fill, At
  <2>3. \/ files' = files
        \/ files' = [n \in DOMAIN files |-> IF n = Name(p) /\ files[n] = Begun(p)
                                            THEN WholeFile(saver[p].sample) ELSE files[n]]
    BY <1>7 DEF Fill
  <2>4. OtherFiles(p) /\ \A n \in DOMAIN files : n \in DOMAIN files'
    BY <2>3 DEF OtherFiles
  <2>5. Dumps(p)
    BY <2>1, <2>2, <2>4, ProceedStep DEF Dumps
  <2>. QED
    BY <1>0, <2>1, <2>2, <2>5, ProceedStep
<1>8. CASE CrashSaver(p)
  <2>1. /\ Proceed(p, "crashed") /\ files' = files /\ raced' = raced
        /\ saver[p].pc # "done"
    BY <1>8 DEF CrashSaver, Over
  <2>2. GoesOn(p)
    BY <2>1, ProceedStep DEF GoesOn, Untouched
  <2>. QED
    BY <1>0, <2>1, <2>2, ProceedStep
<1>. QED
  BY <1>1, <1>2, <1>3, <1>4, <1>5, <1>6, <1>7, <1>8 DEF Store, SaverNext

(* What a process took it took for good; what is taken stays taken. *)
LEMMA StepFacts ==
    ASSUME NEW p \in Savers, WellFormed, SameJobs,
           \A q \in Savers \ {p} : saver'[q].pc = saver[q].pc,
           saver[p].pc # "done", saver'[p].pc # "start"
    PROVE  /\ \A q \in Savers : Name(q)' = Name(q)
           /\ \A q \in Savers : \A kind : At(q, kind, "done") => At(q, kind, "done")'
           /\ \A q \in Savers \ {p} : \A kind : At(q, kind, "done")' => At(q, kind, "done")
           /\ \A q \in Savers : \A n : Took(q, n) => Took(q, n)'
           /\ \A n : Taken(n) => Taken(n)'
           /\ \A n : Deleted(n) => Deleted(n)'
           /\ \A q \in Savers \ {p} : Plain(q)' => Plain(q)
           /\ \A q, r \in Savers : (raced \subseteq raced') /\ Overran(q, r) => Overran(q, r)'
<1>1. \A q \in Savers : Name(q)' = Name(q)
  BY DEF SameJobs, Name
<1>2. \A q \in Savers : \A kind : At(q, kind, "done") => At(q, kind, "done")'
  BY DEF SameJobs, At
<1>3. \A q \in Savers \ {p} : \A kind : At(q, kind, "done")' => At(q, kind, "done")
  BY DEF SameJobs, At
<1>4. \A q \in Savers : saver[q].pc # "start" => saver'[q].pc # "start"
  OBVIOUS
<1>5. \A q \in Savers : \A n : Took(q, n) => Took(q, n)'
  BY <1>1, <1>2, <1>4 DEF Took, SameJobs
<1>6. \A n : Taken(n) => Taken(n)'
  BY <1>5 DEF Taken
<1>7. \A n : Deleted(n) => Deleted(n)'
  BY <1>1, <1>2 DEF Deleted
<1>8. \A q \in Savers \ {p} : Plain(q)' => Plain(q)
  BY DEF Plain, SameJobs
<1>9. \A q, r \in Savers : (raced \subseteq raced') /\ Overran(q, r) => Overran(q, r)'
  BY <1>1, <1>2 DEF Overran
<1>. QED
  BY <1>1, <1>2, <1>3, <1>5, <1>6, <1>7, <1>8, <1>9

(* The invariant survives a step of any process that uses the directory. *)
LEMMA StorePreserves ==
    ASSUME NEW p \in Savers, IInv, Store(p)
    PROVE  IInv'
<1>0. WellFormed /\ Kept /\ Lasting /\ Present /\ Checked
  BY DEF IInv
<1>1. /\ WellFormed' /\ SameJobs /\ given' = given
      /\ \A q \in Savers \ {p} : saver'[q].pc = saver[q].pc
      /\ saver[p].pc # "done" /\ saver'[p].pc # "start"
      /\ Passes(p) \/ GoesOn(p) \/ Publishes(p) \/ Deletes(p) \/ Dumps(p)
  BY <1>0, StoreStep
<1>2. /\ \A q \in Savers : Name(q)' = Name(q)
      /\ \A q \in Savers : \A kind : At(q, kind, "done") => At(q, kind, "done")'
      /\ \A q \in Savers \ {p} : \A kind : At(q, kind, "done")' => At(q, kind, "done")
      /\ \A q \in Savers : \A n : Took(q, n) => Took(q, n)'
      /\ \A n : Taken(n) => Taken(n)'
      /\ \A n : Deleted(n) => Deleted(n)'
      /\ \A q \in Savers \ {p} : Plain(q)' => Plain(q)
  BY <1>0, <1>1, StepFacts
<1>3. raced \subseteq raced'
  BY <1>1 DEF Passes, GoesOn, Publishes, Deletes, Dumps
<1>4. \A q, r \in Savers : Overran(q, r) => Overran(q, r)'
  BY <1>0, <1>1, <1>3, StepFacts
<1>5. OtherFiles(p)
  BY <1>1 DEF Passes, GoesOn, Publishes, Deletes, Dumps, Untouched, OtherFiles
(* Who changes the file of p, and what that makes p. *)
<1>6. \/ Untouched
      \/ Took(p, Name(p))'
      \/ Publishes(p) /\ Plain(p)
  <2>1. Deletes(p) \/ Dumps(p) => Took(p, Name(p))'
    BY <1>1, <1>2 DEF Deletes, Dumps, Took, At, SameJobs
  <2>2. Publishes(p) /\ ~Plain(p) => Took(p, Name(p))'
    <3> SUFFICES ASSUME Publishes(p), ~Plain(p) PROVE Took(p, Name(p))'
      OBVIOUS
    <3>1. saver[p].overwrite
      BY DEF Publishes, Plain
    <3>2. saver'[p].overwrite
      BY <1>1, <3>1 DEF SameJobs
    <3>3. saver'[p].kind = "save" /\ saver'[p].pc = "done"
      BY <1>1 DEF Publishes, SameJobs
    <3>. QED
      BY <3>2, <3>3 DEF Took, At
  <2>. QED
    BY <1>1, <2>1, <2>2 DEF Passes, GoesOn
(* A save that has just passed its check without overwrite found no file. *)
<1>7. Plain(p)' => Plain(p) \/ (Passes(p) /\ Name(p) \notin DOMAIN files)
  <2> SUFFICES ASSUME Plain(p)', ~Plain(p)
               PROVE  Passes(p) /\ Name(p) \notin DOMAIN files
    OBVIOUS
  <2>1. saver[p].kind = "save" /\ ~saver[p].overwrite /\ saver'[p].pc \in {"write", "replace"}
    BY <1>1 DEF Plain, SameJobs
  <2>2. saver[p].pc \notin {"write", "replace"}
    BY <2>1 DEF Plain
  <2>3. Passes(p)
    BY <1>1, <2>1, <2>2 DEF GoesOn, Publishes, Deletes, Dumps
  <2>. QED
    BY <2>1, <2>3 DEF Passes
<1>8. Kept'
  <2> SUFFICES ASSUME NEW n \in DOMAIN given.files, ~Taken(n)'
               PROVE  Original(n)'
    BY <1>1 DEF Kept
  <2>1. ~Taken(n) /\ Original(n)
    BY <1>0, <1>2 DEF Kept
  <2>2. n = Name(p) => Untouched
    <3>1. n = Name(p) => ~Took(p, Name(p))'
      BY <1>2 DEF Taken
    <3>2. n = Name(p) => ~Plain(p)
      BY <1>0, <2>1 DEF Checked
    <3>. QED
      BY <1>6, <3>1, <3>2
  <2>. QED
    BY <1>1, <1>5, <2>1, <2>2 DEF Original, Untouched, OtherFiles
<1>9. Lasting'
  <2> SUFFICES ASSUME NEW q \in Savers, At(q, "save", "done")'
               PROVE  Intact(q)' \/ \E r \in Savers \ {q} : Took(r, Name(q))' \/ Overran(r, q)'
    BY <1>2 DEF Lasting
  <2>1. CASE q = p
    <3>1. Publishes(p)
      BY <1>1, <2>1 DEF At, SameJobs, Passes, GoesOn, Deletes, Dumps
    <3>. QED
      BY <1>1, <1>2, <2>1, <3>1 DEF Publishes, Intact, SameJobs, WholeFile
  <2>2. CASE q # p
    <3>1. At(q, "save", "done")
      BY <1>2, <2>2
    <3>2. CASE \E r \in Savers \ {q} : Took(r, Name(q)) \/ Overran(r, q)
      BY <1>2, <1>4, <3>2
    <3>3. CASE Intact(q)
      <4>1. CASE Untouched \/ Name(q) # Name(p)
        BY <1>1, <1>2, <1>5, <3>3, <4>1 DEF Intact, Untouched, OtherFiles, SameJobs, WholeFile
      <4>2. CASE Name(q) = Name(p) /\ Took(p, Name(p))'
        BY <1>2, <2>2, <4>2
      <4>3. CASE Name(q) = Name(p) /\ Publishes(p) /\ Plain(p)
        <5>1. <<p, q>> \in raced \/ Deleted(Name(q))
          BY <1>0, <2>2, <3>1, <4>3 DEF Checked
        <5>2. CASE <<p, q>> \in raced
          <6>1. At(p, "save", "done")'
            BY <1>1, <4>3 DEF Publishes, At, SameJobs
          <6>2. Overran(p, q)'
            BY <1>2, <1>3, <4>3, <5>2, <6>1 DEF Overran
          <6>. QED
            BY <2>2, <6>2
        <5>3. CASE Deleted(Name(q))
          <6>1. PICK r \in Savers : Name(r) = Name(q) /\ At(r, "delete", "done")
            BY <5>3 DEF Deleted
          <6>2. r # q /\ Took(r, Name(q))
            BY <3>1, <6>1 DEF At, Took
          <6>. QED
            BY <1>2, <6>2
        <5>. QED
          BY <5>1, <5>2, <5>3
      <4>. QED
        BY <1>6, <4>1, <4>2, <4>3
    <3>. QED
      BY <1>0, <3>1, <3>2, <3>3 DEF Lasting
  <2>. QED
    BY <2>1, <2>2
<1>10. Present'
  <2> SUFFICES ASSUME NEW q \in Savers, At(q, "save", "done")'
               PROVE  Name(q) \in DOMAIN files' \/ Deleted(Name(q))'
    BY <1>2 DEF Present
  <2>1. CASE q = p
    <3>1. Publishes(p)
      BY <1>1, <2>1 DEF At, SameJobs, Passes, GoesOn, Deletes, Dumps
    <3>. QED
      BY <2>1, <3>1 DEF Publishes
  <2>2. CASE q # p
    <3>1. Name(q) \in DOMAIN files \/ Deleted(Name(q))
      BY <1>0, <1>2, <2>2 DEF Present
    <3>2. CASE Deleted(Name(q))
      BY <1>2, <3>2
    <3>3. CASE Name(q) \in DOMAIN files /\ (Name(q) # Name(p) \/ ~Deletes(p))
      BY <1>1, <1>5, <3>3 DEF OtherFiles, Untouched, Passes, GoesOn, Publishes, Dumps
    <3>4. CASE Name(q) = Name(p) /\ Deletes(p)
      <4>1. At(p, "delete", "done")'
        BY <1>1, <3>4 DEF Deletes, At, SameJobs
      <4>. QED
        BY <1>2, <3>4, <4>1 DEF Deleted
    <3>. QED
      BY <3>1, <3>2, <3>3, <3>4
  <2>. QED
    BY <2>1, <2>2
<1>11. Checked'
  <2> SUFFICES ASSUME NEW q \in Savers, Plain(q)'
               PROVE  /\ Name(q) \in DOMAIN given.files => Taken(Name(q))'
                      /\ \A r \in Savers \ {q} : At(r, "save", "done")' /\ Name(r) = Name(q) =>
                            <<q, r>> \in raced' \/ Deleted(Name(r))'
    BY <1>1, <1>2 DEF Checked
  <2>1. Plain(q) \/ (q = p /\ Name(q) \notin DOMAIN files)
    BY <1>2, <1>7
  <2>2. Name(q) \in DOMAIN given.files => Taken(Name(q))
    BY <1>0, <2>1 DEF Checked, Kept, Original
  <2>3. ASSUME NEW r \in Savers \ {q}, At(r, "save", "done")', Name(r) = Name(q)
        PROVE  <<q, r>> \in raced' \/ Deleted(Name(r))'
    <3>1. CASE r = p
      <4>1. Publishes(p)
        BY <1>1, <2>3, <3>1 DEF At, SameJobs, Passes, GoesOn, Deletes, Dumps
      <4>2. q \in Committed
        BY <2>1, <2>3, <3>1 DEF Committed, Plain
      <4>3. <<q, r>> \in Committed \X {p}
        BY <3>1, <4>2
      <4>4. raced' = raced \cup (Committed \X {p})
        BY <4>1 DEF Publishes
      <4>. QED
        BY <4>3, <4>4
    <3>2. CASE r # p
      <4>1. At(r, "save", "done")
        BY <1>2, <2>3, <3>2
      <4>2. <<q, r>> \in raced \/ Deleted(Name(r))
        BY <1>0, <2>1, <2>3, <4>1 DEF Checked, Present
      <4>. QED
        BY <1>2, <1>3, <4>2
    <3>. QED
      BY <3>1, <3>2
  <2>. QED
    BY <1>2, <2>2, <2>3
<1>. QED
  BY <1>1, <1>8, <1>9, <1>10, <1>11 DEF IInv

(* No other part of the system touches the directory. *)
LEMMA OthersLeaveStore ==
    ASSUME Next, ~\E p \in Savers : Store(p)
    PROVE  UNCHANGED <<files, saver, raced, given>>
<1>1. CASE StartBuild \/ BuildNext \/ CrashBuilder
  BY <1>1 DEF StartBuild, BuildNext, LoadSample, WriteBundle, PublishBundle, CrashBuilder,
     StoreUnchanged
<1>2. CASE StartSubmit \/ SubmitNext \/ CrashClient
  BY <1>2 DEF StartSubmit, SubmitNext, ReadForDigest, VerifyFile, ReadBody, Post, Receive,
     TimeOut, WriteReceipt, PublishReceipt, CrashClient, BuildUnchanged, StoreUnchanged
<1>3. CASE \E r \in requests : Lookup(r) \/ Intercept(r)
  BY <1>3 DEF Lookup, Intercept, BuildUnchanged, StoreUnchanged
<1>4. CASE \E r \in serving : Persist(r)
  BY <1>4 DEF Persist, BuildUnchanged, StoreUnchanged
<1>5. CASE Terminated
  BY <1>5 DEF Terminated, vars, storeVars
<1>. QED
  BY <1>1, <1>2, <1>3, <1>4, <1>5 DEF Next

(* The invariant holds in every reachable state. *)
THEOREM StoreSafety == Spec => []IInv
<1>1. Init => IInv
  <2> SUFFICES ASSUME Init PROVE IInv
    OBVIOUS
  <2>1. given \in Scenarios /\ files = given.files /\ saver = given.savers
    BY DEF Init
  <2>2. /\ DOMAIN saver = Savers
        /\ \A p \in Savers : /\ DOMAIN saver[p] = Fields
                             /\ saver[p].kind = "save" => saver[p].pc = "start"
    BY <2>1, ScenariosAssumption DEF ScenariosAssumption, Fields
  <2>. QED
    BY <2>1, <2>2 DEF IInv, WellFormed, Kept, Original, Lasting, Present, Checked, Plain, At
<1>2. IInv /\ [Next]_vars => IInv'
  <2> SUFFICES ASSUME IInv, [Next]_vars PROVE IInv'
    OBVIOUS
  <2>1. CASE \E p \in Savers : Store(p)
    BY <2>1, StorePreserves
  <2>2. CASE UNCHANGED <<files, saver, raced, given>>
    BY <2>2 DEF IInv, WellFormed, Kept, Original, Taken, Took, Name, Lasting, Intact, Overran,
       Present, Deleted, Checked, Plain, At
  <2>3. UNCHANGED vars => UNCHANGED <<files, saver, raced, given>>
    BY DEF vars, storeVars
  <2>. QED
    BY <2>1, <2>2, <2>3, OthersLeaveStore
<1>. QED
  BY <1>1, <1>2, PTL DEF Spec

(* What save has reported as saved is in its file, and what was there before too,   *)
(* unless a process succeeded that was told to overwrite, dump or delete, or another *)
(* save of that ID had passed its check already (JsonSampleRepository.save), for any *)
(* number of processes on one directory.                                             *)
THEOREM SavedSamplesLast == Spec => []SavesLast
<1>1. IInv => SavesLast
  BY DEF IInv, Kept, Taken, Lasting, Intact, SavesLast
<1>. QED
  BY StoreSafety, <1>1, PTL

-----------------------------------------------------------------------------
(* Types. *)

BuilderFields == {"pc", "todo", "loaded", "exit", "runs"}
ClientFields == {"pc", "sha", "id", "body", "status", "exit", "runs"}
AtMostOne(s) == s = <<>> \/ s = <<Head(s)>>
SaverSteps == Over \cup {"start", "write", "replace", "unlink", "fill"}

TypedStore ==
    /\ \A p \in Savers : saver[p].pc \in SaverSteps
    /\ scratch \subseteq Savers \cup {"builder", "client"}

TypedBuilder ==
    /\ DOMAIN builder = BuilderFields
    /\ builder.pc \in {"idle", "load", "replace"}
    /\ builder.exit \in {-1, 0, 6, 8} /\ builder.runs \in Nat
    /\ AtMostOne(output)

TypedClient ==
    /\ DOMAIN client = ClientFields
    /\ client.pc \in {"idle", "hash", "verify", "read", "post", "wait", "answered", "receipt"}
    /\ client.exit \in {-1, 0, 1, 6, 8} /\ client.runs \in Nat
    /\ client.pc # "idle" => client.runs > 0
    /\ AtMostOne(receipt) /\ AtMostOne(client.sha) /\ AtMostOne(client.body)
    /\ client.pc \in {"verify", "read"} => output # <<>> /\ client.sha # <<>>
    /\ client.pc \in {"post", "wait", "answered", "receipt"} =>
          client.sha # <<>> /\ client.body # <<>>
    /\ client.exit = 0 => given.dry \/ client.sha # <<>>

TypedNet ==
    /\ \A m \in requests \cup serving \cup answers : m.run \in 1..client.runs

Typed == WellFormed /\ TypedStore /\ TypedBuilder /\ TypedClient /\ TypedNet

LEMMA TypedImpliesTypeOK == Typed => TypeOK
<1> SUFFICES ASSUME Typed PROVE TypeOK
  OBVIOUS
<1>1. \A s : AtMostOne(s) => Len(s) <= 1 /\ (s # <<>> => Len(s) = 1)
  BY DEF AtMostOne
<1>. QED
  BY <1>1 DEF Typed, TypedStore, TypedBuilder, TypedClient, TypedNet, TypeOK, SaverSteps

LEMMA EndBuildStep ==
    ASSUME TypedBuilder, NEW exit, EndBuild(exit)
    PROVE  /\ DOMAIN builder' = BuilderFields
           /\ builder'.pc = "idle" /\ builder'.todo = {} /\ builder'.loaded = {}
           /\ builder'.exit = exit /\ builder'.runs = builder.runs
BY DEF TypedBuilder, EndBuild, BuilderFields

LEMMA EndSubmitStep ==
    ASSUME TypedClient, NEW exit, EndSubmit(exit)
    PROVE  /\ DOMAIN client' = ClientFields
           /\ client'.pc = "idle" /\ client'.exit = exit
           /\ client'.sha = client.sha /\ client'.id = client.id
           /\ client'.body = client.body /\ client'.status = client.status
           /\ client'.runs = client.runs
BY DEF TypedClient, EndSubmit, ClientFields

LEMMA GoStep ==
    ASSUME TypedClient, NEW pc, Go(pc)
    PROVE  /\ DOMAIN client' = ClientFields
           /\ client'.pc = pc /\ client'.exit = client.exit
           /\ client'.sha = client.sha /\ client'.id = client.id
           /\ client'.body = client.body /\ client'.status = client.status
           /\ client'.runs = client.runs
BY DEF TypedClient, Go, ClientFields

-----------------------------------------------------------------------------
(* What a step of each part does to the state of that part and of the others. *)

LEMMA BuildStep ==
    ASSUME TypedBuilder, StartBuild \/ BuildNext \/ CrashBuilder
    PROVE  /\ StoreUnchanged /\ UNCHANGED <<submitVars, serviceVars>>
           /\ DOMAIN builder' = BuilderFields
           /\ builder'.pc \in {"idle", "load", "replace"} /\ builder'.exit \in {-1, 0, 6, 8}
           /\ \/ builder'.runs = builder.runs /\ builder.pc # "idle"
              \/ builder'.runs = builder.runs + 1 /\ builder.pc = "idle"
           /\ \/ UNCHANGED <<output, built>>
              \/ /\ builder.pc = "replace" /\ builder'.pc = "idle"
                 /\ output' = <<NewBundle>> /\ built' = built \cup {NewBundle}
           /\ scratch' \ {"builder"} = scratch \ {"builder"}
           /\ "crash" \in faults \/ ("builder" \in scratch => builder.pc = "replace") =>
                 "crash" \in faults \/ ("builder" \in scratch' => builder'.pc = "replace")
<1>1. CASE StartBuild
  <2>1. PICK names : LET accepted == names \subseteq DOMAIN files
                                     /\ Cardinality(names) \in 1..MaxSamples
                     IN builder' = [builder EXCEPT
                          !.runs = @ + 1, !.exit = IF accepted THEN -1 ELSE 6,
                          !.pc = IF accepted THEN "load" ELSE "idle",
                          !.todo = IF accepted THEN names ELSE {}]
    BY <1>1 DEF StartBuild
  <2>2. /\ DOMAIN builder' = BuilderFields
        /\ builder'.pc \in {"load", "idle"} /\ builder'.exit \in {-1, 6}
        /\ builder'.runs = builder.runs + 1
    BY <2>1 DEF TypedBuilder, BuilderFields
  <2>. QED
    BY <1>1, <2>2 DEF StartBuild
<1>2. CASE LoadSample
  <2>1. CASE EndBuild(6)
    BY <1>2, <2>1, EndBuildStep DEF LoadSample
  <2>2. CASE ~EndBuild(6)
    <3>1. PICK name \in builder.todo :
             builder' = [builder EXCEPT !.todo = @ \ {name},
                                        !.loaded = @ \cup {files[name].sample}]
      BY <1>2, <2>2 DEF LoadSample
    <3>2. /\ DOMAIN builder' = BuilderFields /\ builder'.pc = builder.pc
          /\ builder'.exit = builder.exit /\ builder'.runs = builder.runs
      BY <3>1 DEF TypedBuilder, BuilderFields
    <3>. QED
      BY <1>2, <3>2 DEF LoadSample, TypedBuilder
  <2>. QED
    BY <2>1, <2>2
<1>3. CASE WriteBundle
  <2>1. CASE EndBuild(6) /\ UNCHANGED scratch
    BY <1>3, <2>1, EndBuildStep DEF WriteBundle
  <2>2. CASE builder' = [builder EXCEPT !.pc = "replace"] /\ scratch' = scratch \cup {"builder"}
    <3>1. /\ DOMAIN builder' = BuilderFields /\ builder'.pc = "replace"
          /\ builder'.exit = builder.exit /\ builder'.runs = builder.runs
      BY <2>2 DEF TypedBuilder, BuilderFields
    <3>. QED
      BY <1>3, <2>2, <3>1 DEF WriteBundle, TypedBuilder
  <2>. QED
    BY <1>3, <2>1, <2>2 DEF WriteBundle
<1>4. CASE PublishBundle
  <2>1. PICK exit \in {0, 6} : EndBuild(exit)
    BY <1>4 DEF PublishBundle
  <2>. QED
    BY <1>4, <2>1, EndBuildStep DEF PublishBundle
<1>5. CASE CrashBuilder
  BY <1>5, EndBuildStep DEF CrashBuilder
<1>. QED
  BY <1>1, <1>2, <1>3, <1>4, <1>5 DEF BuildNext

(* The steps of a submission, by what they do to the client and its messages. *)
SameReads == UNCHANGED <<client.sha, client.id, client.body, client.runs>>
SameMessages == UNCHANGED <<receipt, requests, answers>>

Starts == /\ client.pc = "idle" /\ client'.pc \in {"idle", "hash"} /\ client'.exit \in {-1, 8}
          /\ client'.sha = <<>> /\ client'.body = <<>> /\ client'.runs = client.runs + 1
          /\ SameMessages
GivesUp == /\ client.pc # "idle" /\ client'.pc = "idle" /\ client'.exit \in {-1, 1, 8}
           /\ SameReads /\ UNCHANGED <<receipt, requests>> /\ answers' \subseteq answers
TakesDigest == /\ client.pc = "hash" /\ client'.pc = "verify" /\ output # <<>>
               /\ client'.sha = output /\ client'.exit = client.exit
               /\ UNCHANGED <<client.body, client.runs>> /\ SameMessages
EndsDryRun == /\ client.pc = "verify" /\ client'.pc = "idle" /\ client'.exit = 0 /\ given.dry
              /\ SameReads /\ SameMessages
TakesId == /\ client.pc = "verify" /\ client'.pc = "read" /\ ~given.dry
           /\ Verifies(Head(output)) /\ client'.id = Head(output).manifest.id
           /\ UNCHANGED <<client.sha, client.body, client.runs, client.exit>> /\ SameMessages
TakesBody == /\ client.pc = "read" /\ client'.pc = "post" /\ client'.body = output
             /\ UNCHANGED <<client.sha, client.id, client.runs, client.exit>> /\ SameMessages
Posts == /\ client.pc = "post" /\ client'.pc = "wait" /\ SameReads
         /\ UNCHANGED <<client.exit, receipt, answers>>
         /\ requests' = requests \cup {[run |-> client.runs, sha |-> client.sha,
                                        id |-> client.id, body |-> client.body]}
Hears == /\ client.pc = "wait" /\ client'.pc = "answered" /\ SameReads
         /\ UNCHANGED <<client.exit, receipt, requests>>
         /\ \E a \in answers : /\ a.run = client.runs /\ client'.status = a.status
                               /\ answers' = answers \ {a}
StartsReceipt == /\ client.pc = "answered" /\ client'.pc = "receipt" /\ SameReads
                 /\ UNCHANGED <<client.exit, client.status>> /\ SameMessages
Reports == /\ client.pc \in {"answered", "receipt"} /\ client'.pc = "idle" /\ SameReads
           /\ client'.exit = 8 \/ (client'.exit = 0 /\ Accepted(client.status))
           /\ UNCHANGED <<requests, answers>>
           /\ receipt' = receipt \/ (receipt' = <<NewReceipt>> /\ client.pc = "receipt")

LEMMA SubmitStep ==
    ASSUME TypedClient, StartSubmit \/ SubmitNext \/ CrashClient
    PROVE  /\ BuildUnchanged /\ UNCHANGED serviceVars /\ DOMAIN client' = ClientFields
           /\ \/ Starts \/ GivesUp \/ TakesDigest \/ EndsDryRun \/ TakesId \/ TakesBody
              \/ Posts \/ Hears \/ StartsReceipt \/ Reports
           /\ scratch' \ {"client"} = scratch \ {"client"}
           /\ "crash" \in faults \/ ("client" \in scratch => client.pc = "receipt") =>
                 "crash" \in faults \/ ("client" \in scratch' => client'.pc = "receipt")
<1>1. CASE StartSubmit
  <2>1. PICK accepted \in BOOLEAN : client' =
             [NoClient EXCEPT !.runs = client.runs + 1,
                 !.pc = IF accepted THEN "hash" ELSE "idle", !.exit = IF accepted THEN -1 ELSE 8]
    BY <1>1 DEF StartSubmit
  <2>2. /\ DOMAIN client' = ClientFields /\ client'.pc \in {"hash", "idle"}
        /\ client'.exit \in {-1, 8} /\ client'.sha = <<>> /\ client'.body = <<>>
        /\ client'.runs = client.runs + 1
    BY <2>1 DEF NoClient, ClientFields
  <2>3. Starts
    BY <1>1, <2>2 DEF StartSubmit, Starts, SameMessages
  <2>. QED
    BY <1>1, <2>2, <2>3 DEF StartSubmit
<1>2. ASSUME NEW exit \in {-1, 1, 8}, EndSubmit(exit), client.pc # "idle", UNCHANGED serviceVars,
             BuildUnchanged, UNCHANGED <<receipt, requests>>, answers' \subseteq answers,
             scratch' \ {"client"} = scratch \ {"client"},
             "crash" \in faults \/ scratch' = scratch \ {"client"} \/ client.pc # "receipt",
             "client" \in scratch' => "client" \in scratch
      PROVE  /\ DOMAIN client' = ClientFields /\ GivesUp
             /\ "crash" \in faults \/ ("client" \in scratch => client.pc = "receipt") =>
                   "crash" \in faults \/ ("client" \in scratch' => client'.pc = "receipt")
  <2>1. /\ DOMAIN client' = ClientFields /\ client'.pc = "idle" /\ client'.exit = exit
        /\ SameReads
    BY <1>2, EndSubmitStep DEF SameReads
  <2>2. GivesUp
    BY <1>2, <2>1 DEF GivesUp
  <2>. QED
    BY <1>2, <2>1, <2>2
<1>3. CASE ReadForDigest
  <2>1. CASE EndSubmit(8)
    BY <1>2, <1>3, <2>1 DEF ReadForDigest
  <2>2. CASE output # <<>> /\ client' = [client EXCEPT !.pc = "verify", !.sha = output]
    <3>1. /\ DOMAIN client' = ClientFields /\ client'.pc = "verify" /\ client'.sha = output
          /\ client'.exit = client.exit /\ UNCHANGED <<client.body, client.runs>>
      BY <2>2 DEF TypedClient, ClientFields
    <3>2. TakesDigest
      BY <1>3, <2>2, <3>1 DEF ReadForDigest, TakesDigest, SameMessages
    <3>. QED
      BY <1>3, <3>1, <3>2 DEF ReadForDigest
  <2>. QED
    BY <1>3, <2>1, <2>2 DEF ReadForDigest
<1>4. CASE VerifyFile
  <2>1. CASE EndSubmit(8) \/ EndSubmit(1)
    BY <1>2, <1>4, <2>1 DEF VerifyFile
  <2>2. CASE given.dry /\ EndSubmit(0)
    <3>1. EndsDryRun /\ DOMAIN client' = ClientFields
      BY <1>4, <2>2, EndSubmitStep DEF VerifyFile, EndsDryRun, SameReads, SameMessages
    <3>. QED
      BY <1>4, <3>1 DEF VerifyFile
  <2>3. CASE /\ ~given.dry /\ Verifies(Head(output))
             /\ client' = [client EXCEPT !.pc = "read", !.id = Head(output).manifest.id]
    <3>1. /\ DOMAIN client' = ClientFields /\ client'.pc = "read"
          /\ client'.id = Head(output).manifest.id
          /\ UNCHANGED <<client.sha, client.body, client.runs, client.exit>>
      BY <2>3 DEF TypedClient, ClientFields
    <3>2. TakesId
      BY <1>4, <2>3, <3>1 DEF VerifyFile, TakesId, SameMessages
    <3>. QED
      BY <1>4, <3>1, <3>2 DEF VerifyFile
  <2>. QED
    BY <1>4, <2>1, <2>2, <2>3 DEF VerifyFile
<1>5. CASE ReadBody
  <2>1. CASE EndSubmit(8)
    BY <1>2, <1>5, <2>1 DEF ReadBody
  <2>2. CASE client' = [client EXCEPT !.pc = "post", !.body = output]
    <3>1. /\ DOMAIN client' = ClientFields /\ client'.pc = "post" /\ client'.body = output
          /\ UNCHANGED <<client.sha, client.id, client.runs, client.exit>>
      BY <2>2 DEF TypedClient, ClientFields
    <3>2. TakesBody
      BY <1>5, <3>1 DEF ReadBody, TakesBody, SameMessages
    <3>. QED
      BY <1>5, <3>1, <3>2 DEF ReadBody
  <2>. QED
    BY <1>5, <2>1, <2>2 DEF ReadBody
<1>6. CASE Post
  <2>1. Posts /\ DOMAIN client' = ClientFields
    BY <1>6, GoStep DEF Post, Posts, SameReads
  <2>. QED
    BY <1>6, <2>1 DEF Post
<1>7. CASE Receive
  <2>1. PICK a \in answers :
          /\ a.run = client.runs /\ answers' = answers \ {a}
          /\ IF a.small THEN client' = [client EXCEPT !.pc = "answered", !.status = a.status]
             ELSE EndSubmit(8)
    BY <1>7 DEF Receive
  <2>2. CASE EndSubmit(8)
    BY <1>2, <1>7, <2>1, <2>2 DEF Receive
  <2>3. CASE client' = [client EXCEPT !.pc = "answered", !.status = a.status]
    <3>1. /\ DOMAIN client' = ClientFields /\ client'.pc = "answered"
          /\ client'.status = a.status /\ SameReads /\ UNCHANGED client.exit
      BY <2>3 DEF TypedClient, ClientFields, SameReads
    <3>2. Hears
      BY <1>7, <2>1, <3>1 DEF Receive, Hears
    <3>. QED
      BY <1>7, <3>1, <3>2 DEF Receive
  <2>. QED
    BY <2>1, <2>2, <2>3
<1>8. CASE TimeOut
  BY <1>2, <1>8 DEF TimeOut
<1>9. CASE WriteReceipt
  <2>1. CASE Report /\ UNCHANGED scratch
    <3>1. PICK exit \in {0, 8} : EndSubmit(exit) /\ (exit = 0 => Accepted(client.status))
      BY <2>1 DEF Report
    <3>2. DOMAIN client' = ClientFields /\ client'.pc = "idle" /\ client'.exit = exit /\ SameReads
      BY <3>1, EndSubmitStep DEF SameReads
    <3>3. Reports
      BY <1>9, <3>1, <3>2 DEF WriteReceipt, Reports
    <3>4. BuildUnchanged /\ UNCHANGED serviceVars /\ client.pc = "answered" /\ scratch' = scratch
      BY <1>9, <2>1 DEF WriteReceipt
    <3>. QED
      BY <3>2, <3>3, <3>4
  <2>2. CASE Go("receipt") /\ scratch' = scratch \cup {"client"}
    <3>1. StartsReceipt /\ DOMAIN client' = ClientFields
      BY <1>9, <2>2, GoStep DEF WriteReceipt, StartsReceipt, SameReads, SameMessages
    <3>. QED
      BY <1>9, <2>2, <3>1 DEF WriteReceipt, StartsReceipt
  <2>3. CASE EndSubmit(8) /\ UNCHANGED scratch
    BY <1>2, <1>9, <2>3 DEF WriteReceipt
  <2>. QED
    BY <1>9, <2>1, <2>2, <2>3 DEF WriteReceipt
<1>10. CASE PublishReceipt
  <2>1. CASE receipt' = <<NewReceipt>> /\ Report
    <3>1. PICK exit \in {0, 8} : EndSubmit(exit) /\ (exit = 0 => Accepted(client.status))
      BY <2>1 DEF Report
    <3>2. Reports /\ DOMAIN client' = ClientFields
      BY <1>10, <2>1, <3>1, EndSubmitStep DEF PublishReceipt, Reports, SameReads
    <3>. QED
      BY <1>10, <3>2 DEF PublishReceipt, Reports
  <2>2. CASE EndSubmit(8) /\ UNCHANGED receipt
    BY <1>2, <1>10, <2>2 DEF PublishReceipt
  <2>. QED
    BY <1>10, <2>1, <2>2 DEF PublishReceipt
<1>11. CASE CrashClient
  BY <1>2, <1>11 DEF CrashClient
<1>. QED
  BY <1>1, <1>3, <1>4, <1>5, <1>6, <1>7, <1>8, <1>9, <1>10, <1>11 DEF SubmitNext

(* A process stays at the steps of its job, and its temporary file exists between *)
(* its write and its replacement only, unless the write fails or it is killed.     *)
LEMMA StoreScratch ==
    ASSUME NEW p \in Savers, WellFormed, TypedStore, Store(p)
    PROVE  /\ TypedStore' /\ UNCHANGED <<given, faults, buildVars, submitVars, serviceVars>>
           /\ scratch' \ {p} = scratch \ {p}
           /\ "crash" \in faults \/ (p \in scratch => saver[p].pc \in {"replace", "leaked"}) =>
                 "crash" \in faults \/ (p \in scratch' => saver'[p].pc \in {"replace", "leaked"})
<1>1. UNCHANGED <<given, faults, buildVars, submitVars, serviceVars>>
  BY DEF Store, SaverNext, CrashSaver, SaveCheck, WriteTemporary, Replace, DeleteCheck,
     Unlink, Truncate, Fill
<1> DEFINE Outcome(pc) ==
        /\ Proceed(p, pc)
        /\ \/ scratch' = scratch \cup {p} /\ pc \in {"replace", "leaked"}
           \/ scratch' = scratch \ {p}
           \/ /\ scratch' = scratch
              /\ "crash" \in faults \/ saver[p].pc \notin {"replace", "leaked"}
<1>2. PICK pc \in SaverSteps : Outcome(pc)
  <2>1. CASE SaveCheck(p)
    <3>1. PICK pc \in {"write", "error"} : Proceed(p, pc)
      BY <2>1 DEF SaveCheck
    <3>2. Outcome(pc)
      BY <2>1, <3>1 DEF SaveCheck, At
    <3>. QED
      BY <3>2 DEF SaverSteps, Over
  <2>2. CASE WriteTemporary(p)
    <3>1. PICK pc \in {"replace", "error", "leaked"} : Outcome(pc)
      BY <2>2 DEF WriteTemporary, At
    <3>. QED
      BY <3>1 DEF SaverSteps, Over
  <2>3. CASE Replace(p)
    <3>1. PICK pc \in {"done", "error"} : Outcome(pc)
      BY <2>3 DEF Replace
    <3>. QED
      BY <3>1 DEF SaverSteps, Over
  <2>4. CASE DeleteCheck(p) \/ Unlink(p)
    <3>1. PICK pc \in {"error", "unlink", "done"} : Proceed(p, pc)
      BY <2>4 DEF DeleteCheck, Unlink
    <3>2. Outcome(pc)
      BY <2>4, <3>1 DEF DeleteCheck, Unlink, At
    <3>. QED
      BY <3>2 DEF SaverSteps, Over
  <2>5. CASE Truncate(p) \/ Fill(p)
    <3>1. PICK pc \in {"fill", "error", "done"} : Outcome(pc)
      BY <2>5 DEF Truncate, Fill, At
    <3>. QED
      BY <3>1 DEF SaverSteps, Over
  <2>6. CASE CrashSaver(p)
    <3>1. Outcome("crashed")
      BY <2>6 DEF CrashSaver
    <3>. QED
      BY <3>1 DEF SaverSteps, Over
  <2>. QED
    BY <2>1, <2>2, <2>3, <2>4, <2>5, <2>6 DEF Store, SaverNext
<1>3. /\ saver'[p].pc = pc
      /\ \A q \in Savers \ {p} : saver'[q].pc = saver[q].pc
  BY <1>2, ProceedStep
<1>4. TypedStore'
  BY <1>2, <1>3 DEF TypedStore
<1>. QED
  BY <1>1, <1>2, <1>3, <1>4

(* What becomes of the messages when the service or somebody else answers one. *)
Answers(r, status) ==
    answers' = answers \/
        \E small \in BOOLEAN :
            answers' = answers \cup {[run |-> r.run, status |-> status, small |-> small]}

(* The service takes a request up, or ends it with a status. *)
TakesUp(r) == /\ UNCHANGED <<answers, rows>>
              /\ requests' \subseteq requests /\ serving' = serving \cup {r}
              /\ r.body = r.sha /\ Verifies(Head(r.body)) /\ Head(r.body).manifest.id = r.id
Refuses(r) == /\ UNCHANGED rows
              /\ requests' \subseteq requests /\ serving' \subseteq serving
              /\ \/ \E status \in {302, 502, 400} : Answers(r, status)
                 \/ /\ Answers(r, 200) /\ r.body = r.sha /\ Head(r.body) \in rows
                 \/ /\ Answers(r, 409) /\ r.body = r.sha
                    /\ \E row \in rows : SampleIds(row) \cap SampleIds(Head(r.body)) # {}
Records(r) == /\ Answers(r, 201) /\ rows' = rows \cup {Head(r.body)} /\ r \in serving
              /\ requests' \subseteq requests /\ serving' \subseteq serving

NetworkNext(r) == \/ r \in requests /\ (Lookup(r) \/ Intercept(r))
                  \/ r \in serving /\ Persist(r)

(* Every request in service was sound when it was looked up. *)
Verified == \A r \in serving :
    r.body = r.sha /\ Verifies(Head(r.body)) /\ Head(r.body).manifest.id = r.id

LEMMA NetworkStep ==
    ASSUME NEW r, NetworkNext(r)
    PROVE  /\ BuildUnchanged /\ UNCHANGED <<scratch, client, receipt>>
           /\ (r \in requests /\ TakesUp(r)) \/ (Verified => Refuses(r)) \/ Records(r)
           /\ requests' \subseteq requests
           /\ serving' \subseteq serving \cup requests
           /\ answers' = answers \/ \E status : Answers(r, status)
<1>1. CASE r \in requests /\ Intercept(r)
  <2>1. PICK status \in {302, 502}, small \in BOOLEAN :
            answers' = answers \cup {[run |-> r.run, status |-> status, small |-> small]}
    BY <1>1 DEF Intercept
  <2>2. Answers(r, status)
    BY <2>1 DEF Answers
  <2>3. requests' \subseteq requests /\ UNCHANGED <<serving, rows>>
    BY <1>1 DEF Intercept, serviceVars
  <2>4. Refuses(r)
    BY <2>2, <2>3 DEF Refuses
  <2>. QED
    BY <1>1, <2>2, <2>3, <2>4 DEF Intercept
<1>2. ASSUME NEW status, Reply(r, status, TRUE)
      PROVE  Answers(r, status)
  BY <1>2 DEF Reply, Answers
<1>3. CASE r \in requests /\ Lookup(r)
  <2> DEFINE bundle == Head(r.body)
             sound == r.body = r.sha
             recorded == bundle \in rows
             verified == Verifies(bundle) /\ bundle.manifest.id = r.id
  <2>1. /\ BuildUnchanged /\ UNCHANGED <<scratch, client, receipt, rows>>
        /\ requests' = requests \ {r}
    BY <1>3 DEF Lookup
  <2>2. \/ Reply(r, 400, TRUE) /\ serving' = serving
        \/ sound /\ recorded /\ Reply(r, 200, TRUE) /\ serving' = serving
        \/ sound /\ verified /\ serving' = serving \cup {r} /\ answers' = answers
    BY <1>3 DEF Lookup
  <2> HIDE DEF bundle
  <2>3. CASE Reply(r, 400, TRUE) /\ serving' = serving
    <3>1. Answers(r, 400)
      BY <1>2, <2>3
    <3>2. Refuses(r)
      BY <2>1, <2>3, <3>1 DEF Refuses
    <3>. QED
      BY <2>1, <2>3, <3>1, <3>2
  <2>4. CASE sound /\ recorded /\ Reply(r, 200, TRUE) /\ serving' = serving
    <3>1. Answers(r, 200)
      BY <1>2, <2>4
    <3>2. Refuses(r)
      BY <2>1, <2>4, <3>1 DEF Refuses, bundle
    <3>. QED
      BY <2>1, <2>4, <3>1, <3>2
  <2>5. CASE sound /\ verified /\ serving' = serving \cup {r} /\ answers' = answers
    <3>1. TakesUp(r)
      BY <2>1, <2>5 DEF TakesUp, bundle
    <3>. QED
      BY <1>3, <2>1, <2>5, <3>1
  <2>. QED
    BY <2>2, <2>3, <2>4, <2>5
<1>4. CASE r \in serving /\ Persist(r)
  <2> DEFINE bundle == Head(r.body)
             recorded == bundle \in rows
             clash == \E row \in rows : SampleIds(row) \cap SampleIds(bundle) # {}
  <2>1. /\ BuildUnchanged /\ UNCHANGED <<scratch, client, receipt, requests>>
        /\ serving' = serving \ {r}
    BY <1>4 DEF Persist
  <2>2. \/ clash /\ Reply(r, 409, TRUE) /\ rows' = rows
        \/ recorded /\ Reply(r, 200, TRUE) /\ rows' = rows
        \/ Reply(r, 201, TRUE) /\ rows' = rows \cup {bundle}
    BY <1>4 DEF Persist
  <2>3. Verified => r.body = r.sha
    BY <1>4 DEF Verified
  <2> HIDE DEF bundle
  <2>4. CASE clash /\ Reply(r, 409, TRUE) /\ rows' = rows
    <3>1. Answers(r, 409)
      BY <1>2, <2>4
    <3>2. Verified => Refuses(r)
      BY <2>1, <2>3, <2>4, <3>1 DEF Refuses, bundle
    <3>. QED
      BY <2>1, <3>1, <3>2
  <2>5. CASE recorded /\ Reply(r, 200, TRUE) /\ rows' = rows
    <3>1. Answers(r, 200)
      BY <1>2, <2>5
    <3>2. Verified => Refuses(r)
      BY <2>1, <2>3, <2>5, <3>1 DEF Refuses, bundle
    <3>. QED
      BY <2>1, <3>1, <3>2
  <2>6. CASE Reply(r, 201, TRUE) /\ rows' = rows \cup {bundle}
    <3>1. Answers(r, 201)
      BY <1>2, <2>6
    <3>2. Records(r)
      BY <1>4, <2>1, <2>6, <3>1 DEF Records, bundle
    <3>. QED
      BY <2>1, <3>1, <3>2
  <2>. QED
    BY <2>2, <2>4, <2>5, <2>6
<1>. QED
  BY <1>1, <1>3, <1>4 DEF NetworkNext

-----------------------------------------------------------------------------
(* Every variable keeps its type. *)

LEMMA TypedInit == Init => Typed
<1> SUFFICES ASSUME Init PROVE Typed
  OBVIOUS
<1>1. given \in Scenarios /\ saver = given.savers /\ scratch = {} /\ output = given.output
  BY DEF Init
<1>2. WellFormed /\ TypedStore
  BY <1>1, ScenariosAssumption DEF WellFormed, TypedStore, Fields, SaverSteps, Over
<1>3. TypedBuilder
  <2>1. AtMostOne(output)
    BY <1>1, ScenariosAssumption DEF AtMostOne
  <2>2. builder = [pc |-> "idle", todo |-> {}, loaded |-> {}, exit |-> -1, runs |-> 0]
    BY DEF Init
  <2>. QED
    BY <2>1, <2>2 DEF TypedBuilder, BuilderFields
<1>4. TypedClient
  <2>1. client = NoClient /\ receipt = <<>>
    BY DEF Init
  <2>. QED
    BY <2>1 DEF TypedClient, NoClient, ClientFields, AtMostOne
<1>5. TypedNet
  BY DEF Init, TypedNet
<1>. QED
  BY <1>2, <1>3, <1>4, <1>5 DEF Typed

(* A step of a process leaves the jobs well formed. *)
LEMMA StoreWellFormed ==
    ASSUME NEW p \in Savers, WellFormed, Store(p)
    PROVE  WellFormed' /\ SameJobs /\ \A q \in Savers \ {p} : saver'[q].pc = saver[q].pc
<1>1. \E pc : Proceed(p, pc)
  BY DEF Store, SaverNext, CrashSaver, SaveCheck, WriteTemporary, Replace, DeleteCheck,
     Unlink, Truncate, Fill
<1>. QED
  BY <1>1, ProceedStep

LEMMA TypedStep == Typed /\ [Next]_vars => Typed'
<1> SUFFICES ASSUME Typed, [Next]_vars PROVE Typed'
  OBVIOUS
<1>0. WellFormed /\ TypedStore /\ TypedBuilder /\ TypedClient /\ TypedNet
  BY DEF Typed
<1>1. ASSUME NEW p \in Savers, Store(p)
      PROVE  Typed'
  <2>1. TypedStore' /\ UNCHANGED <<given, faults, buildVars, submitVars, serviceVars>>
    BY <1>0, <1>1, StoreScratch
  <2>2. WellFormed'
    BY <1>0, <1>1, StoreWellFormed
  <2>3. TypedBuilder' /\ TypedClient' /\ TypedNet'
    BY <1>0, <2>1 DEF TypedBuilder, TypedClient, TypedNet, buildVars, submitVars, serviceVars
  <2>. QED
    BY <2>1, <2>2, <2>3 DEF Typed
<1>2. CASE StartBuild \/ BuildNext \/ CrashBuilder
  <2>1. /\ StoreUnchanged /\ UNCHANGED <<submitVars, serviceVars>>
        /\ DOMAIN builder' = BuilderFields
        /\ builder'.pc \in {"idle", "load", "replace"} /\ builder'.exit \in {-1, 0, 6, 8}
        /\ builder'.runs = builder.runs \/ builder'.runs = builder.runs + 1
        /\ output' = output \/ output' = <<NewBundle>>
        /\ scratch' \ {"builder"} = scratch \ {"builder"}
    BY <1>0, <1>2, BuildStep
  <2>2. WellFormed' /\ TypedStore'
    BY <1>0, <2>1 DEF WellFormed, TypedStore, StoreUnchanged
  <2>3. TypedBuilder' /\ (output # <<>> => output' # <<>>)
    BY <1>0, <2>1 DEF TypedBuilder, AtMostOne
  <2>4. TypedClient' /\ TypedNet'
    BY <1>0, <2>1, <2>3 DEF TypedClient, TypedNet, submitVars, serviceVars, StoreUnchanged
  <2>. QED
    BY <2>2, <2>3, <2>4 DEF Typed
<1>3. CASE StartSubmit \/ SubmitNext \/ CrashClient
  <2>1. /\ BuildUnchanged /\ UNCHANGED serviceVars /\ DOMAIN client' = ClientFields
        /\ \/ Starts \/ GivesUp \/ TakesDigest \/ EndsDryRun \/ TakesId \/ TakesBody
           \/ Posts \/ Hears \/ StartsReceipt \/ Reports
        /\ scratch' \ {"client"} = scratch \ {"client"}
    BY <1>0, <1>3, SubmitStep
  <2>2. WellFormed' /\ TypedStore' /\ TypedBuilder' /\ output' = output /\ given' = given
    BY <1>0, <2>1 DEF WellFormed, TypedStore, TypedBuilder, BuildUnchanged, StoreUnchanged,
       buildVars
  <2>3. TypedClient'
    <3>1. CASE Starts \/ GivesUp \/ EndsDryRun \/ Posts \/ Hears \/ StartsReceipt
      BY <1>0, <2>1, <2>2, <3>1 DEF TypedClient, Starts, GivesUp, EndsDryRun, Posts, Hears,
         StartsReceipt, SameReads, SameMessages, AtMostOne
    <3>2. CASE TakesDigest \/ TakesId \/ TakesBody
      BY <1>0, <2>1, <2>2, <3>2 DEF TypedClient, TypedBuilder, TakesDigest, TakesId, TakesBody,
         SameMessages
    <3>3. CASE Reports
      <4>1. AtMostOne(receipt')
        BY <1>0, <3>3 DEF Reports, TypedClient, AtMostOne
      <4>. QED
        BY <1>0, <2>1, <2>2, <3>3, <4>1 DEF TypedClient, Reports, SameReads
    <3>. QED
      BY <2>1, <3>1, <3>2, <3>3
  <2>4. TypedNet'
    <3>1. CASE Starts
      BY <1>0, <2>1, <3>1 DEF TypedNet, TypedClient, Starts, SameMessages, serviceVars
    <3>2. CASE Posts
      <4>1. client.runs \in 1..client.runs
        BY <1>0, <3>2 DEF TypedClient, Posts
      <4>. QED
        BY <1>0, <2>1, <3>2, <4>1 DEF TypedNet, Posts, SameReads, serviceVars
    <3>3. CASE ~Starts /\ ~Posts
      BY <1>0, <2>1, <3>3 DEF TypedNet, GivesUp, TakesDigest, EndsDryRun, TakesId, TakesBody,
         Hears, StartsReceipt, Reports, SameReads, SameMessages, serviceVars
    <3>. QED
      BY <3>1, <3>2, <3>3
  <2>. QED
    BY <2>2, <2>3, <2>4 DEF Typed
<1>4. ASSUME NEW r, NetworkNext(r)
      PROVE  Typed'
  <2>1. /\ BuildUnchanged /\ UNCHANGED <<scratch, client, receipt>>
        /\ requests' \subseteq requests
        /\ serving' \subseteq serving \cup requests
        /\ answers' = answers \/ \E status : Answers(r, status)
    BY <1>4, NetworkStep
  <2>0. r \in requests \cup serving
    BY <1>4 DEF NetworkNext
  <2>2. WellFormed' /\ TypedStore' /\ TypedBuilder' /\ TypedClient'
    BY <1>0, <2>1 DEF WellFormed, TypedStore, TypedBuilder, TypedClient, BuildUnchanged,
       StoreUnchanged, buildVars
  <2>3. TypedNet'
    BY <1>0, <2>0, <2>1 DEF TypedNet, Answers
  <2>. QED
    BY <2>2, <2>3 DEF Typed
<1>5. CASE UNCHANGED vars
  BY <1>0, <1>5 DEF vars, storeVars, buildVars, submitVars, serviceVars, Typed, WellFormed,
     TypedStore, TypedBuilder, TypedClient, TypedNet
<1>. QED
  BY <1>1, <1>2, <1>3, <1>4, <1>5 DEF Next, NetworkNext, Terminated

THEOREM TypeSafety == Spec => []Typed
<1>. QED
  BY TypedInit, TypedStep, PTL DEF Spec

(* All three commands stay at their steps, and a bundle file, a receipt and what   *)
(* submit has read of the bundle hold at most one bundle or receipt.               *)
THEOREM TypeCorrect == Spec => []TypeOK
<1>. QED
  BY TypeSafety, TypedImpliesTypeOK, PTL

-----------------------------------------------------------------------------
(* Files are written as a whole. *)

CutShort(n) == n \in DOMAIN files /\ ~files[n].whole /\ ~Original(n)
Dumped(n) == \E p \in Savers : saver[p].kind = "dump" /\ Name(p) = n

(* A step of a process cuts no file short, but for a dump. *)
LEMMA StoreWrites ==
    ASSUME NEW p \in Savers, WellFormed, Store(p), NEW n, CutShort(n)'
    PROVE  CutShort(n) \/ Dumped(n)
<1>1. given' = given /\ SameJobs
  BY StoreWellFormed DEF Store
<1>2. CASE files' = files
  BY <1>1, <1>2 DEF CutShort, Original
<1>3. CASE Replace(p) /\ files' # files
  <2>1. files' = Stored(Name(p), WholeFile(saver[p].sample))
    BY <1>3 DEF Replace
  <2>2. files'[n].whole \/ (n \in DOMAIN files /\ files'[n] = files[n])
    BY <2>1 DEF Stored, WholeFile, CutShort
  <2>. QED
    BY <1>1, <2>2 DEF CutShort, Original
<1>4. CASE Unlink(p)
  BY <1>1, <1>4 DEF Unlink, CutShort, Original
<1>5. CASE Truncate(p) \/ (Fill(p) /\ files' # files)
  <2>1. saver[p].kind = "dump"
    BY <1>5 DEF Truncate, Fill, At
  <2>2. CASE n = Name(p)
    BY <2>1, <2>2 DEF Dumped
  <2>3. CASE n # Name(p)
    <3>1. n \in DOMAIN files /\ files'[n] = files[n]
      BY <1>5, <2>3 DEF Truncate, Fill, Stored, CutShort
    <3>. QED
      BY <1>1, <3>1 DEF CutShort, Original
  <2>. QED
    BY <2>2, <2>3
<1>. QED
  BY <1>2, <1>3, <1>4, <1>5 DEF Store, SaverNext, SaveCheck, WriteTemporary, DeleteCheck,
     CrashSaver

LEMMA WritesAtomicParts ==
    WritesAtomic <=>
        /\ output = given.output \/ ToSet(output) \subseteq built
        /\ \A n : CutShort(n) => Dumped(n)
        /\ \A p \in Savers :
              "crash" \in faults \/ (p \in scratch => saver[p].pc \in {"replace", "leaked"})
        /\ "crash" \in faults \/ ("builder" \in scratch => builder.pc = "replace")
        /\ "crash" \in faults \/ ("client" \in scratch => client.pc = "receipt")
BY DEF WritesAtomic, CutShort, Dumped

(* The bundle file is one whole build, a sample file is cut short by dump only, and *)
(* a command that ends without being killed leaves no temporary file (_write_bundle, *)
(* atomic_write_json, JsonSampleRepository.save but for a failed write).             *)
THEOREM AtomicWrites == Spec => []WritesAtomic
<1>1. Init => WritesAtomic
  <2> SUFFICES ASSUME Init PROVE WritesAtomic
    OBVIOUS
  <2>. QED
    BY WritesAtomicParts DEF Init, CutShort, Original
<1>2. Typed /\ WritesAtomic /\ [Next]_vars => WritesAtomic'
  <2> SUFFICES ASSUME Typed, WritesAtomic, [Next]_vars PROVE WritesAtomic'
    OBVIOUS
  <2>0. WellFormed /\ TypedStore /\ TypedBuilder /\ TypedClient
    BY DEF Typed
  <2> DEFINE Bundle == output = given.output \/ ToSet(output) \subseteq built
             Samples == \A n : CutShort(n) => Dumped(n)
             Saved == \A p \in Savers :
                 "crash" \in faults \/ (p \in scratch => saver[p].pc \in {"replace", "leaked"})
             Held == "crash" \in faults \/ ("builder" \in scratch => builder.pc = "replace")
             Sent == "crash" \in faults \/ ("client" \in scratch => client.pc = "receipt")
  <2>1. Bundle /\ Samples /\ Saved /\ Held /\ Sent
    BY WritesAtomicParts
  <2>2. SUFFICES Bundle' /\ Samples' /\ Saved' /\ Held' /\ Sent'
    BY DEF WritesAtomic, CutShort, Dumped
  <2>3. UNCHANGED <<files, saver, given>> => Samples'
    BY <2>1 DEF CutShort, Dumped, Original, Name
  <2>4. Savers \cap {"builder", "client"} = {}
    BY ScenariosAssumption
  <2>5. ASSUME NEW p \in Savers, Store(p)
        PROVE  Bundle' /\ Samples' /\ Saved' /\ Held' /\ Sent'
    <3>1. /\ UNCHANGED <<given, faults, buildVars, submitVars, serviceVars>>
          /\ scratch' \ {p} = scratch \ {p}
          /\ "crash" \in faults \/ (p \in scratch => saver[p].pc \in {"replace", "leaked"}) =>
                "crash" \in faults \/ (p \in scratch' => saver'[p].pc \in {"replace", "leaked"})
      BY <2>0, <2>5, StoreScratch
    <3>2. SameJobs /\ \A q \in Savers \ {p} : saver'[q].pc = saver[q].pc
      BY <2>0, <2>5, StoreWellFormed
    <3>3. Bundle' /\ Held' /\ Sent'
      BY <2>1, <2>4, <3>1 DEF buildVars, submitVars
    <3>4. Saved'
      BY <2>1, <3>1, <3>2
    <3>5. Samples'
      BY <2>0, <2>1, <2>5, <3>2, StoreWrites DEF Dumped, SameJobs, Name
    <3>. QED
      BY <3>3, <3>4, <3>5
  <2>6. CASE StartBuild \/ BuildNext \/ CrashBuilder
    <3>1. /\ StoreUnchanged /\ UNCHANGED <<submitVars, serviceVars>>
          /\ \/ UNCHANGED <<output, built>>
             \/ output' = <<NewBundle>> /\ built' = built \cup {NewBundle}
          /\ scratch' \ {"builder"} = scratch \ {"builder"}
          /\ Held => Held'
      BY <2>0, <2>6, BuildStep DEF StoreUnchanged
    <3>2. Bundle'
      <4>1. ToSet(<<NewBundle>>) = {NewBundle}
        BY DEF ToSet
      <4>. QED
        BY <2>1, <3>1, <4>1 DEF StoreUnchanged
    <3>3. Samples' /\ Saved' /\ Sent'
      BY <2>1, <2>3, <2>4, <3>1 DEF StoreUnchanged, submitVars
    <3>. QED
      BY <2>1, <3>1, <3>2, <3>3
  <2>7. CASE StartSubmit \/ SubmitNext \/ CrashClient
    <3>1. /\ BuildUnchanged /\ scratch' \ {"client"} = scratch \ {"client"}
          /\ Sent => Sent'
      BY <2>0, <2>7, SubmitStep DEF BuildUnchanged, StoreUnchanged
    <3>. QED
      BY <2>1, <2>3, <2>4, <3>1 DEF BuildUnchanged, StoreUnchanged, buildVars
  <2>8. ASSUME NEW r, NetworkNext(r)
        PROVE  Bundle' /\ Samples' /\ Saved' /\ Held' /\ Sent'
    <3>1. BuildUnchanged /\ UNCHANGED <<scratch, client, receipt>>
      BY <2>8, NetworkStep
    <3>. QED
      BY <2>1, <2>3, <3>1 DEF BuildUnchanged, StoreUnchanged, buildVars
  <2>9. CASE UNCHANGED vars
    <3>1. UNCHANGED <<files, saver, given, scratch, faults, builder, client, output, built>>
      BY <2>9 DEF vars, storeVars, buildVars, submitVars
    <3>. QED
      BY <2>1, <2>3, <3>1
  <2>. QED
    BY <2>5, <2>6, <2>7, <2>8, <2>9 DEF Next, NetworkNext, Terminated
<1>. QED
  BY <1>1, <1>2, TypeSafety, PTL DEF Spec

-----------------------------------------------------------------------------
(* What a receipt says. *)

Usable(s) == s # <<>> /\ Verifies(Head(s))
(* A bundle file comes from before all builds or from a build. *)
Source(s) == s = given.output \/ \E b \in built : s = <<b>>
(* A later build has replaced the bundle file s. *)
Passed(s) == \E c \in built :
    /\ output = <<c>>
    /\ \A b \in built : s = <<b>> => b.manifest.created < c.manifest.created

(* Builds are numbered, and the bundle file is the last one, if there is one. *)
Numbered ==
    /\ \A b \in built : b.manifest.created \in 1..builder.runs
    /\ builder.pc # "idle" =>
          builder.runs > 0 /\ \A b \in built : b.manifest.created < builder.runs
    /\ Source(output)

(* What the three reads of the file have to do with each other. *)
Reads ==
    /\ client.pc # "idle" => client.exit # 0
    /\ client.sha # <<>> => Source(client.sha)
    /\ Usable(client.sha) /\ client.pc = "verify" =>
          client.sha = output \/ Passed(client.sha)
    /\ Usable(client.sha) /\ client.pc = "read" =>
          client.id = Head(client.sha).manifest.id \/ Passed(client.sha)
    /\ Usable(client.sha) /\ client.pc = "post" /\ client.body = client.sha =>
          client.id = Head(client.sha).manifest.id

(* The messages of the current run carry what the client has read. *)
Messages ==
    /\ \A m \in requests \cup serving :
          /\ m.run = client.runs => m.sha = client.sha /\ m.id = client.id
          /\ m.sha # <<>> /\ Source(m.sha)
          /\ Usable(m.sha) /\ m.body = m.sha => m.id = Head(m.sha).manifest.id
    /\ Verified
    /\ client.pc \in {"hash", "verify", "read", "post"} =>
          \A m \in requests \cup serving \cup answers : m.run # client.runs

(* What a status says of a bundle. *)
Told(sha, id, status) ==
    /\ Accepted(status) => Head(sha) \in rows /\ Head(sha).manifest.id = id
    /\ status = 409 => \E b \in rows : SampleIds(b) \cap SampleIds(Head(sha)) # {}

Truthful ==
    /\ \A b \in rows : b \in built \cup ToSet(given.output) /\ Verifies(b)
    /\ \A a \in answers : a.run = client.runs => Told(client.sha, client.id, a.status)
    /\ client.pc \in {"answered", "receipt"} => Told(client.sha, client.id, client.status)
    /\ \A r \in ToSet(receipt) : /\ r.sha = <<Head(r.sha)>> /\ Told(r.sha, r.id, r.status)
                                 /\ r.accepted = Accepted(r.status)
    /\ client.exit = 0 /\ ~given.dry => Head(client.sha) \in rows

Honest == given \in Scenarios /\ Numbered /\ Reads /\ Messages /\ Truthful

LEMMA VerifiedConsistent == \A b : Verifies(b) => Consistent(b)
BY DEF Verifies, FilesAccepted, SampleAccepted, Consistent

LEMMA HonestImpliesTruthful == Honest => ReceiptTruthful
<1> SUFFICES ASSUME Honest PROVE ReceiptTruthful
  OBVIOUS
<1>1. ASSUME NEW r \in ToSet(receipt)
      PROVE  /\ r.accepted => \E b \in rows : <<b>> = r.sha /\ b.manifest.id = r.id
             /\ r.status = 409 => \E b \in rows : SampleIds(b) \cap SampleIds(Head(r.sha)) # {}
  <2>1. /\ r.sha = <<Head(r.sha)>> /\ Told(r.sha, r.id, r.status)
        /\ r.accepted = Accepted(r.status)
    BY DEF Honest, Truthful
  <2>. QED
    BY <2>1 DEF Told
<1>2. \A b \in rows : b \in built \cup ToSet(given.output) /\ Consistent(b)
  BY VerifiedConsistent DEF Honest, Truthful
<1>. QED
  BY <1>1, <1>2 DEF Honest, Truthful, ReceiptTruthful

(* What is true of an answer stays true, as rows only grow. *)
LEMMA ToldStays ==
    ASSUME NEW sha, NEW id, NEW status, Told(sha, id, status), rows \subseteq rows'
    PROVE  Told(sha, id, status)'
BY DEF Told

LEMMA NewBundleNumber == NewBundle.manifest.created = builder.runs
BY DEF NewBundle, Archive, Assembled

LEMMA HonestInit == Init => Honest
<1> SUFFICES ASSUME Init PROVE Honest
  OBVIOUS
<1>1. /\ given \in Scenarios /\ output = given.output /\ built = {} /\ rows = {}
      /\ requests = {} /\ serving = {} /\ answers = {} /\ receipt = <<>>
      /\ client.pc = "idle" /\ client.exit = -1 /\ client.sha = <<>>
      /\ builder.pc = "idle"
  BY DEF Init, NoClient
<1>2. ToSet(receipt) = {}
  BY <1>1 DEF ToSet
<1>. QED
  BY <1>1, <1>2 DEF Honest, Numbered, Source, Reads, Messages, Verified, Truthful,
     Usable

LEMMA HonestBuild ==
    ASSUME Typed, Honest, StartBuild \/ BuildNext \/ CrashBuilder
    PROVE  Honest'
<1>1. /\ TypedBuilder /\ StoreUnchanged /\ UNCHANGED <<submitVars, serviceVars>>
      /\ builder'.pc \in {"idle", "load", "replace"}
      /\ \/ builder'.runs = builder.runs /\ builder.pc # "idle"
         \/ builder'.runs = builder.runs + 1 /\ builder.pc = "idle"
      /\ \/ UNCHANGED <<output, built>>
         \/ /\ builder.pc = "replace" /\ builder'.pc = "idle"
            /\ output' = <<NewBundle>> /\ built' = built \cup {NewBundle}
  BY BuildStep DEF Typed
<1>2. given' = given /\ UNCHANGED <<client, receipt, requests, answers, serving, rows>>
  BY <1>1 DEF StoreUnchanged, submitVars, serviceVars
<1>3. built \subseteq built' /\ \A s : Source(s) => Source(s)'
  BY <1>1, <1>2 DEF Source
<1>4. Numbered'
  <2> DEFINE new == NewBundle
             b0 == builder.runs
             b1 == builder'.runs
  <2>1. new.manifest.created = b0 /\ b0 \in Nat
    BY <1>1, NewBundleNumber DEF TypedBuilder
  <2>2. /\ \A b \in built : b.manifest.created \in 1..b0
        /\ builder.pc # "idle" => \A b \in built : b.manifest.created < b0
        /\ builder.pc # "idle" => b0 > 0
    BY <1>1 DEF Honest, Numbered, TypedBuilder
  <2> HIDE DEF new
  <2>3. CASE UNCHANGED <<output, built>>
    <3>1. /\ \A b \in built' : b.manifest.created \in 1..b1
          /\ builder'.pc # "idle" => b1 > 0 /\ \A b \in built' : b.manifest.created < b1
      BY <1>1, <2>1, <2>2, <2>3
    <3>. QED
      BY <1>2, <2>3, <3>1 DEF Honest, Numbered, Source
  <2>4. CASE /\ builder.pc = "replace" /\ builder'.pc = "idle"
             /\ output' = <<new>> /\ built' = built \cup {new}
    <3>1. \A b \in built' : b.manifest.created \in 1..b1
      BY <1>1, <2>1, <2>2, <2>4
    <3>. QED
      BY <2>4, <3>1 DEF Numbered, Source
  <2>. QED
    BY <1>1, <2>3, <2>4 DEF new
<1>5. ASSUME NEW s, s # <<>>, Source(s), output' # output
      PROVE  Passed(s)'
  <2> DEFINE new == NewBundle
  <2>1. /\ output' = <<new>> /\ built' = built \cup {new}
        /\ builder.runs \in Nat \ {0} /\ \A b \in built : b.manifest.created < builder.runs
    BY <1>1, <1>5 DEF Honest, Numbered, TypedBuilder
  <2>2. new.manifest.created = builder.runs
    BY NewBundleNumber
  <2>3. s = <<new>> => new \in built
    <3>1. s = given.output => Head(s).manifest.created \notin Nat \ {0}
      BY <1>5, OutputAssumption DEF Honest
    <3> HIDE DEF new
    <3>. QED
      BY <1>5, <2>1, <2>2, <3>1 DEF Source
  <2> HIDE DEF new
  <2>4. \A b \in built' : s = <<b>> => b.manifest.created < new.manifest.created
    BY <2>1, <2>2, <2>3
  <2>. QED
    BY <2>1, <2>4 DEF Passed
<1>6. ASSUME NEW s, s # <<>>, Source(s), Passed(s)
      PROVE  Passed(s)'
  <2>1. CASE output' # output
    BY <1>5, <1>6, <2>1
  <2>2. CASE output' = output
    <3>1. PICK c \in built :
             /\ output = <<c>>
             /\ \A b \in built : s = <<b>> => b.manifest.created < c.manifest.created
      BY <1>6 DEF Passed
    <3>2. built' = built
      <4> DEFINE new == NewBundle
      <4>1. built' = built \/ (output' = <<new>> /\ built' = built \cup {new})
        BY <1>1
      <4> HIDE DEF new
      <4>. QED
        BY <2>2, <3>1, <4>1
    <3>. QED
      BY <2>2, <3>1, <3>2 DEF Passed
  <2>. QED
    BY <2>1, <2>2
<1>7. Reads'
  <2>1. Reads
    BY DEF Honest
  <2>2. client.sha # <<>> => Source(client.sha)
    BY <2>1 DEF Reads
  <2>3. client' = client
    BY <1>2
  <2>4. client.sha # <<>> /\ Passed(client.sha) => Passed(client.sha)'
    <3>1. \A s : s # <<>> /\ Source(s) /\ Passed(s) => Passed(s)'
      BY <1>6
    <3>. QED
      BY <2>2, <2>3, <3>1 DEF Passed
  <2>5. client.sha # <<>> /\ client.sha = output => client.sha = output' \/ Passed(client.sha)'
    <3>1. \A s : s # <<>> /\ Source(s) => s = output' \/ s # output \/ Passed(s)'
      BY <1>5
    <3>. QED
      BY <2>2, <2>3, <3>1 DEF Passed
  <2> QED
    BY <1>2, <1>3, <2>1, <2>3, <2>4, <2>5 DEF Reads, Usable
<1>8. Messages' /\ Truthful'
  <2>1. Messages /\ Truthful
    BY DEF Honest
  <2>2. /\ client' = client /\ receipt' = receipt /\ requests' = requests
        /\ answers' = answers /\ serving' = serving /\ rows' = rows /\ given' = given
    BY <1>2
  <2>3. Messages'
    <3>1. Verified'
      BY <2>1, <2>2 DEF Messages, Verified
    <3>2. \A m \in requests \cup serving :
             /\ m.run = client.runs => m.sha = client.sha /\ m.id = client.id
             /\ m.sha # <<>> /\ Source(m.sha)'
             /\ Usable(m.sha) /\ m.body = m.sha => m.id = Head(m.sha).manifest.id
      BY <1>3, <2>1 DEF Messages
    <3>. QED
      BY <2>1, <2>2, <3>1, <3>2 DEF Messages, Usable
  <2>4. Truthful'
    <3>1. \A b \in rows : b \in built' \cup ToSet(given.output) /\ Verifies(b)
      BY <1>3, <2>1 DEF Truthful
    <3>. QED
      BY <2>1, <2>2, <3>1 DEF Truthful, Told, NewReceipt
  <2>. QED
    BY <2>3, <2>4
<1>. QED
  BY <1>2, <1>4, <1>7, <1>8 DEF Honest

(* What the client knows at the end of a step is what is in its messages. *)
LEMMA HonestSubmit ==
    ASSUME Typed, Honest, StartSubmit \/ SubmitNext \/ CrashClient
    PROVE  Honest'
<1>1. /\ BuildUnchanged /\ UNCHANGED serviceVars
      /\ \/ Starts \/ GivesUp \/ TakesDigest \/ EndsDryRun \/ TakesId \/ TakesBody
         \/ Posts \/ Hears \/ StartsReceipt \/ Reports
  BY SubmitStep DEF Typed
<1>2. given' = given /\ UNCHANGED <<builder, output, built, serving, rows>>
  BY <1>1 DEF BuildUnchanged, StoreUnchanged, buildVars, serviceVars
<1>3. given' \in Scenarios /\ Numbered'
  BY <1>2 DEF Honest, Numbered, Source
<1>4. \A b \in rows' : b \in built' \cup ToSet(given'.output) /\ Verifies(b)
  BY <1>2 DEF Honest, Truthful
<1>5. /\ Reads /\ Messages /\ TypedClient /\ TypedNet
      /\ \A a \in answers : a.run = client.runs => Told(client.sha, client.id, a.status)
      /\ client.pc \in {"answered", "receipt"} => Told(client.sha, client.id, client.status)
      /\ \A r \in ToSet(receipt) : /\ r.sha = <<Head(r.sha)>> /\ Told(r.sha, r.id, r.status)
                                   /\ r.accepted = Accepted(r.status)
      /\ client.exit = 0 /\ ~given.dry => Head(client.sha) \in rows
  BY DEF Honest, Truthful, Typed
<1>6. \A sha, id, status : Told(sha, id, status) => Told(sha, id, status)'
  BY <1>2 DEF Told
<1>7. \A s : (Passed(s) => Passed(s)') /\ (Source(s) => Source(s)')
  BY <1>2 DEF Passed, Source
<1> DEFINE Sure(r) == /\ r.sha = <<Head(r.sha)>> /\ Told(r.sha, r.id, r.status)
                      /\ r.accepted = Accepted(r.status)
<1>8. Reads' /\ Messages' /\ Truthful'
  <2> DEFINE Heard == \A a \in answers : a.run = client.runs =>
                         Told(client.sha, client.id, a.status)
             Known == client.pc \in {"answered", "receipt"} =>
                         Told(client.sha, client.id, client.status)
             Ended == client.exit = 0 /\ ~given.dry => Head(client.sha) \in rows
  <2>0. ASSUME UNCHANGED receipt, Heard', Known', Ended'
        PROVE  Truthful'
    BY <1>4, <1>5, <1>6, <2>0 DEF Truthful
  <2>1. CASE Starts
    <3>1. \A m \in requests' \cup serving' \cup answers' : m.run # client'.runs
      BY <1>2, <1>5, <2>1 DEF Starts, SameMessages, TypedNet, TypedClient
    <3>2. client'.sha = <<>> /\ ~Usable(client'.sha) /\ client'.pc \in {"idle", "hash"}
      BY <2>1 DEF Starts, Usable
    <3>3. requests' = requests /\ client'.exit # 0 /\ UNCHANGED receipt
      BY <2>1 DEF Starts, SameMessages
    <3>4. Reads'
      BY <1>2, <1>5, <3>2, <3>3 DEF Reads
    <3>5. Messages'
      BY <1>7, <1>2, <1>5, <3>1, <3>3 DEF Messages, Usable, Verified
    <3>6. Truthful'
      BY <2>0, <3>1, <3>2, <3>3
    <3>. QED
      BY <3>4, <3>5, <3>6
  <2>2. CASE GivesUp
    <3>1. /\ client'.pc = "idle" /\ client'.exit # 0 /\ SameReads
          /\ UNCHANGED <<receipt, requests>> /\ answers' \subseteq answers
      BY <2>2 DEF GivesUp
    <3>2. Reads' /\ Messages'
      BY <1>7, <1>2, <1>5, <3>1 DEF Reads, Messages, Usable, Verified, SameReads
    <3>3. Heard' /\ Known' /\ Ended'
      BY <1>5, <1>6, <3>1 DEF SameReads
    <3>. QED
      BY <2>0, <3>1, <3>2, <3>3
  <2>3. CASE TakesDigest
    <3>1. /\ client'.pc = "verify" /\ client'.sha = output /\ client'.exit = client.exit
          /\ client'.runs = client.runs /\ client.pc = "hash"
          /\ UNCHANGED <<receipt, requests, answers>>
      BY <2>3 DEF TakesDigest, SameMessages
    <3>2. \A m \in requests \cup serving \cup answers : m.run # client.runs
      BY <1>5, <3>1 DEF Messages
    <3>3. client.exit # 0
      BY <1>5, <3>1 DEF Reads
    <3>4. Source(output)
      BY DEF Honest, Numbered
    <3>5. Reads'
      BY <1>7, <1>2, <1>5, <3>1, <3>3, <3>4 DEF Reads, Usable
    <3>6. Messages'
      BY <1>7, <1>2, <1>5, <3>1, <3>2 DEF Messages, Usable, Verified
    <3>7. Heard' /\ Known' /\ Ended'
      BY <3>1, <3>2, <3>3
    <3>. QED
      BY <2>0, <3>1, <3>5, <3>6, <3>7
  <2>4. CASE EndsDryRun
    <3>1. /\ client'.pc = "idle" /\ given.dry /\ SameReads
          /\ UNCHANGED <<receipt, requests, answers>>
      BY <2>4 DEF EndsDryRun, SameMessages
    <3>2. Reads' /\ Messages'
      BY <1>7, <1>2, <1>5, <3>1 DEF Reads, Messages, Usable, Verified, SameReads
    <3>3. Heard' /\ Known' /\ Ended'
      BY <1>2, <1>5, <1>6, <3>1 DEF SameReads
    <3>. QED
      BY <2>0, <3>1, <3>2, <3>3
  <2>5. CASE TakesId
    <3>1. /\ client.pc = "verify" /\ client'.pc = "read" /\ ~given.dry
          /\ client'.id = Head(output).manifest.id
          /\ UNCHANGED <<client.sha, client.body, client.runs, client.exit>>
          /\ UNCHANGED <<receipt, requests, answers>>
      BY <2>5 DEF TakesId, SameMessages
    <3>2. \A m \in requests \cup serving \cup answers : m.run # client.runs
      BY <1>5, <3>1 DEF Messages
    <3>3. client.exit # 0
      BY <1>5, <3>1 DEF Reads
    <3>4. Usable(client.sha) => client.sha = output \/ Passed(client.sha)
      BY <1>5, <3>1 DEF Reads
    <3>5. Reads'
      BY <1>2, <1>5, <1>7, <3>1, <3>3, <3>4 DEF Reads, Usable
    <3>6. Messages'
      BY <1>7, <1>2, <1>5, <3>1, <3>2 DEF Messages, Usable, Verified
    <3>7. Heard' /\ Known' /\ Ended'
      BY <3>1, <3>2, <3>3
    <3>. QED
      BY <2>0, <3>1, <3>5, <3>6, <3>7
  <2>6. CASE TakesBody
    <3>1. /\ client.pc = "read" /\ client'.pc = "post" /\ client'.body = output
          /\ UNCHANGED <<client.sha, client.id, client.runs, client.exit>>
          /\ UNCHANGED <<receipt, requests, answers>>
      BY <2>6 DEF TakesBody, SameMessages
    <3>2. \A m \in requests \cup serving \cup answers : m.run # client.runs
      BY <1>5, <3>1 DEF Messages
    <3>3. client.exit # 0
      BY <1>5, <3>1 DEF Reads
    <3>4. Usable(client.sha) /\ client.sha = output => ~Passed(client.sha)
      <4> SUFFICES ASSUME client.sha = output, Passed(client.sha) PROVE FALSE
        OBVIOUS
      <4>1. PICK c \in built : c.manifest.created < c.manifest.created
        BY DEF Passed
      <4>2. c.manifest.created \in Int
        BY DEF Honest, Numbered
      <4>. QED
        BY <4>1, <4>2
    <3>5. Usable(client.sha) /\ client.sha = output => client.id = Head(client.sha).manifest.id
      BY <1>5, <3>1, <3>4 DEF Reads
    <3>6. Reads'
      BY <1>7, <1>2, <1>5, <3>1, <3>3, <3>5 DEF Reads, Usable
    <3>7. Messages'
      BY <1>7, <1>2, <1>5, <3>1, <3>2 DEF Messages, Usable, Verified
    <3>8. Heard' /\ Known' /\ Ended'
      BY <3>1, <3>2, <3>3
    <3>. QED
      BY <2>0, <3>1, <3>6, <3>7, <3>8
  <2>7. CASE Posts
    <3> DEFINE new == [run |-> client.runs, sha |-> client.sha,
                       id |-> client.id, body |-> client.body]
    <3>1. /\ client.pc = "post" /\ client'.pc = "wait" /\ SameReads
          /\ UNCHANGED <<client.exit, receipt, answers>>
          /\ requests' = requests \cup {new}
      BY <2>7 DEF Posts
    <3>2. client.exit # 0
      BY <1>5, <3>1 DEF Reads
    <3>3. \A m \in requests \cup serving \cup answers : m.run # client.runs
      BY <1>5, <3>1 DEF Messages
    <3>4. client.sha # <<>>
      BY <1>5, <3>1 DEF TypedClient
    <3>5. /\ Source(new.sha)
          /\ Usable(new.sha) /\ new.body = new.sha => new.id = Head(new.sha).manifest.id
      BY <1>5, <3>1, <3>4 DEF Reads
    <3>6. new.run = client.runs /\ new.sha = client.sha /\ new.id = client.id
      OBVIOUS
    <3> HIDE DEF new
    <3>7. Messages'
      BY <1>7, <1>2, <1>5, <3>1, <3>3, <3>4, <3>5, <3>6 DEF Messages, Usable, Verified, SameReads
    <3>8. Reads'
      BY <1>7, <1>2, <1>5, <3>1, <3>2 DEF Reads, Usable, SameReads
    <3>9. Heard' /\ Known' /\ Ended'
      BY <3>1, <3>2, <3>3 DEF SameReads
    <3>. QED
      BY <2>0, <3>1, <3>7, <3>8, <3>9
  <2>8. CASE Hears
    <3>1. /\ client.pc = "wait" /\ client'.pc = "answered" /\ SameReads
          /\ UNCHANGED <<client.exit, receipt, requests>>
      BY <2>8 DEF Hears
    <3>2. PICK a \in answers : /\ a.run = client.runs /\ client'.status = a.status
                               /\ answers' = answers \ {a}
      BY <2>8 DEF Hears
    <3>3. client.exit # 0
      BY <1>5, <3>1 DEF Reads
    <3>4. Told(client.sha, client.id, client'.status)
      BY <1>5, <3>2
    <3>5. Told(client.sha, client.id, client.status)'
      BY <1>2, <3>1, <3>4 DEF SameReads, Told
    <3>6. Reads' /\ Messages'
      BY <1>7, <1>2, <1>5, <3>1, <3>3 DEF Reads, Messages, Usable, Verified, SameReads
    <3>7. Heard' /\ Ended'
      BY <1>5, <1>6, <3>1, <3>2, <3>3 DEF SameReads
    <3>8. Known'
      BY <3>5
    <3>. QED
      BY <2>0, <3>1, <3>6, <3>7, <3>8
  <2>9. CASE StartsReceipt
    <3>1. /\ client.pc = "answered" /\ client'.pc = "receipt" /\ SameReads
          /\ UNCHANGED <<client.exit, client.status, receipt, requests, answers>>
      BY <2>9 DEF StartsReceipt, SameMessages
    <3>2. client.exit # 0
      BY <1>5, <3>1 DEF Reads
    <3>3. Reads' /\ Messages'
      BY <1>7, <1>2, <1>5, <3>1, <3>2 DEF Reads, Messages, Usable, Verified, SameReads
    <3>4. Heard' /\ Known' /\ Ended'
      BY <1>5, <1>6, <3>1, <3>2 DEF SameReads
    <3>. QED
      BY <2>0, <3>1, <3>3, <3>4
  <2>10. CASE Reports
    <3>1. /\ client.pc \in {"answered", "receipt"} /\ client'.pc = "idle" /\ SameReads
          /\ client'.exit = 8 \/ (client'.exit = 0 /\ Accepted(client.status))
          /\ UNCHANGED <<requests, answers>>
          /\ receipt' = receipt \/ receipt' = <<NewReceipt>>
      BY <2>10 DEF Reports
    <3>2. Told(client.sha, client.id, client.status) /\ client.sha = <<Head(client.sha)>>
      BY <1>5, <3>1 DEF TypedClient, AtMostOne
    <3>3. Reads' /\ Messages'
      BY <1>7, <1>2, <1>5, <3>1 DEF Reads, Messages, Usable, Verified, SameReads
    <3>4. Heard' /\ Known'
      BY <1>5, <1>6, <3>1 DEF SameReads
    <3>5. Ended'
      BY <1>2, <3>1, <3>2 DEF Told, SameReads
    <3>6. Sure(NewReceipt)
      BY <3>2 DEF NewReceipt
    <3>7. \A r \in ToSet(receipt') : Sure(r)
      <4>1. CASE receipt' = receipt
        BY <1>5, <4>1
      <4>2. CASE receipt' = <<NewReceipt>>
        BY <3>6, <4>2 DEF ToSet
      <4>. QED
        BY <3>1, <4>1, <4>2
    <3>8. Truthful'
      BY <1>4, <1>6, <3>4, <3>5, <3>7 DEF Truthful
    <3>. QED
      BY <3>3, <3>8
  <2>. QED
    BY <1>1, <2>1, <2>2, <2>3, <2>4, <2>5, <2>6, <2>7, <2>8, <2>9, <2>10
<1>. QED
  BY <1>3, <1>8 DEF Honest

(* Answers are about requests, and what they say is what the ledger holds. *)
LEMMA HonestNetwork ==
    ASSUME Typed, Honest, NEW r, NetworkNext(r)
    PROVE  Honest'
<1>0. Reads /\ Messages /\ Verified /\ \A b \in rows : Verifies(b)
  BY DEF Honest, Messages, Truthful
<1>1. /\ BuildUnchanged /\ UNCHANGED <<scratch, client, receipt>>
      /\ (r \in requests /\ TakesUp(r)) \/ Refuses(r) \/ Records(r)
  BY <1>0, NetworkStep
<1>2. given' = given /\ UNCHANGED <<builder, output, built, client, receipt>>
  BY <1>1 DEF BuildUnchanged, StoreUnchanged, buildVars
<1>3. given' \in Scenarios /\ Numbered'
  BY <1>2 DEF Honest, Numbered, Source
<1>4. /\ r \in requests \cup serving
      /\ rows \subseteq rows' /\ requests' \subseteq requests
      /\ serving' \subseteq serving \cup requests
  BY <1>1 DEF NetworkNext, TakesUp, Refuses, Records
<1>5. /\ r.run = client.runs => r.sha = client.sha /\ r.id = client.id
      /\ r.sha # <<>> /\ Source(r.sha)
      /\ Usable(r.sha) /\ r.body = r.sha => r.id = Head(r.sha).manifest.id
      /\ client.pc \in {"hash", "verify", "read", "post"} => r.run # client.runs
  BY <1>0, <1>4 DEF Messages
<1>6. Verified'
  BY <1>0, <1>1 DEF Verified, TakesUp, Refuses, Records
<1>7. \A sha, id, status : Told(sha, id, status) => Told(sha, id, status)'
  BY <1>4, ToldStays
<1>8. \A b \in rows' : b \in built' \cup ToSet(given'.output) /\ Verifies(b)
  <2>1. \A b \in rows : b \in built' \cup ToSet(given'.output) /\ Verifies(b)
    BY <1>2 DEF Honest, Truthful
  <2>2. ASSUME Records(r)
        PROVE  Head(r.body) \in built \cup ToSet(given.output) /\ Verifies(Head(r.body))
    <3>1. r.body = r.sha /\ Verifies(Head(r.body))
      BY <1>0, <2>2 DEF Records, Verified
    <3>2. given.output # <<>> => Head(given.output) \in ToSet(given.output)
      <4>1. AtMostOne(given.output)
        BY ScenariosAssumption DEF Honest, AtMostOne
      <4>2. \A x : x \in ToSet(<<x>>)
        BY DEF ToSet
      <4>. QED
        BY <4>1, <4>2 DEF AtMostOne
    <3>. QED
      BY <1>5, <3>1, <3>2 DEF Source
  <2>3. Records(r) \/ rows' = rows
    BY <1>1 DEF TakesUp, Refuses
  <2>. QED
    BY <1>2, <2>1, <2>2, <2>3 DEF Records
<1>9. answers' = answers \/ \E status : Answers(r, status) /\ Told(r.sha, r.id, status)'
  <2>1. ASSUME NEW status \in {302, 502, 400}
        PROVE  Told(r.sha, r.id, status)'
    BY DEF Told, Accepted
  <2>2. ASSUME r.body = r.sha, Head(r.body) \in rows
        PROVE  Told(r.sha, r.id, 200)'
    <3>1. Usable(r.sha)
      BY <1>0, <1>5, <2>2 DEF Usable
    <3>. QED
      BY <1>4, <1>5, <2>2, <3>1 DEF Told
  <2>3. ASSUME r.body = r.sha, NEW row \in rows,
               SampleIds(row) \cap SampleIds(Head(r.body)) # {}
        PROVE  Told(r.sha, r.id, 409)'
    BY <1>4, <2>3 DEF Told, Accepted
  <2>4. ASSUME Records(r)
        PROVE  Told(r.sha, r.id, 201)'
    BY <1>0, <2>4 DEF Told, Records, Verified
  <2>5. CASE Refuses(r)
    BY <2>1, <2>2, <2>3, <2>5 DEF Refuses
  <2>6. CASE Records(r)
    BY <2>4, <2>6 DEF Records
  <2>7. CASE TakesUp(r)
    BY <2>7 DEF TakesUp
  <2>. QED
    BY <1>1, <2>5, <2>6, <2>7
<1>10. \A a \in answers' :
          a \in answers \/ (a.run = r.run /\ Told(r.sha, r.id, a.status)')
  BY <1>9 DEF Answers
<1>11. Reads'
  BY <1>0, <1>2 DEF Reads, Usable, Passed, Source
<1>12. Messages'
  BY <1>0, <1>2, <1>4, <1>5, <1>6, <1>10 DEF Messages, Usable, Source
<1>13. \A a \in answers' : a.run = client.runs => Told(client.sha, client.id, a.status)'
  <2> SUFFICES ASSUME NEW a \in answers', a.run = client.runs
               PROVE  Told(client.sha, client.id, a.status)'
    OBVIOUS
  <2>1. CASE a \in answers
    <3>1. Told(client.sha, client.id, a.status)
      BY <2>1 DEF Honest, Truthful
    <3>. QED
      BY <1>2, <1>7, <3>1
  <2>2. CASE a.run = r.run /\ Told(r.sha, r.id, a.status)'
    BY <1>2, <1>5, <2>2
  <2>. QED
    BY <1>10, <2>1, <2>2
<1>14. /\ client.pc \in {"answered", "receipt"} => Told(client.sha, client.id, client.status)'
       /\ \A t \in ToSet(receipt) : /\ t.sha = <<Head(t.sha)>> /\ Told(t.sha, t.id, t.status)'
                                    /\ t.accepted = Accepted(t.status)
       /\ client.exit = 0 /\ ~given.dry => Head(client.sha) \in rows'
  BY <1>2, <1>4, <1>7 DEF Honest, Truthful
<1>15. Truthful'
  BY <1>2, <1>8, <1>13, <1>14 DEF Truthful
<1>. QED
  BY <1>3, <1>11, <1>12, <1>15 DEF Honest

HonestVars == <<given, builder, output, built, client, receipt, requests, answers, serving, rows>>

LEMMA HonestStep == Typed /\ Honest /\ [Next]_vars => Honest'
<1> SUFFICES ASSUME Typed, Honest, [Next]_vars PROVE Honest'
  OBVIOUS
<1>1. CASE UNCHANGED HonestVars
  <2>1. UNCHANGED <<given, builder, output, built, client, receipt, requests, answers,
                    serving, rows>>
    BY <1>1 DEF HonestVars
  <2>2. given' \in Scenarios /\ Numbered' /\ Reads'
    BY <2>1 DEF Honest, Numbered, Reads, Usable, Passed, Source
  <2>3. Messages'
    BY <2>1 DEF Honest, Messages, Verified, Usable, Source
  <2>4. Truthful'
    BY <2>1 DEF Honest, Truthful, Told
  <2>. QED
    BY <2>2, <2>3, <2>4 DEF Honest
<1>2. CASE \E p \in Savers : Store(p)
  <2>1. UNCHANGED <<given, buildVars, submitVars, serviceVars>>
    BY <1>2 DEF Store
  <2>. QED
    BY <1>1, <2>1 DEF HonestVars, buildVars, submitVars, serviceVars
<1>3. CASE StartBuild \/ BuildNext \/ CrashBuilder
  BY <1>3, HonestBuild
<1>4. CASE StartSubmit \/ SubmitNext \/ CrashClient
  BY <1>4, HonestSubmit
<1>5. CASE \E r : NetworkNext(r)
  BY <1>5, HonestNetwork
<1>6. CASE Terminated \/ UNCHANGED vars
  BY <1>1, <1>6 DEF Terminated, vars, HonestVars, buildVars, submitVars, serviceVars
<1>. QED
  BY <1>2, <1>3, <1>4, <1>5, <1>6 DEF Next, NetworkNext

(* A receipt that calls a bundle accepted, or says that another one holds a sample *)
(* of it, is right about the ledger for good, and an exit code of 0 means that the *)
(* bundle is recorded (submit_bundle), however messages and builds interleave.      *)
THEOREM ReceiptsTruthful == Spec => []ReceiptTruthful
<1>1. Spec => []Honest
  BY HonestInit, TypeSafety, HonestStep, PTL DEF Spec
<1>. QED
  BY <1>1, HonestImpliesTruthful, PTL

-----------------------------------------------------------------------------
(* What a build writes. *)

(* Every sample in a file, or on its way into one, is proper. *)
ProperStore ==
    /\ \A n \in DOMAIN files : IsSample(files[n].sample)
    /\ \A p \in Savers : saver[p].kind \in {"save", "dump"} => IsSample(saver[p].sample)

Rejected == Refused(builder.loaded, given.policy, given.root, given.evidence)

(* What a build has read: allowed samples with different IDs. *)
ProperLoaded ==
    /\ IsFiniteSet(builder.loaded)
    /\ \A s \in builder.loaded : IsSample(s) /\ (s.valid \/ given.policy.invalid)
    /\ \A s, t \in builder.loaded : s.id = t.id => s = t
    /\ builder.pc = "load" => builder.todo # {} \/ builder.loaded # {}
    /\ builder.pc = "replace" => builder.loaded # {} /\ ~Rejected

Sound(b) == BuildVerifies(b) /\ EvidenceSound(b) /\ ExceptionsRecorded(b)
BuildsSound == given \in Scenarios /\ ProperStore /\ ProperLoaded /\ \A b \in built : Sound(b)

(* A file comes from the scenario or from the job of a process. *)
LEMMA StoreProper ==
    ASSUME NEW p \in Savers, WellFormed, ProperStore, Store(p)
    PROVE  ProperStore'
<1>1. SameJobs
  BY StoreWellFormed
<1>2. \A q \in Savers : saver'[q].kind \in {"save", "dump"} => IsSample(saver'[q].sample)
  BY <1>1 DEF SameJobs, ProperStore
<1>3. \A n \in DOMAIN files' :
         \/ n \in DOMAIN files /\ files'[n] = files[n]
         \/ /\ saver[p].kind \in {"save", "dump"}
            /\ files'[n] = WholeFile(saver[p].sample) \/ files'[n] = Begun(p)
  BY DEF Store, SaverNext, CrashSaver, SaveCheck, WriteTemporary, Replace, DeleteCheck,
     Unlink, Truncate, Fill, Stored, At
<1>4. WholeFile(saver[p].sample).sample = saver[p].sample /\ Begun(p).sample = saver[p].sample
  BY DEF WholeFile, Begun
<1>5. \A n \in DOMAIN files' : IsSample(files'[n].sample)
  BY <1>3, <1>4 DEF ProperStore
<1>. QED
  BY <1>2, <1>5 DEF ProperStore

(* The steps of a build, by what they do to the samples it has read. *)
LEMMA LoadStep ==
    ASSUME TypedBuilder, StartBuild \/ BuildNext \/ CrashBuilder
    PROVE  \/ /\ builder'.pc = "idle" /\ builder'.loaded \in {{}, builder.loaded}
           \/ /\ builder'.pc = "load" /\ builder'.loaded = builder.loaded
              /\ builder'.todo # {}
           \/ /\ builder'.pc = "load"
              /\ \E name : /\ Loadable(name)
                           /\ builder'.loaded = builder.loaded \cup {files[name].sample}
           \/ /\ builder.pc = "load" /\ builder.todo = {} /\ ~Rejected
              /\ builder'.pc = "replace" /\ builder'.loaded = builder.loaded
<1>1. CASE StartBuild
  <2>1. PICK names : builder' = LET accepted == names \subseteq DOMAIN files
                                     /\ Cardinality(names) \in 1..MaxSamples
                     IN [builder EXCEPT
                          !.runs = @ + 1, !.exit = IF accepted THEN -1 ELSE 6,
                          !.pc = IF accepted THEN "load" ELSE "idle",
                          !.todo = IF accepted THEN names ELSE {}]
    BY <1>1 DEF StartBuild
  <2>2. Cardinality(names) \in 1..MaxSamples => names # {}
    BY FS_EmptySet
  <2>. QED
    BY <2>1, <2>2 DEF TypedBuilder, BuilderFields
<1>2. CASE \E exit : EndBuild(exit)
  BY <1>2, EndBuildStep
<1>3. CASE LoadSample /\ ~EndBuild(6)
  <2>1. PICK name \in builder.todo :
             /\ Loadable(name) /\ builder.pc = "load"
             /\ builder' = [builder EXCEPT !.todo = @ \ {name},
                                           !.loaded = @ \cup {files[name].sample}]
    BY <1>3 DEF LoadSample
  <2>. QED
    BY <2>1 DEF TypedBuilder, BuilderFields
<1>4. CASE WriteBundle /\ ~EndBuild(6)
  <2>1. /\ builder.pc = "load" /\ builder.todo = {} /\ ~Rejected
        /\ builder' = [builder EXCEPT !.pc = "replace"]
    BY <1>4 DEF WriteBundle, Rejected
  <2>. QED
    BY <2>1 DEF TypedBuilder, BuilderFields
<1>. QED
  BY <1>1, <1>2, <1>3, <1>4 DEF BuildNext, PublishBundle, CrashBuilder

(* What a build has read stays proper. *)
LEMMA LoadProper ==
    ASSUME TypedBuilder, ProperStore, ProperLoaded, StartBuild \/ BuildNext \/ CrashBuilder
    PROVE  ProperLoaded'
<1>1. given' = given
  BY BuildStep DEF StoreUnchanged
<1>2. CASE builder'.pc = "idle" /\ builder'.loaded \in {{}, builder.loaded}
  BY <1>1, <1>2, FS_EmptySet DEF ProperLoaded
<1>3. CASE /\ builder'.pc = "load" /\ builder'.loaded = builder.loaded /\ builder'.todo # {}
  BY <1>1, <1>3 DEF ProperLoaded
<1>4. ASSUME builder'.pc = "load", NEW name, Loadable(name),
             builder'.loaded = builder.loaded \cup {files[name].sample}
      PROVE  ProperLoaded'
  <2> DEFINE s == files[name].sample
  <2>1. IsSample(s) /\ (s.valid \/ given.policy.invalid) /\ \A t \in builder.loaded : t.id # s.id
    BY <1>4 DEF Loadable, ProperStore
  <2>2. IsFiniteSet(builder'.loaded)
    BY <1>4, FS_AddElement DEF ProperLoaded
  <2> HIDE DEF s
  <2>3. builder'.loaded = builder.loaded \cup {s}
    BY <1>4 DEF s
  <2>. QED
    BY <1>1, <1>4, <2>1, <2>2, <2>3 DEF ProperLoaded
<1>5. CASE /\ builder.pc = "load" /\ builder.todo = {} /\ ~Rejected
           /\ builder'.pc = "replace" /\ builder'.loaded = builder.loaded
  BY <1>1, <1>5 DEF ProperLoaded, Rejected
<1>. QED
  BY <1>2, <1>3, <1>4, <1>5, LoadStep

(* What build_bundle does not refuse is sound. *)
LEMMA NewBundleSound ==
    ASSUME given \in Scenarios, ProperLoaded, builder.pc = "replace"
    PROVE  Sound(NewBundle)
<1> DEFINE S == builder.loaded
           policy == given.policy
           root == given.root
           ev == given.evidence
           b == NewBundle
           b0 == Archive(S, policy, root, ev, 0)
<1>1. Built(b, S, policy, root, ev) /\ Built(b0, S, policy, root, ev)
  BY DEF Built, NewBundle
<1>2. Proper(S, ev)
  <2>1. \A place \in DOMAIN ev : /\ IsFiniteSet(ev[place].json)
                                 /\ \A item \in ev[place].json : ProperItem(item)
    BY ContentAssumption DEF IsItem, ProperItem
  <2>2. \A s \in S : ProperSample(s)
    BY DEF ProperLoaded, IsSample, ProperSample
  <2>. QED
    BY <2>1, <2>2 DEF ProperLoaded, Proper
<1>3. S # {} /\ (\A s \in S : s.valid \/ policy.invalid) /\ ~Refused(S, policy, root, ev)
  BY DEF ProperLoaded, Rejected
<1> HIDE DEF S, policy, root, ev
<1>4. TotalSize(b.entries) <= MaxPayload
  <2>1. b.entries = b0.entries
    <3>1. b.entries = EntriesOf(S, root, ev)
      BY <1>1, ArchiveFields
    <3>2. b0.entries = EntriesOf(S, root, ev)
      BY <1>1, ArchiveFields
    <3>. QED
      BY <3>1, <3>2
  <2>2. TotalSize(b0.entries) \in Nat
    BY <1>1, <1>2, ArchiveFinite
  <2>3. ~(TotalSize(b0.entries) > MaxPayload)
    BY <1>3 DEF Refused
  <2>4. MaxPayload \in Nat
    BY BundlesAssumption
  <2> HIDE DEF b0, b
  <2>. QED
    BY <2>1, <2>2, <2>3, <2>4
<1>5. \A s \in S : \A ref \in ToSet(s.raw) : Found(ref, root, ev) # {} \/ policy.missing
  BY <1>3 DEF Refused
<1> HIDE DEF b, b0
<1>6. BuildVerifies(b)
  <2>1. CASE Within(b)
    <3>1. Verifies(b)
      BY <1>1, <1>2, <1>3, <1>4, <2>1, ArchiveVerifies
    <3>. QED
      BY <3>1 DEF BuildVerifies
  <2>2. CASE ~Within(b)
    <3>1. Cardinality(b.entries) \in Nat /\ ManifestSize(b.manifest) \in Nat
      <4>1. IsFiniteSet(b.entries) /\ ManifestSize(b.manifest) \in Nat
        BY <1>1, <1>2, ArchiveFinite
      <4>. QED
        BY <4>1, FS_CardinalityType
    <3>2. MaxEntries \in Nat /\ MaxManifest \in Nat
      BY BundlesAssumption
    <3>. QED
      BY <2>2, <3>1, <3>2 DEF Within, BuildVerifies
  <2>. QED
    BY <2>1, <2>2
<1>7. EvidenceSound(b)
  <2> SUFFICES ASSUME NEW f \in b.manifest.files, f.path[1] = "raw",
                      NEW json, json = ContentAt(b, f.path).json
               PROVE  /\ \A item \in json : /\ item.leaf # "url_with_secret"
                                            /\ Sensitive(item) => item.leaf = "[REDACTED]"
                      /\ \E place \in DOMAIN given.evidence :
                            /\ place.name = f.path[4] /\ place.base # "outside"
                            /\ Public(given.evidence[place].json) \subseteq json
                            /\ f.redactions = 0 => given.evidence[place].json = json
    BY DEF EvidenceSound
  <2>1. PICK place \in DOMAIN ev :
             /\ place.name = f.path[4] /\ place.base # "outside"
             /\ \A item \in json : /\ item.leaf # "url_with_secret"
                                   /\ SecretAt(item.at) => item.leaf = "[REDACTED]"
             /\ \A item \in ev[place].json :
                   ~SecretAt(item.at) /\ item.leaf # "url_with_secret" => item \in json
             /\ f.redactions = 0 => ev[place].json = json
    BY <1>1, <1>2, EvidenceKept
  <2>2. \A item : Sensitive(item) <=> SecretAt(item.at)
    BY DEF Sensitive, SecretAt
  <2>3. Public(ev[place].json) \subseteq json
    BY <2>1, <2>2 DEF Public
  <2>. QED
    BY <2>1, <2>2, <2>3 DEF ev
<1>8. ExceptionsRecorded(b)
  <2> SUFFICES ASSUME NEW l \in b.manifest.samples,
                      NEW sample, sample = ContentAt(b, l.path).sample
               PROVE  /\ ~sample.valid =>
                         /\ b.manifest.policy.invalid
                         /\ \E w \in b.manifest.warnings :
                               w[1] = "invalid_sample_included" /\ w[2] = sample.id
                      /\ Cardinality(l.raw) < Cardinality(ToSet(sample.raw)) =>
                         /\ b.manifest.policy.missing
                         /\ \E w \in b.manifest.warnings :
                               w[1] = "missing_raw_evidence" /\ w[2] = sample.id
    BY DEF ExceptionsRecorded
  <2>1. b.manifest.policy = policy
    BY <1>1, ArchiveFields
  <2>2. /\ ~sample.valid =>
           /\ policy.invalid
           /\ <<"invalid_sample_included", sample.id>> \in b.manifest.warnings
        /\ Cardinality(l.raw) < Cardinality(ToSet(sample.raw)) =>
           /\ policy.missing
           /\ \E ref : <<"missing_raw_evidence", sample.id, ref.name>> \in b.manifest.warnings
    BY <1>1, <1>2, <1>3, <1>5, ExceptionsListed
  <2>. QED
    BY <2>1, <2>2
<1>. QED
  BY <1>6, <1>7, <1>8 DEF Sound, b

LEMMA BuildsSoundInit == Init => BuildsSound
<1> SUFFICES ASSUME Init PROVE BuildsSound
  OBVIOUS
<1>1. given \in Scenarios /\ files = given.files /\ saver = given.savers /\ built = {}
  BY DEF Init
<1>2. builder = [pc |-> "idle", todo |-> {}, loaded |-> {}, exit |-> -1, runs |-> 0]
  BY DEF Init
<1>3. ProperStore
  BY <1>1, ContentAssumption DEF ProperStore
<1>4. ProperLoaded
  BY <1>2, FS_EmptySet DEF ProperLoaded
<1>. QED
  BY <1>1, <1>3, <1>4 DEF BuildsSound

LEMMA BuildsSoundStep == Typed /\ BuildsSound /\ [Next]_vars => BuildsSound'
<1> SUFFICES ASSUME Typed, BuildsSound, [Next]_vars PROVE BuildsSound'
  OBVIOUS
<1>0. WellFormed /\ TypedBuilder /\ ProperStore /\ ProperLoaded /\ \A b \in built : Sound(b)
  BY DEF Typed, BuildsSound
<1>1. given' = given => \A b : Sound(b) => Sound(b)'
  <2> SUFFICES ASSUME given' = given, NEW b, Sound(b)
               PROVE  Sound(b)'
    OBVIOUS
  <2>1. BuildVerifies(b)'
    BY DEF Sound, BuildVerifies
  <2>2. EvidenceSound(b)'
    BY DEF Sound, EvidenceSound
  <2>3. ExceptionsRecorded(b)'
    BY DEF Sound, ExceptionsRecorded
  <2>. QED
    BY <2>1, <2>2, <2>3 DEF Sound
<1>2. ASSUME UNCHANGED <<files, saver, given>>
      PROVE  ProperStore'
  BY <1>0, <1>2 DEF ProperStore
<1>3. ASSUME UNCHANGED <<given, builder, built>>
      PROVE  ProperLoaded' /\ \A b \in built' : Sound(b)'
  BY <1>0, <1>1, <1>3 DEF ProperLoaded, Rejected
<1>4. ASSUME NEW p \in Savers, Store(p)
      PROVE  BuildsSound'
  <2>1. UNCHANGED <<given, builder, built>>
    BY <1>4 DEF Store, buildVars
  <2>2. ProperStore'
    BY <1>0, <1>4, StoreProper
  <2>. QED
    BY <1>3, <2>1, <2>2 DEF BuildsSound
<1>5. CASE StartBuild \/ BuildNext \/ CrashBuilder
  <2>1. /\ UNCHANGED <<files, saver, given>>
        /\ built' = built \/ (builder.pc = "replace" /\ built' = built \cup {NewBundle})
    BY <1>0, <1>5, BuildStep DEF StoreUnchanged
  <2>2. ProperLoaded'
    BY <1>0, <1>5, LoadProper
  <2>3. \A b \in built' : Sound(b)
    BY <1>0, <2>1, NewBundleSound DEF BuildsSound
  <2>. QED
    BY <1>1, <1>2, <2>1, <2>2, <2>3 DEF BuildsSound
<1>6. CASE UNCHANGED <<files, saver, given, builder, built>>
  BY <1>2, <1>3, <1>6 DEF BuildsSound
<1>7. CASE StartSubmit \/ SubmitNext \/ CrashClient
  BY <1>6, <1>7, SubmitStep DEF Typed, BuildUnchanged, StoreUnchanged, buildVars
<1>8. ASSUME NEW r, NetworkNext(r)
      PROVE  BuildsSound'
  BY <1>6, <1>8, NetworkStep DEF BuildUnchanged, StoreUnchanged, buildVars
<1>9. CASE UNCHANGED vars
  BY <1>6, <1>9 DEF vars, storeVars, buildVars
<1>. QED
  BY <1>4, <1>5, <1>7, <1>8, <1>9 DEF Next, NetworkNext, Terminated

(* Every bundle that a build wrote, whatever other processes did to the directory  *)
(* meanwhile, passes verify_bundle within the limits that build_bundle does not    *)
(* check, holds no secret, lacks nothing else of its evidence and records every    *)
(* exception in its warnings and policy.                                           *)
THEOREM BundlesAreSound == Spec => []BundlesSound
<1>1. BuildsSound => BundlesSound
  BY DEF BuildsSound, Sound, BundlesSound
<1>. QED
  BY <1>1, BuildsSoundInit, TypeSafety, BuildsSoundStep, PTL DEF Spec
=============================================================================
