----------------------------- MODULE Ingestion -----------------------------
(***************************************************************************)
(* Backend Ingestion v1 (src/platform/cloudeyes_platform): the handler      *)
(* threads of one ThreadingHTTPServer that share a SQLite repository        *)
(* (repository.py), a content-addressed bundle store (storage.py), a        *)
(* quarantine directory (quarantine.py) and a spool directory for request   *)
(* bodies (server.py).                                                      *)
(*                                                                          *)
(* A thread's program counter pc[t] names the next step of do_POST, ingest, *)
(* put or persist.  One action is one access to shared state (one SQL       *)
(* statement or transaction boundary, one file system call that others can  *)
(* see) with the thread-local code around it.                               *)
(***************************************************************************)
EXTENDS Integers, Sequences, FiniteSets

CONSTANTS
    Threads,          \* handler threads
    Payloads,         \* request bodies
    Digests,          \* SHA-256 values
    SubmissionIds,    \* "submission-" and the first 24 characters of a digest
    BundleIds,        \* manifest bundle IDs
    SampleIds,        \* sample IDs
    RawPaths,         \* archive paths of raw evidence
    Content,          \* what a payload contains, see ContentType
    Requests,         \* the requests clients send, see RequestType
    MaxRequestBytes,  \* IngestionConfig.max_request_bytes
    Faults,           \* environment faults that may occur, see FaultKinds
    MaxCrashes,       \* bound: how often the process is killed and restarted
    None              \* "no value": a missing or malformed header, no writer

FaultKinds ==
    {"busy",          \* BEGIN IMMEDIATE waits longer than busy_timeout
     "database",      \* a SQL statement raises sqlite3.OperationalError
     "disk",          \* a file system call raises OSError
     "corruption"}    \* a stored bundle's bytes change behind the service

(***************************************************************************)
(* A payload's bytes, abstracted to what ingest computes from them:         *)
(* `verified' stands for verify_bundle and the canonical re-encoding check. *)
(***************************************************************************)
ContentType ==
    [sha : Digests, sid : SubmissionIds, id : BundleIds,
     samples : SUBSET SampleIds, raw : Seq(RawPaths), verified : BOOLEAN]

(***************************************************************************)
(* A request as do_POST and ingest see it.  `length' is Content-Length, -1  *)
(* when it is not an integer; key, sha and id are the digest and ID headers.*)
(***************************************************************************)
RequestType ==
    [route : BOOLEAN, auth : BOOLEAN, chunked : BOOLEAN, lengthGiven : BOOLEAN,
     length : Int, payload : Payloads, media : BOOLEAN,
     key : Digests \cup {None}, sha : Digests \cup {None},
     id : BundleIds \cup {None}]

ASSUME ContentAssumption ==
    /\ Content \in [Payloads -> ContentType]
    /\ \A p, q \in Payloads : Content[p].sha = Content[q].sha => p = q
    /\ \A p \in Payloads : Content[p].verified => Content[p].samples # {}

ASSUME RequestAssumption == Requests \subseteq RequestType /\ Requests # {}

ASSUME BoundAssumption ==
    /\ MaxRequestBytes \in Nat
    /\ MaxCrashes \in Nat
    /\ Faults \subseteq FaultKinds

ASSUME NoneAssumption ==
    None \notin Threads \cup Digests \cup BundleIds

VARIABLES
    pc,           \* next step of each handler thread
    req,          \* the request each thread handles, or handled last
    created,      \* ingest's local `created': this thread put the bundle in place
    reply,        \* code of the last response, "dropped" for a closed connection
    writer,       \* holder of SQLite's write lock
    submissions,  \* committed rows of table submissions
    samples,      \* committed rows of table samples
    evidence,     \* committed rows of table evidence
    store,        \* state of bundles/<sha-prefix>/<sha>.zip for every digest
    spool,        \* files of tmp/: the threads they belong to, None if to no request
    partial,      \* bundles/.../.<sha>.*.tmp files, likewise
    quarantined,  \* metadata records of quarantine/
    crashes,      \* how often the process was killed
    acks          \* history: number of "accepted" responses per digest

tables == <<submissions, samples, evidence>>
files == <<store, spool, partial, quarantined>>
vars == <<pc, req, created, reply, writer, tables, files, crashes, acks>>

Steps == {"idle", "body", "ingest", "quarantine", "lookup_key", "lookup_sha",
          "verify", "conflicts", "exists", "hash", "copy", "replace", "begin",
          "insert", "commit", "integrity", "discard", "undo", "respond"}

(* Error codes of do_POST before the body, of ingest's headers, of quarantine. *)
AdmissionCodes == {"not_found", "unauthorized", "unsupported_transfer_encoding",
                   "content_length_required", "invalid_content_length",
                   "request_too_large"}
HeaderCodes == {"empty_request_body", "request_too_large", "unsupported_media_type",
                "invalid_request_digest", "invalid_bundle_id",
                "idempotency_digest_conflict"}
Reasons == {"bundle_digest_mismatch", "invalid_bundle"}

(* The codes and receipts that end a request; "none" while there is no answer. *)
Codes == AdmissionCodes \cup HeaderCodes \cup Reasons \cup
         {"none", "dropped", "accepted", "duplicate", "incomplete_request_body",
          "storage_failure", "idempotency_key_reused", "sample_already_ingested",
          "ingestion_conflict"}

(* Every variable, row, answer and file name stays in its domain. *)
TypeOK ==
    /\ pc \in [Threads -> Steps]
    /\ req \in [Threads -> Requests]
    /\ created \in [Threads -> BOOLEAN]
    /\ reply \in [Threads -> Codes]
    /\ writer \in Threads \cup {None}
    /\ submissions \subseteq [sid : SubmissionIds, sha : Digests, key : Digests]
    /\ samples \subseteq [id : SampleIds, sid : SubmissionIds]
    /\ evidence \subseteq [sid : SubmissionIds, path : RawPaths]
    /\ store \in [Digests -> {"absent", "whole", "corrupt"}]
    /\ spool \subseteq Threads \cup {None}
    /\ partial \subseteq Threads \cup {None}
    /\ quarantined \subseteq [sha : Digests, reason : Reasons]
    /\ crashes \in Nat
    /\ acks \in [Digests -> Nat]

-----------------------------------------------------------------------------
(* The payload of a thread's request, and tables derived from it. *)

Bundle(t) == Content[req[t].payload]
Sha(t) == Bundle(t).sha

RowOf(t) == [sid |-> Bundle(t).sid, sha |-> Sha(t), key |-> req[t].key]
SampleRows(t) == {[id |-> s, sid |-> Bundle(t).sid] : s \in Bundle(t).samples}
EvidenceRows(t) == {[sid |-> Bundle(t).sid, path |-> Bundle(t).raw[i]] :
                        i \in DOMAIN Bundle(t).raw}

ByKey(k) == {r \in submissions : r.key = k}
BySha(d) == {r \in submissions : r.sha = d}
ExistingSamples(S) == {s \in samples : s.id \in S}

(***************************************************************************)
(* Two entries of one bundle naming the same archive path break the primary *)
(* key (submission_id, archive_path) of table evidence.                     *)
(***************************************************************************)
RepeatsRawPath(b) ==
    \E i, j \in DOMAIN b.raw : i # j /\ b.raw[i] = b.raw[j]

(* Mutant of Conflicts: table samples without its primary key. *)
ConflictsWithoutSampleKey(t) ==
    \/ \E r \in submissions : r.sid = Bundle(t).sid \/ r.sha = Sha(t)
    \/ RepeatsRawPath(Bundle(t))

(* The inserts of thread t's transaction raise sqlite3.IntegrityError. *)
Conflicts(t) ==
    \/ \E r \in submissions : \/ r.sid = Bundle(t).sid
                              \/ r.sha = Sha(t)
                              \/ r.key = req[t].key
    \/ ExistingSamples(Bundle(t).samples) # {}
    \/ RepeatsRawPath(Bundle(t))

(***************************************************************************)
(* Ordered validation: a sequence of checks, of which the first that fails  *)
(* decides the error code.                                                  *)
(***************************************************************************)
Check(holds, code) == [holds |-> holds, code |-> code]
Passes(checks) == \A i \in DOMAIN checks : checks[i].holds
FailureCode(checks) ==
    LET failed == {i \in DOMAIN checks : ~checks[i].holds}
    IN  checks[CHOOSE i \in failed : \A j \in failed : i <= j].code

(* do_POST before a byte of the body is read. *)
Admission(q) ==
    << Check(q.route, "not_found"),
       Check(q.auth, "unauthorized"),
       Check(~q.chunked, "unsupported_transfer_encoding"),
       Check(q.lengthGiven, "content_length_required"),
       Check(q.length > 0, "invalid_content_length"),
       Check(q.length <= MaxRequestBytes, "request_too_large") >>

(* Mutant of Headers: the idempotency key is neither required nor compared. *)
HeadersWithoutKey(q) ==
    << Check(q.length > 0, "empty_request_body"),
       Check(q.length <= MaxRequestBytes, "request_too_large"),
       Check(q.media, "unsupported_media_type"),
       Check(q.sha # None, "invalid_request_digest"),
       Check(q.id # None, "invalid_bundle_id") >>

(* ingest before the payload is hashed. *)
Headers(q) ==
    << Check(q.length > 0, "empty_request_body"),
       Check(q.length <= MaxRequestBytes, "request_too_large"),
       Check(q.media, "unsupported_media_type"),
       Check(q.key # None, "invalid_request_digest"),
       Check(q.sha # None, "invalid_request_digest"),
       Check(q.id # None, "invalid_bundle_id"),
       Check(q.key = q.sha, "idempotency_digest_conflict") >>

(* The reason code under which a rejected body is quarantined. *)
Rejection(t) ==
    IF Sha(t) = req[t].sha THEN "invalid_bundle" ELSE "bundle_digest_mismatch"

-----------------------------------------------------------------------------
(* Steps shared by several actions. *)

Goto(t, step) == pc' = [pc EXCEPT ![t] = step]

(***************************************************************************)
(* What the removal of a scratch file leaves: nothing, or, when unlink      *)
(* raises an OSError, the file, which is no request's any more.             *)
(***************************************************************************)
Leftovers == {{}} \cup (IF "disk" \in Faults THEN {{None}} ELSE {})

(* Scratch files after a crash: those that are left belong to no request. *)
Orphaned(scratch) == IF scratch = {} THEN {} ELSE {None}

(* The handler answers, and the finally block unlinks the spooled body. *)
Finish(t, code) ==
    /\ Goto(t, "idle")
    /\ reply' = [reply EXCEPT ![t] = code]
    /\ \E left \in Leftovers : spool' = (spool \ {t}) \cup left

(* The handler leaves the transaction: rollback releases the write lock. *)
ReleaseLock(t) == writer' = IF writer = t THEN None ELSE writer

-----------------------------------------------------------------------------
(* do_POST: admission and the request body. *)

Receive(t, q) ==
    /\ pc[t] = "idle"
    /\ req' = [req EXCEPT ![t] = q]
    /\ created' = [created EXCEPT ![t] = FALSE]
    /\ \/ /\ ~Passes(Admission(q))
          /\ reply' = [reply EXCEPT ![t] = FailureCode(Admission(q))]
          /\ UNCHANGED <<pc, spool>>
       \/ /\ Passes(Admission(q))
          /\ Goto(t, "body")
          /\ spool' = spool \cup {t}
          /\ reply' = [reply EXCEPT ![t] = "none"]
       \/ /\ Passes(Admission(q))   \* mkstemp fails, outside of the try block
          /\ "disk" \in Faults
          /\ reply' = [reply EXCEPT ![t] = "dropped"]
          /\ UNCHANGED <<pc, spool>>
    /\ UNCHANGED <<writer, tables, store, partial, quarantined, crashes, acks>>

ReadBody(t) ==
    /\ pc[t] = "body"
    /\ Goto(t, "ingest")
    /\ UNCHANGED <<req, created, reply, writer, tables, files, crashes, acks>>

(* The client stops sending before Content-Length bytes were read. *)
BodyEnds(t) ==
    /\ pc[t] = "body"
    /\ Finish(t, "incomplete_request_body")
    /\ UNCHANGED <<req, created, writer, tables, store, partial, quarantined,
                   crashes, acks>>

(* Spooling the body, or hashing it, fails: the handler answers 500. *)
SpoolFails(t) ==
    /\ "disk" \in Faults
    /\ pc[t] \in {"body", "ingest"}
    /\ Finish(t, "storage_failure")
    /\ UNCHANGED <<req, created, writer, tables, store, partial, quarantined,
                   crashes, acks>>

-----------------------------------------------------------------------------
(* ingest: header validation, deduplication, verification. *)

ValidateHeaders(t) ==
    /\ pc[t] = "ingest"
    /\ IF Passes(Headers(req[t]))
       THEN /\ Goto(t, IF Sha(t) = req[t].sha THEN "lookup_key" ELSE "quarantine")
            /\ UNCHANGED <<reply, spool>>
       ELSE Finish(t, FailureCode(Headers(req[t])))
    /\ UNCHANGED <<req, created, writer, tables, store, partial, quarantined,
                   crashes, acks>>

LookupKey(t) ==
    /\ pc[t] = "lookup_key"
    /\ IF ByKey(req[t].key) = {}
       THEN /\ Goto(t, "lookup_sha")
            /\ UNCHANGED <<reply, spool>>
       ELSE Finish(t, IF \A r \in ByKey(req[t].key) : r.sha = Sha(t)
                      THEN "duplicate" ELSE "idempotency_key_reused")
    /\ UNCHANGED <<req, created, writer, tables, store, partial, quarantined,
                   crashes, acks>>

LookupSha(t) ==
    /\ pc[t] = "lookup_sha"
    /\ IF BySha(Sha(t)) = {}
       THEN /\ Goto(t, "verify")
            /\ UNCHANGED <<reply, spool>>
       ELSE Finish(t, "duplicate")
    /\ UNCHANGED <<req, created, writer, tables, store, partial, quarantined,
                   crashes, acks>>

(* Mutant of Verify: the declared bundle ID is compared, the content is not. *)
VerifyIdOnly(t) ==
    /\ pc[t] = "verify"
    /\ Goto(t, IF Bundle(t).id = req[t].id THEN "conflicts" ELSE "quarantine")
    /\ UNCHANGED <<req, created, reply, writer, tables, files, crashes, acks>>

(* A bundle that cannot be read back is rejected like one that does not verify. *)
Verify(t) ==
    /\ pc[t] = "verify"
    /\ \/ Goto(t, IF Bundle(t).verified /\ Bundle(t).id = req[t].id
                  THEN "conflicts" ELSE "quarantine")
       \/ "disk" \in Faults /\ Goto(t, "quarantine")
    /\ UNCHANGED <<req, created, reply, writer, tables, files, crashes, acks>>

CheckConflicts(t) ==
    /\ pc[t] = "conflicts"
    /\ IF ExistingSamples(Bundle(t).samples) = {}
       THEN /\ Goto(t, "exists")
            /\ UNCHANGED <<reply, spool>>
       ELSE Finish(t, "sample_already_ingested")
    /\ UNCHANGED <<req, created, writer, tables, store, partial, quarantined,
                   crashes, acks>>

(* _reject_and_quarantine; the rejection stands when the record cannot be written. *)
Quarantine(t) ==
    /\ pc[t] = "quarantine"
    /\ \/ quarantined' = quarantined \cup
              {[sha |-> Sha(t), reason |-> Rejection(t)]}
       \/ "disk" \in Faults /\ UNCHANGED quarantined
    /\ Finish(t, Rejection(t))
    /\ UNCHANGED <<req, created, writer, tables, store, partial, crashes, acks>>

-----------------------------------------------------------------------------
(* BundleStore.put *)

PutExists(t) ==
    /\ pc[t] = "exists"
    /\ Goto(t, IF store[Sha(t)] = "absent" THEN "copy" ELSE "hash")
    /\ UNCHANGED <<req, created, reply, writer, tables, files, crashes, acks>>

(***************************************************************************)
(* read_bytes and the digest comparison.  The file may be gone by now       *)
(* (FileNotFoundError is an OSError), or hold other bytes.                  *)
(***************************************************************************)
PutHash(t) ==
    /\ pc[t] = "hash"
    /\ IF store[Sha(t)] = "whole"
       THEN /\ Goto(t, "begin")
            /\ UNCHANGED <<reply, spool>>
       ELSE Finish(t, "storage_failure")
    /\ UNCHANGED <<req, created, writer, tables, store, partial, quarantined,
                   crashes, acks>>

(* Mutant of PutCopy: the bytes are copied straight to the destination. *)
PutCopyInPlace(t) ==
    /\ pc[t] = "copy"
    /\ Goto(t, "replace")
    /\ partial' = partial \cup {t}
    /\ store' = [store EXCEPT ![Sha(t)] = "corrupt"]
    /\ UNCHANGED <<req, created, reply, writer, tables, spool, quarantined,
                   crashes, acks>>

(* Copy to a temporary file beside the destination, fsync, hash again. *)
PutCopy(t) ==
    /\ pc[t] = "copy"
    /\ Goto(t, "replace")
    /\ partial' = partial \cup {t}
    /\ UNCHANGED <<req, created, reply, writer, tables, store, spool,
                   quarantined, crashes, acks>>

PutReplace(t) ==
    /\ pc[t] = "replace"
    /\ Goto(t, "begin")
    /\ store' = [store EXCEPT ![Sha(t)] = "whole"]
    /\ partial' = partial \ {t}
    /\ created' = [created EXCEPT ![t] = TRUE]
    /\ UNCHANGED <<req, reply, writer, tables, spool, quarantined, crashes, acks>>

(* Mutant of PutFails: the temporary file is not removed. *)
PutFailsKeepsPartial(t) ==
    /\ "disk" \in Faults
    /\ pc[t] \in {"exists", "hash", "copy", "replace"}
    /\ Finish(t, "storage_failure")
    /\ UNCHANGED <<req, created, writer, tables, store, partial, quarantined,
                   crashes, acks>>

(***************************************************************************)
(* Any file operation of put fails; `created' was never assigned.  The      *)
(* temporary file, if there is one, is unlinked, which may fail as well.    *)
(***************************************************************************)
PutFails(t) ==
    /\ "disk" \in Faults
    /\ pc[t] \in {"exists", "hash", "copy", "replace"}
    /\ Finish(t, "storage_failure")
    /\ \E left \in IF pc[t] \in {"copy", "replace"} THEN Leftovers ELSE {{}} :
          partial' = (partial \ {t}) \cup left
    /\ UNCHANGED <<req, created, writer, tables, store, quarantined, crashes, acks>>

-----------------------------------------------------------------------------
(* IngestionRepository.persist: one BEGIN IMMEDIATE transaction. *)

(* Mutant of Begin: a deferred transaction, which does not wait for the writer. *)
BeginDeferred(t) ==
    /\ pc[t] = "begin"
    /\ writer' = t
    /\ Goto(t, "insert")
    /\ UNCHANGED <<req, created, reply, tables, files, crashes, acks>>

Begin(t) ==
    /\ pc[t] = "begin"
    /\ writer = None
    /\ writer' = t
    /\ Goto(t, "insert")
    /\ UNCHANGED <<req, created, reply, tables, files, crashes, acks>>

(* The three inserts, invisible to others until the commit. *)
Insert(t) ==
    /\ pc[t] = "insert"
    /\ IF Conflicts(t)
       THEN Goto(t, "integrity") /\ ReleaseLock(t)
       ELSE Goto(t, "commit") /\ UNCHANGED writer
    /\ UNCHANGED <<req, created, reply, tables, files, crashes, acks>>

Commit(t) ==
    /\ pc[t] = "commit"
    /\ submissions' = submissions \cup {RowOf(t)}
    /\ samples' = samples \cup SampleRows(t)
    /\ evidence' = evidence \cup EvidenceRows(t)
    /\ ReleaseLock(t)
    /\ Goto(t, "respond")
    /\ UNCHANGED <<req, created, reply, files, crashes, acks>>

Respond(t) ==
    /\ pc[t] = "respond"
    /\ Finish(t, "accepted")
    /\ acks' = [acks EXCEPT ![Sha(t)] = @ + 1]
    /\ UNCHANGED <<req, created, writer, tables, store, partial, quarantined,
                   crashes>>

(* The client is gone: neither the receipt nor the 500 that follows is sent. *)
ResponseLost(t) ==
    /\ pc[t] = "respond"
    /\ Finish(t, "dropped")
    /\ UNCHANGED <<req, created, writer, tables, store, partial, quarantined,
                   crashes, acks>>

(* Mutant of IntegrityLookup: every integrity error is taken for a conflict. *)
IntegrityWithoutLookup(t) ==
    /\ pc[t] = "integrity"
    /\ Goto(t, "discard")
    /\ UNCHANGED <<req, created, reply, writer, tables, files, crashes, acks>>

(* except sqlite3.IntegrityError: a concurrent copy of the bundle, or a conflict. *)
IntegrityLookup(t) ==
    /\ pc[t] = "integrity"
    /\ IF BySha(Sha(t)) # {}
       THEN Finish(t, "duplicate")
       ELSE /\ Goto(t, "discard")
            /\ UNCHANGED <<reply, spool>>
    /\ UNCHANGED <<req, created, writer, tables, store, partial, quarantined,
                   crashes, acks>>

(***************************************************************************)
(* Unlink the stored bundle if this thread put it there, then answer.       *)
(* An OSError of unlink replaces the answer.                                *)
(***************************************************************************)
UnlinkAndFinish(t, code) ==
    \/ /\ store' = IF created[t] THEN [store EXCEPT ![Sha(t)] = "absent"] ELSE store
       /\ Finish(t, code)
    \/ /\ "disk" \in Faults
       /\ created[t]
       /\ UNCHANGED store
       /\ Finish(t, "storage_failure")

(* Mutant of Discard: the stored bundle is left behind. *)
DiscardKeepsBundle(t) ==
    /\ pc[t] = "discard"
    /\ Finish(t, "ingestion_conflict")
    /\ UNCHANGED <<req, created, writer, tables, store, partial, quarantined,
                   crashes, acks>>

Discard(t) ==
    /\ pc[t] = "discard"
    /\ UnlinkAndFinish(t, "ingestion_conflict")
    /\ UNCHANGED <<req, created, writer, tables, partial, quarantined, crashes, acks>>

(* Mutant of BusyTimeout: BEGIN IMMEDIATE waits without a limit. *)
BusyNeverTimesOut(t) == FALSE

(* The write lock stayed taken for the whole of busy_timeout. *)
BusyTimeout(t) ==
    /\ "busy" \in Faults
    /\ pc[t] = "begin"
    /\ writer # None
    /\ Goto(t, "undo")
    /\ UNCHANGED <<req, created, reply, writer, tables, files, crashes, acks>>

PersistFails(t) ==
    /\ "database" \in Faults
    /\ pc[t] \in {"begin", "insert", "commit"}
    /\ Goto(t, "undo")
    /\ ReleaseLock(t)
    /\ UNCHANGED <<req, created, reply, tables, files, crashes, acks>>

(***************************************************************************)
(* except BaseException: unlink and re-raise.  do_POST catches only         *)
(* IngestionError and OSError, so the connection closes without a response. *)
(***************************************************************************)
Undo(t) ==
    /\ pc[t] = "undo"
    /\ UnlinkAndFinish(t, "dropped")
    /\ UNCHANGED <<req, created, writer, tables, partial, quarantined, crashes, acks>>

(* A SELECT raises sqlite3.OperationalError, which nothing in do_POST catches. *)
LookupFails(t) ==
    /\ "database" \in Faults
    /\ pc[t] \in {"lookup_key", "lookup_sha", "conflicts", "integrity"}
    /\ Finish(t, "dropped")
    /\ UNCHANGED <<req, created, writer, tables, store, partial, quarantined,
                   crashes, acks>>

-----------------------------------------------------------------------------
(* The environment. *)

(***************************************************************************)
(* The process is killed and restarted; Ctrl-C is the same for the daemon   *)
(* handler threads.  No finally block runs, and nothing ever removes the    *)
(* scratch files of the requests that were in progress; SQLite rolls back.  *)
(***************************************************************************)
Crash ==
    /\ crashes < MaxCrashes
    /\ crashes' = crashes + 1
    /\ pc' = [t \in Threads |-> "idle"]
    /\ reply' = [t \in Threads |-> IF pc[t] = "idle" THEN reply[t] ELSE "dropped"]
    /\ writer' = None
    /\ spool' = Orphaned(spool)
    /\ partial' = Orphaned(partial)
    /\ UNCHANGED <<req, created, tables, store, quarantined, acks>>

Corrupt(d) ==
    /\ "corruption" \in Faults
    /\ store[d] = "whole"
    /\ store' = [store EXCEPT ![d] = "corrupt"]
    /\ UNCHANGED <<pc, req, created, reply, writer, tables, spool, partial,
                   quarantined, crashes, acks>>

-----------------------------------------------------------------------------
Init ==
    /\ pc = [t \in Threads |-> "idle"]
    /\ req \in [Threads -> {CHOOSE q \in Requests : TRUE}]
    /\ created = [t \in Threads |-> FALSE]
    /\ reply = [t \in Threads |-> "none"]
    /\ writer = None
    /\ submissions = {} /\ samples = {} /\ evidence = {}
    /\ store = [d \in Digests |-> "absent"]
    /\ spool = {} /\ partial = {} /\ quarantined = {}
    /\ crashes = 0
    /\ acks = [d \in Digests |-> 0]

(* What a handler thread does once it has taken a request. *)
Handle(t) ==
    \/ ReadBody(t) \/ BodyEnds(t) \/ SpoolFails(t)
    \/ ValidateHeaders(t) \/ LookupKey(t) \/ LookupSha(t) \/ Verify(t)
    \/ CheckConflicts(t) \/ Quarantine(t)
    \/ PutExists(t) \/ PutHash(t) \/ PutCopy(t) \/ PutReplace(t) \/ PutFails(t)
    \/ Begin(t) \/ Insert(t) \/ Commit(t) \/ Respond(t)
    \/ ResponseLost(t)
    \/ IntegrityLookup(t) \/ Discard(t)
    \/ BusyTimeout(t) \/ PersistFails(t) \/ Undo(t) \/ LookupFails(t)

Next ==
    \/ \E t \in Threads : (\E q \in Requests : Receive(t, q)) \/ Handle(t)
    \/ Crash
    \/ \E d \in Digests : Corrupt(d)

Spec == Init /\ [][Next]_vars

(***************************************************************************)
(* The operating system keeps scheduling every handler thread.  Reading the *)
(* body is excluded: the socket has no timeout, so a client that neither    *)
(* sends nor closes keeps its thread waiting.                               *)
(***************************************************************************)
FairSpec == Spec /\ \A t \in Threads : WF_vars(pc[t] # "body" /\ Handle(t))

-----------------------------------------------------------------------------
(* Properties. *)

(* Payloads whose submission is committed. *)
Recorded == {p \in Payloads : BySha(Content[p].sha) # {}}

(***************************************************************************)
(* Fail closed: every committed row of submissions comes from one payload   *)
(* that verified, carries that payload's submission ID and uses its digest  *)
(* as idempotency key, whatever headers came with the other requests        *)
(* (ingest's checks before persist).                                        *)
(***************************************************************************)
OnlyVerifiedRecorded ==
    \A r \in submissions : \E p \in Payloads :
        /\ Content[p].verified
        /\ r = [sid |-> Content[p].sid, sha |-> Content[p].sha, key |-> Content[p].sha]

(***************************************************************************)
(* The transaction of persist is all or nothing and constraint-checked: the *)
(* sample and evidence rows are exactly those of the recorded payloads, and *)
(* two recorded payloads share neither a sample nor a submission ID, also   *)
(* when both passed existing_sample_ids before either one committed.        *)
(***************************************************************************)
TablesConsistent ==
    /\ samples = UNION {{[id |-> s, sid |-> Content[p].sid] :
                            s \in Content[p].samples} : p \in Recorded}
    /\ evidence = UNION {{[sid |-> Content[p].sid, path |-> Content[p].raw[i]] :
                            i \in DOMAIN Content[p].raw} : p \in Recorded}
    /\ \A p, q \in Recorded :
          p # q => /\ Content[p].samples \cap Content[q].samples = {}
                   /\ Content[p].sid # Content[q].sid

(***************************************************************************)
(* Every row of submissions has its original bundle, intact, at bundle_path.*)
(* Threads that lose the race for a digest, fail or crash between put and   *)
(* commit must not take the winner's file away.                             *)
(***************************************************************************)
CommittedBundleStored == \A r \in submissions : store[r.sha] = "whole"

(***************************************************************************)
(* A bundle is acknowledged as new at most once, across threads, lost       *)
(* responses and restarts, and an "accepted" or "duplicate" answer is only  *)
(* given for a bundle whose row is durable.                                 *)
(***************************************************************************)
AcknowledgedOnce ==
    /\ \A d \in Digests : acks[d] <= 1
    /\ \A d \in Digests : acks[d] = 1 => BySha(d) # {}
    /\ \A t \in Threads :
          reply[t] \in {"accepted", "duplicate"} => BySha(Sha(t)) # {}

(***************************************************************************)
(* The 409 of a failed transaction is final: that bundle is not recorded,   *)
(* so the stored copy that ingest unlinks belongs to nobody.                *)
(***************************************************************************)
ConflictIsFinal ==
    \A t \in Threads :
        pc[t] = "discard" \/ reply[t] = "ingestion_conflict" => BySha(Sha(t)) = {}

(***************************************************************************)
(* The finally blocks of do_POST and put: every scratch file belongs to a   *)
(* request in progress, a partial copy to one between mkstemp and           *)
(* os.replace.  Others are left only by a crash, and by an unlink that      *)
(* itself failed (server.py:255, storage.py:66).                            *)
(***************************************************************************)
NoScratchLeak ==
    /\ \A t \in Threads :
          /\ t \in spool <=> pc[t] # "idle"
          /\ t \in partial <=> pc[t] = "replace"
    /\ None \in spool \cup partial => "disk" \in Faults \/ crashes > 0

(***************************************************************************)
(* Until the first crash, a stored bundle without a row belongs to a        *)
(* request in progress that will record or unlink it: threads that give up  *)
(* leave no orphan in the content-addressed store.                          *)
(***************************************************************************)
NoOrphanBundle ==
    crashes = 0 =>
        \A d \in Digests :
            store[d] # "absent" /\ BySha(d) = {} =>
                \E t \in Threads :
                    /\ Sha(t) = d
                    /\ created[t]
                    /\ pc[t] \in {"begin", "insert", "commit", "integrity",
                                  "discard", "undo"}

(***************************************************************************)
(* A request that reuses a stored copy reads the whole bundle.  Whoever put *)
(* it there (a thread that has not committed yet, one that was killed       *)
(* between os.replace and the commit, storage.py:57) left no half-written   *)
(* file, and nobody removes the copy before the request has committed,      *)
(* except because of a conflict that bars this request from committing too. *)
(***************************************************************************)
RetryFindsBundle ==
    \A t \in Threads :
        pc[t] \in {"hash", "begin", "insert", "commit"}
            => store[Sha(t)] = "whole" \/ Conflicts(t)

-----------------------------------------------------------------------------
(* What each step of a handler may rely on: the parts of the inductive      *)
(* invariant behind the properties above.                                   *)

Stored == {"begin", "insert", "commit"}
Persisting == Stored \cup {"integrity", "discard", "undo", "respond"}
Verified == {"conflicts", "exists", "hash", "copy", "replace"} \cup Persisting
KeyChecked == {"lookup_key", "lookup_sha", "verify"} \cup Verified

(* Past ValidateHeaders the idempotency key is the digest of the body. *)
KeyIsDigest ==
    \A t \in Threads :
        pc[t] \in KeyChecked \/ reply[t] = "ingestion_conflict"
            => req[t].key = Sha(t)

(* Past Verify the bundle is a verified one. *)
VerifiedBeforeStored ==
    \A t \in Threads : pc[t] \in Verified => Bundle(t).verified

(* BEGIN IMMEDIATE excludes other writers, so what Insert saw holds at Commit. *)
LockProtectsInsert ==
    \A t \in Threads :
        /\ writer = t <=> pc[t] \in {"insert", "commit"}
        /\ pc[t] = "commit" => ~Conflicts(t)

(* A conflict, once met, stays. *)
ConflictsPersist ==
    \A t \in Threads :
        pc[t] \in {"integrity", "discard"} \/ reply[t] = "ingestion_conflict"
            => Conflicts(t)

(* A committed bundle has one thread at most that may acknowledge it. *)
OneAcknowledger ==
    \A t \in Threads :
        pc[t] = "respond" =>
            /\ BySha(Sha(t)) # {}
            /\ acks[Sha(t)] = 0
            /\ \A u \in Threads : pc[u] = "respond" /\ Sha(u) = Sha(t) => u = t

(***************************************************************************)
(* The inductive invariant: it holds of every reachable state whatever      *)
(* faults occur, and every step preserves it.                               *)
(***************************************************************************)
IInv ==
    /\ TypeOK /\ KeyIsDigest /\ VerifiedBeforeStored
    /\ LockProtectsInsert /\ ConflictsPersist
    /\ OnlyVerifiedRecorded /\ TablesConsistent
    /\ ConflictIsFinal /\ OneAcknowledger /\ AcknowledgedOnce
    /\ NoScratchLeak

(***************************************************************************)
(* Without lock timeouts, database errors and corruption: only Discard      *)
(* unlinks a bundle, no stored file is damaged, and so RetryFindsBundle is  *)
(* inductive.                                                               *)
(***************************************************************************)
StoredBeforePersist ==
    /\ \A t \in Threads : pc[t] # "undo"
    /\ \A d \in Digests : store[d] # "corrupt"
    /\ RetryFindsBundle

(***************************************************************************)
(* docs/backend-ingestion.md: a replayed bundle is answered "duplicate";    *)
(* "sample_already_ingested" is for a sample ID in a different bundle.      *)
(***************************************************************************)
ReplayIsDuplicate ==
    \A t \in Threads :
        reply[t] = "sample_already_ingested" => BySha(Sha(t)) = {}

(***************************************************************************)
(* Every request whose body has arrived ends: ingest never waits for ever,  *)
(* not even for a write lock that other threads take again and again.       *)
(***************************************************************************)
EveryRequestEnds ==
    \A t \in Threads : pc[t] \notin {"idle", "body"} ~> pc[t] = "idle"

(***************************************************************************)
(* All the threads, files and transactions together behave like the ledger: *)
(* Commit is its Record and Respond its Acknowledge; nothing else shows.    *)
(***************************************************************************)
Ledger == INSTANCE SubmissionLedger WITH
    Bundles <- {p \in Payloads : Content[p].verified},
    SamplesOf <- [p \in Payloads |-> Content[p].samples],
    recorded <- Recorded,
    acks <- [p \in {q \in Payloads : Content[q].verified} |-> acks[Content[p].sha]]

ImplementsLedger == Ledger!Spec
=============================================================================
