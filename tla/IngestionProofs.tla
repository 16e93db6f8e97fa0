-------------------------- MODULE IngestionProofs --------------------------
(***************************************************************************)
(* Theorems about Ingestion, for any number of handler threads, payloads,   *)
(* requests and crashes.                                                    *)
(***************************************************************************)
EXTENDS Ingestion, TLAPS

(* A nonempty set of positions of a short sequence of checks has a first. *)
LEMMA FirstPosition ==
    ASSUME NEW F \in SUBSET (1..7), F # {}
    PROVE  \E i \in F : \A j \in F : i <= j
<1>1. CASE 1 \in F
  BY <1>1
<1>2. CASE 1 \notin F /\ 2 \in F
  BY <1>2
<1>3. CASE 1 \notin F /\ 2 \notin F /\ 3 \in F
  BY <1>3
<1>4. CASE 1 \notin F /\ 2 \notin F /\ 3 \notin F /\ 4 \in F
  BY <1>4
<1>5. CASE 1 \notin F /\ 2 \notin F /\ 3 \notin F /\ 4 \notin F /\ 5 \in F
  BY <1>5
<1>6. CASE 1 \notin F /\ 2 \notin F /\ 3 \notin F /\ 4 \notin F /\ 5 \notin F /\ 6 \in F
  BY <1>6
<1>7. CASE /\ 1 \notin F /\ 2 \notin F /\ 3 \notin F /\ 4 \notin F /\ 5 \notin F
           /\ 6 \notin F /\ 7 \in F
  BY <1>7
<1>8. \E k \in F : k \in 1..7
  OBVIOUS
<1>9. \E k \in F : k = 1 \/ k = 2 \/ k = 3 \/ k = 4 \/ k = 5 \/ k = 6 \/ k = 7
  BY <1>8
<1> QED
  BY <1>1, <1>2, <1>3, <1>4, <1>5, <1>6, <1>7, <1>9

(* A request refused before its body is read gets one of do_POST's codes. *)
LEMMA AdmissionCode ==
    ASSUME NEW q \in Requests, ~Passes(Admission(q))
    PROVE  FailureCode(Admission(q)) \in AdmissionCodes
<1> DEFINE failed == {i \in DOMAIN Admission(q) : ~Admission(q)[i].holds}
<1>1. DOMAIN Admission(q) = 1..6
  BY DEF Admission
<1>2. failed # {} /\ failed \in SUBSET (1..7)
  BY <1>1 DEF Passes
<1>3. \E i \in failed : \A j \in failed : i <= j
  BY <1>2, FirstPosition
<1>4. PICK i \in failed : FailureCode(Admission(q)) = Admission(q)[i].code
  BY <1>3 DEF FailureCode
<1>5. i \in 1..6
  BY <1>1
<1>6. \A j \in 1..6 : Admission(q)[j].code \in AdmissionCodes
  BY DEF Admission, Check, AdmissionCodes
<1> QED
  BY <1>4, <1>5, <1>6

(* A request refused by ingest's header checks gets one of their codes. *)
LEMMA HeaderCode ==
    ASSUME NEW q \in Requests, ~Passes(Headers(q))
    PROVE  FailureCode(Headers(q)) \in HeaderCodes
<1> DEFINE failed == {i \in DOMAIN Headers(q) : ~Headers(q)[i].holds}
<1>1. DOMAIN Headers(q) = 1..7
  BY DEF Headers
<1>2. failed # {} /\ failed \in SUBSET (1..7)
  BY <1>1 DEF Passes
<1>3. \E i \in failed : \A j \in failed : i <= j
  BY <1>2, FirstPosition
<1>4. PICK i \in failed : FailureCode(Headers(q)) = Headers(q)[i].code
  BY <1>3 DEF FailureCode
<1>5. i \in 1..7
  BY <1>1
<1>6. \A j \in 1..7 : Headers(q)[j].code \in HeaderCodes
  BY DEF Headers, Check, HeaderCodes
<1> QED
  BY <1>4, <1>5, <1>6

(* Headers admits only a request whose key, digest and ID are well formed. *)
LEMMA HeadersPass ==
    ASSUME NEW q \in Requests, Passes(Headers(q))
    PROVE  q.key = q.sha /\ q.key \in Digests
<1>1. Headers(q)[4].holds /\ Headers(q)[7].holds
  BY DEF Passes, Headers
<1>2. q.key # None /\ q.key = q.sha
  BY <1>1 DEF Headers, Check
<1> QED
  BY <1>2, RequestAssumption DEF RequestType

(* The rows that a transaction inserts are well typed, given the key check. *)
LEMMA CommitRows ==
    ASSUME TypeOK, KeyIsDigest, NEW t \in Threads, pc[t] \in KeyChecked
    PROVE  /\ RowOf(t) \in [sid : SubmissionIds, sha : Digests, key : Digests]
           /\ SampleRows(t) \subseteq [id : SampleIds, sid : SubmissionIds]
           /\ EvidenceRows(t) \subseteq [sid : SubmissionIds, path : RawPaths]
<1>1. Bundle(t) \in ContentType
  BY ContentAssumption, RequestAssumption DEF TypeOK, Bundle, RequestType
<1>2. Sha(t) \in Digests /\ req[t].key = Sha(t)
  BY <1>1 DEF KeyIsDigest, Sha, ContentType
<1>3. RowOf(t) \in [sid : SubmissionIds, sha : Digests, key : Digests]
  BY <1>1, <1>2 DEF RowOf, ContentType
<1>4. SampleRows(t) \subseteq [id : SampleIds, sid : SubmissionIds]
  BY <1>1 DEF SampleRows, ContentType
<1>5. EvidenceRows(t) \subseteq [sid : SubmissionIds, path : RawPaths]
  BY <1>1 DEF EvidenceRows, ContentType
<1> QED
  BY <1>3, <1>4, <1>5

(* The digest of a thread's request. *)
LEMMA ShaType ==
    ASSUME TypeOK, NEW t \in Threads
    PROVE  Bundle(t) \in ContentType /\ Sha(t) \in Digests
BY ContentAssumption, RequestAssumption
   DEF TypeOK, Bundle, Sha, RequestType, ContentType

(* Every action preserves the type invariant. *)
LEMMA TypeStep ==
    ASSUME TypeOK, KeyIsDigest, [Next]_vars
    PROVE  TypeOK'
<1> USE DEF TypeOK, Leftovers, Orphaned
<1>1. ASSUME NEW t \in Threads, NEW q \in Requests, Receive(t, q)
      PROVE  TypeOK'
  BY <1>1, AdmissionCode DEF Receive, Goto, tables, Steps, Codes, AdmissionCodes
<1>2. ASSUME NEW t \in Threads, ReadBody(t)
      PROVE  TypeOK'
  BY <1>2 DEF ReadBody, Finish, Goto, tables, files, Steps, Codes, Reasons
<1>3. ASSUME NEW t \in Threads, BodyEnds(t)
      PROVE  TypeOK'
  BY <1>3 DEF BodyEnds, Finish, Goto, tables, files, Steps, Codes, Reasons
<1>4. ASSUME NEW t \in Threads, SpoolFails(t)
      PROVE  TypeOK'
  BY <1>4 DEF SpoolFails, Finish, Goto, tables, files, Steps, Codes, Reasons
<1>5. ASSUME NEW t \in Threads, ValidateHeaders(t)
      PROVE  TypeOK'
  BY <1>5, HeaderCode DEF ValidateHeaders, Finish, Goto, tables, files, Steps,
     Codes, Reasons, HeaderCodes
<1>6. ASSUME NEW t \in Threads, LookupKey(t)
      PROVE  TypeOK'
  BY <1>6 DEF LookupKey, Finish, Goto, tables, files, Steps, Codes, Reasons
<1>7. ASSUME NEW t \in Threads, LookupSha(t)
      PROVE  TypeOK'
  BY <1>7 DEF LookupSha, Finish, Goto, tables, files, Steps, Codes, Reasons
<1>8. ASSUME NEW t \in Threads, Verify(t)
      PROVE  TypeOK'
  BY <1>8 DEF Verify, Finish, Goto, tables, files, Steps, Codes, Reasons
<1>9. ASSUME NEW t \in Threads, CheckConflicts(t)
      PROVE  TypeOK'
  BY <1>9 DEF CheckConflicts, Finish, Goto, tables, files, Steps, Codes, Reasons
<1>10. ASSUME NEW t \in Threads, Quarantine(t)
      PROVE  TypeOK'
  BY <1>10, ShaType DEF Quarantine, Finish, Goto, tables, files, Steps, Codes,
     Reasons, Rejection
<1>11. ASSUME NEW t \in Threads, PutExists(t)
      PROVE  TypeOK'
  BY <1>11 DEF PutExists, Finish, Goto, tables, files, Steps, Codes, Reasons
<1>12. ASSUME NEW t \in Threads, PutHash(t)
      PROVE  TypeOK'
  BY <1>12 DEF PutHash, Finish, Goto, tables, files, Steps, Codes, Reasons
<1>13. ASSUME NEW t \in Threads, PutCopy(t)
      PROVE  TypeOK'
  BY <1>13 DEF PutCopy, Finish, Goto, tables, files, Steps, Codes, Reasons
<1>14. ASSUME NEW t \in Threads, PutReplace(t)
      PROVE  TypeOK'
  BY <1>14, ShaType DEF PutReplace, Finish, Goto, tables, files, Steps, Codes,
     Reasons
<1>15. ASSUME NEW t \in Threads, PutFails(t)
      PROVE  TypeOK'
  BY <1>15 DEF PutFails, Finish, Goto, tables, files, Steps, Codes, Reasons
<1>16. ASSUME NEW t \in Threads, Begin(t)
      PROVE  TypeOK'
  BY <1>16 DEF Begin, Finish, Goto, tables, files, Steps, Codes, Reasons
<1>17. ASSUME NEW t \in Threads, Insert(t)
      PROVE  TypeOK'
  BY <1>17 DEF Insert, Finish, Goto, tables, files, Steps, Codes, Reasons,
     ReleaseLock
<1>18. ASSUME NEW t \in Threads, Commit(t)
      PROVE  TypeOK'
  BY <1>18, CommitRows DEF Commit, Finish, Goto, tables, files, Steps, Codes,
     Reasons, ReleaseLock, KeyChecked, Verified, Persisting, Stored
<1>19. ASSUME NEW t \in Threads, Respond(t)
      PROVE  TypeOK'
  BY <1>19, ShaType DEF Respond, Finish, Goto, tables, files, Steps, Codes, Reasons
<1>20. ASSUME NEW t \in Threads, ResponseLost(t)
      PROVE  TypeOK'
  BY <1>20 DEF ResponseLost, Finish, Goto, tables, files, Steps, Codes, Reasons
<1>21. ASSUME NEW t \in Threads, IntegrityLookup(t)
      PROVE  TypeOK'
  BY <1>21 DEF IntegrityLookup, Finish, Goto, tables, files, Steps, Codes, Reasons
<1>22. ASSUME NEW t \in Threads, Discard(t)
      PROVE  TypeOK'
  BY <1>22, ShaType DEF Discard, Finish, Goto, tables, files, Steps, Codes,
     Reasons, UnlinkAndFinish
<1>23. ASSUME NEW t \in Threads, BusyTimeout(t)
      PROVE  TypeOK'
  BY <1>23 DEF BusyTimeout, Finish, Goto, tables, files, Steps, Codes, Reasons
<1>24. ASSUME NEW t \in Threads, PersistFails(t)
      PROVE  TypeOK'
  BY <1>24 DEF PersistFails, Finish, Goto, tables, files, Steps, Codes, Reasons,
     ReleaseLock
<1>25. ASSUME NEW t \in Threads, Undo(t)
      PROVE  TypeOK'
  BY <1>25, ShaType DEF Undo, Finish, Goto, tables, files, Steps, Codes, Reasons,
     UnlinkAndFinish
<1>26. ASSUME NEW t \in Threads, LookupFails(t)
      PROVE  TypeOK'
  BY <1>26 DEF LookupFails, Finish, Goto, tables, files, Steps, Codes, Reasons
<1>27. CASE Crash
  BY <1>27, BoundAssumption DEF Crash, tables, files, Steps, Codes
<1>28. ASSUME NEW d \in Digests, Corrupt(d)
      PROVE  TypeOK'
  BY <1>28 DEF Corrupt, tables
<1>29. CASE UNCHANGED vars
  BY <1>29 DEF vars, tables, files
<1> QED
  BY <1>1, <1>2, <1>3, <1>4, <1>5, <1>6, <1>7, <1>8, <1>9, <1>10, <1>11, <1>12,
     <1>13, <1>14, <1>15, <1>16, <1>17, <1>18, <1>19, <1>20, <1>21, <1>22, <1>23,
     <1>24, <1>25, <1>26, <1>27, <1>28, <1>29
     DEF Next, Handle

(* The header and verification checks hold of every later step of a request. *)
LEMMA LocalStep ==
    ASSUME TypeOK, KeyIsDigest, VerifiedBeforeStored, [Next]_vars
    PROVE  (KeyIsDigest /\ VerifiedBeforeStored)'
<1> USE DEF KeyIsDigest, VerifiedBeforeStored, KeyChecked, Verified, Persisting, Stored
<1>1. ASSUME NEW t \in Threads, NEW q \in Requests, Receive(t, q)
      PROVE  (KeyIsDigest /\ VerifiedBeforeStored)'
  BY <1>1, AdmissionCode DEF Receive, Goto, tables, TypeOK, Bundle, Sha,
     AdmissionCodes
<1>2. ASSUME NEW t \in Threads, ReadBody(t)
      PROVE  (KeyIsDigest /\ VerifiedBeforeStored)'
  BY <1>2 DEF ReadBody, Goto, Finish, tables, files, TypeOK, Bundle, Sha
<1>3. ASSUME NEW t \in Threads, BodyEnds(t)
      PROVE  (KeyIsDigest /\ VerifiedBeforeStored)'
  BY <1>3 DEF BodyEnds, Goto, Finish, tables, files, TypeOK, Bundle, Sha
<1>4. ASSUME NEW t \in Threads, SpoolFails(t)
      PROVE  (KeyIsDigest /\ VerifiedBeforeStored)'
  BY <1>4 DEF SpoolFails, Goto, Finish, tables, files, TypeOK, Bundle, Sha
<1>5. ASSUME NEW t \in Threads, ValidateHeaders(t)
      PROVE  (KeyIsDigest /\ VerifiedBeforeStored)'
  BY <1>5, HeaderCode, HeadersPass DEF ValidateHeaders, Goto, Finish, tables,
     files, TypeOK, Bundle, Sha, HeaderCodes
<1>6. ASSUME NEW t \in Threads, LookupKey(t)
      PROVE  (KeyIsDigest /\ VerifiedBeforeStored)'
  BY <1>6 DEF LookupKey, Goto, Finish, tables, files, TypeOK, Bundle, Sha
<1>7. ASSUME NEW t \in Threads, LookupSha(t)
      PROVE  (KeyIsDigest /\ VerifiedBeforeStored)'
  BY <1>7 DEF LookupSha, Goto, Finish, tables, files, TypeOK, Bundle, Sha
<1>8. ASSUME NEW t \in Threads, Verify(t)
      PROVE  (KeyIsDigest /\ VerifiedBeforeStored)'
  BY <1>8 DEF Verify, Goto, Finish, tables, files, TypeOK, Bundle, Sha
<1>9. ASSUME NEW t \in Threads, CheckConflicts(t)
      PROVE  (KeyIsDigest /\ VerifiedBeforeStored)'
  BY <1>9 DEF CheckConflicts, Goto, Finish, tables, files, TypeOK, Bundle, Sha
<1>10. ASSUME NEW t \in Threads, Quarantine(t)
      PROVE  (KeyIsDigest /\ VerifiedBeforeStored)'
  BY <1>10 DEF Quarantine, Goto, Finish, tables, files, TypeOK, Bundle, Sha,
     Rejection
<1>11. ASSUME NEW t \in Threads, PutExists(t)
      PROVE  (KeyIsDigest /\ VerifiedBeforeStored)'
  BY <1>11 DEF PutExists, Goto, Finish, tables, files, TypeOK, Bundle, Sha
<1>12. ASSUME NEW t \in Threads, PutHash(t)
      PROVE  (KeyIsDigest /\ VerifiedBeforeStored)'
  BY <1>12 DEF PutHash, Goto, Finish, tables, files, TypeOK, Bundle, Sha
<1>13. ASSUME NEW t \in Threads, PutCopy(t)
      PROVE  (KeyIsDigest /\ VerifiedBeforeStored)'
  BY <1>13 DEF PutCopy, Goto, Finish, tables, files, TypeOK, Bundle, Sha
<1>14. ASSUME NEW t \in Threads, PutReplace(t)
      PROVE  (KeyIsDigest /\ VerifiedBeforeStored)'
  BY <1>14 DEF PutReplace, Goto, Finish, tables, files, TypeOK, Bundle, Sha
<1>15. ASSUME NEW t \in Threads, PutFails(t)
      PROVE  (KeyIsDigest /\ VerifiedBeforeStored)'
  BY <1>15 DEF PutFails, Goto, Finish, tables, files, TypeOK, Bundle, Sha
<1>16. ASSUME NEW t \in Threads, Begin(t)
      PROVE  (KeyIsDigest /\ VerifiedBeforeStored)'
  BY <1>16 DEF Begin, Goto, Finish, tables, files, TypeOK, Bundle, Sha
<1>17. ASSUME NEW t \in Threads, Insert(t)
      PROVE  (KeyIsDigest /\ VerifiedBeforeStored)'
  BY <1>17 DEF Insert, Goto, Finish, tables, files, TypeOK, Bundle, Sha, ReleaseLock
<1>18. ASSUME NEW t \in Threads, Commit(t)
      PROVE  (KeyIsDigest /\ VerifiedBeforeStored)'
  BY <1>18 DEF Commit, Goto, Finish, tables, files, TypeOK, Bundle, Sha, ReleaseLock
<1>19. ASSUME NEW t \in Threads, Respond(t)
      PROVE  (KeyIsDigest /\ VerifiedBeforeStored)'
  BY <1>19 DEF Respond, Goto, Finish, tables, files, TypeOK, Bundle, Sha
<1>20. ASSUME NEW t \in Threads, ResponseLost(t)
      PROVE  (KeyIsDigest /\ VerifiedBeforeStored)'
  BY <1>20 DEF ResponseLost, Goto, Finish, tables, files, TypeOK, Bundle, Sha
<1>21. ASSUME NEW t \in Threads, IntegrityLookup(t)
      PROVE  (KeyIsDigest /\ VerifiedBeforeStored)'
  BY <1>21 DEF IntegrityLookup, Goto, Finish, tables, files, TypeOK, Bundle, Sha
<1>22. ASSUME NEW t \in Threads, Discard(t)
      PROVE  (KeyIsDigest /\ VerifiedBeforeStored)'
  BY <1>22 DEF Discard, Goto, Finish, tables, files, TypeOK, Bundle, Sha,
     UnlinkAndFinish
<1>23. ASSUME NEW t \in Threads, BusyTimeout(t)
      PROVE  (KeyIsDigest /\ VerifiedBeforeStored)'
  BY <1>23 DEF BusyTimeout, Goto, Finish, tables, files, TypeOK, Bundle, Sha
<1>24. ASSUME NEW t \in Threads, PersistFails(t)
      PROVE  (KeyIsDigest /\ VerifiedBeforeStored)'
  BY <1>24 DEF PersistFails, Goto, Finish, tables, files, TypeOK, Bundle, Sha,
     ReleaseLock
<1>25. ASSUME NEW t \in Threads, Undo(t)
      PROVE  (KeyIsDigest /\ VerifiedBeforeStored)'
  BY <1>25 DEF Undo, Goto, Finish, tables, files, TypeOK, Bundle, Sha,
     UnlinkAndFinish
<1>26. ASSUME NEW t \in Threads, LookupFails(t)
      PROVE  (KeyIsDigest /\ VerifiedBeforeStored)'
  BY <1>26 DEF LookupFails, Goto, Finish, tables, files, TypeOK, Bundle, Sha
<1>27. CASE Crash
  BY <1>27 DEF Crash, tables, files, TypeOK, Bundle, Sha
<1>28. ASSUME NEW d \in Digests, Corrupt(d)
      PROVE  (KeyIsDigest /\ VerifiedBeforeStored)'
  BY <1>28 DEF Corrupt, tables, TypeOK, Bundle, Sha
<1>29. CASE UNCHANGED vars
  BY <1>29 DEF vars, tables, files, TypeOK, Bundle, Sha
<1> QED
  BY <1>1, <1>2, <1>3, <1>4, <1>5, <1>6, <1>7, <1>8, <1>9, <1>10, <1>11, <1>12,
     <1>13, <1>14, <1>15, <1>16, <1>17, <1>18, <1>19, <1>20, <1>21, <1>22, <1>23,
     <1>24, <1>25, <1>26, <1>27, <1>28, <1>29
     DEF Next, Handle

(* Whether a transaction fails depends on the tables and the request only. *)
LEMMA ConflictsSame ==
    ASSUME NEW t \in Threads, UNCHANGED tables, req'[t] = req[t]
    PROVE  Conflicts(t)' <=> Conflicts(t)
BY DEF tables, Conflicts, ExistingSamples, Bundle, Sha

(* Rows only ever add conflicts. *)
LEMMA ConflictsGrow ==
    ASSUME NEW t \in Threads, Conflicts(t), req'[t] = req[t],
           submissions \subseteq submissions', samples \subseteq samples'
    PROVE  Conflicts(t)'
BY DEF Conflicts, ExistingSamples, Bundle, Sha

(* BEGIN IMMEDIATE gives one thread the write lock until it commits or rolls back. *)
LEMMA LockStep ==
    ASSUME TypeOK, LockProtectsInsert, [Next]_vars
    PROVE  LockProtectsInsert'
<1> USE DEF LockProtectsInsert
<1>1. ASSUME NEW t \in Threads, NEW q \in Requests, Receive(t, q)
      PROVE  LockProtectsInsert'
  BY <1>1, ConflictsSame, NoneAssumption, AdmissionCode DEF Receive, Goto, tables,
     TypeOK, AdmissionCodes
<1>2. ASSUME NEW t \in Threads, ReadBody(t)
      PROVE  LockProtectsInsert'
  BY <1>2, ConflictsSame, NoneAssumption DEF ReadBody, Goto, Finish, tables,
     files, TypeOK
<1>3. ASSUME NEW t \in Threads, BodyEnds(t)
      PROVE  LockProtectsInsert'
  BY <1>3, ConflictsSame, NoneAssumption DEF BodyEnds, Goto, Finish, tables,
     files, TypeOK
<1>4. ASSUME NEW t \in Threads, SpoolFails(t)
      PROVE  LockProtectsInsert'
  BY <1>4, ConflictsSame, NoneAssumption DEF SpoolFails, Goto, Finish, tables,
     files, TypeOK
<1>5. ASSUME NEW t \in Threads, ValidateHeaders(t)
      PROVE  LockProtectsInsert'
  BY <1>5, ConflictsSame, NoneAssumption, HeaderCode DEF ValidateHeaders, Goto,
     Finish, tables, files, TypeOK, HeaderCodes
<1>6. ASSUME NEW t \in Threads, LookupKey(t)
      PROVE  LockProtectsInsert'
  BY <1>6, ConflictsSame, NoneAssumption DEF LookupKey, Goto, Finish, tables,
     files, TypeOK
<1>7. ASSUME NEW t \in Threads, LookupSha(t)
      PROVE  LockProtectsInsert'
  BY <1>7, ConflictsSame, NoneAssumption DEF LookupSha, Goto, Finish, tables,
     files, TypeOK
<1>8. ASSUME NEW t \in Threads, Verify(t)
      PROVE  LockProtectsInsert'
  BY <1>8, ConflictsSame, NoneAssumption DEF Verify, Goto, Finish, tables, files,
     TypeOK
<1>9. ASSUME NEW t \in Threads, CheckConflicts(t)
      PROVE  LockProtectsInsert'
  BY <1>9, ConflictsSame, NoneAssumption DEF CheckConflicts, Goto, Finish, tables,
     files, TypeOK
<1>10. ASSUME NEW t \in Threads, Quarantine(t)
      PROVE  LockProtectsInsert'
  BY <1>10, ConflictsSame, NoneAssumption DEF Quarantine, Goto, Finish, tables,
     files, TypeOK, Rejection
<1>11. ASSUME NEW t \in Threads, PutExists(t)
      PROVE  LockProtectsInsert'
  BY <1>11, ConflictsSame, NoneAssumption DEF PutExists, Goto, Finish, tables,
     files, TypeOK
<1>12. ASSUME NEW t \in Threads, PutHash(t)
      PROVE  LockProtectsInsert'
  BY <1>12, ConflictsSame, NoneAssumption DEF PutHash, Goto, Finish, tables,
     files, TypeOK
<1>13. ASSUME NEW t \in Threads, PutCopy(t)
      PROVE  LockProtectsInsert'
  BY <1>13, ConflictsSame, NoneAssumption DEF PutCopy, Goto, Finish, tables,
     files, TypeOK
<1>14. ASSUME NEW t \in Threads, PutReplace(t)
      PROVE  LockProtectsInsert'
  BY <1>14, ConflictsSame, NoneAssumption DEF PutReplace, Goto, Finish, tables,
     files, TypeOK
<1>15. ASSUME NEW t \in Threads, PutFails(t)
      PROVE  LockProtectsInsert'
  BY <1>15, ConflictsSame, NoneAssumption DEF PutFails, Goto, Finish, tables,
     files, TypeOK
<1>16. ASSUME NEW t \in Threads, Begin(t)
      PROVE  LockProtectsInsert'
  BY <1>16, ConflictsSame, NoneAssumption DEF Begin, Goto, Finish, tables, files,
     TypeOK
<1>17. ASSUME NEW t \in Threads, Insert(t)
      PROVE  LockProtectsInsert'
  BY <1>17, ConflictsSame, NoneAssumption DEF Insert, Goto, Finish, tables, files,
     TypeOK, ReleaseLock
<1>18. ASSUME NEW t \in Threads, Commit(t)
      PROVE  LockProtectsInsert'
  BY <1>18, ConflictsSame, NoneAssumption DEF Commit, Goto, Finish, tables, files,
     TypeOK, ReleaseLock
<1>19. ASSUME NEW t \in Threads, Respond(t)
      PROVE  LockProtectsInsert'
  BY <1>19, ConflictsSame, NoneAssumption DEF Respond, Goto, Finish, tables,
     files, TypeOK
<1>20. ASSUME NEW t \in Threads, ResponseLost(t)
      PROVE  LockProtectsInsert'
  BY <1>20, ConflictsSame, NoneAssumption DEF ResponseLost, Goto, Finish, tables,
     files, TypeOK
<1>21. ASSUME NEW t \in Threads, IntegrityLookup(t)
      PROVE  LockProtectsInsert'
  BY <1>21, ConflictsSame, NoneAssumption DEF IntegrityLookup, Goto, Finish,
     tables, files, TypeOK
<1>22. ASSUME NEW t \in Threads, Discard(t)
      PROVE  LockProtectsInsert'
  BY <1>22, ConflictsSame, NoneAssumption DEF Discard, Goto, Finish, tables,
     files, TypeOK, UnlinkAndFinish
<1>23. ASSUME NEW t \in Threads, BusyTimeout(t)
      PROVE  LockProtectsInsert'
  BY <1>23, ConflictsSame, NoneAssumption DEF BusyTimeout, Goto, Finish, tables,
     files, TypeOK
<1>24. ASSUME NEW t \in Threads, PersistFails(t)
      PROVE  LockProtectsInsert'
  BY <1>24, ConflictsSame, NoneAssumption DEF PersistFails, Goto, Finish, tables,
     files, TypeOK, ReleaseLock
<1>25. ASSUME NEW t \in Threads, Undo(t)
      PROVE  LockProtectsInsert'
  BY <1>25, ConflictsSame, NoneAssumption DEF Undo, Goto, Finish, tables, files,
     TypeOK, UnlinkAndFinish
<1>26. ASSUME NEW t \in Threads, LookupFails(t)
      PROVE  LockProtectsInsert'
  BY <1>26, ConflictsSame, NoneAssumption DEF LookupFails, Goto, Finish, tables,
     files, TypeOK
<1>27. CASE Crash
  BY <1>27, ConflictsSame, NoneAssumption DEF Crash, tables, files, TypeOK
<1>28. ASSUME NEW d \in Digests, Corrupt(d)
      PROVE  LockProtectsInsert'
  BY <1>28, ConflictsSame, NoneAssumption DEF Corrupt, tables, TypeOK
<1>29. CASE UNCHANGED vars
  BY <1>29, ConflictsSame, NoneAssumption DEF vars, tables, files, TypeOK
<1> QED
  BY <1>1, <1>2, <1>3, <1>4, <1>5, <1>6, <1>7, <1>8, <1>9, <1>10, <1>11, <1>12,
     <1>13, <1>14, <1>15, <1>16, <1>17, <1>18, <1>19, <1>20, <1>21, <1>22, <1>23,
     <1>24, <1>25, <1>26, <1>27, <1>28, <1>29
     DEF Next, Handle

(* A conflict that a transaction met is still there at every later step. *)
LEMMA ConflictsStep ==
    ASSUME TypeOK, ConflictsPersist, [Next]_vars
    PROVE  ConflictsPersist'
<1> USE DEF ConflictsPersist
<1>1. ASSUME NEW t \in Threads, NEW q \in Requests, Receive(t, q)
      PROVE  ConflictsPersist'
  BY <1>1, ConflictsSame, AdmissionCode DEF Receive, Goto, tables, TypeOK,
     AdmissionCodes
<1>2. ASSUME NEW t \in Threads, ReadBody(t)
      PROVE  ConflictsPersist'
  BY <1>2, ConflictsSame DEF ReadBody, Goto, Finish, tables, files, TypeOK
<1>3. ASSUME NEW t \in Threads, BodyEnds(t)
      PROVE  ConflictsPersist'
  BY <1>3, ConflictsSame DEF BodyEnds, Goto, Finish, tables, files, TypeOK
<1>4. ASSUME NEW t \in Threads, SpoolFails(t)
      PROVE  ConflictsPersist'
  BY <1>4, ConflictsSame DEF SpoolFails, Goto, Finish, tables, files, TypeOK
<1>5. ASSUME NEW t \in Threads, ValidateHeaders(t)
      PROVE  ConflictsPersist'
  BY <1>5, ConflictsSame, HeaderCode DEF ValidateHeaders, Goto, Finish, tables,
     files, TypeOK, HeaderCodes
<1>6. ASSUME NEW t \in Threads, LookupKey(t)
      PROVE  ConflictsPersist'
  BY <1>6, ConflictsSame DEF LookupKey, Goto, Finish, tables, files, TypeOK
<1>7. ASSUME NEW t \in Threads, LookupSha(t)
      PROVE  ConflictsPersist'
  BY <1>7, ConflictsSame DEF LookupSha, Goto, Finish, tables, files, TypeOK
<1>8. ASSUME NEW t \in Threads, Verify(t)
      PROVE  ConflictsPersist'
  BY <1>8, ConflictsSame DEF Verify, Goto, Finish, tables, files, TypeOK
<1>9. ASSUME NEW t \in Threads, CheckConflicts(t)
      PROVE  ConflictsPersist'
  BY <1>9, ConflictsSame DEF CheckConflicts, Goto, Finish, tables, files, TypeOK
<1>10. ASSUME NEW t \in Threads, Quarantine(t)
      PROVE  ConflictsPersist'
  BY <1>10, ConflictsSame DEF Quarantine, Goto, Finish, tables, files, TypeOK,
     Rejection
<1>11. ASSUME NEW t \in Threads, PutExists(t)
      PROVE  ConflictsPersist'
  BY <1>11, ConflictsSame DEF PutExists, Goto, Finish, tables, files, TypeOK
<1>12. ASSUME NEW t \in Threads, PutHash(t)
      PROVE  ConflictsPersist'
  BY <1>12, ConflictsSame DEF PutHash, Goto, Finish, tables, files, TypeOK
<1>13. ASSUME NEW t \in Threads, PutCopy(t)
      PROVE  ConflictsPersist'
  BY <1>13, ConflictsSame DEF PutCopy, Goto, Finish, tables, files, TypeOK
<1>14. ASSUME NEW t \in Threads, PutReplace(t)
      PROVE  ConflictsPersist'
  BY <1>14, ConflictsSame DEF PutReplace, Goto, Finish, tables, files, TypeOK
<1>15. ASSUME NEW t \in Threads, PutFails(t)
      PROVE  ConflictsPersist'
  BY <1>15, ConflictsSame DEF PutFails, Goto, Finish, tables, files, TypeOK
<1>16. ASSUME NEW t \in Threads, Begin(t)
      PROVE  ConflictsPersist'
  BY <1>16, ConflictsSame DEF Begin, Goto, Finish, tables, files, TypeOK
<1>17. ASSUME NEW t \in Threads, Insert(t)
      PROVE  ConflictsPersist'
  BY <1>17, ConflictsSame DEF Insert, Goto, Finish, tables, files, TypeOK,
     ReleaseLock
<1>18. ASSUME NEW t \in Threads, Commit(t)
      PROVE  ConflictsPersist'
  BY <1>18, ConflictsSame, ConflictsGrow DEF Commit, Goto, Finish, tables, files,
     TypeOK, ReleaseLock
<1>19. ASSUME NEW t \in Threads, Respond(t)
      PROVE  ConflictsPersist'
  BY <1>19, ConflictsSame DEF Respond, Goto, Finish, tables, files, TypeOK
<1>20. ASSUME NEW t \in Threads, ResponseLost(t)
      PROVE  ConflictsPersist'
  BY <1>20, ConflictsSame DEF ResponseLost, Goto, Finish, tables, files, TypeOK
<1>21. ASSUME NEW t \in Threads, IntegrityLookup(t)
      PROVE  ConflictsPersist'
  BY <1>21, ConflictsSame DEF IntegrityLookup, Goto, Finish, tables, files, TypeOK
<1>22. ASSUME NEW t \in Threads, Discard(t)
      PROVE  ConflictsPersist'
  BY <1>22, ConflictsSame DEF Discard, Goto, Finish, tables, files, TypeOK,
     UnlinkAndFinish
<1>23. ASSUME NEW t \in Threads, BusyTimeout(t)
      PROVE  ConflictsPersist'
  BY <1>23, ConflictsSame DEF BusyTimeout, Goto, Finish, tables, files, TypeOK
<1>24. ASSUME NEW t \in Threads, PersistFails(t)
      PROVE  ConflictsPersist'
  BY <1>24, ConflictsSame DEF PersistFails, Goto, Finish, tables, files, TypeOK,
     ReleaseLock
<1>25. ASSUME NEW t \in Threads, Undo(t)
      PROVE  ConflictsPersist'
  BY <1>25, ConflictsSame DEF Undo, Goto, Finish, tables, files, TypeOK,
     UnlinkAndFinish
<1>26. ASSUME NEW t \in Threads, LookupFails(t)
      PROVE  ConflictsPersist'
  BY <1>26, ConflictsSame DEF LookupFails, Goto, Finish, tables, files, TypeOK
<1>27. CASE Crash
  BY <1>27, ConflictsSame DEF Crash, tables, files, TypeOK
<1>28. ASSUME NEW d \in Digests, Corrupt(d)
      PROVE  ConflictsPersist'
  BY <1>28, ConflictsSame DEF Corrupt, tables, TypeOK
<1>29. CASE UNCHANGED vars
  BY <1>29, ConflictsSame DEF vars, tables, files, TypeOK
<1> QED
  BY <1>1, <1>2, <1>3, <1>4, <1>5, <1>6, <1>7, <1>8, <1>9, <1>10, <1>11, <1>12,
     <1>13, <1>14, <1>15, <1>16, <1>17, <1>18, <1>19, <1>20, <1>21, <1>22, <1>23,
     <1>24, <1>25, <1>26, <1>27, <1>28, <1>29
     DEF Next, Handle

(* persist's commit is the only step that writes the database. *)
LEMMA OnlyCommitWrites ==
    ASSUME [Next]_vars
    PROVE  UNCHANGED tables \/ \E t \in Threads : Commit(t)
<1>1. ASSUME NEW t \in Threads, NEW q \in Requests, Receive(t, q)
      PROVE  UNCHANGED tables
  BY <1>1 DEF Receive
<1>2. ASSUME NEW t \in Threads, Handle(t), ~Commit(t)
      PROVE  UNCHANGED tables
  BY <1>2 DEF Handle, ReadBody, BodyEnds, SpoolFails, ValidateHeaders, LookupKey,
     LookupSha, Verify, CheckConflicts, Quarantine, PutExists, PutHash, PutCopy,
     PutReplace, PutFails, Begin, Insert, Respond, ResponseLost, IntegrityLookup,
     Discard, BusyTimeout, PersistFails, Undo, LookupFails
<1>3. CASE Crash \/ \E d \in Digests : Corrupt(d)
  BY <1>3 DEF Crash, Corrupt
<1>4. CASE UNCHANGED vars
  BY <1>4 DEF vars
<1> QED
  BY <1>1, <1>2, <1>3, <1>4 DEF Next

(* The row of a recorded payload is that payload's. *)
LEMMA RowOfRecorded ==
    ASSUME OnlyVerifiedRecorded, NEW p \in Recorded
    PROVE  /\ Content[p].verified
           /\ [sid |-> Content[p].sid, sha |-> Content[p].sha,
               key |-> Content[p].sha] \in submissions
<1>1. PICK r \in submissions : r.sha = Content[p].sha
  BY DEF Recorded, BySha
<1>2. PICK q \in Payloads :
        /\ Content[q].verified
        /\ r = [sid |-> Content[q].sid, sha |-> Content[q].sha, key |-> Content[q].sha]
  BY DEF OnlyVerifiedRecorded
<1>3. q = p
  BY <1>1, <1>2, ContentAssumption DEF Recorded
<1> QED
  BY <1>2, <1>3

(* Commit records the payload of its request, which was not recorded before. *)
LEMMA CommitRecords ==
    ASSUME TypeOK, LockProtectsInsert, NEW t \in Threads, Commit(t)
    PROVE  /\ req[t].payload \in Payloads \ Recorded
           /\ Recorded' = Recorded \cup {req[t].payload}
<1> DEFINE p == req[t].payload
<1>1. p \in Payloads
  BY RequestAssumption DEF TypeOK, RequestType
<1>2. ~Conflicts(t)
  BY DEF LockProtectsInsert, Commit
<1>3. p \notin Recorded
  BY <1>2 DEF Conflicts, Recorded, BySha, Sha, Bundle
<1>4. submissions' = submissions \cup {RowOf(t)} /\ RowOf(t).sha = Content[p].sha
  BY DEF Commit, RowOf, Sha, Bundle
<1>5. ASSUME NEW q \in Payloads
      PROVE  q \in Recorded' <=> q \in Recorded \/ q = p
  BY <1>1, <1>4, ContentAssumption DEF Recorded, BySha
<1> QED
  BY <1>1, <1>3, <1>5 DEF Recorded

(* The tables stay consistent: Commit adds the rows of one fresh payload. *)
LEMMA TablesStep ==
    ASSUME TypeOK, KeyIsDigest, VerifiedBeforeStored, LockProtectsInsert,
           OnlyVerifiedRecorded, TablesConsistent, [Next]_vars
    PROVE  (OnlyVerifiedRecorded /\ TablesConsistent)'
<1>1. CASE UNCHANGED tables
  BY <1>1 DEF tables, OnlyVerifiedRecorded, TablesConsistent, Recorded, BySha
<1>2. ASSUME NEW t \in Threads, Commit(t)
      PROVE  (OnlyVerifiedRecorded /\ TablesConsistent)'
  <2> DEFINE p == req[t].payload
  <2>1. p \in Payloads \ Recorded /\ Recorded' = Recorded \cup {p}
    BY <1>2, CommitRecords
  <2>2. Content[p].verified /\ req[t].key = Content[p].sha
    BY <1>2 DEF Commit, KeyIsDigest, VerifiedBeforeStored, KeyChecked, Verified,
       Persisting, Stored, Sha, Bundle
  <2>3. RowOf(t) = [sid |-> Content[p].sid, sha |-> Content[p].sha,
                    key |-> Content[p].sha]
    BY <2>2 DEF RowOf, Sha, Bundle
  <2>4. OnlyVerifiedRecorded'
    BY <1>2, <2>1, <2>2, <2>3 DEF Commit, OnlyVerifiedRecorded
  <2>5. ~Conflicts(t)
    BY <1>2 DEF Commit, LockProtectsInsert
  <2>6. ASSUME NEW q \in Recorded
        PROVE  /\ Content[p].samples \cap Content[q].samples = {}
               /\ Content[p].sid # Content[q].sid
    <3>1. Content[p].sid # Content[q].sid
      BY <2>5, RowOfRecorded DEF Conflicts, Bundle
    <3>2. ASSUME NEW s \in Content[p].samples, s \in Content[q].samples
          PROVE  FALSE
      <4>1. [id |-> s, sid |-> Content[q].sid] \in samples
        BY <3>2 DEF TablesConsistent
      <4> QED
        BY <2>5, <4>1 DEF Conflicts, ExistingSamples, Bundle
    <3> QED
      BY <3>1, <3>2
  <2>7. \A q, r \in Recorded' :
          q # r => /\ Content[q].samples \cap Content[r].samples = {}
                   /\ Content[q].sid # Content[r].sid
    BY <2>1, <2>6 DEF TablesConsistent
  <2>8. samples' = UNION {{[id |-> s, sid |-> Content[q].sid] :
                              s \in Content[q].samples} : q \in Recorded'}
    BY <1>2, <2>1 DEF Commit, SampleRows, Bundle, TablesConsistent
  <2>9. evidence' = UNION {{[sid |-> Content[q].sid, path |-> Content[q].raw[i]] :
                              i \in DOMAIN Content[q].raw} : q \in Recorded'}
    BY <1>2, <2>1 DEF Commit, EvidenceRows, Bundle, TablesConsistent
  <2> QED
    BY <2>4, <2>7, <2>8, <2>9 DEF TablesConsistent
<1> QED
  BY <1>1, <1>2, OnlyCommitWrites

(* Requests for the same bundle meet the same conflicts. *)
LEMMA SameBundleConflicts ==
    ASSUME TypeOK, NEW t \in Threads, NEW u \in Threads,
           Sha(t) = Sha(u), req[t].key = req[u].key
    PROVE  Conflicts(t) <=> Conflicts(u)
<1>1. req[t].payload = req[u].payload
  BY ContentAssumption, RequestAssumption DEF TypeOK, RequestType, Sha, Bundle
<1> QED
  BY <1>1 DEF Conflicts, Sha, Bundle

(* What a lookup by digest finds changes with the tables only. *)
LEMMA LookupSame ==
    ASSUME UNCHANGED tables
    PROVE  \A d \in Digests : BySha(d)' = BySha(d)
BY DEF tables, BySha

(* A bundle whose transaction failed is not recorded by anyone later. *)
LEMMA ConflictFinalStep ==
    ASSUME TypeOK, KeyIsDigest, LockProtectsInsert, ConflictsPersist, ConflictIsFinal,
           [Next]_vars
    PROVE  ConflictIsFinal'
<1> USE DEF ConflictIsFinal
<1>1. ASSUME NEW t \in Threads, NEW q \in Requests, Receive(t, q)
      PROVE  ConflictIsFinal'
  BY <1>1, LookupSame, ShaType, AdmissionCode DEF Receive, Goto, tables, TypeOK,
     Sha, Bundle, AdmissionCodes
<1>2. ASSUME NEW t \in Threads, ReadBody(t)
      PROVE  ConflictIsFinal'
  BY <1>2, LookupSame, ShaType DEF ReadBody, Goto, Finish, tables, files, TypeOK,
     Sha, Bundle
<1>3. ASSUME NEW t \in Threads, BodyEnds(t)
      PROVE  ConflictIsFinal'
  BY <1>3, LookupSame, ShaType DEF BodyEnds, Goto, Finish, tables, files, TypeOK,
     Sha, Bundle
<1>4. ASSUME NEW t \in Threads, SpoolFails(t)
      PROVE  ConflictIsFinal'
  BY <1>4, LookupSame, ShaType DEF SpoolFails, Goto, Finish, tables, files,
     TypeOK, Sha, Bundle
<1>5. ASSUME NEW t \in Threads, ValidateHeaders(t)
      PROVE  ConflictIsFinal'
  BY <1>5, LookupSame, ShaType, HeaderCode DEF ValidateHeaders, Goto, Finish,
     tables, files, TypeOK, Sha, Bundle, HeaderCodes
<1>6. ASSUME NEW t \in Threads, LookupKey(t)
      PROVE  ConflictIsFinal'
  BY <1>6, LookupSame, ShaType DEF LookupKey, Goto, Finish, tables, files, TypeOK,
     Sha, Bundle
<1>7. ASSUME NEW t \in Threads, LookupSha(t)
      PROVE  ConflictIsFinal'
  BY <1>7, LookupSame, ShaType DEF LookupSha, Goto, Finish, tables, files, TypeOK,
     Sha, Bundle
<1>8. ASSUME NEW t \in Threads, Verify(t)
      PROVE  ConflictIsFinal'
  BY <1>8, LookupSame, ShaType DEF Verify, Goto, Finish, tables, files, TypeOK,
     Sha, Bundle
<1>9. ASSUME NEW t \in Threads, CheckConflicts(t)
      PROVE  ConflictIsFinal'
  BY <1>9, LookupSame, ShaType DEF CheckConflicts, Goto, Finish, tables, files,
     TypeOK, Sha, Bundle
<1>10. ASSUME NEW t \in Threads, Quarantine(t)
      PROVE  ConflictIsFinal'
  BY <1>10, LookupSame, ShaType DEF Quarantine, Goto, Finish, tables, files,
     TypeOK, Sha, Bundle, Rejection
<1>11. ASSUME NEW t \in Threads, PutExists(t)
      PROVE  ConflictIsFinal'
  BY <1>11, LookupSame, ShaType DEF PutExists, Goto, Finish, tables, files,
     TypeOK, Sha, Bundle
<1>12. ASSUME NEW t \in Threads, PutHash(t)
      PROVE  ConflictIsFinal'
  BY <1>12, LookupSame, ShaType DEF PutHash, Goto, Finish, tables, files, TypeOK,
     Sha, Bundle
<1>13. ASSUME NEW t \in Threads, PutCopy(t)
      PROVE  ConflictIsFinal'
  BY <1>13, LookupSame, ShaType DEF PutCopy, Goto, Finish, tables, files, TypeOK,
     Sha, Bundle
<1>14. ASSUME NEW t \in Threads, PutReplace(t)
      PROVE  ConflictIsFinal'
  BY <1>14, LookupSame, ShaType DEF PutReplace, Goto, Finish, tables, files,
     TypeOK, Sha, Bundle
<1>15. ASSUME NEW t \in Threads, PutFails(t)
      PROVE  ConflictIsFinal'
  BY <1>15, LookupSame, ShaType DEF PutFails, Goto, Finish, tables, files, TypeOK,
     Sha, Bundle
<1>16. ASSUME NEW t \in Threads, Begin(t)
      PROVE  ConflictIsFinal'
  BY <1>16, LookupSame, ShaType DEF Begin, Goto, Finish, tables, files, TypeOK,
     Sha, Bundle
<1>17. ASSUME NEW t \in Threads, Insert(t)
      PROVE  ConflictIsFinal'
  BY <1>17, LookupSame, ShaType DEF Insert, Goto, Finish, tables, files, TypeOK,
     Sha, Bundle, ReleaseLock
<1>18. ASSUME NEW t \in Threads, Commit(t)
      PROVE  ConflictIsFinal'
  <2> SUFFICES ASSUME NEW u \in Threads, BySha(Sha(u))' # {},
                      pc'[u] = "discard" \/ reply'[u] = "ingestion_conflict"
               PROVE  FALSE
    BY DEF ConflictIsFinal
  <2>1. /\ pc[u] = "discard" \/ reply[u] = "ingestion_conflict"
        /\ BySha(Sha(u)) = {} /\ Conflicts(u) /\ req[u].key = Sha(u)
    BY <1>18 DEF Commit, Goto, TypeOK, ConflictIsFinal, ConflictsPersist,
       KeyIsDigest,
       KeyChecked, Verified, Persisting
  <2>2. Sha(u)' = Sha(u) /\ submissions' = submissions \cup {RowOf(t)}
    BY <1>18 DEF Commit, Sha, Bundle
  <2>3. Sha(t) = Sha(u)
    BY <2>1, <2>2 DEF BySha, RowOf
  <2>4. req[t].key = Sha(t) /\ ~Conflicts(t)
    BY <1>18 DEF Commit, KeyIsDigest, LockProtectsInsert, KeyChecked, Verified,
       Persisting, Stored
  <2> QED
    BY <2>1, <2>3, <2>4, SameBundleConflicts
<1>19. ASSUME NEW t \in Threads, Respond(t)
      PROVE  ConflictIsFinal'
  BY <1>19, LookupSame, ShaType DEF Respond, Goto, Finish, tables, files, TypeOK,
     Sha, Bundle
<1>20. ASSUME NEW t \in Threads, ResponseLost(t)
      PROVE  ConflictIsFinal'
  BY <1>20, LookupSame, ShaType DEF ResponseLost, Goto, Finish, tables, files,
     TypeOK, Sha, Bundle
<1>21. ASSUME NEW t \in Threads, IntegrityLookup(t)
      PROVE  ConflictIsFinal'
  BY <1>21, LookupSame, ShaType DEF IntegrityLookup, Goto, Finish, tables, files,
     TypeOK, Sha, Bundle
<1>22. ASSUME NEW t \in Threads, Discard(t)
      PROVE  ConflictIsFinal'
  BY <1>22, LookupSame, ShaType DEF Discard, Goto, Finish, tables, files, TypeOK,
     Sha, Bundle, UnlinkAndFinish
<1>23. ASSUME NEW t \in Threads, BusyTimeout(t)
      PROVE  ConflictIsFinal'
  BY <1>23, LookupSame, ShaType DEF BusyTimeout, Goto, Finish, tables, files,
     TypeOK, Sha, Bundle
<1>24. ASSUME NEW t \in Threads, PersistFails(t)
      PROVE  ConflictIsFinal'
  BY <1>24, LookupSame, ShaType DEF PersistFails, Goto, Finish, tables, files,
     TypeOK, Sha, Bundle, ReleaseLock
<1>25. ASSUME NEW t \in Threads, Undo(t)
      PROVE  ConflictIsFinal'
  BY <1>25, LookupSame, ShaType DEF Undo, Goto, Finish, tables, files, TypeOK,
     Sha, Bundle, UnlinkAndFinish
<1>26. ASSUME NEW t \in Threads, LookupFails(t)
      PROVE  ConflictIsFinal'
  BY <1>26, LookupSame, ShaType DEF LookupFails, Goto, Finish, tables, files,
     TypeOK, Sha, Bundle
<1>27. CASE Crash
  BY <1>27, LookupSame, ShaType DEF Crash, tables, files, TypeOK, Sha, Bundle
<1>28. ASSUME NEW d \in Digests, Corrupt(d)
      PROVE  ConflictIsFinal'
  BY <1>28, LookupSame, ShaType DEF Corrupt, tables, TypeOK, Sha, Bundle
<1>29. CASE UNCHANGED vars
  BY <1>29, LookupSame, ShaType DEF vars, tables, files, TypeOK, Sha, Bundle
<1> QED
  BY <1>1, <1>2, <1>3, <1>4, <1>5, <1>6, <1>7, <1>8, <1>9, <1>10, <1>11, <1>12,
     <1>13, <1>14, <1>15, <1>16, <1>17, <1>18, <1>19, <1>20, <1>21, <1>22, <1>23,
     <1>24, <1>25, <1>26, <1>27, <1>28, <1>29
     DEF Next, Handle

(* At most one thread may answer "accepted" for a digest, and it does so once. *)
LEMMA AcksStep ==
    ASSUME TypeOK, LockProtectsInsert, OneAcknowledger, AcknowledgedOnce, [Next]_vars
    PROVE  (OneAcknowledger /\ AcknowledgedOnce)'
<1> USE DEF OneAcknowledger, AcknowledgedOnce
<1>1. ASSUME NEW t \in Threads, NEW q \in Requests, Receive(t, q)
      PROVE  (OneAcknowledger /\ AcknowledgedOnce)'
  <2>1. /\ reply'[t] \notin {"accepted", "duplicate"}
        /\ pc'[t] # "respond"
        /\ \A u \in Threads \ {t} :
              pc'[u] = pc[u] /\ reply'[u] = reply[u] /\ req'[u] = req[u]
    BY <1>1, AdmissionCode DEF Receive, Goto, TypeOK, AdmissionCodes
  <2>2. UNCHANGED <<submissions, acks>>
    BY <1>1 DEF Receive, tables
  <2>3. AcknowledgedOnce'
    BY <2>1, <2>2 DEF AcknowledgedOnce, BySha, Sha, Bundle
  <2>4. OneAcknowledger'
    BY <2>1, <2>2 DEF OneAcknowledger, BySha, Sha, Bundle
  <2> QED
    BY <2>3, <2>4
<1>2. ASSUME NEW t \in Threads, ReadBody(t)
      PROVE  (OneAcknowledger /\ AcknowledgedOnce)'
  BY <1>2, LookupSame, ShaType DEF ReadBody, Goto, Finish, tables, files, TypeOK,
     Sha, Bundle
<1>3. ASSUME NEW t \in Threads, BodyEnds(t)
      PROVE  (OneAcknowledger /\ AcknowledgedOnce)'
  BY <1>3, LookupSame, ShaType DEF BodyEnds, Goto, Finish, tables, files, TypeOK,
     Sha, Bundle
<1>4. ASSUME NEW t \in Threads, SpoolFails(t)
      PROVE  (OneAcknowledger /\ AcknowledgedOnce)'
  BY <1>4, LookupSame, ShaType DEF SpoolFails, Goto, Finish, tables, files,
     TypeOK, Sha, Bundle
<1>5. ASSUME NEW t \in Threads, ValidateHeaders(t)
      PROVE  (OneAcknowledger /\ AcknowledgedOnce)'
  BY <1>5, LookupSame, ShaType, HeaderCode DEF ValidateHeaders, Goto, Finish,
     tables, files, TypeOK, Sha, Bundle, HeaderCodes
<1>6. ASSUME NEW t \in Threads, LookupKey(t)
      PROVE  (OneAcknowledger /\ AcknowledgedOnce)'
  BY <1>6, LookupSame, ShaType DEF LookupKey, Goto, Finish, tables, files, TypeOK,
     Sha, Bundle, ByKey, BySha
<1>7. ASSUME NEW t \in Threads, LookupSha(t)
      PROVE  (OneAcknowledger /\ AcknowledgedOnce)'
  BY <1>7, LookupSame, ShaType DEF LookupSha, Goto, Finish, tables, files, TypeOK,
     Sha, Bundle, BySha
<1>8. ASSUME NEW t \in Threads, Verify(t)
      PROVE  (OneAcknowledger /\ AcknowledgedOnce)'
  BY <1>8, LookupSame, ShaType DEF Verify, Goto, Finish, tables, files, TypeOK,
     Sha, Bundle
<1>9. ASSUME NEW t \in Threads, CheckConflicts(t)
      PROVE  (OneAcknowledger /\ AcknowledgedOnce)'
  BY <1>9, LookupSame, ShaType DEF CheckConflicts, Goto, Finish, tables, files,
     TypeOK, Sha, Bundle
<1>10. ASSUME NEW t \in Threads, Quarantine(t)
      PROVE  (OneAcknowledger /\ AcknowledgedOnce)'
  BY <1>10, LookupSame, ShaType DEF Quarantine, Goto, Finish, tables, files,
     TypeOK, Sha, Bundle, Rejection
<1>11. ASSUME NEW t \in Threads, PutExists(t)
      PROVE  (OneAcknowledger /\ AcknowledgedOnce)'
  BY <1>11, LookupSame, ShaType DEF PutExists, Goto, Finish, tables, files,
     TypeOK, Sha, Bundle
<1>12. ASSUME NEW t \in Threads, PutHash(t)
      PROVE  (OneAcknowledger /\ AcknowledgedOnce)'
  BY <1>12, LookupSame, ShaType DEF PutHash, Goto, Finish, tables, files, TypeOK,
     Sha, Bundle
<1>13. ASSUME NEW t \in Threads, PutCopy(t)
      PROVE  (OneAcknowledger /\ AcknowledgedOnce)'
  BY <1>13, LookupSame, ShaType DEF PutCopy, Goto, Finish, tables, files, TypeOK,
     Sha, Bundle
<1>14. ASSUME NEW t \in Threads, PutReplace(t)
      PROVE  (OneAcknowledger /\ AcknowledgedOnce)'
  BY <1>14, LookupSame, ShaType DEF PutReplace, Goto, Finish, tables, files,
     TypeOK, Sha, Bundle
<1>15. ASSUME NEW t \in Threads, PutFails(t)
      PROVE  (OneAcknowledger /\ AcknowledgedOnce)'
  BY <1>15, LookupSame, ShaType DEF PutFails, Goto, Finish, tables, files, TypeOK,
     Sha, Bundle
<1>16. ASSUME NEW t \in Threads, Begin(t)
      PROVE  (OneAcknowledger /\ AcknowledgedOnce)'
  BY <1>16, LookupSame, ShaType DEF Begin, Goto, Finish, tables, files, TypeOK,
     Sha, Bundle
<1>17. ASSUME NEW t \in Threads, Insert(t)
      PROVE  (OneAcknowledger /\ AcknowledgedOnce)'
  BY <1>17, LookupSame, ShaType DEF Insert, Goto, Finish, tables, files, TypeOK,
     Sha, Bundle, ReleaseLock
<1>18. ASSUME NEW t \in Threads, Commit(t)
      PROVE  (OneAcknowledger /\ AcknowledgedOnce)'
  <2>1. ~Conflicts(t)
    BY <1>18 DEF Commit, LockProtectsInsert
  <2>2. BySha(Sha(t)) = {}
    BY <2>1 DEF Conflicts, BySha
  <2>3. acks[Sha(t)] = 0
    BY <2>2, ShaType DEF TypeOK, AcknowledgedOnce
  <2>4. \A d \in Digests : BySha(d) # {} => BySha(d)' # {}
    BY <1>18 DEF Commit, BySha
  <2>5. BySha(Sha(t))' # {} /\ \A u \in Threads : Sha(u)' = Sha(u)
    <3>1. \A u \in Threads : Sha(u)' = Sha(u)
      BY <1>18 DEF Commit, Sha, Bundle
    <3>2. RowOf(t) \in submissions' /\ RowOf(t).sha = Sha(t)
      BY <1>18 DEF Commit, RowOf
    <3> QED
      BY <3>1, <3>2 DEF BySha
  <2>6. ASSUME NEW u \in Threads, reply'[u] \in {"accepted", "duplicate"}
        PROVE  BySha(Sha(u))' # {}
    <3>1. Sha(u) \in Digests /\ BySha(Sha(u)) # {} /\ Sha(u)' = Sha(u)
      BY <1>18, <2>5, <2>6, ShaType DEF Commit, AcknowledgedOnce
    <3> QED
      BY <1>18, <3>1 DEF Commit, BySha
  <2>7. AcknowledgedOnce'
    BY <1>18, <2>4, <2>6 DEF Commit, AcknowledgedOnce
  <2>8. OneAcknowledger'
    BY <1>18, <2>2, <2>3, <2>4, <2>5, ShaType DEF Commit, Goto, TypeOK, files,
       OneAcknowledger
  <2> QED
    BY <2>7, <2>8
<1>19. ASSUME NEW t \in Threads, Respond(t)
      PROVE  (OneAcknowledger /\ AcknowledgedOnce)'
  BY <1>19, LookupSame, ShaType DEF Respond, Goto, Finish, tables, files, TypeOK,
     Sha, Bundle
<1>20. ASSUME NEW t \in Threads, ResponseLost(t)
      PROVE  (OneAcknowledger /\ AcknowledgedOnce)'
  BY <1>20, LookupSame, ShaType DEF ResponseLost, Goto, Finish, tables, files,
     TypeOK, Sha, Bundle
<1>21. ASSUME NEW t \in Threads, IntegrityLookup(t)
      PROVE  (OneAcknowledger /\ AcknowledgedOnce)'
  BY <1>21, LookupSame, ShaType DEF IntegrityLookup, Goto, Finish, tables, files,
     TypeOK, Sha, Bundle, BySha
<1>22. ASSUME NEW t \in Threads, Discard(t)
      PROVE  (OneAcknowledger /\ AcknowledgedOnce)'
  BY <1>22, LookupSame, ShaType DEF Discard, Goto, Finish, tables, files, TypeOK,
     Sha, Bundle, UnlinkAndFinish
<1>23. ASSUME NEW t \in Threads, BusyTimeout(t)
      PROVE  (OneAcknowledger /\ AcknowledgedOnce)'
  BY <1>23, LookupSame, ShaType DEF BusyTimeout, Goto, Finish, tables, files,
     TypeOK, Sha, Bundle
<1>24. ASSUME NEW t \in Threads, PersistFails(t)
      PROVE  (OneAcknowledger /\ AcknowledgedOnce)'
  BY <1>24, LookupSame, ShaType DEF PersistFails, Goto, Finish, tables, files,
     TypeOK, Sha, Bundle, ReleaseLock
<1>25. ASSUME NEW t \in Threads, Undo(t)
      PROVE  (OneAcknowledger /\ AcknowledgedOnce)'
  BY <1>25, LookupSame, ShaType DEF Undo, Goto, Finish, tables, files, TypeOK,
     Sha, Bundle, UnlinkAndFinish
<1>26. ASSUME NEW t \in Threads, LookupFails(t)
      PROVE  (OneAcknowledger /\ AcknowledgedOnce)'
  BY <1>26, LookupSame, ShaType DEF LookupFails, Goto, Finish, tables, files,
     TypeOK, Sha, Bundle
<1>27. CASE Crash
  BY <1>27, LookupSame, ShaType DEF Crash, tables, files, TypeOK, Sha, Bundle
<1>28. ASSUME NEW d \in Digests, Corrupt(d)
      PROVE  (OneAcknowledger /\ AcknowledgedOnce)'
  BY <1>28, LookupSame, ShaType DEF Corrupt, tables, TypeOK, Sha, Bundle
<1>29. CASE UNCHANGED vars
  BY <1>29, LookupSame, ShaType DEF vars, tables, files, TypeOK, Sha, Bundle
<1> QED
  BY <1>1, <1>2, <1>3, <1>4, <1>5, <1>6, <1>7, <1>8, <1>9, <1>10, <1>11, <1>12,
     <1>13, <1>14, <1>15, <1>16, <1>17, <1>18, <1>19, <1>20, <1>21, <1>22, <1>23,
     <1>24, <1>25, <1>26, <1>27, <1>28, <1>29
     DEF Next, Handle

(* Each request and each put removes its own temporary file. *)
LEMMA ScratchStep ==
    ASSUME TypeOK, NoScratchLeak, [Next]_vars
    PROVE  NoScratchLeak'
<1> USE NoneAssumption DEF NoScratchLeak, Leftovers, Orphaned
<1>1. ASSUME NEW t \in Threads, NEW q \in Requests, Receive(t, q)
      PROVE  NoScratchLeak'
  BY <1>1, AdmissionCode DEF Receive, Goto, tables, TypeOK, AdmissionCodes
<1>2. ASSUME NEW t \in Threads, ReadBody(t)
      PROVE  NoScratchLeak'
  BY <1>2 DEF ReadBody, Goto, Finish, tables, files, TypeOK
<1>3. ASSUME NEW t \in Threads, BodyEnds(t)
      PROVE  NoScratchLeak'
  BY <1>3 DEF BodyEnds, Goto, Finish, tables, files, TypeOK
<1>4. ASSUME NEW t \in Threads, SpoolFails(t)
      PROVE  NoScratchLeak'
  BY <1>4 DEF SpoolFails, Goto, Finish, tables, files, TypeOK
<1>5. ASSUME NEW t \in Threads, ValidateHeaders(t)
      PROVE  NoScratchLeak'
  BY <1>5, HeaderCode DEF ValidateHeaders, Goto, Finish, tables, files, TypeOK,
     HeaderCodes
<1>6. ASSUME NEW t \in Threads, LookupKey(t)
      PROVE  NoScratchLeak'
  BY <1>6 DEF LookupKey, Goto, Finish, tables, files, TypeOK
<1>7. ASSUME NEW t \in Threads, LookupSha(t)
      PROVE  NoScratchLeak'
  BY <1>7 DEF LookupSha, Goto, Finish, tables, files, TypeOK
<1>8. ASSUME NEW t \in Threads, Verify(t)
      PROVE  NoScratchLeak'
  BY <1>8 DEF Verify, Goto, Finish, tables, files, TypeOK
<1>9. ASSUME NEW t \in Threads, CheckConflicts(t)
      PROVE  NoScratchLeak'
  BY <1>9 DEF CheckConflicts, Goto, Finish, tables, files, TypeOK
<1>10. ASSUME NEW t \in Threads, Quarantine(t)
      PROVE  NoScratchLeak'
  BY <1>10 DEF Quarantine, Goto, Finish, tables, files, TypeOK, Rejection
<1>11. ASSUME NEW t \in Threads, PutExists(t)
      PROVE  NoScratchLeak'
  BY <1>11 DEF PutExists, Goto, Finish, tables, files, TypeOK
<1>12. ASSUME NEW t \in Threads, PutHash(t)
      PROVE  NoScratchLeak'
  BY <1>12 DEF PutHash, Goto, Finish, tables, files, TypeOK
<1>13. ASSUME NEW t \in Threads, PutCopy(t)
      PROVE  NoScratchLeak'
  BY <1>13 DEF PutCopy, Goto, Finish, tables, files, TypeOK
<1>14. ASSUME NEW t \in Threads, PutReplace(t)
      PROVE  NoScratchLeak'
  BY <1>14 DEF PutReplace, Goto, Finish, tables, files, TypeOK
<1>15. ASSUME NEW t \in Threads, PutFails(t)
      PROVE  NoScratchLeak'
  BY <1>15 DEF PutFails, Goto, Finish, tables, files, TypeOK
<1>16. ASSUME NEW t \in Threads, Begin(t)
      PROVE  NoScratchLeak'
  BY <1>16 DEF Begin, Goto, Finish, tables, files, TypeOK
<1>17. ASSUME NEW t \in Threads, Insert(t)
      PROVE  NoScratchLeak'
  BY <1>17 DEF Insert, Goto, Finish, tables, files, TypeOK, ReleaseLock
<1>18. ASSUME NEW t \in Threads, Commit(t)
      PROVE  NoScratchLeak'
  BY <1>18 DEF Commit, Goto, Finish, tables, files, TypeOK, ReleaseLock
<1>19. ASSUME NEW t \in Threads, Respond(t)
      PROVE  NoScratchLeak'
  BY <1>19 DEF Respond, Goto, Finish, tables, files, TypeOK
<1>20. ASSUME NEW t \in Threads, ResponseLost(t)
      PROVE  NoScratchLeak'
  BY <1>20 DEF ResponseLost, Goto, Finish, tables, files, TypeOK
<1>21. ASSUME NEW t \in Threads, IntegrityLookup(t)
      PROVE  NoScratchLeak'
  BY <1>21 DEF IntegrityLookup, Goto, Finish, tables, files, TypeOK
<1>22. ASSUME NEW t \in Threads, Discard(t)
      PROVE  NoScratchLeak'
  BY <1>22 DEF Discard, Goto, Finish, tables, files, TypeOK, UnlinkAndFinish
<1>23. ASSUME NEW t \in Threads, BusyTimeout(t)
      PROVE  NoScratchLeak'
  BY <1>23 DEF BusyTimeout, Goto, Finish, tables, files, TypeOK
<1>24. ASSUME NEW t \in Threads, PersistFails(t)
      PROVE  NoScratchLeak'
  BY <1>24 DEF PersistFails, Goto, Finish, tables, files, TypeOK, ReleaseLock
<1>25. ASSUME NEW t \in Threads, Undo(t)
      PROVE  NoScratchLeak'
  BY <1>25 DEF Undo, Goto, Finish, tables, files, TypeOK, UnlinkAndFinish
<1>26. ASSUME NEW t \in Threads, LookupFails(t)
      PROVE  NoScratchLeak'
  BY <1>26 DEF LookupFails, Goto, Finish, tables, files, TypeOK
<1>27. CASE Crash
  BY <1>27 DEF Crash, tables, files, TypeOK
<1>28. ASSUME NEW d \in Digests, Corrupt(d)
      PROVE  NoScratchLeak'
  BY <1>28 DEF Corrupt, tables, TypeOK
<1>29. CASE UNCHANGED vars
  BY <1>29 DEF vars, tables, files, TypeOK
<1> QED
  BY <1>1, <1>2, <1>3, <1>4, <1>5, <1>6, <1>7, <1>8, <1>9, <1>10, <1>11, <1>12,
     <1>13, <1>14, <1>15, <1>16, <1>17, <1>18, <1>19, <1>20, <1>21, <1>22, <1>23,
     <1>24, <1>25, <1>26, <1>27, <1>28, <1>29
     DEF Next, Handle

(* The service starts in a state of the inductive invariant. *)
LEMMA InitIInv == Init => IInv
<1> SUFFICES ASSUME Init PROVE IInv
  OBVIOUS
<1>1. (CHOOSE q \in Requests : TRUE) \in Requests
  BY RequestAssumption
<1>2. TypeOK
  BY <1>1 DEF Init, TypeOK, Steps, Codes
<1>3. KeyIsDigest /\ VerifiedBeforeStored /\ ConflictsPersist /\ ConflictIsFinal
      /\ OneAcknowledger
  BY DEF Init, KeyIsDigest, VerifiedBeforeStored, ConflictsPersist, ConflictIsFinal,
     OneAcknowledger, KeyChecked, Verified, Persisting, Stored
<1>4. LockProtectsInsert
  BY NoneAssumption DEF Init, LockProtectsInsert
<1>5. Recorded = {}
  BY DEF Init, Recorded, BySha
<1>6. OnlyVerifiedRecorded /\ TablesConsistent
  BY <1>5 DEF Init, OnlyVerifiedRecorded, TablesConsistent
<1>7. AcknowledgedOnce /\ NoScratchLeak
  BY DEF Init, AcknowledgedOnce, NoScratchLeak
<1> QED
  BY <1>2, <1>3, <1>4, <1>6, <1>7 DEF IInv

(* Every step of a thread, and every crash and corruption, preserves it. *)
LEMMA NextIInv == IInv /\ [Next]_vars => IInv'
<1> SUFFICES ASSUME IInv, [Next]_vars PROVE IInv'
  OBVIOUS
<1> USE DEF IInv
<1>1. TypeOK'
  BY TypeStep
<1>2. KeyIsDigest' /\ VerifiedBeforeStored'
  BY LocalStep
<1>3. LockProtectsInsert'
  BY LockStep
<1>4. ConflictsPersist'
  BY ConflictsStep
<1>5. OnlyVerifiedRecorded' /\ TablesConsistent'
  BY TablesStep
<1>6. ConflictIsFinal'
  BY ConflictFinalStep
<1>7. OneAcknowledger' /\ AcknowledgedOnce'
  BY AcksStep
<1>8. NoScratchLeak'
  BY ScratchStep
<1> QED
  BY <1>1, <1>2, <1>3, <1>4, <1>5, <1>6, <1>7, <1>8

(***************************************************************************)
(* The inductive invariant holds in every reachable state, whatever faults  *)
(* and crashes happen to the threads of ingest.                             *)
(***************************************************************************)
THEOREM Safety == Spec => []IInv
<1> QED
  BY InitIInv, NextIInv, PTL DEF Spec

(* Variables, rows and answers of the handlers stay well typed. *)
THEOREM TypeCorrect == Spec => []TypeOK
<1>1. IInv => TypeOK
  BY DEF IInv
<1> QED
  BY <1>1, Safety, PTL

(* ingest fails closed: only verified bundles are ever committed. *)
THEOREM FailsClosed == Spec => []OnlyVerifiedRecorded
<1>1. IInv => OnlyVerifiedRecorded
  BY DEF IInv
<1> QED
  BY <1>1, Safety, PTL

(***************************************************************************)
(* persist is atomic and isolated: the three tables always describe the     *)
(* same set of bundles, which do not share samples.                         *)
(***************************************************************************)
THEOREM Consistent == Spec => []TablesConsistent
<1>1. IInv => TablesConsistent
  BY DEF IInv
<1> QED
  BY <1>1, Safety, PTL

(***************************************************************************)
(* No bundle is acknowledged as new twice, and ingest's positive answers    *)
(* are only given for durable rows.                                         *)
(***************************************************************************)
THEOREM AcceptedOnce == Spec => []AcknowledgedOnce
<1>1. IInv => AcknowledgedOnce
  BY DEF IInv
<1> QED
  BY <1>1, Safety, PTL

(* While a request is refused by persist with a conflict (409), its bundle is not recorded. *)
THEOREM ConflictsFinal == Spec => []ConflictIsFinal
<1>1. IInv => ConflictIsFinal
  BY DEF IInv
<1> QED
  BY <1>1, Safety, PTL

(***************************************************************************)
(* Every exit of do_POST, ingest and put, also one on a failing unlink,     *)
(* takes the spooled body and the partial copy off the request; files of no *)
(* request are left by a failed unlink or a crash only.                     *)
(***************************************************************************)
THEOREM ScratchRemoved == Spec => []NoScratchLeak
<1>1. IInv => NoScratchLeak
  BY DEF IInv
<1> QED
  BY <1>1, Safety, PTL

-----------------------------------------------------------------------------
(* A database that answers in time, and a disk that keeps what it stores. *)
Reliable == Faults \cap {"busy", "database", "corruption"} = {}

(* Committed bundles are not removed: only Discard unlinks, and not a recorded one. *)
LEMMA StoredStep ==
    ASSUME Reliable, IInv, StoredBeforePersist, CommittedBundleStored, [Next]_vars
    PROVE  CommittedBundleStored'
<1>1. ASSUME NEW t \in Threads, Commit(t)
      PROVE  CommittedBundleStored'
  <2>1. store[Sha(t)] = "whole"
    BY <1>1 DEF IInv, Commit, LockProtectsInsert, StoredBeforePersist, RetryFindsBundle
  <2>2. submissions' = submissions \cup {RowOf(t)} /\ store' = store
    BY <1>1 DEF Commit, files
  <2> QED
    BY <2>1, <2>2 DEF CommittedBundleStored, RowOf
<1>2. ASSUME NEW t \in Threads, Discard(t)
      PROVE  CommittedBundleStored'
  <2>1. \A r \in submissions : r.sha # Sha(t)
    BY <1>2 DEF IInv, Discard, ConflictIsFinal, BySha
  <2>2. submissions' = submissions /\ \A r \in submissions : store'[r.sha] = store[r.sha]
    BY <1>2, <2>1 DEF Discard, UnlinkAndFinish, tables, IInv, TypeOK
  <2> QED
    BY <2>2 DEF CommittedBundleStored
<1>3. ASSUME NEW t \in Threads, PutReplace(t)
      PROVE  CommittedBundleStored'
  <2>1. submissions' = submissions
        /\ \A r \in submissions : store'[r.sha] = store[r.sha] \/ store'[r.sha] = "whole"
    BY <1>3 DEF PutReplace, tables, IInv, TypeOK
  <2> QED
    BY <2>1 DEF CommittedBundleStored
<1>4. ASSUME NEW t \in Threads, Handle(t), ~Commit(t), ~Discard(t), ~PutReplace(t)
      PROVE  UNCHANGED store
  BY <1>4 DEF Handle, ReadBody, BodyEnds, SpoolFails, ValidateHeaders, LookupKey,
     LookupSha, Verify, CheckConflicts, Quarantine, PutExists, PutHash, PutCopy,
     PutFails, Begin, Insert, Respond, ResponseLost, IntegrityLookup, BusyTimeout,
     PersistFails, Undo, LookupFails, files, StoredBeforePersist
<1>5. ASSUME UNCHANGED store, UNCHANGED tables
      PROVE  CommittedBundleStored'
  BY <1>5 DEF CommittedBundleStored, tables
<1>6. ASSUME NEW t \in Threads, NEW q \in Requests, Receive(t, q)
      PROVE  UNCHANGED store
  BY <1>6 DEF Receive
<1>7. CASE Crash \/ UNCHANGED vars
  BY <1>7 DEF Crash, vars, files, tables, CommittedBundleStored
<1>8. ~ \E d \in Digests : Corrupt(d)
  BY DEF Corrupt, Reliable
<1> QED
  BY <1>1, <1>2, <1>3, <1>4, <1>5, <1>6, <1>7, <1>8, OnlyCommitWrites DEF Next

(* A thread that goes on to persist has its bundle stored, or will meet a conflict. *)
LEMMA PersistStep ==
    ASSUME Reliable, IInv, StoredBeforePersist, [Next]_vars
    PROVE  StoredBeforePersist'
<1> USE DEF StoredBeforePersist, RetryFindsBundle
<1>1. ASSUME NEW t \in Threads, NEW q \in Requests, Receive(t, q)
      PROVE  StoredBeforePersist'
  BY <1>1, ConflictsSame DEF Receive, Goto, tables, IInv, TypeOK, Sha,
     Bundle
<1>2. ASSUME NEW t \in Threads, ReadBody(t)
      PROVE  StoredBeforePersist'
  BY <1>2, ConflictsSame DEF ReadBody, Goto, Finish, tables, files, IInv, TypeOK,
     Sha, Bundle
<1>3. ASSUME NEW t \in Threads, BodyEnds(t)
      PROVE  StoredBeforePersist'
  BY <1>3, ConflictsSame DEF BodyEnds, Goto, Finish, tables, files, IInv, TypeOK,
     Sha, Bundle
<1>4. ASSUME NEW t \in Threads, SpoolFails(t)
      PROVE  StoredBeforePersist'
  BY <1>4, ConflictsSame DEF SpoolFails, Goto, Finish, tables, files, IInv,
     TypeOK, Sha, Bundle
<1>5. ASSUME NEW t \in Threads, ValidateHeaders(t)
      PROVE  StoredBeforePersist'
  BY <1>5, ConflictsSame DEF ValidateHeaders, Goto, Finish, tables, files, IInv,
     TypeOK, Sha, Bundle
<1>6. ASSUME NEW t \in Threads, LookupKey(t)
      PROVE  StoredBeforePersist'
  BY <1>6, ConflictsSame DEF LookupKey, Goto, Finish, tables, files, IInv, TypeOK,
     Sha, Bundle
<1>7. ASSUME NEW t \in Threads, LookupSha(t)
      PROVE  StoredBeforePersist'
  BY <1>7, ConflictsSame DEF LookupSha, Goto, Finish, tables, files, IInv, TypeOK,
     Sha, Bundle
<1>8. ASSUME NEW t \in Threads, Verify(t)
      PROVE  StoredBeforePersist'
  BY <1>8, ConflictsSame DEF Verify, Goto, Finish, tables, files, IInv, TypeOK,
     Sha, Bundle
<1>9. ASSUME NEW t \in Threads, CheckConflicts(t)
      PROVE  StoredBeforePersist'
  BY <1>9, ConflictsSame DEF CheckConflicts, Goto, Finish, tables, files, IInv,
     TypeOK, Sha, Bundle
<1>10. ASSUME NEW t \in Threads, Quarantine(t)
      PROVE  StoredBeforePersist'
  BY <1>10, ConflictsSame DEF Quarantine, Goto, Finish, tables, files, IInv,
     TypeOK, Sha, Bundle
<1>11. ASSUME NEW t \in Threads, PutExists(t)
      PROVE  StoredBeforePersist'
  BY <1>11, ConflictsSame, ShaType DEF PutExists, Goto, Finish, tables, files,
     IInv, TypeOK, Sha, Bundle
<1>12. ASSUME NEW t \in Threads, PutHash(t)
      PROVE  StoredBeforePersist'
  BY <1>12, ConflictsSame DEF PutHash, Goto, Finish, tables, files, IInv, TypeOK,
     Sha, Bundle
<1>13. ASSUME NEW t \in Threads, PutCopy(t)
      PROVE  StoredBeforePersist'
  BY <1>13, ConflictsSame DEF PutCopy, Goto, Finish, tables, files, IInv, TypeOK,
     Sha, Bundle
<1>14. ASSUME NEW t \in Threads, PutReplace(t)
      PROVE  StoredBeforePersist'
  BY <1>14, ConflictsSame, ShaType DEF PutReplace, Goto, Finish, tables, files,
     IInv, TypeOK, Sha, Bundle
<1>15. ASSUME NEW t \in Threads, PutFails(t)
      PROVE  StoredBeforePersist'
  BY <1>15, ConflictsSame DEF PutFails, Goto, Finish, tables, files, IInv, TypeOK,
     Sha, Bundle
<1>16. ASSUME NEW t \in Threads, Begin(t)
      PROVE  StoredBeforePersist'
  BY <1>16, ConflictsSame DEF Begin, Goto, Finish, tables, files, IInv, TypeOK,
     Sha, Bundle
<1>17. ASSUME NEW t \in Threads, Insert(t)
      PROVE  StoredBeforePersist'
  BY <1>17, ConflictsSame DEF Insert, Goto, Finish, tables, files, IInv, TypeOK,
     Sha, Bundle, ReleaseLock
<1>18. ASSUME NEW t \in Threads, Commit(t)
      PROVE  StoredBeforePersist'
  BY <1>18, ConflictsSame, ConflictsGrow DEF Commit, Goto, Finish, tables, files,
     IInv, TypeOK, Sha, Bundle, ReleaseLock
<1>19. ASSUME NEW t \in Threads, Respond(t)
      PROVE  StoredBeforePersist'
  BY <1>19, ConflictsSame DEF Respond, Goto, Finish, tables, files, IInv, TypeOK,
     Sha, Bundle
<1>20. ASSUME NEW t \in Threads, ResponseLost(t)
      PROVE  StoredBeforePersist'
  BY <1>20, ConflictsSame DEF ResponseLost, Goto, Finish, tables, files, IInv,
     TypeOK, Sha, Bundle
<1>21. ASSUME NEW t \in Threads, IntegrityLookup(t)
      PROVE  StoredBeforePersist'
  BY <1>21, ConflictsSame DEF IntegrityLookup, Goto, Finish, tables, files, IInv,
     TypeOK, Sha, Bundle
<1>22. ASSUME NEW t \in Threads, Discard(t)
      PROVE  StoredBeforePersist'
  <2>1. Conflicts(t) /\ req[t].key = Sha(t)
    BY <1>22 DEF IInv, Discard, ConflictsPersist, KeyIsDigest, KeyChecked, Verified,
       Persisting
  <2>2. ASSUME NEW u \in Threads, pc'[u] \in {"hash", "begin", "insert", "commit"}
        PROVE  store'[Sha(u)] = "whole" \/ Conflicts(u)
    <3>1. pc[u] \in {"hash", "begin", "insert", "commit"} /\ req[u].key = Sha(u)
      BY <1>22, <2>2 DEF IInv, TypeOK, Discard, UnlinkAndFinish, Finish, Goto,
         Stored, KeyIsDigest, KeyChecked, Verified, Persisting
    <3>2. CASE Sha(u) = Sha(t)
      BY <2>1, <3>1, <3>2, SameBundleConflicts DEF IInv
    <3>3. CASE Sha(u) # Sha(t)
      <4>1. store'[Sha(u)] = store[Sha(u)]
        BY <1>22, <3>3, ShaType DEF Discard, UnlinkAndFinish, IInv, TypeOK
      <4> QED
        BY <3>1, <4>1 DEF StoredBeforePersist
    <3> QED
      BY <3>2, <3>3
  <2>3. UNCHANGED <<req, tables>> /\ \A u \in Threads : pc'[u] # "undo"
    BY <1>22 DEF Discard, UnlinkAndFinish, Finish, Goto, IInv, TypeOK,
       StoredBeforePersist
  <2>4. \A d \in Digests : store'[d] # "corrupt"
    BY <1>22, ShaType DEF Discard, UnlinkAndFinish, IInv, TypeOK
  <2> QED
    BY <2>2, <2>3, <2>4 DEF StoredBeforePersist, Conflicts, ExistingSamples, Sha, Bundle,
       tables
<1>23. ASSUME NEW t \in Threads, BusyTimeout(t)
      PROVE  StoredBeforePersist'
  BY <1>23, ConflictsSame DEF BusyTimeout, Goto, Finish, tables, files, IInv,
     TypeOK, Sha, Bundle, Reliable
<1>24. ASSUME NEW t \in Threads, PersistFails(t)
      PROVE  StoredBeforePersist'
  BY <1>24, ConflictsSame DEF PersistFails, Goto, Finish, tables, files, IInv,
     TypeOK, Sha, Bundle, Reliable, ReleaseLock
<1>25. ASSUME NEW t \in Threads, Undo(t)
      PROVE  StoredBeforePersist'
  BY <1>25, ConflictsSame DEF Undo, Goto, Finish, tables, files, IInv, TypeOK,
     Sha, Bundle, UnlinkAndFinish
<1>26. ASSUME NEW t \in Threads, LookupFails(t)
      PROVE  StoredBeforePersist'
  BY <1>26, ConflictsSame DEF LookupFails, Goto, Finish, tables, files, IInv,
     TypeOK, Sha, Bundle
<1>27. CASE Crash
  BY <1>27, ConflictsSame DEF Crash, tables, files, IInv, TypeOK, Sha,
     Bundle
<1>28. ASSUME NEW d \in Digests, Corrupt(d)
      PROVE  StoredBeforePersist'
  BY <1>28, ConflictsSame DEF Corrupt, tables, IInv, TypeOK, Sha, Bundle,
     Reliable
<1>29. CASE UNCHANGED vars
  BY <1>29, ConflictsSame DEF vars, tables, files, IInv, TypeOK, Sha, Bundle
<1> QED
  BY <1>1, <1>2, <1>3, <1>4, <1>5, <1>6, <1>7, <1>8, <1>9, <1>10, <1>11, <1>12,
     <1>13, <1>14, <1>15, <1>16, <1>17, <1>18, <1>19, <1>20, <1>21, <1>22, <1>23,
     <1>24, <1>25, <1>26, <1>27, <1>28, <1>29
     DEF Next, Handle

(* The invariant of a service whose database and disk are reliable. *)
ReliableInv == IInv /\ StoredBeforePersist /\ CommittedBundleStored

LEMMA ReliableSafety ==
    ASSUME Reliable
    PROVE  Spec => []ReliableInv
<1>1. Init => ReliableInv
  <2>1. Init => StoredBeforePersist /\ CommittedBundleStored
    BY DEF Init, StoredBeforePersist, RetryFindsBundle, CommittedBundleStored
  <2> QED
    BY <2>1, InitIInv DEF ReliableInv
<1>2. ReliableInv /\ [Next]_vars => ReliableInv'
  BY NextIInv, PersistStep, StoredStep DEF ReliableInv
<1> QED
  BY <1>1, <1>2, PTL DEF Spec

(***************************************************************************)
(* On a reliable database and disk every committed submission keeps its     *)
(* original bundle, whatever threads race for the same digest or the same   *)
(* samples, fail on disk errors or are killed between put and commit.       *)
(***************************************************************************)
THEOREM BundlesKept ==
    ASSUME Reliable
    PROVE  Spec => []CommittedBundleStored
<1>1. ReliableInv => CommittedBundleStored
  BY DEF ReliableInv
<1> QED
  BY <1>1, ReliableSafety, PTL

(***************************************************************************)
(* On a reliable database and disk a submission repeated after a kill       *)
(* between os.replace and the commit, or beside another one of the bundle,  *)
(* reads the stored copy whole and keeps it until it has committed, unless  *)
(* the bundle conflicts with what is recorded.                              *)
(***************************************************************************)
THEOREM RetriesFindBundle ==
    ASSUME Reliable
    PROVE  Spec => []RetryFindsBundle
<1>1. ReliableInv => RetryFindsBundle
  BY DEF ReliableInv, StoredBeforePersist
<1> QED
  BY <1>1, ReliableSafety, PTL

-----------------------------------------------------------------------------
(* A disk and a database that raise no error: unlink and by_bundle_sha256 work. *)
CleansUp == Faults \cap {"disk", "database"} = {}

(* The steps at which a thread that stored a bundle still answers for it. *)
Answerable == {"begin", "insert", "commit", "integrity", "discard", "undo"}
Owns(t, d) == Sha(t) = d /\ created[t] /\ pc[t] \in Answerable

(* A step of one thread leaves what the others answer for alone. *)
LEMMA OwnersKept ==
    ASSUME TypeOK, NEW t \in Threads, Handle(t) \/ \E q \in Requests : Receive(t, q)
    PROVE  \A u \in Threads : u # t =>
               pc'[u] = pc[u] /\ req'[u] = req[u] /\ created'[u] = created[u]
<1>1. ASSUME NEW q \in Requests, Receive(t, q), NEW u \in Threads, u # t
      PROVE  pc'[u] = pc[u] /\ req'[u] = req[u] /\ created'[u] = created[u]
  BY <1>1 DEF Receive, Goto, TypeOK
<1>2. ASSUME Handle(t)
      PROVE  req' = req
  BY <1>2 DEF Handle, ReadBody, BodyEnds, SpoolFails, ValidateHeaders, LookupKey,
     LookupSha, Verify, CheckConflicts, Quarantine, PutExists, PutHash, PutCopy,
     PutReplace, PutFails, Begin, Insert, Commit, Respond, ResponseLost,
     IntegrityLookup, Discard, BusyTimeout, PersistFails, Undo, LookupFails
<1>3. ASSUME Handle(t)
      PROVE  created' = created \/ created' = [created EXCEPT ![t] = TRUE]
  BY <1>3 DEF Handle, ReadBody, BodyEnds, SpoolFails, ValidateHeaders, LookupKey,
     LookupSha, Verify, CheckConflicts, Quarantine, PutExists, PutHash, PutCopy,
     PutReplace, PutFails, Begin, Insert, Commit, Respond, ResponseLost,
     IntegrityLookup, Discard, BusyTimeout, PersistFails, Undo, LookupFails
<1>4. ASSUME Handle(t)
      PROVE  \E s : pc' = [pc EXCEPT ![t] = s]
  BY <1>4 DEF Handle, ReadBody, BodyEnds, SpoolFails, ValidateHeaders, LookupKey,
     LookupSha, Verify, CheckConflicts, Quarantine, PutExists, PutHash, PutCopy,
     PutReplace, PutFails, Begin, Insert, Commit, Respond, ResponseLost,
     IntegrityLookup, Discard, BusyTimeout, PersistFails, Undo, LookupFails,
     UnlinkAndFinish, Finish, Goto
<1>5. ASSUME Handle(t), NEW u \in Threads, u # t
      PROVE  pc'[u] = pc[u] /\ req'[u] = req[u] /\ created'[u] = created[u]
  <2>1. PICK s : pc' = [pc EXCEPT ![t] = s]
    BY <1>4, <1>5
  <2>2. created'[u] = created[u]
    BY <1>3, <1>5 DEF TypeOK
  <2> QED
    BY <1>2, <1>5, <2>1, <2>2 DEF TypeOK
<1>6. CASE Handle(t)
  BY <1>5, <1>6
<1>7. CASE \E q \in Requests : Receive(t, q)
  BY <1>1, <1>7
<1> QED
  BY <1>6, <1>7

(***************************************************************************)
(* A thread that answers for a bundle and takes a step goes on answering    *)
(* for it, has recorded it, or has unlinked it.                             *)
(***************************************************************************)
LEMMA OwnerStep ==
    ASSUME CleansUp, TypeOK, NEW t \in Threads, Handle(t),
           NEW d \in Digests, Owns(t, d)
    PROVE  Owns(t, d)' \/ BySha(d)' # {} \/ store'[d] = "absent"
<1> USE DEF Owns, Answerable, TypeOK, Sha, Bundle
<1>1. CASE Begin(t) \/ Insert(t) \/ BusyTimeout(t)
  BY <1>1 DEF Begin, Insert, BusyTimeout, Goto
<1>2. CASE Commit(t)
  <2>1. RowOf(t) \in submissions' /\ RowOf(t).sha = d
    BY <1>2 DEF Commit, RowOf
  <2> QED
    BY <2>1 DEF BySha
<1>3. CASE IntegrityLookup(t)
  BY <1>3 DEF IntegrityLookup, Goto, BySha, tables
<1>4. CASE Discard(t) \/ Undo(t)
  BY <1>4 DEF Discard, Undo, UnlinkAndFinish, CleansUp
<1>5. ~(PersistFails(t) \/ LookupFails(t) \/ PutFails(t) \/ SpoolFails(t))
  BY DEF PersistFails, LookupFails, PutFails, SpoolFails, CleansUp
<1> QED
  BY <1>1, <1>2, <1>3, <1>4, <1>5 DEF Handle, ReadBody, BodyEnds,
     ValidateHeaders, LookupKey, LookupSha, Verify, CheckConflicts, Quarantine,
     PutExists, PutHash, PutCopy, PutReplace, Respond, ResponseLost

(* Only PutReplace makes a bundle appear, and its thread answers for it. *)
LEMMA AppearsOwned ==
    ASSUME TypeOK, [Next]_vars, crashes' = crashes,
           NEW d \in Digests, store[d] = "absent", store'[d] # "absent"
    PROVE  \E t \in Threads : Owns(t, d)'
<1>1. ASSUME NEW t \in Threads, PutReplace(t)
      PROVE  Owns(t, d)'
  <2>1. Sha(t) = d
    BY <1>1, ShaType DEF PutReplace, TypeOK
  <2> QED
    BY <1>1, <2>1 DEF PutReplace, Goto, Owns, Answerable, TypeOK, Sha, Bundle
<1>2. ASSUME NEW t \in Threads, NEW q \in Requests, Receive(t, q)
      PROVE  store' = store
  BY <1>2 DEF Receive
<1>3. ASSUME NEW t \in Threads, Handle(t), ~PutReplace(t)
      PROVE  store' = store \/ store' = [store EXCEPT ![Sha(t)] = "absent"]
  BY <1>3 DEF Handle, ReadBody, BodyEnds, SpoolFails, ValidateHeaders, LookupKey,
     LookupSha, Verify, CheckConflicts, Quarantine, PutExists, PutHash, PutCopy,
     PutFails, Begin, Insert, Commit, Respond, ResponseLost, IntegrityLookup,
     Discard, BusyTimeout, PersistFails, Undo, LookupFails, UnlinkAndFinish, files
<1>4. ASSUME NEW e \in Digests, Corrupt(e)
      PROVE  store' = [store EXCEPT ![e] = "corrupt"] /\ store[e] = "whole"
  BY <1>4 DEF Corrupt
<1>5. CASE Crash \/ UNCHANGED vars
  BY <1>5 DEF Crash, vars, files
<1> QED
  BY <1>1, <1>2, <1>3, <1>4, <1>5 DEF Next, TypeOK

(* Every step keeps each stored bundle recorded or answered for. *)
LEMMA OrphanStep ==
    ASSUME CleansUp, TypeOK, TypeOK', NoOrphanBundle, [Next]_vars
    PROVE  NoOrphanBundle'
<1> SUFFICES ASSUME crashes' = 0, NEW d \in Digests, store'[d] # "absent",
                    BySha(d)' = {}
             PROVE  \E t \in Threads : Owns(t, d)'
  BY DEF NoOrphanBundle, Owns, Answerable
<1>1. crashes' = crashes
  <2>1. ~Crash
    BY DEF Crash, TypeOK
  <2> QED
    BY <2>1 DEF Next, Handle, Receive, ReadBody, BodyEnds, SpoolFails, ValidateHeaders,
       LookupKey, LookupSha, Verify, CheckConflicts, Quarantine, PutExists, PutHash,
       PutCopy, PutReplace, PutFails, Begin, Insert, Commit, Respond, ResponseLost,
       IntegrityLookup, Discard, BusyTimeout, PersistFails, Undo, LookupFails,
       Corrupt, vars
<1>2. CASE store[d] = "absent"
  BY <1>1, <1>2, AppearsOwned
<1>3. CASE store[d] # "absent"
  <2>1. BySha(d) = {}
    <3>1. submissions \subseteq submissions'
      BY OnlyCommitWrites DEF tables, Commit
    <3> QED
      BY <3>1 DEF BySha
  <2>2. PICK t \in Threads : Owns(t, d)
    BY <1>1, <1>3, <2>1 DEF NoOrphanBundle, Owns, Answerable
  <2>3. ASSUME Handle(t)
        PROVE  Owns(t, d)'
    BY <2>2, <2>3, OwnerStep
  <2>4. ASSUME NEW u \in Threads, u # t, Handle(u) \/ \E q \in Requests : Receive(u, q)
        PROVE  Owns(t, d)'
    BY <2>2, <2>4, OwnersKept DEF Owns, Sha, Bundle
  <2>5. ~ \E q \in Requests : Receive(t, q)
    BY <2>2 DEF Owns, Answerable, Receive
  <2>6. CASE (\E e \in Digests : Corrupt(e)) \/ UNCHANGED vars
    BY <2>2, <2>6 DEF Corrupt, vars, Owns, Sha, Bundle
  <2>7. ~Crash
    BY <1>1 DEF Crash, TypeOK
  <2> QED
    BY <2>3, <2>4, <2>5, <2>6, <2>7 DEF Next
<1> QED
  BY <1>2, <1>3 DEF TypeOK

(***************************************************************************)
(* On a disk and a database without errors, until the process is killed,    *)
(* ingest leaves no orphan in the bundle store: whichever of two threads    *)
(* with the same digest gives up, times out or loses the race, a stored     *)
(* bundle has its row or a thread that will still record or unlink it.      *)
(***************************************************************************)
THEOREM NoOrphans ==
    ASSUME CleansUp
    PROVE  Spec => []NoOrphanBundle
<1>1. Init => NoOrphanBundle
  BY DEF Init, NoOrphanBundle
<1>2. TypeOK /\ TypeOK' /\ NoOrphanBundle /\ [Next]_vars => NoOrphanBundle'
  BY OrphanStep
<1> QED
  BY <1>1, <1>2, TypeCorrect, PTL DEF Spec

-----------------------------------------------------------------------------
(* Respond is the only step that acknowledges a bundle as new. *)
LEMMA OnlyRespondAcknowledges ==
    ASSUME [Next]_vars
    PROVE  UNCHANGED acks \/ \E t \in Threads : Respond(t)
<1>1. ASSUME NEW t \in Threads, NEW q \in Requests, Receive(t, q)
      PROVE  UNCHANGED acks
  BY <1>1 DEF Receive
<1>2. ASSUME NEW t \in Threads, Handle(t), ~Respond(t)
      PROVE  UNCHANGED acks
  BY <1>2 DEF Handle, ReadBody, BodyEnds, SpoolFails, ValidateHeaders, LookupKey,
     LookupSha, Verify, CheckConflicts, Quarantine, PutExists, PutHash, PutCopy,
     PutReplace, PutFails, Begin, Insert, Commit, ResponseLost, IntegrityLookup,
     Discard, BusyTimeout, PersistFails, Undo, LookupFails
<1>3. CASE Crash \/ \E d \in Digests : Corrupt(d)
  BY <1>3 DEF Crash, Corrupt
<1>4. CASE UNCHANGED vars
  BY <1>4 DEF vars
<1> QED
  BY <1>1, <1>2, <1>3, <1>4 DEF Next

(* Every step of the service is a step of the ledger or invisible to it. *)
LEMMA LedgerStep ==
    ASSUME IInv, IInv', [Next]_vars
    PROVE  [Ledger!Next]_(Ledger!vars)
<1> DEFINE V == {p \in Payloads : Content[p].verified}
           A == [p \in V |-> acks[Content[p].sha]]
<1>1. ASSUME NEW t \in Threads, Commit(t)
      PROVE  \E b \in V : Ledger!Record(b)
  <2> DEFINE p == req[t].payload
  <2>1. p \in Payloads \ Recorded /\ Recorded' = Recorded \cup {p}
    BY <1>1, CommitRecords DEF IInv
  <2>2. p \in V
    BY <1>1, <2>1 DEF IInv, Commit, VerifiedBeforeStored, Verified, Persisting,
       Stored,
       Bundle
  <2>3. \A q \in Recorded : Content[p].samples \cap Content[q].samples = {}
    BY <2>1 DEF IInv, TablesConsistent
  <2>4. Recorded \subseteq Payloads
    BY DEF Recorded
  <2>5. acks' = acks
    BY <1>1 DEF Commit
  <2>6. Ledger!Record(p)
    BY <2>1, <2>3, <2>4, <2>5 DEF Ledger!Record
  <2> QED
    BY <2>2, <2>6
<1>2. ASSUME NEW t \in Threads, Respond(t)
      PROVE  req[t].payload \in V /\ Ledger!Acknowledge(req[t].payload)
  <2> DEFINE p == req[t].payload
  <2>1. p \in Payloads /\ Sha(t) = Content[p].sha
    BY RequestAssumption DEF IInv, TypeOK, RequestType, Sha, Bundle
  <2>2. BySha(Sha(t)) # {} /\ acks[Sha(t)] = 0
    BY <1>2 DEF IInv, OneAcknowledger, Respond
  <2>3. p \in Recorded /\ p \in V
    BY <2>1, <2>2, RowOfRecorded DEF IInv, Recorded
  <2>4. acks' = [acks EXCEPT ![Content[p].sha] = 1]
    BY <1>2, <2>1, <2>2 DEF Respond
  <2>5. \A q \in V : Content[q].sha \in Digests
    BY ContentAssumption DEF ContentType
  <2>6. A' = [A EXCEPT ![p] = 1]
    <3>1. \A q \in V : acks'[Content[q].sha] = IF q = p THEN 1 ELSE acks[Content[q].sha]
      BY <2>1, <2>3, <2>4, <2>5, ContentAssumption DEF IInv, TypeOK
    <3> QED
      BY <2>3, <3>1
  <2>7. Recorded' = Recorded
    BY <1>2 DEF Respond, tables, Recorded, BySha
  <2>8. Ledger!Acknowledge(p)
    BY <2>1, <2>2, <2>3, <2>6, <2>7 DEF Ledger!Acknowledge
  <2> QED
    BY <2>3, <2>8
<1>3. ASSUME UNCHANGED tables, UNCHANGED acks
      PROVE  UNCHANGED Ledger!vars
  BY <1>3 DEF Ledger!vars, tables, Recorded, BySha
<1>4. ASSUME NEW t \in Threads, Respond(t)
      PROVE  Ledger!Next
  <2>1. req[t].payload \in V /\ Ledger!Acknowledge(req[t].payload)
    BY <1>2, <1>4
  <2> QED
    BY <2>1 DEF Ledger!Next, Ledger!Acknowledge
<1>5. (\E t \in Threads : Commit(t)) => Ledger!Next
  BY <1>1 DEF Ledger!Next
<1> QED
  BY <1>3, <1>4, <1>5, OnlyCommitWrites, OnlyRespondAcknowledges

(***************************************************************************)
(* The service implements the ledger: seen from the outside, concurrent     *)
(* submissions, faults and restarts behave like a sequence of atomic Record *)
(* and Acknowledge steps.                                                   *)
(***************************************************************************)
THEOREM Refinement == Spec => ImplementsLedger
<1>1. Init => Ledger!Init
  <2> SUFFICES ASSUME Init PROVE Ledger!Init
    OBVIOUS
  <2>1. Recorded = {}
    BY DEF Init, Recorded, BySha
  <2>2. \A p \in Payloads : acks[Content[p].sha] = 0
    BY ContentAssumption DEF Init, ContentType
  <2> QED
    BY <2>1, <2>2 DEF Ledger!Init
<1>2. IInv /\ IInv' /\ [Next]_vars => [Ledger!Next]_(Ledger!vars)
  BY LedgerStep
<1> QED
  BY <1>1, <1>2, Safety, PTL DEF Spec, ImplementsLedger, Ledger!Spec
=============================================================================
