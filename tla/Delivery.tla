------------------------------ MODULE Delivery ------------------------------
(***************************************************************************)
(* From samples on disk to the ledger of the service: `cloudeyes bundle`    *)
(* reads a directory that other processes write, `cloudeyes submit`         *)
(* verifies the bundle file, which a later build may replace meanwhile, and *)
(* posts it, and the service records it or refuses it.  Commands are        *)
(* repeated; requests and answers are lost or late; processes are killed.   *)
(*                                                                         *)
(* The service looks a request up and records it in separate steps, so that *)
(* requests overtake each other as in Ingestion; its storage and its own    *)
(* failures are left to that module.  A bundle is an archive of module      *)
(* Bundles, and equals its SHA-256.                                         *)
(***************************************************************************)
EXTENDS Bundles, SampleStore

CONSTANTS Scenarios   \* what commands are given and find; see MCDelivery

(* Every process has one job that has not begun, or none. *)
ASSUME ScenariosAssumption ==
    /\ Savers \cap {"builder", "client"} = {}
    /\ \A s \in Scenarios :
          /\ s.output = <<>> \/ s.output = <<Head(s.output)>>
          /\ DOMAIN s.savers = Savers
          /\ \A p \in Savers :
                /\ DOMAIN s.savers[p] = {"kind", "name", "sample", "overwrite", "pc"}
                /\ s.savers[p].kind \in {"none", "save", "delete", "dump"}
                /\ s.savers[p].pc = IF s.savers[p].kind = "none" THEN "done" ELSE "start"

(* created_at is a time, and builds number it from 1: no build to come produces     *)
(* the very bundle that is in the bundle file already, whoever wrote it.           *)
ASSUME OutputAssumption ==
    \A s \in Scenarios : s.output = <<>> \/ Head(s.output).manifest.created \notin Nat \ {0}

(* JSON is finite, and a list of references has an order. *)
IsItem(item) == /\ item = [at |-> item.at, leaf |-> item.leaf]
                /\ item.at \in Seq(ToSet(item.at)) /\ item.at # <<>>
IsSample(sample) == /\ sample.id \in Int /\ sample # NoSample
                    /\ sample.raw \in Seq(ToSet(sample.raw))
ASSUME ContentAssumption == \A s \in Scenarios :
    /\ \A place \in DOMAIN s.evidence :
          /\ IsFiniteSet(s.evidence[place].json)
          /\ \A item \in s.evidence[place].json : IsItem(item)
    /\ \A n \in DOMAIN s.files : IsSample(s.files[n].sample)
    /\ \A p \in Savers : s.savers[p].kind \in {"save", "dump"} => IsSample(s.savers[p].sample)

VARIABLES
    given,      \* the scenario
    builder,    \* cloudeyes bundle: step, files to read, samples read, runs so far
    output,     \* the bundle file: <<>> or <<bundle>>
    client,     \* cloudeyes submit: step, what it read, exit code, runs so far
    receipt,    \* the receipt file: <<>> or one receipt
    requests,   \* requests on their way to the service
    answers,    \* answers on their way back
    serving,    \* requests that the service has looked up and verified
    rows,       \* the bundles that the service has recorded
    built       \* all bundles ever written by a build: for the properties only

buildVars == <<builder, output, built>>
submitVars == <<client, receipt, requests, answers>>
serviceVars == <<serving, rows>>
vars == <<storeVars, given, buildVars, submitVars, serviceVars>>

NoClient == [pc |-> "idle", sha |-> <<>>, id |-> {}, body |-> <<>>, status |-> 0,
             exit |-> -1, runs |-> 0]

Init ==
    /\ given \in Scenarios
    /\ files = given.files /\ scratch = {} /\ faults = given.faults
    /\ saver = given.savers /\ raced = {}
    /\ builder = [pc |-> "idle", todo |-> {}, loaded |-> {}, exit |-> -1, runs |-> 0]
    /\ output = given.output /\ built = {}
    /\ client = NoClient /\ receipt = <<>>
    /\ requests = {} /\ answers = {} /\ serving = {} /\ rows = {}

-----------------------------------------------------------------------------
(* cloudeyes bundle *)

StoreUnchanged == UNCHANGED <<files, saver, faults, raced, given>>
EndBuild(exit) ==
    builder' = [builder EXCEPT !.pc = "idle", !.todo = {}, !.loaded = {}, !.exit = exit]

(* _sample_inputs.  given.inputs names files; if it is empty, the directory is   *)
(* the input.                                                                    *)
StartBuild ==
    /\ builder.pc = "idle" /\ builder.runs < given.builds
    /\ LET names == IF given.inputs = {} THEN DOMAIN files ELSE given.inputs
           accepted == names \subseteq DOMAIN files /\ Cardinality(names) \in 1..MaxSamples
       IN builder' = [builder EXCEPT
            !.runs = @ + 1, !.exit = IF accepted THEN -1 ELSE 6,
            !.pc = IF accepted THEN "load" ELSE "idle",
            !.todo = IF accepted THEN names ELSE {}]
    /\ StoreUnchanged /\ UNCHANGED <<scratch, output, built, submitVars, serviceVars>>

Loadable(name) ==
    /\ name \in DOMAIN files /\ files[name].whole /\ files[name].exact
    /\ files[name].sample.valid \/ given.policy.invalid
    /\ \A s \in builder.loaded : s.id # files[name].sample.id

LoadSample ==
    /\ builder.pc = "load"
    /\ \E name \in builder.todo :
          /\ \A other \in builder.todo : name <= other
          /\ IF Loadable(name)
             THEN builder' = [builder EXCEPT !.todo = @ \ {name},
                                             !.loaded = @ \cup {files[name].sample}]
             ELSE EndBuild(6)
    /\ StoreUnchanged /\ UNCHANGED <<scratch, output, built, submitVars, serviceVars>>

NewBundle == Archive(builder.loaded, given.policy, given.root, given.evidence, builder.runs)

(* Mutant of WriteBundle: the archive is written to the output itself. *)
WriteInPlace ==
    /\ builder.pc = "load" /\ builder.todo = {}
    /\ IF Refused(builder.loaded, given.policy, given.root, given.evidence)
       THEN EndBuild(6) /\ UNCHANGED <<scratch, output>>
       ELSE /\ builder' = [builder EXCEPT !.pc = "replace"]
            /\ output' = <<[NewBundle EXCEPT !.entries = {}]>> /\ UNCHANGED scratch
    /\ StoreUnchanged /\ UNCHANGED <<built, submitVars, serviceVars>>

(* The evidence is read, the archive written to a temporary file; on any error   *)
(* that file is removed.                                                         *)
WriteBundle ==
    /\ builder.pc = "load" /\ builder.todo = {}
    /\ IF Refused(builder.loaded, given.policy, given.root, given.evidence)
       THEN EndBuild(6) /\ UNCHANGED scratch
       ELSE \/ /\ builder' = [builder EXCEPT !.pc = "replace"]
               /\ scratch' = scratch \cup {"builder"}
            \/ "disk" \in faults /\ EndBuild(6) /\ UNCHANGED scratch
    /\ StoreUnchanged /\ UNCHANGED <<output, built, submitVars, serviceVars>>

(* The summary is printed after that, which may fail too.                         *)
PublishBundle ==
    /\ builder.pc = "replace"
    /\ \/ /\ output' = <<NewBundle>> /\ built' = built \cup {NewBundle}
          /\ EndBuild(0) \/ ("disk" \in faults /\ EndBuild(6))
       \/ "disk" \in faults /\ EndBuild(6) /\ UNCHANGED <<output, built>>
    /\ scratch' = scratch \ {"builder"}
    /\ StoreUnchanged /\ UNCHANGED <<submitVars, serviceVars>>

CrashBuilder ==
    /\ "crash" \in faults /\ builder.pc \in {"load", "replace"}
    /\ EndBuild(-1)
    /\ StoreUnchanged /\ UNCHANGED <<scratch, output, built, submitVars, serviceVars>>

BuildNext == LoadSample \/ WriteBundle \/ PublishBundle

-----------------------------------------------------------------------------
(* cloudeyes submit *)

BuildUnchanged == StoreUnchanged /\ UNCHANGED buildVars

EndSubmit(exit) == client' = [client EXCEPT !.pc = "idle", !.exit = exit]
Go(pc) == client' = [client EXCEPT !.pc = pc]

StartSubmit ==
    /\ client.pc = "idle" /\ client.runs < given.submits
    /\ LET accepted == given.dry \/ given.token # "missing"
       IN client' = [NoClient EXCEPT !.runs = client.runs + 1,
            !.pc = IF accepted THEN "hash" ELSE "idle", !.exit = IF accepted THEN -1 ELSE 8]
    /\ BuildUnchanged /\ UNCHANGED <<scratch, receipt, requests, answers, serviceVars>>

(* verify_bundle reads the file once for its digest ...                          *)
ReadForDigest ==
    /\ client.pc = "hash"
    /\ IF output = <<>> THEN EndSubmit(8)
       ELSE client' = [client EXCEPT !.pc = "verify", !.sha = output]
    /\ BuildUnchanged /\ UNCHANGED <<scratch, receipt, requests, answers, serviceVars>>

(* validate_endpoint; a host is "public", "private", "unresolved" or "none".      *)
EndpointAccepted ==
    LET url == given.endpoint
    IN /\ url.host # "none" /\ url.plain
       /\ \/ url.scheme = "https"
          \/ url.scheme = "http" /\ given.allow_http /\ url.host = "private"

(* ... and once for its contents; a dry run ends with the check of the endpoint and *)
(* the print of the plan, which may fail.                                           *)
(* zlib.error, of a damaged archive, is not caught anywhere.                        *)
VerifyFile ==
    /\ client.pc = "verify"
    /\ IF ~Verifies(Head(output)) THEN EndSubmit(8) \/ EndSubmit(1)
       ELSE IF ~EndpointAccepted THEN EndSubmit(8)
       ELSE IF given.dry THEN EndSubmit(0) \/ ("disk" \in faults /\ EndSubmit(8))
       ELSE client' = [client EXCEPT !.pc = "read", !.id = Head(output).manifest.id]
    /\ BuildUnchanged /\ UNCHANGED <<scratch, receipt, requests, answers, serviceVars>>

(* Mutant of ReadBody: the file is not opened again. *)
BodyForgotten ==
    /\ client.pc = "read"
    /\ IF given.token = "blank" THEN EndSubmit(8) ELSE Go("post")
    /\ BuildUnchanged /\ UNCHANGED <<scratch, receipt, requests, answers, serviceVars>>

(* The third read is that of the body.                                            *)
ReadBody ==
    /\ client.pc = "read"
    /\ IF given.token = "blank" THEN EndSubmit(8)
       ELSE client' = [client EXCEPT !.pc = "post", !.body = output]
    /\ BuildUnchanged /\ UNCHANGED <<scratch, receipt, requests, answers, serviceVars>>

Post ==
    /\ client.pc = "post" /\ Go("wait")
    /\ requests' = requests \cup
          {[run |-> client.runs, sha |-> client.sha, id |-> client.id, body |-> client.body]}
    /\ BuildUnchanged /\ UNCHANGED <<scratch, receipt, answers, serviceVars>>

(* A response beyond MAX_RESPONSE_BYTES is an error, whatever its status.         *)
Receive ==
    /\ client.pc = "wait"
    /\ \E a \in answers :
          /\ a.run = client.runs
          /\ answers' = answers \ {a}
          /\ IF a.small THEN client' = [client EXCEPT !.pc = "answered", !.status = a.status]
             ELSE EndSubmit(8)
    /\ BuildUnchanged /\ UNCHANGED <<scratch, receipt, requests, serviceVars>>

(* Mutant of TimeOut: the request is sent without a timeout. *)
NoTimeOut == client.pc = "wait" /\ UNCHANGED vars

(* Nobody answers in time, or the connection fails; run_submit does not catch      *)
(* http.client.HTTPException, and Python ends with a traceback.                     *)
TimeOut ==
    /\ client.pc = "wait" /\ (EndSubmit(8) \/ EndSubmit(1))
    /\ BuildUnchanged /\ UNCHANGED <<scratch, receipt, requests, answers, serviceVars>>

(* Mutant of Accepted: everything that is no server error. *)
NoServerError(status) == status < 500
Accepted(status) == 200 <= status /\ status < 300

NewReceipt == [sha |-> client.sha, id |-> client.id, status |-> client.status,
               accepted |-> Accepted(client.status)]
(* The result is printed, which may fail. *)
Report == \/ EndSubmit(IF Accepted(client.status) THEN 0 ELSE 8)
          \/ "disk" \in faults /\ EndSubmit(8)

(* atomic_write_json: a temporary file ...                                        *)
WriteReceipt ==
    /\ client.pc = "answered"
    /\ IF ~given.receipt THEN Report /\ UNCHANGED scratch
       ELSE \/ Go("receipt") /\ scratch' = scratch \cup {"client"}
            \/ "disk" \in faults /\ EndSubmit(8) /\ UNCHANGED scratch
    /\ BuildUnchanged /\ UNCHANGED <<receipt, requests, answers, serviceVars>>

(* ... that replaces the receipt.                                                 *)
PublishReceipt ==
    /\ client.pc = "receipt" /\ scratch' = scratch \ {"client"}
    /\ \/ receipt' = <<NewReceipt>> /\ Report
       \/ "disk" \in faults /\ EndSubmit(8) /\ UNCHANGED receipt
    /\ BuildUnchanged /\ UNCHANGED <<requests, answers, serviceVars>>

CrashClient ==
    /\ "crash" \in faults /\ client.pc # "idle" /\ EndSubmit(-1)
    /\ BuildUnchanged /\ UNCHANGED <<scratch, receipt, requests, answers, serviceVars>>

SubmitNext == \/ ReadForDigest \/ VerifyFile \/ ReadBody \/ Post \/ Receive \/ TimeOut
              \/ WriteReceipt \/ PublishReceipt

-----------------------------------------------------------------------------
(* The network and the service. *)

Reply(request, status, small) ==
    \/ answers' = answers \cup {[run |-> request.run, status |-> status, small |-> small]}
    \/ UNCHANGED answers

SampleIds(bundle) == {s.id : s \in bundle.manifest.samples}

(* ingest compares digests, looks for the bundle in the ledger and verifies it ...  *)
Lookup(request) ==
    /\ request \in requests /\ requests' = requests \ {request}
    /\ LET bundle == Head(request.body)
           sound == request.body = request.sha
           recorded == bundle \in rows
           verified == Verifies(bundle) /\ bundle.manifest.id = request.id
       IN \/ ~sound /\ Reply(request, 400, TRUE) /\ UNCHANGED serving
          \/ sound /\ recorded /\ Reply(request, 200, TRUE) /\ UNCHANGED serving
          \/ sound /\ ~recorded /\ ~verified /\ Reply(request, 400, TRUE) /\ UNCHANGED serving
          \/ sound /\ ~recorded /\ verified /\ serving' = serving \cup {request} /\ UNCHANGED answers
    /\ BuildUnchanged /\ UNCHANGED <<scratch, client, receipt, rows>>

(* ... looks for its samples and inserts them, while other requests are served.  A  *)
(* bundle that was recorded meanwhile is in conflict with itself, unless that shows *)
(* at the insert only.  A request may also wait here for ever: the service is gone. *)
Persist(request) ==
    /\ request \in serving /\ serving' = serving \ {request}
    /\ LET bundle == Head(request.body)
           recorded == bundle \in rows
           clash == \E row \in rows : SampleIds(row) \cap SampleIds(bundle) # {}
       IN \/ clash /\ Reply(request, 409, TRUE) /\ UNCHANGED rows
          \/ recorded /\ Reply(request, 200, TRUE) /\ UNCHANGED rows
          \/ ~recorded /\ ~clash /\ Reply(request, 201, TRUE) /\ rows' = rows \cup {bundle}
    /\ BuildUnchanged /\ UNCHANGED <<scratch, client, receipt, requests>>

(* Something between them answers in place of the service: a redirect, which the  *)
(* client does not follow, or an error page of any length.  The request may still *)
(* get through.                                                                   *)
Intercept(request) ==
    /\ request \in requests /\ given.gateway
    /\ ~\E a \in answers : a.run = request.run
    /\ \E status \in {302, 502}, small \in BOOLEAN :
          answers' = answers \cup {[run |-> request.run, status |-> status, small |-> small]}
    /\ requests' = requests \/ requests' = requests \ {request}
    /\ BuildUnchanged /\ UNCHANGED <<scratch, client, receipt, serviceVars>>

-----------------------------------------------------------------------------
Store(p) == /\ SaverNext(p) \/ CrashSaver(p)
            /\ UNCHANGED <<given, buildVars, submitVars, serviceVars>>

(* Commands need not be run again, and processes may be gone. *)
Quiet == /\ builder.pc = "idle" /\ builder.runs = given.builds
         /\ client.pc = "idle" /\ client.runs = given.submits
         /\ \A p \in Savers : saver[p].pc \in Over
Terminated == Quiet /\ UNCHANGED vars

Next == \/ \E p \in Savers : Store(p)
        \/ StartBuild \/ BuildNext \/ CrashBuilder
        \/ StartSubmit \/ SubmitNext \/ CrashClient
        \/ \E r \in requests : Lookup(r) \/ Intercept(r)
        \/ \E r \in serving : Persist(r)
        \/ Terminated

Spec == Init /\ [][Next]_vars

(* Processes are scheduled; network and service need not do anything at all. *)
FairSpec == /\ Spec /\ WF_vars(BuildNext) /\ WF_vars(SubmitNext)
            /\ \A p \in Savers : WF_vars(Store(p))

-----------------------------------------------------------------------------
(* Properties. *)

(* Every process is at a step of its command, and an answer that a client may    *)
(* take is one to a run that it has begun.                                        *)
TypeOK ==
    /\ builder.pc \in {"idle", "load", "replace"}
    /\ client.pc \in {"idle", "hash", "verify", "read", "post", "wait", "answered", "receipt"}
    /\ \A p \in Savers : saver[p].pc \in
          Over \cup {"start", "write", "replace", "unlink", "fill"}
    /\ {builder.exit, client.exit} \subseteq {-1, 0, 1, 6, 8}
    /\ scratch \subseteq Savers \cup {"builder", "client"}
    /\ Len(output) <= 1 /\ Len(receipt) <= 1
    /\ \A m \in requests \cup serving \cup answers : m.run \in 1..client.runs
    /\ client.pc = "post" => Len(client.sha) = 1 /\ Len(client.body) = 1

Original(n) == n \in DOMAIN given.files /\ n \in DOMAIN files /\ files[n] = given.files[n]

(* JsonSampleRepository.save and _write_bundle are atomic for every reader: the   *)
(* bundle file is one whole build, a sample file is cut short only by dump, and    *)
(* no command that ends leaves a temporary file, except a save whose write fails.  *)
WritesAtomic ==
    /\ output = given.output \/ ToSet(output) \subseteq built
    /\ \A n \in DOMAIN files : files[n].whole \/ Original(n)
          \/ \E p \in Savers : saver[p].kind = "dump" /\ Name(p) = n
    /\ "crash" \notin faults =>
          /\ \A p \in Savers \cap scratch : saver[p].pc \in {"replace", "leaked"}
          /\ "builder" \in scratch => builder.pc = "replace"
          /\ "client" \in scratch => client.pc = "receipt"

(* A process that did take away or replace the file n, as it was told. *)
Took(q, n) == /\ Name(q) = n
              /\ \/ At(q, "save", "done") /\ saver[q].overwrite
                 \/ saver[q].kind = "dump" /\ saver[q].pc # "start"
                 \/ At(q, "delete", "done")

(* The save of q was past its check when p moved its file into place: the race of  *)
(* two saves of one ID, which both succeed.                                        *)
Overran(q, p) == Name(q) = Name(p) /\ At(q, "save", "done") /\ <<q, p>> \in raced

(* What JsonSampleRepository.save has reported as saved is in the directory, and    *)
(* what was there before stays, until a process succeeds that was told to overwrite,*)
(* delete or dump: being told is not enough.  A save without overwrite takes the     *)
(* place of no sample but one that appeared between its own check and replace.       *)
SavesLast ==
    /\ \A n \in DOMAIN given.files : Original(n) \/ \E q \in Savers : Took(q, n)
    /\ \A p \in Savers : At(p, "save", "done") =>
          \/ Name(p) \in DOMAIN files /\ files[Name(p)] = WholeFile(saver[p].sample)
          \/ \E q \in Savers \ {p} : Took(q, Name(p)) \/ Overran(q, p)

(* What a build writes is a bundle that verify_bundle accepts, unless it exceeds   *)
(* MAX_ARCHIVE_FILES or MAX_MANIFEST_BYTES, which the builder does not look at.    *)
BuildVerifies(bundle) ==
    \/ Verifies(bundle)
    \/ Cardinality(bundle.entries) >= MaxEntries \/ ManifestSize(bundle.manifest) > MaxManifest

Sensitive(item) == \E i \in DOMAIN item.at : item.at[i] \in SensitiveKeys
Public(json) == {item \in json : ~Sensitive(item) /\ item.leaf # "url_with_secret"}

(* Evidence in a bundle is that of a file below a trusted directory, without its   *)
(* secrets and with all the rest, and a count of zero means that it is untouched.  *)
EvidenceSound(bundle) ==
    \A f \in {f \in bundle.manifest.files : f.path[1] = "raw"} :
        LET json == ContentAt(bundle, f.path).json
        IN /\ \A item \in json : /\ item.leaf # "url_with_secret"
                                 /\ Sensitive(item) => item.leaf = "[REDACTED]"
           /\ \E place \in DOMAIN given.evidence :
                 /\ place.name = f.path[4] /\ place.base # "outside"
                 /\ Public(given.evidence[place].json) \subseteq json
                 /\ f.redactions = 0 => given.evidence[place].json = json

(* docs/result-bundle-submission.md:27: missing evidence and invalid samples are   *)
(* "explicit exceptions recorded in the manifest warnings and policy".             *)
ExceptionsRecorded(bundle) ==
    \A s \in bundle.manifest.samples :
        LET sample == ContentAt(bundle, s.path).sample
            packed == Cardinality(s.raw)
            warned(what) == \E w \in bundle.manifest.warnings : w[1] = what /\ w[2] = sample.id
        IN /\ ~sample.valid =>
                 bundle.manifest.policy.invalid /\ warned("invalid_sample_included")
           /\ packed < Cardinality(ToSet(sample.raw)) =>
                 bundle.manifest.policy.missing /\ warned("missing_raw_evidence")

(* Every bundle that a build ever wrote verifies, gives no secret away, loses no   *)
(* evidence and records its exceptions (build_bundle against verify_bundle).       *)
BundlesSound == \A b \in built :
    BuildVerifies(b) /\ EvidenceSound(b) /\ ExceptionsRecorded(b)

(* A bundle of the ledger says of its samples and evidence what they are. *)
Consistent(bundle) ==
    /\ \A f \in bundle.manifest.files :
          \E e \in bundle.entries : e.path = f.path /\ e.content = f.sha
    /\ \A s \in bundle.manifest.samples : ContentAt(bundle, s.path).sample.id = s.id

(* A receipt tells the truth, whatever was lost, late, rebuilt or sent twice: what  *)
(* it calls accepted is in the ledger under that digest and ID, and 409 means that  *)
(* the ledger holds a sample of the bundle, perhaps with that very bundle.  The      *)
(* ledger holds only consistent bundles, as the bundle file held them at one time.   *)
ReceiptTruthful ==
    /\ \A r \in ToSet(receipt) :
          /\ r.accepted => \E b \in rows : <<b>> = r.sha /\ b.manifest.id = r.id
          /\ r.status = 409 => \E b \in rows : SampleIds(b) \cap SampleIds(Head(r.sha)) # {}
    /\ client.exit = 0 /\ ~given.dry => Head(client.sha) \in rows
    /\ rows \subseteq built \cup ToSet(given.output)
    /\ \A b \in rows : Consistent(b)

(* docs/result-bundle-submission.md: bounded submission.  Every command ends,      *)
(* though nobody answers: the wait for a response has a timeout.                   *)
EveryCommandEnds ==
    /\ client.pc # "idle" ~> client.pc = "idle"
    /\ builder.pc # "idle" ~> builder.pc = "idle"
    /\ \A p \in Savers : <>(saver[p].pc \in Over)
=============================================================================
