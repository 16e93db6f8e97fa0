------------------------------- MODULE Bundles -------------------------------
(***************************************************************************)
(* Result bundles of the agent (agent/cloudeyes_agent/bundle): how evidence *)
(* files are found and redacted, what build_bundle puts into an archive and *)
(* when verify_bundle accepts one, as operators.  A digest is the content   *)
(* it is taken of, and a path of the archive is a tuple of its parts.       *)
(***************************************************************************)
EXTENDS Integers, FiniteSets, Sequences, SequencesExt

CONSTANTS
    SensitiveKeys,  \* keys whose values are redacted, in any spelling
    MaxSamples,     \* MAX_SAMPLE_COUNT
    MaxPayload,     \* MAX_BUNDLE_PAYLOAD_BYTES, in units of TotalSize
    MaxEntries,     \* MAX_ARCHIVE_FILES
    MaxManifest     \* MAX_MANIFEST_BYTES, in units of ManifestSize

ASSUME BundlesAssumption ==
    /\ MaxSamples \in Nat \ {0} /\ MaxPayload \in Nat \ {0}
    /\ MaxEntries \in Nat \ {0} /\ MaxManifest \in Nat \ {0}

-----------------------------------------------------------------------------
(* Redaction.  A JSON object is the set of its leaves, each with the keys and  *)
(* list indices that lead to it: [at |-> <<...>>, leaf |-> ...].               *)

(* Mutant of Cut: only the keys of the top level are looked at. *)
TopLevelCut(at) == IF at[1] \in SensitiveKeys THEN <<at[1]>> ELSE at

(* The shortest path to at that ends with a sensitive key: all below it goes. *)
Cut(at) ==
    LET sensitive == {i \in DOMAIN at : at[i] \in SensitiveKeys}
    IN IF sensitive = {} THEN at
       ELSE SubSeq(at, 1, CHOOSE i \in sensitive : \A j \in sensitive : i <= j)

(* User, query and fragment are taken off a URL, unless it cannot be parsed. *)
SanitizeUrl(leaf) == IF leaf = "url_with_secret" THEN "url" ELSE leaf

Redacted(item) ==
    IF Last(Cut(item.at)) \in SensitiveKeys
    THEN [at |-> Cut(item.at), leaf |-> "[REDACTED]"]
    ELSE [item EXCEPT !.leaf = SanitizeUrl(@)]

RedactJson(json) ==
    [value |-> {Redacted(item) : item \in json},
     count |-> Cardinality({Redacted(item) : item \in
        {item \in json : Last(Cut(item.at)) \in SensitiveKeys \/ Redacted(item) # item}})]

-----------------------------------------------------------------------------
(* Evidence files.  A location is [base, sub, name] with the base "root"       *)
(* (--raw-root), "cwd", "samples" (the directory of the sample) or "outside".  *)
(* A reference is a location; with the base "relative" it is still to be       *)
(* resolved, and with any other base it is absolute.  The trusted directories  *)
(* lie apart: ".." leads out of one of them and into none.                      *)

Location(base, sub, name) == [base |-> base, sub |-> sub, name |-> name]

(* A relative reference, joined to a directory and resolved. *)
Joined(base, ref) ==
    IF ref.sub = ".." THEN Location("outside", base, ref.name)
    ELSE Location(base, ref.sub, ref.name)

(* Joining an absolute path to a directory gives that path itself. *)
RootCandidates(ref, root) ==
    IF ~root THEN <<>>
    ELSE <<IF ref.base = "relative" THEN Joined("root", ref) ELSE ref,
           Location("root", "", ref.name)>>

Candidates(ref, root) == RootCandidates(ref, root) \o
    IF ref.base # "relative" THEN <<ref>>
    ELSE <<Joined("cwd", ref), Joined("samples", ref), Location("samples", "raw", ref.name)>>

Allowed(place, root) == place.base \in {"cwd", "samples"} \cup (IF root THEN {"root"} ELSE {})

(* evidence maps the locations of files to their contents.                      *)
Accepts(place, root, evidence) == Allowed(place, root) /\ place \in DOMAIN evidence

(* The candidates that _resolve_raw_path accepts, and the first of them.        *)
Found(ref, root, evidence) ==
    LET places == Candidates(ref, root)
    IN {k \in DOMAIN places : Accepts(places[k], root, evidence)}
Place(ref, root, evidence) ==
    LET places == Candidates(ref, root)
        accepted(k) == Accepts(places[k], root, evidence)
    IN places[CHOOSE k \in DOMAIN places : accepted(k) /\ \A j \in 1..(k - 1) : ~accepted(j)]

-----------------------------------------------------------------------------
(* Archive contents and the manifest.  Entries of the archive and of the       *)
(* manifest are records in a set; copy tells apart two with the same path.     *)

NoSample == [id |-> 0, profile |-> "none", valid |-> FALSE, raw |-> <<>>]
SampleContent(sample) == [sample |-> sample, json |-> {}, object |-> TRUE]
EvidenceContent(json) == [sample |-> NoSample, json |-> json, object |-> TRUE]
(* One unit for each entry and for each leaf in an entry. *)
TotalSize(entries) ==
    Cardinality(entries) + Cardinality(UNION {{e} \X e.content.json : e \in entries})

Entry(path, content) == [path |-> path, content |-> content, copy |-> 1]
FileEntry(path, content, count) ==
    [path |-> path, sha |-> content, redactions |-> count, copy |-> 1]
BundleId(listed) == {[path |-> f.path, sha |-> f.sha] : f \in listed}
ManifestSize(manifest) ==
    Cardinality(manifest.files) + Cardinality(manifest.samples) + Cardinality(manifest.warnings)

(* The number of an element in a set of numbers. *)
Number(n, numbers) == Cardinality({k \in numbers : k <= n})
Firsts(raw) == {i \in DOMAIN raw : \A j \in 1..(i - 1) : raw[j] # raw[i]}

(* Mutant of Packed: the digest of an evidence file is taken before redaction. *)
DigestBeforeRedaction(sample, index, root, evidence) ==
    {LET place == Place(sample.raw[i], root, evidence)
         redacted == RedactJson(evidence[place].json)
         path == <<"raw", index, Number(i, Firsts(sample.raw)), place.name>>
     IN [item |-> Entry(path, EvidenceContent(redacted.value)),
         file |-> FileEntry(path, EvidenceContent(evidence[place].json), redacted.count)] :
        i \in {i \in Firsts(sample.raw) : Found(sample.raw[i], root, evidence) # {}}}

(* The evidence of one sample: each file once, as an entry of the archive and   *)
(* of the manifest.                                                             *)
Packed(sample, index, root, evidence) ==
    {LET place == Place(sample.raw[i], root, evidence)
         redacted == RedactJson(evidence[place].json)
         path == <<"raw", index, Number(i, Firsts(sample.raw)), place.name>>
         content == EvidenceContent(redacted.value)
     IN [item |-> Entry(path, content), file |-> FileEntry(path, content, redacted.count)] :
        i \in {i \in Firsts(sample.raw) : Found(sample.raw[i], root, evidence) # {}}}

(* Mutant of Warnings: --allow-missing-raw leaves no trace. *)
QuietWarnings(sample, listed, root, evidence) ==
    {<<"raw_evidence_redacted", sample.id, f.path[3], f.redactions>> :
        f \in {f \in listed : f.redactions > 0}}

Warnings(sample, listed, root, evidence) ==
    {<<"invalid_sample_included", s.id>> : s \in {s \in {sample} : ~s.valid}}
    \cup {<<"missing_raw_evidence", sample.id, ref.name>> :
            ref \in {ref \in ToSet(sample.raw) : Found(ref, root, evidence) = {}}}
    \cup {<<"raw_evidence_redacted", sample.id, f.path[3], f.redactions>> :
            f \in {f \in listed : f.redactions > 0}}

(* The part of one sample, the index-th by ID, in the bundle. *)
Part(sample, index, packed, root, evidence) ==
    LET path == <<"samples", index>>
        content == SampleContent(sample)
        listed == {p.file : p \in packed}
    IN [entries |-> {Entry(path, content)} \cup {p.item : p \in packed},
        files |-> {FileEntry(path, content, 0)} \cup listed,
        warnings |-> Warnings(sample, listed, root, evidence),
        sample |-> [id |-> sample.id, profile |-> sample.profile, path |-> path,
                    raw |-> {f.path : f \in listed}]]

(* The entries of all parts, and their manifest. *)
Assembled(parts, policy, created) ==
    LET files == UNION {p.files : p \in parts}
    IN [entries |-> UNION {p.entries : p \in parts},
        manifest |->
          [id |-> BundleId(files), created |-> created, files |-> files, policy |-> policy,
           count |-> Cardinality(parts), samples |-> {p.sample : p \in parts},
           warnings |-> UNION {p.warnings : p \in parts}]]

(* build_bundle after all samples are loaded, with the exceptions of policy. *)
Archive(samples, policy, root, evidence, created) ==
    LET index(s) == Number(s.id, {t.id : t \in samples})
    IN Assembled({Part(s, index(s), Packed(s, index(s), root, evidence), root, evidence) :
                     s \in samples}, policy, created)

(* What build_bundle refuses after loading: missing evidence, evidence that is  *)
(* no JSON object, and too much of everything.                                  *)
Refused(samples, policy, root, evidence) ==
    LET refs == UNION {ToSet(s.raw) : s \in samples}
        found == {ref \in refs : Found(ref, root, evidence) # {}}
    IN \/ found # refs /\ ~policy.missing
       \/ \E ref \in found : ~evidence[Place(ref, root, evidence)].object
       \/ TotalSize(Archive(samples, policy, root, evidence, 0).entries) > MaxPayload

-----------------------------------------------------------------------------
(* Verification. *)

SafePath(path) == path # <<>> /\ path[1] # ".."
Paths(items) == {item.path : item \in items}
Below(directory, paths) == {p \in paths : p[1] = directory}
NoDuplicates(items) == Cardinality(Paths(items)) = Cardinality(items)

(* _archive_entries: at most MaxEntries files, the manifest being one of them.  *)
(* An unsafe path stands for links, directories and encrypted entries as well.  *)
EntriesAccepted(bundle) ==
    /\ Cardinality(bundle.entries) + 1 <= MaxEntries
    /\ \A path \in Paths(bundle.entries) : SafePath(path)
    /\ NoDuplicates(bundle.entries)
    /\ TotalSize(bundle.entries) + ManifestSize(bundle.manifest) <= MaxPayload + MaxManifest
    /\ ManifestSize(bundle.manifest) <= MaxManifest

ManifestShape(manifest) ==
    /\ manifest.count = Cardinality(manifest.samples) /\ manifest.count >= 1
    /\ manifest.files # {}

(* Mutant of FilesAccepted: no comparison of checksums. *)
PathsAccepted(bundle) ==
    LET files == bundle.manifest.files
    IN /\ NoDuplicates(files) /\ Paths(files) = Paths(bundle.entries)
       /\ bundle.manifest.id = BundleId(files)

(* Listed files are those of the archive, with their checksums. *)
FilesAccepted(bundle) ==
    LET files == bundle.manifest.files
    IN /\ NoDuplicates(files) /\ Paths(files) = Paths(bundle.entries)
       /\ \A f \in files : \E e \in bundle.entries : e.path = f.path /\ e.content = f.sha
       /\ bundle.manifest.id = BundleId(files)

ContentAt(bundle, path) == (CHOOSE e \in bundle.entries : e.path = path).content

SampleAccepted(bundle, entry) ==
    LET listed == Paths(bundle.manifest.files)
    IN /\ entry.path \in listed
       /\ LET sample == ContentAt(bundle, entry.path).sample
          IN /\ sample # NoSample /\ sample.id = entry.id /\ sample.profile = entry.profile
             /\ sample.valid \/ bundle.manifest.policy.invalid
       /\ \A path \in entry.raw :
             /\ path \in listed /\ path[1] = "raw"
             /\ ContentAt(bundle, path).object

(* verify_bundle *)
Verifies(bundle) ==
    LET manifest == bundle.manifest
        listed == Paths(manifest.files)
    IN /\ EntriesAccepted(bundle) /\ ManifestShape(manifest) /\ FilesAccepted(bundle)
       /\ Cardinality({s.id : s \in manifest.samples}) = manifest.count
       /\ \A s \in manifest.samples : SampleAccepted(bundle, s)
       /\ Below("samples", listed) = Paths(manifest.samples)
       /\ Below("raw", listed) = UNION {s.raw : s \in manifest.samples}
=============================================================================
