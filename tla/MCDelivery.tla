----------------------------- MODULE MCDelivery -----------------------------
(* Instances of Delivery for TLC: families of scenarios, each around one part. *)
EXTENDS Delivery, TLC

Secrets == {"token", "password"}

(* References, evidence files and samples. *)
Relative(sub, name) == Location("relative", sub, name)
Sample(id, raw) == [id |-> id, profile |-> "web", valid |-> TRUE, raw |-> raw]
Item(at, leaf) == [at |-> at, leaf |-> leaf]
Evidence(json) == [object |-> TRUE, json |-> json]
Plain == Evidence({Item(<<"rows", "1">>, "text")})
Idle(p) == [kind |-> "none", name |-> 0, sample |-> NoSample, overwrite |-> FALSE, pc |-> "done"]
Strict == [invalid |-> FALSE, missing |-> FALSE]
Https == [scheme |-> "https", host |-> "public", plain |-> TRUE]

(* One sample, one build, nothing submitted. *)
Scenario ==
    [files |-> (1 :> WholeFile(Sample(1, <<>>))), evidence |-> (Location("cwd", "", "a") :> Plain),
     savers |-> [p \in Savers |-> Idle(p)], faults |-> {}, inputs |-> {}, root |-> FALSE,
     policy |-> Strict, builds |-> 1, output |-> <<>>, submits |-> 0, token |-> "given",
     endpoint |-> Https, allow_http |-> FALSE, dry |-> FALSE, receipt |-> TRUE,
     gateway |-> FALSE]

(* Two processes that save, delete or dump samples while a bundle is built. *)
Saving(name, overwrite, valid) ==
    [kind |-> "save", name |-> name, overwrite |-> overwrite, pc |-> "start",
     sample |-> [Sample(name, <<Relative("", "a")>>) EXCEPT !.valid = valid]]
Deleting(name) == [Saving(name, FALSE, TRUE) EXCEPT !.kind = "delete"]
Dumping(name) == [Saving(name, FALSE, TRUE) EXCEPT !.kind = "dump"]
FirstJobs == {Saving(1, o, TRUE) : o \in BOOLEAN} \cup {Dumping(1), Deleting(1)}
SecondJobs == {Saving(n, FALSE, TRUE) : n \in {Unsafe, 1, 2}}
              \cup {Saving(1, TRUE, v) : v \in BOOLEAN} \cup {Deleting(n) : n \in {1, 2}}
              \cup {Dumping(2), Deleting(Unsafe)}
StoreScenarios(p, q) ==
    {[Scenario EXCEPT !.savers = (p :> first @@ q :> [second EXCEPT !.sample.profile = "storage"]),
                      !.faults = failing,
                      !.files = IF present THEN @ ELSE 3 :> @[1]] :
        first \in FirstJobs, second \in SecondJobs, failing \in {{}, {"disk", "crash"}},
        present \in BOOLEAN}

(* References to evidence in every place, secrets, exceptions, and limits. *)
Secret == Evidence({Item(<<"rows", "1", "token", "new">>, "text"), Item(<<"rows", "2">>, "number"),
                    Item(<<"password", "old">>, "text"), Item(<<"password", "new">>, "text"),
                    Item(<<"page">>, "url_with_secret"), Item(<<"home">>, "url")})
Known == Evidence({Item(<<"token">>, "[REDACTED]"), Item(<<"bad">>, "url_malformed")})
Broken == [object |-> FALSE, json |-> {}]
References == {<<Relative("", "a"), Relative("", "a")>>,
               <<Relative("raw", "a"), Location("outside", "", "a")>>,
               <<Location("cwd", "", "b"), Relative("", "b")>>,
               <<Relative("", "c"), Relative("", "d")>>, <<>>,
               <<Relative("..", "a"), Relative("..", "b")>>}
Anywhere == [base : {"cwd", "samples", "root", "outside"}, sub : {"", "raw"}, name : {"a", "b"}]
            \cup [base : {"outside"}, sub : {"cwd", "samples", "root"}, name : {"a", "b"}]
Trees == {[l \in {Location("outside", "", "a"), Location("root", "", "a"),
                  Location("samples", "raw", "b")} |->
              IF l.base = "root" THEN Plain ELSE Secret],
          [l \in Anywhere |-> IF l.base = "root" THEN Known ELSE Secret],
          (Location("cwd", "", "a") :> Broken @@ Location("cwd", "", "c") :> Plain
              @@ Location("samples", "", "d") :> Known)}
Mixed ==
    [Scenario EXCEPT
        !.files = (1 :> WholeFile(Sample(2, <<Relative("", "c"), Relative("", "d")>>))
                   @@ 2 :> WholeFile(Sample(1, <<Relative("", "a")>>))
                   @@ 3 :> WholeFile(Sample(3, <<Relative("raw", "a"), Relative("", "c")>>)))]
EvidenceScenarios ==
    {[Mixed EXCEPT !.files[1].sample.raw = raw, !.evidence = tree, !.root = root,
                   !.inputs = names, !.policy.missing = missing] :
        raw \in References, tree \in Trees, root \in BOOLEAN, names \in {{1}, {1, 2}},
        missing \in BOOLEAN}
    \cup {[Mixed EXCEPT !.files[1].sample.valid = valid, !.files[2].sample.id = id,
                        !.files[2].exact = exact, !.files[2].whole = whole, !.inputs = names,
                        !.policy = [invalid |-> invalid, missing |-> TRUE]] :
            valid \in BOOLEAN, id \in {1, 2}, exact \in BOOLEAN, whole \in BOOLEAN,
            names \in {{1, 2}, {}, {1, 4}}, invalid \in BOOLEAN}

(* Bundle files that no build wrote. *)
BaseBundle == Archive({Sample(1, <<Relative("", "a")>>), Sample(2, <<>>)}, Strict, FALSE,
                      Scenario.evidence, 0)
Moved(entry, path) == [entry EXCEPT !.path = path]
Relisted(bundle, list) ==
    [bundle EXCEPT !.manifest.files = list, !.manifest.id = BundleId(list)]
Swapped(entries, old, new) == (entries \ {old}) \cup {new}
(* The manifest fits the entries. *)
Repacked(bundle, entries) ==
    [Relisted(bundle, {FileEntry(e.path, e.content, 0) : e \in entries})
        EXCEPT !.entries = entries]
(* sample and raw are entries of bundle, first and second its samples. *)
ChangedEntries(entries, sample, raw) ==
    {entries \cup {Moved(raw, path)} : path \in {<<"..", 1>>, <<"raw", 9, 9, "a">>, <<"samples", 9>>}}
    \cup {Swapped(entries, raw, [raw EXCEPT !.content.object = FALSE])}
    \cup {Swapped(entries, sample, [sample EXCEPT !.content.sample = changed]) :
            changed \in {NoSample, [Sample(1, <<>>) EXCEPT !.valid = FALSE], Sample(2, <<>>),
                         [Sample(1, <<>>) EXCEPT !.profile = "storage"]}}
ChangedSamples(first, second) ==
    {{}, {first, [second EXCEPT !.id = 1]}, {first, [second EXCEPT !.raw = {first.path}]},
     {first, [second EXCEPT !.path = <<"samples", 9>>]}}
TamperedWith(bundle, sample, raw, first, second) ==
    LET listed == bundle.manifest.files
    IN {[bundle EXCEPT !.manifest.id = {}],
        [bundle EXCEPT !.entries =
            Swapped(@, raw, [raw EXCEPT !.content.json = Secret.json])],
        [bundle EXCEPT !.entries = @ \cup {Moved(raw, <<"other", 1>>)}],
        [bundle EXCEPT !.entries = @ \cup {[raw EXCEPT !.copy = 2]}],
        Relisted(bundle, {}), Relisted(bundle, {f \in listed : f.path # raw.path}),
        Relisted(bundle, listed \cup {[f EXCEPT !.copy = 2] : f \in listed})}
       \cup {Repacked(bundle, entries) : entries \in ChangedEntries(bundle.entries, sample, raw)}
       \cup {[bundle EXCEPT !.manifest.samples = list, !.manifest.count = count] :
                list \in ChangedSamples(first, second), count \in {0, 2}}
Tampered ==
    UNION {UNION {TamperedWith(b, sample, raw, first, second) :
                    sample \in {e \in b.entries : e.path = <<"samples", 1>>},
                    raw \in {e \in b.entries : e.path[1] = "raw"},
                    first \in {s \in b.manifest.samples : s.id = 1},
                    second \in {s \in b.manifest.samples : s.id = 2}} : b \in {BaseBundle}}

(* Submissions: repeated, of a file that a second build replaces meanwhile. *)
Submission == [Scenario EXCEPT !.submits = 2]
Offered(bundle) == [Scenario EXCEPT !.output = <<bundle>>, !.builds = 0, !.submits = 1]
SubmitScenarios(p, q) ==
    {Offered(b) : b \in Tampered}
    \cup {[Offered(BaseBundle) EXCEPT
              !.endpoint = [scheme |-> scheme, host |-> host, plain |-> plain],
              !.allow_http = http, !.dry = TRUE] :
            scheme \in {"https", "http", "ftp"}, host \in {"public", "private", "none"},
            plain \in BOOLEAN, http \in BOOLEAN}
    \cup {[Submission EXCEPT !.submits = 1, !.token = token, !.dry = dry] :
            token \in {"missing", "blank", "given"}, dry \in BOOLEAN}
    \cup {[Submission EXCEPT !.builds = 2], [Submission EXCEPT !.faults = {"crash"}],
          [Submission EXCEPT !.faults = {"disk"}, !.gateway = TRUE],
          [Submission EXCEPT !.receipt = FALSE, !.gateway = TRUE],
          [Submission EXCEPT !.output = <<BaseBundle>>],
          [Offered(BaseBundle) EXCEPT !.submits = 2],
          [Submission EXCEPT !.builds = 2, !.submits = 1, !.savers[p] = Saving(2, FALSE, TRUE)]}

ManyScenarios(p, q) ==
    StoreScenarios(p, q) \cup EvidenceScenarios \cup SubmitScenarios(p, q)

CONSTANTS s1, s2
AllScenarios == ManyScenarios(s1, s2)
=============================================================================
