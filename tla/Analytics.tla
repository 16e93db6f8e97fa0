----------------------------- MODULE Analytics -----------------------------
(***************************************************************************)
(* cloudeyes analyze: run_analyze (agent/cloudeyes_agent/commands) and the  *)
(* stages of build_analytics_bundle (core/cloudeyes_core/provider), from a  *)
(* list of samples and a list of price quotes to the written bundle.  Every *)
(* stage may raise; run_analyze turns that into exit code 5.                *)
(*                                                                          *)
(* Identifiers (digests of keys and of IDs) are abstracted to what they     *)
(* identify, and prices are whole USD per hour.                             *)
(***************************************************************************)
EXTENDS Evidence

CONSTANT
    Inputs        \* records [samples, quotes, commitment, now, files]

VARIABLES
    input,        \* what the command was given: the samples and the quotes of
                  \* its files, the commitment, the time, the files to write
    stage,        \* next step of build_analytics_bundle and run_analyze
    next,         \* index of the sample that the loop reads next
    accepted,     \* valid_samples
    excluded,     \* excluded sample IDs
    reports,      \* cohort reports
    comparisons,  \* peer comparisons
    assigned,     \* assignments: cohort key -> quote
    values,       \* value comparisons
    providers,    \* provider analytics reports
    error,        \* what was raised
    files         \* state of the output files

vars == <<input, stage, next, accepted, excluded, reports, comparisons, assigned, values,
          providers, error, files>>

-----------------------------------------------------------------------------
(* Peer comparison. *)

(* PeerKey: product, plan, region and zone are labels of the provider. *)
PeerKey(key) == [country |-> key.country, machine |-> key.machine, profile |-> key.profile,
                 version |-> key.version, fingerprint |-> key.fingerprint]

(* Mutant of Comparable: cohorts of unknown providers are peers too. *)
ComparableAnyway(key) == key.country # Unknown

(* an unknown provider or geography supports no baseline *)
Comparable(key) == key.provider # Unknown /\ key.country # Unknown

Metric(m) == [name |-> m.name, unit |-> m.unit, direction |-> m.direction]

(* One observation of a metric: the cohort it comes from, its value, and the   *)
(* confidence levels it rests on.                                               *)
Observation(report, m, value, levels) ==
    [cohort |-> report.key, metric |-> Metric(m), value |-> value, levels |-> levels]

(* _provider_metrics: one value per provider, the median over its cohorts *)
ProviderValue(observations, provider) ==
    LET own == {o \in observations : o.cohort.provider = provider}
    IN Median([o \in own |-> o.value])

(* Mutant of RelativeTo: the sign of a negative baseline is kept. *)
SignedRelativeTo(value, peer, sign) ==
    LET difference == value[1] * peer[2] - peer[1] * value[2]
        base == peer[1] * value[2]
        scaled == 20 * sign * difference * (IF base < 0 THEN -1 ELSE 1)
    IN IF scaled >= (IF base < 0 THEN -base ELSE base) THEN "ahead"
       ELSE IF scaled <= -(IF base < 0 THEN -base ELSE base) THEN "behind" ELSE "similar"

(* _relative_difference and _outcome: the similarity band of five percent *)
RelativeTo(value, peer, sign) ==
    LET difference == value[1] * peer[2] - peer[1] * value[2]
        base == (IF peer[1] < 0 THEN -peer[1] ELSE peer[1]) * value[2]
    IN IF 20 * sign * difference >= base THEN "ahead"
       ELSE IF 20 * sign * difference <= -base THEN "behind" ELSE "similar"

(* Mutant of ComparisonConfidence: the peers' levels are not looked at. *)
OwnConfidence(own, others, peers) ==
    LET minimum == Lowest(UNION {o.levels : o \in own})
    IN IF minimum = "high" /\ Cardinality(peers) < 2 THEN "medium" ELSE minimum

(* _comparison_confidence *)
ComparisonConfidence(own, others, peers) ==
    LET minimum == Lowest(UNION {o.levels : o \in own \cup others})
    IN IF minimum = "high" /\ Cardinality(peers) < 2 THEN "medium" ELSE minimum

(* Mutant of Baseline: the provider is one of its own peers. *)
BaselineWithSelf(available, provider) == available

(* the other providers *)
Baseline(available, provider) ==
    {o \in available : o.cohort.provider # provider}

(* The comparison of a provider with the others that have the metric. *)
Comparison(available, provider, metric, sign) ==
    LET own == {o \in available : o.cohort.provider = provider}
        others == Baseline(available, provider)
        peers == {o.cohort.provider : o \in others}
        peerMedian == Median([p \in peers |-> ProviderValue(others, p)])
    IN [provider |-> provider, metric |-> metric, peers |-> peers,
        value |-> ProviderValue(own, provider), peer |-> peerMedian,
        outcome |-> RelativeTo(ProviderValue(own, provider), peerMedian, sign),
        confidence |-> ComparisonConfidence(own, others, peers),
        cohorts |-> {o.cohort : o \in own}, peerCohorts |-> {o.cohort : o \in others}]

(* All comparisons of a set of observations, group by group, metric by metric;  *)
(* a baseline of zero supports none.                                            *)
Compare(observations, sign) ==
    LET usable == {o \in observations : Comparable(o.cohort) /\ o.metric.direction # "neutral"}
        groups == {<<PeerKey(o.cohort), o.metric>> : o \in usable}
        available(g) == {o \in usable : PeerKey(o.cohort) = g[1] /\ o.metric = g[2]}
        contenders(g) == {o.cohort.provider : o \in available(g)}
    IN UNION {{c \in {Comparison(available(g), p, g[2], sign[g[2].direction]) : p \in contenders(g)} :
                  c.peer[1] # 0} :
                 g \in {g \in groups : Cardinality(contenders(g)) >= 2}}

(* Mutant of Direction: lower is better is compared like higher is better. *)
HigherIsBetter == [lower |-> 1, higher |-> 1]

Direction == [lower |-> -1, higher |-> 1]

PeerComparisons(cohortReports) ==
    Compare(UNION {{Observation(r, m, m.statistics.median, {r.confidence}) : m \in r.metrics} :
                      r \in cohortReports},
            Direction)

-----------------------------------------------------------------------------
(* Pricing. *)

TierRank == [tier \in {"manual", "reseller", "official_document", "official_api"} |->
    CASE tier = "manual" -> 1 [] tier = "reseller" -> 2
      [] tier = "official_document" -> 3 [] tier = "official_api" -> 4]

SourceConfidence(quote) ==
    CASE quote.tier \in {"official_api", "official_document"} -> "high"
      [] quote.tier = "reseller" -> "medium"
      [] quote.tier = "manual" -> "low"

MatchesIdentity(quote, key) ==
    /\ Normalize(quote.provider) = key.provider
    /\ Normalize(quote.product) = key.product /\ Normalize(quote.plan) = key.plan
    /\ quote.region = None \/ Normalize(quote.region) = key.region
    /\ quote.zone = None \/ Normalize(quote.zone) = key.zone

Forever == 1000  \* valid_until of a quote without an end
LastDay == 99    \* bound on the days on which quotes are observed, for QuoteRank

(* Mutant of CoversCohort: the quote has to be valid at the start only. *)
CoversStart(quote, report) ==
    quote.from <= report.start /\ quote.until >= report.start

CoversCohort(quote, report) ==
    quote.from <= report.start /\ quote.until >= report.end

(* _rank, as one number: region, zone, source tier, observation *)
QuoteRank(quote) ==
    ((IF quote.region # None THEN 2 ELSE 0) + (IF quote.zone # None THEN 1 ELSE 0)) * 1000
    + TierRank[quote.tier] * 100 + quote.observed

(* quotes of the commitment and operating system asked for *)
Selected == {i \in 1..Len(input.quotes) : input.quotes[i].commitment = input.commitment}
SelectedQuotes == {input.quotes[i] : i \in Selected}

Candidates(report) ==
    {q \in SelectedQuotes : q.observed <= input.now /\ MatchesIdentity(q, report.key)
                            /\ CoversCohort(q, report)}
Best(quotes) == {q \in quotes : \A other \in quotes : QuoteRank(other) <= QuoteRank(q)}

(* Mutant of Ambiguous: the first of the best quotes is taken. *)
NeverAmbiguous(report) == FALSE

(* _select_quote: equal rank, different price *)
Ambiguous(report) == Cardinality({q.hourly : q \in Best(Candidates(report))}) > 1

Assign(cohortReports) ==
    LET priced == {r \in cohortReports : Candidates(r) # {}}
        quote(r) == CHOOSE q \in Best(Candidates(r)) :
                       \A other \in Best(Candidates(r)) : q.id <= other.id
    IN [k \in {r.key : r \in priced} |-> quote(CHOOSE r \in priced : r.key = k)]

(* NormalizedPriceEvidence of a quote: the cohorts it was assigned to *)
PricingEvidence ==
    {[quote |-> q, cohorts |-> {k \in DOMAIN assigned : assigned[k] = q}] :
        q \in {assigned[k] : k \in DOMAIN assigned}}
Unmatched == {q.id : q \in SelectedQuotes} \ {e.quote.id : e \in PricingEvidence}

(* Mutant of ValueIndex: lower is better is divided by the price as well. *)
MetricPerPrice(median, quote, direction) == <<median[1], median[2] * quote.hourly>>

(* value_index; larger is better whatever the metric's direction is *)
ValueIndex(median, quote, direction) ==
    IF direction = "higher" THEN <<median[1], median[2] * quote.hourly>>
    ELSE <<median[2], median[1] * quote.hourly>>

ValueObservations(cohortReports) ==
    UNION {{Observation(r, m, ValueIndex(m.statistics.median, assigned[r.key], m.direction),
                        {r.confidence, SourceConfidence(assigned[r.key])}) :
               m \in {m \in r.metrics : m.direction # "neutral" /\ m.statistics.median[1] > 0}} :
              r \in {r \in cohortReports : r.key \in DOMAIN assigned}}

Larger == [lower |-> 1, higher |-> 1]
ValueComparisons(cohortReports) == Compare(ValueObservations(cohortReports), Larger)

-----------------------------------------------------------------------------
(* PriceQuote: what its constructor admits; hourly is a positive price. *)
Quotes == [id : Int, provider : STRING, product : STRING, plan : STRING, region : STRING,
           zone : STRING, observed : 0..LastDay, from : Int, until : Int, commitment : STRING,
           tier : DOMAIN TierRank, hourly : Nat \ {0}]

ASSUME InputsAssumption ==
    Inputs \subseteq [samples : Seq(Samples), quotes : Seq(Quotes), commitment : STRING,
                      now : Int, files : SUBSET {"output", "markdown"}]

-----------------------------------------------------------------------------
(* Assessment and explanation. *)

Grade(found) ==
    LET count(outcome) == Cardinality({c \in found : c.outcome = outcome})
    IN CASE found = {} -> "not_assessed"
         [] found # {} /\ count("ahead") > count("behind") -> "high"
         [] found # {} /\ count("ahead") < count("behind") -> "low"
         [] OTHER -> "medium"

(* assess_consistency: the worst variation with at least two samples *)
Consistency(report) ==
    LET usable == {m \in UNION {r.metrics : r \in report.cohorts} :
                      m.statistics.count >= 2 /\ m.statistics.variation # None}
        worst == {m.statistics.variation : m \in usable}
    IN IF usable = {} \/ "variable" \in worst THEN "low"
       ELSE IF "moderate" \in worst THEN "medium" ELSE "high"

(* assess_reliability: successful measurements and clean samples *)
Reliability(report) ==
    LET samples == UNION {r.samples : r \in report.cohorts}
        size(s) == Len(s.measurements)
        successes(s) == Len(SelectSeq(s.measurements, LAMBDA m : m.status = "success"))
        all == FoldFunction(+, 0, [s \in samples |-> size(s)])
        good == FoldFunction(+, 0, [s \in samples |-> successes(s)])
    IN IF 100 * good >= 95 * all /\ \A s \in samples : s.quality = "valid" THEN "high"
       ELSE IF 100 * good >= 80 * all THEN "medium" ELSE "low"

(* assess_performance, assess_value *)
AssessPerformance(found) == Grade(found)
AssessValue(pricing, found) == IF pricing = {} THEN "not_assessed" ELSE Grade(found)

PricingOf(report) == {e \in PricingEvidence : Normalize(e.quote.provider) = report.provider}

(* build_scorecard *)
Scorecard(report) ==
    LET own(found) == {c \in found : c.provider = report.provider}
    IN [evidence |-> report.confidence, consistency |-> Consistency(report),
        reliability |-> Reliability(report),
        performance |-> AssessPerformance(own(comparisons)),
        value |-> AssessValue(PricingOf(report), own(values))]

(* Mutant of Explanations: gaps are explained for low evidence only. *)
ExplainLowEvidence(report, scorecard) ==
    {<<d, scorecard[d]>> : d \in DOMAIN scorecard} \cup {<<"universal_score", "not_calculated">>}
    \cup (IF report.confidence = "low" THEN {<<"gap", g>> : g \in report.gaps} ELSE {})

(* build_explanations: one item per dimension, per gap, and the missing score *)
Explanations(report, scorecard) ==
    {<<d, scorecard[d]>> : d \in DOMAIN scorecard} \cup {<<"gap", g>> : g \in report.gaps}
    \cup {<<"universal_score", "not_calculated">>}

ProviderAnalytics(report) ==
    [provider |-> report.provider, evidence |-> report, scorecard |-> Scorecard(report),
     explanations |-> Explanations(report, Scorecard(report)),
     profiles |-> {r.profile : r \in report.cohorts},
     comparisons |-> {c \in comparisons : c.provider = report.provider},
     values |-> {c \in values : c.provider = report.provider},
     pricing |-> PricingOf(report)]

(* ProviderAnalyticsReport.__post_init__ *)
ReportAccepted(p) ==
    /\ \A c \in p.comparisons \cup p.values :
          \A k \in c.cohorts : k.profile \in p.profiles
    /\ \A c \in p.values : \A k \in c.cohorts : \E e \in p.pricing : k \in e.cohorts

(* AnalyticsBundle.__post_init__ *)
BundleAccepted(all) ==
    LET analyzed == UNION {r.samples : r \in UNION {p.evidence.cohorts : p \in all}}
        priced == UNION {p.pricing : p \in all}
    IN /\ Len(input.samples) = Cardinality(analyzed) + Cardinality(excluded)
       /\ Cardinality(Selected) = Cardinality(priced) + Cardinality(Unmatched)

-----------------------------------------------------------------------------
Absent == [output |-> "absent", markdown |-> "absent"]

Init ==
    /\ input \in Inputs
    /\ stage = "load" /\ next = 1
    /\ accepted = {} /\ excluded = {} /\ reports = {} /\ comparisons = {}
    /\ assigned = <<>> /\ values = {} /\ providers = {}
    /\ error = None /\ files = Absent

(* Mutant of Fail: the cause is lost. *)
FailSilently(what) == stage' = "failed" /\ UNCHANGED error

(* the handler of run_analyze: exit code 5 *)
Fail(what) == stage' = "failed" /\ error' = what

(* _sample_paths, load_sample and _pricing_quotes: a quote ID may be used once  *)
(* in all catalogs, whatever the commitment.                                    *)
LoadInputs ==
    /\ stage = "load"
    /\ CASE input.samples = <<>> -> Fail("no_samples")
         [] input.samples # <<>> /\ ~IsInjective([i \in 1..Len(input.quotes) |->
                                                      input.quotes[i].id]) ->
               Fail("duplicate_quote")
         [] OTHER -> stage' = "samples" /\ UNCHANGED error
    /\ UNCHANGED <<input, next, accepted, excluded, reports, comparisons, assigned, values,
                   providers, files>>

(* Mutant of ReadSample: invalid samples are dropped without a trace. *)
DropInvalid ==
    /\ stage = "samples" /\ next <= Len(input.samples)
    /\ LET s == input.samples[next]
           seen == {input.samples[i].id : i \in 1..(next - 1)}
       IN CASE s.id \in seen -> Fail("duplicate_sample") /\ UNCHANGED <<accepted, excluded>>
            [] s.id \notin seen /\ s.quality = "invalid" ->
                  UNCHANGED <<accepted, excluded, stage, error>>
            [] s.id \notin seen /\ s.quality # "invalid" /\ ~ValidSample(s) ->
                  Fail("malformed_sample") /\ UNCHANGED <<accepted, excluded>>
            [] OTHER -> accepted' = accepted \cup {s} /\ UNCHANGED <<excluded, stage, error>>
    /\ next' = next + 1
    /\ UNCHANGED <<input, reports, comparisons, assigned, values, providers, files>>

(* Mutant of ReadSample: samples with warnings are excluded as well. *)
ExcludeWarnings ==
    /\ stage = "samples" /\ next <= Len(input.samples)
    /\ LET s == input.samples[next]
           seen == {input.samples[i].id : i \in 1..(next - 1)}
       IN CASE s.id \in seen -> Fail("duplicate_sample") /\ UNCHANGED <<accepted, excluded>>
            [] s.id \notin seen /\ s.quality # "valid" ->
                  excluded' = excluded \cup {s.id} /\ UNCHANGED <<accepted, stage, error>>
            [] s.id \notin seen /\ s.quality = "valid" /\ ~ValidSample(s) ->
                  Fail("malformed_sample") /\ UNCHANGED <<accepted, excluded>>
            [] OTHER -> accepted' = accepted \cup {s} /\ UNCHANGED <<excluded, stage, error>>
    /\ next' = next + 1
    /\ UNCHANGED <<input, reports, comparisons, assigned, values, providers, files>>

(* One sample: a duplicate or a malformed one stops the analysis, an invalid    *)
(* one is excluded.                                                             *)
ReadSample ==
    /\ stage = "samples" /\ next <= Len(input.samples)
    /\ LET s == input.samples[next]
           seen == {input.samples[i].id : i \in 1..(next - 1)}
       IN CASE s.id \in seen -> Fail("duplicate_sample") /\ UNCHANGED <<accepted, excluded>>
            [] s.id \notin seen /\ s.quality = "invalid" ->
                  excluded' = excluded \cup {s.id} /\ UNCHANGED <<accepted, stage, error>>
            [] s.id \notin seen /\ s.quality # "invalid" /\ ~ValidSample(s) ->
                  Fail("malformed_sample") /\ UNCHANGED <<accepted, excluded>>
            [] OTHER -> accepted' = accepted \cup {s} /\ UNCHANGED <<excluded, stage, error>>
    /\ next' = next + 1
    /\ UNCHANGED <<input, reports, comparisons, assigned, values, providers, files>>

(* build_cohorts and build_provider_reports *)
Report ==
    /\ stage = "samples" /\ next > Len(input.samples)
    /\ LET cohorts == BuildCohorts(accepted)
       IN IF \E c \in cohorts : ContractsClash(c)
          THEN Fail("incompatible_metric") /\ UNCHANGED reports
          ELSE /\ reports' = {CohortReport(c) : c \in cohorts}
               /\ stage' = "compare" /\ UNCHANGED error
    /\ UNCHANGED <<input, next, accepted, excluded, comparisons, assigned, values, providers,
                   files>>

ComparePeers ==
    /\ stage = "compare"
    /\ comparisons' = PeerComparisons(reports)
    /\ stage' = "pricing"
    /\ UNCHANGED <<input, next, accepted, excluded, reports, assigned, values, providers, error,
                   files>>

(* match_pricing_evidence; its own test for duplicate IDs never fails after     *)
(* LoadInputs                                                                   *)
MatchPricing ==
    /\ stage = "pricing"
    /\ IF \E r \in reports : Ambiguous(r)
       THEN Fail("ambiguous_quotes") /\ UNCHANGED assigned
       ELSE assigned' = Assign(reports) /\ stage' = "value" /\ UNCHANGED error
    /\ UNCHANGED <<input, next, accepted, excluded, reports, comparisons, values, providers,
                   files>>

CompareValue ==
    /\ stage = "value"
    /\ values' = ValueComparisons(reports)
    /\ stage' = "assemble"
    /\ UNCHANGED <<input, next, accepted, excluded, reports, comparisons, assigned, providers,
                   error, files>>

(* scorecards, explanations, reports and the bundle *)
Assemble ==
    /\ stage = "assemble"
    /\ LET all == {ProviderAnalytics(r) : r \in ProviderReports(reports)}
       IN IF (\A p \in all : ReportAccepted(p)) /\ BundleAccepted(all)
          THEN providers' = all /\ stage' = "output" /\ UNCHANGED error
          ELSE Fail("rejected_by_model") /\ UNCHANGED providers
    /\ UNCHANGED <<input, next, accepted, excluded, reports, comparisons, assigned, values,
                   files>>

(* Mutant of Write: an error of the write is swallowed. *)
WriteQuietly(file, following) ==
    /\ IF file \in input.files
       THEN \E result \in {"partial", "complete"} : files' = [files EXCEPT ![file] = result]
       ELSE UNCHANGED files
    /\ stage' = following /\ UNCHANGED error

Written(file) ==
    files' = IF file \in input.files THEN [files EXCEPT ![file] = "complete"] ELSE files

(* One optional output file, written in place. *)
Write(file, following) ==
    \/ /\ Written(file)
       /\ stage' = following /\ UNCHANGED error
    \/ /\ file \in input.files
       /\ \E result \in {"absent", "partial"} : files' = [files EXCEPT ![file] = result]
       /\ Fail("write_failed")

(* The result is printed when all files are written; that may fail, too. *)
PrintFails == Written("markdown") /\ Fail("print_failed")

(* dump(bundle, output), then the Markdown rendering and the output to the terminal *)
WriteOutput == /\ stage = "output" /\ Write("output", "markdown")
               /\ UNCHANGED <<input, next, accepted, excluded, reports, comparisons, assigned,
                              values, providers>>
WriteMarkdown == /\ stage = "markdown" /\ (Write("markdown", "done") \/ PrintFails)
                 /\ UNCHANGED <<input, next, accepted, excluded, reports, comparisons, assigned,
                                values, providers>>

Terminated == stage \in {"done", "failed"} /\ UNCHANGED vars

Next == LoadInputs \/ ReadSample \/ Report \/ ComparePeers \/ MatchPricing \/ CompareValue \/ Assemble
        \/ WriteOutput \/ WriteMarkdown \/ Terminated

Spec == Init /\ [][Next]_vars
-----------------------------------------------------------------------------
(* Properties. *)

Analysed == stage \in {"output", "markdown", "done"}
SamplesGiven == {input.samples[i] : i \in 1..Len(input.samples)}

(* Every variable of run_analyze and build_analytics_bundle stays in its       *)
(* domain; a failure has a cause, and only a failure has one.                   *)
TypeOK ==
    /\ stage \in {"load", "samples", "compare", "pricing", "value", "assemble", "output",
                  "markdown", "done", "failed"}
    /\ error \in {None, "no_samples", "duplicate_quote", "duplicate_sample",
                  "malformed_sample", "incompatible_metric", "ambiguous_quotes",
                  "rejected_by_model", "write_failed", "print_failed"}
    /\ (stage = "failed") = (error # None)
    /\ next \in 1..(Len(input.samples) + 1)
    /\ accepted \subseteq SamplesGiven /\ excluded \subseteq {s.id : s \in SamplesGiven}
    /\ \A r \in reports : r.samples \subseteq accepted /\ r.confidence \in Levels
    /\ \A c \in comparisons \cup values : c.outcome \in {"ahead", "similar", "behind"}
    /\ DOMAIN assigned \subseteq {r.key : r \in reports}
    /\ \A p \in providers : p.evidence.cohorts \subseteq reports
    /\ files \in [{"output", "markdown"} -> {"absent", "partial", "complete"}]

(* The constructors of ProviderAnalyticsReport and AnalyticsBundle cross-check  *)
(* counts, profiles and price references that other stages computed; they never *)
(* reject what build_analytics_bundle hands to them.                            *)
OutputModelsAgree == error # "rejected_by_model"

(* A finished bundle accounts for every input: each sample is either excluded,  *)
(* exactly when it was collected as invalid, or in one cohort of one provider,  *)
(* and each quote asked for is unmatched or evidence of one provider.           *)
InputsAccounted == Analysed =>
    /\ \A s \in SamplesGiven :
          LET homes == {h \in providers \X reports :
                           h[2] \in h[1].evidence.cohorts /\ s \in h[2].samples}
          IN /\ (s.id \in excluded) = (s.quality = "invalid")
             /\ Cardinality(homes) = IF s.id \in excluded THEN 0 ELSE 1
    /\ \A q \in SelectedQuotes :
          LET uses == {p \in providers : \E e \in p.pricing : e.quote = q}
          IN Cardinality(uses) = IF q.id \in Unmatched THEN 0 ELSE 1

(* Of no metric are the minimum, the tenth percentile, the median, the          *)
(* ninetieth percentile and the maximum out of order, and every sample counts   *)
(* once, however many measurements repeat the metric (summarize_cohort).        *)
StatisticsSound ==
    \A r \in reports : \A m \in r.metrics :
        LET s == m.statistics
        IN /\ NotAbove(s.minimum, s.p10) /\ NotAbove(s.p10, s.median)
           /\ NotAbove(s.median, s.p90) /\ NotAbove(s.p90, s.maximum)
           /\ s.count = Cardinality({x \in r.samples :
                                        \E o \in Range(Observed(x)) : o.name = m.name})

(* A provider whose evidence is not of low confidence has in every cohort       *)
(* enough samples over enough days and no variable metric, and its report lists *)
(* no gap that says otherwise; one of high confidence names region and plan.    *)
ConfidenceNeedsEvidence ==
    \A p \in providers : p.evidence.confidence # "low" =>
        /\ p.evidence.gaps \cap {"insufficient_samples", "short_observation_period"} = {}
        /\ \A r \in p.evidence.cohorts :
              /\ \A m \in r.metrics : m.statistics.variation # "variable"
              /\ p.evidence.confidence = "high" =>
                    /\ Cardinality(r.samples) >= ManySamples
                    /\ \E s \in r.samples : s.region # None
                    /\ \E s \in r.samples : s.plan # None

ReportOf(key) == CHOOSE r \in reports : r.key = key
MedianOf(key, metric) ==
    (CHOOSE m \in ReportOf(key).metrics : m.name = metric.name).statistics.median
Better(metric, own, peer) ==
    IF metric.direction = "lower" THEN Less(own, peer) ELSE Less(peer, own)

(* A provider is ahead of its peers in a metric only if one of its cohorts is   *)
(* better than one of theirs in the direction of the metric, and behind only if *)
(* one is worse, for negative values and baselines too (_relative_difference).  *)
OutcomeHasWitness ==
    \A c \in comparisons : LET median(k) == MedianOf(k, c.metric) IN
        /\ c.outcome = "ahead" => \E k \in c.cohorts, other \in c.peerCohorts :
              Better(c.metric, median(k), median(other))
        /\ c.outcome = "behind" => \E k \in c.cohorts, other \in c.peerCohorts :
              Better(c.metric, median(other), median(k))

(* The same for price and performance: ahead means that some cohort offers more *)
(* of a metric for its price than some peer cohort, or, where lower is better,  *)
(* less of it times the price (value_index).                                    *)
ValueHasWitness ==
    \A c \in values :
        LET times(k) == <<MedianOf(k, c.metric)[1] * assigned[k].hourly, MedianOf(k, c.metric)[2]>>
            per(k) == <<MedianOf(k, c.metric)[1], MedianOf(k, c.metric)[2] * assigned[k].hourly>>
            better(k, other) == IF c.metric.direction = "lower" THEN Less(times(k), times(other))
                                ELSE Less(per(other), per(k))
        IN /\ c.outcome = "ahead" => \E k \in c.cohorts, o \in c.peerCohorts : better(k, o)
           /\ c.outcome = "behind" => \E k \in c.cohorts, o \in c.peerCohorts : better(o, k)

(* A comparison sets the cohorts of one provider against those of all others    *)
(* with the same country, machine and protocol that have the metric, leaves     *)
(* none out, and rests on no unknown provider or country (PeerKey).             *)
PeersCompatible ==
    \A c \in comparisons :
        /\ \A k \in c.cohorts : k.provider = c.provider
        /\ \A k \in c.peerCohorts : k.provider \notin {c.provider, Unknown}
        /\ c.provider # Unknown /\ c.peerCohorts # {}
        /\ \A k \in c.cohorts : k.country # Unknown /\
              {r.key : r \in {x \in reports : /\ PeerKey(x.key) = PeerKey(k)
                                             /\ x.key.provider # Unknown
                                             /\ \E m \in x.metrics : Metric(m) = c.metric}}
                 = c.cohorts \cup c.peerCohorts

(* No comparison claims more confidence than the weakest cohort or price it     *)
(* rests on, its peers' included, and high confidence takes two peers           *)
(* (_comparison_confidence).                                                    *)
ConfidenceBounded ==
    /\ \A c \in comparisons \cup values :
          /\ \A k \in c.cohorts \cup c.peerCohorts :
                AtMost(c.confidence, ReportOf(k).confidence)
          /\ c.confidence = "high" => Cardinality({k.provider : k \in c.peerCohorts}) >= 2
    /\ \A c \in values : \A k \in c.cohorts \cup c.peerCohorts :
          AtMost(c.confidence, SourceConfidence(assigned[k]))

(* The quote of a cohort was observed by the time of the analysis, is valid for *)
(* every sample of the cohort and names what every sample names                 *)
(* (_select_quote).                                                             *)
Prices(quote, report) ==
    /\ quote.commitment = input.commitment /\ quote.observed <= input.now
    /\ \A s \in report.samples :
          /\ quote.from <= s.created /\ s.created <= quote.until
          /\ \A field \in {"provider", "product", "plan"} :
                Normalize(quote[field]) = Normalize(s[field])
          /\ \A field \in {"region", "zone"} :
                quote[field] # None => Normalize(quote[field]) = Normalize(s[field])
PriceCoversEvidence == \A k \in DOMAIN assigned : Prices(assigned[k], ReportOf(k))

(* No other quote that covers a priced cohort names its place more exactly, and *)
(* none of equal place, source and age states another price: such a tie stops   *)
(* the analysis.                                                                *)
PriceUndisputed ==
    \A k \in DOMAIN assigned :
        \A q \in {q \in SelectedQuotes : Prices(q, ReportOf(k))} :
            LET mine == assigned[k]
                equal == \A field \in {"region", "zone", "tier", "observed"} :
                            q[field] = mine[field]
            IN /\ mine.region = None => q.region = None
               /\ mine.region = q.region /\ mine.zone = None => q.zone = None
               /\ equal => q.hourly = mine.hourly

(* Every reported provider explains each of its five dimensions once, and each  *)
(* gap of each of its cohorts, whatever its confidence (build_explanations).    *)
ExplanationsComplete ==
    \A p \in providers :
        /\ \A d \in {"evidence", "consistency", "reliability", "performance", "value"} :
              Cardinality({e \in p.explanations : e[1] = d}) = 1
        /\ {e[2] : e \in {e \in p.explanations : e[1] = "gap"}}
              = UNION {r.coverage.gaps : r \in p.evidence.cohorts}

(* Nothing that goes into an analysis is lost on the way: no sample, no quote,     *)
(* no gap in the evidence (build_analytics_bundle, build_explanations).            *)
EvidenceAccounted == InputsAccounted /\ ExplanationsComplete

(* Confidence is never higher than the evidence behind it, in the report of a    *)
(* provider and in every comparison (calculate_confidence, _minimum_confidence).   *)
ConfidenceSound == ConfidenceNeedsEvidence /\ ConfidenceBounded

(* Comparisons of performance and of value are between comparable cohorts, and     *)
(* each outcome has cohorts that bear it out (build_peer_comparisons,              *)
(* build_value_comparisons).                                                       *)
ComparisonsSound == PeersCompatible /\ OutcomeHasWitness /\ ValueHasWitness

(* A price is one that holds for the whole cohort, and the only such price         *)
(* (match_pricing_evidence).                                                       *)
PricesSound == PriceCoversEvidence /\ PriceUndisputed

(* Exit code 0 means that every requested file is complete, and so does an error *)
(* of the output to the terminal; an analysis that fails before it writes leaves *)
(* none of its files behind, though the user cannot tell from exit code 5.       *)
OutputsComplete ==
    /\ stage = "done" \/ error = "print_failed" =>
          \A f \in input.files : files[f] = "complete"
    /\ error \notin {None, "write_failed", "print_failed"} => files = Absent
=============================================================================
