------------------------------ MODULE Evidence ------------------------------
(***************************************************************************)
(* The evidence half of core/cloudeyes_core: validation of samples, strict  *)
(* cohorts, statistics, coverage and confidence, as operators.  A sample is *)
(* a record; a cohort is the set of its samples, which the code keeps in    *)
(* the order of (created_at, sample_id).  Times are days, metric values are *)
(* integers, and a statistic is a fraction <<numerator, denominator>>.      *)
(***************************************************************************)
EXTENDS Integers, FiniteSets, Sequences, SequencesExt

CONSTANTS
    Casefold,         \* str.casefold where it changes a name: a function
    ExpectedMetrics,  \* --expected-metric
    SomeSamples, ManySamples,  \* 3 and 10: samples for medium and high confidence
    SomeDays, ManyDays         \* 3 and 7: days for medium and high confidence

ASSUME EvidenceAssumption ==
    /\ SomeSamples \in Nat \ {0} /\ ManySamples \in Nat \ {0} /\ SomeSamples <= ManySamples
    /\ SomeDays \in Nat \ {0} /\ ManyDays \in Nat \ {0} /\ SomeDays <= ManyDays
    \* the gap of a metric, missing_metric:<name>, is none of a cohort
    /\ ExpectedMetrics \cap {"insufficient_samples", "short_observation_period"} = {}

None == "none"      \* an absent optional name
Unknown == "unknown"

-----------------------------------------------------------------------------
(* Confidence levels. *)

Levels == {"low", "medium", "high"}
Rank == [level \in Levels |-> CASE level = "low" -> 0 [] level = "medium" -> 1
                                [] level = "high" -> 2]
AtMost(first, second) == Rank[first] <= Rank[second]
Lowest(levels) == CHOOSE l \in levels : \A other \in levels : AtMost(l, other)

-----------------------------------------------------------------------------
(* Fractions and order statistics. *)

Whole(n) == <<n, 1>>
Less(a, b) == a[1] * b[2] < b[1] * a[2]
NotAbove(a, b) == ~Less(b, a)
Half(a, b) == <<a[1] * b[2] + b[1] * a[2], 2 * a[2] * b[2]>>

(* The values of a function in ascending order: fewer than k are less than the *)
(* k-th, and at least k are not above it.                                       *)
Sorted(f) ==
    [k \in 1..Cardinality(DOMAIN f) |->
        CHOOSE v \in Range(f) :
            /\ Cardinality({x \in DOMAIN f : Less(f[x], v)}) < k
            /\ k <= Cardinality({x \in DOMAIN f : NotAbove(f[x], v)})]

Median(f) ==
    LET s == Sorted(f)  n == Cardinality(DOMAIN f)
    IN IF n % 2 = 1 THEN s[(n + 1) \div 2] ELSE Half(s[n \div 2], s[n \div 2 + 1])

(* Mutant of Percentile: the weights of the two neighbours are swapped. *)
PercentileSwapped(f, tenths) ==
    LET s == Sorted(f)
        position == tenths * (Cardinality(DOMAIN f) - 1)
        lower == position \div 10
        weight == position % 10
        low == s[lower + 1]
        high == IF weight = 0 THEN low ELSE s[lower + 2]
    IN <<low[1] * high[2] * weight + high[1] * low[2] * (10 - weight),
         10 * low[2] * high[2]>>

(* percentile of the values of f, at tenths / 10: linear interpolation *)
Percentile(f, tenths) ==
    LET s == Sorted(f)
        position == tenths * (Cardinality(DOMAIN f) - 1)
        lower == position \div 10
        weight == position % 10
        low == s[lower + 1]
        high == IF weight = 0 THEN low ELSE s[lower + 2]
    IN <<low[1] * high[2] * (10 - weight) + high[1] * low[2] * weight,
         10 * low[2] * high[2]>>

(* The coefficient of variation as its class: at most 0.10, at most 0.25,      *)
(* above, or None for a mean of zero.  The values are medians of integers.     *)
Variation(f) ==
    LET twice == [x \in DOMAIN f |-> (2 * f[x][1]) \div f[x][2]]
        n == Cardinality(DOMAIN f)
        sum == FoldFunction(+, 0, twice)
        squares == FoldFunction(+, 0, [x \in DOMAIN f |-> twice[x] * twice[x]])
        spread == n * (n * squares - sum * sum)
        scale == (n - 1) * sum * sum
    IN CASE sum = 0 -> None
         [] sum # 0 /\ 100 * spread <= scale -> "stable"
         [] sum # 0 /\ 100 * spread > scale /\ 16 * spread <= scale -> "moderate"
         [] OTHER -> "variable"

Summarize(f) ==
    LET n == Cardinality(DOMAIN f)
    IN [count |-> n, minimum |-> Sorted(f)[1], maximum |-> Sorted(f)[n], median |-> Median(f),
        variation |-> Variation(f), p10 |-> Percentile(f, 1), p90 |-> Percentile(f, 9)]

-----------------------------------------------------------------------------
(* Samples: what their constructors admit, and validate_sample. *)

MetricValues == [name : STRING, unit : STRING, direction : {"lower", "higher", "neutral"},
                 value : Int]
Measurements == [id : Int, status : STRING, profile : STRING, version : STRING,
                 metrics : Seq(MetricValues)]
Samples == [id : Int, created : Int, provider : STRING, country : STRING, product : STRING,
            plan : STRING, region : STRING, zone : STRING, machine : STRING,
            profile : STRING, version : STRING, fingerprint : STRING,
            measurements : Seq(Measurements), quality : STRING]

(* metrics of the successful measurements, by their places *)
Places(sample) ==
    UNION {{i} \X DOMAIN sample.measurements[i].metrics :
              i \in {i \in DOMAIN sample.measurements :
                        sample.measurements[i].status = "success"}}
Observed(sample) == [p \in Places(sample) |-> sample.measurements[p[1]].metrics[p[2]]]

ContractsAgree(sample) ==
    \A a, b \in Range(Observed(sample)) :
        a.name = b.name => a.unit = b.unit /\ a.direction = b.direction

ValidSample(sample) ==
    LET measurements == ToSet(sample.measurements)
    IN /\ Cardinality({m.id : m \in measurements}) = Len(sample.measurements)
       /\ \A m \in measurements :
             /\ m.profile = sample.profile /\ m.version = sample.version
             /\ Cardinality({metric.name : metric \in ToSet(m.metrics)}) = Len(m.metrics)
       /\ ContractsAgree(sample)
       /\ Places(sample) # {}
       /\ sample.quality # "invalid"

-----------------------------------------------------------------------------
(* Cohorts. *)

(* _normalize *)
Normalize(name) ==
    IF name = None THEN Unknown
    ELSE IF name \in DOMAIN Casefold THEN Casefold[name] ELSE name

(* CohortKey.from_sample.  machine stands for machine type, CPU count, memory  *)
(* size and architecture.                                                       *)
CohortKey(s) ==
    [provider |-> Normalize(s.provider), country |-> Normalize(s.country),
     product |-> Normalize(s.product), plan |-> Normalize(s.plan),
     region |-> Normalize(s.region), zone |-> Normalize(s.zone),
     machine |-> s.machine, profile |-> Normalize(s.profile),
     version |-> Normalize(s.version), fingerprint |-> Normalize(s.fingerprint)]

(* build_cohorts, for samples that are not invalid *)
BuildCohorts(samples) ==
    {[key |-> k, samples |-> {s \in samples : CohortKey(s) = k}] :
        k \in {CohortKey(s) : s \in samples}}

First(cohort) == CHOOSE s \in cohort.samples : \A t \in cohort.samples :
    s.created < t.created \/ (s.created = t.created /\ s.id <= t.id)
StartedAt(cohort) == First(cohort).created
EndedAt(cohort) == CHOOSE d \in {s.created : s \in cohort.samples} :
    \A s \in cohort.samples : s.created <= d

(* summarize_cohort: every sample contributes the median of its values. *)
AllObserved(cohort) == UNION {Range(Observed(s)) : s \in cohort.samples}

ContractsClash(cohort) ==
    \E a, b \in AllObserved(cohort) :
        a.name = b.name /\ (a.unit # b.unit \/ a.direction # b.direction)

SummarizeMetric(cohort, metric) ==
    LET named(s) == {p \in Places(s) : Observed(s)[p].name = metric.name}
        contributing == {s \in cohort.samples : named(s) # {}}
        value == [s \in contributing |->
                     Median([p \in named(s) |-> Whole(Observed(s)[p].value)])]
    IN [name |-> metric.name, unit |-> metric.unit, direction |-> metric.direction,
        statistics |-> Summarize(value)]

SummarizeCohort(cohort) == {SummarizeMetric(cohort, o) : o \in AllObserved(cohort)}

-----------------------------------------------------------------------------
(* Coverage and confidence. *)

ObservationDays(cohort) == EndedAt(cohort) - StartedAt(cohort) + 1

(* calculate_coverage *)
Coverage(cohort, metrics) ==
    LET known(field) == \E s \in cohort.samples : s[field] # None
        available == {m.name : m \in metrics}
        unless(condition, gap) == IF condition THEN {} ELSE {gap}
    IN [samples |-> Cardinality(cohort.samples), days |-> ObservationDays(cohort),
        located |-> known("region") /\ known("plan"),
        available |-> Cardinality(ExpectedMetrics \cap available),
        gaps |-> unless(Cardinality(cohort.samples) >= SomeSamples, "insufficient_samples")
                 \cup unless(ObservationDays(cohort) >= SomeDays, "short_observation_period")
                 \cup (UNION {unless(known(field), field) :
                                 field \in {"region", "zone", "product", "plan"}})
                 \cup (ExpectedMetrics \ available)]

(* _measurement_confidence, _statistical_confidence, _coverage_confidence *)
MeasurementConfidence(metrics) ==
    LET variations == {m.statistics.variation : m \in metrics} \ {None}
    IN CASE variations = {} \/ "variable" \in variations -> "low"
         [] variations # {} /\ variations \subseteq {"stable"} -> "high"
         [] OTHER -> "medium"

StatisticalConfidence(coverage) ==
    IF coverage.samples >= ManySamples /\ coverage.days >= ManyDays THEN "high"
    ELSE IF coverage.samples >= SomeSamples /\ coverage.days >= SomeDays THEN "medium"
    ELSE "low"

CoverageConfidence(coverage) ==
    LET expected == Cardinality(ExpectedMetrics)
        atLeast(percent) == expected = 0 \/ 100 * coverage.available >= percent * expected
    IN IF atLeast(90) /\ coverage.located THEN "high"
       ELSE IF atLeast(60) THEN "medium" ELSE "low"

(* Mutant of OverallConfidence: the middle dimension instead of the lowest. *)
MiddleConfidence(metrics, coverage) ==
    LET levels == {MeasurementConfidence(metrics), StatisticalConfidence(coverage),
                   CoverageConfidence(coverage)}
    IN IF Cardinality(levels) = 3 THEN "medium" ELSE Lowest(levels)

(* Confidence.overall *)
OverallConfidence(metrics, coverage) ==
    Lowest({MeasurementConfidence(metrics), StatisticalConfidence(coverage),
            CoverageConfidence(coverage)})

(* build_cohort_report; cohort_id stands for the key and the sample IDs *)
CohortReport(cohort) ==
    LET metrics == SummarizeCohort(cohort)
        coverage == Coverage(cohort, metrics)
    IN [key |-> cohort.key, profile |-> First(cohort).profile, samples |-> cohort.samples,
        start |-> StartedAt(cohort), end |-> EndedAt(cohort), coverage |-> coverage,
        measurement |-> MeasurementConfidence(metrics),
        confidence |-> OverallConfidence(metrics, coverage), metrics |-> metrics]

(* build_provider_reports *)
ProviderReport(provider, cohortReports) ==
    LET own == {r \in cohortReports : r.key.provider = provider}
    IN [provider |-> provider, cohorts |-> own,
        confidence |-> Lowest({r.confidence : r \in own}),
        gaps |-> UNION {r.coverage.gaps : r \in own}]

ProviderReports(cohortReports) ==
    {ProviderReport(p, cohortReports) : p \in {r.key.provider : r \in cohortReports}}
=============================================================================
