----------------------------- MODULE MCAnalytics -----------------------------
(* Instances of Analytics for TLC: families of inputs, each around one stage. *)
EXTENDS Analytics

Names == ("P1" :> "p1") @@ ("Web" :> "web")
OneMetric == {"latency"}

Latency(value) == [name |-> "latency", unit |-> "ms", direction |-> "lower", value |-> value]
Rate(value) == [name |-> "rate", unit |-> "1/s", direction |-> "higher", value |-> value]
Uptime == [name |-> "uptime", unit |-> "s", direction |-> "neutral", value |-> 7]
Measured(number, status, metrics) ==
    [id |-> number, status |-> status, profile |-> "web", version |-> "v1", metrics |-> metrics]

Basic(id, provider, measurements) ==
    [id |-> id, created |-> 0, provider |-> provider, country |-> "de", product |-> "vm",
     plan |-> "small", region |-> "eu", zone |-> None, machine |-> "m", profile |-> "web",
     version |-> "v1", fingerprint |-> "f", measurements |-> measurements, quality |-> "valid"]
Sample(id, provider, metric) == Basic(id, provider, <<Measured(1, "success", <<metric>>)>>)
At(sample, day) == [sample EXCEPT !.created = day]

Given(samples, quotes, wanted) ==
    [samples |-> samples, quotes |-> quotes, commitment |-> "on_demand", now |-> 4,
     files |-> wanted]

(* Three providers, one of them maybe unknown and one with two cohorts. *)
PeerInputs ==
    {Given(<<Sample(1, "p1", kind[a]), Sample(2, third, kind[b]), Sample(3, "p3", kind[c]),
             [Sample(4, "P1", kind[c]) EXCEPT !.plan = "large", !.country = country]>>, <<>>, {}) :
        kind \in {[v \in {-10, 0, 10, 20, 21} |-> Latency(v)],
                  [v \in {-10, 0, 10, 20, 21} |-> Rate(v)]},
        a \in {-10, 10, 20}, b \in {-10, 0, 20, 21}, c \in {-10, 10, 21},
        third \in {"p2", None}, country \in {"de", None}}

(* Cohorts of several days, with repeated, failed and neutral measurements. *)
Repeated == <<Measured(1, "success", <<Latency(10), Uptime>>), Measured(2, "failed", <<>>),
              Measured(3, "success", <<Latency(30)>>)>>
Single == <<Measured(1, "success", <<Latency(10)>>)>>
Other == <<Measured(1, "success", <<Rate(11)>>)>>
CohortInputs ==
    {Given(<<[At(Basic(1, "p1", first), 0) EXCEPT !.region = region],
             [At(Basic(2, "p1", second), day) EXCEPT !.region = region, !.quality = quality],
             [At(Basic(3, "p1", Single), 3) EXCEPT !.plan = plan, !.region = region],
             At(Basic(4, "p2", second), 0), At(Basic(5, "p2", first), day)>>, <<>>, {}) :
        first \in {Repeated, Single}, second \in {Repeated, Single, Other}, day \in {0, 1, 3},
        quality \in {"valid", "valid_with_warnings", "invalid"},
        plan \in {"small", None}, region \in {"eu", None}}

(* Quotes for the cohort of p1, and one for that of p2. *)
Quote(id, provider, hourly) ==
    [id |-> id, provider |-> provider, product |-> "vm", plan |-> "small", region |-> None,
     zone |-> None, observed |-> 1, from |-> 0, until |-> Forever, commitment |-> "on_demand",
     tier |-> "official_api", hourly |-> hourly]
Offers == {[Quote(1, "p1", 2) EXCEPT !.until = end] : end \in {1, 2, Forever}}
          \cup {[Quote(1, "P1", 3) EXCEPT !.observed = seen] : seen \in {1, 2, 5}}
          \cup {[Quote(1, "p1", 3) EXCEPT !.region = place] : place \in {"eu", "us"}}
          \cup {[Quote(1, "p1", 2) EXCEPT !.tier = tier] : tier \in {"manual", "reseller"}}
          \cup {[Quote(1, "p1", 1) EXCEPT !.commitment = "reserved"],
                [Quote(1, "p1", 1) EXCEPT !.zone = "z"], [Quote(1, "p1", 1) EXCEPT !.from = 1]}
PricingInputs ==
    {Given(<<At(Sample(1, "p1", metric), 0), At(Sample(2, "p1", metric), 2),
             Sample(3, "p2", other)>>,
           <<offer, [second EXCEPT !.id = 2], Quote(3, "p2", hourly)>>, {}) :
        metric \in {Latency(10), Rate(10)}, other \in {Latency(20), Rate(12)},
        offer \in Offers, second \in Offers, hourly \in {1, 2}}

(* Providers with evidence of low, medium and high confidence, and their prices. *)
Series(first, provider, length, value, drift) ==
    [i \in 1..length |->
        At(Sample(first + i, provider, Latency(value + i * drift)), <<0, 1, 3>>[i])]
ConfidenceInputs ==
    {Given(Series(0, "p1", a, 10, drift) \o Series(3, "p2", b, value, 0)
              \o Series(6, "p3", c, 12, 0),
           <<[Quote(1, "p1", 1) EXCEPT !.tier = tier], Quote(2, "p2", 1), Quote(3, "p3", 2)>>,
           {}) :
        a \in 1..3, b \in 1..3, c \in 0..3, value \in {10, 20}, drift \in {0, 3},
        tier \in {"manual", "reseller", "official_document"}}

(* Inputs that are refused, and the output files. *)
Clash == [Latency(10) EXCEPT !.unit = "s"]
Malformed ==
    {<<Measured(1, "success", <<Latency(1), Latency(2)>>)>>,
     <<Measured(1, "success", <<Latency(1)>>), Measured(1, "failed", <<>>)>>,
     <<Measured(1, "failed", <<>>)>>,
     <<Measured(1, "success", <<Latency(1)>>), Measured(2, "success", <<Rate(1)>>),
       Measured(3, "success", <<Clash>>)>>,
     <<[Measured(1, "success", <<Latency(1)>>) EXCEPT !.version = "v2"]>>}
RefusedInputs ==
    {Given(<<Sample(1, "p1", Latency(10)), [Basic(id, "p1", second) EXCEPT !.quality = quality]>>,
           <<Quote(1, "p1", 1), [Quote(number, "p1", 1) EXCEPT !.commitment = "reserved"]>>,
           wanted) :
        id \in {1, 2}, second \in Malformed \cup {<<Measured(1, "success", <<Clash>>)>>, Single},
        quality \in {"valid", "invalid"}, number \in {1, 2},
        wanted \in SUBSET {"output", "markdown"}}
    \cup {Given(<<>>, <<>>, {"output"})}

ManyInputs == PeerInputs \cup CohortInputs \cup PricingInputs \cup ConfidenceInputs
              \cup RefusedInputs

(* Two comparable providers whose samples spell the profile in two ways. *)
MixedCaseInputs ==
    {Given(<<[Basic(1, "p1", <<[Measured(1, "success", <<Latency(10)>>) EXCEPT !.profile = spelt]>>)
                 EXCEPT !.profile = spelt],
             Sample(2, "p2", Latency(value))>>, <<>>, wanted) :
        spelt \in {"web", "Web"}, value \in {10, 20}, wanted \in SUBSET {"output", "markdown"}}
=============================================================================
