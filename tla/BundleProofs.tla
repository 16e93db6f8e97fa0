---------------------------- MODULE BundleProofs -----------------------------
(***************************************************************************)
(* What build_bundle packs: every entry has a path of its own, evidence is   *)
(* redacted and complete, exceptions are listed, and verify_bundle accepts   *)
(* the result unless it exceeds a limit that the builder does not know.      *)
(* For any samples, evidence files and limits.                               *)
(***************************************************************************)
EXTENDS Bundles, Sums

(* Numbers of different elements differ. *)
LEMMA NumberUnique ==
    ASSUME NEW N \in SUBSET Int, IsFiniteSet(N), NEW a \in N, NEW b \in N,
           Number(a, N) = Number(b, N)
    PROVE  a = b
<1>1. ASSUME NEW x \in N, NEW y \in N, x < y, Number(x, N) = Number(y, N)
      PROVE  FALSE
  <2> DEFINE X == {k \in N : k <= x}
             Y == {k \in N : k <= y}
  <2>1. IsFiniteSet(Y)
    <3>1. Y \in SUBSET N
      OBVIOUS
    <3> HIDE DEF Y
    <3>. QED
      BY <3>1, FS_Subset
  <2>0. X \in SUBSET Y
    <3>1. ASSUME NEW k \in N, k <= x
          PROVE  k <= y
      <4>1. k \in Int /\ x \in Int /\ y \in Int
        OBVIOUS
      <4>. QED
        BY <1>1, <3>1, <4>1
    <3>. QED
      BY <3>1
  <2>2. Cardinality(Y) = Cardinality(X)
    BY <1>1 DEF Number
  <2>3. X = Y
    <3> HIDE DEF X, Y
    <3> QED
      BY <2>0, <2>1, <2>2, FS_Subset
  <2>4. y \in Y /\ y \notin X
    BY <1>1
  <2>. QED
    BY <2>3, <2>4
<1>. QED
  BY <1>1

-----------------------------------------------------------------------------
(* Redaction. *)

ProperItem(item) == /\ item = [at |-> item.at, leaf |-> item.leaf]
                    /\ item.at \in Seq(ToSet(item.at)) /\ item.at # <<>>
SecretAt(at) == \E i \in DOMAIN at : at[i] \in SensitiveKeys

(* Cut changes no path without a sensitive key, and ends any other with one. *)
LEMMA CutEnds ==
    ASSUME NEW at, at \in Seq(ToSet(at)), at # <<>>
    PROVE  /\ ~SecretAt(at) => Cut(at) = at /\ Last(Cut(at)) \notin SensitiveKeys
           /\ SecretAt(at) => Last(Cut(at)) \in SensitiveKeys
<1> DEFINE sensitive == {i \in DOMAIN at : at[i] \in SensitiveKeys}
<1>1. Len(at) \in Nat \ {0} /\ DOMAIN at = 1..Len(at)
  OBVIOUS
<1>2. CASE ~SecretAt(at)
  <2>1. sensitive = {}
    BY <1>2 DEF SecretAt
  <2>2. Cut(at) = at
    BY <2>1 DEF Cut
  <2>. QED
    BY <1>1, <1>2, <2>2 DEF Last, SecretAt
<1>3. CASE SecretAt(at)
  <2>1. sensitive # {} /\ sensitive \in SUBSET Nat
    BY <1>1, <1>3 DEF SecretAt
  <2> DEFINE m == CHOOSE i \in sensitive : \A j \in sensitive : i <= j
  <2>2. m \in sensitive
    <3> HIDE DEF sensitive
    <3> QED
      BY <2>1, LeastNatural
  <2>3. Cut(at) = SubSeq(at, 1, m)
    BY <2>1 DEF Cut
  <2> HIDE DEF m
  <2>4. m \in 1..Len(at) /\ at[m] \in SensitiveKeys
    BY <1>1, <2>2
  <2>5. Len(SubSeq(at, 1, m)) = m /\ SubSeq(at, 1, m)[m] = at[m]
    BY <1>1, <2>4
  <2>. QED
    BY <1>3, <2>3, <2>4, <2>5 DEF Last
<1>. QED
  BY <1>2, <1>3

LEMMA RedactedItem ==
    ASSUME NEW item, ProperItem(item)
    PROVE  /\ Redacted(item).leaf # "url_with_secret"
           /\ SecretAt(Redacted(item).at) => Redacted(item).leaf = "[REDACTED]"
           /\ ~SecretAt(item.at) /\ item.leaf # "url_with_secret" => Redacted(item) = item
<1>1. CASE SecretAt(item.at)
  <2>1. Redacted(item) = [at |-> Cut(item.at), leaf |-> "[REDACTED]"]
    BY <1>1, CutEnds DEF Redacted, ProperItem
  <2>. QED
    BY <1>1, <2>1
<1>2. CASE ~SecretAt(item.at)
  <2>1. Redacted(item) = [item EXCEPT !.leaf = SanitizeUrl(@)]
    BY <1>2, CutEnds DEF Redacted, ProperItem
  <2>2. Redacted(item) = [at |-> item.at, leaf |-> SanitizeUrl(item.leaf)]
    BY <2>1 DEF ProperItem
  <2>. QED
    BY <1>2, <2>2 DEF SanitizeUrl, ProperItem
<1>. QED
  BY <1>1, <1>2

(* Redaction takes away secrets and nothing else, and counts what it changed. *)
LEMMA RedactionSound ==
    ASSUME NEW json, IsFiniteSet(json), \A item \in json : ProperItem(item)
    PROVE  /\ IsFiniteSet(RedactJson(json).value)
           /\ \A item \in RedactJson(json).value :
                 /\ item.leaf # "url_with_secret"
                 /\ SecretAt(item.at) => item.leaf = "[REDACTED]"
           /\ \A item \in json : ~SecretAt(item.at) /\ item.leaf # "url_with_secret" =>
                 item \in RedactJson(json).value
           /\ RedactJson(json).count \in Nat
           /\ RedactJson(json).count = 0 => RedactJson(json).value = json
<1> DEFINE changed == {item \in json : Last(Cut(item.at)) \in SensitiveKeys \/ Redacted(item) # item}
           f == [item \in json |-> Redacted(item)]
           value == {f[item] : item \in json}
           counted == {f[item] : item \in changed}
<1>1. RedactJson(json).value = value
  BY DEF RedactJson
<1>2. RedactJson(json).count = Cardinality(counted)
  <2>1. counted = {Redacted(item) : item \in changed}
    OBVIOUS
  <2> HIDE DEF counted
  <2>. QED
    BY <2>1 DEF RedactJson
<1>3. changed \in SUBSET json
  OBVIOUS
<1>4. IsFiniteSet(value) /\ IsFiniteSet(counted)
  <2>1. IsFiniteSet(changed)
    BY <1>3, FS_Subset
  <2> HIDE DEF f, changed
  <2>. QED
    BY <2>1, ImageFinite
<1>5. \A item \in value : /\ item.leaf # "url_with_secret"
                          /\ SecretAt(item.at) => item.leaf = "[REDACTED]"
  BY RedactedItem
<1>6. \A item \in json : ~SecretAt(item.at) /\ item.leaf # "url_with_secret" => item \in value
  <2> SUFFICES ASSUME NEW item \in json, ~SecretAt(item.at), item.leaf # "url_with_secret"
               PROVE  item \in value
    OBVIOUS
  <2>1. Redacted(item) = item
    BY RedactedItem
  <2>. QED
    BY <2>1
<1>7. Cardinality(counted) \in Nat
  BY <1>4, FS_CardinalityType
<1>8. ASSUME Cardinality(counted) = 0
      PROVE  value = json
  <2>1. counted = {}
    <3> HIDE DEF counted
    <3> QED
      BY <1>4, <1>8, FS_EmptySet
  <2>2. changed = {}
    BY <2>1
  <2>3. \A item \in json : f[item] = item
    BY <2>2
  <2> HIDE DEF f
  <2>. QED
    BY <2>3
<1> HIDE DEF value, counted
<1>. QED
  BY <1>1, <1>2, <1>4, <1>5, <1>6, <1>7, <1>8

-----------------------------------------------------------------------------
(* Evidence files. *)

LEMMA ShortSequences ==
    ASSUME NEW X, NEW a \in X, NEW b \in X, NEW c \in X
    PROVE  <<>> \in Seq(X) /\ <<a>> \in Seq(X) /\ <<a, b>> \in Seq(X) /\ <<a, b, c>> \in Seq(X)
OBVIOUS

LEMMA PlaceFound ==
    ASSUME NEW ref, NEW root, NEW evidence, Found(ref, root, evidence) # {}
    PROVE  /\ Place(ref, root, evidence) \in DOMAIN evidence
           /\ Place(ref, root, evidence).base # "outside"
<1> DEFINE candidates == Candidates(ref, root)
           found == Found(ref, root, evidence)
           accepted(n) == Accepts(candidates[n], root, evidence)
           k == CHOOSE k \in DOMAIN candidates : accepted(k) /\ \A j \in 1..(k - 1) : ~accepted(j)
<1>1. PICK n \in Nat : DOMAIN candidates = 1..n
  <2> DEFINE l1 == Joined("cwd", ref)
             l2 == Joined("samples", ref)
             l3 == Location("samples", "raw", ref.name)
             l4 == Location("root", "", ref.name)
             l5 == Joined("root", ref)
             X == {ref, l1, l2, l3, l4, l5}
             one == RootCandidates(ref, root)
             two == IF ref.base # "relative" THEN <<ref>> ELSE <<l1, l2, l3>>
  <2>0. {ref, l1, l2, l3, l4, l5} \subseteq X
    OBVIOUS
  <2> HIDE DEF l1, l2, l3, l4, l5, X
  <2>1. one \in Seq(X)
    <3>1. one = <<>> \/ one = <<l5, l4>> \/ one = <<ref, l4>>
      BY DEF RootCandidates, l4, l5
    <3> HIDE DEF one
    <3>. QED
      BY <2>0, <3>1, ShortSequences
  <2>2. two \in Seq(X)
    BY <2>0, ShortSequences
  <2>3. candidates = one \o two
    BY DEF Candidates, l1, l2, l3
  <2> HIDE DEF one, two
  <2>4. candidates \in Seq(X)
    BY <2>1, <2>2, <2>3
  <2> HIDE DEF candidates
  <2>. QED
    BY <2>4
<1>2. found \in SUBSET Nat /\ found # {}
  BY <1>1 DEF Found
<1>3. PICK m \in found : \A j \in found : m <= j
  <2> HIDE DEF found
  <2> QED
    BY <1>2, LeastNatural
<1>4. m \in DOMAIN candidates /\ accepted(m) /\ \A j \in 1..(m - 1) : ~accepted(j)
  <2>1. \A j : j \in found <=> j \in 1..n /\ accepted(j)
    BY <1>1 DEF Found
  <2> HIDE DEF found, accepted
  <2>2. ASSUME NEW j \in 1..(m - 1)
        PROVE  ~accepted(j)
    <3>1. m \in 1..n
      BY <1>3, <2>1
    <3>2. j \in 1..n /\ ~(m <= j)
      BY <1>1, <3>1
    <3>. QED
      BY <1>3, <2>1, <3>2
  <2>. QED
    BY <1>1, <1>3, <2>1, <2>2
<1>5. accepted(k)
  <2> HIDE DEF accepted
  <2> QED
    BY <1>4
<1>6. Place(ref, root, evidence) = candidates[k]
  BY DEF Place
<1> HIDE DEF k
<1>. QED
  BY <1>5, <1>6 DEF Accepts, Allowed

-----------------------------------------------------------------------------
(* The contents of an archive, by samples and their evidence. *)

Ids(S) == {s.id : s \in S}
Rank(s, S) == Number(s.id, Ids(S))
Cited(s, root, ev) == {i \in Firsts(s.raw) : Found(s.raw[i], root, ev) # {}}
Hidden(s, i, root, ev) == RedactJson(ev[Place(s.raw[i], root, ev)].json)
SamplePath(s, S) == <<"samples", Rank(s, S)>>
RawPath(s, S, i, root, ev) ==
    <<"raw", Rank(s, S), Number(i, Firsts(s.raw)), Place(s.raw[i], root, ev).name>>

SampleEntry(s, S) == Entry(SamplePath(s, S), SampleContent(s))
RawEntry(s, S, i, root, ev) ==
    Entry(RawPath(s, S, i, root, ev), EvidenceContent(Hidden(s, i, root, ev).value))
SampleFile(s, S) == FileEntry(SamplePath(s, S), SampleContent(s), 0)
RawFile(s, S, i, root, ev) ==
    FileEntry(RawPath(s, S, i, root, ev), EvidenceContent(Hidden(s, i, root, ev).value),
              Hidden(s, i, root, ev).count)
RawFiles(s, S, root, ev) == {RawFile(s, S, i, root, ev) : i \in Cited(s, root, ev)}
Line(s, S, root, ev) ==
    [id |-> s.id, profile |-> s.profile, path |-> SamplePath(s, S),
     raw |-> {RawPath(s, S, i, root, ev) : i \in Cited(s, root, ev)}]
PartOf(s, S, root, ev) ==
    Part(s, Rank(s, S), Packed(s, Rank(s, S), root, ev), root, ev)

(* Samples have different IDs, and everything is finite. *)
ProperSample(s) == s.id \in Int /\ s # NoSample /\ s.raw \in Seq(ToSet(s.raw))
Proper(S, ev) ==
    /\ IsFiniteSet(S) /\ \A s \in S : ProperSample(s)
    /\ \A s, t \in S : s.id = t.id => s = t
    /\ \A place \in DOMAIN ev : /\ IsFiniteSet(ev[place].json)
                                /\ \A item \in ev[place].json : ProperItem(item)

Built(b, S, policy, root, ev) == \E created : b = Archive(S, policy, root, ev, created)

LEMMA PartFields ==
    ASSUME NEW s, NEW S, NEW root, NEW ev
    PROVE  PartOf(s, S, root, ev) =
             [entries |-> {SampleEntry(s, S)}
                          \cup {RawEntry(s, S, i, root, ev) : i \in Cited(s, root, ev)},
              files |-> {SampleFile(s, S)} \cup RawFiles(s, S, root, ev),
              warnings |-> Warnings(s, RawFiles(s, S, root, ev), root, ev),
              sample |-> Line(s, S, root, ev)]
<1> DEFINE packed == Packed(s, Rank(s, S), root, ev)
           C == Cited(s, root, ev)
<1>1. packed = {[item |-> RawEntry(s, S, i, root, ev), file |-> RawFile(s, S, i, root, ev)] : i \in C}
  BY DEF Packed, RawEntry, RawFile, RawPath, Hidden, Cited
<1> HIDE DEF packed, C
<1>2. /\ {p.item : p \in packed} = {RawEntry(s, S, i, root, ev) : i \in C}
      /\ {p.file : p \in packed} = {RawFile(s, S, i, root, ev) : i \in C}
  <2>1. \A p \in packed : \E i \in C : /\ p.item = RawEntry(s, S, i, root, ev)
                                       /\ p.file = RawFile(s, S, i, root, ev)
    BY <1>1
  <2>2. \A i \in C : \E p \in packed : /\ p.item = RawEntry(s, S, i, root, ev)
                                       /\ p.file = RawFile(s, S, i, root, ev)
    <3> SUFFICES ASSUME NEW i \in C
                 PROVE  \E p \in packed : /\ p.item = RawEntry(s, S, i, root, ev)
                                          /\ p.file = RawFile(s, S, i, root, ev)
      OBVIOUS
    <3> DEFINE p == [item |-> RawEntry(s, S, i, root, ev), file |-> RawFile(s, S, i, root, ev)]
    <3>1. p \in packed
      BY <1>1
    <3>2. p.item = RawEntry(s, S, i, root, ev) /\ p.file = RawFile(s, S, i, root, ev)
      OBVIOUS
    <3> HIDE DEF p
    <3>. QED
      BY <3>1, <3>2
  <2>3. {p.item : p \in packed} = {RawEntry(s, S, i, root, ev) : i \in C}
    BY <2>1, <2>2
  <2>4. {p.file : p \in packed} = {RawFile(s, S, i, root, ev) : i \in C}
    BY <2>1, <2>2
  <2>. QED
    BY <2>3, <2>4
<1>3. {f.path : f \in RawFiles(s, S, root, ev)} = {RawPath(s, S, i, root, ev) : i \in C}
  <2>1. \A i \in C : RawFile(s, S, i, root, ev).path = RawPath(s, S, i, root, ev)
    BY DEF RawFile, FileEntry
  <2>2. RawFiles(s, S, root, ev) = {RawFile(s, S, i, root, ev) : i \in C}
    BY DEF RawFiles, C
  <2>. QED
    BY <2>1, <2>2
<1>4. {p.file : p \in packed} = RawFiles(s, S, root, ev)
  BY <1>2 DEF RawFiles, C
<1>5. PartOf(s, S, root, ev) = Part(s, Rank(s, S), packed, root, ev)
  BY DEF PartOf, packed
<1>. QED
  BY <1>2, <1>3, <1>4, <1>5 DEF Part, SampleEntry, SampleFile, SamplePath, Line, C

EntriesOf(S, root, ev) == UNION {PartOf(s, S, root, ev).entries : s \in S}
FilesOf(S, root, ev) == UNION {PartOf(s, S, root, ev).files : s \in S}
WarningsOf(S, root, ev) == UNION {PartOf(s, S, root, ev).warnings : s \in S}
Lines(S, root, ev) == {Line(s, S, root, ev) : s \in S}
CountOf(S, root, ev) == Cardinality({PartOf(s, S, root, ev) : s \in S})

LEMMA ArchiveFields ==
    ASSUME NEW S, NEW policy, NEW root, NEW ev, NEW b,
           Built(b, S, policy, root, ev)
    PROVE  /\ b.entries = EntriesOf(S, root, ev)
           /\ b.manifest.files = FilesOf(S, root, ev)
           /\ b.manifest.warnings = WarningsOf(S, root, ev)
           /\ b.manifest.samples = Lines(S, root, ev)
           /\ b.manifest.count = CountOf(S, root, ev)
           /\ b.manifest.id = BundleId(b.manifest.files)
           /\ b.manifest.policy = policy
<1> DEFINE parts == {PartOf(s, S, root, ev) : s \in S}
<1>1. PICK created : b = Assembled(parts, policy, created)
  BY DEF Built, Archive, PartOf, Rank, Ids
<1>2. \A s \in S : PartOf(s, S, root, ev).sample = Line(s, S, root, ev)
  BY PartFields
<1>3. {p.sample : p \in parts} = {Line(s, S, root, ev) : s \in S}
  BY <1>2
<1>5. {p.entries : p \in parts} = {PartOf(s, S, root, ev).entries : s \in S}
  OBVIOUS
<1>6. {p.files : p \in parts} = {PartOf(s, S, root, ev).files : s \in S}
  OBVIOUS
<1>7. {p.warnings : p \in parts} = {PartOf(s, S, root, ev).warnings : s \in S}
  OBVIOUS
<1>8. parts = {PartOf(s, S, root, ev) : s \in S}
  OBVIOUS
<1> HIDE DEF parts
<1>4. /\ b.entries = UNION {p.entries : p \in parts}
      /\ b.manifest.files = UNION {p.files : p \in parts}
      /\ b.manifest.warnings = UNION {p.warnings : p \in parts}
      /\ b.manifest.samples = {p.sample : p \in parts}
      /\ b.manifest.count = Cardinality(parts)
      /\ b.manifest.id = BundleId(b.manifest.files)
      /\ b.manifest.policy = policy
  <2> DEFINE files == UNION {p.files : p \in parts}
             samples == {p.sample : p \in parts}
             warnings == UNION {p.warnings : p \in parts}
             entries == UNION {p.entries : p \in parts}
             count == Cardinality(parts)
  <2>1. b = [entries |-> entries,
             manifest |->
               [id |-> BundleId(files), created |-> created, files |-> files, policy |-> policy,
                count |-> count, samples |-> samples, warnings |-> warnings]]
    BY <1>1 DEF Assembled
  <2> HIDE DEF files, samples, warnings, entries, count
  <2>2. /\ b.entries = entries /\ b.manifest.files = files
        /\ b.manifest.warnings = warnings /\ b.manifest.samples = samples
        /\ b.manifest.count = count /\ b.manifest.id = BundleId(files)
        /\ b.manifest.policy = policy
    BY <2>1
  <2>. QED
    BY <2>2 DEF files, samples, warnings, entries, count
<1>. QED
  BY <1>3, <1>4, <1>5, <1>6, <1>7, <1>8
     DEF EntriesOf, FilesOf, WarningsOf, Lines, CountOf

(* An entry and a file of the manifest belong to a sample or to its evidence. *)
LEMMA ArchiveMembers ==
    ASSUME NEW S, NEW policy, NEW root, NEW ev, NEW b,
           Built(b, S, policy, root, ev)
    PROVE  /\ \A e : e \in b.entries <=>
                \E s \in S : \/ e = SampleEntry(s, S)
                             \/ \E i \in Cited(s, root, ev) : e = RawEntry(s, S, i, root, ev)
           /\ \A f : f \in b.manifest.files <=>
                \E s \in S : \/ f = SampleFile(s, S)
                             \/ \E i \in Cited(s, root, ev) : f = RawFile(s, S, i, root, ev)
<1>1. b.entries = EntriesOf(S, root, ev) /\ b.manifest.files = FilesOf(S, root, ev)
  BY ArchiveFields
<1>2. \A s \in S :
        /\ PartOf(s, S, root, ev).entries =
              {SampleEntry(s, S)} \cup {RawEntry(s, S, i, root, ev) : i \in Cited(s, root, ev)}
        /\ PartOf(s, S, root, ev).files =
              {SampleFile(s, S)} \cup {RawFile(s, S, i, root, ev) : i \in Cited(s, root, ev)}
  BY PartFields DEF RawFiles
<1>3. \A e : e \in b.entries <=>
                \E s \in S : \/ e = SampleEntry(s, S)
                             \/ \E i \in Cited(s, root, ev) : e = RawEntry(s, S, i, root, ev)
  BY <1>1, <1>2 DEF EntriesOf
<1>4. \A f : f \in b.manifest.files <=>
                \E s \in S : \/ f = SampleFile(s, S)
                             \/ \E i \in Cited(s, root, ev) : f = RawFile(s, S, i, root, ev)
  BY <1>1, <1>2 DEF FilesOf
<1>. QED
  BY <1>3, <1>4

(* No two samples have the same rank, no two references of one the same number. *)
LEMMA NumbersDiffer ==
    ASSUME NEW S, NEW ev, Proper(S, ev), NEW root
    PROVE  /\ \A s, t \in S : Rank(s, S) = Rank(t, S) => s = t
           /\ \A s \in S : \A i, j \in Firsts(s.raw) :
                 Number(i, Firsts(s.raw)) = Number(j, Firsts(s.raw)) => i = j
           /\ \A s \in S : IsFiniteSet(Firsts(s.raw)) /\ IsFiniteSet(Cited(s, root, ev))
<1>1. Ids(S) \in SUBSET Int /\ \A s \in S : s.id \in Ids(S)
  BY DEF Proper, ProperSample, Ids
<1>2. IsFiniteSet(Ids(S))
  <2> DEFINE f == [s \in S |-> s.id]
  <2>1. Ids(S) = {f[s] : s \in S}
    BY DEF Ids
  <2> HIDE DEF f
  <2>. QED
    BY <2>1, ImageFinite DEF Proper
<1>3. \A s, t \in S : Rank(s, S) = Rank(t, S) => s = t
  <2> SUFFICES ASSUME NEW s \in S, NEW t \in S, Rank(s, S) = Rank(t, S)
               PROVE  s = t
    OBVIOUS
  <2> DEFINE N == Ids(S)
             p == s.id
             q == t.id
  <2>1. Number(p, N) = Number(q, N) /\ p \in N /\ q \in N /\ IsFiniteSet(N) /\ N \in SUBSET Int
    BY <1>1, <1>2 DEF Rank
  <2>2. p = q
    <3> HIDE DEF N, p, q
    <3> QED
      BY <2>1, NumberUnique
  <2>. QED
    BY <2>2 DEF Proper
<1>4. ASSUME NEW s \in S
      PROVE  /\ IsFiniteSet(Firsts(s.raw)) /\ IsFiniteSet(Cited(s, root, ev))
             /\ \A i, j \in Firsts(s.raw) :
                  Number(i, Firsts(s.raw)) = Number(j, Firsts(s.raw)) => i = j
  <2> DEFINE N == Firsts(s.raw)
             n == Len(s.raw)
  <2>1. s.raw \in Seq(ToSet(s.raw))
    BY DEF Proper, ProperSample
  <2>2. n \in Nat /\ DOMAIN s.raw = 1..n
    BY <2>1
  <2>3. N \in SUBSET (1..n)
    BY <2>2 DEF Firsts
  <2>4. IsFiniteSet(1..n) /\ 1..n \subseteq Int
    <3> HIDE DEF n
    <3> QED
      BY <2>2, FS_Interval
  <2> HIDE DEF N, n
  <2>5. IsFiniteSet(N) /\ N \in SUBSET Int
    BY <2>3, <2>4, FS_Subset
  <2>6. Cited(s, root, ev) \in SUBSET N
    BY DEF Cited, N
  <2>7. IsFiniteSet(Cited(s, root, ev))
    BY <2>5, <2>6, FS_Subset
  <2>8. \A i, j \in N : Number(i, N) = Number(j, N) => i = j
    BY <2>5, NumberUnique
  <2>. QED
    BY <2>5, <2>7, <2>8 DEF N
<1>. QED
  BY <1>3, <1>4

(* Paths of the archive. *)
LEMMA PathsApart ==
    ASSUME NEW S, NEW root, NEW ev, Proper(S, ev)
    PROVE  /\ \A s, t \in S : SamplePath(s, S) = SamplePath(t, S) => s = t
           /\ \A s, t \in S : \A i : SamplePath(s, S) # RawPath(t, S, i, root, ev)
           /\ \A s, t \in S : \A i \in Cited(s, root, ev) : \A j \in Cited(t, root, ev) :
                 RawPath(s, S, i, root, ev) = RawPath(t, S, j, root, ev) => s = t /\ i = j
<1>1. ASSUME NEW s \in S, NEW t \in S, SamplePath(s, S) = SamplePath(t, S)
      PROVE  s = t
  <2>1. Rank(s, S) = Rank(t, S)
    BY <1>1 DEF SamplePath
  <2>. QED
    BY <2>1, NumbersDiffer
<1>2. ASSUME NEW s \in S, NEW t \in S, NEW i
      PROVE  SamplePath(s, S) # RawPath(t, S, i, root, ev)
  <2>1. SamplePath(s, S)[1] = "samples" /\ RawPath(t, S, i, root, ev)[1] = "raw"
    BY DEF SamplePath, RawPath
  <2>. QED
    BY <2>1
<1>3. ASSUME NEW s \in S, NEW t \in S, NEW i \in Cited(s, root, ev), NEW j \in Cited(t, root, ev),
             RawPath(s, S, i, root, ev) = RawPath(t, S, j, root, ev)
      PROVE  s = t /\ i = j
  <2>1. Rank(s, S) = Rank(t, S) /\ Number(i, Firsts(s.raw)) = Number(j, Firsts(t.raw))
    BY <1>3 DEF RawPath
  <2>2. s = t
    BY <2>1, NumbersDiffer
  <2>3. i \in Firsts(s.raw) /\ j \in Firsts(s.raw)
    BY <2>2 DEF Cited
  <2>. QED
    BY <2>1, <2>2, <2>3, NumbersDiffer
<1>. QED
  BY <1>1, <1>2, <1>3

LEMMA SampleFields ==
    ASSUME NEW s, NEW S
    PROVE  /\ SampleEntry(s, S).path = SamplePath(s, S)
           /\ SampleEntry(s, S).content = SampleContent(s)
           /\ SampleFile(s, S).path = SamplePath(s, S)
           /\ SampleFile(s, S).sha = SampleContent(s)
BY DEF SampleEntry, SampleFile, Entry, FileEntry

LEMMA RawFields ==
    ASSUME NEW s, NEW S, NEW i, NEW root, NEW ev
    PROVE  /\ RawEntry(s, S, i, root, ev).path = RawPath(s, S, i, root, ev)
           /\ RawEntry(s, S, i, root, ev).content = EvidenceContent(Hidden(s, i, root, ev).value)
           /\ RawFile(s, S, i, root, ev).path = RawPath(s, S, i, root, ev)
           /\ RawFile(s, S, i, root, ev).sha = EvidenceContent(Hidden(s, i, root, ev).value)
           /\ RawFile(s, S, i, root, ev).redactions = Hidden(s, i, root, ev).count
BY DEF RawEntry, RawFile, Entry, FileEntry

LEMMA PathsUnique ==
    ASSUME NEW S, NEW policy, NEW root, NEW ev, NEW b,
           Built(b, S, policy, root, ev), Proper(S, ev)
    PROVE  /\ \A d, e \in b.entries : d.path = e.path => d = e
           /\ \A f, g \in b.manifest.files : f.path = g.path => f = g
<1> DEFINE C(s) == Cited(s, root, ev)
<1>a. /\ \A s, t \in S : SamplePath(s, S) = SamplePath(t, S) => s = t
      /\ \A s, t \in S : \A i : SamplePath(s, S) # RawPath(t, S, i, root, ev)
      /\ \A s, t \in S : \A i \in C(s) : \A j \in C(t) :
            RawPath(s, S, i, root, ev) = RawPath(t, S, j, root, ev) => s = t /\ i = j
  BY PathsApart
<1>b. /\ \A s \in S : /\ SampleEntry(s, S).path = SamplePath(s, S)
                      /\ SampleFile(s, S).path = SamplePath(s, S)
      /\ \A s \in S : \A i \in C(s) :
            /\ RawEntry(s, S, i, root, ev).path = RawPath(s, S, i, root, ev)
            /\ RawFile(s, S, i, root, ev).path = RawPath(s, S, i, root, ev)
  BY SampleFields, RawFields
<1>1. ASSUME NEW d \in b.entries, NEW e \in b.entries, d.path = e.path
      PROVE  d = e
  <2>1. PICK s \in S : d = SampleEntry(s, S) \/ \E i \in C(s) : d = RawEntry(s, S, i, root, ev)
    BY ArchiveMembers
  <2>2. PICK t \in S : e = SampleEntry(t, S) \/ \E j \in C(t) : e = RawEntry(t, S, j, root, ev)
    BY ArchiveMembers
  <2>3. CASE d = SampleEntry(s, S)
    <3>1. d.path = SamplePath(s, S)
      BY <2>3, <1>b
    <3>2. ASSUME NEW j \in C(t), e = RawEntry(t, S, j, root, ev)
          PROVE  FALSE
      <4>1. e.path = RawPath(t, S, j, root, ev)
        BY <1>b, <3>2
      <4>2. SamplePath(s, S) # RawPath(t, S, j, root, ev)
        BY <1>a
      <4>. QED
        BY <1>1, <3>1, <4>1, <4>2
    <3>. QED
      BY <1>1, <2>2, <2>3, <3>1, <3>2, <1>a, <1>b
  <2>4. ASSUME NEW i \in C(s), d = RawEntry(s, S, i, root, ev)
        PROVE  d = e
    <3>1. d.path = RawPath(s, S, i, root, ev)
      BY <2>4, <1>b
    <3>2. ASSUME e = SampleEntry(t, S)
          PROVE  FALSE
      <4>1. e.path = SamplePath(t, S)
        BY <1>b, <3>2
      <4>2. SamplePath(t, S) # RawPath(s, S, i, root, ev)
        BY <1>a
      <4>. QED
        BY <1>1, <3>1, <4>1, <4>2
    <3>3. PICK j \in C(t) : e = RawEntry(t, S, j, root, ev)
      BY <2>2, <3>2
    <3>4. RawPath(s, S, i, root, ev) = RawPath(t, S, j, root, ev)
      BY <1>1, <3>1, <3>3, <1>b
    <3>. QED
      BY <2>4, <3>3, <3>4, <1>a
  <2>. QED
    BY <2>1, <2>3, <2>4
<1>2. ASSUME NEW d \in b.manifest.files, NEW e \in b.manifest.files, d.path = e.path
      PROVE  d = e
  <2>1. PICK s \in S : d = SampleFile(s, S) \/ \E i \in C(s) : d = RawFile(s, S, i, root, ev)
    BY ArchiveMembers
  <2>2. PICK t \in S : e = SampleFile(t, S) \/ \E j \in C(t) : e = RawFile(t, S, j, root, ev)
    BY ArchiveMembers
  <2>3. CASE d = SampleFile(s, S)
    <3>1. d.path = SamplePath(s, S)
      BY <2>3, <1>b
    <3>2. ASSUME NEW j \in C(t), e = RawFile(t, S, j, root, ev)
          PROVE  FALSE
      <4>1. e.path = RawPath(t, S, j, root, ev)
        BY <1>b, <3>2
      <4>2. SamplePath(s, S) # RawPath(t, S, j, root, ev)
        BY <1>a
      <4>. QED
        BY <1>2, <3>1, <4>1, <4>2
    <3>. QED
      BY <1>2, <2>2, <2>3, <3>1, <3>2, <1>a, <1>b
  <2>4. ASSUME NEW i \in C(s), d = RawFile(s, S, i, root, ev)
        PROVE  d = e
    <3>1. d.path = RawPath(s, S, i, root, ev)
      BY <2>4, <1>b
    <3>2. ASSUME e = SampleFile(t, S)
          PROVE  FALSE
      <4>1. e.path = SamplePath(t, S)
        BY <1>b, <3>2
      <4>2. SamplePath(t, S) # RawPath(s, S, i, root, ev)
        BY <1>a
      <4>. QED
        BY <1>2, <3>1, <4>1, <4>2
    <3>3. PICK j \in C(t) : e = RawFile(t, S, j, root, ev)
      BY <2>2, <3>2
    <3>4. RawPath(s, S, i, root, ev) = RawPath(t, S, j, root, ev)
      BY <1>2, <3>1, <3>3, <1>b
    <3>. QED
      BY <2>4, <3>3, <3>4, <1>a
  <2>. QED
    BY <2>1, <2>3, <2>4
<1>. QED
  BY <1>1, <1>2

LEMMA ContentFound ==
    ASSUME NEW b, \A d, e \in b.entries : d.path = e.path => d = e, NEW e \in b.entries
    PROVE  ContentAt(b, e.path) = e.content
BY DEF ContentAt

LEMMA PathsCounted ==
    ASSUME NEW items, IsFiniteSet(items), \A d, e \in items : d.path = e.path => d = e
    PROVE  NoDuplicates(items)
<1> DEFINE f == [e \in items |-> e.path]
<1>1. Paths(items) = {f[e] : e \in items}
  BY DEF Paths
<1>2. \A d, e \in items : f[d] = f[e] => d = e
  OBVIOUS
<1> HIDE DEF f
<1>. QED
  BY <1>1, <1>2, ImageCardinality DEF NoDuplicates

-----------------------------------------------------------------------------
(* Sizes. *)

LEMMA HiddenFinite ==
    ASSUME NEW S, NEW root, NEW ev, Proper(S, ev), NEW s \in S, NEW i \in Cited(s, root, ev)
    PROVE  IsFiniteSet(Hidden(s, i, root, ev).value)
<1>1. Place(s.raw[i], root, ev) \in DOMAIN ev
  BY PlaceFound DEF Cited
<1>. QED
  BY <1>1, RedactionSound DEF Hidden, Proper

LEMMA PartsFinite ==
    ASSUME NEW S, NEW root, NEW ev, Proper(S, ev), NEW s \in S
    PROVE  /\ IsFiniteSet(PartOf(s, S, root, ev).entries)
           /\ IsFiniteSet(PartOf(s, S, root, ev).files)
           /\ IsFiniteSet(PartOf(s, S, root, ev).warnings)
<1> DEFINE C == Cited(s, root, ev)
           f == [i \in C |-> RawEntry(s, S, i, root, ev)]
           g == [i \in C |-> RawFile(s, S, i, root, ev)]
           entries == {f[i] : i \in C}
           files == {g[i] : i \in C}
<1>1. IsFiniteSet(C)
  BY NumbersDiffer
<1>2. /\ PartOf(s, S, root, ev).entries = {SampleEntry(s, S)} \cup entries
      /\ PartOf(s, S, root, ev).files = {SampleFile(s, S)} \cup files
      /\ PartOf(s, S, root, ev).warnings = Warnings(s, files, root, ev)
  <2>1. entries = {RawEntry(s, S, i, root, ev) : i \in C} /\ files = RawFiles(s, S, root, ev)
    BY DEF RawFiles
  <2> HIDE DEF entries, files
  <2>. QED
    BY <2>1, PartFields
<1>3. IsFiniteSet(entries) /\ IsFiniteSet(files)
  <2> HIDE DEF C, f, g
  <2> QED
    BY <1>1, ImageFinite
<1>4. /\ IsFiniteSet({SampleEntry(s, S)} \cup entries)
      /\ IsFiniteSet({SampleFile(s, S)} \cup files)
  <2> HIDE DEF entries, files
  <2> QED
    BY <1>3, FS_Singleton, FS_Union
<1> HIDE DEF entries, files
<1>5. IsFiniteSet(Warnings(s, files, root, ev))
  <2> DEFINE bad == {t \in {s} : ~t.valid}
             h1 == [t \in bad |-> <<"invalid_sample_included", t.id>>]
             w1 == {h1[t] : t \in bad}
             gone == {ref \in ToSet(s.raw) : Found(ref, root, ev) = {}}
             h2 == [ref \in gone |-> <<"missing_raw_evidence", s.id, ref.name>>]
             w2 == {h2[ref] : ref \in gone}
             redacted == {p \in files : p.redactions > 0}
             h3 == [p \in redacted |-> <<"raw_evidence_redacted", s.id, p.path[3], p.redactions>>]
             w3 == {h3[p] : p \in redacted}
  <2>1. Warnings(s, files, root, ev) = w1 \cup w2 \cup w3
    BY DEF Warnings
  <2>2. IsFiniteSet(bad)
    <3>1. bad \in SUBSET {s}
      OBVIOUS
    <3> HIDE DEF bad
    <3>. QED
      BY <3>1, FS_Singleton, FS_Subset
  <2>3. IsFiniteSet(gone)
    <3> DEFINE raw == s.raw
               n == Len(raw)
               D == 1..n
               all == {raw[k] : k \in D}
    <3>1. raw \in Seq(ToSet(raw))
      BY DEF Proper, ProperSample
    <3>2. n \in Nat /\ DOMAIN raw = 1..n
      <4> HIDE DEF raw
      <4> QED
        BY <3>1
    <3>3. IsFiniteSet(D)
      <4> HIDE DEF n
      <4> QED
        BY <3>2, FS_Interval
    <3>4. ToSet(raw) = all
      BY <3>2 DEF ToSet
    <3>5. gone \in SUBSET all
      BY <3>4
    <3>6. IsFiniteSet(all)
      <4> HIDE DEF raw, D
      <4> QED
        BY <3>3, ImageFinite
    <3> HIDE DEF all, gone
    <3>. QED
      BY <3>5, <3>6, FS_Subset
  <2>4. IsFiniteSet(redacted)
    <3>1. redacted \in SUBSET files
      OBVIOUS
    <3> HIDE DEF redacted
    <3>. QED
      BY <1>3, <3>1, FS_Subset
  <2>5. IsFiniteSet(w1) /\ IsFiniteSet(w2) /\ IsFiniteSet(w3)
    <3> HIDE DEF bad, gone, redacted, h1, h2, h3
    <3> QED
      BY <2>2, <2>3, <2>4, ImageFinite
  <2> HIDE DEF w1, w2, w3
  <2>. QED
    BY <2>1, <2>5, FS_Union
<1>. QED
  BY <1>2, <1>4, <1>5

LEMMA ArchiveFinite ==
    ASSUME NEW S, NEW policy, NEW root, NEW ev, NEW b,
           Built(b, S, policy, root, ev), Proper(S, ev)
    PROVE  /\ IsFiniteSet(b.entries) /\ IsFiniteSet(b.manifest.files)
           /\ IsFiniteSet(b.manifest.samples) /\ IsFiniteSet(b.manifest.warnings)
           /\ ManifestSize(b.manifest) \in Nat /\ TotalSize(b.entries) \in Nat
<1> DEFINE e == [s \in S |-> PartOf(s, S, root, ev).entries]
           f == [s \in S |-> PartOf(s, S, root, ev).files]
           w == [s \in S |-> PartOf(s, S, root, ev).warnings]
           l == [s \in S |-> Line(s, S, root, ev)]
<1>1. IsFiniteSet(S)
  BY DEF Proper
<1>2. \A s \in S : IsFiniteSet(e[s]) /\ IsFiniteSet(f[s]) /\ IsFiniteSet(w[s])
  BY PartsFinite
<1>3. /\ b.entries = UNION {e[s] : s \in S}
      /\ b.manifest.files = UNION {f[s] : s \in S}
      /\ b.manifest.warnings = UNION {w[s] : s \in S}
      /\ b.manifest.samples = {l[s] : s \in S}
  BY ArchiveFields DEF EntriesOf, FilesOf, WarningsOf, Lines
<1> HIDE DEF e, f, w, l
<1>4. /\ IsFiniteSet(b.entries) /\ IsFiniteSet(b.manifest.files)
      /\ IsFiniteSet(b.manifest.samples) /\ IsFiniteSet(b.manifest.warnings)
  <2>1. IsFiniteSet(UNION {e[s] : s \in S})
    BY <1>1, <1>2, FiniteUnion
  <2>2. IsFiniteSet(UNION {f[s] : s \in S})
    BY <1>1, <1>2, FiniteUnion
  <2>3. IsFiniteSet(UNION {w[s] : s \in S})
    BY <1>1, <1>2, FiniteUnion
  <2>4. IsFiniteSet({l[s] : s \in S})
    BY <1>1, ImageFinite
  <2>. QED
    BY <1>3, <2>1, <2>2, <2>3, <2>4
<1>5. ManifestSize(b.manifest) \in Nat
  <2>1. /\ Cardinality(b.manifest.files) \in Nat /\ Cardinality(b.manifest.samples) \in Nat
        /\ Cardinality(b.manifest.warnings) \in Nat
    BY <1>4, FS_CardinalityType
  <2>. QED
    BY <2>1 DEF ManifestSize
<1>6. TotalSize(b.entries) \in Nat
  <2> DEFINE g == [d \in b.entries |-> {d} \X d.content.json]
             leaves == UNION {g[d] : d \in b.entries}
  <2>1. ASSUME NEW d \in b.entries
        PROVE  IsFiniteSet(d.content.json)
    <3>1. PICK s \in S : d = SampleEntry(s, S)
                         \/ \E i \in Cited(s, root, ev) : d = RawEntry(s, S, i, root, ev)
      BY ArchiveMembers
    <3>2. CASE d = SampleEntry(s, S)
      <4>0. d.content = SampleContent(s)
        BY <3>2, SampleFields
      <4>1. d.content.json = {}
        BY <4>0 DEF SampleContent
      <4>. QED
        BY <4>1, FS_EmptySet
    <3>3. ASSUME NEW i \in Cited(s, root, ev), d = RawEntry(s, S, i, root, ev)
          PROVE  IsFiniteSet(d.content.json)
      <4>1. d.content = EvidenceContent(Hidden(s, i, root, ev).value)
        BY <3>3, RawFields
      <4>2. d.content.json = Hidden(s, i, root, ev).value
        BY <4>1 DEF EvidenceContent
      <4>. QED
        BY <4>2, HiddenFinite
    <3>. QED
      BY <3>1, <3>2, <3>3
  <2>2. \A d \in b.entries : IsFiniteSet(g[d])
    <3> SUFFICES ASSUME NEW d \in b.entries PROVE IsFiniteSet(g[d])
      OBVIOUS
    <3> DEFINE X == {d}
               Y == d.content.json
    <3>1. IsFiniteSet(X) /\ IsFiniteSet(Y) /\ g[d] = X \X Y
      BY <2>1, FS_Singleton
    <3> HIDE DEF X, Y, g
    <3>. QED
      BY <3>1, FS_Product
  <2>3. TotalSize(b.entries) = Cardinality(b.entries) + Cardinality(leaves)
    <3>1. leaves = UNION {{d} \X d.content.json : d \in b.entries}
      OBVIOUS
    <3> HIDE DEF leaves
    <3>. QED
      BY <3>1 DEF TotalSize
  <2>4. IsFiniteSet(leaves)
    <3> HIDE DEF g
    <3> QED
      BY <1>4, <2>2, FiniteUnion
  <2> HIDE DEF leaves
  <2>5. Cardinality(leaves) \in Nat /\ Cardinality(b.entries) \in Nat
    BY <1>4, <2>4, FS_CardinalityType
  <2>. QED
    BY <2>3, <2>5
<1>. QED
  BY <1>4, <1>5, <1>6

(* The samples of the manifest are those of the archive, counted once each. *)
LEMMA SamplesCounted ==
    ASSUME NEW S, NEW policy, NEW root, NEW ev, NEW b,
           Built(b, S, policy, root, ev), Proper(S, ev)
    PROVE  /\ b.manifest.count = Cardinality(S)
           /\ Cardinality(b.manifest.samples) = Cardinality(S)
           /\ Cardinality(Ids(b.manifest.samples)) = Cardinality(S)
<1> DEFINE p == [s \in S |-> PartOf(s, S, root, ev)]
           l == [s \in S |-> Line(s, S, root, ev)]
           k == [s \in S |-> s.id]
<1>1. \A s \in S : p[s].sample = l[s] /\ l[s].id = s.id /\ k[s] = s.id
  BY PartFields DEF Line
<1>2. /\ b.manifest.count = Cardinality({p[s] : s \in S})
      /\ b.manifest.samples = {l[s] : s \in S}
  BY ArchiveFields DEF CountOf, Lines
<1> HIDE DEF p, l, k
<1>3. Ids(b.manifest.samples) = {k[s] : s \in S}
  BY <1>1, <1>2 DEF Ids
<1>4. /\ \A s, t \in S : p[s] = p[t] => s = t
      /\ \A s, t \in S : l[s] = l[t] => s = t
      /\ \A s, t \in S : k[s] = k[t] => s = t
  BY <1>1 DEF Proper
<1>5. IsFiniteSet(S)
  BY DEF Proper
<1>6. Cardinality({p[s] : s \in S}) = Cardinality(S)
  BY <1>4, <1>5, ImageCardinality
<1>7. Cardinality({l[s] : s \in S}) = Cardinality(S)
  BY <1>4, <1>5, ImageCardinality
<1>8. Cardinality({k[s] : s \in S}) = Cardinality(S)
  BY <1>4, <1>5, ImageCardinality
<1>. QED
  BY <1>2, <1>3, <1>6, <1>7, <1>8

Within(b) == Cardinality(b.entries) < MaxEntries /\ ManifestSize(b.manifest) <= MaxManifest

LEMMA EntriesVerify ==
    ASSUME NEW S, NEW policy, NEW root, NEW ev, NEW b,
           Built(b, S, policy, root, ev), Proper(S, ev), Within(b),
           TotalSize(b.entries) <= MaxPayload
    PROVE  EntriesAccepted(b)
<1>1. /\ IsFiniteSet(b.entries)
      /\ ManifestSize(b.manifest) \in Nat /\ TotalSize(b.entries) \in Nat
  BY ArchiveFinite
<1>2. Cardinality(b.entries) \in Nat
  BY <1>1, FS_CardinalityType
<1>3. NoDuplicates(b.entries)
  BY <1>1, PathsUnique, PathsCounted
<1>4. \A path \in Paths(b.entries) : SafePath(path)
  <2> SUFFICES ASSUME NEW e \in b.entries PROVE SafePath(e.path)
    BY DEF Paths
  <2>1. PICK s \in S : e = SampleEntry(s, S)
                       \/ \E i \in Cited(s, root, ev) : e = RawEntry(s, S, i, root, ev)
    BY ArchiveMembers
  <2>2. e.path = SamplePath(s, S) \/ \E i : e.path = RawPath(s, S, i, root, ev)
    BY <2>1, SampleFields, RawFields
  <2>3. \A r, n, m : SafePath(<<"samples", r>>) /\ SafePath(<<"raw", r, n, m>>)
    BY DEF SafePath
  <2>. QED
    BY <2>2, <2>3 DEF SamplePath, RawPath
<1>. QED
  BY <1>1, <1>2, <1>3, <1>4, BundlesAssumption DEF EntriesAccepted, Within

(* Every listed file is an entry and the other way round. *)
LEMMA FilesVerify ==
    ASSUME NEW S, NEW policy, NEW root, NEW ev, NEW b,
           Built(b, S, policy, root, ev), Proper(S, ev)
    PROVE  FilesAccepted(b)
<1>1. NoDuplicates(b.manifest.files)
  BY ArchiveFinite, PathsUnique, PathsCounted
<1>2. ASSUME NEW f \in b.manifest.files
      PROVE  \E e \in b.entries : e.path = f.path /\ e.content = f.sha
  <2>1. PICK s \in S : f = SampleFile(s, S)
                       \/ \E i \in Cited(s, root, ev) : f = RawFile(s, S, i, root, ev)
    BY ArchiveMembers
  <2>2. CASE f = SampleFile(s, S)
    <3>1. SampleEntry(s, S) \in b.entries
      BY ArchiveMembers
    <3>. QED
      BY <2>2, <3>1, SampleFields
  <2>3. ASSUME NEW i \in Cited(s, root, ev), f = RawFile(s, S, i, root, ev)
        PROVE  \E e \in b.entries : e.path = f.path /\ e.content = f.sha
    <3>1. RawEntry(s, S, i, root, ev) \in b.entries
      BY ArchiveMembers
    <3>. QED
      BY <2>3, <3>1, RawFields
  <2>. QED
    BY <2>1, <2>2, <2>3
<1>3. ASSUME NEW e \in b.entries
      PROVE  \E f \in b.manifest.files : f.path = e.path
  <2>1. PICK s \in S : e = SampleEntry(s, S)
                       \/ \E i \in Cited(s, root, ev) : e = RawEntry(s, S, i, root, ev)
    BY ArchiveMembers
  <2>2. CASE e = SampleEntry(s, S)
    <3>1. SampleFile(s, S) \in b.manifest.files
      BY ArchiveMembers
    <3>. QED
      BY <2>2, <3>1, SampleFields
  <2>3. ASSUME NEW i \in Cited(s, root, ev), e = RawEntry(s, S, i, root, ev)
        PROVE  \E f \in b.manifest.files : f.path = e.path
    <3>1. RawFile(s, S, i, root, ev) \in b.manifest.files
      BY ArchiveMembers
    <3>. QED
      BY <2>3, <3>1, RawFields
  <2>. QED
    BY <2>1, <2>2, <2>3
<1>4. Paths(b.manifest.files) = Paths(b.entries)
  BY <1>2, <1>3 DEF Paths
<1>5. b.manifest.id = BundleId(b.manifest.files)
  BY ArchiveFields
<1>. QED
  BY <1>1, <1>2, <1>4, <1>5 DEF FilesAccepted

(* What is found at the paths of a sample. *)
LEMMA ContentsFound ==
    ASSUME NEW S, NEW policy, NEW root, NEW ev, NEW b,
           Built(b, S, policy, root, ev), Proper(S, ev), NEW s \in S
    PROVE  /\ SamplePath(s, S) \in Paths(b.manifest.files)
           /\ ContentAt(b, SamplePath(s, S)) = SampleContent(s)
           /\ \A i \in Cited(s, root, ev) :
                 /\ RawPath(s, S, i, root, ev) \in Paths(b.manifest.files)
                 /\ ContentAt(b, RawPath(s, S, i, root, ev)) =
                       EvidenceContent(Hidden(s, i, root, ev).value)
<1>1. \A d, e \in b.entries : d.path = e.path => d = e
  BY PathsUnique
<1>2. SampleEntry(s, S) \in b.entries /\ SampleFile(s, S) \in b.manifest.files
  BY ArchiveMembers
<1>3. /\ SamplePath(s, S) \in Paths(b.manifest.files)
      /\ ContentAt(b, SamplePath(s, S)) = SampleContent(s)
  BY <1>1, <1>2, SampleFields, ContentFound DEF Paths
<1>4. ASSUME NEW i \in Cited(s, root, ev)
      PROVE  /\ RawPath(s, S, i, root, ev) \in Paths(b.manifest.files)
             /\ ContentAt(b, RawPath(s, S, i, root, ev)) =
                   EvidenceContent(Hidden(s, i, root, ev).value)
  <2>1. RawEntry(s, S, i, root, ev) \in b.entries /\ RawFile(s, S, i, root, ev) \in b.manifest.files
    BY ArchiveMembers
  <2>. QED
    BY <1>1, <2>1, RawFields, ContentFound DEF Paths
<1>. QED
  BY <1>3, <1>4

(* Every path is that of a sample or of evidence. *)
LEMMA PathsListed ==
    ASSUME NEW S, NEW policy, NEW root, NEW ev, NEW b,
           Built(b, S, policy, root, ev), Proper(S, ev), NEW p \in Paths(b.manifest.files)
    PROVE  \E s \in S : \/ p = SamplePath(s, S) /\ p[1] = "samples"
                        \/ p[1] = "raw" /\ \E i \in Cited(s, root, ev) :
                              p = RawPath(s, S, i, root, ev)
<1>1. PICK f \in b.manifest.files : p = f.path
  BY DEF Paths
<1>2. PICK s \in S : f = SampleFile(s, S)
                     \/ \E i \in Cited(s, root, ev) : f = RawFile(s, S, i, root, ev)
  BY ArchiveMembers
<1>3. CASE f = SampleFile(s, S)
  <2>1. p = SamplePath(s, S)
    BY <1>1, <1>3, SampleFields
  <2>. QED
    BY <2>1 DEF SamplePath
<1>4. ASSUME NEW i \in Cited(s, root, ev), f = RawFile(s, S, i, root, ev)
      PROVE  p[1] = "raw" /\ p = RawPath(s, S, i, root, ev)
  <2>1. p = RawPath(s, S, i, root, ev)
    BY <1>1, <1>4, RawFields
  <2>. QED
    BY <2>1 DEF RawPath
<1>. QED
  BY <1>2, <1>3, <1>4

LEMMA SamplesVerify ==
    ASSUME NEW S, NEW policy, NEW root, NEW ev, NEW b,
           Built(b, S, policy, root, ev), Proper(S, ev),
           \A s \in S : s.valid \/ policy.invalid
    PROVE  \A l \in b.manifest.samples : SampleAccepted(b, l)
<1> SUFFICES ASSUME NEW l \in b.manifest.samples PROVE SampleAccepted(b, l)
  OBVIOUS
<1>1. PICK s \in S : l = Line(s, S, root, ev)
  BY ArchiveFields DEF Lines
<1>2. /\ l.id = s.id /\ l.profile = s.profile /\ l.path = SamplePath(s, S)
      /\ l.raw = {RawPath(s, S, i, root, ev) : i \in Cited(s, root, ev)}
  BY <1>1 DEF Line
<1>3. l.path \in Paths(b.manifest.files) /\ ContentAt(b, l.path) = SampleContent(s)
  BY <1>2, ContentsFound
<1>4. ContentAt(b, l.path).sample = s
  BY <1>3 DEF SampleContent
<1>5. s # NoSample /\ (s.valid \/ b.manifest.policy.invalid)
  BY ArchiveFields DEF Proper, ProperSample
<1>6. ASSUME NEW path \in l.raw
      PROVE  /\ path \in Paths(b.manifest.files) /\ path[1] = "raw"
             /\ ContentAt(b, path).object
  <2>1. PICK i \in Cited(s, root, ev) : path = RawPath(s, S, i, root, ev)
    BY <1>2
  <2>2. path \in Paths(b.manifest.files)
        /\ ContentAt(b, path) = EvidenceContent(Hidden(s, i, root, ev).value)
    BY <2>1, ContentsFound
  <2>3. path[1] = "raw"
    BY <2>1 DEF RawPath
  <2>. QED
    BY <2>2, <2>3 DEF EvidenceContent
<1>. QED
  BY <1>2, <1>3, <1>4, <1>5, <1>6 DEF SampleAccepted

(* Samples are files below samples/, evidence is all that is below raw/. *)
LEMMA DirectoriesVerify ==
    ASSUME NEW S, NEW policy, NEW root, NEW ev, NEW b,
           Built(b, S, policy, root, ev), Proper(S, ev)
    PROVE  /\ Below("samples", Paths(b.manifest.files)) = Paths(b.manifest.samples)
           /\ Below("raw", Paths(b.manifest.files)) = UNION {l.raw : l \in b.manifest.samples}
<1> DEFINE listed == Paths(b.manifest.files)
<1>1. \A l : l \in b.manifest.samples <=> \E s \in S : l = Line(s, S, root, ev)
  BY ArchiveFields DEF Lines
<1>2. \A s \in S : /\ Line(s, S, root, ev).path = SamplePath(s, S)
                   /\ Line(s, S, root, ev).raw =
                         {RawPath(s, S, i, root, ev) : i \in Cited(s, root, ev)}
  BY DEF Line
<1>3. \A p \in listed :
        \E s \in S : \/ p = SamplePath(s, S) /\ p[1] = "samples"
                     \/ p[1] = "raw" /\ \E i \in Cited(s, root, ev) :
                           p = RawPath(s, S, i, root, ev)
  BY PathsListed
<1>4. \A s \in S : SamplePath(s, S) \in listed /\ SamplePath(s, S)[1] = "samples"
  <2>1. \A s \in S : SamplePath(s, S) \in listed
    BY ContentsFound
  <2>. QED
    BY <2>1 DEF SamplePath
<1>5. \A s \in S : \A i \in Cited(s, root, ev) :
        RawPath(s, S, i, root, ev) \in listed /\ RawPath(s, S, i, root, ev)[1] = "raw"
  <2>1. \A s \in S : \A i \in Cited(s, root, ev) : RawPath(s, S, i, root, ev) \in listed
    BY ContentsFound
  <2>. QED
    BY <2>1 DEF RawPath
<1> HIDE DEF listed
<1>6. Below("samples", listed) = Paths(b.manifest.samples)
  <2>1. ASSUME NEW p \in listed, p[1] = "samples"
        PROVE  \E l \in b.manifest.samples : p = l.path
    BY <1>1, <1>2, <1>3, <2>1
  <2>2. ASSUME NEW l \in b.manifest.samples
        PROVE  l.path \in listed /\ l.path[1] = "samples"
    BY <1>1, <1>2, <1>4
  <2>. QED
    BY <2>1, <2>2 DEF Below, Paths
<1>7. Below("raw", listed) = UNION {l.raw : l \in b.manifest.samples}
  <2>1. ASSUME NEW p \in listed, p[1] = "raw"
        PROVE  \E l \in b.manifest.samples : p \in l.raw
    BY <1>1, <1>2, <1>3, <2>1
  <2>2. ASSUME NEW l \in b.manifest.samples, NEW p \in l.raw
        PROVE  p \in listed /\ p[1] = "raw"
    BY <1>1, <1>2, <1>5
  <2>. QED
    BY <2>1, <2>2 DEF Below
<1>. QED
  BY <1>6, <1>7 DEF listed

(* verify_bundle accepts what build_bundle writes, within its own limits. *)
THEOREM ArchiveVerifies ==
    ASSUME NEW S, NEW policy, NEW root, NEW ev, NEW b,
           Built(b, S, policy, root, ev), Proper(S, ev), S # {},
           \A s \in S : s.valid \/ policy.invalid,
           TotalSize(b.entries) <= MaxPayload, Within(b)
    PROVE  Verifies(b)
<1>1. EntriesAccepted(b)
  BY EntriesVerify
<1>2. FilesAccepted(b)
  BY FilesVerify
<1>3. ManifestShape(b.manifest)
  <2>1. Cardinality(S) \in Nat /\ Cardinality(S) # 0
    BY FS_CardinalityType, FS_EmptySet DEF Proper
  <2>2. b.manifest.count = Cardinality(S)
    BY SamplesCounted
  <2>4. Cardinality(b.manifest.samples) = Cardinality(S)
    BY SamplesCounted
  <2>3. b.manifest.files # {}
    BY ArchiveMembers
  <2>. QED
    BY <2>1, <2>2, <2>3, <2>4 DEF ManifestShape
<1>4. Cardinality({s.id : s \in b.manifest.samples}) = b.manifest.count
  <2>1. Cardinality(Ids(b.manifest.samples)) = b.manifest.count
    BY SamplesCounted
  <2>. QED
    BY <2>1 DEF Ids
<1>5. \A l \in b.manifest.samples : SampleAccepted(b, l)
  BY SamplesVerify
<1>6. /\ Below("samples", Paths(b.manifest.files)) = Paths(b.manifest.samples)
      /\ Below("raw", Paths(b.manifest.files)) = UNION {l.raw : l \in b.manifest.samples}
  BY DirectoriesVerify
<1>. QED
  BY <1>1, <1>2, <1>3, <1>4, <1>5, <1>6 DEF Verifies

-----------------------------------------------------------------------------
(* Evidence and exceptions. *)

(* The evidence under a path is that of a file in a trusted place. *)
THEOREM EvidenceKept ==
    ASSUME NEW S, NEW policy, NEW root, NEW ev, NEW b,
           Built(b, S, policy, root, ev), Proper(S, ev),
           NEW f \in b.manifest.files, f.path[1] = "raw"
    PROVE  \E place \in DOMAIN ev :
             /\ place.name = f.path[4] /\ place.base # "outside"
             /\ \A item \in ContentAt(b, f.path).json :
                   /\ item.leaf # "url_with_secret"
                   /\ SecretAt(item.at) => item.leaf = "[REDACTED]"
             /\ \A item \in ev[place].json :
                   ~SecretAt(item.at) /\ item.leaf # "url_with_secret" =>
                      item \in ContentAt(b, f.path).json
             /\ f.redactions = 0 => ev[place].json = ContentAt(b, f.path).json
<1>1. PICK s \in S : \E i \in Cited(s, root, ev) : f = RawFile(s, S, i, root, ev)
  <2>1. PICK s \in S : f = SampleFile(s, S)
                       \/ \E i \in Cited(s, root, ev) : f = RawFile(s, S, i, root, ev)
    BY ArchiveMembers
  <2>2. f # SampleFile(s, S)
    <3>1. SampleFile(s, S).path[1] = "samples"
      BY SampleFields DEF SamplePath
    <3>. QED
      BY <3>1
  <2>. QED
    BY <2>1, <2>2
<1>2. PICK i \in Cited(s, root, ev) : f = RawFile(s, S, i, root, ev)
  BY <1>1
<1> DEFINE place == Place(s.raw[i], root, ev)
           json == ev[place].json
           hidden == RedactJson(json)
<1>3. place \in DOMAIN ev /\ place.base # "outside"
  BY PlaceFound DEF Cited
<1>4. f.path = RawPath(s, S, i, root, ev) /\ f.redactions = Hidden(s, i, root, ev).count
  BY <1>2, RawFields
<1>5. Hidden(s, i, root, ev) = hidden
  BY DEF Hidden
<1>6. ContentAt(b, f.path).json = hidden.value
  <2>1. ContentAt(b, f.path) = EvidenceContent(hidden.value)
    BY <1>4, <1>5, ContentsFound
  <2>. QED
    BY <2>1 DEF EvidenceContent
<1>7. place.name = f.path[4]
  BY <1>4 DEF RawPath
<1> HIDE DEF place
<1>8. IsFiniteSet(json) /\ \A item \in json : ProperItem(item)
  BY <1>3 DEF Proper
<1> HIDE DEF json
<1>9. /\ \A item \in hidden.value :
            /\ item.leaf # "url_with_secret"
            /\ SecretAt(item.at) => item.leaf = "[REDACTED]"
      /\ \A item \in json : ~SecretAt(item.at) /\ item.leaf # "url_with_secret" =>
            item \in hidden.value
      /\ hidden.count = 0 => hidden.value = json
  BY <1>8, RedactionSound
<1> HIDE DEF hidden
<1>10. f.redactions = 0 => json = ContentAt(b, f.path).json
  BY <1>4, <1>5, <1>6, <1>9
<1>11. \A item \in ContentAt(b, f.path).json :
          /\ item.leaf # "url_with_secret"
          /\ SecretAt(item.at) => item.leaf = "[REDACTED]"
  BY <1>6, <1>9
<1>12. \A item \in json : ~SecretAt(item.at) /\ item.leaf # "url_with_secret" =>
          item \in ContentAt(b, f.path).json
  BY <1>6, <1>9
<1>. QED
  BY <1>3, <1>7, <1>10, <1>11, <1>12 DEF json

(* Every reference occurs for the first time somewhere. *)
LEMMA FirstsCount ==
    ASSUME NEW raw, raw \in Seq(ToSet(raw)), IsFiniteSet(Firsts(raw))
    PROVE  Cardinality(Firsts(raw)) = Cardinality(ToSet(raw))
<1> DEFINE n == Len(raw)
           F == Firsts(raw)
           f == [i \in F |-> raw[i]]
<1>1. n \in Nat /\ DOMAIN raw = 1..n
  OBVIOUS
<1>2. \A i \in F : i \in 1..n /\ \A j \in 1..(i - 1) : raw[j] # raw[i]
  BY <1>1 DEF Firsts
<1>3. ASSUME NEW x \in ToSet(raw)
      PROVE  \E i \in F : raw[i] = x
  <2> DEFINE B == {k \in 1..n : raw[k] = x}
  <2>1. B # {} /\ B \in SUBSET Nat
    BY <1>1 DEF ToSet
  <2>2. PICK m \in B : \A k \in B : m <= k
    <3> HIDE DEF B
    <3> QED
      BY <2>1, LeastNatural
  <2>3. m \in 1..n /\ raw[m] = x /\ \A j \in 1..(m - 1) : j \notin B /\ j \in 1..n
    BY <1>1, <2>2
  <2>4. \A j \in 1..(m - 1) : raw[j] # raw[m]
    BY <2>3
  <2>5. m \in F
    BY <1>1, <2>3, <2>4 DEF Firsts
  <2>. QED
    BY <2>3, <2>5
<1>4. \A i \in F : raw[i] \in ToSet(raw)
  BY <1>1, <1>2 DEF ToSet
<1>5. \A i, j \in F : f[i] = f[j] => i = j
  <2> SUFFICES ASSUME NEW i \in F, NEW j \in F, raw[i] = raw[j], i # j
               PROVE  FALSE
    OBVIOUS
  <2> HIDE DEF F
  <2>1. i \in Int /\ j \in Int /\ i >= 1 /\ j >= 1
    BY <1>1, <1>2
  <2>2. i \in 1..(j - 1) \/ j \in 1..(i - 1)
    BY <2>1
  <2>. QED
    BY <1>2, <2>2
<1>6. {f[i] : i \in F} = ToSet(raw)
  BY <1>3, <1>4
<1> HIDE DEF f
<1>. QED
  BY <1>5, <1>6, ImageCardinality

(* Missing evidence and invalid samples are in policy and warnings. *)
THEOREM ExceptionsListed ==
    ASSUME NEW S, NEW policy, NEW root, NEW ev, NEW b,
           Built(b, S, policy, root, ev), Proper(S, ev),
           \A s \in S : s.valid \/ policy.invalid,
           \A s \in S : \A ref \in ToSet(s.raw) : Found(ref, root, ev) # {} \/ policy.missing,
           NEW l \in b.manifest.samples, NEW sample, sample = ContentAt(b, l.path).sample
    PROVE  /\ ~sample.valid => /\ policy.invalid
                               /\ <<"invalid_sample_included", sample.id>> \in b.manifest.warnings
           /\ Cardinality(l.raw) < Cardinality(ToSet(sample.raw)) =>
                 /\ policy.missing
                 /\ \E ref : <<"missing_raw_evidence", sample.id, ref.name>> \in b.manifest.warnings
<1>1. PICK s \in S : l = Line(s, S, root, ev)
  BY ArchiveFields DEF Lines
<1>2. /\ l.path = SamplePath(s, S)
      /\ l.raw = {RawPath(s, S, i, root, ev) : i \in Cited(s, root, ev)}
  BY <1>1 DEF Line
<1>3. sample = s
  <2>1. ContentAt(b, l.path) = SampleContent(s)
    BY <1>2, ContentsFound
  <2>. QED
    BY <2>1 DEF SampleContent
<1>4. Warnings(s, RawFiles(s, S, root, ev), root, ev) \subseteq b.manifest.warnings
  <2>1. b.manifest.warnings = WarningsOf(S, root, ev)
    BY ArchiveFields
  <2>2. PartOf(s, S, root, ev).warnings = Warnings(s, RawFiles(s, S, root, ev), root, ev)
    BY PartFields
  <2>. QED
    BY <2>1, <2>2 DEF WarningsOf
<1>5. ASSUME ~s.valid
      PROVE  <<"invalid_sample_included", s.id>> \in b.manifest.warnings
  <2>1. <<"invalid_sample_included", s.id>> \in Warnings(s, RawFiles(s, S, root, ev), root, ev)
    BY <1>5 DEF Warnings
  <2>. QED
    BY <1>4, <2>1
<1>6. ASSUME NEW ref \in ToSet(s.raw), Found(ref, root, ev) = {}
      PROVE  <<"missing_raw_evidence", s.id, ref.name>> \in b.manifest.warnings
  <2>1. <<"missing_raw_evidence", s.id, ref.name>> \in
           Warnings(s, RawFiles(s, S, root, ev), root, ev)
    BY <1>6 DEF Warnings
  <2>. QED
    BY <1>4, <2>1
<1>7. ASSUME \A ref \in ToSet(s.raw) : Found(ref, root, ev) # {}
      PROVE  Cardinality(l.raw) = Cardinality(ToSet(s.raw))
  <2> DEFINE C == Cited(s, root, ev)
             f == [i \in C |-> RawPath(s, S, i, root, ev)]
  <2>1. s.raw \in Seq(ToSet(s.raw))
    BY DEF Proper, ProperSample
  <2>2. IsFiniteSet(C)
    BY NumbersDiffer
  <2>3. IsFiniteSet(Firsts(s.raw))
    BY NumbersDiffer
  <2>4. C = Firsts(s.raw)
    <3>1. \A i \in Firsts(s.raw) : s.raw[i] \in ToSet(s.raw)
      BY DEF Firsts, ToSet
    <3>. QED
      BY <1>7, <3>1 DEF Cited
  <2>5. l.raw = {f[i] : i \in C}
    BY <1>2
  <2>6. \A i, j \in C : f[i] = f[j] => i = j
    BY PathsApart
  <2> HIDE DEF f, C
  <2>7. Cardinality(l.raw) = Cardinality(C)
    BY <2>2, <2>5, <2>6, ImageCardinality
  <2>8. Cardinality(Firsts(s.raw)) = Cardinality(ToSet(s.raw))
    BY <2>1, <2>3, FirstsCount
  <2>. QED
    BY <2>4, <2>7, <2>8
<1>8. ASSUME Cardinality(l.raw) < Cardinality(ToSet(s.raw))
      PROVE  /\ policy.missing
             /\ \E ref : <<"missing_raw_evidence", s.id, ref.name>> \in b.manifest.warnings
  <2>1. IsFiniteSet(l.raw)
    <3> DEFINE C == Cited(s, root, ev)
               f == [i \in C |-> RawPath(s, S, i, root, ev)]
    <3>1. l.raw = {f[i] : i \in C} /\ IsFiniteSet(C)
      BY <1>2, NumbersDiffer
    <3> HIDE DEF f, C
    <3>. QED
      BY <3>1, ImageFinite
  <2>2. Cardinality(l.raw) \in Nat
    BY <2>1, FS_CardinalityType
  <2>3. PICK ref \in ToSet(s.raw) : Found(ref, root, ev) = {}
    BY <1>7, <1>8, <2>2
  <2>. QED
    BY <1>6, <2>3
<1>. QED
  BY <1>3, <1>5, <1>8
=============================================================================
