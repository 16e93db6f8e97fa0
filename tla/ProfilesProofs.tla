--------------------------- MODULE ProfilesProofs ---------------------------
(***************************************************************************)
(* Proofs about module Profiles, for every set of configurations, every     *)
(* number of repetitions, operations and tasks, and every set of workers.   *)
(***************************************************************************)
EXTENDS PlanProofs

(* The points of the plan of a configuration. *)
PointsOf(c) == CHOOSE f : Annotates(f, Plans[c]) /\ Promised(c, f[Len(Plans[c])].done)
Here == PointsOf(config)[at]

-----------------------------------------------------------------------------
(* The inductive invariant. *)

(* Where the main thread is, and which blocks are open there. *)
Placed ==
    /\ op < Current.ops
    /\ main \in {"ready", "collect"} => stack = Here.open
    /\ main = "working" => Current.kind = "serial" /\ stack = Here.open \o Current.holds
    /\ main = "collect" => Current.kind = "batch"
    /\ main \in {"ready", "working", "collect"} => reason = "none"
    /\ main = "unwind" => reason # "none"
    /\ main = "done" => stack = <<>> /\ reason # "failed"
    /\ main = "done" /\ reason = "none" => Current.kind = "end"
    /\ reason # "none" => Current.kind \notin {"measure", "skip", "end"}

(* The workers, and the tasks they run inside of a pool. *)
Staffed ==
    /\ Unfinished # {} => main \in {"collect", "unwind"} /\ Contains(stack, "pool")
    /\ main = "collect" => \A t \in Tasks : future[t] # "none"
    /\ \A w \in Workers :
          /\ job[w] = 0 <=> step[w] = "idle"
          /\ job[w] # 0 => future[job[w]] = "running"
          /\ lock = w => step[w] = "commit"
          /\ step[w] \in {"poll", "commit"} => config.profile = "database"
    /\ \A v, w \in Workers : job[v] = job[w] /\ job[v] # 0 => v = w
    /\ collected \subseteq {t \in Tasks : future[t] = "done"}

(* How far the tasks are. *)
Progress ==
    /\ \A t \in Tasks :
          /\ completed[t] <= PerTask
          /\ future[t] \in {"none", "queued"} => completed[t] = 0
          /\ config.profile = "compute" /\ future[t] = "done" => completed[t] = 1
    /\ \A w \in Workers : job[w] # 0 =>
          /\ completed[job[w]] + left[w] <= PerTask
          /\ step[w] \in {"open", "commit"} => left[w] > 0
          /\ step[w] = "start" \/ config.profile # "database" => left[w] = PerTask

(* No exception has been raised, and no measurement has failed. *)
Undisturbed == reason = "none" /\ ~Contains(measured, "failed")

(* How many of its n operations each task has attempted. *)
AttemptsOf(f, j, l, n) == [t \in Tasks |->
    IF f[t] = "done" THEN n
    ELSE IF \E w \in Workers : j[w] = t THEN n - l[CHOOSE w \in Workers : j[w] = t]
    ELSE 0]
Attempted == AttemptsOf(future, job, left, PerTask)

BatchSize == Cardinality(Tasks) * PerTask
OfItem(k) == IF Current.kind = "serial" /\ Current.onError = k THEN op ELSE 0

(* What has been counted is what the plan asks for, and failures are faults. *)
Tallies ==
    Undisturbed =>
        /\ \A k \in {"download", "upload", "warmup"} : ok[k] + bad[k] = Here.done[k] + OfItem(k)
        /\ ok["operation"] + bad["operation"] = Here.done["batch"] * BatchSize
        /\ main # "collect" => Sum(completed) <= ok["operation"] /\ faults = Sum(bad)
        /\ main = "collect" /\ (\A t \in Tasks : future[t] \notin {"error", "cancelled"}) =>
              faults + Sum(completed) = Sum(bad) + Sum(Attempted)
        /\ Here.done["need"] > 0 => ok["operation"] > 0
        /\ config.profile = "compute" => bad["operation"] = 0

(* All profiles but general measure once, at the end; general counts nothing. *)
Measures ==
    /\ config.profile # "general" /\ at < Len(Plan) => measured = <<>>
    /\ config.profile = "general" =>
          Unfinished = {} /\ faults = 0 /\ bad = [c \in Counters |-> 0]
    /\ main # "done" => sample.status = "none"

(* TypeOK, without its conjunct on the values of the flags. *)
Typed ==
    /\ config \in Configurations
    /\ main \in {"ready", "working", "collect", "unwind", "done"}
    /\ at \in 1..Len(Plan) /\ op \in Nat
    /\ stack \in Seq(Blocks)
    /\ reason \in {"none", "failed", "cancelled"}
    /\ future \in [Tasks -> {"none", "queued", "running", "done", "error", "cancelled"}]
    /\ completed \in [Tasks -> 0..Operations]
    /\ collected \subseteq Tasks
    /\ job \in [Workers -> Tasks \cup {0}]
    /\ step \in [Workers -> {"idle", "start", "open", "poll", "write", "commit"}]
    /\ left \in [Workers -> 0..Operations]
    /\ lock \in Workers \cup {0}
    /\ ok \in [Counters -> Nat] /\ bad \in [Counters -> Nat] /\ faults \in Nat
    /\ measured \in Seq({"success", "failed", "skipped"})

Types == Typed /\ event \in BOOLEAN

IInv == Types /\ Placed /\ Staffed /\ Progress /\ Tallies /\ Measures /\ FailuresVisible

LEMMA TypeParts == Types <=> Typed /\ event \in BOOLEAN
BY DEF Types

-----------------------------------------------------------------------------
(* Facts about constants, and about the place in the plan. *)

LEMMA Constants ==
    /\ Repetitions \in Nat \ {0} /\ Operations \in Nat \ {0}
    /\ IsFiniteSet(Tasks) /\ Tasks # {} /\ 0 \notin Tasks /\ 0 \notin Workers
    /\ Cardinality(Tasks) \in Nat \ {0}
    /\ \A t \in Tasks : t \in Nat
<1>1. /\ Repetitions \in Nat \ {0} /\ Operations \in Nat \ {0}
      /\ IsFiniteSet(Tasks) /\ Tasks # {} /\ 0 \notin Workers
      /\ Tasks = 1..Cardinality(Tasks)
  BY ProfilesAssumption DEF ProfilesAssumption
<1>2. Cardinality(Tasks) \in Nat /\ Cardinality(Tasks) # 0
  BY <1>1, FS_CardinalityType, FS_EmptySet
<1>3. \A t \in 1..Cardinality(Tasks) : t \in Nat /\ t # 0
  BY <1>2
<1> QED
  BY <1>1, <1>2, <1>3

LEMMA PerTaskType ==
    /\ PerTask \in Nat \ {0} /\ PerTask <= Operations
    /\ config.profile # "database" => PerTask = 1
    /\ BatchSize \in Nat /\ BatchSize > 0
<1>1. /\ PerTask \in Nat \ {0} /\ PerTask <= Operations
      /\ config.profile # "database" => PerTask = 1
  BY Constants DEF PerTask
<1>2. BatchSize \in Nat /\ BatchSize > 0
  BY <1>1, Constants DEF BatchSize
<1> QED
  BY <1>1, <1>2

LEMMA CountersFinite == IsFiniteSet(Counters)
<1>1. /\ IsFiniteSet({"download"}) /\ IsFiniteSet({"upload"}) /\ IsFiniteSet({"ping"})
      /\ IsFiniteSet({"warmup"}) /\ IsFiniteSet({"operation"})
  BY FS_Singleton
<1>2. IsFiniteSet({"download"} \cup {"upload"})
  BY <1>1, FS_Union
<1>3. IsFiniteSet(({"download"} \cup {"upload"}) \cup {"ping"})
  BY <1>1, <1>2, FS_Union
<1>4. IsFiniteSet((({"download"} \cup {"upload"}) \cup {"ping"}) \cup {"warmup"})
  BY <1>1, <1>3, FS_Union
<1>5. IsFiniteSet(((({"download"} \cup {"upload"}) \cup {"ping"}) \cup {"warmup"})
                  \cup {"operation"})
  BY <1>1, <1>4, FS_Union
<1>6. Counters = ((({"download"} \cup {"upload"}) \cup {"ping"}) \cup {"warmup"})
                 \cup {"operation"}
  BY DEF Counters
<1> QED
  BY <1>5, <1>6

(* The facts of PlansWellFormed, at item i of the plan of c. *)
LEMMA PlanAt ==
    ASSUME NEW c \in Configurations, NEW i \in 1..Len(Plans[c])
    PROVE  /\ Len(Plans[c]) \in Nat /\ Len(Plans[c]) > 1
           /\ Plans[c][i] \in Items
           /\ PointsOf(c)[i] \in Points /\ PointsOf(c)[i + 1] \in Points
           /\ Moves(PointsOf(c)[i], Plans[c][i], PointsOf(c)[i + 1])
           /\ Plans[c][i].kind = "end" <=> i = Len(Plans[c])
           /\ PointsOf(c)[1] = Start
           /\ i = Len(Plans[c]) => Promised(c, PointsOf(c)[i].done)
           /\ c.profile # "general" /\ Plans[c][i].kind \in {"measure", "skip"} =>
                 i = Len(Plans[c]) - 1
           /\ c.profile = "general" => Plans[c][i] \in PlainItems
<1> DEFINE f == PointsOf(c)
           s == Plans[c]
<1>1. WellFormed(c)
  BY PlansWellFormed
<1>2. Annotates(f, s) /\ Promised(c, f[Len(s)].done)
  <2>1. \E g : Annotates(g, Plans[c]) /\ Promised(c, g[Len(Plans[c])].done)
    BY <1>1 DEF WellFormed
  <2> QED
    BY <2>1 DEF PointsOf
<1>3. s \in Seq(Items) /\ OnlyEndEnds(s)
      /\ (c.profile # "general" => MeasuresOnce(s))
      /\ (c.profile = "general" => s \in Seq(PlainItems))
  BY <1>1 DEF WellFormed
<1>4. i \in 1..Len(s)
  OBVIOUS
<1> HIDE DEF f, s
<1>5. Len(s) \in Nat /\ Len(s) > 1
  BY <1>3 DEF OnlyEndEnds
<1>6. s[i] \in Items /\ (c.profile = "general" => s[i] \in PlainItems)
  BY <1>3, <1>4
<1>7. f[i] \in Points /\ f[i + 1] \in Points /\ Moves(f[i], s[i], f[i + 1])
  <2>1. i \in 1..(Len(s) + 1) /\ i + 1 \in 1..(Len(s) + 1)
    BY <1>4, <1>5
  <2> QED
    BY <1>2, <1>4, <2>1 DEF Annotates
<1>8. s[i].kind = "end" <=> i = Len(s)
  BY <1>3, <1>4 DEF OnlyEndEnds
<1>9. f[1] = Start /\ (i = Len(s) => Promised(c, f[i].done))
  BY <1>2 DEF Annotates
<1>10. c.profile # "general" /\ s[i].kind \in {"measure", "skip"} => i = Len(s) - 1
  BY <1>3, <1>4 DEF MeasuresOnce
<1> QED
  BY <1>5, <1>6, <1>7, <1>8, <1>9, <1>10 DEF f, s

There == PointsOf(config)[at + 1]

(* The same at the item of the main thread, and at the next one. *)
LEMMA PlanHere ==
    ASSUME Typed
    PROVE  /\ Len(Plan) \in Nat /\ Len(Plan) > 1
           /\ Current \in Items /\ Here \in Points /\ There \in Points
           /\ Moves(Here, Current, There)
           /\ Current.kind = "end" <=> at = Len(Plan)
           /\ at = Len(Plan) => Promised(config, Here.done)
           /\ config.profile # "general" /\ Current.kind \in {"measure", "skip"} =>
                 at = Len(Plan) - 1
           /\ config.profile = "general" => Current \in PlainItems
           /\ Current.kind # "end" =>
                 at + 1 \in 1..Len(Plan) /\ Plan[at + 1] \in Items
<1>1. config \in Configurations /\ at \in 1..Len(Plans[config])
  BY DEF Typed, Plan
<1>2. /\ Len(Plan) \in Nat /\ Len(Plan) > 1
      /\ Current \in Items /\ Here \in Points /\ There \in Points
      /\ Moves(Here, Current, There)
      /\ Current.kind = "end" <=> at = Len(Plan)
      /\ at = Len(Plan) => Promised(config, Here.done)
      /\ config.profile # "general" /\ Current.kind \in {"measure", "skip"} =>
            at = Len(Plan) - 1
      /\ config.profile = "general" => Current \in PlainItems
  BY <1>1, PlanAt DEF Plan, Current, Here, There
<1>3. ASSUME Current.kind # "end"
      PROVE  at + 1 \in 1..Len(Plan) /\ Plan[at + 1] \in Items
  <2>1. at + 1 \in 1..Len(Plans[config])
    BY <1>1, <1>2, <1>3 DEF Plan
  <2>2. Plans[config][at + 1] \in Items
    BY <1>1, <2>1, PlanAt
  <2> QED
    BY <2>1, <2>2 DEF Plan
<1> QED
  BY <1>2, <1>3

-----------------------------------------------------------------------------
(* The initial states. *)

LEMMA InitTyped == Init => Typed /\ event \in BOOLEAN
<1>1. SUFFICES ASSUME Init
               PROVE  Typed /\ event \in BOOLEAN
  OBVIOUS
<1>2. event \in BOOLEAN
  BY <1>1, Zenon DEF Init
<1>3. WellFormed(config)
  BY <1>1, PlansWellFormed DEF Init
<1>4. 1 \in 1..Len(Plan)
  <2>1. Plan \in Seq(Items) /\ Len(Plan) > 1
    BY <1>3 DEF WellFormed, OnlyEndEnds, Plan
  <2> QED
    BY <2>1
<1>5. Typed
  BY <1>1, <1>4, Constants DEF Init, Typed
<1> QED
  BY <1>2, <1>5

LEMMA InitIInv == Init => IInv
<1>1. SUFFICES ASSUME Init
               PROVE  IInv
  OBVIOUS
<1>2. Typed /\ Types
  BY <1>1, InitTyped, TypeParts
<1>3. Here = Start /\ Current \in Items
  <2>1. config \in Configurations /\ at \in 1..Len(Plans[config]) /\ at = 1
    BY <1>1, <1>2 DEF Init, Typed, Plan
  <2> QED
    BY <2>1, PlanAt DEF Here, Current, Plan
<1>4. Placed
  <2>1. Current.ops \in Nat \ {0}
    BY <1>3 DEF Items
  <2> QED
    BY <1>1, <1>3, <2>1 DEF Placed, Init, Start
<1>5. Staffed
  BY <1>1, Constants DEF Staffed, Init, Unfinished
<1>6. Progress
  <2>1. 0 <= PerTask
    BY PerTaskType
  <2> QED
    BY <1>1, <2>1, Constants DEF Progress, Init
<1>7. Sum(completed) = 0 /\ Sum(bad) = 0
  BY <1>1, Constants, CountersFinite, SumZero DEF Init
<1>8. Tallies
  <2>1. \A k \in Tallied : Here.done[k] = 0
    BY <1>3 DEF Start, None
  <2>2. \A k : OfItem(k) = 0
    BY <1>1 DEF Init, OfItem
  <2>3. Here.done["batch"] * BatchSize = 0
    BY <2>1, PerTaskType DEF Tallied
  <2>4. \A k \in Counters : ok[k] = 0 /\ bad[k] = 0
    BY <1>1 DEF Init
  <2> QED
    BY <1>1, <1>7, <2>1, <2>2, <2>3, <2>4 DEF Tallies, Init, Tallied, Counters
<1>9. Measures
  BY <1>1 DEF Measures, Init, Unfinished
<1>10. FailuresVisible
  BY <1>1 DEF FailuresVisible, Init
<1> QED
  BY <1>2, <1>4, <1>5, <1>6, <1>8, <1>9, <1>10 DEF IInv

-----------------------------------------------------------------------------
(* What every step of a kind preserves. *)

LEMMA SamePlace ==
    ASSUME config' = config, at' = at
    PROVE  Plan' = Plan /\ Current' = Current /\ Here' = Here
BY DEF Plan, Current, Here

LEMMA NextPlace ==
    ASSUME Typed, config' = config, at' = at + 1, Current.kind # "end"
    PROVE  /\ Plan' = Plan /\ Current' = Plan[at + 1] /\ Here' = There
           /\ at' \in 1..Len(Plan') /\ Current' \in Items /\ Current'.ops > 0
<1>1. at + 1 \in 1..Len(Plan) /\ Plan[at + 1] \in Items
  BY PlanHere
<1>2. Plan' = Plan /\ Current' = Plan[at + 1] /\ Here' = There
  BY DEF Plan, Current, Here, There
<1>3. Plan[at + 1].ops \in Nat \ {0}
  BY <1>1 DEF Items
<1> QED
  BY <1>1, <1>2, <1>3

LEMMA ProgressKept ==
    ASSUME Progress, UNCHANGED <<config, poolVars>>
    PROVE  Progress'
BY DEF Progress, PerTask, poolVars

(* No worker has a task unless the main thread waits for one. *)
LEMMA Idle ==
    ASSUME Typed, Staffed, main \notin {"collect", "unwind"}
    PROVE  Unfinished = {} /\ \A w \in Workers : job[w] = 0 /\ step[w] = "idle"
<1>1. Unfinished = {}
  BY DEF Staffed
<1>2. ASSUME NEW w \in Workers, job[w] # 0
      PROVE  FALSE
  <2>1. job[w] \in Tasks /\ future[job[w]] = "running"
    BY <1>2 DEF Typed, Staffed
  <2> QED
    BY <1>1, <2>1 DEF Unfinished
<1> QED
  BY <1>1, <1>2 DEF Staffed

LEMMA StaffedKept ==
    ASSUME Typed, Staffed, UNCHANGED <<config, collected, poolVars>>,
           Unfinished # {} => main' \in {"collect", "unwind"} /\ Contains(stack', "pool"),
           main' = "collect" => main = "collect"
    PROVE  Staffed'
BY DEF Staffed, poolVars, Unfinished

LEMMA FrontEntries ==
    ASSUME NEW S, NEW s \in Seq(S), s # <<>>
    PROVE  /\ Front(s) \in Seq(S) /\ Len(Front(s)) = Len(s) - 1
           /\ \A i \in 1..(Len(s) - 1) : Front(s)[i] = s[i]
<1>1. Len(s) \in Nat /\ Len(s) > 0
  OBVIOUS
<1>2. /\ SubSeq(s, 1, Len(s) - 1) \in Seq(S) /\ Len(SubSeq(s, 1, Len(s) - 1)) = Len(s) - 1
      /\ \A i \in 1..(Len(s) - 1) : SubSeq(s, 1, Len(s) - 1)[i] = s[i]
  <2> DEFINE m == Len(s) - 1
  <2>1. m \in Nat /\ m <= Len(s) /\ \A i \in 1..m : i \in 1..Len(s) /\ s[i] \in S
    BY <1>1
  <2>2. SubSeq(s, 1, m) = [i \in 1..m |-> s[i]]
    BY <2>1
  <2> HIDE DEF m
  <2>3. [i \in 1..m |-> s[i]] \in Seq(S) /\ Len([i \in 1..m |-> s[i]]) = m
    BY <2>1
  <2> QED
    BY <2>2, <2>3 DEF m
<1> QED
  BY <1>2 DEF Front

LEMMA RaiseStep ==
    ASSUME IInv, main \in {"ready", "working", "collect"},
           Current.kind \notin {"measure", "skip", "end"},
           NEW e \in {"failed", "cancelled"}, Raise(e),
           stack' = stack \/ (main = "ready" /\ stack # <<>> /\ stack' = Front(stack)),
           UNCHANGED <<config, event, collected, faults, poolVars, tally>>
    PROVE  IInv'
<1>1. Typed /\ Placed /\ Staffed /\ Progress /\ Measures /\ event \in BOOLEAN
  BY TypeParts DEF IInv
<1>2. /\ main' = "unwind" /\ reason' = e /\ at' = at /\ op' = op
      /\ config' = config /\ collected' = collected /\ faults' = faults
  BY DEF Raise
<1>3. Plan' = Plan /\ Current' = Current /\ Here' = Here
  BY <1>2, SamePlace
<1>4. Types'
  <2>1. Typed'
    <3>1. stack' \in Seq(Blocks)
      BY <1>1, FrontEntries DEF Typed
    <3> QED
      BY <1>1, <1>2, <1>3, <3>1 DEF Typed, poolVars, tally
  <2>2. event' \in BOOLEAN
    BY <1>1, Zenon
  <2> QED
    BY <2>1, <2>2, Zenon DEF Types
<1>5. Placed'
  BY <1>1, <1>2, <1>3 DEF Placed
<1>6. Staffed'
  <2>1. Unfinished # {} => main' \in {"collect", "unwind"} /\ Contains(stack', "pool")
    BY <1>1, <1>2, Idle DEF Staffed
  <2> QED
    BY <1>1, <1>2, <2>1, StaffedKept
<1>7. Progress'
  BY <1>1, ProgressKept
<1>8. Tallies'
  BY <1>2 DEF Tallies, Undisturbed
<1>9. Measures'
  BY <1>1, <1>2, <1>3 DEF Measures, poolVars, tally, Unfinished
<1>10. FailuresVisible'
  BY <1>2 DEF FailuresVisible
<1> QED
  BY <1>4, <1>5, <1>6, <1>7, <1>8, <1>9, <1>10 DEF IInv

(* Behind an item that counts nothing. *)
LEMMA AdvanceStep ==
    ASSUME IInv, main = "ready", Current.kind \in {"check", "enter", "leave", "need"},
           Continue, stack' = There.open, Current.kind = "need" => Sum(completed) # 0,
           UNCHANGED <<config, event, collected, faults, poolVars, tally>>
    PROVE  IInv'
<1>1. Typed /\ Placed /\ Staffed /\ Progress /\ Tallies /\ Measures /\ event \in BOOLEAN
  BY TypeParts DEF IInv
<1>2. /\ main' = "ready" /\ reason' = reason /\ at' = at + 1 /\ op' = 0
      /\ config' = config /\ collected' = collected /\ faults' = faults
  BY DEF Continue
<1>3. /\ Plan' = Plan /\ Here' = There /\ at' \in 1..Len(Plan') /\ Current' \in Items
      /\ Current'.ops > 0 /\ Len(Plan) \in Nat
      /\ Here \in Points /\ There \in Points /\ Moves(Here, Current, There)
  BY <1>1, <1>2, NextPlace, PlanHere
<1>4. Types'
  <2>1. There.open \in Seq(Blocks)
    BY <1>3 DEF Points
  <2>2. Typed'
    BY <1>1, <1>2, <1>3, <2>1 DEF Typed, poolVars, tally
  <2>3. event' \in BOOLEAN
    BY <1>1, Zenon
  <2> QED
    BY <2>2, <2>3, Zenon DEF Types
<1>5. Placed'
  BY <1>1, <1>2, <1>3 DEF Placed
<1>6. Staffed'
  BY <1>1, <1>2, Idle, StaffedKept
<1>7. Progress'
  BY <1>1, ProgressKept
<1>8. Tallies'
  <2>1. SUFFICES ASSUME Undisturbed'
                 PROVE  Tallies'
    BY DEF Tallies
  <2>2. Undisturbed
    BY <1>2, <2>1 DEF Undisturbed, tally
  <2>3. /\ \A k \in Tallied \ {"need"} : There.done[k] = Here.done[k]
        /\ Here.done["need"] \in Nat
        /\ There.done["need"] = Here.done["need"] + (IF Current.kind = "need" THEN 1 ELSE 0)
    <3>1. There.done = Plus(Here.done, Effect(Current)) /\ Here.done \in Counts
      BY <1>3 DEF Moves, Points
    <3>2. \A k \in Tallied \ {"need"} : Effect(Current)[k] = 0
      BY DEF Effect, Tallied
    <3>3. Effect(Current)["need"] = IF Current.kind = "need" THEN 1 ELSE 0
      BY DEF Effect, Tallied
    <3>4. \A k \in Tallied : There.done[k] = Here.done[k] + Effect(Current)[k]
                             /\ Here.done[k] \in Nat
      BY <3>1 DEF Plus, Counts
    <3>5. "need" \in Tallied
      BY DEF Tallied
    <3> QED
      BY <3>2, <3>3, <3>4, <3>5
  <2>4. \A k : OfItem(k) = 0 /\ OfItem(k)' = 0
    BY <1>2 DEF OfItem
  <2>5. BatchSize' = BatchSize
    BY <1>2 DEF BatchSize, PerTask
  <2>6. /\ ok' = ok /\ bad' = bad /\ completed' = completed
        /\ ok \in [Counters -> Nat] /\ Sum(completed) <= ok["operation"]
        /\ faults = Sum(bad)
    BY <1>1, <2>2 DEF Tallies, tally, poolVars, Typed
  <2>7. There.done["need"] > 0 => ok["operation"] > 0
    <3>1. ok["operation"] \in Nat
      BY <2>6 DEF Counters
    <3>2. Sum(completed) \in Nat
      <4>1. completed \in [Tasks -> Nat]
        BY <1>1, Constants DEF Typed
      <4> QED
        BY <4>1, SumNat, Constants
    <3>3. Here.done["need"] > 0 => ok["operation"] > 0
      BY <1>1, <2>2 DEF Tallies
    <3> QED
      BY <2>3, <2>6, <3>1, <3>2, <3>3
  <2> QED
    BY <1>1, <1>2, <1>3, <2>2, <2>3, <2>4, <2>5, <2>6, <2>7 DEF Tallies, Tallied
<1>9. Measures'
  BY <1>1, <1>2, <1>3 DEF Measures, poolVars, tally, Unfinished, Typed
<1>10. FailuresVisible'
  BY <1>2 DEF FailuresVisible
<1> QED
  BY <1>4, <1>5, <1>6, <1>7, <1>8, <1>9, <1>10 DEF IInv

-----------------------------------------------------------------------------
(* The steps of the main thread. *)

LEMMA RequestCancellationStep == IInv /\ RequestCancellation => IInv'
<1>1. SUFFICES ASSUME IInv, RequestCancellation
               PROVE  IInv'
  OBVIOUS
<1> USE DEF RequestCancellation
<1>2. Typed /\ Placed /\ Staffed /\ Progress /\ Tallies /\ Measures /\ FailuresVisible
  BY <1>1, TypeParts DEF IInv
<1>3. event' \in BOOLEAN
  BY <1>1, Zenon
<1>4. UNCHANGED <<config, main, at, op, stack, reason, collected, faults, poolVars, tally>>
  BY <1>1
<1>5. Plan' = Plan /\ Current' = Current /\ Here' = Here
  BY <1>4, SamePlace
<1>6. Types'
  <2>1. Typed'
    BY <1>2, <1>4, <1>5 DEF Typed, poolVars, tally
  <2> QED
    BY <1>3, <2>1, Zenon DEF Types
<1>7. Placed'
  BY <1>2, <1>4, <1>5 DEF Placed
<1>8. Staffed'
  BY <1>2, <1>4, StaffedKept DEF Staffed
<1>9. Progress'
  BY <1>2, <1>4, ProgressKept
<1>10. Tallies'
  BY <1>2, <1>4, <1>5 DEF Tallies, Undisturbed, OfItem, BatchSize, PerTask, Attempted,
                          poolVars, tally
<1>11. Measures'
  BY <1>2, <1>4, <1>5 DEF Measures, poolVars, tally, Unfinished
<1>12. FailuresVisible'
  BY <1>2, <1>4 DEF FailuresVisible, tally
<1> QED
  BY <1>6, <1>7, <1>8, <1>9, <1>10, <1>11, <1>12 DEF IInv

LEMMA CheckTokenStep == IInv /\ CheckToken => IInv'
<1>1. SUFFICES ASSUME IInv, CheckToken
               PROVE  IInv'
  OBVIOUS
<1> USE DEF CheckToken
<1>2. main = "ready" /\ Current.kind = "check"
      /\ UNCHANGED <<config, stack, event, collected, faults, poolVars, tally>>
  BY <1>1
<1>3. There.open = stack
  BY <1>1, <1>2, PlanHere, TypeParts DEF IInv, Placed, Moves
<1>4. CASE Raise("cancelled")
  BY <1>1, <1>2, <1>4, RaiseStep
<1>5. CASE Continue
  BY <1>1, <1>2, <1>3, <1>5, AdvanceStep
<1> QED
  BY <1>1, <1>4, <1>5

LEMMA EnterResourceStep == IInv /\ EnterResource => IInv'
<1>1. SUFFICES ASSUME IInv, EnterResource
               PROVE  IInv'
  OBVIOUS
<1> USE DEF EnterResource
<1>2. main = "ready" /\ Current.kind = "enter"
      /\ UNCHANGED <<config, event, collected, faults, poolVars, tally>>
  BY <1>1
<1>3. There.open = stack \o Current.holds
  BY <1>1, <1>2, PlanHere, TypeParts DEF IInv, Placed, Moves
<1>4. CASE Continue /\ stack' = stack \o Current.holds
  BY <1>1, <1>2, <1>3, <1>4, AdvanceStep
<1>5. CASE Raise("failed") /\ UNCHANGED stack
  BY <1>1, <1>2, <1>5, RaiseStep
<1> QED
  BY <1>1, <1>4, <1>5

LEMMA LeaveResourceStep == IInv /\ LeaveResource => IInv'
<1>1. SUFFICES ASSUME IInv, LeaveResource
               PROVE  IInv'
  OBVIOUS
<1> USE DEF LeaveResource
<1>2. main = "ready" /\ Current.kind = "leave"
      /\ UNCHANGED <<config, event, collected, faults, poolVars, tally>>
  BY <1>1
<1>3. There.open = Front(stack)
  BY <1>1, <1>2, PlanHere, TypeParts DEF IInv, Placed, Moves
<1>4. CASE Continue /\ stack' = Front(stack)
  BY <1>1, <1>2, <1>3, <1>4, AdvanceStep
<1>5. CASE Raise("failed") /\ UNCHANGED stack
  BY <1>1, <1>2, <1>5, RaiseStep
<1>6. CASE Raise("failed") /\ stack' = Front(stack)
  <2>1. stack # <<>>
    BY <1>1, <1>2, PlanHere, TypeParts DEF IInv, Placed, Moves
  <2> QED
    BY <1>1, <1>2, <1>6, <2>1, RaiseStep
<1> QED
  BY <1>1, <1>4, <1>5, <1>6

LEMMA NeedCompletedStep == IInv /\ NeedCompleted => IInv'
<1>1. SUFFICES ASSUME IInv, NeedCompleted
               PROVE  IInv'
  OBVIOUS
<1> USE DEF NeedCompleted
<1>2. main = "ready" /\ Current.kind = "need"
      /\ UNCHANGED <<config, stack, event, collected, faults, poolVars, tally>>
  BY <1>1
<1>3. There.open = stack
  BY <1>1, <1>2, PlanHere, TypeParts DEF IInv, Placed, Moves
<1>4. CASE BatchCompleted = 0
  BY <1>1, <1>2, <1>4, RaiseStep
<1>5. CASE BatchCompleted # 0
  <2>1. Sum(completed) # 0
    BY <1>5 DEF BatchCompleted, Sum
  <2> QED
    BY <1>1, <1>2, <1>3, <1>5, <2>1, AdvanceStep
<1> QED
  BY <1>4, <1>5

LEMMA BeginOperationStep == IInv /\ BeginOperation => IInv'
<1>1. SUFFICES ASSUME IInv, BeginOperation
               PROVE  IInv'
  OBVIOUS
<1> USE DEF BeginOperation
<1>2. main = "ready" /\ Current.kind = "serial"
      /\ UNCHANGED <<config, event, collected, faults, poolVars, tally>>
  BY <1>1
<1>3. CASE Raise("cancelled") /\ UNCHANGED stack
  BY <1>1, <1>2, <1>3, RaiseStep
<1>4. CASE main' = "working" /\ stack' = stack \o Current.holds /\ UNCHANGED <<at, op, reason>>
  <2>1. Typed /\ Placed /\ Staffed /\ Progress /\ Tallies /\ Measures /\ event \in BOOLEAN
    BY <1>1, TypeParts DEF IInv
  <2>2. Plan' = Plan /\ Current' = Current /\ Here' = Here
    BY <1>2, <1>4, SamePlace
  <2>3. Types'
    <3>1. Current.holds \in Seq(Blocks)
      BY <2>1, PlanHere DEF Items
    <3>2. stack' \in Seq(Blocks)
      BY <1>4, <2>1, <3>1 DEF Typed
    <3>3. Typed'
      BY <1>2, <1>4, <2>1, <2>2, <3>2 DEF Typed, poolVars, tally
    <3>4. event' \in BOOLEAN
      BY <1>2, <2>1, Zenon
    <3> QED
      BY <3>3, <3>4, Zenon DEF Types
  <2>4. Placed'
    BY <1>2, <1>4, <2>1, <2>2 DEF Placed
  <2>5. Staffed'
    BY <1>2, <1>4, <2>1, Idle, StaffedKept
  <2>6. Progress'
    BY <1>2, <2>1, ProgressKept
  <2>7. Tallies'
    BY <1>2, <1>4, <2>1, <2>2 DEF Tallies, Undisturbed, OfItem, BatchSize, PerTask,
                                  poolVars, tally
  <2>8. Measures'
    BY <1>2, <1>4, <2>1, <2>2 DEF Measures, poolVars, tally, Unfinished
  <2>9. FailuresVisible'
    BY <1>4 DEF FailuresVisible
  <2> QED
    BY <2>3, <2>4, <2>5, <2>6, <2>7, <2>8, <2>9 DEF IInv
<1> QED
  BY <1>1, <1>3, <1>4

(* An operation of a loop is over, and counted under the name of its loop.   *)
OperationCounted ==
    /\ ok' \in [Counters -> Nat] /\ bad' \in [Counters -> Nat] /\ faults' \in Nat
    /\ \A k \in Counters :
          ok'[k] + bad'[k] = ok[k] + bad[k] + (IF Current.onError = k THEN 1 ELSE 0)
    /\ ok'["operation"] = ok["operation"] /\ bad'["operation"] = bad["operation"]
    /\ faults' + Sum(bad) = faults + Sum(bad')
    /\ Current.onError = "abort" => bad' = bad /\ faults' = faults

LEMMA OperationOverStep ==
    ASSUME IInv, main = "working", NextOperation, Release, OperationCounted,
           UNCHANGED <<config, event, collected, poolVars, measured, sample>>
    PROVE  IInv'
<1>1. Typed /\ Placed /\ Staffed /\ Progress /\ Tallies /\ Measures /\ event \in BOOLEAN
  BY TypeParts DEF IInv
<1>2. /\ main' = "ready" /\ reason' = reason /\ config' = config /\ collected' = collected
      /\ Current.kind = "serial" /\ reason = "none" /\ op \in Nat /\ op < Current.ops
  BY <1>1 DEF NextOperation, Continue, Placed, Typed
<1>3. /\ Len(Plan) \in Nat /\ Current \in Items
      /\ Here \in Points /\ There \in Points /\ Moves(Here, Current, There)
      /\ config.profile = "general" => Current \in PlainItems
  BY <1>1, PlanHere
<1>4. Current.ops \in Nat \ {0} /\ Current.onError \in
        {"abort", "download", "upload", "ping", "warmup"}
  BY <1>3 DEF Items
<1>5. \/ /\ op + 1 < Current.ops /\ op' = op + 1 /\ at' = at
         /\ Plan' = Plan /\ Current' = Current /\ Here' = Here
      \/ /\ op + 1 = Current.ops /\ op' = 0 /\ at' = at + 1
         /\ Plan' = Plan /\ Here' = There /\ Current' \in Items
         /\ Current'.ops \in Nat \ {0} /\ at' \in 1..Len(Plan')
  <2>1. CASE op + 1 < Current.ops
    BY <1>2, <2>1, SamePlace DEF NextOperation
  <2>2. CASE ~(op + 1 < Current.ops)
    <3>1. op' = 0 /\ at' = at + 1
      BY <2>2 DEF NextOperation, Continue
    <3>2. op + 1 = Current.ops
      BY <1>2, <1>4, <2>2
    <3>3. Plan' = Plan /\ Here' = There /\ Current' \in Items /\ at' \in 1..Len(Plan')
      BY <1>1, <1>2, <3>1, NextPlace
    <3>4. Current'.ops \in Nat \ {0}
      BY <3>3 DEF Items
    <3> QED
      BY <3>1, <3>2, <3>3, <3>4
  <2> QED
    BY <2>1, <2>2
<1>6. stack' = Here.open /\ There.open = Here.open /\ stack' \in Seq(Blocks)
  <2>1. There.open = Here.open /\ Here.open \in Seq(Blocks)
    BY <1>2, <1>3 DEF Moves, Points
  <2>2. stack = Here.open \o Current.holds
    BY <1>1, <1>2 DEF Placed
  <2>3. Current.holds = <<>> \/ \E b \in Blocks \ {"pool"} : Current.holds = <<b>>
    BY <1>2, <1>3 DEF Items
  <2>4. SubSeq(stack, 1, Len(stack) - Len(Current.holds)) = Here.open
    <3> DEFINE s == Here.open
    <3>1. s \in Seq(Blocks)
      BY <2>1
    <3> HIDE DEF s
    <3>2. CASE Current.holds = <<>>
      <4>1. SubSeq(s \o <<>>, 1, Len(s \o <<>>) - Len(<<>>)) = s
        BY <3>1
      <4> QED
        BY <2>2, <3>2, <4>1 DEF s
    <3>3. ASSUME NEW b \in Blocks, Current.holds = <<b>>
          PROVE  SubSeq(stack, 1, Len(stack) - Len(Current.holds)) = s
      <4>1. SubSeq(s \o <<b>>, 1, Len(s \o <<b>>) - Len(<<b>>)) = s
        BY <3>1
      <4> QED
        BY <2>2, <3>3, <4>1 DEF s
    <3> QED
      BY <2>3, <3>2, <3>3 DEF s
  <2> QED
    BY <2>1, <2>4 DEF Release
<1>7. Types'
  <2>1. at' \in 1..Len(Plan') /\ op' \in Nat
    BY <1>1, <1>2, <1>5 DEF Typed
  <2>2. /\ UNCHANGED <<config, future, completed, collected, job, step, left, lock, measured>>
        /\ ok' \in [Counters -> Nat] /\ bad' \in [Counters -> Nat] /\ faults' \in Nat
    BY DEF poolVars, OperationCounted
  <2>3. Typed'
    BY <1>1, <1>2, <1>6, <2>1, <2>2 DEF Typed
  <2>4. event' \in BOOLEAN
    BY <1>1, Zenon
  <2> QED
    BY <2>3, <2>4, Zenon DEF Types
<1>8. Placed'
  BY <1>1, <1>2, <1>4, <1>5, <1>6 DEF Placed
<1>9. Staffed'
  BY <1>1, <1>2, Idle, StaffedKept
<1>10. Progress'
  BY <1>1, ProgressKept
<1>11. Tallies'
  <2>1. SUFFICES ASSUME Undisturbed'
                 PROVE  Tallies'
    BY DEF Tallies
  <2>2. Undisturbed
    BY <1>2, <2>1 DEF Undisturbed
  <2>3. \A k \in Tallied : /\ There.done[k] = Here.done[k] + Effect(Current)[k]
                           /\ Here.done[k] \in Nat
    BY <1>3 DEF Moves, Points, Plus, Counts
  <2>4. \A k \in Tallied : Effect(Current)[k] = IF Current.onError = k THEN Current.ops ELSE 0
    BY <1>2 DEF Effect, Tallied
  <2>5. \A k \in Tallied : /\ Here.done[k] \in Nat /\ OfItem(k) \in Nat
                           /\ Here'.done[k] + OfItem(k)'
                                = Here.done[k] + OfItem(k)
                                  + (IF Current.onError = k THEN 1 ELSE 0)
    <3>1. SUFFICES ASSUME NEW k \in Tallied
                   PROVE  /\ Here.done[k] \in Nat /\ OfItem(k) \in Nat
                          /\ Here'.done[k] + OfItem(k)'
                               = Here.done[k] + OfItem(k)
                                 + (IF Current.onError = k THEN 1 ELSE 0)
      OBVIOUS
    <3>2. OfItem(k) = IF Current.onError = k THEN op ELSE 0
      BY <1>2 DEF OfItem
    <3>3. CASE op' = op + 1 /\ Current' = Current /\ Here' = Here
      <4>1. OfItem(k)' = IF Current.onError = k THEN op + 1 ELSE 0
        BY <1>2, <3>3 DEF OfItem
      <4> QED
        BY <1>2, <2>3, <3>2, <3>3, <4>1
    <3>4. CASE op + 1 = Current.ops /\ op' = 0 /\ Here' = There
      <4>1. OfItem(k)' = 0
        BY <3>4 DEF OfItem
      <4> QED
        BY <1>2, <2>3, <2>4, <3>2, <3>4, <4>1
    <3> QED
      BY <1>5, <3>3, <3>4
  <2>6. Here'.done["batch"] = Here.done["batch"] /\ Here'.done["need"] = Here.done["need"]
    BY <1>4, <1>5, <2>3, <2>4 DEF Tallied
  <2>7. BatchSize' = BatchSize
    BY <1>2 DEF BatchSize, PerTask
  <2>8. completed' = completed /\ faults = Sum(bad) /\ Sum(bad) \in Nat /\ Sum(bad') \in Nat
    BY <1>1, <1>2, <2>2, SumNat, CountersFinite DEF Tallies, Typed, poolVars, OperationCounted
  <2>9. faults' = Sum(bad') /\ ok'["operation"] = ok["operation"]
        /\ bad'["operation"] = bad["operation"]
    BY <1>1, <2>8 DEF OperationCounted, Typed
  <2>10. \A k \in Counters : ok[k] \in Nat /\ bad[k] \in Nat /\ ok'[k] \in Nat /\ bad'[k] \in Nat
    BY <1>1 DEF Typed, OperationCounted
  <2>11. \A k \in {"download", "upload", "warmup"} :
            ok'[k] + bad'[k] = Here'.done[k] + OfItem(k)'
    <3>1. SUFFICES ASSUME NEW k \in {"download", "upload", "warmup"}
                   PROVE  ok'[k] + bad'[k] = Here'.done[k] + OfItem(k)'
      OBVIOUS
    <3>2. k \in Tallied /\ k \in Counters /\ ok[k] + bad[k] = Here.done[k] + OfItem(k)
      BY <1>1, <2>2 DEF Tallies, Tallied, Counters
    <3>3. ok'[k] + bad'[k] = ok[k] + bad[k] + (IF Current.onError = k THEN 1 ELSE 0)
      BY <3>2 DEF OperationCounted
    <3> QED
      BY <2>5, <2>10, <3>2, <3>3
  <2> QED
    BY <1>1, <1>2, <2>2, <2>6, <2>7, <2>8, <2>9, <2>11 DEF Tallies
<1>12. Measures'
  <2>1. config.profile = "general" => Current.onError = "abort"
    BY <1>3 DEF PlainItems
  <2>2. config.profile # "general" /\ at' < Len(Plan) => measured = <<>>
    BY <1>1, <1>5 DEF Measures, Typed
  <2> QED
    BY <1>1, <1>2, <1>5, <2>1, <2>2 DEF Measures, poolVars, Unfinished, OperationCounted
<1>13. FailuresVisible'
  BY <1>2 DEF FailuresVisible
<1> QED
  BY <1>7, <1>8, <1>9, <1>10, <1>11, <1>12, <1>13 DEF IInv

LEMMA CounterOfItem ==
    ASSUME Typed
    PROVE  Current.onError \in {"abort", "download", "upload", "ping", "warmup"}
BY PlanHere DEF Items

LEMMA OperationSucceedsStep == IInv /\ OperationSucceeds => IInv'
<1>1. SUFFICES ASSUME IInv, OperationSucceeds
               PROVE  IInv'
  OBVIOUS
<1> USE DEF OperationSucceeds
<1>2. main = "working" /\ NextOperation /\ Release
      /\ UNCHANGED <<config, event, collected, faults, poolVars, bad, measured, sample>>
  BY <1>1
<1>3. Typed
  BY <1>1, TypeParts DEF IInv
<1>4. Sum(bad') = Sum(bad)
  BY <1>2
<1>5. CASE Counted
  <2> DEFINE c == Current.onError
  <2>1. ok' = [ok EXCEPT ![c] = @ + 1]
    BY <1>1, <1>5 DEF Count
  <2>2. c \in {"download", "upload", "ping", "warmup"}
    BY <1>3, <1>5, CounterOfItem DEF Counted
  <2>3. ok \in [Counters -> Nat] /\ bad \in [Counters -> Nat] /\ faults \in Nat
    BY <1>3 DEF Typed
  <2> HIDE DEF c
  <2>4. ok' \in [Counters -> Nat]
        /\ \A k \in Counters : ok'[k] = ok[k] + (IF c = k THEN 1 ELSE 0)
    BY <2>1, <2>2, <2>3 DEF Counters
  <2>5. \A k \in Counters :
           ok'[k] + bad'[k] = ok[k] + bad[k] + (IF c = k THEN 1 ELSE 0)
    BY <1>2, <2>3, <2>4
  <2>6. ok'["operation"] = ok["operation"] /\ bad'["operation"] = bad["operation"]
    BY <1>2, <2>2, <2>3, <2>4 DEF Counters
  <2>7. bad' = bad /\ faults' = faults
    BY <1>2
  <2>8. OperationCounted
    BY <1>4, <2>3, <2>4, <2>5, <2>6, <2>7 DEF OperationCounted, c
  <2> QED
    BY <1>1, <1>2, <2>8, OperationOverStep
<1>6. CASE ~Counted
  <2>1. ok' = ok /\ bad' = bad /\ faults' = faults /\ Current.onError = "abort"
    BY <1>1, <1>6 DEF Counted
  <2>2. ok \in [Counters -> Nat] /\ bad \in [Counters -> Nat] /\ faults \in Nat
    BY <1>3 DEF Typed
  <2>3. \A k \in Counters : k # "abort" /\ ok[k] \in Nat /\ bad[k] \in Nat
    BY <2>2 DEF Counters
  <2>4. OperationCounted
    BY <1>4, <2>1, <2>2, <2>3 DEF OperationCounted
  <2> QED
    BY <1>1, <1>2, <2>4, OperationOverStep
<1> QED
  BY <1>5, <1>6

LEMMA OperationFailsStep == IInv /\ OperationFails => IInv'
<1>1. SUFFICES ASSUME IInv, OperationFails
               PROVE  IInv'
  OBVIOUS
<1> USE DEF OperationFails
<1>2. main = "working"
      /\ UNCHANGED <<config, event, collected, poolVars, ok, measured, sample>>
  BY <1>1
<1>3. Typed /\ Current.kind = "serial"
  BY <1>1, <1>2, TypeParts DEF IInv, Placed
<1>4. CASE /\ Counted /\ NextOperation /\ Release
           /\ bad' = Count(bad) /\ faults' = faults + 1
  <2> DEFINE c == Current.onError
  <2>1. bad' = [bad EXCEPT ![c] = @ + 1] /\ faults' = faults + 1 /\ NextOperation /\ Release
    BY <1>4 DEF Count
  <2>2. c \in {"download", "upload", "ping", "warmup"}
    BY <1>3, <1>4, CounterOfItem DEF Counted
  <2>3. ok \in [Counters -> Nat] /\ bad \in [Counters -> Nat] /\ faults \in Nat
    BY <1>3 DEF Typed
  <2> HIDE DEF c
  <2>4. bad' \in [Counters -> Nat]
        /\ \A k \in Counters : bad'[k] = bad[k] + (IF c = k THEN 1 ELSE 0)
    BY <2>1, <2>2, <2>3 DEF Counters
  <2>5. \A k \in Counters :
           ok'[k] + bad'[k] = ok[k] + bad[k] + (IF c = k THEN 1 ELSE 0)
    BY <1>2, <2>3, <2>4
  <2>6. ok'["operation"] = ok["operation"] /\ bad'["operation"] = bad["operation"]
    BY <1>2, <2>2, <2>3, <2>4 DEF Counters
  <2>7. Sum(bad') = Sum(bad) - bad[c] + bad'[c]
    <3>1. c \in Counters /\ bad \in [Counters -> Int] /\ bad' \in [Counters -> Int]
      BY <2>2, <2>3, <2>4 DEF Counters
    <3>2. \A k \in Counters : k # c => bad'[k] = bad[k]
      BY <2>3, <2>4
    <3> QED
      BY <3>1, <3>2, SumExcept, CountersFinite
  <2>8. faults' + Sum(bad) = faults + Sum(bad')
    <3>1. Sum(bad) \in Nat /\ Sum(bad') \in Nat
      BY <2>3, <2>4, SumNat, CountersFinite
    <3>2. c \in Counters /\ bad[c] \in Nat /\ bad'[c] = bad[c] + 1
      BY <2>2, <2>3, <2>4 DEF Counters
    <3> QED
      BY <2>1, <2>3, <2>7, <3>1, <3>2
  <2>9. ok' \in [Counters -> Nat] /\ faults' \in Nat /\ c # "abort"
    BY <1>2, <2>1, <2>2, <2>3
  <2>10. OperationCounted
    BY <2>4, <2>5, <2>6, <2>8, <2>9 DEF OperationCounted, c
  <2> QED
    BY <1>1, <1>2, <2>1, <2>10, OperationOverStep
<1>5. CASE Raise("failed") /\ UNCHANGED <<stack, bad, faults>>
  <2>1. UNCHANGED <<config, stack, event, collected, faults, poolVars, tally>>
    BY <1>2, <1>5 DEF tally
  <2> QED
    BY <1>1, <1>2, <1>3, <1>5, <2>1, RaiseStep
<1> QED
  BY <1>1, <1>4, <1>5

LEMMA OperationCancelledStep == IInv /\ OperationCancelled => IInv'
<1>1. SUFFICES ASSUME IInv, OperationCancelled
               PROVE  IInv'
  OBVIOUS
<1>2. main = "working" /\ Raise("cancelled")
      /\ UNCHANGED <<config, stack, event, collected, faults, poolVars, tally>>
  BY <1>1 DEF OperationCancelled
<1>3. Current.kind = "serial"
  BY <1>1, <1>2 DEF IInv, Placed
<1> QED
  BY <1>1, <1>2, <1>3, RaiseStep

LEMMA SubmitStep == IInv /\ Submit => IInv'
<1>1. SUFFICES ASSUME IInv, Submit
               PROVE  IInv'
  OBVIOUS
<1>2. Typed /\ Placed /\ Staffed /\ Progress /\ Tallies /\ Measures /\ event \in BOOLEAN
  BY <1>1, TypeParts DEF IInv
<1>3. /\ main = "ready" /\ Current.kind = "batch"
      /\ main' = "collect" /\ collected' = {}
      /\ future' = [t \in Tasks |-> "queued"] /\ completed' = [t \in Tasks |-> 0]
      /\ UNCHANGED <<config, at, op, stack, reason, event, faults, job, step, left, lock>>
      /\ UNCHANGED <<ok, bad, measured, sample>>
  BY <1>1 DEF Submit, tally
<1>4. Plan' = Plan /\ Current' = Current /\ Here' = Here
  BY <1>3, SamePlace
<1>5. \A w \in Workers : job[w] = 0 /\ step[w] = "idle"
  BY <1>2, <1>3, Idle
<1>6. Contains(stack, "pool") /\ config.profile # "general"
  <2>1. Contains(Here.open, "pool")
    BY <1>2, <1>3, PlanHere DEF Moves
  <2>2. config.profile = "general" => Current.kind # "batch"
    BY <1>2, PlanHere DEF PlainItems
  <2> QED
    BY <1>2, <1>3, <2>1, <2>2 DEF Placed
<1>7. Types'
  <2>1. Typed'
    BY <1>2, <1>3, <1>4, Constants DEF Typed
  <2>2. event' \in BOOLEAN
    BY <1>2, <1>3, Zenon
  <2> QED
    BY <2>1, <2>2, Zenon DEF Types
<1>8. Placed'
  BY <1>2, <1>3, <1>4 DEF Placed
<1>9. Staffed'
  <2>1. \A w \in Workers : job'[w] = 0 /\ step'[w] = "idle"
    BY <1>3, <1>5
  <2>2. \A w \in Workers : lock' # w
    BY <1>2, <1>3, <1>5 DEF Staffed
  <2> QED
    BY <1>3, <1>6, <2>1, <2>2 DEF Staffed, Unfinished
<1>10. Progress'
  <2>1. PerTask' = PerTask /\ PerTask \in Nat
    BY <1>3, PerTaskType DEF PerTask
  <2> QED
    BY <1>3, <1>5, <2>1 DEF Progress
<1>11. Tallies'
  <2>1. SUFFICES ASSUME Undisturbed'
                 PROVE  Tallies'
    BY DEF Tallies
  <2>2. Undisturbed
    BY <1>3, <2>1 DEF Undisturbed
  <2>3. BatchSize' = BatchSize /\ \A k : OfItem(k)' = OfItem(k)
    BY <1>3, <1>4 DEF BatchSize, PerTask, OfItem
  <2>4. Sum(completed') = 0
    BY <1>3, Constants, SumZero
  <2>5. Attempted' = [t \in Tasks |-> 0]
    <3>1. \A t \in Tasks : future'[t] = "queued"
      BY <1>3
    <3>2. \A t \in Tasks : \A w \in Workers : job'[w] # t
      BY <1>3, <1>5, Constants
    <3> QED
      BY <3>1, <3>2 DEF Attempted, AttemptsOf
  <2>6. Sum(Attempted') = 0
    BY <2>5, Constants, SumZero
  <2>7. faults = Sum(bad) /\ faults \in Nat
    BY <1>2, <1>3, <2>2 DEF Tallies, Typed
  <2>8. faults' + Sum(completed') = Sum(bad') + Sum(Attempted')
    BY <1>3, <2>4, <2>6, <2>7
  <2> QED
    BY <1>2, <1>3, <1>4, <2>2, <2>3, <2>8 DEF Tallies
<1>12. Measures'
  BY <1>2, <1>3, <1>4, <1>6 DEF Measures
<1>13. FailuresVisible'
  BY <1>3 DEF FailuresVisible
<1> QED
  BY <1>7, <1>8, <1>9, <1>10, <1>11, <1>12, <1>13 DEF IInv

LEMMA CollectStep == IInv /\ Collect => IInv'
<1>1. SUFFICES ASSUME IInv, Collect
               PROVE  IInv'
  OBVIOUS
<1>2. Typed /\ Placed /\ Staffed /\ Progress /\ Tallies /\ Measures /\ event \in BOOLEAN
  BY <1>1, TypeParts DEF IInv
<1>3. /\ main = "collect" /\ Current.kind = "batch"
      /\ UNCHANGED <<config, stack, event, faults, poolVars, tally>>
  BY <1>1, <1>2 DEF Collect, Placed
<1>4. PICK t \in Awaited : /\ t \notin Unfinished
                           /\ IF event /\ config.profile = "web"
                              THEN Raise("cancelled") /\ UNCHANGED collected
                              ELSE TakeResult(t)
  BY <1>1 DEF Collect
<1>5. t \in Tasks
  BY <1>4 DEF Awaited
<1>6. CASE Raise("cancelled") /\ UNCHANGED collected
  BY <1>1, <1>3, <1>6, RaiseStep
<1>7. CASE Raise("failed") /\ UNCHANGED collected
  BY <1>1, <1>3, <1>7, RaiseStep
<1>8. CASE /\ future[t] = "done" /\ collected' = collected \cup {t}
           /\ UNCHANGED <<main, at, op, reason>>
  <2>1. Plan' = Plan /\ Current' = Current /\ Here' = Here
    BY <1>3, <1>8, SamePlace
  <2>2. Types'
    <3>1. collected' \subseteq Tasks
      BY <1>2, <1>5, <1>8 DEF Typed
    <3>2. Typed'
      BY <1>2, <1>3, <1>8, <2>1, <3>1 DEF Typed, poolVars, tally
    <3>3. event' \in BOOLEAN
      BY <1>2, <1>3, Zenon
    <3> QED
      BY <3>2, <3>3, Zenon DEF Types
  <2>3. Placed'
    BY <1>2, <1>3, <1>8, <2>1 DEF Placed
  <2>4. Staffed'
    <3>1. collected' \subseteq {u \in Tasks : future[u] = "done"}
      BY <1>2, <1>5, <1>8 DEF Staffed
    <3> QED
      BY <1>2, <1>3, <1>8, <3>1 DEF Staffed, poolVars, Unfinished
  <2>5. Progress'
    BY <1>2, <1>3, ProgressKept
  <2>6. Tallies'
    BY <1>2, <1>3, <1>8, <2>1 DEF Tallies, Undisturbed, OfItem, BatchSize, PerTask, Attempted,
                                  poolVars, tally
  <2>7. Measures'
    BY <1>2, <1>3, <1>8, <2>1 DEF Measures, poolVars, tally, Unfinished
  <2>8. FailuresVisible'
    BY <1>3, <1>8 DEF FailuresVisible
  <2> QED
    BY <2>2, <2>3, <2>4, <2>5, <2>6, <2>7, <2>8 DEF IInv
<1>9. future[t] \in {"none", "done", "error", "cancelled"}
  BY <1>2, <1>4, <1>5 DEF Typed, Unfinished
<1>10. CASE event /\ config.profile = "web"
  BY <1>4, <1>6, <1>10
<1>11. CASE ~(event /\ config.profile = "web")
  <2>1. TakeResult(t)
    BY <1>4, <1>11
  <2> QED
    BY <1>2, <1>3, <1>5, <1>6, <1>7, <1>8, <1>9, <2>1 DEF TakeResult, Staffed
<1> QED
  BY <1>10, <1>11

LEMMA PollFutureStep == IInv /\ PollFuture => IInv'
<1>1. SUFFICES ASSUME IInv, PollFuture
               PROVE  IInv'
  OBVIOUS
<1>2. /\ main = "collect" /\ (Raise("cancelled") \/ Raise("failed"))
      /\ UNCHANGED <<config, stack, event, collected, faults, poolVars, tally>>
  BY <1>1 DEF PollFuture
<1>3. Current.kind = "batch"
  BY <1>1, <1>2 DEF IInv, Placed
<1>4. CASE Raise("cancelled")
  BY <1>1, <1>2, <1>3, <1>4, RaiseStep
<1>5. CASE Raise("failed")
  BY <1>1, <1>2, <1>3, <1>5, RaiseStep
<1> QED
  BY <1>2, <1>4, <1>5

(* All results have been taken: what became of the tasks of the batch. *)
LEMMA BatchResults ==
    ASSUME IInv, main = "collect", collected = Tasks
    PROVE  /\ Unfinished = {} /\ \A w \in Workers : job[w] = 0
           /\ Sum(completed) \in Nat /\ Sum(completed) <= BatchSize
           /\ config.profile = "compute" => Sum(completed) = BatchSize
           /\ Undisturbed => faults + Sum(completed) = Sum(bad) + BatchSize
<1>1. Typed /\ Staffed /\ Progress /\ Tallies
  BY TypeParts DEF IInv
<1>2. \A t \in Tasks : future[t] = "done"
  BY <1>1 DEF Staffed
<1>3. \A w \in Workers : job[w] = 0
  BY <1>1, <1>2 DEF Staffed, Typed
<1>4. PerTask \in Nat /\ PerTask \in Int
  BY PerTaskType
<1>5. Sum([t \in Tasks |-> PerTask]) = BatchSize
  BY <1>4, SumConstant, Constants DEF BatchSize
<1>6. completed \in [Tasks -> Int] /\ completed \in [Tasks -> Nat]
  BY <1>1, Constants DEF Typed
<1>7. Sum(completed) \in Nat /\ Sum(completed) <= BatchSize
  <2> DEFINE all == [t \in Tasks |-> PerTask]
  <2>1. all \in [Tasks -> Int] /\ \A t \in Tasks : completed[t] <= all[t]
    BY <1>1, <1>4 DEF Progress
  <2>2. Sum(all) = BatchSize
    BY <1>5
  <2> HIDE DEF all
  <2>3. Sum(completed) <= Sum(all)
    BY <1>6, <2>1, SumMonotone, Constants
  <2> QED
    BY <1>6, <2>2, <2>3, SumNat, Constants
<1>8. config.profile = "compute" => Sum(completed) = BatchSize
  <2>1. SUFFICES ASSUME config.profile = "compute"
                 PROVE  Sum(completed) = BatchSize
    OBVIOUS
  <2>2. PerTask = 1
    BY <2>1, PerTaskType
  <2>3. \A t \in Tasks : completed[t] = PerTask
    BY <1>1, <1>2, <2>1, <2>2 DEF Progress
  <2>4. completed = [t \in Tasks |-> PerTask]
    BY <1>6, <2>3
  <2> QED
    BY <1>5, <2>4
<1>9. Undisturbed => faults + Sum(completed) = Sum(bad) + BatchSize
  <2>1. SUFFICES ASSUME Undisturbed
                 PROVE  faults + Sum(completed) = Sum(bad) + BatchSize
    OBVIOUS
  <2>2. Attempted = [t \in Tasks |-> PerTask]
    BY <1>2 DEF Attempted, AttemptsOf
  <2>3. Sum(Attempted) = BatchSize
    BY <1>5, <2>2
  <2> QED
    BY <1>1, <1>2, <2>1, <2>3 DEF Tallies
<1>10. Unfinished = {}
  BY <1>2 DEF Unfinished
<1> QED
  BY <1>3, <1>7, <1>8, <1>9, <1>10

LEMMA BatchDoneStep == IInv /\ BatchDone => IInv'
<1>1. SUFFICES ASSUME IInv, BatchDone
               PROVE  IInv'
  OBVIOUS
<1>2. Typed /\ Placed /\ Staffed /\ Progress /\ Tallies /\ Measures /\ event \in BOOLEAN
  BY <1>1, TypeParts DEF IInv
<1>3. /\ main = "collect" /\ collected = Tasks /\ Current.kind = "batch" /\ Continue
      /\ main' = "ready" /\ reason' = reason /\ at' = at + 1 /\ op' = 0
      /\ UNCHANGED <<config, stack, event, collected, faults, poolVars, measured, sample>>
  BY <1>1, <1>2 DEF BatchDone, Placed, Continue
<1>4. /\ Plan' = Plan /\ Here' = There /\ at' \in 1..Len(Plan') /\ Current' \in Items
      /\ Current'.ops > 0 /\ Len(Plan) \in Nat
      /\ Here \in Points /\ There \in Points /\ Moves(Here, Current, There)
      /\ There.open = stack /\ config.profile # "general"
  <2>1. Here \in Points /\ There \in Points /\ Moves(Here, Current, There) /\ Len(Plan) \in Nat
        /\ (config.profile = "general" => Current.kind # "batch")
    BY <1>2, PlanHere DEF PlainItems
  <2>2. There.open = stack
    BY <1>2, <1>3, <2>1 DEF Moves, Placed
  <2> QED
    BY <1>2, <1>3, <2>1, <2>2, NextPlace
<1>5. /\ Unfinished = {} /\ \A w \in Workers : job[w] = 0
      /\ Sum(completed) \in Nat /\ Sum(completed) <= BatchSize
      /\ config.profile = "compute" => Sum(completed) = BatchSize
      /\ Undisturbed => faults + Sum(completed) = Sum(bad) + BatchSize
  BY <1>1, <1>3, BatchResults
<1>6. BatchSize \in Nat /\ BatchSize > 0 /\ BatchSize' = BatchSize
  BY <1>3, PerTaskType DEF BatchSize, PerTask
<1> DEFINE n == Sum(completed)
<1>7. /\ ok' = [ok EXCEPT !["operation"] = @ + n]
      /\ bad' = [bad EXCEPT !["operation"] = @ + BatchSize - n]
  BY <1>1 DEF BatchDone, BatchCompleted, Sum, BatchSize
<1>8. /\ ok \in [Counters -> Nat] /\ bad \in [Counters -> Nat] /\ faults \in Nat
      /\ n \in Nat /\ n <= BatchSize
  BY <1>2, <1>5 DEF Typed
<1> HIDE DEF n
<1>9. /\ ok' \in [Counters -> Nat] /\ bad' \in [Counters -> Nat]
      /\ ok'["operation"] = ok["operation"] + n
      /\ bad'["operation"] = bad["operation"] + BatchSize - n
      /\ \A k \in Counters \ {"operation"} : ok'[k] = ok[k] /\ bad'[k] = bad[k]
      /\ ok["operation"] \in Nat /\ bad["operation"] \in Nat
  <2>1. ok["operation"] \in Nat /\ bad["operation"] \in Nat
    BY <1>8 DEF Counters
  <2>2. ok["operation"] + n \in Nat /\ bad["operation"] + BatchSize - n \in Nat
    BY <1>6, <1>8, <2>1
  <2> QED
    BY <1>7, <1>8, <2>1, <2>2 DEF Counters
<1>10. Types'
  <2>1. Typed'
    BY <1>2, <1>3, <1>4, <1>8, <1>9 DEF Typed, poolVars
  <2>2. event' \in BOOLEAN
    BY <1>2, <1>3, Zenon
  <2> QED
    BY <2>1, <2>2, Zenon DEF Types
<1>11. Placed'
  BY <1>2, <1>3, <1>4 DEF Placed
<1>12. Staffed'
  BY <1>2, <1>3, <1>5, StaffedKept
<1>13. Progress'
  BY <1>2, <1>3, ProgressKept
<1>14. Tallies'
  <2>1. SUFFICES ASSUME Undisturbed'
                 PROVE  Tallies'
    BY DEF Tallies
  <2>2. Undisturbed
    BY <1>3, <2>1 DEF Undisturbed
  <2>3. \A k \in Tallied : Here.done[k] \in Nat
          /\ There.done[k] = Here.done[k] + (IF k = "batch" THEN 1 ELSE 0)
    <3>1. \A k \in Tallied : /\ There.done[k] = Here.done[k] + Effect(Current)[k]
                             /\ Here.done[k] \in Nat
      BY <1>4 DEF Moves, Points, Plus, Counts
    <3>2. \A k \in Tallied : Effect(Current)[k] = IF k = "batch" THEN 1 ELSE 0
      BY <1>3 DEF Effect, Tallied
    <3> QED
      BY <3>1, <3>2
  <2>4. \A k : OfItem(k) = 0 /\ OfItem(k)' = 0
    BY <1>3 DEF OfItem
  <2>5. \A k \in {"download", "upload", "warmup"} : ok'[k] + bad'[k] = There.done[k] + 0
    <3>1. \A k \in {"download", "upload", "warmup"} :
             k \in Tallied /\ k \in Counters \ {"operation"} /\ k # "batch"
      BY DEF Tallied, Counters
    <3>2. \A k \in {"download", "upload", "warmup"} : ok[k] + bad[k] = Here.done[k] + 0
      BY <1>2, <2>2, <2>4 DEF Tallies
    <3> QED
      BY <1>9, <2>3, <3>1, <3>2
  <2>6. ok'["operation"] + bad'["operation"] = There.done["batch"] * BatchSize
    <3>1. "batch" \in Tallied
      BY DEF Tallied
    <3>2. There.done["batch"] = Here.done["batch"] + 1 /\ Here.done["batch"] \in Nat
      BY <2>3, <3>1
    <3>3. ok["operation"] + bad["operation"] = Here.done["batch"] * BatchSize
      BY <1>2, <2>2 DEF Tallies
    <3>4. \A a \in Nat : (a + 1) * BatchSize = a * BatchSize + BatchSize
      BY <1>6
    <3> QED
      BY <1>6, <1>8, <1>9, <3>2, <3>3, <3>4
  <2>7. faults' = Sum(bad')
    <3>1. "operation" \in Counters /\ bad \in [Counters -> Int] /\ bad' \in [Counters -> Int]
          /\ \A k \in Counters : k # "operation" => bad'[k] = bad[k]
      BY <1>8, <1>9 DEF Counters
    <3>2. Sum(bad') = Sum(bad) - bad["operation"] + bad'["operation"]
      BY <3>1, SumExcept, CountersFinite
    <3>3. Sum(bad) \in Nat
      BY <1>8, SumNat, CountersFinite
    <3>4. faults + n = Sum(bad) + BatchSize
      BY <1>5, <2>2 DEF n
    <3> QED
      BY <1>3, <1>6, <1>8, <1>9, <3>2, <3>3, <3>4
  <2>8. Sum(completed') <= ok'["operation"]
    <3>1. completed' = completed
      BY <1>3 DEF poolVars
    <3> QED
      BY <1>8, <1>9, <3>1 DEF n
  <2>9. There.done["need"] > 0 => ok'["operation"] > 0
    <3>1. "need" \in Tallied
      BY DEF Tallied
    <3>2. There.done["need"] = Here.done["need"]
      BY <2>3, <3>1
    <3>3. Here.done["need"] > 0 => ok["operation"] > 0
      BY <1>2, <2>2 DEF Tallies
    <3> QED
      BY <1>8, <1>9, <3>2, <3>3
  <2>10. config.profile = "compute" => bad'["operation"] = 0
    <3>1. config.profile = "compute" => bad["operation"] = 0 /\ n = BatchSize
      BY <1>2, <1>5, <2>2 DEF Tallies, n
    <3> QED
      BY <1>6, <1>8, <1>9, <3>1
  <2> QED
    BY <1>3, <1>4, <1>6, <2>4, <2>5, <2>6, <2>7, <2>8, <2>9, <2>10 DEF Tallies
<1>15. Measures'
  BY <1>2, <1>3, <1>4 DEF Measures, Typed
<1>16. FailuresVisible'
  BY <1>3 DEF FailuresVisible
<1> QED
  BY <1>10, <1>11, <1>12, <1>13, <1>14, <1>15, <1>16 DEF IInv

LEMMA AppendContains ==
    ASSUME NEW S, NEW s \in Seq(S), NEW x \in S, NEW y
    PROVE  Contains(Append(s, x), y) <=> Contains(s, y) \/ x = y
<1>1. /\ Len(Append(s, x)) = Len(s) + 1 /\ Append(s, x)[Len(s) + 1] = x /\ Len(s) \in Nat
      /\ \A i \in 1..Len(s) : Append(s, x)[i] = s[i]
  OBVIOUS
<1>2. 1..(Len(s) + 1) = 1..Len(s) \cup {Len(s) + 1}
  BY <1>1
<1> QED
  BY <1>1, <1>2 DEF Contains

LEMMA RecordStep == IInv /\ Record => IInv'
<1>1. SUFFICES ASSUME IInv, Record
               PROVE  IInv'
  OBVIOUS
<1>2. Typed /\ Placed /\ Staffed /\ Progress /\ Tallies /\ Measures /\ event \in BOOLEAN
  BY <1>1, TypeParts DEF IInv
<1>3. /\ main = "ready" /\ Current.kind \in {"measure", "skip"}
      /\ main' = "ready" /\ reason' = reason /\ at' = at + 1 /\ op' = 0
      /\ UNCHANGED <<config, stack, event, collected, faults, poolVars, ok, bad, sample>>
  BY <1>1 DEF Record, Continue
<1>4. measured' = Append(measured, IF Current.kind = "skip" THEN "skipped" ELSE "success")
  BY <1>1 DEF Record
<1>5. measured' \in Seq({"success", "failed", "skipped"})
      /\ (Contains(measured', "failed") <=> Contains(measured, "failed"))
  <2> DEFINE x == IF Current.kind = "skip" THEN "skipped" ELSE "success"
  <2>1. x \in {"success", "failed", "skipped"} /\ x # "failed"
    OBVIOUS
  <2>2. measured \in Seq({"success", "failed", "skipped"}) /\ measured' = Append(measured, x)
    BY <1>2, <1>4 DEF Typed
  <2> HIDE DEF x
  <2>3. measured' \in Seq({"success", "failed", "skipped"})
    BY <2>1, <2>2
  <2> QED
    BY <2>1, <2>2, <2>3, AppendContains
<1>6. /\ Plan' = Plan /\ Here' = There /\ at' \in 1..Len(Plan') /\ Current' \in Items
      /\ Current'.ops > 0 /\ Len(Plan) \in Nat
      /\ Here \in Points /\ There \in Points /\ Moves(Here, Current, There)
      /\ (config.profile # "general" => at = Len(Plan) - 1)
  BY <1>2, <1>3, PlanHere, NextPlace
<1>7. stack = There.open
  BY <1>2, <1>3, <1>6 DEF Moves, Placed
<1>8. Types'
  <2>1. Typed'
    BY <1>2, <1>3, <1>5, <1>6 DEF Typed, poolVars
  <2>2. event' \in BOOLEAN
    BY <1>2, <1>3, Zenon
  <2> QED
    BY <2>1, <2>2, Zenon DEF Types
<1>9. Placed'
  BY <1>2, <1>3, <1>6, <1>7 DEF Placed
<1>10. Staffed'
  BY <1>2, <1>3, Idle, StaffedKept
<1>11. Progress'
  BY <1>2, <1>3, ProgressKept
<1>12. Tallies'
  <2>1. Undisturbed' => Undisturbed
    BY <1>3, <1>5 DEF Undisturbed
  <2>2. \A k \in Tallied : There.done[k] = Here.done[k]
    <3>1. \A k \in Tallied : /\ There.done[k] = Here.done[k] + Effect(Current)[k]
                             /\ Here.done[k] \in Nat
      BY <1>6 DEF Moves, Points, Plus, Counts
    <3>2. \A k \in Tallied : Effect(Current)[k] = 0
      BY <1>3 DEF Effect, Tallied
    <3> QED
      BY <3>1, <3>2
  <2>3. \A k : OfItem(k) = 0 /\ OfItem(k)' = 0
    BY <1>3 DEF OfItem
  <2>4. BatchSize' = BatchSize /\ completed' = completed
    BY <1>3 DEF BatchSize, PerTask, poolVars
  <2> QED
    BY <1>2, <1>3, <1>6, <2>1, <2>2, <2>3, <2>4 DEF Tallies, Tallied
<1>13. Measures'
  BY <1>2, <1>3, <1>6 DEF Measures, poolVars, Unfinished
<1>14. FailuresVisible'
  BY <1>3 DEF FailuresVisible
<1> QED
  BY <1>8, <1>9, <1>10, <1>11, <1>12, <1>13, <1>14 DEF IInv

LEMMA UnwindStep == IInv /\ Unwind => IInv'
<1>1. SUFFICES ASSUME IInv, Unwind
               PROVE  IInv'
  OBVIOUS
<1>2. Typed /\ Placed /\ Staffed /\ Progress /\ Measures /\ event \in BOOLEAN
  BY <1>1, TypeParts DEF IInv
<1>3. /\ main = "unwind" /\ stack # <<>> /\ PoolIsQuiet /\ stack' = Front(stack)
      /\ reason' = reason \/ reason' = "failed"
      /\ UNCHANGED <<config, main, at, op, event, collected, faults, poolVars, tally>>
  BY <1>1 DEF Unwind
<1>4. Plan' = Plan /\ Current' = Current /\ Here' = Here
  BY <1>3, SamePlace
<1>5. stack \in Seq(Blocks) /\ Len(stack) \in Nat /\ Len(stack) > 0
  BY <1>2, <1>3 DEF Typed
<1>6. /\ stack' \in Seq(Blocks) /\ Len(stack') = Len(stack) - 1
      /\ \A i \in 1..(Len(stack) - 1) : stack'[i] = stack[i]
  BY <1>3, <1>5, FrontEntries
<1>7. Contains(stack, "pool") /\ Last(stack) # "pool" => Contains(stack', "pool")
  BY <1>5, <1>6 DEF Contains, Last
<1>8. Types'
  <2>1. Typed'
    BY <1>2, <1>3, <1>4, <1>6 DEF Typed, poolVars, tally
  <2>2. event' \in BOOLEAN
    BY <1>2, <1>3, Zenon
  <2> QED
    BY <2>1, <2>2, Zenon DEF Types
<1>9. Placed'
  BY <1>2, <1>3, <1>4 DEF Placed
<1>10. Staffed'
  <2>1. Unfinished # {} => main' \in {"collect", "unwind"} /\ Contains(stack', "pool")
    BY <1>2, <1>3, <1>7 DEF Staffed, PoolIsQuiet
  <2> QED
    BY <1>2, <1>3, <2>1, StaffedKept
<1>11. Progress'
  BY <1>2, <1>3, ProgressKept
<1>12. Tallies'
  BY <1>2, <1>3 DEF Tallies, Undisturbed, Placed
<1>13. Measures'
  BY <1>2, <1>3, <1>4 DEF Measures, poolVars, tally, Unfinished
<1>14. FailuresVisible'
  BY <1>3 DEF FailuresVisible
<1> QED
  BY <1>8, <1>9, <1>10, <1>11, <1>12, <1>13, <1>14 DEF IInv

(* A measurement that is running has an end. *)
LEMMA MeasurementAhead ==
    ASSUME Typed, Current.kind \notin {"measure", "skip", "end"}
    PROVE  NextMeasurement \in at..Len(Plan) /\ Plan[NextMeasurement].kind = "measure"
<1> DEFINE B == {i \in at..Len(Plan) : Plan[i].kind = "measure"}
<1>1. at \in 1..Len(Plan) /\ Len(Plan) \in Nat
  BY PlanHere DEF Typed
<1>2. B # {}
  <2>1. Closing(Plan)
    BY PlansWellFormed DEF Typed, WellFormed, Plan
  <2>2. PICK m \in 1..Len(Plan) : /\ Plan[m].kind = "measure"
                                  /\ \A i \in (m + 1)..Len(Plan) : Plan[i].kind \in {"skip", "end"}
    BY <2>1 DEF Closing
  <2>3. at \notin (m + 1)..Len(Plan)
    BY <2>2 DEF Current
  <2>4. m \in at..Len(Plan)
    BY <1>1, <2>3
  <2> QED
    BY <2>2, <2>4
<1>3. B \in SUBSET Nat
  BY <1>1
<1>4. PICK m \in B : \A k \in B : m <= k
  <2> HIDE DEF B
  <2> QED
    BY <1>2, <1>3, LeastNatural
<1>5. \A j \in at..(m - 1) : Plan[j].kind # "measure"
  <2>1. SUFFICES ASSUME NEW j \in at..(m - 1), Plan[j].kind = "measure"
                 PROVE  FALSE
    OBVIOUS
  <2>2. m \in Nat /\ m <= Len(Plan) /\ j \in Nat /\ j < m
    BY <1>1
  <2>3. j \in B
    BY <1>1, <2>1, <2>2
  <2> QED
    BY <1>4, <2>2, <2>3
<1>6. m \in at..Len(Plan) /\ Plan[m].kind = "measure"
  BY <1>4
<1> QED
  BY <1>5, <1>6 DEF NextMeasurement

LEMMA FailStep == IInv /\ Fail => IInv'
<1>1. SUFFICES ASSUME IInv, Fail
               PROVE  IInv'
  OBVIOUS
<1>2. Typed /\ Placed /\ Staffed /\ Progress /\ Measures /\ event \in BOOLEAN
  BY <1>1, TypeParts DEF IInv
<1>3. /\ main = "unwind" /\ stack = <<>> /\ reason = "failed"
      /\ measured' = Append(measured, "failed")
      /\ main' = "ready" /\ at' = NextMeasurement + 1 /\ op' = 0 /\ reason' = "none"
      /\ UNCHANGED <<config, stack, event, collected, faults, poolVars, ok, bad, sample>>
  BY <1>1 DEF Fail
<1> DEFINE m == NextMeasurement
<1>4. m \in at..Len(Plan) /\ Plan[m].kind = "measure"
  BY <1>2, <1>3, MeasurementAhead DEF Placed
<1>5. config \in Configurations /\ at \in 1..Len(Plans[config]) /\ Plan = Plans[config]
  BY <1>2 DEF Typed, Plan
<1>6. Len(Plan) \in Nat /\ Len(Plan) > 1
  BY <1>5, PlanAt
<1> HIDE DEF m
<1>7. m \in 1..Len(Plans[config])
  BY <1>4, <1>5, <1>6
<1>8. /\ PointsOf(config)[m + 1].open = <<>>
      /\ m # Len(Plan) /\ (config.profile # "general" => m = Len(Plan) - 1)
  <2>1. /\ Moves(PointsOf(config)[m], Plans[config][m], PointsOf(config)[m + 1])
        /\ Plans[config][m].kind = "end" <=> m = Len(Plans[config])
        /\ config.profile # "general" /\ Plans[config][m].kind \in {"measure", "skip"} =>
              m = Len(Plans[config]) - 1
    BY <1>5, <1>7, PlanAt
  <2> QED
    BY <1>4, <1>5, <2>1 DEF Moves
<1>9. m + 1 \in 1..Len(Plans[config])
  BY <1>5, <1>6, <1>7, <1>8
<1>10. Plans[config][m + 1].ops \in Nat \ {0}
  BY <1>5, <1>9, PlanAt DEF Items
<1>11. Plan' = Plan /\ Current' = Plan[m + 1] /\ Here' = PointsOf(config)[m + 1]
  BY <1>3 DEF Plan, Current, Here, m
<1>12. /\ measured' \in Seq({"success", "failed", "skipped"})
       /\ Contains(measured', "failed")
  <2>1. measured \in Seq({"success", "failed", "skipped"})
        /\ "failed" \in {"success", "failed", "skipped"}
    BY <1>2 DEF Typed
  <2>2. Contains(Append(measured, "failed"), "failed")
    BY <2>1, AppendContains
  <2> QED
    BY <1>3, <2>1, <2>2
<1>13. Types'
  <2>1. at' \in 1..Len(Plan')
    BY <1>3, <1>5, <1>9, <1>11 DEF m
  <2>2. Typed'
    BY <1>2, <1>3, <1>12, <2>1 DEF Typed, poolVars
  <2>3. event' \in BOOLEAN
    BY <1>2, <1>3, Zenon
  <2> QED
    BY <2>2, <2>3, Zenon DEF Types
<1>14. Placed'
  BY <1>3, <1>5, <1>8, <1>10, <1>11 DEF Placed
<1>15. Staffed'
  <2>1. ~Contains(stack, "pool")
    BY <1>3 DEF Contains
  <2> QED
    BY <1>2, <1>3, <2>1, StaffedKept DEF Staffed
<1>16. Progress'
  BY <1>2, <1>3, ProgressKept
<1>17. Tallies'
  BY <1>12 DEF Tallies, Undisturbed
<1>18. Measures'
  <2>1. config.profile # "general" => ~(at' < Len(Plan))
    BY <1>3, <1>6, <1>8 DEF m
  <2> QED
    BY <1>2, <1>3, <1>11, <2>1 DEF Measures, poolVars, Unfinished
<1>19. FailuresVisible'
  BY <1>3 DEF FailuresVisible
<1> QED
  BY <1>13, <1>14, <1>15, <1>16, <1>17, <1>18, <1>19 DEF IInv

LEMMA CancelStep == IInv /\ Cancel => IInv'
<1>1. SUFFICES ASSUME IInv, Cancel
               PROVE  IInv'
  OBVIOUS
<1>2. Typed /\ Placed /\ Staffed /\ Progress /\ Measures /\ event \in BOOLEAN
  BY <1>1, TypeParts DEF IInv
<1>3. /\ main = "unwind" /\ stack = <<>> /\ reason = "cancelled" /\ main' = "done"
      /\ UNCHANGED <<config, at, op, stack, reason, event, collected, faults, poolVars, tally>>
  BY <1>1 DEF Cancel
<1>4. Plan' = Plan /\ Current' = Current /\ Here' = Here
  BY <1>3, SamePlace
<1>5. Types'
  <2>1. Typed'
    BY <1>2, <1>3, <1>4 DEF Typed, poolVars, tally
  <2>2. event' \in BOOLEAN
    BY <1>2, <1>3, Zenon
  <2> QED
    BY <2>1, <2>2, Zenon DEF Types
<1>6. Placed'
  BY <1>2, <1>3, <1>4 DEF Placed
<1>7. Staffed'
  <2>1. ~Contains(stack, "pool")
    BY <1>3 DEF Contains
  <2> QED
    BY <1>2, <1>3, <2>1, StaffedKept DEF Staffed
<1>8. Progress'
  BY <1>2, <1>3, ProgressKept
<1>9. Tallies'
  BY <1>3 DEF Tallies, Undisturbed
<1>10. Measures'
  BY <1>2, <1>3, <1>4 DEF Measures, poolVars, tally, Unfinished
<1>11. FailuresVisible'
  BY <1>2, <1>3 DEF FailuresVisible, Measures, tally
<1> QED
  BY <1>5, <1>6, <1>7, <1>8, <1>9, <1>10, <1>11 DEF IInv

(* What the counters of a finished profile hide. *)
LEMMA FinishedCounts ==
    ASSUME Typed, Placed, Tallies, Measures, Current.kind = "end", reason = "none",
           ~Contains(measured, "failed"), main # "collect"
    PROVE  /\ Promised(config, Here.done) /\ faults = Sum(bad)
           /\ \A k \in Counters : ok[k] \in Nat /\ bad[k] \in Nat
           /\ \A k \in {"download", "upload", "warmup"} : ok[k] + bad[k] = Here.done[k]
           /\ ok["operation"] + bad["operation"] = Here.done["batch"] * BatchSize
           /\ Here.done["need"] > 0 => ok["operation"] > 0
           /\ config.profile = "compute" => bad["operation"] = 0
           /\ \A k \in Tallied : Here.done[k] \in Nat
<1>1. Undisturbed
  BY DEF Undisturbed
<1>2. \A k \in {"download", "upload", "warmup"} : ok[k] + bad[k] = Here.done[k]
  <2>1. \A k \in Tallied : Here.done[k] \in Nat
    BY PlanHere DEF Points, Counts
  <2>2. \A k \in {"download", "upload", "warmup"} :
           OfItem(k) = 0 /\ Here.done[k] \in Nat /\ ok[k] + bad[k] = Here.done[k] + OfItem(k)
    BY <1>1, <2>1 DEF OfItem, Tallied, Tallies
  <2> QED
    BY <2>2
<1>3. Promised(config, Here.done)
  BY PlanHere
<1>4. \A k \in Counters : ok[k] \in Nat /\ bad[k] \in Nat
  BY DEF Typed
<1>5. \A k \in Tallied : Here.done[k] \in Nat
  BY PlanHere DEF Points, Counts
<1> QED
  BY <1>1, <1>2, <1>3, <1>4, <1>5 DEF Tallies

LEMMA FinishVisible ==
    ASSUME Typed, Placed, Tallies, Measures, main = "ready", Finish
    PROVE  FailuresVisible'
<1>1. /\ Current.kind = "end" /\ reason = "none"
      /\ UNCHANGED <<config, ok, bad, measured>>
  BY DEF Finish, Placed
<1>2. SUFFICES ASSUME sample'.status = "valid"
               PROVE  /\ measured' = [i \in 1..Len(measured') |-> "success"]
                      /\ bad'["warmup"] = 0
                      /\ bad'["download"] + bad'["operation"] > 0 =>
                            sample'.metrics \cap {"request_loss", "error_rate"} # {}
  BY DEF FailuresVisible
<1>3. PICK discovered \in {{}, {"provider_unknown"}}, late \in BOOLEAN :
         sample' = LET succeeded == Contains(measured, "success")
                       quality == Quality(discovered
                                          \cup (IF succeeded THEN BenchmarkWarnings ELSE {})
                                          \cup (IF late THEN {"duration_exceeded"} ELSE {}))
                   IN [status |-> quality.status, warnings |-> quality.warnings,
                       metrics |-> IF succeeded THEN Metrics ELSE {}]
  BY Zenon DEF Finish
<1> DEFINE warnings == discovered
                       \cup (IF Contains(measured, "success") THEN BenchmarkWarnings ELSE {})
                       \cup (IF late THEN {"duration_exceeded"} ELSE {})
           all == warnings
                  \cup (IF Contains(measured, "failed") THEN {"measurement_failed"} ELSE {})
                  \cup (IF Contains(measured, "skipped") THEN {"measurement_skipped"} ELSE {})
<1>4. /\ Quality(warnings).status = "valid"
      /\ sample'.metrics = IF Contains(measured, "success") THEN Metrics ELSE {}
  BY <1>2, <1>3
<1>5. Contains(measured, "success") /\ all = {}
  <2>1. Quality(warnings).status
          = CASE ~Contains(measured, "success") -> "invalid"
              [] Contains(measured, "success") /\ all # {} -> "valid_with_warnings"
              [] OTHER -> "valid"
    BY DEF Quality
  <2> HIDE DEF all, warnings
  <2> QED
    BY <1>4, <2>1
<1>6. /\ ~Contains(measured, "failed") /\ ~Contains(measured, "skipped")
      /\ BenchmarkWarnings = {} /\ sample'.metrics = Metrics
  BY <1>4, <1>5
<1> HIDE DEF all, warnings
<1>7. measured' = [i \in 1..Len(measured') |-> "success"]
  <2>1. measured \in Seq({"success", "failed", "skipped"})
    BY DEF Typed
  <2>2. \A i \in 1..Len(measured) : measured[i] = "success"
    BY <1>6, <2>1 DEF Contains
  <2> QED
    BY <1>1, <2>1, <2>2
<1>8. /\ Promised(config, Here.done)
      /\ \A k \in Counters : ok[k] \in Nat /\ bad[k] \in Nat
      /\ \A k \in {"download", "upload", "warmup"} : ok[k] + bad[k] = Here.done[k]
      /\ ok["operation"] + bad["operation"] = Here.done["batch"] * BatchSize
      /\ config.profile = "compute" => bad["operation"] = 0
  BY <1>1, <1>6, FinishedCounts
<1>9. /\ config.profile \in ProfileNames
      /\ "warmup" \in Counters /\ "download" \in Counters /\ "operation" \in Counters
      /\ 0 * BatchSize = 0
  BY ProfilesAssumption, PerTaskType DEF ProfilesAssumption, Typed, Counters
<1>10. CASE config.profile = "networking"
  <2>1. bad["warmup"] = 0 /\ bad["operation"] = 0
    BY <1>8, <1>9, <1>10 DEF Promised
  <2>2. bad["download"] > 0 => "request_loss" \in Metrics
    BY <1>10 DEF Metrics, NetworkingMetrics
  <2> QED
    BY <1>1, <1>6, <1>7, <1>8, <1>9, <2>1, <2>2
<1>11. CASE config.profile = "web"
  <2>1. bad["warmup"] = 0 /\ bad["operation"] = 0
    <3>1. WebWarnings = {}
      BY <1>6, <1>11 DEF BenchmarkWarnings
    <3>2. ~(bad["warmup"] > 0) /\ ~(bad["operation"] > 0)
      BY <3>1 DEF WebWarnings
    <3> QED
      BY <1>8, <1>9, <3>2
  <2>2. bad["download"] = 0
    BY <1>8, <1>9, <1>11 DEF Promised
  <2> QED
    BY <1>1, <1>7, <2>1, <2>2
<1>12. CASE config.profile = "database"
  <2>1. FALSE
    BY <1>6, <1>12 DEF BenchmarkWarnings, DatabaseWarnings
  <2> QED
    BY <2>1
<1>13. CASE config.profile \in {"general", "storage", "compute"}
  <2>1. bad["warmup"] = 0 /\ bad["download"] = 0
    BY <1>8, <1>9, <1>13 DEF Promised
  <2>2. bad["operation"] = 0
    BY <1>8, <1>9, <1>13 DEF Promised
  <2> QED
    BY <1>1, <1>7, <2>1, <2>2
<1> QED
  BY <1>9, <1>10, <1>11, <1>12, <1>13 DEF ProfileNames

LEMMA FinishStep == IInv /\ Finish => IInv'
<1>1. SUFFICES ASSUME IInv, Finish
               PROVE  IInv'
  OBVIOUS
<1>2. /\ Typed /\ Placed /\ Staffed /\ Progress /\ Tallies /\ Measures /\ event \in BOOLEAN
  BY <1>1, TypeParts DEF IInv
<1>3. /\ main = "ready" /\ Current.kind = "end" /\ main' = "done"
      /\ UNCHANGED <<config, at, op, stack, reason, event, collected, faults, poolVars,
                     ok, bad, measured>>
  BY <1>1 DEF Finish
<1>4. Plan' = Plan /\ Current' = Current /\ Here' = Here
  BY <1>3, SamePlace
<1>5. stack = <<>>
  BY <1>2, <1>3, PlanHere DEF Moves, Placed
<1>6. Types'
  <2>1. Typed'
    BY <1>2, <1>3, <1>4 DEF Typed, poolVars
  <2>2. event' \in BOOLEAN
    BY <1>2, <1>3, Zenon
  <2> QED
    BY <2>1, <2>2, Zenon DEF Types
<1>7. Placed'
  BY <1>2, <1>3, <1>4, <1>5 DEF Placed
<1>8. Staffed'
  BY <1>2, <1>3, Idle, StaffedKept
<1>9. Progress'
  BY <1>2, <1>3, ProgressKept
<1>10. Tallies'
  BY <1>2, <1>3, <1>4 DEF Tallies, Undisturbed, OfItem, BatchSize, PerTask, poolVars
<1>11. Measures'
  BY <1>2, <1>3, <1>4 DEF Measures, poolVars, Unfinished
<1>12. FailuresVisible'
  BY <1>1, <1>2, <1>3, FinishVisible
<1> QED
  BY <1>6, <1>7, <1>8, <1>9, <1>10, <1>11, <1>12 DEF IInv

LEMMA StutteringStep == IInv /\ UNCHANGED vars => IInv'
<1>1. SUFFICES ASSUME IInv, UNCHANGED vars
               PROVE  IInv'
  OBVIOUS
<1>2. Typed /\ Placed /\ Staffed /\ Progress /\ Tallies /\ Measures /\ FailuresVisible
      /\ event \in BOOLEAN
  BY <1>1, TypeParts DEF IInv
<1>3. UNCHANGED <<config, main, at, op, stack, reason, event, collected, faults, poolVars, tally>>
  BY <1>1 DEF vars
<1>4. Plan' = Plan /\ Current' = Current /\ Here' = Here
  BY <1>3, SamePlace
<1>5. Types'
  <2>1. Typed'
    BY <1>2, <1>3, <1>4 DEF Typed, poolVars, tally
  <2>2. event' \in BOOLEAN
    BY <1>2, <1>3, Zenon
  <2> QED
    BY <2>1, <2>2, Zenon DEF Types
<1>6. Placed'
  BY <1>2, <1>3, <1>4 DEF Placed
<1>7. Staffed'
  BY <1>2, <1>3, StaffedKept DEF Staffed
<1>8. Progress'
  BY <1>2, <1>3, ProgressKept
<1>9. Tallies'
  BY <1>2, <1>3, <1>4 DEF Tallies, Undisturbed, OfItem, BatchSize, PerTask, Attempted,
                          poolVars, tally
<1>10. Measures'
  BY <1>2, <1>3, <1>4 DEF Measures, poolVars, tally, Unfinished
<1>11. FailuresVisible'
  BY <1>2, <1>3 DEF FailuresVisible, tally
<1> QED
  BY <1>5, <1>6, <1>7, <1>8, <1>9, <1>10, <1>11 DEF IInv

-----------------------------------------------------------------------------
(* The steps of the workers. *)

LEMMA AttemptsValues ==
    ASSUME NEW f, NEW j, NEW l \in [Workers -> Nat], NEW n \in Nat,
           \A v, w \in Workers : j[v] = j[w] /\ j[v] # 0 => v = w
    PROVE  /\ AttemptsOf(f, j, l, n) \in [Tasks -> Int]
           /\ \A t \in Tasks : f[t] = "done" => AttemptsOf(f, j, l, n)[t] = n
           /\ \A t \in Tasks, w \in Workers :
                 f[t] # "done" /\ j[w] = t => AttemptsOf(f, j, l, n)[t] = n - l[w]
           /\ \A t \in Tasks :
                 f[t] # "done" /\ (\A w \in Workers : j[w] # t) =>
                    AttemptsOf(f, j, l, n)[t] = 0
<1>1. ASSUME NEW t \in Tasks, NEW w \in Workers, f[t] # "done", j[w] = t
      PROVE  AttemptsOf(f, j, l, n)[t] = n - l[w]
  <2>1. \A v \in Workers : j[v] = t <=> v = w
    BY <1>1, Constants
  <2>2. (CHOOSE v \in Workers : j[v] = t) = w
    BY <1>1, <2>1
  <2> QED
    BY <1>1, <2>2 DEF AttemptsOf
<1>2. \A t \in Tasks : f[t] = "done" => AttemptsOf(f, j, l, n)[t] = n
  BY DEF AttemptsOf
<1>3. \A t \in Tasks : f[t] # "done" /\ (\A w \in Workers : j[w] # t) =>
                          AttemptsOf(f, j, l, n)[t] = 0
  BY DEF AttemptsOf
<1>4. \A t \in Tasks : AttemptsOf(f, j, l, n)[t] \in Int
  <2>1. SUFFICES ASSUME NEW t \in Tasks
                 PROVE  AttemptsOf(f, j, l, n)[t] \in Int
    OBVIOUS
  <2>2. CASE f[t] = "done"
    BY <1>2, <2>2
  <2>3. ASSUME f[t] # "done", NEW w \in Workers, j[w] = t
        PROVE  AttemptsOf(f, j, l, n)[t] \in Int
    <3>1. n - l[w] \in Int
      OBVIOUS
    <3> QED
      BY <1>1, <2>3, <3>1
  <2>4. CASE f[t] # "done" /\ \A w \in Workers : j[w] # t
    BY <1>3, <2>4
  <2> QED
    BY <2>2, <2>3, <2>4
<1>5. AttemptsOf(f, j, l, n) \in [Tasks -> Int]
  BY <1>4 DEF AttemptsOf
<1> QED
  BY <1>1, <1>2, <1>3, <1>5

LEMMA CountsAreIntegers ==
    ASSUME NEW S, NEW f \in [S -> 0..Operations]
    PROVE  f \in [S -> Nat] /\ f \in [S -> Int]
BY Constants

(* The failures and successes of the pool are its attempts. *)
Even == faults' + Sum(completed') + Sum(Attempted) = faults + Sum(completed) + Sum(Attempted')
Broken == \E t \in Tasks : future'[t] \in {"error", "cancelled"}

LEMMA EvenAtTask ==
    ASSUME Typed, faults' \in Nat, NEW t \in Tasks,
           completed' \in [Tasks -> 0..Operations],
           Attempted \in [Tasks -> Int], Attempted' \in [Tasks -> Int],
           \A u \in Tasks : u # t => completed'[u] = completed[u] /\ Attempted'[u] = Attempted[u],
           faults' + completed'[t] + Attempted[t] = faults + completed[t] + Attempted'[t]
    PROVE  Even
<1>1. /\ completed \in [Tasks -> Int] /\ completed' \in [Tasks -> Int]
      /\ completed[t] \in Int /\ completed'[t] \in Int /\ faults \in Int /\ faults' \in Int
      /\ Attempted[t] \in Int /\ Attempted'[t] \in Int
  <2>1. completed \in [Tasks -> 0..Operations] /\ faults \in Nat
    BY DEF Typed
  <2>2. completed \in [Tasks -> Int] /\ completed' \in [Tasks -> Int]
    BY <2>1, Constants, CountsAreIntegers
  <2> QED
    BY <2>1, <2>2
<1>2. \A u \in Tasks : u # t => completed'[u] = completed[u]
  OBVIOUS
<1>3. Sum(completed') = Sum(completed) - completed[t] + completed'[t]
  BY <1>1, <1>2, SumExcept, Constants
<1> DEFINE a == Attempted
           b == Attempted'
<1>4. a \in [Tasks -> Int] /\ b \in [Tasks -> Int] /\ \A u \in Tasks : u # t => b[u] = a[u]
  OBVIOUS
<1>5. a[t] \in Int /\ b[t] \in Int /\ faults' + completed'[t] + a[t] = faults + completed[t] + b[t]
  BY <1>1
<1>6. Even <=> faults' + Sum(completed') + Sum(a) = faults + Sum(completed) + Sum(b)
  BY DEF Even
<1> HIDE DEF a, b
<1>7. Sum(b) = Sum(a) - a[t] + b[t] /\ Sum(a) \in Int /\ Sum(b) \in Int
  BY <1>4, SumExcept, SumType, Constants
<1>8. Sum(completed) \in Int /\ Sum(completed') \in Int
  BY <1>1, SumType, Constants
<1> QED
  BY <1>1, <1>3, <1>5, <1>6, <1>7, <1>8

LEMMA WorkerStep ==
    ASSUME IInv, UNCHANGED mainVars, Unfinished # {}, Typed', Staffed', Progress',
           \A t \in Tasks : future[t] \in {"error", "cancelled"} => future'[t] = future[t],
           Broken \/ Even
    PROVE  IInv'
<1>1. Typed /\ Placed /\ Staffed /\ Tallies /\ Measures /\ FailuresVisible /\ event \in BOOLEAN
  BY TypeParts DEF IInv
<1>2. UNCHANGED <<config, main, at, op, stack, reason, event, collected, ok, bad, measured,
                  sample>>
  BY DEF mainVars, tally
<1>3. Plan' = Plan /\ Current' = Current /\ Here' = Here
  BY <1>2, SamePlace
<1>4. main \in {"collect", "unwind"} /\ config.profile # "general"
  BY <1>1 DEF Staffed, Measures
<1>5. Types'
  <2>1. event' \in BOOLEAN
    BY <1>1, <1>2, Zenon
  <2> QED
    BY <2>1, Zenon DEF Types
<1>6. Placed'
  BY <1>1, <1>2, <1>3 DEF Placed
<1>7. Tallies'
  <2>1. SUFFICES ASSUME Undisturbed'
                 PROVE  Tallies'
    BY DEF Tallies
  <2>2. Undisturbed /\ main = "collect"
    BY <1>1, <1>2, <1>4, <2>1 DEF Undisturbed, Placed
  <2>3. BatchSize' = BatchSize /\ \A k : OfItem(k)' = OfItem(k)
    BY <1>2, <1>3 DEF BatchSize, PerTask, OfItem
  <2>4. ASSUME \A t \in Tasks : future'[t] \notin {"error", "cancelled"}
        PROVE  faults' + Sum(completed') = Sum(bad') + Sum(Attempted')
    <3>1. Even /\ \A t \in Tasks : future[t] \notin {"error", "cancelled"}
      BY <2>4 DEF Broken
    <3>2. faults + Sum(completed) = Sum(bad) + Sum(Attempted)
      BY <1>1, <2>2, <3>1 DEF Tallies
    <3>3. bad' = bad
      BY <1>2
    <3>4. /\ completed \in [Tasks -> Int] /\ completed' \in [Tasks -> Int]
          /\ bad \in [Counters -> Int] /\ faults \in Int /\ faults' \in Int
      <4>1. /\ completed \in [Tasks -> 0..Operations] /\ bad \in [Counters -> Nat]
            /\ faults \in Nat
        BY <1>1 DEF Typed
      <4>2. completed' \in [Tasks -> 0..Operations] /\ faults' \in Nat
        BY DEF Typed
      <4> QED
        BY <4>1, <4>2, CountsAreIntegers
    <3>5. Attempted \in [Tasks -> Int] /\ Attempted' \in [Tasks -> Int]
      <4>1. left \in [Workers -> Nat] /\ left' \in [Workers -> Nat]
        <5>1. left \in [Workers -> 0..Operations]
          BY <1>1 DEF Typed
        <5>2. left' \in [Workers -> 0..Operations]
          BY DEF Typed
        <5> QED
          BY <5>1, <5>2, CountsAreIntegers
      <4>2. PerTask \in Nat /\ PerTask' = PerTask
        BY <1>2, PerTaskType DEF PerTask
      <4>3. /\ \A v, w \in Workers : job[v] = job[w] /\ job[v] # 0 => v = w
            /\ \A v, w \in Workers : job'[v] = job'[w] /\ job'[v] # 0 => v = w
        BY <1>1 DEF Staffed
      <4> QED
        BY <4>1, <4>2, <4>3, AttemptsValues DEF Attempted
    <3> DEFINE a == Attempted
               b == Attempted'
    <3>6. /\ a \in [Tasks -> Int] /\ b \in [Tasks -> Int]
          /\ faults' + Sum(completed') + Sum(a) = faults + Sum(completed) + Sum(b)
          /\ faults + Sum(completed) = Sum(bad) + Sum(a)
      BY <3>1, <3>2, <3>5 DEF Even
    <3>7. faults' + Sum(completed') = Sum(bad) + Sum(b)
      <4> HIDE DEF a, b
      <4>1. /\ Sum(a) \in Int /\ Sum(b) \in Int /\ Sum(completed) \in Int
            /\ Sum(completed') \in Int
        BY <3>4, <3>6, SumType, Constants
      <4>2. Sum(bad) \in Int
        BY <3>4, SumType, CountersFinite
      <4> QED
        BY <3>4, <3>6, <4>1, <4>2
    <3> QED
      BY <3>3, <3>7
  <2> QED
    BY <1>1, <1>2, <1>3, <2>2, <2>3, <2>4 DEF Tallies
<1>8. Measures'
  BY <1>1, <1>2, <1>3, <1>4 DEF Measures
<1>9. FailuresVisible'
  BY <1>2, <1>4 DEF FailuresVisible
<1> QED
  BY <1>5, <1>6, <1>7, <1>8, <1>9 DEF IInv

(* The worker and its task, as long as it has one. *)
LEMMA Busy ==
    ASSUME IInv, NEW w \in Workers, job[w] # 0
    PROVE  /\ Typed /\ Staffed /\ Progress /\ Measures
           /\ job[w] \in Tasks /\ future[job[w]] = "running" /\ Unfinished # {}
           /\ config.profile # "general" /\ job[w] \notin collected
           /\ left \in [Workers -> Nat] /\ completed \in [Tasks -> Nat]
           /\ left[w] \in 0..PerTask /\ completed[job[w]] \in 0..PerTask
           /\ PerTask \in Nat \ {0} /\ faults \in Nat
           /\ \A v \in Workers : v # w => job[v] # job[w]
<1>1. Typed /\ Staffed /\ Progress /\ Measures
  BY TypeParts DEF IInv
<1>2. job[w] \in Tasks /\ future[job[w]] = "running"
  BY <1>1 DEF Typed, Staffed
<1>3. Unfinished # {} /\ job[w] \notin collected
  BY <1>1, <1>2 DEF Unfinished, Staffed
<1>4. config.profile # "general"
  BY <1>1, <1>3 DEF Measures
<1>5. left \in [Workers -> 0..Operations] /\ completed \in [Tasks -> 0..Operations]
      /\ faults \in Nat
  BY <1>1 DEF Typed
<1>6. left \in [Workers -> Nat] /\ completed \in [Tasks -> Nat]
  BY <1>5, CountsAreIntegers
<1>7. completed[job[w]] + left[w] <= PerTask /\ PerTask \in Nat \ {0}
  BY <1>1, PerTaskType DEF Progress
<1>8. left[w] \in 0..PerTask /\ completed[job[w]] \in 0..PerTask
  BY <1>2, <1>6, <1>7
<1>9. \A v \in Workers : v # w => job[v] # job[w]
  BY <1>1 DEF Staffed
<1> QED
  BY <1>1, <1>2, <1>3, <1>4, <1>5, <1>6, <1>7, <1>8, <1>9

LEMMA AttemptedValues ==
    ASSUME IInv, UNCHANGED config, left' \in [Workers -> Nat],
           \A v, w \in Workers : job'[v] = job'[w] /\ job'[v] # 0 => v = w
    PROVE  /\ Attempted \in [Tasks -> Int] /\ Attempted' \in [Tasks -> Int]
           /\ \A t \in Tasks :
                 /\ future[t] = "done" => Attempted[t] = PerTask
                 /\ future'[t] = "done" => Attempted'[t] = PerTask
                 /\ future[t] # "done" /\ (\A w \in Workers : job[w] # t) => Attempted[t] = 0
                 /\ future'[t] # "done" /\ (\A w \in Workers : job'[w] # t) => Attempted'[t] = 0
           /\ \A t \in Tasks, w \in Workers :
                 /\ future[t] # "done" /\ job[w] = t => Attempted[t] = PerTask - left[w]
                 /\ future'[t] # "done" /\ job'[w] = t => Attempted'[t] = PerTask - left'[w]
<1>1. Typed /\ Staffed
  BY TypeParts DEF IInv
<1>2. left \in [Workers -> 0..Operations]
  BY <1>1 DEF Typed
<1>3. left \in [Workers -> Nat]
  BY <1>2, CountsAreIntegers
<1>4. PerTask \in Nat /\ PerTask' = PerTask
  BY PerTaskType DEF PerTask
<1>5. \A v, w \in Workers : job[v] = job[w] /\ job[v] # 0 => v = w
  BY <1>1 DEF Staffed
<1> DEFINE a == AttemptsOf(future, job, left, PerTask)
           b == AttemptsOf(future', job', left', PerTask)
<1>6. Attempted = a /\ Attempted' = b
  BY <1>4 DEF Attempted
<1>7. /\ a \in [Tasks -> Int]
      /\ \A t \in Tasks : future[t] = "done" => a[t] = PerTask
      /\ \A t \in Tasks, w \in Workers :
            future[t] # "done" /\ job[w] = t => a[t] = PerTask - left[w]
      /\ \A t \in Tasks : future[t] # "done" /\ (\A w \in Workers : job[w] # t) => a[t] = 0
  BY <1>3, <1>4, <1>5, AttemptsValues
<1>8. /\ b \in [Tasks -> Int]
      /\ \A t \in Tasks : future'[t] = "done" => b[t] = PerTask
      /\ \A t \in Tasks, w \in Workers :
            future'[t] # "done" /\ job'[w] = t => b[t] = PerTask - left'[w]
      /\ \A t \in Tasks : future'[t] # "done" /\ (\A w \in Workers : job'[w] # t) => b[t] = 0
  <2> DEFINE future2 == future'
             job2 == job'
             left2 == left'
             b2 == AttemptsOf(future2, job2, left2, PerTask)
  <2>1. left2 \in [Workers -> Nat]
        /\ \A v, w \in Workers : job2[v] = job2[w] /\ job2[v] # 0 => v = w
    OBVIOUS
  <2> HIDE DEF future2, job2, left2
  <2>2. /\ b2 \in [Tasks -> Int]
        /\ \A t \in Tasks : future2[t] = "done" => b2[t] = PerTask
        /\ \A t \in Tasks, w \in Workers :
              future2[t] # "done" /\ job2[w] = t => b2[t] = PerTask - left2[w]
        /\ \A t \in Tasks :
              future2[t] # "done" /\ (\A w \in Workers : job2[w] # t) => b2[t] = 0
    BY <1>4, <2>1, AttemptsValues
  <2> QED
    BY <2>2 DEF future2, job2, left2
<1> HIDE DEF a, b
<1> QED
  BY <1>6, <1>7, <1>8

(* The operations of its task that a worker has attempted since, and how.    *)
Account(t, success, n) ==
    /\ completed' \in [Tasks -> 0..Operations] /\ faults' \in Nat
    /\ \A u \in Tasks : u # t => completed'[u] = completed[u]
    /\ completed'[t] = completed[t] + (IF success THEN n ELSE 0)
    /\ faults' = faults + (IF success THEN 0 ELSE n)

(* A task ends, with the operations accounted for that it still had to do.   *)
LEMMA EndStep ==
    ASSUME IInv, UNCHANGED mainVars, NEW w \in Workers, job[w] # 0,
           NEW s \in {"done", "error", "cancelled"}, End(w, s),
           NEW success \in {TRUE, FALSE}, NEW n \in Nat, Account(job[w], success, n),
           s = "done" => n = left[w],
           s # "done" => n = 0,
           s = "done" /\ config.profile = "compute" => success
    PROVE  IInv'
<1> DEFINE t == job[w]
<1>1. /\ Typed /\ Staffed /\ Progress /\ Measures
      /\ t \in Tasks /\ future[t] = "running" /\ Unfinished # {}
      /\ t \notin collected
      /\ left \in [Workers -> Nat] /\ completed \in [Tasks -> Nat]
      /\ left[w] \in 0..PerTask /\ completed[t] \in 0..PerTask
      /\ PerTask \in Nat \ {0} /\ faults \in Nat
      /\ \A v \in Workers : v # w => job[v] # t
  BY Busy
<1>2. /\ UNCHANGED <<config, main, at, op, stack, reason, event, collected, ok, bad, measured>>
      /\ Plan' = Plan
  BY DEF mainVars, tally, Plan
<1>3. /\ future' = [future EXCEPT ![t] = s] /\ job' = [job EXCEPT ![w] = 0]
      /\ step' = [step EXCEPT ![w] = "idle"] /\ left' = [left EXCEPT ![w] = 0]
      /\ lock' = IF lock = w THEN 0 ELSE lock
  BY DEF End
<1>4. /\ completed' \in [Tasks -> 0..Operations] /\ faults' \in Nat
      /\ \A u \in Tasks : u # t => completed'[u] = completed[u]
      /\ completed'[t] = completed[t] + (IF success THEN n ELSE 0)
      /\ faults' = faults + (IF success THEN 0 ELSE n)
  BY DEF Account
<1>5. /\ future \in [Tasks -> {"none", "queued", "running", "done", "error", "cancelled"}]
      /\ job \in [Workers -> Tasks \cup {0}]
      /\ step \in [Workers -> {"idle", "start", "open", "poll", "write", "commit"}]
      /\ left \in [Workers -> 0..Operations] /\ lock \in Workers \cup {0}
  BY <1>1 DEF Typed
<1> HIDE DEF t
<1>6. /\ future'[t] = s /\ \A u \in Tasks : u # t => future'[u] = future[u]
      /\ job'[w] = 0 /\ step'[w] = "idle" /\ left'[w] = 0
      /\ \A v \in Workers : v # w => job'[v] = job[v] /\ step'[v] = step[v] /\ left'[v] = left[v]
  BY <1>1, <1>3, <1>5
<1>7. /\ future' \in [Tasks -> {"none", "queued", "running", "done", "error", "cancelled"}]
      /\ job' \in [Workers -> Tasks \cup {0}]
      /\ step' \in [Workers -> {"idle", "start", "open", "poll", "write", "commit"}]
      /\ left' \in [Workers -> 0..Operations] /\ lock' \in Workers \cup {0}
  <2>1. future' \in [Tasks -> {"none", "queued", "running", "done", "error", "cancelled"}]
    BY <1>3, <1>5
  <2>2. /\ job' \in [Workers -> Tasks \cup {0}]
        /\ step' \in [Workers -> {"idle", "start", "open", "poll", "write", "commit"}]
    BY <1>3, <1>5
  <2>3. 0 \in 0..Operations
    BY Constants
  <2>4. left' \in [Workers -> 0..Operations] /\ lock' \in Workers \cup {0}
    BY <1>3, <1>5, <2>3
  <2> QED
    BY <2>1, <2>2, <2>4
<1>8. Typed'
  BY <1>1, <1>2, <1>4, <1>7 DEF Typed
<1>9. Staffed'
  <2>1. Unfinished' \subseteq Unfinished
    BY <1>6 DEF Unfinished
  <2>2. Unfinished' # {} => main' \in {"collect", "unwind"} /\ Contains(stack', "pool")
    BY <1>1, <1>2, <2>1 DEF Staffed
  <2>3. main' = "collect" => \A u \in Tasks : future'[u] # "none"
    BY <1>1, <1>2, <1>6 DEF Staffed
  <2>4. ASSUME NEW v \in Workers
        PROVE  /\ job'[v] = 0 <=> step'[v] = "idle"
               /\ job'[v] # 0 => future'[job'[v]] = "running"
               /\ lock' = v => step'[v] = "commit"
               /\ step'[v] \in {"poll", "commit"} => config'.profile = "database"
    <3>1. CASE v = w
      BY <1>3, <1>6, <3>1, Constants
    <3>2. CASE v # w
      <4>1. job[v] # t /\ (job[v] # 0 => job[v] \in Tasks)
        BY <1>1, <1>5, <3>2
      <4>2. lock' = v => lock = v
        BY <1>3, Constants
      <4> QED
        BY <1>1, <1>2, <1>6, <3>2, <4>1, <4>2 DEF Staffed
    <3> QED
      BY <3>1, <3>2
  <2>5. \A u, v \in Workers : job'[u] = job'[v] /\ job'[u] # 0 => u = v
    BY <1>1, <1>6 DEF Staffed
  <2>6. collected' \subseteq {u \in Tasks : future'[u] = "done"}
    BY <1>1, <1>2, <1>6 DEF Staffed
  <2> QED
    BY <2>2, <2>3, <2>4, <2>5, <2>6 DEF Staffed
<1>10. completed'[t] <= PerTask
  <2>1. completed[t] + left[w] <= PerTask /\ left[w] \in Nat /\ completed[t] \in Nat
    BY <1>1 DEF Progress, t
  <2> QED
    BY <1>1, <1>4, <2>1
<1>11. Progress'
  <2>1. PerTask' = PerTask
    BY <1>2 DEF PerTask
  <2>2. config.profile = "compute" /\ s = "done" => completed'[t] = 1
    <3>1. SUFFICES ASSUME config.profile = "compute", s = "done"
                   PROVE  completed'[t] = 1
      OBVIOUS
    <3>2. left[w] = PerTask /\ PerTask = 1 /\ completed[t] + left[w] <= PerTask
      BY <1>1, <3>1, PerTaskType DEF Progress, t
    <3>3. completed'[t] = completed[t] + left[w]
      BY <1>4, <3>1
    <3> QED
      BY <1>1, <3>2, <3>3
  <2>3. \A u \in Tasks :
           /\ completed'[u] <= PerTask
           /\ future'[u] \in {"none", "queued"} => completed'[u] = 0
           /\ config.profile = "compute" /\ future'[u] = "done" => completed'[u] = 1
    BY <1>1, <1>4, <1>6, <1>10, <2>2 DEF Progress
  <2>4. \A v \in Workers : job'[v] # 0 =>
           /\ completed'[job'[v]] + left'[v] <= PerTask
           /\ step'[v] \in {"open", "commit"} => left'[v] > 0
           /\ step'[v] = "start" \/ config.profile # "database" => left'[v] = PerTask
    <3>1. SUFFICES ASSUME NEW v \in Workers, job'[v] # 0
                   PROVE  /\ completed'[job'[v]] + left'[v] <= PerTask
                          /\ step'[v] \in {"open", "commit"} => left'[v] > 0
                          /\ step'[v] = "start" \/ config.profile # "database" =>
                                left'[v] = PerTask
      OBVIOUS
    <3>2. v # w /\ job'[v] = job[v] /\ step'[v] = step[v] /\ left'[v] = left[v]
      BY <1>6, <3>1
    <3>3. job[v] # t /\ job[v] \in Tasks /\ completed'[job[v]] = completed[job[v]]
      BY <1>1, <1>4, <1>5, <3>1, <3>2
    <3> QED
      BY <1>1, <3>1, <3>2, <3>3 DEF Progress
  <2> QED
    BY <1>2, <2>1, <2>3, <2>4 DEF Progress
<1>12. Broken \/ Even
  <2>1. CASE s # "done"
    BY <1>1, <1>6, <2>1 DEF Broken
  <2>2. CASE s = "done"
    <3>1. left' \in [Workers -> Nat]
      BY <1>7, CountsAreIntegers
    <3>2. \A u, v \in Workers : job'[u] = job'[v] /\ job'[u] # 0 => u = v
      BY <1>9 DEF Staffed
    <3>3. Attempted[t] = PerTask - left[w] /\ Attempted'[t] = PerTask
          /\ Attempted \in [Tasks -> Int] /\ Attempted' \in [Tasks -> Int]
      BY <1>1, <1>2, <1>6, <2>2, <3>1, <3>2, AttemptedValues DEF t
    <3>4. ASSUME NEW u \in Tasks, u # t
          PROVE  completed'[u] = completed[u] /\ Attempted'[u] = Attempted[u]
      <4>1. future'[u] = future[u] /\ completed'[u] = completed[u]
        BY <1>4, <1>6, <3>4
      <4>2. CASE future[u] = "done"
        BY <1>2, <3>1, <3>2, <4>1, <4>2, AttemptedValues
      <4>3. ASSUME future[u] # "done", NEW v \in Workers, job[v] = u
            PROVE  Attempted'[u] = Attempted[u]
        <5>1. v # w
          BY <3>4, <4>3 DEF t
        <5>2. job'[v] = u /\ left'[v] = left[v]
          BY <1>6, <4>3, <5>1
        <5> QED
          BY <1>2, <3>1, <3>2, <4>1, <4>3, <5>2, AttemptedValues
      <4>4. CASE future[u] # "done" /\ \A v \in Workers : job[v] # u
        <5>1. \A v \in Workers : job'[v] # u
          BY <1>6, <4>4, Constants
        <5> QED
          BY <1>2, <3>1, <3>2, <4>1, <4>4, <5>1, AttemptedValues
      <4> QED
        BY <4>1, <4>2, <4>3, <4>4
    <3>5. faults' + completed'[t] + Attempted[t] = faults + completed[t] + Attempted'[t]
      <4>1. /\ left[w] \in Nat /\ n = left[w] /\ faults \in Nat /\ completed[t] \in Nat
            /\ PerTask \in Nat
        BY <1>1, <2>2
      <4> QED
        BY <1>4, <3>3, <4>1
    <3> QED
      BY <1>1, <1>4, <3>3, <3>4, <3>5, EvenAtTask
  <2> QED
    BY <2>1, <2>2
<1> QED
  <2>1. \A u \in Tasks : future[u] \in {"error", "cancelled"} => future'[u] = future[u]
    BY <1>1, <1>6
  <2> QED
    BY <1>1, <1>8, <1>9, <1>11, <1>12, <2>1, WorkerStep

(* A worker goes on with its task. *)
LEMMA MoveStep ==
    ASSUME IInv, UNCHANGED mainVars, NEW w \in Workers, job[w] # 0, UNCHANGED <<future, job>>,
           NEW s \in {"open", "poll", "commit"}, step' = [step EXCEPT ![w] = s],
           NEW l \in 0..Operations, left' = [left EXCEPT ![w] = l],
           lock' \in Workers \cup {0}, \A v \in Workers : lock' = v => step'[v] = "commit",
           NEW success \in {TRUE, FALSE}, NEW n \in Nat, Account(job[w], success, n),
           left[w] = l + n,
           s \in {"open", "commit"} => l > 0,
           s \in {"poll", "commit"} => config.profile = "database",
           config.profile # "database" => n = 0
    PROVE  IInv'
<1> DEFINE t == job[w]
<1>1. /\ Typed /\ Staffed /\ Progress /\ Measures
      /\ t \in Tasks /\ future[t] = "running" /\ Unfinished # {}
      /\ left \in [Workers -> Nat] /\ completed \in [Tasks -> Nat]
      /\ left[w] \in 0..PerTask /\ completed[t] \in 0..PerTask
      /\ PerTask \in Nat \ {0} /\ faults \in Nat
      /\ \A v \in Workers : v # w => job[v] # t
  BY Busy
<1>2. /\ UNCHANGED <<config, main, at, op, stack, reason, event, collected, ok, bad, measured>>
      /\ Plan' = Plan /\ PerTask' = PerTask
  BY DEF mainVars, tally, Plan, PerTask
<1>3. /\ completed' \in [Tasks -> 0..Operations] /\ faults' \in Nat
      /\ \A u \in Tasks : u # t => completed'[u] = completed[u]
      /\ completed'[t] = completed[t] + (IF success THEN n ELSE 0)
      /\ faults' = faults + (IF success THEN 0 ELSE n)
  BY DEF Account
<1>4. /\ step \in [Workers -> {"idle", "start", "open", "poll", "write", "commit"}]
      /\ left \in [Workers -> 0..Operations] /\ job \in [Workers -> Tasks \cup {0}]
  BY <1>1 DEF Typed
<1> HIDE DEF t
<1>5. /\ step'[w] = s /\ left'[w] = l
      /\ \A v \in Workers : v # w => step'[v] = step[v] /\ left'[v] = left[v]
      /\ step' \in [Workers -> {"idle", "start", "open", "poll", "write", "commit"}]
      /\ left' \in [Workers -> 0..Operations]
  BY <1>4
<1>6. Typed'
  BY <1>1, <1>2, <1>3, <1>5 DEF Typed
<1>7. Staffed'
  <2>1. Unfinished' = Unfinished
    BY DEF Unfinished
  <2>2. \A v \in Workers : /\ job'[v] = 0 <=> step'[v] = "idle"
                           /\ step'[v] \in {"poll", "commit"} => config'.profile = "database"
    BY <1>1, <1>2, <1>5 DEF Staffed
  <2> QED
    BY <1>1, <1>2, <2>1, <2>2 DEF Staffed
<1>8. /\ completed'[t] + l <= PerTask
      /\ config.profile # "database" => l = PerTask
  <2>1. completed[t] + left[w] <= PerTask
        /\ (config.profile # "database" => left[w] = PerTask)
    BY <1>1 DEF Progress, t
  <2>2. l \in Nat /\ completed[t] \in Nat
    BY <1>1, Constants
  <2> QED
    BY <1>1, <1>3, <2>1, <2>2
<1>9. Progress'
  <2>1. \A u \in Tasks :
           /\ completed'[u] <= PerTask
           /\ future'[u] \in {"none", "queued"} => completed'[u] = 0
           /\ config.profile = "compute" /\ future'[u] = "done" => completed'[u] = 1
    <3>1. completed'[t] <= PerTask
      <4>1. completed'[t] \in Nat /\ l \in Nat
        BY <1>1, <1>3, Constants, CountsAreIntegers
      <4> QED
        BY <1>1, <1>8, <4>1
    <3>2. future' = future
      OBVIOUS
    <3> QED
      BY <1>1, <1>3, <3>1, <3>2 DEF Progress
  <2>2. ASSUME NEW v \in Workers, job[v] # 0
        PROVE  /\ completed'[job[v]] + left'[v] <= PerTask
               /\ step'[v] \in {"open", "commit"} => left'[v] > 0
               /\ step'[v] = "start" \/ config.profile # "database" => left'[v] = PerTask
    <3>1. CASE v = w
      BY <1>5, <1>8, <3>1 DEF t
    <3>2. CASE v # w
      <4>1. job[v] # t /\ job[v] \in Tasks /\ completed'[job[v]] = completed[job[v]]
        BY <1>1, <1>3, <1>4, <2>2, <3>2
      <4> QED
        BY <1>1, <1>5, <2>2, <3>2, <4>1 DEF Progress
    <3> QED
      BY <3>1, <3>2
  <2> QED
    BY <1>2, <2>1, <2>2 DEF Progress
<1>10. Even
  <2>1. left' \in [Workers -> Nat]
    BY <1>5, CountsAreIntegers
  <2>2. \A u, v \in Workers : job'[u] = job'[v] /\ job'[u] # 0 => u = v
    BY <1>7 DEF Staffed
  <2>3. Attempted[t] = PerTask - left[w] /\ Attempted'[t] = PerTask - l
        /\ Attempted \in [Tasks -> Int] /\ Attempted' \in [Tasks -> Int]
    <3>1. /\ job[w] = t /\ job'[w] = t /\ future[t] # "done" /\ future'[t] # "done"
          /\ left'[w] = l
      BY <1>1, <1>5 DEF t
    <3> QED
      BY <1>1, <1>2, <2>1, <2>2, <3>1, AttemptedValues
  <2>4. ASSUME NEW u \in Tasks, u # t
        PROVE  completed'[u] = completed[u] /\ Attempted'[u] = Attempted[u]
    <3>1. future'[u] = future[u] /\ completed'[u] = completed[u]
      BY <1>3, <2>4
    <3>2. CASE future[u] = "done"
      BY <1>2, <2>1, <2>2, <3>1, <3>2, AttemptedValues
    <3>3. ASSUME future[u] # "done", NEW v \in Workers, job[v] = u
          PROVE  Attempted'[u] = Attempted[u]
      <4>1. v # w
        BY <2>4, <3>3 DEF t
      <4>2. job'[v] = u /\ left'[v] = left[v]
        BY <1>5, <3>3, <4>1
      <4> QED
        BY <1>2, <2>1, <2>2, <3>1, <3>3, <4>2, AttemptedValues
    <3>4. CASE future[u] # "done" /\ \A v \in Workers : job[v] # u
      <4>1. \A v \in Workers : job'[v] # u
        BY <3>4
      <4> QED
        BY <1>2, <2>1, <2>2, <3>1, <3>4, <4>1, AttemptedValues
    <3> QED
      BY <3>1, <3>2, <3>3, <3>4
  <2>5. faults' + completed'[t] + Attempted[t] = faults + completed[t] + Attempted'[t]
    <3>1. l \in Nat /\ PerTask \in Nat /\ faults \in Nat /\ completed[t] \in Nat
          /\ left[w] = l + n
      BY <1>1, Constants
    <3> QED
      BY <1>3, <2>3, <3>1
  <2> QED
    BY <1>1, <1>3, <2>3, <2>4, <2>5, EvenAtTask
<1> QED
  BY <1>1, <1>6, <1>7, <1>9, <1>10, WorkerStep

LEMMA AccountNone ==
    ASSUME IInv, UNCHANGED <<completed, faults>>, NEW t \in Tasks
    PROVE  Account(t, TRUE, 0)
<1>1. completed \in [Tasks -> 0..Operations] /\ faults \in Nat
  BY TypeParts DEF IInv, Typed
<1>2. completed[t] \in Nat
  BY <1>1, CountsAreIntegers
<1> QED
  BY <1>1, <1>2 DEF Account

LEMMA AccountOne ==
    ASSUME IInv, NEW w \in Workers, job[w] # 0, left[w] > 0, NEW success \in {TRUE, FALSE},
           completed' = IF success THEN [completed EXCEPT ![job[w]] = @ + 1] ELSE completed,
           faults' = IF success THEN faults ELSE faults + 1
    PROVE  Account(job[w], success, 1)
<1> DEFINE t == job[w]
<1>1. /\ Typed /\ Progress /\ t \in Tasks /\ left[w] \in 0..PerTask
      /\ completed[t] \in 0..PerTask /\ PerTask \in Nat \ {0} /\ faults \in Nat
  BY Busy
<1>2. completed \in [Tasks -> 0..Operations] /\ PerTask <= Operations /\ Operations \in Nat
  BY <1>1, PerTaskType, Constants DEF Typed
<1>3. completed[t] + left[w] <= PerTask
  BY <1>1 DEF Progress
<1> HIDE DEF t
<1>4. completed[t] \in Nat /\ completed[t] + 1 \in 0..Operations
  BY <1>1, <1>2, <1>3
<1>5. CASE success
  <2>1. completed' = [completed EXCEPT ![t] = @ + 1] /\ faults' = faults
    BY <1>5 DEF t
  <2> QED
    BY <1>1, <1>2, <1>4, <1>5, <2>1 DEF Account, t
<1>6. CASE ~success
  <2>1. completed' = completed /\ faults' = faults + 1
    BY <1>6
  <2> QED
    BY <1>1, <1>2, <1>4, <1>6, <2>1 DEF Account, t
<1> QED
  BY <1>5, <1>6

LEMMA FailedEnd ==
    ASSUME IInv, NEW w \in Workers, job[w] # 0, NEW s \in {"error", "cancelled"}, End(w, s),
           UNCHANGED <<mainVars, faults, completed>>
    PROVE  IInv'
<1>1. job[w] \in Tasks
  BY Busy
<1>2. Account(job[w], TRUE, 0)
  BY <1>1, AccountNone
<1> QED
  BY <1>2, EndStep

LEMMA GotoStep ==
    ASSUME IInv, NEW w \in Workers, job[w] # 0, step[w] \in {"start", "poll"},
           NEW s \in {"open", "poll"}, Goto(w, s), UNCHANGED <<mainVars, faults, completed>>,
           s = "open" => left[w] > 0, s = "poll" => config.profile = "database"
    PROVE  IInv'
<1>1. Typed /\ Staffed /\ job[w] \in Tasks
  BY Busy
<1>2. /\ left \in [Workers -> 0..Operations] /\ lock \in Workers \cup {0}
      /\ step \in [Workers -> {"idle", "start", "open", "poll", "write", "commit"}]
  BY <1>1 DEF Typed
<1>3. Account(job[w], TRUE, 0)
  BY <1>1, AccountNone
<1>4. /\ step' = [step EXCEPT ![w] = s] /\ lock' = lock /\ left' = left
      /\ UNCHANGED <<mainVars, future, job>>
  BY DEF Goto
<1> DEFINE l == left[w]
<1>5. l \in 0..Operations /\ left' = [left EXCEPT ![w] = l] /\ left[w] = l + 0
  <2>1. l \in 0..Operations /\ left' = [left EXCEPT ![w] = l]
    BY <1>2, <1>4
  <2> QED
    BY <2>1, Constants
<1>6. \A v \in Workers : lock' = v => step'[v] = "commit"
  <2>1. \A v \in Workers : lock = v => step[v] = "commit" /\ v # w
    BY <1>1 DEF Staffed
  <2> QED
    BY <1>2, <1>4, <2>1
<1>7. lock' \in Workers \cup {0}
  BY <1>2, <1>4
<1>8. s = "open" => l > 0
  OBVIOUS
<1> HIDE DEF l
<1> QED
  BY <1>3, <1>4, <1>5, <1>6, <1>7, <1>8, MoveStep

LEMMA MixedOperationStep ==
    ASSUME IInv, NEW w \in Workers, config.profile = "database", step[w] \in {"open", "commit"},
           NEW success \in {TRUE, FALSE}, OperationOver(w, success),
           (step[w] = "open" /\ lock' = lock) \/ lock' = 0
    PROVE  IInv'
<1>1. job[w] # 0
  BY TypeParts DEF IInv, Staffed
<1>2. /\ Typed /\ Staffed /\ Progress /\ job[w] \in Tasks /\ left \in [Workers -> Nat]
      /\ completed \in [Tasks -> Nat]
  BY <1>1, Busy
<1>3. left[w] > 0 /\ left[w] \in Nat
  BY <1>1, <1>2 DEF Progress
<1>4. /\ left \in [Workers -> 0..Operations] /\ lock \in Workers \cup {0}
      /\ step \in [Workers -> {"idle", "start", "open", "poll", "write", "commit"}]
  BY <1>2 DEF Typed
<1>5. /\ step' = [step EXCEPT ![w] = "poll"] /\ left' = [left EXCEPT ![w] = @ - 1]
      /\ completed' = [completed EXCEPT ![job[w]] = IF success THEN @ + 1 ELSE @]
      /\ faults' = IF success THEN faults ELSE faults + 1
      /\ UNCHANGED mainVars /\ UNCHANGED <<future, job>>
  BY DEF OperationOver
<1>6. completed' = IF success THEN [completed EXCEPT ![job[w]] = @ + 1] ELSE completed
  BY <1>2, <1>5
<1>7. Account(job[w], success, 1)
  BY <1>1, <1>3, <1>5, <1>6, AccountOne
<1> DEFINE l == left[w] - 1
<1>8. l \in 0..Operations /\ left' = [left EXCEPT ![w] = l] /\ left[w] = l + 1
  <2>1. left[w] \in 0..Operations
    BY <1>4
  <2> QED
    BY <1>3, <1>5, <2>1, Constants
<1>9. lock' \in Workers \cup {0} /\ \A v \in Workers : lock' = v => step'[v] = "commit"
  <2>1. CASE lock' = 0
    BY <2>1, Constants
  <2>2. CASE step[w] = "open" /\ lock' = lock
    <3>1. \A v \in Workers : lock = v => step[v] = "commit" /\ v # w
      BY <1>2, <2>2 DEF Staffed
    <3> QED
      BY <1>4, <1>5, <2>2, <3>1
  <2> QED
    BY <2>1, <2>2
<1> HIDE DEF l
<1> QED
  BY <1>1, <1>5, <1>7, <1>8, <1>9, MoveStep

LEMMA TakeStep == IInv /\ (\E w \in Workers : Take(w)) => IInv'
<1>1. SUFFICES ASSUME IInv, NEW w \in Workers, Take(w)
               PROVE  IInv'
  OBVIOUS
<1>2. PICK t \in Tasks : /\ future[t] = "queued"
                         /\ future' = [future EXCEPT ![t] = "running"]
                         /\ job' = [job EXCEPT ![w] = t]
  BY <1>1 DEF Take
<1>3. /\ job[w] = 0 /\ step' = [step EXCEPT ![w] = "start"] /\ left' = [left EXCEPT ![w] = PerTask]
      /\ UNCHANGED mainVars /\ UNCHANGED <<faults, completed, lock>>
  BY <1>1 DEF Take
<1>4. /\ UNCHANGED <<config, main, at, op, stack, reason, event, collected, ok, bad, measured>>
      /\ Plan' = Plan /\ PerTask' = PerTask
  BY <1>3 DEF mainVars, tally, Plan, PerTask
<1>5. Typed /\ Staffed /\ Progress
  BY <1>1, TypeParts DEF IInv
<1>6. /\ future \in [Tasks -> {"none", "queued", "running", "done", "error", "cancelled"}]
      /\ job \in [Workers -> Tasks \cup {0}]
      /\ step \in [Workers -> {"idle", "start", "open", "poll", "write", "commit"}]
      /\ left \in [Workers -> 0..Operations] /\ lock \in Workers \cup {0}
      /\ completed \in [Tasks -> 0..Operations] /\ faults \in Nat
  BY <1>5 DEF Typed
<1>7. PerTask \in 0..Operations /\ PerTask \in Nat \ {0}
  BY PerTaskType, Constants
<1>8. /\ future'[t] = "running" /\ \A u \in Tasks : u # t => future'[u] = future[u]
      /\ job'[w] = t /\ step'[w] = "start" /\ left'[w] = PerTask
      /\ \A v \in Workers : v # w => job'[v] = job[v] /\ step'[v] = step[v] /\ left'[v] = left[v]
      /\ completed' = completed /\ faults' = faults /\ lock' = lock
  BY <1>2, <1>3, <1>6
<1>9. \A v \in Workers : job[v] # t
  BY <1>2, <1>5, Constants DEF Staffed
<1>10. Typed'
  <2>1. future' \in [Tasks -> {"none", "queued", "running", "done", "error", "cancelled"}]
    BY <1>2, <1>6
  <2>2. /\ job' \in [Workers -> Tasks \cup {0}]
        /\ step' \in [Workers -> {"idle", "start", "open", "poll", "write", "commit"}]
    BY <1>2, <1>3, <1>6
  <2>3. left' \in [Workers -> 0..Operations]
    BY <1>3, <1>6, <1>7
  <2> QED
    BY <1>4, <1>5, <1>8, <2>1, <2>2, <2>3 DEF Typed
<1>11. t \in Unfinished
  BY <1>2 DEF Unfinished
<1>12. Staffed'
  <2>1. main' \in {"collect", "unwind"} /\ Contains(stack', "pool")
    BY <1>4, <1>5, <1>11 DEF Staffed
  <2>2. main' = "collect" => \A u \in Tasks : future'[u] # "none"
    BY <1>4, <1>5, <1>8 DEF Staffed
  <2>3. ASSUME NEW v \in Workers
        PROVE  /\ job'[v] = 0 <=> step'[v] = "idle"
               /\ job'[v] # 0 => future'[job'[v]] = "running"
               /\ lock' = v => step'[v] = "commit"
               /\ step'[v] \in {"poll", "commit"} => config'.profile = "database"
    <3>1. CASE v = w
      <4>1. lock # w
        BY <1>3, <1>5 DEF Staffed
      <4> QED
        BY <1>8, <3>1, <4>1, Constants
    <3>2. CASE v # w
      <4>1. job[v] # 0 => job[v] \in Tasks /\ job[v] # t
        BY <1>6, <1>9
      <4> QED
        BY <1>4, <1>5, <1>8, <3>2, <4>1 DEF Staffed
    <3> QED
      BY <3>1, <3>2
  <2>4. \A u, v \in Workers : job'[u] = job'[v] /\ job'[u] # 0 => u = v
    BY <1>5, <1>8, <1>9 DEF Staffed
  <2>5. collected' \subseteq {u \in Tasks : future'[u] = "done"}
    BY <1>2, <1>4, <1>5, <1>8 DEF Staffed
  <2> QED
    BY <2>1, <2>2, <2>3, <2>4, <2>5 DEF Staffed
<1>13. Progress'
  <2>1. completed[t] = 0
    BY <1>2, <1>5 DEF Progress
  <2>2. \A u \in Tasks :
           /\ completed'[u] <= PerTask
           /\ future'[u] \in {"none", "queued"} => completed'[u] = 0
           /\ config.profile = "compute" /\ future'[u] = "done" => completed'[u] = 1
    BY <1>5, <1>8, <2>1 DEF Progress
  <2>3. ASSUME NEW v \in Workers, job'[v] # 0
        PROVE  /\ completed'[job'[v]] + left'[v] <= PerTask
               /\ step'[v] \in {"open", "commit"} => left'[v] > 0
               /\ step'[v] = "start" \/ config.profile # "database" => left'[v] = PerTask
    <3>1. CASE v = w
      BY <1>7, <1>8, <2>1, <3>1
    <3>2. CASE v # w
      BY <1>5, <1>8, <2>3, <3>2 DEF Progress
    <3> QED
      BY <3>1, <3>2
  <2> QED
    BY <1>4, <2>2, <2>3 DEF Progress
<1>14. Even
  <2>1. left' \in [Workers -> Nat]
    BY <1>10, CountsAreIntegers DEF Typed
  <2>2. \A u, v \in Workers : job'[u] = job'[v] /\ job'[u] # 0 => u = v
    BY <1>12 DEF Staffed
  <2>3. Attempted[t] = 0 /\ Attempted'[t] = 0
        /\ Attempted \in [Tasks -> Int] /\ Attempted' \in [Tasks -> Int]
    <3>1. Attempted[t] = 0 /\ Attempted \in [Tasks -> Int] /\ Attempted' \in [Tasks -> Int]
      BY <1>1, <1>2, <1>4, <1>9, <2>1, <2>2, AttemptedValues
    <3>2. Attempted'[t] = PerTask - left'[w]
      BY <1>1, <1>4, <1>8, <2>1, <2>2, AttemptedValues
    <3> QED
      BY <1>7, <1>8, <3>1, <3>2
  <2>4. ASSUME NEW u \in Tasks, u # t
        PROVE  completed'[u] = completed[u] /\ Attempted'[u] = Attempted[u]
    <3>1. future'[u] = future[u] /\ completed'[u] = completed[u]
      BY <1>8, <2>4
    <3>2. CASE future[u] = "done"
      BY <1>1, <1>4, <2>1, <2>2, <3>1, <3>2, AttemptedValues
    <3>3. ASSUME future[u] # "done", NEW v \in Workers, job[v] = u
          PROVE  Attempted'[u] = Attempted[u]
      <4>1. v # w
        BY <1>3, <3>3, Constants
      <4>2. job'[v] = u /\ left'[v] = left[v]
        BY <1>8, <3>3, <4>1
      <4> QED
        BY <1>1, <1>4, <2>1, <2>2, <3>1, <3>3, <4>2, AttemptedValues
    <3>4. CASE future[u] # "done" /\ \A v \in Workers : job[v] # u
      <4>1. \A v \in Workers : job'[v] # u
        BY <1>8, <2>4, <3>4
      <4> QED
        BY <1>1, <1>4, <2>1, <2>2, <3>1, <3>4, <4>1, AttemptedValues
    <3> QED
      BY <3>1, <3>2, <3>3, <3>4
  <2>5. faults' + completed'[t] + Attempted[t] = faults + completed[t] + Attempted'[t]
    BY <1>8, <2>3
  <2> QED
    BY <1>5, <1>6, <1>8, <2>3, <2>4, <2>5, EvenAtTask
<1> QED
  <2>1. \A u \in Tasks : future[u] \in {"error", "cancelled"} => future'[u] = future[u]
    BY <1>2, <1>8
  <2> QED
    BY <1>1, <1>3, <1>10, <1>11, <1>12, <1>13, <1>14, <2>1, WorkerStep

LEMMA PoolBreaksStep == IInv /\ (\E w \in Workers : PoolBreaks(w)) => IInv'
<1>1. SUFFICES ASSUME IInv, NEW w \in Workers, PoolBreaks(w)
               PROVE  IInv'
  OBVIOUS
<1>2. /\ config.profile = "compute" /\ job[w] # 0
      /\ future' = [t \in Tasks |-> IF t \in Unfinished THEN "error" ELSE future[t]]
      /\ job' = [v \in Workers |-> 0] /\ step' = [v \in Workers |-> "idle"]
      /\ left' = [v \in Workers |-> 0]
      /\ UNCHANGED mainVars /\ UNCHANGED <<faults, completed, lock>>
  BY <1>1 DEF PoolBreaks
<1>3. /\ UNCHANGED <<config, main, at, op, stack, reason, event, collected, ok, bad, measured>>
      /\ Plan' = Plan /\ PerTask' = PerTask
  BY <1>2 DEF mainVars, tally, Plan, PerTask
<1>4. /\ Typed /\ Staffed /\ Progress /\ job[w] \in Tasks /\ future[job[w]] = "running"
      /\ Unfinished # {}
  BY <1>1, <1>2, Busy
<1>5. future \in [Tasks -> {"none", "queued", "running", "done", "error", "cancelled"}]
  BY <1>4 DEF Typed
<1>6. \A t \in Tasks : future'[t] = IF t \in Unfinished THEN "error" ELSE future[t]
  BY <1>2
<1>7. Typed'
  <2>1. future' \in [Tasks -> {"none", "queued", "running", "done", "error", "cancelled"}]
    BY <1>2, <1>5
  <2>2. left' \in [Workers -> 0..Operations]
    BY <1>2, Constants
  <2> QED
    BY <1>2, <1>3, <1>4, <2>1, <2>2 DEF Typed
<1>8. Unfinished' = {}
  BY <1>6 DEF Unfinished
<1>9. Staffed'
  <2>1. \A v \in Workers : lock' # v
    BY <1>2, <1>4 DEF Staffed
  <2>2. main' = "collect" => \A t \in Tasks : future'[t] # "none"
    BY <1>3, <1>4, <1>6 DEF Staffed
  <2>3. collected' \subseteq {t \in Tasks : future'[t] = "done"}
    BY <1>3, <1>4, <1>6 DEF Staffed, Unfinished
  <2> QED
    BY <1>2, <1>8, <2>1, <2>2, <2>3 DEF Staffed
<1>10. Progress'
  <2>1. \A t \in Tasks : /\ future'[t] \in {"none", "queued"} => future[t] = future'[t]
                         /\ future'[t] = "done" => future[t] = "done"
    BY <1>6
  <2> QED
    BY <1>2, <1>3, <1>4, <2>1 DEF Progress
<1>11. Broken
  <2>1. future'[job[w]] = "error"
    BY <1>4, <1>6 DEF Unfinished
  <2> QED
    BY <1>4, <2>1 DEF Broken
<1> QED
  <2>1. \A t \in Tasks : future[t] \in {"error", "cancelled"} => future'[t] = future[t]
    BY <1>6 DEF Unfinished
  <2> QED
    BY <1>1, <1>2, <1>4, <1>7, <1>9, <1>10, <1>11, <2>1, WorkerStep

(* A worker whose step is not "idle" has a task. *)
LEMMA AtWork ==
    ASSUME IInv, NEW w \in Workers, step[w] \in {"start", "open", "poll", "commit"}
    PROVE  /\ job[w] # 0 /\ job[w] \in Tasks /\ left[w] \in Nat
           /\ step[w] \in {"start", "open", "commit"} => left[w] > 0
           /\ config.profile # "database" =>
                 left[w] = 1 /\ completed \in [Tasks -> 0..Operations]
                 /\ completed[job[w]] = 0
<1>1. job[w] # 0
  BY DEF IInv, Staffed
<1>2. /\ Typed /\ Progress /\ job[w] \in Tasks /\ left[w] \in 0..PerTask
      /\ completed[job[w]] \in 0..PerTask /\ PerTask \in Nat \ {0}
  BY <1>1, Busy
<1>3. left[w] \in Nat /\ completed[job[w]] \in Nat
  BY <1>2
<1>4. step[w] \in {"start", "open", "commit"} => left[w] > 0
  BY <1>1, <1>2, <1>3 DEF Progress
<1>5. ASSUME config.profile # "database"
      PROVE  left[w] = 1 /\ completed \in [Tasks -> 0..Operations] /\ completed[job[w]] = 0
  <2>1. PerTask = 1 /\ left[w] = PerTask /\ completed[job[w]] + left[w] <= PerTask
    BY <1>1, <1>2, <1>5, PerTaskType DEF Progress
  <2> QED
    BY <1>2, <1>3, <2>1 DEF Typed
<1> QED
  BY <1>1, <1>2, <1>3, <1>4, <1>5

(* A task of one operation ends with it. *)
LEMMA OnlyOperationStep ==
    ASSUME IInv, NEW w \in Workers, step[w] \in {"start", "open"},
           config.profile # "database", End(w, "done"), UNCHANGED mainVars,
           NEW success \in {TRUE, FALSE},
           completed' = IF success THEN [completed EXCEPT ![job[w]] = 1] ELSE completed,
           faults' = IF success THEN faults ELSE faults + 1,
           config.profile = "compute" => success
    PROVE  IInv'
<1>1. /\ job[w] # 0 /\ job[w] \in Tasks /\ left[w] = 1
      /\ completed \in [Tasks -> 0..Operations] /\ completed[job[w]] = 0
  BY AtWork
<1>2. completed' = IF success THEN [completed EXCEPT ![job[w]] = @ + 1] ELSE completed
  BY <1>1
<1>3. left[w] > 0 /\ 1 \in Nat
  BY <1>1
<1>4. Account(job[w], success, 1)
  BY <1>1, <1>2, <1>3, AccountOne
<1> QED
  BY <1>1, <1>3, <1>4, EndStep

LEMMA StartRequestStep ==
    ASSUME IInv, NEW w \in Workers, StartRequest(w)
    PROVE  IInv'
<1>1. /\ config.profile = "web" /\ step[w] = "start"
      /\ UNCHANGED <<mainVars, faults, completed>>
      /\ End(w, "cancelled") \/ Goto(w, "open") \/ End(w, "error")
  BY DEF StartRequest
<1>2. job[w] # 0 /\ left[w] > 0
  BY <1>1, AtWork
<1>3. CASE End(w, "cancelled")
  BY <1>1, <1>2, <1>3, FailedEnd
<1>4. CASE End(w, "error")
  BY <1>1, <1>2, <1>4, FailedEnd
<1>5. CASE Goto(w, "open")
  BY <1>1, <1>2, <1>5, GotoStep
<1> QED
  BY <1>1, <1>3, <1>4, <1>5

LEMMA RequestStep ==
    ASSUME IInv, NEW w \in Workers, Request(w)
    PROVE  IInv'
<1>1. config.profile = "web" /\ step[w] = "open" /\ UNCHANGED mainVars
  BY DEF Request
<1>2. job[w] # 0
  BY <1>1, AtWork
<1>3. CASE /\ End(w, "done") /\ completed' = [completed EXCEPT ![job[w]] = 1]
           /\ UNCHANGED faults
  <2>1. /\ completed' = IF TRUE THEN [completed EXCEPT ![job[w]] = 1] ELSE completed
        /\ faults' = IF TRUE THEN faults ELSE faults + 1
    BY <1>3
  <2> QED
    BY <1>1, <1>3, <2>1, OnlyOperationStep
<1>4. CASE End(w, "done") /\ faults' = faults + 1 /\ UNCHANGED completed
  <2>1. /\ completed' = IF FALSE THEN [completed EXCEPT ![job[w]] = 1] ELSE completed
        /\ faults' = IF FALSE THEN faults ELSE faults + 1
    BY <1>4
  <2> QED
    BY <1>1, <1>4, <2>1, OnlyOperationStep
<1>5. CASE End(w, "cancelled") /\ UNCHANGED <<completed, faults>>
  BY <1>1, <1>2, <1>5, FailedEnd
<1> QED
  BY <1>3, <1>4, <1>5 DEF Request

LEMMA KernelReturnsStep ==
    ASSUME IInv, NEW w \in Workers, KernelReturns(w)
    PROVE  IInv'
<1>1. /\ config.profile = "compute" /\ step[w] = "start" /\ End(w, "done")
      /\ completed' = [completed EXCEPT ![job[w]] = 1]
      /\ UNCHANGED mainVars /\ faults' = faults
  BY DEF KernelReturns
<1>2. /\ completed' = IF TRUE THEN [completed EXCEPT ![job[w]] = 1] ELSE completed
      /\ faults' = IF TRUE THEN faults ELSE faults + 1
  BY <1>1
<1> QED
  BY <1>1, <1>2, OnlyOperationStep

LEMMA KernelCancelledStep ==
    ASSUME IInv, NEW w \in Workers, KernelCancelled(w)
    PROVE  IInv'
<1>1. /\ step[w] = "start" /\ End(w, "cancelled") /\ UNCHANGED <<mainVars, faults, completed>>
  BY DEF KernelCancelled
<1>2. job[w] # 0
  BY <1>1, AtWork
<1> QED
  BY <1>1, <1>2, FailedEnd

LEMMA ConnectStep ==
    ASSUME IInv, NEW w \in Workers, Connect(w)
    PROVE  IInv'
<1>1. /\ config.profile = "database" /\ step[w] = "start"
      /\ UNCHANGED <<mainVars, faults, completed>>
      /\ Goto(w, "poll") \/ End(w, "error")
  BY DEF Connect
<1>2. job[w] # 0
  BY <1>1, AtWork
<1>3. CASE Goto(w, "poll")
  BY <1>1, <1>2, <1>3, GotoStep
<1>4. CASE End(w, "error")
  BY <1>1, <1>2, <1>4, FailedEnd
<1> QED
  BY <1>1, <1>3, <1>4

LEMMA PollTaskStep ==
    ASSUME IInv, NEW w \in Workers, PollTask(w)
    PROVE  IInv'
<1>1. /\ config.profile = "database" /\ step[w] = "poll"
      /\ UNCHANGED <<mainVars, faults, completed>>
      /\ IF left[w] = 0 THEN End(w, "done")
         ELSE IF event THEN End(w, "cancelled") ELSE Goto(w, "open")
  BY DEF PollTask
<1>2. job[w] # 0 /\ job[w] \in Tasks /\ left[w] \in Nat
  BY <1>1, AtWork
<1>3. CASE left[w] = 0 /\ End(w, "done")
  <2>1. Account(job[w], TRUE, 0)
    BY <1>1, <1>2, AccountNone
  <2> QED
    BY <1>1, <1>2, <1>3, <2>1, EndStep
<1>4. CASE End(w, "cancelled")
  BY <1>1, <1>2, <1>4, FailedEnd
<1>5. CASE left[w] # 0 /\ Goto(w, "open")
  BY <1>1, <1>2, <1>5, GotoStep
<1> QED
  BY <1>1, <1>3, <1>4, <1>5

LEMMA VerificationFailsStep ==
    ASSUME IInv, NEW w \in Workers, VerificationFails(w)
    PROVE  IInv'
<1>1. /\ step[w] \in {"open", "commit"} /\ End(w, "error")
      /\ UNCHANGED <<mainVars, faults, completed>>
  BY DEF VerificationFails
<1>2. job[w] # 0
  BY <1>1, AtWork
<1> QED
  BY <1>1, <1>2, FailedEnd

LEMMA ReadStep ==
    ASSUME IInv, NEW w \in Workers, Read(w)
    PROVE  IInv'
<1>1. /\ config.profile = "database" /\ step[w] = "open" /\ lock' = lock
      /\ \E success \in {TRUE, FALSE} : OperationOver(w, success)
  BY DEF Read
<1>2. PICK success \in {TRUE, FALSE} : OperationOver(w, success)
  BY <1>1
<1> QED
  BY <1>1, <1>2, MixedOperationStep

LEMMA BeginImmediateStep ==
    ASSUME IInv, NEW w \in Workers, BeginImmediate(w)
    PROVE  IInv'
<1>1. config.profile = "database" /\ step[w] = "open"
  BY DEF BeginImmediate
<1>2. job[w] # 0 /\ job[w] \in Tasks /\ left[w] \in Nat /\ left[w] > 0
  BY <1>1, AtWork
<1>3. CASE /\ lock = 0 /\ lock' = w /\ step' = [step EXCEPT ![w] = "commit"]
           /\ UNCHANGED <<mainVars, faults, completed, future, job, left>>
  <2>1. Account(job[w], TRUE, 0)
    BY <1>2, <1>3, AccountNone
  <2>2. Typed
    BY TypeParts DEF IInv
  <2>3. /\ left \in [Workers -> 0..Operations]
        /\ step \in [Workers -> {"idle", "start", "open", "poll", "write", "commit"}]
    BY <2>2 DEF Typed
  <2> DEFINE l == left[w]
  <2>4. /\ l \in 0..Operations /\ left' = [left EXCEPT ![w] = l] /\ left[w] = l + 0 /\ l > 0
    BY <1>2, <1>3, <2>3
  <2>5. lock' \in Workers \cup {0} /\ \A v \in Workers : lock' = v => step'[v] = "commit"
    BY <1>3, <2>3
  <2>6. UNCHANGED mainVars /\ UNCHANGED <<future, job>>
    BY <1>3
  <2> HIDE DEF l
  <2> QED
    BY <1>1, <1>2, <1>3, <2>1, <2>4, <2>5, <2>6, MoveStep
<1>4. CASE lock # 0 /\ OperationOver(w, FALSE) /\ UNCHANGED lock
  BY <1>1, <1>4, MixedOperationStep
<1> QED
  BY <1>3, <1>4 DEF BeginImmediate

LEMMA UpdateAndCommitStep ==
    ASSUME IInv, NEW w \in Workers, UpdateAndCommit(w)
    PROVE  IInv'
<1>1. /\ config.profile = "database" /\ step[w] = "commit" /\ lock' = 0
      /\ \E success \in {TRUE, FALSE} : OperationOver(w, success)
  BY DEF UpdateAndCommit
<1>2. PICK success \in {TRUE, FALSE} : OperationOver(w, success)
  BY <1>1
<1> QED
  BY <1>1, <1>2, MixedOperationStep

LEMMA WorkerNextStep ==
    ASSUME IInv, NEW w \in Workers, WorkerNext(w) \/ KernelReturns(w) \/ PoolBreaks(w)
    PROVE  IInv'
<1>1. CASE Take(w)
  BY <1>1, TakeStep
<1>2. CASE StartRequest(w)
  BY <1>2, StartRequestStep
<1>3. CASE Request(w)
  BY <1>3, RequestStep
<1>4. CASE KernelCancelled(w)
  BY <1>4, KernelCancelledStep
<1>5. CASE Connect(w)
  BY <1>5, ConnectStep
<1>6. CASE PollTask(w)
  BY <1>6, PollTaskStep
<1>7. CASE Read(w)
  BY <1>7, ReadStep
<1>8. CASE BeginImmediate(w)
  BY <1>8, BeginImmediateStep
<1>9. CASE UpdateAndCommit(w)
  BY <1>9, UpdateAndCommitStep
<1>10. CASE VerificationFails(w)
  BY <1>10, VerificationFailsStep
<1>11. CASE KernelReturns(w)
  BY <1>11, KernelReturnsStep
<1>12. CASE PoolBreaks(w)
  BY <1>12, PoolBreaksStep
<1> QED
  BY <1>1, <1>2, <1>3, <1>4, <1>5, <1>6, <1>7, <1>8, <1>9, <1>10, <1>11, <1>12 DEF WorkerNext

LEMMA MainNextStep ==
    ASSUME IInv, MainNext
    PROVE  IInv'
BY CheckTokenStep, EnterResourceStep, LeaveResourceStep, BeginOperationStep,
   OperationSucceedsStep, OperationFailsStep, OperationCancelledStep, SubmitStep, CollectStep,
   PollFutureStep, BatchDoneStep, NeedCompletedStep, RecordStep, UnwindStep, FailStep,
   CancelStep, FinishStep DEF MainNext

LEMMA StepIInv == IInv /\ [Next]_vars => IInv'
<1>1. SUFFICES ASSUME IInv, [Next]_vars
               PROVE  IInv'
  OBVIOUS
<1>2. CASE RequestCancellation
  BY <1>1, <1>2, RequestCancellationStep
<1>3. CASE MainNext
  BY <1>1, <1>3, MainNextStep
<1>4. CASE \E w \in Workers : WorkerNext(w) \/ KernelReturns(w) \/ PoolBreaks(w)
  BY <1>1, <1>4, WorkerNextStep
<1>5. CASE Terminated \/ UNCHANGED vars
  BY <1>1, <1>5, StutteringStep DEF Terminated
<1> QED
  BY <1>1, <1>2, <1>3, <1>4, <1>5 DEF Next

-----------------------------------------------------------------------------
(* The properties. *)

(***************************************************************************)
(* The inductive invariant holds of every run of a profile: the steps of    *)
(* run_<profile>_profile, of its pool's workers and of request_cancellation *)
(* preserve it, however they interleave.                                    *)
(***************************************************************************)
THEOREM Safety == Spec => []IInv
<1>1. Init => IInv
  BY InitIInv
<1>2. IInv /\ [Next]_vars => IInv'
  BY StepIInv
<1> QED
  BY <1>1, <1>2, PTL DEF Spec

(***************************************************************************)
(* A profile that has returned or raised has left its with blocks, and its  *)
(* pool has no running or queued task; a worker runs inside the pool's with *)
(* block only, and holds SQLite's write lock in its transaction only.       *)
(***************************************************************************)
THEOREM Exits == Spec => []CleanExit
<1>1. IInv => CleanExit
  <2>1. SUFFICES ASSUME IInv
                 PROVE  CleanExit
    OBVIOUS
  <2>2. Staffed /\ Placed
    BY <2>1 DEF IInv
  <2>3. ASSUME NEW w \in Workers, job[w] # 0
        PROVE  Contains(stack, "pool")
    BY <2>1, <2>2, <2>3, Busy DEF Staffed
  <2> QED
    BY <2>2, <2>3 DEF CleanExit, Staffed, Placed
<1> QED
  BY <1>1, Safety, PTL

(* A profile that has returned, with its one measurement made successfully.  *)
LEMMA Returned ==
    ASSUME IInv, main = "done", measured = <<"success">>
    PROVE  \/ /\ Current.kind = "end" /\ reason = "none"
              /\ ~Contains(measured, "failed")
           \/ config.profile = "general"
<1>1. Typed /\ Placed /\ Measures
  BY TypeParts DEF IInv
<1>2. ~Contains(measured, "failed")
  BY DEF Contains
<1>3. CASE reason = "none"
  BY <1>1, <1>2, <1>3 DEF Placed
<1>4. CASE reason # "none"
  <2>1. Current.kind # "end"
    BY <1>1, <1>4 DEF Placed
  <2>2. at < Len(Plan)
    <3>1. at # Len(Plan) /\ at \in 1..Len(Plan) /\ Len(Plan) \in Nat
      BY <1>1, <2>1, PlanHere DEF Typed
    <3> QED
      BY <3>1
  <2>3. <<"success">> # <<>>
    OBVIOUS
  <2> QED
    BY <1>1, <2>2, <2>3 DEF Measures
<1> QED
  BY <1>3, <1>4

(***************************************************************************)
(* The failures that the metrics of a successful measurement count are the  *)
(* operations that failed, no more and no fewer, although the pool's are    *)
(* computed from the sizes of the partitions.                               *)
(***************************************************************************)
THEOREM Faults == Spec => []OnlyFaultsCounted
<1>1. IInv => OnlyFaultsCounted
  <2>1. SUFFICES ASSUME IInv, main = "done", measured = <<"success">>
                 PROVE  Sum(bad) = faults
    BY DEF OnlyFaultsCounted, Sum
  <2>2. Typed /\ Placed /\ Tallies /\ Measures
    BY <2>1, TypeParts DEF IInv
  <2>3. CASE config.profile = "general"
    BY <2>2, <2>3, SumZero, CountersFinite DEF Measures
  <2>4. CASE Current.kind = "end" /\ reason = "none" /\ ~Contains(measured, "failed")
    BY <2>1, <2>2, <2>4, FinishedCounts
  <2> QED
    BY <2>1, <2>3, <2>4, Returned
<1> QED
  BY <1>1, Safety, PTL

(***************************************************************************)
(* A successful measurement counts each download, upload, request and mixed *)
(* operation of its configuration exactly once, for every number of         *)
(* repetitions, tasks and workers; and web and database had a success.      *)
(***************************************************************************)
THEOREM Complete == Spec => []SuccessIsComplete
<1>1. IInv => SuccessIsComplete
  <2>1. SUFFICES ASSUME IInv, main = "done", measured = <<"success">>
                 PROVE  SuccessIsComplete
    BY DEF SuccessIsComplete
  <2>2. Typed /\ Placed /\ Tallies /\ Measures
    BY <2>1, TypeParts DEF IInv
  <2>3. CASE config.profile = "general"
    BY <2>3 DEF SuccessIsComplete
  <2>4. CASE Current.kind = "end" /\ reason = "none" /\ ~Contains(measured, "failed")
    <3>1. /\ Promised(config, Here.done)
          /\ \A k \in {"download", "upload", "warmup"} : ok[k] + bad[k] = Here.done[k]
          /\ ok["operation"] + bad["operation"] = Here.done["batch"] * BatchSize
          /\ Here.done["need"] > 0 => ok["operation"] > 0
      BY <2>1, <2>2, <2>4, FinishedCounts
    <3>2. Repetitions \in Nat \ {0} /\ BatchSize \in Nat /\ 1 * BatchSize = BatchSize
      BY Constants, PerTaskType
    <3>3. config.profile = "networking" =>
             /\ ok["download"] + bad["download"] = Repetitions
             /\ ok["upload"] + bad["upload"] = (IF config.optional THEN Repetitions ELSE 0)
      BY <3>1 DEF Promised
    <3>4. config.profile = "web" =>
             ok["operation"] + bad["operation"] = BatchSize /\ ok["operation"] > 0
      BY <3>1, <3>2 DEF Promised
    <3>5. config.profile = "database" =>
             ok["operation"] + bad["operation"] = Repetitions * BatchSize /\ ok["operation"] > 0
      BY <3>1, <3>2 DEF Promised
    <3> QED
      BY <3>3, <3>4, <3>5 DEF SuccessIsComplete, BatchSize
  <2> QED
    BY <2>1, <2>3, <2>4, Returned
<1> QED
  BY <1>1, Safety, PTL

(***************************************************************************)
(* A sample without warnings hides no failed operation, whatever failed and *)
(* whichever part of the profile was configured.                            *)
(***************************************************************************)
THEOREM Visible == Spec => []FailuresVisible
<1>1. IInv => FailuresVisible
  BY DEF IInv
<1> QED
  BY <1>1, Safety, PTL
-----------------------------------------------------------------------------
(* After a cancellation. *)

(* The measurement that an error here ends is the last one. *)
LastMeasure == \A j \in at..(Len(Plan) - 2) : Plan[j].kind # "measure"

(* Blocks stand around the last measurement only, and networking, web and     *)
(* compute have none whose clean-up may fail.                                  *)
Sheltered ==
    /\ stack # <<>> => LastMeasure
    /\ config.profile \in {"networking", "web", "compute"} => stack \in Seq(NoCleanUp)

(* What is left to do once a checkpoint has raised. *)
Halted ==
    /\ \A t \in Tasks : future[t] = "cancelled" => event
    /\ raised =>
          /\ event /\ main # "working"
          /\ main = "collect" => \E t \in Tasks : future[t] = "cancelled"
          /\ main = "ready" => Current.kind = "end" /\ Last(measured) = "failed"
          /\ main = "unwind" /\ reason = "failed" => Replaceable /\ LastMeasure

CInv == Sheltered /\ Halted

(* What a step does once a checkpoint has raised. *)
NothingMore ==
    raised =>
        /\ main' # "working" /\ (main' = "collect" => main = "collect")
        /\ measured' # measured => measured' = Append(measured, "failed") /\ Replaceable
        /\ sample' # sample => Last(measured) = "failed"

LEMMA PlanShelters ==
    ASSUME Typed
    PROVE  /\ Current.holds # <<>> => LastMeasure
           /\ config.profile \in {"networking", "web", "compute"} =>
                 Current.holds \in Seq(NoCleanUp)
           /\ Current.holds \in Seq(Blocks)
<1>1. config \in Configurations /\ at \in 1..Len(Plan) /\ Plan = Plans[config]
  BY DEF Typed, Plan
<1>2. /\ HoldsLast(Plan) /\ Plan \in Seq(Items)
      /\ config.profile \in {"networking", "web", "compute"} => Plan \in Seq(LightItems)
  BY <1>1, PlansWellFormed DEF WellFormed, Light
<1>3. Current \in Items
  BY PlanHere
<1>4. config.profile \in {"networking", "web", "compute"} => Current \in LightItems
  BY <1>1, <1>2 DEF Current
<1> QED
  BY <1>1, <1>2, <1>3, <1>4 DEF HoldsLast, LastMeasure, Current, LightItems, Items

(* What a step of Collect takes from a batch. *)
LEMMA CollectMoves ==
    ASSUME IInv, Collect
    PROVE  /\ main = "collect" /\ stack # <<>>
           /\ UNCHANGED <<config, at, stack, event, future, measured, sample>>
           /\ \/ Raise("cancelled") /\ (event \/ \E t \in Tasks : future[t] = "cancelled")
              \/ Raise("failed") /\ \E t \in Tasks : future[t] = "error"
              \/ UNCHANGED <<main, reason, raised>>
<1>1. Typed /\ Placed /\ Staffed
  BY TypeParts DEF IInv
<1>2. /\ main = "collect" /\ UNCHANGED <<config, stack, event, future, measured, sample>>
  BY DEF Collect, poolVars, tally
<1>3. PICK t \in Awaited : /\ t \notin Unfinished
                           /\ IF event /\ config.profile = "web"
                              THEN Raise("cancelled") /\ UNCHANGED collected
                              ELSE TakeResult(t)
  BY DEF Collect
<1>4. t \in Tasks
  BY <1>3 DEF Awaited
<1>5. future[t] \in {"done", "error", "cancelled"}
  BY <1>1, <1>2, <1>3, <1>4 DEF Typed, Unfinished, Staffed
<1>6. \/ Raise("cancelled") /\ (event \/ future[t] = "cancelled")
      \/ Raise("failed") /\ future[t] = "error"
      \/ UNCHANGED <<main, at, reason, raised>>
  <2>1. CASE event /\ config.profile = "web"
    BY <1>3, <2>1
  <2>2. CASE ~(event /\ config.profile = "web")
    BY <1>3, <1>5, <2>2 DEF TakeResult
  <2> QED
    BY <2>1, <2>2
<1>7. at' = at
  BY <1>6 DEF Raise
<1>8. stack # <<>>
  <2>1. Contains(stack, "pool")
    BY <1>1, <1>2, PlanHere DEF Placed, Moves
  <2> QED
    BY <2>1 DEF Contains
<1> QED
  BY <1>2, <1>4, <1>6, <1>7, <1>8

(* How a step of the main thread changes the place and the open blocks. *)
Shrinks == stack' = stack \/ (stack # <<>> /\ stack' = Front(stack))
           \/ \E n \in Nat : stack' = SubSeq(stack, 1, Len(stack) - n)

LEMMA MainMoves ==
    ASSUME IInv, MainNext
    PROVE  /\ config' = config
           /\ (at' = at \/ at' = at + 1 \/ stack' = <<>>)
           /\ (Shrinks \/ stack' = stack \o Current.holds)
<1>1. Typed /\ Placed
  BY TypeParts DEF IInv
<1>2. Len(Current.holds) \in Nat
  BY <1>1, PlanShelters
<1>3. CASE CheckToken \/ BatchDone \/ NeedCompleted \/ Record \/ Submit
  BY <1>3 DEF CheckToken, BatchDone, NeedCompleted, Record, Submit, Continue, Raise, Shrinks
<1>9. CASE Collect \/ PollFuture
  <2>1. UNCHANGED <<config, at, stack>>
    BY <1>9, CollectMoves DEF PollFuture, Raise
  <2> QED
    BY <2>1 DEF Shrinks
<1>10. CASE Cancel \/ Finish \/ OperationCancelled
  BY <1>10 DEF Cancel, Finish, OperationCancelled, Raise, Release, Shrinks
<1>4. CASE EnterResource \/ BeginOperation
  BY <1>4 DEF EnterResource, BeginOperation, Continue, Raise, Shrinks
<1>5. CASE LeaveResource
  <2>1. Moves(Here, Current, There) /\ stack = Here.open
    BY <1>1, <1>5, PlanHere DEF LeaveResource, Placed
  <2>2. stack # <<>>
    BY <1>5, <2>1 DEF LeaveResource, Moves
  <2> QED
    BY <1>5, <2>2 DEF LeaveResource, Continue, Raise, Shrinks
<1>6. CASE OperationSucceeds \/ OperationFails
  BY <1>2, <1>6 DEF OperationSucceeds, OperationFails, NextOperation, Continue, Raise, Release,
       Shrinks
<1>7. CASE Unwind
  BY <1>7 DEF Unwind, Shrinks
<1>8. CASE Fail
  BY <1>8 DEF Fail, Shrinks
<1> QED
  BY <1>3, <1>4, <1>5, <1>6, <1>7, <1>8, <1>9, <1>10 DEF MainNext

LEMMA SubSeqFront ==
    ASSUME NEW S, NEW s \in Seq(S), NEW n \in Nat
    PROVE  /\ SubSeq(s, 1, Len(s) - n) \in Seq(S)
           /\ s = <<>> => SubSeq(s, 1, Len(s) - n) = <<>>
<1> DEFINE m == Len(s) - n
<1>1. Len(s) \in Nat /\ m \in Int /\ m <= Len(s) /\ \A i \in 1..m : s[i] \in S
  OBVIOUS
<1>2. SubSeq(s, 1, m) = [i \in 1..m |-> s[i]]
  BY <1>1
<1> HIDE DEF m
<1>3. CASE m \in Nat
  <2>1. [i \in 1..m |-> s[i]] \in Seq(S)
    BY <1>1, <1>3
  <2>2. s = <<>> => m = 0
    BY <1>1, <1>3
  <2> QED
    BY <1>2, <2>1, <2>2 DEF m
<1>4. CASE m \notin Nat
  <2>1. 1..m = {}
    BY <1>1, <1>4
  <2>2. [i \in 1..m |-> s[i]] = <<>>
    BY <2>1
  <2> QED
    BY <1>2, <2>2 DEF m
<1> QED
  BY <1>3, <1>4

LEMMA ShelteredStep == IInv /\ Sheltered /\ [Next]_vars => Sheltered'
<1>1. SUFFICES ASSUME IInv, Sheltered, [Next]_vars
               PROVE  Sheltered'
  OBVIOUS
<1>2. Typed
  BY <1>1, TypeParts DEF IInv
<1>3. ASSUME UNCHANGED <<config, at, stack>>
      PROVE  Sheltered'
  BY <1>1, <1>3 DEF Sheltered, LastMeasure, Plan
<1>4. CASE MainNext
  <2>1. /\ config' = config
        /\ (at' = at \/ at' = at + 1 \/ stack' = <<>>)
        /\ (Shrinks \/ stack' = stack \o Current.holds)
    BY <1>1, <1>4, MainMoves
  <2>2. /\ stack \in Seq(Blocks) /\ at \in Nat /\ Len(Plan) \in Nat /\ Plan' = Plan
    BY <1>2, <2>1, PlanHere DEF Typed, Plan
  <2>3. stack = <<>> /\ Current.holds = <<>> => stack' = <<>>
    BY <2>1, <2>2, SubSeqFront DEF Shrinks
  <2>4. stack' # <<>> => LastMeasure'
    <3>1. SUFFICES ASSUME stack' # <<>>
                   PROVE  LastMeasure'
      OBVIOUS
    <3>2. LastMeasure
      BY <1>1, <1>2, <2>3, <3>1, PlanShelters DEF Sheltered
    <3>3. at' = at \/ at' = at + 1
      BY <2>1, <3>1
    <3> QED
      BY <2>2, <3>2, <3>3 DEF LastMeasure
  <2>5. config.profile \in {"networking", "web", "compute"} => stack' \in Seq(NoCleanUp)
    <3>1. SUFFICES ASSUME config.profile \in {"networking", "web", "compute"}
                   PROVE  stack' \in Seq(NoCleanUp)
      OBVIOUS
    <3>2. stack \in Seq(NoCleanUp) /\ Current.holds \in Seq(NoCleanUp)
      BY <1>1, <1>2, <3>1, PlanShelters DEF Sheltered
    <3>3. stack \o Current.holds \in Seq(NoCleanUp)
      BY <3>2
    <3>4. stack # <<>> => Front(stack) \in Seq(NoCleanUp)
      BY <3>2, FrontEntries
    <3>5. \A n \in Nat : SubSeq(stack, 1, Len(stack) - n) \in Seq(NoCleanUp)
      BY <3>2, SubSeqFront
    <3> QED
      BY <2>1, <3>2, <3>3, <3>4, <3>5 DEF Shrinks
  <2> QED
    BY <2>1, <2>4, <2>5 DEF Sheltered
<1>5. CASE RequestCancellation
  BY <1>3, <1>5 DEF RequestCancellation
<1>6. CASE \E w \in Workers : WorkerNext(w) \/ KernelReturns(w) \/ PoolBreaks(w)
  <2>1. UNCHANGED mainVars
    BY <1>6 DEF WorkerNext, Take, StartRequest, Request, KernelCancelled, KernelReturns,
         PoolBreaks, Connect, PollTask, Read, BeginImmediate, UpdateAndCommit,
         VerificationFails, OperationOver
  <2> QED
    BY <1>3, <2>1 DEF mainVars
<1>7. CASE Terminated \/ UNCHANGED vars
  BY <1>3, <1>7 DEF Terminated, vars
<1> QED
  BY <1>1, <1>4, <1>5, <1>6, <1>7 DEF Next

(* Before the first cancellation: a step that leaves the tasks alone, or       *)
(* queues them.                                                                *)
LEMMA NotYet ==
    ASSUME Halted, ~raised, UNCHANGED event,
           future' = future \/ future' = [t \in Tasks |-> "queued"],
           \/ UNCHANGED raised
           \/ Raise("failed")
           \/ Raise("cancelled") /\ event
    PROVE  Halted' /\ NothingMore
<1>1. \A t \in Tasks : future'[t] = "cancelled" => event'
  BY DEF Halted
<1>2. CASE UNCHANGED raised
  BY <1>1, <1>2 DEF Halted, NothingMore
<1>3. CASE Raise("failed")
  BY <1>1, <1>3 DEF Halted, NothingMore, Raise
<1>4. CASE Raise("cancelled") /\ event
  BY <1>1, <1>4 DEF Halted, NothingMore, Raise
<1> QED
  BY <1>2, <1>3, <1>4

LEMMA ItemHalted ==
    ASSUME IInv, CInv,
           \/ CheckToken \/ EnterResource \/ LeaveResource \/ BeginOperation
           \/ OperationSucceeds \/ OperationFails \/ OperationCancelled
           \/ Submit \/ NeedCompleted \/ Record \/ BatchDone
    PROVE  Halted' /\ NothingMore
<1>1. Halted /\ Staffed /\ Placed
  BY DEF CInv, IInv
<1>2. ~raised
  <2>1. CASE BatchDone
    <3>1. main = "collect" /\ \A t \in Tasks : future[t] = "done"
      BY <1>1, <2>1 DEF BatchDone, Staffed
    <3> QED
      BY <1>1, <3>1 DEF Halted
  <2>2. CASE OperationSucceeds \/ OperationFails \/ OperationCancelled
    <3>1. main = "working"
      BY <2>2 DEF OperationSucceeds, OperationFails, OperationCancelled
    <3> QED
      BY <1>1, <3>1 DEF Halted
  <2>3. CASE \/ CheckToken \/ EnterResource \/ LeaveResource \/ BeginOperation
             \/ Submit \/ NeedCompleted \/ Record
    <3>1. main = "ready" /\ Current.kind # "end"
      BY <2>3 DEF CheckToken, EnterResource, LeaveResource, BeginOperation, Submit,
           NeedCompleted, Record
    <3> QED
      BY <1>1, <3>1 DEF Halted
  <2> QED
    BY <2>1, <2>2, <2>3
<1>3. CASE CheckToken \/ EnterResource \/ LeaveResource \/ NeedCompleted \/ Record
           \/ BatchDone
  <2>1. /\ UNCHANGED <<event, future>>
        /\ \/ UNCHANGED raised
           \/ Raise("failed")
           \/ Raise("cancelled") /\ event
    BY <1>3 DEF CheckToken, EnterResource, LeaveResource, NeedCompleted, Record, BatchDone,
         Continue, poolVars
  <2> QED
    BY <1>1, <1>2, <2>1, NotYet
<1>4. CASE OperationSucceeds \/ OperationFails \/ OperationCancelled
  <2>1. /\ UNCHANGED <<event, future>>
        /\ \/ UNCHANGED raised
           \/ Raise("failed")
           \/ Raise("cancelled") /\ event
    BY <1>4 DEF OperationSucceeds, OperationFails, OperationCancelled, NextOperation, Continue,
         poolVars
  <2> QED
    BY <1>1, <1>2, <2>1, NotYet
<1>5. CASE BeginOperation \/ Submit
  <2>1. /\ UNCHANGED event
        /\ (future' = future \/ future' = [t \in Tasks |-> "queued"])
        /\ \/ UNCHANGED raised
           \/ Raise("cancelled") /\ event
    BY <1>5 DEF BeginOperation, Submit, poolVars
  <2> QED
    BY <1>1, <1>2, <2>1, NotYet
<1> QED
  BY <1>3, <1>4, <1>5

LEMMA CollectHalted ==
    ASSUME IInv, CInv, Collect
    PROVE  Halted' /\ NothingMore
<1>1. /\ main = "collect" /\ stack # <<>>
      /\ UNCHANGED <<config, at, stack, event, future, measured, sample>>
      /\ \/ Raise("cancelled") /\ (event \/ \E t \in Tasks : future[t] = "cancelled")
         \/ Raise("failed") /\ \E t \in Tasks : future[t] = "error"
         \/ UNCHANGED <<main, reason, raised>>
  BY CollectMoves
<1>2. Halted /\ LastMeasure
  BY <1>1 DEF CInv, Sheltered
<1>3. CASE Raise("cancelled") /\ (event \/ \E t \in Tasks : future[t] = "cancelled")
  BY <1>1, <1>2, <1>3 DEF Halted, NothingMore, Raise
<1>4. CASE Raise("failed") /\ \E t \in Tasks : future[t] = "error"
  <2>1. Replaceable' /\ LastMeasure'
    BY <1>1, <1>2, <1>4 DEF Replaceable, LastMeasure, Plan
  <2> QED
    BY <1>1, <1>2, <1>4, <2>1 DEF Halted, NothingMore, Raise
<1>5. CASE UNCHANGED <<main, reason, raised>>
  BY <1>1, <1>2, <1>5 DEF Halted, NothingMore
<1> QED
  BY <1>1, <1>3, <1>4, <1>5

LEMMA PollFutureHalted ==
    ASSUME IInv, CInv, PollFuture
    PROVE  Halted' /\ NothingMore
<1>1. /\ UNCHANGED <<event, future, measured, sample>>
      /\ (event /\ Raise("cancelled")) \/ (~event /\ Raise("failed"))
  BY DEF PollFuture, poolVars, tally
<1>2. Halted
  BY DEF CInv
<1>3. CASE event /\ Raise("cancelled")
  BY <1>1, <1>2, <1>3 DEF Halted, NothingMore, Raise
<1>4. CASE ~event /\ Raise("failed")
  BY <1>1, <1>2, <1>4, NotYet DEF Halted
<1> QED
  BY <1>1, <1>3, <1>4

(* An error of a clean-up takes the place of the exception. *)
LEMMA UnwindHalted ==
    ASSUME IInv, CInv, Unwind
    PROVE  Halted' /\ NothingMore
<1>1. /\ main = "unwind" /\ stack # <<>>
      /\ UNCHANGED <<config, main, at, event, raised, future, measured, sample>>
      /\ UNCHANGED reason \/ CleanUpMayFail
  BY DEF Unwind, poolVars, tally
<1>2. Halted /\ LastMeasure /\ Typed
  BY <1>1, TypeParts DEF CInv, Sheltered, IInv
<1>3. LastMeasure' /\ (Replaceable => Replaceable')
  BY <1>1, <1>2 DEF Replaceable, LastMeasure, Plan
<1>4. CASE UNCHANGED reason
  BY <1>1, <1>2, <1>3, <1>4 DEF Halted, NothingMore
<1>5. CASE CleanUpMayFail
  <2>1. config.profile \notin {"networking", "web", "compute"}
    <3>1. ASSUME stack \in Seq(NoCleanUp)
          PROVE  FALSE
      <4>1. Last(stack) \in NoCleanUp
        BY <1>1, <3>1 DEF Last
      <4> QED
        BY <1>5, <4>1 DEF CleanUpMayFail, NoCleanUp
    <3> QED
      BY <3>1 DEF CInv, Sheltered
  <2>2. config.profile \in ProfileNames
    BY <1>2, ProfilesAssumption DEF Typed
  <2>3. Replaceable
    BY <2>1, <2>2 DEF Replaceable, ProfileNames
  <2> QED
    BY <1>1, <1>2, <1>3, <2>3 DEF Halted, NothingMore
<1> QED
  BY <1>1, <1>4, <1>5

(* The measurement that failed in the place of a cancellation was the last. *)
LEMMA FailHalted ==
    ASSUME IInv, CInv, Fail
    PROVE  Halted' /\ NothingMore
<1>1. /\ main = "unwind" /\ reason = "failed" /\ main' = "ready"
      /\ measured' = Append(measured, "failed") /\ at' = NextMeasurement + 1
      /\ UNCHANGED <<config, event, raised, future, sample>>
  BY DEF Fail, poolVars
<1>2. Halted /\ Typed /\ Placed
  BY TypeParts DEF CInv, IInv
<1>3. Last(measured') = "failed"
  <2>1. measured \in Seq({"success", "failed", "skipped"})
    BY <1>2 DEF Typed
  <2> QED
    BY <1>1, <2>1 DEF Last
<1>4. ASSUME raised
      PROVE  Replaceable /\ Current'.kind = "end"
  <2>1. Replaceable /\ LastMeasure
    BY <1>1, <1>2, <1>4 DEF Halted
  <2> DEFINE m == NextMeasurement
  <2>2. m \in at..Len(Plan) /\ Plan[m].kind = "measure"
    BY <1>1, <1>2, MeasurementAhead DEF Placed
  <2> HIDE DEF m
  <2>3. /\ Plan \in Seq(Items) /\ OnlyEndEnds(Plan) /\ at \in 1..Len(Plan)
        /\ Len(Plan) \in Nat
    BY <1>2, PlanHere, PlansWellFormed DEF Typed, WellFormed, Plan
  <2>4. m # Len(Plan)
    BY <2>2, <2>3 DEF OnlyEndEnds
  <2>5. m = Len(Plan) - 1
    BY <2>1, <2>2, <2>3, <2>4 DEF LastMeasure
  <2>6. at' = Len(Plan) /\ Plan' = Plan
    BY <1>1, <2>3, <2>5 DEF m, Plan
  <2>7. Plan[Len(Plan)].kind = "end"
    BY <2>3 DEF OnlyEndEnds
  <2> QED
    BY <2>1, <2>6, <2>7 DEF Current
<1> QED
  BY <1>1, <1>2, <1>3, <1>4 DEF Halted, NothingMore

LEMMA EndHalted ==
    ASSUME IInv, CInv, Cancel \/ Finish
    PROVE  Halted' /\ NothingMore
<1>1. Halted
  BY DEF CInv
<1>2. CASE Cancel
  BY <1>1, <1>2 DEF Cancel, Halted, NothingMore, poolVars, tally
<1>3. CASE Finish
  <2>1. /\ main = "ready" /\ main' = "done"
        /\ UNCHANGED <<event, raised, future, measured>>
    BY <1>3 DEF Finish, poolVars
  <2> QED
    BY <1>1, <2>1 DEF Halted, NothingMore
<1> QED
  BY <1>2, <1>3

LEMMA RequestHalted ==
    ASSUME CInv, RequestCancellation
    PROVE  Halted' /\ NothingMore
<1>1. /\ ~event /\ event' = TRUE
      /\ UNCHANGED <<main, raised, future, measured, sample>>
  BY DEF RequestCancellation, poolVars, tally
<1> QED
  BY <1>1 DEF CInv, Halted, NothingMore

(* Tasks that are over stay over, and a worker whose task is cancelled outside *)
(* of an unwinding pool is one that the main thread collects from.             *)
Observed ==
    /\ \A t \in Tasks : future[t] \in {"error", "cancelled"} => future'[t] = future[t]
    /\ \A t \in Tasks : future'[t] = "cancelled" => future[t] = "cancelled" \/ event
    /\ \/ raised' <=> raised
       \/ /\ raised' = TRUE /\ event /\ main = "collect"
          /\ \E t \in Tasks : future'[t] = "cancelled"

LEMMA WorkerHalted ==
    ASSUME CInv, UNCHANGED mainVars, Observed
    PROVE  Halted' /\ NothingMore
<1>1. /\ UNCHANGED <<config, main, at, reason, event, measured, sample>>
      /\ Plan' = Plan /\ Current' = Current
  BY DEF mainVars, tally, Plan, Current
<1>2. Halted
  BY DEF CInv
<1>3. LastMeasure' = LastMeasure /\ (Replaceable => Replaceable')
  BY <1>1 DEF Observed, Replaceable, LastMeasure
<1>4. \A t \in Tasks : future'[t] = "cancelled" => event'
  BY <1>1, <1>2 DEF Observed, Halted
<1>5. CASE raised' <=> raised
  <2>1. (\E t \in Tasks : future[t] = "cancelled") => \E t \in Tasks : future'[t] = "cancelled"
    BY DEF Observed
  <2> QED
    BY <1>1, <1>2, <1>3, <1>4, <1>5, <2>1 DEF Halted, NothingMore
<1>6. CASE /\ event /\ main = "collect" /\ \E t \in Tasks : future'[t] = "cancelled"
  BY <1>1, <1>4, <1>6 DEF Halted, NothingMore
<1> QED
  BY <1>5, <1>6 DEF Observed

LEMMA EndObserved ==
    ASSUME IInv, NEW w \in Workers, job[w] # 0,
           NEW s \in {"done", "error", "cancelled"}, End(w, s), s = "cancelled" => event
    PROVE  Observed
<1>1. /\ Typed /\ Staffed /\ job[w] \in Tasks /\ future[job[w]] = "running"
      /\ Unfinished # {}
  BY Busy
<1>2. main \in {"collect", "unwind"}
  BY <1>1 DEF Staffed
<1>3. future' = [future EXCEPT ![job[w]] = s]
      /\ raised' = (raised \/ (s = "cancelled" /\ main # "unwind"))
  BY DEF End
<1>4. \A t \in Tasks : future'[t] = IF t = job[w] THEN s ELSE future[t]
  BY <1>1, <1>3 DEF Typed
<1>5. CASE s = "cancelled" /\ main # "unwind"
  <2>1. raised' = TRUE /\ event /\ main = "collect" /\ future'[job[w]] = "cancelled"
    BY <1>1, <1>2, <1>3, <1>4, <1>5
  <2> QED
    BY <1>1, <1>4, <2>1 DEF Observed
<1>6. CASE ~(s = "cancelled" /\ main # "unwind")
  <2>1. raised' <=> raised
    BY <1>3, <1>6
  <2> QED
    BY <1>1, <1>4, <2>1 DEF Observed
<1> QED
  BY <1>5, <1>6

LEMMA WorkersObserved ==
    ASSUME IInv, NEW w \in Workers, WorkerNext(w) \/ KernelReturns(w) \/ PoolBreaks(w)
    PROVE  UNCHANGED mainVars /\ Observed
<1>1. Typed /\ Staffed
  BY TypeParts DEF IInv
<1>2. ASSUME UNCHANGED <<raised, future>>
      PROVE  Observed
  BY <1>2 DEF Observed
<1>3. CASE Take(w)
  <2>1. PICK t \in Tasks : future[t] = "queued" /\ future' = [future EXCEPT ![t] = "running"]
    BY <1>3 DEF Take
  <2>2. \A u \in Tasks : future'[u] = IF u = t THEN "running" ELSE future[u]
    BY <1>1, <2>1 DEF Typed
  <2>3. UNCHANGED mainVars /\ UNCHANGED raised
    BY <1>3 DEF Take
  <2> QED
    BY <2>1, <2>2, <2>3 DEF Observed
<1>4. CASE PoolBreaks(w)
  <2>1. \A t \in Tasks : future'[t] = IF t \in Unfinished THEN "error" ELSE future[t]
    BY <1>4 DEF PoolBreaks
  <2>2. UNCHANGED mainVars /\ UNCHANGED raised
    BY <1>4 DEF PoolBreaks
  <2> QED
    BY <2>1, <2>2 DEF Observed, Unfinished
<1>5. CASE StartRequest(w) \/ KernelCancelled(w) \/ Connect(w) \/ KernelReturns(w)
  <2>1. step[w] = "start" /\ UNCHANGED mainVars
    BY <1>5 DEF StartRequest, KernelCancelled, Connect, KernelReturns
  <2>2. job[w] # 0
    BY <2>1, AtWork
  <2>3. \/ End(w, "cancelled") /\ event
        \/ End(w, "error")
        \/ End(w, "done")
        \/ UNCHANGED <<raised, future>>
    BY <1>5 DEF StartRequest, KernelCancelled, Connect, KernelReturns, Goto
  <2> QED
    BY <1>2, <2>1, <2>2, <2>3, EndObserved
<1>6. CASE Request(w) \/ PollTask(w)
  <2>1. step[w] \in {"open", "poll"} /\ UNCHANGED mainVars
    BY <1>6 DEF Request, PollTask
  <2>2. job[w] # 0
    BY <2>1, AtWork
  <2>3. \/ End(w, "cancelled") /\ event
        \/ End(w, "done")
        \/ UNCHANGED <<raised, future>>
    BY <1>6 DEF Request, PollTask, Goto
  <2> QED
    BY <1>2, <2>1, <2>2, <2>3, EndObserved
<1>7. CASE VerificationFails(w)
  <2>1. step[w] \in {"open", "commit"} /\ End(w, "error") /\ UNCHANGED mainVars
    BY <1>7 DEF VerificationFails
  <2>2. job[w] # 0
    BY <2>1, AtWork
  <2> QED
    BY <2>1, <2>2, EndObserved
<1>8. CASE Read(w) \/ BeginImmediate(w) \/ UpdateAndCommit(w)
  <2>1. UNCHANGED mainVars /\ UNCHANGED <<raised, future>>
    BY <1>8 DEF Read, BeginImmediate, UpdateAndCommit, OperationOver
  <2> QED
    BY <1>2, <2>1
<1> QED
  BY <1>3, <1>4, <1>5, <1>6, <1>7, <1>8 DEF WorkerNext

LEMMA HaltedStep == IInv /\ CInv /\ [Next]_vars => Halted' /\ NothingMore
<1>1. SUFFICES ASSUME IInv, CInv, [Next]_vars
               PROVE  Halted' /\ NothingMore
  OBVIOUS
<1>2. CASE MainNext
  BY <1>1, <1>2, ItemHalted, CollectHalted, PollFutureHalted, UnwindHalted, FailHalted,
     EndHalted DEF MainNext
<1>3. CASE RequestCancellation
  BY <1>1, <1>3, RequestHalted
<1>4. CASE \E w \in Workers : WorkerNext(w) \/ KernelReturns(w) \/ PoolBreaks(w)
  BY <1>1, <1>4, WorkersObserved, WorkerHalted
<1>5. CASE Terminated \/ UNCHANGED vars
  <2>1. /\ UNCHANGED <<main, reason, event, raised, future, measured, sample>>
        /\ Current' = Current /\ LastMeasure' = LastMeasure /\ Replaceable' = Replaceable
    BY <1>5 DEF Terminated, vars, poolVars, tally, Current, LastMeasure, Replaceable, Plan
  <2> QED
    BY <1>1, <2>1 DEF CInv, Halted, NothingMore
<1> QED
  BY <1>1, <1>2, <1>3, <1>4, <1>5 DEF Next

LEMMA InitCInv == Init => CInv
<1>1. SUFFICES ASSUME Init
               PROVE  CInv
  OBVIOUS
<1>2. stack = <<>> /\ <<>> \in Seq(NoCleanUp)
  BY <1>1 DEF Init
<1>3. raised = FALSE /\ \A t \in Tasks : future[t] = "none"
  BY <1>1 DEF Init
<1> QED
  BY <1>2, <1>3 DEF CInv, Sheltered, Halted

LEMMA StepCInv == IInv /\ CInv /\ [Next]_vars => CInv'
  BY ShelteredStep, HaltedStep DEF CInv

(***************************************************************************)
(* Once a checkpoint has raised CancellationRequested, in the main thread   *)
(* or in a worker, nothing is measured any more: no operation and no batch  *)
(* begins, no measurement succeeds, and a sample is made only if the error  *)
(* of a clean-up or of another task has replaced the exception, and then    *)
(* its last measurement has failed.                                         *)
(***************************************************************************)
THEOREM CancellationStopsWork == Spec => NothingAfterCancellation
<1>1. Init => IInv /\ CInv
  BY InitIInv, InitCInv
<1>2. IInv /\ CInv /\ [Next]_vars => (IInv /\ CInv)'
  BY StepIInv, StepCInv
<1>3. IInv /\ CInv /\ [Next]_vars => [NothingMore]_vars
  BY HaltedStep
<1>4. Spec => [][NothingMore]_vars
  BY <1>1, <1>2, <1>3, PTL DEF Spec
<1> QED
  BY <1>4 DEF NothingMore, NothingAfterCancellation

-----------------------------------------------------------------------------
(* The types. *)

(* Every step leaves the flag alone or gives it a truth value. *)
Flagged == raised \in BOOLEAN

LEMMA RaisedStep == IInv /\ raised \in BOOLEAN /\ [Next]_vars => raised' \in BOOLEAN
<1>1. SUFFICES ASSUME IInv, raised \in BOOLEAN, [Next]_vars
               PROVE  raised' \in BOOLEAN
  OBVIOUS
<1>2. ASSUME NEW e, Raise(e)
      PROVE  raised' \in BOOLEAN
  <2>1. raised' = (raised \/ e = "cancelled")
    BY <1>2, Zenon DEF Raise
  <2> QED
    BY <2>1, Zenon
<1>3. ASSUME NEW w, NEW s, End(w, s)
      PROVE  raised' \in BOOLEAN
  <2>1. raised' = (raised \/ (s = "cancelled" /\ main # "unwind"))
    BY <1>3, Zenon DEF End
  <2> QED
    BY <2>1, Zenon
<1>4. CASE CheckToken \/ EnterResource \/ LeaveResource \/ BeginOperation
  BY <1>1, <1>2, <1>4, Zenon DEF CheckToken, EnterResource, LeaveResource, BeginOperation,
     Continue
<1>5. CASE OperationSucceeds \/ OperationFails \/ OperationCancelled
  BY <1>1, <1>2, <1>5, Zenon DEF OperationSucceeds, OperationFails, OperationCancelled,
     NextOperation, Continue
<1>6. CASE Submit \/ PollFuture \/ BatchDone \/ NeedCompleted
  BY <1>1, <1>2, <1>6, Zenon DEF Submit, PollFuture, BatchDone, NeedCompleted, Continue
<1>7. CASE Collect
  <2>1. Raise("cancelled") \/ Raise("failed") \/ UNCHANGED <<main, reason, raised>>
    BY <1>1, <1>7, CollectMoves
  <2> QED
    BY <1>1, <1>2, <2>1, Zenon
<1>8. CASE Record \/ Unwind \/ Fail \/ Cancel \/ Finish \/ RequestCancellation \/ Terminated
           \/ UNCHANGED vars
  BY <1>1, <1>8, Zenon DEF Record, Unwind, Fail, Cancel, Finish, RequestCancellation,
     Terminated, Continue, vars
<1>9. ASSUME NEW w \in Workers, WorkerNext(w) \/ KernelReturns(w) \/ PoolBreaks(w)
      PROVE  raised' \in BOOLEAN
  <2>1. CASE Take(w) \/ StartRequest(w) \/ Request(w) \/ KernelCancelled(w) \/ Connect(w)
    BY <1>1, <1>3, <2>1, Zenon DEF Take, StartRequest, Request, KernelCancelled, Connect, Goto
  <2>2. CASE PollTask(w) \/ VerificationFails(w) \/ KernelReturns(w) \/ PoolBreaks(w)
    BY <1>1, <1>3, <2>2, Zenon DEF PollTask, VerificationFails, KernelReturns, PoolBreaks, Goto
  <2>3. CASE Read(w) \/ BeginImmediate(w) \/ UpdateAndCommit(w)
    BY <1>1, <2>3, Zenon DEF Read, BeginImmediate, UpdateAndCommit, OperationOver
  <2> QED
    BY <1>9, <2>1, <2>2, <2>3, Zenon DEF WorkerNext
<1> QED
  BY <1>1, <1>4, <1>5, <1>6, <1>7, <1>8, <1>9, Zenon DEF Next, MainNext

(***************************************************************************)
(* Every variable keeps its type, also when a batch computes its errors as  *)
(* attempted - completed: the difference is never negative.                 *)
(***************************************************************************)
THEOREM TypeCorrect == Spec => []TypeOK
<1>1. Init => IInv /\ Flagged
  BY InitIInv, Zenon DEF Init, Flagged
<1>2. IInv /\ Flagged /\ [Next]_vars => IInv' /\ Flagged'
  BY StepIInv, RaisedStep, Zenon DEF Flagged
<1>3. IInv /\ Flagged => TypeOK
  <2>1. IInv => Typed /\ event \in BOOLEAN
    BY TypeParts DEF IInv
  <2> QED
    BY <2>1, Zenon DEF Typed, TypeOK, Blocks, Flagged
<1> QED
  BY <1>1, <1>2, <1>3, PTL DEF Spec
=============================================================================
