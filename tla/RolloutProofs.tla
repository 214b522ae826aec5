---------------------------- MODULE RolloutProofs ----------------------------
(***************************************************************************)
(* Proofs about policy rollouts, for every number of endpoints, every      *)
(* batch size and every set of options.  Four facts about the call in      *)
(* progress carry them: where its loop is (Progress), what it has to take  *)
(* back (Undo), what its phases and its snapshot say of the store          *)
(* (Reports), and how far the options let it go (Limits).                  *)
(***************************************************************************)
EXTENDS Rollout, FiniteSetTheorems, TLAPS

Active == run.pc # "idle"

RunType ==
  [pc : {"gates", "item", "check", "rollback", "finish"},
   version : Version, options : Options, size : Sizes,
   frozen : SUBSET Item, resumed : SUBSET Item, changed : SUBSET Item,
   phase : [Item -> Phase], snapshot : [Item -> Version], i : 0..N,
   applied : Seq(Item), unchecked : SUBSET Item, completed : Nat,
   paused : BOOLEAN, failed : BOOLEAN]

Types ==
  /\ policy \in [Item -> Version]
  /\ setting \in Settings
  /\ version \in Version \ {NoPolicy}
  /\ options \in Options /\ granted \subseteq Item
  /\ frozen \subseteq Item
  /\ resume \in [revision : Version, applied : SUBSET Item]
  /\ Active => run \in RunType

Installed == {"applied", "resumed_applied"}

\* The loop over the items: what is behind it is installed, what is ahead is
\* as planned, the batches behind it are counted, and none of them was the
\* last one before a pause.
Looping(r) ==
  /\ r.i \in Item
  /\ \A j \in Item : j < r.i => r.phase[j] \in Installed
  /\ \A j \in Item : j > r.i => r.phase[j] = "planned"
  /\ r.phase[r.i] = IF r.pc = "item" THEN "planned" ELSE "applied"
  /\ r.completed = Batch(r.size, r.i)
  /\ BeforePauses(r.options, r.size, r.i)
  /\ r.pc = "check" => BatchComplete(r)

Progress ==
  /\ run.pc = "gates" =>
       /\ run.applied = <<>> /\ run.completed = 0
       /\ \A j \in Item : run.phase[j] = "planned"
  /\ run.pc \in {"item", "check"} => Looping(run)

\* What a rollback has to take back: once each, and only what is applied.
Undo ==
  run.pc \in {"item", "check", "rollback"} =>
    /\ \A k \in DOMAIN run.applied :
         /\ run.phase[run.applied[k]] = "applied"
         /\ run.pc = "item" => run.applied[k] < run.i
         /\ run.pc = "check" => run.applied[k] <= run.i
    /\ \A k, l \in DOMAIN run.applied :
         run.applied[k] = run.applied[l] => k = l

\* Without deletions through the API, only the call in progress changes
\* installed policies.
Reports ==
  "reset" \notin setting /\ Active =>
    /\ run.changed = {i \in Item : run.snapshot[i] # run.version}
    /\ \A i \in Item :
         policy[i] = IF run.phase[i] \in Installed \cup {"rollback_failed"}
                     THEN run.version ELSE run.snapshot[i]

\* How far a version may have gone.
Limits ==
  /\ Reach(options) \subseteq granted
  /\ \A i \in Item : policy[i] <= version /\ (policy[i] = version => i \in granted)
  /\ Active =>
       /\ run.version <= version
       /\ run.version = version => Reach(run.options) \subseteq granted
       /\ \A i \in Item : /\ run.snapshot[i] <= version
                          /\ run.snapshot[i] = version => i \in granted

\* What the resume state claims, between and during cycles.
Kept == "pinned" \in setting /\ setting \cap {"reset", "explicit"} = {}

Claims ==
  Kept =>
    /\ resume.revision <= version
    /\ Active => resume.revision <= run.version
    /\ resume.revision = version =>
         \A i \in resume.applied :
           policy[i] = version /\ (Active => run.snapshot[i] = version)

IInv == Types /\ Progress /\ Undo /\ Reports /\ Limits /\ Claims

-----------------------------------------------------------------------------
(* Arithmetic of batches.                                                  *)

\* What \div computes, for a divisor that is not a literal.
LEMMA Division ==
  ASSUME NEW a \in Nat, NEW b \in Nat, b > 0
  PROVE  /\ a \div b \in Nat
         /\ (a \div b) * b <= a
         /\ a < (a \div b) * b + b
  OBVIOUS

\* The last multiples of b up to a number and up to the next one.
LEMMA Adjacent ==
  ASSUME NEW b \in Nat, b > 0, NEW p \in Nat, NEW q \in Nat, NEW a \in Nat,
         p * b <= a, a < p * b + b, q * b <= a + 1, a + 1 < q * b + b
  PROVE  q = p \/ (q = p + 1 /\ a + 1 = q * b)
  OBVIOUS

LEMMA SizesArePositive == \A size \in Sizes : size \in Nat /\ size > 0
  BY RolloutAssumption DEF Sizes

LEMMA ItemsAreNumbered ==
  /\ N \in Nat /\ 1 \in Item
  /\ \A i \in Item : i \in Nat /\ i >= 1 /\ i <= N /\ (i # N => i + 1 \in Item)
  BY RolloutAssumption DEF Item

\* The next item is in the same batch or opens the next one.
LEMMA BatchSteps ==
  ASSUME NEW size \in Sizes, NEW i \in Nat, i >= 1
  PROVE  /\ Batch(size, i) \in Nat
         /\ Batch(size, 1) = 0
         /\ \/ Batch(size, i + 1) = Batch(size, i)
            \/ /\ Batch(size, i + 1) = Batch(size, i) + 1
               /\ Batch(size, i + 1) * size = i
<1>1. size \in Nat /\ size > 0 /\ i - 1 \in Nat /\ i \in Nat
  BY SizesArePositive
<1>2. Batch(size, i) = (i - 1) \div size /\ Batch(size, i + 1) = i \div size
      /\ Batch(size, 1) = 0 \div size
  BY <1>1 DEF Batch
<1> DEFINE p == (i - 1) \div size
           q == i \div size
<1>3. /\ p \in Nat /\ p * size <= i - 1 /\ i - 1 < p * size + size
      /\ q \in Nat /\ q * size <= i /\ i < q * size + size
  BY <1>1, Division
<1>4. 0 \div size = 0
  BY <1>1
<1> HIDE DEF p, q
<1>5. q = p \/ (q = p + 1 /\ i = q * size)
  <2>1. (i - 1) + 1 = i
    BY <1>1
  <2> QED
    BY <1>1, <1>3, <2>1, Adjacent
<1> QED
  BY <1>2, <1>3, <1>4, <1>5 DEF p, q

LEMMA OptionTypes ==
  ASSUME NEW o \in Options
  PROVE  /\ o.pauseAfter \in Nat /\ o.percent \in Nat
         /\ o.finalizePending \in BOOLEAN /\ PromotionLimit(o.percent) \in Nat
<1>1. o.pauseAfter \in Nat /\ o.percent \in Nat /\ o.finalizePending \in BOOLEAN
  BY RolloutAssumption
<1>2. N * o.percent + 99 \in Nat
  BY <1>1, RolloutAssumption
<1> QED
  BY <1>1, <1>2 DEF PromotionLimit

\* Every option lets a rollout begin.
LEMMA FirstIsBeforePauses ==
  ASSUME NEW o \in Options, NEW size \in Sizes
  PROVE  BeforePauses(o, size, 1)
  BY OptionTypes, BatchSteps, SizesArePositive DEF BeforePauses

\* The items behind the loop count against the promotion limit.
LEMMA AppliedAtLeast ==
  ASSUME NEW r, NEW i \in Item,
         \A j \in Item : j <= i => r.phase[j] \in Installed
  PROVE  Cardinality(AppliedItems(r)) \in Nat /\ i <= Cardinality(AppliedItems(r))
<1>1. i \in Nat /\ N \in Nat /\ i <= N
  BY ItemsAreNumbered
<1>2. 1..i \subseteq AppliedItems(r) /\ AppliedItems(r) \subseteq 1..N
  BY <1>1 DEF AppliedItems, Installed, Item
<1>3. IsFiniteSet(1..N) /\ Cardinality(1..i) = i
  BY <1>1, FS_Interval
<1>4. IsFiniteSet(AppliedItems(r))
  BY <1>2, <1>3, FS_Subset
<1> QED
  BY <1>2, <1>3, <1>4, FS_Subset, FS_CardinalityType

\* The end of an item, as the loop sees it.
LEMMA EndItemFacts ==
  ASSUME NEW r \in RunType, r.i \in Item,
         \A j \in Item : j <= r.i => r.phase[j] \in Installed,
         \A j \in Item : j > r.i => r.phase[j] = "planned",
         r.completed = Batch(r.size, r.i),
         BeforePauses(r.options, r.size, r.i)
  PROVE  LET s == EndItem(r) IN
         /\ s \in RunType /\ s.pc \in {"item", "finish"}
         /\ s.version = r.version /\ s.options = r.options
         /\ s.changed = r.changed /\ s.snapshot = r.snapshot
         /\ s.applied = r.applied
         /\ s.pc = "item" => s.i = r.i + 1 /\ s.phase = r.phase /\ Looping(s)
         /\ \A j \in Item : s.phase[j] = r.phase[j]
                            \/ (j > r.i /\ s.phase[j] = "paused")
<1>1. /\ r.size \in Sizes /\ r.options \in Options /\ r.completed \in Nat
      /\ r.i \in Nat /\ r.i >= 1 /\ r.i <= N /\ N \in Nat
      /\ r.phase \in [Item -> Phase]
  BY ItemsAreNumbered DEF RunType
<1> DEFINE next(c) == [r EXCEPT !.pc = "item", !.i = @ + 1, !.completed = c]
<1>2. ASSUME NEW c \in Nat, r.i # N, c = Batch(r.size, r.i + 1),
             BeforePauses(r.options, r.size, r.i + 1)
      PROVE  /\ next(c) \in RunType /\ next(c).pc = "item"
             /\ next(c).version = r.version /\ next(c).options = r.options
             /\ next(c).changed = r.changed /\ next(c).snapshot = r.snapshot
             /\ next(c).applied = r.applied /\ next(c).phase = r.phase
             /\ next(c).i = r.i + 1 /\ Looping(next(c))
  <2>1. r.i + 1 \in Item /\ r.i + 1 \in 0..N
    BY <1>1, <1>2, ItemsAreNumbered
  <2>2. /\ next(c) \in RunType /\ next(c).pc = "item"
        /\ next(c).version = r.version /\ next(c).options = r.options
        /\ next(c).changed = r.changed /\ next(c).snapshot = r.snapshot
        /\ next(c).applied = r.applied /\ next(c).phase = r.phase
        /\ next(c).i = r.i + 1 /\ next(c).completed = c /\ next(c).size = r.size
    BY <1>2, <2>1 DEF RunType
  <2> HIDE DEF next
  <2>3. /\ \A j \in Item : (j < r.i + 1 => j <= r.i) /\ (j > r.i + 1 => j > r.i)
        /\ r.i + 1 > r.i
    BY <1>1, ItemsAreNumbered
  <2>4. Looping(next(c))
    BY <1>2, <2>1, <2>2, <2>3 DEF Looping
  <2> QED
    BY <2>2, <2>4
<1>3. CASE ~BatchComplete(r)
  <2>1. r.i # N /\ Batch(r.size, r.i + 1) = Batch(r.size, r.i)
    BY <1>3 DEF BatchComplete
  <2>2. BeforePauses(r.options, r.size, r.i + 1)
    BY <2>1 DEF BeforePauses
  <2>3. EndItem(r) = next(r.completed)
    BY <1>3, <2>1 DEF EndItem, NextItem, RunType
  <2> HIDE DEF next
  <2> QED
    BY <1>1, <1>2, <2>1, <2>2, <2>3
<1>4. CASE BatchComplete(r)
  <2> DEFINE s == [r EXCEPT !.completed = @ + 1]
             c == r.completed + 1
  <2>1. /\ s \in RunType /\ s.completed = c /\ s.i = r.i /\ s.phase = r.phase
        /\ s.options = r.options /\ s.size = r.size
        /\ s.version = r.version /\ s.changed = r.changed
        /\ s.snapshot = r.snapshot /\ s.applied = r.applied
    <3>1. c \in Nat
      BY <1>1
    <3>2. s = [r EXCEPT !.completed = c]
      OBVIOUS
    <3> HIDE DEF c, s
    <3> QED
      BY <3>1, <3>2 DEF RunType
  <2>2. CASE ShouldPause(s, s.completed)
    <3>1. EndItem(r) = [s EXCEPT !.pc = "finish", !.paused = TRUE,
                                 !.phase = Rest(s, "paused")]
      BY <1>4, <2>2 DEF EndItem
    <3>2. Rest(s, "paused") \in [Item -> Phase]
          /\ \A j \in Item : Rest(s, "paused")[j] = IF j > r.i THEN "paused" ELSE r.phase[j]
      BY <1>1, <2>1 DEF Rest, Phase
    <3> HIDE DEF s
    <3> DEFINE rest == Rest(s, "paused")
    <3>3. EndItem(r) = [s EXCEPT !.pc = "finish", !.paused = TRUE, !.phase = rest]
      BY <3>1
    <3> HIDE DEF rest
    <3>4. EndItem(r) \in RunType
      BY <2>1, <3>2, <3>3 DEF RunType, rest
    <3>5. /\ EndItem(r).pc = "finish" /\ EndItem(r).phase = rest
          /\ EndItem(r).version = r.version /\ EndItem(r).options = r.options
          /\ EndItem(r).changed = r.changed /\ EndItem(r).snapshot = r.snapshot
          /\ EndItem(r).applied = r.applied
      BY <2>1, <3>3 DEF RunType
    <3> QED
      BY <3>2, <3>4, <3>5 DEF rest
  <2>3. CASE ~ShouldPause(s, s.completed) /\ r.i = N
    <3>1. EndItem(r) = [s EXCEPT !.pc = "finish"]
      BY <1>4, <2>1, <2>3 DEF EndItem, NextItem
    <3> HIDE DEF s
    <3> QED
      BY <2>1, <3>1 DEF RunType
  <2>4. CASE ~ShouldPause(s, s.completed) /\ r.i # N
    <3>1. EndItem(r) = [s EXCEPT !.pc = "item", !.i = @ + 1]
      BY <1>4, <2>1, <2>4 DEF EndItem, NextItem
    <3>2. EndItem(r) = next(c)
      BY <1>1, <3>1 DEF RunType
    <3>3. Batch(r.size, r.i + 1) = c /\ c * r.size = r.i /\ c \in Nat /\ c > 0
      BY <1>1, <1>4, <2>4, BatchSteps DEF BatchComplete
    <3>4. /\ ~r.options.finalizePending
          /\ r.options.pauseAfter > 0 => c < r.options.pauseAfter
          /\ PromotionLimit(r.options.percent) > 0 =>
               r.i < PromotionLimit(r.options.percent)
      <4>1. AppliedItems(s) = AppliedItems(r)
        BY <2>1 DEF AppliedItems
      <4>2. Cardinality(AppliedItems(r)) \in Nat /\ r.i <= Cardinality(AppliedItems(r))
        BY AppliedAtLeast
      <4>3. /\ r.i < N
            /\ ~(r.options.finalizePending /\ c > 0)
            /\ ~(r.options.pauseAfter > 0 /\ c >= r.options.pauseAfter)
            /\ ~(/\ PromotionLimit(r.options.percent) > 0
                 /\ Cardinality(AppliedItems(r)) >= PromotionLimit(r.options.percent))
        BY <1>1, <2>1, <2>4, <4>1 DEF ShouldPause
      <4> HIDE DEF c
      <4> QED
        BY <1>1, <3>3, <4>2, <4>3, OptionTypes
    <3>5. BeforePauses(r.options, r.size, r.i + 1)
      BY <3>3, <3>4 DEF BeforePauses
    <3> HIDE DEF c, s, next
    <3> QED
      BY <1>2, <2>4, <3>2, <3>3, <3>5
  <2> QED
    BY <2>2, <2>3, <2>4
<1> QED
  BY <1>3, <1>4

\* Fail ends the loop with a rollback and leaves what is behind it alone.
LEMMA FailFacts ==
  ASSUME NEW r \in RunType
  PROVE  LET s == Fail(r) IN
         /\ s \in RunType /\ s.pc = "rollback"
         /\ s.version = r.version /\ s.options = r.options
         /\ s.changed = r.changed /\ s.snapshot = r.snapshot
         /\ s.applied = r.applied
         /\ \A j \in Item : s.phase[j] = IF j > r.i THEN "skipped" ELSE r.phase[j]
<1> DEFINE rest == Rest(r, "skipped")
<1>1. rest \in [Item -> Phase]
      /\ \A j \in Item : rest[j] = IF j > r.i THEN "skipped" ELSE r.phase[j]
  BY DEF Rest, Phase, RunType
<1>2. Fail(r) = [r EXCEPT !.pc = "rollback", !.failed = TRUE, !.phase = rest]
  BY DEF Fail
<1> HIDE DEF rest
<1>3. Fail(r) \in RunType
  BY <1>1, <1>2 DEF RunType
<1>4. /\ Fail(r).pc = "rollback" /\ Fail(r).phase = rest
      /\ Fail(r).version = r.version /\ Fail(r).options = r.options
      /\ Fail(r).changed = r.changed /\ Fail(r).snapshot = r.snapshot
      /\ Fail(r).applied = r.applied
  BY <1>2 DEF RunType
<1> QED
  BY <1>1, <1>3, <1>4

-----------------------------------------------------------------------------
(* The steps of a call                                                     *)

\* r is the call in progress at another place.
SameCall(r) ==
  /\ r \in RunType
  /\ r.version = run.version /\ r.options = run.options
  /\ r.changed = run.changed /\ r.snapshot = run.snapshot

\* A call only writes its version where the options let it, or takes back.
LEMMA StoreIsLimited ==
  ASSUME IInv, Active, SameCall(run'),
         UNCHANGED <<spec, frozen, resume>>,
         policy' \in [Item -> Version],
         \A j \in Item : \/ policy'[j] \in {policy[j], run.snapshot[j]}
                         \/ policy'[j] = run.version /\ j \in Reach(run.options)
  PROVE  Types' /\ Limits' /\ Claims'
<1>1. /\ run \in RunType /\ run' \in RunType /\ Active'
      /\ run'.version = run.version /\ run'.options = run.options
      /\ run'.snapshot = run.snapshot
  BY DEF IInv, Types, SameCall, Active, RunType
<1>2. UNCHANGED <<setting, version, options, granted, frozen, resume>>
  BY DEF spec
<1>3. Types'
  BY <1>1, <1>2 DEF IInv, Types
<1>4. Limits'
  BY <1>1, <1>2 DEF IInv, Limits, Reach, BeforePauses, PromotionLimit, Batch
<1>5. Claims'
  <2> SUFFICES ASSUME Kept, resume.revision = version, NEW i \in resume.applied
               PROVE  policy'[i] = version /\ run.snapshot[i] = version
    BY <1>1, <1>2 DEF IInv, Claims, Kept
  <2>1. policy[i] = version /\ run.snapshot[i] = version /\ version <= run.version
    BY DEF IInv, Claims
  <2>2. run.version <= version /\ version \in Nat /\ run.version \in Nat
    BY <1>1, RolloutAssumption DEF IInv, Limits, Types, Version, RunType
  <2>3. i \in Item
    BY DEF IInv, Types
  <2> QED
    BY <2>1, <2>2, <2>3
<1> QED
  BY <1>3, <1>4, <1>5

\* What item run.i is done with when its step ends in r and policy'.
ItemDone(r) ==
  /\ SameCall(r) /\ r.i = run.i /\ r.size = run.size /\ r.completed = run.completed
  /\ \A j \in Item : j # run.i => r.phase[j] = run.phase[j]
  /\ \A k \in DOMAIN r.applied :
       r.applied[k] <= run.i /\ r.phase[r.applied[k]] = "applied"
  /\ \A k, l \in DOMAIN r.applied : r.applied[k] = r.applied[l] => k = l

LEMMA EndItemIInv ==
  ASSUME IInv, run.pc \in {"item", "check"}, NEW r, ItemDone(r),
         r.phase[run.i] \in Installed, run' = EndItem(r),
         policy' \in [Item -> Version],
         \A j \in Item : j # run.i => policy'[j] = policy[j],
         policy'[run.i] \in {policy[run.i], run.version},
         "reset" \notin setting => policy'[run.i] = run.version,
         UNCHANGED <<spec, frozen, resume>>
  PROVE  IInv'
<1>1. Active /\ run \in RunType /\ Looping(run)
  BY DEF Active, IInv, Types, Progress
<1>2. run.i \in Item /\ r \in RunType /\ \A j \in Item : j \in Nat
  BY <1>1, ItemsAreNumbered DEF Looping, ItemDone, SameCall
<1>3. /\ \A j \in Item : j <= r.i => r.phase[j] \in Installed
      /\ \A j \in Item : j > r.i => r.phase[j] = "planned"
      /\ r.completed = Batch(r.size, r.i)
      /\ BeforePauses(r.options, r.size, r.i)
  <2>1. \A j \in Item : j <= run.i => j < run.i \/ j = run.i
    BY <1>2
  <2>2. \A j \in Item : j < run.i \/ j > run.i => j # run.i
    BY <1>2
  <2> QED
    BY <1>1, <2>1, <2>2 DEF Looping, ItemDone, SameCall
<1>4. /\ run' \in RunType /\ run'.pc \in {"item", "finish"}
      /\ run'.version = r.version /\ run'.options = r.options
      /\ run'.changed = r.changed /\ run'.snapshot = r.snapshot
      /\ run'.applied = r.applied
      /\ run'.pc = "item" => run'.i = r.i + 1 /\ run'.phase = r.phase /\ Looping(run')
      /\ \A j \in Item : run'.phase[j] = r.phase[j]
                         \/ (j > r.i /\ run'.phase[j] = "paused")
  BY <1>2, <1>3, EndItemFacts DEF ItemDone
<1>5. SameCall(run')
  BY <1>4 DEF ItemDone, SameCall
<1>6. Types' /\ Limits' /\ Claims'
  <2>1. run.i \in Reach(run.options)
    BY <1>1, <1>2 DEF Looping, Reach, RunType
  <2> QED
    BY <1>1, <1>5, <2>1, StoreIsLimited
<1>7. Progress'
  BY <1>4 DEF Progress
<1>8. Undo'
  <2> SUFFICES ASSUME run'.pc = "item" PROVE Undo'
    BY <1>4 DEF Undo
  <2>1. run'.i = run.i + 1 /\ run'.phase = r.phase /\ run'.applied = r.applied
    BY <1>4 DEF ItemDone
  <2>2. \A k \in DOMAIN r.applied : r.applied[k] \in Nat /\ r.applied[k] < run.i + 1
    BY <1>2 DEF ItemDone, RunType
  <2> QED
    BY <2>1, <2>2 DEF Undo, ItemDone
<1>9. Reports'
  <2> SUFFICES ASSUME "reset" \notin setting PROVE Reports'
    BY DEF Reports, spec
  <2>1. Reports /\ run'.pc # "gates" /\ Active'
    BY <1>4 DEF IInv, Active
  <2>2. run'.changed = run.changed /\ run'.snapshot = run.snapshot
        /\ run'.version = run.version
    BY <1>5 DEF SameCall
  <2>3. ASSUME NEW j \in Item
        PROVE  policy'[j] = IF run'.phase[j] \in Installed \cup {"rollback_failed"}
                            THEN run'.version ELSE run'.snapshot[j]
    <3>1. CASE j = run.i
      <4>1. run'.phase[j] \in Installed
        BY <1>2, <1>4, <3>1 DEF ItemDone
      <4> QED
        BY <2>2, <3>1, <4>1
    <3>2. CASE j # run.i
      <4>1. /\ policy'[j] = policy[j] /\ r.phase[j] = run.phase[j]
            /\ policy[j] = IF run.phase[j] \in Installed \cup {"rollback_failed"}
                           THEN run.version ELSE run.snapshot[j]
        BY <1>1, <2>1, <3>2 DEF Reports, ItemDone
      <4>2. CASE run'.phase[j] = r.phase[j]
        BY <2>2, <4>1, <4>2
      <4>3. CASE j > r.i /\ run'.phase[j] = "paused"
        BY <1>3, <2>2, <4>1, <4>3 DEF Installed
      <4> QED
        BY <1>4, <4>2, <4>3
    <3> QED
      BY <3>1, <3>2
  <2> QED
    BY <1>1, <2>1, <2>2, <2>3 DEF Reports
<1> QED
  BY <1>6, <1>7, <1>8, <1>9 DEF IInv

LEMMA FailIInv ==
  ASSUME IInv, run.pc \in {"item", "check"}, NEW r, ItemDone(r),
         r.phase[run.i] = IF run.pc = "item" THEN "failed" ELSE "applied",
         run' = Fail(r),
         UNCHANGED <<spec, policy, frozen, resume>>
  PROVE  IInv'
<1>1. Active /\ run \in RunType /\ Looping(run)
  BY DEF Active, IInv, Types, Progress
<1>2. run.i \in Item /\ r \in RunType /\ \A j \in Item : j \in Nat
  BY <1>1, ItemsAreNumbered DEF Looping, ItemDone, SameCall
<1>3. /\ run' \in RunType /\ run'.pc = "rollback"
      /\ run'.version = r.version /\ run'.options = r.options
      /\ run'.changed = r.changed /\ run'.snapshot = r.snapshot
      /\ run'.applied = r.applied
      /\ \A j \in Item : run'.phase[j] = IF j > r.i THEN "skipped" ELSE r.phase[j]
  BY <1>2, FailFacts
<1>4. SameCall(run')
  BY <1>3 DEF ItemDone, SameCall
<1>5. Types' /\ Limits' /\ Claims'
  <2>1. policy' \in [Item -> Version]
    BY DEF IInv, Types
  <2> QED
    BY <1>1, <1>4, <2>1, StoreIsLimited
<1>6. Progress'
  BY <1>3 DEF Progress
<1>7. Undo'
  <2>1. \A k \in DOMAIN r.applied :
          r.applied[k] \in Item /\ ~(r.applied[k] > r.i)
    BY <1>2 DEF ItemDone, RunType
  <2> QED
    BY <1>3, <2>1 DEF Undo, ItemDone
<1>8. Reports'
  <2> SUFFICES ASSUME "reset" \notin setting PROVE Reports'
    BY DEF Reports, spec
  <2>1. Reports /\ Active' /\ run'.pc # "gates"
    BY <1>3 DEF IInv, Active
  <2>2. run'.changed = run.changed /\ run'.snapshot = run.snapshot
        /\ run'.version = run.version
    BY <1>4 DEF SameCall
  <2>3. ASSUME NEW j \in Item
        PROVE  policy[j] = IF run'.phase[j] \in Installed \cup {"rollback_failed"}
                           THEN run'.version ELSE run'.snapshot[j]
    <3>1. policy[j] = IF run.phase[j] \in Installed \cup {"rollback_failed"}
                      THEN run.version ELSE run.snapshot[j]
      BY <1>1, <2>1 DEF Reports
    <3>2. CASE j = run.i
      BY <1>1, <1>2, <1>3, <2>2, <3>1, <3>2 DEF ItemDone, Looping, Installed
    <3>3. CASE j # run.i /\ j > run.i
      BY <1>1, <1>2, <1>3, <2>2, <3>1, <3>3 DEF ItemDone, Looping, Installed
    <3>4. CASE j # run.i /\ ~(j > run.i)
      BY <1>1, <1>2, <1>3, <2>2, <3>1, <3>4 DEF ItemDone
    <3> QED
      BY <3>2, <3>3, <3>4
  <2> QED
    BY <1>1, <2>1, <2>2, <2>3 DEF Reports
<1> QED
  BY <1>5, <1>6, <1>7, <1>8 DEF IInv

\* At an item, everything to take back is behind it.
LEMMA AppliedIsBehind ==
  ASSUME IInv, run.pc = "item"
  PROVE  /\ \A k \in DOMAIN run.applied :
              /\ run.applied[k] \in Item /\ run.phase[run.applied[k]] = "applied"
              /\ run.applied[k] <= run.i /\ run.applied[k] # run.i
         /\ \A k, l \in DOMAIN run.applied :
              run.applied[k] = run.applied[l] => k = l
<1>1. run \in RunType /\ run.i \in Item
  BY DEF IInv, Types, Active, Progress, Looping
<1>2. \A k \in DOMAIN run.applied :
        /\ run.applied[k] \in Item /\ run.phase[run.applied[k]] = "applied"
        /\ run.applied[k] < run.i
  BY <1>1 DEF IInv, Undo, RunType
<1>3. \A i, j \in Item : i < j => i <= j /\ i # j
  BY ItemsAreNumbered
<1>4. \A k, l \in DOMAIN run.applied : run.applied[k] = run.applied[l] => k = l
  BY DEF IInv, Undo
<1> QED
  BY <1>1, <1>2, <1>3, <1>4

LEMMA ItemResumedIInv == IInv /\ ItemResumed => IInv'
<1> SUFFICES ASSUME IInv, ItemResumed PROVE IInv'
  OBVIOUS
<1>1. run.pc = "item" /\ run \in RunType /\ Looping(run) /\ run.i \in Item
      /\ run.i \notin run.changed
  BY DEF ItemResumed, Skippable, IInv, Types, Active, Progress, Looping
<1> DEFINE r == [run EXCEPT !.phase[run.i] = "resumed_applied"]
<1>2. /\ r \in RunType /\ r.version = run.version /\ r.options = run.options
      /\ r.changed = run.changed /\ r.snapshot = run.snapshot
      /\ r.i = run.i /\ r.size = run.size /\ r.completed = run.completed
      /\ r.applied = run.applied
      /\ r.phase = [run.phase EXCEPT ![run.i] = "resumed_applied"]
  BY <1>1 DEF RunType, Phase
<1>3. run' = EndItem(r) /\ UNCHANGED <<spec, policy, frozen, resume>>
  BY DEF ItemResumed
<1> HIDE DEF r
<1>4. /\ r.phase[run.i] = "resumed_applied"
      /\ \A j \in Item : j # run.i => r.phase[j] = run.phase[j]
  BY <1>1, <1>2 DEF RunType
<1>5. ItemDone(r)
  BY <1>1, <1>2, <1>4, AppliedIsBehind DEF ItemDone, SameCall
<1>6. "reset" \notin setting => policy[run.i] = run.version
  BY <1>1 DEF IInv, Reports, Active, Looping, Installed
<1>7. policy' \in [Item -> Version] /\ policy' = policy
  BY <1>3 DEF IInv, Types
<1> QED
  BY <1>1, <1>3, <1>4, <1>5, <1>6, <1>7, EndItemIInv DEF Installed

\* An endpoint that is frozen, or whose policy cannot be applied.
LEMMA ItemFailsIInv == IInv /\ (ItemFrozen \/ ItemApplyFails) => IInv'
<1> SUFFICES ASSUME IInv, ItemFrozen \/ ItemApplyFails PROVE IInv'
  OBVIOUS
<1>1. run.pc = "item" /\ run \in RunType /\ Looping(run) /\ run.i \in Item
  BY DEF ItemFrozen, ItemApplyFails, IInv, Types, Active, Progress, Looping
<1> DEFINE r == [run EXCEPT !.phase[run.i] = "failed"]
<1>2. /\ r \in RunType /\ r.version = run.version /\ r.options = run.options
      /\ r.changed = run.changed /\ r.snapshot = run.snapshot
      /\ r.i = run.i /\ r.size = run.size /\ r.completed = run.completed
      /\ r.applied = run.applied
      /\ r.phase = [run.phase EXCEPT ![run.i] = "failed"]
  BY <1>1 DEF RunType, Phase
<1>3. run' = Fail(r) /\ UNCHANGED <<spec, policy, frozen, resume>>
  BY DEF ItemFrozen, ItemApplyFails
<1> HIDE DEF r
<1>4. /\ r.phase[run.i] = "failed"
      /\ \A j \in Item : j # run.i => r.phase[j] = run.phase[j]
  BY <1>1, <1>2 DEF RunType
<1>5. ItemDone(r)
  BY <1>1, <1>2, <1>4, AppliedIsBehind DEF ItemDone, SameCall
<1> QED
  BY <1>1, <1>3, <1>4, <1>5, FailIInv

\* The applied endpoint joins what a rollback takes back.
LEMMA ItemApplyIInv == IInv /\ ItemApply => IInv'
<1> SUFFICES ASSUME IInv, ItemApply PROVE IInv'
  OBVIOUS
<1>1. run.pc = "item" /\ run \in RunType /\ Looping(run) /\ run.i \in Item
  BY DEF ItemApply, IInv, Types, Active, Progress, Looping
<1> DEFINE r == [run EXCEPT !.phase[run.i] = "applied",
                            !.applied = Append(@, run.i),
                            !.unchecked = @ \cup {run.i}]
           seq == Append(run.applied, run.i)
           phase == [run.phase EXCEPT ![run.i] = "applied"]
<1>2. /\ seq \in Seq(Item) /\ phase \in [Item -> Phase]
      /\ DOMAIN seq = 1..(Len(run.applied) + 1)
      /\ DOMAIN run.applied = 1..Len(run.applied) /\ Len(run.applied) \in Nat
      /\ seq[Len(run.applied) + 1] = run.i
      /\ \A k \in DOMAIN run.applied : seq[k] = run.applied[k]
  BY <1>1 DEF RunType, Phase
<1>3. r = [run EXCEPT !.phase = phase, !.applied = seq,
                      !.unchecked = @ \cup {run.i}]
  BY <1>1 DEF RunType
<1> HIDE DEF seq, phase
<1>4. /\ r \in RunType /\ r.version = run.version /\ r.options = run.options
      /\ r.changed = run.changed /\ r.snapshot = run.snapshot
      /\ r.i = run.i /\ r.size = run.size /\ r.completed = run.completed
      /\ r.applied = seq /\ r.phase = phase /\ r.pc = "item"
  <2> HIDE DEF r
  <2> QED
    BY <1>1, <1>2, <1>3 DEF RunType
<1>5. /\ policy' = [policy EXCEPT ![run.i] = run.version]
      /\ run' = IF Gated /\ BatchComplete(r) THEN [r EXCEPT !.pc = "check"]
                ELSE EndItem(r)
      /\ UNCHANGED <<spec, frozen, resume>>
  BY DEF ItemApply
<1> HIDE DEF r
<1>6. /\ r.phase[run.i] = "applied"
      /\ \A j \in Item : j # run.i => r.phase[j] = run.phase[j]
  BY <1>1, <1>4 DEF RunType, phase
<1>7. ItemDone(r)
  <2>1. \A k \in DOMAIN seq : k \in DOMAIN run.applied \/ k = Len(run.applied) + 1
    BY <1>2
  <2>2. ASSUME NEW k \in DOMAIN r.applied
        PROVE  r.applied[k] <= run.i /\ r.phase[r.applied[k]] = "applied"
    <3>1. CASE k \in DOMAIN run.applied
      BY <1>1, <1>2, <1>4, <1>6, <3>1, AppliedIsBehind
    <3>2. CASE k = Len(run.applied) + 1
      <4>1. r.applied[k] = run.i /\ run.i \in Nat
        BY <1>1, <1>2, <1>4, <3>2, ItemsAreNumbered
      <4> QED
        BY <1>6, <4>1
    <3> QED
      BY <1>4, <2>1, <3>1, <3>2
  <2>3. \A k, l \in DOMAIN r.applied : r.applied[k] = r.applied[l] => k = l
    BY <1>1, <1>2, <1>4, <2>1, AppliedIsBehind
  <2> QED
    BY <1>4, <1>6, <2>2, <2>3 DEF ItemDone, SameCall
<1>8. /\ policy' \in [Item -> Version] /\ policy'[run.i] = run.version
      /\ \A j \in Item : j # run.i => policy'[j] = policy[j]
  BY <1>1, <1>5 DEF IInv, Types, RunType
<1>9. CASE ~(Gated /\ BatchComplete(r))
  BY <1>1, <1>5, <1>6, <1>7, <1>8, <1>9, EndItemIInv DEF Installed
<1>10. CASE Gated /\ BatchComplete(r)
  <2>1. /\ run' \in RunType /\ run'.pc = "check" /\ run'.i = run.i
        /\ run'.phase = r.phase /\ run'.applied = r.applied
        /\ run'.size = run.size /\ run'.completed = run.completed
        /\ run'.version = run.version /\ run'.options = run.options
        /\ run'.changed = run.changed /\ run'.snapshot = run.snapshot
    BY <1>4, <1>5, <1>10 DEF RunType
  <2>2. Types' /\ Limits' /\ Claims'
    <3>1. run.i \in Reach(run.options)
      BY <1>1 DEF Looping, Reach, RunType
    <3>2. SameCall(run') /\ Active
      BY <1>1, <2>1 DEF SameCall, Active
    <3> QED
      BY <1>5, <1>8, <3>1, <3>2, StoreIsLimited
  <2>3. Progress'
    <3>1. BatchComplete(run')
      BY <1>4, <1>10, <2>1 DEF BatchComplete
    <3>2. \A j \in Item : (j < run.i \/ j > run.i) => j # run.i
      BY <1>1, ItemsAreNumbered
    <3> QED
      BY <1>1, <1>6, <2>1, <3>1, <3>2 DEF Progress, Looping
  <2>4. Undo'
    BY <1>7, <2>1 DEF Undo, ItemDone
  <2>5. Reports'
    <3> SUFFICES ASSUME "reset" \notin setting PROVE Reports'
      BY <1>5 DEF Reports, spec
    <3>1. Reports /\ Active
      BY <1>1 DEF IInv, Active
    <3>2. ASSUME NEW j \in Item
          PROVE  policy'[j] = IF run'.phase[j] \in Installed \cup {"rollback_failed"}
                              THEN run'.version ELSE run'.snapshot[j]
      BY <1>6, <1>8, <2>1, <3>1 DEF Reports, Installed
    <3> QED
      BY <2>1, <3>1, <3>2 DEF Reports
  <2> QED
    BY <2>2, <2>3, <2>4, <2>5 DEF IInv
<1> QED
  BY <1>9, <1>10

LEMMA CheckIInv == IInv /\ (CheckPasses \/ CheckFails) => IInv'
<1> SUFFICES ASSUME IInv, CheckPasses \/ CheckFails PROVE IInv'
  OBVIOUS
<1>1. run.pc = "check" /\ run \in RunType /\ Looping(run) /\ run.i \in Item
      /\ run.phase[run.i] = "applied"
  BY DEF CheckPasses, CheckFails, IInv, Types, Active, Progress, Looping
<1> DEFINE r == [run EXCEPT !.unchecked = {}]
<1>2. /\ r \in RunType /\ r.version = run.version /\ r.options = run.options
      /\ r.changed = run.changed /\ r.snapshot = run.snapshot
      /\ r.i = run.i /\ r.size = run.size /\ r.completed = run.completed
      /\ r.applied = run.applied /\ r.phase = run.phase
  BY <1>1 DEF RunType
<1>3. (run' = EndItem(r) \/ run' = Fail(r)) /\ UNCHANGED <<spec, policy, frozen, resume>>
  BY DEF CheckPasses, CheckFails
<1> HIDE DEF r
<1>4. ItemDone(r)
  BY <1>1, <1>2 DEF IInv, Undo, ItemDone, SameCall
<1>5. "reset" \notin setting => policy[run.i] = run.version
  BY <1>1 DEF IInv, Reports, Active, Installed
<1>6. policy' \in [Item -> Version] /\ policy' = policy
  BY <1>3 DEF IInv, Types
<1>7. CASE run' = EndItem(r)
  BY <1>1, <1>2, <1>3, <1>4, <1>5, <1>6, <1>7, EndItemIInv DEF Installed
<1>8. CASE run' = Fail(r)
  BY <1>1, <1>2, <1>3, <1>4, <1>8, FailIInv
<1> QED
  BY <1>3, <1>7, <1>8

LEMMA RollbackIInv ==
  ASSUME IInv, NEW ok \in BOOLEAN, Rollback(ok)
  PROVE  IInv'
<1>1. run.pc = "rollback" /\ run \in RunType /\ Active /\ run.applied # <<>>
  BY DEF Rollback, IInv, Types, Active
<1> DEFINE n == Len(run.applied)
           i == run.applied[n]
           seq == SubSeq(run.applied, 1, n - 1)
           p == IF ok THEN "rolled_back" ELSE "rollback_failed"
           phase == [run.phase EXCEPT ![i] = p]
<1>2. /\ n \in Nat /\ n >= 1 /\ DOMAIN run.applied = 1..n /\ i \in Item
      /\ seq \in Seq(Item) /\ DOMAIN seq = 1..(n - 1)
      /\ \A k \in 1..(n - 1) : seq[k] = run.applied[k]
  <2>1. run.applied \in Seq(Item)
    BY <1>1 DEF RunType
  <2>2. n \in Nat /\ n >= 1 /\ DOMAIN run.applied = 1..n
    BY <1>1, <2>1
  <2>3. i \in Item
    BY <2>1, <2>2
  <2>4. seq \in Seq(Item) /\ Len(seq) = n - 1
    BY <2>1, <2>2
  <2>5. \A k \in 1..(n - 1) : seq[k] = run.applied[k]
    BY <2>1, <2>2
  <2> QED
    BY <2>2, <2>3, <2>4, <2>5
<1>3. /\ phase \in [Item -> Phase] /\ phase[i] = p
      /\ \A j \in Item : j # i => phase[j] = run.phase[j]
  BY <1>1, <1>2 DEF RunType, Phase
<1>4. /\ run' = [run EXCEPT !.applied = seq, !.phase = phase]
      /\ policy' = IF ok THEN [policy EXCEPT ![i] = run.snapshot[i]] ELSE policy
      /\ UNCHANGED <<spec, frozen, resume>>
  BY <1>1 DEF Rollback, RunType
<1> HIDE DEF n, i, seq, phase, p
<1>5. /\ run' \in RunType /\ run'.pc = "rollback" /\ run'.applied = seq
      /\ run'.phase = phase /\ run'.version = run.version
      /\ run'.options = run.options /\ run'.changed = run.changed
      /\ run'.snapshot = run.snapshot
  BY <1>1, <1>2, <1>3, <1>4 DEF RunType
<1>6. /\ policy' \in [Item -> Version]
      /\ \A j \in Item : j # i => policy'[j] = policy[j]
      /\ policy'[i] = IF ok THEN run.snapshot[i] ELSE policy[i]
  BY <1>1, <1>2, <1>4 DEF IInv, Types, RunType
<1>7. Types' /\ Limits' /\ Claims'
  <2>1. SameCall(run')
    BY <1>5 DEF SameCall
  <2> QED
    BY <1>1, <1>4, <1>6, <2>1, StoreIsLimited
<1>8. Progress'
  BY <1>5 DEF Progress
<1>9. Undo'
  <2>1. ASSUME NEW k \in 1..(n - 1)
        PROVE  k \in DOMAIN run.applied /\ run.applied[k] # i /\ run.applied[k] \in Item
    <3>1. k \in 1..n /\ n \in 1..n /\ k # n
      BY <1>2
    <3>2. run.applied[k] = run.applied[n] => k = n
      BY <1>1, <1>2, <3>1 DEF IInv, Undo
    <3> QED
      BY <1>1, <1>2, <3>1, <3>2 DEF RunType, i
  <2>2. \A k \in DOMAIN seq : phase[seq[k]] = "applied"
    BY <1>1, <1>2, <1>3, <2>1 DEF IInv, Undo
  <2>3. \A k, l \in DOMAIN seq : seq[k] = seq[l] => k = l
    BY <1>1, <1>2, <2>1 DEF IInv, Undo
  <2> QED
    BY <1>5, <2>2, <2>3 DEF Undo
<1>10. Reports'
  <2> SUFFICES ASSUME "reset" \notin setting PROVE Reports'
    BY <1>4 DEF Reports, spec
  <2>1. Reports /\ Active' /\ run'.pc # "gates"
    BY <1>5 DEF IInv, Active
  <2>2. run.phase[i] = "applied"
    BY <1>1, <1>2 DEF IInv, Undo, i
  <2>3. policy[i] = run.version
    BY <1>1, <1>2, <2>1, <2>2 DEF Reports, Installed
  <2>4. ASSUME NEW j \in Item
        PROVE  policy'[j] = IF run'.phase[j] \in Installed \cup {"rollback_failed"}
                            THEN run'.version ELSE run'.snapshot[j]
    <3>1. CASE j = i /\ ok
      BY <1>3, <1>5, <1>6, <3>1 DEF Installed, p
    <3>2. CASE j = i /\ ~ok
      BY <1>3, <1>5, <1>6, <2>3, <3>2 DEF Installed, p
    <3>3. CASE j # i
      BY <1>1, <1>3, <1>5, <1>6, <2>1, <3>3 DEF Reports
    <3> QED
      BY <3>1, <3>2, <3>3
  <2> QED
    BY <1>1, <1>5, <2>1, <2>4 DEF Reports
<1> QED
  BY <1>7, <1>8, <1>9, <1>10 DEF IInv

LEMMA RollbackDoneIInv == IInv /\ RollbackDone => IInv'
<1> SUFFICES ASSUME IInv, RollbackDone PROVE IInv'
  OBVIOUS
<1>1. run.pc = "rollback" /\ run \in RunType /\ Active
  BY DEF RollbackDone, IInv, Types, Active
<1>2. /\ run' \in RunType /\ run'.pc = "finish"
      /\ run'.phase = run.phase /\ run'.version = run.version
      /\ run'.options = run.options /\ run'.changed = run.changed
      /\ run'.snapshot = run.snapshot
  BY <1>1 DEF RollbackDone, RunType
<1>3. UNCHANGED <<spec, policy, frozen, resume>>
  BY DEF RollbackDone
<1>4. Types' /\ Limits' /\ Claims'
  <2>1. SameCall(run') /\ policy' \in [Item -> Version]
    BY <1>2, <1>3 DEF SameCall, IInv, Types
  <2> QED
    BY <1>1, <1>3, <2>1, StoreIsLimited
<1> QED
  BY <1>1, <1>2, <1>3, <1>4 DEF IInv, Progress, Undo, Reports, Active, spec

LEMMA PlanIInv == IInv /\ Plan => IInv'
<1> SUFFICES ASSUME IInv, Plan PROVE IInv'
  OBVIOUS
<1>1. PICK size \in Sizes :
        run' = [pc |-> "gates", version |-> version, options |-> options,
                size |-> size, frozen |-> frozen,
                resumed |-> IF resume.revision = Revision(version)
                            THEN resume.applied ELSE {},
                changed |-> {i \in Item : policy[i] # version},
                phase |-> [i \in Item |-> "planned"],
                snapshot |-> policy, i |-> 0, applied |-> <<>>,
                unchecked |-> {}, completed |-> 0,
                paused |-> FALSE, failed |-> FALSE]
  BY DEF Plan
<1>2. UNCHANGED <<spec, policy, frozen, resume>>
  BY DEF Plan
<1>3. /\ run'.pc = "gates" /\ run'.version = version /\ run'.options = options
      /\ run'.changed = {i \in Item : policy[i] # version}
      /\ run'.phase = [i \in Item |-> "planned"] /\ run'.snapshot = policy
      /\ run'.applied = <<>> /\ run'.completed = 0
  BY <1>1
<1>4. run' \in RunType
  <2>1. 0 \in 0..N /\ <<>> \in Seq(Item)
    BY RolloutAssumption
  <2> DEFINE resumed == IF resume.revision = Revision(version)
                        THEN resume.applied ELSE {}
             changed == {i \in Item : policy[i] # version}
             phase == [i \in Item |-> "planned"]
  <2>2. resumed \in SUBSET Item /\ changed \in SUBSET Item /\ phase \in [Item -> Phase]
    BY DEF IInv, Types, Phase
  <2>3. run' = [pc |-> "gates", version |-> version, options |-> options,
                size |-> size, frozen |-> frozen, resumed |-> resumed,
                changed |-> changed, phase |-> phase,
                snapshot |-> policy, i |-> 0, applied |-> <<>>,
                unchecked |-> {}, completed |-> 0,
                paused |-> FALSE, failed |-> FALSE]
    BY <1>1
  <2> HIDE DEF resumed, changed, phase
  <2> QED
    BY <2>1, <2>2, <2>3 DEF IInv, Types, RunType
<1>5. Types'
  BY <1>2, <1>4 DEF IInv, Types, spec
<1>6. Progress' /\ Undo'
  BY <1>3 DEF Progress, Undo
<1>7. Reports'
  BY <1>2, <1>3 DEF Reports, Installed, spec
<1>8. version \in Nat /\ version <= version /\ \A i \in Item : policy[i] \in Nat
  BY RolloutAssumption DEF IInv, Types, Version
<1>9. Limits'
  BY <1>2, <1>3, <1>8 DEF IInv, Limits, spec, Reach, BeforePauses
<1>10. Claims'
  BY <1>2, <1>3 DEF IInv, Claims, Kept, spec
<1> QED
  BY <1>5, <1>6, <1>7, <1>9, <1>10 DEF IInv

\* A shut gate returns with every item as it was.
LEMMA GateReturnsIInv == IInv /\ GateReturns => IInv'
<1> SUFFICES ASSUME IInv, GateReturns PROVE IInv'
  OBVIOUS
<1>1. run.pc = "gates" /\ run \in RunType /\ Active
  BY DEF GateReturns, IInv, Types, Active
<1>2. PICK phase \in [Item -> {"planned", "cancelled", "paused", "failed"}],
           paused \in BOOLEAN, failed \in BOOLEAN :
        run' = [run EXCEPT !.pc = "finish", !.phase = phase,
                           !.paused = paused, !.failed = failed]
  <2> DEFINE gate == GateOrder[Min(ShutGates(run))]
             dry == gate = "dry_run"
             ph == CASE dry -> "planned"
                     [] gate = "operator_cancelled" -> "cancelled"
                     [] OTHER -> "paused"
             phase == [i \in Item |-> IF dry /\ i \in run.frozen THEN "failed"
                                      ELSE ph]
  <2>1. run' = [run EXCEPT !.pc = "finish", !.phase = phase,
                           !.paused = ph = "paused",
                           !.failed = dry /\ run.frozen # {}]
    BY DEF GateReturns
  <2>2. ph \in {"planned", "cancelled", "paused"}
    OBVIOUS
  <2>3. phase \in [Item -> {"planned", "cancelled", "paused", "failed"}]
    <3> HIDE DEF ph, dry
    <3> QED
      BY <2>2
  <2>4. (ph = "paused") \in BOOLEAN /\ (dry /\ run.frozen # {}) \in BOOLEAN
    OBVIOUS
  <2> HIDE DEF phase, ph, dry
  <2> QED
    BY <2>1, <2>3, <2>4, Zenon
<1>3. UNCHANGED <<spec, policy, frozen, resume>>
  BY DEF GateReturns
<1>4. /\ run' \in RunType /\ run'.pc = "finish" /\ run'.phase = phase
      /\ run'.version = run.version /\ run'.options = run.options
      /\ run'.changed = run.changed /\ run'.snapshot = run.snapshot
  <2>1. phase \in [Item -> Phase]
    BY <1>2 DEF Phase
  <2> QED
    BY <1>1, <1>2, <2>1 DEF RunType
<1>5. Types' /\ Limits' /\ Claims'
  <2>1. SameCall(run') /\ policy' \in [Item -> Version]
    BY <1>3, <1>4 DEF SameCall, IInv, Types
  <2> QED
    BY <1>1, <1>3, <2>1, StoreIsLimited
<1>6. Reports'
  <2>1. \A i \in Item : phase[i] \notin Installed \cup {"rollback_failed"}
    BY <1>2 DEF Installed
  <2>2. \A i \in Item : run.phase[i] \notin Installed \cup {"rollback_failed"}
    BY <1>1 DEF IInv, Progress, Installed
  <2> QED
    BY <1>1, <1>3, <1>4, <2>1, <2>2 DEF IInv, Reports, Active, spec
<1> QED
  BY <1>4, <1>5, <1>6 DEF IInv, Progress, Undo

LEMMA GatesOpenIInv == IInv /\ GatesOpen => IInv'
<1> SUFFICES ASSUME IInv, GatesOpen PROVE IInv'
  OBVIOUS
<1>1. run.pc = "gates" /\ run \in RunType /\ Active
  BY DEF GatesOpen, IInv, Types, Active
<1>2. run' = [run EXCEPT !.pc = "item", !.i = 1, !.snapshot = policy]
      /\ UNCHANGED <<spec, policy, frozen, resume>>
  BY DEF GatesOpen
<1>3. /\ run' \in RunType /\ run'.pc = "item" /\ run'.i = 1
      /\ run'.phase = run.phase /\ run'.applied = run.applied
      /\ run'.size = run.size /\ run'.completed = run.completed
      /\ run'.version = run.version /\ run'.options = run.options
      /\ run'.changed = run.changed /\ run'.snapshot = policy
  <2>1. 1 \in 0..N /\ policy \in [Item -> Version]
    BY RolloutAssumption DEF IInv, Types
  <2> QED
    BY <1>1, <1>2, <2>1 DEF RunType
<1>4. Types'
  BY <1>2, <1>3 DEF IInv, Types, spec
<1>5. /\ run.applied = <<>> /\ run.completed = 0
      /\ \A j \in Item : run.phase[j] = "planned"
  BY <1>1 DEF IInv, Progress
<1>6. Progress'
  <2>1. 1 \in Item /\ ~\E j \in Item : j < 1
    BY ItemsAreNumbered
  <2>2. Batch(run.size, 1) = 0 /\ BeforePauses(run.options, run.size, 1)
    BY <1>1, BatchSteps, FirstIsBeforePauses DEF RunType
  <2> QED
    BY <1>3, <1>5, <2>1, <2>2 DEF Progress, Looping
<1>7. Undo'
  BY <1>3, <1>5 DEF Undo
<1>8. Reports'
  <2> SUFFICES ASSUME "reset" \notin setting PROVE Reports'
    BY <1>2 DEF Reports, spec
  <2>1. /\ run.changed = {i \in Item : run.snapshot[i] # run.version}
        /\ \A i \in Item : policy[i] = run.snapshot[i]
    BY <1>1, <1>5 DEF IInv, Reports, Installed
  <2> QED
    BY <1>2, <1>3, <1>5, <2>1 DEF Reports, Installed
<1>9. Limits'
  BY <1>1, <1>2, <1>3 DEF IInv, Limits, spec, Reach, BeforePauses
<1>10. Claims'
  BY <1>1, <1>2, <1>3 DEF IInv, Claims, Kept, spec
<1> QED
  BY <1>4, <1>6, <1>7, <1>8, <1>9, <1>10 DEF IInv

-----------------------------------------------------------------------------
(* The end of a call, and the operator                                     *)

\* What is saved is what the phases report as installed.
LEMMA FinishIInv == IInv /\ Finish => IInv'
<1> SUFFICES ASSUME IInv, Finish PROVE IInv'
  OBVIOUS
<1>1. run.pc = "finish" /\ run \in RunType /\ Active
  BY DEF Finish, IInv, Types, Active
<1>2. /\ resume' = SavedResume(run) /\ run'.pc = "idle"
      /\ UNCHANGED <<spec, policy, frozen>>
  BY DEF Finish, Ended
<1>3. /\ SavedResume(run) \in [revision : Version, applied : SUBSET Item]
      /\ \/ SavedResume(run) = NoResume
         \/ SavedResume(run) = [revision |-> Revision(run.version),
                                applied |-> AppliedItems(run)]
  <2>1. 0 \in Version /\ Revision(run.version) \in Version
        /\ AppliedItems(run) \in SUBSET Item
    BY <1>1, RolloutAssumption DEF Version, Revision, RunType, AppliedItems
  <2> QED
    BY <2>1 DEF SavedResume, NoResume
<1>4. Types'
  BY <1>2, <1>3 DEF IInv, Types, Active, spec
<1>5. Limits'
  BY <1>2 DEF IInv, Limits, Active, spec, Reach, BeforePauses
<1>6. Claims'
  <2> SUFFICES ASSUME Kept
               PROVE  /\ resume'.revision <= version
                      /\ resume'.revision = version =>
                           \A i \in resume'.applied : policy[i] = version
    BY <1>2 DEF Claims, Kept, Active, spec
  <2>1. version \in Nat /\ run.version \in Nat /\ run.version <= version
        /\ Revision(run.version) = run.version
    BY <1>1, RolloutAssumption DEF IInv, Types, Limits, RunType, Version, Revision, Kept
  <2>2. CASE resume' = NoResume
    BY <2>1, <2>2 DEF NoResume
  <2>3. CASE resume' = [revision |-> Revision(run.version),
                        applied |-> AppliedItems(run)]
    <3>1. \A i \in AppliedItems(run) : policy[i] = run.version
      BY <1>1 DEF IInv, Reports, AppliedItems, Installed, Kept
    <3> QED
      BY <2>1, <2>3, <3>1
  <2> QED
    BY <1>2, <1>3, <2>2, <2>3
<1> QED
  BY <1>2, <1>4, <1>5, <1>6 DEF IInv, Progress, Undo, Reports, Active

\* The process ends: what is pinned and saved stays.
LEMMA ProcessEndsIInv == IInv /\ ProcessEnds => IInv'
<1> SUFFICES ASSUME IInv, ProcessEnds PROVE IInv'
  OBVIOUS
<1>1. /\ run'.pc = "idle" /\ UNCHANGED <<spec, frozen, resume>>
      /\ policy' = IF "pinned" \in setting THEN policy ELSE [i \in Item |-> NoPolicy]
  BY DEF ProcessEnds, Ended
<1>2. /\ version \in Nat /\ version # 0 /\ policy' \in [Item -> Version]
      /\ \A i \in Item : policy[i] \in Nat
  BY <1>1, RolloutAssumption DEF IInv, Types, Version, NoPolicy
<1>3. Types'
  BY <1>1, <1>2 DEF IInv, Types, Active, spec
<1>4. Limits'
  BY <1>1, <1>2 DEF IInv, Limits, Active, spec, NoPolicy, Reach, BeforePauses
<1>5. Claims'
  BY <1>1 DEF IInv, Claims, Kept, Active, spec
<1> QED
  BY <1>1, <1>3, <1>4, <1>5 DEF IInv, Progress, Undo, Reports, Active

LEMMA EditOptionsIInv == IInv /\ EditOptions => IInv'
<1> SUFFICES ASSUME IInv, EditOptions PROVE IInv'
  OBVIOUS
<1>1. /\ options' \in Options /\ granted' = granted \cup Reach(options')
      /\ UNCHANGED <<setting, policy, version, frozen, resume, run>>
  BY DEF EditOptions
<1>2. Types'
  BY <1>1 DEF IInv, Types, Active, Reach
<1>3. Limits'
  BY <1>1 DEF IInv, Limits, Active
<1>4. Progress' /\ Undo' /\ Reports' /\ Claims'
  BY <1>1 DEF IInv, Progress, Looping, BatchComplete, Undo, Reports, Claims,
              Kept, Active
<1> QED
  BY <1>2, <1>3, <1>4 DEF IInv

\* A new version is installed nowhere yet.
LEMMA EditPoliciesIInv == IInv /\ EditPolicies => IInv'
<1> SUFFICES ASSUME IInv, EditPolicies PROVE IInv'
  OBVIOUS
<1>1. /\ version' = version + 1 /\ version < MaxVersion /\ granted' = Reach(options)
      /\ UNCHANGED <<setting, policy, options, frozen, resume, run>>
  BY DEF EditPolicies
<1>2. /\ version \in Nat /\ version' \in Version \ {NoPolicy}
      /\ \A i \in Item : policy[i] \in Nat
      /\ resume.revision \in Nat
      /\ Active => run.version \in Nat /\ \A i \in Item : run.snapshot[i] \in Nat
  BY <1>1, RolloutAssumption DEF IInv, Types, Version, RunType, NoPolicy
<1>3. Types'
  BY <1>1, <1>2 DEF IInv, Types, Active, Reach
<1>4. Limits'
  <2>1. \A n \in Nat : n <= version => n <= version + 1 /\ n # version + 1
    BY <1>2
  <2> QED
    BY <1>1, <1>2, <2>1 DEF IInv, Limits, Active, Reach, BeforePauses
<1>5. Claims'
  BY <1>1, <1>2 DEF IInv, Claims, Kept, Active
<1>6. Progress' /\ Undo' /\ Reports'
  BY <1>1 DEF IInv, Progress, Looping, BatchComplete, Undo, Reports, Active
<1> QED
  BY <1>3, <1>4, <1>5, <1>6 DEF IInv

LEMMA ResetIInv ==
  ASSUME IInv, NEW i \in Item, Reset(i)
  PROVE  IInv'
<1>1. /\ "reset" \in setting /\ policy' = [policy EXCEPT ![i] = NoPolicy]
      /\ UNCHANGED <<spec, frozen, resume, run>>
  BY DEF Reset
<1>2. /\ version \in Nat /\ version # 0 /\ policy' \in [Item -> Version]
      /\ \A j \in Item : policy[j] \in Nat
      /\ \A j \in Item : policy'[j] \in {policy[j], NoPolicy}
  BY <1>1, RolloutAssumption DEF IInv, Types, Version, NoPolicy
<1>3. Types'
  BY <1>1, <1>2 DEF IInv, Types, Active, spec
<1>4. Limits'
  BY <1>1, <1>2 DEF IInv, Limits, Active, spec, NoPolicy, Reach, BeforePauses
<1>5. Progress' /\ Undo' /\ Reports' /\ Claims'
  BY <1>1 DEF IInv, Progress, Looping, BatchComplete, Undo, Reports, Claims,
              Kept, Active, spec
<1> QED
  BY <1>3, <1>4, <1>5 DEF IInv

LEMMA FreezeIInv ==
  ASSUME IInv, NEW i \in Item, Freeze(i)
  PROVE  IInv'
<1>1. frozen' \subseteq Item /\ UNCHANGED <<spec, policy, resume, run>>
  BY DEF Freeze, IInv, Types
<1>2. Types' /\ Limits'
  BY <1>1 DEF IInv, Types, Limits, Active, spec, Reach, BeforePauses
<1>3. Progress' /\ Undo' /\ Reports' /\ Claims'
  BY <1>1 DEF IInv, Progress, Looping, BatchComplete, Undo, Reports, Claims,
              Kept, Active, spec
<1> QED
  BY <1>2, <1>3 DEF IInv

-----------------------------------------------------------------------------

LEMMA InitIInv == Init => IInv
<1> SUFFICES ASSUME Init PROVE IInv
  OBVIOUS
<1>1. /\ run.pc = "idle" /\ version = 2 /\ granted = Reach(options)
      /\ policy \in [Item -> {0, 1}] /\ resume = NoResume
      /\ setting \in Settings /\ options \in Options /\ frozen = {}
  BY DEF Init, Ended, NoPolicy, OldPolicy
<1>2. 0 \in Version /\ 1 \in Version /\ 2 \in Version
  BY RolloutAssumption DEF Version
<1>3. policy \in [Item -> Version] /\ Types
  BY <1>1, <1>2 DEF Types, Active, NoResume, NoPolicy, Reach
<1>4. Limits
  BY <1>1 DEF Limits, Active
<1>5. Claims
  BY <1>1 DEF Claims, Active, NoResume
<1> QED
  BY <1>1, <1>3, <1>4, <1>5 DEF IInv, Progress, Undo, Reports, Active

LEMMA NextIInv == IInv /\ [Next]_vars => IInv'
<1> SUFFICES ASSUME IInv, [Next]_vars PROVE IInv'
  OBVIOUS
<1>1. CASE Cycle
  BY <1>1, PlanIInv, GateReturnsIInv, GatesOpenIInv, ItemResumedIInv,
     ItemFailsIInv, ItemApplyIInv, CheckIInv, RollbackIInv, RollbackDoneIInv,
     FinishIInv, ProcessEndsIInv DEF Cycle, SignatureRejected
<1>2. CASE Exit
  BY <1>2, ProcessEndsIInv DEF Exit
<1>3. CASE EditOptions \/ EditPolicies
  BY <1>3, EditOptionsIInv, EditPoliciesIInv
<1>4. CASE \E i \in Item : Reset(i) \/ Freeze(i)
  BY <1>4, ResetIInv, FreezeIInv
<1>5. CASE UNCHANGED vars
  <2>1. UNCHANGED <<setting, version, options, granted, policy, frozen, resume, run>>
    BY <1>5 DEF vars, spec
  <2> QED
    BY <2>1 DEF IInv, Types, Progress, Looping, BatchComplete, Undo, Reports,
                Limits, Claims, Kept, Active
<1> QED
  BY <1>1, <1>2, <1>3, <1>4, <1>5 DEF Next

LEMMA RolloutInvariant == Spec => []IInv
  BY InitIInv, NextIInv, PTL DEF Spec

-----------------------------------------------------------------------------
(* The theorems                                                            *)

\* Type correctness: policies, options, the resume state and the call in
\* progress stay in their domains (reconcile.go:596-800).
THEOREM RolloutTypeOK == Spec => []TypeOK
<1>1. IInv => TypeOK
  BY DEF IInv, Types, TypeOK, Active, RunType
<1> QED
  BY <1>1, RolloutInvariant, PTL

\* What a cycle reports of each endpoint is what is installed
\* (reconcile.go:652-793): applied, resumed, rolled back, paused, skipped or
\* failed, for every number of endpoints and every sequence of failures.
THEOREM ReportsAreTrue == Spec => []PhasesTellTheTruth
<1>1. IInv => PhasesTellTheTruth
  BY DEF IInv, Reports, Active, Installed, PhasesTellTheTruth
<1> QED
  BY <1>1, RolloutInvariant, PTL

\* A policy version is only installed on endpoints that come before the pause
\* points of the options it was given (reconcile.go:1197-1208), whatever the
\* batch size, the shrunk batch sizes, the cycles, the rollbacks and the
\* restarts.
THEOREM RolloutsStayWithinReach == Spec => []BlastRadius
<1>1. IInv => BlastRadius
  BY DEF IInv, Limits, BlastRadius
<1> QED
  BY <1>1, RolloutInvariant, PTL

\* With pinned maps, an endpoint that the resume state lists for the revision
\* in force has that version installed (main.go:5685-5728).
THEOREM ResumeStateIsInstalled == Spec => []ResumeIsInstalled
<1>1. IInv => ResumeIsInstalled
  BY DEF IInv, Claims, Kept, ResumeIsInstalled
<1> QED
  BY <1>1, RolloutInvariant, PTL
=============================================================================
