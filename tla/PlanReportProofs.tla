-------------------------- MODULE PlanReportProofs --------------------------
(***************************************************************************)
(* For any plans, targets, contract files and flags: the invariant of the  *)
(* command, and from it that nothing stays open, that verdicts come with   *)
(* their report, that the descriptor digest is of the database, that the   *)
(* command refuses nothing of its own making, and that a check that passes *)
(* is about analyzed plans free of what the contracts forbid.  For any     *)
(* sources and expectations: planvocab-check passes exactly the calls that *)
(* earned it.  For any plans and any contracts of a valid file: what a     *)
(* report says in several places agrees, and what it claims of itself is   *)
(* true.  For any catalog and raw plans: a finding of the vocabulary shows *)
(* no identifier, is determined by its fingerprint and finds its node.     *)
(* For any contract files and reports: the code and the schemas it         *)
(* publishes agree on what they are.                                       *)
(***************************************************************************)
EXTENDS PlanReport, ReportCases, TLAPS, FiniteSetTheorems, WellFoundedInduction

-----------------------------------------------------------------------------
(* The classification of a plan hides nothing from the contracts: a node that *)
(* is somebody's internal operator has that somebody in the plan, with a      *)
(* family the broad contracts forbid too, and an operator that blocks below a *)
(* limit is found however far below.                                          *)

(* Nonempty sets of natural numbers have a least element.                    *)
LEMMA LessThanWellFounded == \E R : IsWellFoundedOn(R, Nat) /\ \A x, y \in Nat : x < y => <<x, y>> \in R
<1> DEFINE R == OpToRel(<, Nat)
<1>1. IsWellFoundedOn(R, Nat)
    BY NatLessThanWellFounded
<1>2. \A x, y \in Nat : x < y => <<x, y>> \in R
    BY DEF OpToRel
<1> HIDE DEF R
<1> QED
    BY <1>1, <1>2

LEMMA MinimalElement ==
  ASSUME NEW R, IsWellFoundedOn(R, Nat), NEW S, S \subseteq Nat, S # {}
  PROVE  \E i \in S : \A j \in S : ~(<<j, i>> \in R)
BY WFMin, Zenon

LEMMA LeastElement ==
  ASSUME NEW S, S \subseteq Nat, S # {}
  PROVE  \E i \in S : \A j \in S : i <= j
<1>1. PICK R : IsWellFoundedOn(R, Nat) /\ \A x, y \in Nat : x < y => <<x, y>> \in R
    BY LessThanWellFounded
<1>2. PICK i \in S : \A j \in S : ~(<<j, i>> \in R)
    BY <1>1, MinimalElement, Zenon
<1>3. \A j \in S : i \in Nat /\ j \in Nat /\ ~(j < i)
    BY <1>1, <1>2
<1> QED
    BY <1>3

(* The families of display names, whatever the metadata.                     *)
LEMMA NameFamilies ==
  ASSUME NEW node
  PROVE  /\ node.name = "hash join" => OperatorFamily(node) = "hash_join"
         /\ node.name \in PushBroadcast => OperatorFamily(node) = "push_broadcast_hash_join"
         /\ node.name \in CrossApply => OperatorFamily(node) = "apply_join"
         /\ node.name \in SemiApply => OperatorFamily(node) \in {"semi_apply", "anti_semi_apply"}
         /\ node.name \in DistributedCross => OperatorFamily(node) = "distributed_cross_apply"
         /\ node.name = "distributed semi apply" => OperatorFamily(node) = "distributed_semi_apply"
         /\ node.name = "distributed anti semi apply" => OperatorFamily(node) = "distributed_anti_semi_apply"
         /\ node.name \in {"limit", "global limit", "local limit"} => OperatorFamily(node) = "limit"
         /\ node.name \in {"sort", "sort limit"} => OperatorFamily(node) = "full_sort"
         /\ node.name = "spoolbuild" => OperatorFamily(node) = "spool_build"
BY DEF OperatorFamily, PushBroadcast, CrossApply, SemiApply, AntiSemiApply, DistributedCross

(* A node that is internal has a wrapper in the plan.                        *)
LEMMA WrapperExists ==
  ASSUME NEW plan, NEW wrappers, NEW targets, NEW i \in Internal(plan, wrappers, targets)
  PROVE  \E w \in DOMAIN plan : plan[w].name \in wrappers
<1> DEFINE sources == {v \in DOMAIN plan : plan[v].name \in wrappers}
           links   == {k \in UNION {ToSet(plan[w].links) : w \in sources} : k.type = "map"}
<1>1. links # {}
  <2> DEFINE found(l) == FindWrapperInternal(plan, l.to, targets)
  <2>1. i \in {j \in UNION {found(l) : l \in links} : ConsumesBatchScan(plan, j)}
      BY DEF Internal
  <2> HIDE DEF links, found
  <2> QED
      BY <2>1
<1> QED
    BY <1>1

(* A node keeps the family of its name, unless a wrapper accounts for it.    *)
LEMMA FamilyOfJoin ==
  ASSUME NEW plan, NEW i \in DOMAIN plan
  PROVE  /\ plan[i].name = "hash join" =>
              Family(plan, i) = "hash_join" \/ \E w \in DOMAIN plan : plan[w].name \in PushBroadcast
         /\ plan[i].name \in CrossApply =>
              Family(plan, i) = "apply_join" \/ \E w \in DOMAIN plan : plan[w].name \in DistributedCross
         /\ plan[i].name \in SemiApply =>
              \/ Family(plan, i) \in {"semi_apply", "anti_semi_apply"}
              \/ \E w \in DOMAIN plan : plan[w].name \in {"distributed semi apply", "distributed anti semi apply"}
<1> DEFINE node == plan[i]
<1>1. ASSUME node.name = "hash join"
      PROVE  Family(plan, i) = "hash_join" \/ \E w \in DOMAIN plan : plan[w].name \in PushBroadcast
  <2>1. CASE i \in Internal(plan, PushBroadcast, {"hash join"})
      BY <2>1, WrapperExists
  <2>2. CASE i \notin Internal(plan, PushBroadcast, {"hash join"})
    <3>1. OperatorFamily(node) = "hash_join" /\ node.name \notin CrossApply \cup SemiApply
        BY <1>1, NameFamilies DEF CrossApply, SemiApply, AntiSemiApply
    <3> QED
        BY <1>1, <2>2, <3>1 DEF Family
  <2> QED
      BY <2>1, <2>2
<1>2. ASSUME node.name \in CrossApply
      PROVE  Family(plan, i) = "apply_join" \/ \E w \in DOMAIN plan : plan[w].name \in DistributedCross
  <2>1. CASE i \in Internal(plan, DistributedCross, CrossApply)
      BY <2>1, WrapperExists
  <2>2. CASE i \notin Internal(plan, DistributedCross, CrossApply)
    <3>1. OperatorFamily(node) = "apply_join" /\ node.name \notin SemiApply /\ node.name # "hash join"
        BY <1>2, NameFamilies DEF CrossApply, SemiApply, AntiSemiApply
    <3> QED
        BY <1>2, <2>2, <3>1 DEF Family
  <2> QED
      BY <2>1, <2>2
<1>3. ASSUME node.name \in SemiApply
      PROVE  \/ Family(plan, i) \in {"semi_apply", "anti_semi_apply"}
             \/ \E w \in DOMAIN plan : plan[w].name \in {"distributed semi apply", "distributed anti semi apply"}
  <2>1. CASE i \in SemiInternal(plan)
    <3>1. \E w \in DOMAIN plan : plan[w].name \in {"distributed semi apply"}
        BY <2>1, WrapperExists DEF SemiInternal
    <3> QED
        BY <3>1
  <2>2. CASE i \in Internal(plan, {"distributed anti semi apply"}, SemiApply)
    <3>1. \E w \in DOMAIN plan : plan[w].name \in {"distributed anti semi apply"}
        BY <2>2, WrapperExists
    <3> QED
        BY <3>1
  <2>3. CASE i \notin SemiInternal(plan) /\ i \notin Internal(plan, {"distributed anti semi apply"}, SemiApply)
    <3>1. OperatorFamily(node) \in {"semi_apply", "anti_semi_apply"} /\ node.name \notin CrossApply /\ node.name # "hash join"
        BY <1>3, NameFamilies DEF CrossApply, SemiApply, AntiSemiApply
    <3> QED
        BY <1>3, <2>3, <3>1 DEF Family
  <2> QED
      BY <2>1, <2>2, <2>3
<1> QED
    BY <1>1, <1>2, <1>3

(* Every other name keeps its family.                                        *)
LEMMA FamilyOfOthers ==
  ASSUME NEW plan, NEW i \in DOMAIN plan,
         plan[i].name # "hash join", plan[i].name \notin CrossApply, plan[i].name \notin SemiApply,
         OperatorFamily(plan[i]) # "unknown"
  PROVE  Family(plan, i) = OperatorFamily(plan[i])
BY DEF Family

(* Only the fallback says "join", and Family keeps it.                       *)
LEMMA UnclearJoin ==
  ASSUME NEW plan, NEW i \in DOMAIN plan, OperatorFamily(plan[i]) = "join"
  PROVE  Family(plan, i) = "join"
<1>1. plan[i].name # "hash join" /\ plan[i].name \notin CrossApply /\ plan[i].name \notin SemiApply
    BY NameFamilies
<1> QED
    BY <1>1, FamilyOfOthers

-----------------------------------------------------------------------------
(* What a rule that holds says of the plan                                   *)

Analyzed(query, plan) ==
  /\ query.operators = Normalize(plan)
  /\ query.warnings = ClassificationWarnings(Normalize(plan))

LEMMA Operators ==
  ASSUME NEW plan
  PROVE  /\ DOMAIN Normalize(plan) = DOMAIN plan
         /\ \A i \in DOMAIN plan : /\ Normalize(plan)[i].family = Family(plan, i)
                                   /\ Normalize(plan)[i].name = plan[i].name
                                   /\ Normalize(plan)[i].descendants = DescendantIndexes(plan, i)
BY DEF Normalize

LEMMA NoneOfFamily ==
  ASSUME NEW plan, IsFiniteSet(DOMAIN plan), NEW query, Analyzed(query, plan),
         NEW family, RuleHolds(query, Forbid(family, 0)), NEW i \in DOMAIN plan
  PROVE  Family(plan, i) # family
<1> DEFINE rule == Forbid(family, 0)
           hits == {j \in DOMAIN query.operators : MatchesFamily(query.operators[j], family)}
<1>1. rule.rule = "operator_family" /\ rule.family = family /\ rule.max = 0
    BY DEF Forbid
<1>2. Matched(query, rule) = hits
    BY <1>1 DEF Matched
<1>3. Cardinality(hits) <= 0
    BY <1>1, <1>2 DEF RuleHolds
<1>4. DOMAIN query.operators = DOMAIN plan /\ query.operators[i].family = Family(plan, i)
    BY Operators DEF Analyzed
<1>5. IsFiniteSet(hits) /\ Cardinality(hits) \in Nat
    BY <1>4, FS_Subset, FS_CardinalityType
<1>6. hits = {}
    BY <1>3, <1>5, FS_EmptySet
<1> QED
    BY <1>4, <1>6 DEF MatchesFamily

\* The broad contract on hash joins forbids each of them, internal or not.
LEMMA NoHashJoinIsBroad ==
  ASSUME NEW plan, IsFiniteSet(DOMAIN plan), NEW query, Analyzed(query, plan),
         \A r \in Predefined("no_hash_join") : RuleHolds(query, r), NEW i \in DOMAIN plan
  PROVE  plan[i].name \notin PushBroadcast \cup {"hash join"}
<1>1. Predefined("no_hash_join") = {Forbid(f, 0) : f \in HashJoin}
    BY DEF Predefined
<1>2. \A f \in HashJoin : RuleHolds(query, Forbid(f, 0))
    BY <1>1
<1>3. \A f \in HashJoin : \A j \in DOMAIN plan : Family(plan, j) # f
    BY <1>2, NoneOfFamily
<1>4. ASSUME NEW j \in DOMAIN plan PROVE plan[j].name \notin PushBroadcast
  <2> SUFFICES ASSUME plan[j].name \in PushBroadcast PROVE FALSE
      OBVIOUS
  <2>1. OperatorFamily(plan[j]) = "push_broadcast_hash_join"
      BY NameFamilies
  <2>2. plan[j].name # "hash join" /\ plan[j].name \notin CrossApply /\ plan[j].name \notin SemiApply
      BY <2>1, NameFamilies
  <2>3. Family(plan, j) = "push_broadcast_hash_join"
      BY <2>1, <2>2, FamilyOfOthers
  <2> QED
      BY <1>3, <2>3 DEF HashJoin
<1>5. plan[i].name # "hash join"
    BY <1>3, <1>4, FamilyOfJoin DEF HashJoin
<1> QED
    BY <1>4, <1>5

\* So does the one on applies.
LEMMA NoApplyJoinIsBroad ==
  ASSUME NEW plan, IsFiniteSet(DOMAIN plan), NEW query, Analyzed(query, plan),
         \A r \in Predefined("no_apply_join") : RuleHolds(query, r), NEW i \in DOMAIN plan
  PROVE  plan[i].name \notin CrossApply \cup SemiApply \cup DistributedCross
<1>1. Predefined("no_apply_join") = {Forbid(f, 0) : f \in StandaloneApply \cup DistributedApply}
    BY DEF Predefined
<1>2. \A f \in StandaloneApply \cup DistributedApply : RuleHolds(query, Forbid(f, 0))
    BY <1>1
<1>3. \A f \in StandaloneApply \cup DistributedApply : \A j \in DOMAIN plan : Family(plan, j) # f
    BY <1>2, NoneOfFamily
<1>4. ASSUME NEW j \in DOMAIN plan
      PROVE  /\ plan[j].name \notin DistributedCross
             /\ plan[j].name \notin {"distributed semi apply", "distributed anti semi apply"}
  <2> SUFFICES ASSUME plan[j].name \in DistributedCross \cup {"distributed semi apply", "distributed anti semi apply"}
               PROVE  FALSE
      OBVIOUS
  <2>1. OperatorFamily(plan[j]) \in DistributedApply
      BY NameFamilies DEF DistributedApply
  <2>2. plan[j].name # "hash join" /\ plan[j].name \notin CrossApply /\ plan[j].name \notin SemiApply
      BY <2>1, NameFamilies DEF DistributedApply
  <2>3. OperatorFamily(plan[j]) # "unknown"
      BY <2>1 DEF DistributedApply
  <2>4. Family(plan, j) = OperatorFamily(plan[j])
      BY <2>2, <2>3, FamilyOfOthers
  <2> QED
      BY <1>3, <2>1, <2>4
<1>5. plan[i].name \notin CrossApply /\ plan[i].name \notin SemiApply
    BY <1>3, <1>4, FamilyOfJoin DEF StandaloneApply
<1> QED
    BY <1>4, <1>5

\* No join of an unknown kind passes a rule on a kind of join.
LEMMA NoUnclearJoin ==
  ASSUME NEW plan, NEW query, Analyzed(query, plan),
         NEW rule, RuleHolds(query, rule), rule.rule = "operator_family", rule.family \in HashJoin \cup {"merge_join"},
         NEW i \in DOMAIN plan
  PROVE  OperatorFamily(plan[i]) # "join"
<1> SUFFICES ASSUME OperatorFamily(plan[i]) = "join" PROVE FALSE
    OBVIOUS
<1>1. Family(plan, i) = "join"
    BY UnclearJoin
<1>2. i \in DOMAIN Normalize(plan) /\ Normalize(plan)[i].family = "join"
    BY <1>1, Operators
<1>3. "join_family_unknown" \in query.warnings
    BY <1>2 DEF Analyzed, ClassificationWarnings, Warnings
<1>4. ClassificationUnknown(query, rule.family)
    BY <1>3 DEF ClassificationUnknown
<1> QED
    BY <1>4 DEF RuleHolds

\* Nothing that blocks is below a limit.
LEMMA NothingBlocksUnderLimit ==
  ASSUME NEW plan, NEW query, Analyzed(query, plan), RuleHolds(query, Rule("no_blocking_operator_under_limit")),
         NEW i \in DOMAIN plan, plan[i].name \in {"limit", "global limit", "local limit", "sort limit"},
         NEW j \in DescendantIndexes(plan, i) \cap DOMAIN plan
  PROVE  plan[j].name \notin PushBroadcast \cup {"sort", "sort limit", "spoolbuild"}
<1> SUFFICES ASSUME plan[j].name \in PushBroadcast \cup {"sort", "sort limit", "spoolbuild"} PROVE FALSE
    OBVIOUS
<1> DEFINE ops == query.operators
<1>1. /\ DOMAIN ops = DOMAIN plan /\ ops[i].name = plan[i].name /\ ops[i].family = Family(plan, i)
      /\ ops[i].descendants = DescendantIndexes(plan, i) /\ ops[j].family = Family(plan, j)
    BY Operators DEF Analyzed
<1>2. LimitOrSortLimit(ops[i])
  <2>1. CASE plan[i].name = "sort limit"
      BY <1>1, <2>1 DEF LimitOrSortLimit
  <2>2. CASE plan[i].name # "sort limit"
    <3>1. OperatorFamily(plan[i]) = "limit"
        BY <2>2, NameFamilies
    <3>2. plan[i].name # "hash join" /\ plan[i].name \notin CrossApply /\ plan[i].name \notin SemiApply
        BY <3>1, NameFamilies
    <3>3. Family(plan, i) = "limit"
        BY <3>1, <3>2, FamilyOfOthers
    <3> QED
        BY <1>1, <3>3 DEF LimitOrSortLimit
  <2> QED
      BY <2>1, <2>2
<1>3. BlockingOperator(ops[j])
  <2>1. OperatorFamily(plan[j]) \in {"push_broadcast_hash_join", "full_sort", "spool_build"}
      BY NameFamilies
  <2>2. plan[j].name # "hash join" /\ plan[j].name \notin CrossApply /\ plan[j].name \notin SemiApply
      BY <2>1, NameFamilies
  <2>3. OperatorFamily(plan[j]) # "unknown"
      BY <2>1
  <2>4. Family(plan, j) = OperatorFamily(plan[j])
      BY <2>2, <2>3, FamilyOfOthers
  <2> QED
      BY <1>1, <2>1, <2>4 DEF BlockingOperator
<1>4. j \in BlockingUnderLimit(query)
  <2> DEFINE below(l) == {d \in ops[l].descendants \cap DOMAIN ops : BlockingOperator(ops[d])}
             limits == {l \in DOMAIN ops : LimitOrSortLimit(ops[l])}
  <2>1. i \in limits
      BY <1>1, <1>2
  <2>2. j \in below(i)
      BY <1>1, <1>3
  <2>3. BlockingUnderLimit(query) = UNION {below(l) : l \in limits}
      BY DEF BlockingUnderLimit
  <2> HIDE DEF below, limits
  <2> QED
      BY <2>1, <2>2, <2>3
<1>5. Rule("no_blocking_operator_under_limit").rule = "no_blocking_operator_under_limit"
    BY DEF Rule
<1>6. Matched(query, Rule("no_blocking_operator_under_limit")) = BlockingUnderLimit(query)
    BY <1>5 DEF Matched
<1> QED
    BY <1>4, <1>5, <1>6 DEF RuleHolds

\* A contract holds only of a target in the report that was analyzed, and of
\* all its rules.
LEMMA HoldsOfTarget ==
  ASSUME NEW queries, DOMAIN queries \subseteq Nat, NEW contract, Evaluate(queries, contract) = "holds"
  PROVE  \E k \in DOMAIN queries :
           /\ queries[k].target = contract.target /\ queries[k].status = "ok"
           /\ contract.cel = "none" => \A r \in contract.rules : RuleHolds(queries[k], r)
<1> DEFINE found == TargetQueries(queries, contract)
           k == CHOOSE i \in found : \A j \in found : i <= j
<1>1. found # {}
    BY DEF Evaluate
<1>2. found \subseteq Nat
    BY DEF TargetQueries
<1>3. k \in found
  <2>1. \E i \in found : \A j \in found : i <= j
      BY <1>1, <1>2, LeastElement
  <2> HIDE DEF found
  <2> QED
      BY <2>1
<1>4. k \in DOMAIN queries /\ queries[k].target = contract.target
    BY <1>3 DEF TargetQueries
<1>5. queries[k].status = "ok"
    BY DEF Evaluate
<1>6. contract.cel = "none" => \A r \in contract.rules : RuleHolds(queries[k], r)
    BY <1>1, <1>5 DEF Evaluate
<1> HIDE DEF k
<1> QED
    BY <1>4, <1>5, <1>6

\* The topology of a plan without links to nowhere is within the plan.
LEMMA WithinPlan ==
  ASSUME NEW plan, \A i \in DOMAIN plan : Children(plan, i) \subseteq DOMAIN plan
  PROVE  /\ \A e \in Edges(plan) : {e.parent, e.child} \subseteq DOMAIN plan
         /\ \A i \in DOMAIN plan : DescendantIndexes(plan, i) \subseteq DOMAIN plan
<1>1. \A e \in Edges(plan) : {e.parent, e.child} \subseteq DOMAIN plan
    BY DEF Edges, Children
<1>2. ASSUME NEW i \in DOMAIN plan PROVE DescendantIndexes(plan, i) \subseteq DOMAIN plan
  <2> DEFINE S == DOMAIN plan
             indexes == DOMAIN plan \cup UNION {Children(plan, j) : j \in DOMAIN plan}
             closed(T) == Children(plan, i) \subseteq T /\ \A j \in T : Children(plan, j) \subseteq T
  <2>1. S \in SUBSET indexes /\ closed(S)
      OBVIOUS
  <2>2. Reached(plan, i) = {j \in indexes : \A T \in SUBSET indexes : closed(T) => j \in T}
      BY DEF Reached
  <2> HIDE DEF closed, indexes
  <2>3. Reached(plan, i) \subseteq S
      BY <2>1, <2>2
  <2> QED
      BY <2>3 DEF DescendantIndexes
<1> QED
    BY <1>1, <1>2

-----------------------------------------------------------------------------
(* The command                                                              *)

(* The report counts in natural numbers.                                     *)
LEMMA ReportCounts ==
  ASSUME report \in ReportType
  PROVE  /\ report.included \in Nat /\ report.planned \in Nat /\ report.errors \in Nat /\ report.skipped \in Nat
         /\ report.included + 1 \in Nat /\ report.planned + 1 \in Nat /\ report.errors + 1 \in Nat
         /\ report.skipped + 1 \in Nat
<1>1. report.included \in Nat /\ report.planned \in Nat /\ report.errors \in Nat /\ report.skipped \in Nat
    BY DEF ReportType
<1> QED
    BY <1>1

LEMMA OptionFields ==
  ASSUME opts \in Options
  PROVE  /\ opts.assertion \in {"none", "pin", "other", "malformed"} /\ opts.endpoint \in {"attached", "cold_start"}
         /\ opts.mode \in {"none", "report_only", "check"} /\ opts.contracts # <<>>
         /\ opts.contracts \in Seq([target : TargetIds, rules : SUBSET RuleType, cel : CelOutcomes])
         /\ opts.targets \in Seq([id : TargetIds, catalog : CatalogNames])
BY PlanReportConstants DEF PlanReportConstants

-----------------------------------------------------------------------------
(* The invariant, action by action                                          *)

LEMMA InitEstablishes == ReportInit => ReportInv
<1> SUFFICES ASSUME ReportInit PROVE ReportInv
    OBVIOUS
<1>1. EmptyReport \in ReportType
  <2>1. <<>> \in Seq(QueryType) /\ <<>> \in Seq(Outcomes)
      OBVIOUS
  <2> QED
      BY <2>1 DEF EmptyReport, ReportType
<1>2. files \in [{"ddl", "protos"} -> [SpannerOnes -> Nat]]
    BY DEF ReportInit
<1>3. ReportTypeOK
    BY <1>1, <1>2 DEF ReportInit, ReportTypeOK, Stages
<1>4. StageInv /\ IdentityInv
    BY DEF ReportInit, StageInv, IdentityInv, EmptyReport
<1>5. DatabaseInv /\ VerdictInv
    BY DEF ReportInit, DatabaseInv, VerdictInv
<1>6. QueriesInv
  <2>1. report.planned = 0 /\ report.errors = 0 /\ report.skipped = 0 /\ report.included = 0 /\ report.queries = <<>>
      BY DEF ReportInit, EmptyReport
  <2>2. report.planned + report.errors + report.skipped = report.included
      BY <2>1
  <2> QED
      BY <2>1, <2>2 DEF QueriesInv
<1> QED
    BY <1>3, <1>4, <1>5, <1>6 DEF ReportInv

(* The identity is all that changes in the report while the runtime is       *)
(* selected.                                                                 *)
LEMMA IdentityKeeps ==
  ASSUME ReportInv, stage = "select", stage' = "target", NEW source, NEW version,
         Identity(source, version), runtime' \in {runtime, "open"},
         \/ source = "runtime_targets" /\ version = "pin"
         \/ source = "external_unverified" /\ version = "not_recorded"
         \/ source = "manual" /\ version = opts.assertion /\ opts.assertion # "none",
         UNCHANGED <<opts, files, clients, open, descriptors, next, draft, exit>>
  PROVE  ReportInv'
<1>0. opts.assertion \in {"none", "pin", "other", "malformed"}
    BY OptionFields DEF ReportInv, ReportTypeOK
<1>1. report \in ReportType
    BY DEF ReportInv, ReportTypeOK
<1>2. /\ report' \in ReportType /\ report'.source = source /\ report'.version = version
      /\ report'.queries = report.queries /\ report'.output = report.output
      /\ report'.planned = report.planned /\ report'.errors = report.errors
      /\ report'.skipped = report.skipped /\ report'.included = report.included
    BY <1>0, <1>1 DEF Identity, ReportType
<1>3. ReportTypeOK'
    BY <1>2 DEF ReportInv, ReportTypeOK, Stages
<1>4. StageInv' /\ IdentityInv'
    BY <1>2 DEF ReportInv, StageInv, IdentityInv
<1>5. DatabaseInv' /\ VerdictInv'
    BY <1>2 DEF ReportInv, StageInv, DatabaseInv, VerdictInv
<1>6. QueriesInv'
    BY <1>2 DEF ReportInv, QueriesInv, Faithful
<1> QED
    BY <1>3, <1>4, <1>5, <1>6 DEF ReportInv

(* A run that gives up changes nothing but what it closes.                   *)
LEMMA AbortKeeps ==
  ASSUME ReportInv, NEW why, Abort(why), why # "running", why # "ok", why \notin {"no_targets", "not_pinned", "check_failed"},
         stage \notin {"gates", "exit"}, stage = "select" <=> why = "no_runtime",
         open' = {}, runtime' # "open",
         UNCHANGED <<opts, files, clients, descriptors, next, draft, report>>
  PROVE  ReportInv'
<1>1. ReportTypeOK'
    BY DEF ReportInv, ReportTypeOK, Stages, Abort
<1>2. StageInv' /\ IdentityInv'
    BY DEF ReportInv, StageInv, IdentityInv, Abort
<1>3. DatabaseInv' /\ VerdictInv'
    BY DEF ReportInv, DatabaseInv, VerdictInv, Abort
<1>4. QueriesInv'
    BY DEF ReportInv, QueriesInv, Faithful
<1> QED
    BY <1>1, <1>2, <1>3, <1>4 DEF ReportInv

LEMMA SelectKeeps == ASSUME ReportInv, Select PROVE ReportInv'
<1>0. /\ opts.assertion \in {"none", "pin", "other", "malformed"} /\ open = {} /\ runtime # "open"
    BY OptionFields DEF ReportInv, ReportTypeOK, StageInv, Select, SelectNothing, SelectRuntime, RejectRuntime
<1>1. ASSUME AttachedIdentity, stage = "select", stage' = "target", runtime' \in {runtime, "open"},
             UNCHANGED <<opts, files, clients, open, descriptors, next, draft, exit>>
      PROVE  ReportInv'
  <2>1. CASE opts.assertion = "none"
    <3>1. Identity("external_unverified", "not_recorded")
        BY <1>1, <2>1 DEF AttachedIdentity
    <3> QED
        BY <1>1, <3>1, IdentityKeeps
  <2>2. CASE opts.assertion # "none"
    <3>1. Identity("manual", opts.assertion)
        BY <1>1, <2>2 DEF AttachedIdentity
    <3> QED
        BY <1>0, <1>1, <2>2, <3>1, IdentityKeeps
  <2> QED
      BY <2>1, <2>2
<1>2. CASE SelectNothing
    BY <1>1, <1>2 DEF SelectNothing, database
<1>3. CASE SelectRuntime
  <2>1. CASE opts.endpoint = "attached"
      BY <1>1, <1>3, <2>1 DEF SelectRuntime, database
  <2>2. CASE opts.endpoint # "attached"
    <3>1. Identity("runtime_targets", "pin") /\ stage = "select" /\ stage' = "target" /\ runtime' = "open"
          /\ UNCHANGED <<opts, files, clients, open, descriptors, next, draft, exit>>
        BY <1>3, <2>2 DEF SelectRuntime, database
    <3> QED
        BY <3>1, IdentityKeeps
  <2> QED
      BY <2>1, <2>2
<1>4. CASE RejectRuntime
    BY <1>0, <1>4, AbortKeeps DEF RejectRuntime, database
<1> QED
    BY <1>2, <1>3, <1>4 DEF Select

(* An entry that is faithful to the databases joins the report.              *)
LEMMA AddQueryKeeps ==
  ASSUME ReportInv, stage \in {"target", "descriptors", "clients", "analyze"},
         NEW query \in QueryType, Faithful(query), AddQuery(query),
         UNCHANGED <<opts, files, runtime, clients, open, descriptors, exit>>
  PROVE  ReportInv'
<1>1. report \in ReportType /\ next \in Nat \ {0} /\ report.queries \in Seq(QueryType)
    BY DEF ReportInv, ReportTypeOK, ReportType
<1>2. /\ report'.queries = Append(report.queries, query) /\ report'.included = report.included + 1
      /\ report'.planned = (IF query.status = "ok" THEN report.planned + 1 ELSE report.planned)
      /\ report'.errors = (IF query.status = "error" THEN report.errors + 1 ELSE report.errors)
      /\ report'.skipped = (IF query.status = "skipped" THEN report.skipped + 1 ELSE report.skipped)
      /\ report'.output = report.output /\ report'.source = report.source /\ report'.version = report.version
    BY <1>1 DEF AddQuery, ReportType
<1>3. report' \in ReportType
  <2>1. Append(report.queries, query) \in Seq(QueryType)
      BY <1>1
  <2> QED
      BY <1>1, <2>1, ReportCounts DEF AddQuery, ReportType
<1>4. ReportTypeOK'
    BY <1>1, <1>3 DEF ReportInv, ReportTypeOK, Stages, AddQuery
<1>5. StageInv' /\ IdentityInv'
    BY <1>2 DEF ReportInv, StageInv, IdentityInv, AddQuery
<1>6. DatabaseInv' /\ VerdictInv'
    BY <1>2 DEF ReportInv, StageInv, DatabaseInv, VerdictInv, AddQuery
<1>7. QueriesInv'
  <2>1. ASSUME NEW k \in DOMAIN report'.queries PROVE Faithful(report.queries[k])'
    <3>1. CASE k = Len(report.queries) + 1
      <4>1. report'.queries[k] = query
          BY <1>1, <1>2, <3>1
      <4> QED
          BY <4>1 DEF Faithful
    <3>2. CASE k # Len(report.queries) + 1
      <4>1. k \in DOMAIN report.queries /\ report'.queries[k] = report.queries[k]
          BY <1>1, <1>2, <3>2
      <4> QED
          BY <4>1 DEF ReportInv, QueriesInv, Faithful
    <3> QED
        BY <3>1, <3>2
  <2>2. (report.planned + report.errors + report.skipped = report.included)'
    <3>1. query.status \in {"ok", "error", "skipped"}
        BY DEF QueryType, Faithful
    <3>2. /\ report.planned + report.errors + report.skipped = report.included
          /\ report.planned \in Nat /\ report.errors \in Nat /\ report.skipped \in Nat
        BY <1>1, ReportCounts DEF ReportInv, QueriesInv
    <3>3. CASE query.status = "ok"
      <4>1. report'.planned = report.planned + 1 /\ report'.errors = report.errors /\ report'.skipped = report.skipped
            /\ report'.included = report.included + 1
          BY <1>2, <3>3
      <4> QED
          BY <3>2, <4>1
    <3>4. CASE query.status = "error"
      <4>1. report'.planned = report.planned /\ report'.errors = report.errors + 1 /\ report'.skipped = report.skipped
            /\ report'.included = report.included + 1
          BY <1>2, <3>4
      <4> QED
          BY <3>2, <4>1
    <3>5. CASE query.status = "skipped"
      <4>1. report'.planned = report.planned /\ report'.errors = report.errors /\ report'.skipped = report.skipped + 1
            /\ report'.included = report.included + 1
          BY <1>2, <3>5
      <4> QED
          BY <3>2, <4>1
    <3> QED
        BY <3>1, <3>3, <3>4, <3>5
  <2> QED
      BY <2>1, <2>2 DEF QueriesInv
<1> QED
    BY <1>4, <1>5, <1>6, <1>7 DEF ReportInv

(* Every field of an entry has a value of its kind while a target is in hand. *)
LEMMA BlankFields ==
  ASSUME opts \in Options, NEW t \in DOMAIN opts.targets
  PROVE  /\ Blank(t) \in QueryType /\ Blank(t).catalog = opts.targets[t].catalog /\ Blank(t).status = "pending"
         /\ [Blank(t) EXCEPT !.status = "error"] \in QueryType /\ [Blank(t) EXCEPT !.status = "skipped"] \in QueryType
<1>1. opts.targets[t] \in [id : TargetIds, catalog : CatalogNames]
  <2>1. opts.targets \in Seq([id : TargetIds, catalog : CatalogNames])
      BY OptionFields
  <2>2. ASSUME NEW T, NEW s \in Seq(T), NEW k \in DOMAIN s PROVE s[k] \in T
      OBVIOUS
  <2> QED
      BY <2>1, <2>2
<1>2. Blank(t) \in QueryType
    BY <1>1 DEF Blank, QueryType, NoVersion
<1> QED
    BY <1>2 DEF Blank, QueryType

LEMMA DraftFails ==
  ASSUME ReportInv, stage \in {"descriptors", "clients", "analyze"}, Fail(draft),
         UNCHANGED <<opts, files, runtime, clients, open, descriptors, exit>>
  PROVE  ReportInv'
<1>1. draft \in QueryType
    BY DEF ReportInv, ReportTypeOK
<1>2. [draft EXCEPT !.status = "error"] \in QueryType /\ [draft EXCEPT !.status = "error"].status = "error"
    BY <1>1 DEF QueryType
<1>3. Faithful([draft EXCEPT !.status = "error"])
    BY <1>2 DEF Faithful
<1> QED
    BY <1>2, <1>3, AddQueryKeeps DEF Fail

LEMMA SkipKeeps == ASSUME ReportInv, SkipTarget PROVE ReportInv'
<1>1. next \in DOMAIN opts.targets /\ opts \in Options
    BY OptionFields DEF ReportInv, ReportTypeOK, SkipTarget
<1>2. DEFINE query == [Blank(next) EXCEPT !.status = "skipped"]
<1>3. query \in QueryType /\ query.status = "skipped"
    BY <1>1, BlankFields DEF Blank
<1>4. Faithful(query)
    BY <1>3 DEF Faithful
<1> QED
    BY <1>3, <1>4, AddQueryKeeps DEF SkipTarget, setup, database

LEMMA ReadDDLKeeps == ASSUME ReportInv, ReadDDLDigest PROVE ReportInv'
<1>1. next \in DOMAIN opts.targets /\ opts \in Options /\ stage = "target"
    BY OptionFields DEF ReportInv, ReportTypeOK, ReadDDLDigest
<1>2. CASE Fail(Blank(next))
  <2>1. DEFINE query == [Blank(next) EXCEPT !.status = "error"]
  <2>2. query \in QueryType /\ query.status = "error"
      BY <1>1, BlankFields DEF Blank
  <2>3. Faithful(query)
      BY <2>2 DEF Faithful
  <2> QED
      BY <1>1, <1>2, <2>2, <2>3, AddQueryKeeps DEF ReadDDLDigest, Fail, setup, database
<1>3. CASE stage' = "descriptors" /\ UNCHANGED <<next, report>>
           /\ draft' = [Blank(next) EXCEPT !.ddl = files.ddl[opts.targets[next].catalog]]
  <2>1. opts.targets[next].catalog \in SpannerOnes
      BY DEF ReadDDLDigest, Spanner
  <2>2. files.ddl[opts.targets[next].catalog] \in Int
      BY <2>1 DEF ReportInv, ReportTypeOK
  <2>3. draft' \in QueryType /\ draft'.catalog \in SpannerOnes
      BY <1>1, <1>3, <2>1, <2>2, BlankFields DEF QueryType
  <2>4. UNCHANGED <<opts, files, runtime, clients, open, descriptors, exit>>
      BY DEF ReadDDLDigest, setup, database
  <2>5. ReportTypeOK'
      BY <1>3, <2>3, <2>4 DEF ReportInv, ReportTypeOK, Stages
  <2>6. StageInv' /\ IdentityInv' /\ DatabaseInv' /\ VerdictInv'
      BY <1>1, <1>3, <2>4 DEF ReportInv, StageInv, IdentityInv, DatabaseInv, VerdictInv
  <2>7. QueriesInv'
      BY <1>3, <2>4 DEF ReportInv, QueriesInv, Faithful
  <2> QED
      BY <2>5, <2>6, <2>7 DEF ReportInv
<1> QED
    BY <1>2, <1>3 DEF ReadDDLDigest

(* The parts of an entry do not depend on the target's databases.            *)
LEMMA LoadKeeps == ASSUME ReportInv, LoadDescriptors PROVE ReportInv'
<1> DEFINE c == draft.catalog
           known == IF c \in DOMAIN descriptors THEN descriptors[c]
                    ELSE IF c \in WithProtos THEN files.protos[c] ELSE NoVersion
<1>1. /\ stage = "descriptors" /\ draft \in QueryType /\ c \in SpannerOnes
      /\ UNCHANGED <<opts, files, runtime, clients, open, exit>>
    BY DEF ReportInv, ReportTypeOK, LoadDescriptors, setup
<1>2. CASE Fail(draft) /\ UNCHANGED descriptors
    BY <1>1, <1>2, DraftFails
<1>3. CASE /\ descriptors' = [x \in DOMAIN descriptors \cup {c} |-> IF x = c THEN known ELSE descriptors[x]]
           /\ draft' = [draft EXCEPT !.protos = known]
           /\ stage' = "clients" /\ UNCHANGED <<next, report>>
  <2>1. known \in Int
      BY <1>1 DEF ReportInv, ReportTypeOK, NoVersion
  <2>2. draft' \in QueryType /\ draft'.catalog = c /\ draft'.protos = known
      BY <1>1, <1>3, <2>1 DEF QueryType
  <2>3. DOMAIN descriptors' = DOMAIN descriptors \cup {c} /\ descriptors'[c] = known
        /\ \A x \in DOMAIN descriptors : descriptors'[x] = descriptors[x]
      BY <1>3
  <2>4. ReportTypeOK'
      BY <1>1, <1>3, <2>1, <2>2, <2>3 DEF ReportInv, ReportTypeOK, Stages
  <2>5. StageInv' /\ IdentityInv' /\ VerdictInv'
      BY <1>1, <1>3 DEF ReportInv, StageInv, IdentityInv, VerdictInv
  <2>6. DatabaseInv'
      BY <1>1, <1>3, <2>2, <2>3 DEF ReportInv, DatabaseInv
  <2>7. QueriesInv'
      BY <1>1, <1>3 DEF ReportInv, QueriesInv, Faithful
  <2> QED
      BY <2>4, <2>5, <2>6, <2>7 DEF ReportInv
<1> QED
    BY <1>2, <1>3 DEF LoadDescriptors

LEMMA OpenKeeps == ASSUME ReportInv, OpenClients PROVE ReportInv'
<1> DEFINE c == draft.catalog
<1>1. /\ stage = "clients" /\ stage' = "analyze" /\ c \in DOMAIN descriptors
      /\ UNCHANGED <<opts, files, runtime, descriptors, next, draft, report, exit>>
    BY DEF ReportInv, DatabaseInv, OpenClients, setup
<1>2. /\ DOMAIN clients' = DOMAIN clients \cup {c}
      /\ \A x \in DOMAIN clients : clients'[x] = clients[x]
      /\ c \notin DOMAIN clients => clients'[c].protos = descriptors[c]
  <2>1. CASE c \in DOMAIN clients
      BY <2>1 DEF OpenClients
  <2>2. CASE c \notin DOMAIN clients
      BY <2>2 DEF OpenClients
  <2> QED
      BY <2>1, <2>2
<1>3. ReportTypeOK'
    BY <1>1 DEF ReportInv, ReportTypeOK, Stages
<1>4. StageInv' /\ IdentityInv' /\ VerdictInv'
    BY <1>1 DEF ReportInv, StageInv, IdentityInv, VerdictInv
<1>5. DatabaseInv'
    BY <1>1, <1>2 DEF ReportInv, DatabaseInv
<1>6. QueriesInv'
  <2>1. ASSUME NEW k \in DOMAIN report.queries, Faithful(report.queries[k]) PROVE Faithful(report.queries[k])'
      BY <1>1, <1>2, <2>1 DEF Faithful
  <2> QED
      BY <1>1, <2>1 DEF ReportInv, QueriesInv
<1> QED
    BY <1>3, <1>4, <1>5, <1>6 DEF ReportInv

LEMMA OpenFailsKeeps == ASSUME ReportInv, OpenFails PROVE ReportInv'
<1>1. /\ open' = {} /\ runtime' # "open" /\ stage = "clients" /\ Abort("open_failed")
      /\ UNCHANGED <<opts, files, clients, descriptors, next, draft, report>>
    BY DEF OpenFails, CloseAll
<1> QED
    BY <1>1, AbortKeeps

(* What Analyze puts into the entry is of the plan the backend gave.         *)
LEMMA AnalyzeKeeps == ASSUME ReportInv, NEW plan \in Plans, Analyze(plan) PROVE ReportInv'
<1> DEFINE operators == Normalize(plan)
           query == [draft EXCEPT !.status = "ok", !.operators = operators, !.edges = Edges(plan),
                       !.warnings = ClassificationWarnings(operators), !.rawPlan = plan]
<1>1. /\ stage = "analyze" /\ draft \in QueryType /\ AddQuery(query)
      /\ UNCHANGED <<opts, files, runtime, clients, open, descriptors, exit>>
    BY DEF ReportInv, ReportTypeOK, Analyze, setup, database
<1>2. operators \in Analyses /\ Edges(plan) \in EdgeSets /\ ClassificationWarnings(operators) \in SUBSET Warnings
    BY DEF Analyses, EdgeSets, ClassificationWarnings
<1>3. /\ query \in QueryType /\ query.status = "ok" /\ query.rawPlan = plan /\ query.operators = operators
      /\ query.edges = Edges(plan) /\ query.warnings = ClassificationWarnings(operators)
      /\ query.catalog = draft.catalog /\ query.protos = draft.protos
  <2> HIDE DEF operators
  <2> QED
      BY <1>1, <1>2 DEF QueryType
<1>4. draft.catalog \in DOMAIN clients /\ draft.protos = clients[draft.catalog].protos
    BY <1>1 DEF ReportInv, DatabaseInv
<1>5. Faithful(query)
  <2> HIDE DEF query
  <2> QED
      BY <1>3, <1>4 DEF Faithful
<1> HIDE DEF query
<1> QED
    BY <1>1, <1>3, <1>5, AddQueryKeeps

LEMMA EndTargetsKeeps == ASSUME ReportInv, EndTargets PROVE ReportInv'
<1>1. report \in ReportType /\ stage = "target" /\ stage' = "evaluate"
      /\ UNCHANGED <<opts, files, clients, descriptors, next, draft, exit>>
    BY DEF ReportInv, ReportTypeOK, EndTargets
<1>2. /\ report' \in ReportType /\ report'.queries = report.queries /\ report'.output = report.output
      /\ report'.planned = report.planned /\ report'.errors = report.errors
      /\ report'.skipped = report.skipped /\ report'.included = report.included
      /\ report'.source = report.source /\ report'.version = report.version
    BY <1>1 DEF EndTargets, ReportType
<1>3. open' = {} /\ runtime' # "open"
    BY DEF EndTargets, CloseAll
<1>4. ReportTypeOK'
    BY <1>1, <1>2 DEF ReportInv, ReportTypeOK, Stages
<1>5. StageInv' /\ IdentityInv'
    BY <1>1, <1>2, <1>3 DEF ReportInv, StageInv, IdentityInv
<1>6. DatabaseInv' /\ VerdictInv'
    BY <1>1, <1>2 DEF ReportInv, StageInv, DatabaseInv, VerdictInv
<1>7. QueriesInv'
    BY <1>1, <1>2 DEF ReportInv, QueriesInv, Faithful
<1> QED
    BY <1>4, <1>5, <1>6, <1>7 DEF ReportInv

(* Every outcome of a contract is one of the five, unless the contract is a  *)
(* CEL expression with none.                                                 *)
LEMMA EvaluateType ==
  ASSUME NEW queries, NEW contract, contract.cel \in CelOutcomes
  PROVE  Evaluate(queries, contract) \in Outcomes
BY DEF Evaluate, Outcomes, CelOutcomes

LEMMA EvaluateKeeps == ASSUME ReportInv, EvaluateContracts PROVE ReportInv'
<1> DEFINE outcomes == [k \in DOMAIN opts.contracts |-> Evaluate(report.queries, opts.contracts[k])]
<1>1. /\ opts \in Options /\ report \in ReportType /\ stage = "evaluate" /\ open = {} /\ runtime # "open" /\ exit = "running"
      /\ UNCHANGED <<opts, files, runtime, clients, open, descriptors, next, draft>>
    BY DEF ReportInv, ReportTypeOK, StageInv, EvaluateContracts, setup, database
<1>2. CASE Abort("cel_error") /\ UNCHANGED report
    BY <1>1, <1>2, AbortKeeps
<1>3. CASE /\ report' = [report EXCEPT !.mode = opts.mode, !.evaluations = IF opts.mode = "none" THEN <<>> ELSE outcomes]
           /\ stage' = "write" /\ UNCHANGED exit
  <2>1. outcomes \in Seq(Outcomes)
    <3>1. opts.contracts \in Seq([target : TargetIds, rules : SUBSET RuleType, cel : CelOutcomes])
        BY <1>1, OptionFields
    <3>2. ASSUME NEW T, NEW s \in Seq(T), NEW k \in DOMAIN s PROVE s[k] \in T
        OBVIOUS
    <3>3. ASSUME NEW k \in DOMAIN opts.contracts PROVE outcomes[k] \in Outcomes
      <4>1. opts.contracts[k] \in [target : TargetIds, rules : SUBSET RuleType, cel : CelOutcomes]
          BY <3>1, <3>2
      <4>2. Evaluate(report.queries, opts.contracts[k]) \in Outcomes
          BY <4>1, EvaluateType
      <4> QED
          BY <4>2
    <3>4. DOMAIN outcomes = 1..Len(opts.contracts) /\ Len(opts.contracts) \in Nat
        BY <3>1
    <3>5. outcomes \in [1..Len(opts.contracts) -> Outcomes]
        BY <3>3, <3>4
    <3> HIDE DEF outcomes
    <3> QED
        BY <3>4, <3>5
  <2>2. <<>> \in Seq(Outcomes)
      OBVIOUS
  <2> HIDE DEF outcomes
  <2>3. opts.mode \in {"none", "report_only", "check"}
      BY <1>1, OptionFields
  <2>4. /\ report' \in ReportType /\ report'.queries = report.queries /\ report'.output = report.output
        /\ report'.planned = report.planned /\ report'.errors = report.errors
        /\ report'.skipped = report.skipped /\ report'.included = report.included
        /\ report'.source = report.source /\ report'.version = report.version
        /\ report'.mode = opts.mode /\ report'.evaluations = (IF opts.mode = "none" THEN <<>> ELSE outcomes)
      BY <1>1, <1>3, <2>1, <2>2, <2>3 DEF ReportType
  <2>5. ReportTypeOK'
      BY <1>1, <1>3, <2>4 DEF ReportInv, ReportTypeOK, Stages
  <2>6. StageInv' /\ IdentityInv'
      BY <1>1, <1>3, <2>4 DEF ReportInv, StageInv, IdentityInv
  <2>7. DatabaseInv' /\ VerdictInv'
      BY <1>1, <1>3, <2>4 DEF ReportInv, DatabaseInv, VerdictInv, outcomes
  <2>8. QueriesInv'
      BY <1>1, <2>4 DEF ReportInv, QueriesInv, Faithful
  <2> QED
      BY <2>5, <2>6, <2>7, <2>8 DEF ReportInv
<1> HIDE DEF outcomes
<1> QED
    BY <1>2, <1>3 DEF EvaluateContracts, outcomes

LEMMA WriteKeeps == ASSUME ReportInv, WriteReport \/ WriteFails PROVE ReportInv'
<1>1. /\ report \in ReportType /\ stage = "write" /\ open = {} /\ runtime # "open" /\ exit = "running"
      /\ UNCHANGED <<opts, files, runtime, clients, open, descriptors, next, draft>>
    BY DEF ReportInv, ReportTypeOK, StageInv, WriteReport, WriteFails, setup, database
<1>2. CASE Abort("invalid_report") /\ UNCHANGED report
    BY <1>1, <1>2, AbortKeeps
<1>3. CASE Abort("write_failed") /\ UNCHANGED report
    BY <1>1, <1>3, AbortKeeps
<1>4. CASE report' = [report EXCEPT !.output = "written"] /\ stage' = "gates" /\ UNCHANGED exit
  <2>1. /\ report' \in ReportType /\ report'.output = "written" /\ report'.queries = report.queries
        /\ report'.planned = report.planned /\ report'.errors = report.errors
        /\ report'.skipped = report.skipped /\ report'.included = report.included
        /\ report'.source = report.source /\ report'.version = report.version
        /\ report'.mode = report.mode /\ report'.evaluations = report.evaluations
      BY <1>1, <1>4 DEF ReportType
  <2>2. ReportTypeOK'
      BY <1>1, <1>4, <2>1 DEF ReportInv, ReportTypeOK, Stages
  <2>3. StageInv' /\ IdentityInv'
      BY <1>1, <1>4, <2>1 DEF ReportInv, StageInv, IdentityInv
  <2>4. DatabaseInv' /\ VerdictInv'
      BY <1>1, <1>4, <2>1 DEF ReportInv, DatabaseInv, VerdictInv
  <2>5. QueriesInv'
      BY <1>1, <2>1 DEF ReportInv, QueriesInv, Faithful
  <2> QED
      BY <2>2, <2>3, <2>4, <2>5 DEF ReportInv
<1> QED
    BY <1>2, <1>3, <1>4 DEF WriteReport, WriteFails

(* The gates pass only when every verdict is that its contract holds.        *)
LEMMA GatesKeep == ASSUME ReportInv, Gates PROVE ReportInv'
<1>1. /\ stage = "gates" /\ stage' = "exit" /\ open = {} /\ runtime # "open" /\ exit = "running"
      /\ report.output = "written" /\ exit' \in {"ok", "no_targets", "not_pinned", "check_failed"}
      /\ UNCHANGED <<opts, files, runtime, clients, open, descriptors, next, draft, report>>
    BY DEF ReportInv, StageInv, Gates, Abort, setup, database
<1>2. exit' = "ok" /\ opts.mode = "check" => CheckFailures = {}
    BY DEF Gates, Abort
<1>3. ReportTypeOK'
    BY <1>1 DEF ReportInv, ReportTypeOK, Stages
<1>4. StageInv' /\ IdentityInv' /\ DatabaseInv'
    BY <1>1 DEF ReportInv, StageInv, IdentityInv, DatabaseInv
<1>5. VerdictInv'
  <2>1. ASSUME exit' = "ok", opts.mode = "check", NEW k \in DOMAIN opts.contracts
        PROVE  Evaluate(report.queries, opts.contracts[k]) = "holds"
    <3>1. report.evaluations = [j \in DOMAIN opts.contracts |-> Evaluate(report.queries, opts.contracts[j])]
        BY <1>1, <2>1 DEF ReportInv, VerdictInv
    <3>2. report.evaluations[k] = "holds"
        BY <1>2, <2>1, <3>1 DEF CheckFailures
    <3> QED
        BY <3>1, <3>2
  <2> QED
      BY <1>1, <2>1 DEF VerdictInv
<1>6. QueriesInv'
    BY <1>1 DEF ReportInv, QueriesInv, Faithful
<1> QED
    BY <1>3, <1>4, <1>5, <1>6 DEF ReportInv

LEMMA EditKeeps ==
  ASSUME ReportInv, NEW f \in {"ddl", "protos"}, NEW x \in SpannerOnes, EditFile(f, x)
  PROVE  ReportInv'
<1>1. UNCHANGED <<opts, runtime, clients, open, descriptors, next, draft, report, stage, exit>>
    BY DEF EditFile, setup, database
<1>2. files' \in [{"ddl", "protos"} -> [SpannerOnes -> Nat]]
  <2>1. files \in [{"ddl", "protos"} -> [SpannerOnes -> Nat]]
      BY DEF ReportInv, ReportTypeOK
  <2> QED
      BY <2>1 DEF EditFile
<1>3. ReportTypeOK'
    BY <1>1, <1>2 DEF ReportInv, ReportTypeOK
<1>4. StageInv' /\ IdentityInv' /\ DatabaseInv' /\ VerdictInv'
    BY <1>1 DEF ReportInv, StageInv, IdentityInv, DatabaseInv, VerdictInv
<1>5. QueriesInv'
    BY <1>1 DEF ReportInv, QueriesInv, Faithful
<1> QED
    BY <1>3, <1>4, <1>5 DEF ReportInv

LEMMA StutterKeeps == ASSUME ReportInv, UNCHANGED reportVars PROVE ReportInv'
<1>1. UNCHANGED <<opts, files, runtime, clients, open, descriptors, next, draft, report, stage, exit>>
    BY DEF reportVars
<1>2. ReportTypeOK' /\ StageInv' /\ IdentityInv'
    BY <1>1 DEF ReportInv, ReportTypeOK, StageInv, IdentityInv
<1>3. DatabaseInv' /\ VerdictInv'
    BY <1>1 DEF ReportInv, DatabaseInv, VerdictInv
<1>4. QueriesInv'
    BY <1>1 DEF ReportInv, QueriesInv, Faithful
<1> QED
    BY <1>2, <1>3, <1>4 DEF ReportInv

-----------------------------------------------------------------------------
(* The theorems                                                             *)

\* The invariant of the command holds for any configuration, plans and edits.
THEOREM ReportInvariant == ReportSpec => []ReportInv
<1>1. ReportInit => ReportInv
    BY InitEstablishes
<1>2. ReportInv /\ [ReportNext]_reportVars => ReportInv'
  <2> SUFFICES ASSUME ReportInv, [ReportNext]_reportVars PROVE ReportInv'
      OBVIOUS
  <2>1. CASE Select
      BY <2>1, SelectKeeps
  <2>2. CASE Target
    <3>1. CASE SkipTarget
        BY <3>1, SkipKeeps
    <3>2. CASE ReadDDLDigest
        BY <3>2, ReadDDLKeeps
    <3>3. CASE LoadDescriptors
        BY <3>3, LoadKeeps
    <3>4. CASE OpenClients
        BY <3>4, OpenKeeps
    <3>5. CASE OpenFails
        BY <3>5, OpenFailsKeeps
    <3>6. CASE AnalyzeFails
      <4>1. stage = "analyze" /\ Fail(draft) /\ UNCHANGED <<opts, files, runtime, clients, open, descriptors, exit>>
          BY <3>6 DEF AnalyzeFails, setup, database
      <4> QED
          BY <4>1, DraftFails
    <3>7. ASSUME NEW plan \in Plans, Analyze(plan) PROVE ReportInv'
        BY <3>7, AnalyzeKeeps
    <3> QED
        BY <2>2, <3>1, <3>2, <3>3, <3>4, <3>5, <3>6, <3>7 DEF Target
  <2>3. CASE EndTargets
      BY <2>3, EndTargetsKeeps
  <2>4. CASE EvaluateContracts
      BY <2>4, EvaluateKeeps
  <2>5. CASE WriteReport \/ WriteFails
      BY <2>5, WriteKeeps
  <2>6. CASE Gates
      BY <2>6, GatesKeep
  <2>7. ASSUME NEW x \in SpannerOnes, EditFile("ddl", x) \/ EditFile("protos", x) PROVE ReportInv'
      BY <2>7, EditKeeps
  <2>8. CASE UNCHANGED reportVars
      BY <2>8, StutterKeeps
  <2> QED
      BY <2>1, <2>2, <2>3, <2>4, <2>5, <2>6, <2>7, <2>8 DEF ReportNext, Command
<1> QED
    BY <1>1, <1>2, PTL DEF ReportSpec

\* No database client and no runtime stays open, however a run ends.
THEOREM EverythingClosed == ReportSpec => []NothingLeftOpen
<1>1. ReportInv => NothingLeftOpen
    BY DEF ReportInv, StageInv, NothingLeftOpen
<1> QED
    BY <1>1, ReportInvariant, PTL

\* A gate's verdict comes with the written report, another failure with none.
THEOREM VerdictWithReport == ReportSpec => []VerdictsComeWithReport
<1>1. ReportInv => VerdictsComeWithReport
    BY DEF ReportInv, StageInv, VerdictsComeWithReport
<1> QED
    BY <1>1, ReportInvariant, PTL

\* The descriptor digest in an entry is of what its database was set up with.
THEOREM DescriptorDigest == ReportSpec => []DescriptorDigestIsOfDatabase
<1>1. ReportInv => DescriptorDigestIsOfDatabase
    BY DEF ReportInv, QueriesInv, Faithful, DescriptorDigestIsOfDatabase, ToSet
<1> QED
    BY <1>1, ReportInvariant, PTL

(* What the invariants of the report can refuse just before it is written.   *)
LEMMA OnlyInputsFail ==
  ASSUME ReportInv, stage = "write", ~ValidReport
  PROVE  \/ opts.assertion = "malformed"
         \/ \E k \in DOMAIN report.queries :
              report.queries[k].status = "ok" /\ (LinksToNowhere(report.queries[k].rawPlan) \/ Repeats(report.queries[k].rawPlan))
<1> SUFFICES ASSUME opts.assertion # "malformed",
                    \A k \in DOMAIN report.queries :
                      report.queries[k].status = "ok" => ~LinksToNowhere(report.queries[k].rawPlan) /\ ~Repeats(report.queries[k].rawPlan)
             PROVE  ValidReport
    OBVIOUS
<1>1. report.planned + report.errors + report.skipped = report.included
    BY DEF ReportInv, QueriesInv
<1>2. ValidIdentity
  <2>1. exit # "no_runtime"
      BY DEF ReportInv, StageInv
  <2>2. opts.assertion \in {"none", "pin", "other", "malformed"}
      BY OptionFields DEF ReportInv, ReportTypeOK
  <2> QED
      BY <2>1, <2>2 DEF ReportInv, StageInv, IdentityInv, ValidIdentity
<1>3. (report.mode = "none") = (report.evaluations = <<>>)
  <2>1. opts.contracts \in Seq([target : TargetIds, rules : SUBSET RuleType, cel : CelOutcomes]) /\ opts.contracts # <<>>
      BY OptionFields DEF ReportInv, ReportTypeOK
  <2>2. report.mode = opts.mode
      BY DEF ReportInv, VerdictInv
  <2>3. CASE opts.mode = "none"
      BY <2>2, <2>3 DEF ReportInv, VerdictInv
  <2>4. CASE opts.mode # "none"
    <3>1. 1 \in DOMAIN opts.contracts
        BY <2>1
    <3>2. report.evaluations = [k \in DOMAIN opts.contracts |-> Evaluate(report.queries, opts.contracts[k])]
        BY <2>4 DEF ReportInv, VerdictInv
    <3>3. DOMAIN report.evaluations = DOMAIN opts.contracts
        BY <3>2
    <3>4. 1 \notin DOMAIN <<>>
        OBVIOUS
    <3> QED
        BY <2>2, <2>4, <3>1, <3>3, <3>4
  <2> QED
      BY <2>3, <2>4
<1>4. ASSUME NEW k \in DOMAIN report.queries, report.queries[k].status = "ok"
      PROVE  ValidTopology(report.queries[k])
  <2> DEFINE query == report.queries[k]
             plan == query.rawPlan
  <2>1. plan \in Plans /\ query.operators = Normalize(plan) /\ query.edges = Edges(plan)
      BY <1>4 DEF ReportInv, QueriesInv, Faithful
  <2>2. /\ \A e \in Edges(plan) : {e.parent, e.child} \subseteq DOMAIN plan
        /\ \A i \in DOMAIN plan : DescendantIndexes(plan, i) \subseteq DOMAIN plan
    <3>1. \A i \in DOMAIN plan : Children(plan, i) \subseteq DOMAIN plan
        BY <1>4 DEF LinksToNowhere
    <3> QED
        BY <3>1, WithinPlan
  <2>3. DOMAIN query.operators = DOMAIN plan
        /\ \A i \in DOMAIN plan : query.operators[i].descendants = DescendantIndexes(plan, i)
      BY <2>1, Operators
  <2>4. ~Repeats(query.rawPlan)
      BY <1>4
  <2> HIDE DEF query, plan
  <2>5. ValidTopology(query)
      BY <2>1, <2>2, <2>3, <2>4 DEF ValidTopology
  <2> QED
      BY <2>5 DEF query
<1> QED
    BY <1>1, <1>2, <1>3, <1>4 DEF ValidReport

\* The command refuses nothing of its own making: only a malformed identity or
\* an analyzed plan with a link to nowhere or a repeated index makes its report invalid.
THEOREM RefusesInputsOnly == ReportSpec => []OnlyInputsAreRefused
<1>1. ReportInit => OnlyInputsAreRefused
    BY DEF ReportInit, OnlyInputsAreRefused
<1>2. OnlyInputsAreRefused /\ ReportInv /\ [ReportNext]_reportVars => OnlyInputsAreRefused'
  <2> SUFFICES ASSUME OnlyInputsAreRefused, ReportInv, [ReportNext]_reportVars, exit' = "invalid_report"
               PROVE  OnlyInputsAreRefused'
      BY DEF OnlyInputsAreRefused
  <2>1. CASE WriteReport /\ ~ValidReport
    <3>1. UNCHANGED <<opts, report>> /\ stage = "write"
        BY <2>1 DEF WriteReport, setup
    <3> QED
        BY <2>1, <3>1, OnlyInputsFail DEF OnlyInputsAreRefused
  <2>2. CASE exit = "invalid_report"
    <3>1. stage = "exit"
        BY <2>2 DEF ReportInv, StageInv
    <3>2. UNCHANGED <<opts, report>>
      <4>1. ~Select /\ ~EndTargets /\ ~EvaluateContracts /\ ~WriteReport /\ ~WriteFails /\ ~Gates
          BY <3>1 DEF Select, SelectNothing, SelectRuntime, RejectRuntime, EndTargets, EvaluateContracts,
                      WriteReport, WriteFails, Gates
      <4>2. ~Target
          BY <3>1 DEF Target, SkipTarget, ReadDDLDigest, LoadDescriptors, OpenClients, OpenFails, AnalyzeFails, Analyze
      <4>3. ASSUME NEW f, NEW c, EditFile(f, c) PROVE UNCHANGED <<opts, report>>
          BY <4>3 DEF EditFile, setup
      <4> QED
          BY <4>1, <4>2, <4>3 DEF ReportNext, Command, reportVars
    <3> QED
        BY <2>2, <3>2 DEF OnlyInputsAreRefused
  <2>3. CASE exit # "invalid_report" /\ ~(WriteReport /\ ~ValidReport)
    <3>1. CASE Select
        BY <2>3, <3>1 DEF Select, SelectNothing, SelectRuntime, RejectRuntime, Abort
    <3>2. CASE Target
        BY <2>3, <3>2 DEF Target, SkipTarget, ReadDDLDigest, LoadDescriptors, OpenClients, OpenFails, AnalyzeFails, Analyze, Abort
    <3>3. CASE EndTargets \/ EvaluateContracts
        BY <2>3, <3>3 DEF EndTargets, EvaluateContracts, Abort
    <3>4. CASE WriteReport
        BY <2>3, <3>4 DEF WriteReport
    <3>5. CASE WriteFails \/ Gates
        BY <2>3, <3>5 DEF WriteFails, Gates, Abort
    <3>6. ASSUME NEW f, NEW c, EditFile(f, c) PROVE FALSE
        BY <2>3, <3>6 DEF EditFile
    <3>7. CASE UNCHANGED reportVars
        BY <2>3, <3>7 DEF reportVars
    <3> QED
        BY <3>1, <3>2, <3>3, <3>4, <3>5, <3>6, <3>7 DEF ReportNext, Command
  <2> QED
      BY <2>1, <2>2, <2>3
<1> QED
    BY <1>1, <1>2, ReportInvariant, PTL DEF ReportSpec

\* A check that ends well is about analyzed plans that are, as the backend
\* gave them, free of what the contracts forbid.
THEOREM PassedCheck == ReportSpec => []PassedCheckIsEarned
<1>1. ReportInv => PassedCheckIsEarned
  <2> SUFFICES ASSUME ReportInv, exit = "ok", opts.mode = "check", NEW n \in DOMAIN opts.contracts
               PROVE  \E q \in ToSet(report.queries) :
                        /\ q.target = opts.contracts[n].target /\ q.status = "ok"
                        /\ q.rawPlan \in Plans /\ Earned(opts.contracts[n], q.rawPlan)
      BY DEF PassedCheckIsEarned
  <2> DEFINE contract == opts.contracts[n]
  <2>1. Evaluate(report.queries, contract) = "holds"
      BY DEF ReportInv, VerdictInv
  <2>2. DOMAIN report.queries \subseteq Nat
    <3>1. report.queries \in Seq(QueryType)
        BY DEF ReportInv, ReportTypeOK, ReportType
    <3> QED
        BY <3>1
  <2>3. contract.cel = "none" \/ contract.rules = {}
      BY PlanReportConstants DEF PlanReportConstants, ReportInv, ReportTypeOK
  <2> HIDE DEF contract
  <2>4. PICK k \in DOMAIN report.queries :
           /\ report.queries[k].target = contract.target /\ report.queries[k].status = "ok"
           /\ contract.cel = "none" => \A r \in contract.rules : RuleHolds(report.queries[k], r)
      BY <2>1, <2>2, HoldsOfTarget
  <2> DEFINE query == report.queries[k]
             plan == query.rawPlan
  <2>5. \A r \in contract.rules : RuleHolds(query, r)
      BY <2>3, <2>4
  <2>6. plan \in Plans /\ Analyzed(query, plan)
      BY <2>4 DEF ReportInv, QueriesInv, Faithful, Analyzed
  <2>7. IsFiniteSet(DOMAIN plan)
      BY <2>6, PlanReportConstants DEF PlanReportConstants
  <2> HIDE DEF query, plan
  <2>8. Earned(contract, plan)
    <3>1. Predefined("no_hash_join") \subseteq contract.rules =>
             \A i \in DOMAIN plan : plan[i].name \notin PushBroadcast \cup {"hash join"}
        BY <2>5, <2>6, <2>7, NoHashJoinIsBroad
    <3>2. Predefined("no_apply_join") \subseteq contract.rules =>
             \A i \in DOMAIN plan : plan[i].name \notin CrossApply \cup SemiApply \cup DistributedCross
        BY <2>5, <2>6, <2>7, NoApplyJoinIsBroad
    <3>3. (\E r \in contract.rules : r.rule = "operator_family" /\ r.family \in HashJoin \cup {"merge_join"}) =>
             \A i \in DOMAIN plan : OperatorFamily(plan[i]) # "join"
        BY <2>5, <2>6, NoUnclearJoin
    <3>4. Rule("no_blocking_operator_under_limit") \in contract.rules =>
             \A i \in DOMAIN plan : plan[i].name \in {"limit", "global limit", "local limit", "sort limit"} =>
               \A j \in DescendantIndexes(plan, i) \cap DOMAIN plan :
                 plan[j].name \notin PushBroadcast \cup {"sort", "sort limit", "spoolbuild"}
        BY <2>5, <2>6, NothingBlocksUnderLimit
    <3> QED
        BY <3>1, <3>2, <3>3, <3>4 DEF Earned
  <2>9. query \in ToSet(report.queries)
      BY DEF query, ToSet
  <2> QED
      BY <2>4, <2>6, <2>8, <2>9 DEF query, plan, contract
<1> QED
    BY <1>1, ReportInvariant, PTL

-----------------------------------------------------------------------------
(* planvocab-check                                                          *)

(* A concatenation has the elements of both sequences.                       *)
LEMMA ToSetOfConcatenation ==
  ASSUME NEW A, NEW B, NEW s \in Seq(A), NEW t \in Seq(B)
  PROVE  ToSet(s \o t) = ToSet(s) \cup ToSet(t)
<1> DEFINE u == s \o t
<1>1. Len(u) = Len(s) + Len(t) /\ u \in Seq(A \cup B)
  <2>1. s \in Seq(A \cup B) /\ t \in Seq(A \cup B)
      OBVIOUS
  <2> QED
      BY <2>1
<1>2. \A k \in 1..Len(u) : u[k] = IF k <= Len(s) THEN s[k] ELSE t[k - Len(s)]
  <2>1. s \in Seq(A \cup B) /\ t \in Seq(A \cup B)
      OBVIOUS
  <2> QED
      BY <2>1
<1>3. DOMAIN s = 1..Len(s) /\ DOMAIN t = 1..Len(t) /\ DOMAIN u = 1..Len(u) /\ Len(s) \in Nat /\ Len(t) \in Nat
    BY <1>1
<1> HIDE DEF u
<1>4. ASSUME NEW x \in ToSet(s) PROVE x \in ToSet(u)
  <2>1. PICK k \in DOMAIN s : x = s[k]
      BY DEF ToSet
  <2>2. k \in 1..Len(u) /\ u[k] = x
      BY <2>1, <1>1, <1>2, <1>3
  <2> QED
      BY <2>2, <1>3 DEF ToSet
<1>5. ASSUME NEW x \in ToSet(t) PROVE x \in ToSet(u)
  <2>1. PICK k \in DOMAIN t : x = t[k]
      BY DEF ToSet
  <2>2. k + Len(s) \in 1..Len(u) /\ ~(k + Len(s) <= Len(s)) /\ (k + Len(s)) - Len(s) = k
      BY <2>1, <1>1, <1>3
  <2>3. u[k + Len(s)] = x
      BY <2>1, <2>2, <1>2
  <2> QED
      BY <2>2, <2>3, <1>3 DEF ToSet
<1>6. ASSUME NEW x \in ToSet(u) PROVE x \in ToSet(s) \cup ToSet(t)
  <2>1. PICK k \in DOMAIN u : x = u[k]
      BY DEF ToSet
  <2>2. CASE k <= Len(s)
      BY <2>1, <2>2, <1>1, <1>2, <1>3 DEF ToSet
  <2>3. CASE ~(k <= Len(s))
    <3>1. k - Len(s) \in 1..Len(t)
        BY <2>1, <2>3, <1>1, <1>3
    <3> QED
        BY <2>1, <2>3, <3>1, <1>2, <1>3 DEF ToSet
  <2> QED
      BY <2>2, <2>3
<1> QED
    BY <1>4, <1>5, <1>6 DEF u

(* A sequence, and the sequence of its labels.                               *)
LEMMA SequenceFacts ==
  ASSUME NEW S, NEW s \in Seq(S)
  PROVE  DOMAIN s = 1..Len(s) /\ Len(s) \in Nat /\ \A k \in DOMAIN s : s[k] \in S
OBVIOUS

LEMMA LabelSequence ==
  ASSUME NEW S, NEW s \in Seq(S), \A x \in S : x.label \in STRING
  PROVE  [k \in DOMAIN s |-> s[k].label] \in Seq(STRING)
<1> DEFINE n == Len(s)
<1>1. DOMAIN s = 1..n /\ n \in Nat /\ \A k \in DOMAIN s : s[k] \in S
    BY SequenceFacts
<1> HIDE DEF n
<1> DEFINE t == [k \in DOMAIN s |-> s[k].label]
<1>2. t \in [1..n -> STRING]
    BY <1>1
<1> HIDE DEF t
<1>3. t \in Seq(STRING)
    BY <1>1, <1>2
<1> QED
    BY <1>3 DEF t

(* The labels of a document are those of its two lists.                      *)
LEMMA LabelsOfDocument ==
  ASSUME NEW d, NEW l, Expects(d)
  PROVE  l \in ToSet(LabelsOf(d)) <=> (\E q \in ToSet(d.queries) : q.label = l) \/ (\E x \in ToSet(d.errors) : x.label = l)
<1> DEFINE Q == [k \in DOMAIN d.queries |-> d.queries[k].label]
           E == [k \in DOMAIN d.errors |-> d.errors[k].label]
<1>1. Q \in Seq(STRING)
  <2>1. d.queries \in Seq(QueryExpectation)
      BY Zenon DEF Expects
  <2>2. \A x \in QueryExpectation : x.label \in STRING
      BY DEF QueryExpectation
  <2> QED
      BY <2>1, <2>2, LabelSequence, Zenon
<1>6. E \in Seq(STRING)
  <2>1. d.errors \in Seq(ErrorExpectation)
      BY Zenon DEF Expects
  <2>2. \A x \in ErrorExpectation : x.label \in STRING
      BY DEF ErrorExpectation
  <2> QED
      BY <2>1, <2>2, LabelSequence, Zenon
<1> HIDE DEF Q, E
<1>2. ToSet(Q \o E) = ToSet(Q) \cup ToSet(E)
    BY <1>1, <1>6, ToSetOfConcatenation
<1> USE DEF Q, E
<1>3. l \in ToSet(Q) <=> \E q \in ToSet(d.queries) : q.label = l
    BY DEF ToSet
<1>4. l \in ToSet(E) <=> \E x \in ToSet(d.errors) : x.label = l
    BY DEF ToSet
<1>5. LabelsOf(d) = Q \o E
    BY DEF LabelsOf
<1> QED
    BY <1>2, <1>3, <1>4, <1>5

LEMMA EmptyDocument == Expects(NoDocument)
<1>1. <<>> \in Seq(QueryExpectation) /\ <<>> \in Seq(ErrorExpectation)
    OBVIOUS
<1>2. NoDocument.queries = <<>> /\ NoDocument.errors = <<>>
    BY DEF NoDocument
<1> QED
    BY <1>1, <1>2, Zenon DEF Expects

(* The command passes exactly the calls that earned it.                      *)
LEMMA PassesIffEarned ==
  ASSUME NEW c, c.expect \in BOOLEAN, c.allow \in BOOLEAN, Expects(c.document)
  PROVE  Check(c) = "passed" <=> EarnedCheck(c)
<1> DEFINE d     == IF c.expect THEN c.document ELSE NoDocument
           E     == ToSet(Envelopes(c.sources))
           refused == \/ c.expect /\ ~ValidDocument(d)
                      \/ \E s \in ToSet(c.sources) : s.envelopes = <<>>
                      \/ \E e \in E : Undecided(d, e)
                      \/ c.format \notin {"text", "json"}
           summary == InspectInputs(Envelopes(c.sources), d)
           given(l) == {e \in E : e.label = l}
<1>1. Expects(d)
    BY EmptyDocument
<1>2. Check(c) = "passed" <=>
        ~refused /\ summary.findings = {} /\ summary.expectation_failures = {} /\ (summary.query_errors # {} => c.allow)
    BY DEF Check
<1>3. summary.findings = {} <=> \A e \in E : e.error = {} => \A plan \in e.plan : Inspect(plan) = {}
    BY DEF InspectInputs
<1>4. summary.query_errors = {} <=> \A e \in E : e.error = {}
    BY DEF InspectInputs
<1>5. summary.expectation_failures = {} <=>
        /\ \A e \in E : EnvelopeFailures(d, e) = {}
        /\ \A l \in ToSet(LabelsOf(d)) : given(l) # {}
  <2> DEFINE L == ToSet(LabelsOf(d))
  <2>1. ASSUME NEW x
        PROVE  x \in summary.expectation_failures <=>
                 \/ \E e \in E : x \in EnvelopeFailures(d, e)
                 \/ \E l \in L : x = Failure(l, 0, "label not present") /\ \A e \in E : e.label # l
    <3> DEFINE labels == {l \in ToSet(LabelsOf(d)) : \A e \in E : e.label # l}
               absent == {Failure(label, 0, "label not present") : label \in labels}
               failures == UNION {EnvelopeFailures(d, e) : e \in E}
    <3>1. summary.expectation_failures = absent \cup failures
        BY DEF InspectInputs
    <3>2. \A l : l \in labels <=> l \in L /\ \A e \in E : e.label # l
        OBVIOUS
    <3> HIDE DEF summary, E, d, labels, L
    <3>3. x \in failures <=> \E e \in E : x \in EnvelopeFailures(d, e)
        OBVIOUS
    <3>4. x \in absent <=> \E l \in labels : x = Failure(l, 0, "label not present")
        OBVIOUS
    <3> HIDE DEF failures, absent
    <3> QED
        BY <3>1, <3>2, <3>3, <3>4
  <2> HIDE DEF E, summary, d, L
  <2>2. \A l : given(l) = {} <=> \A e \in E : e.label # l
      OBVIOUS
  <2> HIDE DEF given
  <2>3. ASSUME summary.expectation_failures = {}, NEW l \in L PROVE given(l) # {}
    <3>1. Failure(l, 0, "label not present") \notin summary.expectation_failures
        BY <2>3
    <3>2. ~(\A e \in E : e.label # l)
        BY <2>1, <2>3, <3>1
    <3> QED
        BY <2>2, <3>2
  <2>4. ASSUME summary.expectation_failures = {}, NEW e \in E PROVE EnvelopeFailures(d, e) = {}
      BY <2>1, <2>4
  <2>5. ASSUME \A e \in E : EnvelopeFailures(d, e) = {}, \A l \in L : given(l) # {}
        PROVE  summary.expectation_failures = {}
    <3> SUFFICES ASSUME NEW x \in summary.expectation_failures PROVE FALSE
        OBVIOUS
    <3> QED
        BY <2>1, <2>2, <2>5
  <2>6. summary.expectation_failures = {} <=> (\A e \in E : EnvelopeFailures(d, e) = {}) /\ (\A l \in L : given(l) # {})
      BY <2>3, <2>4, <2>5
  <2> QED
      BY <2>6 DEF L
<1> HIDE DEF summary, E, d
<1> DEFINE sought(e) == UNION {ToSet(q.patterns) : q \in {r \in ToSet(d.queries) : r.label = e.label}}
<1>6. ASSUME NEW e PROVE {x.pattern : x \in PatternsFor(d, e.label)} = sought(e)
  <2>1. ASSUME NEW x \in PatternsFor(d, e.label) PROVE x.pattern \in sought(e)
    <3>1. PICK q \in ToSet(d.queries) : q.label = e.label /\ \E k \in DOMAIN q.patterns : x = [at |-> k, pattern |-> q.patterns[k]]
      <4>1. \E q \in {r \in ToSet(d.queries) : r.label = e.label} :
              x \in {[at |-> k, pattern |-> q.patterns[k]] : k \in DOMAIN q.patterns}
          BY DEF PatternsFor
      <4> QED
          BY <4>1
    <3>2. PICK k \in DOMAIN q.patterns : x = [at |-> k, pattern |-> q.patterns[k]]
        BY <3>1
    <3>3. x.pattern \in ToSet(q.patterns)
        BY <3>2 DEF ToSet
    <3> QED
        BY <3>1, <3>3
  <2>2. ASSUME NEW p \in sought(e) PROVE \E x \in PatternsFor(d, e.label) : x.pattern = p
    <3>1. PICK q \in ToSet(d.queries) : q.label = e.label /\ p \in ToSet(q.patterns)
        OBVIOUS
    <3>2. PICK k \in DOMAIN q.patterns : p = q.patterns[k]
        BY <3>1 DEF ToSet
    <3>3. [at |-> k, pattern |-> q.patterns[k]] \in PatternsFor(d, e.label)
        BY <3>1 DEF PatternsFor
    <3>4. [at |-> k, pattern |-> q.patterns[k]].pattern = p
        BY <3>2
    <3> QED
        BY <3>3, <3>4
  <2> QED
      BY <2>1, <2>2
<1>7. ASSUME NEW e
      PROVE  /\ Undecided(d, e) <=> e.error = {} /\ (e.plan = {} \/ \E p \in sought(e) : ~ValidPattern(p))
             /\ EnvelopeFailures(d, e) = {} <=>
                  IF e.error # {}
                  THEN /\ \A x \in ErrorsFor(d, e.label) : x.contains \in e.error
                       /\ ErrorsFor(d, e.label) = {} => d.errors = <<>>
                       /\ sought(e) = {}
                  ELSE ErrorsFor(d, e.label) = {} /\ \A p \in sought(e) : \E plan \in e.plan : Matches(plan, p) # {}
  <2> DEFINE F == PatternsFor(d, e.label)
  <2> HIDE DEF F
  <2>1. sought(e) = {x.pattern : x \in F}
      BY <1>6 DEF F
  <2> HIDE DEF sought
  <2>2. Undecided(d, e) <=> e.error = {} /\ (e.plan = {} \/ \E p \in sought(e) : ~ValidPattern(p))
      BY <2>1 DEF Undecided, F
  <2>3. CASE e.error # {}
      BY <2>1, <2>2, <2>3 DEF EnvelopeFailures, F
  <2>4. CASE e.error = {}
    <3>1. (\A p \in sought(e) : \E plan \in e.plan : Matches(plan, p) # {})
            <=> \A x \in F : ~(\A plan \in e.plan : Matches(plan, x.pattern) = {})
        BY <2>1
    <3> QED
        BY <2>2, <2>4, <3>1 DEF EnvelopeFailures, F
  <2> QED
      BY <2>2, <2>3, <2>4
<1>8. ASSUME NEW l PROVE l \in ToSet(LabelsOf(d)) <=> (\E q \in ToSet(d.queries) : q.label = l) \/ (\E x \in ToSet(d.errors) : x.label = l)
    BY <1>1, LabelsOfDocument
<1>10. Check(c) = "passed" <=> 
         /\ c.expect => ValidDocument(d)
         /\ \A s \in ToSet(c.sources) : s.envelopes # <<>>
         /\ c.format \in {"text", "json"}
         /\ \A e \in E : ~Undecided(d, e) /\ EnvelopeFailures(d, e) = {}
         /\ \A e \in E : e.error = {} => \A plan \in e.plan : Inspect(plan) = {}
         /\ \A e \in E : e.error # {} => c.allow
         /\ \A l \in ToSet(LabelsOf(d)) : given(l) # {}
    BY <1>2, <1>3, <1>4, <1>5
<1>11. ASSUME NEW e \in E, ~Undecided(d, e), EnvelopeFailures(d, e) = {}
       PROVE  /\ e.error = {} => e.plan # {}
              /\ \A p \in sought(e) : e.error = {} /\ ValidPattern(p) /\ \E plan \in e.plan : Matches(plan, p) # {}
              /\ \A x \in ErrorsFor(d, e.label) : x.contains \in e.error
              /\ e.error # {} => d.errors = <<>> \/ ErrorsFor(d, e.label) # {}
    BY <1>7, <1>11
<1>12. ASSUME NEW e \in E,
              e.error = {} => e.plan # {},
              \A p \in sought(e) : e.error = {} /\ ValidPattern(p) /\ \E plan \in e.plan : Matches(plan, p) # {},
              \A x \in ErrorsFor(d, e.label) : x.contains \in e.error,
              e.error # {} => d.errors = <<>> \/ ErrorsFor(d, e.label) # {}
       PROVE  ~Undecided(d, e) /\ EnvelopeFailures(d, e) = {}
    BY <1>7, <1>12
<1>13. ASSUME NEW e PROVE \A x : x \in ErrorsFor(d, e.label) <=> x \in ToSet(d.errors) /\ x.label = e.label
    BY DEF ErrorsFor
<1>14. ASSUME NEW e PROVE \A p : p \in sought(e) <=> \E q \in ToSet(d.queries) : q.label = e.label /\ p \in ToSet(q.patterns)
    OBVIOUS
<1>15. EarnedCheck(c) <=>
         /\ c.expect => ValidDocument(d)
         /\ \A s \in ToSet(c.sources) : s.envelopes # <<>>
         /\ c.format \in {"text", "json"}
         /\ \A e \in E : e.error # {} \/ (e.plan # {} /\ \A plan \in e.plan : Inspect(plan) = {})
         /\ \A q \in ToSet(d.queries) :
              /\ given(q.label) # {}
              /\ \A e \in given(q.label), p \in ToSet(q.patterns) :
                   e.error = {} /\ ValidPattern(p) /\ \E plan \in e.plan : Matches(plan, p) # {}
         /\ \A x \in ToSet(d.errors) :
              given(x.label) # {} /\ \A e \in given(x.label) : x.contains \in e.error
         /\ \A e \in E :
              e.error # {} => c.allow /\ (d.errors = <<>> \/ ErrorsFor(d, e.label) # {})
    BY Zenon DEF EarnedCheck, E, d, given
<1>16. \A e, l : e \in given(l) <=> e \in E /\ e.label = l
    OBVIOUS
<1> HIDE DEF sought, given
<1>17. ASSUME Check(c) = "passed" PROVE EarnedCheck(c)
  <2>1. ASSUME NEW q \in ToSet(d.queries)
        PROVE  /\ given(q.label) # {}
               /\ \A e \in given(q.label), p \in ToSet(q.patterns) :
                   e.error = {} /\ ValidPattern(p) /\ \E plan \in e.plan : Matches(plan, p) # {}
    <3>1. given(q.label) # {}
        BY <2>1, <1>8, <1>10, <1>17
    <3>2. ASSUME NEW e \in given(q.label), NEW p \in ToSet(q.patterns)
          PROVE  e.error = {} /\ ValidPattern(p) /\ \E plan \in e.plan : Matches(plan, p) # {}
      <4>1. e \in E /\ e.label = q.label
          BY <1>16, <3>2
      <4>2. ~Undecided(d, e) /\ EnvelopeFailures(d, e) = {}
          BY <1>10, <1>17, <4>1
      <4>3. p \in sought(e)
          BY <1>14, <2>1, <3>2, <4>1
      <4> QED
          BY <1>11, <4>1, <4>2, <4>3
    <3> QED
        BY <3>1, <3>2
  <2>2. ASSUME NEW x \in ToSet(d.errors)
        PROVE  given(x.label) # {} /\ \A e \in given(x.label) : x.contains \in e.error
      BY <2>2, <1>8, <1>10, <1>11, <1>13, <1>16, <1>17
  <2>3. ASSUME NEW e \in E
        PROVE  /\ e.error # {} \/ (e.plan # {} /\ \A plan \in e.plan : Inspect(plan) = {})
               /\ e.error # {} => c.allow /\ (d.errors = <<>> \/ ErrorsFor(d, e.label) # {})
      BY <2>3, <1>10, <1>11, <1>17
  <2> QED
      BY <2>1, <2>2, <2>3, <1>10, <1>15, <1>17
<1>18. ASSUME EarnedCheck(c) PROVE Check(c) = "passed"
  <2>1. ASSUME NEW e \in E PROVE ~Undecided(d, e) /\ EnvelopeFailures(d, e) = {}
    <3>1. e.error = {} => e.plan # {}
        BY <1>15, <1>18
    <3>2. \A p \in sought(e) : e.error = {} /\ ValidPattern(p) /\ \E plan \in e.plan : Matches(plan, p) # {}
        BY <1>14, <1>15, <1>16, <1>18
    <3>3. \A x \in ErrorsFor(d, e.label) : x.contains \in e.error
        BY <1>13, <1>15, <1>16, <1>18
    <3>4. e.error # {} => d.errors = <<>> \/ ErrorsFor(d, e.label) # {}
        BY <1>15, <1>18
    <3> QED
        BY <3>1, <3>2, <3>3, <3>4, <1>12
  <2>2. \A l \in ToSet(LabelsOf(d)) : given(l) # {}
      BY <1>8, <1>15, <1>18
  <2> QED
      BY <2>1, <2>2, <1>10, <1>15, <1>18
<1> QED
    BY <1>17, <1>18

(* planvocab-check passes exactly the inputs that earned it.                 *)
THEOREM CheckedVocabulary == CaseSpec => []CheckedVocabularyIsEarned
<1> DEFINE Inv == /\ matter.of = "check" => matter.input \in Checks
                  /\ CheckedVocabularyIsEarned
<1>1. CaseInit => Inv
  <2> SUFFICES ASSUME CaseInit PROVE Inv
      OBVIOUS
  <2>1. made.of = "nothing"
      BY DEF CaseInit, Nothing
  <2>2. ASSUME matter.of = "check" PROVE matter.input \in Checks
      BY <2>2 DEF CaseInit, AllCases, Case
  <2> QED
      BY <2>1, <2>2 DEF CheckedVocabularyIsEarned, Made
<1>2. Inv /\ [CaseStep]_<<matter, made>> => Inv'
  <2> SUFFICES ASSUME Inv, [CaseStep]_<<matter, made>> PROVE Inv'
      OBVIOUS
  <2>1. matter' = matter
      BY DEF CaseStep, ReadFile, MakeReport, InspectPlan, RunCheck
  <2>2. CASE UNCHANGED <<matter, made>>
      BY <2>2 DEF CheckedVocabularyIsEarned, Made
  <2>3. CASE ReadFile \/ MakeReport \/ InspectPlan
    <3>1. made'.of # "check"
        BY <2>3 DEF ReadFile, MakeReport, InspectPlan
    <3> QED
        BY <2>1, <3>1 DEF CheckedVocabularyIsEarned, Made
  <2>4. CASE RunCheck
    <3>1. matter.of = "check" /\ made' = [of |-> "check", status |-> Check(matter.input)]
        BY <2>4 DEF RunCheck
    <3>2. made'.status = "passed" <=> EarnedCheck(matter.input)
        BY <3>1, PassesIffEarned, ChecksAssumption
    <3> QED
        BY <2>1, <3>2 DEF CheckedVocabularyIsEarned, Made
  <2> QED
      BY <2>2, <2>3, <2>4 DEF CaseStep
<1> QED
    BY <1>1, <1>2, PTL DEF CaseSpec

-----------------------------------------------------------------------------
(* Counts                                                                   *)

(* No operator is classified as an umbrella family.                          *)
Umbrellas == {"explicit_sort", "blocking_operator"}

LEMMA FallbackIsConcrete == ASSUME NEW name PROVE Fallback(name) \notin Umbrellas
<1> DEFINE found == {i \in DOMAIN Phrases : name \in DOMAIN Mentions /\ Phrases[i][1] \in Mentions[name]}
           k == CHOOSE i \in found : \A j \in found : i <= j
<1>1. DOMAIN Phrases = 1..13
    BY DEF Phrases
<1>2. ASSUME NEW i \in 1..13 PROVE Phrases[i][2] \notin Umbrellas
  <2>1. /\ Phrases[1][2] = "hash_aggregate" /\ Phrases[2][2] = "stream_aggregate" /\ Phrases[3][2] = "push_broadcast_hash_join"
        /\ Phrases[4][2] = "hash_join" /\ Phrases[5][2] = "apply_join" /\ Phrases[6][2] = "merge_join"
        /\ Phrases[7][2] = "minor_sort" /\ Phrases[8][2] = "full_sort" /\ Phrases[9][2] = "scan"
        /\ Phrases[10][2] = "join" /\ Phrases[11][2] = "aggregate" /\ Phrases[12][2] = "hash_aggregate"
        /\ Phrases[13][2] = "stream_aggregate"
      BY DEF Phrases
  <2>2. \/ i = 1 \/ i = 2 \/ i = 3 \/ i = 4 \/ i = 5 \/ i = 6 \/ i = 7 \/ i = 8 \/ i = 9 \/ i = 10 \/ i = 11 \/ i = 12 \/ i = 13
      OBVIOUS
  <2> QED
      BY <2>1, <2>2 DEF Umbrellas
<1>3. CASE found = {}
    BY <1>3 DEF Fallback, Umbrellas
<1>4. CASE found # {}
  <2>1. found \subseteq Nat
      BY <1>1
  <2> HIDE DEF found
  <2>2. k \in found
      BY <1>4, <2>1, LeastElement
  <2> HIDE DEF k
  <2>3. k \in 1..13
      BY <1>1, <2>2 DEF found
  <2> QED
      BY <1>2, <1>4, <2>3 DEF Fallback, found, k
<1> QED
    BY <1>3, <1>4

LEMMA FamilyIsConcrete == ASSUME NEW plan, NEW i PROVE Family(plan, i) \notin Umbrellas
<1>1. OperatorFamily(plan[i]) \notin Umbrellas
  <2>1. CASE OperatorFamily(plan[i]) = Fallback(plan[i].name)
      BY <2>1, FallbackIsConcrete
  <2>2. CASE OperatorFamily(plan[i]) # Fallback(plan[i].name)
      BY <2>2 DEF OperatorFamily, Umbrellas
  <2> QED
      BY <2>1, <2>2
<1> QED
    BY <1>1 DEF Family, Umbrellas

(* What operators of no umbrella family are counted as.                      *)
Concrete(ops)   == IsFiniteSet(DOMAIN ops) /\ \A i \in DOMAIN ops : ops[i].family \notin Umbrellas
Of(ops, F)      == {i \in DOMAIN ops : ops[i].family \in F}
Matching(ops, f) == {i \in DOMAIN ops : MatchesFamily(ops[i], f)}

LEMMA OneMoreFamily ==
  ASSUME NEW ops, Concrete(ops), NEW F, NEW f, f \notin F
  PROVE  Cardinality(Of(ops, F \cup {f})) = Cardinality(Of(ops, F)) + Cardinality(Of(ops, {f}))
<1>1. IsFiniteSet(Of(ops, F)) /\ IsFiniteSet(Of(ops, {f}))
    BY FS_Subset DEF Concrete, Of
<1>2. Of(ops, F \cup {f}) = Of(ops, F) \cup Of(ops, {f}) /\ Of(ops, F) \cap Of(ops, {f}) = {}
    BY DEF Of
<1>3. Cardinality(Of(ops, F)) \in Nat /\ Cardinality(Of(ops, {f})) \in Nat
    BY <1>1, FS_CardinalityType
<1>4. Cardinality({}) = 0
    BY FS_EmptySet
<1> DEFINE S == Of(ops, F)
           T == Of(ops, {f})
<1>5. Cardinality(S \cup T) = Cardinality(S) + Cardinality(T) - Cardinality(S \cap T)
    BY <1>1, FS_Union
<1>6. Cardinality(S \cap T) = 0
    BY <1>2, <1>4
<1>7. Of(ops, F \cup {f}) = S \cup T /\ Cardinality(S) \in Nat /\ Cardinality(T) \in Nat
    BY <1>2, <1>3
<1> HIDE DEF S, T
<1>8. Cardinality(S \cup T) = Cardinality(S) + Cardinality(T)
    BY <1>5, <1>6, <1>7
<1> QED
    BY <1>7, <1>8 DEF S, T

LEMMA CountsMatch ==
  ASSUME NEW ops, Concrete(ops)
  PROVE  /\ OperatorFamilyCounts(ops) = [f \in KnownOperatorFamilies |-> Cardinality(Matching(ops, f))]
         /\ \A f : IsFiniteSet(Matching(ops, f)) /\ Cardinality(Matching(ops, f)) \in Nat
         /\ \A f \in ConcreteOperatorFamilies : Matching(ops, f) = Of(ops, {f})
<1>1. ASSUME NEW f \in KnownOperatorFamilies
      PROVE  {i \in DOMAIN ops : ops[i].family = f \/ f \in DerivedOperatorFamilies(ops[i])} = Matching(ops, f)
  <2>1. ASSUME NEW i \in DOMAIN ops
        PROVE  ops[i].family = f \/ f \in DerivedOperatorFamilies(ops[i]) <=> MatchesFamily(ops[i], f)
    <3>1. ops[i].family \notin Umbrellas
        BY DEF Concrete
    <3> DEFINE op == ops[i]
    <3>2. f \in DerivedOperatorFamilies(op) <=>
            \/ f = "explicit_sort" /\ op.family \in {"full_sort", "minor_sort"}
            \/ f = "blocking_operator" /\ BlockingOperator(op)
      <4>1. op.family # "blocking_operator"
          BY <3>1 DEF Umbrellas
      <4> HIDE DEF op
      <4> QED
          BY <4>1 DEF DerivedOperatorFamilies
    <3> HIDE DEF op
    <3>3. op.family = f \/ f \in DerivedOperatorFamilies(op) <=> MatchesFamily(op, f)
        BY <3>2 DEF MatchesFamily
    <3> QED
        BY <3>3 DEF op
  <2> QED
      BY <2>1 DEF Matching
<1>2. OperatorFamilyCounts(ops) = [f \in KnownOperatorFamilies |-> Cardinality(Matching(ops, f))]
    BY <1>1 DEF OperatorFamilyCounts
<1>3. ASSUME NEW f PROVE IsFiniteSet(Matching(ops, f)) /\ Cardinality(Matching(ops, f)) \in Nat
  <2>1. IsFiniteSet(Matching(ops, f))
      BY FS_Subset DEF Concrete, Matching
  <2> QED
      BY <2>1, FS_CardinalityType
<1>4. ASSUME NEW f \in ConcreteOperatorFamilies PROVE Matching(ops, f) = Of(ops, {f})
  <2>1. f # "explicit_sort" /\ f # "blocking_operator"
      BY DEF ConcreteOperatorFamilies
  <2>2. ASSUME NEW i \in DOMAIN ops PROVE MatchesFamily(ops[i], f) <=> ops[i].family = f
      BY <2>1 DEF MatchesFamily
  <2> QED
      BY <2>2 DEF Matching, Of
<1> QED
    BY <1>2, <1>3, <1>4

(* Derived from the counts alone, the umbrellas are no more than they are     *)
(* when they are counted with the operators at hand.                         *)
LEMMA UmbrellasAgree ==
  ASSUME NEW ops, Concrete(ops)
  PROVE  OperatorFamilyCountsOrEmpty(OperatorFamilyCounts(ops)) = OperatorFamilyCounts(ops)
<1> DEFINE counts == OperatorFamilyCounts(ops)
           n(f) == Cardinality(Of(ops, {f}))
<1>1. /\ {"aggregate", "bloom_filter_build", "full_sort", "minor_sort", "hash_aggregate", "hash_join", "join",
          "push_broadcast_hash_join", "spool_build"} \subseteq ConcreteOperatorFamilies
      /\ ConcreteOperatorFamilies \subseteq KnownOperatorFamilies /\ Umbrellas \subseteq KnownOperatorFamilies
    BY DEF ConcreteOperatorFamilies, KnownOperatorFamilies, Umbrellas
<1>2. counts = [f \in KnownOperatorFamilies |-> Cardinality(Matching(ops, f))]
    BY CountsMatch
<1>3. ASSUME NEW f \in ConcreteOperatorFamilies PROVE counts[f] = n(f) /\ n(f) \in Nat
    BY <1>1, <1>2, <1>3, CountsMatch
<1> HIDE DEF counts
<1>4. counts["explicit_sort"] = counts["full_sort"] + counts["minor_sort"]
  <2>1. Matching(ops, "explicit_sort") = Of(ops, {"full_sort"} \cup {"minor_sort"})
    <3>1. ASSUME NEW i \in DOMAIN ops
          PROVE  MatchesFamily(ops[i], "explicit_sort") <=> ops[i].family \in {"full_sort", "minor_sort"}
        BY DEF Concrete, Umbrellas, MatchesFamily
    <3> QED
        BY <3>1 DEF Matching, Of
  <2>2. Cardinality(Of(ops, {"full_sort"} \cup {"minor_sort"})) = n("full_sort") + n("minor_sort")
      BY OneMoreFamily
  <2> QED
      BY <1>1, <1>2, <1>3, <2>1, <2>2 DEF Umbrellas
<1>5. counts["blocking_operator"] \in Nat /\ ByFamily(counts) \in Nat /\ counts["blocking_operator"] >= ByFamily(counts)
  <2> DEFINE F1 == {"aggregate"}
             F2 == F1 \cup {"bloom_filter_build"}
             F3 == F2 \cup {"full_sort"}
             F4 == F3 \cup {"hash_aggregate"}
             F5 == F4 \cup {"hash_join"}
             F6 == F5 \cup {"join"}
             F7 == F6 \cup {"push_broadcast_hash_join"}
             F8 == F7 \cup {"spool_build"}
             m(F) == Cardinality(Of(ops, F))
  <2>1. /\ m(F2) = m(F1) + n("bloom_filter_build") /\ m(F3) = m(F2) + n("full_sort")
        /\ m(F4) = m(F3) + n("hash_aggregate") /\ m(F5) = m(F4) + n("hash_join")
    <3>1. "bloom_filter_build" \notin F1 /\ "full_sort" \notin F2 /\ "hash_aggregate" \notin F3 /\ "hash_join" \notin F4
        OBVIOUS
    <3> HIDE DEF F1
    <3> QED
        BY <3>1, OneMoreFamily
  <2>2. /\ m(F6) = m(F5) + n("join") /\ m(F7) = m(F6) + n("push_broadcast_hash_join") /\ m(F8) = m(F7) + n("spool_build")
    <3>1. "join" \notin F5 /\ "push_broadcast_hash_join" \notin F6 /\ "spool_build" \notin F7
        OBVIOUS
    <3> HIDE DEF F5
    <3> QED
        BY <3>1, OneMoreFamily
  <2>3. Of(ops, F8) \subseteq Matching(ops, "blocking_operator")
    <3>1. F8 \subseteq {"aggregate", "bloom_filter_build", "blocking_operator", "full_sort", "hash_aggregate",
                        "hash_join", "join", "push_broadcast_hash_join", "spool_build"}
        OBVIOUS
    <3> HIDE DEF F8
    <3>2. ASSUME NEW i \in DOMAIN ops, ops[i].family \in F8 PROVE MatchesFamily(ops[i], "blocking_operator")
        BY <3>1, <3>2 DEF MatchesFamily, BlockingOperator
    <3> QED
        BY <3>2 DEF Of, Matching
  <2> HIDE DEF F2, F3, F4, F5, F6, F7, F8
  <2>4. IsFiniteSet(Matching(ops, "blocking_operator")) /\ Cardinality(Matching(ops, "blocking_operator")) \in Nat
      BY CountsMatch
  <2>5. m(F8) <= Cardinality(Matching(ops, "blocking_operator"))
      BY <2>3, <2>4, FS_Subset
  <2>6. counts["blocking_operator"] = Cardinality(Matching(ops, "blocking_operator"))
      BY <1>1, <1>2 DEF Umbrellas
  <2>7. m(F1) = n("aggregate")
      OBVIOUS
  <2> HIDE DEF m
  <2>8. /\ counts["aggregate"] = n("aggregate") /\ counts["bloom_filter_build"] = n("bloom_filter_build")
        /\ counts["full_sort"] = n("full_sort") /\ counts["hash_aggregate"] = n("hash_aggregate")
        /\ counts["hash_join"] = n("hash_join") /\ counts["join"] = n("join")
        /\ counts["push_broadcast_hash_join"] = n("push_broadcast_hash_join") /\ counts["spool_build"] = n("spool_build")
        /\ n("aggregate") \in Nat /\ n("bloom_filter_build") \in Nat /\ n("full_sort") \in Nat /\ n("hash_aggregate") \in Nat
        /\ n("hash_join") \in Nat /\ n("join") \in Nat /\ n("push_broadcast_hash_join") \in Nat /\ n("spool_build") \in Nat
      BY <1>1, <1>3
  <2> HIDE DEF n
  <2>9. ByFamily(counts) = m(F8) /\ m(F8) \in Nat
      BY <2>1, <2>2, <2>7, <2>8 DEF ByFamily
  <2> QED
      BY <2>4, <2>5, <2>6, <2>9
<1>6. AddDerived(counts) = counts
  <2> DEFINE b == IF counts["blocking_operator"] > ByFamily(counts) THEN counts["blocking_operator"] ELSE ByFamily(counts)
             e == counts["full_sort"] + counts["minor_sort"]
  <2>1. b = counts["blocking_operator"] /\ e = counts["explicit_sort"]
      BY <1>4, <1>5
  <2>2. AddDerived(counts) = [counts EXCEPT !["explicit_sort"] = e, !["blocking_operator"] = b]
      BY DEF AddDerived
  <2> HIDE DEF b, e
  <2>3. [counts EXCEPT !["explicit_sort"] = e, !["blocking_operator"] = b] = counts
      BY <1>2, <2>1
  <2> QED
      BY <2>2, <2>3
<1>7. [f \in KnownOperatorFamilies |-> IF f \in DOMAIN counts THEN counts[f] ELSE 0] = counts
    BY <1>2
<1> QED
    BY <1>6, <1>7 DEF OperatorFamilyCountsOrEmpty, counts

-----------------------------------------------------------------------------
(* Entries and rules                                                        *)

(* The entry of a target, and the rules a contract may have.                 *)
Sound(q) == /\ q.status \in {"ok", "error"} /\ Concrete(q.operators)
            /\ q.warnings = ClassificationWarnings(q.operators)
Ruling(rule) == (\E f : \E max \in Nat : rule = Forbid(f, max)) \/ \E name \in RuleNames : rule = Rule(name)

LEMMA EntryIsSound ==
  ASSUME NEW target, NEW scope, NEW params, NEW plan, NEW pinned, IsFiniteSet(DOMAIN plan)
  PROVE  LET q == Entry(target, scope, params, plan, pinned)
         IN  Sound(q) /\ q.target = target
<1> DEFINE q == Entry(target, scope, params, plan, pinned)
           fails == ParamsFail(ScopedParams(params, scope))
<1>1. /\ q.target = target
      /\ IF fails THEN q.status = "error" /\ q.operators = <<>> /\ q.warnings = {}
         ELSE q.status = "ok" /\ q.operators = Normalize(plan) /\ q.warnings = ClassificationWarnings(q.operators)
  <2>1. CASE fails
      BY <2>1 DEF Entry
  <2>2. CASE ~fails
    <3> DEFINE base == [target |-> target, name |-> "A", scope |-> scope, status |-> "error", operators |-> <<>>, edges |-> {},
                        warnings |-> {}, digested |-> TRUE, notPinned |-> ~pinned]
               ops == Normalize(plan)
    <3>1. q = [base EXCEPT !.status = "ok", !.operators = ops, !.edges = Edges(plan), !.warnings = ClassificationWarnings(ops)]
        BY <2>2 DEF Entry
    <3> HIDE DEF q, ops
    <3>2. q.target = target /\ q.status = "ok" /\ q.operators = ops /\ q.warnings = ClassificationWarnings(ops)
        BY <3>1
    <3> QED
        BY <2>2, <3>2 DEF ops
  <2> QED
      BY <2>1, <2>2
<1> HIDE DEF q, fails
<1>2. Concrete(<<>>) /\ ClassificationWarnings(<<>>) = {}
  <2>1. DOMAIN <<>> = {}
      OBVIOUS
  <2>2. IsFiniteSet({})
      BY FS_EmptySet
  <2>3. Concrete(<<>>)
      BY <2>1, <2>2 DEF Concrete
  <2>4. ClassificationWarnings(<<>>) = {}
      BY <2>1 DEF ClassificationWarnings
  <2> QED
      BY <2>3, <2>4
<1>3. Concrete(Normalize(plan))
  <2>1. DOMAIN Normalize(plan) = DOMAIN plan /\ \A i \in DOMAIN plan : Normalize(plan)[i].family = Family(plan, i)
      BY DEF Normalize
  <2> QED
      BY <2>1, FamilyIsConcrete DEF Concrete
<1>4. Sound(q)
    BY <1>1, <1>2, <1>3 DEF Sound
<1> QED
    BY <1>1, <1>4 DEF q

LEMMA EntriesAreSound ==
  ASSUME NEW input \in ReportInputs
  PROVE  LET queries == Entries(input, input.plan)
         IN  /\ queries \in Seq({queries[1], queries[2]}) /\ Len(queries) = 2 /\ DOMAIN queries = 1..2
             /\ queries[1].target = "query/A" /\ queries[2].target = "query/B#inner"
             /\ \A k \in 1..2 : Sound(queries[k])
<1> DEFINE pinned == OptimizerEnvironmentPinned(ResolvedOptimizer(input.optimizer))
           first  == Entry("query/A", "query", <<>>, input.plan, pinned)
           second == Entry("query/B#inner", "inner", input.params, input.inner, pinned)
<1>1. Entries(input, input.plan) = <<first, second>>
    BY DEF Entries
<1>2. Sound(first) /\ first.target = "query/A" /\ Sound(second) /\ second.target = "query/B#inner"
    BY ReportsAssumption, EntryIsSound
<1> HIDE DEF first, second
<1>3. \A k \in 1..2 : k = 1 \/ k = 2
    OBVIOUS
<1> QED
    BY <1>1, <1>2, <1>3

(* What is said of a rule is what the rule says.                             *)
LEMMA UnclearOperators ==
  ASSUME NEW q, Sound(q), NEW f, ClassificationUnknown(q, f)
  PROVE  Unclassified(q, f) # {}
<1> DEFINE ops == q.operators
<1>1. ASSUME "aggregate_iterator_type_unknown" \in q.warnings
      PROVE  \E i \in DOMAIN ops : ops[i].name = "aggregate" /\ ops[i].family = "aggregate"
    BY <1>1 DEF Sound, ClassificationWarnings
<1>2. ASSUME "join_family_unknown" \in q.warnings PROVE \E i \in DOMAIN ops : ops[i].family = "join"
    BY <1>2 DEF Sound, ClassificationWarnings
<1>3. CASE f \in AggregateFamilies
  <2>1. "aggregate_iterator_type_unknown" \in q.warnings
      BY <1>3 DEF ClassificationUnknown, AggregateFamilies, HashJoin, StandaloneApply, DistributedApply
  <2> QED
      BY <1>1, <1>3, <2>1 DEF Unclassified
<1>4. CASE f \notin AggregateFamilies
  <2>1. "join_family_unknown" \in q.warnings
      BY <1>4 DEF ClassificationUnknown, AggregateFamilies
  <2> QED
      BY <1>2, <1>4, <2>1 DEF Unclassified
<1> QED
    BY <1>3, <1>4

LEMMA MatchedIsFinite ==
  ASSUME NEW q, Sound(q), NEW rule, Ruling(rule), rule.rule # "require_timestamp_condition"
  PROVE  /\ Matched(q, rule) \subseteq DOMAIN q.operators
         /\ IsFiniteSet(Matched(q, rule)) /\ Cardinality(Matched(q, rule)) \in Nat
         /\ Cardinality(Matched(q, rule)) > 0 <=> Matched(q, rule) # {}
<1>1. Matched(q, rule) \subseteq DOMAIN q.operators
  <2>1. CASE \E f : \E max \in Nat : rule = Forbid(f, max)
    <3>1. PICK f : \E max \in Nat : rule = Forbid(f, max)
        BY <2>1
    <3>2. rule.rule = "operator_family"
        BY <3>1 DEF Forbid
    <3> QED
        BY <3>2 DEF Matched
  <2>2. CASE \E name \in RuleNames : rule = Rule(name)
    <3>4. PICK name \in RuleNames : rule = Rule(name)
        BY <2>2
    <3>1. rule.rule \in RuleNames
        BY <3>4 DEF Rule
    <3>2. CASE rule.rule = "no_full_scan" \/ rule.rule = "no_full_scan_without_timestamp_condition"
        BY <3>2 DEF Matched, FullScans
    <3>3. CASE rule.rule = "no_blocking_operator_under_limit"
        BY <3>3 DEF Matched, BlockingUnderLimit
    <3> QED
        BY <3>1, <3>2, <3>3 DEF RuleNames
  <2> QED
      BY <2>1, <2>2 DEF Ruling
<1>2. IsFiniteSet(Matched(q, rule))
    BY <1>1, FS_Subset DEF Sound, Concrete
<1> QED
    BY <1>1, <1>2, FS_CardinalityType, FS_EmptySet

LEMMA RulingFields ==
  ASSUME NEW rule, Ruling(rule)
  PROVE  /\ rule.rule = "operator_family" \/ rule.rule \in RuleNames
         /\ rule.max \in Nat /\ (rule.rule # "operator_family" => rule.max = 0)
<1>1. CASE \E f : \E max \in Nat : rule = Forbid(f, max)
  <2>1. PICK f : \E max \in Nat : rule = Forbid(f, max)
      BY <1>1
  <2>2. PICK max \in Nat : rule = Forbid(f, max)
      BY <2>1
  <2> QED
      BY <2>2 DEF Forbid
<1>2. CASE \E name \in RuleNames : rule = Rule(name)
  <2>1. PICK name \in RuleNames : rule = Rule(name)
      BY <1>2
  <2>2. rule.rule = name /\ rule.max = 0
      BY <2>1 DEF Rule
  <2>3. name # "operator_family"
      BY DEF RuleNames
  <2> QED
      BY <2>2, <2>3
<1> QED
    BY <1>1, <1>2 DEF Ruling

Shown(q, r) ==
  LET shown == UNION r.matched_operator_indexes
  IN  /\ shown # {} /\ shown \subseteq DOMAIN q.operators
      /\ r.failure_kind = "violation" => r.observed_count > r.max_count /\ Cardinality(shown) = r.observed_count
      /\ r.failure_kind = "classification_unknown" => "contract" \in r.remediation

LEMMA RuleIsReported ==
  ASSUME NEW q, Sound(q), NEW p, Ruling(p.rule)
  PROVE  LET r == EvaluatePredicate(q, p)
         IN  /\ r.status \in {"pass", "fail"} /\ r.rule # "cel"
             /\ r.status = "fail" <=> ~RuleHolds(q, p.rule)
             /\ r.status = "fail" => r.failure_kind # ""
             /\ r.status = "fail" /\ r.rule # "require_timestamp_condition" => Shown(q, r)
<1> DEFINE rule == p.rule
           r == EvaluatePredicate(q, p)
           matched == Matched(q, rule)
           violated == IF rule.rule = "require_timestamp_condition" THEN matched = {} ELSE Cardinality(matched) > rule.max
           unknown == Unknown(q, rule)
           indexes == MatchedOperatorIndexes(q, rule)
<1>1. /\ r.status = (IF violated \/ unknown THEN "fail" ELSE "pass") /\ r.rule = RuleName(rule)
      /\ r.failure_kind = (IF unknown THEN "classification_unknown" ELSE IF violated THEN "violation" ELSE "")
      /\ r.observed_count = Cardinality(matched) /\ r.max_count = rule.max /\ r.matched_operator_indexes = {indexes}
      /\ unknown => "contract" \in r.remediation
    BY DEF EvaluatePredicate
<1> HIDE DEF r
<1>2. /\ rule.rule = "operator_family" \/ rule.rule \in RuleNames
      /\ rule.max \in Nat /\ (rule.rule # "operator_family" => rule.max = 0)
    BY RulingFields
<1> HIDE DEF rule
<1>3. RuleName(rule) # "cel" /\ (RuleName(rule) = "require_timestamp_condition" <=> rule.rule = "require_timestamp_condition")
    BY <1>2 DEF RuleName, RuleNames
<1>4. unknown <=> rule.rule = "operator_family" /\ ClassificationUnknown(q, rule.family)
    BY DEF Unknown
<1>5. CASE rule.rule = "require_timestamp_condition"
  <2>1. RuleHolds(q, rule) <=> matched # {}
      BY <1>5 DEF RuleHolds
  <2> HIDE DEF matched
  <2>2. ~unknown /\ (violated <=> matched = {})
      BY <1>4, <1>5
  <2> HIDE DEF unknown, violated
  <2> QED
      BY <1>1, <1>3, <1>5, <2>1, <2>2 DEF rule, r
<1>6. CASE rule.rule # "require_timestamp_condition"
  <2>1. /\ matched \subseteq DOMAIN q.operators /\ Cardinality(matched) \in Nat
        /\ Cardinality(matched) > 0 <=> matched # {}
    <3>1. Ruling(rule)
        BY DEF rule
    <3> QED
        BY <1>6, <3>1, MatchedIsFinite
  <2>2. violated <=> Cardinality(matched) > rule.max
      BY <1>6
  <2>3. RuleHolds(q, rule) <=> ~violated /\ ~unknown
    <3>1. CASE rule.rule = "operator_family"
      <4>1. RuleHolds(q, rule) <=> Cardinality(matched) <= rule.max /\ ~ClassificationUnknown(q, rule.family)
          BY <3>1 DEF RuleHolds
      <4> HIDE DEF matched, violated, unknown
      <4> QED
          BY <1>2, <1>4, <2>1, <2>2, <3>1, <4>1
    <3>2. CASE rule.rule # "operator_family"
      <4>1. RuleHolds(q, rule) <=> matched = {}
          BY <1>6, <3>2 DEF RuleHolds
      <4> HIDE DEF matched, violated, unknown
      <4> QED
          BY <1>2, <1>4, <2>1, <2>2, <3>2, <4>1
    <3> QED
        BY <3>1, <3>2
  <2>4. ASSUME violated \/ unknown PROVE Shown(q, r)
    <3>1. UNION r.matched_operator_indexes = indexes
        BY <1>1
    <3>2. CASE unknown
      <4>1. Unclassified(q, rule.family) # {}
          BY <1>4, <3>2, UnclearOperators
      <4>2. indexes = Unclassified(q, rule.family)
          BY <1>4, <3>2, <4>1 DEF MatchedOperatorIndexes
      <4>3. Unclassified(q, rule.family) \subseteq DOMAIN q.operators
          BY DEF Unclassified
      <4> HIDE DEF indexes, matched, violated, unknown
      <4> QED
          BY <1>1, <3>1, <3>2, <4>1, <4>2, <4>3 DEF Shown
    <3>3. CASE ~unknown
      <4>1. indexes = matched
          BY <1>4, <3>3 DEF MatchedOperatorIndexes
      <4> HIDE DEF indexes, matched, unknown
      <4>2. Cardinality(matched) > rule.max
          BY <2>2, <2>4, <3>3
      <4>3. matched # {}
          BY <1>2, <2>1, <4>2
      <4>4. r.failure_kind # "classification_unknown"
          BY <1>1, <3>3
      <4> HIDE DEF violated
      <4> QED
          BY <1>1, <2>1, <3>1, <4>1, <4>2, <4>3, <4>4 DEF Shown
    <3> QED
        BY <3>2, <3>3
  <2> HIDE DEF matched, violated, unknown, indexes
  <2> QED
      BY <1>1, <1>3, <2>3, <2>4 DEF r, rule
<1> QED
    BY <1>5, <1>6

-----------------------------------------------------------------------------
(* Contracts                                                                *)

LEMMA PredefinedRules ==
  ASSUME NEW name \in PredefinedNames, NEW rule \in Predefined(name)
  PROVE  Ruling(rule)
<1>1. CASE name \in RuleNames
  <2>1. rule = Rule(name)
      BY <1>1 DEF Predefined, RuleNames
  <2> QED
      BY <1>1, <2>1 DEF Ruling
<1>2. CASE name \in ForbidNames
  <2> DEFINE none(families) == {Forbid(f, 0) : f \in families}
  <2>1. \E families : rule \in none(families)
    <3> HIDE DEF none
    <3>1. \E families : Predefined(name) = none(families)
        BY <1>2, Zenon DEF Predefined, ForbidNames, none
    <3> QED
        BY <3>1
  <2>2. PICK families : rule \in none(families)
      BY <2>1
  <2>3. \E f : rule = Forbid(f, 0)
      BY <2>2
  <2> QED
      BY <2>3 DEF Ruling
<1> QED
    BY <1>1, <1>2 DEF PredefinedNames

Used(contract, k) ==
  {[at |-> k, rule |-> rule, source |-> "use", predefined |-> Lower(Trim(contract.use[k]))] :
     rule \in Predefined(Lower(Trim(contract.use[k])))}
AllUsed(contract) == UNION {Used(contract, k) : k \in DOMAIN contract.use}
Forbidden(contract) ==
  {[at |-> k, rule |-> Forbid(Trim(contract.forbid[k].family), contract.forbid[k].max), source |-> "forbid",
    predefined |-> ""] : k \in DOMAIN contract.forbid}

LEMMA ContractPredicates ==
  ASSUME NEW input \in ReportInputs
  PROVE  LET contract == input.contract
         IN  /\ \A p \in ResolvedPredicates(contract) : Ruling(p.rule)
             /\ ~contract.cel.blank => ResolvedPredicates(contract) = {}
             /\ Trim(contract.target) \in TargetIDs
<1> DEFINE contract == input.contract
<1>1. /\ ValidPredicates(contract) /\ Trim(contract.target) \in TargetIDs
      /\ \A p \in ToSet(contract.forbid) : p.max \in Int
    BY ReportsAssumption DEF ValidContract
<1>7. \A k \in DOMAIN contract.forbid : contract.forbid[k].max \in Nat
  <2> HIDE DEF contract
  <2>1. \A p \in ToSet(contract.forbid) : p.max >= 0
      BY <1>1, Zenon DEF ValidPredicates
  <2>2. \A p \in ToSet(contract.forbid) : p.max \in Nat
      BY <1>1, <2>1
  <2> QED
      BY <2>2 DEF ToSet
<1> HIDE DEF contract
<1>2. ResolvedPredicates(contract) = AllUsed(contract) \cup Forbidden(contract)
    BY DEF ResolvedPredicates, AllUsed, Used, Forbidden
<1>3. ASSUME NEW k \in DOMAIN contract.use, NEW p \in Used(contract, k) PROVE Ruling(p.rule)
  <2>1. Lower(Trim(contract.use[k])) \in PredefinedNames
      BY <1>1 DEF ValidPredicates, ToSet
  <2>2. PICK rule \in Predefined(Lower(Trim(contract.use[k]))) :
          p = [at |-> k, rule |-> rule, source |-> "use", predefined |-> Lower(Trim(contract.use[k]))]
      BY DEF Used
  <2>3. Ruling(rule)
      BY <2>1, PredefinedRules
  <2>4. p.rule = rule
      BY <2>2
  <2> QED
      BY <2>3, <2>4
<1>4. ASSUME NEW p \in Forbidden(contract) PROVE Ruling(p.rule)
  <2>1. PICK k \in DOMAIN contract.forbid :
          p = [at |-> k, rule |-> Forbid(Trim(contract.forbid[k].family), contract.forbid[k].max), source |-> "forbid",
               predefined |-> ""]
      BY DEF Forbidden
  <2>3. contract.forbid[k].max \in Nat
      BY <1>7
  <2>4. p.rule = Forbid(Trim(contract.forbid[k].family), contract.forbid[k].max)
      BY <2>1
  <2> QED
      BY <2>3, <2>4 DEF Ruling
<1>5. ASSUME ~contract.cel.blank PROVE ResolvedPredicates(contract) = {}
  <2> DEFINE M == Modes(contract)
  <2>1. M \subseteq {"use", "forbid", "cel"} /\ "cel" \in M
        /\ ("use" \in M <=> contract.use # <<>>) /\ ("forbid" \in M <=> contract.forbid # <<>>)
      BY <1>5 DEF Modes
  <2>2. IsFiniteSet({"use", "forbid", "cel"})
    <3>1. IsFiniteSet({"use"})
        BY FS_Singleton
    <3>2. IsFiniteSet({"use"} \cup {"forbid"})
        BY <3>1, FS_AddElement
    <3>3. IsFiniteSet({"use"} \cup {"forbid"} \cup {"cel"})
        BY <3>2, FS_AddElement
    <3>4. {"use"} \cup {"forbid"} \cup {"cel"} = {"use", "forbid", "cel"}
        OBVIOUS
    <3> QED
        BY <3>3, <3>4
  <2>3. IsFiniteSet(M) /\ Cardinality(M) = 1
      BY <1>1, <2>1, <2>2, FS_Subset DEF ValidPredicates
  <2> HIDE DEF M
  <2>4. PICK x : M = {x}
      BY <2>3, FS_Singleton
  <2>5. contract.use = <<>> /\ contract.forbid = <<>>
      BY <2>1, <2>4
  <2>6. DOMAIN contract.use = {} /\ DOMAIN contract.forbid = {}
      BY <2>5
  <2>7. AllUsed(contract) = {} /\ Forbidden(contract) = {}
      BY <2>6 DEF AllUsed, Forbidden
  <2> QED
      BY <1>2, <2>7
<1>6. ASSUME NEW p \in ResolvedPredicates(contract) PROVE Ruling(p.rule)
  <2>1. CASE p \in Forbidden(contract)
      BY <1>4, <2>1
  <2>2. CASE p \notin Forbidden(contract)
    <3>1. \E S \in {Used(contract, k) : k \in DOMAIN contract.use} : p \in S
      <4>1. p \in AllUsed(contract)
          BY <1>2, <2>2
      <4> QED
          BY <4>1, Zenon DEF AllUsed
    <3>2. PICK k \in DOMAIN contract.use : p \in Used(contract, k)
        BY <3>1, Zenon
    <3> QED
        BY <1>3, <3>2
  <2> QED
      BY <2>1, <2>2
<1> QED
    BY <1>1, <1>5, <1>6 DEF contract

(* What is made of a contract: on no target, and on the only one.            *)
Results(query, raw, contract) ==
  {EvaluatePredicate(query, p) : p \in ResolvedPredicates(contract)} \cup
  (IF contract.cel.blank THEN {} ELSE {CELResult(EvaluateCEL(query, raw, contract.cel.asks))})
Found(queries, target) == {i \in DOMAIN queries : queries[i].target = target}

EvaluationOf(query, results, contract) ==
  LET base  == [name |-> contract.name, target_id |-> Trim(contract.target), query |-> "", scope |-> "", status |-> "pass",
                reason |-> "", error |-> "", stability |-> StabilityFor(contract), results |-> {}]
      entry == [base EXCEPT !.query = query.name, !.scope = query.scope]
  IN  IF query.status # "ok"
      THEN [[entry EXCEPT !.status = "not_evaluated", !.reason = "target_error"] EXCEPT !.error = "unavailable"]
      ELSE [entry EXCEPT !.results = results, !.status = IF \E r \in results : r.status = "fail" THEN "fail" ELSE "pass"]

LEMMA NotFound ==
  ASSUME NEW queries, NEW raws, NEW contract, Found(queries, Trim(contract.target)) = {}
  PROVE  LET e == EvaluateContract(queries, raws, contract)
         IN  /\ e.status = "not_evaluated" /\ e.reason = "target_not_found" /\ e.results = {}
             /\ e = EvaluateContract(queries, <<>>, contract)
BY DEF Found, EvaluateContract

LEMMA TheOnlyOne ==
  ASSUME NEW at \in Nat, NEW found, found = {at}
  PROVE  (CHOOSE i \in found : \A j \in found : i <= j) = at
<1>1. \A i \in found : \A j \in found : i <= j
    OBVIOUS
<1>2. (CHOOSE i \in found : \A j \in found : i <= j) \in found
    BY <1>1
<1> QED
    BY <1>2

LEMMA FoundAt ==
  ASSUME NEW queries, NEW raws, NEW contract, NEW at \in Nat, Found(queries, Trim(contract.target)) = {at}
  PROVE  EvaluateContract(queries, raws, contract) = EvaluationOf(queries[at], Results(queries[at], raws[at], contract), contract)
<1> DEFINE found == {i \in DOMAIN queries : queries[i].target = Trim(contract.target)}
           least == CHOOSE i \in found : \A j \in found : i <= j
<1>1. found = {at}
    BY DEF Found
<1>2. least = at /\ found # {}
  <2> HIDE DEF found
  <2> QED
      BY <1>1, TheOnlyOne
<1>3. EvaluateContract(queries, raws, contract) =
        EvaluationOf(queries[least], Results(queries[least], raws[least], contract), contract)
  <2> HIDE DEF found
  <2>1. EvaluateContract(queries, raws, contract) =
          IF found = {} THEN [[name |-> contract.name, target_id |-> Trim(contract.target), query |-> "", scope |-> "",
                               status |-> "pass", reason |-> "", error |-> "", stability |-> StabilityFor(contract),
                               results |-> {}] EXCEPT !.status = "not_evaluated", !.reason = "target_not_found"]
          ELSE EvaluationOf(queries[least], Results(queries[least], raws[least], contract), contract)
      BY DEF EvaluateContract, EvaluationOf, Results, found
  <2> QED
      BY <1>2, <2>1
<1> HIDE DEF found, least
<1> QED
    BY <1>2, <1>3

LEMMA FailsAt ==
  ASSUME NEW queries, NEW raws, NEW contract, NEW at \in Nat, Found(queries, Trim(contract.target)) = {at}
  PROVE  CELFails(queries, raws, contract) <=>
           ~contract.cel.blank /\ queries[at].status = "ok" /\ EvaluateCEL(queries[at], raws[at], contract.cel.asks) = "error"
<1> DEFINE found == {i \in DOMAIN queries : queries[i].target = Trim(contract.target)}
           least == CHOOSE i \in found : \A j \in found : i <= j
<1>1. found = {at}
    BY DEF Found
<1>2. least = at /\ found # {}
  <2> HIDE DEF found
  <2> QED
      BY <1>1, TheOnlyOne
<1>3. CELFails(queries, raws, contract) <=>
        /\ found # {} /\ ~contract.cel.blank /\ queries[least].status = "ok"
        /\ EvaluateCEL(queries[least], raws[least], contract.cel.asks) = "error"
    BY DEF CELFails
<1> HIDE DEF found, least
<1> QED
    BY <1>2, <1>3

LEMMA EvaluationFields ==
  ASSUME NEW query, NEW results, NEW contract
  PROVE  LET e == EvaluationOf(query, results, contract)
         IN  /\ e.stability = StabilityFor(contract)
             /\ IF query.status # "ok"
                THEN e.status = "not_evaluated" /\ e.reason = "target_error" /\ e.results = {}
                ELSE /\ e.status = IF \E r \in results : r.status = "fail" THEN "fail" ELSE "pass"
                     /\ e.results = results
BY DEF EvaluationOf

LEMMA EvaluateAt ==
  ASSUME NEW queries, NEW asked, NEW at \in Nat, Found(queries, asked.target) = {at}
  PROVE  Evaluate(queries, asked) =
           IF queries[at].status # "ok" THEN "target_error"
           ELSE IF asked.cel # "none" THEN asked.cel
           ELSE IF \A r \in asked.rules : RuleHolds(queries[at], r) THEN "holds" ELSE "fails"
<1> DEFINE found == TargetQueries(queries, asked)
           least == CHOOSE i \in found : \A j \in found : i <= j
<1>1. found = {at}
    BY DEF Found, TargetQueries
<1>2. least = at /\ found # {}
  <2> HIDE DEF found
  <2> QED
      BY <1>1, TheOnlyOne
<1>3. Evaluate(queries, asked) =
        IF found = {} THEN "target_not_found"
        ELSE IF queries[least].status # "ok" THEN "target_error"
        ELSE IF asked.cel # "none" THEN asked.cel
        ELSE IF \A r \in asked.rules : RuleHolds(queries[least], r) THEN "holds" ELSE "fails"
    BY DEF Evaluate
<1> HIDE DEF found, least
<1> QED
    BY <1>2, <1>3

-----------------------------------------------------------------------------
(* Reports                                                                  *)

(* What a report is made of.                                                 *)
IsReport(input, m) ==
  LET queries    == Entries(input, input.plan)
      flags      == BackendIdentityFromFlags(input.version, input.digest)
      evaluation == EvaluateContract(queries, Raws(input, input.plan), input.contract)
      identity   == ReportIdentity(flags, input.attached, Pin)
  IN  /\ m.mode = "check" /\ m.queries = queries /\ m.evaluations = <<evaluation>> /\ m.identity = identity
      /\ m.environment = CheckWarnings(EnvironmentWarnings(ResolvedOptimizer(input.optimizer), identity, queries), <<evaluation>>)
      /\ ~FlagsRefused(input.digest) /\ ~CELFails(queries, Raws(input, input.plan), input.contract)
CaseInvariant ==
  /\ matter.of = "report" => matter.input \in ReportInputs
  /\ Made("report") => IsReport(matter.input, made)

LEMMA ReportsAreMade == CaseSpec => []CaseInvariant
<1>1. CaseInit => CaseInvariant
  <2> SUFFICES ASSUME CaseInit PROVE CaseInvariant
      OBVIOUS
  <2>1. made.of = "nothing"
      BY DEF CaseInit, Nothing
  <2>2. ASSUME matter.of = "report" PROVE matter.input \in ReportInputs
      BY <2>2 DEF CaseInit, AllCases, Case
  <2> QED
      BY <2>1, <2>2 DEF CaseInvariant, Made
<1>2. CaseInvariant /\ [CaseStep]_<<matter, made>> => CaseInvariant'
  <2> SUFFICES ASSUME CaseInvariant, [CaseStep]_<<matter, made>> PROVE CaseInvariant'
      OBVIOUS
  <2>1. matter' = matter
      BY DEF CaseStep, ReadFile, MakeReport, InspectPlan, RunCheck
  <2>2. CASE UNCHANGED <<matter, made>>
      BY <2>2 DEF CaseInvariant, Made
  <2>3. CASE ReadFile \/ InspectPlan \/ RunCheck
    <3>1. made'.of # "report"
        BY <2>3 DEF ReadFile, InspectPlan, RunCheck
    <3> QED
        BY <2>1, <3>1 DEF CaseInvariant, Made
  <2>4. CASE MakeReport
    <3> DEFINE input      == matter.input
               flags      == BackendIdentityFromFlags(input.version, input.digest)
               identity   == ReportIdentity(flags, input.attached, Pin)
               queries    == Entries(input, input.plan)
               evaluation == EvaluateContract(queries, Raws(input, input.plan), input.contract)
               environment == CheckWarnings(EnvironmentWarnings(ResolvedOptimizer(input.optimizer), identity, queries), <<evaluation>>)
               refused == \/ FlagsRefused(input.digest)
                          \/ ~input.attached /\ AssertionConflicts(flags, Pin)
                          \/ CELFails(queries, Raws(input, input.plan), input.contract)
    <3>1. made' = IF refused THEN [of |-> "refused"]
                  ELSE [of |-> "report", mode |-> "check", queries |-> queries, evaluations |-> <<evaluation>>,
                        identity |-> identity, environment |-> environment]
        BY <2>4 DEF MakeReport
    <3>2. CASE refused
      <4> HIDE DEF refused
      <4> QED
          BY <2>1, <3>1, <3>2 DEF CaseInvariant, Made
    <3>3. CASE ~refused
      <4>1. ~FlagsRefused(input.digest) /\ ~CELFails(queries, Raws(input, input.plan), input.contract)
          BY <3>3
      <4> HIDE DEF refused
      <4>2. /\ made'.queries = queries /\ made'.evaluations = <<evaluation>> /\ made'.identity = identity
            /\ made'.environment = environment /\ made'.mode = "check"
        <5> HIDE DEF queries, evaluation, identity, environment
        <5> QED
            BY <3>1, <3>3
      <4>3. IsReport(input, made')
          BY <4>1, <4>2 DEF IsReport
      <4> QED
          BY <2>1, <4>3 DEF CaseInvariant, Made
    <3> QED
        BY <3>2, <3>3
  <2> QED
      BY <2>2, <2>3, <2>4 DEF CaseStep
<1> QED
    BY <1>1, <1>2, PTL DEF CaseSpec

LEMMA TargetsAreFound ==
  ASSUME NEW input \in ReportInputs, NEW target
  PROVE  LET queries == Entries(input, input.plan)
         IN  Found(queries, target) = CASE target = "query/A" -> {1} [] target = "query/B#inner" -> {2} [] OTHER -> {}
<1> DEFINE queries == Entries(input, input.plan)
<1>1. DOMAIN queries = 1..2 /\ queries[1].target = "query/A" /\ queries[2].target = "query/B#inner"
    BY EntriesAreSound
<1> HIDE DEF queries
<1>2. \A k \in 1..2 : k = 1 \/ k = 2
    OBVIOUS
<1>3. \A k : k \in Found(queries, target) <=> (k = 1 /\ target = "query/A") \/ (k = 2 /\ target = "query/B#inner")
    BY <1>1, <1>2 DEF Found
<1>4. Found(queries, target) = CASE target = "query/A" -> {1} [] target = "query/B#inner" -> {2} [] OTHER -> {}
    BY <1>3
<1> QED
    BY <1>4 DEF queries

(* The evaluation of a report is that of the target the contract names.       *)
Looked(input) == Found(Entries(input, input.plan), Trim(input.contract.target))
LEMMA WhereItLooks ==
  ASSUME NEW input \in ReportInputs
  PROVE  LET at == TargetIndex(input.contract)
         IN  /\ at \in 1..2 /\ at \in Nat /\ Sound(Entries(input, input.plan)[at])
             /\ Looked(input) = {} \/ Looked(input) = {at}
<1> DEFINE at == TargetIndex(input.contract)
           queries == Entries(input, input.plan)
           target == Trim(input.contract.target)
<1>1. /\ at \in 1..2 /\ at \in Nat
      /\ at = IF target = "query/B#inner" THEN 2 ELSE 1
    BY DEF TargetIndex
<1>2. \A k \in 1..2 : Sound(queries[k])
    BY EntriesAreSound
<1>3. Looked(input) = CASE target = "query/A" -> {1} [] target = "query/B#inner" -> {2} [] OTHER -> {}
    BY TargetsAreFound DEF Looked
<1> HIDE DEF at, queries, target
<1>4. Looked(input) = {} \/ Looked(input) = {at}
  <2>1. CASE target = "query/A"
      BY <1>1, <1>3, <2>1
  <2>2. CASE target = "query/B#inner"
      BY <1>1, <1>3, <2>2
  <2>3. CASE target # "query/A" /\ target # "query/B#inner"
      BY <1>3, <2>3
  <2> QED
      BY <2>1, <2>2, <2>3
<1> QED
    BY <1>1, <1>2, <1>4 DEF at, queries

(* An expression has an outcome, and its result says which.                  *)
LEMMA ExpressionsAnswer ==
  ASSUME NEW query, NEW raw, NEW asks
  PROVE  EvaluateCEL(query, raw, asks) \in {"holds", "fails", "error"}
BY DEF EvaluateCEL

LEMMA ExpressionIsReported ==
  ASSUME NEW outcome
  PROVE  /\ CELResult(outcome).rule = "cel" /\ CELResult(outcome).status = (IF outcome = "holds" THEN "pass" ELSE "fail")
         /\ CELResult(outcome).status = "fail" => CELResult(outcome).failure_kind # ""
BY DEF CELResult

LEMMA SummaryOfOne ==
  ASSUME NEW e, e.status \in {"pass", "fail", "not_evaluated"}
  PROVE  LET s == Summarize(<<e>>)
         IN  /\ s.passed = IF e.status = "pass" THEN 1 ELSE 0
             /\ s.status = IF e.status = "pass" THEN "pass" ELSE "fail"
<1> DEFINE having(statuses) == {k \in DOMAIN <<e>> : <<e>>[k].status \in statuses}
<1>1. DOMAIN <<e>> = {1} /\ <<e>>[1] = e
    OBVIOUS
<1>2. ASSUME NEW statuses
      PROVE  having(statuses) = IF e.status \in statuses THEN {1} ELSE {}
    BY <1>1
<1>3. Cardinality({1}) = 1 /\ Cardinality({}) = 0
    BY FS_Singleton, FS_EmptySet
<1>4. Summarize(<<e>>).passed = Cardinality(having({"pass"}))
    BY DEF Summarize
<1>5. Summarize(<<e>>).status = IF Cardinality(having({"fail", "not_evaluated"})) > 0 THEN "fail" ELSE "pass"
    BY DEF Summarize
<1> HIDE DEF having
<1>6. CASE e.status = "pass"
  <2>1. having({"pass"}) = {1} /\ having({"fail", "not_evaluated"}) = {}
      BY <1>2, <1>6
  <2> QED
      BY <1>3, <1>4, <1>5, <1>6, <2>1
<1>7. CASE e.status # "pass"
  <2>1. having({"pass"}) = {} /\ having({"fail", "not_evaluated"}) = {1}
      BY <1>2, <1>7
  <2> QED
      BY <1>3, <1>4, <1>5, <1>7, <2>1
<1> QED
    BY <1>6, <1>7

(* Results of an entry, and whether one of them fails.                       *)
Asked(input) ==
  LET contract == input.contract
      at == TargetIndex(contract)
  IN  [target |-> Trim(contract.target), rules |-> {p.rule : p \in ResolvedPredicates(contract)},
       cel |-> IF contract.cel.blank THEN "none"
               ELSE EvaluateCEL(Entries(input, input.plan)[at], Raws(input, input.plan)[at], contract.cel.asks)]

LEMMA OutcomesAgree ==
  ASSUME NEW input \in ReportInputs,
         LET queries == Entries(input, input.plan) IN ~CELFails(queries, Raws(input, input.plan), input.contract)
  PROVE  LET queries == Entries(input, input.plan)
             entry == EvaluateContract(queries, Raws(input, input.plan), input.contract)
             verdict == Evaluate(queries, Asked(input))
         IN  /\ entry.status = CASE verdict = "holds" -> "pass" [] verdict = "fails" -> "fail" [] OTHER -> "not_evaluated"
             /\ entry.status = "not_evaluated" => entry.reason = verdict
<1> DEFINE queries  == Entries(input, input.plan)
           raws     == Raws(input, input.plan)
           contract == input.contract
           at       == TargetIndex(contract)
           asked    == Asked(input)
           entry    == EvaluateContract(queries, raws, contract)
           verdict  == Evaluate(queries, asked)
           outcome  == EvaluateCEL(queries[at], raws[at], contract.cel.asks)
           results  == Results(queries[at], raws[at], contract)
<1>1. /\ at \in Nat /\ Sound(queries[at])
      /\ Found(queries, Trim(contract.target)) = {} \/ Found(queries, Trim(contract.target)) = {at}
    BY WhereItLooks DEF Looked
<1>2. /\ asked.target = Trim(contract.target) /\ asked.rules = {p.rule : p \in ResolvedPredicates(contract)}
      /\ asked.cel = IF contract.cel.blank THEN "none" ELSE outcome
    BY DEF Asked
<1>3. CASE Found(queries, Trim(contract.target)) = {}
  <2>1. entry.status = "not_evaluated" /\ entry.reason = "target_not_found"
    <3> HIDE DEF queries, raws, contract
    <3> QED
        BY <1>3, NotFound
  <2>2. verdict = "target_not_found"
    <3> HIDE DEF queries, asked
    <3> QED
        BY <1>2, <1>3 DEF Evaluate, TargetQueries, Found
  <2> HIDE DEF verdict, entry
  <2> QED
      BY <2>1, <2>2 DEF verdict, entry
<1>4. CASE Found(queries, Trim(contract.target)) = {at}
  <2>1. /\ entry = EvaluationOf(queries[at], results, contract)
        /\ ~(~contract.cel.blank /\ queries[at].status = "ok" /\ outcome = "error")
    <3>1. ~CELFails(queries, raws, contract)
        OBVIOUS
    <3>2. at \in Nat
        BY <1>1
    <3> HIDE DEF queries, raws, contract, at, asked, verdict
    <3>3. entry = EvaluationOf(queries[at], results, contract)
      <4>1. EvaluateContract(queries, raws, contract) =
              EvaluationOf(queries[at], Results(queries[at], raws[at], contract), contract)
          BY <1>4, <3>2, FoundAt
      <4> QED
          BY <4>1 DEF entry, results
    <3> HIDE DEF entry, results
    <3>4. ~(~contract.cel.blank /\ queries[at].status = "ok" /\ outcome = "error")
        BY <1>4, <3>1, <3>2, FailsAt
    <3> QED
        BY <3>3, <3>4
  <2>2. IF queries[at].status # "ok"
        THEN entry.status = "not_evaluated" /\ entry.reason = "target_error"
        ELSE entry.status = IF \E r \in results : r.status = "fail" THEN "fail" ELSE "pass"
    <3> HIDE DEF queries, results, contract, at, entry
    <3> QED
        BY <2>1, EvaluationFields
  <2>3. verdict = IF queries[at].status # "ok" THEN "target_error"
                  ELSE IF asked.cel # "none" THEN asked.cel
                  ELSE IF \A r \in asked.rules : RuleHolds(queries[at], r) THEN "holds" ELSE "fails"
    <3> HIDE DEF queries, asked, at, contract
    <3> QED
        BY <1>1, <1>2, <1>4, EvaluateAt
  <2>4. /\ \A p \in ResolvedPredicates(contract) : Ruling(p.rule)
        /\ ~contract.cel.blank => ResolvedPredicates(contract) = {}
      BY ContractPredicates
  <2>5. ASSUME queries[at].status = "ok", contract.cel.blank
        PROVE  entry.status = (IF verdict = "holds" THEN "pass" ELSE "fail") /\ verdict \in {"holds", "fails"}
    <3>1. results = {EvaluatePredicate(queries[at], p) : p \in ResolvedPredicates(contract)}
        BY <2>5 DEF Results
    <3>2. ASSUME NEW p \in ResolvedPredicates(contract)
          PROVE  EvaluatePredicate(queries[at], p).status = "fail" <=> ~RuleHolds(queries[at], p.rule)
      <4> HIDE DEF queries, at, contract
      <4> QED
          BY <1>1, <2>4, RuleIsReported
    <3>3. verdict = IF \A p \in ResolvedPredicates(contract) : RuleHolds(queries[at], p.rule) THEN "holds" ELSE "fails"
      <4> HIDE DEF verdict, asked, queries, at, contract
      <4> QED
          BY <1>2, <2>3, <2>5
    <3> HIDE DEF verdict, entry, results, queries, at, contract
    <3> QED
        BY <2>2, <2>5, <3>1, <3>2, <3>3
  <2>6. ASSUME queries[at].status = "ok", ~contract.cel.blank
        PROVE  entry.status = (IF verdict = "holds" THEN "pass" ELSE "fail") /\ verdict \in {"holds", "fails"}
    <3>1. results = {CELResult(outcome)}
        BY <2>4, <2>6 DEF Results
    <3>2. outcome \in {"holds", "fails", "error"} /\ CELResult(outcome).status = (IF outcome = "holds" THEN "pass" ELSE "fail")
      <4>1. outcome \in {"holds", "fails", "error"}
        <5> HIDE DEF queries, raws, at, contract
        <5> QED
            BY ExpressionsAnswer
      <4> HIDE DEF outcome
      <4> QED
          BY <4>1, ExpressionIsReported
    <3> HIDE DEF verdict, asked, entry, results, outcome, queries, at, contract
    <3> QED
        BY <1>2, <2>1, <2>2, <2>3, <2>6, <3>1, <3>2
  <2> HIDE DEF verdict, entry, queries, at, contract
  <2>7. entry.status = (CASE verdict = "holds" -> "pass" [] verdict = "fails" -> "fail" [] OTHER -> "not_evaluated")
        /\ (entry.status = "not_evaluated" => entry.reason = verdict)
      BY <2>2, <2>3, <2>5, <2>6
  <2> QED
      BY <2>7 DEF verdict, entry, queries, contract
<1> QED
    BY <1>1, <1>3, <1>4

LEMMA OutcomesStand == ASSUME CaseInvariant PROVE VerdictsAgree
<1> SUFFICES ASSUME Made("report") PROVE VerdictsAgree
    BY DEF VerdictsAgree
<1> DEFINE input    == matter.input
           queries  == Entries(input, input.plan)
           entry    == EvaluateContract(queries, Raws(input, input.plan), input.contract)
           asked    == Asked(input)
           verdict  == Evaluate(queries, asked)
           passed   == IF verdict = "holds" THEN 1 ELSE 0
<1>1. /\ input \in ReportInputs /\ made.queries = queries /\ made.evaluations = <<entry>>
      /\ ~CELFails(queries, Raws(input, input.plan), input.contract)
    BY DEF CaseInvariant, Made, IsReport
<1>2. /\ entry.status = CASE verdict = "holds" -> "pass" [] verdict = "fails" -> "fail" [] OTHER -> "not_evaluated"
      /\ entry.status = "not_evaluated" => entry.reason = verdict
  <2> HIDE DEF input
  <2> QED
      BY <1>1, OutcomesAgree
<1> HIDE DEF entry, verdict
<1>3. /\ Summarize(<<entry>>).passed = passed
      /\ (Summarize(<<entry>>).status = "pass") = (passed = 1)
  <2>1. entry.status \in {"pass", "fail", "not_evaluated"} /\ (entry.status = "pass" <=> verdict = "holds")
      BY <1>2
  <2>2. /\ Summarize(<<entry>>).passed = IF entry.status = "pass" THEN 1 ELSE 0
        /\ Summarize(<<entry>>).status = IF entry.status = "pass" THEN "pass" ELSE "fail"
      BY <2>1, SummaryOfOne
  <2> QED
      BY <2>1, <2>2
<1>4. made.evaluations[1] = entry
    BY <1>1
<1>5. Evaluate(made.queries,
               [target |-> Trim(input.contract.target), rules |-> {p.rule : p \in ResolvedPredicates(input.contract)},
                cel |-> IF input.contract.cel.blank THEN "none"
                        ELSE EvaluateCEL(made.queries[TargetIndex(input.contract)], Raws(input, input.plan)[TargetIndex(input.contract)],
                                         input.contract.cel.asks)]) = verdict
    BY <1>1 DEF verdict, Asked
<1> HIDE DEF input
<1> QED
    BY <1>1, <1>2, <1>3, <1>4, <1>5 DEF VerdictsAgree, input

LEMMA FailuresStand == ASSUME CaseInvariant PROVE FailuresShowOperators
<1> SUFFICES ASSUME Made("report"), NEW r \in made.evaluations[1].results, r.status = "fail",
                    r.rule \notin {"cel", "require_timestamp_condition"}
             PROVE  Shown(made.queries[TargetIndex(matter.input.contract)], r)
    BY DEF FailuresShowOperators, Shown
<1> DEFINE input    == matter.input
           queries  == Entries(input, input.plan)
           raws     == Raws(input, input.plan)
           contract == input.contract
           at       == TargetIndex(contract)
           entry    == EvaluateContract(queries, raws, contract)
           results  == Results(queries[at], raws[at], contract)
<1>1. input \in ReportInputs /\ made.queries = queries /\ made.evaluations[1] = entry
  <2>1. input \in ReportInputs /\ made.queries = queries /\ made.evaluations = <<entry>>
      BY DEF CaseInvariant, Made, IsReport
  <2> HIDE DEF entry, queries, input
  <2> QED
      BY <2>1
<1>2. /\ at \in Nat /\ Sound(queries[at])
      /\ Found(queries, Trim(contract.target)) = {} \/ Found(queries, Trim(contract.target)) = {at}
  <2> HIDE DEF input
  <2> QED
      BY <1>1, WhereItLooks DEF Looked
<1>3. \A p \in ResolvedPredicates(contract) : Ruling(p.rule)
  <2> HIDE DEF input
  <2> QED
      BY <1>1, ContractPredicates
<1>4. entry.results \subseteq results
  <2> HIDE DEF queries, raws, contract, at
  <2>1. CASE Found(queries, Trim(contract.target)) = {}
      BY <2>1, NotFound
  <2>2. CASE Found(queries, Trim(contract.target)) = {at}
    <3>1. entry = EvaluationOf(queries[at], results, contract)
      <4>1. at \in Nat
          BY <1>2
      <4>2. EvaluateContract(queries, raws, contract) = EvaluationOf(queries[at], Results(queries[at], raws[at], contract), contract)
          BY <4>1, <2>2, FoundAt
      <4> QED
          BY <4>2
    <3> HIDE DEF results, entry
    <3> QED
        BY <3>1, EvaluationFields
  <2> QED
      BY <1>2, <2>1, <2>2
<1>5. r \in results
    BY <1>1, <1>4
<1> HIDE DEF queries, raws, contract, at
<1>6. CASE \E p \in ResolvedPredicates(contract) : r = EvaluatePredicate(queries[at], p)
  <2>1. PICK p \in ResolvedPredicates(contract) : r = EvaluatePredicate(queries[at], p)
      BY <1>6
  <2>2. Ruling(p.rule)
      BY <1>3
  <2> QED
      BY <1>1, <1>2, <2>1, <2>2, RuleIsReported DEF at, contract
<1>7. CASE \A p \in ResolvedPredicates(contract) : r # EvaluatePredicate(queries[at], p)
  <2>1. r = CELResult(EvaluateCEL(queries[at], raws[at], contract.cel.asks))
      BY <1>5, <1>7 DEF Results
  <2>2. \E outcome : r = CELResult(outcome)
      BY <2>1
  <2>3. r.rule = "cel"
      BY <2>2, ExpressionIsReported
  <2> QED
      BY <2>3
<1> QED
    BY <1>6, <1>7

LEMMA CountsStand == ASSUME CaseInvariant PROVE UmbrellaCountsAgree
<1> SUFFICES ASSUME Made("report") PROVE UmbrellaCountsAgree
    BY DEF UmbrellaCountsAgree
<1> DEFINE query  == made.queries[1]
           ops    == query.operators
           counts == OperatorFamilyCountsOrEmpty(OperatorFamilyCounts(ops))
<1>1. Concrete(ops)
  <2>1. matter.input \in ReportInputs /\ made.queries = Entries(matter.input, matter.input.plan)
      BY DEF CaseInvariant, Made, IsReport
  <2>2. 1 \in 1..2
      OBVIOUS
  <2>3. Sound(made.queries[1])
      BY <2>1, <2>2, EntriesAreSound
  <2> QED
      BY <2>3 DEF Sound
<1>2. ASSUME NEW f \in KnownOperatorFamilies PROVE counts[f] = Cardinality(Matched(query, Forbid(f, 0)))
  <2>1. counts = OperatorFamilyCounts(ops)
      BY <1>1, UmbrellasAgree
  <2>2. OperatorFamilyCounts(ops) = [g \in KnownOperatorFamilies |-> Cardinality(Matching(ops, g))]
      BY <1>1, CountsMatch
  <2> HIDE DEF counts
  <2>3. Matched(query, Forbid(f, 0)) = Matching(ops, f)
      BY DEF Matched, Forbid, Matching
  <2> HIDE DEF query, ops
  <2> QED
      BY <2>1, <2>2, <2>3
<1>3. ASSUME NEW i \in DOMAIN ops
      PROVE  OperatorFamilyCountsOrEmpty(SubtreeFamilyCounts(ops, i)) = SubtreeFamilyCounts(ops, i)
  <2> DEFINE below == ({i} \cup ops[i].descendants) \cap DOMAIN ops
             sub   == [j \in below |-> ops[j]]
  <2> HIDE DEF ops
  <2>1. below \subseteq DOMAIN ops
      OBVIOUS
  <2>2. SubtreeFamilyCounts(ops, i) = OperatorFamilyCounts(sub)
      BY DEF SubtreeFamilyCounts
  <2> HIDE DEF below
  <2>3. Concrete(sub)
    <3>1. IsFiniteSet(below)
        BY <1>1, <2>1, FS_Subset DEF Concrete
    <3>2. DOMAIN sub = below /\ \A j \in below : sub[j].family = ops[j].family
        OBVIOUS
    <3> HIDE DEF sub
    <3> QED
        BY <1>1, <2>1, <3>1, <3>2 DEF Concrete
  <2> HIDE DEF sub
  <2> QED
      BY <2>2, <2>3, UmbrellasAgree
<1> HIDE DEF counts, ops
<1> QED
    BY <1>2, <1>3 DEF UmbrellaCountsAgree, counts, ops

(* The text for people: its targets and its results.                         *)
LEMMA TargetsAreShown ==
  ASSUME NEW input \in ReportInputs, NEW k \in 1..2
  PROVE  LET queries == Entries(input, input.plan)
             contract == [Using(<<"no_full_scan">>) EXCEPT !.target = queries[k].target]
             lines == TargetLines(queries[k])
         IN  /\ lines.body = "plan" <=> EvaluateContract(queries, Raws(input, input.plan), contract).status # "not_evaluated"
             /\ lines.counts = {f \in KnownOperatorFamilies : Matched(queries[k], Forbid(f, 0)) # {}}
<1> DEFINE queries == Entries(input, input.plan)
           raws == Raws(input, input.plan)
           query == queries[k]
           contract == [Using(<<"no_full_scan">>) EXCEPT !.target = query.target]
           lines == TargetLines(query)
           results == Results(query, raws[k], contract)
           entry == EvaluateContract(queries, raws, contract)
<1>1. Sound(query) /\ query.target \in TargetIDs /\ Found(queries, query.target) = {k}
  <2>1. /\ queries[1].target = "query/A" /\ queries[2].target = "query/B#inner" /\ Sound(queries[k])
        /\ Found(queries, query.target) = CASE query.target = "query/A" -> {1} [] query.target = "query/B#inner" -> {2} [] OTHER -> {}
      BY EntriesAreSound, TargetsAreFound
  <2>2. {"query/A", "query/B#inner"} \subseteq TargetIDs
      BY ReportsAssumption
  <2>3. k = 1 \/ k = 2
      OBVIOUS
  <2> HIDE DEF queries
  <2> QED
      BY <2>1, <2>2, <2>3
<1>2. contract.target = query.target
    BY DEF Using, NewContract
<1> HIDE DEF queries, query
<1>3. Found(queries, Trim(contract.target)) = {k} /\ k \in Nat /\ query = queries[k]
    BY <1>1, <1>2, ReportsAssumption DEF query
<1> HIDE DEF contract
<1>4. entry.status # "not_evaluated" <=> query.status = "ok"
  <2>1. entry = EvaluationOf(query, results, contract)
      BY <1>3, FoundAt
  <2> HIDE DEF entry, results
  <2>2. /\ query.status # "ok" => entry.status = "not_evaluated"
        /\ query.status = "ok" => entry.status = IF \E r \in results : r.status = "fail" THEN "fail" ELSE "pass"
      BY <2>1, EvaluationFields
  <2> QED
      BY <2>2
<1>5. lines.body = IF query.status # "ok" THEN "error" ELSE "plan"
    BY DEF TargetLines
<1>6. ASSUME NEW f \in KnownOperatorFamilies
      PROVE  OperatorFamilyCounts(query.operators)[f] > 0 <=> Matched(query, Forbid(f, 0)) # {}
  <2>1. OperatorFamilyCounts(query.operators) = [g \in KnownOperatorFamilies |-> Cardinality(Matching(query.operators, g))]
      BY <1>1, CountsMatch DEF Sound
  <2>2. Matched(query, Forbid(f, 0)) = Matching(query.operators, f)
      BY DEF Matched, Forbid, Matching
  <2>3. Ruling(Forbid(f, 0)) /\ Forbid(f, 0).rule = "operator_family"
    <3>1. Forbid(f, 0).rule = "operator_family"
        BY DEF Forbid
    <3> QED
        BY <3>1 DEF Ruling
  <2>4. Cardinality(Matched(query, Forbid(f, 0))) > 0 <=> Matched(query, Forbid(f, 0)) # {}
      BY <1>1, <2>3, MatchedIsFinite
  <2> QED
      BY <2>1, <2>2, <2>4
<1>7. lines.counts = {f \in KnownOperatorFamilies : Matched(query, Forbid(f, 0)) # {}}
  <2>1. lines.counts = {f \in KnownOperatorFamilies : OperatorFamilyCounts(query.operators)[f] > 0}
      BY DEF TargetLines
  <2> HIDE DEF lines
  <2> QED
      BY <1>6, <2>1
<1> HIDE DEF lines, entry
<1>8. (lines.body = "plan" <=> entry.status # "not_evaluated") /\ lines.counts = {f \in KnownOperatorFamilies : Matched(query, Forbid(f, 0)) # {}}
    BY <1>4, <1>5, <1>7
<1> QED
    BY <1>8 DEF lines, entry, contract, query, queries, raws

LEMMA FailuresHaveKinds ==
  ASSUME NEW input \in ReportInputs,
         NEW r \in EvaluateContract(Entries(input, input.plan), Raws(input, input.plan), input.contract).results, r.status = "fail"
  PROVE  r.failure_kind # ""
<1> DEFINE queries  == Entries(input, input.plan)
           raws     == Raws(input, input.plan)
           contract == input.contract
           at       == TargetIndex(contract)
           results  == Results(queries[at], raws[at], contract)
<1>1. /\ at \in Nat /\ Sound(queries[at])
      /\ Found(queries, Trim(contract.target)) = {} \/ Found(queries, Trim(contract.target)) = {at}
    BY WhereItLooks DEF Looked
<1>2. \A p \in ResolvedPredicates(contract) : Ruling(p.rule)
    BY ContractPredicates
<1> HIDE DEF queries, raws, contract, at
<1>3. r \in EvaluateContract(queries, raws, contract).results
    BY DEF queries, raws, contract
<1>4. r \in results
  <2>1. CASE Found(queries, Trim(contract.target)) = {}
      BY <1>3, <2>1, NotFound
  <2>2. CASE Found(queries, Trim(contract.target)) = {at}
    <3>1. EvaluateContract(queries, raws, contract) = EvaluationOf(queries[at], results, contract)
        BY <1>1, <2>2, FoundAt
    <3> HIDE DEF results
    <3> QED
        BY <1>3, <3>1, EvaluationFields
  <2> QED
      BY <1>1, <2>1, <2>2
<1>5. CASE \E p \in ResolvedPredicates(contract) : r = EvaluatePredicate(queries[at], p)
  <2>1. PICK p \in ResolvedPredicates(contract) : r = EvaluatePredicate(queries[at], p)
      BY <1>5
  <2>2. Ruling(p.rule)
      BY <1>2
  <2> QED
      BY <1>1, <2>1, <2>2, RuleIsReported
<1>6. CASE \E outcome : r = CELResult(outcome)
    BY <1>6, ExpressionIsReported
<1>7. (\E p \in ResolvedPredicates(contract) : r = EvaluatePredicate(queries[at], p)) \/ \E outcome : r = CELResult(outcome)
    BY <1>4 DEF Results
<1> QED
    BY <1>5, <1>6, <1>7

LEMMA MarkdownStands == ASSUME CaseInvariant PROVE MarkdownAgrees
<1> SUFFICES ASSUME Made("report") PROVE MarkdownAgrees
    BY DEF MarkdownAgrees
<1> DEFINE input    == matter.input
           queries  == Entries(input, input.plan)
           raws     == Raws(input, input.plan)
           entry    == EvaluateContract(queries, raws, input.contract)
           text     == Markdown(made)
<1>1. input \in ReportInputs /\ made.queries = queries /\ made.evaluations = <<entry>>
    BY DEF CaseInvariant, Made, IsReport
<1>2. DOMAIN queries = 1..2
  <2> HIDE DEF input
  <2> QED
      BY <1>1, EntriesAreSound
<1>3. text.targets = [k \in DOMAIN made.queries |-> TargetLines(made.queries[k])]
      /\ text.contracts = [k \in DOMAIN made.evaluations |-> EvaluationLines(made.evaluations[k])]
    BY DEF Markdown
<1> HIDE DEF text, entry
<1>4. ASSUME NEW k \in DOMAIN made.queries
      PROVE  LET contract == [Using(<<"no_full_scan">>) EXCEPT !.target = made.queries[k].target]
                 evaluation == EvaluateContract(made.queries, raws, contract)
             IN  /\ (text.targets[k].body = "plan") = (evaluation.status # "not_evaluated")
                 /\ text.targets[k].counts = {f \in KnownOperatorFamilies : Matched(made.queries[k], Forbid(f, 0)) # {}}
  <2> DEFINE contract == [Using(<<"no_full_scan">>) EXCEPT !.target = queries[k].target]
             evaluation == EvaluateContract(queries, raws, contract)
             lines == TargetLines(queries[k])
  <2>1. k \in 1..2 /\ text.targets[k] = lines
      BY <1>1, <1>2, <1>3
  <2>2. /\ lines.body = "plan" <=> evaluation.status # "not_evaluated"
        /\ lines.counts = {f \in KnownOperatorFamilies : Matched(queries[k], Forbid(f, 0)) # {}}
    <3> HIDE DEF input
    <3> QED
        BY <1>1, <2>1, TargetsAreShown
  <2> HIDE DEF lines, evaluation
  <2>3. (text.targets[k].body = "plan") = (evaluation.status # "not_evaluated")
      BY <2>1, <2>2
  <2>4. text.targets[k].counts = {f \in KnownOperatorFamilies : Matched(queries[k], Forbid(f, 0)) # {}}
      BY <2>1, <2>2
  <2> HIDE DEF queries
  <2> QED
      BY <1>1, <2>3, <2>4 DEF evaluation
<1>5. ASSUME NEW line \in text.contracts[1].results, line.status = "fail" PROVE line.kind # ""
  <2>1. text.contracts[1] = EvaluationLines(entry)
      BY <1>1, <1>3
  <2>2. EvaluationLines(entry).results = {ResultLine(r) : r \in entry.results}
      BY DEF EvaluationLines
  <2>3. PICK r \in entry.results : line = ResultLine(r)
      BY <2>1, <2>2
  <2>4. line.status = r.status /\ line.kind = r.failure_kind
      BY <2>3 DEF ResultLine
  <2>5. r.failure_kind # ""
    <3>1. r.status = "fail"
        BY <1>5, <2>4
    <3> HIDE DEF input
    <3> QED
        BY <1>1, <2>3, <3>1, FailuresHaveKinds DEF entry
  <2> QED
      BY <2>4, <2>5
<1> QED
    BY <1>4, <1>5 DEF MarkdownAgrees, text

-----------------------------------------------------------------------------
(* What a report claims of itself                                           *)

LEMMA SameOutcomeSameEntry ==
  ASSUME NEW queries, NEW raws, NEW others, NEW contract, NEW at \in Nat,
         Found(queries, Trim(contract.target)) = {} \/ Found(queries, Trim(contract.target)) = {at},
         \/ contract.cel.blank
         \/ EvaluateCEL(queries[at], raws[at], contract.cel.asks) = EvaluateCEL(queries[at], others[at], contract.cel.asks)
  PROVE  EvaluateContract(queries, raws, contract) = EvaluateContract(queries, others, contract)
<1>1. CASE Found(queries, Trim(contract.target)) = {}
    BY <1>1, NotFound
<1>2. CASE Found(queries, Trim(contract.target)) = {at}
  <2>1. Results(queries[at], raws[at], contract) = Results(queries[at], others[at], contract)
      BY DEF Results
  <2>2. EvaluateContract(queries, raws, contract) = EvaluationOf(queries[at], Results(queries[at], raws[at], contract), contract)
      BY <1>2, FoundAt
  <2>3. EvaluateContract(queries, others, contract) = EvaluationOf(queries[at], Results(queries[at], others[at], contract), contract)
      BY <1>2, FoundAt
  <2> QED
      BY <2>1, <2>2, <2>3
<1> QED
    BY <1>1, <1>2

LEMMA ReplaysStand == ASSUME CaseInvariant PROVE ReplayableContractsReplay
<1> SUFFICES ASSUME Made("report"), made.evaluations[1].stability.replayable_from_report PROVE ReplayableContractsReplay
    BY DEF ReplayableContractsReplay
<1> DEFINE input    == matter.input
           queries  == Entries(input, input.plan)
           raws     == Raws(input, input.plan)
           others   == Raws(input, AnotherDay(input.plan))
           contract == input.contract
           cel      == contract.cel
           at       == TargetIndex(contract)
           entry    == EvaluateContract(queries, raws, contract)
<1>1. input \in ReportInputs /\ made.queries = queries /\ made.evaluations = <<entry>>
    BY DEF CaseInvariant, Made, IsReport
<1>2. at \in 1..2 /\ at \in Nat /\ (Found(queries, Trim(contract.target)) = {} \/ Found(queries, Trim(contract.target)) = {at})
  <2> HIDE DEF input
  <2> QED
      BY <1>1, WhereItLooks DEF Looked
<1>3. ~cel.blank /\ cel.asks.of \in RawInputs => cel.asks.of \in References(cel)
  <2> HIDE DEF input
  <2> QED
      BY <1>1, ReportsAssumption
<1>4. at = 1 \/ (at = 2 /\ raws[at] = others[at])
  <2>1. at = 1 \/ at = 2
      BY <1>2
  <2>2. raws[2] = others[2]
      BY DEF Raws
  <2> QED
      BY <2>1, <2>2
<1>5. entry = EvaluateContract(queries, others, contract)
  <2>1. CASE raws[at] = others[at] \/ cel.blank
    <3>1. cel.blank \/ EvaluateCEL(queries[at], raws[at], cel.asks) = EvaluateCEL(queries[at], others[at], cel.asks)
      <4> HIDE DEF queries, raws, others, at, cel
      <4> QED
          BY <2>1
    <3> HIDE DEF queries, raws, others, contract, at
    <3> QED
        BY <1>2, <3>1, SameOutcomeSameEntry
  <2>2. CASE raws[at] # others[at] /\ ~cel.blank
    <3>1. Found(queries, Trim(contract.target)) = {at} \/ Found(queries, Trim(contract.target)) = {}
        BY <1>2
    <3>2. entry.stability = StabilityFor(contract)
      <4> HIDE DEF queries, raws, contract, at
      <4>1. CASE Found(queries, Trim(contract.target)) = {at}
        <5> DEFINE results == Results(queries[at], raws[at], contract)
        <5>1. entry = EvaluationOf(queries[at], results, contract)
            BY <1>2, <4>1, FoundAt
        <5> HIDE DEF entry, results
        <5> QED
            BY <5>1, EvaluationFields
      <4>2. CASE Found(queries, Trim(contract.target)) = {}
          BY <4>2 DEF Found, EvaluateContract
      <4> QED
          BY <1>2, <4>1, <4>2
    <3>3. StabilityFor(contract).replayable_from_report
      <4> HIDE DEF entry, contract
      <4> QED
          BY <1>1, <3>2
    <3>4. References(cel) \cap RawInputs = {}
      <4>1. StabilityFor(contract).replayable_from_report <=> ~(References(cel) \cap RawInputs # {})
        <5> HIDE DEF input
        <5> QED
            BY <2>2 DEF StabilityFor
      <4> QED
          BY <3>3, <4>1
    <3>5. cel.asks.of \notin RawInputs
        BY <1>3, <2>2, <3>4
    <3>6. EvaluateCEL(queries[at], raws[at], cel.asks) = EvaluateCEL(queries[at], others[at], cel.asks)
      <4> HIDE DEF queries, raws, others, at, cel
      <4> QED
          BY <3>5 DEF EvaluateCEL
    <3> HIDE DEF queries, raws, others, contract, at
    <3> QED
        BY <1>2, <3>6, SameOutcomeSameEntry
  <2> QED
      BY <2>1, <2>2
<1> HIDE DEF entry
<1>6. made.evaluations = <<EvaluateContract(queries, others, contract)>>
    BY <1>1, <1>5
<1> QED
    BY <1>1, <1>6 DEF ReplayableContractsReplay

(* A plan is read through its names, families, metadata and links alone.      *)
LEMMA SameDigestSamePlan ==
  ASSUME NEW plan, NEW other, OperatorTreeDigest(other) = OperatorTreeDigest(plan)
  PROVE  Normalize(other) = Normalize(plan) /\ Edges(other) = Edges(plan)
<1>1. DOMAIN other = DOMAIN plan
  <2>1. DOMAIN OperatorTreeDigest(other) = DOMAIN other /\ DOMAIN OperatorTreeDigest(plan) = DOMAIN plan
      BY DEF OperatorTreeDigest
  <2> QED
      BY <2>1
<1>2. ASSUME NEW i \in DOMAIN plan
      PROVE  /\ other[i].name = plan[i].name /\ Family(other, i) = Family(plan, i) /\ other[i].meta = plan[i].meta
             /\ other[i].links = plan[i].links
  <2> DEFINE d(p) == [name |-> p[i].name, family |-> Family(p, i), meta |-> p[i].meta, links |-> p[i].links]
  <2>1. OperatorTreeDigest(other)[i] = d(other) /\ OperatorTreeDigest(plan)[i] = d(plan)
      BY <1>1 DEF OperatorTreeDigest
  <2>2. d(other) = d(plan)
      BY <2>1
  <2>3. \A p : d(p).name = p[i].name /\ d(p).family = Family(p, i) /\ d(p).meta = p[i].meta /\ d(p).links = p[i].links
      OBVIOUS
  <2> HIDE DEF d
  <2> QED
      BY <2>2, <2>3
<1>3. \A i : Children(other, i) = Children(plan, i)
  <2>1. ASSUME NEW i \in DOMAIN plan PROVE Children(other, i) = Children(plan, i)
      BY <1>1, <1>2 DEF Children
  <2>2. ASSUME NEW i, i \notin DOMAIN plan PROVE Children(other, i) = Children(plan, i)
      BY <1>1, <2>2 DEF Children
  <2> QED
      BY <2>1, <2>2
<1>4. ASSUME NEW i PROVE DescendantIndexes(other, i) = DescendantIndexes(plan, i)
  <2> DEFINE indexes(p) == DOMAIN p \cup UNION {Children(p, j) : j \in DOMAIN p}
             closed(p, S) == Children(p, i) \subseteq S /\ \A j \in S : Children(p, j) \subseteq S
  <2>1. {Children(other, j) : j \in DOMAIN other} = {Children(plan, j) : j \in DOMAIN plan}
      BY <1>1, <1>3
  <2>2. indexes(other) = indexes(plan)
      BY <1>1, <2>1
  <2>3. \A S : closed(other, S) <=> closed(plan, S)
      BY <1>3
  <2>4. \A p : Reached(p, i) = {j \in indexes(p) : \A S \in SUBSET indexes(p) : closed(p, S) => j \in S}
      BY DEF Reached
  <2> HIDE DEF indexes, closed
  <2>5. Reached(other, i) = Reached(plan, i)
      BY <2>2, <2>3, <2>4
  <2> QED
      BY <2>5 DEF DescendantIndexes
<1>5. Normalize(other) = Normalize(plan)
  <2> DEFINE n(p, i) ==
               [name |-> p[i].name, family |-> Family(p, i),
                scalarAggregate |-> "scalar_aggregate" \in p[i].meta, fullScan |-> "full_scan" \in p[i].meta,
                children |-> [k \in DOMAIN p[i].links |-> p[i].links[k].to], descendants |-> DescendantIndexes(p, i)]
  <2>1. ASSUME NEW i \in DOMAIN plan PROVE n(other, i) = n(plan, i)
      BY <1>2, <1>4
  <2>2. Normalize(other) = [i \in DOMAIN other |-> n(other, i)] /\ Normalize(plan) = [i \in DOMAIN plan |-> n(plan, i)]
      BY DEF Normalize
  <2> HIDE DEF n
  <2> QED
      BY <1>1, <2>1, <2>2
<1>6. Edges(other) = Edges(plan)
  <2> DEFINE e(p, i) == {[parent |-> i, child |-> l.to, type |-> l.type] : l \in ToSet(p[i].links)}
  <2>1. ASSUME NEW i \in DOMAIN plan PROVE e(other, i) = e(plan, i)
      BY <1>2
  <2>2. Edges(other) = UNION {e(other, i) : i \in DOMAIN other} /\ Edges(plan) = UNION {e(plan, i) : i \in DOMAIN plan}
      BY DEF Edges
  <2> HIDE DEF e
  <2>3. {e(other, i) : i \in DOMAIN other} = {e(plan, i) : i \in DOMAIN plan}
      BY <1>1, <2>1
  <2> QED
      BY <2>2, <2>3
<1> QED
    BY <1>5, <1>6

LEMMA DigestsStand == ASSUME CaseInvariant PROVE DigestStandsForVerdicts
<1> DEFINE input == matter.input
<1> SUFFICES ASSUME Made("report"), NEW other, OperatorTreeDigest(other) = OperatorTreeDigest(input.plan)
             PROVE  EvaluateContract(Entries(input, other), Raws(input, input.plan), input.contract) = made.evaluations[1]
    BY DEF DigestStandsForVerdicts
<1>1. made.evaluations[1] = EvaluateContract(Entries(input, input.plan), Raws(input, input.plan), input.contract)
  <2> DEFINE entry == EvaluateContract(Entries(input, input.plan), Raws(input, input.plan), input.contract)
  <2>1. made.evaluations = <<entry>>
      BY DEF CaseInvariant, Made, IsReport
  <2> HIDE DEF entry
  <2> QED
      BY <2>1 DEF entry
<1> HIDE DEF input
<1>2. Entries(input, other) = Entries(input, input.plan)
  <2>1. Normalize(other) = Normalize(input.plan) /\ Edges(other) = Edges(input.plan)
      BY SameDigestSamePlan
  <2>2. ASSUME NEW pinned PROVE Entry("query/A", "query", <<>>, other, pinned) = Entry("query/A", "query", <<>>, input.plan, pinned)
      BY <2>1 DEF Entry
  <2> QED
      BY <2>2 DEF Entries
<1> QED
    BY <1>1, <1>2

LEMMA IdentityFields ==
  ASSUME NEW input, NEW id, id = ReportIdentity(BackendIdentityFromFlags(input.version, input.digest), input.attached, Pin)
  PROVE  LET version == Trim(input.version)
             digest  == Trim(input.digest)
         IN  /\ ~input.attached => id.version = Pin.version /\ id.digest = Pin.digest /\ id.source = "runtime_targets"
             /\ input.attached /\ version = "" /\ digest = "" =>
                  id.version = "not_recorded" /\ id.digest = "not_recorded" /\ id.source = "external_unverified"
             /\ input.attached /\ ~(version = "" /\ digest = "") =>
                  /\ id.version = ValueOrNotRecorded(version) /\ id.digest = ValueOrNotRecorded(digest)
                  /\ id.source = "manual"
<1>1. CASE Trim(input.version) = "" /\ Trim(input.digest) = ""
    BY <1>1 DEF ReportIdentity, BackendIdentityFromFlags
<1>2. CASE ~(Trim(input.version) = "" /\ Trim(input.digest) = "")
    BY <1>2 DEF ReportIdentity, BackendIdentityFromFlags
<1> QED
    BY <1>1, <1>2

LEMMA IdentitiesStand == ASSUME CaseInvariant PROVE AcceptedIdentitiesAreValid
<1> SUFFICES ASSUME Made("report") PROVE ValidBackendIdentity(made.identity) <=> ~Unrecordable(made.identity)
    BY DEF AcceptedIdentitiesAreValid
<1> DEFINE input   == matter.input
           id      == made.identity
           version == Trim(input.version)
           digest  == Trim(input.digest)
           flags   == BackendIdentityFromFlags(input.version, input.digest)
<1>1. id = ReportIdentity(flags, input.attached, Pin) /\ digest \in Digests \cup {""}
    BY DEF CaseInvariant, Made, IsReport, FlagsRefused
<1>2. /\ Lower("not_recorded") = "not_recorded" /\ \A d \in Digests : Lower(d) # "not_recorded"
      /\ Lower(Pin.version) # "not_recorded" /\ Lower(Pin.digest) # "not_recorded"
  <2>1. "not_recorded" \notin DOMAIN LowerCased
      BY WordsAssumption DEF MovingValues
  <2> QED
      BY <2>1, ReportsAssumption DEF Lower
<1>3. Pin.version \in PlainValues /\ Pin.digest \in Digests
    BY DEF Pin, PlainValues, Digests
<1>4. CASE ~input.attached
  <2>1. id.version = Pin.version /\ id.digest = Pin.digest /\ id.source = "runtime_targets"
      BY <1>1, <1>4, IdentityFields
  <2> HIDE DEF id
  <2> QED
      BY <1>2, <1>3, <2>1 DEF ValidBackendIdentity, Unrecordable, id
<1>5. CASE input.attached /\ version = "" /\ digest = ""
  <2>1. id.version = "not_recorded" /\ id.digest = "not_recorded" /\ id.source = "external_unverified"
      BY <1>1, <1>5, IdentityFields
  <2> HIDE DEF id
  <2> QED
      BY <1>2, <2>1 DEF ValidBackendIdentity, Unrecordable, id
<1>6. CASE input.attached /\ ~(version = "" /\ digest = "")
  <2>1. /\ id.version = ValueOrNotRecorded(version) /\ id.digest = ValueOrNotRecorded(digest) /\ id.source = "manual"
      BY <1>1, <1>6, IdentityFields
  <2>2. Unrecordable(id) <=> IF Lower(id.version) = "not_recorded" THEN id.digest = "not_recorded" ELSE id.version \notin PlainValues
      BY <2>1 DEF Unrecordable
  <2>3. ValidBackendIdentity(id) <=>
          /\ Lower(id.version) = "not_recorded" \/ id.version \in PlainValues
          /\ Lower(id.digest) = "not_recorded" \/ id.digest \in Digests
          /\ Lower(id.version) # "not_recorded" \/ Lower(id.digest) # "not_recorded"
      BY <2>1 DEF ValidBackendIdentity
  <2> HIDE DEF id
  <2>4. \/ id.digest \in Digests
        \/ id.digest = "not_recorded"
      BY <1>1, <2>1 DEF ValueOrNotRecorded
  <2> QED
      BY <1>2, <2>2, <2>3, <2>4 DEF id, Digests
<1> QED
    BY <1>4, <1>5, <1>6

LEMMA PinnedValuesAreSent ==
  ASSUME NEW value, OptimizerValuePinned(ValueOrNotPinned(value))
  PROVE  LET v == ValueOrNotPinned(value)
         IN  Lower(IF v = "not_pinned" THEN "" ELSE v) \notin MovingValues
<1> DEFINE v == ValueOrNotPinned(value)
<1>1. Trim("not_pinned") = "not_pinned" /\ Lower("not_pinned") = "not_pinned" /\ "not_pinned" \in MovingValues
    BY WordsAssumption DEF Trim, Lower, MovingValues
<1>2. Trim(v) = v
  <2>1. Trim(Trim(value)) = Trim(value)
      BY WordsAssumption DEF Trim
  <2> QED
      BY <1>1, <2>1 DEF ValueOrNotPinned
<1>3. Lower(v) \notin MovingValues
    BY <1>2 DEF OptimizerValuePinned
<1> HIDE DEF v
<1>4. v # "not_pinned"
    BY <1>1, <1>3
<1> QED
    BY <1>3, <1>4 DEF v

LEMMA PinningStands == ASSUME CaseInvariant PROVE PinningGateMeansFixed
<1> SUFFICES ASSUME Made("report"), OptimizerPinningWarnings(made.environment) = {},
                    NEW f \in {"version", "statistics"}
             PROVE  Lower(SentOptimizer(ResolvedOptimizer(matter.input.optimizer))[f]) \notin
                      {"", "latest", "latest_version", "default_version", "not_pinned", "not_recorded"}
    BY DEF PinningGateMeansFixed
<1> DEFINE flags     == matter.input.optimizer
           optimizer == ResolvedOptimizer(flags)
           identity  == made.identity
           warnings  == EnvironmentWarnings(optimizer, identity, made.queries)
<1>1. made.environment = CheckWarnings(warnings, made.evaluations)
    BY DEF CaseInvariant, Made, IsReport
<1>2. OptimizerValuePinned(optimizer.version) /\ OptimizerValuePinned(optimizer.statistics)
  <2>1. "optimizer_not_pinned" \notin warnings /\ "statistics_package_not_pinned" \notin warnings
    <3> HIDE DEF warnings
    <3> QED
        BY <1>1 DEF OptimizerPinningWarnings, CheckWarnings
  <2>2. "optimizer_not_pinned" \in warnings <=> ~OptimizerValuePinned(optimizer.version)
      BY DEF EnvironmentWarnings
  <2>3. "statistics_package_not_pinned" \in warnings <=> ~OptimizerValuePinned(optimizer.statistics)
      BY DEF EnvironmentWarnings
  <2> QED
      BY <2>1, <2>2, <2>3
<1>3. optimizer.version = ValueOrNotPinned(flags.version) /\ optimizer.statistics = ValueOrNotPinned(flags.statistics)
    BY DEF ResolvedOptimizer
<1>4. SentOptimizer(optimizer)[f] = IF optimizer[f] = "not_pinned" THEN "" ELSE optimizer[f]
    BY DEF SentOptimizer
<1> HIDE DEF optimizer, flags
<1>5. Lower(SentOptimizer(optimizer)[f]) \notin MovingValues
  <2>1. CASE f = "version"
      BY <1>2, <1>3, <1>4, <2>1, PinnedValuesAreSent
  <2>2. CASE f = "statistics"
      BY <1>2, <1>3, <1>4, <2>2, PinnedValuesAreSent
  <2> QED
      BY <2>1, <2>2
<1> QED
    BY <1>5 DEF MovingValues, optimizer, flags

-----------------------------------------------------------------------------
(* Outcome, counts, umbrella counts, the operators shown for a failure and   *)
(* the text for people agree in every report.                                *)
THEOREM EntriesStayInAgreement == CaseSpec => []EntriesAgree
<1>1. CaseInvariant => EntriesAgree
    BY OutcomesStand, FailuresStand, CountsStand, MarkdownStands DEF EntriesAgree
<1> QED
    BY <1>1, ReportsAreMade, PTL

(* What a report claims of itself holds: replays, digests, identities and    *)
(* pinning.                                                                  *)
THEOREM ReportsAreTrue == CaseSpec => []ReportsVouch
<1>1. CaseInvariant => ReportsVouch
    BY ReplaysStand, DigestsStand, IdentitiesStand, PinningStands DEF ReportsVouch
<1> QED
    BY <1>1, ReportsAreMade, PTL

-----------------------------------------------------------------------------
(* Findings of the vocabulary                                               *)

LEMMA TokensSettle ==
  ASSUME NEW w
  PROVE  Trim(Trim(w)) = Trim(w) /\ Token(Trim(w)) = Token(w) /\ Token(Token(w)) = Token(w)
<1>1. Trim(w) \notin DOMAIN Trimmed
    BY WordsAssumption DEF Trim
<1>2. Token(w) \notin DOMAIN Trimmed /\ Token(w) \notin DOMAIN LowerCased
  <2> DEFINE u == Trim(w)
  <2>1. Token(w) = Lower(u)
      BY DEF Token
  <2> HIDE DEF u
  <2>2. u \notin DOMAIN Trimmed
      BY <1>1 DEF u
  <2> QED
      BY <2>1, <2>2, WordsAssumption DEF Lower
<1>3. Trim(Trim(w)) = Trim(w)
  <2> DEFINE u == Trim(w)
  <2> SUFFICES Trim(u) = u
      OBVIOUS
  <2>1. u \notin DOMAIN Trimmed
      BY <1>1
  <2> HIDE DEF u
  <2> QED
      BY <2>1 DEF Trim
<1>4. Token(Trim(w)) = Token(w)
    BY <1>3 DEF Token
<1>5. Token(Token(w)) = Token(w)
  <2> DEFINE u == Token(w)
  <2> SUFFICES Token(u) = u
      OBVIOUS
  <2>1. u \notin DOMAIN Trimmed /\ u \notin DOMAIN LowerCased
      BY <1>2
  <2> HIDE DEF u
  <2> QED
      BY <2>1 DEF Token, Trim, Lower
<1> QED
    BY <1>3, <1>4, <1>5

(* The catalog is asked by the token of the name alone.                      *)
LEMMA NameDecides ==
  ASSUME NEW n, NEW m, Token(n.name) = Token(m.name)
  PROVE  /\ KnownOperator(n) <=> KnownOperator(m)
         /\ MetadataRules(n) = MetadataRules(m)
         /\ \A k : Enumerated(n, k) <=> Enumerated(m, k)
         /\ \A s : MatchChildLink(n, s) = MatchChildLink(m, s)
<1>1. KnownOperator(n) <=> KnownOperator(m)
    BY DEF KnownOperator
<1>2. MetadataRules(n) = MetadataRules(m)
    BY <1>1 DEF MetadataRules
<1>3. \A k : Enumerated(n, k) <=> Enumerated(m, k)
    BY <1>2 DEF Enumerated
<1>4. \A s : MatchChildLink(n, s) = MatchChildLink(m, s)
    BY DEF MatchChildLink
<1> QED
    BY <1>1, <1>2, <1>3, <1>4

LEMMA QuietFamilies ==
  ASSUME NEW name, NEW family, family \notin {"unknown", "join"}, name # "aggregate"
  PROVE  ClassificationWarnings(<<[name |-> name, family |-> family]>>) = {}
BY DEF ClassificationWarnings

LEMMA IteratorWarning ==
  ASSUME NEW name, NEW family,
         "aggregate_iterator_type_unknown" \in ClassificationWarnings(<<[name |-> name, family |-> family]>>)
  PROVE  name = "aggregate"
BY DEF ClassificationWarnings

(* What InspectNode says, with the sets of its LET named.                    *)
WarningsAt(plan, i) ==
  ClassificationWarnings(<<[name |-> Token(plan[i].name), family |-> Family(Classified(plan), i)]>>)
KeysAt(plan, i)   == {k \in Fields(plan[i]) : KnownOperator(plan[i]) /\ k \notin DOMAIN MetadataRules(plan[i])}
ValuesAt(plan, i) == {k \in Fields(plan[i]) : KnownOperator(plan[i]) /\ Enumerated(plan[i], k) /\ ~KnownValue(plan[i], k)}
LinksAt(plan, i)  == IF KnownOperator(plan[i]) THEN UnknownLinks(plan, i) ELSE {}
RepeatedAt(plan, i) == IF KnownOperator(plan[i]) THEN RepeatedLinks(plan, i) ELSE {}
ReasonsAt(plan, i) ==
  WarningsAt(plan, i)
  \cup {r \in {"catalog_entry_missing"} : ~KnownOperator(plan[i]) /\ WarningsAt(plan, i) = {}}
  \cup {r \in {"unexpected_operator_kind"} :
          KnownOperator(plan[i]) /\ plan[i].kind \notin {"unspecified", Catalog[Token(plan[i].name)].kind}}
  \cup {r \in {"unknown_metadata_key"} : KeysAt(plan, i) # {}}
  \cup {r \in {"unknown_metadata_value"} : ValuesAt(plan, i) # {}}
  \cup {r \in {"unknown_child_link"} : LinksAt(plan, i) # {}}
  \cup {r \in {"unexpected_child_link_multiplicity"} : RepeatedAt(plan, i) # {}}
ShapesAt(plan, i) == {MetadataShape(plan[i], k) : k \in Fields(plan[i])}
IteratorAt(plan, i) ==
  IF "aggregate_iterator_type_unknown" \in WarningsAt(plan, i) THEN MetadataString(plan[i], "iterator_type") ELSE ""

LEMMA FindingFields ==
  ASSUME NEW plan, NEW i
  PROVE  InspectNode(plan, i) =
           [at |-> i, name |-> Trim(plan[i].name), kind |-> plan[i].kind, reasons |-> ReasonsAt(plan, i),
            metadata |-> ShapesAt(plan, i), links |-> AggregateChildLinks(plan, i), unknownKeys |-> KeysAt(plan, i),
            unknownValues |-> {MetadataShape(plan[i], k) : k \in ValuesAt(plan, i)},
            unknownLinks |-> LinksAt(plan, i) \cup RepeatedAt(plan, i), iteratorType |-> IteratorAt(plan, i)]
<1>1. WarningsAt(plan, i) = ClassificationWarnings(<<[name |-> Token(plan[i].name), family |-> Family(Classified(plan), i)]>>)
    BY DEF WarningsAt
<1> QED
    BY Zenon DEF InspectNode, WarningsAt, KeysAt, ValuesAt, LinksAt, RepeatedAt, ReasonsAt, ShapesAt, IteratorAt

(* A fingerprint determines what a finding shows: keys, values and links that *)
(* are unknown, by the name's token alone.                                    *)
NamedNode(name) == [name |-> name]
UnknownKeysIn(f) ==
  {x.key : x \in {y \in f.metadata :
                    KnownOperator(NamedNode(f.name)) /\ y.key \notin DOMAIN MetadataRules(NamedNode(f.name))}}
UnknownValuesIn(f) ==
  {x \in f.metadata : /\ KnownOperator(NamedNode(f.name)) /\ Enumerated(NamedNode(f.name), x.key)
                      /\ x.value \notin MetadataRules(NamedNode(f.name))[x.key]}
UnknownLinksIn(f) ==
  {l \in f.links :
     /\ KnownOperator(NamedNode(f.name))
     /\ \/ MatchChildLink(NamedNode(f.name), l.shape) = {}
        \/ l.repeated /\ \E rule \in MatchChildLink(NamedNode(f.name), l.shape) : rule.multiple = "no"}
IteratorIn(f) ==
  /\ "aggregate_iterator_type_unknown" \notin f.reasons => f.iteratorType = ""
  /\ "aggregate_iterator_type_unknown" \in f.reasons =>
       /\ (\A x \in f.metadata : x.key # "iterator_type") => f.iteratorType = ""
       /\ \A v : [key |-> "iterator_type", value |-> v] \in f.metadata => f.iteratorType = Token(v) \/ v \in {"list", "object"}
Derived(f) ==
  /\ f = [at |-> f.at, name |-> f.name, kind |-> f.kind, reasons |-> f.reasons, metadata |-> f.metadata, links |-> f.links,
          unknownKeys |-> f.unknownKeys, unknownValues |-> f.unknownValues, unknownLinks |-> f.unknownLinks,
          iteratorType |-> f.iteratorType]
  /\ \A x \in f.metadata : x = [key |-> x.key, value |-> x.value]
  /\ f.unknownKeys = UnknownKeysIn(f)
  /\ f.unknownValues = UnknownValuesIn(f)
  /\ f.unknownLinks = UnknownLinksIn(f)
  /\ IteratorIn(f)

LEMMA NamesOfShapes ==
  ASSUME NEW plan, NEW i, NEW k
  PROVE  /\ MetadataShape(plan[i], k).key = k /\ MetadataShape(plan[i], k).value = ShapeValue(plan[i], k)
         /\ MetadataShape(plan[i], k) = [key |-> k, value |-> ShapeValue(plan[i], k)]
BY DEF MetadataShape

LEMMA UnknownKeysShown ==
  ASSUME NEW plan, NEW i, NEW f, f = InspectNode(plan, i)
  PROVE  f.unknownKeys = UnknownKeysIn(f)
<1>1. f.name = Trim(plan[i].name) /\ f.metadata = ShapesAt(plan, i) /\ f.unknownKeys = KeysAt(plan, i)
    BY FindingFields
<1> DEFINE n == NamedNode(f.name)
           node == plan[i]
<1>2. Token(n.name) = Token(node.name)
    BY <1>1, TokensSettle DEF NamedNode
<1>3. (KnownOperator(n) <=> KnownOperator(node)) /\ MetadataRules(n) = MetadataRules(node)
  <2> HIDE DEF n, node
  <2> QED
      BY <1>2, NameDecides
<1>4. UnknownKeysIn(f) = {x.key : x \in {y \in f.metadata : KnownOperator(n) /\ y.key \notin DOMAIN MetadataRules(n)}}
    BY DEF UnknownKeysIn
<1>5. \A x : x \in f.metadata <=> \E k \in Fields(node) : x = MetadataShape(node, k)
    BY <1>1 DEF ShapesAt
<1>6. \A k : MetadataShape(node, k).key = k
    BY DEF MetadataShape
<1>7. KeysAt(plan, i) = {k \in Fields(node) : KnownOperator(node) /\ k \notin DOMAIN MetadataRules(node)}
    BY DEF KeysAt
<1> HIDE DEF n, node
<1>8. \A k : k \in KeysAt(plan, i) <=> k \in Fields(node) /\ KnownOperator(node) /\ k \notin DOMAIN MetadataRules(node)
    BY <1>7
<1>9. \A k : k \in UnknownKeysIn(f) <=>
               \E x \in f.metadata : k = x.key /\ KnownOperator(n) /\ x.key \notin DOMAIN MetadataRules(n)
    BY <1>4
<1>10. ASSUME NEW k \in KeysAt(plan, i) PROVE k \in UnknownKeysIn(f)
  <2>1. MetadataShape(node, k) \in f.metadata /\ MetadataShape(node, k).key = k
      BY <1>5, <1>6, <1>8
  <2> QED
      BY <2>1, <1>3, <1>8, <1>9
<1>11. ASSUME NEW k \in UnknownKeysIn(f) PROVE k \in KeysAt(plan, i)
    BY <1>3, <1>5, <1>6, <1>8, <1>9
<1> QED
    BY <1>1, <1>10, <1>11

LEMMA UnknownValuesShown ==
  ASSUME NEW plan, NEW i, NEW f, f = InspectNode(plan, i)
  PROVE  f.unknownValues = UnknownValuesIn(f)
<1>1. f.name = Trim(plan[i].name) /\ f.metadata = ShapesAt(plan, i)
      /\ f.unknownValues = {MetadataShape(plan[i], k) : k \in ValuesAt(plan, i)}
    BY FindingFields
<1> DEFINE n == NamedNode(f.name)
           node == plan[i]
<1>2. Token(n.name) = Token(node.name)
    BY <1>1, TokensSettle DEF NamedNode
<1>3. (KnownOperator(n) <=> KnownOperator(node)) /\ MetadataRules(n) = MetadataRules(node)
      /\ \A k : Enumerated(n, k) <=> Enumerated(node, k)
  <2> HIDE DEF n, node
  <2> QED
      BY <1>2, NameDecides
<1>4. \A x : x \in UnknownValuesIn(f) <=>
               x \in f.metadata /\ KnownOperator(n) /\ Enumerated(n, x.key) /\ x.value \notin MetadataRules(n)[x.key]
    BY DEF UnknownValuesIn
<1>5. \A x : x \in f.metadata <=> \E k \in Fields(node) : x = MetadataShape(node, k)
    BY <1>1 DEF ShapesAt
<1>6. \A k : MetadataShape(node, k).key = k /\ MetadataShape(node, k).value = ShapeValue(node, k)
    BY DEF MetadataShape
<1>7. \A k : k \in ValuesAt(plan, i) <=> k \in Fields(node) /\ KnownOperator(node) /\ Enumerated(node, k) /\ ~KnownValue(node, k)
    BY DEF ValuesAt
<1>8. \A k : Enumerated(node, k) => (KnownValue(node, k) <=> ShapeValue(node, k) \in MetadataRules(node)[k])
    BY DEF KnownValue, ShapeValue
<1>9. \A x : x \in f.unknownValues <=> \E k \in ValuesAt(plan, i) : x = MetadataShape(node, k)
    BY <1>1
<1> HIDE DEF n, node
<1>10. ASSUME NEW x \in f.unknownValues PROVE x \in UnknownValuesIn(f)
  <2>1. PICK k \in ValuesAt(plan, i) : x = MetadataShape(node, k)
      BY <1>9
  <2>2. k \in Fields(node) /\ KnownOperator(node) /\ Enumerated(node, k) /\ ShapeValue(node, k) \notin MetadataRules(node)[k]
      BY <1>7, <1>8
  <2>3. x.key = k /\ x.value = ShapeValue(node, k)
      BY <1>6, <2>1
  <2> QED
      BY <1>3, <1>4, <1>5, <2>1, <2>2, <2>3
<1>11. ASSUME NEW x \in UnknownValuesIn(f) PROVE x \in f.unknownValues
  <2>1. PICK k \in Fields(node) : x = MetadataShape(node, k)
      BY <1>4, <1>5
  <2>2. x.key = k /\ x.value = ShapeValue(node, k)
      BY <1>6, <2>1
  <2>3. KnownOperator(node) /\ Enumerated(node, k) /\ ShapeValue(node, k) \notin MetadataRules(node)[k]
      BY <1>3, <1>4, <2>2
  <2> QED
      BY <1>7, <1>8, <1>9, <2>1, <2>3
<1> QED
    BY <1>10, <1>11

LEMMA UnknownLinksShown ==
  ASSUME NEW plan, NEW i, NEW f, f = InspectNode(plan, i)
  PROVE  f.unknownLinks = UnknownLinksIn(f)
<1>1. f.name = Trim(plan[i].name) /\ f.links = AggregateChildLinks(plan, i)
      /\ f.unknownLinks = LinksAt(plan, i) \cup RepeatedAt(plan, i)
    BY FindingFields
<1> DEFINE n == NamedNode(f.name)
           node == plan[i]
<1>2. Token(n.name) = Token(node.name)
    BY <1>1, TokensSettle DEF NamedNode
<1>3. (KnownOperator(n) <=> KnownOperator(node)) /\ \A s : MatchChildLink(n, s) = MatchChildLink(node, s)
  <2> HIDE DEF n, node
  <2> QED
      BY <1>2, NameDecides
<1>4. \A l : l \in LinksAt(plan, i) <=>
               KnownOperator(node) /\ l \in AggregateChildLinks(plan, i) /\ MatchChildLink(node, l.shape) = {}
    BY DEF LinksAt, UnknownLinks
<1>5. \A l : l \in RepeatedAt(plan, i) <=>
               /\ KnownOperator(node) /\ l \in AggregateChildLinks(plan, i)
               /\ l.repeated /\ \E rule \in MatchChildLink(node, l.shape) : rule.multiple = "no"
    BY DEF RepeatedAt, RepeatedLinks
<1>6. \A l : l \in UnknownLinksIn(f) <=>
               /\ l \in f.links /\ KnownOperator(n)
               /\ \/ MatchChildLink(n, l.shape) = {}
                  \/ l.repeated /\ \E rule \in MatchChildLink(n, l.shape) : rule.multiple = "no"
    BY DEF UnknownLinksIn
<1> HIDE DEF n, node
<1> QED
    BY <1>1, <1>3, <1>4, <1>5, <1>6

LEMMA IteratorShown ==
  ASSUME NEW plan \in RawPlans, NEW i \in DOMAIN plan, NEW f, f = InspectNode(plan, i)
  PROVE  IteratorIn(f)
<1> DEFINE node     == plan[i]
           warnings == WarningsAt(plan, i)
           unknown  == "aggregate_iterator_type_unknown"
<1>1. f.reasons = ReasonsAt(plan, i) /\ f.metadata = ShapesAt(plan, i) /\ f.iteratorType = IteratorAt(plan, i)
    BY FindingFields
<1>2. unknown \in f.reasons <=> unknown \in warnings
    BY <1>1 DEF ReasonsAt
<1>3. f.iteratorType = IF unknown \in warnings THEN MetadataString(node, "iterator_type") ELSE ""
    BY <1>1 DEF IteratorAt
<1>4. ASSUME unknown \in warnings PROVE Enumerated(node, "iterator_type")
  <2>1. Token(node.name) = "aggregate"
      BY <1>4, IteratorWarning DEF WarningsAt
  <2>2. KnownOperator(node) /\ "iterator_type" \in DOMAIN Catalog[Token(node.name)].metadata
        /\ Catalog[Token(node.name)].metadata["iterator_type"] # {}
      BY <2>1, CatalogAssumption DEF KnownOperator
  <2> HIDE DEF node
  <2>3. "iterator_type" \in DOMAIN MetadataRules(node)
        /\ MetadataRules(node)["iterator_type"] = Catalog[Token(node.name)].metadata["iterator_type"]
      BY <2>2 DEF MetadataRules
  <2> QED
      BY <2>2, <2>3 DEF Enumerated
<1>5. \A x : x \in f.metadata <=> \E k \in Fields(node) : x = MetadataShape(node, k)
    BY <1>1 DEF ShapesAt
<1>6. \A k : MetadataShape(node, k).key = k /\ MetadataShape(node, k).value = ShapeValue(node, k)
    BY DEF MetadataShape
<1>7. ASSUME NEW k \in Fields(node)
      PROVE  node.metadata[k].type \in {"string", "number", "bool", "list", "object"}
    BY PlansAssumption DEF IsRawNode, Fields, ValueTypes
<1>8. ASSUME unknown \in warnings, \A x \in f.metadata : x.key # "iterator_type" PROVE f.iteratorType = ""
  <2>1. "iterator_type" \notin Fields(node)
      BY <1>5, <1>6, <1>8
  <2> HIDE DEF node
  <2> QED
      BY <1>3, <1>8, <2>1 DEF MetadataString
<1>9. ASSUME unknown \in warnings, NEW v, [key |-> "iterator_type", value |-> v] \in f.metadata
      PROVE  f.iteratorType = Token(v) \/ v \in {"list", "object"}
  <2>1. PICK k \in Fields(node) : [key |-> "iterator_type", value |-> v] = MetadataShape(node, k)
      BY <1>5, <1>9
  <2>2. k = "iterator_type" /\ v = ShapeValue(node, k)
      BY <1>6, <2>1
  <2> DEFINE value == node.metadata[k]
  <2>3. v = NormalizedValue(value)
      BY <1>4, <1>9, <2>2 DEF ShapeValue
  <2>4. f.iteratorType = Token(value.text)
      BY <1>3, <1>9, <2>2 DEF MetadataString
  <2>5. value.type \in {"string", "number", "bool", "list", "object"}
      BY <1>7
  <2> HIDE DEF value, node
  <2>6. CASE value.type = "string"
      BY <2>3, <2>4, <2>6, TokensSettle DEF NormalizedValue
  <2>7. CASE value.type \in {"number", "bool"}
      BY <2>3, <2>4, <2>7 DEF NormalizedValue
  <2>8. CASE value.type \in {"list", "object"}
      BY <2>3, <2>8 DEF NormalizedValue
  <2> QED
      BY <2>5, <2>6, <2>7, <2>8
<1> HIDE DEF node, warnings
<1> QED
    BY <1>2, <1>3, <1>8, <1>9 DEF IteratorIn

LEMMA FindingsDerive ==
  ASSUME NEW plan \in RawPlans, NEW i \in DOMAIN plan, NEW f, f = InspectNode(plan, i)
  PROVE  Derived(f)
<1>1. f = [at |-> f.at, name |-> f.name, kind |-> f.kind, reasons |-> f.reasons, metadata |-> f.metadata, links |-> f.links,
           unknownKeys |-> f.unknownKeys, unknownValues |-> f.unknownValues, unknownLinks |-> f.unknownLinks,
           iteratorType |-> f.iteratorType]
    BY FindingFields
<1>2. \A x \in f.metadata : x = [key |-> x.key, value |-> x.value]
  <2>1. f.metadata = ShapesAt(plan, i)
      BY FindingFields
  <2> QED
      BY <2>1 DEF ShapesAt, MetadataShape
<1> QED
    BY <1>1, <1>2, UnknownKeysShown, UnknownValuesShown, UnknownLinksShown, IteratorShown DEF Derived

FindingOf(at, name, kind, reasons, metadata, links, keys, values, unknown, type) ==
  [at |-> at, name |-> name, kind |-> kind, reasons |-> reasons, metadata |-> metadata, links |-> links,
   unknownKeys |-> keys, unknownValues |-> values, unknownLinks |-> unknown, iteratorType |-> type]
Moved(f, at, name, type) == [f EXCEPT !.at = at, !.name = name, !.iteratorType = type]

LEMMA OtherPlace ==
  ASSUME NEW at, NEW name, NEW type, NEW place, NEW spelling, NEW word, NEW kind, NEW reasons, NEW metadata, NEW links,
         NEW keys, NEW values, NEW unknown
  PROVE  Moved(FindingOf(at, name, kind, reasons, metadata, links, keys, values, unknown, type), place, spelling, word) =
           FindingOf(place, spelling, kind, reasons, metadata, links, keys, values, unknown, word)
<1> DEFINE f == FindingOf(at, name, kind, reasons, metadata, links, keys, values, unknown, type)
           g == [f EXCEPT !.at = place]
           h == [g EXCEPT !.name = spelling]
<1>1. g = FindingOf(place, name, kind, reasons, metadata, links, keys, values, unknown, type)
    BY DEF FindingOf
<1>2. Moved(f, place, spelling, word) = [h EXCEPT !.iteratorType = word]
    BY DEF Moved
<1> HIDE DEF f, g
<1>3. h = FindingOf(place, spelling, kind, reasons, metadata, links, keys, values, unknown, type)
    BY <1>1 DEF FindingOf
<1> HIDE DEF h
<1>4. [h EXCEPT !.iteratorType = word] = FindingOf(place, spelling, kind, reasons, metadata, links, keys, values, unknown, word)
    BY <1>3 DEF FindingOf
<1> QED
    BY <1>2, <1>4 DEF f

LEMMA SameFingerprintSameFinding ==
  ASSUME NEW f, NEW g, Derived(f), Derived(g), Fingerprint(f) = Fingerprint(g)
  PROVE  /\ [f EXCEPT !.at = g.at, !.name = g.name, !.iteratorType = g.iteratorType] = g
         /\ \/ f.iteratorType = g.iteratorType
            \/ \E v \in {"list", "object"} : [key |-> "iterator_type", value |-> v] \in f.metadata
<1>1. /\ Token(f.name) = Token(g.name) /\ f.kind = g.kind /\ f.reasons = g.reasons
      /\ f.metadata = g.metadata /\ f.links = g.links
    BY DEF Fingerprint
<1> DEFINE n == NamedNode(f.name)
           m == NamedNode(g.name)
<1>2. Token(n.name) = Token(m.name)
    BY <1>1 DEF NamedNode
<1>3. /\ KnownOperator(n) <=> KnownOperator(m)
      /\ MetadataRules(n) = MetadataRules(m)
      /\ \A k : Enumerated(n, k) <=> Enumerated(m, k)
      /\ \A s : MatchChildLink(n, s) = MatchChildLink(m, s)
  <2> HIDE DEF n, m
  <2> QED
      BY <1>2, NameDecides
<1>4. UnknownKeysIn(f) = UnknownKeysIn(g)
    BY <1>1, <1>3 DEF UnknownKeysIn
<1>5. UnknownValuesIn(f) = UnknownValuesIn(g)
    BY <1>1, <1>3 DEF UnknownValuesIn
<1>6. UnknownLinksIn(f) = UnknownLinksIn(g)
    BY <1>1, <1>3 DEF UnknownLinksIn
<1>7. f.unknownKeys = g.unknownKeys /\ f.unknownValues = g.unknownValues /\ f.unknownLinks = g.unknownLinks
    BY <1>4, <1>5, <1>6 DEF Derived
<1>8. [f EXCEPT !.at = g.at, !.name = g.name, !.iteratorType = g.iteratorType] = g
  <2>1. f = FindingOf(f.at, f.name, f.kind, f.reasons, f.metadata, f.links,
                      f.unknownKeys, f.unknownValues, f.unknownLinks, f.iteratorType)
      BY Zenon DEF Derived, FindingOf
  <2>2. g = FindingOf(g.at, g.name, g.kind, g.reasons, g.metadata, g.links,
                      g.unknownKeys, g.unknownValues, g.unknownLinks, g.iteratorType)
      BY Zenon DEF Derived, FindingOf
  <2>3. Moved(f, g.at, g.name, g.iteratorType) =
          FindingOf(g.at, g.name, f.kind, f.reasons, f.metadata, f.links,
                    f.unknownKeys, f.unknownValues, f.unknownLinks, g.iteratorType)
      BY <2>1, OtherPlace
  <2>4. Moved(f, g.at, g.name, g.iteratorType) = g
      BY <1>1, <1>7, <2>2, <2>3
  <2> QED
      BY <2>4 DEF Moved
<1>9. \/ f.iteratorType = g.iteratorType
      \/ \E v \in {"list", "object"} : [key |-> "iterator_type", value |-> v] \in f.metadata
  <2>1. IteratorIn(f) /\ IteratorIn(g)
      BY DEF Derived
  <2>2. CASE "aggregate_iterator_type_unknown" \notin f.reasons
      BY <1>1, <2>1, <2>2 DEF IteratorIn
  <2>3. CASE "aggregate_iterator_type_unknown" \in f.reasons /\ \A x \in f.metadata : x.key # "iterator_type"
      BY <1>1, <2>1, <2>3 DEF IteratorIn
  <2>4. ASSUME "aggregate_iterator_type_unknown" \in f.reasons, NEW x \in f.metadata, x.key = "iterator_type"
        PROVE  f.iteratorType = g.iteratorType \/ \E v \in {"list", "object"} : [key |-> "iterator_type", value |-> v] \in f.metadata
    <3>1. x = [key |-> "iterator_type", value |-> x.value]
        BY <2>4 DEF Derived
    <3>2. f.iteratorType = Token(x.value) \/ x.value \in {"list", "object"}
        BY <2>1, <2>4, <3>1 DEF IteratorIn
    <3>3. g.iteratorType = Token(x.value) \/ x.value \in {"list", "object"}
        BY <1>1, <2>1, <2>4, <3>1 DEF IteratorIn
    <3> QED
        BY <2>4, <3>1, <3>2, <3>3
  <2> QED
      BY <2>2, <2>3, <2>4
<1> QED
    BY <1>8, <1>9

(* What an inspected plan is answered with.                                  *)
PlanInvariant ==
  /\ matter.of = "plan" => matter.input \in RawPlans
  /\ Made("plan") => /\ made.findings = Inspect(matter.input)
                     /\ \A p \in Patterns : made.mismatches[p] = Mismatches(matter.input, p)

LEMMA PlansAreInspected == CaseSpec => []PlanInvariant
<1>1. CaseInit => PlanInvariant
  <2> SUFFICES ASSUME CaseInit PROVE PlanInvariant
      OBVIOUS
  <2>1. made.of = "nothing"
      BY DEF CaseInit, Nothing
  <2>2. ASSUME matter.of = "plan" PROVE matter.input \in RawPlans
      BY <2>2 DEF CaseInit, AllCases, Case
  <2> QED
      BY <2>1, <2>2 DEF PlanInvariant, Made
<1>2. PlanInvariant /\ [CaseStep]_<<matter, made>> => PlanInvariant'
  <2> SUFFICES ASSUME PlanInvariant, [CaseStep]_<<matter, made>> PROVE PlanInvariant'
      OBVIOUS
  <2>1. matter' = matter
      BY DEF CaseStep, ReadFile, MakeReport, InspectPlan, RunCheck
  <2>2. CASE UNCHANGED <<matter, made>>
      BY <2>2 DEF PlanInvariant, Made
  <2>3. CASE ReadFile \/ MakeReport \/ RunCheck
    <3>1. matter.of # "plan"
        BY <2>3 DEF ReadFile, MakeReport, RunCheck
    <3> QED
        BY <2>1, <3>1 DEF PlanInvariant, Made
  <2>4. CASE InspectPlan
    <3>1. made' = [of |-> "plan", findings |-> Inspect(matter.input),
                   mismatches |-> [p \in Patterns |-> Mismatches(matter.input, p)]]
        BY <2>4 DEF InspectPlan
    <3> QED
        BY <2>1, <3>1 DEF PlanInvariant
  <2> QED
      BY <2>2, <2>3, <2>4 DEF CaseStep
<1> QED
    BY <1>1, <1>2, PTL DEF CaseSpec

LEMMA FingerprintsStand == ASSUME PlanInvariant PROVE FingerprintStandsForFinding
<1> SUFFICES ASSUME Made("plan"), NEW f \in made.findings, NEW g \in Findings, Fingerprint(f) = Fingerprint(g)
             PROVE  /\ [f EXCEPT !.at = g.at, !.name = g.name, !.iteratorType = g.iteratorType] = g
                    /\ \/ f.iteratorType = g.iteratorType
                       \/ \E v \in {"list", "object"} : [key |-> "iterator_type", value |-> v] \in f.metadata
    BY Zenon DEF FingerprintStandsForFinding
<1>1. ASSUME NEW plan \in RawPlans, NEW x \in Inspect(plan) PROVE Derived(x)
  <2>1. PICK i \in DOMAIN plan : x = InspectNode(plan, i)
      BY <1>1 DEF Inspect
  <2> QED
      BY <2>1, FindingsDerive
<1>2. Derived(f)
    BY <1>1 DEF PlanInvariant, Made
<1>3. Derived(g)
    BY <1>1 DEF Findings
<1> QED
    BY <1>2, <1>3, SameFingerprintSameFinding

-----------------------------------------------------------------------------
(* Other identifiers                                                        *)

LEMMA MaskedNodes ==
  ASSUME NEW plan \in RawPlans
  PROVE  /\ DOMAIN Masked(plan) = DOMAIN plan
         /\ \A i \in DOMAIN plan :
              LET node == plan[i]
                  mask == Masked(plan)[i]
              IN  /\ mask.name = node.name /\ mask.kind = node.kind
                  /\ DOMAIN mask.metadata = DOMAIN node.metadata /\ DOMAIN mask.links = DOMAIN node.links
                  /\ \A k \in DOMAIN node.metadata :
                       /\ mask.metadata[k].type = node.metadata[k].type
                       /\ Enumerated(node, k) => mask.metadata[k] = node.metadata[k]
                  /\ \A k \in DOMAIN node.links :
                       /\ mask.links[k].to = node.links[k].to /\ mask.links[k].type = node.links[k].type
                       /\ Trim(mask.links[k].variable) = "" <=> Trim(node.links[k].variable) = ""
<1>1. DOMAIN Masked(plan) = DOMAIN plan
    BY DEF Masked
<1>2. ASSUME NEW i \in DOMAIN plan
      PROVE  LET node == plan[i]
                 mask == Masked(plan)[i]
             IN  /\ mask.name = node.name /\ mask.kind = node.kind
                 /\ DOMAIN mask.metadata = DOMAIN node.metadata /\ DOMAIN mask.links = DOMAIN node.links
                 /\ \A k \in DOMAIN node.metadata :
                      /\ mask.metadata[k].type = node.metadata[k].type
                      /\ Enumerated(node, k) => mask.metadata[k] = node.metadata[k]
                 /\ \A k \in DOMAIN node.links :
                      /\ mask.links[k].to = node.links[k].to /\ mask.links[k].type = node.links[k].type
                      /\ Trim(mask.links[k].variable) = "" <=> Trim(node.links[k].variable) = ""
  <2> DEFINE node     == plan[i]
             mask     == Masked(plan)[i]
             metadata == MaskedMetadata(node)
             links    == MaskedLinks(node)
  <2>1. mask = [node EXCEPT !.metadata = metadata, !.links = links]
      BY <1>2 DEF Masked
  <2>2. IsRawNode(node)
      BY <1>2, PlansAssumption
  <2>3. /\ mask.name = node.name /\ mask.kind = node.kind /\ mask.metadata = metadata /\ mask.links = links
    <3>1. DOMAIN node = {"name", "kind", "metadata", "links"}
        BY <2>2 DEF IsRawNode
    <3> HIDE DEF node, mask, metadata, links
    <3> QED
        BY <2>1, <3>1
  <2>4. ASSUME NEW k \in DOMAIN node.metadata
        PROVE  /\ metadata[k].type = node.metadata[k].type
               /\ Enumerated(node, k) => metadata[k] = node.metadata[k]
    <3>1. DOMAIN node.metadata[k] = {"type", "text"}
        BY <2>2, <2>4 DEF IsRawNode
    <3>2. metadata[k] = IF Enumerated(node, k) THEN node.metadata[k] ELSE [node.metadata[k] EXCEPT !.text = "masked"]
        BY <2>4 DEF MaskedMetadata
    <3> DEFINE value == node.metadata[k]
    <3>3. [value EXCEPT !.text = "masked"].type = value.type
      <4>1. DOMAIN value = {"type", "text"}
          BY <3>1
      <4> HIDE DEF value
      <4> QED
          BY <4>1
    <3> HIDE DEF metadata, node
    <3> QED
        BY <3>2, <3>3
  <2>5. ASSUME NEW k \in DOMAIN node.links
        PROVE  /\ links[k].to = node.links[k].to /\ links[k].type = node.links[k].type
               /\ Trim(links[k].variable) = "" <=> Trim(node.links[k].variable) = ""
    <3> DEFINE link == node.links[k]
    <3>1. DOMAIN link = {"to", "type", "variable"}
        BY <2>2, <2>5 DEF IsRawNode
    <3>2. links[k] = [link EXCEPT !.variable = IF Trim(@) = "" THEN @ ELSE "masked"]
        BY <2>5 DEF MaskedLinks
    <3> HIDE DEF link, links
    <3> SUFFICES /\ links[k].to = link.to /\ links[k].type = link.type
                 /\ Trim(links[k].variable) = "" <=> Trim(link.variable) = ""
        BY DEF link
    <3> DEFINE word == IF Trim(link.variable) = "" THEN link.variable ELSE "masked"
    <3>3. links[k] = [link EXCEPT !.variable = word]
        BY <3>2
    <3>4. links[k].variable = word /\ links[k].to = link.to /\ links[k].type = link.type
      <4> HIDE DEF word
      <4> QED
          BY <3>1, <3>3
    <3>5. Trim(word) = "" <=> Trim(link.variable) = ""
        BY PlansAssumption
    <3> HIDE DEF word
    <3> QED
        BY <3>4, <3>5
  <2> HIDE DEF node, mask, metadata, links
  <2>6. /\ mask.name = node.name /\ mask.kind = node.kind
        /\ \A k \in DOMAIN node.metadata :
             /\ mask.metadata[k].type = node.metadata[k].type
             /\ Enumerated(node, k) => mask.metadata[k] = node.metadata[k]
      BY <2>3, <2>4
  <2>7. \A k \in DOMAIN node.links :
          /\ mask.links[k].to = node.links[k].to /\ mask.links[k].type = node.links[k].type
          /\ Trim(mask.links[k].variable) = "" <=> Trim(node.links[k].variable) = ""
      BY <2>3, <2>5
  <2>8. DOMAIN mask.metadata = DOMAIN node.metadata /\ DOMAIN mask.links = DOMAIN node.links
      BY <2>3 DEF metadata, links, MaskedMetadata, MaskedLinks
  <2> QED
      BY <2>6, <2>7, <2>8 DEF node, mask
<1> QED
    BY <1>1, <1>2

(* A node and the same with other identifiers; the facts of MaskedNodes.     *)
Alike(node, mask) ==
  /\ mask.name = node.name /\ mask.kind = node.kind
  /\ DOMAIN mask.metadata = DOMAIN node.metadata /\ DOMAIN mask.links = DOMAIN node.links
  /\ \A k \in DOMAIN node.metadata :
       /\ mask.metadata[k].type = node.metadata[k].type
       /\ Enumerated(node, k) => mask.metadata[k] = node.metadata[k]
  /\ \A k \in DOMAIN node.links :
       /\ mask.links[k].to = node.links[k].to /\ mask.links[k].type = node.links[k].type
       /\ Trim(mask.links[k].variable) = "" <=> Trim(node.links[k].variable) = ""

LEMMA MaskedAlike ==
  ASSUME NEW plan \in RawPlans
  PROVE  DOMAIN Masked(plan) = DOMAIN plan /\ \A i \in DOMAIN plan : Alike(plan[i], Masked(plan)[i])
BY MaskedNodes DEF Alike

LEMMA AlikeMetadata ==
  ASSUME NEW node, NEW mask, Alike(node, mask)
  PROVE  /\ Fields(mask) = Fields(node)
         /\ KnownOperator(mask) <=> KnownOperator(node)
         /\ MetadataRules(mask) = MetadataRules(node)
         /\ \A k : Enumerated(mask, k) <=> Enumerated(node, k)
         /\ \A k \in Fields(node) : Enumerated(node, k) => (KnownValue(mask, k) <=> KnownValue(node, k))
         /\ \A k \in Fields(node) : ShapeValue(mask, k) = ShapeValue(node, k)
         /\ Enumerated(node, "iterator_type") => MetadataString(mask, "iterator_type") = MetadataString(node, "iterator_type")
<1>1. Fields(mask) = Fields(node)
    BY DEF Alike, Fields
<1>2. /\ KnownOperator(mask) <=> KnownOperator(node)
      /\ MetadataRules(mask) = MetadataRules(node)
      /\ \A k : Enumerated(mask, k) <=> Enumerated(node, k)
  <2>1. Token(mask.name) = Token(node.name)
      BY DEF Alike
  <2> QED
      BY <2>1, NameDecides
<1>3. \A k \in Fields(node) : mask.metadata[k].type = node.metadata[k].type
                              /\ (Enumerated(node, k) => mask.metadata[k] = node.metadata[k])
    BY DEF Alike, Fields
<1>4. \A k \in Fields(node) : Enumerated(node, k) => (KnownValue(mask, k) <=> KnownValue(node, k))
    BY <1>2, <1>3 DEF KnownValue
<1>5. \A k \in Fields(node) : ShapeValue(mask, k) = ShapeValue(node, k)
    BY <1>2, <1>3 DEF ShapeValue
<1>6. Enumerated(node, "iterator_type") => MetadataString(mask, "iterator_type") = MetadataString(node, "iterator_type")
    BY <1>1, <1>3 DEF MetadataString
<1> QED
    BY <1>1, <1>2, <1>4, <1>5, <1>6

LEMMA MaskedLinksAlike ==
  ASSUME NEW plan \in RawPlans, NEW i \in DOMAIN plan
  PROVE  /\ AggregateChildLinks(Masked(plan), i) = AggregateChildLinks(plan, i)
         /\ \A r : MatchingChildLinks(Masked(plan), i, r) = MatchingChildLinks(plan, i, r)
<1> DEFINE other == Masked(plan)
<1>1. DOMAIN other = DOMAIN plan /\ \A j \in DOMAIN plan : Alike(plan[j], other[j])
    BY MaskedAlike
<1> HIDE DEF other
<1>2. /\ DOMAIN other[i].links = DOMAIN plan[i].links
      /\ \A k \in DOMAIN plan[i].links :
           /\ other[i].links[k].to = plan[i].links[k].to /\ other[i].links[k].type = plan[i].links[k].type
           /\ Trim(other[i].links[k].variable) = "" <=> Trim(plan[i].links[k].variable) = ""
    BY <1>1 DEF Alike
<1>3. \A j \in DOMAIN plan : other[j].kind = plan[j].kind
    BY <1>1 DEF Alike
<1>4. ChildLinks(other, i) = ChildLinks(plan, i)
    BY <1>1, <1>2 DEF ChildLinks
<1>5. ASSUME NEW k \in ChildLinks(plan, i)
      PROVE  ShapeOf(other, other[i].links[k]) = ShapeOf(plan, plan[i].links[k])
  <2>1. k \in DOMAIN plan[i].links /\ plan[i].links[k].to \in DOMAIN plan
      BY <1>5 DEF ChildLinks
  <2> QED
      BY <1>2, <1>3, <2>1 DEF ShapeOf
<1>6. \A s : LinksOfShape(other, i, s) = LinksOfShape(plan, i, s)
    BY <1>4, <1>5 DEF LinksOfShape
<1>7. {ShapeOf(other, other[i].links[k]) : k \in ChildLinks(other, i)} = {ShapeOf(plan, plan[i].links[k]) : k \in ChildLinks(plan, i)}
    BY <1>4, <1>5
<1>8. AggregateChildLinks(other, i) = AggregateChildLinks(plan, i)
    BY <1>6, <1>7 DEF AggregateChildLinks
<1>9. \A r : MatchingChildLinks(other, i, r) = MatchingChildLinks(plan, i, r)
    BY <1>1, <1>2, <1>3 DEF MatchingChildLinks
<1> QED
    BY <1>8, <1>9 DEF other

(* Names whose family may depend on other nodes or on the kind of a scan     *)
(* never make a warning.                                                     *)
Wrapped == {"hash join"} \cup CrossApply \cup SemiApply
Scans   == {"scan", "table scan", "index scan"}

LEMMA WrappedFamilies ==
  ASSUME NEW plan, NEW i, plan[i].name \in Wrapped
  PROVE  Family(plan, i) \notin {"unknown", "join"} /\ plan[i].name # "aggregate"
<1>1. OperatorFamily(plan[i]) \in {"hash_join", "apply_join", "semi_apply", "anti_semi_apply"}
    BY DEF Wrapped, OperatorFamily, CrossApply, SemiApply, AntiSemiApply, PushBroadcast, DistributedCross
<1> QED
    BY <1>1 DEF Wrapped, Family, CrossApply, SemiApply, AntiSemiApply

LEMMA ScanFamilies ==
  ASSUME NEW plan, NEW i, plan[i].name \in Scans
  PROVE  Family(plan, i) \notin {"unknown", "join"} /\ plan[i].name # "aggregate"
<1>1. OperatorFamily(plan[i]) \in {"scan", "filter_scan"}
    BY DEF Scans, OperatorFamily, CrossApply, SemiApply, AntiSemiApply, PushBroadcast, DistributedCross
<1> QED
    BY <1>1 DEF Scans, Family, CrossApply, SemiApply, AntiSemiApply

LEMMA OtherFamilies ==
  ASSUME NEW plan, NEW other, NEW i, plan[i].name \notin Wrapped \cup Scans,
         other[i].name = plan[i].name, other[i].kind = plan[i].kind,
         plan[i].name = "aggregate" => \A f \in {"hash", "stream"} : f \in other[i].meta <=> f \in plan[i].meta
  PROVE  Family(other, i) = Family(plan, i)
<1>1. OperatorFamily(other[i]) = OperatorFamily(plan[i])
  <2>1. CASE plan[i].name = "aggregate"
      BY <2>1 DEF OperatorFamily
  <2>2. CASE plan[i].name # "aggregate"
      BY <2>2 DEF Scans, OperatorFamily, CrossApply, SemiApply, AntiSemiApply, PushBroadcast, DistributedCross
  <2> QED
      BY <2>1, <2>2
<1>2. Family(plan, i) = IF OperatorFamily(plan[i]) = "unknown" /\ plan[i].kind = "scalar" THEN "scalar" ELSE OperatorFamily(plan[i])
    BY DEF Wrapped, Family
<1>3. Family(other, i) = IF OperatorFamily(other[i]) = "unknown" /\ other[i].kind = "scalar" THEN "scalar" ELSE OperatorFamily(other[i])
    BY DEF Wrapped, Family
<1> QED
    BY <1>1, <1>2, <1>3

LEMMA AggregatesAreListed ==
  ASSUME NEW node, Token(node.name) = "aggregate"
  PROVE  Enumerated(node, "iterator_type")
<1>1. KnownOperator(node) /\ "iterator_type" \in DOMAIN Catalog[Token(node.name)].metadata
      /\ Catalog[Token(node.name)].metadata["iterator_type"] # {}
    BY CatalogAssumption DEF KnownOperator
<1>2. "iterator_type" \in DOMAIN MetadataRules(node)
      /\ MetadataRules(node)["iterator_type"] = Catalog[Token(node.name)].metadata["iterator_type"]
    BY <1>1 DEF MetadataRules
<1> QED
    BY <1>1, <1>2 DEF Enumerated

LEMMA SameWarnings ==
  ASSUME NEW plan \in RawPlans, NEW i \in DOMAIN plan
  PROVE  WarningsAt(Masked(plan), i) = WarningsAt(plan, i)
<1> DEFINE other == Masked(plan)
           here  == Classified(plan)
           there == Classified(other)
           word  == Token(plan[i].name)
<1>1. DOMAIN other = DOMAIN plan /\ Alike(plan[i], other[i])
    BY MaskedAlike
<1> HIDE DEF other
<1>2. other[i].name = plan[i].name /\ other[i].kind = plan[i].kind
    BY <1>1 DEF Alike
<1>3. /\ here[i].name = word /\ here[i].kind = plan[i].kind /\ here[i].meta = MetadataFlags(plan[i])
      /\ there[i].name = word /\ there[i].kind = plan[i].kind /\ there[i].meta = MetadataFlags(other[i])
    BY <1>1, <1>2 DEF Classified
<1>4. ASSUME word = "aggregate", NEW f \in {"hash", "stream"} PROVE f \in there[i].meta <=> f \in here[i].meta
  <2>1. MetadataString(other[i], "iterator_type") = MetadataString(plan[i], "iterator_type")
      BY <1>1, <1>4, AggregatesAreListed, AlikeMetadata
  <2>2. \A node : f \in MetadataFlags(node) <=> MetadataString(node, "iterator_type") = f
      BY DEF MetadataFlags
  <2> HIDE DEF here, there
  <2> QED
      BY <1>3, <2>1, <2>2
<1>5. /\ WarningsAt(plan, i) = ClassificationWarnings(<<[name |-> word, family |-> Family(here, i)]>>)
      /\ WarningsAt(other, i) = ClassificationWarnings(<<[name |-> word, family |-> Family(there, i)]>>)
    BY <1>2 DEF WarningsAt
<1> HIDE DEF here, there, word
<1>6. CASE word \in Wrapped
  <2>1. Family(here, i) \notin {"unknown", "join"} /\ Family(there, i) \notin {"unknown", "join"} /\ word # "aggregate"
      BY <1>3, <1>6, WrappedFamilies
  <2> QED
      BY <1>5, <2>1, QuietFamilies DEF other
<1>7. CASE word \in Scans
  <2>1. Family(here, i) \notin {"unknown", "join"} /\ Family(there, i) \notin {"unknown", "join"} /\ word # "aggregate"
      BY <1>3, <1>7, ScanFamilies
  <2> QED
      BY <1>5, <2>1, QuietFamilies DEF other
<1>8. CASE word \notin Wrapped \cup Scans
  <2>1. Family(there, i) = Family(here, i)
      BY <1>3, <1>4, <1>8, OtherFamilies
  <2> QED
      BY <1>5, <2>1 DEF other
<1> QED
    BY <1>6, <1>7, <1>8

LEMMA SameFindings ==
  ASSUME NEW plan \in RawPlans, NEW i \in DOMAIN plan
  PROVE  InspectNode(Masked(plan), i) = InspectNode(plan, i)
<1> DEFINE other == Masked(plan)
           node  == plan[i]
           mask  == other[i]
<1>1. Alike(node, mask)
    BY MaskedAlike
<1>2. mask.name = node.name /\ mask.kind = node.kind
    BY <1>1 DEF Alike
<1>3. WarningsAt(other, i) = WarningsAt(plan, i)
    BY SameWarnings
<1>4. AggregateChildLinks(other, i) = AggregateChildLinks(plan, i)
    BY MaskedLinksAlike
<1> HIDE DEF other, node, mask
<1>5. /\ Fields(mask) = Fields(node)
      /\ KnownOperator(mask) <=> KnownOperator(node)
      /\ MetadataRules(mask) = MetadataRules(node)
      /\ \A k : Enumerated(mask, k) <=> Enumerated(node, k)
      /\ \A k \in Fields(node) : Enumerated(node, k) => (KnownValue(mask, k) <=> KnownValue(node, k))
      /\ \A k \in Fields(node) : ShapeValue(mask, k) = ShapeValue(node, k)
      /\ Enumerated(node, "iterator_type") => MetadataString(mask, "iterator_type") = MetadataString(node, "iterator_type")
    BY <1>1, AlikeMetadata
<1>6. \A k \in Fields(node) : MetadataShape(mask, k) = MetadataShape(node, k)
    BY <1>5 DEF MetadataShape
<1>7. KeysAt(other, i) = KeysAt(plan, i)
    BY <1>5 DEF KeysAt, mask, node
<1>8. ValuesAt(other, i) = ValuesAt(plan, i)
    BY <1>5 DEF ValuesAt, mask, node
<1>9. ShapesAt(other, i) = ShapesAt(plan, i)
  <2>1. ShapesAt(other, i) = {MetadataShape(mask, k) : k \in Fields(mask)} /\ ShapesAt(plan, i) = {MetadataShape(node, k) : k \in Fields(node)}
      BY DEF ShapesAt, mask, node
  <2> QED
      BY <1>5, <1>6, <2>1
<1>10. {MetadataShape(mask, k) : k \in ValuesAt(other, i)} = {MetadataShape(node, k) : k \in ValuesAt(plan, i)}
  <2>1. \A k \in ValuesAt(plan, i) : k \in Fields(node)
      BY DEF ValuesAt, node
  <2> QED
      BY <1>6, <1>8, <2>1
<1>11. \A s : MatchChildLink(mask, s) = MatchChildLink(node, s)
    BY <1>2, NameDecides
<1>12. LinksAt(other, i) = LinksAt(plan, i) /\ RepeatedAt(other, i) = RepeatedAt(plan, i)
  <2>1. UnknownLinks(other, i) = UnknownLinks(plan, i)
      BY <1>4, <1>11 DEF UnknownLinks, mask, node
  <2>2. RepeatedLinks(other, i) = RepeatedLinks(plan, i)
      BY <1>4, <1>11 DEF RepeatedLinks, mask, node
  <2> QED
      BY <1>5, <2>1, <2>2 DEF LinksAt, RepeatedAt, mask, node
<1>13. IteratorAt(other, i) = IteratorAt(plan, i)
  <2>1. CASE "aggregate_iterator_type_unknown" \in WarningsAt(plan, i)
    <3>1. Token(node.name) = "aggregate"
        BY <2>1, IteratorWarning DEF WarningsAt, node
    <3>2. MetadataString(mask, "iterator_type") = MetadataString(node, "iterator_type")
        BY <1>5, <3>1, AggregatesAreListed
    <3> QED
        BY <1>3, <3>2 DEF IteratorAt, mask, node
  <2>2. CASE "aggregate_iterator_type_unknown" \notin WarningsAt(plan, i)
      BY <1>3, <2>2 DEF IteratorAt
  <2> QED
      BY <2>1, <2>2
<1>14. ReasonsAt(other, i) = ReasonsAt(plan, i)
  <2> DEFINE entry(p)    == {r \in {"catalog_entry_missing"} : ~KnownOperator(p[i]) /\ WarningsAt(p, i) = {}}
             kind(p)     == {r \in {"unexpected_operator_kind"} :
                               KnownOperator(p[i]) /\ p[i].kind \notin {"unspecified", Catalog[Token(p[i].name)].kind}}
             key(p)      == {r \in {"unknown_metadata_key"} : KeysAt(p, i) # {}}
             value(p)    == {r \in {"unknown_metadata_value"} : ValuesAt(p, i) # {}}
             link(p)     == {r \in {"unknown_child_link"} : LinksAt(p, i) # {}}
             repeated(p) == {r \in {"unexpected_child_link_multiplicity"} : RepeatedAt(p, i) # {}}
  <2>1. entry(other) = entry(plan)
      BY <1>3, <1>5 DEF mask, node
  <2>2. kind(other) = kind(plan)
      BY <1>2, <1>5 DEF mask, node
  <2>3. key(other) = key(plan) /\ value(other) = value(plan)
      BY <1>7, <1>8
  <2>4. link(other) = link(plan) /\ repeated(other) = repeated(plan)
      BY <1>12
  <2>5. \A p : ReasonsAt(p, i) = WarningsAt(p, i) \cup entry(p) \cup kind(p) \cup key(p) \cup value(p) \cup link(p) \cup repeated(p)
      BY Zenon DEF ReasonsAt
  <2> HIDE DEF entry, kind, key, value, link, repeated
  <2> QED
      BY <1>3, <2>1, <2>2, <2>3, <2>4, <2>5
<1>15. InspectNode(plan, i) =
         [at |-> i, name |-> Trim(node.name), kind |-> node.kind, reasons |-> ReasonsAt(plan, i),
          metadata |-> ShapesAt(plan, i), links |-> AggregateChildLinks(plan, i), unknownKeys |-> KeysAt(plan, i),
          unknownValues |-> {MetadataShape(node, k) : k \in ValuesAt(plan, i)},
          unknownLinks |-> LinksAt(plan, i) \cup RepeatedAt(plan, i), iteratorType |-> IteratorAt(plan, i)]
    BY FindingFields DEF node
<1>16. InspectNode(other, i) =
         [at |-> i, name |-> Trim(mask.name), kind |-> mask.kind, reasons |-> ReasonsAt(other, i),
          metadata |-> ShapesAt(other, i), links |-> AggregateChildLinks(other, i), unknownKeys |-> KeysAt(other, i),
          unknownValues |-> {MetadataShape(mask, k) : k \in ValuesAt(other, i)},
          unknownLinks |-> LinksAt(other, i) \cup RepeatedAt(other, i), iteratorType |-> IteratorAt(other, i)]
    BY FindingFields DEF mask
<1> QED
    BY <1>2, <1>4, <1>7, <1>9, <1>10, <1>12, <1>13, <1>14, <1>15, <1>16 DEF other

LEMMA SameInspection == ASSUME NEW plan \in RawPlans PROVE Inspect(Masked(plan)) = Inspect(plan)
<1>1. DOMAIN Masked(plan) = DOMAIN plan /\ \A i \in DOMAIN plan : InspectNode(Masked(plan), i) = InspectNode(plan, i)
    BY MaskedAlike, SameFindings
<1>2. {InspectNode(Masked(plan), i) : i \in DOMAIN Masked(plan)} = {InspectNode(plan, i) : i \in DOMAIN plan}
    BY <1>1
<1> QED
    BY <1>2 DEF Inspect

(* What a mismatch shows of a key, whatever the requirement asked for.       *)
Observed(node, key) ==
  IF key \in DOMAIN node.metadata /\ node.metadata[key].type = "null" THEN "null"
  ELSE IF key \notin Fields(node) THEN "missing" ELSE SafeDiagnosticValue(node, key)

LEMMA ObservedOfKey ==
  ASSUME NEW plan, NEW i, NEW pattern, NEW r \in MatchNodeRequirements(plan, i, pattern).metadata
  PROVE  r = [key |-> r.key, observed |-> Observed(plan[i], r.key)]
<1> DEFINE node       == plan[i]
           null(m)    == m.key \in DOMAIN node.metadata /\ node.metadata[m.key].type = "null"
           missing(m) == m.key \notin Fields(node) /\ ~null(m)
           other(m)   == m.key \in Fields(node) /\ m.value # NoValue /\ m.value # node.metadata[m.key]
           failed     == {m \in ToSet(pattern.metadata) : null(m) \/ missing(m) \/ other(m)}
           shown(m)   == CASE null(m) -> "null" [] missing(m) -> "missing" [] other(m) -> SafeDiagnosticValue(node, m.key)
<1>1. MatchNodeRequirements(plan, i, pattern).metadata = {[key |-> m.key, observed |-> shown(m)] : m \in failed}
    BY DEF MatchNodeRequirements
<1>2. PICK m \in failed : r = [key |-> m.key, observed |-> shown(m)]
  <2> HIDE DEF shown, failed
  <2> QED
      BY <1>1
<1>3. null(m) \/ missing(m) \/ other(m)
    BY <1>2
<1>4. null(m) => m.key \notin Fields(node)
    BY DEF Fields
<1>5. shown(m) = Observed(node, m.key)
  <2> DEFINE none == null(m)
             gone == missing(m)
             bad  == other(m)
  <2>1. shown(m) = CASE none -> "null" [] gone -> "missing" [] bad -> SafeDiagnosticValue(node, m.key)
      OBVIOUS
  <2>2. Observed(node, m.key) = IF none THEN "null" ELSE IF gone THEN "missing" ELSE SafeDiagnosticValue(node, m.key)
      BY DEF Observed
  <2>3. (none => ~gone /\ ~bad) /\ (gone => ~bad) /\ (none \/ gone \/ bad)
      BY <1>3, <1>4
  <2> HIDE DEF none, gone, bad, shown
  <2> QED
      BY <2>1, <2>2, <2>3
<1> HIDE DEF node, shown, failed
<1>6. r.key = m.key /\ r = [key |-> m.key, observed |-> Observed(node, m.key)]
    BY <1>2, <1>5
<1> QED
    BY <1>6 DEF node

LEMMA SameObservation ==
  ASSUME NEW node, NEW mask, Alike(node, mask), NEW key
  PROVE  Observed(mask, key) = Observed(node, key)
<1>1. Fields(mask) = Fields(node) /\ (\A k : Enumerated(mask, k) <=> Enumerated(node, k))
      /\ \A k \in Fields(node) : Enumerated(node, k) => (KnownValue(mask, k) <=> KnownValue(node, k))
    BY AlikeMetadata
<1>2. DOMAIN mask.metadata = DOMAIN node.metadata
      /\ \A k \in DOMAIN node.metadata : mask.metadata[k].type = node.metadata[k].type
                                         /\ (Enumerated(node, k) => mask.metadata[k] = node.metadata[k])
    BY DEF Alike
<1>3. ASSUME key \in Fields(node) PROVE SafeDiagnosticValue(mask, key) = SafeDiagnosticValue(node, key)
  <2>1. key \in DOMAIN node.metadata
      BY <1>3 DEF Fields
  <2> QED
      BY <1>1, <1>2, <1>3, <2>1 DEF SafeDiagnosticValue
<1> QED
    BY <1>1, <1>2, <1>3 DEF Observed

LEMMA MismatchesAre ==
  ASSUME NEW plan, NEW pattern, NEW m \in Mismatches(plan, pattern)
  PROVE  m.at \in DOMAIN plan /\ m.reasons = MatchNodeRequirements(plan, m.at, pattern)
<1> DEFINE wrong == Candidates(plan, pattern) \ Matches(plan, pattern)
<1>1. Mismatches(plan, pattern) = {[at |-> i, reasons |-> MatchNodeRequirements(plan, i, pattern)] : i \in wrong}
    BY DEF Mismatches
<1>2. \A i \in wrong : i \in DOMAIN plan
    BY DEF Candidates
<1> HIDE DEF wrong
<1>3. PICK i \in wrong : m = [at |-> i, reasons |-> MatchNodeRequirements(plan, i, pattern)]
    BY <1>1
<1> QED
    BY <1>2, <1>3

LEMMA LinkReasons ==
  ASSUME NEW plan, NEW i, NEW pattern
  PROVE  MatchNodeRequirements(plan, i, pattern).links =
           {[link |-> r, count |-> Cardinality(MatchingChildLinks(plan, i, r))] :
              r \in {q \in ToSet(pattern.links) : Cardinality(MatchingChildLinks(plan, i, q)) < Minimum(q)}}
BY DEF MatchNodeRequirements

LEMMA RedactionStands == ASSUME PlanInvariant PROVE FindingsAreRedacted
<1> SUFFICES ASSUME Made("plan")
             PROVE  /\ made.findings = Inspect(Masked(matter.input))
                    /\ \A p \in Patterns : \A m \in made.mismatches[p], n \in Mismatches(Masked(matter.input), p) :
                         m.at = n.at =>
                           /\ m.reasons.links = n.reasons.links
                           /\ \A r \in m.reasons.metadata, q \in n.reasons.metadata : r.key = q.key => r = q
    BY DEF FindingsAreRedacted
<1> DEFINE plan  == matter.input
           other == Masked(plan)
<1>1. /\ plan \in RawPlans /\ made.findings = Inspect(plan)
      /\ \A p \in Patterns : made.mismatches[p] = Mismatches(plan, p)
    BY DEF PlanInvariant, Made
<1>2. made.findings = Inspect(other)
    BY <1>1, SameInspection
<1>3. ASSUME NEW p \in Patterns, NEW m \in made.mismatches[p], NEW n \in Mismatches(other, p), m.at = n.at
      PROVE  /\ m.reasons.links = n.reasons.links
             /\ \A r \in m.reasons.metadata, q \in n.reasons.metadata : r.key = q.key => r = q
  <2> HIDE DEF plan, other
  <2> DEFINE i == m.at
  <2>1. i \in DOMAIN plan /\ m.reasons = MatchNodeRequirements(plan, i, p)
      BY <1>1, <1>3, MismatchesAre
  <2>2. n.reasons = MatchNodeRequirements(other, i, p)
      BY <1>3, MismatchesAre
  <2> HIDE DEF i
  <2>3. m.reasons = MatchNodeRequirements(plan, i, p) /\ n.reasons = MatchNodeRequirements(other, i, p)
      BY <2>1, <2>2
  <2>4. \A r : MatchingChildLinks(other, i, r) = MatchingChildLinks(plan, i, r)
      BY <1>1, <2>1, MaskedLinksAlike DEF other
  <2>5. MatchNodeRequirements(other, i, p).links = MatchNodeRequirements(plan, i, p).links
    <3> DEFINE few(P) == {q \in ToSet(p.links) : Cardinality(MatchingChildLinks(P, i, q)) < Minimum(q)}
    <3>1. few(other) = few(plan)
        BY <2>4
    <3>2. \A P : MatchNodeRequirements(P, i, p).links =
                 {[link |-> r, count |-> Cardinality(MatchingChildLinks(P, i, r))] : r \in few(P)}
        BY LinkReasons
    <3> HIDE DEF few
    <3>3. MatchNodeRequirements(plan, i, p).links =
            {[link |-> r, count |-> Cardinality(MatchingChildLinks(plan, i, r))] : r \in few(plan)}
        BY <3>2
    <3>4. MatchNodeRequirements(other, i, p).links =
            {[link |-> r, count |-> Cardinality(MatchingChildLinks(other, i, r))] : r \in few(other)}
        BY <3>2
    <3> QED
        BY <2>4, <3>1, <3>3, <3>4
  <2>6. Alike(plan[i], other[i])
      BY <1>1, <2>1, MaskedAlike DEF other
  <2>7. ASSUME NEW r \in m.reasons.metadata, NEW q \in n.reasons.metadata, r.key = q.key PROVE r = q
    <3>1. r = [key |-> r.key, observed |-> Observed(plan[i], r.key)]
        BY <2>3, ObservedOfKey
    <3>2. q = [key |-> q.key, observed |-> Observed(other[i], q.key)]
        BY <2>3, ObservedOfKey
    <3>3. Observed(other[i], r.key) = Observed(plan[i], r.key)
        BY <2>6, SameObservation
    <3> QED
        BY <2>7, <3>1, <3>2, <3>3
  <2> QED
      BY <2>3, <2>5, <2>7
<1> QED
    BY <1>2, <1>3

-----------------------------------------------------------------------------
(* What is found matches                                                    *)

LEMMA SequenceOfSet ==
  ASSUME NEW S, IsFiniteSet(S)
  PROVE  ToSet(SetToSeq(S)) = S
<1> DEFINE n == Cardinality(S)
           D == 1..n
<1>1. n \in Nat /\ ExistsBijection(D, S)
    BY FS_CardinalityType
<1>2. IsFiniteSet(D) /\ Cardinality(D) = n
    BY <1>1, FS_Interval
<1>3. \E f \in [D -> S] : IsInjective(f)
  <2> HIDE DEF D
  <2>1. PICK f : f \in Bijection(D, S)
      BY <1>1 DEF ExistsBijection
  <2> QED
      BY <2>1 DEF Bijection, Injection, IsInjective
<1>4. SetToSeq(S) \in [D -> S] /\ IsInjective(SetToSeq(S))
    BY <1>3 DEF SetToSeq
<1> DEFINE s == SetToSeq(S)
<1> HIDE DEF s, D, n
<1>5. s \in Injection(D, S)
    BY <1>4 DEF Injection, s
<1>6. s \in Surjection(D, S)
    BY <1>2, <1>5, FS_Injection DEF n
<1>7. \A x \in S : \E k \in D : s[k] = x
    BY <1>6 DEF Surjection
<1>8. DOMAIN s = D /\ \A k \in D : s[k] \in S
    BY <1>4 DEF s
<1> QED
    BY <1>7, <1>8 DEF ToSet, s

LEMMA ImageIsFinite ==
  ASSUME NEW S, IsFiniteSet(S), NEW T, NEW f \in [S -> T], \A t \in T : \E s \in S : f[s] = t
  PROVE  IsFiniteSet(T)
<1>1. f \in Surjection(S, T)
    BY DEF Surjection
<1> QED
    BY <1>1, FS_Surjection

LEMMA ShapeFields ==
  ASSUME NEW plan, NEW link
  PROVE  LET s == ShapeOf(plan, link)
         IN  /\ s.kind = plan[link.to].kind /\ s.type = Trim(link.type)
             /\ s.variable <=> Trim(link.variable) # ""
BY DEF ShapeOf

LEMMA FoundShapesAreThere ==
  ASSUME NEW plan, NEW i, IsFiniteSet(DOMAIN plan[i].links), \A k \in DOMAIN plan[i].links : Trim(plan[i].links[k].type) = plan[i].links[k].type,
         NEW l \in AggregateChildLinks(plan, i)
  PROVE  LET r == RequiredLink(l.shape.kind, l.shape.type, IF l.shape.variable THEN "present" ELSE "absent",
                               IF l.repeated THEN 2 ELSE 0)
         IN  ~(Cardinality(MatchingChildLinks(plan, i, r)) < Minimum(r))
<1> DEFINE r    == RequiredLink(l.shape.kind, l.shape.type, IF l.shape.variable THEN "present" ELSE "absent",
                                IF l.repeated THEN 2 ELSE 0)
           with == LinksOfShape(plan, i, l.shape)
           all  == MatchingChildLinks(plan, i, r)
<1>1. PICK j \in ChildLinks(plan, i) :
        l = [shape |-> ShapeOf(plan, plan[i].links[j]),
             repeated |-> Cardinality(LinksOfShape(plan, i, ShapeOf(plan, plan[i].links[j]))) > 1]
    BY DEF AggregateChildLinks
<1>2. l.shape = ShapeOf(plan, plan[i].links[j]) /\ (l.repeated <=> Cardinality(with) > 1)
    BY <1>1
<1>3. j \in with
    BY <1>2 DEF LinksOfShape
<1>4. ASSUME NEW k \in with PROVE k \in all
  <2> DEFINE link == plan[i].links[k]
  <2>1. k \in DOMAIN plan[i].links /\ link.to \in DOMAIN plan /\ ShapeOf(plan, link) = l.shape
      BY <1>4 DEF LinksOfShape, ChildLinks
  <2>2. Trim(link.type) = link.type
      BY <2>1
  <2> HIDE DEF link
  <2>3. /\ l.shape.kind = plan[link.to].kind /\ l.shape.type = link.type
        /\ l.shape.variable <=> Trim(link.variable) # ""
    <3> DEFINE s == ShapeOf(plan, link)
    <3>1. s.kind = plan[link.to].kind /\ s.type = Trim(link.type) /\ (s.variable <=> Trim(link.variable) # "")
        BY ShapeFields
    <3>2. l.shape = s
        BY <2>1
    <3> HIDE DEF s
    <3> QED
        BY <2>2, <3>1, <3>2
  <2>4. r.kind = plan[link.to].kind /\ r.type = link.type
        /\ r.variable = IF Trim(link.variable) # "" THEN "present" ELSE "absent"
    <3>1. r.kind = l.shape.kind /\ r.type = l.shape.type
          /\ r.variable = IF l.shape.variable THEN "present" ELSE "absent"
        BY DEF RequiredLink
    <3> HIDE DEF r
    <3> QED
        BY <2>3, <3>1
  <2> HIDE DEF r
  <2>5. /\ link.type = r.type
        /\ r.variable = "absent" => Trim(link.variable) = ""
        /\ r.variable = "present" => Trim(link.variable) # ""
        /\ link.to \in DOMAIN plan /\ plan[link.to].kind = r.kind
      BY <2>1, <2>4
  <2> QED
      BY <2>1, <2>5 DEF MatchingChildLinks, link
<1>5. IsFiniteSet(all) /\ IsFiniteSet(with)
  <2>1. all \subseteq DOMAIN plan[i].links /\ with \subseteq DOMAIN plan[i].links
      BY DEF MatchingChildLinks, LinksOfShape, ChildLinks
  <2> HIDE DEF all, with
  <2> QED
      BY <2>1, FS_Subset
<1>6. r.min = IF l.repeated THEN 2 ELSE 0
    BY DEF RequiredLink
<1> HIDE DEF with, all, r
<1>7. with \subseteq all
    BY <1>4
<1>8. Cardinality(with) <= Cardinality(all) /\ Cardinality(with) \in Nat /\ Cardinality(all) \in Nat
    BY <1>5, <1>7, FS_Subset, FS_CardinalityType
<1>9. Cardinality(with) >= 1
  <2>1. {j} \subseteq with /\ Cardinality({j}) = 1
      BY <1>3, FS_Singleton
  <2>2. Cardinality({j}) <= Cardinality(with)
      BY <1>5, <2>1, FS_Subset
  <2> QED
      BY <2>1, <2>2, <1>8
<1>10. ~(Cardinality(all) < Minimum(r))
  <2>1. CASE l.repeated
      BY <1>2, <1>6, <1>8, <2>1 DEF Minimum
  <2>2. CASE ~l.repeated
      BY <1>6, <1>8, <1>9, <2>2 DEF Minimum
  <2> QED
      BY <2>1, <2>2
<1> QED
    BY <1>10 DEF all, r

LEMMA PatternFields ==
  ASSUME NEW plan \in RawPlans, NEW i \in DOMAIN plan, NEW f, f = InspectNode(plan, i)
  PROVE  /\ PatternOf(f).name = f.name /\ PatternOf(f).family = ""
         /\ ToSet(PatternOf(f).metadata) = RequiredKeys(f)
         /\ ToSet(PatternOf(f).links) = RequiredLinks(f)
<1>1. IsRawNode(plan[i])
    BY PlansAssumption
<1>2. f.metadata = ShapesAt(plan, i) /\ f.links = AggregateChildLinks(plan, i)
    BY FindingFields
<1>3. IsFiniteSet(RequiredKeys(f))
  <2>1. IsFiniteSet(Fields(plan[i]))
    <3>1. Fields(plan[i]) \subseteq DOMAIN plan[i].metadata /\ IsFiniteSet(DOMAIN plan[i].metadata)
        BY <1>1 DEF Fields, IsRawNode
    <3> QED
        BY <3>1, FS_Subset
  <2> DEFINE shape == [k \in Fields(plan[i]) |-> MetadataShape(plan[i], k)]
  <2>2. shape \in [Fields(plan[i]) -> f.metadata] /\ \A m \in f.metadata : \E k \in Fields(plan[i]) : shape[k] = m
      BY <1>2 DEF ShapesAt
  <2>3. IsFiniteSet(f.metadata)
    <3> HIDE DEF shape
    <3> QED
        BY <2>1, <2>2, ImageIsFinite
  <2> DEFINE asked == [m \in f.metadata |-> Required(m.key, NoValue)]
  <2>4. asked \in [f.metadata -> RequiredKeys(f)] /\ \A r \in RequiredKeys(f) : \E m \in f.metadata : asked[m] = r
      BY DEF RequiredKeys
  <2> HIDE DEF asked
  <2> QED
      BY <2>3, <2>4, ImageIsFinite
<1>4. IsFiniteSet(RequiredLinks(f))
  <2>1. IsFiniteSet(ChildLinks(plan, i))
    <3>1. ChildLinks(plan, i) \subseteq DOMAIN plan[i].links /\ IsFiniteSet(DOMAIN plan[i].links)
        BY <1>1 DEF ChildLinks, IsRawNode
    <3> QED
        BY <3>1, FS_Subset
  <2> DEFINE shapes == {ShapeOf(plan, plan[i].links[k]) : k \in ChildLinks(plan, i)}
             shape  == [k \in ChildLinks(plan, i) |-> ShapeOf(plan, plan[i].links[k])]
  <2>2. shape \in [ChildLinks(plan, i) -> shapes] /\ \A s \in shapes : \E k \in ChildLinks(plan, i) : shape[k] = s
      OBVIOUS
  <2>3. IsFiniteSet(shapes)
    <3> HIDE DEF shape, shapes
    <3> QED
        BY <2>1, <2>2, ImageIsFinite
  <2>4. f.links = {[shape |-> s, repeated |-> Cardinality(LinksOfShape(plan, i, s)) > 1] : s \in shapes}
      BY <1>2 DEF AggregateChildLinks
  <2> HIDE DEF shapes
  <2> DEFINE entry == [s \in shapes |-> [shape |-> s, repeated |-> Cardinality(LinksOfShape(plan, i, s)) > 1]]
  <2>5. entry \in [shapes -> f.links] /\ \A l \in f.links : \E s \in shapes : entry[s] = l
      BY <2>4
  <2>6. IsFiniteSet(f.links)
    <3> HIDE DEF entry
    <3> QED
        BY <2>3, <2>5, ImageIsFinite
  <2> DEFINE asked == [l \in f.links |-> RequiredLink(l.shape.kind, l.shape.type,
                                                      IF l.shape.variable THEN "present" ELSE "absent",
                                                      IF l.repeated THEN 2 ELSE 0)]
  <2>7. asked \in [f.links -> RequiredLinks(f)] /\ \A r \in RequiredLinks(f) : \E l \in f.links : asked[l] = r
      BY DEF RequiredLinks
  <2> HIDE DEF asked
  <2> QED
      BY <2>6, <2>7, ImageIsFinite
<1>5. ToSet(SetToSeq(RequiredKeys(f))) = RequiredKeys(f) /\ ToSet(SetToSeq(RequiredLinks(f))) = RequiredLinks(f)
    BY <1>3, <1>4, SequenceOfSet
<1>6. /\ PatternOf(f).name = f.name /\ PatternOf(f).family = ""
      /\ PatternOf(f).metadata = SetToSeq(RequiredKeys(f)) /\ PatternOf(f).links = SetToSeq(RequiredLinks(f))
    BY DEF PatternOf, NewPattern
<1> QED
    BY <1>5, <1>6

LEMMA ShapesStand == ASSUME PlanInvariant PROVE FoundShapesMatch
<1> SUFFICES ASSUME Made("plan"), NEW f \in made.findings, matter.input[f.at].name = f.name,
                    \A l \in ToSet(matter.input[f.at].links) : Trim(l.type) = l.type
             PROVE  f.at \in Matches(matter.input, PatternOf(f))
    BY DEF FoundShapesMatch
<1> DEFINE plan == matter.input
           i    == f.at
           p    == PatternOf(f)
<1>1. plan \in RawPlans /\ made.findings = Inspect(plan)
    BY DEF PlanInvariant, Made
<1>2. i \in DOMAIN plan /\ f = InspectNode(plan, i)
  <2> HIDE DEF plan
  <2>1. PICK j \in DOMAIN plan : f = InspectNode(plan, j)
      BY <1>1 DEF Inspect
  <2>2. f.at = j
      BY <2>1, FindingFields
  <2> QED
      BY <2>1, <2>2
<1>3. plan[i].name = f.name /\ \A k \in DOMAIN plan[i].links : Trim(plan[i].links[k].type) = plan[i].links[k].type
    BY DEF ToSet
<1> HIDE DEF plan, i, p
<1>4. f.metadata = ShapesAt(plan, i) /\ f.links = AggregateChildLinks(plan, i)
    BY <1>2, FindingFields
<1>5. /\ p.name = f.name /\ p.family = "" /\ ToSet(p.metadata) = RequiredKeys(f) /\ ToSet(p.links) = RequiredLinks(f)
    BY <1>1, <1>2, PatternFields DEF p
<1>6. i \in Candidates(plan, p)
    BY <1>2, <1>3, <1>5 DEF Candidates
<1>7. ASSUME NEW m \in ToSet(p.metadata)
      PROVE  m.key \in Fields(plan[i]) /\ m.value = NoValue
  <2>1. PICK x \in f.metadata : m = Required(x.key, NoValue)
      BY <1>5 DEF RequiredKeys
  <2>2. PICK k \in Fields(plan[i]) : x = MetadataShape(plan[i], k)
      BY <1>4 DEF ShapesAt
  <2> QED
      BY <2>1, <2>2 DEF Required, MetadataShape
<1>8. ASSUME NEW q \in ToSet(p.links) PROVE ~(Cardinality(MatchingChildLinks(plan, i, q)) < Minimum(q))
  <2>1. PICK l \in f.links : q = RequiredLink(l.shape.kind, l.shape.type, IF l.shape.variable THEN "present" ELSE "absent",
                                              IF l.repeated THEN 2 ELSE 0)
      BY <1>5 DEF RequiredLinks
  <2>2. IsFiniteSet(DOMAIN plan[i].links)
      BY <1>1, <1>2, PlansAssumption DEF IsRawNode
  <2> QED
      BY <1>3, <1>4, <2>1, <2>2, FoundShapesAreThere
<1>9. MatchNodeRequirements(plan, i, p).links = {}
  <2>1. {q \in ToSet(p.links) : Cardinality(MatchingChildLinks(plan, i, q)) < Minimum(q)} = {}
      BY <1>8
  <2> QED
      BY <2>1, LinkReasons
<1>10. MatchNodeRequirements(plan, i, p) = NoReasons
  <2> DEFINE node       == plan[i]
             null(m)    == m.key \in DOMAIN node.metadata /\ node.metadata[m.key].type = "null"
             missing(m) == m.key \notin Fields(node) /\ ~null(m)
             other(m)   == m.key \in Fields(node) /\ m.value # NoValue /\ m.value # node.metadata[m.key]
             failed     == {m \in ToSet(p.metadata) : null(m) \/ missing(m) \/ other(m)}
             shown(m)   == CASE null(m) -> "null" [] missing(m) -> "missing" [] other(m) -> SafeDiagnosticValue(node, m.key)
             links      == {[link |-> r, count |-> Cardinality(MatchingChildLinks(plan, i, r))] :
                              r \in {q \in ToSet(p.links) : Cardinality(MatchingChildLinks(plan, i, q)) < Minimum(q)}}
  <2>1. MatchNodeRequirements(plan, i, p) =
          [metadata |-> {[key |-> m.key, observed |-> shown(m)] : m \in failed}, links |-> links]
      BY Zenon DEF MatchNodeRequirements
  <2>2. failed = {}
    <3>1. ASSUME NEW m \in ToSet(p.metadata) PROVE ~null(m) /\ ~missing(m) /\ ~other(m)
        BY <1>7 DEF Fields
    <3> QED
        BY <3>1
  <2> HIDE DEF failed, shown, links
  <2>3. MatchNodeRequirements(plan, i, p).links = links
      BY <2>1
  <2>4. {[key |-> m.key, observed |-> shown(m)] : m \in failed} = {}
      BY <2>2
  <2> QED
      BY <1>9, <2>1, <2>3, <2>4 DEF NoReasons
<1> QED
    BY <1>6, <1>10 DEF Matches, plan, i, p

\* A finding shows no identifier, its fingerprint stands for it, and what it
\* shows finds its node again, for any catalog and any raw plan.
THEOREM FindingsAreTrue == CaseSpec => []FindingsStand
<1>1. PlanInvariant => FindingsStand
    BY RedactionStands, FingerprintsStand, ShapesStand DEF FindingsStand
<1> QED
    BY <1>1, PlansAreInspected, PTL

-----------------------------------------------------------------------------
(* Files                                                                    *)

(* What is known of a file that was read.                                   *)
FileInvariant ==
  /\ matter.of = "file" => matter.input \in ContractFiles
  /\ Made("file") => (made.accepted <=> ValidFile(matter.input, Identifiers, TargetIDs))

LEMMA FilesAreRead == CaseSpec => []FileInvariant
<1>1. CaseInit => FileInvariant
  <2> SUFFICES ASSUME CaseInit PROVE FileInvariant
      OBVIOUS
  <2>1. made.of = "nothing"
      BY DEF CaseInit, Nothing
  <2>2. ASSUME matter.of = "file" PROVE matter.input \in ContractFiles
      BY <2>2 DEF CaseInit, AllCases, Case
  <2> QED
      BY <2>1, <2>2 DEF FileInvariant, Made
<1>2. FileInvariant /\ [CaseStep]_<<matter, made>> => FileInvariant'
  <2> SUFFICES ASSUME FileInvariant, [CaseStep]_<<matter, made>> PROVE FileInvariant'
      OBVIOUS
  <2>1. matter' = matter
      BY DEF CaseStep, ReadFile, MakeReport, InspectPlan, RunCheck
  <2>2. CASE UNCHANGED <<matter, made>>
      BY <2>2 DEF FileInvariant, Made
  <2>3. CASE MakeReport \/ InspectPlan \/ RunCheck
    <3>1. made'.of # "file"
        BY <2>3 DEF InspectPlan, MakeReport, RunCheck
    <3> QED
        BY <2>1, <3>1 DEF FileInvariant, Made
  <2>4. CASE ReadFile
    <3>1. made' = [of |-> "file", accepted |-> ValidFile(matter.input, Identifiers, TargetIDs)]
        BY <2>4 DEF ReadFile
    <3>2. made'.accepted <=> ValidFile(matter.input, Identifiers, TargetIDs)
        BY <3>1, Zenon
    <3> QED
        BY <2>1, <3>2 DEF FileInvariant, Made
  <2> QED
      BY <2>2, <2>3, <2>4 DEF CaseStep
<1> QED
    BY <1>1, <1>2, PTL DEF CaseSpec

(* The parts of a contract that are there, as the schema and as the parser   *)
(* count them.                                                               *)
SchemaModes(c) ==
  {m \in {"use", "forbid", "cel"} : CASE m = "use" -> c.use # <<>> [] m = "forbid" -> c.forbid # <<>> [] m = "cel" -> c.cel.given}
(* A schema that counts modes and a parser that names them agree.           *)
LEMMA OneMode ==
  ASSUME NEW c, c.cel.given <=> ~c.cel.blank
  PROVE  SchemaModes(c) = Modes(c)
<1>1. \A m \in {"use", "forbid", "cel"} : m \in SchemaModes(c) <=> m \in Modes(c)
    BY DEF SchemaModes, Modes
<1> QED
    BY <1>1 DEF SchemaModes, Modes

(* The words the schema lists are their own trimmed, lower-case forms.      *)
LEMMA KnownWords ==
  /\ \A w \in Identifiers \cup TargetIDs \cup PredefinedNames \cup KnownOperatorFamilies \cup {FileVersion} : Trim(w) = w
  /\ \A name \in PredefinedNames : Lower(name) = name
  /\ "" \notin KnownOperatorFamilies
<1>1. "" \notin KnownOperatorFamilies
    BY DEF KnownOperatorFamilies, ConcreteOperatorFamilies
<1>2. \A w \in TargetIDs : Trim(w) = w
    BY ReportsAssumption
<1> QED
    BY <1>1, <1>2, FilesAssumption

(* A contract of the schema is one the parser accepts.                      *)
LEMMA SchemaContractsAreValid ==
  ASSUME NEW c, IsContract(c), FitsContract(c), ForbiddenOnce(c), ~(c.cel.given /\ (c.cel.blank \/ ~CompileCEL(c.cel)))
  PROVE  ValidContract(c, Identifiers, TargetIDs) /\ Trim(c.name) = c.name
<1>1. c.name \in Identifiers /\ c.target \in TargetIDs /\ ToSet(c.use) \subseteq PredefinedNames
      /\ \A p \in ToSet(c.forbid) : p.family \in KnownOperatorFamilies /\ p.max >= 0
    BY DEF FitsContract
<1>2. Cardinality(SchemaModes(c)) = 1
    BY DEF FitsContract, SchemaModes
<1>3. c.cel.given <=> ~c.cel.blank
    BY DEF IsContract
<1>4. Cardinality(Modes(c)) = 1
    BY <1>2, <1>3, OneMode
<1>5. \A name \in ToSet(c.use) : Lower(Trim(name)) \in PredefinedNames
    BY <1>1, KnownWords
<1>6. \A p \in ToSet(c.forbid) : p.max >= 0 /\ Trim(p.family) \in KnownOperatorFamilies
    BY <1>1, KnownWords
<1>7. ValidPredicates(c)
    BY <1>4, <1>5, <1>6 DEF ValidPredicates
<1>8. Trim(c.name) = c.name /\ Trim(c.target) = c.target
    BY <1>1, KnownWords
<1>9. c.cel.blank \/ CompileCEL(c.cel)
    BY <1>3
<1> QED
    BY <1>1, <1>7, <1>8, <1>9 DEF ValidContract

(* What the schema describes is parsed.                                      *)
LEMMA SchemaFilesAreAccepted == ASSUME FileInvariant PROVE SchemaFilesAccepted
<1> DEFINE file == matter.input
           contracts == file.contracts
<1> SUFFICES ASSUME Made("file"), FitsContractFile(file),
                    \A j, k \in DOMAIN contracts : contracts[j].name = contracts[k].name => j = k,
                    \A c \in ToSet(contracts) : ForbiddenOnce(c) /\ ~(c.cel.given /\ (c.cel.blank \/ ~CompileCEL(c.cel)))
             PROVE  made.accepted
    BY DEF SchemaFilesAccepted
<1>1. file \in ContractFiles
    BY DEF FileInvariant, Made
<1>2. \A c \in ToSet(contracts) : IsContract(c) /\ FitsContract(c)
    BY <1>1, FilesAssumption DEF FitsContractFile
<1>3. \A c \in ToSet(contracts) : ValidContract(c, Identifiers, TargetIDs) /\ Trim(c.name) = c.name
    BY <1>2, SchemaContractsAreValid
<1>4. \A k \in DOMAIN contracts : contracts[k] \in ToSet(contracts)
    BY DEF ToSet
<1>5. Trim(file.version) = FileVersion /\ contracts # <<>>
    BY KnownWords DEF FitsContractFile
<1> HIDE DEF file
<1>6. ValidFile(file, Identifiers, TargetIDs)
    BY <1>3, <1>4, <1>5 DEF ValidFile
<1> QED
    BY <1>6 DEF FileInvariant, file

(* A mapped list has as many entries as the list it maps.                    *)
LEMMA NothingLost ==
  ASSUME NEW S, NEW q \in Seq(S)
  PROVE  DOMAIN q = {} <=> q = <<>>
<1>1. DOMAIN q = 1..Len(q) /\ Len(q) \in Nat
    OBVIOUS
<1>2. q = <<>> <=> Len(q) = 0
    OBVIOUS
<1>3. ASSUME DOMAIN q = {} PROVE Len(q) = 0
  <2>1. 1 \notin 1..Len(q)
      BY <1>1, <1>3
  <2> QED
      BY <1>1, <2>1
<1>4. ASSUME Len(q) = 0 PROVE DOMAIN q = {}
    BY <1>1, <1>4
<1> QED
    BY <1>2, <1>3, <1>4

(* What trimming and lowering make of a contract, field by field.           *)
LEMMA CanonicalFields ==
  ASSUME NEW c, "given" \in DOMAIN c.cel
  PROVE  LET d == OneUse(CanonicalContract(c))
             use == [k \in DOMAIN c.use |-> Lower(Trim(c.use[k]))]
         IN  /\ d.name = Trim(c.name) /\ d.target = Trim(c.target)
             /\ d.use = IF IsInjective(use) THEN use ELSE <<use[1]>>
             /\ d.forbid = [k \in DOMAIN c.forbid |-> [family |-> Trim(c.forbid[k].family), max |-> c.forbid[k].max]]
             /\ d.cel.given <=> ~c.cel.blank
<1> DEFINE use == [k \in DOMAIN c.use |-> Lower(Trim(c.use[k]))]
           forbid == [k \in DOMAIN c.forbid |-> [family |-> Trim(c.forbid[k].family), max |-> c.forbid[k].max]]
           cel == [c.cel EXCEPT !.given = ~c.cel.blank]
           once == IF IsInjective(use) THEN use ELSE <<use[1]>>
           e == CanonicalContract(c)
           d == OneUse(e)
<1>1. e = [name |-> Trim(c.name), target |-> Trim(c.target), use |-> use, forbid |-> forbid, cel |-> cel]
    BY DEF CanonicalContract
<1>2. d = [e EXCEPT !.use = IF IsInjective(e.use) THEN e.use ELSE <<e.use[1]>>]
    BY DEF OneUse
<1> HIDE DEF use, forbid, cel, e, d
<1>3. /\ d.name = Trim(c.name) /\ d.target = Trim(c.target) /\ d.forbid = forbid /\ d.cel = cel
      /\ d.use = IF IsInjective(use) THEN use ELSE <<use[1]>>
    BY <1>1, <1>2
<1>4. cel.given <=> ~c.cel.blank
    BY Zenon DEF cel
<1> QED
    BY <1>3, <1>4 DEF use, forbid, d, e

(* A valid contract, written canonically, is one of the schema.             *)
LEMMA ValidContractsFit ==
  ASSUME NEW c, IsContract(c), ValidContract(c, Identifiers, TargetIDs)
  PROVE  FitsContract(OneUse(CanonicalContract(c))) /\ OneUse(CanonicalContract(c)).name = Trim(c.name)
<1> DEFINE d == OneUse(CanonicalContract(c))
           use == [k \in DOMAIN c.use |-> Lower(Trim(c.use[k]))]
<1>1. /\ d.name = Trim(c.name) /\ d.target = Trim(c.target)
      /\ d.use = IF IsInjective(use) THEN use ELSE <<use[1]>>
      /\ d.forbid = [k \in DOMAIN c.forbid |-> [family |-> Trim(c.forbid[k].family), max |-> c.forbid[k].max]]
      /\ d.cel.given <=> ~c.cel.blank
    BY CanonicalFields DEF IsContract
<1> HIDE DEF d
<1>2. /\ Trim(c.name) \in Identifiers /\ Trim(c.target) \in TargetIDs /\ ForbiddenOnce(c) /\ Cardinality(Modes(c)) = 1
      /\ \A name \in ToSet(c.use) : Lower(Trim(name)) \in PredefinedNames
      /\ \A p \in ToSet(c.forbid) : p.max >= 0 /\ Trim(p.family) \in KnownOperatorFamilies
    BY DEF ValidContract, ValidPredicates
<1>3. c.use \in Seq(STRING) /\ c.forbid \in Seq([family : STRING, max : Int])
    BY DEF IsContract
<1>4. \A k \in DOMAIN c.use : use[k] \in PredefinedNames
    BY <1>2 DEF ToSet
<1>5. \A k \in DOMAIN c.forbid : Trim(c.forbid[k].family) \in KnownOperatorFamilies /\ c.forbid[k].max >= 0
    BY <1>2 DEF ToSet
<1>6. /\ ToSet(d.use) \subseteq PredefinedNames /\ IsInjective(d.use) /\ (d.use = <<>> <=> c.use = <<>>)
  <2>1. DOMAIN use = DOMAIN c.use
      OBVIOUS
  <2> HIDE DEF use
  <2>2. CASE IsInjective(use)
    <3>1. d.use = use
        BY <1>1, <2>2
    <3>2. use = <<>> <=> DOMAIN use = {}
        BY DEF use
    <3>3. DOMAIN c.use = {} <=> c.use = <<>>
        BY <1>3, NothingLost
    <3> QED
        BY <1>4, <2>1, <2>2, <3>1, <3>2, <3>3 DEF ToSet
  <2>3. CASE ~IsInjective(use)
    <3>1. PICK a \in DOMAIN use : TRUE
        BY <2>3 DEF IsInjective
    <3>2. c.use # <<>> /\ 1 \in DOMAIN use
      <4>1. DOMAIN c.use = 1..Len(c.use) /\ Len(c.use) \in Nat
          BY <1>3
      <4>2. a \in 1..Len(c.use)
          BY <2>1, <3>1, <4>1
      <4> QED
          BY <2>1, <4>1, <4>2
    <3>3. d.use = <<use[1]>>
        BY <1>1, <2>3
    <3>4. DOMAIN d.use = {1} /\ d.use[1] = use[1] /\ d.use # <<>>
        BY <3>3
    <3> QED
        BY <1>4, <2>1, <3>2, <3>4 DEF ToSet, IsInjective
  <2> QED
      BY <2>2, <2>3
<1>7. /\ \A p \in ToSet(d.forbid) : p.family \in KnownOperatorFamilies /\ p.max >= 0
      /\ IsInjective(d.forbid) /\ (d.forbid = <<>> <=> c.forbid = <<>>)
  <2>1. /\ DOMAIN d.forbid = DOMAIN c.forbid
        /\ \A k \in DOMAIN c.forbid : d.forbid[k].family = Trim(c.forbid[k].family) /\ d.forbid[k].max = c.forbid[k].max
      BY <1>1
  <2>2. \A p \in ToSet(d.forbid) : p.family \in KnownOperatorFamilies /\ p.max >= 0
      BY <1>5, <2>1 DEF ToSet
  <2>3. IsInjective(d.forbid)
    <3> SUFFICES ASSUME NEW a \in DOMAIN d.forbid, NEW b \in DOMAIN d.forbid, d.forbid[a] = d.forbid[b] PROVE a = b
        BY DEF IsInjective
    <3>1. Trim(c.forbid[a].family) = Trim(c.forbid[b].family)
        BY <2>1
    <3>2. Trim(c.forbid[a].family) # ""
        BY <1>5, <2>1, KnownWords
    <3> QED
        BY <1>2, <2>1, <3>1, <3>2 DEF ForbiddenOnce
  <2>4. d.forbid = <<>> <=> DOMAIN c.forbid = {}
      BY <1>1
  <2>5. DOMAIN c.forbid = {} <=> c.forbid = <<>>
      BY <1>3, NothingLost
  <2> QED
      BY <2>2, <2>3, <2>4, <2>5
<1>8. SchemaModes(d) = Modes(c)
  <2>1. \A m \in {"use", "forbid", "cel"} : m \in SchemaModes(d) <=> m \in Modes(c)
      BY <1>1, <1>6, <1>7 DEF SchemaModes, Modes
  <2> QED
      BY <2>1 DEF SchemaModes, Modes
<1>9. Cardinality({m \in {"use", "forbid", "cel"} :
                     CASE m = "use" -> d.use # <<>> [] m = "forbid" -> d.forbid # <<>> [] m = "cel" -> d.cel.given}) = 1
    BY <1>2, <1>8 DEF SchemaModes
<1>10. d.name \in Identifiers /\ d.target \in TargetIDs
    BY <1>1, <1>2
<1>11. FitsContract(d)
    BY <1>6, <1>7, <1>9, <1>10 DEF FitsContract
<1> QED
    BY <1>1, <1>11 DEF d

(* What is parsed fits the schema.                                           *)
LEMMA AcceptedFilesFit == ASSUME FileInvariant PROVE AcceptedFilesFitSchema
<1> SUFFICES ASSUME Made("file"), made.accepted PROVE AcceptedFilesFitSchema
    BY DEF AcceptedFilesFitSchema
<1> DEFINE file == matter.input
           given == file.contracts
           contracts == [k \in DOMAIN given |-> CanonicalContract(given[k])]
           once == [k \in DOMAIN contracts |-> OneUse(contracts[k])]
<1>1. file \in ContractFiles /\ ValidFile(file, Identifiers, TargetIDs)
    BY DEF FileInvariant, Made
<1>2. given \in Seq(ToSet(given)) /\ \A k \in DOMAIN given : IsContract(given[k])
  <2>1. \A c \in ToSet(given) : IsContract(c)
      BY <1>1, FilesAssumption
  <2> QED
      BY <1>1, <2>1, FilesAssumption DEF ToSet
<1> HIDE DEF file
<1>3. /\ given # <<>> /\ \A k \in DOMAIN given : ValidContract(given[k], Identifiers, TargetIDs)
      /\ \A j, k \in DOMAIN given : Trim(given[j].name) = Trim(given[k].name) => j = k
    BY <1>1 DEF ValidFile
<1> HIDE DEF given
<1>4. DOMAIN given # {}
    BY <1>2, <1>3, NothingLost
<1>5. DOMAIN once = DOMAIN given /\ \A k \in DOMAIN given : once[k] = OneUse(CanonicalContract(given[k]))
    OBVIOUS
<1>6. \A k \in DOMAIN given : contracts[k].name = Trim(given[k].name)
    BY DEF CanonicalContract
<1>11. DOMAIN contracts = DOMAIN given
    OBVIOUS
<1> HIDE DEF once, contracts
<1>7. \A k \in DOMAIN given : FitsContract(once[k]) /\ once[k].name = Trim(given[k].name)
    BY <1>2, <1>3, <1>5, ValidContractsFit
<1>8. once # <<>> /\ IsInjective(once) /\ \A c \in ToSet(once) : FitsContract(c)
  <2>1. once # <<>>
      BY <1>4, <1>5
  <2>2. IsInjective(once)
      BY <1>3, <1>5, <1>7 DEF IsInjective
  <2> QED
      BY <1>5, <1>7, <2>1, <2>2 DEF ToSet
<1>9. FitsContractFile([version |-> FileVersion, contracts |-> once])
    BY <1>8 DEF FitsContractFile
<1>10. \A j, k \in DOMAIN contracts : contracts[j].name = contracts[k].name => j = k
    BY <1>3, <1>6, <1>11
<1> QED
    BY <1>9, <1>10 DEF AcceptedFilesFitSchema, once, contracts, given, file

-----------------------------------------------------------------------------
(* Written reports                                                          *)

(* Every classified node is of a family the report may name.                *)
LEMMA FallbackIsKnown == ASSUME NEW name PROVE Fallback(name) \in ConcreteOperatorFamilies
<1> DEFINE found == {i \in DOMAIN Phrases : name \in DOMAIN Mentions /\ Phrases[i][1] \in Mentions[name]}
           k == CHOOSE i \in found : \A j \in found : i <= j
<1>1. DOMAIN Phrases = 1..13
    BY DEF Phrases
<1>2. ASSUME NEW i \in 1..13 PROVE Phrases[i][2] \in ConcreteOperatorFamilies
  <2>1. /\ Phrases[1][2] = "hash_aggregate" /\ Phrases[2][2] = "stream_aggregate" /\ Phrases[3][2] = "push_broadcast_hash_join"
        /\ Phrases[4][2] = "hash_join" /\ Phrases[5][2] = "apply_join" /\ Phrases[6][2] = "merge_join"
        /\ Phrases[7][2] = "minor_sort" /\ Phrases[8][2] = "full_sort" /\ Phrases[9][2] = "scan"
        /\ Phrases[10][2] = "join" /\ Phrases[11][2] = "aggregate" /\ Phrases[12][2] = "hash_aggregate"
        /\ Phrases[13][2] = "stream_aggregate"
      BY DEF Phrases
  <2>2. \/ i = 1 \/ i = 2 \/ i = 3 \/ i = 4 \/ i = 5 \/ i = 6 \/ i = 7 \/ i = 8 \/ i = 9 \/ i = 10 \/ i = 11 \/ i = 12 \/ i = 13
      OBVIOUS
  <2> QED
      BY <2>1, <2>2 DEF ConcreteOperatorFamilies
<1>3. CASE found = {}
    BY <1>3 DEF Fallback, ConcreteOperatorFamilies
<1>4. CASE found # {}
  <2>1. found \subseteq Nat
      BY <1>1
  <2> HIDE DEF found
  <2>2. k \in found
      BY <1>4, <2>1, LeastElement
  <2> HIDE DEF k
  <2>3. k \in 1..13
      BY <1>1, <2>2 DEF found
  <2> QED
      BY <1>2, <1>4, <2>3 DEF Fallback, found, k
<1> QED
    BY <1>3, <1>4

LEMMA FamilyIsKnown == ASSUME NEW plan, NEW i PROVE Family(plan, i) \in ConcreteOperatorFamilies
<1>1. OperatorFamily(plan[i]) \in ConcreteOperatorFamilies
  <2> DEFINE node == plan[i]
             Named == {"full_sort", "minor_sort", "limit", "hash_join", "push_broadcast_hash_join", "semi_apply",
                       "anti_semi_apply", "apply_join", "distributed_cross_apply", "distributed_semi_apply",
                       "distributed_anti_semi_apply", "merge_join", "hash_aggregate", "stream_aggregate", "aggregate",
                       "bloom_filter_build", "spool_build", "filter_scan", "scan", "compute"}
  <2>1. Named \subseteq ConcreteOperatorFamilies
      BY DEF ConcreteOperatorFamilies
  <2> HIDE DEF node
  <2>2. OperatorFamily(node) \in Named \/ OperatorFamily(node) = Fallback(node.name)
      BY DEF OperatorFamily
  <2> HIDE DEF Named
  <2> QED
      BY <2>1, <2>2, FallbackIsKnown DEF node
<1>2. {"push_broadcast_hash_join_internal_hash_join", "distributed_cross_apply_internal_apply",
       "distributed_semi_apply_internal_apply", "distributed_anti_semi_apply_internal_apply", "scalar"}
        \subseteq ConcreteOperatorFamilies
    BY DEF ConcreteOperatorFamilies
<1> QED
    BY <1>1, <1>2 DEF Family

(* A clause asks something of an object only when the field has such a value.*)
ClauseFits(object, keys, c) ==
  c.field \in keys /\ object[c.field] \in c.values => c.requires \subseteq keys /\ c.forbids \cap keys = {}
LEMMA OneClause ==
  ASSUME NEW object, NEW keys, NEW field, NEW values, NEW requires, NEW forbids,
         field \in keys /\ object[field] \in values => requires \subseteq keys /\ forbids \cap keys = {}
  PROVE  ClauseFits(object, keys, Clause(field, values, requires, forbids))
BY DEF ClauseFits, Clause

(* An entry has the keys that its status asks for.                          *)
LEMMA EntryFits ==
  ASSUME NEW target \in TargetIDs, NEW scope, NEW params, NEW plan, NEW pinned, DOMAIN plan # {}
  PROVE  LET q == Entry(target, scope, params, plan, pinned)
         IN  FitsQuery(q) /\ q.name = "A" /\ q.scope = scope
<1> DEFINE q == Entry(target, scope, params, plan, pinned)
           fails == ParamsFail(ScopedParams(params, scope))
           keys == QueryKeys(q)
<1>1. /\ q.target = target /\ q.name = "A" /\ q.scope = scope /\ q.digested
      /\ IF fails THEN q.status = "error" /\ q.operators = <<>> /\ q.warnings = {}
         ELSE q.status = "ok" /\ q.operators = Normalize(plan)
  <2>1. CASE fails
      BY <2>1 DEF Entry
  <2>2. CASE ~fails
    <3> DEFINE base == [target |-> target, name |-> "A", scope |-> scope, status |-> "error", operators |-> <<>>, edges |-> {},
                        warnings |-> {}, digested |-> TRUE, notPinned |-> ~pinned]
               ops == Normalize(plan)
    <3>1. q = [base EXCEPT !.status = "ok", !.operators = ops, !.edges = Edges(plan), !.warnings = ClassificationWarnings(ops)]
        BY <2>2 DEF Entry
    <3> HIDE DEF q, ops
    <3>2. q.target = target /\ q.status = "ok" /\ q.operators = ops /\ q.name = "A" /\ q.scope = scope
        BY <3>1
    <3>3. q.digested
        BY <3>1, Zenon
    <3> QED
        BY <2>2, <3>2, <3>3 DEF ops
  <2> QED
      BY <2>1, <2>2
<1> HIDE DEF q, fails
<1>2. \A i \in DOMAIN q.operators : q.operators[i].family \in ConcreteOperatorFamilies
  <2>1. CASE fails
    <3>1. DOMAIN q.operators = {}
        BY <1>1, <2>1
    <3> QED
        BY <3>1
  <2>2. CASE ~fails
      BY <1>1, <2>2, FamilyIsKnown DEF Normalize
  <2> QED
      BY <2>1, <2>2
<1>3. q.status = "ok" => DOMAIN q.operators # {}
    BY <1>1 DEF Normalize
<1>4. /\ q.status = "ok" =>
           {"sql", "sql_sha256", "ddl_sha256"} \cup (SuccessOnlyFields \ {"classification_warnings"}) \subseteq keys
      /\ q.status # "ok" => "error" \in keys /\ SuccessOnlyFields \cap keys = {}
  <2>1. {"sql", "sql_sha256", "ddl_sha256"} \subseteq keys
      BY <1>1 DEF QueryKeys
  <2>2. q.status = "ok" => SuccessOnlyFields \ {"classification_warnings"} \subseteq keys
      BY <1>3 DEF QueryKeys
  <2>3. q.status # "ok" => "error" \in keys
      BY DEF QueryKeys
  <2>4. q.status # "ok" => SuccessOnlyFields \cap keys = {}
      BY DEF QueryKeys, SuccessOnlyFields
  <2> QED
      BY <2>1, <2>2, <2>3, <2>4
<1> HIDE DEF keys
<1>5. \A c \in QueryClauses : ClauseFits(q, keys, c)
  <2>1. ClauseFits(q, keys, Clause("status", {"ok"},
                     {"sql", "sql_sha256", "ddl_sha256"} \cup (SuccessOnlyFields \ {"classification_warnings"}), {}))
    <3>1. q["status"] \in {"ok"} => q.status = "ok"
        OBVIOUS
    <3> QED
        BY <1>4, <3>1, OneClause
  <2>2. ClauseFits(q, keys, Clause("status", {"error", "skipped"}, {"error"}, SuccessOnlyFields))
    <3>1. q["status"] \in {"error", "skipped"} => q.status # "ok"
        OBVIOUS
    <3> QED
        BY <1>4, <3>1, OneClause
  <2> QED
      BY <2>1, <2>2 DEF QueryClauses
<1>6. Fits(q, keys, QueryClauses)
    BY <1>5 DEF Fits, ClauseFits
<1>7. FitsQuery(q)
    BY <1>1, <1>2, <1>6 DEF FitsQuery, keys
<1> QED
    BY <1>1, <1>7 DEF q

LEMMA EntriesFit ==
  ASSUME NEW input \in ReportInputs
  PROVE  LET queries == Entries(input, input.plan)
         IN  /\ queries # <<>> /\ \A q \in ToSet(queries) : FitsQuery(q)
             /\ \A k \in 1..2 : queries[k].name # "" /\ queries[k].scope # ""
<1> DEFINE pinned == OptimizerEnvironmentPinned(ResolvedOptimizer(input.optimizer))
           first  == Entry("query/A", "query", <<>>, input.plan, pinned)
           second == Entry("query/B#inner", "inner", input.params, input.inner, pinned)
<1>1. Entries(input, input.plan) = <<first, second>>
    BY DEF Entries
<1>2. "query/A" \in TargetIDs /\ "query/B#inner" \in TargetIDs
    BY ReportsAssumption
<1>3. DOMAIN input.plan # {} /\ DOMAIN input.inner # {}
    BY FilesAssumption
<1>4. /\ FitsQuery(first) /\ first.name = "A" /\ first.scope = "query"
      /\ FitsQuery(second) /\ second.name = "A" /\ second.scope = "inner"
    BY <1>2, <1>3, EntryFits
<1> HIDE DEF first, second
<1>5. \A k \in 1..2 : k = 1 \/ k = 2
    OBVIOUS
<1>6. /\ <<first, second>> # <<>> /\ ToSet(<<first, second>>) = {first, second}
      /\ <<first, second>>[1] = first /\ <<first, second>>[2] = second
    BY DEF ToSet
<1> DEFINE queries == <<first, second>>
<1> HIDE DEF queries
<1>7. \A k \in 1..2 : queries[k].name # "" /\ queries[k].scope # ""
    BY <1>4, <1>5, <1>6 DEF queries
<1>8. queries # <<>> /\ \A q \in ToSet(queries) : FitsQuery(q)
    BY <1>4, <1>6 DEF queries
<1> QED
    BY <1>1, <1>7, <1>8 DEF queries

(* A limit of a forbid list has a family and a number.                      *)
LEMMA LimitsAre ==
  ASSUME NEW contract, IsContract(contract), NEW k \in DOMAIN contract.forbid
  PROVE  contract.forbid[k] \in [family : STRING, max : Int] /\ contract.forbid[k].max \in Int
<1> DEFINE S == [family : STRING, max : Int]
           q == contract.forbid
<1>1. q \in Seq(S)
    BY DEF IsContract
<1> HIDE DEF S, q
<1>2. DOMAIN q = 1..Len(q) /\ \A j \in 1..Len(q) : q[j] \in S
    BY <1>1
<1>3. q[k] \in S
    BY <1>2 DEF q
<1>4. q[k] \in S => q[k].max \in Int
    BY DEF S
<1> QED
    BY <1>3, <1>4 DEF S, q

(* Limits of one family and one number are the same.                        *)
LEMMA SameLimits ==
  ASSUME NEW a \in [family : STRING, max : Int], NEW b \in [family : STRING, max : Int], a.family = b.family, a.max = b.max
  PROVE  a = b
OBVIOUS

(* Where a rule of a contract comes from, and what it looks like from there. *)
Resolved(p) ==
  \/ p.source = "use" /\ p.predefined \in ForbidNames /\ \E f \in KnownOperatorFamilies : p.rule = Forbid(f, 0)
  \/ p.source = "use" /\ p.predefined \in RuleNames /\ p.rule = Rule(p.predefined)
  \/ p.source = "forbid" /\ p.predefined = "" /\ \E f \in KnownOperatorFamilies : \E max \in Int : p.rule = Forbid(f, max)

(* A predefined rule that forbids is about a known family.                  *)
LEMMA PredefinedForbids ==
  ASSUME NEW name \in ForbidNames
  PROVE  /\ Predefined(name) # {}
         /\ \A rule \in Predefined(name) : \E f \in KnownOperatorFamilies : rule = Forbid(f, 0)
<1> DEFINE none(families) == {Forbid(f, 0) : f \in families}
<1>1. \E families \in SUBSET KnownOperatorFamilies : families # {} /\ Predefined(name) = none(families)
  <2>1. /\ HashJoin \in SUBSET KnownOperatorFamilies /\ HashJoin # {}
        /\ StandaloneApply \cup DistributedApply \in SUBSET KnownOperatorFamilies /\ StandaloneApply \cup DistributedApply # {}
        /\ StandaloneApply \in SUBSET KnownOperatorFamilies /\ StandaloneApply # {}
      BY DEF HashJoin, StandaloneApply, DistributedApply, KnownOperatorFamilies, ConcreteOperatorFamilies
  <2>2. \A f \in {"hash_join", "push_broadcast_hash_join", "distributed_cross_apply", "merge_join", "hash_aggregate",
                  "stream_aggregate", "explicit_sort", "full_sort", "minor_sort"} :
          {f} \in SUBSET KnownOperatorFamilies /\ {f} # {}
      BY DEF KnownOperatorFamilies, ConcreteOperatorFamilies
  <2> HIDE DEF none
  <2>3. Predefined(name) \in {none(HashJoin), none(StandaloneApply \cup DistributedApply), none(StandaloneApply)} \cup
          {none({f}) : f \in {"hash_join", "push_broadcast_hash_join", "distributed_cross_apply", "merge_join", "hash_aggregate",
                              "stream_aggregate", "explicit_sort", "full_sort", "minor_sort"}}
      BY DEF Predefined, ForbidNames, none
  <2> QED
      BY <2>1, <2>2, <2>3
<1>2. PICK families \in SUBSET KnownOperatorFamilies : families # {} /\ Predefined(name) = none(families)
    BY <1>1
<1> QED
    BY <1>2

LEMMA PredicatesResolve ==
  ASSUME NEW contract, IsContract(contract), ValidPredicates(contract), NEW p \in ResolvedPredicates(contract)
  PROVE  /\ Resolved(p)
         /\ \/ p.source = "use" /\ p.at \in DOMAIN contract.use /\ p.predefined = Lower(Trim(contract.use[p.at]))
            \/ /\ p.source = "forbid" /\ p.at \in DOMAIN contract.forbid
               /\ p.rule = Forbid(Trim(contract.forbid[p.at].family), contract.forbid[p.at].max)
<1>1. ResolvedPredicates(contract) = AllUsed(contract) \cup Forbidden(contract)
    BY DEF ResolvedPredicates, AllUsed, Used, Forbidden
<1>2. CASE p \in Forbidden(contract)
  <2>1. PICK k \in DOMAIN contract.forbid :
          p = [at |-> k, rule |-> Forbid(Trim(contract.forbid[k].family), contract.forbid[k].max), source |-> "forbid",
               predefined |-> ""]
      BY <1>2 DEF Forbidden
  <2>2. Trim(contract.forbid[k].family) \in KnownOperatorFamilies /\ contract.forbid[k].max \in Int
    <3>1. contract.forbid[k] \in ToSet(contract.forbid)
        BY DEF ToSet
    <3>2. Trim(contract.forbid[k].family) \in KnownOperatorFamilies
        BY <3>1 DEF ValidPredicates
    <3>3. contract.forbid[k].max \in Int
        BY LimitsAre
    <3> QED
        BY <3>2, <3>3
  <2>3. /\ p.at = k /\ p.rule = Forbid(Trim(contract.forbid[k].family), contract.forbid[k].max) /\ p.source = "forbid"
        /\ p.predefined = ""
      BY <2>1
  <2>4. Resolved(p)
      BY <2>2, <2>3 DEF Resolved
  <2> QED
      BY <2>3, <2>4
<1>3. CASE p \in AllUsed(contract)
  <2>1. \E S \in {Used(contract, k) : k \in DOMAIN contract.use} : p \in S
      BY <1>3, Zenon DEF AllUsed
  <2>2. PICK k \in DOMAIN contract.use : p \in Used(contract, k)
      BY <2>1, Zenon
  <2> DEFINE name == Lower(Trim(contract.use[k]))
  <2>3. PICK rule \in Predefined(name) : p = [at |-> k, rule |-> rule, source |-> "use", predefined |-> name]
      BY <2>2 DEF Used
  <2>4. name \in PredefinedNames
      BY DEF ValidPredicates, ToSet
  <2> HIDE DEF name
  <2>5. p.at = k /\ p.rule = rule /\ p.source = "use" /\ p.predefined = name
      BY <2>3
  <2>6. Resolved(p)
    <3>1. CASE name \in ForbidNames
      <4>1. \E f \in KnownOperatorFamilies : rule = Forbid(f, 0)
          BY <3>1, PredefinedForbids
      <4> QED
          BY <2>5, <3>1, <4>1, Zenon DEF Resolved
    <3>2. CASE name \in RuleNames
      <4>1. rule = Rule(name)
          BY <3>2 DEF Predefined, RuleNames
      <4> QED
          BY <2>5, <3>2, <4>1 DEF Resolved
    <3> QED
        BY <2>4, <3>1, <3>2 DEF PredefinedNames
  <2> QED
      BY <2>5, <2>6 DEF name
<1> QED
    BY <1>1, <1>2, <1>3

(* The result of a rule: what is set, and what is left empty.                *)
ResultIs(r, p) ==
  /\ r.at = p.at /\ r.rule = RuleName(p.rule) /\ r.source = p.source /\ r.predefined = p.predefined
  /\ r.expression = "" /\ r.operator_family = p.rule.family /\ r.max_count = p.rule.max
  /\ r.matched_operator_indexes # {}
  /\ r.status \in {"pass", "fail"}
  /\ r.status = "fail" => r.failure_kind \in {"classification_unknown", "violation"}
  /\ r.status = "pass" => r.failure_kind = "" /\ r.diagnostic_id = "" /\ r.remediation = {}
  /\ r.failure_kind = "classification_unknown" => r.diagnostic_id # ""
  /\ r.failure_kind # "classification_unknown" => r.diagnostic_id = ""
  /\ p.rule.rule # "operator_family" => r.diagnostic_id = ""

LEMMA ResultOfPredicate == ASSUME NEW query, NEW p PROVE ResultIs(EvaluatePredicate(query, p), p)
<1> DEFINE rule     == p.rule
           matched  == Matched(query, rule)
           violated == IF rule.rule = "require_timestamp_condition" THEN matched = {} ELSE Cardinality(matched) > rule.max
           unknown  == Unknown(query, rule)
           r        == EvaluatePredicate(query, p)
           diagnostic == IF ~unknown THEN ""
                         ELSE IF rule.family \in AggregateFamilies THEN "plan.aggregate_classification_unknown"
                         ELSE "plan.join_classification_unknown"
           advice == (IF violated THEN Remediation(rule) ELSE {}) \cup (IF unknown THEN {"contract"} ELSE {})
<1>1. /\ r.at = p.at /\ r.rule = RuleName(rule) /\ r.source = p.source /\ r.predefined = p.predefined
      /\ r.expression = "" /\ r.operator_family = rule.family /\ r.max_count = rule.max
      /\ r.matched_operator_indexes = {MatchedOperatorIndexes(query, rule)}
      /\ r.status = (IF violated \/ unknown THEN "fail" ELSE "pass")
      /\ r.failure_kind = (IF unknown THEN "classification_unknown" ELSE IF violated THEN "violation" ELSE "")
      /\ r.diagnostic_id = diagnostic /\ r.remediation = advice
    BY DEF EvaluatePredicate
<1>2. rule.rule # "operator_family" => ~unknown
    BY DEF Unknown
<1> HIDE DEF r, violated, unknown, rule
<1> QED
    BY <1>1, <1>2 DEF r, rule, ResultIs

(* The names of the four rules that forbid no family.                       *)
LEMMA RuleNamesAre ==
  /\ \A f, max : /\ RuleName(Forbid(f, max)) = "forbid_operator_family"
                 /\ Forbid(f, max).family = f /\ Forbid(f, max).max = max /\ Forbid(f, max).rule = "operator_family"
  /\ \A name \in RuleNames :
       /\ RuleName(Rule(name)) \in {"forbid_blocking_operator_under_limit", "forbid_full_scan", "require_timestamp_condition",
                                    "forbid_full_scan_without_timestamp_condition"}
       /\ Rule(name).family = "" /\ Rule(name).rule # "operator_family" /\ name # ""
  /\ \A name \in ForbidNames : name # ""
<1>1. \A f, max : /\ RuleName(Forbid(f, max)) = "forbid_operator_family"
                  /\ Forbid(f, max).family = f /\ Forbid(f, max).max = max /\ Forbid(f, max).rule = "operator_family"
    BY DEF RuleName, Forbid
<1>2. ASSUME NEW name \in RuleNames
      PROVE  /\ RuleName(Rule(name)) \in {"forbid_blocking_operator_under_limit", "forbid_full_scan",
                                          "require_timestamp_condition", "forbid_full_scan_without_timestamp_condition"}
             /\ Rule(name).family = "" /\ Rule(name).rule # "operator_family" /\ name # ""
    BY DEF RuleName, Rule, RuleNames
<1>3. \A name \in ForbidNames : name # ""
    BY DEF ForbidNames
<1> QED
    BY <1>1, <1>2, <1>3

WrittenKeys(r) == ResultKeys(r) \cup (IF r.rule = "cel" THEN {} ELSE {"observed_count", "max_count"})

(* A key is written exactly when its value is not empty.                     *)
LEMMA ResultKeysAre ==
  ASSUME NEW r
  PROVE  /\ "status" \in WrittenKeys(r)
         /\ "rule" \in WrittenKeys(r) <=> r.rule # ""
         /\ "source" \in WrittenKeys(r) <=> r.source # ""
         /\ "predefined" \in WrittenKeys(r) <=> r.predefined # ""
         /\ "expression" \in WrittenKeys(r) <=> r.expression # ""
         /\ "operator_family" \in WrittenKeys(r) <=> r.operator_family # ""
         /\ "failure_kind" \in WrittenKeys(r) <=> r.failure_kind # ""
         /\ "diagnostic_id" \in WrittenKeys(r) <=> r.diagnostic_id # ""
         /\ "remediation" \in WrittenKeys(r) <=> r.remediation # {}
         /\ "matched_operator_indexes" \in WrittenKeys(r) <=> r.matched_operator_indexes # {}
         /\ "observed_count" \in WrittenKeys(r) <=> r.rule # "cel" \/ r.observed_count # 0
         /\ "max_count" \in WrittenKeys(r) <=> r.rule # "cel" \/ r.max_count # 0
BY DEF WrittenKeys, ResultKeys, Nonempty

(* Nine clauses of the schema ask nothing that is not there.                 *)
FitsClauses(r, keys) ==
  /\ r.rule = "forbid_operator_family" => {"operator_family"} \cup Counts \subseteq keys /\ "expression" \notin keys
  /\ r.rule = "cel" => "expression" \in keys /\ ({"predefined", "operator_family"} \cup Counts) \cap keys = {}
  /\ r.rule \in {"forbid_blocking_operator_under_limit", "forbid_full_scan", "require_timestamp_condition",
                 "forbid_full_scan_without_timestamp_condition"} =>
       {"predefined"} \cup Counts \subseteq keys /\ {"expression", "operator_family", "diagnostic_id"} \cap keys = {}
  /\ r.status = "fail" => "failure_kind" \in keys
  /\ r.status = "pass" => {"failure_kind", "diagnostic_id", "remediation"} \cap keys = {}
  /\ r.failure_kind = "classification_unknown" => "diagnostic_id" \in keys
  /\ r.failure_kind = "violation" => "diagnostic_id" \notin keys
  /\ r.source = "use" => "predefined" \in keys
  /\ r.source \in {"forbid", "cel"} => "predefined" \notin keys

LEMMA ClausesHold ==
  ASSUME NEW r, NEW keys, FitsClauses(r, keys)
  PROVE  Fits(r, keys, ResultClauses)
<1> DEFINE others == {"forbid_blocking_operator_under_limit", "forbid_full_scan", "require_timestamp_condition",
                      "forbid_full_scan_without_timestamp_condition"}
<1>1. ClauseFits(r, keys, Clause("rule", {"forbid_operator_family"}, {"operator_family"} \cup Counts, {"expression"}))
    BY OneClause DEF FitsClauses
<1>2. ClauseFits(r, keys, Clause("rule", {"cel"}, {"expression"}, {"predefined", "operator_family"} \cup Counts))
    BY OneClause DEF FitsClauses
<1>3. ClauseFits(r, keys, Clause("rule", others, {"predefined"} \cup Counts, {"expression", "operator_family", "diagnostic_id"}))
    BY OneClause DEF FitsClauses
<1>4. ClauseFits(r, keys, Clause("status", {"fail"}, {"failure_kind"}, {}))
    BY OneClause DEF FitsClauses
<1>5. ClauseFits(r, keys, Clause("status", {"pass"}, {}, {"failure_kind", "diagnostic_id", "remediation"}))
    BY OneClause DEF FitsClauses
<1>6. ClauseFits(r, keys, Clause("failure_kind", {"classification_unknown"}, {"diagnostic_id"}, {}))
    BY OneClause DEF FitsClauses
<1>7. ClauseFits(r, keys, Clause("failure_kind", {"violation"}, {}, {"diagnostic_id"}))
    BY OneClause DEF FitsClauses
<1>8. ClauseFits(r, keys, Clause("source", {"use"}, {"predefined"}, {}))
    BY OneClause DEF FitsClauses
<1>9. ClauseFits(r, keys, Clause("source", {"forbid", "cel"}, {}, {"predefined"}))
    BY OneClause DEF FitsClauses
<1>10. \A c \in ResultClauses : ClauseFits(r, keys, c)
    BY <1>1, <1>2, <1>3, <1>4, <1>5, <1>6, <1>7, <1>8, <1>9 DEF ResultClauses
<1> QED
    BY <1>10 DEF Fits, ClauseFits

(* The result of a rule has the keys its schema asks for.                   *)
LEMMA RuleResultFits ==
  ASSUME NEW query, NEW p, Resolved(p)
  PROVE  LET r == EvaluatePredicate(query, p) IN FitsResult(r, WrittenKeys(r)) /\ r.rule # "cel"
<1> DEFINE r == EvaluatePredicate(query, p)
           rule == p.rule
           keys == WrittenKeys(r)
           others == {"forbid_blocking_operator_under_limit", "forbid_full_scan", "require_timestamp_condition",
                      "forbid_full_scan_without_timestamp_condition"}
<1>1. ResultIs(r, p)
    BY ResultOfPredicate
<1>2. /\ "status" \in keys
      /\ "rule" \in keys <=> r.rule # ""
      /\ "source" \in keys <=> r.source # ""
      /\ "predefined" \in keys <=> r.predefined # ""
      /\ "expression" \in keys <=> r.expression # ""
      /\ "operator_family" \in keys <=> r.operator_family # ""
      /\ "failure_kind" \in keys <=> r.failure_kind # ""
      /\ "diagnostic_id" \in keys <=> r.diagnostic_id # ""
      /\ "remediation" \in keys <=> r.remediation # {}
      /\ "matched_operator_indexes" \in keys <=> r.matched_operator_indexes # {}
      /\ "observed_count" \in keys <=> r.rule # "cel" \/ r.observed_count # 0
      /\ "max_count" \in keys <=> r.rule # "cel" \/ r.max_count # 0
    BY ResultKeysAre
<1> HIDE DEF r, keys, rule
<1>3. \/ /\ r.rule = "forbid_operator_family" /\ r.operator_family \in KnownOperatorFamilies
         /\ (r.source = "use" /\ r.predefined \in ForbidNames) \/ (r.source = "forbid" /\ r.predefined = "")
      \/ /\ r.rule \in others /\ r.operator_family = "" /\ r.diagnostic_id = "" /\ r.source = "use"
         /\ r.predefined \in RuleNames /\ RuleName(Rule(r.predefined)) = r.rule
  <2>1. CASE p.source = "use" /\ p.predefined \in ForbidNames /\ \E f \in KnownOperatorFamilies : p.rule = Forbid(f, 0)
    <3>1. PICK f \in KnownOperatorFamilies : rule = Forbid(f, 0)
        BY <2>1 DEF rule
    <3>2. RuleName(rule) = "forbid_operator_family" /\ rule.family = f
        BY <3>1, RuleNamesAre
    <3> QED
        BY <1>1, <2>1, <3>2 DEF ResultIs, rule
  <2>2. CASE p.source = "use" /\ p.predefined \in RuleNames /\ p.rule = Rule(p.predefined)
    <3>1. RuleName(rule) \in others /\ rule.family = "" /\ rule.rule # "operator_family"
        BY <2>2, RuleNamesAre DEF rule
    <3>2. RuleName(Rule(r.predefined)) = r.rule
        BY <1>1, <2>2 DEF ResultIs
    <3> QED
        BY <1>1, <2>2, <3>1, <3>2 DEF ResultIs, rule
  <2>3. CASE p.source = "forbid" /\ p.predefined = "" /\ \E f \in KnownOperatorFamilies : \E max \in Int : p.rule = Forbid(f, max)
    <3>1. PICK f \in KnownOperatorFamilies : \E max \in Int : rule = Forbid(f, max)
        BY <2>3 DEF rule
    <3>2. PICK max \in Int : rule = Forbid(f, max)
        BY <3>1
    <3>3. RuleName(rule) = "forbid_operator_family" /\ rule.family = f
        BY <3>2, RuleNamesAre
    <3> QED
        BY <1>1, <2>3, <3>3 DEF ResultIs, rule
  <2> QED
      BY <2>1, <2>2, <2>3 DEF Resolved
<1>4. /\ r.operator_family \in KnownOperatorFamilies => r.operator_family # ""
      /\ r.predefined \in ForbidNames \cup RuleNames => r.predefined # ""
    BY KnownWords, RuleNamesAre
<1>5. FitsClauses(r, keys)
    BY <1>1, <1>2, <1>3, <1>4 DEF FitsClauses, Counts, ResultIs
<1>6. FitsSource(r) /\ r.rule # "cel" /\ {"rule", "source", "status"} \subseteq keys
    BY <1>2, <1>3 DEF FitsSource
<1>7. /\ "predefined" \in keys => r.predefined \in PredefinedNames
      /\ "operator_family" \in keys => r.operator_family \in KnownOperatorFamilies
    BY <1>2, <1>3 DEF PredefinedNames
<1>8. Fits(r, keys, ResultClauses)
    BY <1>5, ClausesHold
<1> QED
    BY <1>6, <1>7, <1>8 DEF FitsResult, r, keys

(* So has the result of an expression.                                      *)
LEMMA ExpressionResultFits ==
  ASSUME NEW outcome
  PROVE  LET r == CELResult(outcome) IN FitsResult(r, WrittenKeys(r)) /\ WrittenKeys(r) = ResultKeys(r)
<1> DEFINE r == CELResult(outcome)
           keys == WrittenKeys(r)
<1>1. /\ r.rule = "cel" /\ r.source = "cel" /\ r.predefined = "" /\ r.expression = "given" /\ r.operator_family = ""
      /\ r.diagnostic_id = "" /\ r.observed_count = 0 /\ r.max_count = 0 /\ r.matched_operator_indexes = {}
      /\ IF outcome = "holds" THEN r.status = "pass" /\ r.failure_kind = "" /\ r.remediation = {}
         ELSE r.status = "fail" /\ r.failure_kind = "violation"
    BY DEF CELResult
<1>2. /\ "status" \in keys
      /\ "rule" \in keys <=> r.rule # ""
      /\ "source" \in keys <=> r.source # ""
      /\ "predefined" \in keys <=> r.predefined # ""
      /\ "expression" \in keys <=> r.expression # ""
      /\ "operator_family" \in keys <=> r.operator_family # ""
      /\ "failure_kind" \in keys <=> r.failure_kind # ""
      /\ "diagnostic_id" \in keys <=> r.diagnostic_id # ""
      /\ "remediation" \in keys <=> r.remediation # {}
      /\ "matched_operator_indexes" \in keys <=> r.matched_operator_indexes # {}
      /\ "observed_count" \in keys <=> r.rule # "cel" \/ r.observed_count # 0
      /\ "max_count" \in keys <=> r.rule # "cel" \/ r.max_count # 0
    BY ResultKeysAre
<1>3. keys = ResultKeys(r)
  <2> HIDE DEF r
  <2> QED
      BY <1>1 DEF WrittenKeys, keys
<1> HIDE DEF r, keys
<1>4. FitsClauses(r, keys)
    BY <1>1, <1>2 DEF FitsClauses, Counts
<1>5. Fits(r, keys, ResultClauses)
    BY <1>4, ClausesHold
<1>6. FitsSource(r) /\ {"rule", "source", "status"} \subseteq keys /\ "predefined" \notin keys /\ "operator_family" \notin keys
    BY <1>1, <1>2 DEF FitsSource
<1>7. FitsResult(r, keys)
    BY <1>5, <1>6 DEF FitsResult
<1> QED
    BY <1>3, <1>7 DEF r, keys

(* Two results of a contract that differ in nothing but their place do not    *)
(* differ.                                                                   *)
LEMMA SameButForPlace ==
  ASSUME NEW x, NEW y, NEW S, x = [f \in S |-> x[f]], y = [f \in S |-> y[f]],
         Untitled(x) = Untitled(y), x["at"] = y["at"]
  PROVE  x = y
<1>1. DOMAIN x = S /\ DOMAIN y = S
    OBVIOUS
<1>2. ASSUME NEW f \in S \ {"at"} PROVE x[f] = y[f]
  <2>1. Untitled(x)[f] = x[f] /\ Untitled(y)[f] = y[f]
      BY <1>1 DEF Untitled
  <2> QED
      BY <2>1
<1>3. \A f \in S : x[f] = y[f]
    BY <1>2
<1> QED
    BY <1>3

ResultFields ==
  {"at", "rule", "source", "predefined", "expression", "operator_family", "status", "failure_kind", "diagnostic_id",
   "observed_count", "max_count", "matched_operator_indexes", "remediation"}
LEMMA ResultsAreRecords ==
  /\ \A query, p : EvaluatePredicate(query, p) = [f \in ResultFields |-> EvaluatePredicate(query, p)[f]]
  /\ \A outcome : CELResult(outcome) = [f \in ResultFields |-> CELResult(outcome)[f]]
<1>1. ASSUME NEW query, NEW p PROVE EvaluatePredicate(query, p) = [f \in ResultFields |-> EvaluatePredicate(query, p)[f]]
  <2> DEFINE rule     == p.rule
             matched  == Matched(query, rule)
             violated == IF rule.rule = "require_timestamp_condition" THEN matched = {} ELSE Cardinality(matched) > rule.max
             unknown  == Unknown(query, rule)
             status   == IF violated \/ unknown THEN "fail" ELSE "pass"
             kind     == IF unknown THEN "classification_unknown" ELSE IF violated THEN "violation" ELSE ""
             diagnostic == IF ~unknown THEN ""
                           ELSE IF rule.family \in AggregateFamilies THEN "plan.aggregate_classification_unknown"
                           ELSE "plan.join_classification_unknown"
             advice   == (IF violated THEN Remediation(rule) ELSE {}) \cup (IF unknown THEN {"contract"} ELSE {})
             name     == RuleName(rule)
             count    == Cardinality(matched)
             shown    == {MatchedOperatorIndexes(query, rule)}
  <2>1. EvaluatePredicate(query, p) =
          [at |-> p.at, rule |-> name, source |-> p.source, predefined |-> p.predefined, expression |-> "",
           operator_family |-> rule.family, status |-> status, failure_kind |-> kind, diagnostic_id |-> diagnostic,
           observed_count |-> count, max_count |-> rule.max, matched_operator_indexes |-> shown, remediation |-> advice]
      BY DEF EvaluatePredicate
  <2> HIDE DEF rule, matched, violated, unknown, status, kind, diagnostic, advice, name, count, shown
  <2> QED
      BY <2>1 DEF ResultFields
<1>2. ASSUME NEW outcome PROVE CELResult(outcome) = [f \in ResultFields |-> CELResult(outcome)[f]]
  <2> DEFINE status == IF outcome = "holds" THEN "pass" ELSE "fail"
             kind   == IF outcome = "holds" THEN "" ELSE "violation"
             advice == IF outcome = "holds" THEN {} ELSE {"contract"}
  <2>1. CELResult(outcome) =
          [at |-> 1, rule |-> "cel", source |-> "cel", predefined |-> "", expression |-> "given", operator_family |-> "",
           status |-> status, failure_kind |-> kind, diagnostic_id |-> "",
           observed_count |-> 0, max_count |-> 0, matched_operator_indexes |-> {}, remediation |-> advice]
      BY DEF CELResult
  <2> HIDE DEF status, kind, advice
  <2> QED
      BY <2>1 DEF ResultFields
<1> QED
    BY <1>1, <1>2

LEMMA UntitledKeeps ==
  ASSUME NEW x, NEW y, x = [f \in ResultFields |-> x[f]], y = [f \in ResultFields |-> y[f]], Untitled(x) = Untitled(y)
  PROVE  /\ x.source = y.source /\ x.predefined = y.predefined /\ x.operator_family = y.operator_family
         /\ x.max_count = y.max_count
<1>1. DOMAIN x = ResultFields /\ DOMAIN y = ResultFields
    OBVIOUS
<1>2. {"source", "predefined", "operator_family", "max_count"} \subseteq ResultFields \ {"at"}
    BY DEF ResultFields
<1>3. ASSUME NEW f \in ResultFields \ {"at"} PROVE x[f] = y[f]
  <2>1. Untitled(x)[f] = x[f] /\ Untitled(y)[f] = y[f]
      BY <1>1 DEF Untitled
  <2> QED
      BY <2>1
<1> QED
    BY <1>2, <1>3

LEMMA ResultsDiffer ==
  ASSUME NEW contract, IsContract(contract), ValidPredicates(contract), FitsContract(contract),
         NEW query, NEW raw, NEW x \in Results(query, raw, contract), NEW y \in Results(query, raw, contract),
         Untitled(x) = Untitled(y)
  PROVE  x = y
<1> DEFINE predicates == ResolvedPredicates(contract)
           outcome == EvaluateCEL(query, raw, contract.cel.asks)
           OfRule(r) == \E p \in predicates : r = EvaluatePredicate(query, p)
<1>1. \A r \in Results(query, raw, contract) : OfRule(r) \/ r = CELResult(outcome)
    BY DEF Results
<1> HIDE DEF outcome
<1>2. x = [f \in ResultFields |-> x[f]] /\ y = [f \in ResultFields |-> y[f]]
    BY <1>1, ResultsAreRecords
<1>3. /\ x.source = y.source /\ x.predefined = y.predefined /\ x.operator_family = y.operator_family
      /\ x.max_count = y.max_count
    BY <1>2, UntitledKeeps
<1>4. CELResult(outcome).source = "cel"
    BY DEF CELResult
<1>5. ASSUME NEW p \in predicates
      PROVE  LET r == EvaluatePredicate(query, p)
             IN  \/ r.source = "use" /\ r.at \in DOMAIN contract.use /\ r.predefined = contract.use[r.at]
                 \/ /\ r.source = "forbid" /\ r.at \in DOMAIN contract.forbid
                    /\ r.operator_family = contract.forbid[r.at].family /\ r.max_count = contract.forbid[r.at].max
  <2> DEFINE r == EvaluatePredicate(query, p)
  <2>6. ResultIs(r, p)
      BY ResultOfPredicate
  <2> HIDE DEF r
  <2>1. /\ r.at = p.at /\ r.source = p.source /\ r.predefined = p.predefined
        /\ r.operator_family = p.rule.family /\ r.max_count = p.rule.max
      BY <2>6 DEF ResultIs
  <2>2. \/ p.source = "use" /\ p.at \in DOMAIN contract.use /\ p.predefined = Lower(Trim(contract.use[p.at]))
        \/ /\ p.source = "forbid" /\ p.at \in DOMAIN contract.forbid
           /\ p.rule = Forbid(Trim(contract.forbid[p.at].family), contract.forbid[p.at].max)
      BY PredicatesResolve
  <2>3. /\ \A k \in DOMAIN contract.use : contract.use[k] \in PredefinedNames
        /\ \A k \in DOMAIN contract.forbid : contract.forbid[k].family \in KnownOperatorFamilies
      BY DEF FitsContract, ToSet
  <2>4. CASE p.source = "use"
    <3>1. p.at \in DOMAIN contract.use /\ p.predefined = Lower(Trim(contract.use[p.at]))
        BY <2>2, <2>4
    <3>2. Lower(Trim(contract.use[p.at])) = contract.use[p.at]
        BY <2>3, <3>1, KnownWords
    <3> QED
        BY <2>1, <2>4, <3>1, <3>2 DEF r
  <2>5. CASE p.source # "use"
    <3>1. /\ p.source = "forbid" /\ p.at \in DOMAIN contract.forbid
          /\ p.rule = Forbid(Trim(contract.forbid[p.at].family), contract.forbid[p.at].max)
        BY <2>2, <2>5
    <3>2. Trim(contract.forbid[p.at].family) = contract.forbid[p.at].family
        BY <2>3, <3>1, KnownWords
    <3>3. p.rule.family = contract.forbid[p.at].family /\ p.rule.max = contract.forbid[p.at].max
        BY <3>1, <3>2 DEF Forbid
    <3> QED
        BY <2>1, <3>1, <3>3 DEF r
  <2> QED
      BY <2>4, <2>5
<1>6. IsInjective(contract.use) /\ IsInjective(contract.forbid)
    BY DEF FitsContract
<1>7. CASE OfRule(x) /\ OfRule(y)
  <2>1. x["at"] = y["at"]
    <3>1. CASE x.source = "use"
      <4>1. x.at \in DOMAIN contract.use /\ x.predefined = contract.use[x.at]
          BY <1>5, <1>7, <3>1
      <4>2. y.at \in DOMAIN contract.use /\ y.predefined = contract.use[y.at]
          BY <1>3, <1>5, <1>7, <3>1
      <4> QED
          BY <1>3, <1>6, <4>1, <4>2 DEF IsInjective
    <3>2. CASE x.source # "use"
      <4>1. /\ x.at \in DOMAIN contract.forbid
            /\ x.operator_family = contract.forbid[x.at].family /\ x.max_count = contract.forbid[x.at].max
          BY <1>5, <1>7, <3>2
      <4>2. /\ y.at \in DOMAIN contract.forbid
            /\ y.operator_family = contract.forbid[y.at].family /\ y.max_count = contract.forbid[y.at].max
          BY <1>3, <1>5, <1>7, <3>2
      <4>3. /\ contract.forbid[x.at] \in [family : STRING, max : Int] /\ contract.forbid[y.at] \in [family : STRING, max : Int]
          BY <4>1, <4>2, LimitsAre
      <4>4. contract.forbid[x.at] = contract.forbid[y.at]
          BY <1>3, <4>1, <4>2, <4>3, SameLimits
      <4> QED
          BY <1>6, <4>1, <4>2, <4>4 DEF IsInjective
    <3> QED
        BY <3>1, <3>2
  <2> QED
      BY <1>2, <2>1, SameButForPlace
<1>8. CASE x = CELResult(outcome) \/ y = CELResult(outcome)
  <2>1. ASSUME NEW r, OfRule(r) PROVE r.source # "cel"
      BY <1>5, <2>1
  <2>2. x = CELResult(outcome) /\ y = CELResult(outcome)
    <3>1. x.source = "cel" /\ y.source = "cel"
        BY <1>3, <1>4, <1>8
    <3> QED
        BY <1>1, <2>1, <3>1
  <2> QED
      BY <2>2
<1> QED
    BY <1>1, <1>7, <1>8

(* Every contract has results to report.                                    *)
LEMMA ResultsAreThere ==
  ASSUME NEW contract, IsContract(contract), ValidPredicates(contract), NEW query, NEW raw
  PROVE  Results(query, raw, contract) # {}
<1>1. Modes(contract) # {}
  <2>1. Cardinality(Modes(contract)) = 1 /\ Cardinality({}) = 0
      BY FS_EmptySet DEF ValidPredicates
  <2> QED
      BY <2>1
<1>2. contract.use # <<>> \/ contract.forbid # <<>> \/ ~contract.cel.blank
    BY <1>1 DEF Modes
<1>3. ResolvedPredicates(contract) = AllUsed(contract) \cup Forbidden(contract)
    BY DEF ResolvedPredicates, AllUsed, Used, Forbidden
<1>4. contract.use \in Seq(STRING) /\ contract.forbid \in Seq([family : STRING, max : Int])
    BY DEF IsContract
<1>5. CASE contract.use # <<>>
  <2>1. PICK k \in DOMAIN contract.use : TRUE
      BY <1>4, <1>5, NothingLost
  <2> DEFINE name == Lower(Trim(contract.use[k]))
  <2>2. name \in PredefinedNames
      BY DEF ValidPredicates, ToSet
  <2> HIDE DEF name
  <2>3. Predefined(name) # {}
    <3>1. CASE name \in ForbidNames
        BY <3>1, PredefinedForbids
    <3>2. CASE name \in RuleNames
        BY <3>2 DEF Predefined, RuleNames
    <3> QED
        BY <2>2, <3>1, <3>2 DEF PredefinedNames
  <2>4. PICK rule \in Predefined(name) : TRUE
      BY <2>3
  <2> DEFINE p == [at |-> k, rule |-> rule, source |-> "use", predefined |-> name]
  <2>5. p \in Used(contract, k)
      BY <2>4 DEF Used, name
  <2> HIDE DEF p
  <2>6. p \in AllUsed(contract)
      BY <2>1, <2>5, Zenon DEF AllUsed
  <2> QED
      BY <1>3, <2>6 DEF Results
<1>6. CASE contract.forbid # <<>>
  <2>1. PICK k \in DOMAIN contract.forbid : TRUE
      BY <1>4, <1>6, NothingLost
  <2>2. Forbidden(contract) # {}
      BY <2>1 DEF Forbidden
  <2> QED
      BY <1>3, <2>2 DEF Results
<1>7. CASE ~contract.cel.blank
    BY <1>7 DEF Results
<1> QED
    BY <1>2, <1>5, <1>6, <1>7

(* The keys of an evaluation, and what the schema asks of them.              *)
FitsEvaluationClauses(e) ==
  /\ e.status \in {"pass", "fail"} => e.query # "" /\ e.scope # "" /\ e.results # {} /\ e.reason = "" /\ e.error = ""
  /\ e.status = "not_evaluated" => e.reason # "" /\ e.results = {}
  /\ e.reason = "target_error" => e.error # ""
  /\ e.reason = "target_not_found" => e.error = ""

LEMMA EvaluationClausesHold ==
  ASSUME NEW e, FitsEvaluationClauses(e)
  PROVE  Fits(e, EvaluationKeys(e), EvaluationClauses)
<1> DEFINE keys == EvaluationKeys(e)
<1>1. /\ "query" \in keys <=> e.query # ""
      /\ "scope" \in keys <=> e.scope # ""
      /\ "reason" \in keys <=> e.reason # ""
      /\ "error" \in keys <=> e.error # ""
      /\ "results" \in keys <=> e.results # {}
    BY DEF EvaluationKeys, Nonempty
<1> HIDE DEF keys
<1>2. ClauseFits(e, keys, Clause("status", {"pass", "fail"}, {"query", "scope", "results"}, {"reason", "error"}))
    BY <1>1, OneClause DEF FitsEvaluationClauses
<1>3. ClauseFits(e, keys, Clause("status", {"not_evaluated"}, {"reason"}, {"results"}))
    BY <1>1, OneClause DEF FitsEvaluationClauses
<1>4. ClauseFits(e, keys, Clause("reason", {"target_error"}, {"error"}, {}))
    BY <1>1, OneClause DEF FitsEvaluationClauses
<1>5. ClauseFits(e, keys, Clause("reason", {"target_not_found"}, {}, {"error"}))
    BY <1>1, OneClause DEF FitsEvaluationClauses
<1>6. \A c \in EvaluationClauses : ClauseFits(e, keys, c)
    BY <1>2, <1>3, <1>4, <1>5 DEF EvaluationClauses
<1> QED
    BY <1>6 DEF Fits, ClauseFits, keys

EvaluationIs(e, query, scope, contract) ==
  /\ e.name = contract.name /\ e.target_id = Trim(contract.target) /\ e.stability = StabilityFor(contract)
  /\ e.query = query /\ e.scope = scope

LEMMA EvaluationOfNothing ==
  ASSUME NEW queries, NEW raws, NEW contract, Found(queries, Trim(contract.target)) = {}
  PROVE  LET e == EvaluateContract(queries, raws, contract)
         IN  /\ EvaluationIs(e, "", "", contract) /\ e.status = "not_evaluated" /\ e.reason = "target_not_found"
             /\ e.error = "" /\ e.results = {}
BY DEF Found, EvaluateContract, EvaluationIs

EvaluationIsOf(e, query, results, contract) ==
  /\ EvaluationIs(e, query.name, query.scope, contract)
  /\ IF query.status # "ok"
     THEN e.status = "not_evaluated" /\ e.reason = "target_error" /\ e.error = "unavailable" /\ e.results = {}
     ELSE e.status \in {"pass", "fail"} /\ e.reason = "" /\ e.error = "" /\ e.results = results
LEMMA EvaluationOfTarget ==
  ASSUME NEW query, NEW results, NEW contract
  PROVE  EvaluationIsOf(EvaluationOf(query, results, contract), query, results, contract)
BY DEF EvaluationOf, EvaluationIs, EvaluationIsOf

(* What is said of stability agrees with what the expression reads.         *)
LEMMA StabilityFits == ASSUME NEW contract PROVE FitsStability(StabilityFor(contract))
<1> DEFINE reads == IF contract.cel.blank THEN {} ELSE References(contract.cel)
           raw   == reads \cap RawInputs # {}
           s     == StabilityFor(contract)
<1>1. s.tier = (IF raw THEN "raw_query_plan" ELSE "normalized_operator") /\ (s.check_recommended <=> ~raw)
      /\ (s.replayable_from_report <=> ~raw)
    BY Zenon DEF StabilityFor
<1> HIDE DEF raw, s
<1> QED
    BY <1>1 DEF FitsStability, s

(* The report of a contract fits the schema but for zero counts.            *)
LEMMA ReportsOfContractsFit ==
  ASSUME NEW input \in ReportInputs, FitsContract(input.contract)
  PROVE  LET e == EvaluateContract(Entries(input, input.plan), Raws(input, input.plan), input.contract)
         IN  FitsEvaluation(e) /\ \A r \in e.results : FitsResult(r, WrittenKeys(r))
<1> DEFINE queries  == Entries(input, input.plan)
           raws     == Raws(input, input.plan)
           contract == input.contract
           at       == TargetIndex(contract)
           results  == Results(queries[at], raws[at], contract)
           e        == EvaluateContract(queries, raws, contract)
<1>1. /\ at \in Nat /\ at \in 1..2
      /\ Found(queries, Trim(contract.target)) = {} \/ Found(queries, Trim(contract.target)) = {at}
    BY WhereItLooks DEF Looked
<1>2. queries[at].name # "" /\ queries[at].scope # ""
    BY <1>1, EntriesFit
<1>3. IsContract(contract) /\ ValidPredicates(contract) /\ Trim(contract.target) \in TargetIDs
    BY ReportsAssumption, FilesAssumption DEF ValidContract
<1>4. contract.name \in Identifiers
    BY DEF FitsContract
<1>5. FitsContract(contract)
    OBVIOUS
<1> HIDE DEF queries, raws, contract, at
<1>6. \A r \in results : FitsResult(r, WrittenKeys(r))
  <2>1. ASSUME NEW p \in ResolvedPredicates(contract)
        PROVE  FitsResult(EvaluatePredicate(queries[at], p), WrittenKeys(EvaluatePredicate(queries[at], p)))
    <3>1. Resolved(p)
        BY <1>3, PredicatesResolve
    <3> QED
        BY <3>1, RuleResultFits
  <2>2. \A outcome : FitsResult(CELResult(outcome), WrittenKeys(CELResult(outcome)))
      BY ExpressionResultFits
  <2>3. ASSUME NEW r \in results
        PROVE  \/ \E p \in ResolvedPredicates(contract) : r = EvaluatePredicate(queries[at], p)
               \/ \E outcome : r = CELResult(outcome)
      BY DEF Results
  <2> HIDE DEF results
  <2> QED
      BY <2>1, <2>2, <2>3
<1>7. results # {} /\ \A x, y \in results : Untitled(x) = Untitled(y) => x = y
    BY <1>3, <1>5, ResultsAreThere, ResultsDiffer
<1> HIDE DEF results
<1>8. /\ \E query, scope : EvaluationIs(e, query, scope, contract)
      /\ FitsEvaluationClauses(e) /\ (e.results = {} \/ e.results = results)
  <2>1. CASE Found(queries, Trim(contract.target)) = {}
    <3>1. /\ EvaluationIs(e, "", "", contract) /\ e.status = "not_evaluated" /\ e.reason = "target_not_found"
          /\ e.error = "" /\ e.results = {}
        BY <2>1, EvaluationOfNothing
    <3> HIDE DEF e
    <3> QED
        BY <3>1 DEF FitsEvaluationClauses
  <2>2. CASE Found(queries, Trim(contract.target)) = {at}
    <3>1. e = EvaluationOf(queries[at], results, contract)
        BY <1>1, <2>2, FoundAt DEF results
    <3>2. /\ EvaluationIs(e, queries[at].name, queries[at].scope, contract)
          /\ IF queries[at].status # "ok"
             THEN e.status = "not_evaluated" /\ e.reason = "target_error" /\ e.error = "unavailable" /\ e.results = {}
             ELSE e.status \in {"pass", "fail"} /\ e.reason = "" /\ e.error = "" /\ e.results = results
      <4>1. EvaluationIsOf(EvaluationOf(queries[at], results, contract), queries[at], results, contract)
          BY EvaluationOfTarget
      <4> HIDE DEF e
      <4>2. EvaluationIsOf(e, queries[at], results, contract)
          BY <3>1, <4>1
      <4> QED
          BY <4>2 DEF EvaluationIsOf
    <3> HIDE DEF e
    <3>3. e.query = queries[at].name /\ e.scope = queries[at].scope
        BY <3>2 DEF EvaluationIs
    <3>4. FitsEvaluationClauses(e)
        BY <1>2, <1>7, <3>2, <3>3 DEF FitsEvaluationClauses
    <3> QED
        BY <3>2, <3>4
  <2> QED
      BY <1>1, <2>1, <2>2
<1> HIDE DEF e
<1>9. e.name \in Identifiers /\ e.target_id \in TargetIDs /\ FitsStability(e.stability)
    BY <1>3, <1>4, <1>8, StabilityFits DEF EvaluationIs
<1>10. \A x, y \in e.results : Untitled(x) = Untitled(y) => x = y
    BY <1>7, <1>8
<1>11. Fits(e, EvaluationKeys(e), EvaluationClauses)
    BY <1>8, EvaluationClausesHold
<1>12. FitsEvaluation(e)
    BY <1>9, <1>10, <1>11 DEF FitsEvaluation
<1>13. \A r \in e.results : FitsResult(r, WrittenKeys(r))
    BY <1>6, <1>8
<1> QED
    BY <1>12, <1>13 DEF e, queries, raws, contract

(* A valid identity fits the schema: an accepted digest is one or none, and   *)
(* the word for none in other capitals is a version to the schema.           *)
LEMMA ValidIdentitiesFit ==
  ASSUME NEW input, ~FlagsRefused(input.digest), NEW id,
         id = ReportIdentity(BackendIdentityFromFlags(input.version, input.digest), input.attached, Pin),
         ValidBackendIdentity(id)
  PROVE  FitsIdentity(id)
<1> DEFINE version == Trim(input.version)
           digest  == Trim(input.digest)
<1>1. /\ ~input.attached => id.version = Pin.version /\ id.digest = Pin.digest /\ id.source = "runtime_targets"
      /\ input.attached /\ version = "" /\ digest = "" =>
           id.version = "not_recorded" /\ id.digest = "not_recorded" /\ id.source = "external_unverified"
      /\ input.attached /\ ~(version = "" /\ digest = "") =>
           /\ id.version = ValueOrNotRecorded(version) /\ id.digest = ValueOrNotRecorded(digest)
           /\ id.source = "manual"
    BY IdentityFields
<1>2. digest \in Digests \cup {""}
    BY DEF FlagsRefused
<1>3. Pin.version \in PlainValues /\ Pin.digest \in Digests /\ Pin.version # "not_recorded"
    BY DEF Pin, PlainValues, Digests
<1>4. Lower(id.version) = "not_recorded" => id.version \in PlainValues \cup {"not_recorded"}
    BY FilesAssumption DEF Lower
<1>5. Lower(id.version) = "not_recorded" \/ id.version \in PlainValues
    BY DEF ValidBackendIdentity
<1>6. Lower("not_recorded") = "not_recorded"
  <2>1. "not_recorded" \notin DOMAIN LowerCased
      BY WordsAssumption DEF MovingValues
  <2> QED
      BY <2>1 DEF Lower
<1>7. id.source = "manual" => Lower(id.version) # "not_recorded" \/ Lower(id.digest) # "not_recorded"
    BY DEF ValidBackendIdentity
<1> HIDE DEF version, digest
<1>8. id.digest \in Digests \cup {"not_recorded"}
    BY <1>1, <1>2, <1>3 DEF ValueOrNotRecorded
<1>9. id.source \in {"runtime_targets", "manual", "external_unverified"}
    BY <1>1
<1> QED
    BY <1>1, <1>3, <1>4, <1>5, <1>6, <1>7, <1>8, <1>9 DEF FitsIdentity

(* A written report has the keys its schema asks for, but for counts of zero  *)
(* and for lists that were never filled.                                      *)
LEMMA WrittenReportsFit == ASSUME CaseInvariant PROVE WrittenReportsFitSchema
<1> SUFFICES ASSUME Made("report"), FitsContract(matter.input.contract), ValidBackendIdentity(made.identity)
             PROVE  /\ FitsReportShape(made)
                    /\ FitsReport(made) \/ made.environment = {}
                         \/ \E r \in made.evaluations[1].results : r.rule # "cel" /\ 0 \in {r.observed_count, r.max_count}
    BY DEF WrittenReportsFitSchema
<1> DEFINE input      == matter.input
           queries    == Entries(input, input.plan)
           flags      == BackendIdentityFromFlags(input.version, input.digest)
           evaluation == EvaluateContract(queries, Raws(input, input.plan), input.contract)
<1>1. input \in ReportInputs /\ IsReport(input, made)
    BY DEF CaseInvariant, Made
<1>2. /\ made.queries = queries /\ made.evaluations = <<evaluation>> /\ made.mode = "check"
      /\ made.identity = ReportIdentity(flags, input.attached, Pin) /\ ~FlagsRefused(input.digest)
    BY <1>1 DEF IsReport
<1>3. queries # <<>> /\ \A q \in ToSet(queries) : FitsQuery(q)
    BY <1>1, EntriesFit
<1>4. FitsEvaluation(evaluation) /\ \A r \in evaluation.results : FitsResult(r, WrittenKeys(r))
    BY <1>1, ReportsOfContractsFit
<1>5. FitsIdentity(made.identity)
    BY <1>2, ValidIdentitiesFit
<1> HIDE DEF queries, flags, evaluation
<1>6. ContractFields \subseteq ReportKeys(made) /\ made.evaluations # <<>> /\ ToSet(made.evaluations) = {evaluation}
    BY <1>2 DEF ReportKeys, ToSet
<1>7. FitsReportShape(made)
    BY <1>2, <1>3, <1>4, <1>5, <1>6 DEF FitsReportShape, WrittenKeys
<1>8. ASSUME made.environment # {},
             \A r \in made.evaluations[1].results : r.rule = "cel" \/ 0 \notin {r.observed_count, r.max_count}
      PROVE  FitsReport(made)
  <2>1. NullKeys(made) = {}
      BY <1>2, <1>3, <1>8 DEF NullKeys
  <2>2. ASSUME NEW r \in evaluation.results
        PROVE  ResultKeys(r) = WrittenKeys(r)
    <3>3. made.evaluations[1] = evaluation
        BY <1>2
    <3>1. r.rule = "cel" \/ (r.observed_count # 0 /\ r.max_count # 0)
        BY <3>3, <1>8
    <3>2. r.observed_count # 0 /\ r.max_count # 0 => {"observed_count", "max_count"} \subseteq ResultKeys(r)
        BY DEF ResultKeys, Nonempty
    <3> QED
        BY <3>1, <3>2 DEF WrittenKeys
  <2>3. \A r \in evaluation.results : FitsResult(r, ResultKeys(r))
      BY <1>4, <2>2
  <2> QED
      BY <1>6, <1>7, <2>1, <2>3 DEF FitsReport
<1> QED
    BY <1>7, <1>8

(* Code and published schemas agree on what a contract file and a report are: *)
(* a file the schema accepts is accepted by ReadPlanContractFile's checks     *)
(* unless two contracts have one name, an accepted file fits the schema up to *)
(* white space, capitals, duplicate predicates and patterns of names, and     *)
(* every report written in check mode fits its schema but for the zero counts *)
(* and the null lists its structs leave (plan_contract.go, config_schema.go).  *)
THEOREM FilesAndSchemasAgree == CaseSpec => []FilesFitSchema
<1>1. FileInvariant /\ CaseInvariant => FilesFitSchema
    BY SchemaFilesAreAccepted, AcceptedFilesFit, WrittenReportsFit DEF FilesFitSchema
<1> QED
    BY <1>1, FilesAreRead, ReportsAreMade, PTL
=============================================================================
