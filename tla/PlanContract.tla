---------------------------- MODULE PlanContract ----------------------------
(***************************************************************************)
(* Query plans and the contracts on them: plancontract/normalize.go, which *)
(* classifies the nodes of a raw QueryPlan into operator families, and the *)
(* rules of plancontract/plancontract.go.  A plan is a function from node  *)
(* indexes to nodes; a node is [name, kind, meta, links] with its          *)
(* normalized display name, its kind, the metadata the rules read (a set   *)
(* of flags) and its child links, a sequence of [to, type].  A link may    *)
(* name an index that has no node, and links may form cycles.  Of nodes    *)
(* with one index the model has one, with the flag "repeated".             *)
(***************************************************************************)
EXTENDS Integers, Sequences, FiniteSets, SequencesExt

CONSTANT Mentions   \* display name outside the table below -> the phrases it contains

PushBroadcast == {"push broadcast hash join", "push broadcast hash join outer apply",
                  "push broadcast hash join semi apply", "push broadcast hash join anti semi apply"}
DistributedCross == {"distributed cross apply", "distributed outer apply", "distributed apply"}
CrossApply       == {"cross apply", "outer apply"}
AntiSemiApply    == {"anti-semi apply", "anti semi apply"}
SemiApply        == {"semi apply"} \cup AntiSemiApply

\* The phrases the fallback looks for, in its order.
Phrases == << <<"hash aggregate", "hash_aggregate">>, <<"stream aggregate", "stream_aggregate">>,
              <<"push broadcast hash join", "push_broadcast_hash_join">>,
              <<"hash join", "hash_join">>, <<"apply", "apply_join">>, <<"merge join", "merge_join">>,
              <<"minor sort", "minor_sort">>, <<"sort", "full_sort">>, <<"scan", "scan">>,
              <<"join", "join">>, <<"aggregate", "aggregate">>,
              <<"described as hash aggregate", "hash_aggregate">>,
              <<"described as stream aggregate", "stream_aggregate">> >>
Fallback(name) ==
  LET found == {i \in DOMAIN Phrases : name \in DOMAIN Mentions /\ Phrases[i][1] \in Mentions[name]}
  IN  IF found = {} THEN "unknown"
      ELSE Phrases[CHOOSE i \in found : \A j \in found : i <= j][2]

\* Every name whose family a rule tells apart; the forty others have a family
\* of their own each, and "compute" stands for them.
OperatorFamily(node) ==
  CASE node.name \in {"sort", "sort limit", "local sort", "local sort limit"} -> "full_sort"
    [] node.name \in {"minor sort", "minor sort limit", "local minor sort", "local minor sort limit"} -> "minor_sort"
    [] node.name \in {"limit", "global limit", "local limit"} -> "limit"
    [] node.name = "hash join"                  -> "hash_join"
    [] node.name \in PushBroadcast              -> "push_broadcast_hash_join"
    [] node.name = "semi apply"                 -> "semi_apply"
    [] node.name \in AntiSemiApply              -> "anti_semi_apply"
    [] node.name \in CrossApply \cup {"apply join"} -> "apply_join"
    [] node.name \in DistributedCross           -> "distributed_cross_apply"
    [] node.name = "distributed semi apply"     -> "distributed_semi_apply"
    [] node.name = "distributed anti semi apply" -> "distributed_anti_semi_apply"
    [] node.name = "merge join"                 -> "merge_join"
    [] node.name = "aggregate" ->
         CASE "hash" \in node.meta -> "hash_aggregate"
           [] "stream" \in node.meta -> "stream_aggregate"
           [] OTHER -> "aggregate"
    [] node.name = "bloomfilterbuild"           -> "bloom_filter_build"
    [] node.name = "spoolbuild"                 -> "spool_build"
    [] node.name \in {"scan", "table scan", "index scan"} ->
         IF "filter_scan" \in node.meta THEN "filter_scan" ELSE "scan"
    [] node.name \in {"filter scan", "filterscan"} -> "filter_scan"
    [] node.name = "compute"                    -> "compute"
    [] OTHER -> Fallback(node.name)

\* The named nodes a plan without kinds is taken to read rows from.
KnownRelational ==
  PushBroadcast \cup DistributedCross \cup CrossApply \cup
  {"anti-semi apply", "apply join", "semi apply", "distributed semi apply",
   "distributed anti semi apply", "aggregate", "compute", "filter scan", "filterscan", "hash join",
   "index scan", "limit", "merge join", "scan", "sort", "sort limit", "spoolbuild", "table scan"}
Relational(node) ==
  node.kind = "relational" \/ (node.kind = "unspecified" /\ node.name \in KnownRelational)

Children(plan, i) == IF i \in DOMAIN plan THEN {l.to : l \in ToSet(plan[i].links)} ELSE {}
\* Everything the links lead to from node i, i itself only through a cycle:
\* what every set holds that has the children of i and of its own members.
Reached(plan, i) ==
  LET indexes   == DOMAIN plan \cup UNION {Children(plan, j) : j \in DOMAIN plan}
      closed(S) == Children(plan, i) \subseteq S /\ \A j \in S : Children(plan, j) \subseteq S
  IN  {j \in indexes : \A S \in SUBSET indexes : closed(S) => j \in S}
DescendantIndexes(plan, i) == Reached(plan, i) \ {i}

\* The operator a wrapper drives: from one of its Map children along the only
\* relational child, to the first node with one of the target names.
FindWrapperInternal(plan, start, targets) ==
  LET inputs(i) == SelectSeq(plan[i].links, LAMBDA l : l.to \in DOMAIN plan /\ Relational(plan[l.to]))
      at(i) == i \in DOMAIN plan /\ Relational(plan[i])
      walk[k \in 0..Cardinality(DOMAIN plan)] ==
        IF k = 0 THEN start
        ELSE LET i == walk[k - 1]
             IN  IF at(i) /\ plan[i].name \notin targets /\ Len(inputs(i)) = 1
                 THEN inputs(i)[1].to ELSE i
  IN  {i \in {walk[Cardinality(DOMAIN plan)]} : at(i) /\ plan[i].name \in targets}
ConsumesBatchScan(plan, i) == \E j \in Reached(plan, i) \cap DOMAIN plan : "batch_scan" \in plan[j].meta
Internal(plan, wrappers, targets) ==
  {i \in UNION {FindWrapperInternal(plan, l.to, targets) :
                  l \in {k \in UNION {ToSet(plan[w].links) : w \in {v \in DOMAIN plan : plan[v].name \in wrappers}} :
                           k.type = "map"}} :
     ConsumesBatchScan(plan, i)}

SemiInternal(plan) == Internal(plan, {"distributed semi apply"}, SemiApply)
Family(plan, i) ==
  LET node == plan[i]
      own  == OperatorFamily(node)
  IN  CASE node.name = "hash join" /\ i \in Internal(plan, PushBroadcast, {"hash join"}) ->
             "push_broadcast_hash_join_internal_hash_join"
        [] node.name \in CrossApply /\ i \in Internal(plan, DistributedCross, CrossApply) ->
             "distributed_cross_apply_internal_apply"
        [] node.name \in SemiApply /\ i \in SemiInternal(plan) -> "distributed_semi_apply_internal_apply"
        [] node.name \in SemiApply /\ i \notin SemiInternal(plan)
             /\ i \in Internal(plan, {"distributed anti semi apply"}, SemiApply) ->
             "distributed_anti_semi_apply_internal_apply"
        [] OTHER -> IF own = "unknown" /\ node.kind = "scalar" THEN "scalar" ELSE own

Normalize(plan) ==
  [i \in DOMAIN plan |->
     [name |-> plan[i].name, family |-> Family(plan, i),
      scalarAggregate |-> "scalar_aggregate" \in plan[i].meta, fullScan |-> "full_scan" \in plan[i].meta,
      children |-> [k \in DOMAIN plan[i].links |-> plan[i].links[k].to],
      descendants |-> DescendantIndexes(plan, i)]]
Edges(plan) == UNION {{[parent |-> i, child |-> l.to, type |-> l.type] : l \in ToSet(plan[i].links)} : i \in DOMAIN plan}

Warnings == {"operator_family_unknown", "join_family_unknown", "aggregate_iterator_type_unknown"}
ClassificationWarnings(operators) ==
  {w \in Warnings :
     \E i \in DOMAIN operators :
       CASE operators[i].family = "unknown" -> w = "operator_family_unknown"
         [] operators[i].family = "join"    -> w = "join_family_unknown"
         [] OTHER -> /\ operators[i].name = "aggregate" /\ operators[i].family = "aggregate"
                     /\ w = "aggregate_iterator_type_unknown"}

-----------------------------------------------------------------------------
(* Rules.  A rule is [rule, family, max]; the last two matter to            *)
(* "operator_family" rules only.  A query is what a report says of one      *)
(* target: [target, status, operators, edges, warnings, ...].               *)

RuleType    == [rule : STRING, family : STRING, max : Nat]
CelOutcomes == {"none", "holds", "fails", "error"}
Forbid(family, max) == [rule |-> "operator_family", family |-> family, max |-> max]
Rule(name)          == [rule |-> name, family |-> "", max |-> 0]

StandaloneApply  == {"apply_join", "anti_semi_apply", "semi_apply"}
DistributedApply == {"distributed_cross_apply", "distributed_anti_semi_apply", "distributed_semi_apply"}
HashJoin         == {"hash_join", "push_broadcast_hash_join"}
Predefined(name) ==
  LET none(families) == {Forbid(f, 0) : f \in families}
  IN  CASE name = "no_hash_join"                -> none(HashJoin)
        [] name = "no_standalone_hash_join"     -> none({"hash_join"})
        [] name = "no_push_broadcast_hash_join" -> none({"push_broadcast_hash_join"})
        [] name = "no_apply_join"               -> none(StandaloneApply \cup DistributedApply)
        [] name = "no_standalone_apply_join"    -> none(StandaloneApply)
        [] name = "no_distributed_cross_apply"  -> none({"distributed_cross_apply"})
        [] name = "no_merge_join"               -> none({"merge_join"})
        [] name = "no_hash_aggregate"           -> none({"hash_aggregate"})
        [] name = "no_stream_aggregate"         -> none({"stream_aggregate"})
        [] name = "no_explicit_sort"            -> none({"explicit_sort"})
        [] name = "no_full_sort"                -> none({"full_sort"})
        [] name = "no_minor_sort"               -> none({"minor_sort"})
        [] OTHER                                -> {Rule(name)}

BlockingOperator(op) ==
  \/ op.family \in {"aggregate", "bloom_filter_build", "blocking_operator", "full_sort", "hash_aggregate",
                    "hash_join", "join", "push_broadcast_hash_join", "spool_build"}
  \/ op.family = "stream_aggregate" /\ op.scalarAggregate
MatchesFamily(op, want) ==
  \/ op.family = want
  \/ want = "explicit_sort" /\ op.family \in {"full_sort", "minor_sort"}
  \/ want = "blocking_operator" /\ BlockingOperator(op)
LimitOrSortLimit(op) ==
  \/ op.family = "limit"
  \/ op.name \in {"sort limit", "local sort limit", "minor sort limit", "local minor sort limit"}
ScanLike(op) == op.family \in {"scan", "filter_scan"}

BlockingUnderLimit(query) ==
  UNION {{d \in query.operators[i].descendants \cap DOMAIN query.operators : BlockingOperator(query.operators[d])} :
           i \in {j \in DOMAIN query.operators : LimitOrSortLimit(query.operators[j])}}

\* The scans and filter scans that own a timestamp condition, and the scans it
\* covers: also the single scan a filter scan reads.
TimestampOwners(query) ==
  {e.parent : e \in {f \in query.edges : /\ f.type = "timestamp condition"
                                         /\ f.parent \in DOMAIN query.operators
                                         /\ ScanLike(query.operators[f.parent])}}
TimestampScans(query) ==
  LET ops == query.operators
      scansOf(i) == SelectSeq(ops[i].children, LAMBDA c : c \in DOMAIN ops /\ ops[c].family = "scan")
  IN  TimestampOwners(query) \cup
      UNION {ToSet(scansOf(i)) : i \in {j \in TimestampOwners(query) :
               ops[j].family = "filter_scan" /\ Len(scansOf(j)) = 1}}
FullScans(query) == {i \in DOMAIN query.operators : ScanLike(query.operators[i]) /\ query.operators[i].fullScan}

Matched(query, rule) ==
  CASE rule.rule = "operator_family" ->
         {i \in DOMAIN query.operators : MatchesFamily(query.operators[i], rule.family)}
    [] rule.rule = "no_blocking_operator_under_limit" -> BlockingUnderLimit(query)
    [] rule.rule = "no_full_scan" -> FullScans(query)
    [] rule.rule = "no_full_scan_without_timestamp_condition" -> FullScans(query) \ TimestampScans(query)
    [] rule.rule = "require_timestamp_condition" -> TimestampOwners(query)

ClassificationUnknown(query, family) ==
  \/ /\ family \in {"hash_aggregate", "stream_aggregate"}
     /\ "aggregate_iterator_type_unknown" \in query.warnings
  \/ /\ family \in HashJoin \cup StandaloneApply \cup DistributedApply \cup {"merge_join"}
     /\ "join_family_unknown" \in query.warnings

RuleHolds(query, rule) ==
  CASE rule.rule = "operator_family" ->
         Cardinality(Matched(query, rule)) <= rule.max /\ ~ClassificationUnknown(query, rule.family)
    [] rule.rule = "require_timestamp_condition" -> Matched(query, rule) # {}
    [] OTHER -> Matched(query, rule) = {}

-----------------------------------------------------------------------------
(* Contracts.  A contract is [target, rules, cel]: either rules, or a CEL   *)
(* expression, of which only its outcome on the target matters: "holds",    *)
(* "fails" or "error".                                                      *)

Outcomes == {"target_not_found", "target_error", "holds", "fails", "error"}
TargetQueries(queries, contract) == {i \in DOMAIN queries : queries[i].target = contract.target}
Evaluate(queries, contract) ==
  LET found == TargetQueries(queries, contract)
      query == queries[CHOOSE i \in found : \A j \in found : i <= j]
  IN  IF found = {} THEN "target_not_found"
      ELSE IF query.status # "ok" THEN "target_error"
      ELSE IF contract.cel # "none" THEN contract.cel
      ELSE IF \A r \in contract.rules : RuleHolds(query, r) THEN "holds" ELSE "fails"
=============================================================================
