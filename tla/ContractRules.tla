---------------------------- MODULE ContractRules ----------------------------
(***************************************************************************)
(* The contract file and its evaluation as plancontract/plancontract.go    *)
(* has them.  PlanContract says of a contract whether it holds; here are   *)
(* the file as it is written, what makes it valid, and everything an       *)
(* evaluation reports: the result of each rule with its counts, the kind   *)
(* of a failure, the stability of the contract, the warnings and totals.   *)
(* A file is [version, contracts]; a contract is [name, target, use,       *)
(* forbid, cel].  A CEL expression is [blank, compiles, type, tree, words, *)
(* asks]: its syntax tree, the identifiers in its text, and the question   *)
(* it answers.  A query is that of PlanContract with its rawPlan.          *)
(***************************************************************************)
EXTENDS PlanContract

CONSTANTS
  Trimmed,   \* word with blanks around it -> the word
  LowerCased \* word with capitals -> the same without

\* Values of the optimizer that fix nothing.
MovingValues == {"", "not_pinned", "not_recorded", "latest", "latest_version", "default_version"}

\* A word has no blanks left once they are cut off and no capitals once they are
\* lowered, and the values the code compares with have neither.
ASSUME WordsAssumption ==
  /\ \A w \in DOMAIN Trimmed : Trimmed[w] \notin DOMAIN Trimmed
  /\ \A w \in DOMAIN LowerCased : LowerCased[w] \notin DOMAIN LowerCased
  /\ \A w \in DOMAIN LowerCased \ DOMAIN Trimmed : LowerCased[w] \notin DOMAIN Trimmed
  /\ \A w \in MovingValues : w \notin DOMAIN Trimmed \cup DOMAIN LowerCased

Trim(word)  == IF word \in DOMAIN Trimmed THEN Trimmed[word] ELSE word
Lower(word) == IF word \in DOMAIN LowerCased THEN LowerCased[word] ELSE word

FileVersion == "v1alpha-plan-contracts"
ConcreteOperatorFamilies ==
  {"aggregate", "anti_semi_apply", "apply_mutations", "array_subquery", "array_unnest", "bloom_filter_build",
   "change_stream_tvf", "compute", "compute_struct", "create_batch", "crowd", "data_block_to_row", "apply_join",
   "distributed_anti_semi_apply", "distributed_anti_semi_apply_internal_apply", "distributed_merge_union",
   "distributed_cross_apply", "distributed_cross_apply_internal_apply", "distributed_semi_apply",
   "distributed_semi_apply_internal_apply", "distributed_union", "empty_relation", "filter", "filter_scan",
   "full_sort", "generate_relation", "hash_aggregate", "hash_join", "join", "key_range_accumulator", "limit",
   "local_split_union", "merge_join", "mini_batch_assign", "mini_batch_key_order", "minor_sort",
   "push_broadcast_hash_join", "push_broadcast_hash_join_internal_hash_join", "recursive_spool_scan",
   "random_id_assign", "recursive_union", "row_count", "row_to_data_block", "scalar", "scan", "scalar_subquery",
   "search_predicate", "search_query_conversion_tvf", "serialize_result", "semi_apply", "spool_build",
   "spool_scan", "stream_aggregate", "tvf", "union_all", "union_input", "unit_relation", "verify_determinism",
   "unknown"}
KnownOperatorFamilies == ConcreteOperatorFamilies \cup {"explicit_sort", "blocking_operator"}
ForbidNames ==
  {"no_explicit_sort", "no_full_sort", "no_minor_sort", "no_hash_join", "no_standalone_hash_join",
   "no_push_broadcast_hash_join", "no_apply_join", "no_standalone_apply_join", "no_distributed_cross_apply",
   "no_merge_join", "no_hash_aggregate", "no_stream_aggregate"}
RuleNames == {"no_full_scan", "no_full_scan_without_timestamp_condition", "require_timestamp_condition",
              "no_blocking_operator_under_limit"}
PredefinedNames == ForbidNames \cup RuleNames

-----------------------------------------------------------------------------
(* Family counts                                                            *)

DerivedOperatorFamilies(op) ==
  {f \in {"explicit_sort"} : op.family \in {"full_sort", "minor_sort"}} \cup
  {f \in {"blocking_operator"} : op.family # f /\ BlockingOperator(op)}
OperatorFamilyCounts(operators) ==
  [f \in KnownOperatorFamilies |->
     Cardinality({i \in DOMAIN operators :
       operators[i].family = f \/ f \in DerivedOperatorFamilies(operators[i])})]
SubtreeFamilyCounts(operators, i) ==
  LET subtree == ({i} \cup operators[i].descendants) \cap DOMAIN operators
  IN  OperatorFamilyCounts([j \in subtree |-> operators[j]])

\* The families whose every operator is blocking.
ByFamily(counts) ==
  counts["aggregate"] + counts["bloom_filter_build"] + counts["full_sort"] + counts["hash_aggregate"]
    + counts["hash_join"] + counts["join"] + counts["push_broadcast_hash_join"] + counts["spool_build"]

\* Mutant of AddDerived: the umbrella is counted again from the families alone.
AddDerivedByFamily(counts) ==
  [counts EXCEPT !["explicit_sort"] = counts["full_sort"] + counts["minor_sort"],
                 !["blocking_operator"] = ByFamily(counts)]

\* Umbrella families derived from the counts alone; a larger count of blocking
\* operators was made with their metadata and stays.
AddDerived(counts) ==
  [counts EXCEPT !["explicit_sort"] = counts["full_sort"] + counts["minor_sort"],
                 !["blocking_operator"] = IF @ > ByFamily(counts) THEN @ ELSE ByFamily(counts)]
OperatorFamilyCountsOrEmpty(counts) ==
  AddDerived([f \in KnownOperatorFamilies |-> IF f \in DOMAIN counts THEN counts[f] ELSE 0])

\* Mutant of OperatorTreeDigest: the links without their types.
OperatorTreeDigestUntyped(plan) ==
  [i \in DOMAIN plan |->
     [name |-> plan[i].name, family |-> Family(plan, i), meta |-> plan[i].meta,
      links |-> [k \in DOMAIN plan[i].links |-> plan[i].links[k].to]]]

\* The digest, as what is hashed: of every node its name, family, metadata and
\* links in order, not its kind.
OperatorTreeDigest(plan) ==
  [i \in DOMAIN plan |->
     [name |-> plan[i].name, family |-> Family(plan, i), meta |-> plan[i].meta, links |-> plan[i].links]]

-----------------------------------------------------------------------------
(* CEL                                                                      *)

\* Identifiers and field names of the tree; an identifier has nothing below it.
CollectedIdentifiers(tree) ==
  {tree[i].name : i \in {j \in Reached(tree, 1) \cup {1} : tree[j].kind \in {"ident", "select"}}}
RawInputs == {"raw_plan", "raw_nodes"}
MetadataFields ==
  {"call_type", "distribution_table", "execution_method", "full_scan", "iterator_type", "join_configuration",
   "join_type", "scan_format", "scan_method", "scan_target", "scan_type", "scalar_aggregate", "seekable_key_size",
   "spool_name", "subquery_cluster_node", "tvf_name"}
References(cel) == IF cel.compiles THEN CollectedIdentifiers(cel.tree) ELSE cel.words

CompileCEL(cel) ==
  /\ cel.compiles
  /\ "execution_stats" \notin CollectedIdentifiers(cel.tree)
  /\ cel.type \in {"bool", "dyn"}

\* What the expression reads of the activation; "number" stands for one whose
\* dynamic result turns out not to be a truth value.
EvaluateCEL(query, raw, asks) ==
  LET holds ==
        CASE asks.of = "operator_family_counts" ->
               OperatorFamilyCountsOrEmpty(OperatorFamilyCounts(query.operators))[asks.family] = 0
          [] asks.of = "operators" -> \A i \in DOMAIN query.operators : query.operators[i].family # asks.family
          [] asks.of = "query" -> query.warnings = {}
          [] asks.of \in RawInputs -> \A i \in DOMAIN raw : raw[i].name # asks.family
  IN  IF asks.of = "number" THEN "error" ELSE IF holds THEN "holds" ELSE "fails"

\* Mutant of StabilityFor: only the plan itself counts as a raw input.
StabilityForPlanOnly(contract) ==
  LET raw == ~contract.cel.blank /\ "raw_plan" \in References(contract.cel)
  IN  [tier |-> IF raw THEN "raw_query_plan" ELSE "normalized_operator", check_recommended |-> ~raw,
       replayable_from_report |-> ~raw, fields |-> {}]

StabilityFor(contract) ==
  LET reads == IF contract.cel.blank THEN {} ELSE References(contract.cel)
      raw   == reads \cap RawInputs # {}
  IN  [tier |-> IF raw THEN "raw_query_plan" ELSE "normalized_operator", check_recommended |-> ~raw,
       replayable_from_report |-> ~raw, fields |-> IF raw THEN {} ELSE reads \cap MetadataFields]

-----------------------------------------------------------------------------
(* Valid files                                                              *)

Modes(contract) ==
  {m \in {"use", "forbid", "cel"} :
     CASE m = "use" -> contract.use # <<>> [] m = "forbid" -> contract.forbid # <<>> [] m = "cel" -> ~contract.cel.blank}
ForbiddenOnce(contract) ==
  \A i, j \in DOMAIN contract.forbid :
    Trim(contract.forbid[i].family) # "" /\ Trim(contract.forbid[i].family) = Trim(contract.forbid[j].family) => i = j
\* Mutant of ValidPredicates: a maximum of zero has to be left out.
ValidPredicatesPositive(contract) ==
  /\ Cardinality(Modes(contract)) = 1
  /\ \A name \in ToSet(contract.use) : Lower(Trim(name)) \in PredefinedNames
  /\ \A p \in ToSet(contract.forbid) : p.max > 0 /\ Trim(p.family) \in KnownOperatorFamilies

ValidPredicates(contract) ==
  /\ Cardinality(Modes(contract)) = 1
  /\ \A name \in ToSet(contract.use) : Lower(Trim(name)) \in PredefinedNames
  /\ \A p \in ToSet(contract.forbid) : p.max >= 0 /\ Trim(p.family) \in KnownOperatorFamilies
ValidContract(contract, identifiers, targetIDs) ==
  /\ Trim(contract.name) \in identifiers /\ Trim(contract.target) \in targetIDs
  /\ ForbiddenOnce(contract) /\ ValidPredicates(contract)
  /\ contract.cel.blank \/ CompileCEL(contract.cel)

\* Mutant of ValidFile: names are compared as they are spelt.
ValidFileSpelt(file, identifiers, targetIDs) ==
  /\ Trim(file.version) = FileVersion /\ file.contracts # <<>>
  /\ \A k \in DOMAIN file.contracts : ValidContract(file.contracts[k], identifiers, targetIDs)
  /\ \A j, k \in DOMAIN file.contracts : file.contracts[j].name = file.contracts[k].name => j = k

ValidFile(file, identifiers, targetIDs) ==
  /\ Trim(file.version) = FileVersion /\ file.contracts # <<>>
  /\ \A k \in DOMAIN file.contracts : ValidContract(file.contracts[k], identifiers, targetIDs)
  /\ \A j, k \in DOMAIN file.contracts : Trim(file.contracts[j].name) = Trim(file.contracts[k].name) => j = k

-----------------------------------------------------------------------------
(* Results                                                                  *)

\* The rules of a contract with where they come from; a name that is used
\* twice gives its rules twice.
ResolvedPredicates(contract) ==
  (UNION {{[at |-> k, rule |-> rule, source |-> "use", predefined |-> Lower(Trim(contract.use[k]))] :
             rule \in Predefined(Lower(Trim(contract.use[k])))} : k \in DOMAIN contract.use}) \cup
  {[at |-> k, rule |-> Forbid(Trim(contract.forbid[k].family), contract.forbid[k].max), source |-> "forbid",
    predefined |-> ""] : k \in DOMAIN contract.forbid}

RuleName(rule) ==
  CASE rule.rule = "operator_family"                         -> "forbid_operator_family"
    [] rule.rule = "no_blocking_operator_under_limit"        -> "forbid_blocking_operator_under_limit"
    [] rule.rule = "no_full_scan"                            -> "forbid_full_scan"
    [] rule.rule = "no_full_scan_without_timestamp_condition" -> "forbid_full_scan_without_timestamp_condition"
    [] OTHER                                                 -> rule.rule

AggregateFamilies == {"hash_aggregate", "stream_aggregate"}
Unclassified(query, family) ==
  {i \in DOMAIN query.operators :
     IF family \in AggregateFamilies
     THEN query.operators[i].name = "aggregate" /\ query.operators[i].family = "aggregate"
     ELSE query.operators[i].family = "join"}
\* Mutant of MatchedOperatorIndexes: always the matching operators.
MatchedOperatorIndexesOnly(query, rule) == Matched(query, rule)

\* The operators in doubt instead of the matching ones, when there is doubt.
MatchedOperatorIndexes(query, rule) ==
  IF rule.rule = "operator_family" /\ ClassificationUnknown(query, rule.family)
     /\ Unclassified(query, rule.family) # {}
  THEN Unclassified(query, rule.family) ELSE Matched(query, rule)

Remediation(rule) ==
  LET surfaces ==
        CASE rule.rule # "operator_family" ->
               IF rule.rule = "no_blocking_operator_under_limit" THEN {"sql"}
               ELSE IF rule.rule = "require_timestamp_condition" THEN {"sql", "contract"} ELSE {"ddl", "sql"}
          [] rule.family \in {"explicit_sort", "full_sort"} -> {"config", "ddl"}
          [] rule.family = "minor_sort"                     -> {"ddl", "contract"}
          [] rule.family = "hash_aggregate"                 -> {"sql", "ddl"}
          [] rule.family \in {"blocking_operator", "hash_join", "push_broadcast_hash_join", "apply_join",
                              "distributed_cross_apply", "merge_join", "stream_aggregate"} -> {"sql"}
          [] OTHER -> {}
  IN  surfaces

\* Mutant of Unknown: a family in doubt does not fail.
UnknownPasses(query, rule) == FALSE

Unknown(query, rule) == rule.rule = "operator_family" /\ ClassificationUnknown(query, rule.family)
EvaluatePredicate(query, p) ==
  LET rule     == p.rule
      matched  == Matched(query, rule)
      violated == IF rule.rule = "require_timestamp_condition" THEN matched = {} ELSE Cardinality(matched) > rule.max
      unknown  == Unknown(query, rule)
  IN  [at |-> p.at, rule |-> RuleName(rule), source |-> p.source, predefined |-> p.predefined, expression |-> "",
       operator_family |-> rule.family, status |-> IF violated \/ unknown THEN "fail" ELSE "pass",
       failure_kind |-> IF unknown THEN "classification_unknown" ELSE IF violated THEN "violation" ELSE "",
       diagnostic_id |-> IF ~unknown THEN ""
                         ELSE IF rule.family \in AggregateFamilies THEN "plan.aggregate_classification_unknown"
                         ELSE "plan.join_classification_unknown",
       observed_count |-> Cardinality(matched), max_count |-> rule.max,
       matched_operator_indexes |-> {MatchedOperatorIndexes(query, rule)},
       remediation |-> (IF violated THEN Remediation(rule) ELSE {}) \cup (IF unknown THEN {"contract"} ELSE {})]

CELResult(outcome) ==
  [at |-> 1, rule |-> "cel", source |-> "cel", predefined |-> "", expression |-> "given", operator_family |-> "",
   status |-> IF outcome = "holds" THEN "pass" ELSE "fail",
   failure_kind |-> IF outcome = "holds" THEN "" ELSE "violation", diagnostic_id |-> "",
   observed_count |-> 0, max_count |-> 0, matched_operator_indexes |-> {},
   remediation |-> IF outcome = "holds" THEN {} ELSE {"contract"}]

EvaluateContract(queries, raws, contract) ==
  LET found == {i \in DOMAIN queries : queries[i].target = Trim(contract.target)}
      at    == CHOOSE i \in found : \A j \in found : i <= j
      base  == [name |-> contract.name, target_id |-> Trim(contract.target), query |-> "", scope |-> "", status |-> "pass",
                reason |-> "", error |-> "", stability |-> StabilityFor(contract), results |-> {}]
      missing(reason, entry) == [entry EXCEPT !.status = "not_evaluated", !.reason = reason]
  IN  IF found = {} THEN missing("target_not_found", base)
      ELSE LET query   == queries[at]
               entry   == [base EXCEPT !.query = query.name, !.scope = query.scope]
               results == {EvaluatePredicate(query, p) : p \in ResolvedPredicates(contract)} \cup
                          (IF contract.cel.blank THEN {}
                           ELSE {CELResult(EvaluateCEL(query, raws[at], contract.cel.asks))})
           IN  IF query.status # "ok" THEN [missing("target_error", entry) EXCEPT !.error = "unavailable"]
               ELSE [entry EXCEPT !.results = results,
                                  !.status = IF \E r \in results : r.status = "fail" THEN "fail" ELSE "pass"]

\* A CEL expression without a truth value fails the evaluation of all.
CELFails(queries, raws, contract) ==
  LET found == {i \in DOMAIN queries : queries[i].target = Trim(contract.target)}
      at    == CHOOSE i \in found : \A j \in found : i <= j
  IN  /\ found # {} /\ ~contract.cel.blank /\ queries[at].status = "ok"
      /\ EvaluateCEL(queries[at], raws[at], contract.cel.asks) = "error"

Summarize(evaluations) ==
  LET count(statuses) == Cardinality({k \in DOMAIN evaluations : evaluations[k].status \in statuses})
  IN  [contracts |-> Len(evaluations), passed |-> count({"pass"}), failed |-> count({"fail"}),
       not_evaluated |-> count({"not_evaluated"}),
       status |-> IF count({"fail", "not_evaluated"}) > 0 THEN "fail" ELSE "pass"]

-----------------------------------------------------------------------------
(* Pinning and warnings                                                     *)

\* Mutant of OptimizerValuePinned: the sentinels in capitals are taken for values.
OptimizerValuePinnedSpelt(value) == Trim(value) \notin MovingValues

OptimizerValuePinned(value) == Lower(Trim(value)) \notin MovingValues
OptimizerEnvironmentPinned(optimizer) ==
  OptimizerValuePinned(optimizer.version) /\ OptimizerValuePinned(optimizer.statistics)

EnvironmentWarnings(optimizer, identity, queries) ==
  {w \in {"optimizer_not_pinned", "statistics_package_not_pinned", "backend_identity_not_recorded",
          "query_optimizer_not_pinned", "operator_classification_unknown"} :
     CASE w = "optimizer_not_pinned"          -> ~OptimizerValuePinned(optimizer.version)
       [] w = "statistics_package_not_pinned" -> ~OptimizerValuePinned(optimizer.statistics)
       [] w = "backend_identity_not_recorded" ->
            Lower(identity.version) = "not_recorded" \/ Lower(identity.digest) = "not_recorded"
       [] w = "query_optimizer_not_pinned"    -> \E q \in ToSet(queries) : q.notPinned
       [] w = "operator_classification_unknown" -> \E q \in ToSet(queries) : q.warnings # {}}
CheckWarnings(warnings, evaluations) ==
  warnings \cup {w \in {"raw_query_plan_contract_used_in_check"} :
                   \E k \in DOMAIN evaluations : evaluations[k].stability.tier = "raw_query_plan"}
OptimizerPinningWarnings(warnings) ==
  warnings \cap {"optimizer_not_pinned", "statistics_package_not_pinned", "query_optimizer_not_pinned"}
=============================================================================
