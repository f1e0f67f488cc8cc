---------------------------- MODULE ReportSchema ----------------------------
(***************************************************************************)
(* The report of plan-report as it is written, and the JSON schemas that   *)
(* cmd/spanner-query-gen/config_schema.go publishes for contract files and *)
(* reports.  A written object is the set of the keys it has, encoding/json *)
(* leaving out what is empty, with the values of its fields.  A clause of  *)
(* a schema says which keys a value of one field asks for and forbids.     *)
(***************************************************************************)
EXTENDS ContractRules

CONSTANTS
  Identifiers, \* names a contract or a query may have
  TargetIDs    \* canonical target ids

-----------------------------------------------------------------------------
(* The header: flags and what the report says of backend and optimizer      *)

Digests      == {"sha256:good"}        \* sha256: and 64 lower-case hexadecimal digits
PlainValues  == {"1.0", "NOT_RECORDED", "not_recorded", "not_pinned", "latest", "LATEST", "NOT_PINNED", "7", "auto_2026"}

ValueOrNotRecorded(value) == IF value = "" THEN "not_recorded" ELSE value
BackendIdentityFromFlags(version, digest) ==
  IF Trim(version) = "" /\ Trim(digest) = ""
  THEN [version |-> "not_recorded", digest |-> "not_recorded", source |-> ""]
  ELSE [version |-> ValueOrNotRecorded(Trim(version)), digest |-> ValueOrNotRecorded(Trim(digest)), source |-> "manual"]
FlagsRefused(digest) == Trim(digest) \notin Digests \cup {""}
\* Mutant of ReportIdentity: an endpoint nobody vouches for has no source.
ReportIdentityUnmarked(flags, attached, pin) ==
  IF ~attached THEN [version |-> pin.version, digest |-> pin.digest, source |-> "runtime_targets"] ELSE flags

\* An attached endpoint has the identity the caller asserts, or none; a runtime
\* the command starts has that of its pin, which an assertion may not contradict.
ReportIdentity(flags, attached, pin) ==
  IF ~attached THEN [version |-> pin.version, digest |-> pin.digest, source |-> "runtime_targets"]
  ELSE IF flags.source = "" THEN [flags EXCEPT !.source = "external_unverified"] ELSE flags
AssertionConflicts(flags, pin) ==
  /\ flags.source # ""
  /\ \/ flags.version \notin {"not_recorded", pin.version}
     \/ flags.digest \notin {"not_recorded", pin.digest}

ValidBackendIdentity(id) ==
  LET noVersion == Lower(id.version) = "not_recorded"
      noDigest  == Lower(id.digest) = "not_recorded"
  IN  /\ noVersion \/ id.version \in PlainValues
      /\ noDigest \/ id.digest \in Digests
      /\ CASE id.source = "runtime_targets"     -> ~noVersion /\ ~noDigest
           [] id.source = "manual"              -> ~noVersion \/ ~noDigest
           [] id.source = "external_unverified" -> noVersion /\ noDigest
           [] OTHER -> FALSE
FitsIdentity(id) ==
  /\ id.version \in PlainValues \cup {"not_recorded"} /\ id.digest \in Digests \cup {"not_recorded"}
  /\ id.source \in {"runtime_targets", "manual", "external_unverified"}
  /\ id.source = "manual" => ~(id.version = "not_recorded" /\ id.digest = "not_recorded")
  /\ id.source = "external_unverified" => id.version = "not_recorded" /\ id.digest = "not_recorded"
  /\ id.source = "runtime_targets" => id.version # "not_recorded" /\ id.digest \in Digests

ValueOrNotPinned(value)  == IF Trim(value) = "" THEN "not_pinned" ELSE Trim(value)
ResolvedOptimizer(flags) == [version |-> ValueOrNotPinned(flags.version), statistics |-> ValueOrNotPinned(flags.statistics)]

\* What AnalyzeQuery is told; "" leaves the choice to the backend.
SentOptimizer(requested) ==
  [f \in {"version", "statistics"} |-> IF requested[f] = "not_pinned" THEN "" ELSE requested[f]]

-----------------------------------------------------------------------------
(* Sample values of the parameters                                          *)

ScopedParams(params, scope) == SelectSeq(params, LAMBDA p : Lower(Trim(p.scope)) \in {"", scope})
ScalarSamples == {"BOOL", "INT64", "FLOAT32", "FLOAT64", "NUMERIC", "STRING", "BYTES", "DATE", "TIMESTAMP"}

ArraySamples  == ScalarSamples \ {"NUMERIC"}
Sampled(type) == IF type.array THEN type.of \in ArraySamples ELSE type.of \in ScalarSamples
\* Bind values by name; a choice of an ORDER BY is text by now and binds nothing.
ParamValues(params) ==
  {[name |-> p.name, type |-> p.type] : p \in {q \in ToSet(params) : Lower(Trim(q.optional)) # "orderby_choice"}}
ParamsFail(params) == \E v \in ParamValues(params) : ~Sampled(v.type)

-----------------------------------------------------------------------------
(* Written objects                                                          *)

Nonempty(object, texts, sets, counts) ==
  {k \in texts : object[k] # ""} \cup {k \in sets : object[k] # {}} \cup {k \in counts : object[k] # 0}

\* Mutant of ResultKeys: an operator list is left out when it is empty.
ResultKeysNoEmptyList(r) ==
  {"status"} \cup Nonempty(r, {"rule", "source", "predefined", "expression", "operator_family", "failure_kind",
                               "diagnostic_id"}, {"remediation"}, {"observed_count", "max_count"})
  \cup {k \in {"matched_operator_indexes"} : UNION r[k] # {}}

\* The list of operators is a pointer: an empty one is written.
ResultKeys(r) ==
  {"status"} \cup Nonempty(r, {"rule", "source", "predefined", "expression", "operator_family", "failure_kind",
                               "diagnostic_id"}, {"matched_operator_indexes", "remediation"},
                           {"observed_count", "max_count"})
EvaluationKeys(e) == {"name", "target_id", "status", "stability"} \cup
                     Nonempty(e, {"query", "scope", "reason", "error"}, {"results"}, {})

SuccessOnlyFields == {"operator_tree_sha256", "operator_families", "operator_family_counts", "normalized_operators",
                      "operator_edges", "plan", "classification_warnings"}
\* The edges of an analyzed target are written even when there are none.
QueryKeys(q) ==
  {"target_id", "name", "catalog", "kind", "status", "scope", "sql", "sql_sha256"} \cup
  {k \in {"error"} : q.status # "ok"} \cup
  {k \in {"ddl_sha256"} : q.digested} \cup
  {k \in SuccessOnlyFields : /\ q.status = "ok"
                             /\ k \in {"operator_families", "normalized_operators"} => DOMAIN q.operators # {}
                             /\ k = "classification_warnings" => q.warnings # {}} \cup
  {k \in {"optimizer_not_pinned", "plan_environment_notes"} : q.notPinned}

ContractFields == {"contract_file_version", "contract_evaluator_version", "contract_evaluations", "contract_summary"}
ReportKeys(r) ==
  {"report_version", "status", "backend", "input", "plan_source", "backend_identity", "normalization",
   "target_summary", "format", "render_mode", "stable", "queries", "contract_evaluation_mode", "optimizer", "warnings"}
  \cup (IF r.mode = "none" THEN {} ELSE ContractFields)
\* Slices that are never filled are written as null.
NullKeys(r) == {k \in {"queries"} : r.queries = <<>>} \cup {k \in {"environment_warnings"} : r.mode # "none" /\ r.environment = {}}

-----------------------------------------------------------------------------
(* Schemas                                                                  *)

Clause(field, values, requires, forbids) ==
  [field |-> field, values |-> values, requires |-> requires, forbids |-> forbids]
Fits(object, keys, clauses) ==
  \A c \in clauses : c.field \in keys /\ object[c.field] \in c.values => c.requires \subseteq keys /\ c.forbids \cap keys = {}

Counts == {"observed_count", "max_count", "matched_operator_indexes"}
ResultClauses ==
  { Clause("rule", {"forbid_operator_family"}, {"operator_family"} \cup Counts, {"expression"}),
    Clause("rule", {"cel"}, {"expression"}, {"predefined", "operator_family"} \cup Counts),
    Clause("rule", {"forbid_blocking_operator_under_limit", "forbid_full_scan", "require_timestamp_condition",
                    "forbid_full_scan_without_timestamp_condition"},
           {"predefined"} \cup Counts, {"expression", "operator_family", "diagnostic_id"}),
    Clause("status", {"fail"}, {"failure_kind"}, {}),
    Clause("status", {"pass"}, {}, {"failure_kind", "diagnostic_id", "remediation"}),
    Clause("failure_kind", {"classification_unknown"}, {"diagnostic_id"}, {}),
    Clause("failure_kind", {"violation"}, {}, {"diagnostic_id"}),
    Clause("source", {"use"}, {"predefined"}, {}),
    Clause("source", {"forbid", "cel"}, {}, {"predefined"}) }
\* Which source a kind of rule may come from.
FitsSource(r) ==
  CASE r.rule = "cel" -> r.source = "cel"
    [] r.rule = "forbid_operator_family" -> r.source = "forbid" \/ (r.source = "use" /\ r.predefined \in ForbidNames)
    [] OTHER -> r.source = "use" /\ r.predefined \in RuleNames /\ RuleName(Rule(r.predefined)) = r.rule
FitsResult(r, keys) ==
  /\ {"rule", "source", "status"} \subseteq keys /\ Fits(r, keys, ResultClauses) /\ FitsSource(r)
  /\ "predefined" \in keys => r.predefined \in PredefinedNames
  /\ "operator_family" \in keys => r.operator_family \in KnownOperatorFamilies

FitsStability(s) ==
  /\ s.tier = "raw_query_plan" => ~s.check_recommended /\ ~s.replayable_from_report
  /\ s.tier = "normalized_operator" => s.replayable_from_report

EvaluationClauses ==
  { Clause("status", {"pass", "fail"}, {"query", "scope", "results"}, {"reason", "error"}),
    Clause("status", {"not_evaluated"}, {"reason"}, {"results"}),
    Clause("reason", {"target_error"}, {"error"}, {}),
    Clause("reason", {"target_not_found"}, {}, {"error"}) }
\* Two equal entries of an array are one too many.
Untitled(r) == [f \in DOMAIN r \ {"at"} |-> r[f]]
FitsEvaluation(e) ==
  /\ Fits(e, EvaluationKeys(e), EvaluationClauses)
  /\ e.name \in Identifiers /\ e.target_id \in TargetIDs /\ FitsStability(e.stability)
  /\ \A x, y \in e.results : Untitled(x) = Untitled(y) => x = y

QueryClauses ==
  { Clause("status", {"ok"}, {"sql", "sql_sha256", "ddl_sha256"} \cup (SuccessOnlyFields \ {"classification_warnings"}), {}),
    Clause("status", {"error", "skipped"}, {"error"}, SuccessOnlyFields) }
FitsQuery(q) ==
  /\ Fits(q, QueryKeys(q), QueryClauses) /\ q.status \in {"ok", "error", "skipped"} /\ q.target \in TargetIDs
  /\ \A i \in DOMAIN q.operators : q.operators[i].family \in ConcreteOperatorFamilies

\* The report but for the counts that are zero and the lists that are null.
FitsReportShape(r) ==
  /\ r.mode \in {"report_only", "check"} => ContractFields \subseteq ReportKeys(r) /\ r.evaluations # <<>>
  /\ r.mode = "none" => ContractFields \cap ReportKeys(r) = {}
  /\ FitsIdentity(r.identity)
  /\ \A q \in ToSet(r.queries) : FitsQuery(q)
  /\ \A e \in ToSet(r.evaluations) :
       FitsEvaluation(e) /\ \A x \in e.results :
         FitsResult(x, ResultKeys(x) \cup (IF x.rule = "cel" THEN {} ELSE {"observed_count", "max_count"}))
FitsReport(r) ==
  /\ FitsReportShape(r) /\ NullKeys(r) = {}
  /\ \A e \in ToSet(r.evaluations) : \A x \in e.results : FitsResult(x, ResultKeys(x))

FitsContract(c) ==
  /\ c.name \in Identifiers /\ c.target \in TargetIDs
  /\ Cardinality({m \in {"use", "forbid", "cel"} : CASE m = "use" -> c.use # <<>> [] m = "forbid" -> c.forbid # <<>>
                                                      [] m = "cel" -> c.cel.given}) = 1
  /\ ToSet(c.use) \subseteq PredefinedNames /\ IsInjective(c.use)
  /\ \A p \in ToSet(c.forbid) : p.family \in KnownOperatorFamilies /\ p.max >= 0
  /\ IsInjective(c.forbid)
FitsContractFile(file) ==
  /\ file.version = FileVersion /\ file.contracts # <<>> /\ IsInjective(file.contracts)
  /\ \A c \in ToSet(file.contracts) : FitsContract(c)

-----------------------------------------------------------------------------
(* The text for people                                                      *)

\* Mutant of TargetLines: the plan is shown whatever happened.
TargetLinesPlan(q) == [id |-> q.target, status |-> q.status, warnings |-> q.warnings, body |-> "plan",
                       counts |-> {f \in KnownOperatorFamilies : OperatorFamilyCounts(q.operators)[f] > 0}]

\* One section per target: its error in place of a plan, the families that occur.
TargetLines(q) ==
  [id |-> q.target, status |-> q.status, warnings |-> q.warnings, body |-> IF q.status # "ok" THEN "error" ELSE "plan",
   counts |-> {f \in KnownOperatorFamilies : OperatorFamilyCounts(q.operators)[f] > 0}]
ResultLine(r) ==
  [label |-> IF r.operator_family = "" THEN r.rule ELSE r.operator_family, status |-> r.status,
   observed |-> r.observed_count, max |-> r.max_count, kind |-> r.failure_kind, diagnostic |-> r.diagnostic_id,
   matched |-> r.matched_operator_indexes, advice |-> r.remediation]
EvaluationLines(e) ==
  [name |-> e.name, id |-> e.target_id, status |-> e.status, reason |-> e.reason, tier |-> e.stability.tier,
   results |-> {ResultLine(r) : r \in e.results}]
Markdown(r) ==
  [identity |-> r.identity, mode |-> r.mode, targets |-> [k \in DOMAIN r.queries |-> TargetLines(r.queries[k])],
   contracts |-> [k \in DOMAIN r.evaluations |-> EvaluationLines(r.evaluations[k])],
   environment |-> IF r.evaluations = <<>> THEN {} ELSE r.environment]
=============================================================================
