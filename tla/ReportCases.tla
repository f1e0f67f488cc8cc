----------------------------- MODULE ReportCases -----------------------------
(***************************************************************************)
(* What stands beside a run of the command: a contract file that is read,  *)
(* a contract that is evaluated with the report around it, a plan whose    *)
(* vocabulary is inspected, and a call of planvocab-check.  A case, and    *)
(* then what the code makes of it.                                         *)
(***************************************************************************)
EXTENDS ReportSchema, PlanVocabulary

CONSTANTS
  ContractFiles, \* files of contracts, [version, contracts]
  ReportInputs,  \* plans of two targets, contract, parameters, optimizer and identity flags
  RawPlans,      \* raw plans, as PlanVocabulary has them
  Patterns,      \* patterns looked for in them
  Checks         \* calls of planvocab-check, [sources, expect, document, allow, format]

PatternType ==
  [name : STRING, family : STRING, metadata : Seq([key : STRING, value : [type : STRING, text : STRING]]),
   links : Seq([kind : STRING, type : STRING, variable : STRING, min : Int])]
QueryExpectation == [label : STRING, patterns : Seq(PatternType)]
ErrorExpectation == [label : STRING, contains : STRING]
Expects(document) == document.queries \in Seq(QueryExpectation) /\ document.errors \in Seq(ErrorExpectation)

Pin == [version |-> "1.0", digest |-> "sha256:good"]

\* The contracts of a report come from a file that was accepted, an expression
\* that asks for the raw plan names it, and plans are finite; a pin and a digest
\* are not the word for none.
ASSUME ReportsAssumption ==
  /\ {"query/A", "query/B#inner"} \subseteq TargetIDs
  /\ \A id \in TargetIDs : Trim(id) = id
  /\ \A w \in Digests \cup {Pin.version, Pin.digest} : Lower(w) # "not_recorded"
  /\ \A i \in ReportInputs :
       /\ IsFiniteSet(DOMAIN i.plan) /\ IsFiniteSet(DOMAIN i.inner)
       /\ ValidContract(i.contract, Identifiers, TargetIDs) /\ \A p \in ToSet(i.contract.forbid) : p.max \in Int
       /\ LET cel == i.contract.cel
          IN  ~cel.blank /\ cel.asks.of \in RawInputs => cel.asks.of \in References(cel)

IsContract(c) ==
  /\ c.use \in Seq(STRING) /\ c.forbid \in Seq([family : STRING, max : Int])
  /\ "given" \in DOMAIN c.cel /\ (~c.cel.given => c.cel.blank)

\* A file is a list of such contracts, an analyzed plan has nodes, and names the
\* command knows are neither in capitals nor between blanks; whoever writes the
\* word for none in another spelling has written a version as the schema sees it.
ASSUME FilesAssumption ==
  /\ \A file \in ContractFiles :
       file.contracts \in Seq(ToSet(file.contracts)) /\ \A c \in ToSet(file.contracts) : IsContract(c)
  /\ \A i \in ReportInputs : IsContract(i.contract) /\ DOMAIN i.plan # {} /\ DOMAIN i.inner # {}
  /\ \A w \in Identifiers \cup PredefinedNames \cup KnownOperatorFamilies \cup {FileVersion} : Trim(w) = w
  /\ \A name \in PredefinedNames : Lower(name) = name
  /\ \A w \in DOMAIN LowerCased : LowerCased[w] = "not_recorded" => w \in PlainValues

\* A value of a protobuf struct; two kinds of nothing are no value.
ValueTypes == {"null", "unset", "string", "number", "bool", "list", "object"}
IsRawNode(node) ==
  /\ DOMAIN node = {"name", "kind", "metadata", "links"}
  /\ IsFiniteSet(DOMAIN node.metadata) /\ IsFiniteSet(DOMAIN node.links)
  /\ \A k \in DOMAIN node.metadata :
       DOMAIN node.metadata[k] = {"type", "text"} /\ node.metadata[k].type \in ValueTypes
  /\ \A k \in DOMAIN node.links : DOMAIN node.links[k] = {"to", "type", "variable"}

\* Raw plans are made of such nodes, and the word that stands for a text that
\* is masked has no blanks around it.
ASSUME PlansAssumption ==
  /\ Trim("masked") = "masked"
  /\ \A plan \in RawPlans : \A i \in DOMAIN plan : IsRawNode(plan[i])

ASSUME ChecksAssumption ==
  \A c \in Checks : c.expect \in BOOLEAN /\ c.allow \in BOOLEAN /\ Expects(c.document)

VARIABLES
  matter, \* what the case is about and its input, "run" for a whole run
  made    \* what the command makes of it, "nothing" before

Case(of, input) == [of |-> of, input |-> input]
Made(of)        == matter.of = of /\ made.of = of
Nothing         == [of |-> "nothing"]

NoExpression ==
  [given |-> FALSE, blank |-> TRUE, compiles |-> TRUE, type |-> "", tree |-> <<>>, words |-> {},
   asks |-> [of |-> "", family |-> ""]]
NewContract(name, target, use, forbid, cel) ==
  [name |-> name, target |-> target, use |-> use, forbid |-> forbid, cel |-> cel]
Using(names) == NewContract("c", "query/A", names, <<>>, NoExpression)

-----------------------------------------------------------------------------
(* Files *)

ReadFile ==
  /\ matter.of = "file" /\ made = Nothing
  /\ made' = [of |-> "file", accepted |-> ValidFile(matter.input, Identifiers, TargetIDs)]
  /\ UNCHANGED matter

CanonicalContract(c) ==
  [name |-> Trim(c.name), target |-> Trim(c.target), use |-> [k \in DOMAIN c.use |-> Lower(Trim(c.use[k]))],
   forbid |-> [k \in DOMAIN c.forbid |-> [family |-> Trim(c.forbid[k].family), max |-> c.forbid[k].max]],
   cel |-> [c.cel EXCEPT !.given = ~c.cel.blank]]
OneUse(c) == [c EXCEPT !.use = IF IsInjective(@) THEN @ ELSE <<@[1]>>]

\* A file that an editor accepts with the published schema is accepted by the
\* command, but for what JSON schema cannot say: two contracts of one name, a
\* family forbidden twice with two maxima, an expression that is blank or does
\* not compile.
SchemaFilesAccepted ==
  Made("file") /\ FitsContractFile(matter.input) /\ ~made.accepted =>
    LET contracts == matter.input.contracts
    IN  \/ \E j, k \in DOMAIN contracts : j # k /\ contracts[j].name = contracts[k].name
        \/ \E c \in ToSet(contracts) : ~ForbiddenOnce(c) \/ (c.cel.given /\ (c.cel.blank \/ ~CompileCEL(c.cel)))

\* A file that the command accepts, once blanks and capitals are put right,
\* fits the schema, but for a name that is used twice; and no two contracts of
\* it answer to one name in the report.
AcceptedFilesFitSchema ==
  Made("file") /\ made.accepted =>
    LET contracts == [k \in DOMAIN matter.input.contracts |-> CanonicalContract(matter.input.contracts[k])]
    IN  /\ FitsContractFile([version |-> FileVersion, contracts |-> [k \in DOMAIN contracts |-> OneUse(contracts[k])]])
        /\ \A j, k \in DOMAIN contracts : contracts[j].name = contracts[k].name => j = k

-----------------------------------------------------------------------------
(* Reports *)

\* The entry of a target: of an analyzed one when its parameters have samples.
Entry(target, scope, params, plan, pinned) ==
  LET operators == Normalize(plan)
      base == [target |-> target, name |-> "A", scope |-> scope, status |-> "error", operators |-> <<>>, edges |-> {},
               warnings |-> {}, digested |-> TRUE, notPinned |-> ~pinned]
  IN  IF ParamsFail(ScopedParams(params, scope)) THEN base
      ELSE [base EXCEPT !.status = "ok", !.operators = operators, !.edges = Edges(plan),
                        !.warnings = ClassificationWarnings(operators)]
Entries(input, plan) ==
  << Entry("query/A", "query", <<>>, plan, OptimizerEnvironmentPinned(ResolvedOptimizer(input.optimizer))),
     Entry("query/B#inner", "inner", input.params, input.inner, OptimizerEnvironmentPinned(ResolvedOptimizer(input.optimizer))) >>

\* The plan of another day, which the normalized view of a report cannot tell
\* from today's.
AnotherDay(plan) == [i \in DOMAIN plan |-> [plan[i] EXCEPT !.name = "something else"]]
Raws(input, plan) == <<plan, input.inner>>
\* Where a contract looks.
TargetIndex(contract) == IF Trim(contract.target) = "query/B#inner" THEN 2 ELSE 1

MakeReport ==
  /\ matter.of = "report" /\ made = Nothing
  /\ LET input     == matter.input
         identity  == ReportIdentity(BackendIdentityFromFlags(input.version, input.digest), input.attached, Pin)
         queries   == Entries(input, input.plan)
         optimizer == ResolvedOptimizer(input.optimizer)
         evaluation == EvaluateContract(queries, Raws(input, input.plan), input.contract)
         environment == EnvironmentWarnings(optimizer, identity, queries)
     IN  made' = IF \/ FlagsRefused(input.digest)
                    \/ ~input.attached /\ AssertionConflicts(BackendIdentityFromFlags(input.version, input.digest), Pin)
                    \/ CELFails(queries, Raws(input, input.plan), input.contract)
                 THEN [of |-> "refused"]
                 ELSE [of |-> "report", mode |-> "check", queries |-> queries, evaluations |-> <<evaluation>>,
                       identity |-> identity, environment |-> CheckWarnings(environment, <<evaluation>>)]
  /\ UNCHANGED matter

\* The entry of a contract says what PlanContract says of it, which knows
\* nothing of counts, failure kinds and sources; the summary counts it so.
VerdictsAgree ==
  Made("report") =>
    LET contract == matter.input.contract
        at == TargetIndex(contract)
        asked == [target |-> Trim(contract.target), rules |-> {p.rule : p \in ResolvedPredicates(contract)},
                  cel |-> IF contract.cel.blank THEN "none"
                          ELSE EvaluateCEL(made.queries[at], Raws(matter.input, matter.input.plan)[at], contract.cel.asks)]
        verdict == Evaluate(made.queries, asked)
        entry   == made.evaluations[1]
        passed  == IF verdict = "holds" THEN 1 ELSE 0
    IN  /\ entry.status = CASE verdict = "holds" -> "pass" [] verdict = "fails" -> "fail" [] OTHER -> "not_evaluated"
        /\ entry.status = "not_evaluated" => entry.reason = verdict
        /\ Summarize(made.evaluations).passed = passed
        /\ (Summarize(made.evaluations).status = "pass") = (passed = 1)

\* A rule that fails shows operators of the report, those it found or those
\* whose kind it cannot tell; a violation shows as many as it counts, and doubt
\* comes with advice on the contract.
FailuresShowOperators ==
  Made("report") =>
    \A r \in made.evaluations[1].results :
      r.status = "fail" /\ r.rule \notin {"cel", "require_timestamp_condition"} =>
        LET shown == UNION r.matched_operator_indexes
        IN  /\ shown # {} /\ shown \subseteq DOMAIN made.queries[TargetIndex(matter.input.contract)].operators
            /\ r.failure_kind = "violation" => r.observed_count > r.max_count /\ Cardinality(shown) = r.observed_count
            /\ r.failure_kind = "classification_unknown" => "contract" \in r.remediation

\* What an expression reads as operator_family_counts[f] is the count a forbid
\* rule on f makes, umbrella families included; and the counts of a subtree,
\* completed once more, are those the report is checked against.
UmbrellaCountsAgree ==
  Made("report") =>
    LET query  == made.queries[1]
        counts == OperatorFamilyCountsOrEmpty(OperatorFamilyCounts(query.operators))
    IN  /\ \A f \in KnownOperatorFamilies : counts[f] = Cardinality(Matched(query, Forbid(f, 0)))
        /\ \A i \in DOMAIN query.operators :
             LET subtree == SubtreeFamilyCounts(query.operators, i)
             IN  OperatorFamilyCountsOrEmpty(subtree) = subtree

\* A contract that the report calls replayable has the same result when only
\* the report is at hand (PLAN_CONTRACTS.md, Stability).
ReplayableContractsReplay ==
  Made("report") /\ made.evaluations[1].stability.replayable_from_report =>
    made.evaluations = <<EvaluateContract(made.queries, Raws(matter.input, AnotherDay(matter.input.plan)), matter.input.contract)>>

\* Two plans of one operator_tree_sha256 have the same verdicts, so that the
\* digest can stand for the tree (cmd/spanner-query-gen/DESIGN.md:392): here the
\* plan and the same with another kind of a node or another type of a link.
Variants(plan) ==
  UNION {{[plan EXCEPT ![i].kind = k] : k \in {"scalar", "unspecified"}}
         \cup {[plan EXCEPT ![i].links[j].type = t] : j \in DOMAIN plan[i].links, t \in {"", "map"}} : i \in DOMAIN plan}
DigestStandsForVerdicts ==
  Made("report") =>
    \A other \in Variants(matter.input.plan) :
      OperatorTreeDigest(other) = OperatorTreeDigest(matter.input.plan) =>
        LET queries == Entries(matter.input, other)
        IN  EvaluateContract(queries, Raws(matter.input, matter.input.plan), matter.input.contract) = made.evaluations[1]

\* What is written fits the published schema of reports when the contract fits
\* that of contract files: every status, rule and source comes with the keys
\* the schema asks for and without those it forbids.  Only two kinds of empty
\* values depart from it: counts of zero, which the schema requires and the
\* structs leave out, and lists that were never filled, which are null.
WrittenReportsFitSchema ==
  Made("report") /\ FitsContract(matter.input.contract) /\ ValidBackendIdentity(made.identity) =>
    /\ FitsReportShape(made)
    /\ FitsReport(made) \/ made.environment = {}
         \/ \E r \in made.evaluations[1].results : r.rule # "cel" /\ 0 \in {r.observed_count, r.max_count}

\* Identity flags that were accepted make the command refuse its own report only
\* when a version is asserted that nobody can record: the word for none, in
\* whatever spelling and with no digest beside it, or a text that is no version.
Unrecordable(id) ==
  /\ id.source = "manual"
  /\ IF Lower(id.version) = "not_recorded" THEN id.digest = "not_recorded" ELSE id.version \notin PlainValues
AcceptedIdentitiesAreValid == Made("report") => (ValidBackendIdentity(made.identity) <=> ~Unrecordable(made.identity))

\* When --require-optimizer-pinning lets a run pass, every target was analyzed
\* with a fixed optimizer version and statistics package, whatever the spelling.
PinningGateMeansFixed ==
  Made("report") /\ OptimizerPinningWarnings(made.environment) = {} =>
    LET sent == SentOptimizer(ResolvedOptimizer(matter.input.optimizer))
    IN  \A f \in {"version", "statistics"} :
          Lower(sent[f]) \notin {"", "latest", "latest_version", "default_version", "not_pinned", "not_recorded"}

\* The text for people has a plan exactly where contracts are evaluated and
\* lists exactly the families that a rule without allowance would find.
MarkdownAgrees ==
  Made("report") =>
    LET text == Markdown(made)
    IN  /\ \A k \in DOMAIN made.queries :
             LET contract == [Using(<<"no_full_scan">>) EXCEPT !.target = made.queries[k].target]
                 evaluation == EvaluateContract(made.queries, Raws(matter.input, matter.input.plan), contract)
             IN  /\ (text.targets[k].body = "plan") = (evaluation.status # "not_evaluated")
                 /\ text.targets[k].counts = {f \in KnownOperatorFamilies : Matched(made.queries[k], Forbid(f, 0)) # {}}
        /\ \A line \in text.contracts[1].results : line.status = "fail" => line.kind # ""

-----------------------------------------------------------------------------
(* planvocab *)

InspectPlan ==
  /\ matter.of = "plan" /\ made = Nothing
  /\ made' = [of |-> "plan", findings |-> Inspect(matter.input),
              mismatches |-> [p \in Patterns |-> Mismatches(matter.input, p)]]
  /\ UNCHANGED matter

\* The same plan with other identifiers: texts of keys whose values are not
\* listed in the catalog, and names of variables.
MaskedMetadata(node) ==
  [k \in DOMAIN node.metadata |->
     IF Enumerated(node, k) THEN node.metadata[k] ELSE [node.metadata[k] EXCEPT !.text = "masked"]]
MaskedLinks(node) ==
  [k \in DOMAIN node.links |-> [node.links[k] EXCEPT !.variable = IF Trim(@) = "" THEN @ ELSE "masked"]]
Masked(plan) ==
  [i \in DOMAIN plan |-> [plan[i] EXCEPT !.metadata = MaskedMetadata(plan[i]), !.links = MaskedLinks(plan[i])]]

\* Identifiers are redacted before fingerprinting and logging (observer.go:165)
\* and from the diagnostics of a pattern (matcher.go:54): neither a finding nor
\* a mismatch differs when identifiers do.  A text that does appear is a value
\* the catalog knows or one it should be asked about.
FindingsAreRedacted ==
  Made("plan") =>
    /\ made.findings = Inspect(Masked(matter.input))
    /\ \A p \in Patterns : \A m \in made.mismatches[p], n \in Mismatches(Masked(matter.input), p) :
         m.at = n.at =>
           /\ m.reasons.links = n.reasons.links
           /\ \A r \in m.reasons.metadata, q \in n.reasons.metadata : r.key = q.key => r = q

\* A record is written once for a fingerprint, so it must stand for every
\* finding that has it: they differ in the index and the spelling of the name
\* only, and in the text of an iterator type that is a list or an object.
Findings == UNION {Inspect(plan) : plan \in RawPlans}
FingerprintStandsForFinding ==
  Made("plan") =>
    \A f \in made.findings, g \in Findings :
      Fingerprint(f) = Fingerprint(g) =>
        /\ [f EXCEPT !.at = g.at, !.name = g.name, !.iteratorType = g.iteratorType] = g
        /\ \/ f.iteratorType = g.iteratorType
           \/ \E v \in {"list", "object"} : [key |-> "iterator_type", value |-> v] \in f.metadata

NewPattern(name, family, metadata, links) ==
  [name |-> name, family |-> family, metadata |-> metadata, links |-> links]
Required(key, value) == [key |-> key, value |-> value]
RequiredLink(kind, type, variable, min) == [kind |-> kind, type |-> type, variable |-> variable, min |-> min]

\* What Inspect shows of a node can be written down as a pattern, and finds the
\* node again, unless a name or a type was written with blanks around it.
RequiredKeys(finding)  == {Required(m.key, NoValue) : m \in finding.metadata}
RequiredLinks(finding) ==
  {RequiredLink(l.shape.kind, l.shape.type, IF l.shape.variable THEN "present" ELSE "absent", IF l.repeated THEN 2 ELSE 0) :
     l \in finding.links}
PatternOf(finding) == NewPattern(finding.name, "", SetToSeq(RequiredKeys(finding)), SetToSeq(RequiredLinks(finding)))
FoundShapesMatch ==
  Made("plan") =>
    \A f \in made.findings :
      LET node == matter.input[f.at]
      IN  node.name = f.name /\ (\A l \in ToSet(node.links) : Trim(l.type) = l.type) =>
            f.at \in Matches(matter.input, PatternOf(f))

-----------------------------------------------------------------------------
RunCheck ==
  /\ matter.of = "check" /\ made = Nothing
  /\ made' = [of |-> "check", status |-> Check(matter.input)]
  /\ UNCHANGED matter

\* planvocab-check succeeds exactly when every plan is there and catalogued,
\* every envelope of a label that is expected to show a pattern has a plan that
\* does, every envelope of a label that is expected to fail failed as expected,
\* no expectation is about a label nobody gave, and every other error of a
\* query was allowed.
EarnedCheck(input) ==
  LET document  == IF input.expect THEN input.document ELSE NoDocument
      envelopes == ToSet(Envelopes(input.sources))
      given(l)  == {e \in envelopes : e.label = l}
  IN  /\ input.format \in {"text", "json"} /\ (input.expect => ValidDocument(document))
      /\ \A s \in ToSet(input.sources) : s.envelopes # <<>>
      /\ \A e \in envelopes : e.error # {} \/ (e.plan # {} /\ \A plan \in e.plan : Inspect(plan) = {})
      /\ \A q \in ToSet(document.queries) :
           /\ given(q.label) # {}
           /\ \A e \in given(q.label), p \in ToSet(q.patterns) :
                e.error = {} /\ ValidPattern(p) /\ \E plan \in e.plan : Matches(plan, p) # {}
      /\ \A x \in ToSet(document.errors) :
           given(x.label) # {} /\ \A e \in given(x.label) : x.contains \in e.error
      /\ \A e \in envelopes :
           e.error # {} => input.allow /\ (document.errors = <<>> \/ ErrorsFor(document, e.label) # {})
CheckedVocabularyIsEarned == Made("check") => (made.status = "passed" <=> EarnedCheck(matter.input))

-----------------------------------------------------------------------------
AllCases ==
  {Case("file", f) : f \in ContractFiles} \cup {Case("report", i) : i \in ReportInputs}
  \cup {Case("plan", p) : p \in RawPlans} \cup {Case("check", c) : c \in Checks}
CaseInit == matter \in AllCases /\ made = Nothing
CaseStep == ReadFile \/ MakeReport \/ InspectPlan \/ RunCheck
CaseSpec == CaseInit /\ [][CaseStep]_<<matter, made>>

\* The command and the schemas it publishes agree on files: what the contract
\* schema describes is parsed, what is parsed fits it, and a written report
\* fits the report schema.
FilesFitSchema == SchemaFilesAccepted /\ AcceptedFilesFitSchema /\ WrittenReportsFitSchema

\* One report says one thing: outcome, counts, umbrella counts, the operators
\* shown for a failure and the Markdown summary are derived apart and agree.
EntriesAgree ==
  /\ VerdictsAgree
  /\ FailuresShowOperators
  /\ UmbrellaCountsAgree
  /\ MarkdownAgrees

\* What a report claims about itself holds: a contract called replayable
\* answers the same from the report, one digest means one verdict, an accepted
\* identity is a valid one, and the pinning gate lets only fixed ones through.
ReportsVouch ==
  /\ ReplayableContractsReplay
  /\ DigestStandsForVerdicts
  /\ AcceptedIdentitiesAreValid
  /\ PinningGateMeansFixed

\* A finding of the vocabulary is what it says: it shows no text of the plan it
\* should not, one fingerprint means one finding, and the operators found are
\* those that match.
FindingsStand == FindingsAreRedacted /\ FingerprintStandsForFinding /\ FoundShapesMatch
=============================================================================
