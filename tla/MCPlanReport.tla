---------------------------- MODULE MCPlanReport ----------------------------
(***************************************************************************)
(* Instances of PlanReport and ReportCases for TLC: plans, contracts,      *)
(* contract files, options and calls of planvocab-check.                   *)
(***************************************************************************)
EXTENDS PlanReport, ReportCases

MCMentions   == [n \in {"frob join"} |-> {"join"}]
MCTrimmed    == [w \in {" c ", " query/A ", " hash_join ", " NO_HASH_JOIN ", " ", " latest ", " 7 ", " scan ", " Agg "} |->
                   CASE w = " c " -> "c" [] w = " query/A " -> "query/A" [] w = " hash_join " -> "hash_join"
                     [] w = " NO_HASH_JOIN " -> "NO_HASH_JOIN" [] w = " " -> "" [] w = " latest " -> "latest" [] w = " 7 " -> "7"
                     [] w = " scan " -> "scan" [] w = " Agg " -> "Agg"]
MCLowerCased == [w \in {"NO_HASH_JOIN", "NOT_RECORDED", "LATEST", "NOT_PINNED", "ORDERBY_CHOICE", "INNER", "Scan", "Agg", "Hash"} |->
                   CASE w = "NO_HASH_JOIN" -> "no_hash_join" [] w = "NOT_RECORDED" -> "not_recorded" [] w = "LATEST" -> "latest"
                     [] w = "NOT_PINNED" -> "not_pinned" [] w = "ORDERBY_CHOICE" -> "orderby_choice" [] w = "INNER" -> "inner"
                     [] w = "Scan" -> "scan" [] w = "Agg" -> "agg" [] w = "Hash" -> "hash"]

-----------------------------------------------------------------------------
(* Plans *)

Node(name, meta, links) == [name |-> name, kind |-> "relational", meta |-> meta, links |-> links]
To(i)     == [to |-> i, type |-> ""]
Mapped(i) == [to |-> i, type |-> "map"]
Stamp(i)  == [to |-> i, type |-> "timestamp condition"]
Expr      == [name |-> "function", kind |-> "scalar", meta |-> {}, links |-> <<>>]

\* A broadcast join and its implementation; the same without the batch input;
\* a distributed semi apply over two wrappers' worth of nodes.
Broadcast  == << Node("push broadcast hash join", {}, <<To(3), Mapped(2)>>), Node("hash join", {}, <<To(3)>>),
                 Node("scan", {"batch_scan"}, <<>>) >>
Nested     == << Node("push broadcast hash join", {}, <<Mapped(2)>>), Node("hash join", {}, <<To(3)>>),
                 Node("scan", {}, <<>>) >>
Semi       == << Node("distributed semi apply", {}, <<Mapped(2)>>), Node("compute", {}, <<To(3)>>),
                 Node("semi apply", {}, <<To(4)>>), Node("scan", {"batch_scan"}, <<>>) >>
\* A limit over a sort over a filter scan with a timestamp condition.
Limited    == << Node("limit", {}, <<To(2)>>), Node("sort", {}, <<To(3)>>),
                 Node("filter scan", {}, <<Stamp(4), To(5)>>), Expr, Node("table scan", {"full_scan"}, <<>>) >>
Sorted     == << Node("sort", {}, <<To(2)>>), Node("filter scan", {}, <<Stamp(3), To(4)>>), Expr,
                 Node("table scan", {"full_scan"}, <<>>) >>
\* A join and an aggregate of an unknown kind; a link to nowhere; two nodes with one index.
Unclear    == << Node("frob join", {}, <<To(2)>>), Node("aggregate", {"full_scan"}, <<>>) >>
Dangling   == << Node("scan", {}, <<To(7)>>) >>
Twice      == << Node("scan", {"repeated"}, <<>>) >>
MCPlans == {Broadcast, Nested, Semi, Limited, Sorted, Unclear, Dangling, Twice}
\* A scalar aggregate over a sort; both are blocking.
Totals     == << Node("aggregate", {"stream", "scalar_aggregate"}, <<To(2)>>), Node("sort", {}, <<To(3)>>),
                 Node("table scan", {}, <<>>) >>

-----------------------------------------------------------------------------
(* Contracts *)

Leaf(name)        == [kind |-> "ident", name |-> name, links |-> <<>>]
Field(name, of)   == [kind |-> "select", name |-> name, links |-> <<To(of)>>]
Over(links)       == [kind |-> "other", name |-> "", links |-> links]
Expression(of, family, type, tree) ==
  [given |-> TRUE, blank |-> FALSE, compiles |-> TRUE, type |-> type, tree |-> tree, words |-> {},
   asks |-> [of |-> of, family |-> family]]
\* operators.all(o, o.family != f), and the same of other lists.
AllOf(list, field) == << Over(<<To(2), To(3)>>), Leaf(list), Over(<<To(4)>>), Field(field, 5), Leaf("o") >>
\* operator_family_counts[f] == 0
CountIsZero == << Over(<<To(2)>>), Over(<<To(3)>>), Leaf("operator_family_counts") >>
NoWarnings  == << Over(<<To(2)>>), Field("classification_warnings", 3), Leaf("query") >>
InRawPlan   == << Over(<<To(2), To(4)>>), Field("plan_nodes", 3), Leaf("raw_plan"), Field("display_name", 5), Leaf("o") >>
FirstIndex  == << Field("index", 2), Over(<<To(3)>>), Leaf("operators") >>
MCExpressions ==
  { Expression("operators", "hash_join", "bool", AllOf("operators", "family")),
    Expression("operators", "hash_join", "bool", AllOf("operators", "full_scan")),
    Expression("operator_family_counts", "blocking_operator", "bool", CountIsZero),
    Expression("query", "", "bool", NoWarnings), Expression("raw_plan", "hash join", "bool", InRawPlan),
    Expression("raw_nodes", "sort", "bool", AllOf("raw_nodes", "display_name")),
    Expression("number", "", "dyn", FirstIndex) }
BadExpressions ==
  { [NoExpression EXCEPT !.given = TRUE], Expression("number", "", "int", FirstIndex),
    Expression("raw_nodes", "", "bool", AllOf("raw_nodes", "execution_stats")),
    [Expression("raw_plan", "", "", <<>>) EXCEPT !.compiles = FALSE, !.words = {"raw_plan"}] }

Limits(family, max) == [family |-> family, max |-> max]
Forbidding(list) == NewContract("c", "query/A", <<>>, list, NoExpression)
Asking(cel)      == NewContract("c", "query/A", <<>>, <<>>, cel)
DeskContracts ==
  {Using(<<n>>) : n \in PredefinedNames \cup {" NO_HASH_JOIN "}}
  \cup {Using(<<"no_hash_join", "no_full_scan">>), Using(<<"no_hash_join", "no_hash_join">>)}
  \cup {Forbidding(<<Limits(f, n)>>) : f \in {"explicit_sort", "blocking_operator", "aggregate", "scan", "join", "unknown"}, n \in 0..1}
  \cup {Forbidding(<<Limits("hash_join", 0), Limits("merge_join", 2)>>)} \cup {Asking(e) : e \in MCExpressions}
Elsewhere ==
  {[c EXCEPT !.target = t, !.name = n] : n \in {"c", " c "}, t \in {"query/B#inner", " query/A ", "query/Z"},
     c \in {Using(<<"no_explicit_sort">>), Asking(Expression("number", "", "dyn", FirstIndex)),
            Asking(Expression("raw_nodes", "sort", "bool", AllOf("raw_nodes", "display_name")))}}

\* Files that are valid, and files with one or two things wrong.
Second == {Using(<<"no_full_scan">>), [Using(<<"no_full_scan">>) EXCEPT !.name = "d"], [Using(<<"no_full_scan">>) EXCEPT !.name = " c "]}
Questionable ==
  {[Using(<<"no_full_scan">>) EXCEPT !.name = "9lives"], [Using(<<"no_full_scan">>) EXCEPT !.target = "A"],
   Using(<<"no_such_rule">>), [Using(<<"no_full_scan">>) EXCEPT !.forbid = <<Limits("scan", 0)>>],
   [Using(<<>>) EXCEPT !.name = " c "], [Using(<<"no_full_scan">>) EXCEPT !.cel = NoExpression, !.cel.given = TRUE]}
  \cup {Forbidding(<<Limits(f, n), Limits(g, 1)>>) :
          f \in {"hash_join", "scan"}, g \in {"hash_join", " hash_join ", "scan", "sort", " "}, n \in {-1, 0, 1}}
  \cup {Asking(e) : e \in BadExpressions}
MCFilesOfContracts ==
  {[version |-> v, contracts |-> l] : v \in {FileVersion, "v1"}, l \in {<<>>, <<Using(<<"no_full_scan">>)>>}}
  \cup {[version |-> FileVersion, contracts |-> <<c>>] : c \in DeskContracts \cup Elsewhere \cup Questionable}
  \cup {[version |-> FileVersion, contracts |-> <<Using(<<"no_hash_join">>), c>>] : c \in Second}

MCOptimizers ==
  {[version |-> v, statistics |-> s] :
     v \in {"", "7", " 7 ", "latest", "LATEST", "NOT_PINNED", " latest "}, s \in {"", "auto_2026", "not_recorded"}}
PinnedOptimizer == [version |-> "7", statistics |-> "auto_2026"]
MCParams ==
  LET scalar(t) == [array |-> FALSE, of |-> t]
      p(name, type, scope, optional) == [name |-> name, type |-> type, scope |-> scope, optional |-> optional]
  IN  { <<>>, <<p("p", scalar("INT64"), "", "")>>, <<p("p", [array |-> TRUE, of |-> "NUMERIC"], "inner", "")>>,
        <<p("p", [array |-> TRUE, of |-> "NUMERIC"], "INNER", "ORDERBY_CHOICE")>>, <<p("p", scalar("JSON"), "outer", "")>> }

Plainly(plan, contract) ==
  [plan |-> plan, inner |-> Sorted, contract |-> contract, optimizer |-> PinnedOptimizer, params |-> <<>>, version |-> "", digest |-> "",
   attached |-> TRUE]
DeskPlans == (MCPlans \ {Dangling, Twice}) \cup {Totals}
MCReportInputs ==
  {Plainly(p, c) : p \in DeskPlans, c \in DeskContracts}
  \cup {[Plainly(p, c) EXCEPT !.params = q] : p \in {Unclear}, c \in Elsewhere, q \in MCParams}
  \cup {[Plainly(Unclear, Using(<<"no_full_scan">>)) EXCEPT !.optimizer = o] : o \in MCOptimizers}
  \cup {[Plainly(Sorted, Using(<<"no_full_scan">>)) EXCEPT !.version = v, !.digest = d, !.attached = a] :
          v \in {"", " ", "1.0", "not_recorded", "NOT_RECORDED", "7", "one two"}, d \in {"", " ", "sha256:good", "sha256:bad"}, a \in BOOLEAN}

-----------------------------------------------------------------------------
FewPlans == {Sorted, Unclear}

MCTargets == << [id |-> "query/A", catalog |-> "spanner"], [id |-> "query/B#inner", catalog |-> "bigquery"],
                [id |-> "query/C", catalog |-> "spanner"] >>

TwoDatabases == << [id |-> "query/A", catalog |-> "spanner"], [id |-> "query/C", catalog |-> "plain"] >>

Contract(target, rules) == [target |-> target, rules |-> rules, cel |-> "none"]
Cel(target, outcome)    == [target |-> target, rules |-> {}, cel |-> outcome]
Joins   == << Contract("query/A", Predefined("no_hash_join") \cup Predefined("no_merge_join")),
              Contract("query/C", Predefined("no_apply_join") \cup Predefined("no_hash_aggregate")) >>
Shapes  == << Contract("query/A", {Rule("no_blocking_operator_under_limit")}),
              Contract("query/C", {Rule("no_full_scan_without_timestamp_condition")}) >>
Stamped == << Contract("query/A", {Rule("require_timestamp_condition"), Forbid("explicit_sort", 1)}),
              Cel("query/C", "holds") >>
Failing == << Cel("query/A", "fails"), Contract("query/B#inner", {Rule("no_full_scan")}) >>
Broken  == << Cel("query/A", "error") >>

Base == [mode |-> "check", targets |-> MCTargets, contracts |-> Joins, requireTargets |-> FALSE, requirePinning |-> FALSE,
         pinned |-> TRUE, endpoint |-> "attached", assertion |-> "none"]
MCOptions ==
  { Base,
    [Base EXCEPT !.contracts = Shapes, !.endpoint = "cold_start", !.assertion = "pin"],
    [Base EXCEPT !.contracts = Stamped, !.requirePinning = TRUE, !.requireTargets = TRUE],
    [Base EXCEPT !.contracts = Failing, !.pinned = FALSE, !.mode = "report_only"],
    [Base EXCEPT !.contracts = Failing, !.assertion = "other"],
    [Base EXCEPT !.targets = TwoDatabases],
    [Base EXCEPT !.contracts = Broken, !.assertion = "malformed"],
    [Base EXCEPT !.mode = "none", !.pinned = FALSE, !.requirePinning = TRUE, !.assertion = "malformed"],
    [Base EXCEPT !.endpoint = "cold_start", !.assertion = "other"],
    [Base EXCEPT !.targets = SubSeq(@, 2, 2), !.requireTargets = TRUE] }
OneOption == {Base}

-----------------------------------------------------------------------------
(* planvocab: a raw plan and a pattern, or a call of planvocab-check. *)

\* A part of planvocab/catalog.json; "compute" has what Union Input has there.
Operator(kind, metadata, links) == [kind |-> kind, metadata |-> metadata, links |-> links]
LinkRule(kind, type, variable, multiple) ==
  [kind |-> kind, type |-> type, wildcard |-> FALSE, variable |-> variable, multiple |-> multiple]
MCCommonMetadata == [k \in {"execution_method"} |-> {"batch", "row"}]
MCCatalog ==
  [o \in {"aggregate", "scan", "hash join", "compute", "reference"} |->
     CASE o = "aggregate" -> Operator("relational", [k \in {"iterator_type"} |-> {"hash", "stream"}],
                               <<LinkRule("scalar", "Agg", "present", "yes"), LinkRule("relational", "", "absent", "undeclared")>>)
       [] o = "scan" -> Operator("relational",
                          [k \in {"scan_target", "scan_method"} |-> IF k = "scan_target" THEN {} ELSE {"batch", "row"}],
                          <<LinkRule("scalar", "", "present", "yes")>>)
       [] o = "hash join" -> Operator("relational", <<>>,
                               <<LinkRule("relational", "Build", "absent", "no"), LinkRule("scalar", "Build", "any", "yes")>>)
       [] o = "compute" -> Operator("relational", <<>>, <<[LinkRule("scalar", "input_", "absent", "undeclared") EXCEPT !.wildcard = TRUE]>>)
       [] o = "reference" -> Operator("scalar", <<>>, <<>>)]
MCBeginsWith == [w \in {"$b", "input_0"} |-> IF w = "$b" THEN {"$"} ELSE {"input_"}]

-----------------------------------------------------------------------------
(* Plans: one node over an expression and a scan, in which one or two       *)
(* things are not what the catalog has.                                     *)

RawNode(name, kind, metadata, links) == [name |-> name, kind |-> kind, metadata |-> metadata, links |-> links]
RawLink(to, type, variable) == [to |-> to, type |-> type, variable |-> variable]
Text(word) == [type |-> "string", text |-> word]
Below == << RawNode("reference", "scalar", <<>>, <<>>), RawNode("scan", "relational", <<>>, <<RawLink(2, "", "x")>>) >>
Over2(node) == <<node>> \o Below

MCValues == {Text("Hash"), Text("spiral"), Text("$b"), [type |-> "bool", text |-> "true"],
             [type |-> "list", text |-> "parts"], [type |-> "object", text |-> "parts"],
             [type |-> "null", text |-> ""], [type |-> "unset", text |-> ""]}
MCMetadata == {<<>>} \cup UNION {[{k} -> MCValues] : k \in {"iterator_type", "scan_target", "execution_method", "odd"}}
              \cup [{"odd", "scan_target"} -> {Text("Hash"), Text("spiral")}]
MCLinks == LET links == {RawLink(3, "Build", ""), RawLink(2, "Build", "x"), RawLink(2, " Agg ", "y"), RawLink(2, "Agg", " "),
                         RawLink(2, "input_0", ""), RawLink(7, "Build", "")}
           IN  {<<>>} \cup {<<l>> : l \in links} \cup {<<l, l>> : l \in links}
               \cup {<<RawLink(3, "Build", ""), RawLink(2, "Build", "x")>>, <<RawLink(2, "Build", "x"), RawLink(2, "Build", "y")>>}
MCNames == {"aggregate", "scan", " scan ", "Scan", "hash join", "compute", "frob join", "secret thing"}
MCRawPlans ==
  {Over2(RawNode(n, k, <<>>, <<>>)) : n \in MCNames, k \in {"relational", "scalar", "unspecified"}}
  \cup {Over2(RawNode(n, "relational", m, <<>>)) : n \in MCNames, m \in MCMetadata}
  \cup {Over2(RawNode(n, "relational", <<>>, l)) : n \in MCNames, l \in MCLinks}

MCPatterns ==
  { NewPattern("", "scan", <<Required("scan_target", NoValue)>>, <<>>),
    NewPattern("scan", "", <<Required("execution_method", Text("batch")), Required("odd", Text("Hash"))>>, <<>>),
    NewPattern("aggregate", "hash_aggregate", <<Required("iterator_type", Text("Hash"))>>, <<>>),
    NewPattern("aggregate", "", <<Required("iterator_type", Text("stream"))>>, <<>>),
    NewPattern("hash join", "hash_join", <<>>, <<RequiredLink("relational", "Build", "absent", 0), RequiredLink("", "Build", "any", 2)>>),
    NewPattern("hash join", "", <<>>, <<RequiredLink("scalar", "Build", "present", 2)>>) }

-----------------------------------------------------------------------------
(* planvocab-check *)

Clean   == Over2(RawNode("scan", "relational", [k \in {"scan_target"} |-> Text("spiral")], <<>>))
Unknown2 == Over2(RawNode("secret thing", "relational", <<>>, <<>>))
Answer(label, plan)    == [label |-> label, error |-> {}, plan |-> {plan}]
QueryError(label, phrases) == [label |-> label, error |-> phrases, plan |-> {}]
MCEnvelopes == { Answer("a", Clean), Answer("a", Unknown2), Answer(" ", Clean), Answer("b", Clean),
                 QueryError("a", {"hint"}), QueryError("b", {"other"}), [Answer("a", Clean) EXCEPT !.plan = {}] }
MCSources == {<<[name |-> "s", envelopes |-> l]>> : l \in {<<>>} \cup {<<e>> : e \in MCEnvelopes} \cup (MCEnvelopes \X MCEnvelopes)}
             \cup {<<[name |-> "a", envelopes |-> <<e>>], [name |-> "b", envelopes |-> <<Answer(" ", Clean)>>]>> : e \in MCEnvelopes}
ScanTarget == NewPattern("", "scan", <<Required("scan_target", Text("spiral"))>>, <<>>)
HashJoin2  == NewPattern("", "hash_join", <<>>, <<>>)
NotValid   == NewPattern("", "hashing", <<>>, <<>>)
Asks(label, patterns) == [label |-> label, patterns |-> patterns]
Documents ==
  {[NoDocument EXCEPT !.queries = <<Asks(l, p)>>] :
     l \in {"a", "s", "s#1"}, p \in {<<>>, <<ScanTarget>>, <<ScanTarget, HashJoin2>>, <<NotValid>>}}
  \cup {[NoDocument EXCEPT !.errors = <<[label |-> l, contains |-> c]>>] : l \in {"a", "b"}, c \in {"hint", " "}}
  \cup {[NoDocument EXCEPT !.queries = <<Asks("a", <<ScanTarget>>)>>, !.errors = <<[label |-> l, contains |-> "other"]>>] :
          l \in {"a", "b"}}
MCChecks ==
  LET base == [sources |-> <<>>, expect |-> TRUE, document |-> NoDocument, allow |-> TRUE, format |-> "text"]
  IN  {[base EXCEPT !.sources = s, !.document = d, !.allow = a] : s \in MCSources, d \in Documents, a \in BOOLEAN}
      \cup {[base EXCEPT !.sources = s, !.expect = FALSE, !.format = f] : s \in MCSources, f \in {"json", "xml"}}

-----------------------------------------------------------------------------
\* A behaviour is a run of the command, or one of the cases next to a run that
\* has not found a runtime.
MCInit ==
  \/ ReportInit /\ matter = Case("run", 0) /\ made = Nothing
  \/ /\ CaseInit
     /\ opts = Base /\ stage = "exit" /\ exit = "no_runtime" /\ runtime = "none" /\ report = EmptyReport
     /\ files = [f \in {"ddl", "protos"} |-> [c \in SpannerOnes |-> 0]]
     /\ clients = <<>> /\ open = {} /\ descriptors = <<>> /\ next = 1 /\ draft = <<>>
MCNext == (ReportNext /\ UNCHANGED <<matter, made>>) \/ (CaseStep /\ UNCHANGED reportVars)
MCSpec == MCInit /\ [][MCNext]_<<reportVars, matter, made>> /\ WF_reportVars(Command)
=============================================================================
