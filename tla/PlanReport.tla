----------------------------- MODULE PlanReport -----------------------------
(***************************************************************************)
(* spanner-query-gen plan-report: cmd/spanner-query-gen/plan_report.go and *)
(* plan_report_runtime.go.  One run of the command goes through the query  *)
(* targets of a configuration, opens one Spanner Omni database per catalog *)
(* on a runtime it selects, analyzes each target there, evaluates the      *)
(* contracts, writes the report and lets its flags decide the exit status. *)
(* Meanwhile somebody may edit the DDL and descriptor files it reads.      *)
(***************************************************************************)
EXTENDS PlanContract

CONSTANTS
  TargetIds,    \* ids of query targets
  CatalogNames, \* names they give for their catalogs
  SpannerOnes,  \* catalogs the configuration declares with dialect spanner
  WithProtos,   \* those with proto descriptor files
  Plans,        \* plans AnalyzeQuery may answer
  Options,      \* targets, contracts, flags and endpoint of a run
  MaxEdits      \* bound: edits of a file during the run

ASSUME PlanReportConstants ==
  /\ WithProtos \subseteq SpannerOnes /\ SpannerOnes \subseteq CatalogNames /\ MaxEdits \in Nat
  /\ Options \subseteq
       [mode : {"none", "report_only", "check"}, targets : Seq([id : TargetIds, catalog : CatalogNames]),
        contracts : Seq([target : TargetIds, rules : SUBSET RuleType, cel : CelOutcomes]),
        requireTargets : BOOLEAN, requirePinning : BOOLEAN, pinned : BOOLEAN,
        endpoint : {"attached", "cold_start"}, assertion : {"none", "pin", "other", "malformed"}]
  /\ \A o \in Options : o.contracts # <<>>
  /\ \A o \in Options : \A k \in DOMAIN o.contracts : o.contracts[k].cel = "none" \/ o.contracts[k].rules = {}
  /\ \A plan \in Plans : IsFiniteSet(DOMAIN plan)

VARIABLES
  opts,         \* the flags and what the environment offers
  files,        \* the version of each catalog's DDL and descriptor files now
  runtime,      \* "none", "open" or "closed"
  clients,      \* catalog -> what its database was set up with
  open,         \* catalogs whose clients are open
  descriptors,  \* catalog -> the descriptor version loaded
  next,         \* the target the loop is at
  draft,        \* what is known of that target so far
  report,       \* the planReport
  stage,        \* where the run is
  exit          \* "running", or how it ended

setup    == <<opts, runtime>>
database == <<clients, open, descriptors>>
reportVars == <<opts, files, runtime, clients, open, descriptors, next, draft, report, stage, exit>>

Spanner(t)  == opts.targets[t].catalog \in SpannerOnes
NeedsRuntime == \E t \in DOMAIN opts.targets : Spanner(t)
NoVersion   == -1      \* no descriptor files, no digest

EmptyReport ==
  [queries |-> <<>>, included |-> 0, planned |-> 0, errors |-> 0, skipped |-> 0, status |-> "ok",
   source |-> "", version |-> "not_recorded", evaluations |-> <<>>, mode |-> "none", output |-> "none"]

ReportInit ==
  /\ opts \in Options
  /\ files = [f \in {"ddl", "protos"} |-> [c \in SpannerOnes |-> 0]]
  /\ runtime = "none" /\ clients = <<>> /\ open = {} /\ descriptors = <<>>
  /\ next = 1 /\ draft = <<>> /\ report = EmptyReport
  /\ stage = "select" /\ exit = "running"

\* Mutant of CloseAll: the runtime handle is forgotten.
CloseClientsOnly == open' = {} /\ UNCHANGED runtime

\* The deferred closes run however buildPlanReport returns.
CloseAll ==
  /\ open' = {}
  /\ runtime' = IF runtime = "open" THEN "closed" ELSE runtime
Abort(why) == exit' = why /\ stage' = "exit"

Identity(source, version) == report' = [report EXCEPT !.source = source, !.version = version]
AttachedIdentity ==
  IF opts.assertion = "none" THEN Identity("external_unverified", "not_recorded")
  ELSE Identity("manual", opts.assertion)

\* A run without a Spanner target starts nothing.
SelectNothing ==
  /\ stage = "select" /\ ~NeedsRuntime
  /\ AttachedIdentity /\ stage' = "target"
  /\ UNCHANGED <<opts, files, runtime, database, next, draft, exit>>

SelectRuntime ==
  /\ stage = "select" /\ NeedsRuntime
  /\ opts.endpoint = "cold_start" => opts.assertion \in {"none", "pin"}
  /\ IF opts.endpoint = "attached" THEN AttachedIdentity ELSE Identity("runtime_targets", "pin")
  /\ runtime' = "open" /\ stage' = "target"
  /\ UNCHANGED <<opts, files, database, next, draft, exit>>

\* An unreadable endpoint or pin, a refused constructor; or an assertion that
\* contradicts the configured pin.
RejectRuntime ==
  /\ stage = "select" /\ NeedsRuntime
  /\ Abort("no_runtime")
  /\ UNCHANGED <<opts, files, runtime, database, next, draft, report>>

-----------------------------------------------------------------------------
(* The loop over the targets                                                *)

Blank(t) == [target |-> opts.targets[t].id, catalog |-> opts.targets[t].catalog, status |-> "pending", ddl |-> NoVersion,
             protos |-> NoVersion, operators |-> <<>>, edges |-> {}, warnings |-> {}, rawPlan |-> <<>>]

\* Mutant of AddQuery: targets that are skipped are not summed up.
AddQuerySilently(query) ==
  /\ report' = [report EXCEPT
       !.queries = Append(@, query), !.included = @ + 1,
       !.planned = IF query.status = "ok" THEN @ + 1 ELSE @,
       !.errors  = IF query.status = "error" THEN @ + 1 ELSE @]
  /\ next' = next + 1 /\ draft' = <<>> /\ stage' = "target"

\* The target is done: its entry joins the report under one of three statuses.
AddQuery(query) ==
  /\ report' = [report EXCEPT
       !.queries = Append(@, query), !.included = @ + 1,
       !.planned = IF query.status = "ok" THEN @ + 1 ELSE @,
       !.errors  = IF query.status = "error" THEN @ + 1 ELSE @,
       !.skipped = IF query.status = "skipped" THEN @ + 1 ELSE @]
  /\ next' = next + 1 /\ draft' = <<>> /\ stage' = "target"
Fail(query) == AddQuery([query EXCEPT !.status = "error"])

SkipTarget ==
  /\ stage = "target" /\ next <= Len(opts.targets) /\ ~Spanner(next)
  /\ AddQuery([Blank(next) EXCEPT !.status = "skipped"])
  /\ UNCHANGED <<setup, files, database, exit>>

ReadDDLDigest ==
  /\ stage = "target" /\ next <= Len(opts.targets) /\ Spanner(next)
  /\ \/ /\ draft' = [Blank(next) EXCEPT !.ddl = files.ddl[opts.targets[next].catalog]]
        /\ stage' = "descriptors" /\ UNCHANGED <<next, report>>
     \/ Fail(Blank(next))
  /\ UNCHANGED <<setup, files, database, exit>>

\* Mutant of LoadDescriptors: the digest is of the files as they are now.
LoadDescriptorsDigestFile ==
  /\ stage = "descriptors"
  /\ LET c == draft.catalog
         now == IF c \in WithProtos THEN files.protos[c] ELSE NoVersion
     IN  /\ descriptors' = [x \in DOMAIN descriptors \cup {c} |->
                              IF x \in DOMAIN descriptors THEN descriptors[x] ELSE now]
         /\ draft' = [draft EXCEPT !.protos = now]
         /\ stage' = "clients"
  /\ UNCHANGED <<setup, files, clients, open, next, report, exit>>

\* Loaded once per catalog; a failure is not remembered, so the next target of
\* the catalog tries again.
LoadDescriptors ==
  /\ stage = "descriptors"
  /\ LET c == draft.catalog
         known == IF c \in DOMAIN descriptors THEN descriptors[c]
                  ELSE IF c \in WithProtos THEN files.protos[c] ELSE NoVersion
     IN  \/ /\ descriptors' = [x \in DOMAIN descriptors \cup {c} |-> IF x = c THEN known ELSE descriptors[x]]
            /\ draft' = [draft EXCEPT !.protos = known]
            /\ stage' = "clients" /\ UNCHANGED <<next, report>>
         \/ /\ c \in WithProtos \ DOMAIN descriptors
            /\ Fail(draft) /\ UNCHANGED descriptors
  /\ UNCHANGED <<setup, files, clients, open, exit>>

\* The DDL file is read once more, for the set-up statements of the database.
OpenClients ==
  /\ stage = "clients"
  /\ LET c == draft.catalog
     IN  IF c \in DOMAIN clients THEN UNCHANGED <<clients, open>>
         ELSE /\ clients' = [x \in DOMAIN clients \cup {c} |->
                   IF x = c THEN [ddl |-> files.ddl[c], protos |-> descriptors[c]] ELSE clients[x]]
              /\ open' = open \cup {c}
  /\ stage' = "analyze"
  /\ UNCHANGED <<setup, files, descriptors, next, draft, report, exit>>

\* No container, DDL the database refuses, ...: the whole report is discarded.
OpenFails ==
  /\ stage = "clients" /\ draft.catalog \notin DOMAIN clients
  /\ CloseAll /\ Abort("open_failed")
  /\ UNCHANGED <<opts, files, clients, descriptors, next, draft, report>>

\* A parameter type without a sample value, an AnalyzeQuery or rendering error.
AnalyzeFails ==
  /\ stage = "analyze" /\ Fail(draft)
  /\ UNCHANGED <<setup, files, database, exit>>

Analyze(plan) ==
  /\ stage = "analyze"
  /\ LET operators == Normalize(plan)
     IN  AddQuery([draft EXCEPT !.status = "ok", !.operators = operators, !.edges = Edges(plan),
                    !.warnings = ClassificationWarnings(operators), !.rawPlan = plan])
  /\ UNCHANGED <<setup, files, database, exit>>

\* Mutant of EndTargets: waits for one target more than there are.
EndTargetsLate ==
  /\ stage = "target" /\ next > Len(opts.targets) + 1
  /\ report' = [report EXCEPT !.status = IF NeedsRuntime THEN "ok" ELSE "no_targets"]
  /\ CloseAll /\ stage' = "evaluate"
  /\ UNCHANGED <<opts, files, clients, descriptors, next, draft, exit>>

EndTargets ==
  /\ stage = "target" /\ next > Len(opts.targets)
  /\ report' = [report EXCEPT !.status = IF NeedsRuntime THEN "ok" ELSE "no_targets"]
  /\ CloseAll /\ stage' = "evaluate"
  /\ UNCHANGED <<opts, files, clients, descriptors, next, draft, exit>>

-----------------------------------------------------------------------------
(* Contracts, report and exit status                                        *)

EvaluateContracts ==
  /\ stage = "evaluate"
  /\ LET outcomes == [k \in DOMAIN opts.contracts |-> Evaluate(report.queries, opts.contracts[k])]
     IN  IF opts.mode # "none" /\ "error" \in ToSet(outcomes)
         THEN Abort("cel_error") /\ UNCHANGED report
         ELSE /\ report' = [report EXCEPT !.mode = opts.mode,
                              !.evaluations = IF opts.mode = "none" THEN <<>> ELSE outcomes]
              /\ stage' = "write" /\ UNCHANGED exit
  /\ UNCHANGED <<setup, files, database, next, draft>>

\* What validatePlanReportInvariants demands before it writes.
ValidIdentity ==
  /\ report.source = "runtime_targets" => report.version # "not_recorded"
  /\ report.source = "external_unverified" => report.version = "not_recorded"
  /\ report.source = "manual" => report.version # "not_recorded"
  /\ report.version # "malformed"
Repeats(plan) == \E i \in DOMAIN plan : "repeated" \in plan[i].meta
ValidTopology(query) ==
  /\ ~Repeats(query.rawPlan)
  /\ \A e \in query.edges : {e.parent, e.child} \subseteq DOMAIN query.operators
  /\ \A i \in DOMAIN query.operators : query.operators[i].descendants \subseteq DOMAIN query.operators
ValidReport ==
  /\ report.planned + report.errors + report.skipped = report.included
  /\ ValidIdentity
  /\ (report.mode = "none") = (report.evaluations = <<>>)
  /\ \A k \in DOMAIN report.queries : report.queries[k].status = "ok" => ValidTopology(report.queries[k])

\* Standard output may refuse the text, and --output is looked at only here.
WriteFails ==
  /\ stage = "write" /\ ValidReport /\ Abort("write_failed")
  /\ UNCHANGED <<setup, files, database, next, draft, report>>

\* Mutant of WriteReport: the report is out before it is checked.
WriteReportFirst ==
  /\ stage = "write"
  /\ report' = [report EXCEPT !.output = "written"]
  /\ IF ValidReport THEN stage' = "gates" /\ UNCHANGED exit ELSE Abort("invalid_report")
  /\ UNCHANGED <<setup, files, database, next, draft>>

WriteReport ==
  /\ stage = "write"
  /\ IF ValidReport THEN /\ report' = [report EXCEPT !.output = "written"]
                         /\ stage' = "gates" /\ UNCHANGED exit
     ELSE Abort("invalid_report") /\ UNCHANGED report
  /\ UNCHANGED <<setup, files, database, next, draft>>

\* Mutant of CheckFailures: what could not be evaluated does not count.
CheckFailuresViolations == {k \in DOMAIN report.evaluations : report.evaluations[k] = "fails"}

\* In this order; the report has been written by now.
CheckFailures == {k \in DOMAIN report.evaluations : report.evaluations[k] # "holds"}
Gates ==
  /\ stage = "gates"
  /\ Abort(IF opts.requireTargets /\ report.status = "no_targets" THEN "no_targets"
           ELSE IF opts.requirePinning /\ ~opts.pinned THEN "not_pinned"
           ELSE IF opts.mode = "check" /\ CheckFailures # {} THEN "check_failed"
           ELSE "ok")
  /\ UNCHANGED <<setup, files, database, next, draft, report>>

\* Somebody saves a DDL or descriptor file while the command runs.
EditFile(f, c) ==
  /\ exit = "running" /\ files[f][c] < MaxEdits
  /\ files' = [files EXCEPT ![f][c] = @ + 1]
  /\ UNCHANGED <<setup, database, next, draft, report, stage, exit>>

Select  == SelectNothing \/ SelectRuntime \/ RejectRuntime
Target  == SkipTarget \/ ReadDDLDigest \/ LoadDescriptors \/ OpenClients \/ OpenFails \/ AnalyzeFails
           \/ \E plan \in Plans : Analyze(plan)
Command == Select \/ Target \/ EndTargets \/ EvaluateContracts \/ WriteReport \/ WriteFails \/ Gates
ReportNext == Command \/ \E c \in SpannerOnes : EditFile("ddl", c) \/ (c \in WithProtos /\ EditFile("protos", c))
ReportSpec == ReportInit /\ [][ReportNext]_reportVars /\ WF_reportVars(Command)

-----------------------------------------------------------------------------
(* Properties                                                               *)

\* The shapes of the report, of the target in hand and of what is remembered.
Stages   == {"select", "target", "descriptors", "clients", "analyze", "evaluate", "write", "gates", "exit"}
Analyses == {Normalize(plan) : plan \in Plans}
EdgeSets == {Edges(plan) : plan \in Plans}
QueryType ==
  [target : TargetIds, catalog : CatalogNames, status : {"pending", "ok", "error", "skipped"}, ddl : Int, protos : Int,
   operators : Analyses \cup {<<>>}, edges : EdgeSets \cup {{}}, warnings : SUBSET Warnings,
   rawPlan : Plans \cup {<<>>}]
ReportType ==
  [queries : Seq(QueryType), included : Nat, planned : Nat, errors : Nat, skipped : Nat,
   status : {"ok", "no_targets"}, mode : {"none", "report_only", "check"},
   source : {"", "runtime_targets", "external_unverified", "manual"},
   version : {"not_recorded", "pin", "other", "malformed"},
   evaluations : Seq(Outcomes), output : {"none", "written"}]
ReportTypeOK ==
  /\ opts \in Options /\ stage \in Stages /\ next \in Nat \ {0}
  /\ files \in [{"ddl", "protos"} -> [SpannerOnes -> Nat]]
  /\ report \in ReportType
  /\ stage \in {"descriptors", "clients", "analyze"} => draft \in QueryType /\ draft.catalog \in SpannerOnes
  /\ \A c \in DOMAIN descriptors : descriptors[c] \in Int

\* Who is open and what is out, by the stage of the run.
StageInv ==
  /\ exit = "running" <=> stage # "exit"
  /\ stage \in {"select", "evaluate", "write", "gates", "exit"} => open = {} /\ runtime # "open"
  /\ report.output = "written" <=> stage = "gates" \/ exit \in {"ok", "no_targets", "not_pinned", "check_failed"}
\* Digests and databases come from one loading of the descriptors.
DatabaseInv ==
  /\ DOMAIN clients \subseteq DOMAIN descriptors
  /\ \A c \in DOMAIN clients : clients[c].protos = descriptors[c]
  /\ stage \in {"clients", "analyze"} =>
       draft.catalog \in DOMAIN descriptors /\ draft.protos = descriptors[draft.catalog]
  /\ stage = "analyze" => draft.catalog \in DOMAIN clients
\* The entries are of plans that came back, and the report counts them.
Faithful(q) ==
  /\ q.status # "pending"
  /\ q.status = "ok" =>
       /\ q.catalog \in DOMAIN clients /\ q.protos = clients[q.catalog].protos
       /\ q.rawPlan \in Plans /\ q.operators = Normalize(q.rawPlan) /\ q.edges = Edges(q.rawPlan)
       /\ q.warnings = ClassificationWarnings(q.operators)
QueriesInv ==
  /\ \A k \in DOMAIN report.queries : Faithful(report.queries[k])
  /\ report.planned + report.errors + report.skipped = report.included
IdentityInv ==
  IF stage = "select" \/ exit = "no_runtime" THEN report.source = "" /\ report.version = "not_recorded"
  ELSE \/ report.source = "runtime_targets" /\ report.version = "pin"
       \/ report.source = "external_unverified" /\ report.version = "not_recorded"
       \/ report.source = "manual" /\ report.version = opts.assertion /\ opts.assertion # "none"
VerdictInv ==
  /\ stage \in {"write", "gates"} =>
       /\ report.mode = opts.mode
       /\ report.evaluations = IF opts.mode = "none" THEN <<>>
                               ELSE [k \in DOMAIN opts.contracts |-> Evaluate(report.queries, opts.contracts[k])]
  /\ exit = "ok" /\ opts.mode = "check" =>
       \A k \in DOMAIN opts.contracts : Evaluate(report.queries, opts.contracts[k]) = "holds"
ReportInv == ReportTypeOK /\ StageInv /\ DatabaseInv /\ QueriesInv /\ IdentityInv /\ VerdictInv

\* A run under --check ends well only when the contracts are about plans that
\* were analyzed, and only when these plans, read as the backend gave them,
\* are free of what the contracts forbid: no hash join or apply of any
\* display name escapes the broad contracts as somebody's internal operator,
\* no join of an unknown kind passes a contract on a specific kind, and no
\* sort or hash join is anywhere below a limit.
Earned(contract, plan) ==
  /\ Predefined("no_hash_join") \subseteq contract.rules =>
       \A i \in DOMAIN plan : plan[i].name \notin PushBroadcast \cup {"hash join"}
  /\ Predefined("no_apply_join") \subseteq contract.rules =>
       \A i \in DOMAIN plan : plan[i].name \notin CrossApply \cup SemiApply \cup DistributedCross
  /\ (\E r \in contract.rules : r.rule = "operator_family" /\ r.family \in HashJoin \cup {"merge_join"}) =>
       \A i \in DOMAIN plan : OperatorFamily(plan[i]) # "join"
  /\ Rule("no_blocking_operator_under_limit") \in contract.rules =>
       \A i \in DOMAIN plan : plan[i].name \in {"limit", "global limit", "local limit", "sort limit"} =>
         \A j \in DescendantIndexes(plan, i) \cap DOMAIN plan :
           plan[j].name \notin PushBroadcast \cup {"sort", "sort limit", "spoolbuild"}
PassedCheckIsEarned ==
  exit = "ok" /\ opts.mode = "check" =>
    \A k \in DOMAIN opts.contracts : \E q \in ToSet(report.queries) :
      /\ q.target = opts.contracts[k].target /\ q.status = "ok"
      /\ q.rawPlan \in Plans /\ Earned(opts.contracts[k], q.rawPlan)

\* A link whose target is no node of the plan.
LinksToNowhere(plan) == \E i \in DOMAIN plan : ~(Children(plan, i) \subseteq DOMAIN plan)

\* The invariants the command checks before it writes refuse nothing the
\* command itself put together, on whatever way through the targets: only a
\* malformed identity from the flags, or an analyzed plan in which a link leads to
\* no node or two nodes have one index.
OnlyInputsAreRefused ==
  exit = "invalid_report" =>
    \/ opts.assertion = "malformed"
    \/ \E k \in DOMAIN report.queries :
         report.queries[k].status = "ok" /\ (LinksToNowhere(report.queries[k].rawPlan) \/ Repeats(report.queries[k].rawPlan))

\* However the run ends, no database client and no runtime stays open.
NothingLeftOpen == exit # "running" => open = {} /\ runtime # "open"

\* A verdict of the gates comes with the written report that explains it; any
\* other failure writes nothing.
VerdictsComeWithReport ==
  exit # "running" => (report.output = "written" <=> exit \in {"ok", "no_targets", "not_pinned", "check_failed"})

\* DESIGN.md: ddl_sha256 is of the "resolved catalog DDL bytes used to set up
\* the target database".  It is not: the digest and the database each come from
\* a reading of their own.
DDLDigestIsOfDatabase ==
  \A q \in ToSet(report.queries) : q.status = "ok" => q.ddl = clients[q.catalog].ddl

\* The descriptor digest is of the descriptors in the database, whatever
\* happens to the files: both come from the one set loaded for the catalog.
DescriptorDigestIsOfDatabase ==
  \A q \in ToSet(report.queries) : q.status = "ok" => q.protos = clients[q.catalog].protos

\* The command comes to an end, provided every call of the backend returns.
Ends == <>(exit # "running")
=============================================================================
