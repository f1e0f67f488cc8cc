# Verification of spanalyzer

TLA+ modules of the parts of spanalyzer that decide or remember something, TLC instances that check them,
and TLAPS proofs of their main properties for every value of the constants. Paths below are relative to
`src/`.

- Check a module: `tlc -config X.cfg MCModule` (every run ends within four minutes on two workers).
- Check the proofs: `tlapm XProofs.tla` (`BigQueryProofs` takes some six minutes, the others less).
- `PROJECT.json` lists components, runs, the mutants that break each property, the source lines each
  definition stands for, hazards, findings and theorems.

## 1. Inventory

spanalyzer turns Spanner and BigQuery DDL into GoogleSQL analyzer catalogs and analyzes statements
against them; on top of that are a query generator, plan contracts over recorded query plans, and tools
that record what real backends show. It is a Go library with commands; nothing of it is a server, and
most of it runs on one goroutine. What is hard is therefore rarely a race. It is long sequences of
statements over maps and names that must agree, loops over several fallible calls, the order in which Go
iterates a map, data that is read or derived twice, native catalogs that cannot take anything back, and
two pieces of code that must say the same: a schema and its parser, a plan and the code it announces, an
analysis and the function that later runs what was analyzed.

| Component | State | Operations | Hard | What makes it correct |
|---|---|---|---|---|
| Schema catalog (`catalog.go`, `propertygraph.go`) | maps of tables, indexes, views with `ViewOrder`, graphs, sequences, models, functions, proto bundle | `ApplyDDL`, one branch per statement | renames re-key maps and re-point indexes; case folding; primary key and views kept twice | keys are names; no rename loses a table; an index follows its table; the records agree |
| View registration (`googlesql_catalog.go`) | pending and registered views, `lastErr` | `orderedViews`, `addViews`, `addView` | any order, forward references, cycles | what can be registered is, whatever the order; errors are current; it ends |
| Native catalog (`googlesql_catalog.go`) | native tables, graphs and their maps of names | build from a schema, first failure discards | tables in map order under several names; graph elements found by name or alias | what is built is the schema; an element uses its own table; a graph refers to nothing it lacks |
| Proto descriptors (`protobundle.go`, `googlesql_proto.go`) | merged files, pool | merge sets, passes over the files | map order, cyclic or missing imports, two files of one name | taken or refused as a whole, whatever the order; what is refused has a reason |
| Types (`typeconv.go`, `resultconv.go`, `typespec_parse.go`, `spannerpb.go`) | none | conversions between six forms of a type | each form was written for one purpose, and trees pass through three of them | a type that converts means the same; two routes to BigQuery agree |
| BigQuery catalog and external datasets (`bigquery.go`) | namespaces and tables, namespace cache, bindings | building from DDL, `AddSpannerExternalDataset`: check, stage, publish | no removal, up to four names per table, folding, dotted names, settings in two places | a registration is atomic; what is registered resolves; bindings stay true |
| EXTERNAL_QUERY (`bigquery.go`, `bigquery_external_query.go`) | connections per analyzer and catalog, prepared row types | `SetExternalQueryAnalyzers`, prepare, analyze, clear | failures between preparing and clearing; several analyzers on one catalog | a statement's types come from its own analyzer's configuration now |
| Vocabulary observer (`plancontract/planvocab/observer.go`) | fingerprint set, suppression counter, mutex | `Observe` from many goroutines | decides under the mutex, logs outside it | one record per fingerprint, bound kept, one notice |
| Vocabulary matcher (`planvocab/matcher.go`, `cmd/planvocab-check`) | none | `Inspect`, `FindMatchingOperators`, the command | redaction, fingerprints, rules that count children | findings show no texts of the plan; a passed check was earned |
| Plan normalization and contracts (`plancontract/`) | none | `NormalizePlan`, parsing a contract file, `Evaluate`, replay | plans are graphs with cycles and stray links; outcome, counts and stability are derived apart | a contract that passes says something about the plan the backend gave; the parts of an entry agree |
| plan-report (`cmd/spanner-query-gen/plan_report*.go`) | database and descriptors per catalog, the report | one loop over targets, contracts, gates, files | six fallible calls per target, deferred closes, files read twice | nothing stays open, verdicts come with reports, digests are of what was used |
| Evidence capture (`survey/cmd/*-capture`) | files under canonical paths | create, write, link, compare | concurrent runs, kills, a curator who removes files | a path is written once, whole |
| Generator: configuration (`internal/querygen/querygen_config.go`, `config_schema.go`) | none | YAML to a configuration; published schema | schema and parser are written apart | they accept the same files |
| Generator: code (`querygen.go`, `gostruct.go`, `querygen_namespace.go`) | result structs, claimed names | resolve queries and writes, claim names, emit | names, imports, helpers and SQL come from walks that do not know of each other | the file compiles, structs hold the rows, the plan is that of the file |
| Generator: generated code, when called | an iterator | read one, read all, load a row, decode a value | the iterator may fail anywhere | an answer is whole |
| Generator: federated queries and datasets (`querygen.go`, `querygen_shared.go`) | none | compose EXTERNAL_QUERY, scope parameters, project columns | a text scanner of its own; settings in two places | one call composed, columns accounted for, writes diagnosed |
| Optional parameters (`internal/optparam`, `optparam_bridge.go`) | none | segment, enumerate, verify; the function that builds the SQL | analysis and generated function compose apart | only analyzed SQL runs |
| Survey conversion, repository tools, manifests, front ends, knowledge base | documents | comparison, generation, printing | — | *not modelled* (section 7) |

**Interaction.** `ApplyDDL` fills the schema catalog; view registration reads its `Views` and `ViewOrder`
(the assumption `OrdersAssumption` of `ViewResolution` is what `ViewOrderListsViews` of `SchemaCatalog`
establishes), and the native catalog is built around it, with types through the descriptor pool. A
Spanner catalog feeds BigQuery external datasets, whose namespaces share the walk and the cache of
BigQuery DDL. BigQuery analyzers call Spanner analyzers during EXTERNAL_QUERY preparation, and the
native library calls back into Go. The generator asks the analyzers for the row type of every query and
of every variant of it, merges those that share a struct, plans writes against them and emits one file;
its code later reads rows from a client. plan-report calls an Omni database through a runtime,
normalizes each plan and evaluates the contracts on it. The observer is called with plans by any
goroutine.

## 2. Modules

| Module | Models | Code |
|---|---|---|
| `TableCatalog` | tables, columns, synonyms, indexes: one action per statement | `catalog.go` |
| `SchemaCatalog` | EXTENDS it with views, graphs, models, functions, sequences, proto bundle | `catalog.go`, `propertygraph.go` |
| `ViewFixpoint` | abstract: register any view whose references are registered | promise of view registration |
| `ViewResolution` | `orderedViews`, then the passes of `addViews` | `googlesql_catalog.go` |
| `NativeCatalog` | tables in any order, then the other objects, up to property graphs | `googlesql_catalog.go` |
| `DescriptorPool` | merging of descriptor sets, passes into the pool | `protobundle.go`, `googlesql_proto.go` |
| `TypeConversions` | pure: the forms of a type and the conversions | `typeconv.go` and others |
| `ExternalDatasets` | pure: paths, folding and visible names of a dataset request | `bigquery.go` |
| `DatasetRegistry` | abstract: a request is accepted whole or refused whole | promise of the registration |
| `BigQueryCatalog` | DDL, namespace cache, staging, publishing, bindings | `bigquery.go`, `googlesql_catalog.go` |
| `ExternalQuery` | analyzers over one catalog, preparing, analyzing, clearing | `bigquery.go` |
| `VocabLog` | abstract: the log the observer's documentation promises | `observer.go`, doc comment |
| `VocabObserver` | `Observe` and `recordFingerprint`, step by step | `observer.go` |
| `PlanVocabulary` | pure: `Inspect`, fingerprint, matcher, the command's verdict | `planvocab/`, `cmd/planvocab-check` |
| `PlanContract` | pure: families, wrappers, edges, descendants, whether a rule holds | `plancontract/` |
| `ContractRules` | pure, EXTENDS it: contract files, every rule's result, counts, stability, replay | `plancontract/plancontract.go` |
| `ReportSchema` | pure, EXTENDS it: what is written, and the published schemas of both files | `config_schema.go` |
| `PlanReport` | EXTENDS `PlanContract` with the run of the command | `plan_report*.go` |
| `EvidenceStore` | abstract: a register per path that is written once | promise of the captures |
| `EvidenceCapture` | the file operations of both capture commands | `survey/cmd/*-capture/main.go` |
| `GoNames` | pure: SQL names ignoring case, Go identifiers, numbering of equal ones | `querygen.go`, `gostruct.go` |
| `ConfigFile` | pure: parser and normalization of a file, and the published schema | `querygen_config.go`, `config_schema.go` |
| `ResultStructs` | pure: merging of the fields of queries that share a struct | `querygen.go` |
| `WriteSpecs` | pure: resolution of a write, its struct, mutation, DML, parameters | `querygen.go` |
| `Generator` | query after query, writes, claims, the emitted file; the package plan | `querygen*.go`, `gostruct.go` |
| `GeneratedReads` | the generated functions over an iterator that may fail; loading, decoding | text emitted by `querygen.go`, `gostruct.go` |
| `OptionalSQL` | pure: markers, variants, agreement, the emitted builder | `internal/optparam`, `optparam_bridge.go` |
| `QueryShapes` | pure: finders by key of a table or an index | `querygen.go` |
| `FederatedQueries` | pure: placeholder, scopes of parameters, warnings | `querygen.go` |
| `DatasetSettings` | pure: access, evidence, location, projection; relations a statement reads and writes; vet | `querygen.go`, `querygen_shared.go`, `bigquery.go` |
| `Planning` | EXTENDS `DatasetSettings` (with `FederatedQueries`), `OptionalSQL` and `ConfigFile`: one file, federated query, dataset, statement or template with optional parameters, and what the generator answers | `querygen*.go`, `optparam_bridge.go` |

`MC…` modules give constants their values for TLC and, where a component is a function, enumerate its
inputs: a behaviour is then a case, and a step that computes what the code makes of it.
`MCNativeCatalog` composes `ViewResolution`, `NativeCatalog`, `DescriptorPool` and `TypeConversions`;
`MCBigQuery` the catalog and EXTERNAL_QUERY; `MCGenerator`, on `Planning`, all of the generator;
`MCPlanReport`, on `ReportCases`, which holds the cases and the two steps that compute what the code
makes of one, the command with contracts, files and vocabulary; `VocabObserver` is run as it is.
`…Proofs` modules hold the proofs, and `Recursion` the lemmas about counting that they share. Definitions named `X`-something directly before `X`, commented *Mutant of X*, are wrong
versions of `X`: some property is shown to fail when one of them replaces it.

**State and actions.** A Go map is a function on the set of its keys, a slice a sequence, a struct a
record. An error return is an action that leaves the state as the code does at that line: `ApplyDDL`
stops the build at the first error (`status = "failed"`), an `AddSpannerExternalDataset` that is refused
discards its stage. A statement is one action, except where others could see or interrupt its parts:

- `RENAME TABLE a TO b, …` is applied pair by pair (`BeginRenameTable`, `ApplyRenamePair`): a later pair
  may fail after an earlier one was done.
- `Observe` is split at the mutex operations and at the writing of records.
- A capture is split at every file operation.
- EXTERNAL_QUERY preparation is split by call, since any call may fail.
- Staging goes table by table, since it may be refused at any of them. Publishing is one action: no step
  of it can fail once the stage is free of collisions (short of an error inside the native library), and
  *that* is the invariant `NativeNamesDistinct`.
- The native catalog adds one table per step, in any order, as Go iterates the map.
- The passes over views and descriptor files take one of them per step.
- plan-report is split where it reads a file or may fail, since files may be edited in between.
- The generator resolves one query per step, since any may fail and all share the structs; its generated
  functions read one row per step.

## 3. Runs

| Run | Question | Bounds |
|---|---|---|
| `Schema` | do keys, names, indexes, key records and `ViewOrder` stay together over any script? | four vocabularies: 3 creatable tables with renames and 1 index; 1 table with an index and every column operation; 1 table with options of its columns; 3 views and 1 of each other object |
| `NativeCatalog` | are exactly the resolvable views registered, exactly the sound schemas built, do types survive, is the pool right? | all reference graphs of 3 views in 9 orders; 34 schemas of up to 4 tables in every order; all column types of up to 3 levels; up to 3 descriptor files of 9 |
| `GraphTables` | *finding*, below | schemas with `T` and `s.T` |
| `VocabObserver` | one record per fingerprint, bound, one notice, and are the records written? | 2 goroutines of 2 calls, 3 fingerprints, bound 2 |
| `BigQuery` | is registration atomic, are names found, whose types does a statement get? | 4 scripts, 60 requests, 2 accepted; 2 analyzers, connections, databases, 5 texts |
| `DottedNames` | *finding*, below | 1 script |
| `LeakedRowTypes` | *finding*, below | as `BigQuery` |
| `Evidence` | is a path written once and whole? | 2 runs (one of each command), 2 paths, 4 captures, every initial content |
| `PlanReport` | what does a passed check mean; is everything closed; does it end; does a report agree with itself and its schema? | 3 targets, 2 databases, 8 plans, 10 option sets, 1 edit per file; 480 cases of files and evaluations, 900 of vocabulary |
| `DDLDigest` | *finding*, below | 2 plans, 1 option set |
| `Generator` | do parser, schema, generated file, generated calls and plan agree? | packages of up to 2 queries and 2 writes over 1 table, 4 variants, rows over 3 values, 10 topics of cases |
| `DeleteKeys` | *finding*, below | as `Generator` |

Modules that share no state are explored in one run, each topic next to the others at rest: the variable
that holds the topic (`topic`, `matter`, `ddlType`) never changes.

**The properties** of a run are conjunctions of named parts where several parts answer one question; each
part stands in the module next to what it is about, with a comment of its own:

- `Schema`: `SchemaInv` (types of all parts, `KeyFlagsAgree`), `TableIdentity`, `ViewOrderListsViews`,
  and over steps `ObjectsKeepTheirPlace` (`TablesOnlyDropped`, `IndexesKeepTable`, `ViewOrderIsSeniority`).
- `NativeCatalog`: `ResolutionInv` (with `OutcomeIsFixpoint`, `ErrorIsCurrent`), `RefinesFixpoint`,
  `NativeCatalogIsSound` (`EdgesMatchTheirNodes`, `GraphsAreClosed`, `BuildsSoundSchemas`, and, of schemas
  in which no two tables or views have the same last name, `ElementsUseTheirTables`), `TypesSurvive` (five parts, one per route of a type), `PoolInv` (with
  `OnlyRefusedFilesFail`), `TakenIffConsistent`, `BuildEnds`.
- `VocabObserver`: `ObserverInv` (with `LoggedAtMostOnce`, `BoundedSet`, `OneNotice`), `RefinesLog`,
  `RememberedIsLogged`.
- `BigQuery`: `CatalogInv` (`NativeNamesDistinct`, `CacheIsUnambiguous`), `NamesStayTrue`
  (`RegisteredRelationsResolve`, `BindingsStayTrue`), `ImplementsRegistry`, `QueryInv`,
  `StatementsUseOwnTypes` (`StatementTypesAreCurrent`, `StatementsAreFullyPrepared`).
- `Evidence`: `CaptureInv`, `FirstObservationStays`, `ImplementsStore`.
- `PlanReport`: `ReportInv` (implies `NothingLeftOpen`, `VerdictsComeWithReport`,
  `DescriptorDigestIsOfDatabase`), `PassedCheckIsEarned`, `OnlyInputsAreRefused`, `Ends`;
  `FilesFitSchema`, `EntriesAgree`, `ReportsVouch` on contract files and reports; `FindingsStand`,
  `CheckedVocabularyIsEarned` on the vocabulary.
- `Generator`: `SchemaMatchesParser` (`SchemaFilesParse`, `ParsedFilesMatchSchema`),
  `GeneratedFileCompiles`, `StructsHold`, `CallsAnswer`, `OptionalSQLIsVerified` (`BuiltSQLIsVerified`,
  `LabelNamesVariant`, `NamesAreBound`, `LimitIsExact`), `FindersAreExact`, `ExternalDataIsTold`,
  `FederatedQueriesCompose`, `PlanIsTrue`.

**Why the bounds are enough to be interesting.** `Schema`: a swap through a temporary name, a rename onto
a taken name, a drop and re-creation under the old name, and a failing second pair all occur;
`MaxCreated` caps re-creation (without it table identities would grow for ever), `MaxRenames` the pairs
of one statement; every order of adding, dropping, altering and re-creating over two spellings of a key
column and a user column with the name of the generated one. `NativeCatalog`: with three views there are
chains of two, cycles of one to three, references to nothing, orders that need three passes, and
`ViewOrder`s that repeat a key or keep a dropped one; the schemas have node and edge tables with and
without aliases, an alias that is the name of another table before and after a node of that table, shared labels,
views as elements, a synonym given twice, names equal but for case and names that are in use;
three levels of a type are an array in a struct in an array, the deepest shape whose parts are each
treated differently; three files make a cycle, a chain against the order, and two of one name.
`VocabObserver`: three fingerprints against a bound of two make two goroutines race for the last place; a
second call each lets one find the set full. `BigQuery`: two accepted datasets suffice for one to take
another's short or dotted name, and requests include both spellings of project and dataset, built-in and
named schemas, unsupported and colliding columns; the texts have no call, one, two on different
connections, a repeated one, and a good one before a malformed one; one database refuses what the other
accepts. `Evidence`: two runs with one path race; of the four captures two differ in nothing but what the
comparison ignores and one in what it compares. `PlanReport`: one target that is skipped between two that
are planned, catalogs of their own and shared, plans with internal operators under wrappers that do and
do not exist, unclear joins and a link to nowhere; one edit per file is what separates two readings.
`Generator`: two queries are what it takes to share a struct or clash over a name, two writes to do so
with each other; the table has a composite key, a generated, a hidden, a nullable and a defaulted column;
four variants are one below and one above what two parameters need; files differ from a good one in one
part each, over every part. Theorems remove these bounds where they exist (section 5).

**Deadlock** is checked for `LeakedRowTypes` only, where analyzers go on for ever. The other runs have
`CHECK_DEADLOCK FALSE` because a build, a registration loop, a capture, a command or a case ends, and
goroutines may stop calling.

### Findings

1. `DottedNames` — `simpleCatalogForObjectName` keys its namespace cache by the dotted join of the parts
   (`googlesql_catalog.go:320`), so the namespace `` `p.d` `` and the namespace `d` in `p` share an
   entry: after ``CREATE TABLE `p.d`.t``, `CREATE TABLE p.d.u` is added where `p.d.u` does not lead.
2. `LeakedRowTypes` — `analyzeStatement` returns the error of the preparation before it defers the
   clearing (`bigquery.go:1391`), and `TableSchemaForExpression` analyzes on what is left. Statements are
   not affected: they prepare again (`StatementsUseOwnTypes`, proved).
3. `GraphTables` — every native table is also filed under its last name (`googlesql_catalog.go:302-303`),
   in the random order of a Go map; next to a table `s.T`, the graph element `T` may be made of `s.T`,
   with key columns and properties of `T`. A view `s.T` over `T` does the same.
4. `DDLDigest` — the report's `ddl_sha256` is of a reading of its own (`plan_report.go:745`), not of the
   bytes the database was set up with, as `cmd/spanner-query-gen/DESIGN.md:388` has it. The descriptor
   digest has no such gap (`DescriptorDigestIsOfDatabase`, proved).
5. `DeleteKeys` — `writeMutationMethod` (`querygen.go:2589`) passes `spanner.Key` the values in the order
   of the configured `key`, which is compared with the primary key as a set only
   (`querygen.go:2436`): `key: [a, id]` for `PRIMARY KEY (id, a)` deletes another row, or fails.

### Disagreements without a run

They came up while reading; the models do what the code does.

- **Catalogs.** `README.md:710-712` says that drops in BigQuery DDL are ignored; `bigquery.go:403-408`
  refuses them. `normalizeSpannerExternalDatasetVerification` (`bigquery.go:736-765`) sets
  `IndependentlyVerifiedByGenerator` for a live probe whose status is `not_checked`, and the legacy
  `source: live_probe` does so too, whereas `cmd/spanner-query-gen/DESIGN.md:694-697` and `:747-754` have
  it mean a verified fact. The status `VERIFIED` in capitals escapes the check of `checked_at`
  (`querygen.go:1830`).
- **Graphs.** An alias equal to the name of another table separates an edge's node from the table of its
  reference columns; `REFERENCES` of an alias that is no table is refused; a label that two elements
  share keeps the declarations of the first.
- **Types.** `resolveProtoTypeCodes` visits the columns of tables only: an ENUM of a model column, of a
  function parameter or of a query parameter stays a PROTO and is refused. FLOAT32 is FLOAT through the
  table-valued function, FLOAT64 when rewritten and DOUBLE in a dataset; the BigQuery field is the same.
  An array of arrays overwrites REPEATED. A message called UUID is read as the scalar.
- **Contracts and reports.** Names that only *contain* "aggregate" get that family without the warning
  and the failure of `cmd/spanner-query-gen/PLAN_CONTRACTS.md:609-615` (`plancontract/normalize.go:171`,
  `plancontract/plancontract.go:1204-1212`). `observed_count` and `max_count` are omitted when 0
  (`plancontract.go:240-241`) though `config_schema.go:593-658` requires them and
  `PLAN_CONTRACTS.md:761-764` shows 0. Duplicate entries of `use` give duplicate results. `NOT_PINNED` in
  capitals is passed to the backend as a version (`plan_report.go:714`). There is no remediation for
  `semi_apply` and its relatives. `operators[0]["full_scan"]` is not counted as derived from metadata.
- **Vocabulary.** An `iterator_type` that is a list or a struct has its text repeated in the message of a
  finding, though the shape shows only "list". `Inspect` trims the types of links, the matcher compares
  them exactly.
- **Generator.** Unused imports are emitted when no write has methods (`querygen.go:2215`). `Load`
  matches column names exactly while merging ignores case. `update.all_non_key_columns` always fails on a
  table with a generated column. Among optional parameters, the first of two markers with one parameter
  names the label, and a parameter used outside its marker stays unbound. The scanner of federated
  queries does not know `#` comments or backslash escapes; the warnings about `ORDER BY` and `LIMIT`
  look into strings and comments. A `DELETE` without `FROM` on an external table is classed as a
  SELECT (`querygen_shared.go:105-112`). The published schema lacks `optional`, `choices` and `default`
  of a parameter, forbids `key_prefix` of a table finder and allows a BigQuery catalog the PostgreSQL
  dialect; the properties on schema and parser name these as exceptions.

## 4. Liveness and fairness

- `NativeCatalog` (`RefinesFixpoint`, `BuildEnds`): weak fairness of the passes over views and over
  descriptor files, loops of one goroutine that nothing blocks. It assumes that the native library
  returns.
- `VocabObserver` (`RememberedIsLogged`): weak fairness of each step of a goroutine inside `Observe`, and
  strong fairness of taking the lock. `sync.Mutex` hands the lock to a waiter that has waited for 1 ms
  (its starvation mode), so a waiter that finds it free again and again does get it. Nobody is obliged to
  call `Observe`. It assumes that the log handler returns.
- `PlanReport` (`Ends`): weak fairness of the command. Calls of the backend carry `context.Background()`
  with no deadline, so this assumes that they return. Edits of files are not fair.
- `Generator` (`CallsAnswer`): weak fairness of a generated function that reads (`ReadFairness`). The
  client library's `Next` is assumed to return; how long it retries is its own matter.
- The other modules have safety properties only: a script may end anywhere, a run may be killed.

## 5. Proofs

Each proof module shows `Init => Inv`, that every action preserves `Inv`, and that `Inv` implies the
properties. Where the properties of a run are not inductive as they stand, `Inv` is the strengthening
named below; for the observer, the views, the descriptors, EXTERNAL_QUERY, the captures and plan-report it
is itself an invariant of the run, and where it is not, TLC checked it on the instance of the run before
it was proved. Assumptions on constants are the named ASSUMEs of the modules, which
TLC evaluates in the run; a hypothesis beyond them stands in the theorem and is discussed here.

| Proof module | Theorem | States |
|---|---|---|
| `SchemaCatalogProofs` | `SchemaStaysWhole` | `SchemaInv` |
| | `TablesKeepTheirNames`, `ViewsAreListed` | `TableIdentity`, `ViewOrderListsViews` |
| | `ObjectsStayInPlace` | `ObjectsKeepTheirPlace`, an action property of three parts |
| `NativeCatalogProofs` | `ResolutionInvariant`, `OutcomeCorrect`, `ErrorCorrect`, `ImplementsFixpoint` | `ResolutionInv`, its parts, the refinement of `ViewFixpoint` |
| | `PoolSafe`, `LinkedFilesAreBuilt`, `SetsAreTakenWhole` | `PoolInv`, its part, `TakenIffConsistent` |
| | `NativeInvariant`, `NativeCatalogsAreSound` | `NativeInv`, the strengthening; `NativeCatalogIsSound` |
| `BigQueryProofs` | `CatalogStaysOfOneMind`, `PublishedNamesStayTrue` | `CatalogInv`, `NamesStayTrue` |
| | `RegistrationIsAtomic` | `ImplementsRegistry`, the refinement of `DatasetRegistry` |
| | `QueryInvariant`, `StatementsUseCurrentTypes`, `StatementsFindTheirTypes`, `StatementsKeepToThemselves` | `QueryInv`, `StatementsUseOwnTypes` and its parts |
| `VocabObserverProofs` | `ObserverInvariant` and three parts, `ObserverRefinesLog` | `ObserverInv`, the refinement of `VocabLog` |
| `EvidenceCaptureProofs` | `CaptureInvariant`, `FirstObservation`, `CaptureRefinesStore` | `CaptureInv`, `FirstObservationStays`, the refinement of `EvidenceStore` |
| `PlanReportProofs` | `ReportInvariant` and three parts, `RefusesInputsOnly`, `PassedCheck` | `ReportInv`, `OnlyInputsAreRefused`, `PassedCheckIsEarned` |
| | `CheckedVocabulary` | `CheckedVocabularyIsEarned` |
| | `EntriesStayInAgreement`, `ReportsAreTrue` | `EntriesAgree`, `ReportsVouch` |
| | `FindingsAreTrue` | `FindingsStand` |
| | `FilesAndSchemasAgree` | `FilesFitSchema` |
| `PlanningProofs` | `FederatedQueriesAreComposed` | `FederatedQueriesCompose` |
| | `BindingsTellAll` | `ExternalDataIsTold` |
| | `OptionalSQLIsAnalyzed` | `OptionalSQLIsVerified` |
| | `SchemaAgreesWithParser` | `SchemaMatchesParser` |

**`VocabObserverProofs`** (any threads, plans, calls; any positive bound). The three promises speak of
records that are written, and are not inductive: between `Unlock` and the record, the decision is known
to its thread only. `ObserverInv` adds that the mutex is held exactly in the critical section, that what
was looked up is still so when it is acted on, and that of the decisions still pending no two are of one
fingerprint, none is of one written, and at most one is the notice.

**`NativeCatalogProofs`, views** (any finite set of views, any references, any order with
`OrdersAssumption`). `OutcomeIsFixpoint` for a failure needs to know that nothing that remains can be
registered; that is known only at the end of a pass without progress, so `PassInv` says it of the views
visited so far in a pass that registered nothing, and `OrderInv` that the views gone through are all of
them. The step from there to `Resolvable` needs no induction: `ViewFixpoint` defines it as the least
closed set, and when nothing remaining is analyzable what is registered *is* closed. Every step of the
passes is a step of the abstract registration or a stutter.

**`NativeCatalogProofs`, descriptors** (any finite sets of files, `FilesAssumption`). `PoolInv`: what is in
the pool is closed under imports, what is merged is linkable, and in a pass without progress no file
passed over is buildable. From it, the passes fail only when a file remains that the pool's library
refuses: imports form no cycle, so a file remains all of whose imports are built. `TakenIffConsistent`
says what merging accepts by the whole input, while merging goes file by file: `MergeInv` says that what is merged is exactly the
files before the one at hand, each as its first occurrence has it, and that a refusal is of a file at hand
that cannot be taken with those or, at the end, of a whole that does not link.

**`NativeCatalogProofs`, the native catalog** (any schemas of `SchemaShape`: any tables, views and graphs
of any length, any folding, any expressions). `BuildsSoundSchemas` says of a build in any order of tables
and views that it ends as a condition on the schema says, in which no order occurs. `NativeInv` therefore
relates what is added so far to the schema:

- `AddedSoFar`: by stage, which tables and views the native tables are of; `RelationsFit`, `CatalogsFit`,
  `OthersFit`: what `Sound` asks of all of them holds of those.
- `ViewsFit`: of any views not all of which are still to be added there is one that reads none of them.
  It makes the views of a finished build grounded, and a pass without progress a proof that they are not.
- `TablesByName`: what is found under a name is the table of that path, or one with that last name. Under
  `LastNamesDiffer` the two are one table; where they are not is the finding `GraphTables`.
- `GraphsSoFar`: each graph so far is sound by its declaration, closed, and its edges match.

Two facts carry the steps. `SoundIsAddable`: if the schema is sound, a table that is still to be added can
be added now, whatever was added before, so that a failure shows the schema unsound. `AcceptedIsSound`: a
graph is accepted, element after element, exactly when `SoundGraph` holds of it, which speaks of no order.
That rests on what the state of a graph is after each element: `Declared`, `Labelled` and `Found` say that
properties, labels and nodes are exactly those of the elements so far, with the types that any of them
gives, by induction over the elements. `EdgesMatch` holds although nodes and columns are looked up under
different names: the last node of a name is found, and only a node that takes the name of another table
as its alias, after all nodes of that table, comes between (section 3, Graphs).

**`SchemaCatalogProofs`** (any names, scripts and folding). The names of tables: the key of a table is
its name, through renames taken pair by pair. For `SchemaInv`, `TablesInv` says of every table that its
columns are distinct but for case and representable, and that the two records of the primary key agree.
`ObjectsStayInPlace` compares two states: a rename moves a table and re-points its indexes in one step,
and a step that fails keeps both. Its hypothesis is `[]NamesApart`: no two tables differ only in case,
among themselves and in what is still to be renamed. `ApplyDDL` does not check it, Spanner does, so that
it restricts scripts and not code; without it an index follows the wrong table (`catalog.go:601`). The
lemma `NamesStayApart` derives it from `VocabulariesApart`, a condition on the constants that the run
asserts (`NamesAreApart`).

**`BigQueryProofs`, the catalog** (any scripts, requests, caller's namespaces and number of datasets;
`InputsAssumption`, which is the shape of inputs). None of `CatalogInv`, `NamesStayTrue` and
`ImplementsRegistry` is inductive. Publishing checks nothing: that it cannot collide follows from what
staging looked at, table after table, while the catalog stood still. `IInv` therefore relates the stage
to the catalog:

- `Ground`: native names are distinct; a cache key leads to an existing namespace and is the dotted form of
  a path that is, but for case, the namespace's own (`Leads`); with a namespace its parent is in the cache
  too (`Kept`).
- Every table stands where its full path leads (`Found`), and every visible table of every binding is
  found under all of its names with the columns the binding reports (`Shown`).
- `Pending`: what remains of the script registers under `PlacedPaths`.
- `Staging`: the stage's cache extends the catalog's by exactly the staged namespaces, none of which
  exists (`Branches`); the staged tables are entries of the request, under names that nothing staged or
  native has (`Leaves`); every table of the request is still to do or has all of its entries staged
  (`Handled`), and so has every table the report shows (`Vouched`). While a table is staged, a stage that
  has failed is one whose request is not admissible (`Staged`).

Lemmas go along the code: `NamespaceForLeads` and `OpenNamespacesKeeps` for the walks of
`simpleCatalogForObjectName` and `parent`, `ReserveKeeps`, `AddKeeps` and `StageTableKeeps` for the
stage, `PublishAdmits` and `PublishKeeps` for the end of a call, `Inductive` for the whole.
`RegistrationIsAtomic` shows every step to be one of `DatasetRegistry` or a stutter: a call is accepted
*exactly* when the request is admissible, so that no refusal is spurious either, whatever order the
namespace cache is searched in.

The three theorems have the hypothesis `PathsApart`: two namespaces above placed relations whose dotted
paths match are one. It is a condition on scripts and requests which the code does not check, and it is
the precise border of the finding `DottedNames`: that script violates it, and TLC shows a registered
relation that does not resolve; without such paths, the theorems say, all three properties hold. Datasets cannot violate
it on their own (their paths are made of single identifiers), only DDL with a dot inside one pair of
quotes above the last name can. A dot in the last name is harmless and occurs in a script of the run. The
run asserts `PathsApart` for its scripts (`NamespacesApart` in `MCBigQuery`).

**`BigQueryProofs`, EXTERNAL_QUERY** (any analyzers, connections, statements, databases and texts).
`QueryInv`: the calls before `next` are prepared with the types the *running* analyzer's configuration
gives, whatever was left behind.

**`EvidenceCaptureProofs`** (any runs, paths, captures). `CaptureInv` adds to wholeness that a run about
to link holds its whole document in its temporary file.

**`PlanReportProofs`** (any configuration, finite plans, contracts, edits).
`ReportInv` is the conjunction of what is open by stage (`StageInv`), that digests and databases come
from one loading (`DatabaseInv`), that entries are `Normalize` of a plan that came back and are counted
once (`QueriesInv`), the identity, and the verdicts. `PassedCheckIsEarned` rests on lemmas about the pure
operators: an internal operator takes the family of a wrapper that exists and is itself a join of that
family, so the broad contracts catch it there; and nothing below a limit escapes the descendant set, for
any graph. `CheckedVocabulary` is about `planvocab-check` over any sources and expectations
(`ChecksAssumption`): it passes *exactly* when every plan is there and catalogued, every pattern that a
document requires is found, every expected failure failed that way, and every other failure was allowed.

`EntriesStayInAgreement` and `ReportsAreTrue` are about any finite plans, contracts of a valid file,
parameters and flags. Their invariant only says that a report is made of its input; all the work is in
lemmas about the operators. `UmbrellasAgree`: umbrella counts derived from the counts alone are never more
than those counted with the operators at hand, because the eight families whose every operator is blocking
are disjoint; so completing the counts of a subtree a second time changes nothing. `RuleIsReported`: the
result of a rule fails exactly when the rule does not hold, and then shows operators of the report, the
ones in doubt when its kind is doubt. `SameDigestSamePlan`: a plan is read through names, families,
metadata and links, which is all that the digest covers. `ReportsAssumption` says of the inputs that the
contracts are valid and that an expression which reads the raw plan names it, `WordsAssumption` that
trimming and lowering words twice is the same as once and leaves the sentinels alone. The identity lemma
names the one kind of accepted flags whose report the command refuses as invalid: a version that is the
word `not_recorded` alone, or is no version (`Unrecordable`).

`FindingsAreTrue` is about any catalog that lists the iterator types of an aggregate
(`CatalogAssumption`) and any raw plans of well-formed nodes (`PlansAssumption`). `FindingsDerive`: the
keys, values and links a finding calls unknown can be computed from what its fingerprint covers, by the
token of the name alone; what is left out is the place, the spelling of the name, and the text of an
iterator type that is a list or an object, of which the fingerprint has the type only. `SameWarnings`:
the one way the texts of a plan reach a reason is the family of a node, and the names whose family depends
on texts that are masked, scans and the operators that a wrapper drives, are names that never make a
warning. `FoundShapesAreThere`: as many links as a shape was counted for answer the requirement made of
it, provided types are spelt without blanks.

`FilesAndSchemasAgree` is about any contract files and any report inputs (`FilesAssumption`,
`ReportsAssumption`). A file that its schema admits is accepted, unless two contracts have one name; an
accepted file fits its schema up to white space, capitals, and predicates or patterns given twice; a
written report fits its schema but for the counts that are 0 and the lists that were never filled
(`WrittenReportsFit` says exactly which). The lemmas go through the six kinds of rules, because code and
schema divide them differently: the code by what is set, the schema by the kind. Of `FilesAssumption` two
parts restrict inputs: words of the schema's own lists are spelt without blanks, which is so in the
source, and a plan has at least one node. The command does not check the latter; the report of a plan
without nodes would leave out `operator_families`, which the schema asks for. That a backend returns such a
plan is nowhere recorded, so it is an assumption and not a finding.

**`PlanningProofs`** (any queries, schemas, settings, templates and files:
`FederatedInputsAreQueries`, `DatasetInputsAreSettings` and `TemplatesAreBlocks`, which are the shape of
inputs; `LowerCase`, that lowering twice is lowering once and leaves the words of the code alone; and
`Identifiers`, that an empty reference is taken for an absent one). The invariant says that an answer is the function of the
input that the code computes; the work is in lemmas about that function. For `FederatedQueriesAreComposed`:
on a text without `#` comments and backslashes, the generator's scanner and GoogleSQL are in the same mode
before every lexeme (by induction along the text), so the one placeholder the generator finds is the one
GoogleSQL would read as code; replaced by a call, which opens nothing, it leaves every later mode as it
was. For `BindingsTellAll`: the two places where evidence and connections may be written never both count,
the location compared is the one of the connection shown, every column is projected or listed, vet fails
exactly when planning does and a warning it does not show has a reason given for that rule, and what a
stable plan forgets is all that depends on the time of the evidence.

For `OptionalSQLIsAnalyzed`: segment by segment, what the emitted builder appends is what the variant of
the present parameters was composed of once defaults are filled in (`FlattenedIs` joins the segments by
induction). The label is the key of that variant alone, as the property says, where every parameter has
one marker (`OneMarkerEach`), and what the statement names is bound where no parameter that may be absent
is named outside its own marker (`ParamsAtHome`); the code checks neither of the two, they stand in the
property. The limit is exact because the capped product equals the product as long as that is within the
limit, where the code compares by a division at each step (`ProductIsLimited`), and because bijections
count the subsets and the choices of the variants (`SubsetsArePicks`, `PicksAreLimited`).

For `SchemaAgreesWithParser` the inputs are any values at all. A file that the schema accepts parses,
unless something is wrong with it that the README of the command leaves to planning (`LeftToPlanning`), or
a BigQuery catalog asks for the PostgreSQL dialect. A file that parses and is complete (`FileComplete`: no
key without a value, no item of a list twice, and the keys that only the schema requires) is accepted,
unless it uses what only the parser takes, `key_prefix` of a table and the keys of optional parameters, or
a value the parser passes on: an `order_by`, a `scope`, the status of evidence, the date of a suppression.
The texts of the model stand trimmed and in the case the schema spells them in. The lemmas go object by
object, once in each direction; the work is in the `oneOf` clauses of the schema, which forbid keys where
the parser forbids values.

**Induction without induction theorems.** The induction theorems of the library take an operator as
parameter and cannot be instantiated. Two ways round them are used. Where a least closed set is meant, the
module defines it as one (views, descendants). Where a walk over a path is meant, the lemma `UpTo` of
`Recursion` takes the *set* of the indices for which a claim holds in place of a predicate: a set
that holds 0 and, with an index below `n`, the next one, holds all of `0 .. n`; it follows from the
pigeonhole theorem for finite sets. `RunOf` gives from it that a recursive function on `0 .. n` satisfies
its equation. Folds and recursion over trees remain out of reach.

**Only model-checked.**

- All liveness and the fairness part of `RefinesFixpoint`: fairness and ENABLED are beyond the prover.
- `TypesSurvive`, and of the run `Generator` `PlanIsTrue`, `GeneratedFileCompiles`, `StructsHold`,
  `FindersAreExact` and `CallsAnswer`: what they say of types, fields, columns and texts is said of
  recursive operators or folds over them, which no theorem here can reach.

## 6. Abstractions, by module

- **`TableCatalog`/`SchemaCatalog`.** The order and DESC of keys, expression texts, foreign keys and
  other clauses `ApplyDDL` does not keep are left out; of the options of a column
  `allow_commit_timestamp` alone is kept, and other options leave a column as it is. Inputs are scripts Spanner accepts: column
  definitions of CREATE and ADD COLUMN are legal ones (ADD COLUMN has no PRIMARY KEY). Synonyms are names
  apart from tables, as in the code. `ApplyDDL` is exported; in the repository only `buildSchemaCatalog`
  calls it, and the model's build ends as that one does. Known gaps, kept as in the code and harmless for
  scripts that Spanner accepts: tables that differ only in case share index renames (`catalog.go:601`);
  CREATE TABLE does not look at views (`catalog.go:488`, `TODO.md:15-26`).
- **`ViewResolution`.** A query is accepted exactly when all it reads is registered.
- **`NativeCatalog`.** The native library is external: it refuses a name that, but for case, is in use in
  the same native catalog. A table, model or function fails on a type that does not convert, a graph on
  an element that does not resolve. Dynamic labels and properties are taken as declared; the code does
  not look at their columns.
- **`DescriptorPool`.** Which errors the two protobuf libraries have is a flag of a file (`accepted`) and
  the definition `Linkable`: imports present, no cycle, no name defined twice. The input is the files of
  the sets; an input of no files is either no path at all, and then there are no descriptors (`none`), or
  sets without a file, which are merged and built into an empty pool.
- **`TypeConversions`.** A type is a tree of codes; lengths go at the first conversion. Which messages
  and enums the descriptors have are constants.
- **`BigQueryCatalog`.** What the native `SimpleCatalog` does with a second table of one name is unknown,
  so DDL scripts avoid it; registration is checked to be free of it (`NativeNamesDistinct`). The tables
  of a source come in the order of the request. Warnings in binding metadata are left out; settings and
  evidence are in `DatasetSettings`. The order in which a Go map is searched is free
  (`CacheIsUnambiguous` shows that it does not matter).
- **`ExternalQuery`.** One goroutine at a time: `TODO.md:46-47` declares concurrent analysis unsupported,
  and the prepared row types are an unguarded map (`bigquery.go:1435`). `rewriteExternalQueries` is dead
  once the table-valued function is registered. The scan of the text and the callback of the native
  library are taken to see the same calls.
- **`EvidenceCapture`.** A kill stops a process; no power loss, so no `fsync`. `os.Remove` succeeds,
  temporary names are unique. Both commands are run in one repository. What earlier runs left is in the
  initial contents.
- **`VocabObserver`.** The findings of a plan are its input; they are those of `PlanVocabulary`.
- **`PlanVocabulary`.** The embedded catalog is a constant of the same shape, five operators in the runs.
  Texts are words with the prefixes that rules ask for.
- **`PlanContract`, `ContractRules`.** Display names the rules tell apart, all others being one
  ("compute"). A CEL expression is [blank, compiles, type, tree, words, asks]: what decides whether it is
  accepted, replayable and counted as derived from metadata, and the question it answers; the evaluator
  is a library. Descendants are a set: their order only decides which of several equal verdicts is
  worded. The tree digest is what it is computed from. A plan is a function of indexes, so that of nodes
  that share an index it has one, flagged `repeated`; the report is refused for it (`plan_report.go:1218`).
- **`PlanReport`, `ReportSchema`.** A run starts with the parsed flags. Backend answers are any of
  `Plans`, or an error. A written object is the set of its keys with their values, `omitempty` as the
  struct tags have it. Layout and the wording of advice are left out. One database that cannot be opened
  discards the entries of all the others (`plan_report.go:532`), and the contract file is read once for
  its content and once for its digest (`plan_report.go:77`): the model has both, no property speaks of
  them.
- **`GoNames`, `ConfigFile`.** An identifier is the sequence of the words it is put together from; a YAML
  mapping a function on its keys. Keys of earlier shapes of the file are looked for before the others, as
  in the code; of its messages only the order is modelled, not the wording. One advises a key that the
  parser refuses next: `catalog` for a `source` at the top level (`querygen_config.go:864-870`).
- **`Generator`, `WriteSpecs`, `ResultStructs`, `GeneratedReads`.** The analyzer's answer for a query,
  its fields, is an input. The emitted text is its declarations, fields, parameters, calls, imports, and
  the columns and parameters of its SQL in their order. A file of version
  `v1alpha` cannot ask for `row_count` or `row_set`; they are modelled for Spanner, where the emitter has
  code for them, and left out for BigQuery. `GeneratedReads` models what the emitted
  functions do, line by line of the emitting code. Comments are left out.
- **`OptionalSQL`, `QueryShapes`.** A statement is a sequence of tokens that stand split at its markers.
  Whether two variants agree on a row type is a function of which markers they have. Finders are
  evaluated over rows of three values, NULL among them.
- **`FederatedQueries`, `DatasetSettings`.** A text is a sequence of lexemes; what opens and closes
  strings, names and comments are lexemes of their own, so that the generator's scanner and GoogleSQL can
  be compared. Vet is its machine-readable report; overrides of severities cannot be written in a file of
  version `v1alpha`, so vet fails only where planning does. Relations are found by substring as in `querygen.go:1106-1118`.

## 7. Not modelled

- **Front ends** (`cmd/spanner-analyzer`, `cmd/spanner-function-catalog`, the flags of
  `cmd/spanner-query-gen`): flags and printing, no state.
- **Manifests, schemas, knowledge base, recorded evidence**: data, and comparisons with checked-in data.
- **Survey: DDL conversion and surveys** (`survey/astconv`, `survey/infoschem`, `survey/spannersys`): a
  translation node by node of a syntax tree and listings of names. A model would repeat the tables.
- **Repository tools** (`tools/`): walks over checked-in documents. The Omni integration runner is the
  exception; see the plan.
- **Native catalog**: the tables of `information_schema` and `spanner_sys` and the signatures of built-in
  functions, which are lists, and `ML.PREDICT`, whose work is in the native library.
- **Analyzer API** beyond types and the questions of `querygen_shared.go`: sequential calls into the
  native analyzer without state of their own.
- **Generator**: reading catalogs from DDL files, and the text of the generated code beyond what section 6
  names.

## 8. Plan

1. **Omni runner** (`tools/omni-integration-runner/main.go`). Start, endpoint file, two `go test` steps
   under a deadline and signals, report, close: it is closed exactly once, the report is true of the
   steps, it ends though a test hangs. Open questions: a killed `go` may leave the test binary it
   started, and whether the work tree was clean is read long before the report is written.
2. **Proofs for the generator's package.** That `ClaimNames` lets through only packages whose file
   declares nothing twice is a statement about finite sets and needs no recursion over data; it first
   needs `Generator` to reach no RECURSIVE operator.
3. **Graphs over several schemas.** `directProtoColumnType` looks up tables by the last part of a name, as
   graph elements do; a second table with a PROTO column would show whether the finding of `GraphTables`
   reaches it.
