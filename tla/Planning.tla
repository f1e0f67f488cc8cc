------------------------------ MODULE Planning ------------------------------
(***************************************************************************)
(* What the query generator decides about a configuration file, one query, *)
(* or one binding of an external dataset, before it writes code.  A        *)
(* behaviour has a topic: a file that is parsed, a federated query that is *)
(* composed, an external dataset that is bound, a query over the tables of *)
(* such datasets that is planned, or one with optional parameters whose    *)
(* variants are enumerated; then one input, and what the code makes of it. *)
(***************************************************************************)
EXTENDS DatasetSettings, OptionalSQL, ConfigFile

CONSTANTS
  FederatedInputs, \* [schemas, on, query]: a query, and the schema it is on
  DatasetInputs,   \* settings of an external dataset
  StatementInputs, \* [statement, bound]: see below
  PlanBindings,    \* the bindings of all catalogs, as BindingOf has them
  Templates        \* [blocks, params]: statements with markers

VARIABLES
  topic, \* what the behaviour is about
  input, \* one case of it, where that is all there is
  answer \* what the code makes of it, none before

None    == [is |-> "none"]
Refused == [is |-> "refused"]
Asked(t) == topic = t /\ answer = None

-----------------------------------------------------------------------------
(* Assumptions.  Lower is a lower case: it is what it is of itself, keeps the *)
(* empty name and the words the code compares with.                           *)

Words ==
  {"", Placeholder, "from", "join", "select", "not_checked", "verified", "mismatch", "failed", "unknown", "omit", "error",
   "warn_and_omit", "TIMESTAMP", "NUMERIC", "ARRAY"} \cup Marks
ASSUME LowerCase ==
  /\ DOMAIN LowerOf \subseteq STRING /\ DOMAIN LowerOf \cap Words = {}
  /\ \A n \in DOMAIN LowerOf : LowerOf[n] \in STRING \ (DOMAIN LowerOf \cup {""})
  /\ Lower(ExternalCall) # Placeholder

Texts == Seq(STRING)
\* A Spanner source has a name, types are not empty, scopes are those of the parser.
ASSUME FederatedInputsAreQueries ==
  \A i \in FederatedInputs :
    /\ i.query.inner \in Texts /\ i.query.outer \in Texts /\ i.query.params \in Seq([name : STRING, scope : {"", "inner", "outer"}])
    /\ i.on \in DOMAIN i.schemas /\ "" \notin DOMAIN i.schemas
    /\ \A s \in DOMAIN i.schemas :
         /\ i.schemas[s].connections \in Seq([id : STRING, source : STRING])
         /\ i.schemas[s].types \in Seq(Texts \ {<<>>})

EvidenceType == [status : STRING, source : STRING, checkedAt : STRING, verifier : STRING]
AccessType   == [mode : STRING, connection : Texts, role : STRING, hint : STRING, evidence : EvidenceType]
TableType    == [name : Texts, columns : Seq([name : STRING, type : Texts \ {<<>>}, hidden : BOOLEAN])]
ASSUME DatasetInputsAreSettings ==
  DatasetInputs \subseteq
    [source : STRING, dialect : STRING, uri : [form : STRING, role : STRING], role : STRING, access : AccessType,
     evidence : EvidenceType, location : STRING, connection : Texts, cloudConnection : Texts, unsupported : STRING,
     named : STRING, tables : Seq(TableType), suppressions : Seq([rule : STRING, reason : STRING])]

\* The words of orderings are not empty, and a switch has a word for each.
Tokens == [is : STRING, name : STRING]
ASSUME TemplatesAreBlocks ==
  \A i \in Templates :
    /\ i.blocks \in Seq([marker : {""} \cup DOMAIN MarkerMode, param : STRING, text : Seq(Tokens)])
    /\ i.params \in Seq(ToSet(i.params))
    /\ \A p \in ToSet(i.params) :
         /\ p.name \in STRING /\ IsFiniteSet(DOMAIN p.choices) /\ DOMAIN p.choices \subseteq STRING \ {""}
         /\ \A k \in DOMAIN p.choices : p.choices[k] \in Seq(Tokens)

-----------------------------------------------------------------------------
(* External queries *)

FederateQuery ==
  /\ Asked("federated")
  /\ LET schema == input.schemas[input.on]
     IN  answer' = IF FederatedAccepted(input.schemas, schema, input.query)
                   THEN [is |-> "federated", of |-> Federated(input.schemas, schema, input.query)]
                   ELSE Refused
  /\ UNCHANGED <<topic, input>>
IsFederated == topic = "federated" /\ answer.is = "federated"

\* As GoogleSQL reads it, the composed statement is the outer SQL with the one
\* placeholder replaced by the call; nothing in a string or a comment is taken
\* for it, and none is left (cmd/spanner-query-gen/DESIGN.md:615-617).  Texts
\* with backslashes or with # comments are read differently.
ComposesOneCall ==
  IsFederated /\ ReadAlike(input.query.outer) /\ input.query.outer # <<>> =>
    LET outer == input.query.outer
        sql   == answer.of.sql
    IN  /\ \A i \in ReadAsCode(sql) : Lower(sql[i]) # Placeholder
        /\ \E k \in DOMAIN outer :
             /\ Lower(outer[k]) = Placeholder /\ k \in ReadAsCode(sql) /\ sql[k] = ExternalCall
             /\ DOMAIN sql = DOMAIN outer /\ \A i \in DOMAIN outer \ {k} : sql[i] = outer[i]

\* A parameter that only one part mentions needs no scope: if each is declared,
\* none is refused (cmd/spanner-query-gen/README.md on params.scope).
Mentions(text) == {Lower(text[i + 1]) : i \in {j \in ReadAsCode(text) : text[j] = "at"}}
UnscopedParamsResolve ==
  LET q == input.query
  IN  topic = "federated" /\ ReadAlike(q.inner) /\ ReadAlike(q.outer) /\ Mentions(q.inner) \cap Mentions(q.outer) = {}
        /\ (\A p \in ToSet(q.params) : p.scope = "")
        /\ Mentions(q.inner) \cup Mentions(q.outer) \subseteq {Lower(p.name) : p \in ToSet(q.params)} =>
          /\ ScopesResolve(q)
          /\ AnalysisAccepts(q.inner, DeclaredFor(q, "inner")) /\ AnalysisAccepts(q.outer, DeclaredFor(q, "outer"))

\* The warnings are about the rows that the analyzer of the connection finds,
\* however often the connection is configured.
InnerSQLHasOneSource ==
  IsFederated => Analyzers(input.schemas[input.on])[input.query.connection] = answer.of.source

\* Whatever loses precision between the two systems is warned of.
TruncationsWarned ==
  IsFederated =>
    LET types == input.schemas[answer.of.source].types
    IN  \A i \in DOMAIN types : "TIMESTAMP" \in ToSet(types[i]) => i \in answer.of.truncated

-----------------------------------------------------------------------------
(* External datasets *)

BindDataset ==
  /\ Asked("dataset")
  /\ answer' = [is  |-> IF DatasetAccepted(input) THEN "binding" ELSE "refused",
                of  |-> IF DatasetAccepted(input) THEN Binding(input) ELSE None,
                vet |-> Vet(input)]
  /\ UNCHANGED <<topic, input>>
IsBinding == topic = "dataset" /\ answer.is = "binding"

\* Wherever evidence was written, the plan shows its status, who found it and
\* when, it warns unless the access is verified, and it never claims to have
\* verified it itself for evidence without a source; a role is shown wherever
\* it was given (cmd/spanner-query-gen/DESIGN.md:747-758).
EvidenceKept ==
  IsBinding =>
    LET written == {Lower(e.status) : e \in {input.access.evidence, input.evidence}} \ {""}
        v       == answer.of.verification
        role    == answer.of.role
        roles   == {input.role, input.access.role, RoleInURI(input.uri)} \ {""}
    IN  /\ written \subseteq {v.status} /\ (written = {} => v.status = "not_checked")
        /\ v.status # "not_checked" => v.verifier # "" /\ v.checkedAt # "" /\ v.volatile
        /\ v.status = "verified" <=>
             answer.of.rules \cap {"access-unverified", "access-verification-mismatch", "access-verification-failed"} = {}
        /\ {input.access.evidence.source, input.evidence.source} = {""} =>
             ~v.byGenerator /\ (v.source = "" <=> v.status = "not_checked")
        /\ (role = "" <=> roles = {}) /\ (roles # {} => role \in roles)
        /\ role # "" /\ v.status = "not_checked" => "role-visibility-not-verified" \in answer.of.rules

\* The connection that the plan shows is where the dataset is; one that cannot
\* be compared is warned of.
LocationsMatch ==
  IsBinding =>
    LET c == answer.of.connection
    IN  /\ answer.of.located => Lower(c[2]) = Lower(input.location)
        /\ c # <<>> /\ input.location # "" /\ ~answer.of.located => "connection-id-unparsed" \in answer.of.rules
        /\ c = <<>> => {input.access.connection, input.cloudConnection, input.connection} = {<<>>}

\* Every column is seen by BigQuery or accounted for, and under the strict
\* policies the only columns that are lost are hidden ones
\* (cmd/spanner-query-gen/DESIGN.md:733-745).
ProjectionAccountsForColumns ==
  IsBinding => \A i \in DOMAIN input.tables :
    LET t == input.tables[i]
        p == answer.of.tables[i]
    IN  IF ~p.visible THEN p.rules = {"named-schema-table-omitted"} /\ Lower(input.named) # "error"
        ELSE \A j \in DOMAIN t.columns :
               /\ j \in p.columns => ~t.columns[j].hidden
                    /\ (t.columns[j].type = <<"TIMESTAMP">> => "timestamp-caveat" \in p.rules)
                    /\ (t.columns[j].type = <<"NUMERIC">> => "numeric-caveat" \in p.rules)
               /\ j \notin p.columns =>
                    /\ t.columns[j].name \in p.omitted
                    /\ t.columns[j].hidden => "hidden-column" \in p.rules
                    /\ ~t.columns[j].hidden => "unsupported-column" \in p.rules /\ Lower(input.unsupported) # "error"

\* A suppression silences a rule and hides nothing: every warning of the binding
\* is among the diagnostics, a suppressed one with a reason that was given for
\* that very rule, the others among the warnings; no suppression gets a refused
\* configuration through, and vet fails just where planning does
\* (cmd/spanner-query-gen/DESIGN.md:1311-1324).
VetTellsAll ==
  topic = "dataset" /\ answer # None =>
    LET vet == answer.vet
    IN  /\ vet.fails <=> answer.is = "refused"
        /\ vet.fails => \E x \in vet.diagnostics : x.severity = "error" /\ ~x.suppressible /\ ~x.suppressed
        /\ answer.is = "binding" => \A r \in WarningRules(answer.of) :
             \E x \in vet.diagnostics :
               /\ x.rule = r
               /\ x.suppressed => x.reason # "" /\ [rule |-> r, reason |-> x.reason] \in vet.suppressions
               /\ ~x.suppressed => x \in vet.warnings /\ \A s \in ToSet(input.suppressions) : s.rule # r

\* Plans that differ in the time of the evidence alone are one stable plan
\* (cmd/spanner-query-gen/DESIGN.md:509-514).
Checked(d, time) ==
  IF d.access.evidence = NoEvidence THEN [d EXCEPT !.evidence.checkedAt = time]
  ELSE [d EXCEPT !.access.evidence.checkedAt = time]
StablePlansForgetTime ==
  IsBinding /\ answer.of.verification.volatile =>
    \A time \in {"yesterday", "RFC 3339"} : Stable(Binding(Checked(input, time))) = Stable(answer.of)

-----------------------------------------------------------------------------
(* Statements [text, reads, writes] over the tables of external datasets:    *)
(* the paths of the tables it reads and of the one it changes, <<>> for none. *)

DescribeQuery ==
  /\ Asked("plan")
  /\ LET text == input.statement.text
     IN  answer' = CASE QueryAnalyzes(text, input.bound) -> [is |-> "planned", of |-> PlannedQuery(text, PlanBindings)]
                     [] Diagnosis(text, input.bound) # "" -> [is |-> "diagnosed", of |-> Diagnosis(text, input.bound)]
                     [] OTHER                             -> Refused
  /\ UNCHANGED <<topic, input>>

\* Every table of an external dataset that a query reads is among its
\* relations, by whichever name it is called, as a source and with what the
\* projection lost of it; a star tells all that is lost
\* (cmd/spanner-query-gen/DESIGN.md:770-780).
RelationsCoverReads ==
  topic = "plan" /\ answer.is = "planned" =>
    \A i \in DOMAIN PlanBindings : \A j \in DOMAIN PlanBindings[i].tables :
      LET b == PlanBindings[i]
          t == b.tables[j]
          lost == {Provenance(t, c) : c \in t.omitted}
      IN  FullName(b, t) \in input.statement.reads =>
            /\ \E r \in answer.of.relations : r.path = FullName(b, t) /\ r.role = "select_source" /\ r.omitted = lost
            /\ HasStar(input.statement.text) => lost \subseteq answer.of.star.omitted

\* A statement that would change a table of an external dataset of its own
\* catalog is refused for that reason, and no query is
\* (cmd/spanner-query-gen/DESIGN.md:780-784).  DELETE without FROM is not
\* among the forms: it is refused because it is no query.
WritesDiagnosed ==
  topic = "plan" /\ answer # None =>
    LET w == input.statement.writes
        own == \E b \in ToSet(input.bound) : IsPrefix(b.path, w)
    IN  /\ w # <<>> /\ own => answer.is = "diagnosed"
        /\ input.statement.text[1] = "SELECT" => answer.is = "planned"

-----------------------------------------------------------------------------
(* Optional parameters *)

EnumerateTemplate ==
  /\ Asked("template")
  /\ answer' = IF TemplateAccepted(input.blocks, input.params) /\ BuilderEmits(input.params)
               THEN [is |-> "variants", variants |-> Variants(Segments(input.blocks, input.params), input.params)]
               ELSE Refused
  /\ UNCHANGED <<topic, input>>
IsEnumerated == topic = "template" /\ answer.is = "variants"

\* Whatever is passed, the statement that the generated function builds is one
\* of the variants that were verified, that of the present parameters, and its
\* rows fit the struct of all the others (internal/optparam/emit.go:34-37).
BuiltSQLIsVerified ==
  IsEnumerated =>
    LET segments == Segments(input.blocks, input.params)
    IN  \A x \in CallsOf(segments, input.params) :
          LET sql == BuildSQL(segments, input.params, x.given, x.choices)
          IN  /\ \E v \in answer.variants : v.sql = sql /\ v.present = Gateable(segments) \cap x.given
              /\ \A v \in answer.variants : RowType(v.sql) = RowType(sql)

\* No more variants than the limit, and nothing that is within it is refused
\* (internal/optparam/optparam.go:406-423).
LimitIsExact ==
  topic = "template" =>
    LET segments == Segments(input.blocks, input.params)
        all == Cardinality(SUBSET Gateable(segments)) * Cardinality(ChoiceKeys(segments, input.params))
    IN  TemplateFits(input.blocks, input.params) => (WithinLimit(segments, input.params) <=> all <= MaxVariants)

\* Where every parameter has one marker, the label of the built statement is
\* the key of its variant and no other variant has it.
OneMarkerEach == \A i, j \in Marked(input.blocks) : input.blocks[i].param = input.blocks[j].param => i = j
LabelNamesVariant ==
  IsEnumerated /\ OneMarkerEach =>
    LET segments == Segments(input.blocks, input.params)
    IN  \A x \in CallsOf(segments, input.params) :
          LET label == BuildLabel(segments, input.params, x.given, x.choices)
              sql   == BuildSQL(segments, input.params, x.given, x.choices)
          IN  /\ IsInjective(label)
              /\ \E v \in answer.variants :
                   /\ {w \in answer.variants : VariantKey(w) = ToSet(label)} = {v}
                   /\ v.sql = sql /\ v.present = Gateable(segments) \cap x.given

\* Where no parameter that may be absent is named outside its own marker, every
\* parameter that the built statement names is bound.
NamesIn(text) == {Lower(text[i].name) : i \in {j \in DOMAIN text : text[j].is = "param"}}
ParamsAtHome ==
  LET always == {Lower(n) : n \in ParamsOfMode(input.params, {"required", "null_is_null"})}
      own(b) == IF b.marker \in {"optional", "empty"} THEN {Lower(b.param)} ELSE {}
  IN  /\ \A i \in DOMAIN input.blocks : NamesIn(input.blocks[i].text) \subseteq always \cup own(input.blocks[i])
      /\ \A p \in ToSet(input.params) : \A k \in DOMAIN p.choices : NamesIn(p.choices[k]) \subseteq always
NamesAreBound ==
  IsEnumerated /\ ParamsAtHome =>
    LET segments == Segments(input.blocks, input.params)
    IN  \A x \in CallsOf(segments, input.params) :
          NamesIn(BuildSQL(segments, input.params, x.given, x.choices))
            \subseteq {Lower(n) : n \in BuildArgs(segments, input.params, x.given)}

-----------------------------------------------------------------------------
(* Configuration files *)

ParseFile ==
  /\ Asked("file")
  /\ answer' = IF Parses(input) THEN [is |-> "parsed", config |-> Normalized(input)] ELSE Refused
  /\ UNCHANGED <<topic, input>>

\* What the published schema accepts the parser accepts, but for what is left
\* to planning and the PostgreSQL dialect of a BigQuery catalog
\* (cmd/spanner-query-gen/README.md:24-26, 172-180; config_schema.go).
SchemaFilesParse ==
  topic = "file" /\ answer # None /\ SchemaAccepts(input) =>
    answer.is = "parsed" \/ LeftToPlanning(input) \/ PostgreSQLBigQuery(input)

\* A file that is complete and parses the schema accepts, apart from the two
\* divergences named with the schema and from values the parser passes on.
ParsedFilesMatchSchema ==
  topic = "file" /\ answer.is = "parsed" /\ FileComplete(input) =>
    SchemaAccepts(input) \/ TableKeyPrefix(input) \/ OptionalParams(input) \/ PassedOn(input)

-----------------------------------------------------------------------------
PlanningInit ==
  /\ \/ topic = "federated" /\ input \in FederatedInputs
     \/ topic = "dataset" /\ input \in DatasetInputs
     \/ topic = "plan" /\ input \in StatementInputs
     \/ topic = "template" /\ input \in Templates
     \/ topic = "file" /\ input \in Files
  /\ answer = None
PlanQuery == ParseFile \/ FederateQuery \/ BindDataset \/ DescribeQuery \/ EnumerateTemplate
PlanningSpec == PlanningInit /\ [][PlanQuery]_<<topic, input, answer>>

\* The published schema and the parser of a configuration accept the same files,
\* up to what the schema leaves to the parser.
SchemaMatchesParser == SchemaFilesParse /\ ParsedFilesMatchSchema

\* What the plan says of an external dataset is all there is to say: every
\* column is projected or listed as left out, location and evidence are those
\* configured, vet silences nothing it was not told to, and a stable plan
\* depends on no clock.
ExternalDataIsTold ==
  /\ ProjectionAccountsForColumns
  /\ LocationsMatch
  /\ EvidenceKept
  /\ VetTellsAll
  /\ StablePlansForgetTime

\* A federated query is one statement: its placeholder stands for one call, its
\* parameters belong to a side, its inner SQL comes from one place, and what may
\* cut its rows short is warned of.
FederatedQueriesCompose ==
  /\ ComposesOneCall
  /\ UnscopedParamsResolve
  /\ InnerSQLHasOneSource
  /\ TruncationsWarned

\* Whatever a caller passes, the statement with optional parameters that runs
\* is one that was analyzed, its label names it, what it names is bound, and the
\* limit on variants is exact.
OptionalSQLIsVerified ==
  /\ BuiltSQLIsVerified
  /\ LabelNamesVariant
  /\ NamesAreBound
  /\ LimitIsExact
=============================================================================
