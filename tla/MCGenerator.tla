---------------------------- MODULE MCGenerator ----------------------------
(***************************************************************************)
(* Instances of the modules of the query generator for TLC.  A behaviour   *)
(* has one topic: a package that is generated, queries that share a struct *)
(* whose rows are loaded, a value that is decoded, a finder, a call of a   *)
(* generated function, or one of Planning.                                 *)
(***************************************************************************)
EXTENDS Generator, GeneratedReads, QueryShapes, Planning

vars == <<topic, input, answer, generatorVars, readVars>>

-----------------------------------------------------------------------------
(* Configuration files: one good part after the other is replaced. *)

MCNotIdentifiers == {"1x"}
MCNotDates == {"soon"}
Bool == BOOLEAN

SpannerCatalog == [name |-> "app", kind |-> "spanner", ddl |-> "a.sql"]
Connection     == [name |-> "conn", id |-> "p.l.c", spanner_catalog |-> "app"]
Dataset        == [name |-> "ds", dataset |-> "d", spanner_catalog |-> "app"]
Warehouse ==
  [name |-> "wh", kind |-> "bigquery",
   bindings |-> [external_query_connections |-> <<Connection>>, spanner_external_datasets |-> <<Dataset>>]]
With(o, k, v) == (k :> v) @@ o
Without(o, k) == [x \in DOMAIN o \ {k} |-> o[x]]
Bound(x) == With(Warehouse, "bindings", x)
CatalogChoices ==
  {<<c>> : c \in
     {With(SpannerCatalog, "dialect", d) : d \in {"googlesql", "postgresql", "ansi"}}
     \cup {With(SpannerCatalog, k, v) : k \in {"project"}, v \in {"", "p"}}
     \cup {With(SpannerCatalog, "proto_descriptors", s) : s \in {<<"a.pb">>, <<"a.pb", "a.pb">>}}
     \cup {With(SpannerCatalog, "name", n) : n \in {"", "1x"}}
     \cup {With(SpannerCatalog, "kind", "mysql"), Without(SpannerCatalog, "kind"), With(SpannerCatalog, "extra", "x"),
           With(SpannerCatalog, "bindings", Warehouse.bindings), With(SpannerCatalog, "bindings", <<>>)}}
  \cup {<<SpannerCatalog, w>> : w \in
     {Warehouse, With(Warehouse, "dialect", "postgresql"), With(Warehouse, "project", "p"),
      With(Warehouse, "name", "app"), With(Warehouse, "proto_descriptors", <<"a.pb">>), Without(Warehouse, "bindings")}
     \cup {Bound([external_query_connections |-> cs]) : cs \in
             {<<Connection, Connection>>, <<Connection, With(Connection, "name", "other")>>,
              <<Without(Connection, "id")>>, <<With(Connection, "spanner_catalog", "1x")>>}}
     \cup {Bound([external_query_connections |-> <<With(Connection, "connection_id", "p.l.c")>>])}
     \cup {Bound([spanner_external_datasets |-> <<d>>]) : d \in
             {With(Dataset, "connection", "c"), With(Dataset, "access", [mode |-> "euc"])} \cup
             {With(Dataset, "projection", [unsupported_columns |-> x]) : x \in {"reject", "omit", "drop"}}
             \cup {With(Dataset, "projection", [named_schema_tables |-> x]) : x \in {"warn_and_omit", "omit"}}
             \cup {With(Dataset, "access", [verification_evidence |-> [status |-> x, verifier |-> "v", checked_at |-> "t"]]) :
                      x \in {"verified", "expired", ""}}
             \cup {With(Dataset, "access", [verification_evidence |-> [status |-> "verified"]]), Without(Dataset, "dataset")}}}

Result  == [struct |-> "Row", cardinality |-> "one"]
SQL     == [name |-> "Q", catalog |-> "app", kind |-> "sql", sql |-> "SELECT", result |-> Result]
Table   == [name |-> "Q", catalog |-> "app", kind |-> "table", table |-> "T", result |-> Result]
Index   == [name |-> "Q", catalog |-> "app", kind |-> "index", index |-> "I", result |-> Result]
External == [name |-> "Q", catalog |-> "wh", kind |-> "external_query", binding |-> "conn", inner_sql |-> "S",
             outer_sql |-> "S", result |-> Result]
MCParam == [name |-> "p", type |-> "INT64"]
QueryChoices ==
  {SQL, Table, Index, External, Without(External, "inner_sql"), With(External, "binding", "other"),
   With(External, "catalog", "app"), With(SQL, "sql", RawExternalQuery), With(SQL, "name", "1x"), Without(SQL, "result")}
  \cup {With(q, "order_by", o) : q \in {SQL, Table, Index, External}, o \in {"key", "none", "desc", ""}}
  \cup {With(q, "key_prefix", ks) : q \in {SQL, Table, Index, External}, ks \in {<<"id">>, <<"id", "id">>, <<>>}}
  \cup {With(q, k, "x") : q \in {SQL, Table, Index, External}, k \in {"sql", "table", "index", "outer_sql", "kind"}}
  \cup {With(q, "params", <<p>>) : q \in {SQL, External},
          p \in {MCParam, [name |-> "p"], With(MCParam, "scope", "inner"), With(MCParam, "scope", "both"), With(MCParam, "optional", "omit_when_null"), With(MCParam, "x", "")}}
  \cup {With(SQL, "result", r) : r \in
          {With(Result, "cardinality", c) : c \in {"many", "maybe_one", "all"}}
          \cup {With(Result, "required", [policy |-> x, fields |-> <<"a">>]) : x \in {"strict", "lenient"}}
          \cup {With(Result, "struct", ""), [scalar |-> "one"]}}
  \cup {With(SQL, k, "x") : k \in {"source", "result_struct"}}

Upsert == [name |-> "W", catalog |-> "app", table |-> "T", operation |-> "upsert", input |-> "Row",
           key |-> <<"id">>, insert |-> [columns |-> <<"id", "a">>], update |-> [columns |-> <<"a">>]]
Op(op) == With(Without(Without(Upsert, "insert"), "update"), "operation", op)
WriteChoices ==
  {Upsert, Op("delete"), Op("update"), Op("insert"), Op("merge"), Op("upsert"),
   With(Upsert, "insert", [columns |-> <<"id">>]), With(Upsert, "insert", [columns |-> <<"id", "a", "b">>]),
   With(Upsert, "update", [all_non_key_columns |-> TRUE]), With(Upsert, "operation", "insert"),
   With(Upsert, "name", "1x"), With(Upsert, "methods", <<"dml">>), With(Upsert, "columns", <<"a">>),
   Without(Upsert, "name"), Without(Upsert, "input"), With(Op("delete"), "key", <<"id", "id">>),
   With(Op("delete"), "insert", <<>>), With(Op("delete"), "update", [all_non_key_columns |-> FALSE])}
  \cup {With(Op(op), "insert", [columns |-> <<"id", "a">>]) : op \in {"insert", "replace", "update", "delete"}}
  \cup {With(Op(op), "update", u) : op \in {"insert", "update", "delete"},
          u \in {[columns |-> <<"a">>], [all_non_key_columns |-> TRUE],
                 With([columns |-> <<"a">>], "all_non_key_columns", TRUE)}}

Suppression == [scope |-> <<"query", "Q">>, rule |-> "r", reason |-> "x"]
Suppress(scope) == [suppressions |-> <<With(Suppression, "scope", scope)>>]
Base == [version |-> "v1alpha", go |-> [package |-> "p"], catalogs |-> <<SpannerCatalog, Warehouse>>, queries |-> <<SQL>>]
MCFiles ==
  {With(Base, "catalogs", c) : c \in CatalogChoices}
  \cup {With(Base, "queries", <<q>>) : q \in QueryChoices}
  \cup {With(Base, "queries", <<SQL, With(q, "name", n)>>) : q \in {Table}, n \in {"Q", "R"}}
  \cup {With(Without(Base, "queries"), "writes", <<w>>) : w \in WriteChoices}
  \cup {With(Base, "rules", Suppress(s)) : s \in
          {<<"query", "Q">>, <<"query", "R">>, <<"write", "W">>, <<"catalog-binding", "wh", "ds">>,
           <<"catalog-binding", "wh", "conn">>, <<"catalog", "wh">>}}
  \cup {With(Base, "rules", [suppressions |-> <<s>>]) : s \in
          {With(Suppression, "expires", x) : x \in {"2030-01-01", "soon"}} \cup {Without(Suppression, k) : k \in {"scope", "reason"}}}
  \cup {With(Base, "emit", e) : e \in
          {[spanner |-> [mutations |-> TRUE]], [bigquery |-> [row_loader |-> TRUE]],
           [spanner |-> [dml |-> TRUE], bigquery |-> [table_schema |-> TRUE]],
           [spanner |-> [query_methods |-> TRUE]], [spanner |-> [query_methods |-> FALSE]]}}
  \cup {Without(Base, "queries"), Without(Base, "go"), With(Base, "version", "v1"), Without(Base, "catalogs"), With(Base, "sql", "x"),
        With(Base, "client", "spanner"), With(Base, "rules", [severity |-> <<>>])}

-----------------------------------------------------------------------------
(* Packages: queries and writes over one table *)

MCLowerOf    == [ID |-> "id", A |-> "a", FROM |-> "from", JOIN |-> "join", P |-> "p", O |-> "o", __EXTERNAL__ |-> "__external__",
                 VERIFIED |-> "verified", ERROR |-> "error", US |-> "us", EUC |-> "euc", Spanner |-> "spanner", SELECT |-> "select"] @@ ("D.Users" :> "d.users")
MCExportedOf == [id |-> "ID", ID |-> "ID", a |-> "A", A |-> "A", b |-> "B", load |-> "Load", s |-> "S", created |-> "Created"]

Column(name, notNull, key, kind) ==
  [name |-> name, notNull |-> notNull, key |-> key, hidden |-> FALSE, generated |-> FALSE,
   onUpdate |-> FALSE, default |-> FALSE, kind |-> kind, repeated |-> FALSE]
MCTable ==
  [columns |-> <<Column("id", TRUE, TRUE, "INT64"), Column("a", FALSE, TRUE, "STRING"),
                 Column("load", TRUE, FALSE, "STRING"),
                 [Column("created", TRUE, FALSE, "TIMESTAMP") EXCEPT !.default = TRUE, !.onUpdate = TRUE]>>,
   pk |-> <<"id", "a">>]
F(name, kind, nullable) == [name |-> name, kind |-> kind, repeated |-> FALSE, nullable |-> nullable, fields |-> <<>>]
Repeated(f) == [f EXCEPT !.repeated = TRUE]
Struct(name, fields) == [F(name, "STRUCT", FALSE) EXCEPT !.fields = fields]

Read(name, mode, struct, fields) ==
  [name |-> name, mode |-> mode, bigquery |-> FALSE, markers |-> FALSE, nullIsNull |-> FALSE, federated |-> FALSE,
   params |-> FALSE, struct |-> struct, fields |-> fields, required |-> {}, policy |-> ""]
Id == F("id", "INT64", FALSE)
Rows == <<Id, F("a", "STRING", TRUE), F("load", "STRING", FALSE), F("created", "TIMESTAMP", FALSE)>>
ListAll == Read(<<"List">>, "many", <<"Row">>, Rows)
MCQueries ==
  { <<ListAll>>, <<[ListAll EXCEPT !.required = {"a"}, !.policy = "override"]>>,
    <<[Read(<<"Get">>, "many", <<"Row">>, <<Repeated(F("b", "STRING", FALSE))>>) EXCEPT !.bigquery = TRUE]>>,
    <<ListAll, Read(<<"List", "All">>, "one", <<"Row">>, <<Id>>)>>,
    <<ListAll, Read(<<"Get">>, "one", <<"Get", "SQL">>, <<F("ID", "INT64", TRUE), F("b", "DATE", TRUE)>>)>>,
    <<[ListAll EXCEPT !.mode = "one"], [Read(<<"Get">>, "maybe_one", <<"Row">>, <<Id>>) EXCEPT !.bigquery = TRUE]>>,
    <<[ListAll EXCEPT !.markers = TRUE, !.nullIsNull = TRUE], Read(<<"Build", "List">>, "one", <<"Other">>, <<Id>>)>>,
    <<[Read(<<"Ext">>, "many", <<"Row">>, <<Id, Repeated(F("b", "NUMERIC", TRUE))>>) EXCEPT
         !.bigquery = TRUE, !.federated = TRUE, !.params = TRUE]>>,
    <<Read(<<"Get">>, "many", <<"Row">>, <<Struct("s", <<Id, F("", "BYTES", TRUE)>>), Repeated(F("b", "STRING", FALSE))>>),
      Read(<<"Row", "S">>, "one", <<"Other">>, <<Id>>)>>,
    <<[Read(<<"Get">>, "many", <<"Row">>, <<F("a", "STRING", TRUE)>>) EXCEPT !.required = {"A"}, !.policy = "strict"]>>,
    <<[Read(<<"Get">>, "many", <<"Row">>, <<F("a", "STRING", TRUE)>>) EXCEPT !.required = {"A"}, !.policy = "override"]>>,
    <<Read(<<"Touch">>, "row_count", <<"None">>, <<>>), [ListAll EXCEPT !.mode = "row_set"]>>,
    <<Read(<<"Get">>, "one", <<"Row">>, <<Id, F("ID", "STRING", TRUE)>>)>>,
    <<>> }
Write(name, op, keys, insert, update) ==
  [name |-> name, table |-> "T", input |-> <<"Row">>, operation |-> op, keys |-> keys, insert |-> insert,
   update |-> update, methods |-> <<"mutation", "dml">>, explicit |-> TRUE]
Insert == Write(<<"Insert">>, "insert", <<>>, <<"id", "a", "load">>, <<>>)
Update == Write(<<"Update">>, "update", <<>>, <<>>, <<AllNonKeyColumns>>)
Delete(keys) == Write(<<"Delete">>, "delete", keys, <<>>, <<>>)
MCWrites ==
  { <<>>, <<Insert>>, <<Insert, Update>>, <<Update, [Update EXCEPT !.name = <<"Put">>, !.input = <<"Other">>]>>,
    <<Delete(<<"id", "a">>)>>, <<Delete(<<"a", "id">>)>>, <<[Delete(<<>>) EXCEPT !.methods = <<>>]>>,
    <<[Insert EXCEPT !.operation = "replace", !.methods = <<>>, !.explicit = FALSE]>>,
    <<Write(<<"Load">>, "insert_or_update", <<>>, <<>>, <<"load">>)>>,
    <<[Insert EXCEPT !.name = <<"Load">>], [Update EXCEPT !.name = <<"Load">>]>>,
    <<[Insert EXCEPT !.insert = <<"id", "a">>]>>, <<[Update EXCEPT !.update = <<"id">>]>>, <<[Update EXCEPT !.update = <<"load">>]>> }
MCPackages ==
  {[target |-> target, queries |-> q, writes |-> w, table |-> MCTable] :
     target \in {"spanner", "bigquery", "both"}, q \in MCQueries, w \in MCWrites}

\* The values that are not part of the topic.
NoPackage == package = None /\ stage = [at |-> "done", next |-> 0] /\ structs = <<>> /\ inputs = <<>> /\ file = NoFile

\* A finished file declares no name twice, nor a struct a member twice
\* (querygen_namespace.go is run before the code is written out, by code of
\* its own).
GeneratedFileDeclaresOnce ==
  topic = "package" /\ stage.at = "done" =>
    IsInjective(file.declares) /\ \A i \in DOMAIN file.structs : IsInjective(file.structs[i].members)

\* Every helper a Load method calls is written out (gostruct.go decides both,
\* each by a walk over the fields).
SupportDeclared == topic = "package" => file.calls \subseteq file.helpers

\* Every package that is referred to is imported; the only import without a
\* reference is that of Spanner for writes that emit nothing.
ImportsMatchUses ==
  topic = "package" /\ stage.at = "done" =>
    /\ file.uses \subseteq file.imports
    /\ file.imports \ file.uses \subseteq
         (IF package.writes # <<>> /\ \A w \in ToSet(package.writes) : Methods(w) = <<>> THEN {"spanner"} ELSE {})

PlanMade == [results |-> structs, inputs |-> inputs]
\* The helpers of writes read declared fields, each filled from the column it
\* is read for, and bind every parameter.
WriteHelpersRead ==
  topic = "package" /\ stage.at \in {"emit", "done"} =>
    HelpersReadTheirFields(package.writes, package.table, PlanMade, package.target)
\* The input structs can hold the values of the columns.
WriteStructsHold ==
  topic = "package" /\ stage.at \in {"emit", "done"} =>
    StructsHoldTheValues(package.writes, package.table, PlanMade)

\* The plan names what the file declares, and what it says of the writes is
\* what their helpers do (cmd/spanner-query-gen/DESIGN.md on explain-plan).
PlanNamesDeclared ==
  topic = "package" /\ stage.at = "done" => PlanNamesFile(package, structs, inputs, file)
PlannedWritesAreDone ==
  topic = "package" /\ stage.at = "done" => PlanTellsWrites(package, structs, inputs)

\* cmd/spanner-query-gen/README.md:689-692: a delete uses the primary key.
DeletesUsePrimaryKey ==
  topic = "package" /\ stage.at \in {"emit", "done"} => DeletesByPrimaryKey(package.writes, package.table)

-----------------------------------------------------------------------------
(* Structs that queries share, and the rows loaded into them *)

FieldChoices ==
  { <<Id>>, <<F("a", "STRING", TRUE), Id>>, <<F("id", "INTEGER", TRUE), F("b", "DATE", FALSE)>>,
    <<Struct("s", <<Id, F("a", "STRING", TRUE)>>)>>, <<Struct("s", <<F("a", "STRING", FALSE)>>), Id>>,
    <<Repeated(F("b", "DATE", TRUE))>>, <<Repeated(Struct("s", <<Id>>))>>, <<F("id", "STRING", FALSE)>> }
MCShared == {<<x, y>> : x, y \in FieldChoices} \cup {<<x, y, x>> : x, y \in FieldChoices}

MergeQueries ==
  /\ topic = "shared" /\ answer = None
  /\ answer' = IF AllMergeable(input) THEN [is |-> "merged", fields |-> MergeAll(input)] ELSE [is |-> "refused"]
  /\ UNCHANGED <<topic, input, generatorVars, readVars>>

\* Each row of each of the queries loads into the merged struct, and what was
\* loaded tells NULL from a value (cmd/spanner-query-gen/README.md on shared
\* structs); the columns are spelled alike.
RowsLoad ==
  topic = "shared" /\ answer.is = "merged" =>
    \A i \in DOMAIN input : \A row \in RowsOf(input[i]) : Tells(LoadRecord(answer.fields, row), row)

\* Merging in another order gives the same fields, and each query fits.
MergedStructFits ==
  topic = "shared" /\ answer.is = "merged" =>
    /\ \A i \in DOMAIN input : Fits(input[i], answer.fields)
    /\ AllMergeable(Reverse(input)) /\ SameStruct(MergeAll(Reverse(input)), answer.fields)

-----------------------------------------------------------------------------
(* Values over the wire *)

Wrong == {[form |-> n, parses |-> p] : n \in {"nil", "nil pointer", "string", "bool", "float64"}, p \in BOOLEAN}
MCValues ==
  {[type |-> T, value |-> v] : T \in GoTypes, v \in Wrong}
  \cup {[type |-> T, value |-> [form |-> "list", of |-> s]] : T \in GoTypes, s \in [1..2 -> Wrong]}

DecodeValue ==
  /\ topic = "value" /\ answer = None
  /\ answer' = IF input.value.form = "list" THEN DecodeList(input.type, input.value)
               ELSE DecodeSpanner(input.type, input.value)
  /\ UNCHANGED <<topic, input, generatorVars, readVars>>

\* What Spanner sends for a type decodes, NULL to NULL; a list does when all
\* its elements do (gostruct.go:774-1066).
WireDecodes ==
  topic = "value" /\ answer # None =>
    LET good(v) == v.parses /\ v.form \in Wire(input.type)
        null(v) == v.form = "nil"
    IN  IF input.value.form # "list"
        THEN (good(input.value) => answer = Good) /\ (null(input.value) => answer = Null)
        ELSE /\ (\A i \in DOMAIN input.value.of : good(input.value.of[i]) \/ null(input.value.of[i])) =>
                  /\ answer.is = "list"
                  /\ \A i \in DOMAIN input.value.of : answer.of[i] = (IF null(input.value.of[i]) THEN Null ELSE Good)
             /\ (\E i \in DOMAIN input.value.of : DecodeSpanner(input.type, input.value.of[i]) = Failed) => answer = Failed

-----------------------------------------------------------------------------
(* Optional parameters *)

MCSafeParamOf == ("a b" :> "a_b")
MCExportIdent == [n \in {"a", "b", "c", "a_b", "aB"} |->
                    CASE n = "a" -> "A" [] n = "b" -> "B" [] n = "c" -> "C" [] OTHER -> "AB"]
Block(marker, param, text) == [marker |-> marker, param |-> param, text |-> text]
Outside(text) == Block("", "", text)
Res(n) == [is |-> "result", name |-> n]
Opt(name, mode, type) == [name |-> name, mode |-> mode, type |-> type, choices |-> <<>>, default |-> ""]
Orders == [asc |-> <<Word("ASC")>>, desc |-> <<Word("DESC")>>]
Choice(name, default) == [Opt(name, "orderby_choice", "") EXCEPT !.choices = Orders, !.default = default]
Where(n) == <<Word("="), Named(n)>>
Head_ == Outside(<<Res("id")>>)
MCTemplates ==
  {[blocks |-> b, params |-> p] :
     b \in { <<Head_>>, <<Head_, Block("optional", "a", Where("a"))>>,
             <<Head_, Block("optional", "a", Where("a")), Outside(<<Word("AND")>>), Block("empty", "b", Where("b"))>>,
             <<Head_, Block("optional", "a", Where("a")), Block("optional", "b", <<Res("b")>>), Block("orderby", "c", <<Word("ID")>>)>>,
             <<Head_, Block("null_is_null", "a", <<Quoted("= @a"), Word("="), Named("A")>>), Block("orderby", "c", <<Word("ID")>>)>>,
             <<Head_, Block("null_is_null", "a", <<Quoted("= @a")>>)>>,
             <<Head_, Block("optional", "a", Where("a")), Block("optional", "b", Where("b")), Block("optional", "c", Where("c"))>>,
             <<Head_, Block("optional", "a", Where("a")), Block("optional", "b", Where("b")), Block("orderby", "c", <<>>)>>,
             <<Head_, Block("optional", "a", <<Res("x"), Word("OR"), Res("id")>>), Block("optional", "b", <<Res("id")>>)>>,
             <<Head_, Block("optional", "a_b", Where("a_b")), Block("optional", "aB", Where("aB"))>>,
             <<Head_, Block("optional", "a", Where("a")), Block("optional", "a", Where("a"))>> },
     p \in { <<>>, <<Opt("a", "omit_when_null", "INT64")>>,
             <<Opt("a", "omit_when_null", "INT64"), Opt("b", "omit_when_empty", "ARRAY<INT64>"), Opt("c", "required", "BYTES")>>,
             <<Opt("a", "omit_when_null", "INT64"), Opt("b", "omit_when_null", "STRING"), Opt("c", "omit_when_null", "BOOL")>>,
             <<Opt("a", "omit_when_null", "INT64"), Opt("b", "omit_when_null", "STRING")>>,
             <<Opt("a", "omit_when_null", "INT64"), Opt("b", "omit_when_null", "STRING"), Choice("c", "asc")>>,
             <<Opt("a", "null_is_null", "INT64"), Choice("c", "desc")>>, <<Opt("a", "null_is_null", "BYTES")>>,
             <<Opt("a_b", "omit_when_null", "INT64"), Opt("aB", "omit_when_null", "INT64")>>,
             <<Opt("a", "omit_when_null", "INT64"), Opt("a", "omit_when_null", "INT64")>> }}

\* The SQL that stands for the query in the plan shows whatever any call can
\* turn on (internal/querygen/querygen.go:848-860).
CanonicalShowsAll ==
  topic = "template" /\ answer.is = "variants" =>
    \A v \in Canonical(answer.variants) : \A i \in DOMAIN input.blocks :
      input.blocks[i].marker \in {"optional", "empty"} => ToSet(input.blocks[i].text) \subseteq ToSet(v.sql)

-----------------------------------------------------------------------------
(* Finders *)

FinderTable == [MCTable EXCEPT !.columns = Append(@, [Column("h", FALSE, FALSE, "STRING") EXCEPT !.hidden = TRUE])]
Plain(kind, prefix) ==
  [kind |-> kind, dialect |-> "spanner", all |-> FALSE, keyPrefix |-> prefix, orderBy |-> "", params |-> <<>>]
Mode(name, mode) == [BareParam(name, "") EXCEPT !.mode = mode]
MCParamLists ==
  { <<>>, <<Mode("a", "omit_when_null")>>, <<Mode("ID", "omit_when_null")>>, <<Mode("id", "omit_when_null"), Mode("a", "omit_when_null")>>,
    <<Mode("a", "null_is_null")>>, <<Mode("id", "omit_when_empty")>>, <<Mode("a", "omit_when_null"), Mode("A", "")>>,
    <<[Mode("o", "orderby_choice") EXCEPT !.choices = Orders, !.default = "asc"]>>,
    <<[Mode("a", "omit_when_null") EXCEPT !.type = "BYTES"], [Mode("o", "orderby_choice") EXCEPT !.choices = Orders, !.default = "desc"]>>,
    <<[Mode("a", "") EXCEPT !.scope = "inner"]>> }
MCIndexes == {[keys |-> <<"a">>, stored |-> <<"load", "id">>, nullFiltered |-> n] : n \in BOOLEAN}
               \cup {[keys |-> <<"a", "id">>, stored |-> <<>>, nullFiltered |-> TRUE]}
MCFinders ==
  {[query |-> [Plain(k, p) EXCEPT !.params = x, !.orderBy = o], index |-> i] :
     k \in {"table", "index"}, p \in {<<>>, <<"id">>, <<"ID", "a">>, <<"a">>, <<"a", "id">>}, x \in MCParamLists,
     o \in {"", "none", "name"}, i \in MCIndexes}
  \cup {[query |-> [Plain(k, <<>>) EXCEPT !.all = TRUE, !.dialect = d], index |-> i] :
          k \in {"table", "index"}, d \in {"spanner", "bigquery"}, i \in MCIndexes}

FinderAccepted(q, t, index) ==
  /\ ShapeOK(q, t, index) /\ ParamsValid(ShapeParams(q, t, index), FALSE)
  /\ HasMarkers(q.params) =>
       /\ TemplateAccepted(Template(q, t, index), OptParams(ShapeParams(q, t, index)))
       /\ BuilderEmits(OptParams(ShapeParams(q, t, index)))
FindQuery ==
  /\ topic = "finder" /\ answer = None
  /\ answer' = IF FinderAccepted(input.query, FinderTable, input.index)
               THEN [is |-> "finder", template |-> Template(input.query, FinderTable, input.index),
                     params |-> OptParams(ShapeParams(input.query, FinderTable, input.index))]
               ELSE [is |-> "refused"]
  /\ UNCHANGED <<topic, input, generatorVars, readVars>>
FinderSQL(passed) ==
  BuildSQL(Segments(answer.template, answer.params), answer.params, passed,
           [p \in Choiceable(answer.template) |-> ""])

Accepted == topic = "finder" /\ answer.is = "finder" /\ input.query.dialect = "spanner"
\* The rows found are those that equal the parameters that are passed: NULL is
\* found by null_is_null alone, and never through a NULL_FILTERED index.
FindersFind ==
  Accepted =>
    LET prefix == Prefix(input.query, FinderTable, input.index)
        name(i) == ParamNames(prefix)[i]
        mode(i) == ModeOf(answer.params, name(i))
        args == [{name(i) : i \in DOMAIN prefix} -> {"1", "2", NoValue}]
        rowsOf == {r \in [{"id", "a", "load"} -> {"1", "2", NoValue}] : r["id"] # NoValue /\ r["load"] = "1"}
    IN  \A passed \in SUBSET ParamsOfMode(answer.params, {"omit_when_null"}), x \in args, r \in rowsOf :
          Selects(FinderSQL(passed), r, x) <=>
            /\ \A i \in DOMAIN prefix :
                 \/ mode(i) = "omit_when_null" /\ name(i) \notin passed
                 \/ r[Lower(prefix[i])] = x[name(i)] /\ (x[name(i)] # NoValue \/ mode(i) = "null_is_null")
            /\ input.query.kind = "index" /\ input.index.nullFiltered =>
                 \A n \in ToSet(input.index.keys) : r[n] # NoValue
\* Whichever parameters are left out, the statement has at most one WHERE, of
\* conditions joined by AND, and an order by key identifies the row.
FindersParse ==
  Accepted => \A passed \in SUBSET ParamsOfMode(answer.params, {"omit_when_null"}) :
    LET sql == FinderSQL(passed)
    IN  /\ WhereParses(sql)
        /\ Word("ORDER BY") \in ToSet(sql) => ToSet(FinderTable.pk) \subseteq {sql[i].name : i \in {j \in DOMAIN sql : sql[j].is = "order"}}
\* Parameters that are always passed make up a prefix of the keys.
RequiredKeysLead ==
  Accepted => \A i, j \in DOMAIN Prefix(input.query, FinderTable, input.index) :
    i < j /\ ModeOf(answer.params, ParamNames(Prefix(input.query, FinderTable, input.index))[j]) \notin Omits
      => ModeOf(answer.params, ParamNames(Prefix(input.query, FinderTable, input.index))[i]) \notin Omits

-----------------------------------------------------------------------------
(* Calls of generated functions *)

MCQueryCalls == [mode : {"many", "one", "maybe_one"}, bigquery : BOOLEAN]
MCRowLists ==
  {Append(s, e) : s \in UNION {[1..n -> {"row", "bad"}] : n \in 0..3}, e \in {"done", "error"}}
NoCall == call = None /\ rows = <<>> /\ given = <<>> /\ reader = "closed" /\ out = <<>> /\ stopped = TRUE

\* A function that returns rows returns all there were; one and maybe_one
\* return a row only when there was exactly one, and maybe_one none only when
\* there was none; the iterator is stopped.
AnswersAreWhole ==
  topic = "call" /\ reader # "open" =>
    /\ reader = "rows" => /\ given = Append(out, "done")
                          /\ call.mode # "many" => Len(out) = 1
    /\ reader = "none" => call.mode = "maybe_one" /\ given = <<"done">>
    /\ ~call.bigquery => stopped
\* Every call returns.
CallsReturn == topic = "call" ~> reader # "open"

-----------------------------------------------------------------------------
(* External queries *)

Select(text) == <<"SELECT", "x", "FROM">> \o text
At(name) == <<"at", name>>
MCOuters ==
  { <<>>, Select(<<Placeholder>>), Select(<<"t">>), Select(<<Placeholder, "JOIN", "__EXTERNAL__">>),
    Select(<<"t", "join", Placeholder, "WHERE">> \o At("p")), Select(<<"t", "comma", Placeholder>>),
    Select(<<"paren", Placeholder, "ORDER BY", "x">>), Select(<<Placeholder, "WHERE">> \o At("p") \o At("o")),
    Select(<<Placeholder, "WHERE">> \o At("O")), Select(<<"from", "quote", Placeholder, "quote", Placeholder>>) }
  \cup {Select(<<Placeholder>> \o b \o <<"WHERE", "x">> \o e) :
          b \in {<<"dashes">>, <<"dashes", Placeholder, "newline">>, <<"dashes", "quote", "newline">>, <<"opencomment", "quote">>, <<"quote", "dashes", "quote">>,
                 <<"backquote", "quote", "doublequote", "backquote">>, <<"hash", "FROM", Placeholder, "newline">>,
                 <<"quote", "backslash", "quote", Placeholder, "quote">>},
          e \in {<<>>, <<"endcomment", "FROM", Placeholder>>, <<"quote", "FROM", Placeholder, "quote">>}}
MCInners ==
  {Select(<<"t">> \o w \o o) : w \in {<<>>, At("p"), At("P"), <<"quote", "at", "o", "quote">>, At("p") \o At("o")},
                               o \in {<<>>, <<"ORDER BY", "x">>, <<"ORDER BY", "x", "LIMIT 1">>}}
Scoped(name, scope) == [name |-> name, scope |-> scope]
MCScopes ==
  { <<>>, <<Scoped("p", "")>>, <<Scoped("p", ""), Scoped("o", "")>>, <<Scoped("p", "inner"), Scoped("p", "outer"), Scoped("o", "")>>,
    <<Scoped("p", "outer"), Scoped("o", "outer")>> }

Connected(id, source) == [id |-> id, source |-> source]
MCConnections ==
  { <<Connected("c", "s")>>, <<Connected("c", "s"), Connected("d", "r")>>, <<Connected("c", "r"), Connected("c", "s")>>,
    <<Connected("c", "s"), Connected("c", "s")>>, <<Connected("d", "s")>>, <<Connected("c", "s"), Connected("c", "")>>,
    <<Connected("c", "pg")>>, <<Connected("c", "r")>> }
Schemas(connections) ==
  LET schema(d, cs, t) == [dialect |-> d, connections |-> cs, types |-> t]
  IN  [w  |-> schema("bigquery", connections, <<>>),
       s  |-> schema("spanner", <<>>, <<<<"INT64">>, <<"TIMESTAMP">>, <<"ARRAY", "TIMESTAMP">>>>),
       r  |-> schema("spanner", <<>>, <<<<"ARRAY", "STRUCT", "TIMESTAMP">>>>),
       pg |-> schema("postgresql", <<>>, <<<<"INT64">>>>)]
MCFederated ==
  {[schemas |-> Schemas(<<Connected("c", "s")>>), on |-> "w",
    query |-> [connection |-> "c", source |-> "", inner |-> i, outer |-> o, params |-> p]] :
     i \in MCInners, o \in MCOuters, p \in MCScopes}
  \cup {[schemas |-> Schemas(cs), on |-> w,
         query |-> [connection |-> "c", source |-> s, inner |-> i, outer |-> <<>>, params |-> <<>>]] :
          cs \in MCConnections, w \in {"w", "s"}, s \in {"", "s", "r"}, i \in {<<>>, Select(<<"t">>)}}

-----------------------------------------------------------------------------
(* External datasets: one or two settings of a plain one are changed. *)

Evidence(status, source, checkedAt, verifier) ==
  [status |-> status, source |-> source, checkedAt |-> checkedAt, verifier |-> verifier]
MCEvidence ==
  {NoEvidence, Evidence("", "live_probe", "", ""), Evidence("not_checked", "user_config", "", "")}
  \cup {Evidence(s, o, c, v) : s \in {"verified", "VERIFIED", "mismatch", "failed", "refuted"},
          o \in {"", "user_config"}, c \in {"", "yesterday", "RFC 3339"}, v \in {"", "team"}}
SpannerColumn(name, type, hidden) == [name |-> name, type |-> type, hidden |-> hidden]
MCDatasetTables ==
  LET t(name, columns) == [name |-> name, columns |-> columns]
      x == SpannerColumn("x", <<"INT64">>, FALSE)
  IN  { <<t(<<"T">>, <<x>>)>>, <<t(<<"S", "T">>, <<x>>)>>, <<t(<<"T">>, <<x, SpannerColumn("y", <<"TOKENLIST">>, TRUE)>>)>> }
      \cup {<<t(<<"T">>, <<x, SpannerColumn("y", e, FALSE), SpannerColumn("z", <<"NUMERIC">>, FALSE)>>), t(<<"S", "T">>, <<>>)>> :
               e \in {<<"TIMESTAMP">>, <<"ARRAY", "FLOAT32">>, <<"ARRAY", "STRUCT", "DATE">>, <<"UUID">>, <<"ARRAY", "PROTO">>}}
PlainDataset ==
  [source |-> "s", dialect |-> "", uri |-> [form |-> "none", role |-> ""], role |-> "", evidence |-> NoEvidence,
   access |-> [mode |-> "", connection |-> <<>>, role |-> "", hint |-> "", evidence |-> NoEvidence],
   location |-> "", connection |-> <<>>, cloudConnection |-> <<>>, unsupported |-> "", named |-> "", tables |-> <<>>,
   suppressions |-> <<>>]
Suppressing(rule, reason) == [rule |-> rule, reason |-> reason]
MCSuppressions ==
  { <<Suppressing("access-unverified", "reviewed")>>, <<Suppressing("access-unverified", "")>>, <<Suppressing("", "reviewed")>>,
    <<Suppressing("unsupported-column", "known"), Suppressing("unsupported-column", "twice")>>,
    <<Suppressing("planning-error", "x"), Suppressing("unsupported-column-omitted", "x")>> }
MCConnectionIDs == {<<>>, <<"p", "us", "c">>, <<"p", "asia", "c">>, <<"p", "", "c">>, <<"us">>}
MCDatasets ==
  {[PlainDataset EXCEPT !.evidence = e, !.access.evidence = f, !.role = r] :
     e \in MCEvidence, f \in {NoEvidence, Evidence("failed", "", "RFC 3339", "team")}, r \in {"", "reader"}}
  \cup {[PlainDataset EXCEPT !.access.evidence = e, !.access.hint = h] : e \in MCEvidence, h \in {"", "not_checked", "verified"}}
  \cup {[PlainDataset EXCEPT !.uri = u, !.role = r, !.access.role = a, !.dialect = d] :
          u \in [form : {"none", "with role", "without role", "other"}, role : {"reader"}], r \in {"", "reader"},
          a \in {"", "reader", "writer"}, d \in {"", "Spanner", "spanner-google-sql", "postgresql"}}
  \cup {[PlainDataset EXCEPT !.access.mode = m, !.access.connection = a, !.cloudConnection = c, !.connection = b, !.location = l] :
          m \in {"", "EUC", "cloud_resource", "both"}, a \in {<<>>, <<"p", "US", "c">>}, c \in {<<>>, <<"p", "europe", "c">>},
          b \in MCConnectionIDs, l \in {"", "US", "us", "europe"}}
  \cup {[PlainDataset EXCEPT !.unsupported = u, !.named = n, !.tables = t] :
          u \in {"", "omit", "error", "drop"}, n \in {"", "warn_and_omit", "ERROR"}, t \in MCDatasetTables}
  \cup {[PlainDataset EXCEPT !.suppressions = s, !.tables = t, !.unsupported = u, !.evidence = e] :
          s \in MCSuppressions, t \in MCDatasetTables, u \in {"", "error"},
          e \in {NoEvidence, Evidence("verified", "", "yesterday", "team"), Evidence("VERIFIED", "", "yesterday", "team")}}

-----------------------------------------------------------------------------
(* Statements over the tables of two external datasets. *)

MCPathOf == ("d.users" :> <<"d", "users">>) @@ ("p.d.users" :> <<"p", "d", "users">>) @@ ("d.usersarchive" :> <<"d", "usersarchive">>)
              @@ ("xd.users" :> <<"xd", "users">>) @@ ("e.users" :> <<"e", "users">>) @@ ("d.v" :> <<"d", "v">>) @@ ("s.users" :> <<"s", "users">>)
MCPart == UNION {ToSet(MCPathOf[w]) : w \in DOMAIN MCPathOf}
MCBegins == {<<x, x>> : x \in MCPart} \cup {<<"users", "usersarchive">>}
MCEnds == {<<x, x>> : x \in MCPart} \cup {<<"d", "xd">>}
MCTableOf(name, visible, omitted) == [name |-> name, visible |-> visible, omitted |-> omitted]
MCBindings ==
  << [dataset |-> <<"d">>, path |-> <<"p", "d">>,
      tables |-> <<MCTableOf(<<"users">>, TRUE, {"token"}), MCTableOf(<<"usersarchive">>, TRUE, {}), MCTableOf(<<"s", "users">>, FALSE, {})>>],
     [dataset |-> <<"e">>, path |-> <<"e">>, tables |-> <<MCTableOf(<<"users">>, TRUE, {"secret", "token"})>>] >>
MCTarget == [w \in DOMAIN MCPathOf |->
               IF w \in {"d.users", "p.d.users"} THEN <<"p", "d", "users">>
               ELSE IF w = "d.usersarchive" THEN <<"p", "d", "usersarchive">>
               ELSE IF w = "e.users" THEN <<"e", "users">> ELSE <<>>]
Statement(text, reads, writes) == [text |-> text, reads |-> reads, writes |-> writes]
Spelled(w) == {<<w>>, <<"backquote", w, "backquote">>} \cup (IF w = "d.users" THEN {<<"D.Users">>} ELSE {})
Reading(w) == {MCTarget[w]} \ {<<>>}
MCReads ==
  {Statement(<<"SELECT", c, "FROM">> \o s \o n, Reading(w), <<>>) :
     c \in {"star", "x"}, s \in UNION {Spelled(v) : v \in {"d.users"}}, w \in {"d.users"},
     n \in {<<>>, <<"quote", "d.usersarchive", "quote">>, <<"dashes", "d.usersarchive", "newline">>}}
  \cup {Statement(<<"SELECT", c, "FROM", v, k, w>>, Reading(v) \cup Reading(w), <<>>) :
          c \in {"star", "x"}, v \in DOMAIN MCPathOf \ {"d.v", "s.users"}, k \in {"JOIN", "comma"}, w \in {"e.users", "d.users", "t"} \cap DOMAIN MCPathOf}
  \cup {Statement(<<"insert", "into", "t", "SELECT", "star", "FROM", "d.users">>, {<<"p", "d", "users">>}, <<>>)}
MCWrites2 ==
  {Statement(p \o s \o t, {}, MCTarget[w]) :
     p \in DMLPrefixes, w \in {"d.users"}, s \in Spelled("d.users") \cup {<<"p.d.users">>},
     t \in {<<"x">>, <<"paren", "x">>, <<"newline", "x">>}}
  \cup {Statement(n \o p \o c \o <<w>> \o t, {}, IF MCTarget[w] = <<>> THEN <<"p">> \o MCPathOf[w] ELSE MCTarget[w]) :
          n \in {<<>>, <<"opencomment", "d.v", "endcomment">>, <<"dashes", "newline">>}, p \in TargetPrefixes, c \in Conditions,
          w \in {"d.users", "d.v", "e.users"}, t \in {<<>>, <<"semicolon">>, <<"x">>, <<"paren", "x">>}}
  \cup {Statement(<<"insert", "s.users", "paren", "x">>, {}, <<>>), Statement(<<"quote", "insert", "quote", "d.users">>, {}, <<>>)}
MCStatements == {[statement |-> s, bound |-> b] : s \in MCReads \cup MCWrites2, b \in {MCBindings, SubSeq(MCBindings, 1, 1), <<>>}}

-----------------------------------------------------------------------------
Idle == NoPackage /\ NoCall
Init ==
  \/ topic = "shared" /\ input \in MCShared /\ answer = None /\ Idle
  \/ topic = "value" /\ input \in MCValues /\ answer = None /\ Idle
  \/ topic = "finder" /\ input \in MCFinders /\ answer = None /\ Idle
  \/ PlanningInit /\ Idle
  \/ topic = "package" /\ input = None /\ answer = None /\ GeneratorInit /\ NoCall
  \/ topic = "call" /\ input = None /\ answer = None /\ NoPackage /\ ReadInit

GeneratePackage == topic = "package" /\ GeneratorNext /\ UNCHANGED <<topic, input, answer, readVars>>
ReadCall == topic = "call" /\ ReadStep /\ UNCHANGED <<topic, input, answer, generatorVars>>
DecideOnQuery == PlanQuery /\ UNCHANGED <<generatorVars, readVars>>
Next == DecideOnQuery \/ MergeQueries \/ DecodeValue \/ FindQuery \/ GeneratePackage \/ ReadCall
\* A generated function runs on: nothing in it waits but the iterator.
Spec == Init /\ [][Next]_vars /\ ReadFairness

\* The plan printed is that of the file generated: its SQL is of the variant
\* with most in it, the columns it says are written are written, the names it
\* lists are declared, the relations it lists cover those read, and a statement
\* that writes where nothing can be written is no query of it.
PlanIsTrue ==
  /\ CanonicalShowsAll
  /\ PlannedWritesAreDone
  /\ PlanNamesDeclared
  /\ RelationsCoverReads
  /\ WritesDiagnosed

\* The generated file compiles, as far as its names go: each is declared once,
\* what is called is declared, imports and uses are the same, and helpers read
\* fields there are.
GeneratedFileCompiles ==
  /\ GeneratedFileDeclaresOnce
  /\ SupportDeclared
  /\ ImportsMatchUses
  /\ WriteHelpersRead

\* The structs hold what passes through them: the columns of a write, every row
\* of every query merged into one, and every value on the wire.
StructsHold == WriteStructsHold /\ RowsLoad /\ MergedStructFits /\ WireDecodes

\* A finder by key is a statement GoogleSQL parses and finds exactly the rows
\* with that key, and the keys it demands lead the primary key.
FindersAreExact == FindersFind /\ FindersParse /\ RequiredKeysLead

\* A call of a generated read answers with all the rows, or the one, or an
\* error, and does answer, wherever the iterator fails.
CallsAnswer == []AnswersAreWhole /\ CallsReturn
=============================================================================
