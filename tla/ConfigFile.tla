----------------------------- MODULE ConfigFile -----------------------------
(***************************************************************************)
(* The v1alpha configuration file of spanner-query-gen and the parser that *)
(* turns it into a QueryCodegenConfig (internal/querygen/                  *)
(* querygen_config.go).  A YAML mapping is a function from its keys to its *)
(* values, so a key that is absent is not in the DOMAIN; "" stands for a   *)
(* text that is empty or blank, which the parser takes for absent.  A text *)
(* where a mapping should stand is the mapping of "scalar" to it.          *)
(***************************************************************************)
EXTENDS GoNames

CONSTANTS
  Files,          \* configuration files: YAML mappings
  NotIdentifiers, \* texts that [A-Za-z_][A-Za-z0-9_]* does not match
  NotDates        \* texts that are no date YYYY-MM-DD

\* An empty reference is one that is absent.
ASSUME Identifiers == "" \notin NotIdentifiers

\* What Unmarshal puts into a field: the value, or the zero value of its type.
Text(o, k)     == IF k \in DOMAIN o THEN o[k] ELSE ""
List(o, k)     == IF k \in DOMAIN o THEN o[k] ELSE <<>>
Flag(o, k)     == k \in DOMAIN o /\ o[k]
Part(o, k)     == IF k \in DOMAIN o THEN o[k] ELSE <<>>
Elements(o, k) == ToSet(List(o, k))

-----------------------------------------------------------------------------
(* Keys: what is not known is refused, at every level *)

Known(o, allowed) == DOMAIN o \subseteq allowed
AllKnown(os, allowed) == \A o \in os : Known(o, allowed)

KnownCatalog(c) ==
  LET b == Part(c, "bindings")
  IN  /\ Known(c, {"name", "kind", "dialect", "project", "ddl", "proto_descriptors", "bindings"})
      /\ Known(b, {"external_query_connections", "spanner_external_datasets"})
      /\ AllKnown(Elements(b, "external_query_connections"), {"name", "id", "spanner_catalog"})
      /\ \A d \in Elements(b, "spanner_external_datasets") :
           /\ Known(d, {"name", "dataset", "spanner_catalog", "spanner_database_uri", "location",
                        "access", "projection"})
           /\ Known(Part(d, "access"), {"cloud_resource_connection_id", "verification_evidence"})
           /\ Known(Part(Part(d, "access"), "verification_evidence"), {"status", "verifier", "checked_at"})
           /\ Known(Part(d, "projection"), {"unsupported_columns", "named_schema_tables"})

KnownQuery(q) ==
  /\ Known(q, {"name", "catalog", "kind", "sql", "table", "index", "binding", "inner_sql",
               "outer_sql", "key_prefix", "order_by", "result", "params"})
  /\ Known(Part(q, "result"), {"cardinality", "struct", "required"})
  /\ Known(Part(Part(q, "result"), "required"), {"policy", "fields"})
  /\ AllKnown(Elements(q, "params"), {"name", "type", "scope", "optional", "choices", "default"})

KnownWrite(w) ==
  /\ Known(w, {"name", "catalog", "table", "operation", "input", "key", "insert", "update"})
  /\ Known(Part(w, "insert"), {"columns"})
  /\ Known(Part(w, "update"), {"columns", "all_non_key_columns"})

KnownRules(r) ==
  /\ Known(r, {"suppressions"})
  /\ AllKnown(Elements(r, "suppressions"), {"scope", "rule", "reason", "owner", "expires"})

KnownKeys(f) ==
  LET emit == Part(f, "emit")
  IN  /\ Known(f, {"version", "go", "emit", "catalogs", "queries", "writes", "rules"})
      /\ Known(Part(f, "go"), {"package", "out"})
      /\ Known(emit, {"spanner", "bigquery"})
      /\ Known(Part(emit, "spanner"), {"mutations", "dml", "query_methods"})
      /\ Known(Part(emit, "bigquery"), {"row_loader", "table_schema", "query_methods"})
      /\ \A c \in Elements(f, "catalogs") : KnownCatalog(c)
      /\ \A q \in Elements(f, "queries") : KnownQuery(q)
      /\ \A w \in Elements(f, "writes") : KnownWrite(w)
      /\ KnownRules(Part(f, "rules"))

-----------------------------------------------------------------------------
(* Keys of earlier shapes, looked for before those that are unknown *)

Uses(o, keys) == DOMAIN o \cap keys # {}
IsScalar(o)   == "scalar" \in DOMAIN o

\* rejectV1AlphaLegacyObjectKeys: an element of a list with a key of the shape before.
EarlierQuery(q) == Uses(q, {"source", "schema", "federated", "result_struct", "required", "required_policy", "vet"})
EarlierWrite(w) == Uses(w, {"source", "schema", "input_struct", "columns", "update_mask", "methods", "emit", "vet"})
EarlierDataset(d) ==
  LET access == Part(d, "access")
  IN  \/ Uses(d, {"spanner_source", "external_source", "connection", "cloud_resource", "access_verification",
                  "verification_hint", "vet"})
      \/ Uses(Part(access, "verification_evidence"), {"source"})
      \/ Uses(access, {"mode", "database_role", "verification_hint"})
EarlierCatalog(c) ==
  \/ \E x \in Elements(Part(c, "bindings"), "external_query_connections") : Uses(x, {"connection_id"})
  \/ \E d \in Elements(Part(c, "bindings"), "spanner_external_datasets") : EarlierDataset(d)

EarlierKeys(f) ==
  \/ Uses(f, {"package", "out", "client", "schemas", "source"})
  \/ \E q \in Elements(f, "queries") : EarlierQuery(q) \/ IsScalar(Part(q, "result"))
  \/ \E w \in Elements(f, "writes") : EarlierWrite(w)
  \/ \E c \in Elements(f, "catalogs") : EarlierCatalog(c)
  \/ Uses(Part(f, "rules"), {"severity"})

-----------------------------------------------------------------------------
(* Names and references *)

IdentifierReference(n) == n \notin NotIdentifiers
\* requireUniqueV1AlphaName over a list of mappings; a blank name is passed on.
UniqueNames(os) ==
  /\ \A i \in DOMAIN os : IdentifierReference(Text(os[i], "name"))
  /\ \A i, j \in DOMAIN os :
       Text(os[i], "name") = Text(os[j], "name") /\ Text(os[i], "name") # "" => i = j

-----------------------------------------------------------------------------
(* Catalogs *)

CatalogShape(c) ==
  LET b == Part(c, "bindings")
  IN  \/ /\ Text(c, "kind") = "spanner"
         /\ Text(c, "project") = ""
         /\ List(b, "external_query_connections") = <<>>
         /\ List(b, "spanner_external_datasets") = <<>>
      \/ Text(c, "kind") = "bigquery" /\ List(c, "proto_descriptors") = <<>>

\* The dialect name the resolved schema gets; "" when it is refused.
CatalogDialect(c) ==
  CASE Text(c, "kind") = "spanner" /\ Text(c, "dialect") \in {"", "googlesql"}  -> "spanner"
    [] Text(c, "kind") = "spanner" /\ Text(c, "dialect") = "postgresql"         -> "spanner_postgresql"
    [] Text(c, "kind") = "bigquery" /\ Text(c, "dialect") \in {"", "googlesql"} -> "bigquery"
    [] OTHER -> ""

ConnectionsParse(cs) ==
  /\ UniqueNames(cs)
  /\ \A i \in DOMAIN cs :
       /\ Text(cs[i], "name") # "" /\ Text(cs[i], "id") # "" /\ Text(cs[i], "spanner_catalog") # ""
       /\ IdentifierReference(cs[i].spanner_catalog)
  /\ \A i, j \in DOMAIN cs : cs[i].id = cs[j].id => i = j

DatasetsParse(ds) ==
  /\ UniqueNames(ds)
  /\ \A i \in DOMAIN ds :
       /\ \A k \in {"name", "dataset", "spanner_catalog"} : Text(ds[i], k) # ""
       /\ IdentifierReference(ds[i].spanner_catalog)
       /\ Text(Part(ds[i], "projection"), "unsupported_columns") \in {"", "reject", "omit"}
       /\ Text(Part(ds[i], "projection"), "named_schema_tables") \in {"", "reject", "warn_and_omit"}

CatalogParses(c) ==
  /\ Text(c, "name") # "" /\ CatalogShape(c) /\ CatalogDialect(c) # ""
  /\ ConnectionsParse(List(Part(c, "bindings"), "external_query_connections"))
  /\ DatasetsParse(List(Part(c, "bindings"), "spanner_external_datasets"))

-----------------------------------------------------------------------------
(* Queries *)

QueryTexts == {"sql", "table", "index", "binding", "inner_sql", "outer_sql", "order_by"}
Given(q) == {k \in QueryTexts : Text(q, k) # ""}
              \cup (IF List(q, "key_prefix") = <<>> THEN {} ELSE {"key_prefix"})

\* Mutant of KindTakes: a query with SQL of its own may choose an order too.
KindTakesOrder(kind) ==
  CASE kind = "sql" -> {"sql", "order_by"}
    [] kind \in {"table", "index"} -> {kind, "key_prefix", "order_by"}
    [] kind = "external_query" -> {"binding", "inner_sql", "outer_sql"}

\* Per kind the fields that a query must give and all it may give.
KindNeeds(kind) ==
  IF kind = "external_query" THEN {"binding", "inner_sql"} ELSE {kind}
KindTakes(kind) ==
  CASE kind = "sql" -> {"sql"}
    [] kind \in {"table", "index"} -> {kind, "key_prefix", "order_by"}
    [] kind = "external_query" -> {"binding", "inner_sql", "outer_sql"}
Kinds == {"sql", "table", "index", "external_query"}

QueryShape(q) ==
  LET result == Part(q, "result")
      kind   == Text(q, "kind")
  IN  /\ Text(q, "name") # "" /\ Text(q, "catalog") # ""
      /\ IdentifierReference(q.catalog) /\ IdentifierReference(Text(q, "binding"))
      /\ Text(result, "struct") # ""
      /\ Text(result, "cardinality") \in {"", "one", "maybe_one", "many"}
      /\ Text(Part(result, "required"), "policy") \in {"", "override", "strict"}
      /\ kind \in Kinds
      /\ KindNeeds(kind) \subseteq Given(q) /\ Given(q) \subseteq KindTakes(kind)

\* The connection a federated query names: a binding of its own catalog.
ConnectionsOf(f, q) ==
  {x \in UNION {Elements(Part(c, "bindings"), "external_query_connections") :
                  c \in {d \in Elements(f, "catalogs") : Text(d, "name") = Text(q, "catalog")}} :
     Text(x, "name") = Text(q, "binding")}

\* RawExternalQuery stands for SQL that calls EXTERNAL_QUERY itself.
RawExternalQuery == "EXTERNAL_QUERY("
QueryParses(f, q) ==
  /\ QueryShape(q)
  /\ Text(q, "sql") # RawExternalQuery
  /\ q.kind = "external_query" => ConnectionsOf(f, q) # {}

-----------------------------------------------------------------------------
(* Writes *)

AllNonKeyColumns == "auto_all_non_key_columns"

InsertColumns(w) == List(Part(w, "insert"), "columns")
UpdateColumns(w) == List(Part(w, "update"), "columns")
AllNonKey(w)     == Flag(Part(w, "update"), "all_non_key_columns")

WriteShape(w) ==
  LET inserts == InsertColumns(w) # <<>>
      listed  == UpdateColumns(w) # <<>>
      updates == listed \/ AllNonKey(w)
  IN  /\ Text(w, "catalog") # "" /\ IdentifierReference(w.catalog)
      /\ \/ Text(w, "operation") \in {"insert", "replace"} /\ inserts /\ ~updates
         \/ Text(w, "operation") = "update" /\ ~inserts /\ updates /\ ~(listed /\ AllNonKey(w))
         \/ Text(w, "operation") = "upsert" /\ inserts /\ listed /\ ~AllNonKey(w)
         \/ Text(w, "operation") = "delete" /\ ~inserts /\ ~updates

\* insert.columns names exactly the columns of key and of update, each once.
UpsertColumns(w) ==
  LET required == LowerSet(List(w, "key")) \cup LowerSet(UpdateColumns(w))
  IN  /\ LowerSet(InsertColumns(w)) = required
      /\ Cardinality(required) = Len(InsertColumns(w))

WriteParses(w) == WriteShape(w) /\ (w.operation = "upsert" => UpsertColumns(w))

WriteMethods(w, emit) ==
  SelectSeq(<<"mutation", "dml">>, LAMBDA m :
    \/ m = "mutation" /\ Flag(emit, "mutations")
    \/ m = "dml" /\ Flag(emit, "dml") /\ w.operation # "replace")

NormalWrite(w, emit) ==
  [name |-> Text(w, "name"), table |-> Text(w, "table"), input |-> Text(w, "input"),
   operation |-> IF w.operation = "upsert" THEN "insert_or_update" ELSE w.operation,
   keys |-> List(w, "key"), insert |-> InsertColumns(w),
   update |-> IF AllNonKey(w) THEN <<AllNonKeyColumns>> ELSE UpdateColumns(w),
   methods |-> WriteMethods(w, emit), explicit |-> TRUE]

-----------------------------------------------------------------------------
(* Suppressions, emit target and the file as a whole *)

\* The scope "kind/name" or "catalog-binding/catalog.binding", as its parts.
\* Only external datasets can be named as bindings of a catalog.
SuppressionResolves(f, s) ==
  LET scope == List(s, "scope")
  IN  /\ Len(scope) >= 2
      /\ \/ scope[1] = "query" /\ \E q \in Elements(f, "queries") : Text(q, "name") = scope[2]
         \/ scope[1] = "write" /\ \E w \in Elements(f, "writes") : Text(w, "name") = scope[2]
         \/ /\ scope[1] = "catalog-binding" /\ Len(scope) = 3
            /\ \E c \in Elements(f, "catalogs") :
                 /\ Text(c, "name") = scope[2]
                 /\ \E d \in Elements(Part(c, "bindings"), "spanner_external_datasets") :
                      Text(d, "name") = scope[3]

EmitTarget(emit) ==
  LET s == Part(emit, "spanner")
      b == Part(emit, "bigquery")
      spanner  == Flag(s, "mutations") \/ Flag(s, "dml")
      bigquery == Flag(b, "row_loader") \/ Flag(b, "table_schema")
  IN  IF spanner = bigquery THEN "both" ELSE IF spanner THEN "spanner" ELSE "bigquery"

Parses(f) ==
  /\ Text(f, "version") = "v1alpha" /\ ~EarlierKeys(f) /\ KnownKeys(f)
  /\ List(f, "catalogs") # <<>> /\ (List(f, "queries") # <<>> \/ List(f, "writes") # <<>>)
  /\ \A target \in DOMAIN Part(f, "emit") : ~Flag(f.emit[target], "query_methods")
  /\ UniqueNames(List(f, "catalogs")) /\ \A c \in Elements(f, "catalogs") : CatalogParses(c)
  /\ UniqueNames(List(f, "queries"))  /\ \A q \in Elements(f, "queries") : QueryParses(f, q)
  /\ UniqueNames(List(f, "writes"))   /\ \A w \in Elements(f, "writes") : WriteParses(w)
  /\ \A s \in Elements(Part(f, "rules"), "suppressions") : SuppressionResolves(f, s)

Normalized(f) ==
  [target |-> EmitTarget(Part(f, "emit")),
   dialects |-> [i \in DOMAIN f.catalogs |-> CatalogDialect(f.catalogs[i])],
   queries |-> List(f, "queries"),
   writes |-> [i \in DOMAIN List(f, "writes") |->
                 NormalWrite(f.writes[i], Part(Part(f, "emit"), "spanner"))]]

-----------------------------------------------------------------------------
(***************************************************************************)
(* The JSON Schema that config-schema publishes for the configuration file *)
(* (cmd/spanner-query-gen/config_schema.go), as the set of files it        *)
(* accepts.  Editors and CI use it in place of the parser, so the two must *)
(* accept the same files; nothing in the code derives one from the other.  *)
(***************************************************************************)

\* objectSchema: the keys there must be, and the keys there may be.
Object(o, required, properties) == required \subseteq DOMAIN o /\ DOMAIN o \subseteq properties

\* stringSchema, identifierSchema and enumSchema, of a key that is there.
HasText(o, k)       == k \in DOMAIN o => o[k] # ""
HasTexts(o, ks)     == \A k \in ks : HasText(o, k)
HasIdentifier(o, k) == k \in DOMAIN o => o[k] # "" /\ o[k] \notin NotIdentifiers
HasOneOf(o, k, values) == k \in DOMAIN o => o[k] \in values

\* arraySchema and stringArraySchema: some items, no two of them equal.
HasItems(o, k) == k \in DOMAIN o => o[k] # <<>> /\ IsInjective(o[k])
HasNames(o, k) == HasItems(o, k) /\ ("" \notin Elements(o, k))

\* A clause of a oneOf: the constant that selects it, what it asks for and what
\* it rules out.
AnyRequired(o, keys) == keys \cap DOMAIN o # {}
Clause(o, required, forbidden) == required \subseteq DOMAIN o /\ ~AnyRequired(o, forbidden)

-----------------------------------------------------------------------------
ConnectionValid(x) ==
  /\ Object(x, {"name", "id", "spanner_catalog"}, {"name", "id", "spanner_catalog"})
  /\ HasIdentifier(x, "name") /\ HasText(x, "id") /\ HasIdentifier(x, "spanner_catalog")

EvidenceValid(e) ==
  /\ Object(e, {"status", "verifier", "checked_at"}, {"status", "verifier", "checked_at"})
  /\ HasOneOf(e, "status", {"verified", "mismatch", "failed"}) /\ HasTexts(e, {"verifier", "checked_at"})

DatasetValid(d) ==
  LET access == Part(d, "access")
      policy == Part(d, "projection")
  IN  /\ Object(d, {"name", "dataset", "spanner_catalog"},
                {"name", "dataset", "spanner_catalog", "spanner_database_uri", "location",
                 "access", "projection"})
      /\ HasIdentifier(d, "name") /\ HasIdentifier(d, "spanner_catalog")
      /\ HasTexts(d, {"dataset", "spanner_database_uri", "location"})
      /\ Object(access, {}, {"cloud_resource_connection_id", "verification_evidence"})
      /\ HasText(access, "cloud_resource_connection_id")
      /\ "verification_evidence" \in DOMAIN access => EvidenceValid(access.verification_evidence)
      /\ Object(policy, {}, {"unsupported_columns", "named_schema_tables"})
      /\ HasOneOf(policy, "unsupported_columns", {"reject", "omit"})
      /\ HasOneOf(policy, "named_schema_tables", {"reject", "warn_and_omit"})

CatalogKindClause(c) ==
  \/ c.kind = "spanner" /\ Clause(c, {}, {"project", "bindings"})
  \/ c.kind = "bigquery" /\ Clause(c, {}, {"proto_descriptors"})

CatalogValid(c) ==
  LET b == Part(c, "bindings")
  IN  /\ Object(c, {"name", "kind"},
                {"name", "kind", "dialect", "project", "ddl", "proto_descriptors", "bindings"})
      /\ HasIdentifier(c, "name") /\ CatalogKindClause(c)
      /\ HasOneOf(c, "dialect", {"googlesql", "postgresql"})
      /\ HasTexts(c, {"project", "ddl"}) /\ HasNames(c, "proto_descriptors")
      /\ Object(b, {}, {"external_query_connections", "spanner_external_datasets"})
      /\ HasItems(b, "external_query_connections") /\ HasItems(b, "spanner_external_datasets")
      /\ \A x \in Elements(b, "external_query_connections") : ConnectionValid(x)
      /\ \A d \in Elements(b, "spanner_external_datasets") : DatasetValid(d)

-----------------------------------------------------------------------------
\* The keys query_param knows; the clauses of the regular kinds rule out scope.
ParamValid(p, kind) ==
  /\ Object(p, {"name", "type"}, {"name", "type", "scope"})
  /\ HasTexts(p, {"name", "type"}) /\ HasOneOf(p, "scope", {"inner", "outer"})
  /\ "scope" \in DOMAIN p => kind = "external_query"

\* Mutant of QueryKindClause: one that knows nothing of order_by.
QueryKindClauseAnyOrder(q) ==
  \/ q.kind = "sql" /\ Clause(q, {"sql"}, {"table", "index", "binding", "inner_sql", "outer_sql",
                                           "key_prefix"})
  \/ q.kind = "table" /\ Clause(q, {"table"}, {"sql", "index", "binding", "inner_sql", "outer_sql", "key_prefix"})
  \/ q.kind = "index" /\ Clause(q, {"index"}, {"sql", "table", "binding", "inner_sql", "outer_sql"})
  \/ q.kind = "external_query" /\ Clause(q, {"binding", "inner_sql"}, {"sql", "table", "index", "key_prefix"})

QueryKindClause(q) ==
  \/ q.kind = "sql" /\ Clause(q, {"sql"}, {"table", "index", "binding", "inner_sql", "outer_sql",
                                           "key_prefix", "order_by"})
  \/ q.kind = "table" /\ Clause(q, {"table"}, {"sql", "index", "binding", "inner_sql", "outer_sql", "key_prefix"})
  \/ q.kind = "index" /\ Clause(q, {"index"}, {"sql", "table", "binding", "inner_sql", "outer_sql"})
  \/ q.kind = "external_query" /\ Clause(q, {"binding", "inner_sql"},
                                         {"sql", "table", "index", "key_prefix", "order_by"})

ResultValid(r) ==
  LET required == Part(r, "required")
  IN  /\ Object(r, {"struct"}, {"cardinality", "struct", "required"})
      /\ HasText(r, "struct") /\ HasOneOf(r, "cardinality", {"one", "maybe_one", "many"})
      /\ Object(required, {}, {"policy", "fields"})
      /\ HasOneOf(required, "policy", {"override", "strict"}) /\ HasNames(required, "fields")

QueryValid(q) ==
  /\ Object(q, {"name", "catalog", "kind", "result"},
            {"name", "catalog", "kind", "sql", "table", "index", "binding", "inner_sql",
             "outer_sql", "key_prefix", "order_by", "result", "params"})
  /\ HasIdentifier(q, "name") /\ HasIdentifier(q, "catalog") /\ HasIdentifier(q, "binding")
  /\ HasTexts(q, {"sql", "table", "index", "inner_sql", "outer_sql"}) /\ HasNames(q, "key_prefix")
  /\ HasOneOf(q, "order_by", {"key", "none"})
  /\ QueryKindClause(q)
  /\ ResultValid(q.result)
  /\ HasItems(q, "params") /\ \A p \in Elements(q, "params") : ParamValid(p, q.kind)

-----------------------------------------------------------------------------
WriteOperationClause(w) ==
  LET insert == Part(w, "insert")
      update == Part(w, "update")
  IN  \/ /\ w.operation \in {"insert", "replace"} /\ Clause(w, {"insert"}, {"update"})
         /\ Clause(insert, {"columns"}, {})
      \/ /\ w.operation = "update" /\ Clause(w, {"update"}, {"insert"})
         /\ ("columns" \in DOMAIN update) # ("all_non_key_columns" \in DOMAIN update)
      \/ /\ w.operation = "upsert" /\ Clause(w, {"insert", "update"}, {})
         /\ Clause(insert, {"columns"}, {}) /\ Clause(update, {"columns"}, {"all_non_key_columns"})
      \/ w.operation = "delete" /\ Clause(w, {}, {"insert", "update"})

WriteValid(w) ==
  LET insert == Part(w, "insert")
      update == Part(w, "update")
  IN  /\ Object(w, {"name", "catalog", "table", "operation", "input"},
                {"name", "catalog", "table", "operation", "input", "key", "insert", "update"})
      /\ HasIdentifier(w, "name") /\ HasIdentifier(w, "catalog") /\ HasTexts(w, {"table", "input"})
      /\ HasNames(w, "key")
      /\ Object(insert, {}, {"columns"}) /\ HasNames(insert, "columns")
      /\ Object(update, {}, {"columns", "all_non_key_columns"}) /\ HasNames(update, "columns")
      /\ "all_non_key_columns" \in DOMAIN update => update.all_non_key_columns
      /\ WriteOperationClause(w)

SuppressionValid(s) ==
  /\ Object(s, {"scope", "rule", "reason"}, {"scope", "rule", "reason", "owner", "expires"})
  /\ Len(s.scope) >= 2 /\ s.scope[1] \in {"query", "write", "catalog-binding"}
  /\ HasTexts(s, {"rule", "reason", "owner", "expires"}) /\ Text(s, "expires") \notin NotDates

SchemaAccepts(f) ==
  LET go   == Part(f, "go")
      emit == Part(f, "emit")
  IN  /\ Object(f, {"version", "go", "catalogs"},
                {"version", "go", "emit", "catalogs", "queries", "writes", "rules"})
      /\ AnyRequired(f, {"queries", "writes"})
      /\ f.version = "v1alpha"
      /\ Object(go, {"package"}, {"package", "out"}) /\ HasTexts(go, {"package", "out"})
      /\ Object(emit, {}, {"spanner", "bigquery"})
      /\ Object(Part(emit, "spanner"), {}, {"mutations", "dml"})
      /\ Object(Part(emit, "bigquery"), {}, {"row_loader", "table_schema"})
      /\ HasItems(f, "catalogs") /\ \A c \in Elements(f, "catalogs") : CatalogValid(c)
      /\ HasItems(f, "queries") /\ \A q \in Elements(f, "queries") : QueryValid(q)
      /\ HasItems(f, "writes") /\ \A w \in Elements(f, "writes") : WriteValid(w)
      /\ Object(Part(f, "rules"), {}, {"suppressions"})
      /\ HasItems(Part(f, "rules"), "suppressions")
      /\ \A s \in Elements(Part(f, "rules"), "suppressions") : SuppressionValid(s)

-----------------------------------------------------------------------------
(* Comparing the two *)

\* What the schema leaves to planning by the README (172-180): uniqueness of
\* names, references to other objects and the columns of an upsert; and what no
\* schema can see, a call of EXTERNAL_QUERY inside SQL.
LeftToPlanning(f) ==
  \/ ~UniqueNames(f.catalogs) \/ ~UniqueNames(List(f, "queries")) \/ ~UniqueNames(List(f, "writes"))
  \/ \E c \in Elements(f, "catalogs") :
       LET cs == List(Part(c, "bindings"), "external_query_connections")
           ds == List(Part(c, "bindings"), "spanner_external_datasets")
       IN  \/ ~UniqueNames(cs) \/ ~UniqueNames(ds)
           \/ \E i, j \in DOMAIN cs : i # j /\ cs[i].id = cs[j].id
  \/ \E q \in Elements(f, "queries") :
       Text(q, "sql") = RawExternalQuery \/ (q.kind = "external_query" /\ ConnectionsOf(f, q) = {})
  \/ \E w \in Elements(f, "writes") : w.operation = "upsert" /\ ~UpsertColumns(w)
  \/ \E s \in Elements(Part(f, "rules"), "suppressions") : ~SuppressionResolves(f, s)

\* Where the two really differ.  The schema lets a BigQuery catalog ask for the
\* PostgreSQL dialect; it refuses key_prefix of a table query and the keys of
\* optional parameters, which the parser takes.
PostgreSQLBigQuery(f) ==
  \E c \in Elements(f, "catalogs") : Text(c, "kind") = "bigquery" /\ Text(c, "dialect") = "postgresql"
TableKeyPrefix(f) ==
  \E q \in Elements(f, "queries") : q.kind = "table" /\ "key_prefix" \in DOMAIN q
OptionalParams(f) ==
  \E q \in Elements(f, "queries") : \E p \in Elements(q, "params") :
    DOMAIN p \cap {"optional", "choices", "default"} # {}
\* Values the parser passes on: a query or dataset is refused for them when it is
\* resolved, and a suppression expires at no date.
PassedOn(f) ==
  \/ \E q \in Elements(f, "queries") :
       \/ Text(q, "order_by") \notin {"", "key", "none"}
       \/ \E p \in Elements(q, "params") :
            "scope" \in DOMAIN p /\ (q.kind # "external_query" \/ p.scope \notin {"inner", "outer"})
  \/ \E c \in Elements(f, "catalogs") : \E d \in Elements(Part(c, "bindings"), "spanner_external_datasets") :
       Text(Part(Part(d, "access"), "verification_evidence"), "status") \notin {"", "verified", "mismatch", "failed"}
  \/ \E s \in Elements(Part(f, "rules"), "suppressions") : Text(s, "expires") \in NotDates

\* For the parser a blank text, an empty list or mapping and a flag that is off are
\* as good as no key, and a list may repeat itself; to the schema they are mistakes.
TextKeys ==
  {"version", "package", "out", "name", "kind", "dialect", "project", "ddl", "id", "spanner_catalog", "dataset",
   "spanner_database_uri", "location", "cloud_resource_connection_id", "status", "verifier", "checked_at",
   "unsupported_columns", "named_schema_tables", "catalog", "order_by", "cardinality", "struct", "policy", "type",
   "table", "operation", "input", "rule", "reason", "owner", "expires"} \cup QueryTexts
NameKeys == {"proto_descriptors", "key_prefix", "fields", "key", "columns"}
ListKeys ==
  {"catalogs", "queries", "writes", "suppressions", "params", "external_query_connections", "spanner_external_datasets"}
Filled(o) ==
  /\ HasTexts(o, TextKeys)
  /\ \A k \in NameKeys : HasNames(o, k)
  /\ \A k \in ListKeys : HasItems(o, k)
  /\ \A k \in {"bindings", "insert", "update"} : k \in DOMAIN o => DOMAIN o[k] # {}
  /\ \A k \in {"all_non_key_columns", "query_methods"} : k \in DOMAIN o => o[k]

\* What only the schema requires of a binding, a query, a write: keys that the parser
\* does not miss.  The parts of a mapping are filled like the mapping itself.
EvidenceComplete(e) == Filled(e) /\ {"status", "verifier", "checked_at"} \subseteq DOMAIN e
DatasetComplete(d) ==
  LET access == Part(d, "access")
  IN  /\ Filled(d) /\ Filled(access) /\ Filled(Part(d, "projection"))
      /\ "verification_evidence" \in DOMAIN access => EvidenceComplete(access.verification_evidence)
CatalogComplete(c) ==
  LET b == Part(c, "bindings")
  IN  /\ Filled(c) /\ Filled(b)
      /\ \A x \in Elements(b, "external_query_connections") : Filled(x)
      /\ \A d \in Elements(b, "spanner_external_datasets") : DatasetComplete(d)
QueryComplete(q) ==
  /\ Filled(q) /\ Filled(Part(q, "result")) /\ Filled(Part(Part(q, "result"), "required"))
  /\ \A p \in Elements(q, "params") : Filled(p) /\ {"name", "type"} \subseteq DOMAIN p
WriteComplete(w) ==
  Filled(w) /\ Filled(Part(w, "insert")) /\ Filled(Part(w, "update")) /\ {"name", "table", "input"} \subseteq DOMAIN w
FileComplete(f) ==
  LET emit == Part(f, "emit")
  IN  /\ Filled(f) /\ "go" \in DOMAIN f /\ Filled(f.go) /\ "package" \in DOMAIN f.go
      /\ Filled(Part(emit, "spanner")) /\ Filled(Part(emit, "bigquery"))
      /\ \A c \in Elements(f, "catalogs") : CatalogComplete(c)
      /\ \A q \in Elements(f, "queries") : QueryComplete(q)
      /\ \A w \in Elements(f, "writes") : WriteComplete(w)
      /\ Filled(Part(f, "rules"))
      /\ \A s \in Elements(Part(f, "rules"), "suppressions") : Filled(s) /\ {"rule", "reason"} \subseteq DOMAIN s
=============================================================================
