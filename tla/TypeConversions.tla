--------------------------- MODULE TypeConversions ---------------------------
(***************************************************************************)
(* The forms a type takes: DDL syntax, TypeSpec, GoogleSQL type, Spanner   *)
(* row type, BigQuery type and field, field of a Go struct.  All but the   *)
(* last two are trees of one shape,                                        *)
(*   [code, name]                a leaf, name that of a proto or enum      *)
(*   [code |-> "ARRAY", element], [code |-> "STRUCT", fields]              *)
(* and what fails to convert is Refused.  Lengths are left out: no form    *)
(* after TypeSpec has any.                                                 *)
(***************************************************************************)
EXTENDS Naturals, Sequences, FiniteSets

CONSTANTS
  Messages,  \* names of the messages in the loaded descriptors
  Enums      \* names of the enums there

Structs == INSTANCE ResultStructs WITH LowerOf <- << >>, ExportedOf <- << >>

Leaf(code) == [code |-> code, name |-> ""]
NamedLeaf(code, name) == [code |-> code, name |-> name]
ArrayOf(t) == [code |-> "ARRAY", element |-> t]
StructOf(fields) == [code |-> "STRUCT", fields |-> fields]
Refused == Leaf("refused")
IsLeaf(t) == t.code \notin {"ARRAY", "STRUCT"}

\* Every conversion goes through arrays and structs alike and is refused when
\* a part is.
Wrapped(t, element) == IF element = Refused THEN Refused ELSE ArrayOf(element)
WithTypes(fields, types) ==
  IF \E i \in DOMAIN types : types[i] = Refused THEN Refused
  ELSE StructOf([i \in DOMAIN fields |-> [name |-> fields[i].name, type |-> types[i]]])

Scalars == {"BOOL", "INT64", "FLOAT32", "FLOAT64", "STRING", "BYTES", "DATE", "TIMESTAMP", "NUMERIC", "JSON",
            "INTERVAL"}
-----------------------------------------------------------------------------
(* DDL and parameter types to TypeSpec; a sized type is its scalar.  A named *)
(* type is a path written out with dots, and UUID is one.                    *)

\* namedTypeToTypeSpec.
NamedSpec(name) == IF name \in {"UUID", "uuid"} THEN Leaf("UUID") ELSE NamedLeaf("PROTO", name)
\* scalarTypeToTypeSpec; TOKENLIST is a flag of the TypeSpec there.
ScalarSpec(code) == IF code \in Scalars \cup {"TOKENLIST"} THEN Leaf(code) ELSE Refused
LeafSpec(t) == IF t.code = "NAMED" THEN NamedSpec(t.name) ELSE ScalarSpec(t.code)
RECURSIVE TypeSpec(_)
TypeSpec(t) ==
  IF IsLeaf(t) THEN LeafSpec(t)
  ELSE IF t.code = "ARRAY" THEN Wrapped(t, TypeSpec(t.element))
  ELSE WithTypes(t.fields, [i \in DOMAIN t.fields |-> TypeSpec(t.fields[i].type)])

\* Mutant of ResolveCodes: the elements of arrays are left alone.
RECURSIVE ResolveTopCodes(_)
ResolveTopCodes(spec) ==
  IF IsLeaf(spec) THEN IF spec.code = "PROTO" /\ spec.name \in Enums THEN NamedLeaf("ENUM", spec.name) ELSE spec
  ELSE IF spec.code = "ARRAY" THEN spec
  ELSE StructOf([i \in DOMAIN spec.fields |-> [spec.fields[i] EXCEPT !.type = ResolveTopCodes(@)]])
\* resolveProtoTypeCode, over the columns of tables once descriptors are loaded.
RECURSIVE ResolveCodes(_)
ResolveCodes(spec) ==
  IF IsLeaf(spec) THEN IF spec.code = "PROTO" /\ spec.name \in Enums THEN NamedLeaf("ENUM", spec.name) ELSE spec
  ELSE IF spec.code = "ARRAY" THEN ArrayOf(ResolveCodes(spec.element))
  ELSE StructOf([i \in DOMAIN spec.fields |-> [spec.fields[i] EXCEPT !.type = ResolveCodes(@)]])
ColumnSpec(t, loaded) ==
  LET spec == TypeSpec(t) IN IF loaded /\ spec # Refused THEN ResolveCodes(spec) ELSE spec
-----------------------------------------------------------------------------
(* TypeSpec to GoogleSQL and Spanner row types, and back. *)

\* typeSpecToGoogleSQLTypeWithProto: without descriptors a message is refused
\* and an enum is an INT64.
LeafToGoogleSQL(spec, loaded) ==
  CASE spec.code = "FLOAT32" -> Leaf("FLOAT")
    [] spec.code = "FLOAT64" -> Leaf("DOUBLE")
    [] spec.code = "PROTO"   -> IF loaded /\ spec.name \in Messages THEN spec ELSE Refused
    [] spec.code = "ENUM"    -> IF ~loaded THEN Leaf("INT64") ELSE IF spec.name \in Enums THEN spec ELSE Refused
    [] OTHER                 -> spec
RECURSIVE ToGoogleSQL(_, _)
ToGoogleSQL(spec, loaded) ==
  IF IsLeaf(spec) THEN LeafToGoogleSQL(spec, loaded)
  ELSE IF spec.code = "ARRAY" THEN Wrapped(spec, ToGoogleSQL(spec.element, loaded))
  ELSE WithTypes(spec.fields, [i \in DOMAIN spec.fields |-> ToGoogleSQL(spec.fields[i].type, loaded)])

\* SpannerTypeFromGoogleSQLType.
LeafFromGoogleSQL(t) ==
  CASE t.code = "FLOAT"  -> Leaf("FLOAT32")
    [] t.code = "DOUBLE" -> Leaf("FLOAT64")
    [] t.code \in (Scalars \ {"FLOAT32", "FLOAT64"}) \cup {"UUID", "PROTO", "ENUM"} -> t
    [] OTHER -> Refused
RECURSIVE FromGoogleSQL(_)
FromGoogleSQL(t) ==
  IF IsLeaf(t) THEN LeafFromGoogleSQL(t)
  ELSE IF t.code = "ARRAY" THEN Wrapped(t, FromGoogleSQL(t.element))
  ELSE WithTypes(t.fields, [i \in DOMAIN t.fields |-> FromGoogleSQL(t.fields[i].type)])

\* TypeSpec.SpannerPB, and TypeSpecFromSpannerPB.
RECURSIVE SpannerPB(_)
SpannerPB(spec) ==
  IF IsLeaf(spec) THEN IF spec.code = "TOKENLIST" THEN Refused ELSE spec
  ELSE IF spec.code = "ARRAY" THEN Wrapped(spec, SpannerPB(spec.element))
  ELSE WithTypes(spec.fields, [i \in DOMAIN spec.fields |-> SpannerPB(spec.fields[i].type)])
\* Mutant of SpecFromPB: whatever has a name is a message.
RECURSIVE SpecOfMessages(_)
SpecOfMessages(pb) ==
  IF IsLeaf(pb) THEN IF pb.code = "ENUM" THEN NamedLeaf("PROTO", pb.name) ELSE pb
  ELSE IF pb.code = "ARRAY" THEN ArrayOf(SpecOfMessages(pb.element))
  ELSE StructOf([i \in DOMAIN pb.fields |-> [pb.fields[i] EXCEPT !.type = SpecOfMessages(@)]])
RECURSIVE SpecFromPB(_)
SpecFromPB(pb) ==
  IF IsLeaf(pb) THEN pb
  ELSE IF pb.code = "ARRAY" THEN ArrayOf(SpecFromPB(pb.element))
  ELSE StructOf([i \in DOMAIN pb.fields |-> [pb.fields[i] EXCEPT !.type = SpecFromPB(@)]])

\* A returned column [name, found, type]: its type is converted, but where the
\* schema has a table of the column's table name with a proto or an enum of
\* that name, that type is taken (directProtoColumnType).
NotFound == Leaf("none")
RowField(column) ==
  IF column.found.code \in {"PROTO", "ENUM"} THEN SpannerPB(column.found) ELSE FromGoogleSQL(column.type)
RowOf(columns) == WithTypes(columns, [i \in DOMAIN columns |-> RowField(columns[i])])

\* What RowTypeFromAnalyzerOutput makes of a statement [kind, returning, columns].
NoRowType == Leaf("no row type")
RowType(statement) ==
  IF statement.kind = "query" \/ (statement.kind \in {"insert", "update", "delete"} /\ statement.returning)
  THEN RowOf(statement.columns) ELSE NoRowType
-----------------------------------------------------------------------------
(* Text and back: typeSpecSQL writes the type of a key column into a query's *)
(* parameter, and ParseTypeSpec reads it.  The text is the syntax it parses  *)
(* to: a name in quotes is one identifier.                                   *)

\* Mutant of TypeSQL: a list is written as its element.
RECURSIVE TypeSQLFlat(_)
TypeSQLFlat(spec) ==
  CASE spec.code = "ARRAY" -> TypeSQLFlat(spec.element)
    [] spec.code = "STRUCT" -> StructOf([i \in DOMAIN spec.fields |-> [spec.fields[i] EXCEPT !.type = TypeSQLFlat(@)]])
    [] spec.code \in {"PROTO", "ENUM"} -> NamedLeaf("NAMED", spec.name)
    [] spec.code = "UUID" -> NamedLeaf("NAMED", "UUID")
    [] OTHER -> spec
RECURSIVE TypeSQL(_)
TypeSQL(spec) ==
  CASE spec.code = "ARRAY" -> ArrayOf(TypeSQL(spec.element))
    [] spec.code = "STRUCT" -> StructOf([i \in DOMAIN spec.fields |-> [spec.fields[i] EXCEPT !.type = TypeSQL(@)]])
    [] spec.code \in {"PROTO", "ENUM"} -> NamedLeaf("NAMED", spec.name)
    [] spec.code = "UUID" -> NamedLeaf("NAMED", "UUID")
    [] OTHER -> spec
\* The Spanner type the external dataset projection reports: a copy of TypeSQL.
SpannerTypeSQL(spec) == TypeSQL(spec)

\* typeToTypeSpec; what ParseType refuses, sizes among it, is read as the type of
\* a column, with the same result.
ParseTypeSpec(text) == TypeSpec(text)
\* A parameter of Spanner analyzers (AddQueryParameter), typed without
\* ResolveCodes, and of BigQuery analyzers, which have no descriptors.
SpannerParameter(text, loaded) == ToGoogleSQL(ParseTypeSpec(text), loaded)
BigQueryParameter(text) == ToGoogleSQL(ParseTypeSpec(text), FALSE)
-----------------------------------------------------------------------------
(* To BigQuery.  Only types that a Spanner column can have are followed.     *)

Federated == {"BOOL", "INT64", "FLOAT32", "FLOAT64", "TIMESTAMP", "DATE", "STRING", "BYTES", "NUMERIC", "JSON"}

\* bigQuerySQLTypeFromSpannerType; the text is the type it reads as.
RECURSIVE BigQuerySQLType(_)
BigQuerySQLType(pb) ==
  CASE pb.code = "FLOAT32" -> Leaf("FLOAT64")
    [] pb.code \in Federated \ {"FLOAT32"} -> pb
    [] pb.code = "ARRAY" -> Wrapped(pb, BigQuerySQLType(pb.element))
    [] OTHER -> Refused

\* EXTERNAL_QUERY of a column: by its own table-valued function, or rewritten to
\* an empty subquery of casts.
FunctionColumn(pb) ==
  IF BigQuerySQLType(pb) = Refused THEN Refused ELSE ToGoogleSQL(SpecFromPB(pb), FALSE)
RewrittenColumn(pb) ==
  IF BigQuerySQLType(pb) = Refused THEN Refused ELSE ToGoogleSQL(BigQuerySQLType(pb), FALSE)

\* Mutant of DatasetColumn: FLOAT32 is not listed.
RECURSIVE DatasetColumnOf64(_)
DatasetColumnOf64(spec) ==
  IF spec.code = "ARRAY"
  THEN LET element == DatasetColumnOf64(spec.element)
       IN  [type |-> Wrapped(spec, element.type), text |-> Wrapped(spec, element.text)]
  ELSE IF spec.code \notin Federated \ {"FLOAT32"} THEN [type |-> Refused, text |-> Refused]
  ELSE IF spec.code = "FLOAT64" THEN [type |-> Leaf("DOUBLE"), text |-> Leaf("FLOAT64")]
  ELSE [type |-> spec, text |-> spec]
\* A column of a Spanner external dataset, its GoogleSQL and BigQuery types
\* (spannerExternalDatasetType); what is Refused is left out as unsupported.
RECURSIVE DatasetColumn(_)
DatasetColumn(spec) ==
  IF spec.code = "ARRAY"
  THEN LET element == DatasetColumn(spec.element)
       IN  [type |-> Wrapped(spec, element.type), text |-> Wrapped(spec, element.text)]
  ELSE IF spec.code \notin Federated THEN [type |-> Refused, text |-> Refused]
  ELSE IF spec.code \in {"FLOAT32", "FLOAT64"} THEN [type |-> Leaf("DOUBLE"), text |-> Leaf("FLOAT64")]
  ELSE [type |-> spec, text |-> spec]

\* The fields of a BigQuery table schema.
Nullable(type) == [name |-> "", type |-> type, mode |-> "NULLABLE", fields |-> << >>]
NoField == Nullable("refused")
FieldTypes == [BOOL |-> "BOOLEAN", INT64 |-> "INTEGER", FLOAT |-> "FLOAT", DOUBLE |-> "FLOAT",
               STRING |-> "STRING", BYTES |-> "BYTES", TIMESTAMP |-> "TIMESTAMP", DATE |-> "DATE",
               NUMERIC |-> "NUMERIC", JSON |-> "JSON"]
\* Mutant of BigQueryField: the field of a list is that of its elements.
RECURSIVE FieldOfElements(_)
FieldOfElements(t) ==
  CASE t.code = "ARRAY" -> FieldOfElements(t.element)
    [] t.code = "STRUCT" ->
         LET fields == [i \in DOMAIN t.fields |-> [FieldOfElements(t.fields[i].type) EXCEPT !.name = t.fields[i].name]]
         IN  IF \E i \in DOMAIN fields : fields[i].type = "refused" THEN NoField
             ELSE [Nullable("RECORD") EXCEPT !.fields = fields]
    [] t.code \in DOMAIN FieldTypes -> Nullable(FieldTypes[t.code])
    [] OTHER -> NoField
RECURSIVE BigQueryField(_)
BigQueryField(t) ==
  CASE t.code = "ARRAY" ->
         LET field == BigQueryField(t.element) IN IF field = NoField THEN NoField ELSE [field EXCEPT !.mode = "REPEATED"]
    [] t.code = "STRUCT" ->
         LET fields == [i \in DOMAIN t.fields |-> [BigQueryField(t.fields[i].type) EXCEPT !.name = t.fields[i].name]]
         IN  IF \E i \in DOMAIN fields : fields[i].type = "refused" THEN NoField
             ELSE [Nullable("RECORD") EXCEPT !.fields = fields]
    [] t.code \in DOMAIN FieldTypes -> Nullable(FieldTypes[t.code])
    [] OTHER -> NoField
\* BigQueryTableSchemaFromAnalyzerOutput: only a query has a schema.
TableSchema(statement) ==
  IF statement.kind = "query"
  THEN LET fields == BigQueryField(StructOf(statement.columns)) IN IF fields = NoField THEN << >> ELSE fields.fields
  ELSE << >>
-----------------------------------------------------------------------------
(* To the fields of Go structs *)

GoField(kind) == [name |-> "", kind |-> kind, repeated |-> FALSE, nullable |-> TRUE, fields |-> << >>]
\* goResultFieldFromSpanner: nullable stays that of the elements of a list.
RECURSIVE GoFieldFromSpanner(_)
GoFieldFromSpanner(pb) ==
  CASE pb.code = "ARRAY" -> [GoFieldFromSpanner(pb.element) EXCEPT !.repeated = TRUE]
    [] pb.code = "STRUCT" ->
         [GoField("STRUCT") EXCEPT !.fields =
            [i \in DOMAIN pb.fields |-> [GoFieldFromSpanner(pb.fields[i].type) EXCEPT !.name = pb.fields[i].name]]]
    [] OTHER -> GoField(pb.code)
\* goResultFieldFromBigQuery.
RECURSIVE GoFieldFromBigQuery(_)
GoFieldFromBigQuery(field) ==
  [name |-> field.name, kind |-> IF field.type = "RECORD" THEN "STRUCT" ELSE field.type,
   repeated |-> field.mode = "REPEATED", nullable |-> field.mode \notin {"REQUIRED", "REPEATED"},
   fields |-> [i \in DOMAIN field.fields |-> GoFieldFromBigQuery(field.fields[i])]]
-----------------------------------------------------------------------------
(* What is declared, in its own words *)

RECURSIVE LeavesOf(_)
LeavesOf(t) ==
  IF IsLeaf(t) THEN {t}
  ELSE IF t.code = "ARRAY" THEN LeavesOf(t.element)
  ELSE UNION {LeavesOf(t.fields[i].type) : i \in DOMAIN t.fields}
UUIDs == {NamedLeaf("NAMED", "UUID"), NamedLeaf("NAMED", "uuid")}
EnumLeaves == {NamedLeaf("NAMED", e) : e \in Enums}
MessageLeaves == {NamedLeaf("NAMED", m) : m \in Messages}
\* A DDL type the descriptors know all names of.
Known(t) == LeavesOf(t) \subseteq
  {Leaf(code) : code \in Scalars \cup {"TOKENLIST"}} \cup UUIDs \cup EnumLeaves \cup MessageLeaves
\* The type of the rows such a column gives; a TOKENLIST has none.
RECURSIVE Declared(_)
Declared(t) ==
  CASE t \in UUIDs -> Leaf("UUID")
    [] t \in EnumLeaves -> NamedLeaf("ENUM", t.name)
    [] t \in MessageLeaves -> NamedLeaf("PROTO", t.name)
    [] t.code = "ARRAY" -> ArrayOf(Declared(t.element))
    [] t.code = "STRUCT" -> StructOf([i \in DOMAIN t.fields |-> [t.fields[i] EXCEPT !.type = Declared(@)]])
    [] OTHER -> t
==============================================================================
