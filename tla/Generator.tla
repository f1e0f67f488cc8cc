------------------------------ MODULE Generator ------------------------------
(***************************************************************************)
(* From a configuration to the generated Go file (internal/querygen):      *)
(* queries are resolved one after the other into result structs, writes    *)
(* are planned against them, every name the file will declare is claimed   *)
(* once, and the file is put together from pieces that were written by     *)
(* code that knows nothing of the claims.                                  *)
(*                                                                         *)
(* A query is [name, mode, bigquery, markers, nullIsNull, federated,       *)
(* params, struct, fields, required, policy]: fields is what the analyzer  *)
(* says the statement returns, markers that some parameter is optional.    *)
(***************************************************************************)
EXTENDS WriteSpecs

CONSTANT Packages \* configurations: [target, queries, writes, table]

VARIABLES
  package, \* the configuration
  stage,   \* queries, names, emit, done or refused
  structs, \* the structs of the query results so far, by name
  inputs,  \* the structs only writes use
  file     \* what the file declares, the members of its structs, its imports and their uses

generatorVars == <<package, stage, structs, inputs, file>>

-----------------------------------------------------------------------------
(* Queries *)

\* A DML statement that only counts rows has no result to read.
QueryFields(q) == IF q.mode = "row_count" /\ ~q.bigquery THEN <<>> ELSE ApplyRequired(q.fields, q.required)
QueryResolves(q) ==
  /\ q.mode \in {"one", "maybe_one", "many", "row_count", "row_set"}
  /\ q.markers => ~q.bigquery /\ q.mode # "row_count"
  /\ RequiredApplies(QueryFields(q), q.required, q.policy)
  /\ UniqueFieldNames(QueryFields(q))

SpannerRead(q) == ~q.bigquery /\ q.mode \in {"many", "one", "maybe_one"}
HasParams(q) == q.markers \/ q.params

\* The constants with the SQL; a query with markers has a function instead.
EndingInSQL(name) == IF Last(name) = "SQL" THEN name ELSE Append(name, "SQL")
SQLConstants(q) ==
  IF q.markers THEN <<>>
  ELSE IF q.federated THEN <<q.name \o <<"Spanner", "SQL">>, q.name \o <<"BigQuery", "SQL">>>>
  ELSE <<EndingInSQL(q.name)>>
Builder(q) == IF q.markers THEN <<<<"Build">> \o q.name \o <<"SQL">>, Append(q.name, "Params")>> ELSE <<>>

-----------------------------------------------------------------------------
(* Structs in Go *)

\* The declarations of a struct: its own and those of its STRUCT fields, each
\* with its members.
RECURSIVE StructTree(_, _, _, _)
StructTree(name, fields, target, methods) ==
  LET nested(i) == IF fields[i].kind = "STRUCT"
                   THEN StructTree(name \o Exported(fields[i].name, FieldFallback[i]),
                                   fields[i].fields, target, {})
                   ELSE <<>>
  IN  <<[name |-> name,
         members |-> GoFields(fields, Reservations(target, methods))
                       \o SetToSeq(methods) \o (IF target = "both" THEN <<<<"Load">>>> ELSE <<>>)]>>
      \o FlattenSeq([i \in DOMAIN fields |-> nested(i)])

Declared(s, target, writes) ==
  LET names == SetToSeq(DOMAIN s)
  IN  FlattenSeq([i \in DOMAIN names |->
                    StructTree(names[i], s[names[i]], target, ReceiverMethods(writes, names[i]))])

\* Mutant of FieldNeeds: the helper of a list needs no other.
RECURSIVE FieldNeedsAlone(_)
FieldNeedsAlone(f) ==
  IF f.kind = "STRUCT" THEN UNION {FieldNeedsAlone(g) : g \in ToSet(f.fields)}
  ELSE CASE f.nullable /\ f.repeated  -> {"NullValue", "NullValueList"}
         [] f.nullable /\ ~f.repeated -> {"NullValue"}
         [] ~f.nullable /\ f.repeated -> {"slice"}
         [] OTHER                     -> {"assign"}

\* The helpers that reading a field from BigQuery takes, in target both.
RECURSIVE FieldNeeds(_)
FieldNeeds(f) ==
  IF f.kind = "STRUCT" THEN UNION {FieldNeeds(g) : g \in ToSet(f.fields)}
  ELSE CASE f.nullable /\ f.repeated  -> {"NullValue", "NullValueList"}
         [] f.nullable /\ ~f.repeated -> {"NullValue"}
         [] ~f.nullable /\ f.repeated -> {"assign", "slice"}
         [] OTHER                     -> {"assign"}
Needs(s, target) ==
  IF target # "both" THEN {}
  ELSE UNION {FieldNeeds(f) : f \in UNION {ToSet(s[name]) : name \in DOMAIN s}}

\* The load helpers a Load method calls, by what the field is.
RECURSIVE FieldLoads(_)
FieldLoads(f) ==
  IF f.kind = "STRUCT" THEN UNION {FieldLoads(g) : g \in ToSet(f.fields)}
  ELSE {IF f.nullable THEN (IF f.repeated THEN <<"NullValueList">> ELSE <<"NullValue">>)
        ELSE (IF f.repeated THEN <<"loadBigQueryValueSlice">> ELSE <<"assignBigQueryValue">>)}
\* What those helpers call in turn.
HelperCalls == (<<"NullValueList">> :> {<<"NullValue">>})
                 @@ (<<"loadBigQueryValueSlice">> :> {<<"assignBigQueryValue">>})
Calls(h) == {h} \cup (IF h \in DOMAIN HelperCalls THEN HelperCalls[h] ELSE {})

-----------------------------------------------------------------------------
(* Names: what validateGeneratedPackageNamespace claims *)

SupportClaims(queries, s, target) ==
  LET needs == Needs(s, target)
  IN  (IF \E q \in ToSet(queries) : SpannerRead(q) THEN <<<<"SpannerQueryTransaction">>>> ELSE <<>>)
      \o (IF "NullValue" \in needs THEN <<<<"NullValue">>, <<"loadBigQueryNullValueSlice">>>> ELSE <<>>)
      \o (IF "NullValueList" \in needs THEN <<<<"NullValueList">>>> ELSE <<>>)
      \o (IF needs \cap {"assign", "NullValue"} # {} THEN <<<<"assignBigQueryValue">>>> ELSE <<>>)
      \o (IF "slice" \in needs THEN <<<<"loadBigQueryValueSlice">>>> ELSE <<>>)

\* Mutant of QueryClaims: the helper that collects all rows is not claimed.
QueryClaimsNoAll(q) == <<q.name>> \o SQLConstants(q) \o Builder(q)

QueryClaims(q) ==
  <<q.name>> \o (IF q.mode = "many" THEN <<Append(q.name, "All")>> ELSE <<>>)
    \o SQLConstants(q) \o Builder(q)
DMLConstants(w) == IF Contains(Methods(w), "dml") THEN <<Append(w.name, "DML")>> ELSE <<>>

\* claimNestedStructs: the names nested structs get, parent before child.
RECURSIVE NestedNames(_, _)
NestedNames(parent, fields) ==
  LET at(i) == parent \o Exported(fields[i].name, FieldFallback[i])
  IN  FlattenSeq([i \in DOMAIN fields |->
        IF fields[i].kind = "STRUCT" THEN <<at(i)>> \o NestedNames(at(i), fields[i].fields) ELSE <<>>])
NestedClaims(s) ==
  LET names == SetToSeq(DOMAIN s) IN FlattenSeq([i \in DOMAIN names |-> NestedNames(names[i], s[names[i]])])

\* Names claimed once each; those of the top-level structs may be claimed by
\* any number of queries and writes, and by nothing else.
SingleClaims(p, results, inputOnly) ==
  SupportClaims(p.queries, results, p.target)
    \o FlattenSeq([i \in DOMAIN p.queries |-> QueryClaims(p.queries[i])])
    \o NestedClaims(results)
    \o FlattenSeq([i \in DOMAIN p.writes |-> DMLConstants(p.writes[i])])
    \o NestedClaims(inputOnly)
MethodClaims(w) ==
  (IF Contains(Methods(w), "mutation") THEN <<<<w.input, Append(w.name, "Mutation")>>>> ELSE <<>>)
    \o (IF Contains(Methods(w), "dml") THEN <<<<w.input, Append(w.name, "DMLStatement")>>>> ELSE <<>>)
NamesClaimed(p, results, inputOnly) ==
  LET single == SingleClaims(p, results, inputOnly)
  IN  /\ IsInjective(single)
      /\ ToSet(single) \cap ({q.struct : q \in ToSet(p.queries)} \cup {w.input : w \in ToSet(p.writes)}) = {}
      /\ IsInjective(FlattenSeq([i \in DOMAIN p.writes |-> MethodClaims(p.writes[i])]))

-----------------------------------------------------------------------------
(* The file *)

\* The package that a Go type comes from, by kind, as the three tables of
\* gostruct.go have it; {} for a type of the language itself.  BigQuery has no
\* NULL elements, so there an array is made of plain types.
NullTypes ==
  [bigquery |-> {"BOOL", "INT64", "FLOAT32", "FLOAT64", "STRING", "TIMESTAMP", "DATE", "TIME",
                 "DATETIME", "JSON", "GEOGRAPHY"},
   spanner  |-> {"BOOL", "INT64", "FLOAT32", "FLOAT64", "STRING", "TIMESTAMP", "DATE", "JSON", "UUID"},
   both     |-> {}]
ClientTypes == [bigquery |-> {"RANGE"}, spanner |-> {"PROTO", "ENUM"}, both |-> {}]
CivilKinds(target) == IF target = "spanner" THEN {"DATE"} ELSE {"DATE", "TIME", "DATETIME"}
TypePackage(f, target) ==
  LET kind == CanonicalKind(f.kind)
      nullType == f.nullable /\ ~(f.repeated /\ target = "bigquery") /\ kind \in NullTypes[target]
  IN  CASE nullType \/ kind \in ClientTypes[target]    -> {target}
        [] ~nullType /\ kind = "TIMESTAMP"             -> {"time"}
        [] ~nullType /\ kind \in CivilKinds(target)    -> {"civil"}
        [] kind \in {"NUMERIC", "BIGNUMERIC"}          -> {"math/big"}
        [] OTHER                                       -> {}
RECURSIVE FieldPackages(_, _)
FieldPackages(f, target) ==
  IF f.kind = "STRUCT" THEN UNION {FieldPackages(g, target) : g \in ToSet(f.fields)}
  ELSE TypePackage(f, target)
TypePackages(s, target) == UNION {FieldPackages(f, target) : f \in UNION {ToSet(s[name]) : name \in DOMAIN s}}

DecodePackages == {"civil", "encoding/base64", "fmt", "math", "math/big", "strconv", "time"}
StructImports(s, target) ==
  LET needs == Needs(s, target)
  IN  TypePackages(s, target)
      \cup (IF target = "both" /\ \E name \in DOMAIN s : s[name] # <<>> THEN {"bigquery", "fmt"} ELSE {})
      \cup (IF "NullValue" \in needs THEN DecodePackages ELSE {})
      \cup (IF "NullValueList" \in needs THEN {"fmt", "structpb"} ELSE {})

\* Mutant of QueryImports: only the functions that loop import the iterator.
QueryImportsLoop(q) ==
  {"context", IF q.bigquery THEN "bigquery" ELSE "spanner"}
    \cup (IF q.mode = "many" THEN {"iterator"} ELSE {})
    \cup (IF q.mode \in {"one", "maybe_one"} THEN {"fmt"} ELSE {})

QueryImports(q) ==
  {"context", IF q.bigquery THEN "bigquery" ELSE "spanner"}
    \cup (IF q.mode \in {"many", "one", "maybe_one"} THEN {"iterator"} ELSE {})
    \cup (IF q.mode \in {"one", "maybe_one"} THEN {"fmt"} ELSE {})
BuilderImports(q) ==
  IF q.markers THEN {"sort", "strings"} \cup (IF q.nullIsNull THEN {"spanner"} ELSE {}) ELSE {}
WriteImports(s, writes) == IF writes = <<>> THEN {} ELSE {"spanner"} \cup TypePackages(s, "spanner")

\* What the text of the declarations refers to.
QueryUses(q) ==
  (CASE q.mode = "many" -> {"context", "iterator"}
     [] q.mode \in {"one", "maybe_one"} -> {"context", "iterator", "fmt"}
     [] ~q.bigquery /\ q.mode \in {"row_count", "row_set"} -> {"context"}
     [] OTHER -> {})
  \cup (IF q.bigquery /\ q.mode \in {"row_count", "row_set"} THEN {}
        ELSE {IF q.bigquery THEN "bigquery" ELSE "spanner"})
  \cup BuilderImports(q)
LoadUses(s, target) ==
  IF target = "both" /\ \E name \in DOMAIN s : s[name] # <<>> THEN {"bigquery", "fmt"} ELSE {}
SupportUses(s, target) ==
  LET loads == IF target = "both"
               THEN UNION {FieldLoads(f) : f \in UNION {ToSet(s[name]) : name \in DOMAIN s}} ELSE {}
  IN  (IF loads # {} THEN {"bigquery", "fmt"} ELSE {})
      \cup (IF \E h \in loads : <<"NullValue">> \in Calls(h) THEN DecodePackages ELSE {})
      \cup (IF <<"NullValueList">> \in loads THEN {"structpb"} ELSE {})
WriteUses(s, writes) ==
  TypePackages(s, "spanner") \cup (IF \E w \in ToSet(writes) : Methods(w) # <<>> THEN {"spanner"} ELSE {})

\* The helpers as they are written out: that of nullable values brings its
\* decoders along and the assignment of a single value.
EmittedSupport(queries, s, target) ==
  LET needs == Needs(s, target)
  IN  (IF \E q \in ToSet(queries) : SpannerRead(q) THEN <<<<"SpannerQueryTransaction">>>> ELSE <<>>)
      \o (IF "NullValue" \in needs
          THEN <<<<"NullValue">>, <<"decodeSpannerNullValue">>, <<"decodeSpannerFloat">>,
                 <<"loadBigQueryNullValueSlice">>, <<"assignBigQueryValue">>>> ELSE <<>>)
      \o (IF "NullValueList" \in needs THEN <<<<"NullValueList">>>> ELSE <<>>)
      \o (IF "assign" \in needs /\ "NullValue" \notin needs THEN <<<<"assignBigQueryValue">>>> ELSE <<>>)
      \o (IF "slice" \in needs THEN <<<<"loadBigQueryValueSlice">>>> ELSE <<>>)

NoFile == [declares |-> <<>>, structs |-> <<>>, helpers |-> {}, calls |-> {}, imports |-> {}, uses |-> {}]
FileOf(p, results, inputOnly) ==
  LET resultStructs == Declared(results, p.target, p.writes)
      inputStructs  == Declared(inputOnly, "spanner", p.writes)
      support       == EmittedSupport(p.queries, results, p.target)
      queries(F(_)) == UNION {F(q) : q \in ToSet(p.queries)}
  IN  [declares |->
         FlattenSeq([i \in DOMAIN p.queries |->
           SQLConstants(p.queries[i]) \o Builder(p.queries[i]) \o <<p.queries[i].name>>
             \o (IF p.queries[i].mode = "many" THEN <<Append(p.queries[i].name, "All")>> ELSE <<>>)])
         \o [i \in DOMAIN resultStructs |-> resultStructs[i].name]
         \o [i \in DOMAIN inputStructs |-> inputStructs[i].name]
         \o FlattenSeq([i \in DOMAIN p.writes |-> DMLConstants(p.writes[i])]) \o support,
       structs |-> resultStructs \o inputStructs,
       helpers |-> ToSet(support),
       calls |-> IF p.target # "both" THEN {}
                 ELSE UNION {Calls(h) : h \in UNION {FieldLoads(f) :
                               f \in UNION {ToSet(results[name]) : name \in DOMAIN results}}},
       imports |-> StructImports(results, p.target) \cup queries(QueryImports) \cup queries(BuilderImports)
                     \cup WriteImports(inputOnly, p.writes),
       uses |-> TypePackages(results, p.target) \cup LoadUses(results, p.target) \cup SupportUses(results, p.target)
                  \cup queries(QueryUses) \cup WriteUses(inputOnly, p.writes)]

-----------------------------------------------------------------------------
(* resolveQueryCodegen and GenerateQueryCode *)

GeneratorInit ==
  /\ package \in Packages
  /\ stage = [at |-> "queries", next |-> 1]
  /\ structs = <<>> /\ inputs = <<>> /\ file = NoFile

AtQuery == stage.at = "queries" /\ stage.next \in DOMAIN package.queries
NextQuery == package.queries[stage.next]
QueryFitsStruct(q) == QueryResolves(q) /\ Mergeable(StructOf(structs, q.struct), QueryFields(q))

ResolveQuery ==
  /\ AtQuery /\ QueryFitsStruct(NextQuery)
  /\ structs' = (NextQuery.struct :> Merge(StructOf(structs, NextQuery.struct), QueryFields(NextQuery))) @@ structs
  /\ stage' = [stage EXCEPT !.next = @ + 1]
  /\ UNCHANGED <<package, inputs, file>>

AtWrites == stage.at = "queries" /\ stage.next > Len(package.queries)
Take(plan) == structs' = plan.results /\ inputs' = plan.inputs
PlanWrites ==
  /\ AtWrites /\ WritesPlan(package.writes, package.table, structs)
  /\ Take(Planned(package.writes, package.table, structs))
  /\ stage' = [stage EXCEPT !.at = "names"]
  /\ UNCHANGED <<package, file>>

ClaimNames ==
  /\ stage.at = "names" /\ NamesClaimed(package, structs, inputs)
  /\ stage' = [stage EXCEPT !.at = "emit"]
  /\ UNCHANGED <<package, structs, inputs, file>>

Emit ==
  /\ stage.at = "emit"
  /\ file' = FileOf(package, structs, inputs)
  /\ stage' = [stage EXCEPT !.at = "done"]
  /\ UNCHANGED <<package, structs, inputs>>

Refuse ==
  /\ \/ AtQuery /\ ~QueryFitsStruct(NextQuery)
     \/ AtWrites /\ ~WritesPlan(package.writes, package.table, structs)
     \/ stage.at = "names" /\ ~NamesClaimed(package, structs, inputs)
  /\ stage' = [stage EXCEPT !.at = "refused"]
  /\ UNCHANGED <<package, structs, inputs, file>>

GeneratorNext == ResolveQuery \/ PlanWrites \/ ClaimNames \/ Emit \/ Refuse

-----------------------------------------------------------------------------
(***************************************************************************)
(* BuildQueryCodegenPlan: the plan that is published beside the generated  *)
(* file.  Both are made from the resolved configuration, each by code of   *)
(* its own.                                                                *)
(***************************************************************************)

\* Mutant of GoConstants: every query has one constant.
GoConstantsOne(q) == <<q.name>>

\* queryGoConstants
GoConstants(q) ==
  IF q.federated THEN <<q.name \o <<"Spanner", "SQL">>, q.name \o <<"BigQuery", "SQL">>>> ELSE <<q.name>>

\* Mutant of ServerSideEffects: an upsert is taken for the only update.
ServerSideEffectsUpsert(w, t) ==
  IF w.operation = "insert_or_update" /\ Updates(w, t) # <<>>
  THEN SelectSeq(NamesOf(SelectSeq(t.columns, LAMBDA c : c.onUpdate)), LAMBDA n : ~Has(Updates(w, t), n))
  ELSE <<>>

\* The columns that change with an update although it does not write them.
ServerSideEffects(w, t) ==
  IF w.operation \in {"update", "insert_or_update"} /\ Updates(w, t) # <<>>
  THEN SelectSeq(NamesOf(SelectSeq(t.columns, LAMBDA c : c.onUpdate)), LAMBDA n : ~Has(Updates(w, t), n))
  ELSE <<>>
Capabilities(t) ==
  [i \in DOMAIN t.columns |->
     [name |-> t.columns[i].name, nullable |-> ~t.columns[i].notNull, primaryKey |-> t.columns[i].key,
      insertValue |-> Insertable(t.columns[i]), updateValue |-> Updatable(t.columns[i])]]

RECURSIVE PlanFields(_)
PlanFields(fields) ==
  [i \in DOMAIN fields |->
     [name |-> fields[i].name, kind |-> fields[i].kind, repeated |-> fields[i].repeated, nullable |-> fields[i].nullable,
      fields |-> PlanFields(fields[i].fields)]]
PlannedRead(q) ==
  [name |-> q.name, result |-> q.mode, struct |-> q.struct, constants |-> GoConstants(q), fields |-> PlanFields(QueryFields(q))]
PlannedWrite(w, t) ==
  [name |-> w.name, operation |-> w.operation, input |-> w.input, keys |-> NamesOf(Keys(w, t)),
   insert |-> NamesOf(Inserts(w, t)), update |-> NamesOf(Updates(w, t)), methods |-> Methods(w), columns |-> Capabilities(t), effects |-> ServerSideEffects(w, t)]

\* results and inputOnly are the resolved structs.
PlanOf(p, results, inputOnly) ==
  [queries |-> [i \in DOMAIN p.queries |-> PlannedRead(p.queries[i])],
   writes  |-> [i \in DOMAIN p.writes |-> PlannedWrite(p.writes[i], p.table)],
   structs |-> [n \in DOMAIN results \cup DOMAIN inputOnly |-> PlanFields(IF n \in DOMAIN results THEN results[n] ELSE inputOnly[n])]]

-----------------------------------------------------------------------------
(* Properties of the plan of a package whose file is written *)

\* The constants it names are those of the file (a name gets its ending there);
\* so are the structs, and each field a result has is a field of its struct.
PlanNamesFile(p, results, inputOnly, f) ==
  LET plan == PlanOf(p, results, inputOnly)
      tops == {f.structs[i].name : i \in DOMAIN f.structs}
  IN  /\ \A i \in DOMAIN p.queries :
           ~p.queries[i].markers =>
             {EndingInSQL(c) : c \in ToSet(plan.queries[i].constants)} = ToSet(SQLConstants(p.queries[i]))
      /\ DOMAIN plan.structs \subseteq tops
      /\ \A q \in ToSet(plan.queries) :
           /\ q.struct \in DOMAIN plan.structs
           /\ \A x \in ToSet(q.fields) : HasField(plan.structs[q.struct], x.name)

\* What it says of a write is what its helpers do: they set nothing that the
\* plan calls unsettable, all they set is listed, and a column that Spanner
\* sets by itself is either set or listed as an effect.
PlanTellsWrites(p, results, inputOnly) ==
  \A i \in DOMAIN p.writes :
    LET w    == p.writes[i]
        t    == p.table
        plan == PlanOf(p, results, inputOnly).writes[i]
        set  == IF w.operation = "delete" THEN {} ELSE
                  {Lower(c.name) : c \in (IF Contains(Methods(w), "mutation") THEN ToSet(MutationColumns(w, t)) ELSE {})
                                            \cup (IF Contains(Methods(w), "dml") THEN ToSet(DMLWrites(w, t)) ELSE {})}
        settable(c) == IF w.operation = "update" THEN c.updateValue \/ c.primaryKey ELSE c.insertValue
    IN  /\ \A c \in ToSet(plan.columns) : Lower(c.name) \in set => settable(c)
        /\ set \subseteq LowerSet(plan.keys) \cup LowerSet(plan.insert) \cup LowerSet(plan.update)
        /\ w.operation = "update" =>
             LowerSet(plan.effects) = {Lower(c.name) : c \in {d \in ToSet(t.columns) : d.onUpdate}} \ set
=============================================================================
