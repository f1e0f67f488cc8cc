--------------------------- MODULE MCNativeCatalog ---------------------------
(***************************************************************************)
(* NativeCatalog on schemas of up to four tables added in every order, and *)
(* ViewResolution on every dependency graph of three views.  The two share *)
(* no state: a native catalog is built once the views of an example are    *)
(* through; next to all other view graphs there is an empty one at rest.    *)
(* TypeConversions is checked on the column types of MCTypes, one to a run. *)
(***************************************************************************)
EXTENDS NativeCatalog, ViewResolution, TypeConversions, DescriptorPool, TLC

VARIABLE ddlType  \* the declared type of a column, Untyped in most runs

MCViews  == {"a", "b", "c"}
MCSorted == <<"a", "b", "c">>
\* No ViewOrder, the six orders of the views, and two with a repeated and a
\* dropped key.
MCOrders ==
  {<<>>, <<"c", "a", "gone", "b", "a">>, <<"b", "b", "c", "a">>} \cup
  {o \in [1..3 -> MCViews] : \A v \in MCViews : \E i \in 1..3 : o[i] = v}

Spellings == {"T", "t", "U", "E", "W", "X", "Y", "s", "S", "f", "F", "q", "Q", "m", "M", "g", "G", "h",
              "id", "ID", "name", "tid", "uid", "secret", "L", "l", "Full", "name || name", "id + 1", "lost"}
MCLower == [n \in Spellings |->
  CASE n = "T" -> "t" [] n = "U" -> "u" [] n = "E" -> "e" [] n = "W" -> "w" [] n = "X" -> "x" [] n = "Y" -> "y"
    [] n = "S" -> "s" [] n = "F" -> "f" [] n = "Q" -> "q" [] n = "M" -> "m" [] n = "G" -> "g" [] n = "ID" -> "id"
    [] n = "L" -> "l" [] n = "Full" -> "full" [] OTHER -> n]
MCExpression == ("name || name" :> [reads |-> {"name"}, type |-> "string"])
                @@ ("id + 1" :> [reads |-> {"id"}, type |-> "int64"])

Column(n, type) == [name |-> n, type |-> type, hidden |-> FALSE]
Hidden(n) == [name |-> n, type |-> "string", hidden |-> TRUE]
TableOf(columns) == [columns |-> columns, primaryKey |-> <<columns[1].name>>, synonyms |-> << >>]
Named(columns, synonym) == [TableOf(columns) EXCEPT !.synonyms = <<synonym>>]
ViewOf(reading) == [columns |-> <<Column("id", "int64")>>, primaryKey |-> << >>, synonyms |-> << >>, reads |-> reading]

People == TableOf(<<Column("id", "int64"), Column("name", "string"), Hidden("secret")>>)
Numbered == TableOf(<<Column("id", "int64"), Column("name", "int64")>>)
Links == TableOf(<<Column("id", "int64"), Column("tid", "int64"), Column("uid", "int64")>>)
Broken == TableOf(<<Column("id", "unknown")>>)

Item(label, properties) == [label |-> label, properties |-> properties]
Node(n, alias, clause) == [name |-> n, alias |-> alias, keys |-> NoKeys, clause |-> clause]
Edge(n, from, to, clause) ==
  [name |-> n, alias |-> Nothing, clause |-> clause,
   keys |-> [own |-> <<"ID">>, source |-> Endpoint(<<"tid">>, from, << >>), destination |-> Endpoint(<<"uid">>, to, <<"id">>)]]
Graph(n, nodes, edges) == [name |-> n, nodes |-> nodes, edges |-> edges]
Everything == <<Item(Default, AllColumnsExcept(<< >>))>>
Names2 == <<Item("L", Derived(<< <<"name || name", "Full">>, <<"id", Nothing>> >>)),
            Item(Default, AllColumnsExcept(<<"ID">>))>>

Empty == [tables |-> << >>, views |-> << >>, sequences |-> {}, models |-> << >>, functions |-> << >>, graphs |-> << >>]
Tables3(t, u) == (<<"T">> :> t) @@ (<<"U">> :> u) @@ (<<"E">> :> Links)
With(tables, gs) == [Empty EXCEPT !.tables = tables, !.graphs = gs]
Two == Tables3(People, People)
Linked(from, to) == <<Edge("E", from, to, Everything)>>

GraphSchemas ==
  {With(Two, <<Graph("g", <<Node("T", Nothing, Everything), Node("U", Nothing, Names2)>>, Linked("T", "U"))>>),
   With(Tables3(People, Numbered), <<Graph("g", <<Node("T", Nothing, Everything), Node("U", Nothing, Everything)>>, << >>)>>),
   With(Tables3(People, Numbered), <<Graph("g", <<Node("T", Nothing, Everything), Node("U", Nothing, << >>)>>, Linked("T", "U"))>>),
   With(Two, <<Graph("g", <<Node("T", Nothing, <<Item("L", Derived(<< <<"id + 1", "Full">> >>))>>),
                            Node("U", Nothing, <<Item("l", Derived(<< <<"name || name", "Full">> >>))>>)>>, << >>)>>),
   \* Aliases: an endpoint finds the node under both its names.
   With(Two, <<Graph("g", <<Node("T", "U", Everything), Node("U", "W", Everything)>>, Linked("T", "U"))>>),
   With(Two, <<Graph("g", <<Node("T", "X", Everything)>>, Linked("X", "T"))>>),
   With(Two, <<Graph("g", <<Node("T", "X", Names2), Node("T", "Y", << >>)>>, Linked("T", "T"))>>),
   With(Two, <<Graph("g", <<Node("T", "U", << >>), Node("U", Nothing, << >>)>>, << >>)>>),
   \* An alias that is the name of another table, alone, before and after its node.
   With(Two, <<Graph("g", <<Node("T", "U", Everything)>>, Linked("U", "U"))>>),
   With(Two, <<Graph("g", <<Node("U", "W", Everything), Node("T", "U", Everything)>>, Linked("T", "U"))>>),
   \* What is missing: a table, a node, a column, an expression's column.
   With(Two, <<Graph("g", <<Node("W", Nothing, << >>)>>, << >>)>>),
   With(Two, <<Graph("g", <<Node("T", Nothing, << >>)>>, Linked("T", "U"))>>),
   With(Two, <<Graph("g", <<Node("T", Nothing, << >>)>>, <<Edge("U", "T", "T", << >>)>>)>>),
   With(Two, <<Graph("g", <<Node("E", Nothing, Names2)>>, << >>)>>),
   With(Two, <<Graph("g", <<Node("T", Nothing, <<Item(Default, Derived(<< <<"lost", "L">> >>))>>)>>, << >>)>>),
   \* The second graph fails, or its name differs in case only.
   With(Two, <<Graph("g", <<Node("T", Nothing, << >>)>>, << >>), Graph("h", <<Node("W", Nothing, << >>)>>, << >>)>>),
   With(Two, <<Graph("G", <<Node("T", Nothing, << >>)>>, << >>), Graph("g", <<Node("U", Nothing, << >>)>>, << >>)>>)}
OtherSchemas ==
  {[Empty EXCEPT !.tables = Two, !.views = (<<"W">> :> ViewOf({<<"s", "X">>})) @@ (<<"s", "X">> :> ViewOf({<<"T">>})),
                 !.sequences = {"q"}, !.models = ("m" :> People.columns), !.functions = (<<"s", "f">> :> {"int64"}),
                 !.graphs = <<Graph("g", <<Node("T", Nothing, Everything)>>, << >>)>>],
   [Empty EXCEPT !.tables = Two, !.views = (<<"W">> :> ViewOf({<<"X">>})) @@ (<<"X">> :> ViewOf({<<"W">>}))],
   [Empty EXCEPT !.tables = (<<"T">> :> People) @@ (<<"U">> :> Broken)],
   [Empty EXCEPT !.tables = (<<"T">> :> People) @@ (<<"t">> :> Numbered) @@ (<<"U">> :> People)],
   [Empty EXCEPT !.tables = (<<"T">> :> Named(People.columns, "Y")) @@ (<<"U">> :> People),
                 !.views = (<<"W">> :> ViewOf({<<"T">>, <<"U">>}))],
   [Empty EXCEPT !.tables = (<<"T">> :> Named(People.columns, "U")) @@ (<<"U">> :> People)],
   [Empty EXCEPT !.tables = (<<"T">> :> Named(People.columns, "Y")), !.graphs = <<Graph("g", <<Node("Y", Nothing, << >>)>>, << >>)>>],
   [Empty EXCEPT !.tables = (<<"T">> :> [People EXCEPT !.synonyms = <<"Y", "Y">>])],
   [Empty EXCEPT !.tables = (<<"s", "T">> :> People) @@ (<<"S", "U">> :> People)],
   [Empty EXCEPT !.tables = (<<"s", "T">> :> People), !.functions = (<<"S", "f">> :> {"int64"})],
   [Empty EXCEPT !.functions = (<<"f">> :> {"int64"}) @@ (<<"F">> :> {"string"})],
   [Empty EXCEPT !.functions = (<<"f">> :> {"unknown"})],
   [Empty EXCEPT !.sequences = {"q", "Q"}], [Empty EXCEPT !.models = ("m" :> Broken.columns)],
   [Empty EXCEPT !.models = ("m" :> << >>) @@ ("M" :> << >>)]}

\* A table of another schema, or a view of one, with the name of a node table.
MCSameLeaf ==
  {With((<<"T">> :> People) @@ (<<"s", "T">> :> Numbered), <<Graph("g", <<Node("T", Nothing, Everything)>>, << >>)>>)}

MCSchemas == {Empty} \cup GraphSchemas \cup OtherSchemas \cup MCSameLeaf

MCLeaves == {Leaf(code) : code \in Scalars \cup {"TOKENLIST"}}
            \cup {NamedLeaf("NAMED", n) : n \in {"UUID", "uuid", "p.Msg", "p.Color", "p.Other"}}
MCLists == {ArrayOf(t) : t \in MCLeaves}
MCStructs == {StructOf(<<[name |-> "a", type |-> t], [name |-> "b", type |-> u]>>) :
                t \in MCLeaves, u \in {Leaf("STRING"), ArrayOf(NamedLeaf("NAMED", "p.Color"))}}
MCTypes == MCLeaves \cup MCLists \cup MCStructs \cup {ArrayOf(t) : t \in MCStructs}

MCFile(n, imports, defines) ==
  [name |-> n, imports |-> imports, defines |-> defines, notes |-> Stripped, accepted |-> TRUE]
Commented(file) == [file EXCEPT !.notes = "line 1"]
MCFiles ==
  {MCFile("a", {}, {"p.Msg"}), Commented(MCFile("a", {}, {"p.Msg"})), MCFile("a", {"b"}, {"p.Msg"}),
   MCFile("b", {"a"}, {"p.Color"}), MCFile("c", {"b"}, {}), MCFile("d", {}, {"p.Msg"}),
   [MCFile("x", {"a"}, {}) EXCEPT !.accepted = FALSE], MCFile(Blank, {}, {}), Unreadable}
MCInputs == UNION {[1..n -> MCFiles] : n \in 0..3}

Example == reads = [v \in MCViews |-> {}] /\ keys = MCSorted
Untyped == Leaf("none")
BuildInit ==
  /\ Init /\ NativeInit
  /\ \/ Example /\ schema = Empty /\ ddlType = Untyped
     \/ /\ input = << >> /\ phase = "none"
        /\ \/ schema = Empty /\ ddlType = Untyped
           \/ Example /\ ddlType = Untyped
           \/ Example /\ schema = Empty /\ ddlType \in MCTypes
  /\ PoolInit
BuildNext ==
  /\ \/ Next /\ UNCHANGED <<poolVars, nativeVars>>
     \/ Example /\ pc = "ok" /\ PoolNext /\ UNCHANGED <<vars, nativeVars>>
     \/ Example /\ pc = "ok" /\ phase \in {"none", "built"} /\ NativeNext /\ UNCHANGED <<poolVars, vars>>
  /\ UNCHANGED ddlType
allVars == <<poolVars, vars, nativeVars, ddlType>>
BuildSpec ==
  BuildInit /\ [][BuildNext]_allVars /\ WF_vars(Next) /\ WF_poolVars(Example /\ pc = "ok" /\ PoolNext)
-----------------------------------------------------------------------------
(* Properties of the conversions, for a column of type ddlType *)

Returned(spec) == [name |-> "c", found |-> spec, type |-> ToGoogleSQL(spec, TRUE)]
Returns(kind, spec) == [kind |-> kind, returning |-> TRUE, columns |-> <<Returned(spec)>>]
RowTypeOf(spec) == RowField(Returned(spec))
Federates(type) == [kind |-> "query", columns |-> <<[name |-> "c", type |-> type]>>]
HasTokens(t) == Leaf("TOKENLIST") \in LeavesOf(t)
Flows(t) == Known(t) /\ ~HasTokens(t)

\* With descriptors loaded, a column whose type they know comes out of a query,
\* and out of what a change returns, as declared, wherever its proto or enum
\* stands in the type; without them a name other than UUID is refused.
ColumnTypesSurvive ==
  LET spec == ColumnSpec(ddlType, TRUE)
  IN  /\ Known(ddlType) => \A kind \in {"query", "insert", "update", "delete"} :
           RowType(Returns(kind, spec)) =
             IF HasTokens(ddlType) THEN Refused ELSE StructOf(<<[name |-> "c", type |-> Declared(ddlType)]>>)
      /\ ddlType # Untyped => (ToGoogleSQL(ColumnSpec(ddlType, FALSE), FALSE) = Refused
           <=> \E l \in LeavesOf(ddlType) : l.code = "NAMED" /\ l \notin UUIDs)

\* A view's column, typed from the row type of its query, has the type of the
\* column it selects, and gives the same rows.
ViewColumnsSurvive ==
  Flows(ddlType) =>
    LET spec == ColumnSpec(ddlType, TRUE)
        view == ToGoogleSQL(SpecFromPB(RowTypeOf(spec)), TRUE)
    IN  /\ view = ToGoogleSQL(spec, TRUE)
        /\ RowField([name |-> "c", found |-> NotFound, type |-> view]) = RowTypeOf(spec)

\* BigQuery sees a Spanner column alike whichever way it is read: through
\* EXTERNAL_QUERY as a function or rewritten, or in an external dataset.
FederatedTypesAgree ==
  Flows(ddlType) =>
    LET spec == ColumnSpec(ddlType, TRUE)
        pb   == RowTypeOf(spec)
    IN  /\ TableSchema(Federates(FunctionColumn(pb))) = TableSchema(Federates(RewrittenColumn(pb)))
        /\ TableSchema(Federates(FunctionColumn(pb))) = TableSchema(Federates(DatasetColumn(spec).type))
        /\ DatasetColumn(spec).text = BigQuerySQLType(pb)

\* The Go field of a federated column is the one the Spanner column gets, up to
\* FLOAT32, which BigQuery has not, and NULL elements, which it forbids.
FederatedFieldsAgree ==
  Flows(ddlType) =>
    LET pb    == RowTypeOf(ColumnSpec(ddlType, TRUE))
        field == BigQueryField(FunctionColumn(pb))
        here  == GoFieldFromSpanner(pb)
        there == GoFieldFromBigQuery(field)
        Wide(kind) == IF kind = "FLOAT32" THEN "FLOAT64" ELSE kind
    IN  field # NoField =>
          /\ Structs!CanonicalKind(there.kind) = Wide(here.kind)
          /\ there.repeated = here.repeated
          /\ there.nullable => here.nullable

\* The type of a key column, written into a query's parameter and read back, is
\* the column's own; only an ENUM is read as a message and refused.
KeyParametersKeepTypes ==
  Flows(ddlType) =>
    LET spec == ColumnSpec(ddlType, TRUE)
        text == TypeSQL(spec)
    IN  /\ SpannerParameter(text, TRUE) =
             IF LeavesOf(ddlType) \cap EnumLeaves # {} THEN Refused ELSE ToGoogleSQL(spec, TRUE)
        /\ BigQueryParameter(text) = ToGoogleSQL(ColumnSpec(ddlType, FALSE), FALSE)
        /\ SpannerTypeSQL(spec) = text

\* A type says the same wherever it is converted: of a column of a table or of a
\* view, of a federated column as BigQuery reads it, and of a key parameter.
TypesSurvive ==
  /\ ColumnTypesSurvive
  /\ ViewColumnsSurvive
  /\ FederatedTypesAgree
  /\ FederatedFieldsAgree
  /\ KeyParametersKeepTypes

\* Building comes to an end: the passes over the views and those over the
\* descriptor files, whatever reads or imports what, cycles included.
BuildEnds == Terminates /\ PoolEnds
==============================================================================
