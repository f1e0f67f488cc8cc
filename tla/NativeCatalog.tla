---------------------------- MODULE NativeCatalog ----------------------------
(***************************************************************************)
(* How BuildGoogleSQLCatalogFromSpannerCatalog turns a schema catalog into *)
(* the native catalog that the GoogleSQL analyzer reads: tables in the     *)
(* random order of a Go map, then sequences, models, functions, views and  *)
(* property graphs, the first failure discarding all of it.                *)
(*                                                                         *)
(* The native library is external.  It is taken to refuse a name that, but *)
(* for case, is in use in the same native catalog.                         *)
(***************************************************************************)
EXTENDS Naturals, Sequences, FiniteSets, SequencesExt, FiniteSetsExt

CONSTANTS
  Schemas,      \* schema catalogs, see SchemaShape
  LowerCase,    \* strings.ToLower, a function on the identifiers in use
  Convertible,  \* column types for which TypeSpecToGoogleSQLType succeeds
  Expression,   \* a derived expression |-> [reads: column names, type]
  Nothing       \* no alias, no endpoint, no table

\* A schema: tables and views by path (a sequence of identifiers), sequences,
\* models and functions, and its graphs, sorted by name as they are added.
ASSUME SchemaShape ==
  \A s \in Schemas :
    /\ DOMAIN s = {"tables", "views", "sequences", "models", "functions", "graphs"}
    /\ DOMAIN s.tables \cap DOMAIN s.views = {}
    /\ s.graphs \in Seq(ToSet(s.graphs))
    /\ \A g \in ToSet(s.graphs) :
         /\ g.nodes \in Seq(ToSet(g.nodes)) /\ g.edges \in Seq(ToSet(g.edges))
         /\ \A e \in ToSet(g.nodes) \cup ToSet(g.edges) : e.clause \in Seq(ToSet(e.clause))

VARIABLES
  schema,       \* the schema catalog (an input)
  stage,        \* "tables" .. "graphs", "built" or "failed"
  unregistered, \* paths of the stage's tables or views that are still to add
  catalogs,     \* simpleCatalogs: the paths of the native sub-catalogs
  registered,   \* the native tables: [path, table], table the schema's path
  tablesByName, \* GoogleSQLCatalog.tables: a path or leaf |-> the schema's path
  graphs        \* the native property graphs

nativeVars == <<schema, stage, unregistered, catalogs, registered, tablesByName, graphs>>

Alike(a, b) == LowerCase[a] = LowerCase[b]
\* No two names of the set S of paths are alike within one parent.
Distinguished(S) == \A p, q \in S : Front(p) = Front(q) /\ Alike(Last(p), Last(q)) => p = q
Parents(path) == {SubSeq(path, 1, i) : i \in 1..(Len(path) - 1)}

\* Table.Column: the index, or 0.
ColumnIndex(table, name) == SelectInSeq(table.columns, LAMBDA c : Alike(c.name, name))
HasColumns(table, names) == \A i \in DOMAIN names : ColumnIndex(table, names[i]) # 0
AllConvertible(columns) == \A i \in DOMAIN columns : columns[i].type \in Convertible

Relation(path) == IF path \in DOMAIN schema.tables THEN schema.tables[path] ELSE schema.views[path]

NativeInit ==
  /\ schema \in Schemas
  /\ stage = "tables" /\ unregistered = DOMAIN schema.tables
  /\ catalogs = {} /\ registered = {}
  /\ tablesByName = << >> /\ graphs = << >>
-----------------------------------------------------------------------------
(* Tables and views. *)

\* The synonyms of a table are native tables of the root.
NamesOf(path) == {path} \cup {<<Relation(path).synonyms[i]>> : i \in DOMAIN Relation(path).synonyms}
NativeNames == {r.path : r \in registered}
OwnNamesDiffer(path) ==
  LET synonyms == Relation(path).synonyms
  IN  IsInjective(synonyms) /\ \A i \in DOMAIN synonyms : <<synonyms[i]>> # path
Addable(path) ==
  /\ Distinguished(catalogs \cup Parents(path))
  /\ AllConvertible(Relation(path).columns)
  /\ OwnNamesDiffer(path)
  /\ Distinguished(NativeNames \cup NamesOf(path)) /\ NativeNames \cap NamesOf(path) = {}

\* Mutant of NeedsBorrowedTable: only a synonym makes a table borrowed.
NeedsBorrowedForSynonym(path) == Relation(path).synonyms # << >>
NeedsBorrowedTable(path) == schema.graphs # << >> \/ Relation(path).synonyms # << >>

\* addTable.
Register(path) ==
  /\ catalogs' = catalogs \cup Parents(path)
  /\ registered' = registered \cup {[path |-> n, table |-> path] : n \in NamesOf(path)}
  /\ tablesByName' = IF NeedsBorrowedTable(path)
                     THEN [n \in {path, <<Last(path)>>} \cup DOMAIN tablesByName |->
                             IF n \in {path, <<Last(path)>>} THEN path ELSE tablesByName[n]]
                     ELSE tablesByName
  /\ unregistered' = unregistered \ {path}

AddTable ==
  /\ stage = "tables"
  /\ \E path \in unregistered : Addable(path) /\ Register(path)
  /\ UNCHANGED <<schema, stage, graphs>>

Fail == stage' = "failed" /\ UNCHANGED <<schema, unregistered, catalogs, registered, tablesByName, graphs>>
AddTableFails == stage = "tables" /\ (\E path \in unregistered : ~Addable(path)) /\ Fail

\* addViews, as ViewFixpoint abstracts it: views whose reads are registered
\* are added in some order, and it fails when there is none left to add.
Registered == {r.table : r \in registered}
Ready == {v \in unregistered : schema.views[v].reads \subseteq Registered /\ Addable(v)}
AddView ==
  /\ stage = "views"
  /\ \E v \in Ready : Register(v)
  /\ UNCHANGED <<schema, stage, graphs>>
AddViewsFails == stage = "views" /\ unregistered # {} /\ Ready = {} /\ Fail
-----------------------------------------------------------------------------
(* Sequences, models and remote functions: sets of names, loops without      *)
(* memory, so that only the whole stage is a step.                           *)

NoTwins(names) == \A m, n \in names : Alike(m, n) => m = n
SequencesFit == NoTwins(schema.sequences)
ModelsFit == NoTwins(DOMAIN schema.models) /\ \A m \in DOMAIN schema.models : AllConvertible(schema.models[m])
FunctionParents == UNION {Parents(f) : f \in DOMAIN schema.functions}
FunctionsFit ==
  /\ Distinguished(DOMAIN schema.functions) /\ Distinguished(catalogs \cup FunctionParents)
  /\ \A f \in DOMAIN schema.functions : schema.functions[f] \subseteq Convertible

EndTables ==
  /\ stage = "tables" /\ unregistered = {}
  /\ stage' = "sequences"
  /\ UNCHANGED <<schema, unregistered, catalogs, registered, tablesByName, graphs>>
AddSequences ==
  \/ /\ stage = "sequences" /\ SequencesFit /\ stage' = "models"
     /\ UNCHANGED <<schema, unregistered, catalogs, registered, tablesByName, graphs>>
  \/ stage = "sequences" /\ ~SequencesFit /\ Fail
AddModels ==
  \/ /\ stage = "models" /\ ModelsFit /\ stage' = "functions"
     /\ UNCHANGED <<schema, unregistered, catalogs, registered, tablesByName, graphs>>
  \/ stage = "models" /\ ~ModelsFit /\ Fail
AddRemoteFunctions ==
  \/ /\ stage = "functions" /\ FunctionsFit
     /\ stage' = "views" /\ unregistered' = DOMAIN schema.views
     /\ catalogs' = catalogs \cup FunctionParents
     /\ UNCHANGED <<schema, registered, tablesByName, graphs>>
  \/ stage = "functions" /\ ~FunctionsFit /\ Fail
EndViews ==
  /\ stage = "views" /\ unregistered = {}
  /\ stage' = "graphs"
  /\ UNCHANGED <<schema, unregistered, catalogs, registered, tablesByName, graphs>>
-----------------------------------------------------------------------------
(* Property graph DDL.  A graph is [name, nodes, edges]; an element is       *)
(* [name, alias, keys, clause]: keys NoKeys, or its own key and for an edge  *)
(* SOURCE and DESTINATION; clause the sequence of its labels, each           *)
(* [label, properties], where no label is DEFAULT LABEL, and a lone          *)
(* PROPERTIES is a DEFAULT LABEL.                                            *)

Default == "default"
NoKeys == [own |-> << >>, source |-> Nothing, destination |-> Nothing]
Endpoint(columns, element, references) == [columns |-> columns, element |-> element, references |-> references]
NoProperties == [kind |-> "none"]
AllColumnsExcept(names) == [kind |-> "all", except |-> names]
\* A derived property is <<expression, alias>>, the alias Nothing.
Derived(list) == [kind |-> "derived", list |-> list]

\* graphPropertiesFromAST: a property without an alias is named by its text.
PropertiesFromDDL(p) ==
  IF p.kind # "derived" THEN p
  ELSE Derived([i \in DOMAIN p.list |->
                  [sql |-> p.list[i][1], name |-> IF p.list[i][2] = Nothing THEN p.list[i][1] ELSE p.list[i][2]]])
LabelFromDDL(item) ==
  [name |-> IF item.label = Default THEN "" ELSE item.label,
   default |-> item.label = Default, properties |-> PropertiesFromDDL(item.properties)]

\* graphElementFromAST, the whole of an element but its dynamic label and
\* dynamic properties, which are handed on unseen.
ElementFromDDL(e) ==
  LET labels == [i \in DOMAIN e.clause |-> LabelFromDDL(e.clause[i])]
  IN  [name |-> e.name, alias |-> e.alias, key |-> e.keys.own,
       source |-> e.keys.source, destination |-> e.keys.destination, labels |-> labels,
       properties |-> IF Len(labels) = 1 /\ labels[1].default THEN labels[1].properties ELSE NoProperties]
GraphFromDDL(g) ==
  [name |-> g.name, nodes |-> [i \in DOMAIN g.nodes |-> ElementFromDDL(g.nodes[i])],
   edges |-> [i \in DOMAIN g.edges |-> ElementFromDDL(g.edges[i])]]
-----------------------------------------------------------------------------
(* Building a graph: one element after the other is put into the state       *)
(* propertyGraphBuildState; the first that does not fit refuses the graph.   *)

ElementName(e) == IF e.alias # Nothing THEN e.alias ELSE e.name
Backing(e) == schema.tables[<<e.name>>]
KeyColumns(table, explicit) == IF explicit # << >> THEN explicit ELSE table.primaryKey
Indexes(table, names) == [i \in DOMAIN names |-> ColumnIndex(table, names[i])]
NewState == [declarations |-> << >>, labels |-> << >>, nodeTables |-> << >>]

LabelsOf(e) ==
  IF e.labels # << >> THEN e.labels
  ELSE <<[name |-> "", default |-> TRUE, properties |-> e.properties]>>
LabelKey(e, l) == LowerCase[IF LabelsOf(e)[l].default THEN ElementName(e) ELSE LabelsOf(e)[l].name]
LabelKeys(e) == {LabelKey(e, l) : l \in DOMAIN LabelsOf(e)}

\* derivedPropertyType asks the analyzer for SELECT (expression) FROM table.
Typeable(table, sql) ==
  \/ ColumnIndex(table, sql) # 0 /\ table.columns[ColumnIndex(table, sql)].type \in Convertible
  \/ /\ ColumnIndex(table, sql) = 0 /\ sql \in DOMAIN Expression
     /\ \A c \in Expression[sql].reads : ColumnIndex(table, c) # 0
TypeOf(table, sql) ==
  IF ColumnIndex(table, sql) # 0 THEN table.columns[ColumnIndex(table, sql)].type ELSE Expression[sql].type

\* propertyBindings: the properties of a label as [name, sql].
Exposed(table, except) ==
  SelectSeq(table.columns, LAMBDA c : ~c.hidden /\ \A i \in DOMAIN except : ~Alike(except[i], c.name))
Bindings(table, properties) ==
  CASE properties.kind = "all" ->
         LET columns == Exposed(table, properties.except)
         IN  [i \in DOMAIN columns |-> [name |-> columns[i].name, sql |-> columns[i].name]]
    [] properties.kind = "derived" -> properties.list
    [] OTHER -> << >>

\* What the labels of an element bind: all of it, what one label binds, and
\* the definitions, the first binding of every property.
BindingsOf(e, l) == Bindings(Backing(e), LabelsOf(e)[l].properties)
Uses(e) == UNION {ToSet(BindingsOf(e, l)) : l \in DOMAIN LabelsOf(e)}
Properties(e, l) == {LowerCase[b.name] : b \in ToSet(BindingsOf(e, l))}
Definitions(e) ==
  LET places == UNION {{<<l, i>> : i \in DOMAIN BindingsOf(e, l)} : l \in DOMAIN LabelsOf(e)}
      at(x) == BindingsOf(e, x[1])[x[2]]
      before(x, y) == x[1] < y[1] \/ (x[1] = y[1] /\ x[2] < y[2])
  IN  {[property |-> LowerCase[at(x).name], sql |-> at(x).sql] :
         x \in {x \in places : \A y \in places : before(y, x) => ~Alike(at(y).name, at(x).name)}}

\* propertyDeclaration: the first use of a property, but for case, gives its
\* type, and another use, of the same element or of one before it, must agree.
Agrees(s, e) ==
  LET type(b) == TypeOf(Backing(e), b.sql)
  IN  /\ \A b \in Uses(e) : Typeable(Backing(e), b.sql)
      /\ \A a, b \in Uses(e) : Alike(a.name, b.name) => type(a) = type(b)
      /\ \A b \in Uses(e) : LowerCase[b.name] \in DOMAIN s.declarations
                              => s.declarations[LowerCase[b.name]] = type(b)
Declare(s, e) ==
  [p \in DOMAIN s.declarations \cup {LowerCase[b.name] : b \in Uses(e)} |->
     IF p \in DOMAIN s.declarations THEN s.declarations[p]
     ELSE TypeOf(Backing(e), (CHOOSE b \in Uses(e) : LowerCase[b.name] = p).sql)]

\* label: shared with the elements that have had it before.
AddLabels(s, e) ==
  [k \in DOMAIN s.labels \cup LabelKeys(e) |->
     IF k \in DOMAIN s.labels THEN s.labels[k]
     ELSE Properties(e, CHOOSE l \in DOMAIN LabelsOf(e) : LabelKey(e, l) = k /\ \A m \in 1..(l - 1) : LabelKey(e, m) # k)]

\* nodeTableReference: the node by name or alias, the columns by the name of a table.
Reachable(s, e, endpoint) ==
  endpoint # Nothing =>
    /\ endpoint.element \in DOMAIN s.nodeTables
    /\ <<endpoint.element>> \in DOMAIN schema.tables
    /\ LET target == schema.tables[<<endpoint.element>>]
       IN  /\ HasColumns(Backing(e), endpoint.columns)
           /\ HasColumns(target, KeyColumns(target, endpoint.references))
Reference(s, e, endpoint) ==
  IF endpoint = Nothing THEN Nothing
  ELSE LET target == schema.tables[<<endpoint.element>>]
       IN  [node |-> s.nodeTables[endpoint.element], target |-> <<endpoint.element>>,
            columns |-> Indexes(Backing(e), endpoint.columns),
            references |-> Indexes(target, KeyColumns(target, endpoint.references))]

\* inputTable: the native table by the element's name.
Backed(e) == <<e.name>> \in DOMAIN schema.tables /\ <<e.name>> \in DOMAIN tablesByName
\* Mutant of InputTable: looked up under the name the element has in the graph.
InputTableByAlias(e) == tablesByName[IF <<ElementName(e)>> \in DOMAIN tablesByName THEN <<ElementName(e)>> ELSE <<e.name>>]
InputTable(e) == tablesByName[<<e.name>>]

\* Whether addNodeTable takes an element, and addEdgeTable.
FitsNode(s, e) ==
  /\ Backed(e) /\ HasColumns(Backing(e), KeyColumns(Backing(e), e.key))
  /\ Agrees(s, e)
FitsEdge(s, e) == FitsNode(s, e) /\ Reachable(s, e, e.source) /\ Reachable(s, e, e.destination)
\* Mutant of AddNodeTable: the first node of a name is kept.
AddNodeTableOnce(s, e, i) ==
  [declarations |-> Declare(s, e), labels |-> AddLabels(s, e),
   nodeTables |-> [n \in {ElementName(e), e.name} \cup DOMAIN s.nodeTables |->
                     IF n \in DOMAIN s.nodeTables THEN s.nodeTables[n] ELSE i]]
\* The i-th node table, found by the name of the element and by that of its table.
AddNodeTable(s, e, i) ==
  [declarations |-> Declare(s, e), labels |-> AddLabels(s, e),
   nodeTables |-> [n \in {ElementName(e), e.name} \cup DOMAIN s.nodeTables |->
                     IF n \in {ElementName(e), e.name} THEN i ELSE s.nodeTables[n]]]
AddEdgeTable(s, e) ==
  [declarations |-> Declare(s, e), labels |-> AddLabels(s, e), nodeTables |-> s.nodeTables]

\* The elements of a graph, nodes before edges.
Places(g) == 1..(Len(g.nodes) + Len(g.edges))
ElementAt(g, i) == IF i \in DOMAIN g.nodes THEN g.nodes[i] ELSE g.edges[i - Len(g.nodes)]
\* newGoogleSQLPropertyGraph: the state after every element, as long as all fit.
States(g) ==
  LET state[n \in {0} \cup Places(g)] ==
        IF n = 0 THEN NewState
        ELSE IF n \in DOMAIN g.nodes THEN AddNodeTable(state[n - 1], ElementAt(g, n), n)
        ELSE AddEdgeTable(state[n - 1], ElementAt(g, n))
  IN  state
Final(g) == States(g)[Len(g.nodes) + Len(g.edges)]
ElementFits(g, n) ==
  IF n \in DOMAIN g.nodes THEN FitsNode(States(g)[n - 1], ElementAt(g, n)) ELSE FitsEdge(States(g)[n - 1], ElementAt(g, n))

\* The native element, a node without endpoints.
Element(s, e, source, destination) ==
  [name |-> ElementName(e), over |-> <<e.name>>, input |-> InputTable(e),
   key |-> Indexes(Backing(e), KeyColumns(Backing(e), e.key)),
   labels |-> LabelKeys(e), definitions |-> Definitions(e),
   source |-> Reference(s, e, source), destination |-> Reference(s, e, destination)]
NodeElement(s, e) == Element(s, e, Nothing, Nothing)
EdgeElement(s, e) == Element(s, e, e.source, e.destination)

\* Mutant of Complete: declarations and labels are added before the edges.
CompleteNodesOnly(g) ==
  LET s == States(g)[Len(g.nodes)]
  IN  [name |-> g.name, declarations |-> s.declarations, labels |-> s.labels,
       nodes |-> [i \in DOMAIN g.nodes |-> NodeElement(Final(g), g.nodes[i])],
       edges |-> [i \in DOMAIN g.edges |-> EdgeElement(Final(g), g.edges[i])]]
\* The graph with all that its elements declared.
Complete(g) ==
  LET s == Final(g)
  IN  [name |-> g.name, declarations |-> s.declarations, labels |-> s.labels,
       nodes |-> [i \in DOMAIN g.nodes |-> NodeElement(s, g.nodes[i])],
       edges |-> [i \in DOMAIN g.edges |-> EdgeElement(s, g.edges[i])]]

NamesDiffer(g) == \A i, j \in Places(g) : Alike(ElementName(ElementAt(g, i)), ElementName(ElementAt(g, j))) => i = j
Accepted(g) == (\A n \in Places(g) : ElementFits(g, n)) /\ NamesDiffer(g)

\* addPropertyGraphs: the next graph by name.
AddPropertyGraph ==
  /\ stage = "graphs" /\ Len(graphs) < Len(schema.graphs)
  /\ LET g == GraphFromDDL(schema.graphs[Len(graphs) + 1])
         fits == Accepted(g) /\ \A i \in DOMAIN graphs : ~Alike(graphs[i].name, g.name)
     IN  \/ /\ fits /\ graphs' = Append(graphs, Complete(g))
            /\ UNCHANGED <<schema, stage, unregistered, catalogs, registered, tablesByName>>
         \/ ~fits /\ Fail
EndGraphs ==
  /\ stage = "graphs" /\ Len(graphs) = Len(schema.graphs)
  /\ stage' = "built"
  /\ UNCHANGED <<schema, unregistered, catalogs, registered, tablesByName, graphs>>

NativeNext ==
  \/ AddTable \/ AddTableFails \/ EndTables \/ AddSequences \/ AddModels \/ AddRemoteFunctions
  \/ AddView \/ AddViewsFails \/ EndViews \/ AddPropertyGraph \/ EndGraphs

NativeSpec == NativeInit /\ [][NativeNext]_nativeVars
-----------------------------------------------------------------------------
(* Properties *)

Elements(h) == {h.nodes[i] : i \in DOMAIN h.nodes} \cup {h.edges[i] : i \in DOMAIN h.edges}
Built == {graphs[i] : i \in DOMAIN graphs}

OwnTables(h) == \A e \in Elements(h) : e.input = e.over
EdgesMatch(h) ==
  \A e \in Elements(h) : \A r \in {e.source, e.destination} \ {Nothing} :
     \/ h.nodes[r.node].over = r.target
     \/ <<h.nodes[r.node].name>> = r.target /\ \A i \in DOMAIN h.nodes : h.nodes[i].over = r.target => i < r.node
Closed(h) ==
  \A e \in Elements(h) :
     /\ \A d \in e.definitions : d.property \in DOMAIN h.declarations
          /\ h.declarations[d.property] = TypeOf(schema.tables[e.over], d.sql)
     /\ e.labels \subseteq DOMAIN h.labels
     /\ \A l \in e.labels : h.labels[l] \subseteq DOMAIN h.declarations

\* An element of a graph is made of the native table of the schema's table that
\* the DDL names, in whatever order the tables were added (README.md:691: the
\* node and edge tables of the DDL are registered).
ElementsUseTheirTables == \A h \in Built : OwnTables(h)

\* An edge's columns are matched with columns of the very table under the node
\* that it reaches, although nodes are found by name or alias and columns by
\* the name of a table; only a node whose alias is the name of another table,
\* and that comes after all nodes of that table, hides them.
EdgesMatchTheirNodes == \A h \in Built : EdgesMatch(h)

\* All the elements of a graph agree on the type of a property, and all they
\* define or are labelled with belongs to the graph, what only an edge declares
\* included.
GraphsAreClosed == \A h \in Built : Closed(h)

\* What can be built at all, said of the schema and not of an order of steps.
SoundElement(e) ==
  /\ <<e.name>> \in DOMAIN schema.tables
  /\ HasColumns(Backing(e), KeyColumns(Backing(e), e.key))
  /\ \A b \in Uses(e) : Typeable(Backing(e), b.sql)
SameTypes(e, f) ==
  \A a \in Uses(e), b \in Uses(f) :
     Alike(a.name, b.name) => TypeOf(Backing(e), a.sql) = TypeOf(Backing(f), b.sql)
SoundEndpoint(g, e, endpoint) ==
  endpoint # Nothing =>
    /\ \E i \in DOMAIN g.nodes : endpoint.element \in {g.nodes[i].name, ElementName(g.nodes[i])}
    /\ <<endpoint.element>> \in DOMAIN schema.tables
    /\ HasColumns(Backing(e), endpoint.columns)
    /\ LET target == schema.tables[<<endpoint.element>>]
       IN  HasColumns(target, KeyColumns(target, endpoint.references))
SoundGraph(g) ==
  /\ \A i \in Places(g) : SoundElement(ElementAt(g, i))
  /\ \A i, j \in Places(g) : SameTypes(ElementAt(g, i), ElementAt(g, j))
  /\ \A i \in DOMAIN g.edges : \A endpoint \in {g.edges[i].source, g.edges[i].destination} :
        SoundEndpoint(g, g.edges[i], endpoint)
  /\ NamesDiffer(g)
Relations == DOMAIN schema.tables \cup DOMAIN schema.views
\* Of some views there is always one that reads none of them.
ViewsAreGrounded ==
  \A V \in SUBSET DOMAIN schema.views : V # {} => \E v \in V : schema.views[v].reads \subseteq Relations \ V
Sound ==
  /\ Distinguished(UNION {Parents(p) : p \in Relations \cup DOMAIN schema.functions})
  /\ Distinguished(UNION {NamesOf(p) : p \in Relations})
  /\ \A p, q \in Relations : p # q => NamesOf(p) \cap NamesOf(q) = {}
  /\ \A p \in Relations : AllConvertible(Relation(p).columns) /\ OwnNamesDiffer(p)
  /\ ViewsAreGrounded
  /\ SequencesFit /\ ModelsFit /\ Distinguished(DOMAIN schema.functions)
  /\ \A f \in DOMAIN schema.functions : schema.functions[f] \subseteq Convertible
  /\ \A i \in DOMAIN schema.graphs : SoundGraph(GraphFromDDL(schema.graphs[i]))
  /\ \A i, j \in DOMAIN schema.graphs : Alike(schema.graphs[i].name, schema.graphs[j].name) => i = j

\* The random order of the tables decides nothing: exactly the sound schemas
\* are built.
BuildsSoundSchemas == (stage = "built" => Sound) /\ (stage = "failed" => ~Sound)

\* What is built is the schema: exactly the sound schemas are built, and in what
\* is built every edge has the nodes and columns that its declaration names,
\* every graph all it refers to, and every element its own table, unless two
\* tables or views have the same last name.
LastNamesDiffer == \A p, q \in Relations : Last(p) = Last(q) => p = q
NativeCatalogIsSound ==
  /\ LastNamesDiffer => ElementsUseTheirTables
  /\ EdgesMatchTheirNodes
  /\ GraphsAreClosed
  /\ BuildsSoundSchemas
==============================================================================
