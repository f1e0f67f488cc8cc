--------------------------- MODULE SchemaCatalog ----------------------------
(***************************************************************************)
(* The whole schema catalog: TableCatalog plus views, property graphs,     *)
(* sequences, models, remote functions and the proto bundle.  A script is  *)
(* any sequence of their statements; DDL the catalog ignores (schemas,     *)
(* roles, change streams, search and vector indexes, options) is a         *)
(* stuttering step.                                                        *)
(***************************************************************************)
EXTENDS TableCatalog

CONSTANTS
  Definitions,    \* bodies of graphs, models and functions the code accepts
  Rejected        \* a body a handler refuses

ASSUME ObjectsAssumption == Rejected \notin Definitions

VARIABLES
  views,       \* Catalog.Views: name -> query
  viewOrder,   \* Catalog.ViewOrder: names in order of creation
  graphs,      \* Catalog.PropertyGraphs: name -> definition
  sequences,   \* keys of Catalog.Sequences
  models,      \* Catalog.Models: name -> definition
  functions,   \* Catalog.Functions: name -> definition
  protoTypes   \* keys of Catalog.ProtoTypes

\* The rest of the script's vocabulary.
ViewNames     == words.viewNames      \* names of views, in the same name space as tables
Queries       == words.queries        \* view queries
GraphNames    == words.graphNames     \* keys of property graphs
SequenceNames == words.sequenceNames  \* keys of sequences
ModelNames    == words.modelNames     \* keys of models
FunctionNames == words.functionNames  \* keys of remote functions
ProtoNames    == words.protoNames     \* normalised names of PROTO BUNDLE types

viewVars   == <<views, viewOrder>>
objectVars == <<graphs, sequences, models, functions, protoTypes>>
vars       == <<words, tableVars, viewVars, objectVars>>

-----------------------------------------------------------------------------
(* CREATE VIEW and DROP VIEW *)

\* Mutant of CreateView: OR REPLACE moves the view to the end.
CreateViewMoves(n, orReplace, q) ==
  /\ Ready /\ n \notin DOMAIN tables /\ (n \in DOMAIN views => orReplace)
  /\ viewOrder' = Append(RemoveFirst(viewOrder, n), n)
  /\ views' = Keyed(views, n, q)
  /\ UNCHANGED <<tableVars, objectVars>>

\* A new name goes to the end of viewOrder; OR REPLACE keeps its place.
CreateView(n, orReplace, q) ==
  /\ Ready
  /\ \/ n \in DOMAIN tables /\ Reject /\ UNCHANGED viewVars
     \/ n \notin DOMAIN tables /\ n \in DOMAIN views /\ ~orReplace /\ Reject /\ UNCHANGED viewVars
     \/ /\ n \notin DOMAIN tables /\ (n \in DOMAIN views => orReplace)
        /\ viewOrder' = IF n \in DOMAIN views THEN viewOrder ELSE Append(viewOrder, n)
        /\ views' = Keyed(views, n, q)
        /\ UNCHANGED tableVars
  /\ UNCHANGED objectVars

\* Mutant of DropView: the name stays in viewOrder.
DropViewKeepsOrder(n) ==
  Ready /\ views' = Without(views, n) /\ UNCHANGED <<tableVars, viewOrder, objectVars>>

DropView(n) ==
  /\ Ready
  /\ views' = Without(views, n)
  /\ viewOrder' = RemoveFirst(viewOrder, n)
  /\ UNCHANGED <<tableVars, objectVars>>

-----------------------------------------------------------------------------
(* Property graphs, models and remote functions: a map of definitions *)

\* The new map after CREATE of key k; IF NOT EXISTS is looked at before
\* OR REPLACE, and both before the body.
Creatable(map, k, ifNotExists, orReplace) == k \in DOMAIN map => ifNotExists \/ orReplace
AfterCreate(map, k, ifNotExists, def) ==
  IF k \in DOMAIN map /\ ifNotExists THEN map ELSE Keyed(map, k, def)

\* Mutant of Accepted: the body is not looked at.
AcceptedAnyBody(map, k, ifNotExists, orReplace, def) == Creatable(map, k, ifNotExists, orReplace)

Accepted(map, k, ifNotExists, orReplace, def) ==
  /\ Creatable(map, k, ifNotExists, orReplace)
  /\ def = Rejected => k \in DOMAIN map /\ ifNotExists

CreatePropertyGraph(g, ifNotExists, orReplace, def) ==
  /\ Ready
  /\ \/ ~Accepted(graphs, g, ifNotExists, orReplace, def) /\ Reject /\ UNCHANGED graphs
     \/ /\ Accepted(graphs, g, ifNotExists, orReplace, def)
        /\ graphs' = AfterCreate(graphs, g, ifNotExists, def)
        /\ UNCHANGED tableVars
  /\ UNCHANGED <<viewVars, sequences, models, functions, protoTypes>>
DropPropertyGraph(g) ==
  /\ Ready
  /\ graphs' = Without(graphs, g)
  /\ UNCHANGED <<tableVars, viewVars, sequences, models, functions, protoTypes>>

CreateModel(m, ifNotExists, orReplace, def) ==
  /\ Ready
  /\ \/ ~Accepted(models, m, ifNotExists, orReplace, def) /\ Reject /\ UNCHANGED models
     \/ /\ Accepted(models, m, ifNotExists, orReplace, def)
        /\ models' = AfterCreate(models, m, ifNotExists, def)
        /\ UNCHANGED tableVars
  /\ UNCHANGED <<viewVars, graphs, sequences, functions, protoTypes>>
DropModel(m) ==
  /\ Ready
  /\ models' = Without(models, m)
  /\ UNCHANGED <<tableVars, viewVars, graphs, sequences, functions, protoTypes>>

\* Only remote functions with a return type and no parameter defaults.
CreateFunction(f, orReplace, def) ==
  /\ Ready
  /\ \/ ~Accepted(functions, f, FALSE, orReplace, def) /\ Reject /\ UNCHANGED functions
     \/ /\ Accepted(functions, f, FALSE, orReplace, def)
        /\ functions' = AfterCreate(functions, f, FALSE, def)
        /\ UNCHANGED tableVars
  /\ UNCHANGED <<viewVars, graphs, sequences, models, protoTypes>>
DropFunction(f) ==
  /\ Ready
  /\ functions' = Without(functions, f)
  /\ UNCHANGED <<tableVars, viewVars, graphs, sequences, models, protoTypes>>

-----------------------------------------------------------------------------
(* Sequences and the proto bundle *)

CreateSequence(s, ifNotExists) ==
  /\ Ready
  /\ \/ s \in sequences /\ ~ifNotExists /\ Reject /\ UNCHANGED sequences
     \/ /\ s \in sequences => ifNotExists
        /\ sequences' = sequences \cup {s}
        /\ UNCHANGED tableVars
  /\ UNCHANGED <<viewVars, graphs, models, functions, protoTypes>>
DropSequence(s) ==
  /\ Ready
  /\ sequences' = sequences \ {s}
  /\ UNCHANGED <<tableVars, viewVars, graphs, models, functions, protoTypes>>

\* CREATE replaces the bundle, ALTER inserts and updates before it deletes.
SetBundle(types) ==
  protoTypes' = types /\ UNCHANGED <<tableVars, viewVars, graphs, sequences, models, functions>>
CreateProtoBundle(types) == Ready /\ SetBundle(types)
AlterProtoBundle(insert, update, delete) ==
  Ready /\ SetBundle((protoTypes \cup insert \cup update) \ delete)
DropProtoBundle == Ready /\ SetBundle({})

-----------------------------------------------------------------------------
Init ==
  /\ TableInit
  /\ views = <<>> /\ viewOrder = <<>>
  /\ graphs = <<>> /\ sequences = {} /\ models = <<>> /\ functions = <<>> /\ protoTypes = {}

ViewStatement ==
  \E n \in ViewNames :
    DropView(n) \/ \E orReplace \in BOOLEAN, q \in Queries : CreateView(n, orReplace, q)

ObjectStatement ==
  \/ \E g \in GraphNames :
       \/ DropPropertyGraph(g)
       \/ \E ine, orr \in BOOLEAN, d \in Definitions \cup {Rejected} : CreatePropertyGraph(g, ine, orr, d)
  \/ \E m \in ModelNames :
       \/ DropModel(m)
       \/ \E ine, orr \in BOOLEAN, d \in Definitions \cup {Rejected} : CreateModel(m, ine, orr, d)
  \/ \E f \in FunctionNames :
       \/ DropFunction(f)
       \/ \E orr \in BOOLEAN, d \in Definitions \cup {Rejected} : CreateFunction(f, orr, d)
  \/ \E s \in SequenceNames : DropSequence(s) \/ \E ine \in BOOLEAN : CreateSequence(s, ine)
  \/ \E types \in SUBSET ProtoNames : CreateProtoBundle(types)
  \/ \E ins, upd, del \in SUBSET ProtoNames : AlterProtoBundle(ins, upd, del)
  \/ DropProtoBundle

Next ==
  /\ UNCHANGED words
  /\ \/ TableNext /\ UNCHANGED <<viewVars, objectVars>>
     \/ ViewStatement
     \/ ObjectStatement

Spec == Init /\ [][Next]_vars

-----------------------------------------------------------------------------
(* Properties *)

\* The shape of the objects other than tables.
ObjectTypeOK ==
  /\ DOMAIN views \subseteq ViewNames /\ \A n \in DOMAIN views : views[n] \in Queries
  /\ viewOrder \in Seq(ViewNames)
  /\ DOMAIN graphs \subseteq GraphNames /\ \A g \in DOMAIN graphs : graphs[g] \in Definitions
  /\ DOMAIN models \subseteq ModelNames /\ \A m \in DOMAIN models : models[m] \in Definitions
  /\ DOMAIN functions \subseteq FunctionNames
  /\ \A f \in DOMAIN functions : functions[f] \in Definitions
  /\ sequences \subseteq SequenceNames /\ protoTypes \subseteq ProtoNames

\* ViewOrder lists every view once and nothing else.  orderedViews takes the
\* views to register from it: a view missing there would silently not exist for
\* the analyzer, whatever creations, replacements and drops went before.
ViewOrderListsViews ==
  /\ Range(viewOrder) = DOMAIN views
  /\ \A i, j \in DOMAIN viewOrder : viewOrder[i] = viewOrder[j] => i = j

\* Views that stay keep their relative order and a new one comes after them, so
\* replacing a view does not move it behind the views that read it.
Before(order, a, b) == \E i, j \in DOMAIN order : i < j /\ order[i] = a /\ order[j] = b
ViewOrderIsSeniority ==
  [][\A a, b \in DOMAIN views' :
       a \in DOMAIN views /\ (b \in DOMAIN views => Before(viewOrder, a, b)) /\ a # b
         => Before(viewOrder', a, b)]_vars

\* The parts of the catalog fit together in every state: each has its type, no
\* name stands for two columns of a table, and the primary key is the same by
\* the flags of the columns and by the list.
SchemaInv == TableTypeOK /\ ColumnsDistinct /\ KeyFlagsAgree /\ ObjectTypeOK

\* No statement moves what it does not name: tables leave by their DROP alone,
\* indexes stay with their table through every rename, and the views that stay
\* keep the order in which they were created.
ObjectsKeepTheirPlace == TablesOnlyDropped /\ IndexesKeepTable /\ ViewOrderIsSeniority
=============================================================================
