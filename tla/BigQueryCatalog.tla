---------------------------- MODULE BigQueryCatalog ----------------------------
(* The BigQuery catalog of bigquery.go: built from a DDL script by applyDDL,   *)
(* then extended, call by call, with the projections of Spanner external      *)
(* datasets.  A projection is staged off-catalog, table after table, and      *)
(* published only when every check has passed.                                *)
(*                                                                            *)
(* The native catalog (googlesql.SimpleCatalog) is outside src/: it is a tree *)
(* of namespaces holding tables, it looks names up without regard to case,    *)
(* and nothing is known of what it does when it is given a name it holds.     *)
EXTENDS Naturals, Functions, ExternalDatasets

CONSTANTS Scripts,          \* the DDL scripts a catalog may be built from
          Requests,         \* the AddSpannerExternalDataset calls that may be made
          CallerNamespaces, \* namespaces a caller may install on its own
          MaxDatasets       \* bound: projections registered in one catalog

VARIABLES phase,       \* "ddl", "ready", "staging" or "failed"
          todo,        \* statements of the script still to be applied
          failure,     \* why building from DDL stopped
          namespaces,  \* the native namespaces, each by the path it was made under
          tables,      \* the native tables: [in, name, table]
          cache,       \* simpleCatalogs: dotted path |-> namespace
          bindings,    \* spannerExternalDatasetBindings
          stage,       \* the staged projection, None outside a call
          decided      \* the last call that returned, and whether it was accepted

catalogVars == <<phase, todo, failure, namespaces, tables, cache, bindings, stage, decided>>

Root == << >>
Assign(f, key, value) == [k \in DOMAIN f \cup {key} |-> IF k = key THEN value ELSE f[k]]
Prefix(path, i) == SubSeq(path, 1, i)

(* Statements declare paths, and every other argument is a name or made of    *)
(* names.                                                                     *)
Statements == [kind : STRING, path : Paths \ {Root}, columns : SUBSET Idents]
ASSUME InputsAssumption ==
    /\ Scripts \subseteq Seq(Statements)
    /\ Requests \subseteq RequestForms
    /\ CallerNamespaces \subseteq Names
    /\ MaxDatasets \in Nat

HasNamespace(nss, parent, name) == \E n \in nss : Front(n) = parent /\ Same(Last(n), name)
HasTable(parent, name) == \E t \in tables : t.in = parent /\ Same(t.name, name)

CatalogInit ==
    /\ phase = "ddl"
    /\ todo \in Scripts
    /\ failure = None
    /\ namespaces = {} /\ tables = {} /\ bindings = << >>
    /\ cache = [k \in {Dotted(Root)} |-> Root]
    /\ stage = None /\ decided = None
------------------------------------------------------------------------------
(* Building from DDL. *)

(* Mutant of EnterNamespace: keyed by the last name alone, not by the path. *)
EnterNamespaceByName(s, path, i) ==
    LET key == path[i]
        made == Append(s.at, path[i])
    IN  IF key \in DOMAIN s.cache THEN [s EXCEPT !.at = s.cache[key]]
        ELSE [at |-> made, namespaces |-> s.namespaces \cup {made}, cache |-> Assign(s.cache, key, made),
              taken |-> s.taken \/ HasNamespace(s.namespaces, s.at, path[i])]

(* simpleCatalogForObjectName: one level of the walk.  The cache is asked for *)
(* the exact dotted path; what it lacks is made under the level before.       *)
EnterNamespace(s, path, i) ==
    LET key == Dotted(Prefix(path, i))
        made == Append(s.at, path[i])
    IN  IF key \in DOMAIN s.cache THEN [s EXCEPT !.at = s.cache[key]]
        ELSE [at |-> made, namespaces |-> s.namespaces \cup {made}, cache |-> Assign(s.cache, key, made),
              taken |-> s.taken \/ HasNamespace(s.namespaces, s.at, path[i])]
NamespaceFor(path) ==
    LET level[i \in 0 .. Len(path) - 1] ==
            IF i = 0 THEN [at |-> Root, namespaces |-> namespaces, cache |-> cache, taken |-> FALSE]
            ELSE EnterNamespace(level[i - 1], path, i)
    IN  level[Len(path) - 1]

Registers == {"table", "table as select", "external table", "view"}
Ignores == {"snapshot", "table function", "export", "procedure", "execute immediate", "schema", "index"}

CreateRelation ==
    /\ phase = "ddl" /\ todo # << >> /\ Head(todo).kind \in Registers
    /\ LET path == Head(todo).path
           place == NamespaceFor(path)
       IN  /\ ~place.taken /\ ~HasTable(place.at, Last(path))
           /\ namespaces' = place.namespaces
           /\ cache' = place.cache
           /\ tables' = tables \cup {[in |-> place.at, name |-> Last(path),
                                      table |-> [full |-> path, columns |-> Head(todo).columns]]}
    /\ todo' = Tail(todo)
    /\ UNCHANGED <<phase, failure, bindings, stage, decided>>

IgnoreStatement ==
    /\ phase = "ddl" /\ todo # << >> /\ Head(todo).kind \in Ignores
    /\ todo' = Tail(todo)
    /\ UNCHANGED <<phase, failure, namespaces, tables, cache, bindings, stage, decided>>

Stop(why) ==
    /\ phase' = "failed" /\ failure' = why
    /\ UNCHANGED <<todo, namespaces, tables, cache, bindings, stage, decided>>

RefuseStatement ==
    /\ phase = "ddl" /\ todo # << >> /\ Head(todo).kind \notin Registers \cup Ignores
    /\ Stop(Head(todo).kind)

(* AnalyzeNextStatement is native: it may refuse any statement. *)
RefuseAnalysis ==
    /\ phase = "ddl" /\ todo # << >>
    /\ Stop("analysis")

EndOfScript ==
    /\ phase = "ddl" /\ todo = << >>
    /\ phase' = "ready"
    /\ UNCHANGED <<todo, failure, namespaces, tables, cache, bindings, stage, decided>>

(* SimpleCatalog is an exported field: a caller may add namespaces to it that *)
(* the cache does not know.                                                   *)
InstallNamespace ==
    /\ phase = "ready"
    /\ \E n \in CallerNamespaces :
         /\ ~HasNamespace(namespaces, Root, n)
         /\ namespaces' = namespaces \cup {<<n>>}
    /\ UNCHANGED <<phase, todo, failure, tables, cache, bindings, stage, decided>>
------------------------------------------------------------------------------
(* externalDatasetStage.  A stage is a record; ok is FALSE once a step of it   *)
(* has returned an error, and at is the namespace the walk has reached.       *)

(* Mutant of OpenNamespace: the cache is searched, and extended, by the name   *)
(* of the level instead of its whole path.                                    *)
OpenNamespaceByName(s, path, i) ==
    LET key == path[i]
        hits == {k \in DOMAIN s.catalogs : Same(k, key)}
        made == Append(s.at, path[i])
    IN  IF ~s.ok THEN s
        ELSE IF hits # {} THEN
             LET child == s.catalogs[CHOOSE k \in hits : TRUE]
             IN  [s EXCEPT !.at = child, !.catalogs = Assign(@, key, child)]
        ELSE IF HasNamespace(namespaces, s.at, path[i]) THEN [s EXCEPT !.ok = FALSE]
        ELSE [s EXCEPT !.at = made, !.catalogs = Assign(@, key, made), !.namespaces = Append(@, made)]

(* parent: one level.  The cache is searched without regard to case, and a    *)
(* namespace it lacks must not exist natively.                                *)
OpenNamespace(s, path, i) ==
    LET key == Dotted(Prefix(path, i))
        hits == {k \in DOMAIN s.catalogs : Same(k, key)}
        made == Append(s.at, path[i])
    IN  IF ~s.ok THEN s
        ELSE IF hits # {} THEN
             LET child == s.catalogs[CHOOSE k \in hits : TRUE]
             IN  [s EXCEPT !.at = child, !.catalogs = Assign(@, key, child)]
        ELSE IF HasNamespace(namespaces, s.at, path[i]) THEN [s EXCEPT !.ok = FALSE]
        ELSE [s EXCEPT !.at = made, !.catalogs = Assign(@, key, made), !.namespaces = Append(@, made)]
OpenNamespaces(s, path) ==
    LET level[i \in 0 .. Len(path) - 1] ==
            IF i = 0 THEN [s EXCEPT !.at = Root] ELSE OpenNamespace(level[i - 1], path, i)
    IN  level[Len(path) - 1]

(* Mutant of ReserveTable: what is pending in this stage is not looked at. *)
ReserveTableAgain(s, parent, name, table) ==
    IF ~s.ok THEN s
    ELSE IF HasTable(parent, name) THEN [s EXCEPT !.ok = FALSE]
    ELSE [s EXCEPT !.tables = Append(@, [in |-> parent, name |-> name, table |-> table])]

(* reserveTable: the name must be free natively and, unless it is the same    *)
(* projected table again, in the stage.                                       *)
ReserveTable(s, parent, name, table) ==
    LET pending == {t \in ToSet(s.tables) : t.in = parent /\ Same(t.name, name)}
    IN  IF ~s.ok THEN s
        ELSE IF HasTable(parent, name) THEN [s EXCEPT !.ok = FALSE]
        ELSE IF pending # {} THEN [s EXCEPT !.ok = \A t \in pending : t.table = table]
        ELSE [s EXCEPT !.tables = Append(@, [in |-> parent, name |-> name, table |-> table])]

AddTable(s, path, table) ==
    LET opened == OpenNamespaces(s, path)
        leaf == ReserveTable(opened, opened.at, Last(path), table)
    IN  ReserveTable(leaf, Root, Dotted(path), table)

StageTable(s, t) ==
    LET r == s.request
        table == Projection(r, t)
        own == AddTable([s EXCEPT !.ok = ~ColumnsCollide(t)], table.full, table)
    IN  IF ProjectOf(r) = None THEN own
        ELSE AddTable(own, ShortPath(r, t), table)

(* Mutant of Projected: the report lists the columns that were left out too. *)
ProjectedWhole(r, t) ==
    IF InDefaultSchema(t)
    THEN [source |-> t.name, visible |-> TRUE, full |-> FullPath(r, t), columns |-> {c.name : c \in t.columns}]
    ELSE [source |-> t.name, visible |-> FALSE, full |-> t.name, columns |-> {}]

Projected(r, t) ==
    IF InDefaultSchema(t)
    THEN [source |-> t.name, visible |-> TRUE, full |-> FullPath(r, t), columns |-> VisibleColumns(t)]
    ELSE [source |-> t.name, visible |-> FALSE, full |-> t.name, columns |-> {}]
------------------------------------------------------------------------------
(* addSpannerExternalDataset. *)
Return(accepted, r) == decided' = [request |-> r, accepted |-> accepted]

Begin ==
    /\ phase = "ready" /\ Len(bindings) < MaxDatasets
    /\ \E r \in Requests :
         /\ WellFormed(r)
         /\ phase' = "staging"
         /\ stage' = [request |-> r, todo |-> r.tables, at |-> Root, ok |-> TRUE, catalogs |-> cache,
                      namespaces |-> << >>, tables |-> << >>, projected |-> << >>]
    /\ UNCHANGED <<todo, failure, namespaces, tables, cache, bindings, decided>>

RefuseRequest ==
    /\ phase = "ready"
    /\ \E r \in Requests : ~WellFormed(r) /\ Return(FALSE, r)
    /\ UNCHANGED <<phase, todo, failure, namespaces, tables, cache, bindings, stage>>

(* Mutant of Abandon: the call returns its error and the stage is kept. *)
AbandonHalfway ==
    /\ phase' = "ready"
    /\ Return(FALSE, stage.request)
    /\ UNCHANGED <<todo, failure, namespaces, tables, cache, bindings, stage>>

Abandon ==
    /\ phase' = "ready" /\ stage' = None
    /\ Return(FALSE, stage.request)
    /\ UNCHANGED <<todo, failure, namespaces, tables, cache, bindings>>

Advance(staged, t) ==
    /\ stage' = [staged EXCEPT !.todo = Tail(@), !.projected = Append(@, Projected(staged.request, t))]
    /\ UNCHANGED <<phase, todo, failure, namespaces, tables, cache, bindings, decided>>

(* The tables of the system schemas are left out of the keys the loop is over. *)
SkipBuiltIn ==
    /\ phase = "staging" /\ stage.todo # << >> /\ BuiltIn(Head(stage.todo))
    /\ stage' = [stage EXCEPT !.todo = Tail(@)]
    /\ UNCHANGED <<phase, todo, failure, namespaces, tables, cache, bindings, decided>>

SkipNamedSchema ==
    /\ phase = "staging" /\ stage.todo # << >>
    /\ ~BuiltIn(Head(stage.todo)) /\ ~InDefaultSchema(Head(stage.todo))
    /\ IF stage.request.named = "error" THEN Abandon ELSE Advance(stage, Head(stage.todo))

Unsupported(r, t) == r.unsupported = "error" /\ \E c \in t.columns : c.kind = "unsupported"

(* Mutant of StageNext: each table is added to the catalog as soon as it has  *)
(* been checked.                                                              *)
StageNextInPlace ==
    /\ phase = "staging" /\ stage.todo # << >>
    /\ ~BuiltIn(Head(stage.todo)) /\ InDefaultSchema(Head(stage.todo))
    /\ LET t == Head(stage.todo)
           staged == StageTable(stage, t)
       IN  IF staged.ok /\ ~Unsupported(stage.request, t)
           THEN /\ stage' = [staged EXCEPT !.todo = Tail(@), !.projected = Append(@, Projected(stage.request, t)),
                                           !.namespaces = << >>, !.tables = << >>]
                /\ namespaces' = namespaces \cup ToSet(staged.namespaces)
                /\ tables' = tables \cup ToSet(staged.tables)
                /\ cache' = staged.catalogs
                /\ UNCHANGED <<phase, todo, failure, bindings, decided>>
           ELSE Abandon

StageNext ==
    /\ phase = "staging" /\ stage.todo # << >>
    /\ ~BuiltIn(Head(stage.todo)) /\ InDefaultSchema(Head(stage.todo))
    /\ LET t == Head(stage.todo)
           staged == StageTable(stage, t)
       IN  IF staged.ok /\ ~Unsupported(stage.request, t) THEN Advance(staged, t) ELSE Abandon

Publish ==
    /\ phase = "staging" /\ stage.todo = << >>
    /\ namespaces' = namespaces \cup ToSet(stage.namespaces)
    /\ tables' = tables \cup ToSet(stage.tables)
    /\ cache' = stage.catalogs
    /\ bindings' = Append(bindings, [dataset |-> RefPath(stage.request), projected |-> stage.projected])
    /\ phase' = "ready" /\ stage' = None
    /\ Return(TRUE, stage.request)
    /\ UNCHANGED <<todo, failure>>

CatalogNext ==
    \/ CreateRelation \/ IgnoreStatement \/ RefuseStatement \/ RefuseAnalysis \/ EndOfScript
    \/ InstallNamespace
    \/ Begin \/ RefuseRequest \/ SkipBuiltIn \/ SkipNamedSchema \/ StageNext \/ Publish

CatalogSpec == CatalogInit /\ [][CatalogNext]_catalogVars
------------------------------------------------------------------------------
(* The paths relations may be registered under, the namespaces above them, and *)
(* what a cache keyed by dotted paths relies on: two of those namespaces whose *)
(* dotted paths match are one.  Building from DDL does not check it: a dataset *)
(* quoted together with its project breaks it.                                *)
PlacedPaths ==
    (UNION {{script[i].path : i \in {j \in DOMAIN script : script[j].kind \in Registers}} : script \in Scripts})
    \cup UNION {UNION {{FullPath(r, t), ShortPath(r, t)} : t \in DefaultTables(r)}
               : r \in {q \in Requests : WellFormed(q)}}
NamespacePaths == {Root} \cup UNION {{Prefix(p, i) : i \in 0 .. Len(p) - 1} : p \in PlacedPaths}
PathsApart == \A p, q \in NamespacePaths : Same(Dotted(p), Dotted(q)) => FoldPath(p) = FoldPath(q)

(* Type invariant: shapes of the native tree, of the cache and of the stage.  *)
CatalogTypeOK ==
    /\ phase \in {"ddl", "ready", "staging", "failed"}
    /\ \A t \in tables : t.in \in namespaces \cup {Root} /\ DOMAIN t.table = {"full", "columns"}
    /\ \A n \in namespaces : Front(n) \in namespaces \cup {Root}
    /\ IF phase = "staging" THEN stage.ok /\ stage.request \in Requests ELSE stage = None
    /\ Len(bindings) <= MaxDatasets

(* publish() checks nothing and cannot be rolled back, so what was staged must *)
(* never meet a name the native catalog has: no two namespaces or two tables  *)
(* of one parent differ only in case, however many projections were added.    *)
NativeNamesDistinct ==
    /\ \A m, n \in namespaces : FoldPath(m) = FoldPath(n) => m = n
    /\ \A s, t \in tables : s.in = t.in /\ Same(s.name, t.name) => s = t

(* The stage looks the cache up by ranging over a Go map and taking the first *)
(* key that matches: keys that match each other must lead to one namespace,   *)
(* and to the one a lookup from the root would reach.                         *)
CacheIsUnambiguous ==
    /\ \A k, l \in DOMAIN cache : Same(k, l) => cache[k] = cache[l]
    /\ \A k \in DOMAIN cache : cache[k] \in namespaces \cup {Root} /\ Same(Dotted(cache[k]), k)

Resolve(path) == {t \in tables : FoldPath(Append(t.in, t.name)) = FoldPath(path)}

(* A registered relation is found by the path it was registered under.        *)
RegisteredRelationsResolve ==
    \A t \in tables : t.table \in {u.table : u \in Resolve(t.table.full)}

(* Every table a binding reports as visible stays queryable with the columns  *)
(* the binding reports: by its path, without the project, and by either as    *)
(* one quoted name, whatever is registered later.                             *)
BindingsStayTrue ==
    \A i \in DOMAIN bindings : \A p \in {q \in ToSet(bindings[i].projected) : q.visible} :
        LET short == SubSeq(p.full, Len(p.full) - 1, Len(p.full))
        IN  \A path \in {p.full, short, <<Dotted(p.full)>>, <<Dotted(short)>>} :
                {t.table : t \in Resolve(path)} = {[full |-> p.full, columns |-> p.columns]}

(* The staged registration is the atomic one: accepted exactly when the       *)
(* request is admissible, visible all at once, and without a trace otherwise. *)
Registry == INSTANCE DatasetRegistry WITH
    built <- phase # "ddl",
    visible <- {[in |-> FoldPath(t.in), name |-> FoldName(t.name), table |-> t.table] : t \in tables},
    unmanaged <- {FoldPath(n) : n \in namespaces \ Range(cache)}
ImplementsRegistry == Registry!RegistrySpec

\* The catalog, the native catalog below it and the cache of namespaces between
\* them stay of one mind: no name is added twice where nothing can be removed,
\* and no cache key stands for two places.
CatalogInv == CatalogTypeOK /\ NativeNamesDistinct /\ CacheIsUnambiguous

\* What a successful call published is found, under its name and by its
\* binding, for as long as the catalog lives.
NamesStayTrue == RegisteredRelationsResolve /\ BindingsStayTrue
==============================================================================
