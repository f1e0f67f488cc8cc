------------------------------ MODULE MCBigQuery ------------------------------
(* One BigQuery catalog, either while its datasets are built and registered   *)
(* (BigQueryCatalog) or while analyzers that wrap it prepare the row types of *)
(* EXTERNAL_QUERY (ExternalQuery): the two share no state, so each topic is   *)
(* explored next to the other's initial state.                                *)
EXTENDS BigQueryCatalog, ExternalQuery

CONSTANTS
    a1, a2, c1, c2, q1, q2, s1, s2, r1, r2,
    Topics    \* the topics a run explores, of "catalog" and "queries"

VARIABLE topic

------------------------------------------------------------------------------
(* Catalogs: identifiers are lower-case strings, those in upper case fold to  *)
(* them.                                                                      *)
MCFold == [a \in {"p", "d", "t", "u", "v", "s", "x", "information_schema", "tables"} |-> a]
          @@ [D |-> "d", P |-> "p", T |-> "t", A |-> "a", a |-> "a", b |-> "b", h |-> "h"]

Name(a) == <<a>>
Statement(kind, path) == [kind |-> kind, path |-> path, columns |-> {"a"}]
MCScripts ==
    {<< >>,
     <<Statement("schema", <<Name("d")>>), Statement("table", <<Name("d"), Name("T")>>),
       Statement("view", <<Name("p"), Name("d"), Name("v")>>)>>,
     <<Statement("external table", <<Name("d"), Name("u")>>), Statement("drop", <<Name("d"), Name("u")>>)>>,
     (* `d.t` written inside one pair of quotes *)
     <<Statement("table", << <<"d", "t">> >>), Statement("index", <<Name("d")>>)>>}
(* A dataset quoted together with its project in one statement and not in the *)
(* next: two paths to the namespace d of project p.                           *)
MCDottedScripts ==
    {<<Statement("table", << <<"p", "d">>, Name("t")>>), Statement("table", <<Name("p"), Name("d"), Name("u")>>)>>}

Column(n, k) == [name |-> n, kind |-> k]
Table(path, cs) == [name |-> path, columns |-> cs]
UpperT == Table(<<Name("T")>>, {Column("a", "visible"), Column("h", "hidden")})
LowerT == Table(<<Name("t")>>, {Column("b", "visible")})
TableU == Table(<<Name("u")>>, {Column("b", "visible"), Column("h", "unsupported")})
TwoA == Table(<<Name("x")>>, {Column("a", "visible"), Column("A", "visible")})
QuotedDT == Table(<< <<"d", "t">> >>, {Column("a", "visible")})
Named == Table(<<Name("s"), Name("x")>>, {Column("a", "visible")})
System == Table(<<Name("information_schema"), Name("tables")>>, {Column("a", "visible")})
SourceSchemas == {<<System, UpperT>>, <<UpperT, QuotedDT>>, <<UpperT, Named>>, <<TableU>>, <<UpperT, TableU>>,
            <<UpperT, LowerT>>, <<UpperT, TwoA>>}

Request(dataset, project, default, source, policy, metadata) ==
    [dataset |-> dataset, project |-> project, defaultProject |-> default, tables |-> source,
     unsupported |-> policy, named |-> policy, metadata |-> metadata]
MCRequests ==
    {Request(d, None, default, src, policy, TRUE) :
         d \in {<<"d">>, <<"p", "D">>}, default \in {None, "d"}, src \in SourceSchemas, policy \in {"omit", "error"}}
    \cup {Request(<<"P", "d">>, "p", None, <<TableU>>, "omit", TRUE),
          Request(<<"p", "d">>, "p", "d", <<TableU>>, "omit", TRUE),
          Request(<<"p", "d", "t">>, None, None, <<TableU>>, "omit", TRUE),
          Request(<<"d">>, "p", "d", <<TableU>>, "omit", FALSE)}
MCCallerNamespaces == {Name("d"), Name("P")}

------------------------------------------------------------------------------
(* Two connections, two inner statements, two Spanner databases that give the *)
(* first statement different row types and refuse the second or not.          *)
MCRowTypeOf == (s1 :> ((q1 :> r1) @@ (q2 :> r2))) @@ (s2 :> ((q1 :> r2) @@ (q2 :> Missing)))
MCTexts == {<< >>, << <<c1, q1>> >>, << <<c1, q1>>, <<c2, q2>> >>, << <<c2, q1>>, <<c2, q1>> >>,
            << <<c1, q2>>, Malformed >>}
------------------------------------------------------------------------------
ASSUME NamespacesApart == Scripts # MCDottedScripts => PathsApart

EitherInit ==
    /\ CatalogInit /\ QueryInit
    /\ topic \in Topics
    /\ topic = "queries" => todo = << >>

EitherNext ==
    \/ topic = "catalog" /\ CatalogNext /\ UNCHANGED <<topic, queryVars>>
    \/ topic = "queries" /\ QueryNext /\ UNCHANGED <<topic, catalogVars>>

EitherSpec == EitherInit /\ [][EitherNext]_<<topic, catalogVars, queryVars>>
==============================================================================
