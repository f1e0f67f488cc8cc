-------------------------- MODULE FederatedQueries --------------------------
(***************************************************************************)
(* Queries of kind external_query (internal/querygen/querygen.go): the SQL *)
(* for BigQuery is put together from the outer SQL and a call of           *)
(* EXTERNAL_QUERY with the inner SQL, by a scanner of the generator's own. *)
(*                                                                         *)
(* A text is the sequence of its lexemes; what opens and closes strings,   *)
(* quoted identifiers and comments are lexemes of their own.  A query is   *)
(* [connection, source, inner, outer, params], a parameter [name, scope].  *)
(* Schemas are a function of names to [dialect, connections, types]: the   *)
(* connections [id, source] in the order of the configuration, the types   *)
(* those of the rows that the inner SQL returns there.                     *)
(***************************************************************************)
EXTENDS GoNames

Placeholder  == "__external__"
ExternalCall == "EXTERNAL_QUERY" \* the inner SQL is in it as one literal
Quotes == {"quote", "doublequote", "backquote"}
Marks  ==
  Quotes \cup {"dashes", "opencomment", "endcomment", "newline", "hash", "backslash", "star", "at", "comma", "paren"}

-----------------------------------------------------------------------------
(* The scanner.  The mode is <<>> in code, else it names what was opened. *)

\* Mutant of After: what follows two dashes is code.
AfterNoLineComments(mode, l) ==
  CASE mode = <<>>              -> IF l \in Quotes \cup {"opencomment"} THEN <<l>> ELSE <<>>
    [] mode = <<"opencomment">> -> IF l = "endcomment" THEN <<>> ELSE mode
    [] OTHER                    -> IF <<l>> = mode THEN <<>> ELSE mode

After(mode, l) ==
  CASE mode = <<>>              -> IF l \in Quotes \cup {"dashes", "opencomment"} THEN <<l>> ELSE <<>>
    [] mode = <<"dashes">>      -> IF l = "newline" THEN <<>> ELSE mode
    [] mode = <<"opencomment">> -> IF l = "endcomment" THEN <<>> ELSE mode
    [] OTHER                    -> IF <<l>> = mode THEN <<>> ELSE mode
Modes(text) ==
  LET m[i \in 0..Len(text)] == IF i = 0 THEN <<>> ELSE After(m[i - 1], text[i])
  IN  m
\* The places outside strings, quoted identifiers and comments.
InCode(text) == {i \in DOMAIN text : Modes(text)[i - 1] = <<>> /\ text[i] \notin Quotes \cup {"dashes", "opencomment"}}
WordsOf(text) == {i \in InCode(text) : text[i] \notin Marks}

Occurrences(text, word) == {i \in WordsOf(text) : Lower(text[i]) = Lower(word)}
PreviousWord(text, i) ==
  LET before == {j \in WordsOf(text) : j < i}
  IN  IF before = {} THEN "" ELSE text[CHOOSE j \in before : \A k \in before : k <= j]
UsesParameter(text, name) ==
  \E i \in InCode(text) : text[i] = "at" /\ i + 1 \in WordsOf(text) /\ Lower(text[i + 1]) = Lower(name)
HasStar(text) == \E i \in InCode(text) : text[i] = "star"

-----------------------------------------------------------------------------
(* Connections *)

Complete(c) == c.id # "" /\ c.source # ""

\* Mutant of UniqueConnections: only the list is looked at, not the names.
UniqueConnectionsAny(connections) == TRUE

UniqueConnections(connections) ==
  \A i, j \in DOMAIN connections :
    Complete(connections[i]) /\ Complete(connections[j]) /\ connections[i].id = connections[j].id => i = j

EntriesOf(schema, id) == {i \in DOMAIN schema.connections : schema.connections[i].id = id}

\* The Spanner source of a query, "" where there is none: the first entry of
\* its connection.
SourceOf(schema, query) ==
  LET mine  == EntriesOf(schema, query.connection)
      entry == schema.connections[Min(mine)]
  IN  IF /\ UniqueConnections(schema.connections) /\ mine # {} /\ Complete(entry)
         /\ query.source \in {"", entry.source}
      THEN entry.source ELSE ""

\* One analyzer for each connection; a later entry replaces an earlier one.
AnalyzersBuild(schemas, schema) ==
  /\ UniqueConnections(schema.connections)
  /\ \A c \in ToSet(schema.connections) :
       Complete(c) /\ c.source \in DOMAIN schemas /\ schemas[c.source].dialect = "spanner"
Analyzers(schema) ==
  [id \in {c.id : c \in ToSet(schema.connections)} |-> schema.connections[Max(EntriesOf(schema, id))].source]

-----------------------------------------------------------------------------
(* codegenFederatedQuerySQL *)

TableExpression(text, i) == Lower(PreviousWord(text, i)) \in {"from", "join"}
OuterTakesCall(outer) ==
  \/ outer = <<>>
  \/ \E i \in DOMAIN outer : Occurrences(outer, Placeholder) = {i} /\ TableExpression(outer, i)
Composes(schemas, schema, query) ==
  /\ schema.dialect = "bigquery" /\ query.connection # "" /\ query.inner # <<>>
  /\ SourceOf(schema, query) \in DOMAIN schemas
  /\ schemas[SourceOf(schema, query)].dialect = "spanner"
  /\ OuterTakesCall(query.outer)
ComposedSQL(query) ==
  IF query.outer = <<>> THEN <<"SELECT", "star", "FROM", ExternalCall>>
  ELSE [i \in DOMAIN query.outer |->
          IF i \in Occurrences(query.outer, Placeholder) THEN ExternalCall ELSE query.outer[i]]

-----------------------------------------------------------------------------
(* Parameters *)

\* Mutant of EffectiveScope: parameters without a scope belong to the inner SQL.
EffectiveScopeInner(query, p) == IF p.scope # "" THEN p.scope ELSE "inner"

EffectiveScope(query, p) ==
  LET inner == UsesParameter(query.inner, p.name)
      outer == UsesParameter(query.outer, p.name)
  IN  CASE p.scope # ""                        -> p.scope
        [] p.scope = "" /\ inner /\ outer      -> "ambiguous"
        [] p.scope = "" /\ outer /\ ~inner     -> "outer"
        [] OTHER                    -> "inner"
ScopesResolve(query) == \A p \in ToSet(query.params) : EffectiveScope(query, p) # "ambiguous"
DeclaredFor(query, part) ==
  {Lower(p.name) : p \in {q \in ToSet(query.params) : EffectiveScope(query, q) = part}}

-----------------------------------------------------------------------------
(* Analysis and warnings *)

\* A type is the sequence of its codes from the outside in.
Exchangeable == {"BOOL", "INT64", "FLOAT32", "FLOAT64", "TIMESTAMP", "DATE", "STRING", "BYTES", "NUMERIC", "JSON"}
ArraysOnly(type) == \A i \in 1..(Len(type) - 1) : type[i] = "ARRAY"
\* bigQuerySQLTypeFromSpannerType
HasBigQueryType(type) == ArraysOnly(type) /\ Last(type) \in Exchangeable

\* Mutant of TypeWarnings: arrays are not looked into.
TypeWarningsScalar(type) == type = <<"TIMESTAMP">>
TypeWarnings(type) == ArraysOnly(type) /\ Last(type) = "TIMESTAMP"

\* The patterns are looked for in the whole text.
OrderIgnored(query) ==
  "ORDER BY" \in ToSet(query.inner) /\ "LIMIT 1" \notin ToSet(query.inner) /\ "ORDER BY" \notin ToSet(query.outer)

\* External: a text is analyzed with the parameters declared for it.
AnalysisAccepts(text, declared) ==
  \A i \in InCode(text) : text[i] = "at" /\ i + 1 \in WordsOf(text) => Lower(text[i + 1]) \in declared

FederatedAccepted(schemas, schema, query) ==
  /\ Composes(schemas, schema, query) /\ AnalyzersBuild(schemas, schema) /\ ScopesResolve(query)
  /\ AnalysisAccepts(query.inner, DeclaredFor(query, "inner"))
  /\ AnalysisAccepts(query.outer, DeclaredFor(query, "outer"))
  /\ \A t \in ToSet(schemas[Analyzers(schema)[query.connection]].types) : HasBigQueryType(t)

\* What the plan says of the query.
Federated(schemas, schema, query) ==
  LET source == SourceOf(schema, query)
      types  == schemas[source].types
  IN  [sql |-> ComposedSQL(query), source |-> source, orderIgnored |-> OrderIgnored(query),
       truncated |-> {i \in DOMAIN types : TypeWarnings(types[i])}]

-----------------------------------------------------------------------------
(* External: how GoogleSQL reads a text.  Backslashes escape in strings and *)
(* quoted identifiers, and comments may start with a hash.                   *)

Reads(mode, l) ==
  CASE mode = <<>>              -> IF l \in Quotes \cup {"dashes", "opencomment"} THEN <<l>> ELSE IF l = "hash" THEN <<"dashes">> ELSE <<>>
    [] Len(mode) = 2            -> <<mode[1]>>
    [] mode = <<"dashes">>      -> IF l = "newline" THEN <<>> ELSE mode
    [] mode = <<"opencomment">> -> IF l = "endcomment" THEN <<>> ELSE mode
    [] OTHER                    -> IF <<l>> = mode THEN <<>> ELSE IF l = "backslash" THEN Append(mode, l) ELSE mode
ReadAsCode(text) ==
  LET m[i \in 0..Len(text)] == IF i = 0 THEN <<>> ELSE Reads(m[i - 1], text[i])
  IN  {i \in DOMAIN text : m[i - 1] = <<>> /\ text[i] \notin Quotes \cup {"dashes", "opencomment", "hash"}}
\* Texts that both scanners read alike.
ReadAlike(text) == ToSet(text) \cap {"hash", "backslash"} = {}
=============================================================================
