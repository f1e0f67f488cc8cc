---------------------------- MODULE PlanningProofs ----------------------------
(***************************************************************************)
(* For any queries, datasets, statements, templates and files that the     *)
(* assumptions of Planning and ConfigFile allow: a federated query         *)
(* composes one call, what the plan says of an external dataset is all     *)
(* there is to say, a statement built with optional parameters is one that *)
(* was analyzed, and the published schema accepts the files that parse.    *)
(* The scanner of the generator and that of GoogleSQL are in the same mode *)
(* at every place of a text that they read alike.                          *)
(***************************************************************************)
EXTENDS Planning, Recursion, SequenceTheorems

-----------------------------------------------------------------------------
(* The scanners *)

Openers == Quotes \cup {"dashes", "opencomment"}
\* In code, or in what one lexeme opened.
ModeType == {<<>>} \cup {<<l>> : l \in Openers}

LEMMA AfterType ==
  ASSUME NEW mode \in ModeType, NEW l
  PROVE  After(mode, l) \in ModeType
BY DEF ModeType, Openers, Quotes, After

\* What a lexeme does to the mode is the same for both, but for the two lexemes
\* that only GoogleSQL knows.
LEMMA ModesAgree ==
  ASSUME NEW mode \in ModeType, NEW l, l \notin {"hash", "backslash"}
  PROVE  Reads(mode, l) = After(mode, l)
BY DEF ModeType, Openers, Quotes, After, Reads

\* A lexeme that opens nothing leaves code code.
LEMMA PlainStaysCode ==
  ASSUME NEW l, l \notin Openers \cup {"hash"}
  PROVE  After(<<>>, l) = <<>> /\ Reads(<<>>, l) = <<>>
BY DEF Openers, Quotes, After, Reads

\* The modes along a text are what the recursion says.
LEMMA ModesRun ==
  ASSUME NEW text \in Texts
  PROVE  /\ Modes(text) \in [0..Len(text) -> ModeType]
         /\ Modes(text)[0] = <<>>
         /\ \A i \in 1..Len(text) : Modes(text)[i] = After(Modes(text)[i - 1], text[i])
<1> DEFINE n == Len(text)
           F == [x \in ModeType \X (1..n) |-> After(x[1], text[x[2]])]
           R(m) == [i \in 0..n |-> IF i = 0 THEN <<>> ELSE After(m[i - 1], text[i])]
<1>1. n \in Nat /\ <<>> \in ModeType
  BY DEF Texts, ModeType
<1>2. F \in [ModeType \X (1..n) -> ModeType]
  BY AfterType
<1>3. PICK g : IsRun(g, n, ModeType, <<>>, F)
  <2> HIDE DEF F
  <2> QED BY <1>1, <1>2, RunOf
<1>4. \A i \in 1..n : g[i] = After(g[i - 1], text[i])
  <2> SUFFICES ASSUME NEW i \in 1..n PROVE g[i] = After(g[i - 1], text[i])
    OBVIOUS
  <2>1. g[i] = F[<<g[i - 1], i>>] /\ g[i - 1] \in ModeType
    <3> HIDE DEF F
    <3> QED BY <1>1, <1>3 DEF IsRun
  <2> QED BY <2>1
<1>5. g = R(g)
  <2>1. g \in [0..n -> ModeType] /\ g[0] = <<>>
    BY <1>3 DEF IsRun
  <2>2. \A i \in 0..n : g[i] = R(g)[i]
    <3> HIDE DEF F
    <3> QED BY <1>1, <1>4, <2>1
  <2> QED BY <2>1, <2>2
<1>6. Modes(text) = CHOOSE m : m = R(m)
  BY DEF Modes
<1> DEFINE M == Modes(text)
<1>7. M = R(M)
  <2> HIDE DEF R
  <2> QED BY <1>5, <1>6
<1>8. M[0] = <<>> /\ \A i \in 1..n : M[i] = After(M[i - 1], text[i])
  <2>1. \A i \in 0..n : M[i] = IF i = 0 THEN <<>> ELSE After(M[i - 1], text[i])
    <3> HIDE DEF M
    <3> QED BY <1>7
  <2> HIDE DEF M
  <2> QED BY <1>1, <2>1
<1>9. \A i \in 0..n : M[i] \in ModeType
  <2> DEFINE A == {i \in 0..n : M[i] \in ModeType}
  <2> SUFFICES ASSUME NEW k \in 0..n PROVE k \in A
    OBVIOUS
  <2> HIDE DEF M
  <2>1. 0 \in A
    BY <1>1, <1>8
  <2>2. \A i \in A : i \in Nat /\ i < k => i + 1 \in A
    <3> SUFFICES ASSUME NEW i \in A, i < k PROVE i + 1 \in A
      OBVIOUS
    <3>1. i + 1 \in 1..n /\ (i + 1) - 1 = i
      BY <1>1
    <3>2. M[i + 1] = After(M[i], text[i + 1])
      BY <1>8, <3>1
    <3>3. M[i + 1] \in ModeType
      BY <3>2, AfterType
    <3> QED BY <3>1, <3>3
  <2> HIDE DEF A
  <2> QED BY <1>1, <2>1, <2>2, UpTo
<1>10. M \in [0..n -> ModeType]
  <2> HIDE DEF M
  <2>1. M = [i \in 0..n |-> M[i]]
    BY <1>7
  <2> QED BY <1>9, <2>1
<1> QED BY <1>8, <1>10

\* Likewise the modes that GoogleSQL is in, for a text with the same lexemes but
\* for one place in code.
ReadModes(text) ==
  LET m[i \in 0..Len(text)] == IF i = 0 THEN <<>> ELSE Reads(m[i - 1], text[i])
  IN  m

LEMMA ReadAsCodeModes ==
  ASSUME NEW text
  PROVE  ReadAsCode(text) = {i \in DOMAIN text : ReadModes(text)[i - 1] = <<>> /\ text[i] \notin Openers \cup {"hash"}}
BY DEF ReadAsCode, ReadModes, Openers

LEMMA ReadModesAre ==
  ASSUME NEW outer \in Texts, NEW sql, Len(sql) = Len(outer),
         ReadAlike(outer),
         \A i \in 1..Len(outer) :
           \/ sql[i] = outer[i]
           \/ Modes(outer)[i - 1] = <<>> /\ outer[i] \notin Openers /\ sql[i] \notin Openers \cup {"hash"}
  PROVE  ReadModes(sql) = Modes(outer)
<1> DEFINE n == Len(outer)
           M == Modes(outer)
           R(m) == [i \in 0..n |-> IF i = 0 THEN <<>> ELSE Reads(m[i - 1], sql[i])]
<1>1. n \in Nat
  BY DEF Texts
<1>2. M \in [0..n -> ModeType] /\ M[0] = <<>> /\ \A i \in 1..n : M[i] = After(M[i - 1], outer[i])
  BY ModesRun
<1>3. \A i \in 1..n : outer[i] \notin {"hash", "backslash"}
  <2>1. DOMAIN outer = 1..n
    BY DEF Texts
  <2> QED BY <2>1 DEF ReadAlike, ToSet
<1>4. ASSUME NEW i \in 1..n PROVE M[i] = Reads(M[i - 1], sql[i])
  <2>1. M[i - 1] \in ModeType /\ M[i] = After(M[i - 1], outer[i])
    <3> HIDE DEF M
    <3> QED BY <1>1, <1>2
  <2>2. CASE sql[i] = outer[i]
    <3> HIDE DEF M
    <3> QED BY <1>3, <2>1, <2>2, ModesAgree
  <2>3. CASE M[i - 1] = <<>> /\ outer[i] \notin Openers /\ sql[i] \notin Openers \cup {"hash"}
    <3> HIDE DEF M
    <3>1. After(<<>>, outer[i]) = <<>>
      BY <1>3, <2>3, PlainStaysCode
    <3>2. Reads(<<>>, sql[i]) = <<>>
      BY <2>3, PlainStaysCode
    <3> QED BY <2>1, <2>3, <3>1, <3>2
  <2> QED BY <2>2, <2>3
<1>5. M = R(M)
  <2> HIDE DEF M
  <2>1. \A i \in 0..n : M[i] = R(M)[i]
    BY <1>1, <1>2, <1>4
  <2> QED BY <1>2, <2>1
\* Whatever satisfies the recursion is that function.
<1>6. ASSUME NEW m, m = R(m) PROVE m = M
  <2> DEFINE A == {i \in 0..n : m[i] = M[i]}
  <2> HIDE DEF M
  <2>1. \A i \in 0..n : m[i] = IF i = 0 THEN <<>> ELSE Reads(m[i - 1], sql[i])
    BY <1>6
  <2>2. 0 \in A
    BY <1>1, <1>2, <2>1
  <2>3. ASSUME NEW k \in 0..n PROVE k \in A
    <3>1. \A i \in A : i \in Nat /\ i < k => i + 1 \in A
      <4> SUFFICES ASSUME NEW i \in A, i < k PROVE i + 1 \in A
        OBVIOUS
      <4>1. i + 1 \in 1..n /\ i + 1 \in 0..n /\ (i + 1) - 1 = i /\ i + 1 # 0
        BY <1>1
      <4>2. m[i + 1] = Reads(m[i], sql[i + 1])
        BY <2>1, <4>1
      <4>3. M[i + 1] = Reads(M[i], sql[i + 1])
        BY <1>4, <4>1
      <4> QED BY <4>1, <4>2, <4>3
    <3> HIDE DEF A
    <3> QED BY <1>1, <2>2, <3>1, UpTo
  <2>4. m = [i \in 0..n |-> m[i]]
    BY <1>6
  <2> QED BY <1>2, <2>3, <2>4
<1>7. ReadModes(sql) = CHOOSE m : m = R(m)
  BY DEF ReadModes
<1> HIDE DEF R, M
<1>8. ReadModes(sql) = M
  BY <1>5, <1>6, <1>7
<1> QED BY <1>8 DEF M

-----------------------------------------------------------------------------
(* Federated queries *)

LEMMA WordsAreLower ==
  \A w \in Words : Lower(w) = w
BY LowerCase DEF Lower

\* Both read the same places as code.
LEMMA CodeIsCode ==
  ASSUME NEW text \in Texts, ReadAlike(text)
  PROVE  ReadAsCode(text) = InCode(text)
<1>1. ReadModes(text) = Modes(text)
  BY ReadModesAre
<1>2. \A i \in DOMAIN text : text[i] # "hash"
  BY DEF ReadAlike, ToSet
<1> QED BY <1>1, <1>2, ReadAsCodeModes DEF InCode, Openers

LEMMA OneCall ==
  ASSUME NEW q, q.outer \in Texts, q.outer # <<>>, ReadAlike(q.outer), OuterTakesCall(q.outer)
  PROVE  /\ \A i \in ReadAsCode(ComposedSQL(q)) : Lower(ComposedSQL(q)[i]) # Placeholder
         /\ \E k \in DOMAIN q.outer :
              /\ Lower(q.outer[k]) = Placeholder /\ k \in ReadAsCode(ComposedSQL(q)) /\ ComposedSQL(q)[k] = ExternalCall
              /\ DOMAIN ComposedSQL(q) = DOMAIN q.outer /\ \A i \in DOMAIN q.outer \ {k} : ComposedSQL(q)[i] = q.outer[i]
<1> DEFINE outer == q.outer
           sql   == ComposedSQL(q)
           M     == Modes(outer)
<1>1. PICK k \in DOMAIN outer : Occurrences(outer, Placeholder) = {k}
  BY DEF OuterTakesCall
<1>2. outer \in Texts /\ DOMAIN outer = 1..Len(outer) /\ Len(outer) \in Nat
  BY DEF Texts
<1>3. sql = [i \in DOMAIN outer |-> IF i = k THEN ExternalCall ELSE outer[i]]
  BY <1>1 DEF ComposedSQL
<1>4. Len(sql) = Len(outer) /\ DOMAIN sql = DOMAIN outer
  <2> HIDE DEF sql, outer
  <2>1. DOMAIN sql = 1..Len(outer)
    BY <1>2, <1>3
  <2> QED BY <1>2, <2>1
<1>5. sql[k] = ExternalCall /\ \A i \in DOMAIN outer \ {k} : sql[i] = outer[i]
  BY <1>3
<1>6. k \in InCode(outer) /\ outer[k] \notin Marks /\ Lower(outer[k]) = Placeholder
  <2>1. Lower(Placeholder) = Placeholder
    BY WordsAreLower DEF Words
  <2> QED BY <1>1, <2>1 DEF Occurrences, WordsOf
<1>7. M[k - 1] = <<>> /\ outer[k] \notin Openers
  BY <1>6 DEF InCode, Openers
<1>8. ExternalCall \notin Openers \cup {"hash"}
  BY DEF ExternalCall, Openers, Quotes
<1>9. ReadModes(sql) = M
  <2>1. \A i \in 1..Len(outer) :
          \/ sql[i] = outer[i]
          \/ M[i - 1] = <<>> /\ outer[i] \notin Openers /\ sql[i] \notin Openers \cup {"hash"}
    <3> HIDE DEF sql, outer, M
    <3> QED BY <1>2, <1>5, <1>7, <1>8
  <2> HIDE DEF sql
  <2> QED BY <1>2, <1>4, <2>1, ReadModesAre
<1>10. ReadAsCode(sql) = {i \in DOMAIN outer : M[i - 1] = <<>> /\ sql[i] \notin Openers \cup {"hash"}}
  <2> HIDE DEF sql, M
  <2> QED BY <1>4, <1>9, ReadAsCodeModes
<1>11. ASSUME NEW i \in ReadAsCode(sql), Lower(sql[i]) = Placeholder PROVE FALSE
  <2> HIDE DEF sql
  <2>1. i # k
    BY <1>5, <1>11, LowerCase
  <2>2. i \in DOMAIN outer /\ sql[i] = outer[i] /\ M[i - 1] = <<>> /\ outer[i] \notin Openers
    BY <1>5, <1>10, <2>1
  <2>3. \A m \in Marks : Lower(m) # Placeholder
    BY WordsAreLower DEF Words, Marks, Quotes, Placeholder
  <2>4. i \in InCode(outer) /\ outer[i] \notin Marks
    BY <1>11, <2>2, <2>3 DEF InCode, Openers
  <2>5. Lower(Placeholder) = Placeholder
    BY WordsAreLower DEF Words
  <2>6. i \in Occurrences(outer, Placeholder)
    BY <1>11, <2>2, <2>4, <2>5 DEF Occurrences, WordsOf
  <2> QED BY <1>1, <2>1, <2>6
<1>12. k \in ReadAsCode(sql)
  <2> HIDE DEF sql, M
  <2> QED BY <1>5, <1>7, <1>8, <1>10
<1> HIDE DEF sql
<1>13. \A i \in ReadAsCode(sql) : Lower(sql[i]) # Placeholder
  BY <1>11
<1>14. k \in DOMAIN outer /\ Lower(outer[k]) = Placeholder /\ k \in ReadAsCode(sql) /\ sql[k] = ExternalCall
       /\ DOMAIN sql = DOMAIN outer /\ \A i \in DOMAIN outer \ {k} : sql[i] = outer[i]
  BY <1>4, <1>5, <1>6, <1>12
<1> QED BY <1>13, <1>14 DEF sql

LEMMA UnscopedParamsAreFound ==
  ASSUME NEW q, q.inner \in Texts, q.outer \in Texts, ReadAlike(q.inner), ReadAlike(q.outer),
         Mentions(q.inner) \cap Mentions(q.outer) = {},
         \A p \in ToSet(q.params) : p.scope = "",
         Mentions(q.inner) \cup Mentions(q.outer) \subseteq {Lower(p.name) : p \in ToSet(q.params)}
  PROVE  /\ ScopesResolve(q)
         /\ AnalysisAccepts(q.inner, DeclaredFor(q, "inner")) /\ AnalysisAccepts(q.outer, DeclaredFor(q, "outer"))
<1>1. \A text \in {q.inner, q.outer} : Mentions(text) = {Lower(text[i + 1]) : i \in {j \in InCode(text) : text[j] = "at"}}
  BY CodeIsCode DEF Mentions
<1>2. \A text \in {q.inner, q.outer} : \A p \in ToSet(q.params) :
        UsesParameter(text, p.name) => Lower(p.name) \in Mentions(text)
  BY <1>1 DEF UsesParameter
<1>3. \A p \in ToSet(q.params) : ~(UsesParameter(q.inner, p.name) /\ UsesParameter(q.outer, p.name))
  BY <1>2
<1>4. \A p \in ToSet(q.params) :
        /\ EffectiveScope(q, p) # "ambiguous"
        /\ UsesParameter(q.inner, p.name) => EffectiveScope(q, p) = "inner"
        /\ UsesParameter(q.outer, p.name) => EffectiveScope(q, p) = "outer"
  BY <1>3 DEF EffectiveScope
<1>5. \A text \in {q.inner, q.outer} : \A i \in InCode(text) : text[i] = "at" /\ i + 1 \in WordsOf(text) =>
        \E p \in ToSet(q.params) : Lower(p.name) = Lower(text[i + 1]) /\ UsesParameter(text, p.name)
  <2> SUFFICES ASSUME NEW text \in {q.inner, q.outer}, NEW i \in InCode(text), text[i] = "at", i + 1 \in WordsOf(text)
               PROVE  \E p \in ToSet(q.params) : Lower(p.name) = Lower(text[i + 1]) /\ UsesParameter(text, p.name)
    OBVIOUS
  <2>1. Lower(text[i + 1]) \in Mentions(text)
    BY <1>1
  <2>2. PICK p \in ToSet(q.params) : Lower(p.name) = Lower(text[i + 1])
    BY <2>1
  <2> QED BY <2>2 DEF UsesParameter
<1>6. AnalysisAccepts(q.inner, DeclaredFor(q, "inner"))
  BY <1>4, <1>5 DEF AnalysisAccepts, DeclaredFor
<1>7. AnalysisAccepts(q.outer, DeclaredFor(q, "outer"))
  BY <1>4, <1>5 DEF AnalysisAccepts, DeclaredFor
<1> QED BY <1>4, <1>6, <1>7 DEF ScopesResolve

\* A connection is configured once where a query is accepted.
LEMMA OneEntry ==
  ASSUME NEW i \in FederatedInputs, FederatedAccepted(i.schemas, i.schemas[i.on], i.query)
  PROVE  LET schema == i.schemas[i.on]
         IN  /\ SourceOf(schema, i.query) \in DOMAIN i.schemas
             /\ Analyzers(schema)[i.query.connection] = SourceOf(schema, i.query)
<1> DEFINE schema == i.schemas[i.on]
           mine   == EntriesOf(schema, i.query.connection)
           source == SourceOf(schema, i.query)
<1>1. source \in DOMAIN i.schemas /\ source # ""
  BY FederatedInputsAreQueries DEF FederatedAccepted, Composes
<1>2. UniqueConnections(schema.connections) /\ mine # {} /\ source = schema.connections[Min(mine)].source
  BY <1>1 DEF SourceOf
<1>3. schema.connections \in Seq([id : STRING, source : STRING])
  BY FederatedInputsAreQueries
<1>4. \A c \in ToSet(schema.connections) : Complete(c)
  BY DEF FederatedAccepted, AnalyzersBuild
<1>5. PICK e : e \in mine
  BY <1>2
<1>6. e \in DOMAIN schema.connections /\ schema.connections[e].id = i.query.connection /\ e \in Int
  BY <1>3, <1>5 DEF EntriesOf
<1>7. mine = {e}
  BY <1>2, <1>4, <1>5 DEF UniqueConnections, EntriesOf, ToSet
<1>8. Min(mine) = e /\ Max(mine) = e
  <2> HIDE DEF mine
  <2> QED BY <1>6, <1>7 DEF Min, Max
<1>9. i.query.connection \in {c.id : c \in ToSet(schema.connections)}
  BY <1>6 DEF ToSet
<1>10. Analyzers(schema)[i.query.connection] = schema.connections[Max(mine)].source
  BY <1>9 DEF Analyzers
<1> HIDE DEF mine
<1> QED BY <1>1, <1>2, <1>8, <1>10

LEMMA TruncationsAreFound ==
  ASSUME NEW i \in FederatedInputs, FederatedAccepted(i.schemas, i.schemas[i.on], i.query),
         NEW j \in DOMAIN i.schemas[SourceOf(i.schemas[i.on], i.query)].types,
         "TIMESTAMP" \in ToSet(i.schemas[SourceOf(i.schemas[i.on], i.query)].types[j])
  PROVE  TypeWarnings(i.schemas[SourceOf(i.schemas[i.on], i.query)].types[j])
<1> DEFINE source == SourceOf(i.schemas[i.on], i.query)
           types  == i.schemas[source].types
           type   == types[j]
<1>1. source \in DOMAIN i.schemas /\ Analyzers(i.schemas[i.on])[i.query.connection] = source
  BY OneEntry
<1>2. HasBigQueryType(type)
  BY <1>1 DEF FederatedAccepted, ToSet
<1>3. type \in Texts
  <2>1. types \in Seq(Texts \ {<<>>})
    BY <1>1, FederatedInputsAreQueries
  <2>2. \A r \in DOMAIN types : types[r] \in Texts
    <3> HIDE DEF types
    <3> QED BY <2>1
  <2> QED BY <2>2
<1>4. PICK k \in 1..Len(type) : type[k] = "TIMESTAMP"
  <2>1. "TIMESTAMP" \in ToSet(type)
    OBVIOUS
  <2> HIDE DEF type
  <2>2. DOMAIN type = 1..Len(type)
    BY <1>3 DEF Texts
  <2> QED BY <2>1, <2>2 DEF ToSet
<1> HIDE DEF type
<1>5. Len(type) \in Nat
  BY <1>3 DEF Texts
<1>6. k = Len(type)
  BY <1>2, <1>4, <1>5 DEF HasBigQueryType, ArraysOnly
<1>7. ArraysOnly(type) /\ Last(type) = "TIMESTAMP"
  BY <1>2, <1>4, <1>6 DEF HasBigQueryType, Last
<1> QED BY <1>7 DEF TypeWarnings, type

-----------------------------------------------------------------------------
(* External datasets *)

LEMMA LowerTwice ==
  \A n : Lower(Lower(n)) = Lower(n) /\ (Lower(n) = "" <=> n = "")
<1>1. "" \notin DOMAIN LowerOf
  BY LowerCase DEF Words
<1> QED BY <1>1, LowerCase DEF Lower

LEMMA LeastOf ==
  ASSUME NEW n \in Nat, NEW S, S \subseteq 1..n, S # {}
  PROVE  Min(S) \in S
<1>1. PICK m \in S : \A j \in S : m <= j
  <2> SUFFICES ASSUME \A m \in S : \E j \in S : j < m PROVE FALSE
    OBVIOUS
  <2> DEFINE A == {i \in 0..n : \A j \in S : i < j}
  <2>1. 0 \in A
    OBVIOUS
  <2>2. ASSUME NEW i \in A, i < n PROVE i + 1 \in A
    <3>1. i + 1 \notin S
      <4> SUFFICES ASSUME i + 1 \in S PROVE FALSE
        OBVIOUS
      <4>1. PICK j \in S : j < i + 1
        OBVIOUS
      <4>2. i < j /\ i \in Nat /\ j \in Nat
        OBVIOUS
      <4> QED BY <4>1, <4>2
    <3>2. \A j \in S : i < j /\ j # i + 1 /\ j \in Nat
      BY <3>1
    <3> QED BY <2>2, <3>2
  <2>3. \A i \in A : i \in Nat /\ i < n => i + 1 \in A
    BY <2>2
  <2>4. n \in A
    <3> HIDE DEF A
    <3> QED BY <2>1, <2>3, UpTo
  <2>5. PICK j \in S : TRUE
    OBVIOUS
  <2> QED BY <2>4, <2>5
<1> QED BY <1>1 DEF Min

LEMMA MembersOf ==
  ASSUME NEW S, NEW q \in Seq(S)
  PROVE  \A i \in DOMAIN q : q[i] \in S
OBVIOUS

LEMMA ColumnRuleIs ==
  ASSUME NEW column
  PROVE  /\ Why(column) = "hidden" => ColumnRule(column) = "hidden-column"
         /\ Why(column) = "unsupported" => ColumnRule(column) = "unsupported-column"
         /\ Why(column) = "" /\ column.type = <<"TIMESTAMP">> => ColumnRule(column) = "timestamp-caveat"
         /\ Why(column) = "" /\ column.type = <<"NUMERIC">> => ColumnRule(column) = "numeric-caveat"
<1>1. <<"TIMESTAMP">> # <<"NUMERIC">>
  <2>1. <<"TIMESTAMP">>[1] # <<"NUMERIC">>[1]
    OBVIOUS
  <2> QED BY <2>1
<1> DEFINE why == Why(column)
           type == column.type
<1>2. ColumnRule(column) =
        CASE why = "hidden"                              -> "hidden-column"
          [] why = "unsupported"                         -> "unsupported-column"
          [] why = "" /\ type = <<"TIMESTAMP">>          -> "timestamp-caveat"
          [] why = "" /\ type = <<"NUMERIC">>            -> "numeric-caveat"
          [] OTHER                                       -> ""
  BY DEF ColumnRule
<1> HIDE DEF why, type
<1>3. /\ why = "hidden" => ColumnRule(column) = "hidden-column"
      /\ why = "unsupported" => ColumnRule(column) = "unsupported-column"
      /\ why = "" /\ type = <<"TIMESTAMP">> => ColumnRule(column) = "timestamp-caveat"
      /\ why = "" /\ type = <<"NUMERIC">> => ColumnRule(column) = "numeric-caveat"
  BY <1>1, <1>2
<1> QED BY <1>3 DEF why, type

\* What is accepted passes every check.
LEMMA ChecksPass ==
  ASSUME NEW d, DatasetAccepted(d)
  PROVE  /\ SuppressionsValid(d) /\ EvidenceInOnePlace(d) /\ EvidenceNormalizes(EvidenceOf(d)) /\ LocationsAgree(d)
         /\ \A i \in DOMAIN d.tables : TableRefusal(d, d.tables[i]) = ""
<1>1. \A i \in DOMAIN Checks(d) : Checks(d)[i][1]
  BY DEF DatasetAccepted, FailedChecks
<1>2. DOMAIN Checks(d) = 1..11
  BY DEF Checks
<1>3. SuppressionsValid(d) /\ EvidenceInOnePlace(d)
  <2>1. Checks(d)[1][1] /\ Checks(d)[2][1]
    BY <1>1, <1>2
  <2> QED BY <2>1 DEF Checks
<1>4. EvidenceNormalizes(EvidenceOf(d)) /\ LocationsAgree(d)
  <2>1. Checks(d)[10][1] /\ Checks(d)[11][1]
    BY <1>1, <1>2
  <2> QED BY <2>1 DEF Checks
<1>5. \A i \in DOMAIN d.tables : TableRefusal(d, d.tables[i]) = ""
  BY DEF DatasetAccepted, RefusedTables
<1> QED BY <1>3, <1>4, <1>5

\* Evidence is written in one place at most.
LEMMA EvidenceIsWhatWasWritten ==
  ASSUME NEW d \in DatasetInputs, EvidenceInOnePlace(d)
  PROVE  /\ EvidenceOf(d) \in EvidenceType
         /\ {Lower(e.status) : e \in {d.access.evidence, d.evidence}} \ {""} = {Lower(EvidenceOf(d).status)} \ {""}
         /\ EvidenceOf(d) \in {d.access.evidence, d.evidence}
<1>1. d.evidence \in EvidenceType /\ d.access.evidence \in EvidenceType
  BY DatasetInputsAreSettings DEF AccessType
<1>2. EvidenceOf(d) \in {d.access.evidence, d.evidence}
  BY DEF EvidenceOf
<1>3. Lower(NoEvidence.status) = ""
  BY LowerTwice DEF NoEvidence
<1>4. d.access.evidence = NoEvidence \/ d.evidence = NoEvidence
  BY DEF EvidenceInOnePlace
<1> QED BY <1>1, <1>2, <1>3, <1>4 DEF EvidenceOf

LEMMA EvidenceIsKept ==
  ASSUME NEW d \in DatasetInputs, DatasetAccepted(d)
  PROVE  LET written == {Lower(e.status) : e \in {d.access.evidence, d.evidence}} \ {""}
             v       == Verification(EvidenceOf(d))
             rules   == EvidenceRules(d) \cup ConnectionRules(d)
         IN  /\ written \subseteq {v.status} /\ (written = {} => v.status = "not_checked")
             /\ v.status # "not_checked" => v.verifier # "" /\ v.checkedAt # "" /\ v.volatile
             /\ v.status = "verified" <=>
                  rules \cap {"access-unverified", "access-verification-mismatch", "access-verification-failed"} = {}
             /\ {d.access.evidence.source, d.evidence.source} = {""} =>
                  ~v.byGenerator /\ (v.source = "" <=> v.status = "not_checked")
<1> DEFINE e == EvidenceOf(d)
           v == Verification(e)
           s == StatusOf(e)
           written == {Lower(x.status) : x \in {d.access.evidence, d.evidence}} \ {""}
           rules == EvidenceRules(d) \cup ConnectionRules(d)
<1>1. EvidenceInOnePlace(d) /\ EvidenceNormalizes(e)
  BY ChecksPass
<1>2. v.status = s /\ v.verifier = e.verifier /\ v.checkedAt = e.checkedAt /\ v.source = SourceFor(Lower(e.source), s)
      /\ v.byGenerator = (v.source = "live_probe") /\ v.volatile = (e.checkedAt # "")
  BY DEF Verification
<1>3. s \in {"verified", "mismatch", "failed", "not_checked"} /\ (s # "not_checked" => e.verifier # "" /\ e.checkedAt # "")
  BY <1>1 DEF EvidenceNormalizes, Decided
<1>4. written = {Lower(e.status)} \ {""} /\ (Lower(e.status) = "" <=> e.status = "")
  BY <1>1, EvidenceIsWhatWasWritten, LowerTwice
<1>5. s = IF e.status = "" THEN "not_checked" ELSE Lower(e.status)
  <2>1. Lower("not_checked") = "not_checked"
    BY WordsAreLower DEF Words
  <2> QED BY <2>1 DEF StatusOf, OrElse
<1>6. v.status = "verified" <=>
        rules \cap {"access-unverified", "access-verification-mismatch", "access-verification-failed"} = {}
  BY <1>2, <1>3 DEF EvidenceRules, ConnectionRules, Rule
<1>7. ASSUME {d.access.evidence.source, d.evidence.source} = {""}
      PROVE  ~v.byGenerator /\ (v.source = "" <=> v.status = "not_checked")
  <2>1. e.source = "" /\ Lower(e.source) = ""
    BY <1>1, <1>7, EvidenceIsWhatWasWritten, LowerTwice
  <2>2. SourceFor("", s) = IF s = "not_checked" THEN "" ELSE "external_evidence"
    BY DEF SourceFor
  <2> HIDE DEF v, s, e
  <2> QED BY <1>2, <2>1, <2>2
<1> HIDE DEF e, v, s, written, rules
<1>8. written \subseteq {v.status} /\ (written = {} => v.status = "not_checked")
  BY <1>2, <1>4, <1>5
<1>9. v.status # "not_checked" => v.verifier # "" /\ v.checkedAt # "" /\ v.volatile
  BY <1>2, <1>3
<1> QED BY <1>6, <1>7, <1>8, <1>9 DEF e, v, written, rules

LEMMA RoleIsKept ==
  ASSUME NEW d \in DatasetInputs
  PROVE  LET role  == RoleOf(d)
             roles == {d.role, d.access.role, RoleInURI(d.uri)} \ {""}
         IN  /\ (role = "" <=> roles = {}) /\ (roles # {} => role \in roles)
             /\ role # "" /\ StatusOf(EvidenceOf(d)) = "not_checked" => "role-visibility-not-verified" \in EvidenceRules(d)
<1>1. RoleOf(d) = IF d.access.role # "" THEN d.access.role ELSE IF d.role # "" THEN d.role ELSE RoleInURI(d.uri)
  BY DEF RoleOf, RoleWritten, OrElse
<1>2. RoleOf(d) # "" /\ StatusOf(EvidenceOf(d)) = "not_checked" => "role-visibility-not-verified" \in EvidenceRules(d)
  BY DEF EvidenceRules, Rule
<1> QED BY <1>1, <1>2

LEMMA ConnectionIsKept ==
  ASSUME NEW d, DatasetAccepted(d)
  PROVE  LET c == ConnectionUsed(d)
         IN  /\ Readable(c) /\ d.location # "" => Lower(c[2]) = Lower(d.location)
             /\ c # <<>> /\ ~Readable(c) => "connection-id-unparsed" \in ConnectionRules(d)
             /\ c = <<>> => {d.access.connection, d.cloudConnection, d.connection} = {<<>>}
<1>1. LocationsAgree(d)
  BY ChecksPass
<1>2. ConnectionUsed(d) = <<>> => {d.access.connection, d.cloudConnection, d.connection} = {<<>>}
  BY DEF ConnectionUsed, OrConnection
<1>3. ConnectionUsed(d) # <<>> /\ ~Readable(ConnectionUsed(d)) => "connection-id-unparsed" \in ConnectionRules(d)
  BY DEF ConnectionRules, Rule
<1>4. Readable(ConnectionUsed(d)) /\ d.location # "" => Lower(ConnectionUsed(d)[2]) = Lower(d.location)
  BY <1>1 DEF LocationsAgree, CanonicalLocation
<1> QED BY <1>2, <1>3, <1>4

LEMMA PoliciesRefuse ==
  \A x, default : Lower(x) = "error" => Policy(x, default) = "error"
BY LowerTwice DEF Policy, OrElse

LEMMA ColumnsAreAccountedFor ==
  ASSUME NEW d \in DatasetInputs, DatasetAccepted(d), NEW i \in DOMAIN d.tables
  PROVE  LET t == d.tables[i]
             p == ProjectedTable(t)
         IN  IF ~p.visible THEN p.rules = {"named-schema-table-omitted"} /\ Lower(d.named) # "error"
             ELSE \A j \in DOMAIN t.columns :
                    /\ j \in p.columns => ~t.columns[j].hidden
                         /\ (t.columns[j].type = <<"TIMESTAMP">> => "timestamp-caveat" \in p.rules)
                         /\ (t.columns[j].type = <<"NUMERIC">> => "numeric-caveat" \in p.rules)
                    /\ j \notin p.columns =>
                         /\ t.columns[j].name \in p.omitted
                         /\ t.columns[j].hidden => "hidden-column" \in p.rules
                         /\ ~t.columns[j].hidden => "unsupported-column" \in p.rules /\ Lower(d.unsupported) # "error"
<1> DEFINE t == d.tables[i]
           p == ProjectedTable(t)
<1>1. TableRefusal(d, t) = ""
  BY ChecksPass
<1>2. ~InDefault(t) => Policy(d.named, "warn_and_omit") # "error"
  BY <1>1 DEF TableRefusal
<1>3. InDefault(t) /\ HasUnsupported(t) => Policy(d.unsupported, "omit") # "error"
  BY <1>1 DEF TableRefusal
<1>4. p.visible = InDefault(t) /\ p.rules = TableRules(t)
  BY DEF ProjectedTable
<1>5. CASE ~InDefault(t)
  BY <1>2, <1>4, <1>5, PoliciesRefuse DEF TableRules
<1>6. CASE InDefault(t)
  <2>1. p.columns = {j \in DOMAIN t.columns : Why(t.columns[j]) = ""}
    BY <1>6 DEF ProjectedTable
  <2>2. p.omitted = {t.columns[j].name : j \in {k \in DOMAIN t.columns : Why(t.columns[k]) # ""}}
    BY <1>6 DEF ProjectedTable
  <2>3. p.rules = {ColumnRule(t.columns[j]) : j \in DOMAIN t.columns} \ {""}
    BY <1>4, <1>6 DEF TableRules
  <2> HIDE DEF p
  <2> SUFFICES ASSUME NEW j \in DOMAIN t.columns
               PROVE  /\ j \in p.columns => ~t.columns[j].hidden
                           /\ (t.columns[j].type = <<"TIMESTAMP">> => "timestamp-caveat" \in p.rules)
                           /\ (t.columns[j].type = <<"NUMERIC">> => "numeric-caveat" \in p.rules)
                      /\ j \notin p.columns =>
                           /\ t.columns[j].name \in p.omitted
                           /\ t.columns[j].hidden => "hidden-column" \in p.rules
                           /\ ~t.columns[j].hidden => "unsupported-column" \in p.rules /\ Lower(d.unsupported) # "error"
    BY <1>4, <1>6 DEF p
  <2> DEFINE column == t.columns[j]
             why    == Why(column)
             rule   == ColumnRule(column)
  <2>4. column.hidden \in BOOLEAN
    <3>1. d.tables \in Seq(TableType)
      BY DatasetInputsAreSettings
    <3>2. t \in TableType
      <4> HIDE DEF t, column
      <4> QED BY <3>1 DEF t
    <3>3. t.columns \in Seq([name : STRING, type : Texts \ {<<>>}, hidden : BOOLEAN])
      BY <3>2 DEF TableType
    <3>4. column \in [name : STRING, type : Texts \ {<<>>}, hidden : BOOLEAN]
      <4> DEFINE S == [name : STRING, type : Texts \ {<<>>}, hidden : BOOLEAN]
      <4>1. t.columns \in Seq(S) /\ j \in DOMAIN t.columns
        BY <3>3
      <4> HIDE DEF S, t
      <4>2. t.columns[j] \in S
        BY <4>1, MembersOf
      <4> QED BY <4>2 DEF S
    <3> QED BY <3>4
  <2>5. /\ column.hidden => why = "hidden"
        /\ ~column.hidden /\ ~HasBigQueryType(column.type) => why = "unsupported"
        /\ ~column.hidden /\ HasBigQueryType(column.type) => why = ""
    BY <2>4 DEF Why
  <2>6. /\ why = "hidden" => rule = "hidden-column"
        /\ why = "unsupported" => rule = "unsupported-column"
        /\ why = "" /\ column.type = <<"TIMESTAMP">> => rule = "timestamp-caveat"
        /\ why = "" /\ column.type = <<"NUMERIC">> => rule = "numeric-caveat"
    BY ColumnRuleIs
  <2>7. rule # "" => rule \in p.rules
    BY <2>3
  <2>8. why = "unsupported" => Lower(d.unsupported) # "error"
    BY <1>3, <1>6, PoliciesRefuse DEF HasUnsupported
  <2>9. (j \in p.columns <=> why = "") /\ (why # "" => column.name \in p.omitted)
    BY <2>1, <2>2
  <2> HIDE DEF column, why, rule
  <2>10. why = "" \/ why = "hidden" \/ why = "unsupported"
    BY <2>4, <2>5
  <2>11. /\ j \in p.columns => ~column.hidden
              /\ (column.type = <<"TIMESTAMP">> => "timestamp-caveat" \in p.rules)
              /\ (column.type = <<"NUMERIC">> => "numeric-caveat" \in p.rules)
         /\ j \notin p.columns =>
              /\ column.name \in p.omitted
              /\ column.hidden => "hidden-column" \in p.rules
              /\ ~column.hidden => "unsupported-column" \in p.rules /\ Lower(d.unsupported) # "error"
    BY <2>4, <2>5, <2>6, <2>7, <2>8, <2>9, <2>10
  <2> QED BY <2>11 DEF column
<1> QED BY <1>5, <1>6

LEMMA VetTells ==
  ASSUME NEW d \in DatasetInputs
  PROVE  /\ Vet(d).fails <=> ~DatasetAccepted(d)
         /\ ~DatasetAccepted(d) => \E x \in Vet(d).diagnostics : x.severity = "error" /\ ~x.suppressible /\ ~x.suppressed
         /\ DatasetAccepted(d) => \A r \in WarningRules(Binding(d)) :
              \E x \in Vet(d).diagnostics :
                /\ x.rule = r
                /\ x.suppressed => x.reason # "" /\ [rule |-> r, reason |-> x.reason] \in Vet(d).suppressions
                /\ ~x.suppressed => x \in Vet(d).warnings /\ \A s \in ToSet(d.suppressions) : s.rule # r
<1> DEFINE left == {x \in Diagnostics(d) : ~x.suppressed}
<1>1. /\ Vet(d).diagnostics = Diagnostics(d) /\ Vet(d).warnings = {x \in left : x.suppressible}
      /\ Vet(d).suppressions = IF DatasetAccepted(d) THEN ToSet(d.suppressions) ELSE {}
      /\ Vet(d).fails <=> \E x \in left : x.severity = "error"
  BY DEF Vet
<1>2. CASE ~DatasetAccepted(d)
  <2> DEFINE x == PlanningError(Refusal(d))
  <2>1. Diagnostics(d) = {x}
    BY <1>2 DEF Diagnostics
  <2>2. x.severity = "error" /\ ~x.suppressible /\ ~x.suppressed
    BY DEF PlanningError
  <2> HIDE DEF x
  <2> QED BY <1>1, <1>2, <2>1, <2>2
<1>3. CASE DatasetAccepted(d)
  <2>1. Diagnostics(d) = {Diagnostic(d, r) : r \in WarningRules(Binding(d))}
    BY <1>3 DEF Diagnostics
  <2>2. \A r : Diagnostic(d, r).severity # "error"
    BY DEF Diagnostic, Severity
  <2>3. ~Vet(d).fails
    <3> HIDE DEF left
    <3>1. \A x \in Diagnostics(d) : x.severity # "error"
      BY <2>1, <2>2
    <3> QED BY <1>1, <3>1 DEF left
  <2>4. ASSUME NEW r \in WarningRules(Binding(d))
        PROVE  \E x \in Vet(d).diagnostics :
                 /\ x.rule = r
                 /\ x.suppressed => x.reason # "" /\ [rule |-> r, reason |-> x.reason] \in Vet(d).suppressions
                 /\ ~x.suppressed => x \in Vet(d).warnings /\ \A s \in ToSet(d.suppressions) : s.rule # r
    <3> DEFINE x  == Diagnostic(d, r)
               by == SuppressionsOf(d, r)
               first == d.suppressions[Min(by)]
    <3>1. x.rule = r /\ x.suppressible /\ (x.suppressed <=> by # {}) /\ x.reason = IF by = {} THEN "" ELSE first.reason
      BY DEF Diagnostic
    <3>2. x \in Vet(d).diagnostics
      BY <1>1, <2>1
    <3>3. d.suppressions \in Seq([rule : STRING, reason : STRING])
      BY DatasetInputsAreSettings
    <3>4. CASE by = {}
      <4>1. \A s \in ToSet(d.suppressions) : s.rule # r
        BY <3>4 DEF SuppressionsOf, ToSet
      <4>2. x \in Vet(d).warnings
        <5> HIDE DEF x
        <5> QED BY <1>1, <3>1, <3>2, <3>4
      <4> HIDE DEF x
      <4> QED BY <3>1, <3>2, <3>4, <4>1, <4>2
    <3>5. CASE by # {}
      <4>1. by \subseteq 1..Len(d.suppressions) /\ Len(d.suppressions) \in Nat
        BY <3>3 DEF SuppressionsOf
      <4>2. Min(by) \in by
        <5> HIDE DEF by
        <5> QED BY <3>5, <4>1, LeastOf
      <4>3. Min(by) \in DOMAIN d.suppressions /\ first.rule = r
        BY <4>2 DEF SuppressionsOf
      <4>4. first \in ToSet(d.suppressions) /\ first \in [rule : STRING, reason : STRING]
        <5> DEFINE S == [rule : STRING, reason : STRING]
        <5>1. d.suppressions \in Seq(S)
          BY <3>3
        <5> HIDE DEF by, S
        <5>2. first \in S
          BY <4>3, <5>1, MembersOf
        <5> QED BY <4>3, <5>2 DEF S, ToSet
      <4>5. first.reason # ""
        <5>1. SuppressionsValid(d)
          BY <1>3, ChecksPass
        <5> HIDE DEF first
        <5> QED BY <4>4, <5>1 DEF SuppressionsValid
      <4>6. first = [rule |-> r, reason |-> first.reason]
        <5> HIDE DEF first
        <5> QED BY <4>3, <4>4 DEF first
      <4>7. [rule |-> r, reason |-> x.reason] \in Vet(d).suppressions
        <5> HIDE DEF x, first, by
        <5> QED BY <1>1, <1>3, <3>1, <3>5, <4>4, <4>6
      <4> HIDE DEF x, first, by
      <4> QED BY <3>1, <3>2, <3>5, <4>5, <4>7
    <3> QED BY <3>4, <3>5
  <2> QED BY <1>3, <2>3, <2>4
<1> QED BY <1>2, <1>3

\* With another time of the evidence, nothing else is other.
LEMMA CheckedAtAnotherTime ==
  ASSUME NEW d \in DatasetInputs, NEW time, time # ""
  PROVE  LET c == Checked(d, time)
             e == EvidenceOf(d)
             f == EvidenceOf(c)
         IN  /\ c.role = d.role /\ c.uri = d.uri /\ c.location = d.location /\ c.connection = d.connection
             /\ c.cloudConnection = d.cloudConnection /\ c.tables = d.tables
             /\ c.access.role = d.access.role /\ c.access.connection = d.access.connection /\ c.access.mode = d.access.mode
             /\ f.status = e.status /\ f.source = e.source /\ f.verifier = e.verifier /\ f.checkedAt = time
<1> DEFINE c == Checked(d, time)
<1>1. d.evidence \in EvidenceType /\ d.access \in AccessType /\ d.access.evidence \in EvidenceType
  BY DatasetInputsAreSettings DEF AccessType
<1>2. CASE d.access.evidence = NoEvidence
  <2> DEFINE f == [d.evidence EXCEPT !.checkedAt = time]
  <2>1. c = [d EXCEPT !.evidence = f]
    BY <1>2 DEF Checked
  <2>2. /\ c.role = d.role /\ c.uri = d.uri /\ c.location = d.location /\ c.connection = d.connection
        /\ c.cloudConnection = d.cloudConnection /\ c.tables = d.tables /\ c.access = d.access /\ c.evidence = f
    <3> HIDE DEF c, f
    <3> QED BY <2>1, DatasetInputsAreSettings
  <2>3. f.status = d.evidence.status /\ f.source = d.evidence.source /\ f.verifier = d.evidence.verifier /\ f.checkedAt = time
    BY <1>1 DEF EvidenceType
  <2>4. EvidenceOf(d) = d.evidence /\ EvidenceOf(c) = f
    <3> HIDE DEF c, f
    <3> QED BY <1>2, <2>2 DEF EvidenceOf
  <2> HIDE DEF c, f
  <2> QED BY <2>2, <2>3, <2>4 DEF c
<1>3. CASE d.access.evidence # NoEvidence
  <2> DEFINE f == [d.access.evidence EXCEPT !.checkedAt = time]
             a == [d.access EXCEPT !.evidence = f]
  <2>1. c = [d EXCEPT !.access = a]
    BY <1>3 DEF Checked
  <2>2. /\ c.role = d.role /\ c.uri = d.uri /\ c.location = d.location /\ c.connection = d.connection
        /\ c.cloudConnection = d.cloudConnection /\ c.tables = d.tables /\ c.access = a
    <3> HIDE DEF c, a
    <3> QED BY <2>1, DatasetInputsAreSettings
  <2>3. a.role = d.access.role /\ a.connection = d.access.connection /\ a.mode = d.access.mode /\ a.evidence = f
    <3> HIDE DEF f
    <3> QED BY <1>1 DEF AccessType
  <2>4. /\ f.status = d.access.evidence.status /\ f.source = d.access.evidence.source
        /\ f.verifier = d.access.evidence.verifier /\ f.checkedAt = time
    BY <1>1 DEF EvidenceType
  <2>5. f # NoEvidence
    <3>1. NoEvidence.checkedAt = ""
      BY DEF NoEvidence
    <3> HIDE DEF f
    <3> QED BY <2>4, <3>1
  <2>6. EvidenceOf(d) = d.access.evidence /\ EvidenceOf(c) = f
    <3> HIDE DEF c, a, f
    <3> QED BY <1>3, <2>2, <2>3, <2>5 DEF EvidenceOf
  <2> HIDE DEF c, a, f
  <2> QED BY <2>2, <2>3, <2>4, <2>6 DEF c
<1> QED BY <1>2, <1>3

LEMMA ForgottenTime ==
  ASSUME NEW v, NEW w, DOMAIN v = DOMAIN w, \A x \in DOMAIN v : x \notin {"checkedAt", "volatile"} => v[x] = w[x]
  PROVE  [v EXCEPT !.checkedAt = "", !.volatile = FALSE] = [w EXCEPT !.checkedAt = "", !.volatile = FALSE]
BY Zenon

LEMMA StableForgetsTime ==
  ASSUME NEW d \in DatasetInputs, Verification(EvidenceOf(d)).volatile, NEW time, time # ""
  PROVE  Stable(Binding(Checked(d, time))) = Stable(Binding(d))
<1> DEFINE c == Checked(d, time)
           e == EvidenceOf(d)
           f == EvidenceOf(c)
           v == Verification(e)
           w == Verification(f)
           Forget(x) == [x EXCEPT !.checkedAt = "", !.volatile = FALSE]
<1>1. /\ c.role = d.role /\ c.uri = d.uri /\ c.location = d.location /\ c.connection = d.connection
      /\ c.cloudConnection = d.cloudConnection /\ c.tables = d.tables
      /\ c.access.role = d.access.role /\ c.access.connection = d.access.connection /\ c.access.mode = d.access.mode
      /\ f.status = e.status /\ f.source = e.source /\ f.verifier = e.verifier /\ f.checkedAt = time
  BY CheckedAtAnotherTime
<1> HIDE DEF c, e, f
<1>2. StatusOf(f) = StatusOf(e)
  BY <1>1 DEF StatusOf
<1>3. Forget(w) = Forget(v) /\ w.volatile
  <2>1. DOMAIN v = {"status", "source", "verifier", "checkedAt", "byGenerator", "volatile"} /\ DOMAIN w = DOMAIN v
    BY DEF Verification
  <2>2. v.status = w.status /\ v.source = w.source /\ v.verifier = w.verifier
    BY <1>1, <1>2 DEF Verification
  <2>3. v["byGenerator"] = w["byGenerator"]
    BY <1>1, <1>2 DEF Verification
  <2>4. w.volatile
    BY <1>1 DEF Verification
  <2> HIDE DEF v, w
  <2>5. \A x \in DOMAIN v : x \notin {"checkedAt", "volatile"} => v[x] = w[x]
    BY <2>1, <2>2, <2>3
  <2> QED BY <2>1, <2>4, <2>5, ForgottenTime
<1>4. RoleOf(c) = RoleOf(d) /\ RoleSource(c) = RoleSource(d) /\ ConnectionUsed(c) = ConnectionUsed(d)
      /\ EvidenceRules(c) = EvidenceRules(d) /\ ConnectionRules(c) = ConnectionRules(d)
  <2>1. RoleOf(c) = RoleOf(d) /\ RoleWritten(c) = RoleWritten(d) /\ ConnectionUsed(c) = ConnectionUsed(d)
        /\ AccessMode(c) = AccessMode(d)
    BY <1>1 DEF RoleOf, RoleWritten, ConnectionUsed, AccessMode
  <2>2. RoleSource(c) = RoleSource(d)
    BY <1>1, <2>1 DEF RoleSource
  <2>3. ConnectionRules(c) = ConnectionRules(d)
    BY <2>1 DEF ConnectionRules
  <2>4. EvidenceRules(c) = EvidenceRules(d)
    BY <1>1, <1>2, <2>1 DEF EvidenceRules, e, f
  <2> QED BY <2>1, <2>2, <2>3, <2>4
<1> DEFINE B(x) == [verification |-> x, role |-> RoleOf(d), roleSource |-> RoleSource(d), connection |-> ConnectionUsed(d),
                    location |-> CanonicalLocation(d.location), located |-> Readable(ConnectionUsed(d)) /\ d.location # "",
                    rules |-> EvidenceRules(d) \cup ConnectionRules(d),
                    tables |-> [i \in DOMAIN d.tables |-> ProjectedTable(d.tables[i])]]
<1>5. Binding(d) = B(v)
  BY DEF Binding, e
<1>6. Binding(c) = B(w)
  BY <1>1, <1>4 DEF Binding, f
<1>7. Stable(B(v)) = B(Forget(v)) /\ Stable(B(w)) = B(Forget(w))
  <2>1. v.volatile
    BY DEF e
  <2>2. ASSUME NEW x, x.volatile PROVE Stable(B(x)) = B(Forget(x))
    <3> DEFINE located == Readable(ConnectionUsed(d)) /\ d.location # ""
               tables  == [i \in DOMAIN d.tables |-> ProjectedTable(d.tables[i])]
               rules   == EvidenceRules(d) \cup ConnectionRules(d)
    <3> HIDE DEF located, tables, rules
    <3>1. B(x) = [verification |-> x, role |-> RoleOf(d), roleSource |-> RoleSource(d), connection |-> ConnectionUsed(d),
                  location |-> CanonicalLocation(d.location), located |-> located, rules |-> rules, tables |-> tables]
      BY DEF located, tables, rules
    <3>2. B(Forget(x)) = [verification |-> Forget(x), role |-> RoleOf(d), roleSource |-> RoleSource(d),
                          connection |-> ConnectionUsed(d), location |-> CanonicalLocation(d.location),
                          located |-> located, rules |-> rules, tables |-> tables]
      BY DEF located, tables, rules
    <3> DEFINE R(v2) ==
                 [verification |-> v2, role |-> RoleOf(d), roleSource |-> RoleSource(d), connection |-> ConnectionUsed(d),
                  location |-> CanonicalLocation(d.location), located |-> located, rules |-> rules, tables |-> tables]
    <3>3. Stable(R(x)) = R(Forget(x))
      BY <2>2 DEF Stable
    <3> HIDE DEF B, R
    <3> QED BY <3>1, <3>2, <3>3 DEF R
  <2> HIDE DEF B, Forget, v, w
  <2> QED BY <1>3, <2>1, <2>2
<1> HIDE DEF v, w
<1> HIDE DEF B, Forget
<1> QED BY <1>3, <1>5, <1>6, <1>7 DEF c

-----------------------------------------------------------------------------
(* Counting variants *)

\* A number, 0 in place of one that exceeds the limit.
Limited(n) == IF n <= MaxVariants THEN n ELSE 0
\* Numbers [0..n] of which each is the one before times a width.
Multiplies(size, widths, n) ==
  /\ size \in [0..n -> Nat \ {0}] /\ widths \in [1..n -> Nat \ {0}]
  /\ size[0] = 1 /\ \A i \in 1..n : size[i] = size[i - 1] * widths[i]

LEMMA OneMore ==
  ASSUME NEW a \in Nat \ {0}, NEW w \in Nat \ {0}
  PROVE  Limited(a * w) = IF Limited(a) = 0 \/ Limited(a) > MaxVariants \div w THEN 0 ELSE Limited(a) * w
<1>1. MaxVariants \in Nat
  BY MaxVariantsAssumption
<1> DEFINE M == MaxVariants
<1> HIDE DEF M
<1>2. M \in Nat
  BY <1>1 DEF M
<1>3. (a > M \div w <=> a * w > M) /\ a * w \in Nat \ {0} /\ a * w >= a
  BY <1>2
<1>4. Limited(a) = IF a <= M THEN a ELSE 0
  BY DEF Limited, M
<1>5. Limited(a * w) = IF a * w <= M THEN a * w ELSE 0
  BY DEF Limited, M
<1> SUFFICES Limited(a * w) = IF Limited(a) = 0 \/ Limited(a) > M \div w THEN 0 ELSE Limited(a) * w
  BY DEF M
<1>6. CASE a <= M
  <2>1. Limited(a) = a /\ a # 0
    BY <1>4, <1>6
  <2>2. CASE a * w <= M
    <3>1. ~(a > M \div w)
      BY <1>2, <1>3, <2>2
    <3> QED BY <1>5, <2>1, <2>2, <3>1
  <2>3. CASE ~(a * w <= M)
    <3>1. a > M \div w
      BY <1>2, <1>3, <2>3
    <3> QED BY <1>5, <2>1, <2>3, <3>1
  <2> QED BY <2>2, <2>3
<1>7. CASE ~(a <= M)
  <2>1. Limited(a) = 0
    BY <1>4, <1>7
  <2> DEFINE b == a * w
  <2>2. ~(b <= M)
    <3>1. b \in Nat /\ b >= a
      BY <1>3
    <3> HIDE DEF b
    <3> QED BY <1>2, <1>7, <3>1
  <2> QED BY <1>5, <2>1, <2>2
<1> QED BY <1>6, <1>7

LEMMA ProductIsLimited ==
  ASSUME NEW n \in Nat, NEW size, NEW widths, Multiplies(size, widths, n)
  PROVE  Product(widths) = Limited(size[n])
<1> DEFINE F == [x \in Nat \X (1..n) |-> IF x[1] = 0 \/ x[1] > MaxVariants \div widths[x[2]] THEN 0 ELSE x[1] * widths[x[2]]]
           R(f) == [i \in 0..n |-> IF i = 0 THEN 1
                                   ELSE IF f[i - 1] = 0 \/ f[i - 1] > MaxVariants \div widths[i] THEN 0
                                   ELSE f[i - 1] * widths[i]]
<1>1. Len(widths) = n /\ 1 \in Nat
  <2>1. widths \in [1..n -> Nat \ {0}]
    BY DEF Multiplies
  <2>2. widths \in Seq(Nat \ {0})
    BY <2>1
  <2> QED BY <2>1, <2>2, LenProperties
<1>2. F \in [Nat \X (1..n) -> Nat]
  <2> SUFFICES ASSUME NEW a \in Nat, NEW i \in 1..n PROVE F[<<a, i>>] \in Nat
    OBVIOUS
  <2>1. widths[i] \in Nat
    BY DEF Multiplies
  <2>2. a * widths[i] \in Nat
    BY <2>1
  <2> QED BY <2>2
<1>3. PICK g : IsRun(g, n, Nat, 1, F)
  <2> HIDE DEF F
  <2> QED BY <1>1, <1>2, RunOf
<1>4. g \in [0..n -> Nat] /\ g[0] = 1
  BY <1>3 DEF IsRun
<1>5. \A i \in 1..n : g[i] = IF g[i - 1] = 0 \/ g[i - 1] > MaxVariants \div widths[i] THEN 0 ELSE g[i - 1] * widths[i]
  <2> SUFFICES ASSUME NEW i \in 1..n
               PROVE  g[i] = IF g[i - 1] = 0 \/ g[i - 1] > MaxVariants \div widths[i] THEN 0 ELSE g[i - 1] * widths[i]
    OBVIOUS
  <2>1. g[i] = F[<<g[i - 1], i>>] /\ g[i - 1] \in Nat
    <3> HIDE DEF F
    <3>1. i - 1 \in 0..n
      OBVIOUS
    <3> QED BY <1>3, <1>4, <3>1 DEF IsRun
  <2> QED BY <2>1
<1>6. g = R(g)
  <2>1. \A i \in 0..n : g[i] = R(g)[i]
    <3> SUFFICES ASSUME NEW i \in 0..n PROVE g[i] = R(g)[i]
      OBVIOUS
    <3>1. CASE i = 0
      BY <1>4, <3>1
    <3>2. CASE i # 0
      <4>1. i \in 1..n
        BY <3>2
      <4> QED BY <1>5, <3>2, <4>1
    <3> QED BY <3>1, <3>2
  <2>2. R(g) = [i \in 0..n |-> R(g)[i]]
    OBVIOUS
  <2>3. g = [i \in 0..n |-> g[i]]
    BY <1>4
  <2> HIDE DEF R
  <2> QED BY <2>1, <2>2, <2>3
<1> DEFINE T == CHOOSE f : f = R(f)
<1>7. T = R(T)
  <2> HIDE DEF R
  <2> QED BY <1>6
<1>8. Product(widths) = T[n]
  BY <1>1 DEF Product
<1>9. T[0] = 1 /\ \A i \in 1..n : T[i] = IF T[i - 1] = 0 \/ T[i - 1] > MaxVariants \div widths[i] THEN 0 ELSE T[i - 1] * widths[i]
  <2>1. \A i \in 0..n : T[i] = R(T)[i]
    <3> HIDE DEF R, T
    <3> QED BY <1>7
  <2> HIDE DEF T
  <2>2. 0 \in 0..n /\ \A i \in 1..n : i \in 0..n /\ i # 0
    OBVIOUS
  <2> QED BY <2>1, <2>2
<1> HIDE DEF T
<1>10. n \in {i \in 0..n : T[i] = Limited(size[i])}
  <2> DEFINE A == {i \in 0..n : T[i] = Limited(size[i])}
  <2>1. 0 \in A
    <3>1. Limited(1) = 1
      BY MaxVariantsAssumption DEF Limited
    <3> QED BY <1>9, <3>1 DEF Multiplies
  <2>2. ASSUME NEW i \in A, i \in Nat, i < n PROVE i + 1 \in A
    <3>1. i + 1 \in 1..n /\ i + 1 \in 0..n /\ (i + 1) - 1 = i /\ i \in 0..n
      BY <2>2
    <3>2. size[i + 1] = size[i] * widths[i + 1] /\ size[i] \in Nat \ {0} /\ widths[i + 1] \in Nat \ {0}
      BY <3>1 DEF Multiplies
    <3>3. T[i] = Limited(size[i])
      OBVIOUS
    <3>4. T[i + 1] = IF T[i] = 0 \/ T[i] > MaxVariants \div widths[i + 1] THEN 0 ELSE T[i] * widths[i + 1]
      BY <1>9, <3>1
    <3>5. Limited(size[i] * widths[i + 1]) = IF Limited(size[i]) = 0 \/ Limited(size[i]) > MaxVariants \div widths[i + 1]
                                             THEN 0 ELSE Limited(size[i]) * widths[i + 1]
      BY <3>2, OneMore
    <3>6. T[i + 1] = Limited(size[i + 1])
      BY <3>2, <3>3, <3>4, <3>5
    <3> QED BY <3>1, <3>6
  <2>3. \A i \in A : i \in Nat /\ i < n => i + 1 \in A
    BY <2>2
  <2> HIDE DEF A
  <2>4. n \in A
    BY <2>1, <2>3, UpTo
  <2> QED BY <2>4 DEF A
<1> QED BY <1>8, <1>10

\* Two products are within the limit together just where they are as the code
\* compares them.
LEMMA BothLimited ==
  ASSUME NEW a \in Nat \ {0}, NEW c \in Nat \ {0}
  PROVE  (Limited(a) # 0 /\ Limited(c) # 0 /\ Limited(a) <= MaxVariants \div Limited(c)) <=> a * c <= MaxVariants
<1> DEFINE M == MaxVariants
           b == a * c
<1>1. M \in Nat
  BY MaxVariantsAssumption
<1>2. (a > M \div c <=> b > M) /\ b \in Nat \ {0} /\ b >= a /\ b >= c /\ M \div c \in Nat
  <2> HIDE DEF M
  <2> QED BY <1>1
<1>3. Limited(a) = (IF a <= M THEN a ELSE 0) /\ Limited(c) = IF c <= M THEN c ELSE 0
  BY DEF Limited
<1> DEFINE q == M \div c
<1> HIDE DEF b, M, q
<1>4. CASE a <= M /\ c <= M
  <2>1. Limited(a) = a /\ Limited(c) = c
    BY <1>3, <1>4
  <2>2. q \in Nat /\ (a > q <=> b > M)
    BY <1>2 DEF q
  <2>3. a <= q <=> b <= M
    BY <1>1, <1>2, <2>2
  <2> QED BY <2>1, <2>3 DEF b, M, q
<1>5. CASE ~(a <= M /\ c <= M)
  <2>1. ~(b <= M)
    BY <1>1, <1>2, <1>5
  <2>2. Limited(a) = 0 \/ Limited(c) = 0
    BY <1>3, <1>5
  <2> QED BY <2>1, <2>2 DEF b, M
<1> QED BY <1>4, <1>5

\* The ways to take one value from each of the sets of a family.
Picks(D, T) == {c \in [T -> UNION {D[p] : p \in DOMAIN D}] : \A p \in T : c[p] \in D[p]}

LEMMA OneMoreAxis ==
  ASSUME NEW D, NEW T \in SUBSET DOMAIN D, NEW x \in DOMAIN D \ T, IsFiniteSet(Picks(D, T)), IsFiniteSet(D[x])
  PROVE  IsFiniteSet(Picks(D, T \cup {x})) /\ Cardinality(Picks(D, T \cup {x})) = Cardinality(Picks(D, T)) * Cardinality(D[x])
<1> DEFINE A == Picks(D, T) \X D[x]
           B == Picks(D, T \cup {x})
           U == UNION {D[p] : p \in DOMAIN D}
           f == [a \in A |-> [p \in T \cup {x} |-> IF p = x THEN a[2] ELSE a[1][p]]]
<1>1. IsFiniteSet(A) /\ Cardinality(A) = Cardinality(Picks(D, T)) * Cardinality(D[x])
  BY FS_Product
<1>2. ASSUME NEW c \in Picks(D, T), NEW v \in D[x]
      PROVE  /\ f[<<c, v>>] \in B /\ f[<<c, v>>][x] = v /\ \A p \in T : f[<<c, v>>][p] = c[p]
             /\ c = [p \in T |-> c[p]]
  <2>1. f[<<c, v>>] = [p \in T \cup {x} |-> IF p = x THEN v ELSE c[p]]
    OBVIOUS
  <2>2. c \in [T -> U] /\ \A p \in T : c[p] \in D[p]
    BY DEF Picks
  <2>3. v \in U
    OBVIOUS
  <2> DEFINE h == [p \in T \cup {x} |-> IF p = x THEN v ELSE c[p]]
  <2>4. \A p \in T \cup {x} : h[p] \in D[p] /\ h[p] \in U
    BY <2>2, <2>3
  <2>5. h \in [T \cup {x} -> U]
    BY <2>4
  <2>6. h \in B
    <3> HIDE DEF h
    <3> QED BY <2>4, <2>5 DEF Picks
  <2>7. h[x] = v /\ \A p \in T : h[p] = c[p]
    OBVIOUS
  <2> HIDE DEF f, B, h
  <2> QED BY <2>1, <2>2, <2>6, <2>7 DEF h
<1>3. f \in Injection(A, B)
  <2>1. f \in [A -> B]
    <3>1. \A a \in A : f[a] \in B
      <4> HIDE DEF f, B
      <4> QED BY <1>2
    <3> HIDE DEF B
    <3> QED BY <3>1
  <2>2. ASSUME NEW a \in A, NEW b \in A, f[a] = f[b] PROVE a = b
    <3>1. PICK c \in Picks(D, T), v \in D[x] : a = <<c, v>>
      OBVIOUS
    <3>2. PICK d \in Picks(D, T), w \in D[x] : b = <<d, w>>
      OBVIOUS
    <3> HIDE DEF f
    <3>3. v = w /\ \A p \in T : c[p] = d[p]
      BY <1>2, <2>2, <3>1, <3>2
    <3>4. c = [p \in T |-> c[p]] /\ d = [p \in T |-> d[p]]
      BY <1>2
    <3>5. c = d
      BY <3>3, <3>4
    <3> QED BY <3>1, <3>2, <3>3, <3>5
  <2> HIDE DEF f, A, B
  <2> QED BY <2>1, <2>2 DEF Injection, IsInjective
<1>4. f \in Surjection(A, B)
  <2>1. f \in [A -> B]
    BY <1>3 DEF Injection
  <2>2. ASSUME NEW b \in B PROVE \E a \in A : f[a] = b
    <3>1. b \in [T \cup {x} -> U] /\ \A p \in T \cup {x} : b[p] \in D[p]
      BY DEF Picks
    <3> DEFINE c == [p \in T |-> b[p]]
    <3>2. c \in Picks(D, T)
      BY <3>1 DEF Picks
    <3>3. b[x] \in D[x]
      BY <3>1
    <3>4. f[<<c, b[x]>>] = [p \in T \cup {x} |-> IF p = x THEN b[x] ELSE c[p]]
      BY <3>2, <3>3
    <3>5. b = [p \in T \cup {x} |-> IF p = x THEN b[x] ELSE c[p]]
      BY <3>1
    <3> HIDE DEF f, c
    <3> QED BY <3>2, <3>3, <3>4, <3>5
  <2> HIDE DEF f, A, B
  <2> QED BY <2>1, <2>2 DEF Surjection
<1>5. ExistsBijection(A, B)
  <2> HIDE DEF f, A, B
  <2> QED BY <1>3, <1>4 DEF ExistsBijection, Bijection
<1> HIDE DEF f, A
<1>6. IsFiniteSet(B) /\ Cardinality(B) = Cardinality(A)
  <2> HIDE DEF B
  <2> QED BY <1>1, <1>5, FS_Bijection
<1> QED BY <1>1, <1>6

LEMMA PicksAreLimited ==
  ASSUME NEW D, NEW n \in Nat, NEW e \in Bijection(1..n, DOMAIN D), \A p \in DOMAIN D : IsFiniteSet(D[p]) /\ D[p] # {}
  PROVE  /\ Cardinality(Picks(D, DOMAIN D)) \in Nat \ {0} /\ IsFiniteSet(Picks(D, DOMAIN D))
         /\ Product([i \in 1..n |-> Cardinality(D[e[i]])]) = Limited(Cardinality(Picks(D, DOMAIN D)))
<1>1. /\ e \in [1..n -> DOMAIN D] /\ \A i, j \in 1..n : e[i] = e[j] => i = j
      /\ \A p \in DOMAIN D : \E i \in 1..n : e[i] = p
  BY DEF Bijection, Injection, Surjection, IsInjective
<1>2. \A p \in DOMAIN D : Cardinality(D[p]) \in Nat \ {0}
  BY FS_CardinalityType, FS_EmptySet
<1> DEFINE T(k)   == {e[i] : i \in 1..k}
           size   == [k \in 0..n |-> Cardinality(Picks(D, T(k)))]
           widths == [i \in 1..n |-> Cardinality(D[e[i]])]
<1>3. IsFiniteSet(Picks(D, T(0))) /\ Cardinality(Picks(D, T(0))) = 1
  <2>1. T(0) = {}
    OBVIOUS
  <2> DEFINE z == [p \in {} |-> p]
  <2>2. Picks(D, {}) = {z}
    BY DEF Picks
  <2>3. IsFiniteSet({z}) /\ Cardinality({z}) = 1
    BY FS_Singleton
  <2>4. Picks(D, T(0)) = {z}
    <3> HIDE DEF z, T
    <3> QED BY <2>1, <2>2
  <2> HIDE DEF z, T
  <2> QED BY <2>3, <2>4
<1>4. ASSUME NEW k \in 0..n, k < n, IsFiniteSet(Picks(D, T(k)))
      PROVE  /\ IsFiniteSet(Picks(D, T(k + 1)))
             /\ Cardinality(Picks(D, T(k + 1))) = Cardinality(Picks(D, T(k))) * Cardinality(D[e[k + 1]])
  <2>1. k + 1 \in 1..n /\ \A i \in 1..k : i \in 1..n /\ i # k + 1
    BY <1>4
  <2>2. e[k + 1] \in DOMAIN D \ T(k) /\ T(k) \in SUBSET DOMAIN D
    BY <1>1, <2>1
  <2>3. T(k + 1) = T(k) \cup {e[k + 1]}
    <3>1. 1..(k + 1) = (1..k) \cup {k + 1}
      OBVIOUS
    <3> QED BY <3>1
  <2>4. IsFiniteSet(D[e[k + 1]])
    <3> HIDE DEF T
    <3> QED BY <2>2
  <2> HIDE DEF T
  <2> QED BY <1>4, <2>2, <2>3, <2>4, OneMoreAxis
<1>5. ASSUME NEW k \in 0..n PROVE IsFiniteSet(Picks(D, T(k)))
  <2> DEFINE A == {i \in 0..n : IsFiniteSet(Picks(D, T(i)))}
  <2> HIDE DEF T
  <2>1. 0 \in A
    BY <1>3
  <2>2. ASSUME NEW i \in A, i < k PROVE i + 1 \in A
    <3>1. i \in 0..n /\ i < n /\ i + 1 \in 0..n
      BY <2>2
    <3> QED BY <1>4, <3>1
  <2>3. \A i \in A : i \in Nat /\ i < k => i + 1 \in A
    BY <2>2
  <2>4. k \in Nat
    OBVIOUS
  <2> HIDE DEF A
  <2>5. k \in A
    BY <2>1, <2>3, <2>4, UpTo
  <2> QED BY <2>5 DEF A
<1>6. ASSUME NEW k \in 0..n PROVE Cardinality(Picks(D, T(k))) \in Nat \ {0}
  <2> DEFINE A == {i \in 0..n : Cardinality(Picks(D, T(i))) \in Nat \ {0}}
  <2> HIDE DEF T
  <2>1. 0 \in A
    BY <1>3
  <2>2. ASSUME NEW i \in A, i < k PROVE i + 1 \in A
    <3>1. i \in 0..n /\ i < n /\ i + 1 \in 0..n /\ i + 1 \in 1..n
      BY <2>2
    <3>2. Cardinality(Picks(D, T(i + 1))) = Cardinality(Picks(D, T(i))) * Cardinality(D[e[i + 1]])
      BY <1>4, <1>5, <3>1
    <3>3. Cardinality(D[e[i + 1]]) \in Nat \ {0}
      BY <1>1, <1>2, <3>1
    <3>4. Cardinality(Picks(D, T(i))) \in Nat \ {0}
      OBVIOUS
    <3>5. ASSUME NEW a \in Nat \ {0}, NEW b \in Nat \ {0} PROVE a * b \in Nat \ {0}
      OBVIOUS
    <3> QED BY <3>1, <3>2, <3>3, <3>4, <3>5
  <2>3. \A i \in A : i \in Nat /\ i < k => i + 1 \in A
    BY <2>2
  <2>4. k \in Nat
    OBVIOUS
  <2> HIDE DEF A
  <2>5. k \in A
    BY <2>1, <2>3, <2>4, UpTo
  <2> QED BY <2>5 DEF A
<1>7. Multiplies(size, widths, n)
  <2> HIDE DEF T
  <2>1. size \in [0..n -> Nat \ {0}] /\ size[0] = 1
    BY <1>3, <1>6
  <2>2. widths \in [1..n -> Nat \ {0}]
    BY <1>1, <1>2
  <2>3. ASSUME NEW i \in 1..n PROVE size[i] = size[i - 1] * widths[i]
    <3>1. i - 1 \in 0..n /\ i - 1 < n /\ (i - 1) + 1 = i /\ i \in 0..n
      OBVIOUS
    <3>2. Cardinality(Picks(D, T((i - 1) + 1))) = Cardinality(Picks(D, T(i - 1))) * Cardinality(D[e[(i - 1) + 1]])
      BY <1>4, <1>5, <3>1
    <3> QED BY <3>1, <3>2
  <2> HIDE DEF size, widths
  <2> QED BY <2>1, <2>2, <2>3 DEF Multiplies
<1>8. T(n) = DOMAIN D /\ n \in 0..n
  BY <1>1
<1>9. Product(widths) = Limited(size[n])
  <2> HIDE DEF size, widths
  <2> QED BY <1>7, ProductIsLimited
<1>10. size[n] = Cardinality(Picks(D, DOMAIN D))
  <2> HIDE DEF T
  <2> QED BY <1>8
<1> HIDE DEF T, size
<1> QED BY <1>5, <1>6, <1>8, <1>9, <1>10

LEMMA SetToSeqIs ==
  ASSUME NEW S, IsFiniteSet(S)
  PROVE  /\ Cardinality(S) \in Nat /\ SetToSeq(S) \in Bijection(1..Cardinality(S), S)
         /\ DOMAIN SetToSeq(S) = 1..Cardinality(S)
<1> DEFINE n == Cardinality(S)
<1>1. n \in Nat /\ ExistsBijection(1..n, S)
  BY FS_CardinalityType
<1> HIDE DEF n
<1>2. \E f \in [1..n -> S] : IsInjective(f)
  BY <1>1 DEF ExistsBijection, Bijection, Injection
<1> DEFINE g == CHOOSE f \in [1..n -> S] : IsInjective(f)
<1>3. g \in Injection(1..n, S)
  BY <1>2 DEF Injection
<1>4. SetToSeq(S) = g
  BY DEF SetToSeq, n
<1> HIDE DEF g
<1>5. IsFiniteSet(1..n) /\ Cardinality(1..n) = n
  <2>1. ASSUME NEW m \in Nat PROVE IsFiniteSet(1..m) /\ Cardinality(1..m) = m
    BY FS_Interval
  <2> QED BY <1>1, <2>1
<1>6. g \in Surjection(1..n, S)
  BY <1>3, <1>5, FS_Injection DEF n
<1>7. g \in [1..n -> S]
  BY <1>3 DEF Injection
<1> QED BY <1>1, <1>3, <1>4, <1>6, <1>7 DEF Bijection, n

\* A set of gates is a choice for each.
LEMMA SubsetsArePicks ==
  ASSUME NEW G, IsFiniteSet(G)
  PROVE  LET D == [p \in G |-> {0, 1}]
         IN  /\ Cardinality(SUBSET G) = Cardinality(Picks(D, G)) /\ Cardinality(SUBSET G) \in Nat \ {0}
             /\ Product([i \in 1..Cardinality(G) |-> 2]) = Limited(Cardinality(SUBSET G))
<1> DEFINE D == [p \in G |-> {0, 1}]
           P == Picks(D, G)
           f == [c \in P |-> {p \in G : c[p] = 1}]
           n == Cardinality(G)
           e == SetToSeq(G)
<1>1. IsFiniteSet({0, 1}) /\ Cardinality({0, 1}) = 2
  <2>1. IsFiniteSet({0}) /\ Cardinality({0}) = 1
    BY FS_Singleton
  <2>2. {0} \cup {1} = {0, 1} /\ 1 \notin {0}
    OBVIOUS
  <2> QED BY <2>1, <2>2, FS_AddElement
<1>2. n \in Nat /\ e \in Bijection(1..n, DOMAIN D) /\ \A i \in 1..n : e[i] \in G
  BY SetToSeqIs DEF Bijection, Injection
<1>3. \A p \in DOMAIN D : IsFiniteSet(D[p]) /\ D[p] # {}
  BY <1>1
<1>4. /\ Cardinality(P) \in Nat \ {0} /\ IsFiniteSet(P)
      /\ Product([i \in 1..n |-> Cardinality(D[e[i]])]) = Limited(Cardinality(P))
  <2> HIDE DEF n, e
  <2>1. DOMAIN D = G
    OBVIOUS
  <2> HIDE DEF D
  <2> QED BY <1>2, <1>3, <2>1, PicksAreLimited
<1>5. [i \in 1..n |-> Cardinality(D[e[i]])] = [i \in 1..n |-> 2]
  <2> HIDE DEF n, e
  <2> QED BY <1>1, <1>2
<1>6. P = [G -> {0, 1}]
  <2>1. \A p \in G : D[p] = {0, 1}
    OBVIOUS
  <2>2. UNION {D[p] : p \in DOMAIN D} \subseteq {0, 1}
    OBVIOUS
  <2>3. ASSUME NEW c \in [G -> {0, 1}] PROVE c \in P
    <3>1. \A p \in G : c[p] \in UNION {D[q] : q \in DOMAIN D}
      OBVIOUS
    <3>2. c \in [G -> UNION {D[q] : q \in DOMAIN D}]
      BY <3>1
    <3> HIDE DEF D
    <3> QED BY <2>1, <3>2 DEF Picks
  <2>4. ASSUME NEW c \in P PROVE c \in [G -> {0, 1}]
    BY <2>2 DEF Picks
  <2> HIDE DEF P
  <2> QED BY <2>3, <2>4
<1>7. f \in Bijection(P, SUBSET G)
  <2>1. f \in [P -> SUBSET G]
    <3> HIDE DEF P
    <3> QED OBVIOUS
  <2>2. ASSUME NEW c \in P, NEW d \in P, f[c] = f[d] PROVE c = d
    <3>1. c \in [G -> {0, 1}] /\ d \in [G -> {0, 1}]
      BY <1>6
    <3> HIDE DEF P
    <3>2. {p \in G : c[p] = 1} = {p \in G : d[p] = 1}
      BY <2>2
    <3>3. \A p \in G : c[p] = 1 <=> d[p] = 1
      BY <3>2
    <3>4. \A p \in G : c[p] = d[p]
      BY <3>1, <3>3
    <3> QED BY <3>1, <3>4
  <2>3. ASSUME NEW s \in SUBSET G PROVE \E c \in P : f[c] = s
    <3> DEFINE c == [p \in G |-> IF p \in s THEN 1 ELSE 0]
    <3>1. c \in P
      BY <1>6
    <3> HIDE DEF P
    <3>2. f[c] = {p \in G : c[p] = 1}
      BY <3>1
    <3>3. {p \in G : c[p] = 1} = s
      OBVIOUS
    <3> HIDE DEF c, f
    <3> QED BY <3>1, <3>2, <3>3
  <2> HIDE DEF f, P
  <2> QED BY <2>1, <2>2, <2>3 DEF Bijection, Injection, Surjection, IsInjective
<1>8. Cardinality(SUBSET G) = Cardinality(P)
  <2> HIDE DEF f, P
  <2> QED BY <1>4, <1>7, FS_Bijection DEF ExistsBijection
<1> HIDE DEF P, e
<1> QED BY <1>4, <1>5, <1>8 DEF P

-----------------------------------------------------------------------------
(* Templates *)

\* What a segment of a template that fits is.
Markers == {"", "optional", "empty", "orderby"}
AnyToken == Tokens \cup {NullSafeEquals}
SegmentedAs(t, segments) ==
  \E n \in Nat :
    /\ DOMAIN t.blocks = 1..n /\ DOMAIN segments = 1..n
    /\ \A i \in 1..n :
         /\ segments[i].marker \in Markers /\ segments[i].text \in Seq(AnyToken)
         /\ t.blocks[i].marker # "null_is_null" => segments[i] = t.blocks[i] /\ segments[i].param \in STRING
         /\ t.blocks[i].marker = "null_is_null" =>
              /\ segments[i].marker = "" /\ t.blocks[i].text \in Seq(Tokens)
              /\ segments[i].text = RewriteNullIsNull(t.blocks[i].text, t.blocks[i].param)

LEMMA SegmentsAre ==
  ASSUME NEW t \in Templates
  PROVE  SegmentedAs(t, Segments(t.blocks, t.params))
<1> DEFINE segments == Segments(t.blocks, t.params)
           n == Len(t.blocks)
           Block == [marker : {""} \cup DOMAIN MarkerMode, param : STRING, text : Seq(Tokens)]
<1>1. t.blocks \in Seq(Block)
  BY TemplatesAreBlocks
<1>2. n \in Nat /\ DOMAIN t.blocks = 1..n /\ \A i \in 1..n : t.blocks[i] \in Block
  <2> HIDE DEF Block
  <2>1. ASSUME NEW s \in Seq(Block) PROVE Len(s) \in Nat /\ DOMAIN s = 1..Len(s) /\ \A i \in 1..Len(s) : s[i] \in Block
    OBVIOUS
  <2> QED BY <1>1, <2>1
<1> HIDE DEF n
<1>3. DOMAIN segments = 1..n
  BY <1>2 DEF Segments
<1>4. ASSUME NEW i \in 1..n
      PROVE  segments[i] = IF t.blocks[i].marker = "null_is_null"
                           THEN [marker |-> "", param |-> "", text |-> RewriteNullIsNull(t.blocks[i].text, t.blocks[i].param)]
                           ELSE t.blocks[i]
  BY <1>2 DEF Segments
<1>5. DOMAIN MarkerMode = {"optional", "empty", "null_is_null", "orderby"}
  BY DEF MarkerMode
<1>6. ASSUME NEW i \in 1..n
      PROVE  /\ t.blocks[i].marker \in {"", "optional", "empty", "null_is_null", "orderby"}
             /\ t.blocks[i].param \in STRING /\ t.blocks[i].text \in Seq(Tokens)
  BY <1>2, <1>5
<1>7. ASSUME NEW text \in Seq(Tokens), NEW name PROVE RewriteNullIsNull(text, name) \in Seq(AnyToken)
  <2> DEFINE m == Len(text)
             r == RewriteNullIsNull(text, name)
  <2>1. m \in Nat /\ DOMAIN text = 1..m /\ \A j \in 1..m : text[j] \in Tokens
    OBVIOUS
  <2> HIDE DEF m
  <2>2. r = [j \in 1..m |-> IF Compares(text, j, name) THEN NullSafeEquals ELSE text[j]]
    BY <2>1 DEF RewriteNullIsNull
  <2>3. r \in [1..m -> AnyToken]
    <3> HIDE DEF r
    <3> QED BY <2>1, <2>2 DEF AnyToken
  <2> HIDE DEF r
  <2>4. r \in Seq(AnyToken)
    BY <2>1, <2>3
  <2> QED BY <2>4 DEF r
<1>8. ASSUME NEW i \in 1..n
      PROVE  /\ segments[i].marker \in Markers /\ segments[i].text \in Seq(AnyToken)
             /\ t.blocks[i].marker # "null_is_null" => segments[i] = t.blocks[i] /\ segments[i].param \in STRING
             /\ t.blocks[i].marker = "null_is_null" =>
                  /\ segments[i].marker = "" /\ t.blocks[i].text \in Seq(Tokens)
                  /\ segments[i].text = RewriteNullIsNull(t.blocks[i].text, t.blocks[i].param)
  <2> HIDE DEF segments
  <2>1. CASE t.blocks[i].marker = "null_is_null"
    <3>1. segments[i] = [marker |-> "", param |-> "", text |-> RewriteNullIsNull(t.blocks[i].text, t.blocks[i].param)]
      BY <1>4, <2>1
    <3>2. RewriteNullIsNull(t.blocks[i].text, t.blocks[i].param) \in Seq(AnyToken)
      BY <1>6, <1>7
    <3>3. segments[i].marker = "" /\ segments[i].text = RewriteNullIsNull(t.blocks[i].text, t.blocks[i].param)
      <4>1. ASSUME NEW r, NEW text, r = [marker |-> "", param |-> "", text |-> text]
            PROVE  r.marker = "" /\ r.text = text
        BY <4>1
      <4> QED BY <3>1, <4>1
    <3>4. segments[i].text \in Seq(AnyToken)
      BY <3>2, <3>3
    <3>5. "" \in Markers
      BY DEF Markers
    <3>6. t.blocks[i].text \in Seq(Tokens)
      BY <1>6
    <3> QED BY <2>1, <3>3, <3>4, <3>5, <3>6, Zenon
  <2>2. CASE t.blocks[i].marker # "null_is_null"
    <3>1. segments[i] = t.blocks[i]
      BY <1>4, <2>2
    <3>2. Seq(Tokens) \subseteq Seq(AnyToken)
      BY SeqMonotonic DEF AnyToken
    <3> QED BY <1>6, <2>2, <3>1, <3>2 DEF Markers
  <2> QED BY <2>1, <2>2
<1> HIDE DEF segments
<1>9. SegmentedAs(t, segments)
  BY <1>2, <1>3, <1>8 DEF SegmentedAs
<1> QED BY <1>9 DEF segments

\* The ordering of a template that fits has a parameter with its choices, which
\* the default is among.
LEMMA ChoicesAre ==
  ASSUME NEW t \in Templates, TemplateFits(t.blocks, t.params),
         NEW p \in Choiceable(Segments(t.blocks, t.params))
  PROVE  LET q == ParamNamed(t.params, p)
         IN  /\ q \in ToSet(t.params) /\ q.name = p /\ IsFiniteSet(DOMAIN q.choices)
             /\ DOMAIN q.choices \subseteq STRING \ {""} /\ q.default \in DOMAIN q.choices
             /\ \A k \in DOMAIN q.choices : q.choices[k] \in Seq(Tokens)
<1> DEFINE segments == Segments(t.blocks, t.params)
           q == ParamNamed(t.params, p)
<1>1. PICK i \in DOMAIN segments : segments[i].marker = "orderby" /\ segments[i].param = p
  BY DEF Choiceable
<1>2. i \in DOMAIN t.blocks /\ t.blocks[i].marker = "orderby" /\ t.blocks[i].param = p
  <2>1. SegmentedAs(t, segments)
    BY SegmentsAre
  <2> HIDE DEF segments
  <2> QED BY <1>1, <2>1 DEF SegmentedAs
<1>3. BlockFits(t.blocks[i], t.params)
  BY <1>2 DEF TemplateFits, Marked
<1>4. p \in {r.name : r \in ToSet(t.params)} /\ q.default \in DOMAIN q.choices
  BY <1>2, <1>3 DEF BlockFits
<1>5. q \in ToSet(t.params) /\ q.name = p
  BY <1>4 DEF ParamNamed
<1> HIDE DEF q
<1>6. /\ IsFiniteSet(DOMAIN q.choices) /\ DOMAIN q.choices \subseteq STRING \ {""}
      /\ \A k \in DOMAIN q.choices : q.choices[k] \in Seq(Tokens)
  BY <1>5, TemplatesAreBlocks
<1> QED BY <1>4, <1>5, <1>6 DEF q

LEMMA AxesAreFinite ==
  ASSUME NEW t \in Templates
  PROVE  LET segments == Segments(t.blocks, t.params)
         IN  IsFiniteSet(Gateable(segments)) /\ IsFiniteSet(Choiceable(segments))
<1> DEFINE segments == Segments(t.blocks, t.params)
<1>1. PICK n \in Nat : DOMAIN segments = 1..n
  <2>1. SegmentedAs(t, segments)
    BY SegmentsAre
  <2> HIDE DEF segments
  <2> QED BY <2>1 DEF SegmentedAs
<1> HIDE DEF segments
<1>2. ASSUME NEW J \in SUBSET (1..n) PROVE IsFiniteSet({segments[i].param : i \in J})
  <2> DEFINE f == [i \in J |-> segments[i].param]
             T == {segments[i].param : i \in J}
  <2>1. IsFiniteSet(J)
    <3>1. IsFiniteSet(1..n)
      BY FS_Interval
    <3> QED BY <3>1, FS_Subset
  <2>2. f \in Surjection(J, T)
    BY DEF Surjection
  <2> HIDE DEF f, T
  <2> QED BY <2>1, <2>2, FS_Surjection DEF T
<1>3. IsFiniteSet(Gateable(segments))
  <2> DEFINE J == {j \in 1..n : segments[j].marker \in {"optional", "empty"}}
  <2>1. IsFiniteSet({segments[i].param : i \in J})
    <3>1. J \in SUBSET (1..n)
      OBVIOUS
    <3> HIDE DEF J
    <3> QED BY <1>2, <3>1
  <2> QED BY <1>1, <2>1 DEF Gateable
<1>4. IsFiniteSet(Choiceable(segments))
  <2> DEFINE J == {j \in 1..n : segments[j].marker = "orderby"}
  <2>1. IsFiniteSet({segments[i].param : i \in J})
    <3>1. J \in SUBSET (1..n)
      OBVIOUS
    <3> HIDE DEF J
    <3> QED BY <1>2, <3>1
  <2> QED BY <1>1, <2>1 DEF Choiceable
<1> QED BY <1>3, <1>4 DEF segments

LEMMA TheLimitIsExact ==
  ASSUME NEW t \in Templates, TemplateFits(t.blocks, t.params)
  PROVE  LET segments == Segments(t.blocks, t.params)
         IN  WithinLimit(segments, t.params) <=>
               Cardinality(SUBSET Gateable(segments)) * Cardinality(ChoiceKeys(segments, t.params)) <= MaxVariants
<1> DEFINE segments == Segments(t.blocks, t.params)
           G == Gateable(segments)
           C == Choiceable(segments)
           D == [p \in C |-> DOMAIN ParamNamed(t.params, p).choices]
           a == Cardinality(SUBSET G)
           c == Cardinality(Picks(D, C))
           axes == SetToSeq(C)
<1>1. IsFiniteSet(G) /\ IsFiniteSet(C)
  BY AxesAreFinite
<1>2. a \in Nat \ {0} /\ Product([i \in 1..Cardinality(G) |-> 2]) = Limited(a)
  <2> HIDE DEF G
  <2> QED BY <1>1, SubsetsArePicks
<1>3. \A p \in DOMAIN D : IsFiniteSet(D[p]) /\ D[p] # {}
  <2> SUFFICES ASSUME NEW p \in C PROVE IsFiniteSet(D[p]) /\ D[p] # {}
    OBVIOUS
  <2>1. IsFiniteSet(DOMAIN ParamNamed(t.params, p).choices)
        /\ ParamNamed(t.params, p).default \in DOMAIN ParamNamed(t.params, p).choices
    BY ChoicesAre
  <2> HIDE DEF C
  <2> QED BY <2>1
<1>4. DOMAIN D = C
  OBVIOUS
<1>5. /\ Cardinality(C) \in Nat /\ axes \in Bijection(1..Cardinality(C), C) /\ DOMAIN axes = 1..Cardinality(C)
  <2> HIDE DEF C
  <2> QED BY <1>1, SetToSeqIs
<1>6. /\ c \in Nat \ {0}
      /\ Product([i \in 1..Cardinality(C) |-> Cardinality(D[axes[i]])]) = Limited(c)
  <2> HIDE DEF C, D, axes
  <2> QED BY <1>3, <1>4, <1>5, PicksAreLimited
<1>7. \A i \in 1..Cardinality(C) : axes[i] \in C
  <2> HIDE DEF C, axes
  <2> QED BY <1>5 DEF Bijection, Injection
<1>8. [i \in 1..Cardinality(C) |-> Cardinality(D[axes[i]])]
        = [i \in DOMAIN axes |-> Cardinality(DOMAIN ParamNamed(t.params, axes[i]).choices)]
  <2> HIDE DEF C, axes
  <2> QED BY <1>5, <1>7
<1>9. ChoiceKeys(segments, t.params) = Picks(D, C)
  <2> HIDE DEF segments
  <2>1. {DOMAIN ParamNamed(t.params, p).choices : p \in Choiceable(segments)} = {D[p] : p \in DOMAIN D}
    OBVIOUS
  <2>2. \A p \in C : D[p] = DOMAIN ParamNamed(t.params, p).choices
    OBVIOUS
  <2> DEFINE U == UNION {D[p] : p \in DOMAIN D}
  <2>3. ChoiceKeys(segments, t.params) = {k \in [C -> U] : \A p \in C : k[p] \in DOMAIN ParamNamed(t.params, p).choices}
    <3> HIDE DEF D
    <3> QED BY <2>1 DEF ChoiceKeys
  <2>4. Picks(D, C) = {k \in [C -> U] : \A p \in C : k[p] \in D[p]}
    <3> HIDE DEF D, C
    <3> QED BY DEF Picks
  <2> HIDE DEF D, C, U
  <2> QED BY <2>2, <2>3, <2>4
<1>10. WithinLimit(segments, t.params) <=> Limited(a) # 0 /\ Limited(c) # 0 /\ Limited(a) <= MaxVariants \div Limited(c)
  <2> HIDE DEF segments, D, a, c
  <2> QED BY <1>2, <1>6, <1>8 DEF WithinLimit
<1> HIDE DEF a, c
<1>11. WithinLimit(segments, t.params) <=> a * c <= MaxVariants
  BY <1>2, <1>6, <1>10, BothLimited
<1> QED BY <1>9, <1>11 DEF a, c

-----------------------------------------------------------------------------
(* A sequence of sequences put together *)

LEMMA Joined ==
  ASSUME NEW X, NEW s \in Seq(X), NEW u \in Seq(X)
  PROVE  /\ s \o u \in Seq(X) /\ ToSet(s \o u) = ToSet(s) \cup ToSet(u)
         /\ IsInjective(s) /\ IsInjective(u) /\ ToSet(s) \cap ToSet(u) = {} => IsInjective(s \o u)
<1> DEFINE a == Len(s)
           b == Len(u)
           r == s \o u
<1>1. /\ a \in Nat /\ b \in Nat /\ DOMAIN s = 1..a /\ DOMAIN u = 1..b /\ DOMAIN r = 1..(a + b) /\ r \in Seq(X)
      /\ \A i \in 1..(a + b) : r[i] = IF i <= a THEN s[i] ELSE u[i - a]
  BY ConcatProperties, LenProperties
<1> HIDE DEF a, b, r
<1>2. \A i \in 1..(a + b) : (i \in 1..a \/ i - a \in 1..b) /\ (i <= a <=> i \in 1..a)
  BY <1>1
<1>3. \A i \in 1..a : i \in 1..(a + b) /\ r[i] = s[i]
  BY <1>1
<1>4. \A i \in 1..b : i + a \in 1..(a + b) /\ r[i + a] = u[i]
  <2> SUFFICES ASSUME NEW i \in 1..b PROVE i + a \in 1..(a + b) /\ r[i + a] = u[i]
    OBVIOUS
  <2>1. i + a \in 1..(a + b) /\ ~(i + a <= a) /\ (i + a) - a = i
    BY <1>1
  <2> QED BY <1>1, <2>1
<1>5. \A i \in 1..(a + b) : (i \in 1..a /\ r[i] = s[i]) \/ (i - a \in 1..b /\ r[i] = u[i - a])
  BY <1>1, <1>2
<1>6. ToSet(r) = ToSet(s) \cup ToSet(u)
  <2>1. ToSet(r) \subseteq ToSet(s) \cup ToSet(u)
    BY <1>1, <1>5 DEF ToSet
  <2>2. ToSet(s) \subseteq ToSet(r)
    BY <1>1, <1>3 DEF ToSet
  <2>3. ToSet(u) \subseteq ToSet(r)
    BY <1>1, <1>4 DEF ToSet
  <2> QED BY <2>1, <2>2, <2>3
<1>7. ASSUME IsInjective(s), IsInjective(u), ToSet(s) \cap ToSet(u) = {} PROVE IsInjective(r)
  <2> SUFFICES ASSUME NEW i \in 1..(a + b), NEW j \in 1..(a + b), r[i] = r[j] PROVE i = j
    BY <1>1 DEF IsInjective
  <2>1. \A k \in 1..a : s[k] \in ToSet(s)
    BY <1>1 DEF ToSet
  <2>2. \A k \in 1..b : u[k] \in ToSet(u)
    BY <1>1 DEF ToSet
  <2>3. CASE i \in 1..a /\ r[i] = s[i]
    <3>1. ~(j - a \in 1..b /\ r[j] = u[j - a])
      BY <1>7, <2>1, <2>2, <2>3
    <3>2. j \in 1..a /\ r[j] = s[j]
      BY <1>5, <3>1
    <3> QED BY <1>1, <1>7, <2>3, <3>2 DEF IsInjective
  <2>4. CASE i - a \in 1..b /\ r[i] = u[i - a]
    <3>1. ~(j \in 1..a /\ r[j] = s[j])
      BY <1>7, <2>1, <2>2, <2>4
    <3>2. j - a \in 1..b /\ r[j] = u[j - a]
      BY <1>5, <3>1
    <3>3. i - a = j - a
      BY <1>1, <1>7, <2>4, <3>2 DEF IsInjective
    <3> QED BY <1>1, <3>3
  <2> QED BY <1>5, <2>3, <2>4
<1> QED BY <1>1, <1>6, <1>7 DEF r

LEMMA FlattenedIs ==
  ASSUME NEW X, NEW n \in Nat, NEW seqs \in [1..n -> Seq(X)]
  PROVE  /\ FlattenSeq(seqs) \in Seq(X) /\ ToSet(FlattenSeq(seqs)) = UNION {ToSet(seqs[i]) : i \in 1..n}
         /\ (\A i \in 1..n : IsInjective(seqs[i])) /\ (\A i, j \in 1..n : i # j => ToSet(seqs[i]) \cap ToSet(seqs[j]) = {})
              => IsInjective(FlattenSeq(seqs))
<1>1. Len(seqs) = n
  <2>1. seqs \in Seq(Seq(X))
    OBVIOUS
  <2> QED BY <2>1, LenProperties
<1>2. CASE n = 0
  <2>1. seqs = <<>>
    BY <1>2
  <2>2. FlattenSeq(seqs) = <<>>
    BY <1>1, <1>2, <2>1 DEF FlattenSeq
  <2>3. <<>> \in Seq(X) /\ ToSet(<<>>) = {} /\ IsInjective(<<>>)
    BY DEF ToSet, IsInjective
  <2>4. {ToSet(seqs[i]) : i \in 1..n} = {}
    BY <1>2
  <2> QED BY <2>2, <2>3, <2>4
<1>3. CASE n # 0
  <2> DEFINE F == [x \in Seq(X) \X (1..n) |-> x[1] \o seqs[x[2]]]
             R(f) == [i \in 1..n |-> IF i = 1 THEN seqs[i] ELSE f[i - 1] \o seqs[i]]
             f == CHOOSE f : f = R(f)
             P(i, s) == /\ s \in Seq(X) /\ ToSet(s) = UNION {ToSet(seqs[k]) : k \in 1..i}
                        /\ (\A k \in 1..n : IsInjective(seqs[k]))
                             /\ (\A k, j \in 1..n : k # j => ToSet(seqs[k]) \cap ToSet(seqs[j]) = {})
                             => IsInjective(s)
  <2>1. f = R(f)
    <3>1. F \in [Seq(X) \X (1..n) -> Seq(X)] /\ <<>> \in Seq(X)
      <4>1. ASSUME NEW s \in Seq(X), NEW i \in 1..n PROVE s \o seqs[i] \in Seq(X)
        BY ConcatProperties
      <4> QED BY <4>1
    <3>2. PICK g : IsRun(g, n, Seq(X), <<>>, F)
      <4> HIDE DEF F
      <4> QED BY <3>1, RunOf
    <3>3. g \in [0..n -> Seq(X)] /\ g[0] = <<>>
      BY <3>2 DEF IsRun
    <3>4. \A i \in 1..n : g[i] = g[i - 1] \o seqs[i]
      <4> SUFFICES ASSUME NEW i \in 1..n PROVE g[i] = g[i - 1] \o seqs[i]
        OBVIOUS
      <4>1. i - 1 \in 0..n
        OBVIOUS
      <4>2. g[i] = F[<<g[i - 1], i>>] /\ g[i - 1] \in Seq(X)
        <5> HIDE DEF F
        <5> QED BY <3>2, <3>3, <4>1 DEF IsRun
      <4> QED BY <4>2
    <3> DEFINE h == [i \in 1..n |-> g[i]]
    <3>5. \A i \in 1..n : h[i] = R(h)[i]
      <4> SUFFICES ASSUME NEW i \in 1..n PROVE h[i] = R(h)[i]
        OBVIOUS
      <4>1. CASE i = 1
        <5>1. g[1] = <<>> \o seqs[1]
          <6>1. g[1] = g[1 - 1] \o seqs[1] /\ 1 - 1 = 0
            BY <3>4, <4>1
          <6> QED BY <3>3, <6>1
        <5>2. <<>> \o seqs[1] = seqs[1]
          BY <4>1, ConcatEmptySeq
        <5> QED BY <4>1, <5>1, <5>2
      <4>2. CASE i # 1
        <5>1. i - 1 \in 1..n
          BY <4>2
        <5>2. h[i] = h[i - 1] \o seqs[i]
          BY <3>4, <5>1
        <5> HIDE DEF h
        <5> QED BY <4>2, <5>2
      <4> QED BY <4>1, <4>2
    <3>6. h = R(h)
      <4>1. h = [i \in 1..n |-> h[i]] /\ R(h) = [i \in 1..n |-> R(h)[i]]
        OBVIOUS
      <4> HIDE DEF h, R
      <4> QED BY <3>5, <4>1
    <3> HIDE DEF h, R
    <3> QED BY <3>6
  <2>2. FlattenSeq(seqs) = f[n]
    BY <1>1, <1>3 DEF FlattenSeq
  <2>3. f[1] = seqs[1] /\ \A i \in 2..n : f[i] = f[i - 1] \o seqs[i]
    <3>1. \A i \in 1..n : f[i] = IF i = 1 THEN seqs[i] ELSE f[i - 1] \o seqs[i]
      <4>1. \A i \in 1..n : f[i] = R(f)[i]
        <5> HIDE DEF f, R
        <5> QED BY <2>1
      <4> HIDE DEF f
      <4> QED BY <4>1
    <3> HIDE DEF f
    <3>2. 1 \in 1..n /\ \A i \in 2..n : i \in 1..n /\ i # 1
      BY <1>3
    <3> QED BY <3>1, <3>2
  <2> HIDE DEF f
  <2>4. P(1, f[1])
    <3>1. 1 \in 1..n /\ 1..1 = {1}
      BY <1>3
    <3>2. UNION {ToSet(seqs[k]) : k \in 1..1} = ToSet(seqs[1])
      BY <3>1
    <3> QED BY <2>3, <3>1, <3>2
  <2>5. ASSUME NEW i \in 1..n, i < n, P(i, f[i]) PROVE P(i + 1, f[i + 1])
    <3>1. i + 1 \in 2..n /\ i + 1 \in 1..n /\ (i + 1) - 1 = i /\ 1..(i + 1) = (1..i) \cup {i + 1}
      BY <2>5
    <3>2. f[i + 1] = f[i] \o seqs[i + 1] /\ seqs[i + 1] \in Seq(X) /\ f[i] \in Seq(X)
      BY <2>3, <2>5, <3>1
    <3>3. /\ f[i] \o seqs[i + 1] \in Seq(X) /\ ToSet(f[i] \o seqs[i + 1]) = ToSet(f[i]) \cup ToSet(seqs[i + 1])
          /\ IsInjective(f[i]) /\ IsInjective(seqs[i + 1]) /\ ToSet(f[i]) \cap ToSet(seqs[i + 1]) = {}
               => IsInjective(f[i] \o seqs[i + 1])
      BY <3>2, Joined
    <3>4. ToSet(f[i]) = UNION {ToSet(seqs[k]) : k \in 1..i}
      BY <2>5
    <3>5. UNION {ToSet(seqs[k]) : k \in 1..(i + 1)} = ToSet(f[i]) \cup ToSet(seqs[i + 1])
      BY <3>1, <3>4
    <3>6. ASSUME \A k \in 1..n : IsInjective(seqs[k]),
                 \A k, j \in 1..n : k # j => ToSet(seqs[k]) \cap ToSet(seqs[j]) = {}
          PROVE  IsInjective(f[i + 1])
      <4>1. IsInjective(f[i]) /\ IsInjective(seqs[i + 1])
        BY <2>5, <3>1, <3>6
      <4>2. \A k \in 1..i : ToSet(seqs[k]) \cap ToSet(seqs[i + 1]) = {}
        <5>1. \A k \in 1..i : k \in 1..n /\ k # i + 1
          OBVIOUS
        <5> QED BY <3>1, <3>6, <5>1
      <4>3. ToSet(f[i]) \cap ToSet(seqs[i + 1]) = {}
        BY <3>4, <4>2
      <4> QED BY <3>2, <3>3, <4>1, <4>3
    <3> QED BY <3>2, <3>3, <3>5, <3>6
  <2>6. P(n, f[n])
    <3> DEFINE A == {0} \cup {i \in 1..n : P(i, f[i])}
    <3> HIDE DEF P
    <3>1. \A i \in A : i \in Nat /\ i < n => i + 1 \in A
      <4> SUFFICES ASSUME NEW i \in A, i < n PROVE i + 1 \in A
        OBVIOUS
      <4>1. CASE i = 0
        BY <1>3, <2>4, <4>1
      <4>2. CASE i # 0
        <5>1. i \in 1..n /\ P(i, f[i]) /\ i + 1 \in 1..n
          BY <4>2
        <5> QED BY <2>5, <5>1
      <4> QED BY <4>1, <4>2
    <3>2. 0 \in A
      OBVIOUS
    <3> HIDE DEF A
    <3>3. n \in A
      BY <3>1, <3>2, UpTo
    <3> QED BY <1>3, <3>3 DEF A
  <2> QED BY <2>2, <2>6
<1> QED BY <1>2, <1>3

-----------------------------------------------------------------------------
(* Calls of the generated function *)

\* The keys of a call, defaults filled in, and the variant that belongs to it.
KeysFor(segments, params, choices) ==
  [p \in Choiceable(segments) |-> IF choices[p] = "" THEN ParamNamed(params, p).default ELSE choices[p]]
VariantFor(segments, params, x) ==
  LET present == Gateable(segments) \cap x.given
      keys == KeysFor(segments, params, x.choices)
  IN  [present |-> present, absent |-> Gateable(segments) \ present, choices |-> keys,
       sql |-> Compose(segments, params, present, keys)]

LEMMA CallsOfAre ==
  ASSUME NEW segments, NEW params, NEW x \in CallsOf(segments, params), NEW p \in Choiceable(segments)
  PROVE  x.choices[p] # "" => x.choices[p] \in DOMAIN ParamNamed(params, p).choices
<1>1. ~BuildPanics(segments, params, x.choices)
  BY DEF CallsOf
<1> QED BY <1>1 DEF BuildPanics

LEMMA VariantsAre ==
  ASSUME NEW segments, NEW params, NEW v
  PROVE  v \in Variants(segments, params) <=>
           \E s \in Presences(segments), c \in ChoiceKeys(segments, params) :
             v = [present |-> s, absent |-> Gateable(segments) \ s, choices |-> c, sql |-> Compose(segments, params, s, c)]
BY DEF Variants

LEMMA CallsAre ==
  ASSUME NEW t \in Templates, TemplateFits(t.blocks, t.params), NEW x \in CallsOf(Segments(t.blocks, t.params), t.params)
  PROVE  LET segments == Segments(t.blocks, t.params)
             keys == KeysFor(segments, t.params, x.choices)
         IN  /\ keys \in ChoiceKeys(segments, t.params) /\ VariantFor(segments, t.params, x) \in Variants(segments, t.params)
             /\ \A p \in Choiceable(segments) :
                  /\ keys[p] \in DOMAIN ParamNamed(t.params, p).choices /\ keys[p] # ""
                  /\ keys[p] = IF x.choices[p] = "" THEN ParamNamed(t.params, p).default ELSE x.choices[p]
<1> DEFINE segments == Segments(t.blocks, t.params)
           C == Choiceable(segments)
           D(p) == DOMAIN ParamNamed(t.params, p).choices
           U == UNION {D(p) : p \in C}
           keys == KeysFor(segments, t.params, x.choices)
<1>1. ASSUME NEW p \in C
      PROVE  /\ keys[p] \in D(p) /\ keys[p] # ""
             /\ keys[p] = IF x.choices[p] = "" THEN ParamNamed(t.params, p).default ELSE x.choices[p]
  <2>1. ParamNamed(t.params, p).default \in D(p) /\ "" \notin D(p)
    BY ChoicesAre
  <2>2. x.choices[p] # "" => x.choices[p] \in D(p)
    BY CallsOfAre
  <2>3. keys[p] = IF x.choices[p] = "" THEN ParamNamed(t.params, p).default ELSE x.choices[p]
    <3> HIDE DEF segments
    <3> QED BY DEF KeysFor
  <2> HIDE DEF segments, keys
  <2> QED BY <2>1, <2>2, <2>3
<1>2. keys \in ChoiceKeys(segments, t.params)
  <2>1. keys = [p \in C |-> keys[p]]
    BY DEF KeysFor
  <2>2. \A p \in C : keys[p] \in U
    <3> HIDE DEF C, keys, D
    <3> QED BY <1>1
  <2>3. keys \in [C -> U]
    <3> HIDE DEF C, keys, U
    <3> QED BY <2>1, <2>2
  <2> HIDE DEF keys, segments
  <2> QED BY <1>1, <2>3 DEF ChoiceKeys
<1>3. VariantFor(segments, t.params, x) \in Variants(segments, t.params)
  <2> DEFINE present == Gateable(segments) \cap x.given
  <2>1. present \in Presences(segments)
    BY DEF Presences
  <2>2. VariantFor(segments, t.params, x) =
          [present |-> present, absent |-> Gateable(segments) \ present, choices |-> keys,
           sql |-> Compose(segments, t.params, present, keys)]
    <3> HIDE DEF segments
    <3> QED BY DEF VariantFor
  <2> HIDE DEF segments, present, keys
  <2> QED BY <1>2, <2>1, <2>2, VariantsAre
<1> QED BY <1>1, <1>2, <1>3

LEMMA BuiltIsVariant ==
  ASSUME NEW t \in Templates, TemplateFits(t.blocks, t.params), NEW x \in CallsOf(Segments(t.blocks, t.params), t.params)
  PROVE  LET segments == Segments(t.blocks, t.params)
         IN  BuildSQL(segments, t.params, x.given, x.choices) = VariantFor(segments, t.params, x).sql
<1> DEFINE segments == Segments(t.blocks, t.params)
           params == t.params
           given == x.given
           choices == x.choices
           keys == KeysFor(segments, params, choices)
           present == Gateable(segments) \cap given
           choice(s) == IF choices[s.param] = "" THEN ParamNamed(params, s.param).default ELSE choices[s.param]
           one(s) == CASE s.marker = ""        -> s.text
                       [] s.marker = "orderby" -> ParamNamed(params, s.param).choices[choice(s)]
                       [] OTHER                -> IF s.param \in given THEN s.text ELSE <<>>
           chosen(s) == LET p == ParamNamed(params, s.param)
                        IN  p.choices[IF keys[s.param] = "" THEN p.default ELSE keys[s.param]]
           text(s)   == CASE s.marker = ""                      -> s.text
                          [] s.marker \in {"optional", "empty"} -> IF s.param \in present THEN s.text ELSE <<>>
                          [] s.marker = "orderby"               -> chosen(s)
<1>1. ASSUME NEW i \in DOMAIN segments PROVE one(segments[i]) = text(segments[i])
  <2>1. segments[i].marker \in Markers
    <3>1. SegmentedAs(t, segments)
      BY SegmentsAre
    <3> HIDE DEF segments
    <3> QED BY <3>1 DEF SegmentedAs
  <2>2. CASE segments[i].marker = ""
    BY <2>2
  <2>3. CASE segments[i].marker \in {"optional", "empty"}
    <3>1. segments[i].param \in present <=> segments[i].param \in given
      <4>1. segments[i].param \in Gateable(segments)
        <5> HIDE DEF segments
        <5> QED BY <2>3 DEF Gateable
      <4> QED BY <4>1
    <3> HIDE DEF segments, present, given
    <3> QED BY <2>3, <3>1
  <2>4. CASE segments[i].marker = "orderby"
    <3>1. segments[i].param \in Choiceable(segments)
      <4> HIDE DEF segments
      <4> QED BY <2>4 DEF Choiceable
    <3>2. /\ keys[segments[i].param] # "" /\ keys[segments[i].param] = choice(segments[i])
      BY <3>1, CallsAre
    <3>3. one(segments[i]) = ParamNamed(params, segments[i].param).choices[choice(segments[i])]
      <4> HIDE DEF segments, choice
      <4> QED BY <2>4
    <3>4. text(segments[i]) = ParamNamed(params, segments[i].param).choices[keys[segments[i].param]]
      <4>1. text(segments[i]) = chosen(segments[i])
        <5> HIDE DEF segments, chosen
        <5> QED BY <2>4
      <4> HIDE DEF text, segments, keys
      <4> QED BY <3>2, <4>1
    <3> HIDE DEF one, text, keys, choice
    <3> QED BY <3>2, <3>3, <3>4
  <2> HIDE DEF segments, one, text
  <2> QED BY <2>1, <2>2, <2>3, <2>4 DEF Markers
<1>2. [i \in DOMAIN segments |-> one(segments[i])] = [i \in DOMAIN segments |-> text(segments[i])]
  <2> HIDE DEF segments, one, text
  <2> QED BY <1>1
<1>3. BuildSQL(segments, params, given, choices) = FlattenSeq([i \in DOMAIN segments |-> one(segments[i])])
  <2> HIDE DEF segments
  <2> QED BY DEF BuildSQL
<1>4. Compose(segments, params, present, keys) = FlattenSeq([i \in DOMAIN segments |-> text(segments[i])])
  <2> HIDE DEF segments, keys, present
  <2> QED BY DEF Compose
<1>5. VariantFor(segments, params, x).sql = Compose(segments, params, present, keys)
  <2> HIDE DEF segments
  <2> QED BY DEF VariantFor
<1> HIDE DEF one, text, segments, keys, present
<1> QED BY <1>2, <1>3, <1>4, <1>5 DEF segments

\* The key of a variant tells what is present and which orderings are chosen.
LEMMA KeysDiffer ==
  ASSUME NEW t \in Templates, TemplateFits(t.blocks, t.params),
         NEW v \in Variants(Segments(t.blocks, t.params), t.params), NEW w \in Variants(Segments(t.blocks, t.params), t.params),
         VariantKey(v) = VariantKey(w)
  PROVE  v = w
<1> DEFINE segments == Segments(t.blocks, t.params)
           C == Choiceable(segments)
           V(s, c) == [present |-> s, absent |-> Gateable(segments) \ s, choices |-> c,
                       sql |-> Compose(segments, t.params, s, c)]
<1>1. \A p \in C : "" \notin DOMAIN ParamNamed(t.params, p).choices
  <2>1. ASSUME NEW p \in C PROVE "" \notin DOMAIN ParamNamed(t.params, p).choices
    BY ChoicesAre
  <2> HIDE DEF C
  <2> QED BY <2>1
<1>2. v \in Variants(segments, t.params) /\ w \in Variants(segments, t.params)
  OBVIOUS
<1> HIDE DEF segments
<1>3. PICK s \in Presences(segments), c \in ChoiceKeys(segments, t.params) : v = V(s, c)
  BY <1>2, VariantsAre
<1>4. PICK u \in Presences(segments), d \in ChoiceKeys(segments, t.params) : w = V(u, d)
  BY <1>2, VariantsAre
<1>5. ASSUME NEW k \in ChoiceKeys(segments, t.params)
      PROVE  DOMAIN k = C /\ k = [p \in C |-> k[p]] /\ \A p \in C : k[p] # ""
  BY <1>1 DEF ChoiceKeys
<1>6. v.present = s /\ v.choices = c /\ w.present = u /\ w.choices = d
  BY <1>3, <1>4
<1>7. VariantKey(v) = {<<p, "">> : p \in s} \cup {<<p, c[p]>> : p \in C}
  <2>1. VariantKey(v) = {<<p, "">> : p \in v.present} \cup {<<p, v.choices[p]>> : p \in DOMAIN v.choices}
    BY DEF VariantKey
  <2> HIDE DEF V, C
  <2> QED BY <1>5, <1>6, <2>1
<1>8. VariantKey(w) = {<<p, "">> : p \in u} \cup {<<p, d[p]>> : p \in C}
  <2>1. VariantKey(w) = {<<p, "">> : p \in w.present} \cup {<<p, w.choices[p]>> : p \in DOMAIN w.choices}
    BY DEF VariantKey
  <2> HIDE DEF V, C
  <2> QED BY <1>5, <1>6, <2>1
<1>9. \A p \in C : c[p] # "" /\ d[p] # ""
  BY <1>5
<1> HIDE DEF C, V
<1>10. ASSUME NEW p PROVE p \in s <=> p \in u
  <2>1. p \in s <=> <<p, "">> \in VariantKey(v)
    BY <1>7, <1>9
  <2>2. p \in u <=> <<p, "">> \in VariantKey(w)
    BY <1>8, <1>9
  <2> QED BY <2>1, <2>2
<1>11. s = u
  BY <1>10
<1>12. ASSUME NEW p \in C PROVE c[p] = d[p]
  <2>1. <<p, c[p]>> \in VariantKey(w)
    BY <1>7
  <2>2. \E q \in C : <<p, c[p]>> = <<q, d[q]>>
    BY <1>8, <1>9, <2>1
  <2> QED BY <2>2
<1>13. c = d
  BY <1>5, <1>12
<1> QED BY <1>3, <1>4, <1>11, <1>13

\* The label of what a call builds is the key of its variant.
LEMMA LabelIsKey ==
  ASSUME NEW t \in Templates, TemplateFits(t.blocks, t.params), NEW x \in CallsOf(Segments(t.blocks, t.params), t.params)
  PROVE  LET segments == Segments(t.blocks, t.params)
             label == BuildLabel(segments, t.params, x.given, x.choices)
         IN  /\ ToSet(label) = VariantKey(VariantFor(segments, t.params, x))
             /\ (\A i, j \in Marked(t.blocks) : t.blocks[i].param = t.blocks[j].param => i = j) => IsInjective(label)
<1> DEFINE segments == Segments(t.blocks, t.params)
           params == t.params
           given == x.given
           choices == x.choices
           keys == KeysFor(segments, params, choices)
           present == Gateable(segments) \cap given
           part(s) == CASE s.marker \in {"optional", "empty"} /\ s.param \in given -> <<<<s.param, "">>>>
                        [] s.marker = "orderby" ->
                             <<<<s.param, IF choices[s.param] = "" THEN ParamNamed(params, s.param).default
                                          ELSE choices[s.param]>>>>
                        [] OTHER -> <<>>
           Pair(s) == <<s.param, IF s.marker = "orderby" THEN keys[s.param] ELSE "">>
           Shown(s) == (s.marker \in {"optional", "empty"} /\ s.param \in given) \/ s.marker = "orderby"
<1>1. SegmentedAs(t, segments)
  BY SegmentsAre
<1>2. PICK n \in Nat : /\ DOMAIN segments = 1..n /\ DOMAIN t.blocks = 1..n
                       /\ \A i \in 1..n : segments[i].marker # "" => segments[i] = t.blocks[i]
  <2> HIDE DEF segments
  <2> QED BY <1>1 DEF SegmentedAs
<1>3. \A p \in Choiceable(segments) :
        keys[p] = IF choices[p] = "" THEN ParamNamed(params, p).default ELSE choices[p]
  BY CallsAre
<1>4. ASSUME NEW i \in 1..n PROVE part(segments[i]) = IF Shown(segments[i]) THEN <<Pair(segments[i])>> ELSE <<>>
  <2>1. segments[i].marker = "orderby" => segments[i].param \in Choiceable(segments)
    <3> HIDE DEF segments
    <3> QED BY <1>2 DEF Choiceable
  <2> DEFINE s == segments[i]
  <2>2. s.marker = "orderby" =>
          keys[s.param] = IF choices[s.param] = "" THEN ParamNamed(params, s.param).default ELSE choices[s.param]
    <3> HIDE DEF keys
    <3> QED BY <1>3, <2>1
  <2> HIDE DEF segments, keys, s
  <2>3. CASE s.marker \in {"optional", "empty"} /\ s.param \in given
    BY <2>3 DEF s
  <2>4. CASE s.marker = "orderby"
    BY <2>2, <2>4 DEF s
  <2>5. CASE ~Shown(s)
    BY <2>5 DEF s
  <2> QED BY <2>3, <2>4, <2>5
<1> DEFINE parts == [i \in 1..n |-> part(segments[i])]
           X == {Pair(segments[i]) : i \in 1..n}
           label == BuildLabel(segments, params, given, choices)
<1>5. label = FlattenSeq(parts)
  <2>1. label = FlattenSeq([i \in DOMAIN segments |-> part(segments[i])])
    <3> HIDE DEF segments, keys
    <3> QED BY DEF BuildLabel
  <2> HIDE DEF segments, part, label
  <2> QED BY <1>2, <2>1
<1>6. ASSUME NEW i \in 1..n
      PROVE  /\ parts[i] \in Seq(X) /\ IsInjective(parts[i])
             /\ ToSet(parts[i]) = IF Shown(segments[i]) THEN {Pair(segments[i])} ELSE {}
  <2>1. ASSUME NEW a PROVE ToSet(<<a>>) = {a} /\ IsInjective(<<a>>) /\ \A Y : a \in Y => <<a>> \in Seq(Y)
    BY DEF ToSet, IsInjective
  <2>2. ToSet(<<>>) = {} /\ IsInjective(<<>>) /\ \A Y : <<>> \in Seq(Y)
    BY DEF ToSet, IsInjective
  <2>3. Pair(segments[i]) \in X
    <3> HIDE DEF segments, Pair
    <3> QED OBVIOUS
  <2>4. parts[i] = IF Shown(segments[i]) THEN <<Pair(segments[i])>> ELSE <<>>
    <3> HIDE DEF segments, Pair, part, Shown
    <3> QED BY <1>4
  <2> DEFINE a == Pair(segments[i])
             e == parts[i]
  <2>5. a \in X /\ e = IF Shown(segments[i]) THEN <<a>> ELSE <<>>
    BY <2>3, <2>4
  <2>6. ToSet(<<a>>) = {a} /\ IsInjective(<<a>>) /\ <<a>> \in Seq(X)
    <3> HIDE DEF a, X
    <3> QED BY <2>1, <2>5
  <2> HIDE DEF a, e, Shown, X
  <2>7. CASE Shown(segments[i])
    BY <2>5, <2>6, <2>7 DEF a, e
  <2>8. CASE ~Shown(segments[i])
    BY <2>2, <2>5, <2>8 DEF a, e
  <2> QED BY <2>7, <2>8
<1>7. /\ ToSet(FlattenSeq(parts)) = UNION {ToSet(parts[i]) : i \in 1..n}
      /\ (\A i \in 1..n : IsInjective(parts[i])) /\ (\A i, j \in 1..n : i # j => ToSet(parts[i]) \cap ToSet(parts[j]) = {})
           => IsInjective(FlattenSeq(parts))
  <2>1. parts = [i \in 1..n |-> parts[i]]
    OBVIOUS
  <2> HIDE DEF parts, X
  <2>2. parts \in [1..n -> Seq(X)]
    BY <1>6, <2>1
  <2> QED BY <2>2, FlattenedIs
<1>8. ToSet(label) = {Pair(segments[i]) : i \in {j \in 1..n : Shown(segments[j])}}
  <2> HIDE DEF segments, parts, label, Pair, Shown, X
  <2>1. ToSet(label) = UNION {ToSet(parts[i]) : i \in 1..n}
    BY <1>5, <1>7
  <2>2. ASSUME NEW i \in 1..n PROVE ToSet(parts[i]) = IF Shown(segments[i]) THEN {Pair(segments[i])} ELSE {}
    BY <1>6
  <2>3. ASSUME NEW y PROVE y \in ToSet(label) <=> \E i \in 1..n : Shown(segments[i]) /\ y = Pair(segments[i])
    <3>1. y \in ToSet(label) <=> \E i \in 1..n : y \in ToSet(parts[i])
      BY <2>1
    <3> QED BY <2>2, <3>1
  <2> QED BY <2>3
<1>9. VariantKey(VariantFor(segments, params, x)) = {<<p, "">> : p \in present} \cup {<<p, keys[p]>> : p \in Choiceable(segments)}
  <2> DEFINE v == VariantFor(segments, params, x)
  <2>1. v.present = present /\ v.choices = keys
    <3> HIDE DEF segments
    <3> QED BY DEF VariantFor
  <2>2. DOMAIN keys = Choiceable(segments)
    <3> HIDE DEF segments
    <3> QED BY DEF KeysFor
  <2>3. VariantKey(v) = {<<p, "">> : p \in v.present} \cup {<<p, v.choices[p]>> : p \in DOMAIN v.choices}
    <3> HIDE DEF v
    <3> QED BY DEF VariantKey
  <2> HIDE DEF v, keys, segments, present
  <2> QED BY <2>1, <2>2, <2>3 DEF v
<1> HIDE DEF label, parts, X, keys
<1>10. ToSet(label) = VariantKey(VariantFor(segments, params, x))
  <2>1. \A p : p \in Choiceable(segments) <=> \E i \in 1..n : segments[i].marker = "orderby" /\ segments[i].param = p
    <3> HIDE DEF segments
    <3> QED BY <1>2 DEF Choiceable
  <2>2. \A p : p \in present <=> \E i \in 1..n : /\ segments[i].marker \in {"optional", "empty"}
                                                 /\ segments[i].param = p /\ p \in given
    <3> HIDE DEF segments
    <3> QED BY <1>2 DEF Gateable
  <2> HIDE DEF segments, present
  <2>3. ASSUME NEW i \in 1..n, Shown(segments[i])
        PROVE  Pair(segments[i]) \in {<<p, "">> : p \in present} \cup {<<p, keys[p]>> : p \in Choiceable(segments)}
    <3>1. CASE segments[i].marker = "orderby"
      <4>1. segments[i].param \in Choiceable(segments) /\ Pair(segments[i]) = <<segments[i].param, keys[segments[i].param]>>
        BY <2>1, <3>1
      <4> HIDE DEF Pair
      <4> QED BY <4>1
    <3>2. CASE segments[i].marker # "orderby"
      <4>1. segments[i].param \in present /\ Pair(segments[i]) = <<segments[i].param, "">>
        BY <2>2, <2>3, <3>2
      <4> HIDE DEF Pair
      <4> QED BY <4>1
    <3> QED BY <3>1, <3>2
  <2>4. ASSUME NEW p \in present PROVE \E i \in 1..n : Shown(segments[i]) /\ Pair(segments[i]) = <<p, "">>
    <3>1. PICK i \in 1..n : segments[i].marker \in {"optional", "empty"} /\ segments[i].param = p /\ p \in given
      BY <2>2
    <3>2. Shown(segments[i]) /\ Pair(segments[i]) = <<p, "">>
      BY <3>1
    <3> QED BY <3>2
  <2>5. ASSUME NEW p \in Choiceable(segments) PROVE \E i \in 1..n : Shown(segments[i]) /\ Pair(segments[i]) = <<p, keys[p]>>
    <3>1. PICK i \in 1..n : segments[i].marker = "orderby" /\ segments[i].param = p
      BY <2>1
    <3>2. Shown(segments[i]) /\ Pair(segments[i]) = <<p, keys[p]>>
      BY <3>1
    <3> QED BY <3>2
  <2> HIDE DEF Shown, Pair
  <2> QED BY <1>8, <1>9, <2>3, <2>4, <2>5
<1>11. ASSUME \A i, j \in Marked(t.blocks) : t.blocks[i].param = t.blocks[j].param => i = j
       PROVE  IsInjective(label)
  <2>1. ASSUME NEW i \in 1..n, NEW j \in 1..n, Shown(segments[i]), Shown(segments[j]), Pair(segments[i]) = Pair(segments[j])
        PROVE  i = j
    <3>1. segments[i].marker # "" /\ segments[j].marker # ""
      <4> HIDE DEF segments
      <4> QED BY <2>1
    <3>2. segments[i].param = segments[j].param
      <4> HIDE DEF segments
      <4> QED BY <2>1
    <3> HIDE DEF segments
    <3>3. segments[i] = t.blocks[i] /\ segments[j] = t.blocks[j]
      BY <1>2, <3>1
    <3>4. i \in Marked(t.blocks) /\ j \in Marked(t.blocks)
      BY <1>2, <3>1, <3>3 DEF Marked
    <3> QED BY <1>11, <3>2, <3>3, <3>4
  <2> HIDE DEF segments, Shown, Pair
  <2>2. \A i, j \in 1..n : i # j => ToSet(parts[i]) \cap ToSet(parts[j]) = {}
    BY <1>6, <2>1
  <2> QED BY <1>5, <1>6, <1>7, <2>2
<1> QED BY <1>10, <1>11 DEF label

\* What an argument list binds, where the parameters are at home.
AlwaysBound(t) == {Lower(n) : n \in ParamsOfMode(t.params, {"required", "null_is_null"})}
OwnName(b) == IF b.marker \in {"optional", "empty"} THEN {Lower(b.param)} ELSE {}
AtHome(t) ==
  /\ \A i \in DOMAIN t.blocks : NamesIn(t.blocks[i].text) \subseteq AlwaysBound(t) \cup OwnName(t.blocks[i])
  /\ \A p \in ToSet(t.params) : \A k \in DOMAIN p.choices : NamesIn(p.choices[k]) \subseteq AlwaysBound(t)

LEMMA NamesInAre ==
  ASSUME NEW text, NEW name
  PROVE  name \in NamesIn(text) <=> \E k \in ToSet(text) : k.is = "param" /\ name = Lower(k.name)
BY DEF NamesIn, ToSet

LEMMA NoNewNames ==
  ASSUME NEW text, NEW name
  PROVE  NamesIn(RewriteNullIsNull(text, name)) \subseteq NamesIn(text)
<1> DEFINE r == RewriteNullIsNull(text, name)
<1>1. NullSafeEquals.is # "param"
  <2>1. ASSUME NEW w PROVE Word(w).is = "word"
    BY DEF Word
  <2>2. NullSafeEquals.is = "word"
    BY <2>1, Zenon DEF NullSafeEquals
  <2> QED BY <2>2
<1>2. DOMAIN r = DOMAIN text /\ \A i \in DOMAIN text : r[i] = IF Compares(text, i, name) THEN NullSafeEquals ELSE text[i]
  BY DEF RewriteNullIsNull
<1>3. \A i \in DOMAIN text : r[i].is = "param" => r[i] = text[i]
  <2> HIDE DEF r
  <2> QED BY <1>1, <1>2
<1> HIDE DEF r
<1>4. NamesIn(r) \subseteq NamesIn(text)
  BY <1>2, <1>3 DEF NamesIn
<1> QED BY <1>4 DEF r

LEMMA NamesAreAmongArgs ==
  ASSUME NEW t \in Templates, TemplateFits(t.blocks, t.params), AtHome(t),
         NEW x \in CallsOf(Segments(t.blocks, t.params), t.params)
  PROVE  LET segments == Segments(t.blocks, t.params)
         IN  NamesIn(BuildSQL(segments, t.params, x.given, x.choices))
               \subseteq {Lower(n) : n \in BuildArgs(segments, t.params, x.given)}
<1> DEFINE segments == Segments(t.blocks, t.params)
           params == t.params
           given == x.given
           choices == x.choices
           choice(s) == IF choices[s.param] = "" THEN ParamNamed(params, s.param).default ELSE choices[s.param]
           one(s) == CASE s.marker = ""        -> s.text
                       [] s.marker = "orderby" -> ParamNamed(params, s.param).choices[choice(s)]
                       [] OTHER                -> IF s.param \in given THEN s.text ELSE <<>>
           bound == {Lower(n) : n \in BuildArgs(segments, params, given)}
           always == AlwaysBound(t)
<1>1. SegmentedAs(t, segments)
  BY SegmentsAre
<1>2. PICK n \in Nat :
        /\ DOMAIN segments = 1..n /\ DOMAIN t.blocks = 1..n
        /\ \A i \in 1..n :
             /\ segments[i].marker \in Markers /\ segments[i].text \in Seq(AnyToken)
             /\ t.blocks[i].marker # "null_is_null" => segments[i] = t.blocks[i] /\ segments[i].param \in STRING
             /\ t.blocks[i].marker = "null_is_null" =>
                  /\ segments[i].marker = "" /\ t.blocks[i].text \in Seq(Tokens)
                  /\ segments[i].text = RewriteNullIsNull(t.blocks[i].text, t.blocks[i].param)
  <2> HIDE DEF segments
  <2> QED BY <1>1 DEF SegmentedAs
<1>3. always \subseteq bound
  <2> HIDE DEF segments, given, params
  <2> QED BY DEF BuildArgs, AlwaysBound, params
<1>4. \A p \in Gateable(segments) \cap given : Lower(p) \in bound
  <2> HIDE DEF segments, given
  <2> QED BY DEF BuildArgs
<1>5. ASSUME NEW i \in 1..n
      PROVE  one(segments[i]) \in Seq(AnyToken) /\ NamesIn(one(segments[i])) \subseteq bound
  <2>1. Seq(Tokens) \subseteq Seq(AnyToken) /\ <<>> \in Seq(AnyToken) /\ NamesIn(<<>>) = {}
    BY SeqMonotonic DEF AnyToken, NamesIn
  <2>2. NamesIn(t.blocks[i].text) \subseteq always \cup OwnName(t.blocks[i])
    <3> HIDE DEF segments, always
    <3> QED BY <1>2 DEF AtHome, always
  <2>3. CASE segments[i].marker = ""
    <3>1. one(segments[i]) = segments[i].text
      <4> HIDE DEF segments
      <4> QED BY <2>3
    <3>2. OwnName(t.blocks[i]) = {} /\ NamesIn(segments[i].text) \subseteq NamesIn(t.blocks[i].text)
      <4> HIDE DEF segments
      <4>1. CASE t.blocks[i].marker = "null_is_null"
        BY <1>2, <4>1, NoNewNames DEF OwnName
      <4>2. CASE t.blocks[i].marker # "null_is_null"
        BY <1>2, <2>3, <4>2 DEF OwnName
      <4> QED BY <4>1, <4>2
    <3> HIDE DEF one, segments, bound, always
    <3> QED BY <1>2, <1>3, <2>2, <3>1, <3>2
  <2>4. CASE segments[i].marker = "orderby"
    <3> DEFINE p == segments[i].param
               q == ParamNamed(params, p)
               key == choice(segments[i])
    <3>1. p \in Choiceable(segments)
      <4> HIDE DEF segments
      <4> QED BY <1>2, <2>4 DEF Choiceable
    <3>2. q \in ToSet(params) /\ q.default \in DOMAIN q.choices /\ \A k \in DOMAIN q.choices : q.choices[k] \in Seq(Tokens)
      BY <3>1, ChoicesAre
    <3>3. choices[p] # "" => choices[p] \in DOMAIN q.choices
      BY <3>1, CallsOfAre
    <3>4. one(segments[i]) = q.choices[key]
      <4> HIDE DEF segments, choice
      <4> QED BY <2>4
    <3>5. key \in DOMAIN q.choices
      <4> HIDE DEF segments, choices, q
      <4> QED BY <3>2, <3>3 DEF q
    <3>6. NamesIn(q.choices[key]) \subseteq always
      <4> HIDE DEF key, q, always
      <4> QED BY <3>2, <3>5 DEF AtHome, always
    <3> HIDE DEF one, segments, bound, always, q, key
    <3> QED BY <1>3, <2>1, <3>2, <3>4, <3>5, <3>6
  <2>5. CASE segments[i].marker \in {"optional", "empty"}
    <3>1. one(segments[i]) = IF segments[i].param \in given THEN segments[i].text ELSE <<>>
      <4> HIDE DEF segments, given
      <4> QED BY <2>5
    <3>2. segments[i] = t.blocks[i]
      <4> HIDE DEF segments
      <4> QED BY <1>2, <2>5
    <3>3. OwnName(t.blocks[i]) = {Lower(segments[i].param)}
      <4> HIDE DEF segments
      <4> QED BY <2>5, <3>2 DEF OwnName
    <3>4. segments[i].param \in Gateable(segments)
      <4> HIDE DEF segments
      <4> QED BY <1>2, <2>5 DEF Gateable
    <3>5. CASE segments[i].param \in given
      <4> HIDE DEF one, segments, bound, always, given
      <4>1. Lower(segments[i].param) \in bound
        BY <1>4, <3>4, <3>5
      <4>2. one(segments[i]) = segments[i].text /\ NamesIn(segments[i].text) \subseteq always \cup {Lower(segments[i].param)}
        BY <2>2, <3>1, <3>2, <3>3, <3>5
      <4> QED BY <1>2, <1>3, <4>1, <4>2
    <3>6. CASE segments[i].param \notin given
      <4> HIDE DEF one, segments, bound, given
      <4> QED BY <2>1, <3>1, <3>6
    <3> QED BY <3>5, <3>6
  <2>6. segments[i].marker \in Markers
    <3> HIDE DEF segments
    <3> QED BY <1>2
  <2> HIDE DEF segments, one, bound
  <2> QED BY <2>3, <2>4, <2>5, <2>6 DEF Markers
<1> DEFINE parts == [i \in 1..n |-> one(segments[i])]
           sql == BuildSQL(segments, params, given, choices)
<1>6. sql = FlattenSeq(parts)
  <2>1. sql = FlattenSeq([i \in DOMAIN segments |-> one(segments[i])])
    <3> HIDE DEF segments
    <3> QED BY DEF BuildSQL
  <2> HIDE DEF segments, one, sql
  <2> QED BY <1>2, <2>1
<1>7. parts \in [1..n -> Seq(AnyToken)] /\ \A i \in 1..n : parts[i] = one(segments[i])
  <2> HIDE DEF segments, one
  <2> QED BY <1>5
<1>8. ToSet(sql) = UNION {ToSet(parts[i]) : i \in 1..n}
  <2> HIDE DEF segments, one, sql, parts
  <2> QED BY <1>6, <1>7, FlattenedIs
<1>9. ASSUME NEW name \in NamesIn(sql) PROVE name \in bound
  <2> HIDE DEF segments, one, sql, parts, bound
  <2>1. PICK k \in ToSet(sql) : k.is = "param" /\ name = Lower(k.name)
    BY NamesInAre
  <2>2. PICK i \in 1..n : k \in ToSet(parts[i])
    BY <1>8
  <2>3. name \in NamesIn(parts[i])
    BY <2>1, <2>2, NamesInAre
  <2> QED BY <1>5, <1>7, <2>3
<1> QED BY <1>9

-----------------------------------------------------------------------------
(* Configuration files: the published schema and the parser *)

LEMMA EmptyHasNone == DOMAIN <<>> = {} /\ ToSet(<<>>) = {}
BY DEF ToSet

\* A key that is there has its value; one that is not, nothing.
LEMMA AbsentPart ==
  ASSUME NEW o, NEW k, k \notin DOMAIN o
  PROVE  Part(o, k) = <<>> /\ List(o, k) = <<>> /\ Elements(o, k) = {} /\ Text(o, k) = "" /\ ~Flag(o, k) /\ DOMAIN Part(o, k) = {}
BY EmptyHasNone DEF Part, List, Elements, Text, Flag

LEMMA PresentPart ==
  ASSUME NEW o, NEW k, k \in DOMAIN o
  PROVE  Part(o, k) = o[k] /\ List(o, k) = o[k] /\ Elements(o, k) = ToSet(o[k]) /\ Text(o, k) = o[k] /\ (Flag(o, k) <=> o[k])
BY DEF Part, List, Elements, Text, Flag

\* What a place of a list holds is an element of the list.
LEMMA ListedAre ==
  ASSUME NEW o, NEW k, NEW i \in DOMAIN List(o, k)
  PROVE  List(o, k)[i] \in Elements(o, k)
BY DEF Elements, ToSet

\* What the schema accepts of a connection, and of a dataset, the parser asks for.
LEMMA ValidConnections ==
  ASSUME NEW x, ConnectionValid(x)
  PROVE  /\ Known(x, {"name", "id", "spanner_catalog"}) /\ ~Uses(x, {"connection_id"})
         /\ Text(x, "name") # "" /\ Text(x, "id") # "" /\ Text(x, "spanner_catalog") # ""
         /\ IdentifierReference(x.spanner_catalog)
BY DEF ConnectionValid, Object, HasIdentifier, HasText, Known, Uses, Text, IdentifierReference

LEMMA ValidDatasets ==
  ASSUME NEW d, DatasetValid(d)
  PROVE  /\ Known(d, {"name", "dataset", "spanner_catalog", "spanner_database_uri", "location", "access", "projection"})
         /\ Known(Part(d, "access"), {"cloud_resource_connection_id", "verification_evidence"})
         /\ Known(Part(Part(d, "access"), "verification_evidence"), {"status", "verifier", "checked_at"})
         /\ Known(Part(d, "projection"), {"unsupported_columns", "named_schema_tables"})
         /\ ~EarlierDataset(d)
         /\ \A k \in {"name", "dataset", "spanner_catalog"} : Text(d, k) # ""
         /\ IdentifierReference(d.spanner_catalog)
         /\ Text(Part(d, "projection"), "unsupported_columns") \in {"", "reject", "omit"}
         /\ Text(Part(d, "projection"), "named_schema_tables") \in {"", "reject", "warn_and_omit"}
<1> DEFINE access == Part(d, "access")  evidence == Part(access, "verification_evidence")
<1>1. DOMAIN evidence \subseteq {"status", "verifier", "checked_at"}
  <2>1. CASE "verification_evidence" \in DOMAIN access
    BY <2>1, PresentPart DEF DatasetValid, EvidenceValid, Object
  <2>2. CASE "verification_evidence" \notin DOMAIN access
    BY <2>2, AbsentPart
  <2> QED BY <2>1, <2>2
<1>2. /\ DOMAIN d \subseteq {"name", "dataset", "spanner_catalog", "spanner_database_uri", "location", "access", "projection"}
      /\ DOMAIN access \subseteq {"cloud_resource_connection_id", "verification_evidence"}
      /\ DOMAIN Part(d, "projection") \subseteq {"unsupported_columns", "named_schema_tables"}
      /\ {"name", "dataset", "spanner_catalog"} \subseteq DOMAIN d
  BY DEF DatasetValid, Object
<1>3. ~EarlierDataset(d)
  BY <1>1, <1>2 DEF EarlierDataset, Uses
<1>4. \A k \in {"name", "dataset", "spanner_catalog"} : Text(d, k) # ""
  BY <1>2 DEF DatasetValid, HasIdentifier, HasTexts, HasText, Text
<1>5. IdentifierReference(d.spanner_catalog)
  BY <1>2 DEF DatasetValid, HasIdentifier, IdentifierReference
<1>6. /\ Text(Part(d, "projection"), "unsupported_columns") \in {"", "reject", "omit"}
      /\ Text(Part(d, "projection"), "named_schema_tables") \in {"", "reject", "warn_and_omit"}
  BY DEF DatasetValid, HasOneOf, Text
<1> HIDE DEF access, evidence
<1> QED BY <1>1, <1>2, <1>3, <1>4, <1>5, <1>6 DEF Known, access, evidence

\* What a schema leaves to planning about one catalog.
CatalogLeft(c) ==
  LET cs == List(Part(c, "bindings"), "external_query_connections")
      ds == List(Part(c, "bindings"), "spanner_external_datasets")
  IN  ~UniqueNames(cs) \/ ~UniqueNames(ds) \/ \E i, j \in DOMAIN cs : i # j /\ cs[i].id = cs[j].id

\* A catalog that the schema accepts parses, but for what is left of it and for
\* the PostgreSQL dialect of a BigQuery catalog.
LEMMA ValidCatalogs ==
  ASSUME NEW c, CatalogValid(c)
  PROVE  /\ KnownCatalog(c) /\ ~EarlierCatalog(c)
         /\ ~CatalogLeft(c) /\ ~(Text(c, "kind") = "bigquery" /\ Text(c, "dialect") = "postgresql") => CatalogParses(c)
<1> DEFINE b  == Part(c, "bindings")
           cs == List(b, "external_query_connections")
           ds == List(b, "spanner_external_datasets")
<1>1. /\ DOMAIN c \subseteq {"name", "kind", "dialect", "project", "ddl", "proto_descriptors", "bindings"}
      /\ {"name", "kind"} \subseteq DOMAIN c
      /\ DOMAIN b \subseteq {"external_query_connections", "spanner_external_datasets"}
  BY DEF CatalogValid, Object
<1>2. /\ \A x \in Elements(b, "external_query_connections") : ConnectionValid(x)
      /\ \A d \in Elements(b, "spanner_external_datasets") : DatasetValid(d)
  BY DEF CatalogValid
<1>3. KnownCatalog(c)
  <2> HIDE DEF b
  <2>1. \A x \in Elements(b, "external_query_connections") : Known(x, {"name", "id", "spanner_catalog"})
    BY <1>2, ValidConnections
  <2> QED BY <1>1, <1>2, <2>1, ValidDatasets DEF KnownCatalog, Known, AllKnown, b
<1>4. ~EarlierCatalog(c)
  BY <1>2, ValidConnections, ValidDatasets DEF EarlierCatalog
<1>5. ASSUME ~CatalogLeft(c), ~(Text(c, "kind") = "bigquery" /\ Text(c, "dialect") = "postgresql") PROVE CatalogParses(c)
  <2>1. Text(c, "name") # ""
    BY <1>1 DEF CatalogValid, HasIdentifier, Text
  <2>2. Text(c, "kind") = c.kind /\ Text(c, "dialect") \in {"", "googlesql", "postgresql"}
    BY <1>1 DEF CatalogValid, HasOneOf, Text
  <2>3. CatalogShape(c)
    <3>1. CASE c.kind = "spanner" /\ Clause(c, {}, {"project", "bindings"})
      <4>1. "project" \notin DOMAIN c /\ "bindings" \notin DOMAIN c
        BY <3>1 DEF Clause, AnyRequired
      <4>2. Text(c, "project") = "" /\ b = <<>>
        BY <4>1, AbsentPart
      <4>3. cs = <<>> /\ ds = <<>>
        BY <4>2, EmptyHasNone, AbsentPart
      <4> QED BY <2>2, <3>1, <4>2, <4>3 DEF CatalogShape
    <3>2. CASE c.kind = "bigquery" /\ Clause(c, {}, {"proto_descriptors"})
      <4>1. "proto_descriptors" \notin DOMAIN c
        BY <3>2 DEF Clause, AnyRequired
      <4> QED BY <2>2, <3>2, <4>1, AbsentPart DEF CatalogShape
    <3> QED BY <3>1, <3>2 DEF CatalogValid, CatalogKindClause
  <2>4. CatalogDialect(c) # ""
    BY <1>5, <2>2 DEF CatalogDialect, CatalogValid, CatalogKindClause
  <2>5. ConnectionsParse(cs)
    <3>1. UniqueNames(cs) /\ \A i, j \in DOMAIN cs : cs[i].id = cs[j].id => i = j
      BY <1>5 DEF CatalogLeft
    <3>2. \A i \in DOMAIN cs : ConnectionValid(cs[i])
      BY <1>2, ListedAre
    <3> HIDE DEF cs
    <3> QED BY <3>1, <3>2, ValidConnections DEF ConnectionsParse
  <2>6. DatasetsParse(ds)
    <3>1. UniqueNames(ds)
      BY <1>5 DEF CatalogLeft
    <3>2. \A i \in DOMAIN ds : DatasetValid(ds[i])
      BY <1>2, ListedAre
    <3> HIDE DEF ds
    <3> QED BY <3>1, <3>2, ValidDatasets DEF DatasetsParse
  <2> QED BY <2>1, <2>3, <2>4, <2>5, <2>6 DEF CatalogParses
<1> QED BY <1>3, <1>4, <1>5

\* A query that the schema accepts parses, but for calls of EXTERNAL_QUERY and
\* for connections that are not there.
LEMMA ValidQueries ==
  ASSUME NEW f, NEW q, QueryValid(q)
  PROVE  /\ KnownQuery(q) /\ ~EarlierQuery(q) /\ ~IsScalar(Part(q, "result"))
         /\ ~(Text(q, "sql") = RawExternalQuery \/ (q.kind = "external_query" /\ ConnectionsOf(f, q) = {})) => QueryParses(f, q)
<1> DEFINE result == Part(q, "result")  required == Part(result, "required")
<1>1. /\ DOMAIN q \subseteq {"name", "catalog", "kind", "sql", "table", "index", "binding", "inner_sql", "outer_sql",
                             "key_prefix", "order_by", "result", "params"}
      /\ {"name", "catalog", "kind", "result"} \subseteq DOMAIN q
  BY DEF QueryValid, Object
<1>2. ResultValid(result)
  BY <1>1, PresentPart DEF QueryValid
<1>3. /\ DOMAIN result \subseteq {"cardinality", "struct", "required"} /\ "struct" \in DOMAIN result
      /\ DOMAIN required \subseteq {"policy", "fields"}
  BY <1>2 DEF ResultValid, Object
<1>4. \A p \in Elements(q, "params") : DOMAIN p \subseteq {"name", "type", "scope"}
  BY DEF QueryValid, ParamValid, Object
<1>5. KnownQuery(q) /\ ~EarlierQuery(q) /\ ~IsScalar(result)
  <2> HIDE DEF result
  <2> QED BY <1>1, <1>3, <1>4 DEF KnownQuery, Known, AllKnown, EarlierQuery, Uses, IsScalar, result
<1>6. QueryShape(q)
  <2>1. /\ Text(q, "name") # "" /\ Text(q, "catalog") # ""
        /\ IdentifierReference(q.catalog) /\ IdentifierReference(Text(q, "binding"))
    BY <1>1, Identifiers DEF QueryValid, HasIdentifier, Text, IdentifierReference
  <2>2. /\ Text(result, "struct") # ""
        /\ Text(result, "cardinality") \in {"", "one", "maybe_one", "many"}
        /\ Text(required, "policy") \in {"", "override", "strict"}
    BY <1>2, <1>3 DEF ResultValid, HasText, HasOneOf, Text
  <2>3. Text(q, "kind") = q.kind
    BY <1>1 DEF Text
  <2>4. /\ \A k \in QueryTexts : k \notin DOMAIN q => k \notin Given(q)
        /\ "key_prefix" \notin DOMAIN q => "key_prefix" \notin Given(q)
        /\ Given(q) \subseteq QueryTexts \cup {"key_prefix"}
    BY DEF Given, Text, List, QueryTexts
  <2>5. \A k \in {"sql", "table", "index", "binding", "inner_sql"} : k \in DOMAIN q => k \in Given(q)
    BY DEF QueryValid, HasTexts, HasText, HasIdentifier, Given, Text, QueryTexts
  <2>6. q.kind \in Kinds /\ KindNeeds(q.kind) \subseteq Given(q) /\ Given(q) \subseteq KindTakes(q.kind)
    <3>1. CASE q.kind = "sql"
      BY <2>4, <2>5, <3>1 DEF QueryValid, QueryKindClause, Clause, AnyRequired, Kinds, KindNeeds, KindTakes, QueryTexts
    <3>2. CASE q.kind = "table"
      BY <2>4, <2>5, <3>2 DEF QueryValid, QueryKindClause, Clause, AnyRequired, Kinds, KindNeeds, KindTakes, QueryTexts
    <3>3. CASE q.kind = "index"
      BY <2>4, <2>5, <3>3 DEF QueryValid, QueryKindClause, Clause, AnyRequired, Kinds, KindNeeds, KindTakes, QueryTexts
    <3>4. CASE q.kind = "external_query"
      BY <2>4, <2>5, <3>4 DEF QueryValid, QueryKindClause, Clause, AnyRequired, Kinds, KindNeeds, KindTakes, QueryTexts
    <3> QED BY <3>1, <3>2, <3>3, <3>4 DEF QueryValid, QueryKindClause
  <2> QED BY <2>1, <2>2, <2>3, <2>6 DEF QueryShape
<1> QED BY <1>5, <1>6 DEF QueryParses

\* A write that the schema accepts parses, but for the columns of an upsert.
LEMMA ValidWrites ==
  ASSUME NEW w, WriteValid(w)
  PROVE  /\ KnownWrite(w) /\ ~EarlierWrite(w)
         /\ ~(w.operation = "upsert" /\ ~UpsertColumns(w)) => WriteParses(w)
<1> DEFINE insert == Part(w, "insert")  update == Part(w, "update")
<1>1. /\ DOMAIN w \subseteq {"name", "catalog", "table", "operation", "input", "key", "insert", "update"}
      /\ {"name", "catalog", "table", "operation", "input"} \subseteq DOMAIN w
      /\ DOMAIN insert \subseteq {"columns"} /\ DOMAIN update \subseteq {"columns", "all_non_key_columns"}
  BY DEF WriteValid, Object
<1>2. KnownWrite(w) /\ ~EarlierWrite(w)
  <2> HIDE DEF insert, update
  <2> QED BY <1>1 DEF KnownWrite, Known, EarlierWrite, Uses, insert, update
<1>3. WriteShape(w)
  <2>1. Text(w, "catalog") # "" /\ IdentifierReference(w.catalog) /\ Text(w, "operation") = w.operation
    BY <1>1 DEF WriteValid, HasIdentifier, Text, IdentifierReference
  <2>2. InsertColumns(w) # <<>> <=> "columns" \in DOMAIN insert
    BY DEF WriteValid, HasNames, HasItems, InsertColumns, List
  <2>3. UpdateColumns(w) # <<>> <=> "columns" \in DOMAIN update
    BY DEF WriteValid, HasNames, HasItems, UpdateColumns, List
  <2>4. AllNonKey(w) <=> "all_non_key_columns" \in DOMAIN update
    BY DEF WriteValid, AllNonKey, Flag
  <2>5. "insert" \notin DOMAIN w => DOMAIN insert = {}
    BY AbsentPart
  <2>6. "update" \notin DOMAIN w => DOMAIN update = {}
    BY AbsentPart
  <2>7. WriteOperationClause(w)
    BY DEF WriteValid
  <2> HIDE DEF insert, update
  <2>8. WriteOperationClause(w) <=>
          \/ /\ w.operation \in {"insert", "replace"} /\ Clause(w, {"insert"}, {"update"})
             /\ Clause(insert, {"columns"}, {})
          \/ /\ w.operation = "update" /\ Clause(w, {"update"}, {"insert"})
             /\ ("columns" \in DOMAIN update) # ("all_non_key_columns" \in DOMAIN update)
          \/ /\ w.operation = "upsert" /\ Clause(w, {"insert", "update"}, {})
             /\ Clause(insert, {"columns"}, {}) /\ Clause(update, {"columns"}, {"all_non_key_columns"})
          \/ w.operation = "delete" /\ Clause(w, {}, {"insert", "update"})
    BY DEF WriteOperationClause, insert, update
  <2>9. \/ w.operation \in {"insert", "replace"} /\ "columns" \in DOMAIN insert /\ DOMAIN update = {}
        \/ /\ w.operation = "update" /\ DOMAIN insert = {}
           /\ ("columns" \in DOMAIN update <=> "all_non_key_columns" \notin DOMAIN update)
        \/ /\ w.operation = "upsert" /\ "columns" \in DOMAIN insert /\ "columns" \in DOMAIN update
           /\ "all_non_key_columns" \notin DOMAIN update
        \/ w.operation = "delete" /\ DOMAIN insert = {} /\ DOMAIN update = {}
    BY <2>5, <2>6, <2>7, <2>8 DEF Clause, AnyRequired
  <2>10. /\ w.operation \in {"insert", "replace"} => InsertColumns(w) # <<>> /\ UpdateColumns(w) = <<>> /\ ~AllNonKey(w)
         /\ w.operation = "update" => InsertColumns(w) = <<>> /\ (UpdateColumns(w) # <<>> <=> ~AllNonKey(w))
         /\ w.operation = "upsert" => InsertColumns(w) # <<>> /\ UpdateColumns(w) # <<>> /\ ~AllNonKey(w)
         /\ w.operation = "delete" => InsertColumns(w) = <<>> /\ UpdateColumns(w) = <<>> /\ ~AllNonKey(w)
         /\ w.operation \in {"insert", "replace", "update", "upsert", "delete"}
    <3>1. CASE w.operation \in {"insert", "replace"}
      BY <2>2, <2>3, <2>4, <2>9, <3>1
    <3>2. CASE w.operation = "update"
      BY <2>2, <2>3, <2>4, <2>9, <3>2
    <3>3. CASE w.operation = "upsert"
      BY <2>2, <2>3, <2>4, <2>9, <3>3
    <3>4. CASE w.operation = "delete"
      BY <2>2, <2>3, <2>4, <2>9, <3>4
    <3> QED BY <2>9, <3>1, <3>2, <3>3, <3>4
  <2> DEFINE inserted == InsertColumns(w) # <<>>  listed == UpdateColumns(w) # <<>>
  <2>11. WriteShape(w) <=>
           /\ Text(w, "catalog") # "" /\ IdentifierReference(w.catalog)
           /\ \/ Text(w, "operation") \in {"insert", "replace"} /\ inserted /\ ~(listed \/ AllNonKey(w))
              \/ Text(w, "operation") = "update" /\ ~inserted /\ (listed \/ AllNonKey(w)) /\ ~(listed /\ AllNonKey(w))
              \/ Text(w, "operation") = "upsert" /\ inserted /\ listed /\ ~AllNonKey(w)
              \/ Text(w, "operation") = "delete" /\ ~inserted /\ ~(listed \/ AllNonKey(w))
    BY DEF WriteShape
  <2> QED BY <2>1, <2>10, <2>11
<1> QED BY <1>2, <1>3 DEF WriteParses

\* What the schema accepts parses, but for what it leaves to planning.
LEMMA AcceptedFilesParse ==
  ASSUME NEW f, SchemaAccepts(f)
  PROVE  Parses(f) \/ LeftToPlanning(f) \/ PostgreSQLBigQuery(f)
<1> SUFFICES ASSUME ~LeftToPlanning(f), ~PostgreSQLBigQuery(f) PROVE Parses(f)
  OBVIOUS
<1> DEFINE emit == Part(f, "emit")  rules == Part(f, "rules")
<1>1. /\ DOMAIN f \subseteq {"version", "go", "emit", "catalogs", "queries", "writes", "rules"}
      /\ {"version", "go", "catalogs"} \subseteq DOMAIN f
      /\ "queries" \in DOMAIN f \/ "writes" \in DOMAIN f
      /\ DOMAIN Part(f, "go") \subseteq {"package", "out"}
      /\ DOMAIN emit \subseteq {"spanner", "bigquery"}
      /\ DOMAIN Part(emit, "spanner") \subseteq {"mutations", "dml"}
      /\ DOMAIN Part(emit, "bigquery") \subseteq {"row_loader", "table_schema"}
      /\ DOMAIN rules \subseteq {"suppressions"}
  BY DEF SchemaAccepts, Object, AnyRequired
<1>2. /\ \A c \in Elements(f, "catalogs") : CatalogValid(c)
      /\ \A q \in Elements(f, "queries") : QueryValid(q)
      /\ \A w \in Elements(f, "writes") : WriteValid(w)
      /\ \A s \in Elements(rules, "suppressions") : SuppressionValid(s)
  BY DEF SchemaAccepts
<1>3. Text(f, "version") = "v1alpha" /\ List(f, "catalogs") # <<>> /\ (List(f, "queries") # <<>> \/ List(f, "writes") # <<>>)
  BY <1>1 DEF SchemaAccepts, HasItems, Text, List
<1>4. ~EarlierKeys(f)
  <2> HIDE DEF emit, rules
  <2> QED BY <1>1, <1>2, ValidQueries, ValidWrites, ValidCatalogs DEF EarlierKeys, Uses, rules
<1>5. KnownKeys(f)
  <2>1. \A s \in Elements(rules, "suppressions") : Known(s, {"scope", "rule", "reason", "owner", "expires"})
    BY <1>2 DEF SuppressionValid, Object, Known
  <2>2. \A c \in Elements(f, "catalogs") : KnownCatalog(c)
    BY <1>2, ValidCatalogs
  <2>3. \A q \in Elements(f, "queries") : KnownQuery(q)
    BY <1>2, ValidQueries
  <2>4. \A w \in Elements(f, "writes") : KnownWrite(w)
    BY <1>2, ValidWrites
  <2>5. KnownRules(rules)
    BY <1>1, <2>1 DEF KnownRules, Known, AllKnown
  <2>6. /\ Known(f, {"version", "go", "emit", "catalogs", "queries", "writes", "rules"})
        /\ Known(Part(f, "go"), {"package", "out"})
        /\ Known(emit, {"spanner", "bigquery"})
        /\ Known(Part(emit, "spanner"), {"mutations", "dml", "query_methods"})
        /\ Known(Part(emit, "bigquery"), {"row_loader", "table_schema", "query_methods"})
    BY <1>1 DEF Known
  <2> QED BY <2>2, <2>3, <2>4, <2>5, <2>6 DEF KnownKeys
<1>6. \A target \in DOMAIN emit : ~Flag(f.emit[target], "query_methods")
  <2> SUFFICES ASSUME NEW target \in DOMAIN emit PROVE ~Flag(f.emit[target], "query_methods")
    OBVIOUS
  <2>1. "emit" \in DOMAIN f
    BY AbsentPart
  <2>2. f.emit[target] = Part(emit, target) /\ target \in {"spanner", "bigquery"}
    BY <1>1, <2>1, PresentPart
  <2>3. "query_methods" \notin DOMAIN Part(emit, target)
    BY <1>1, <2>2
  <2> QED BY <2>2, <2>3 DEF Flag
<1>7. UniqueNames(List(f, "catalogs")) /\ UniqueNames(List(f, "queries")) /\ UniqueNames(List(f, "writes"))
  BY <1>1, PresentPart DEF LeftToPlanning
<1>8. \A c \in Elements(f, "catalogs") : CatalogParses(c)
  <2> SUFFICES ASSUME NEW c \in Elements(f, "catalogs") PROVE CatalogParses(c)
    OBVIOUS
  <2>1. ~CatalogLeft(c)
    BY DEF LeftToPlanning, CatalogLeft
  <2>2. ~(Text(c, "kind") = "bigquery" /\ Text(c, "dialect") = "postgresql")
    BY DEF PostgreSQLBigQuery
  <2> QED BY <1>2, <2>1, <2>2, ValidCatalogs
<1>9. \A q \in Elements(f, "queries") : QueryParses(f, q)
  BY <1>2, ValidQueries DEF LeftToPlanning
<1>10. \A w \in Elements(f, "writes") : WriteParses(w)
  BY <1>2, ValidWrites DEF LeftToPlanning
<1>11. \A s \in Elements(rules, "suppressions") : SuppressionResolves(f, s)
  BY DEF LeftToPlanning
<1> QED BY <1>3, <1>4, <1>5, <1>6, <1>7, <1>8, <1>9, <1>10, <1>11 DEF Parses

\* A key that stands has a value, and nothing else may be asked of texts and lists.
LEMMA FilledTexts ==
  ASSUME NEW o, Filled(o)
  PROVE  /\ \A k \in TextKeys : k \in DOMAIN o => Text(o, k) # ""
         /\ HasTexts(o, TextKeys)
         /\ \A k \in NameKeys : HasNames(o, k) /\ (k \in DOMAIN o => List(o, k) # <<>>)
         /\ \A k \in ListKeys : HasItems(o, k) /\ (k \in DOMAIN o => List(o, k) # <<>>)
         /\ \A k \in {"bindings", "insert", "update"} : k \in DOMAIN o => DOMAIN Part(o, k) # {}
         /\ \A k \in {"all_non_key_columns", "query_methods"} : k \in DOMAIN o => o[k]
<1>1. /\ HasTexts(o, TextKeys) /\ (\A k \in NameKeys : HasNames(o, k)) /\ (\A k \in ListKeys : HasItems(o, k))
      /\ \A k \in {"bindings", "insert", "update"} : k \in DOMAIN o => DOMAIN o[k] # {}
      /\ \A k \in {"all_non_key_columns", "query_methods"} : k \in DOMAIN o => o[k]
  BY DEF Filled
<1>2. \A k \in TextKeys : k \in DOMAIN o => Text(o, k) # ""
  BY <1>1 DEF HasTexts, HasText, Text
<1>3. \A k \in NameKeys : HasItems(o, k)
  BY <1>1 DEF HasNames
<1>4. \A k : HasItems(o, k) /\ k \in DOMAIN o => List(o, k) # <<>>
  BY DEF HasItems, List
<1>5. \A k \in {"bindings", "insert", "update"} : k \in DOMAIN o => DOMAIN Part(o, k) # {}
  BY <1>1 DEF Part
<1> QED BY <1>1, <1>2, <1>3, <1>4, <1>5

\* A text that refers by an identifier is one where it stands.
LEMMA NamedIsIdentifier ==
  ASSUME NEW o, NEW k, Filled(o), k \in TextKeys, IdentifierReference(Text(o, k))
  PROVE  HasIdentifier(o, k)
BY FilledTexts DEF HasIdentifier, IdentifierReference, Text

\* A text that is not empty stands there.
LEMMA GivenText ==
  ASSUME NEW o, NEW k, Text(o, k) # ""
  PROVE  k \in DOMAIN o /\ Text(o, k) = o[k]
BY DEF Text

\* Names that are unique are identifiers, or empty.
LEMMA UniqueNamesAreIdentifiers ==
  ASSUME NEW o, NEW k, UniqueNames(List(o, k)), NEW x \in Elements(o, k)
  PROVE  IdentifierReference(Text(x, "name"))
BY DEF UniqueNames, Elements, ToSet

\* A text that is empty or one of a set is one of the set where it stands.
LEMMA OneOfIs ==
  ASSUME NEW o, NEW k \in TextKeys, NEW S, Filled(o), Text(o, k) \in {""} \cup S
  PROVE  HasOneOf(o, k, S)
BY FilledTexts DEF HasOneOf, Text

\* What is complete and parses the schema accepts: connections, datasets,
\* catalogs, queries, writes and suppressions in turn.
LEMMA ParsedConnections ==
  ASSUME NEW b, NEW x \in Elements(b, "external_query_connections"), Filled(x), Known(x, {"name", "id", "spanner_catalog"}),
         ConnectionsParse(List(b, "external_query_connections"))
  PROVE  ConnectionValid(x)
<1> DEFINE cs == List(b, "external_query_connections")
<1>1. PICK i \in DOMAIN cs : x = cs[i]
  BY DEF Elements, ToSet
<1>2. /\ Text(x, "name") # "" /\ Text(x, "id") # "" /\ Text(x, "spanner_catalog") # ""
      /\ IdentifierReference(x.spanner_catalog) /\ IdentifierReference(Text(x, "name"))
  BY <1>1 DEF ConnectionsParse, UniqueNames
<1>3. {"name", "id", "spanner_catalog"} \subseteq DOMAIN x
  BY <1>2 DEF Text
<1>4. HasIdentifier(x, "name") /\ HasIdentifier(x, "spanner_catalog") /\ HasText(x, "id")
  BY <1>2, <1>3 DEF HasIdentifier, HasText, IdentifierReference, Text
<1> QED BY <1>3, <1>4 DEF ConnectionValid, Object, Known

LEMMA ParsedDatasets ==
  ASSUME NEW b, NEW d \in Elements(b, "spanner_external_datasets"), DatasetComplete(d),
         Known(d, {"name", "dataset", "spanner_catalog", "spanner_database_uri", "location", "access", "projection"}),
         Known(Part(d, "access"), {"cloud_resource_connection_id", "verification_evidence"}),
         Known(Part(Part(d, "access"), "verification_evidence"), {"status", "verifier", "checked_at"}),
         Known(Part(d, "projection"), {"unsupported_columns", "named_schema_tables"}),
         Text(Part(Part(d, "access"), "verification_evidence"), "status") \in {"", "verified", "mismatch", "failed"},
         DatasetsParse(List(b, "spanner_external_datasets"))
  PROVE  DatasetValid(d)
<1> DEFINE ds == List(b, "spanner_external_datasets")  access == Part(d, "access")  policy == Part(d, "projection")
<1>1. PICK i \in DOMAIN ds : d = ds[i]
  BY DEF Elements, ToSet
<1>2. /\ \A k \in {"name", "dataset", "spanner_catalog"} : Text(d, k) # ""
      /\ IdentifierReference(d.spanner_catalog) /\ IdentifierReference(Text(d, "name"))
      /\ Text(policy, "unsupported_columns") \in {"", "reject", "omit"}
      /\ Text(policy, "named_schema_tables") \in {"", "reject", "warn_and_omit"}
  BY <1>1 DEF DatasetsParse, UniqueNames
<1>3. {"name", "dataset", "spanner_catalog"} \subseteq DOMAIN d
  BY <1>2 DEF Text
<1>4. Filled(d) /\ Filled(access) /\ Filled(policy)
  BY DEF DatasetComplete
<1>5. HasIdentifier(d, "name") /\ HasIdentifier(d, "spanner_catalog")
  BY <1>2, <1>3 DEF HasIdentifier, IdentifierReference, Text
<1>6. HasTexts(d, {"dataset", "spanner_database_uri", "location"}) /\ HasText(access, "cloud_resource_connection_id")
  BY <1>4, FilledTexts DEF HasTexts, TextKeys
<1>7. /\ HasOneOf(policy, "unsupported_columns", {"reject", "omit"})
      /\ HasOneOf(policy, "named_schema_tables", {"reject", "warn_and_omit"})
  <2>1. "unsupported_columns" \in TextKeys /\ "named_schema_tables" \in TextKeys
    BY DEF TextKeys
  <2>2. /\ Text(policy, "unsupported_columns") \in {""} \cup {"reject", "omit"}
        /\ Text(policy, "named_schema_tables") \in {""} \cup {"reject", "warn_and_omit"}
    BY <1>2
  <2> HIDE DEF policy
  <2> QED BY <1>4, <2>1, <2>2, OneOfIs
<1>8. "verification_evidence" \in DOMAIN access => EvidenceValid(access.verification_evidence)
  <2> SUFFICES ASSUME "verification_evidence" \in DOMAIN access PROVE EvidenceValid(access.verification_evidence)
    OBVIOUS
  <2> DEFINE e == access.verification_evidence
  <2>1. e = Part(access, "verification_evidence")
    BY DEF Part
  <2>2. EvidenceComplete(e)
    BY DEF DatasetComplete
  <2>3. DOMAIN e \subseteq {"status", "verifier", "checked_at"} /\ Text(e, "status") \in {""} \cup {"verified", "mismatch", "failed"}
    BY <2>1 DEF Known
  <2> HIDE DEF e
  <2>4. Filled(e) /\ {"status", "verifier", "checked_at"} \subseteq DOMAIN e
    BY <2>2 DEF EvidenceComplete
  <2>5. HasTexts(e, {"verifier", "checked_at"})
    BY <2>4, FilledTexts DEF HasTexts, TextKeys
  <2>6. "status" \in TextKeys
    BY DEF TextKeys
  <2>7. HasOneOf(e, "status", {"verified", "mismatch", "failed"})
    BY <2>3, <2>4, <2>6, OneOfIs
  <2>8. EvidenceValid(e)
    BY <2>3, <2>4, <2>5, <2>7 DEF EvidenceValid, Object
  <2> QED BY <2>8 DEF e
<1> HIDE DEF access, policy
<1>9. /\ Known(d, {"name", "dataset", "spanner_catalog", "spanner_database_uri", "location", "access", "projection"})
      /\ Known(access, {"cloud_resource_connection_id", "verification_evidence"})
      /\ Known(policy, {"unsupported_columns", "named_schema_tables"})
  BY DEF access, policy
<1> QED BY <1>3, <1>5, <1>6, <1>7, <1>8, <1>9 DEF DatasetValid, Object, Known, access, policy

\* What the parser passes on of one catalog, and of one query.
CatalogPassedOn(c) ==
  \E d \in Elements(Part(c, "bindings"), "spanner_external_datasets") :
    Text(Part(Part(d, "access"), "verification_evidence"), "status") \notin {"", "verified", "mismatch", "failed"}
QueryPassedOn(q) ==
  \/ Text(q, "order_by") \notin {"", "key", "none"}
  \/ \E p \in Elements(q, "params") :
       "scope" \in DOMAIN p /\ (q.kind # "external_query" \/ p.scope \notin {"inner", "outer"})

LEMMA ParsedCatalogs ==
  ASSUME NEW f, NEW c \in Elements(f, "catalogs"), CatalogComplete(c), KnownCatalog(c), UniqueNames(List(f, "catalogs")),
         CatalogParses(c), ~CatalogPassedOn(c)
  PROVE  CatalogValid(c)
<1> DEFINE b == Part(c, "bindings")
<1>1. Filled(c) /\ Filled(b)
  BY DEF CatalogComplete
<1>2. Text(c, "name") # "" /\ CatalogShape(c) /\ CatalogDialect(c) # "" /\ IdentifierReference(Text(c, "name"))
  BY UniqueNamesAreIdentifiers DEF CatalogParses
<1>3. Text(c, "kind") \in {"spanner", "bigquery"}
  BY <1>2 DEF CatalogShape
<1>4. /\ "name" \in DOMAIN c /\ "kind" \in DOMAIN c /\ c.kind = Text(c, "kind")
  BY <1>2, <1>3, GivenText
<1>5. HasIdentifier(c, "name")
  BY <1>1, <1>2, NamedIsIdentifier DEF TextKeys
<1>6. HasOneOf(c, "dialect", {"googlesql", "postgresql"})
  <2>1. Text(c, "dialect") \in {""} \cup {"googlesql", "postgresql"}
    BY <1>2 DEF CatalogDialect
  <2> QED BY <1>1, <2>1, OneOfIs DEF TextKeys
<1>7. HasTexts(c, {"project", "ddl"}) /\ HasNames(c, "proto_descriptors")
  BY <1>1, FilledTexts DEF HasTexts, TextKeys, NameKeys
<1>8. HasItems(b, "external_query_connections") /\ HasItems(b, "spanner_external_datasets")
  BY <1>1, FilledTexts DEF ListKeys
<1>9. /\ DOMAIN b \subseteq {"external_query_connections", "spanner_external_datasets"}
      /\ DOMAIN c \subseteq {"name", "kind", "dialect", "project", "ddl", "proto_descriptors", "bindings"}
  BY DEF KnownCatalog, Known
<1>10. CatalogKindClause(c)
  <2>1. CASE Text(c, "kind") = "spanner"
    <3>1. /\ Text(c, "project") = ""
          /\ List(b, "external_query_connections") = <<>> /\ List(b, "spanner_external_datasets") = <<>>
      BY <1>2, <2>1 DEF CatalogShape
    <3>2. "project" \notin DOMAIN c
      BY <1>1, <3>1, FilledTexts DEF TextKeys
    <3>3. DOMAIN b = {}
      BY <1>1, <1>9, <3>1, FilledTexts DEF ListKeys
    <3>4. "bindings" \notin DOMAIN c
      BY <1>1, <3>3, FilledTexts
    <3> QED BY <1>4, <2>1, <3>2, <3>4 DEF CatalogKindClause, Clause, AnyRequired
  <2>2. CASE Text(c, "kind") = "bigquery"
    <3>1. List(c, "proto_descriptors") = <<>>
      BY <1>2, <2>2 DEF CatalogShape
    <3>2. "proto_descriptors" \notin DOMAIN c
      BY <1>1, <3>1, FilledTexts DEF NameKeys
    <3> QED BY <1>4, <2>2, <3>2 DEF CatalogKindClause, Clause, AnyRequired
  <2> QED BY <1>3, <2>1, <2>2
<1>11. \A x \in Elements(b, "external_query_connections") : ConnectionValid(x)
  <2> SUFFICES ASSUME NEW x \in Elements(b, "external_query_connections") PROVE ConnectionValid(x)
    OBVIOUS
  <2>1. Filled(x) /\ Known(x, {"name", "id", "spanner_catalog"}) /\ ConnectionsParse(List(b, "external_query_connections"))
    BY DEF CatalogComplete, KnownCatalog, AllKnown, CatalogParses
  <2> QED BY <2>1, ParsedConnections
<1>12. \A d \in Elements(b, "spanner_external_datasets") : DatasetValid(d)
  <2> SUFFICES ASSUME NEW d \in Elements(b, "spanner_external_datasets") PROVE DatasetValid(d)
    OBVIOUS
  <2>1. /\ DatasetComplete(d) /\ DatasetsParse(List(b, "spanner_external_datasets"))
        /\ Text(Part(Part(d, "access"), "verification_evidence"), "status") \in {"", "verified", "mismatch", "failed"}
    BY DEF CatalogComplete, CatalogParses, CatalogPassedOn
  <2>2. /\ Known(d, {"name", "dataset", "spanner_catalog", "spanner_database_uri", "location", "access", "projection"})
        /\ Known(Part(d, "access"), {"cloud_resource_connection_id", "verification_evidence"})
        /\ Known(Part(Part(d, "access"), "verification_evidence"), {"status", "verifier", "checked_at"})
        /\ Known(Part(d, "projection"), {"unsupported_columns", "named_schema_tables"})
    BY DEF KnownCatalog
  <2> HIDE DEF b
  <2> QED BY <2>1, <2>2, ParsedDatasets
<1> HIDE DEF b
<1> QED BY <1>4, <1>5, <1>6, <1>7, <1>8, <1>9, <1>10, <1>11, <1>12 DEF CatalogValid, Object, b

LEMMA ParsedQueries ==
  ASSUME NEW f, NEW q \in Elements(f, "queries"), QueryComplete(q), KnownQuery(q), UniqueNames(List(f, "queries")),
         QueryParses(f, q), ~QueryPassedOn(q), ~(q.kind = "table" /\ "key_prefix" \in DOMAIN q),
         \A p \in Elements(q, "params") : DOMAIN p \cap {"optional", "choices", "default"} = {}
  PROVE  QueryValid(q)
<1> DEFINE result == Part(q, "result")  required == Part(result, "required")
<1>1. Filled(q) /\ Filled(result) /\ Filled(required)
  BY DEF QueryComplete
<1>2. QueryShape(q) /\ IdentifierReference(Text(q, "name"))
  BY UniqueNamesAreIdentifiers DEF QueryParses
<1>3. /\ Text(q, "name") # "" /\ Text(q, "catalog") # ""
      /\ IdentifierReference(q.catalog) /\ IdentifierReference(Text(q, "binding"))
      /\ Text(result, "struct") # ""
      /\ Text(result, "cardinality") \in {"", "one", "maybe_one", "many"}
      /\ Text(required, "policy") \in {"", "override", "strict"}
      /\ Text(q, "kind") \in Kinds
      /\ KindNeeds(Text(q, "kind")) \subseteq Given(q) /\ Given(q) \subseteq KindTakes(Text(q, "kind"))
  BY <1>2 DEF QueryShape
<1>4. {"name", "catalog", "kind", "result"} \subseteq DOMAIN q /\ "struct" \in DOMAIN result /\ q.kind = Text(q, "kind")
  <2>1. Text(q, "kind") # ""
    BY <1>3 DEF Kinds
  <2>2. "struct" \in DOMAIN result
    BY <1>3, GivenText
  <2>3. "result" \in DOMAIN q
    BY <2>2, AbsentPart
  <2> QED BY <1>3, <2>1, <2>2, <2>3, GivenText
<1>5. HasIdentifier(q, "name") /\ HasIdentifier(q, "catalog") /\ HasIdentifier(q, "binding")
  <2>1. Text(q, "catalog") = q.catalog
    BY <1>3, GivenText
  <2> QED BY <1>1, <1>2, <1>3, <2>1, NamedIsIdentifier DEF TextKeys, QueryTexts
<1>6. HasTexts(q, {"sql", "table", "index", "inner_sql", "outer_sql"}) /\ HasNames(q, "key_prefix") /\ HasItems(q, "params")
  BY <1>1, FilledTexts DEF HasTexts, TextKeys, QueryTexts, NameKeys, ListKeys
<1>7. HasOneOf(q, "order_by", {"key", "none"})
  <2>1. Text(q, "order_by") \in {""} \cup {"key", "none"}
    BY DEF QueryPassedOn
  <2> QED BY <1>1, <2>1, OneOfIs DEF TextKeys
<1>8. QueryKindClause(q)
  <2>1. \A k \in QueryTexts : k \in DOMAIN q => k \in Given(q)
    BY <1>1, FilledTexts DEF Given, TextKeys
  <2>2. "key_prefix" \in DOMAIN q => "key_prefix" \in Given(q)
    BY <1>1, FilledTexts DEF Given, NameKeys
  <2>3. Given(q) \subseteq DOMAIN q
    BY GivenText DEF Given, List
  <2>4. CASE q.kind = "sql"
    BY <1>3, <1>4, <2>1, <2>2, <2>3, <2>4 DEF KindNeeds, KindTakes, QueryKindClause, Clause, AnyRequired, QueryTexts
  <2>5. CASE q.kind = "table"
    BY <1>3, <1>4, <2>1, <2>2, <2>3, <2>5 DEF KindNeeds, KindTakes, QueryKindClause, Clause, AnyRequired, QueryTexts
  <2>6. CASE q.kind = "index"
    BY <1>3, <1>4, <2>1, <2>2, <2>3, <2>6 DEF KindNeeds, KindTakes, QueryKindClause, Clause, AnyRequired, QueryTexts
  <2>7. CASE q.kind = "external_query"
    BY <1>3, <1>4, <2>1, <2>2, <2>3, <2>7 DEF KindNeeds, KindTakes, QueryKindClause, Clause, AnyRequired, QueryTexts
  <2> QED BY <1>3, <1>4, <2>4, <2>5, <2>6, <2>7 DEF Kinds
<1>9. /\ DOMAIN q \subseteq {"name", "catalog", "kind", "sql", "table", "index", "binding", "inner_sql", "outer_sql",
                             "key_prefix", "order_by", "result", "params"}
      /\ DOMAIN result \subseteq {"cardinality", "struct", "required"} /\ DOMAIN required \subseteq {"policy", "fields"}
      /\ \A p \in Elements(q, "params") : DOMAIN p \subseteq {"name", "type", "scope", "optional", "choices", "default"}
  BY DEF KnownQuery, Known, AllKnown
<1>10. ResultValid(result)
  <2> HIDE DEF result, required
  <2>1. HasOneOf(result, "cardinality", {"one", "maybe_one", "many"})
    <3>1. Text(result, "cardinality") \in {""} \cup {"one", "maybe_one", "many"}
      BY <1>3
    <3> QED BY <1>1, <3>1, OneOfIs DEF TextKeys
  <2>2. HasOneOf(required, "policy", {"override", "strict"})
    <3>1. Text(required, "policy") \in {""} \cup {"override", "strict"}
      BY <1>3
    <3> QED BY <1>1, <3>1, OneOfIs DEF TextKeys
  <2>3. HasText(result, "struct") /\ HasNames(required, "fields")
    BY <1>1, FilledTexts DEF HasTexts, TextKeys, NameKeys
  <2> QED BY <1>4, <1>9, <2>1, <2>2, <2>3 DEF ResultValid, Object, required
<1>11. \A p \in Elements(q, "params") : ParamValid(p, q.kind)
  <2> SUFFICES ASSUME NEW p \in Elements(q, "params") PROVE ParamValid(p, q.kind)
    OBVIOUS
  <2>1. Filled(p) /\ {"name", "type"} \subseteq DOMAIN p
    BY DEF QueryComplete
  <2>2. HasTexts(p, {"name", "type"})
    BY <2>1, FilledTexts DEF HasTexts, TextKeys
  <2>3. "scope" \in DOMAIN p => q.kind = "external_query" /\ p.scope \in {"inner", "outer"}
    BY DEF QueryPassedOn
  <2>4. DOMAIN p \subseteq {"name", "type", "scope"}
    BY <1>9
  <2> QED BY <2>1, <2>2, <2>3, <2>4 DEF ParamValid, Object, HasOneOf
<1>12. result = q.result
  BY <1>4, PresentPart
<1> HIDE DEF result, required
<1> QED BY <1>4, <1>5, <1>6, <1>7, <1>8, <1>9, <1>10, <1>11, <1>12 DEF QueryValid, Object

LEMMA ParsedWrites ==
  ASSUME NEW f, NEW w \in Elements(f, "writes"), WriteComplete(w), KnownWrite(w), UniqueNames(List(f, "writes")), WriteParses(w)
  PROVE  WriteValid(w)
<1> DEFINE insert == Part(w, "insert")  update == Part(w, "update")
<1>1. Filled(w) /\ Filled(insert) /\ Filled(update) /\ {"name", "table", "input"} \subseteq DOMAIN w
  BY DEF WriteComplete
<1>2. /\ Text(w, "catalog") # "" /\ IdentifierReference(w.catalog) /\ IdentifierReference(Text(w, "name"))
  BY UniqueNamesAreIdentifiers DEF WriteParses, WriteShape
<1>3. "catalog" \in DOMAIN w /\ HasIdentifier(w, "name") /\ HasIdentifier(w, "catalog")
  <2>1. "catalog" \in DOMAIN w /\ Text(w, "catalog") = w.catalog
    BY <1>2, GivenText
  <2> QED BY <1>1, <1>2, <2>1, NamedIsIdentifier DEF TextKeys
<1>4. /\ DOMAIN w \subseteq {"name", "catalog", "table", "operation", "input", "key", "insert", "update"}
      /\ DOMAIN insert \subseteq {"columns"} /\ DOMAIN update \subseteq {"columns", "all_non_key_columns"}
  BY DEF KnownWrite, Known
<1>5. HasTexts(w, {"table", "input"}) /\ HasNames(w, "key") /\ HasNames(insert, "columns") /\ HasNames(update, "columns")
  BY <1>1, FilledTexts DEF HasTexts, TextKeys, QueryTexts, NameKeys
<1>6. "all_non_key_columns" \in DOMAIN update => update.all_non_key_columns
  BY <1>1, FilledTexts
<1>7. /\ InsertColumns(w) # <<>> <=> "columns" \in DOMAIN insert
      /\ UpdateColumns(w) # <<>> <=> "columns" \in DOMAIN update
      /\ AllNonKey(w) <=> "all_non_key_columns" \in DOMAIN update
  <2> HIDE DEF insert, update
  <2>1. \A o : Filled(o) => (List(o, "columns") # <<>> <=> "columns" \in DOMAIN o)
    <3> SUFFICES ASSUME NEW o, Filled(o) PROVE List(o, "columns") # <<>> <=> "columns" \in DOMAIN o
      OBVIOUS
    <3>1. "columns" \in DOMAIN o => List(o, "columns") # <<>>
      BY FilledTexts DEF NameKeys
    <3> QED BY <3>1, AbsentPart
  <2>2. InsertColumns(w) = List(insert, "columns") /\ UpdateColumns(w) = List(update, "columns")
    BY DEF InsertColumns, UpdateColumns, insert, update
  <2>3. AllNonKey(w) <=> "all_non_key_columns" \in DOMAIN update /\ update["all_non_key_columns"]
    BY DEF AllNonKey, Flag, update
  <2>4. "all_non_key_columns" \in DOMAIN update => update["all_non_key_columns"]
    BY <1>6
  <2> QED BY <1>1, <2>1, <2>2, <2>3, <2>4
<1>8. /\ "insert" \in DOMAIN w <=> "columns" \in DOMAIN insert
      /\ "update" \in DOMAIN w <=> "columns" \in DOMAIN update \/ "all_non_key_columns" \in DOMAIN update
  <2>1. "insert" \in DOMAIN w => DOMAIN insert # {}
    BY <1>1, FilledTexts
  <2>2. "update" \in DOMAIN w => DOMAIN update # {}
    BY <1>1, FilledTexts
  <2>3. ("insert" \notin DOMAIN w => DOMAIN insert = {}) /\ ("update" \notin DOMAIN w => DOMAIN update = {})
    BY AbsentPart
  <2> HIDE DEF insert, update
  <2> QED BY <1>4, <2>1, <2>2, <2>3
<1>9. LET inserts == "insert" \in DOMAIN w
          listed  == "columns" \in DOMAIN update
          all     == "all_non_key_columns" \in DOMAIN update
      IN  \/ Text(w, "operation") \in {"insert", "replace"} /\ inserts /\ ~listed /\ ~all
          \/ Text(w, "operation") = "update" /\ ~inserts /\ (listed \/ all) /\ ~(listed /\ all)
          \/ Text(w, "operation") = "upsert" /\ inserts /\ listed /\ ~all
          \/ Text(w, "operation") = "delete" /\ ~inserts /\ ~listed /\ ~all
  <2>1. LET inserts == InsertColumns(w) # <<>>
            listed  == UpdateColumns(w) # <<>>
        IN  \/ Text(w, "operation") \in {"insert", "replace"} /\ inserts /\ ~(listed \/ AllNonKey(w))
            \/ Text(w, "operation") = "update" /\ ~inserts /\ (listed \/ AllNonKey(w)) /\ ~(listed /\ AllNonKey(w))
            \/ Text(w, "operation") = "upsert" /\ inserts /\ listed /\ ~AllNonKey(w)
            \/ Text(w, "operation") = "delete" /\ ~inserts /\ ~(listed \/ AllNonKey(w))
    BY DEF WriteParses, WriteShape
  <2> HIDE DEF insert, update
  <2> QED BY <1>7, <1>8, <2>1
<1>10. "operation" \in DOMAIN w /\ Text(w, "operation") = w.operation
  <2>1. Text(w, "operation") # ""
    BY <1>9
  <2> QED BY <2>1, GivenText
<1>11. WriteOperationClause(w)
  <2> HIDE DEF insert, update
  <2>1. w.operation \in {"insert", "replace"} => Clause(w, {"insert"}, {"update"}) /\ Clause(insert, {"columns"}, {})
    BY <1>8, <1>9, <1>10 DEF Clause, AnyRequired
  <2>2. w.operation = "update" => /\ Clause(w, {"update"}, {"insert"})
                                  /\ ("columns" \in DOMAIN update) # ("all_non_key_columns" \in DOMAIN update)
    BY <1>8, <1>9, <1>10 DEF Clause, AnyRequired
  <2>3. w.operation = "upsert" => /\ Clause(w, {"insert", "update"}, {}) /\ Clause(insert, {"columns"}, {})
                                  /\ Clause(update, {"columns"}, {"all_non_key_columns"})
    BY <1>8, <1>9, <1>10 DEF Clause, AnyRequired
  <2>4. w.operation = "delete" => Clause(w, {}, {"insert", "update"})
    BY <1>8, <1>9, <1>10 DEF Clause, AnyRequired
  <2>5. w.operation \in {"insert", "replace", "update", "upsert", "delete"}
    BY <1>9, <1>10
  <2> QED BY <2>1, <2>2, <2>3, <2>4, <2>5 DEF WriteOperationClause, insert, update
<1> HIDE DEF insert, update
<1> QED BY <1>1, <1>3, <1>4, <1>5, <1>6, <1>10, <1>11 DEF WriteValid, Object, insert, update

LEMMA ParsedSuppressions ==
  ASSUME NEW f, NEW s, Filled(s), {"rule", "reason"} \subseteq DOMAIN s, SuppressionResolves(f, s), Text(s, "expires") \notin NotDates,
         Known(s, {"scope", "rule", "reason", "owner", "expires"})
  PROVE  SuppressionValid(s)
<1>1. HasTexts(s, {"rule", "reason", "owner", "expires"})
  BY FilledTexts DEF HasTexts, TextKeys
<1>2. /\ Len(List(s, "scope")) >= 2
      /\ List(s, "scope")[1] \in {"query", "write", "catalog-binding"}
  BY DEF SuppressionResolves
<1>3. "scope" \in DOMAIN s
  <2> SUFFICES ASSUME "scope" \notin DOMAIN s PROVE FALSE
    OBVIOUS
  <2>1. List(s, "scope") = <<>>
    BY AbsentPart
  <2> QED BY <1>2, <2>1
<1>4. List(s, "scope") = s.scope
  BY <1>3, PresentPart
<1>5. Len(s.scope) >= 2 /\ s.scope[1] \in {"query", "write", "catalog-binding"}
  BY <1>2, <1>4
<1>6. Object(s, {"scope", "rule", "reason"}, {"scope", "rule", "reason", "owner", "expires"})
  BY <1>3 DEF Object, Known
<1> QED BY <1>1, <1>5, <1>6 DEF SuppressionValid

\* What is complete and parses the schema accepts, but for the divergences.
LEMMA ParsedFilesAreAccepted ==
  ASSUME NEW f, Parses(f), FileComplete(f)
  PROVE  SchemaAccepts(f) \/ TableKeyPrefix(f) \/ OptionalParams(f) \/ PassedOn(f)
<1> SUFFICES ASSUME ~TableKeyPrefix(f), ~OptionalParams(f), ~PassedOn(f) PROVE SchemaAccepts(f)
  OBVIOUS
<1> DEFINE emit == Part(f, "emit")  rules == Part(f, "rules")
<1>1. /\ Filled(f) /\ "go" \in DOMAIN f /\ Filled(f.go) /\ "package" \in DOMAIN f.go
      /\ Filled(Part(emit, "spanner")) /\ Filled(Part(emit, "bigquery")) /\ Filled(rules)
  BY DEF FileComplete
<1>2. /\ DOMAIN f \subseteq {"version", "go", "emit", "catalogs", "queries", "writes", "rules"}
      /\ DOMAIN Part(f, "go") \subseteq {"package", "out"} /\ DOMAIN emit \subseteq {"spanner", "bigquery"}
      /\ DOMAIN Part(emit, "spanner") \subseteq {"mutations", "dml", "query_methods"}
      /\ DOMAIN Part(emit, "bigquery") \subseteq {"row_loader", "table_schema", "query_methods"}
      /\ DOMAIN rules \subseteq {"suppressions"}
  BY DEF Parses, KnownKeys, KnownRules, Known
<1>3. f.version = "v1alpha" /\ "version" \in DOMAIN f
  BY DEF Parses, Text
<1>4. /\ "catalogs" \in DOMAIN f /\ AnyRequired(f, {"queries", "writes"})
  BY DEF Parses, List, AnyRequired
<1>5. Part(f, "go") = f.go /\ HasTexts(f.go, {"package", "out"})
  BY <1>1, PresentPart, FilledTexts DEF HasTexts, TextKeys
<1>6. ASSUME NEW target \in {"spanner", "bigquery"} PROVE "query_methods" \notin DOMAIN Part(emit, target)
  <2> SUFFICES ASSUME "query_methods" \in DOMAIN Part(emit, target) PROVE FALSE
    OBVIOUS
  <2>1. target \in DOMAIN emit
    BY AbsentPart
  <2>2. "emit" \in DOMAIN f
    BY <2>1, AbsentPart
  <2>3. f.emit[target] = Part(emit, target)
    BY <2>1, <2>2, PresentPart
  <2>4. Filled(Part(emit, target))
    BY <1>1
  <2>5. Flag(Part(emit, target), "query_methods")
    BY <2>4, FilledTexts DEF Flag
  <2> QED BY <2>1, <2>3, <2>5 DEF Parses
<1>7. \A k \in {"catalogs", "queries", "writes"} : HasItems(f, k)
  BY <1>1, FilledTexts DEF ListKeys
<1>8. HasItems(rules, "suppressions")
  BY <1>1, FilledTexts DEF ListKeys
<1>9. \A c \in Elements(f, "catalogs") : CatalogValid(c)
  <2> SUFFICES ASSUME NEW c \in Elements(f, "catalogs") PROVE CatalogValid(c)
    OBVIOUS
  <2>1. CatalogComplete(c) /\ KnownCatalog(c) /\ UniqueNames(List(f, "catalogs")) /\ CatalogParses(c)
    BY DEF FileComplete, Parses, KnownKeys
  <2>2. ~CatalogPassedOn(c)
    BY DEF PassedOn, CatalogPassedOn
  <2> QED BY <2>1, <2>2, ParsedCatalogs
<1>10. \A q \in Elements(f, "queries") : QueryValid(q)
  <2> SUFFICES ASSUME NEW q \in Elements(f, "queries") PROVE QueryValid(q)
    OBVIOUS
  <2>1. QueryComplete(q) /\ KnownQuery(q) /\ UniqueNames(List(f, "queries")) /\ QueryParses(f, q)
    BY DEF FileComplete, Parses, KnownKeys
  <2>2. ~QueryPassedOn(q)
    BY DEF PassedOn, QueryPassedOn
  <2>3. /\ ~(q.kind = "table" /\ "key_prefix" \in DOMAIN q)
        /\ \A p \in Elements(q, "params") : DOMAIN p \cap {"optional", "choices", "default"} = {}
    BY DEF TableKeyPrefix, OptionalParams
  <2> QED BY <2>1, <2>2, <2>3, ParsedQueries
<1>11. \A w \in Elements(f, "writes") : WriteValid(w)
  <2> SUFFICES ASSUME NEW w \in Elements(f, "writes") PROVE WriteValid(w)
    OBVIOUS
  <2>1. WriteComplete(w) /\ KnownWrite(w) /\ UniqueNames(List(f, "writes")) /\ WriteParses(w)
    BY DEF FileComplete, Parses, KnownKeys
  <2> QED BY <2>1, ParsedWrites
<1>12. \A s \in Elements(rules, "suppressions") : SuppressionValid(s)
  <2> SUFFICES ASSUME NEW s \in Elements(rules, "suppressions") PROVE SuppressionValid(s)
    OBVIOUS
  <2>1. /\ Filled(s) /\ {"rule", "reason"} \subseteq DOMAIN s /\ SuppressionResolves(f, s) /\ Text(s, "expires") \notin NotDates
        /\ Known(s, {"scope", "rule", "reason", "owner", "expires"})
    BY DEF FileComplete, Parses, KnownKeys, KnownRules, AllKnown, PassedOn
  <2> QED BY <2>1, ParsedSuppressions
<1> HIDE DEF emit, rules
<1>13. /\ Object(f, {"version", "go", "catalogs"}, {"version", "go", "emit", "catalogs", "queries", "writes", "rules"})
       /\ Object(Part(f, "go"), {"package"}, {"package", "out"}) /\ HasTexts(Part(f, "go"), {"package", "out"})
       /\ Object(emit, {}, {"spanner", "bigquery"})
       /\ Object(Part(emit, "spanner"), {}, {"mutations", "dml"})
       /\ Object(Part(emit, "bigquery"), {}, {"row_loader", "table_schema"})
       /\ Object(rules, {}, {"suppressions"})
  BY <1>1, <1>2, <1>3, <1>4, <1>5, <1>6 DEF Object
<1> QED BY <1>3, <1>4, <1>7, <1>8, <1>9, <1>10, <1>11, <1>12, <1>13 DEF SchemaAccepts, emit, rules

-----------------------------------------------------------------------------
(* What the generator answers is the function of the input that the code is. *)

FederatedAnswer(i) ==
  IF FederatedAccepted(i.schemas, i.schemas[i.on], i.query)
  THEN [is |-> "federated", of |-> Federated(i.schemas, i.schemas[i.on], i.query)] ELSE Refused
DatasetAnswer(d) ==
  [is  |-> IF DatasetAccepted(d) THEN "binding" ELSE "refused",
   of  |-> IF DatasetAccepted(d) THEN Binding(d) ELSE None,
   vet |-> Vet(d)]
TemplateAnswer(t) ==
  IF TemplateAccepted(t.blocks, t.params) /\ BuilderEmits(t.params)
  THEN [is |-> "variants", variants |-> Variants(Segments(t.blocks, t.params), t.params)] ELSE Refused
FileAnswer(f) ==
  IF Parses(f) THEN [is |-> "parsed", config |-> Normalized(f)] ELSE Refused
PlanningInv ==
  /\ topic = "federated" => input \in FederatedInputs /\ answer \in {None, FederatedAnswer(input)}
  /\ topic = "dataset" => input \in DatasetInputs /\ answer \in {None, DatasetAnswer(input)}
  /\ topic = "template" => input \in Templates /\ answer \in {None, TemplateAnswer(input)}
  /\ topic = "file" => answer \in {None, FileAnswer(input)}

LEMMA PlanningInvHolds == PlanningSpec => []PlanningInv
<1>1. PlanningInit => PlanningInv
  BY DEF PlanningInit, PlanningInv
<1>2. PlanningInv /\ [PlanQuery]_<<topic, input, answer>> => PlanningInv'
  <2> SUFFICES ASSUME PlanningInv, [PlanQuery]_<<topic, input, answer>> PROVE PlanningInv'
    OBVIOUS
  <2>1. CASE FederateQuery
    BY <2>1 DEF PlanningInv, FederateQuery, FederatedAnswer, Asked
  <2>2. CASE BindDataset
    BY <2>2 DEF PlanningInv, BindDataset, DatasetAnswer, Asked
  <2>3. CASE DescribeQuery
    BY <2>3 DEF PlanningInv, DescribeQuery, Asked
  <2>4. CASE EnumerateTemplate
    BY <2>4 DEF PlanningInv, EnumerateTemplate, TemplateAnswer, Asked
  <2>5. CASE ParseFile
    BY <2>5 DEF PlanningInv, ParseFile, FileAnswer, Asked
  <2>6. CASE UNCHANGED <<topic, input, answer>>
    BY <2>6 DEF PlanningInv
  <2> QED BY <2>1, <2>2, <2>3, <2>4, <2>5, <2>6 DEF PlanQuery
<1> QED BY <1>1, <1>2, PTL DEF PlanningSpec

\* Whatever the queries and schemas are: a federated query that is accepted is
\* one statement, as FederatedQueriesCompose says of it.
THEOREM FederatedQueriesAreComposed == PlanningSpec => []FederatedQueriesCompose
<1>1. PlanningInv => FederatedQueriesCompose
  <2> SUFFICES ASSUME PlanningInv PROVE FederatedQueriesCompose
    OBVIOUS
  <2>1. ASSUME IsFederated
        PROVE  /\ input \in FederatedInputs /\ FederatedAccepted(input.schemas, input.schemas[input.on], input.query)
               /\ answer.of.sql = ComposedSQL(input.query)
               /\ answer.of.source = SourceOf(input.schemas[input.on], input.query)
               /\ LET types == input.schemas[answer.of.source].types
                  IN  answer.of.truncated = {i \in DOMAIN types : TypeWarnings(types[i])}
    <3>1. input \in FederatedInputs /\ answer = FederatedAnswer(input)
      BY <2>1 DEF PlanningInv, IsFederated, None
    <3>2. FederatedAccepted(input.schemas, input.schemas[input.on], input.query)
      BY <2>1, <3>1 DEF IsFederated, FederatedAnswer, Refused
    <3>3. answer.of = Federated(input.schemas, input.schemas[input.on], input.query)
      BY <3>1, <3>2 DEF FederatedAnswer
    <3> QED BY <3>1, <3>2, <3>3 DEF Federated
  <2>2. ComposesOneCall
    <3> SUFFICES ASSUME IsFederated, ReadAlike(input.query.outer), input.query.outer # <<>>
                 PROVE  ComposesOneCall
      BY DEF ComposesOneCall
    <3>1. OuterTakesCall(input.query.outer)
      BY <2>1 DEF FederatedAccepted, Composes
    <3>2. input.query.outer \in Texts
      BY <2>1, FederatedInputsAreQueries
    <3> QED BY <2>1, <3>1, <3>2, OneCall DEF ComposesOneCall
  <2>3. UnscopedParamsResolve
    <3>1. topic = "federated" => input.query.inner \in Texts /\ input.query.outer \in Texts
      BY FederatedInputsAreQueries DEF PlanningInv
    <3> QED BY <3>1, UnscopedParamsAreFound DEF UnscopedParamsResolve
  <2>4. InnerSQLHasOneSource
    BY <2>1, OneEntry DEF InnerSQLHasOneSource
  <2>5. TruncationsWarned
    BY <2>1, TruncationsAreFound DEF TruncationsWarned
  <2> QED BY <2>2, <2>3, <2>4, <2>5 DEF FederatedQueriesCompose
<1> QED BY <1>1, PlanningInvHolds, PTL
\* Whatever the settings of the datasets are: what the plan and vet say of one
\* that is accepted is all there is to say, as ExternalDataIsTold spells it out.
THEOREM BindingsTellAll == PlanningSpec => []ExternalDataIsTold
<1>1. PlanningInv => ExternalDataIsTold
  <2> SUFFICES ASSUME PlanningInv PROVE ExternalDataIsTold
    OBVIOUS
  <2>1. ASSUME IsBinding
        PROVE  input \in DatasetInputs /\ DatasetAccepted(input) /\ answer.of = Binding(input)
    <3>1. input \in DatasetInputs /\ answer = DatasetAnswer(input)
      BY <2>1 DEF PlanningInv, IsBinding, None
    <3>2. DatasetAccepted(input)
      BY <2>1, <3>1 DEF IsBinding, DatasetAnswer
    <3> QED BY <3>1, <3>2 DEF DatasetAnswer
  <2> DEFINE b == Binding(input)
  <2>2. /\ b.verification = Verification(EvidenceOf(input)) /\ b.role = RoleOf(input) /\ b.connection = ConnectionUsed(input)
        /\ b.located <=> Readable(ConnectionUsed(input)) /\ input.location # ""
        /\ b.rules = EvidenceRules(input) \cup ConnectionRules(input)
        /\ b.tables = [i \in DOMAIN input.tables |-> ProjectedTable(input.tables[i])]
    BY DEF Binding
  <2> HIDE DEF b
  <2>3. IsBinding => answer.of = b
    BY <2>1 DEF b
  <2>4. ProjectionAccountsForColumns
    <3> SUFFICES ASSUME IsBinding PROVE ProjectionAccountsForColumns
      BY DEF ProjectionAccountsForColumns
    <3>1. \A i \in DOMAIN input.tables : answer.of.tables[i] = ProjectedTable(input.tables[i])
      BY <2>2, <2>3
    <3> QED BY <2>1, <3>1, ColumnsAreAccountedFor DEF ProjectionAccountsForColumns
  <2>5. LocationsMatch
    <3> SUFFICES ASSUME IsBinding PROVE LocationsMatch
      BY DEF LocationsMatch
    <3>1. LET c == ConnectionUsed(input)
          IN  /\ Readable(c) /\ input.location # "" => Lower(c[2]) = Lower(input.location)
              /\ c # <<>> /\ ~Readable(c) => "connection-id-unparsed" \in ConnectionRules(input)
              /\ c = <<>> => {input.access.connection, input.cloudConnection, input.connection} = {<<>>}
      BY <2>1, ConnectionIsKept
    <3>2. /\ answer.of.connection = ConnectionUsed(input)
          /\ answer.of.located <=> Readable(ConnectionUsed(input)) /\ input.location # ""
          /\ answer.of.rules = EvidenceRules(input) \cup ConnectionRules(input)
      BY <2>2, <2>3
    <3> QED BY <3>1, <3>2 DEF LocationsMatch
  <2>6. EvidenceKept
    <3> SUFFICES ASSUME IsBinding PROVE EvidenceKept
      BY DEF EvidenceKept
    <3> DEFINE v == Verification(EvidenceOf(input))
               rules == EvidenceRules(input) \cup ConnectionRules(input)
               written == {Lower(e.status) : e \in {input.access.evidence, input.evidence}} \ {""}
    <3>1. v.status = StatusOf(EvidenceOf(input))
      BY DEF Verification
    <3>2. /\ written \subseteq {v.status} /\ (written = {} => v.status = "not_checked")
          /\ v.status # "not_checked" => v.verifier # "" /\ v.checkedAt # "" /\ v.volatile
          /\ v.status = "verified" <=>
               rules \cap {"access-unverified", "access-verification-mismatch", "access-verification-failed"} = {}
          /\ {input.access.evidence.source, input.evidence.source} = {""} =>
               ~v.byGenerator /\ (v.source = "" <=> v.status = "not_checked")
      BY <2>1, EvidenceIsKept
    <3>3. LET role  == RoleOf(input)
              roles == {input.role, input.access.role, RoleInURI(input.uri)} \ {""}
          IN  /\ (role = "" <=> roles = {}) /\ (roles # {} => role \in roles)
              /\ role # "" /\ v.status = "not_checked" => "role-visibility-not-verified" \in rules
      BY <2>1, <3>1, RoleIsKept
    <3>4. answer.of.verification = v /\ answer.of.role = RoleOf(input) /\ answer.of.rules = rules
      BY <2>2, <2>3
    <3> HIDE DEF v, rules
    <3> QED BY <3>2, <3>3, <3>4 DEF EvidenceKept
  <2>7. VetTellsAll
    <3> SUFFICES ASSUME topic = "dataset", answer # None PROVE VetTellsAll
      BY DEF VetTellsAll
    <3>1. input \in DatasetInputs /\ answer = DatasetAnswer(input)
      BY DEF PlanningInv
    <3>2. /\ answer.vet = Vet(input)
          /\ answer.is = IF DatasetAccepted(input) THEN "binding" ELSE "refused"
          /\ answer.of = IF DatasetAccepted(input) THEN Binding(input) ELSE None
      BY <3>1 DEF DatasetAnswer
    <3> QED BY <3>1, <3>2, VetTells DEF VetTellsAll
  <2>8. StablePlansForgetTime
    <3> SUFFICES ASSUME IsBinding, answer.of.verification.volatile PROVE StablePlansForgetTime
      BY DEF StablePlansForgetTime
    <3>1. Verification(EvidenceOf(input)).volatile
      BY <2>2, <2>3
    <3> QED BY <2>1, <3>1, StableForgetsTime DEF StablePlansForgetTime
  <2> QED BY <2>4, <2>5, <2>6, <2>7, <2>8 DEF ExternalDataIsTold
<1> QED BY <1>1, PlanningInvHolds, PTL

\* Whatever the templates are and whatever a caller passes: the statement that
\* is built was analyzed, its label names it, what it names is bound, and the
\* limit is exact, as OptionalSQLIsVerified spells it out.
THEOREM OptionalSQLIsAnalyzed == PlanningSpec => []OptionalSQLIsVerified
<1>1. PlanningInv => OptionalSQLIsVerified
  <2> SUFFICES ASSUME PlanningInv PROVE OptionalSQLIsVerified
    OBVIOUS
  <2> DEFINE segments == Segments(input.blocks, input.params)
  <2>1. topic = "template" => input \in Templates
    BY DEF PlanningInv
  <2>2. ASSUME IsEnumerated
        PROVE  /\ input \in Templates /\ TemplateFits(input.blocks, input.params)
               /\ answer.variants = Variants(segments, input.params) /\ VariantsAgree(Variants(segments, input.params))
    <3>1. input \in Templates /\ answer = TemplateAnswer(input)
      BY <2>2 DEF PlanningInv, IsEnumerated, None
    <3>2. TemplateAccepted(input.blocks, input.params)
      BY <2>2, <3>1 DEF IsEnumerated, TemplateAnswer, Refused
    <3>3. answer.variants = Variants(segments, input.params)
      BY <2>2, <3>1 DEF IsEnumerated, TemplateAnswer, Refused
    <3> QED BY <3>1, <3>2, <3>3 DEF TemplateAccepted
  <2>3. ASSUME IsEnumerated, NEW x \in CallsOf(segments, input.params)
        PROVE  LET v == VariantFor(segments, input.params, x)
               IN  v \in answer.variants /\ v.sql = BuildSQL(segments, input.params, x.given, x.choices)
                     /\ v.present = Gateable(segments) \cap x.given
    <3> DEFINE v == VariantFor(segments, input.params, x)
    <3>1. v \in Variants(segments, input.params) /\ BuildSQL(segments, input.params, x.given, x.choices) = v.sql
      BY <2>2, <2>3, CallsAre, BuiltIsVariant
    <3>2. v.present = Gateable(segments) \cap x.given
      <4> HIDE DEF segments
      <4> QED BY DEF VariantFor
    <3> HIDE DEF segments
    <3> QED BY <2>2, <2>3, <3>1, <3>2
  <2>4. BuiltSQLIsVerified
    <3> SUFFICES ASSUME IsEnumerated, NEW x \in CallsOf(segments, input.params)
                 PROVE  LET sql == BuildSQL(segments, input.params, x.given, x.choices)
                        IN  /\ \E v \in answer.variants : v.sql = sql /\ v.present = Gateable(segments) \cap x.given
                            /\ \A v \in answer.variants : RowType(v.sql) = RowType(sql)
      BY DEF BuiltSQLIsVerified
    <3> HIDE DEF segments
    <3>1. \A v, w \in answer.variants : RowType(v.sql) = RowType(w.sql)
      BY <2>2 DEF VariantsAgree
    <3> QED BY <2>3, <3>1
  <2>5. LabelNamesVariant
    <3> SUFFICES ASSUME IsEnumerated, OneMarkerEach, NEW x \in CallsOf(segments, input.params)
                 PROVE  LET label == BuildLabel(segments, input.params, x.given, x.choices)
                            sql   == BuildSQL(segments, input.params, x.given, x.choices)
                        IN  /\ IsInjective(label)
                            /\ \E v \in answer.variants :
                                 /\ {w \in answer.variants : VariantKey(w) = ToSet(label)} = {v}
                                 /\ v.sql = sql /\ v.present = Gateable(segments) \cap x.given
      BY DEF LabelNamesVariant
    <3> DEFINE label == BuildLabel(segments, input.params, x.given, x.choices)
               v == VariantFor(segments, input.params, x)
    <3>1. ToSet(label) = VariantKey(v)
      BY <2>2, LabelIsKey
    <3>2. IsInjective(label)
      BY <2>2, LabelIsKey DEF OneMarkerEach
    <3>3. \A w \in Variants(segments, input.params) : v \in Variants(segments, input.params) =>
            (VariantKey(v) = VariantKey(w) => v = w)
      <4> HIDE DEF v
      <4> QED BY <2>2, KeysDiffer
    <3> HIDE DEF segments, label, v
    <3>4. v \in answer.variants /\ v.sql = BuildSQL(segments, input.params, x.given, x.choices)
            /\ v.present = Gateable(segments) \cap x.given
      BY <2>3 DEF v
    <3>5. {w \in answer.variants : VariantKey(w) = ToSet(label)} = {v}
      BY <2>2, <3>1, <3>3, <3>4
    <3> QED BY <3>2, <3>4, <3>5 DEF label
  <2>6. NamesAreBound
    <3> SUFFICES ASSUME IsEnumerated, ParamsAtHome, NEW x \in CallsOf(segments, input.params)
                 PROVE  NamesIn(BuildSQL(segments, input.params, x.given, x.choices))
                          \subseteq {Lower(n) : n \in BuildArgs(segments, input.params, x.given)}
      BY DEF NamesAreBound
    <3>1. AtHome(input)
      BY DEF ParamsAtHome, AtHome, AlwaysBound, OwnName
    <3> QED BY <2>2, <3>1, NamesAreAmongArgs
  <2>7. LimitIsExact
    BY <2>1, TheLimitIsExact DEF LimitIsExact
  <2> QED BY <2>4, <2>5, <2>6, <2>7 DEF OptionalSQLIsVerified
<1> QED BY <1>1, PlanningInvHolds, PTL

\* Whatever the files are: what the published schema accepts the parser accepts
\* and the other way around, up to what SchemaMatchesParser names.
THEOREM SchemaAgreesWithParser == PlanningSpec => []SchemaMatchesParser
<1>1. PlanningInv => SchemaMatchesParser
  <2> SUFFICES ASSUME PlanningInv, topic = "file", answer # None PROVE SchemaMatchesParser
    BY DEF SchemaMatchesParser, SchemaFilesParse, ParsedFilesMatchSchema, None
  <2>1. answer = FileAnswer(input)
    BY DEF PlanningInv
  <2>2. answer.is = "parsed" <=> Parses(input)
    BY <2>1 DEF FileAnswer, Refused
  <2>3. SchemaFilesParse
    BY <2>2, AcceptedFilesParse DEF SchemaFilesParse
  <2>4. ParsedFilesMatchSchema
    BY <2>2, ParsedFilesAreAccepted DEF ParsedFilesMatchSchema
  <2> QED BY <2>3, <2>4 DEF SchemaMatchesParser
<1> QED BY <1>1, PlanningInvHolds, PTL
=============================================================================
