----------------------------- MODULE QueryShapes -----------------------------
(***************************************************************************)
(* Queries that are generated from the schema (internal/querygen/          *)
(* querygen.go, codegenTableQuerySQL and codegenIndexQuerySQL): a finder   *)
(* by a prefix of the primary key of a table or of the keys of an index.   *)
(* The SQL is a template of OptionalSQL, so that optional parameters can   *)
(* leave predicates out.                                                   *)
(*                                                                         *)
(* A finder is [kind, dialect, all, keyPrefix, orderBy, params]; all says  *)
(* that no key_prefix was given, which for an index means all its keys.    *)
(* An index is [keys, stored, nullFiltered].                               *)
(***************************************************************************)
EXTENDS WriteSpecs, OptionalSQL

CONSTANT SafeParamOf \* column names that are no identifiers -> safeQueryParamName of them

ColumnToken(c) == [is |-> "column", name |-> c]
Selected(c)    == [is |-> "result", name |-> c]
Omits == {"omit_when_null", "omit_when_empty"}

-----------------------------------------------------------------------------
(* Parameters: what the user writes over what the shape brings *)

BareParam(name, type) == [name |-> name, type |-> type, scope |-> "", mode |-> "", choices |-> <<>>, default |-> ""]

\* A name in another spelling, a blank type or a blank scope is that of the
\* generated parameter.
MergeParams(defaults, overrides) ==
  LET over(d, o) == [o EXCEPT !.name = d.name,
                              !.type = IF @ = "" THEN d.type ELSE @,
                              !.scope = IF @ = "" THEN d.scope ELSE @]
      mine(d) == SelectSeq(overrides, LAMBDA o : Lower(o.name) = Lower(d.name))
  IN  [i \in DOMAIN defaults |->
         IF mine(defaults[i]) = <<>> THEN defaults[i] ELSE over(defaults[i], mine(defaults[i])[1])]
      \o SelectSeq(overrides, LAMBDA o : ~Has(defaults, o.name))
ParamsMerge(overrides) ==
  /\ \A i \in DOMAIN overrides : overrides[i].name # ""
  /\ \A i, j \in DOMAIN overrides : Lower(overrides[i].name) = Lower(overrides[j].name) => i = j

OptionalParamValid(p) ==
  /\ p.mode \in {"", "required", "null_is_null", "orderby_choice"} \cup Omits
  /\ IF p.mode = "orderby_choice"
     THEN p.choices # <<>> /\ p.default \in DOMAIN p.choices
     ELSE p.choices = <<>> /\ p.default = ""

\* validateQueryCodegenParams: one entry per name and scope, and no mixture of
\* entries with and without a scope under one name.
ParamsValid(params, federated) ==
  /\ \A p \in ToSet(params) :
       /\ p.name # "" /\ p.scope \in {"", "inner", "outer"} /\ OptionalParamValid(p)
       /\ p.scope # "" => federated
  /\ \A i, j \in DOMAIN params :
       /\ i # j /\ Lower(params[i].name) = Lower(params[j].name)
         => params[i].scope # params[j].scope /\ "" \notin {params[i].scope, params[j].scope}

\* toOptParamParams
OptParams(params) ==
  [i \in DOMAIN params |->
     [name |-> params[i].name, type |-> params[i].type, choices |-> params[i].choices,
      default |-> params[i].default, mode |-> IF params[i].mode = "" THEN "required" ELSE params[i].mode]]
HasMarkers(params) == \E p \in ToSet(params) : p.mode \notin {"", "required"}

-----------------------------------------------------------------------------
(* The shape *)

OrderMode(q) ==
  CASE q.kind = "table" /\ q.dialect # "spanner" -> "none"
    [] q.orderBy = "none"                       -> "none"
    [] OTHER                                    -> "key"

KeysOf(q, t, index) == IF q.kind = "table" THEN t.pk ELSE index.keys
Prefix(q, t, index) == IF q.all THEN (IF q.kind = "index" THEN index.keys ELSE <<>>) ELSE q.keyPrefix
StartsWith(keys, prefix) ==
  Len(prefix) <= Len(keys) /\ \A i \in DOMAIN prefix : Lower(prefix[i]) = Lower(keys[i])

\* queryParamNameMap: parameters are named after the columns as the prefix
\* spells them, with a number when two names would be the same.
SafeParam(n) == IF n \in DOMAIN SafeParamOf THEN SafeParamOf[n] ELSE n
ParamNames(prefix) ==
  LET words == UniqueNamesOf([i \in DOMAIN prefix |-> <<SafeParam(prefix[i])>>], {})
  IN  [i \in DOMAIN prefix |-> IF Len(words[i]) = 1 THEN words[i][1] ELSE words[i][1] \o words[i][2]]
ModeAt(q, prefix, i) ==
  LET mine == {p \in ToSet(q.params) : Lower(p.name) = Lower(ParamNames(prefix)[i])
                                        /\ p.mode \notin {"", "required"}}
  IN  IF mine = {} THEN "" ELSE (CHOOSE p \in mine : TRUE).mode

\* Mutant of Contiguous: a required key may follow an optional one.
ContiguousAny(q, prefix) == TRUE

\* A key may be left out only when all those after it may.
Contiguous(q, prefix) ==
  \A i, j \in DOMAIN prefix : i < j /\ ModeAt(q, prefix, i) \in Omits => ModeAt(q, prefix, j) \in Omits

SelectColumns(q, t, index) ==
  IF q.kind = "table" THEN NamesOf(SelectSeq(t.columns, LAMBDA c : ~c.hidden))
  ELSE LET with(s, more) == s \o SelectSeq(more, LAMBDA n : Lower(n) \notin LowerSet(s))
       IN  with(with(index.keys, t.pk), index.stored)
OrderColumns(q, t, index) ==
  IF q.kind = "table" THEN t.pk
  ELSE index.keys \o SelectSeq(t.pk, LAMBDA n : Lower(n) \notin LowerSet(index.keys))

Chooses(q) == {p \in ToSet(q.params) : p.mode = "orderby_choice"}
ShapeOK(q, t, index) ==
  LET prefix == Prefix(q, t, index)
  IN  /\ q.orderBy \in {"", "key", "none"}
      /\ q.kind = "index" => q.dialect = "spanner"
      /\ q.dialect # "spanner" => q.keyPrefix = <<>> /\ q.orderBy \in {"", "none"}
      /\ q.dialect = "spanner" =>
           /\ SelectColumns(q, t, index) # <<>>
           /\ \A n \in ToSet(SelectColumns(q, t, index)) : Has(t.columns, n)
           /\ StartsWith(KeysOf(q, t, index), prefix) /\ Contiguous(q, prefix)
           /\ \A i \in DOMAIN prefix : ModeAt(q, prefix, i) \in {"", "null_is_null", "omit_when_null"}
           /\ Chooses(q) # {} => OrderMode(q) # "none"
  /\ ParamsMerge(q.params)

\* Mutant of Conjunction: every predicate is joined by AND to the one before.
ConjunctionPlain(predicates) ==
  FlattenSeq([i \in DOMAIN predicates |->
    LET p == predicates[i]
        and == IF i = 1 THEN Word("WHERE") ELSE Word("AND")
    IN  <<[p EXCEPT !.text = <<and>> \o @]>>])

\* WHERE TRUE takes the place of the first predicate when it can be left out.
Conjunction(predicates) ==
  LET omittable == \E p \in ToSet(predicates) : p.marker # ""
      and(i) == IF i = 1 /\ ~omittable THEN Word("WHERE") ELSE Word("AND")
      true == [marker |-> "", param |-> "", text |-> <<Word("WHERE"), Word("TRUE")>>]
  IN  (IF omittable THEN <<true>> ELSE <<>>)
      \o [i \in DOMAIN predicates |-> [predicates[i] EXCEPT !.text = <<and(i)>> \o @]]

\* Mutant of Predicate: null_is_null compares with = like the rest.
PredicateEquals(q, prefix, i) ==
  LET name == ParamNames(prefix)[i]
      omitted == ModeAt(q, prefix, i) = "omit_when_null"
  IN  [marker |-> IF omitted THEN "optional" ELSE "", param |-> IF omitted THEN name ELSE "",
       text |-> <<ColumnToken(Lower(prefix[i])), Word("="), Named(name)>>]

Predicate(q, prefix, i) ==
  LET name == ParamNames(prefix)[i]
      equals == IF ModeAt(q, prefix, i) = "null_is_null" THEN NullSafeEquals ELSE Word("=")
      omitted == ModeAt(q, prefix, i) = "omit_when_null"
  IN  [marker |-> IF omitted THEN "optional" ELSE "", param |-> IF omitted THEN name ELSE "",
       text |-> <<ColumnToken(Lower(prefix[i])), equals, Named(name)>>]
\* Keys of a NULL_FILTERED index that may be NULL are compared with it too.
NullFilters(q, t, index) ==
  IF q.kind # "index" \/ ~index.nullFiltered THEN <<>>
  ELSE LET nullable == SelectSeq(index.keys, LAMBDA n : ~ColumnOf(t, n).notNull)
       IN  [i \in DOMAIN nullable |->
              [marker |-> "", param |-> "", text |-> <<ColumnToken(Lower(nullable[i])), Word("IS NOT NULL")>>]]

Fixed(text) == <<[marker |-> "", param |-> "", text |-> text]>>
Ordering(q, t, index) ==
  CASE Chooses(q) # {} ->
         LET p == CHOOSE x \in Chooses(q) : TRUE
         IN  <<[marker |-> "orderby", param |-> p.name, text |-> p.choices[p.default]]>>
    [] Chooses(q) = {} /\ OrderMode(q) = "key" ->
         LET columns == OrderColumns(q, t, index)
         IN  Fixed(<<Word("ORDER BY")>> \o [i \in DOMAIN columns |-> [is |-> "order", name |-> Lower(columns[i])]])
    [] OTHER -> <<>>

Template(q, t, index) ==
  IF q.dialect # "spanner" THEN Fixed(<<Word("SELECT *")>>)
  ELSE LET prefix  == Prefix(q, t, index)
           columns == SelectColumns(q, t, index)
           where == [i \in DOMAIN prefix |-> Predicate(q, prefix, i)] \o NullFilters(q, t, index)
       IN  Fixed([i \in DOMAIN columns |-> Selected(columns[i])])
           \o (IF where = <<>> THEN <<>> ELSE Conjunction(where)) \o Ordering(q, t, index)
ShapeParams(q, t, index) ==
  LET prefix == IF q.dialect = "spanner" THEN Prefix(q, t, index) ELSE <<>>
  IN  MergeParams([i \in DOMAIN prefix |-> BareParam(ParamNames(prefix)[i], ColumnOf(t, prefix[i]).kind)], q.params)

-----------------------------------------------------------------------------
(* Rows that the SQL finds.  A row maps columns to values, args parameters *)
(* to values; NULL equals nothing, but is not distinct from NULL.          *)

NoValue == "NULL"
Selects(sql, row, args) ==
  \A i \in {j \in DOMAIN sql : sql[j].is = "column"} :
    LET value == row[sql[i].name]
    IN  CASE sql[i + 1] = Word("=")           -> value # NoValue /\ value = args[sql[i + 2].name]
          [] sql[i + 1] = NullSafeEquals      -> value = args[sql[i + 2].name]
          [] sql[i + 1] = Word("IS NOT NULL") -> value # NoValue

\* A WHERE clause is one condition after the other, joined by AND.
WhereParses(sql) ==
  LET wheres == {i \in DOMAIN sql : sql[i] = Word("WHERE")}
      conditions == {i \in DOMAIN sql : sql[i].is = "column" \/ sql[i] = Word("TRUE")}
      joints == {i \in DOMAIN sql : sql[i] \in {Word("WHERE"), Word("AND")}}
  IN  /\ Cardinality(wheres) <= 1
      /\ {i + 1 : i \in joints} = conditions
      /\ joints # {} => \A i \in joints : (sql[i] = Word("WHERE")) = (\A j \in joints : i <= j)
=============================================================================
