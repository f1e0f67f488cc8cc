---------------------------- MODULE GeneratedReads ----------------------------
(***************************************************************************)
(* What the generated code does when it runs (internal/querygen,           *)
(* writeSpannerMethods, writeBigQueryMethods and the Load methods and      *)
(* helpers of gostruct.go): a query function reads rows from an iterator   *)
(* that may fail at any of them, and a row from BigQuery is loaded into    *)
(* the struct field by field.                                              *)
(***************************************************************************)
EXTENDS ResultStructs

CONSTANTS
  QueryCalls, \* query functions: [mode, bigquery]
  RowLists  \* what a query returns: sequences of rows, good or bad, and an end

VARIABLES
  call,    \* the function called
  rows,    \* what is still to come from the iterator: rows, then "done" or "error"
  given,   \* all of it
  reader,  \* open, or how the function returned: rows, none, error
  out,     \* the rows collected
  stopped  \* it.Stop() was called

readVars == <<call, rows, given, reader, out, stopped>>

ReadInit ==
  /\ call \in QueryCalls /\ given \in RowLists /\ rows = given
  /\ reader = "open" /\ out = <<>> /\ stopped = FALSE

\* return: a deferred Stop releases the Spanner iterator; BigQuery's has none.
Return(how, result) ==
  /\ reader' = how /\ out' = result /\ stopped' = ~call.bigquery
  /\ UNCHANGED <<call, given>>

\* Mutant of ReadNext: an error is taken for a pause, and Next called again.
ReadNextRetry ==
  /\ reader = "open" /\ call.mode = "many"
  /\ \/ /\ Head(rows) = "row"
        /\ out' = Append(out, "row") /\ rows' = Tail(rows)
        /\ UNCHANGED <<call, given, reader, stopped>>
     \/ Head(rows) = "done" /\ Return("rows", out) /\ rows' = rows
     \/ Head(rows) \in {"bad", "error"} /\ UNCHANGED readVars

\* BigQuery decodes a row inside Next, Spanner in ToStruct after it: either
\* way a row that does not fit the struct ends the function with an error.
ReadNext ==
  /\ reader = "open" /\ call.mode = "many"
  /\ \/ /\ Head(rows) = "row"
        /\ out' = Append(out, "row") /\ rows' = Tail(rows)
        /\ UNCHANGED <<call, given, reader, stopped>>
     \/ Head(rows) = "done" /\ Return("rows", out) /\ rows' = rows
     \/ Head(rows) \in {"bad", "error"} /\ Return("error", <<>>) /\ rows' = rows

\* Mutant of ReadSingle: a second row is not asked for.
ReadSingleFirst ==
  /\ reader = "open" /\ call.mode \in {"one", "maybe_one"} /\ rows' = rows
  /\ \/ Head(rows) = "row" /\ Return("rows", <<"row">>)
     \/ Head(rows) = "done" /\ Return(IF call.mode = "one" THEN "error" ELSE "none", <<>>)
     \/ Head(rows) \in {"bad", "error"} /\ Return("error", <<>>)

\* one and maybe_one read a first row and make sure that no second one comes.
\* Spanner looks at the first row only then.
ReadSingle ==
  /\ reader = "open" /\ call.mode \in {"one", "maybe_one"} /\ rows' = rows
  /\ \/ Head(rows) = "done" /\ Return(IF call.mode = "one" THEN "error" ELSE "none", <<>>)
     \/ Head(rows) = "error" /\ Return("error", <<>>)
     \/ Head(rows) = "bad" /\ Return("error", <<>>)
     \/ Head(rows) = "row" /\ rows[2] = "done" /\ Return("rows", <<"row">>)
     \/ Head(rows) = "row" /\ rows[2] # "done" /\ Return("error", <<>>)

ReadStep == ReadNext \/ ReadSingle
ReadFairness == WF_readVars(ReadStep)

-----------------------------------------------------------------------------
(* Load: a row of BigQuery into a struct of target both.  A value is       *)
(* [is, of]: null, good (of the Go type of the field), bad (of another),   *)
(* list (of values) or record (of values by column name).  What a field    *)
(* holds is the same, or the zero of its type, or the error of its Load.   *)

Null   == [is |-> "null", of |-> <<>>]
Good   == [is |-> "good", of |-> <<>>]
Zero   == [is |-> "zero", of |-> <<>>]
Failed == [is |-> "failed", of |-> <<>>]
Unset(f) == IF f.repeated \/ f.nullable THEN Null ELSE Zero
Whole(is, values) ==
  IF \E k \in DOMAIN values : values[k] = Failed THEN Failed ELSE [is |-> is, of |-> values]

LoadScalar(f, v) ==
  CASE v.is = "good" -> Good
    [] v.is = "null" -> Unset([f EXCEPT !.repeated = FALSE])
    [] OTHER         -> Failed

RECURSIVE LoadRecord(_, _)
LoadElement(f, v) ==
  CASE f.kind # "STRUCT" -> LoadScalar(f, v)
    [] f.kind = "STRUCT" /\ v.is = "record"              -> LoadRecord(f.fields, v)
    [] f.kind = "STRUCT" /\ v.is = "null" /\ f.nullable  -> Null
    [] OTHER                                             -> Failed
LoadField(f, v) ==
  CASE ~f.repeated                   -> LoadElement(f, v)
    [] f.repeated /\ v.is = "null"   -> Null
    [] f.repeated /\ v.is = "list"   -> Whole("list", [i \in DOMAIN v.of |-> LoadElement(f, v.of[i])])
    [] OTHER                         -> Failed

\* Load: columns go to the field of exactly their name, others are skipped.
LoadRecord(fields, row) ==
  LET names == {fields[i].name : i \in DOMAIN fields}
      field(n) == fields[CHOOSE i \in DOMAIN fields : fields[i].name = n]
  IN  Whole("record", [n \in names |->
        IF n \in DOMAIN row.of THEN LoadField(field(n), row.of[n]) ELSE Unset(field(n))])

\* The rows a query with these fields returns: NULL where it may be.
RECURSIVE RowsOf(_)
ElementsOf(f) ==
  (IF f.kind = "STRUCT" THEN RowsOf(f.fields) ELSE {Good}) \cup (IF f.nullable THEN {Null} ELSE {})
ValuesOf(f) ==
  IF f.repeated THEN {[is |-> "list", of |-> s] : s \in UNION {[1..n -> ElementsOf(f)] : n \in 0..1}}
  ELSE ElementsOf(f)
RowsOf(fields) ==
  LET names == {fields[i].name : i \in DOMAIN fields}
      values(n) == ValuesOf(fields[CHOOSE i \in DOMAIN fields : fields[i].name = n])
  IN  {[is |-> "record", of |-> r] : r \in {s \in [names -> UNION {values(n) : n \in names}] :
                                              \A n \in names : s[n] \in values(n)}}

\* What was loaded tells the value: NULL is not read as a zero, and a field
\* without a column is NULL.
RECURSIVE Tells(_, _)
Tells(loaded, v) ==
  CASE v.is \in {"null", "good"} -> loaded.is = v.is
    [] v.is = "list"   -> loaded.is = "list" /\ \A i \in DOMAIN v.of : Tells(loaded.of[i], v.of[i])
    [] v.is = "record" -> /\ loaded.is = "record" /\ DOMAIN v.of \subseteq DOMAIN loaded.of
                          /\ \A n \in DOMAIN v.of : Tells(loaded.of[n], v.of[n])
                          /\ \A n \in DOMAIN loaded.of \ DOMAIN v.of : loaded.of[n] = Null

-----------------------------------------------------------------------------
(* DecodeSpanner of NullValue[T]: the Spanner client hands over what came  *)
(* over the wire.  An input is [form, parses]: nil, a nil pointer, a       *)
(* string, a boolean, a number or a value of the Go type itself.           *)

GoTypes == {"int64", "float32", "float64", "bool", "string", "bytes", "time.Time", "civil.Date",
            "civil.Time", "civil.DateTime", "big.Rat", "any"}
TextTypes == GoTypes \ {"bool", "string", "any"} \* types with a text form of their own

\* Mutant of DecodeSpanner: the decimal strings of INT64 are not parsed.
DecodeSpannerNoText(T, input) ==
  CASE input.form \in {"nil", "nil pointer"} -> Null
    [] input.form = T -> Good
    [] T = "any"      -> Good
    [] OTHER          -> Failed

DecodeSpanner(T, input) ==
  CASE input.form \in {"nil", "nil pointer"}       -> Null
    [] input.form = T                              -> Good
    [] T = "any" /\ input.form # T                 -> Good
    [] T \in {"float32", "float64"} /\ input.form \in {"float32", "float64"} \ {T} -> Good
    [] T \in TextTypes /\ input.form = "string"    -> IF input.parses THEN Good ELSE Failed
    [] OTHER                                       -> Failed

\* NullValueList: the elements of a list value, each decoded on its own.
DecodeList(T, input) ==
  CASE input.form \in {"nil", "nil pointer"} -> Null
    [] input.form = "list" -> Whole("list", [i \in DOMAIN input.of |->
          IF input.of[i].form \in {"nil", "string", "float64", "bool"}
          THEN DecodeSpanner(T, input.of[i]) ELSE Failed])
    [] OTHER -> Failed

\* The wire form of a type (external: the encoding of Spanner values).
Wire(T) ==
  CASE T \in {"float32", "float64"} -> {"float64", "string"}
    [] T = "bool" -> {"bool"}
    [] T = "any"  -> {"string", "float64", "bool"}
    [] OTHER      -> {"string"}
=============================================================================
