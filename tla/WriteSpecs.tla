----------------------------- MODULE WriteSpecs -----------------------------
(***************************************************************************)
(* The write helpers of the generator (internal/querygen/querygen.go): a   *)
(* normalized write is resolved against its table, its input struct is     *)
(* planned, on its own or shared with query results, and the helpers are   *)
(* rendered: a mutation and a DML statement with its parameters.           *)
(* A column is [name, notNull, key, hidden, generated, default,        *)
(* onUpdate, kind, repeated], a table [columns, pk].                       *)
(***************************************************************************)
EXTENDS ConfigFile, ResultStructs

Has(columns, n) == \E i \in DOMAIN columns : Lower(columns[i].name) = Lower(n)
NamesOf(columns) == [i \in DOMAIN columns |-> columns[i].name]
ColumnOf(t, n) == t.columns[CHOOSE i \in DOMAIN t.columns : Lower(t.columns[i].name) = Lower(n)]
ColumnsOf(t, names) == [i \in DOMAIN names |-> ColumnOf(t, names[i])]
Resolvable(t, names) ==
  /\ \A i \in DOMAIN names : Has(t.columns, names[i])
  /\ \A i, j \in DOMAIN names : Lower(names[i]) = Lower(names[j]) => i = j

AppendMissing(columns, extra) ==
  columns \o SelectSeq(extra, LAMBDA c : ~Has(columns, c.name))
Insertable(c) == ~c.hidden /\ ~c.generated
Updatable(c) == Insertable(c) /\ ~c.key

-----------------------------------------------------------------------------
(* resolveWriteSpec: the column lists of a write *)

OrDefault(names, default) == IF names = <<>> THEN default ELSE names
KeyNames(w, t) == OrDefault(w.keys, t.pk)

\* update.columns, or all the columns outside the key that are not hidden.
UpdateNames(w, t) ==
  IF w.update = <<AllNonKeyColumns>>
  THEN NamesOf(SelectSeq(t.columns, LAMBDA c :
                 ~c.hidden /\ Lower(c.name) \notin LowerSet(KeyNames(w, t))))
  ELSE w.update

Keys(w, t) == ColumnsOf(t, KeyNames(w, t))
Updates(w, t) == ColumnsOf(t, UpdateNames(w, t))
Inserts(w, t) ==
  IF w.operation = "insert_or_update" /\ w.insert = <<>>
  THEN AppendMissing(Keys(w, t), Updates(w, t))
  ELSE ColumnsOf(t, OrDefault(w.insert, t.pk))

\* Mutant of Inputs: an update does not ask for the key of its row.
InputsNoKey(w, t) ==
  CASE w.operation = "update" -> Updates(w, t)
    [] w.operation \in {"insert_or_update", "delete"} -> AppendMissing(Inserts(w, t), Keys(w, t))
    [] OTHER -> Inserts(w, t)

\* The fields of the input struct this write needs.
Inputs(w, t) ==
  CASE w.operation = "update" -> AppendMissing(Updates(w, t), Keys(w, t))
    [] w.operation \in {"insert_or_update", "delete"} -> AppendMissing(Inserts(w, t), Keys(w, t))
    [] OTHER -> Inserts(w, t)

\* NOT NULL columns a new row needs a value for; those of the key are not
\* among them.
Required(w, t) ==
  {c \in ToSet(t.columns) : c.notNull /\ ~Has(Keys(w, t), c.name)
                              /\ ~c.default /\ ~c.generated /\ ~c.hidden}

InsertsValid(w, t) ==
  /\ \A c \in ToSet(Inserts(w, t)) : Insertable(c)
  /\ \A c \in Required(w, t) : Has(Inserts(w, t), c.name)
UpdatesValid(w, t) == \A c \in ToSet(Updates(w, t)) : Updatable(c)
ColumnsValid(w, t) ==
  CASE w.operation \in {"insert", "replace"} -> InsertsValid(w, t)
    [] w.operation = "update"                -> UpdatesValid(w, t)
    [] w.operation = "insert_or_update"      -> InsertsValid(w, t) /\ UpdatesValid(w, t)
    [] w.operation = "delete"                -> TRUE

MethodsValid(w) ==
  /\ ToSet(w.methods) \subseteq {"mutation", "dml"} /\ IsInjective(w.methods)
  /\ w.operation = "replace" => ~Contains(w.methods, "dml")
Methods(w) ==
  IF w.methods # <<>> \/ w.explicit THEN w.methods
  ELSE IF w.operation = "replace" THEN <<"mutation">> ELSE <<"mutation", "dml">>

WriteResolves(w, t) ==
  /\ Resolvable(t, KeyNames(w, t)) /\ LowerSet(KeyNames(w, t)) = LowerSet(t.pk)
  /\ w.operation \in {"update", "delete"} => w.insert = <<>>
  /\ w.operation = "update" => w.update # <<>>
  /\ Resolvable(t, OrDefault(w.insert, t.pk)) /\ Resolvable(t, UpdateNames(w, t))
  /\ ColumnsValid(w, t) /\ MethodsValid(w)

FieldFromColumn(c) ==
  [name |-> c.name, kind |-> c.kind, repeated |-> c.repeated,
   nullable |-> c.repeated \/ ~c.notNull, fields |-> <<>>]
InputFields(w, t) == [i \in DOMAIN Inputs(w, t) |-> FieldFromColumn(Inputs(w, t)[i])]

-----------------------------------------------------------------------------
(* planWriteSpecs: the input structs.  shared are the structs of the query *)
(* results, by name; a write that names one of them uses it.               *)

StructOf(structs, name) == IF name \in DOMAIN structs THEN structs[name] ELSE <<>>

\* The structs after the first n writes: those of results and those of writes.
PlanStructs(writes, t, shared) ==
  LET f[n \in 0..Len(writes)] ==
        IF n = 0 THEN [results |-> shared, inputs |-> <<>>]
        ELSE LET w  == writes[n]
                 part == IF w.input \in DOMAIN shared THEN "results" ELSE "inputs"
                 merged == Merge(StructOf(f[n - 1][part], w.input), InputFields(w, t))
             IN  [f[n - 1] EXCEPT ![part] = (w.input :> merged) @@ @]
  IN  f

WriteFits(w, t, before, shared) ==
  /\ WriteResolves(w, t)
  /\ w.input \in DOMAIN shared =>
       \A c \in ToSet(Inputs(w, t)) : HasField(before.results[w.input], c.name)
  /\ Mergeable(StructOf(IF w.input \in DOMAIN shared THEN before.results ELSE before.inputs, w.input),
               InputFields(w, t))
WritesPlan(writes, t, shared) ==
  \A n \in DOMAIN writes : WriteFits(writes[n], t, PlanStructs(writes, t, shared)[n - 1], shared)
Planned(writes, t, shared) == PlanStructs(writes, t, shared)[Len(writes)]
PlannedStruct(plan, input) == IF input \in DOMAIN plan.inputs THEN plan.inputs[input] ELSE plan.results[input]

\* The methods the writes put on a struct, and the names its fields avoid.
\* Only structs of target "both" get a Load method.
ReceiverMethods(writes, input) ==
  {w.name \o <<"Mutation">> : w \in {v \in ToSet(writes) : v.input = input /\ Contains(Methods(v), "mutation")}}
    \cup {w.name \o <<"DMLStatement">> : w \in {v \in ToSet(writes) : v.input = input /\ Contains(Methods(v), "dml")}}
Reservations(target, methods) == methods \cup (IF target = "both" THEN {<<"Load">>} ELSE {})

GoFields(fields, reserved) ==
  UniqueNamesOf([i \in DOMAIN fields |-> Exported(fields[i].name, FieldFallback[i])], reserved)

\* Mutant of HelperFields: the fields of a shared struct are looked up under
\* the names they would have on a struct of writes.
HelperFieldsSpanner(w, writes, plan, target) ==
  LET fields == PlannedStruct(plan, w.input)
      names  == GoFields(fields, Reservations("spanner", ReceiverMethods(writes, w.input)))
  IN  [c \in LowerSet(NamesOf(fields)) |-> names[Position(fields, c)]]

\* attachWriteSpecNames: the Go field of each column, as the helpers use it.
HelperFields(w, writes, plan, target) ==
  LET fields == PlannedStruct(plan, w.input)
      for    == IF w.input \in DOMAIN plan.inputs THEN "spanner" ELSE target
      names  == GoFields(fields, Reservations(for, ReceiverMethods(writes, w.input)))
  IN  [c \in LowerSet(NamesOf(fields)) |-> names[Position(fields, c)]]

\* buildStruct: the Go fields of a struct as declared, in the order of the
\* fields they are made of.
DeclaredFields(input, writes, plan, target) ==
  IF input \in DOMAIN plan.inputs
  THEN GoFields(plan.inputs[input], Reservations("spanner", ReceiverMethods(writes, input)))
  ELSE GoFields(plan.results[input], Reservations(target, ReceiverMethods(writes, input)))

-----------------------------------------------------------------------------
(* The helpers *)

\* safeQueryParamName makes names of parameters as exportedIdentifier makes
\* names of fields, without the capital.
Params(columns) ==
  LET names == UniqueNamesOf([i \in DOMAIN columns |-> Exported(columns[i].name, <<"param">>)], {})
  IN  [c \in LowerSet(NamesOf(columns)) |-> names[CHOOSE i \in DOMAIN columns : Lower(columns[i].name) = c]]
ParamOf(w, t, c) == Params(Inputs(w, t))[Lower(c.name)]
FieldOfColumn(fields, c) == fields[Lower(c.name)]

\* The mutation: its columns in order, and the fields their values come from.
\* A delete passes the fields of its keys as the primary key.
MutationColumns(w, t) ==
  CASE w.operation = "delete" -> Keys(w, t)
    [] w.operation = "update" -> AppendMissing(Keys(w, t), Updates(w, t))
    [] OTHER                  -> Inserts(w, t)

\* The DML statement: the columns it writes, the columns its WHERE compares
\* (NULL-safely when they may be NULL), and the parameters bound to fields.
DMLWrites(w, t) ==
  CASE w.operation = "delete" -> <<>>
    [] w.operation = "update" -> Updates(w, t)
    [] OTHER                  -> Inserts(w, t)
DMLWhere(w, t) == IF w.operation \in {"update", "delete"} THEN Keys(w, t) ELSE <<>>
NullSafe(c) == ~c.notNull
DMLParams(w, t, fields) ==
  [p \in {ParamOf(w, t, c) : c \in ToSet(Inputs(w, t))} |->
     FieldOfColumn(fields, CHOOSE c \in ToSet(Inputs(w, t)) : ParamOf(w, t, c) = p)]

-----------------------------------------------------------------------------
(* Properties of the helpers of a list of writes that are accepted *)

\* Every parameter a DML statement names is bound, to the field that was
\* filled from the same column, and every field a helper reads is declared
\* in the input struct for the column the helper reads it for.
HelperReads(w, t, struct, declared, fields) ==
  LET Reads(c) == /\ HasField(struct, c.name) /\ Lower(c.name) \in DOMAIN fields
                  /\ FieldOfColumn(fields, c) = declared[Position(struct, c.name)]
  IN  /\ Contains(Methods(w), "mutation") => \A c \in ToSet(MutationColumns(w, t)) : Reads(c)
      /\ Contains(Methods(w), "dml") =>
           \A c \in ToSet(DMLWrites(w, t)) \cup ToSet(DMLWhere(w, t)) :
             /\ Reads(c) /\ Has(Inputs(w, t), c.name)
             /\ DMLParams(w, t, fields)[ParamOf(w, t, c)] = FieldOfColumn(fields, c)
HelpersReadTheirFields(writes, t, plan, target) ==
  \A w \in ToSet(writes) :
    HelperReads(w, t, PlannedStruct(plan, w.input),
                DeclaredFields(w.input, writes, plan, target), HelperFields(w, writes, plan, target))

\* The input struct can hold every value of a column, NULL among them for a
\* column that takes it.
StructsHoldTheValues(writes, t, plan) ==
  \A w \in ToSet(writes) : \A c \in ToSet(Inputs(w, t)) :
    LET f == FieldOf(PlannedStruct(plan, w.input), c.name)
    IN  (NullSafe(c) => f.nullable) /\ SameShape(f, FieldFromColumn(c))

\* README.md:689-692: a delete uses the primary key of the table.  The values
\* of a Spanner key stand in the order of the primary key.
DeletesByPrimaryKey(writes, t) ==
  \A w \in ToSet(writes) :
    w.operation = "delete" => LowerSet(NamesOf(MutationColumns(w, t))) = LowerSet(t.pk)
                              /\ \A i \in DOMAIN t.pk : Lower(MutationColumns(w, t)[i].name) = Lower(t.pk[i])
=============================================================================
