----------------------------- MODULE OptionalSQL -----------------------------
(***************************************************************************)
(* Optional query parameters (internal/optparam and                        *)
(* internal/querygen/optparam_bridge.go).  Markers in a statement enclose  *)
(* what a parameter turns on or off, or replaces.  At generation time all  *)
(* variants of the statement are enumerated and analyzed; the generated    *)
(* function puts one of them together from what its caller passes.         *)
(*                                                                         *)
(* A template is a sequence of blocks [marker, param, text]; text outside  *)
(* markers has marker "".  A text is a sequence of tokens [is, name]:      *)
(* words, columns, parameters, and quoted text, which is none of these.    *)
(* A parameter is [name, mode, type, choices, default].                    *)
(***************************************************************************)
EXTENDS GoNames, Functions

CONSTANTS
  MaxVariants, \* maxEnumeratedVariants
  ExportIdent  \* exportIdent: parameter names -> Go field names

ASSUME MaxVariantsAssumption == MaxVariants \in Nat \ {0}

Word(w)   == [is |-> "word", name |-> w]
Named(p)  == [is |-> "param", name |-> p]
Quoted(w) == [is |-> "quoted", name |-> w]
NullSafeEquals == Word("IS NOT DISTINCT FROM")

-----------------------------------------------------------------------------
(* SegmentTemplate *)

MarkerMode == [optional |-> "omit_when_null", empty |-> "omit_when_empty",
               null_is_null |-> "null_is_null", orderby |-> "orderby_choice"]
ParamNamed(params, n) == CHOOSE p \in ToSet(params) : p.name = n
ModeOf(params, n) == ParamNamed(params, n).mode
ParamsOfMode(params, modes) == {p.name : p \in {q \in ToSet(params) : q.mode \in modes}}

\* rewriteNullIsNull: the equals signs before @name that are code.
Compares(text, i, name) ==
  /\ i + 1 \in DOMAIN text /\ text[i] = Word("=")
  /\ text[i + 1].is = "param" /\ Lower(text[i + 1].name) = Lower(name)
RewriteNullIsNull(text, name) ==
  [i \in DOMAIN text |-> IF Compares(text, i, name) THEN NullSafeEquals ELSE text[i]]

Marked(template) == {i \in DOMAIN template : template[i].marker # ""}
BlockFits(b, params) ==
  /\ b.param \in {p.name : p \in ToSet(params)}
  /\ ModeOf(params, b.param) = MarkerMode[b.marker]
  /\ b.marker = "orderby" =>
       LET p == ParamNamed(params, b.param) IN p.default # "" /\ p.default \in DOMAIN p.choices
  /\ b.marker = "null_is_null" => \E i \in DOMAIN b.text : Compares(b.text, i, b.param)
TemplateFits(template, params) ==
  /\ IsInjective([i \in DOMAIN params |-> params[i].name])
  /\ \A i \in Marked(template) : BlockFits(template[i], params)
  /\ ParamsOfMode(params, {"omit_when_null", "omit_when_empty", "orderby_choice"})
       \subseteq {template[i].param : i \in Marked(template)}

\* null_is_null leaves a fixed segment.
Segments(template, params) ==
  [i \in DOMAIN template |->
     IF template[i].marker = "null_is_null"
     THEN [marker |-> "", param |-> "", text |-> RewriteNullIsNull(template[i].text, template[i].param)]
     ELSE template[i]]

-----------------------------------------------------------------------------
(* EnumerateVariants *)

Gateable(segments)   == {segments[i].param : i \in {j \in DOMAIN segments : segments[j].marker \in {"optional", "empty"}}}
Choiceable(segments) == {segments[i].param : i \in {j \in DOMAIN segments : segments[j].marker = "orderby"}}

\* Mutant of WithinLimit: the last factor is not counted.
WithinLimitPresence(segments, params) == 2 ^ Cardinality(Gateable(segments)) <= MaxVariants

\* A product of widths, 0 where it exceeds the limit: it is never formed before
\* it is known to stay within.
Product(widths) ==
  LET total[n \in 0..Len(widths)] ==
        IF n = 0 THEN 1
        ELSE IF total[n - 1] = 0 \/ total[n - 1] > MaxVariants \div widths[n] THEN 0
        ELSE total[n - 1] * widths[n]
  IN  total[Len(widths)]
WithinLimit(segments, params) ==
  LET axes     == SetToSeq(Choiceable(segments))
      presence == Product([n \in 1..Cardinality(Gateable(segments)) |-> 2])
      choices  == Product([n \in DOMAIN axes |-> Cardinality(DOMAIN ParamNamed(params, axes[n]).choices)])
  IN  presence # 0 /\ choices # 0 /\ presence <= MaxVariants \div choices

\* ComposeVariant: present are the gates that are open, choices the keys of the
\* orderings; a key that is not given is the default.
Compose(segments, params, present, choices) ==
  LET chosen(s) == LET p == ParamNamed(params, s.param)
                   IN  p.choices[IF choices[s.param] = "" THEN p.default ELSE choices[s.param]]
      text(s)   == CASE s.marker = ""                      -> s.text
                     [] s.marker \in {"optional", "empty"} -> IF s.param \in present THEN s.text ELSE <<>>
                     [] s.marker = "orderby"               -> chosen(s)
  IN  FlattenSeq([i \in DOMAIN segments |-> text(segments[i])])

ChoiceKeys(segments, params) ==
  {c \in [Choiceable(segments) -> UNION {DOMAIN ParamNamed(params, p).choices : p \in Choiceable(segments)}] :
     \A p \in Choiceable(segments) : c[p] \in DOMAIN ParamNamed(params, p).choices}

\* Mutant of Presences: single gates and all of them are tried, pairs are not.
PresencesFew(segments) ==
  {s \in SUBSET Gateable(segments) : Cardinality(s) <= 1}

Presences(segments) == SUBSET Gateable(segments)

Variants(segments, params) ==
  {[present |-> s, absent |-> Gateable(segments) \ s, choices |-> c, sql |-> Compose(segments, params, s, c)] :
     s \in Presences(segments), c \in ChoiceKeys(segments, params)}
\* Variant.Key: the parts of the label, each once.
VariantKey(v) == {<<p, "">> : p \in v.present} \cup {<<p, v.choices[p]>> : p \in DOMAIN v.choices}

\* All variants are analyzed and return rows of one type (external: the columns
\* that the analyzer finds).
RowType(sql) == {sql[i].name : i \in {j \in DOMAIN sql : sql[j].is = "result"}}
VariantsAgree(variants) == \A v, w \in variants : RowType(v.sql) = RowType(w.sql)

TemplateAccepted(template, params) ==
  /\ TemplateFits(template, params)
  /\ WithinLimit(Segments(template, params), params)
  /\ VariantsAgree(Variants(Segments(template, params), params))

\* Mutant of Canonical: the one with the least label.
CanonicalFirst(variants) ==
  {v \in variants : \A w \in variants : Cardinality(v.present) <= Cardinality(w.present)}

\* The variant that stands for the query in the plan has the most parameters
\* present; of several, the least label.
Canonical(variants) ==
  {v \in variants : \A w \in variants : Cardinality(v.present) >= Cardinality(w.present)}

-----------------------------------------------------------------------------
(* EmitGoBuilder *)

\* The types a mode has Go types for; what has none is refused.
Scalars == {"STRING", "INT64", "BOOL", "FLOAT64"}
Arrays  == {"ARRAY<STRING>", "ARRAY<INT64>", "ARRAY<BOOL>", "ARRAY<FLOAT64>"}
GoTypesFor == [required |-> Scalars \cup Arrays \cup {"BYTES"}, omit_when_null |-> Scalars \cup {"BYTES"},
               omit_when_empty |-> Arrays, null_is_null |-> Scalars]
TypeOK(p) == p.mode = "orderby_choice" \/ p.type \in GoTypesFor[p.mode]
BuilderEmits(params) == \A p \in ToSet(params) : TypeOK(p)

\* Fields of the struct the caller fills: in order of their names, those of
\* null_is_null last.
BuilderFields(segments, params) ==
  LET onSegments == Gateable(segments) \cup Choiceable(segments) \cup ParamsOfMode(params, {"required"})
      sorted(s) == SetToSeq(s)
  IN  [i \in DOMAIN sorted(onSegments) |-> ExportIdent[sorted(onSegments)[i]]]
      \o [i \in DOMAIN sorted(ParamsOfMode(params, {"null_is_null"})) |->
            ExportIdent[sorted(ParamsOfMode(params, {"null_is_null"}))[i]]]

\* Mutant of BuildSQL: the builder writes what stands inside the marker of an
\* ordering when the caller leaves the choice to it.
BuildSQLMarkerBody(segments, params, given, choices) ==
  LET one(s) == CASE s.marker = "orderby" -> IF choices[s.param] = "" THEN s.text
                                             ELSE ParamNamed(params, s.param).choices[choices[s.param]]
                  [] s.marker = ""        -> s.text
                  [] OTHER                -> IF s.param \in given THEN s.text ELSE <<>>
  IN  FlattenSeq([i \in DOMAIN segments |-> one(segments[i])])

\* The generated function, called with given (the parameters that are not nil
\* or empty) and choices ("" where the caller leaves it): its SQL, the names it
\* binds and the parts of its label, in the order of the segments.
BuildSQL(segments, params, given, choices) ==
  LET choice(s) == IF choices[s.param] = "" THEN ParamNamed(params, s.param).default ELSE choices[s.param]
      one(s) == CASE s.marker = ""        -> s.text
                  [] s.marker = "orderby" -> ParamNamed(params, s.param).choices[choice(s)]
                  [] OTHER                -> IF s.param \in given THEN s.text ELSE <<>>
  IN  FlattenSeq([i \in DOMAIN segments |-> one(segments[i])])
\* Mutant of BuildArgs: the values of null_is_null are not bound.
BuildArgsGated(segments, params, given) ==
  (Gateable(segments) \cap given) \cup ParamsOfMode(params, {"required"})
BuildArgs(segments, params, given) ==
  (Gateable(segments) \cap given) \cup ParamsOfMode(params, {"required", "null_is_null"})
BuildLabel(segments, params, given, choices) ==
  LET part(s) == CASE s.marker \in {"optional", "empty"} /\ s.param \in given -> <<<<s.param, "">>>>
                   [] s.marker = "orderby" ->
                        <<<<s.param, IF choices[s.param] = "" THEN ParamNamed(params, s.param).default
                                     ELSE choices[s.param]>>>>
                   [] OTHER -> <<>>
  IN  FlattenSeq([i \in DOMAIN segments |-> part(segments[i])])
\* A choice that the switch does not know panics.
BuildPanics(segments, params, choices) ==
  \E p \in Choiceable(segments) : choices[p] # "" /\ choices[p] \notin DOMAIN ParamNamed(params, p).choices
\* Every way to call the function: what is given, and a choice or none for each ordering.
CallsOf(segments, params) ==
  LET keys == UNION {DOMAIN ParamNamed(params, p).choices : p \in Choiceable(segments)}
  IN  {x \in [given : SUBSET {p.name : p \in ToSet(params)}, choices : [Choiceable(segments) -> {""} \cup keys]] :
         ~BuildPanics(segments, params, x.choices)}
=============================================================================
