--------------------------- MODULE PlanVocabulary ---------------------------
(***************************************************************************)
(* planvocab on one plan: Inspect, which tells the nodes whose vocabulary  *)
(* the embedded catalog does not have, FindMatchingOperators, which looks  *)
(* for a node with given properties, and the command planvocab-check,      *)
(* which asks both of every plan it is given.                              *)
(* A raw plan is a function from indexes to nodes [name, kind, metadata,   *)
(* links]: metadata maps keys to [type, text], the type that of the        *)
(* protobuf value; a link is [to, type, variable].                         *)
(***************************************************************************)
EXTENDS ContractRules

CONSTANTS
  Catalog,        \* operator -> [kind, metadata : key -> values, {} for any, links : rules in order]
  CommonMetadata, \* the same for keys every operator has
  BeginsWith      \* word -> its prefixes that are asked for

\* The catalog lists the iterator types of an aggregate.
ASSUME CatalogAssumption ==
  /\ "aggregate" \in DOMAIN Catalog
  /\ "iterator_type" \in DOMAIN Catalog["aggregate"].metadata
  /\ Catalog["aggregate"].metadata["iterator_type"] # {}

Token(word)            == Lower(Trim(word))
HasPrefix(word, start) == word \in DOMAIN BeginsWith /\ start \in BeginsWith[word]

Fields(node) == {k \in DOMAIN node.metadata : node.metadata[k].type \notin {"null", "unset"}}
MetadataString(node, key) == IF key \in Fields(node) THEN Token(node.metadata[key].text) ELSE ""

\* The node as PlanContract has it: the metadata that decides its family.
MetadataFlags(node) ==
  {f \in {"hash", "stream", "filter_scan", "batch_scan"} :
     CASE f \in {"hash", "stream"} -> MetadataString(node, "iterator_type") = f
       [] f = "filter_scan" -> MetadataString(node, "scan_type") \in {"filterscan", "filter scan"}
       [] f = "batch_scan" -> \/ MetadataString(node, "scan_type") = "batchscan"
                              \/ /\ MetadataString(node, "scan_method") = "batch"
                                 /\ "scan_target" \in Fields(node) /\ HasPrefix(Trim(node.metadata["scan_target"].text), "$")}
Classified(plan) ==
  [i \in DOMAIN plan |->
     [name |-> Token(plan[i].name), kind |-> plan[i].kind, meta |-> MetadataFlags(plan[i]),
      links |-> [k \in DOMAIN plan[i].links |->
                   [to |-> plan[i].links[k].to, type |-> Token(plan[i].links[k].type)]]]]

-----------------------------------------------------------------------------
(* Inspect                                                                  *)

KnownOperator(node) == Token(node.name) \in DOMAIN Catalog
\* A key of the operator goes before a common one.
MetadataRules(node) ==
  LET own == IF KnownOperator(node) THEN Catalog[Token(node.name)].metadata ELSE <<>>
  IN  [k \in DOMAIN own \cup DOMAIN CommonMetadata |-> IF k \in DOMAIN own THEN own[k] ELSE CommonMetadata[k]]
Enumerated(node, key) == key \in DOMAIN MetadataRules(node) /\ MetadataRules(node)[key] # {}

NormalizedValue(value) ==
  CASE value.type = "string" -> Token(value.text) [] value.type \in {"number", "bool"} -> value.text [] OTHER -> value.type
KnownValue(node, key) == NormalizedValue(node.metadata[key]) \in MetadataRules(node)[key]

\* Mutant of ShapeValue: the text whatever the key.
ShapeValueText(node, key) == NormalizedValue(node.metadata[key])

\* A text is shown only of a key whose values the catalog lists.
ShapeValue(node, key) ==
  IF Enumerated(node, key) THEN NormalizedValue(node.metadata[key]) ELSE node.metadata[key].type
MetadataShape(node, key) == [key |-> key, value |-> ShapeValue(node, key)]

\* Links to nodes that are there, by their places, without the number of the node.
ChildLinks(plan, i) == {k \in DOMAIN plan[i].links : plan[i].links[k].to \in DOMAIN plan}
ShapeOf(plan, link) ==
  [kind |-> plan[link.to].kind, type |-> Trim(link.type), variable |-> Trim(link.variable) # ""]
LinksOfShape(plan, i, shape) == {k \in ChildLinks(plan, i) : ShapeOf(plan, plan[i].links[k]) = shape}
AggregateChildLinks(plan, i) ==
  {[shape |-> s, repeated |-> Cardinality(LinksOfShape(plan, i, s)) > 1] :
     s \in {ShapeOf(plan, plan[i].links[k]) : k \in ChildLinks(plan, i)}}

\* The first rule that fits says whether a link may be repeated.
MatchChildLink(node, shape) ==
  LET rules == Catalog[Token(node.name)].links
      fits  == {k \in DOMAIN rules :
                  /\ shape.kind \in {"unspecified", rules[k].kind}
                  /\ IF rules[k].wildcard THEN HasPrefix(Token(shape.type), rules[k].type)
                                          ELSE Token(shape.type) = Token(rules[k].type)
                  /\ rules[k].variable = "any" \/ (rules[k].variable = "present") = shape.variable}
  IN  {rules[k] : k \in {j \in fits : \A m \in fits : j <= m}}
UnknownLinks(plan, i) ==
  {l \in AggregateChildLinks(plan, i) : MatchChildLink(plan[i], l.shape) = {}}
RepeatedLinks(plan, i) ==
  {l \in AggregateChildLinks(plan, i) :
     l.repeated /\ \E rule \in MatchChildLink(plan[i], l.shape) : rule.multiple = "no"}

\* Everything unknown of a node, by reason; a diagnostic repeats the display
\* name and, of an aggregate, its iterator type.
InspectNode(plan, i) ==
  LET node     == plan[i]
      known    == KnownOperator(node)
      family   == Family(Classified(plan), i)
      warnings == ClassificationWarnings(<<[name |-> Token(node.name), family |-> family]>>)
      keys     == {k \in Fields(node) : known /\ k \notin DOMAIN MetadataRules(node)}
      values   == {k \in Fields(node) : known /\ Enumerated(node, k) /\ ~KnownValue(node, k)}
      links    == IF known THEN UnknownLinks(plan, i) ELSE {}
      repeated == IF known THEN RepeatedLinks(plan, i) ELSE {}
      because(reason, holds) == {r \in {reason} : holds}
  IN  [at |-> i, name |-> Trim(node.name), kind |-> node.kind,
       reasons |-> warnings \cup because("catalog_entry_missing", ~known /\ warnings = {})
                   \cup because("unexpected_operator_kind",
                                known /\ node.kind \notin {"unspecified", Catalog[Token(node.name)].kind})
                   \cup because("unknown_metadata_key", keys # {}) \cup because("unknown_metadata_value", values # {})
                   \cup because("unknown_child_link", links # {})
                   \cup because("unexpected_child_link_multiplicity", repeated # {}),
       metadata |-> {MetadataShape(node, k) : k \in Fields(node)}, links |-> AggregateChildLinks(plan, i),
       unknownKeys |-> keys, unknownValues |-> {MetadataShape(node, k) : k \in values},
       unknownLinks |-> links \cup repeated,
       iteratorType |-> IF "aggregate_iterator_type_unknown" \in warnings
                        THEN MetadataString(node, "iterator_type") ELSE ""]
Inspect(plan) == {f \in {InspectNode(plan, i) : i \in DOMAIN plan} : f.reasons # {}}

\* Mutant of Fingerprint: links are hashed without their repetition.
FingerprintOnce(finding) ==
  [operator |-> Token(finding.name), kind |-> finding.kind, reasons |-> finding.reasons, metadata |-> finding.metadata,
   links |-> {l.shape : l \in finding.links}]

\* What is hashed.
Fingerprint(finding) ==
  [operator |-> Token(finding.name), kind |-> finding.kind, reasons |-> finding.reasons, metadata |-> finding.metadata,
   links |-> finding.links]

-----------------------------------------------------------------------------
(* FindMatchingOperators.  A pattern is [name, family, metadata, links],    *)
(* "" for what it leaves open; a metadata requirement is [key, value], the  *)
(* value NoValue for any; a link requirement [kind, type, variable, min].   *)

NoValue == [type |-> "unset", text |-> ""]
ValidPattern(pattern) ==
  /\ pattern.name # "" \/ pattern.family # ""
  /\ pattern.family \in {""} \cup ConcreteOperatorFamilies
  /\ \A m \in ToSet(pattern.metadata) : m.key # "" /\ m.value.type # "null"
  /\ \A l \in ToSet(pattern.links) :
       /\ l.kind \in {"", "unspecified", "relational", "scalar"}
       /\ l.variable \in {"", "any", "absent", "present"} /\ l.min >= 0

Candidates(plan, pattern) ==
  {i \in DOMAIN plan : /\ pattern.name \in {"", plan[i].name}
                       /\ pattern.family \in {"", Family(Classified(plan), i)}}

\* Mutant of MatchingChildLinks: whether there is a variable the wrong way round.
MatchingChildLinksSwapped(plan, i, r) ==
  {k \in DOMAIN plan[i].links :
     LET l == plan[i].links[k]
     IN  /\ l.type = r.type
         /\ r.variable = "absent" => Trim(l.variable) # ""
         /\ r.variable = "present" => Trim(l.variable) = ""
         /\ r.kind \notin {"", "unspecified"} => l.to \in DOMAIN plan /\ plan[l.to].kind = r.kind}

\* Types are compared as they are spelt; a requirement of any kind is met by a
\* link to nowhere as well.
MatchingChildLinks(plan, i, r) ==
  {k \in DOMAIN plan[i].links :
     LET l == plan[i].links[k]
     IN  /\ l.type = r.type
         /\ r.variable = "absent" => Trim(l.variable) = ""
         /\ r.variable = "present" => Trim(l.variable) # ""
         /\ r.kind \notin {"", "unspecified"} => l.to \in DOMAIN plan /\ plan[l.to].kind = r.kind}
Minimum(r) == IF r.min = 0 THEN 1 ELSE r.min

\* A diagnostic has a text only when the catalog lists that very value.
SafeDiagnosticValue(node, key) ==
  IF Enumerated(node, key) /\ KnownValue(node, key) THEN NormalizedValue(node.metadata[key]) ELSE node.metadata[key].type
MatchNodeRequirements(plan, i, pattern) ==
  LET node == plan[i]
      null(m)    == m.key \in DOMAIN node.metadata /\ node.metadata[m.key].type = "null"
      missing(m) == m.key \notin Fields(node) /\ ~null(m)
      other(m)   == m.key \in Fields(node) /\ m.value # NoValue /\ m.value # node.metadata[m.key]
      failed     == {m \in ToSet(pattern.metadata) : null(m) \/ missing(m) \/ other(m)}
  IN  [metadata |-> {[key |-> m.key, observed |-> CASE null(m) -> "null" [] missing(m) -> "missing"
                                                    [] other(m) -> SafeDiagnosticValue(node, m.key)] : m \in failed},
       links |-> {[link |-> r, count |-> Cardinality(MatchingChildLinks(plan, i, r))] :
                    r \in {q \in ToSet(pattern.links) : Cardinality(MatchingChildLinks(plan, i, q)) < Minimum(q)}}]
NoReasons == [metadata |-> {}, links |-> {}]
Matches(plan, pattern) ==
  {i \in Candidates(plan, pattern) : MatchNodeRequirements(plan, i, pattern) = NoReasons}
Mismatches(plan, pattern) ==
  {[at |-> i, reasons |-> MatchNodeRequirements(plan, i, pattern)] :
     i \in Candidates(plan, pattern) \ Matches(plan, pattern)}

-----------------------------------------------------------------------------
(* planvocab-check.  A source is [name, envelopes]; an envelope is [label,  *)
(* error, plan]: the phrases its error contains, {} without one, and the    *)
(* plan that can be decoded, if any.  A document of expectations is         *)
(* [version, queries, errors] with queries [label, patterns] and errors     *)
(* [label, contains].                                                       *)

NoDocument == [version |-> "v0alpha1", queries |-> <<>>, errors |-> <<>>]
LabelsOf(document) ==
  [k \in DOMAIN document.queries |-> document.queries[k].label]
  \o [k \in DOMAIN document.errors |-> document.errors[k].label]
ValidDocument(document) ==
  /\ document.version = "v0alpha1" /\ LabelsOf(document) # <<>>
  /\ \A label \in ToSet(LabelsOf(document)) : Trim(label) # ""
  /\ \A q \in ToSet(document.queries) : q.patterns # <<>>
  /\ \A e \in ToSet(document.errors) : Trim(e.contains) # ""
  /\ IsInjective(LabelsOf(document))

\* The envelopes of all sources, each with its label or one made of the source.
FallbackLabel(source, k) ==
  IF Len(source.envelopes) = 1 THEN source.name ELSE source.name \o "#" \o ToString(k)
Labelled(source) ==
  [k \in DOMAIN source.envelopes |->
     [source.envelopes[k] EXCEPT !.label = IF Trim(@) = "" THEN FallbackLabel(source, k) ELSE Trim(@)]]
Envelopes(sources) == FlattenSeq([s \in DOMAIN sources |-> Labelled(sources[s])])

PatternsFor(document, label) ==
  UNION {{[at |-> k, pattern |-> q.patterns[k]] : k \in DOMAIN q.patterns} :
           q \in {r \in ToSet(document.queries) : r.label = label}}
ErrorsFor(document, label) == {e \in ToSet(document.errors) : e.label = label}

\* The input that ends the command: an envelope with neither, and a pattern
\* that is not valid, once a plan is there to try it on.
Undecided(document, e) ==
  e.error = {} /\ (e.plan = {} \/ \E p \in PatternsFor(document, e.label) : ~ValidPattern(p.pattern))

Failure(label, at, reason) == [label |-> label, at |-> at, reason |-> reason]
\* Mutant of EnvelopeFailures: patterns are forgotten when there is no plan.
EnvelopeFailuresOfPlans(document, e) ==
  LET expected == ErrorsFor(document, e.label)
      because(reason, holds) == {f \in {Failure(e.label, 0, reason)} : holds}
  IN  IF e.error # {}
      THEN because("other query error", \E x \in expected : x.contains \notin e.error)
           \cup because("unexpected query error", expected = {} /\ document.errors # <<>>)
      ELSE because("plan instead of error", expected # {}) \cup
           {Failure(e.label, p.at, "no match") :
              p \in {q \in PatternsFor(document, e.label) : \A plan \in e.plan : Matches(plan, q.pattern) = {}}}

EnvelopeFailures(document, e) ==
  LET expected == ErrorsFor(document, e.label)
      because(reason, holds) == {f \in {Failure(e.label, 0, reason)} : holds}
  IN  IF e.error # {}
      THEN because("other query error", \E x \in expected : x.contains \notin e.error)
           \cup because("unexpected query error", expected = {} /\ document.errors # <<>>)
           \cup because("query produced no plan", PatternsFor(document, e.label) # {})
      ELSE because("plan instead of error", expected # {}) \cup
           {Failure(e.label, p.at, "no match") :
              p \in {q \in PatternsFor(document, e.label) : \A plan \in e.plan : Matches(plan, q.pattern) = {}}}
InspectInputs(envelopes, document) ==
  [findings |-> UNION {UNION {Inspect(plan) : plan \in e.plan} : e \in {f \in ToSet(envelopes) : f.error = {}}},
   query_errors |-> {e.label : e \in {f \in ToSet(envelopes) : f.error # {}}},
   expectation_failures |->
     {Failure(label, 0, "label not present") :
        label \in {l \in ToSet(LabelsOf(document)) : \A e \in ToSet(envelopes) : e.label # l}}
     \cup UNION {EnvelopeFailures(document, e) : e \in ToSet(envelopes)}]

\* The exit status; input is [sources, expect, document, allow, format].
Check(input) ==
  LET document  == IF input.expect THEN input.document ELSE NoDocument
      envelopes == Envelopes(input.sources)
      report    == InspectInputs(envelopes, document)
  IN  CASE \/ input.expect /\ ~ValidDocument(document)
           \/ \E s \in ToSet(input.sources) : s.envelopes = <<>>
           \/ \E e \in ToSet(envelopes) : Undecided(document, e)
           \/ input.format \notin {"text", "json"}       -> "refused"
        [] OTHER -> IF report.findings # {} THEN "findings"
                    ELSE IF report.expectation_failures # {} THEN "expectations"
                    ELSE IF report.query_errors # {} /\ ~input.allow THEN "query_errors" ELSE "passed"
=============================================================================
