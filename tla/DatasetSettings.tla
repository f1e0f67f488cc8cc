--------------------------- MODULE DatasetSettings ---------------------------
(***************************************************************************)
(* What the configuration says of a BigQuery external dataset over Spanner *)
(* (internal/querygen/querygen.go) and what AddSpannerExternalDataset makes *)
(* of it (bigquery.go): the access to Spanner, who verified it, the        *)
(* connection, and the columns that BigQuery can see.  Several settings    *)
(* can be written in two places.  How the tables get into the catalog is   *)
(* in BigQueryCatalog.                                                     *)
(*                                                                         *)
(* A dataset is [source, dialect, uri, role, access, evidence, location,   *)
(* connection, cloudConnection, unsupported, named, tables, suppressions]  *)
(* with access [mode, connection, role, hint, evidence]; evidence is       *)
(* [status, source, checkedAt, verifier].  Rules are named without their   *)
(* common prefix.  A connection is the sequence of its parts, a            *)
(* table [name, columns], a column [name, type, hidden], a name the        *)
(* sequence of its parts and a type as in FederatedQueries.                *)
(***************************************************************************)
EXTENDS FederatedQueries

OrElse(x, y) == IF x = "" THEN y ELSE x
OrConnection(x, y) == IF x = <<>> THEN y ELSE x

SpannerDialect(d) == Lower(OrElse(d, "spanner")) \in {"spanner", "spanner_google_sql", "spanner-google-sql"}
PostgreSQLDialect(d) == Lower(OrElse(d, "spanner")) \in {"postgresql", "spanner_postgresql", "spanner-postgresql"}

-----------------------------------------------------------------------------
(* The evidence that somebody verified the access *)

NoEvidence == [status |-> "", source |-> "", checkedAt |-> "", verifier |-> ""]
Decided    == {"verified", "mismatch", "failed"}

\* Mutant of EvidenceOf: evidence in the older place is forgotten.
EvidenceOfAccess(d) == d.access.evidence

EvidenceOf(d) == IF d.access.evidence = NoEvidence THEN d.evidence ELSE d.access.evidence
StatusOf(e) == Lower(OrElse(e.status, "not_checked"))
SourceAccepted(source, status) ==
  \/ source \in {"", "external_evidence", "live_probe"}
  \/ source = "user_config" /\ status \in {"", "not_checked"}
SourceFor(source, status) ==
  CASE source # ""                             -> source
    [] source = "" /\ status = "not_checked"   -> ""
    [] OTHER                                   -> "external_evidence"

EvidenceInOnePlace(d) == d.access.hint \in {"", "not_checked"} /\ NoEvidence \in {d.access.evidence, d.evidence}
\* Here the status is compared as it is written.
EvidenceConfigured(d) ==
  LET e == EvidenceOf(d)
  IN  e.status # "" =>
        /\ StatusOf(e) \in Decided \cup {"not_checked"}
        /\ SourceAccepted(Lower(e.source), e.status)
        /\ e.status \in Decided => e.verifier # "" /\ e.checkedAt = "RFC 3339"
EvidenceNormalizes(e) ==
  /\ StatusOf(e) \in Decided \cup {"not_checked"}
  /\ SourceAccepted(Lower(e.source), StatusOf(e))
  /\ StatusOf(e) \in Decided => e.verifier # "" /\ e.checkedAt # ""
Verification(e) ==
  LET source == SourceFor(Lower(e.source), StatusOf(e))
  IN  [status |-> StatusOf(e), source |-> source, verifier |-> e.verifier, checkedAt |-> e.checkedAt,
       byGenerator |-> source = "live_probe", volatile |-> e.checkedAt # ""]

-----------------------------------------------------------------------------
(* The database role.  A URI is [form, role]; those of another form are     *)
(* kept and not looked into.                                                *)

Unrecognized(uri) == uri.form = "other"
RoleInURI(uri)  == IF uri.form = "with role" THEN uri.role ELSE ""
RoleWritten(d)  == OrElse(d.access.role, d.role)
RolesAgree(d)   == "" \in {RoleInURI(d.uri), RoleWritten(d)} \/ RoleInURI(d.uri) = RoleWritten(d)
RoleOf(d)       == OrElse(RoleWritten(d), RoleInURI(d.uri))
RoleSource(d)   ==
  CASE RoleOf(d) = ""                                    -> ""
    [] RoleOf(d) # "" /\ RoleWritten(d) = ""             -> "external_source"
    [] RoleWritten(d) # "" /\ RoleInURI(d.uri) # ""      -> "config_and_external_source"
    [] OTHER                                             -> "config"

-----------------------------------------------------------------------------
(* The connection and its location *)

\* Mutant of CanonicalLocation: single regions are not told apart.
CanonicalMultiRegion(l) == IF Lower(l) \in {"us", "eu"} THEN Lower(l) ELSE ""

CanonicalLocation(l) == Lower(l)
ConnectionUsed(d) == OrConnection(d.access.connection, OrConnection(d.cloudConnection, d.connection))
Readable(connection) == Len(connection) = 3 /\ "" \notin ToSet(connection)
LocationsAgree(d) ==
  LET c == ConnectionUsed(d)
  IN  Readable(c) /\ d.location # "" => CanonicalLocation(c[2]) = CanonicalLocation(d.location)

AccessModes == [unknown |-> "unknown", euc |-> "end_user_credentials", end_user_credentials |-> "end_user_credentials",
                     cloud_resource |-> "cloud_resource_connection", cloud_resource_connection |-> "cloud_resource_connection"]
AccessMode(d) == AccessModes[Lower(OrElse(d.access.mode, "unknown"))]

\* The rules the plan warns by, those of single columns apart.
Rule(name, when) == IF when THEN {name} ELSE {}
EvidenceRules(d) ==
  LET status == StatusOf(EvidenceOf(d))
  IN  {"data-boost-permission-note"}
      \cup Rule("access-unverified", status = "not_checked")
      \cup Rule("access-verification-mismatch", status = "mismatch")
      \cup Rule("access-verification-failed", status = "failed")
      \cup Rule("role-visibility-not-verified", RoleOf(d) # "" /\ status = "not_checked")
      \cup Rule("external-source-unrecognized", Unrecognized(d.uri))
ConnectionRules(d) ==
  LET c == ConnectionUsed(d)
  IN  Rule("connection-id-unparsed", c # <<>> /\ ~Readable(c))
      \cup Rule("cloud-resource-connection-missing", AccessMode(d) = "cloud_resource_connection" /\ c = <<>>)
      \cup Rule("euc-connection-specified", AccessMode(d) = "end_user_credentials" /\ c # <<>>)

-----------------------------------------------------------------------------
(* The columns BigQuery sees *)

Why(column) ==
  CASE column.hidden                                   -> "hidden"
    [] ~column.hidden /\ ~HasBigQueryType(column.type) -> "unsupported"
    [] OTHER                                           -> ""
InDefault(t) == Len(t.name) = 1
Policy(x, default) == Lower(OrElse(x, default))

\* Mutant of HasUnsupported: the search ends with the first column.
HasUnsupportedFirst(t) == t.columns # <<>> /\ Why(t.columns[1]) = "unsupported"

HasUnsupported(t) == \E i \in DOMAIN t.columns : Why(t.columns[i]) = "unsupported"
\* What a policy refuses of a table, "" where it refuses nothing.
TableRefusal(d, t) ==
  CASE ~InDefault(t) /\ Policy(d.named, "warn_and_omit") = "error"                  -> "named-schema-table-omitted"
    [] InDefault(t) /\ HasUnsupported(t) /\ Policy(d.unsupported, "omit") = "error" -> "unsupported-column-omitted"
    [] OTHER                                                                       -> ""
RefusedTables(d) == {i \in DOMAIN d.tables : TableRefusal(d, d.tables[i]) # ""}

ColumnRule(column) ==
  CASE Why(column) = "hidden"                              -> "hidden-column"
    [] Why(column) = "unsupported"                         -> "unsupported-column"
    [] Why(column) = "" /\ column.type = <<"TIMESTAMP">>   -> "timestamp-caveat"
    [] Why(column) = "" /\ column.type = <<"NUMERIC">>     -> "numeric-caveat"
    [] OTHER                                               -> ""
Severity(rule) == IF rule = "hidden-column" THEN "info" ELSE "warning"
TableRules(t) ==
  IF ~InDefault(t) THEN {"named-schema-table-omitted"}
  ELSE {ColumnRule(t.columns[i]) : i \in DOMAIN t.columns} \ {""}

ProjectedTable(t) ==
  [name |-> t.name, visible |-> InDefault(t),
   columns |-> IF InDefault(t) THEN {i \in DOMAIN t.columns : Why(t.columns[i]) = ""} ELSE {},
   omitted |-> IF InDefault(t) THEN {t.columns[i].name : i \in {j \in DOMAIN t.columns : Why(t.columns[j]) # ""}} ELSE {},
   rules |-> TableRules(t)]

-----------------------------------------------------------------------------
(* addCodegenSpannerExternalDatasets *)

\* A suppression is [rule, reason]; both are needed.
SuppressionsValid(d) == \A s \in ToSet(d.suppressions) : s.rule # "" /\ s.reason # ""
\* Each check with the rule that its refusal is reported by.
Checks(d) ==
  << <<SuppressionsValid(d), "planning-error">>,
     <<EvidenceInOnePlace(d), "access-verification-conflict">>,
     <<EvidenceConfigured(d), "planning-error">>,
     <<~PostgreSQLDialect(d.dialect), "postgresql-dialect-unsupported">>,
     <<SpannerDialect(d.dialect), "planning-error">>,
     <<Lower(OrElse(d.access.mode, "unknown")) \in DOMAIN AccessModes, "planning-error">>,
     <<Policy(d.unsupported, "omit") \in {"omit", "error"}, "planning-error">>,
     <<Policy(d.named, "warn_and_omit") \in {"warn_and_omit", "error"}, "planning-error">>,
     <<RolesAgree(d), "database-role-conflict">>,
     <<EvidenceNormalizes(EvidenceOf(d)), "planning-error">>,
     <<LocationsAgree(d), "connection-location-mismatch">> >>
FailedChecks(d) == {i \in DOMAIN Checks(d) : ~Checks(d)[i][1]}
DatasetAccepted(d) == FailedChecks(d) = {} /\ RefusedTables(d) = {}
Refusal(d) == IF FailedChecks(d) # {} THEN Checks(d)[Min(FailedChecks(d))][2] ELSE TableRefusal(d, d.tables[Min(RefusedTables(d))])
Binding(d) ==
  [verification |-> Verification(EvidenceOf(d)), role |-> RoleOf(d), roleSource |-> RoleSource(d),
   connection |-> ConnectionUsed(d), location |-> CanonicalLocation(d.location),
   located |-> Readable(ConnectionUsed(d)) /\ d.location # "", rules |-> EvidenceRules(d) \cup ConnectionRules(d),
   tables |-> [i \in DOMAIN d.tables |-> ProjectedTable(d.tables[i])]]

-----------------------------------------------------------------------------
(* What vet and explain-plan show of it (cmd/spanner-query-gen/main.go).     *)

WarningRules(binding) == binding.rules \cup UNION {binding.tables[i].rules : i \in DOMAIN binding.tables}
SuppressionsOf(d, rule) == {i \in DOMAIN d.suppressions : d.suppressions[i].rule = rule}
\* A warning, with the reason of the first suppression of its rule.
Diagnostic(d, rule) ==
  LET by == SuppressionsOf(d, rule)
  IN  [rule |-> rule, severity |-> Severity(rule), suppressible |-> TRUE, suppressed |-> by # {},
       reason |-> IF by = {} THEN "" ELSE d.suppressions[Min(by)].reason]
PlanningError(rule) == [rule |-> rule, severity |-> "error", suppressible |-> FALSE, suppressed |-> FALSE, reason |-> ""]
Diagnostics(d) ==
  IF DatasetAccepted(d) THEN {Diagnostic(d, r) : r \in WarningRules(Binding(d))} ELSE {PlanningError(Refusal(d))}

\* Mutant of Vet: what is suppressed is left out altogether.
VetSilently(d) ==
  LET left == {x \in Diagnostics(d) : ~x.suppressed}
  IN  [diagnostics |-> left, warnings |-> {x \in left : x.suppressible}, suppressions |-> ToSet(d.suppressions),
       fails |-> \E x \in left : x.severity = "error"]

\* The report, and whether the command fails.
Vet(d) ==
  LET left == {x \in Diagnostics(d) : ~x.suppressed}
  IN  [diagnostics |-> Diagnostics(d), warnings |-> {x \in left : x.suppressible},
       suppressions |-> IF DatasetAccepted(d) THEN ToSet(d.suppressions) ELSE {}, fails |-> \E x \in left : x.severity = "error"]

\* explain-plan --stable
Stable(binding) ==
  IF binding.verification.volatile THEN [binding EXCEPT !.verification.checkedAt = "", !.verification.volatile = FALSE]
  ELSE binding

-----------------------------------------------------------------------------
(***************************************************************************)
(* What the plan says of a query over the tables of these datasets, and    *)
(* the statements that are refused because they would change one           *)
(* (querygen_shared.go, internal/querygen/querygen.go).  Both look at the  *)
(* text alone: it is searched for the names a table can be called by.  A   *)
(* path is one lexeme, whose parts PathOf has.  A binding is [dataset,     *)
(* path, tables], dataset and path sequences of parts, a table as          *)
(* ProjectedTable makes it: [name, visible, omitted].                      *)
(***************************************************************************)

CONSTANTS
  PathOf,   \* lexemes in small letters -> the parts they are made of
  Begins, \* the pairs of parts of which one begins the other, or is it
  Ends    \* the same for the ends

Parts(word) == IF word \in DOMAIN PathOf THEN PathOf[word] ELSE <<word>>

-----------------------------------------------------------------------------
(* Names in the text *)

Kept(text) ==
  {i \in InCode(text) : text[i] # "newline"}
    \cup {i \in DOMAIN text : Modes(text)[i - 1] = <<"backquote">> /\ text[i] \notin {"backquote", "newline"}}
\* normalizeSQLForTableReference: small letters, without strings, comments and
\* backquotes.
NormalText(text) ==
  LET words[i \in 0..Len(text)] ==
        IF i = 0 THEN <<>> ELSE IF i \in Kept(text) THEN Append(words[i - 1], Lower(text[i])) ELSE words[i - 1]
  IN  words[Len(text)]

FullName(b, t) == b.path \o t.name

\* Mutant of ReferenceNames: tables are looked for by their full names only.
ReferenceNamesFull(b, t) == IF t.visible THEN {FullName(b, t)} ELSE {}

\* externalDatasetTableReferenceNames; a table BigQuery does not see has its
\* Spanner name as its own.
ReferenceNames(b, t) == {IF t.visible THEN FullName(b, t) ELSE t.name, b.dataset \o t.name, FullName(b, t)}

\* A name is anywhere in a word: it begins and ends within parts; it has two at least.
WithinWord(word, name) ==
  LET p == Parts(word)
      n == Len(name)
  IN  \E j \in 0..(Len(p) - n) :
        /\ <<name[1], p[j + 1]>> \in Ends /\ <<name[n], p[j + n]>> \in Begins
        /\ \A k \in 2..(n - 1) : name[k] = p[j + k]
References(text, b, t) ==
  \E w \in ToSet(NormalText(text)) : \E name \in ReferenceNames(b, t) : WithinWord(w, name)

-----------------------------------------------------------------------------
(* What the statement does to a table *)

\* Mutant of TargetReference: a name has to be followed by a space.
TargetReferenceSpaced(words, prefix, name) ==
  /\ Len(words) > Len(prefix) /\ IsPrefix(prefix, words) /\ Parts(words[Len(prefix) + 1]) = name
  /\ Len(words) > Len(prefix) + 1 => words[Len(prefix) + 2] \notin {"comma", "semicolon", "paren"}

TargetReference(words, prefix, name) ==
  /\ Len(words) > Len(prefix) /\ IsPrefix(prefix, words) /\ Parts(words[Len(prefix) + 1]) = name
  /\ Len(words) > Len(prefix) + 1 => words[Len(prefix) + 2] \notin {"comma", "semicolon"}
DMLPrefixes ==
  {<<"insert", "into">>, <<"insert">>, <<"update">>, <<"merge", "into">>, <<"merge">>, <<"delete", "from">>}
Replace == <<"create", "or", "replace">>
MetadataPrefixes ==
  {<<"truncate", "table">>, <<"alter", "table">>, <<"drop", "table">>, <<"create", "table">>, Replace \o <<"table">>}
ReferenceRole(text, b, t) ==
  LET words == NormalText(text)
      targets(prefixes) == \E name \in ReferenceNames(b, t), p \in prefixes : TargetReference(words, p, name)
  IN  CASE targets(DMLPrefixes)                                  -> "dml_target"
        [] targets(MetadataPrefixes) /\ ~targets(DMLPrefixes)    -> "metadata_target"
        [] OTHER                                                 -> "select_source"

\* spannerExternalDatasetMetadataTarget: the first word after the prefix, and
\* after the words that make the statement conditional.
TargetPrefixes ==
  MetadataPrefixes
    \cup {Replace \o <<"materialized", "view">>, <<"create", "materialized", "view">>, Replace \o <<"view">>,
          <<"create", "view">>, <<"drop", "view">>}
Conditions == {<<>>, <<"if", "not", "exists">>, <<"if", "exists">>}
MetadataTarget(text, b) ==
  LET words == NormalText(text)
  IN  \E p \in TargetPrefixes, c \in Conditions :
        LET at == Len(p) + Len(c) + 1
        IN  /\ at \in DOMAIN words /\ IsPrefix(p \o c, words)
            /\ \E d \in {b.dataset, b.path} : IsPrefix(d, Parts(words[at]))

\* validateSpannerExternalDatasetRelationRoles: the first table that is no source, "" where nothing is wrong.
WrongRoles(text, b) ==
  {i \in DOMAIN b.tables : References(text, b, b.tables[i]) /\ ReferenceRole(text, b, b.tables[i]) # "select_source"}
BindingDiagnosis(text, b) ==
  CASE WrongRoles(text, b) # {} ->
         IF ReferenceRole(text, b, b.tables[Min(WrongRoles(text, b))]) = "dml_target"
         THEN "external-dataset-dml-target-unsupported" ELSE "external-dataset-metadata-target-unsupported"
    [] WrongRoles(text, b) = {} /\ MetadataTarget(text, b) -> "external-dataset-metadata-target-unsupported"
    [] OTHER -> ""
Diagnosis(text, bindings) ==
  LET found == {i \in DOMAIN bindings : BindingDiagnosis(text, bindings[i]) # ""}
  IN  IF found = {} THEN "" ELSE BindingDiagnosis(text, bindings[Min(found)])

-----------------------------------------------------------------------------
(* What the plan says *)

ReferencedTables(text, bindings) ==
  UNION {{i} \X {j \in DOMAIN bindings[i].tables :
                  bindings[i].tables[j].visible /\ References(text, bindings[i], bindings[i].tables[j])} : i \in DOMAIN bindings}
Provenance(t, column) == Append(t.name, column)
Relation(text, b, t) ==
  [path |-> FullName(b, t), role |-> ReferenceRole(text, b, t), omitted |-> {Provenance(t, c) : c \in t.omitted},
   affected |-> HasStar(text) /\ t.omitted # {}]
\* One for each path.
Relations(text, bindings) ==
  LET found == ReferencedTables(text, bindings)
      path(x) == FullName(bindings[x[1]], bindings[x[1]].tables[x[2]])
      first(x) == \A y \in found : path(y) = path(x) => x[1] < y[1] \/ (x[1] = y[1] /\ x[2] <= y[2])
  IN  {Relation(text, bindings[x[1]], bindings[x[1]].tables[x[2]]) : x \in {y \in found : first(y)}}

NoExpansion == [of |-> "sql", omitted |-> {}]
StarExpansion(text, bindings) ==
  LET tables == {bindings[ij[1]].tables[ij[2]] : ij \in ReferencedTables(text, bindings)}
  IN  IF ~HasStar(text) \/ tables = {} THEN NoExpansion
      ELSE [of |-> "external_dataset_projection", omitted |-> UNION {{Provenance(t, c) : c \in t.omitted} : t \in tables}]

\* Only queries have a schema; bound are the bindings of the query's catalog,
\* bindings those of all.
QueryAnalyzes(text, bound) ==
  /\ Diagnosis(text, bound) = ""
  /\ NormalText(text) # <<>> /\ NormalText(text)[1] \in {"select", "with", "paren"}
PlannedQuery(text, bindings) ==
  [relations |-> Relations(text, bindings), star |-> StarExpansion(text, bindings)]
=============================================================================
