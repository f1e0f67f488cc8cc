----------------------------- MODULE ExternalQuery -----------------------------
(* EXTERNAL_QUERY in BigQuery statements (bigquery.go and                      *)
(* bigquery_external_query.go).  The table-valued function is registered once *)
(* per catalog and answers from row types that the analyzer prepared there    *)
(* before it started the native analysis; several analyzers may wrap one      *)
(* catalog.  One goroutine at a time uses a catalog: the prepared row types   *)
(* are an unguarded Go map.                                                   *)
EXTENDS Naturals, Sequences

CONSTANTS Analyzers,    \* BigQuery analyzers wrapping one catalog
          Connections,  \* connection IDs
          Queries,      \* inner Spanner statements
          Sources,      \* Spanner analyzers
          RowTypes,     \* Spanner row types
          RowTypeOf,    \* RowTypeForStatement: source |-> query |-> row type, or Missing
          Texts,        \* the texts that are analyzed, by the calls they hold
          Missing          \* no Spanner analyzer, no row type

(* A call is <<connection, query>>, or Malformed: a third argument, or one    *)
(* that is no string literal.                                                 *)
Malformed == <<Missing, Missing>>
Calls == (Connections \X Queries) \cup {Malformed}

ASSUME CallAssumption ==
    /\ Texts \subseteq Seq(Calls)
    /\ Missing \notin Connections \cup Queries \cup Sources \cup RowTypes
    /\ RowTypeOf \in [Sources -> [Queries -> RowTypes \cup {Missing}]]

VARIABLES live,      \* analyzers made so far
          own,       \* each analyzer's externalQueryAnalyzers
          shared,    \* the catalog's externalQueryAnalyzers
          prepared,  \* externalQueryRowTypes
          pc,        \* "idle", "prepare" or "analyze"
          caller,    \* the analyzer whose call is running
          text,      \* the calls of the text being analyzed
          next,      \* index of the call to prepare next
          answer     \* what the last analysis returned

queryVars == <<live, own, shared, prepared, pc, caller, text, next, answer>>

Unset == [c \in Connections |-> Missing]
Nothing == [k \in Connections \X Queries |-> Missing]
Failure(why) == [kind |-> why, by |-> Missing, text |-> << >>, types |-> << >>]
NoAnswer == Failure("none")

(* externalQueryAnalyzerForConnection. *)
SourceFor(a, connection) ==
    IF own[a][connection] # Missing THEN own[a][connection] ELSE shared[connection]
(* externalQueryRowType; Missing where it returns an error. *)
RowTypeFor(a, call) ==
    IF call = Malformed \/ SourceFor(a, call[1]) = Missing THEN Missing
    ELSE RowTypeOf[SourceFor(a, call[1])][call[2]]

QueryInit ==
    /\ live = {} /\ own = [a \in Analyzers |-> Unset] /\ shared = Unset
    /\ prepared = Nothing
    /\ pc = "idle" /\ caller = Missing /\ text = << >> /\ next = 1
    /\ answer = NoAnswer
------------------------------------------------------------------------------
NewAnalyzer(a) ==
    /\ pc = "idle" /\ a \notin live
    /\ live' = live \cup {a}
    /\ UNCHANGED <<own, shared, prepared, pc, caller, text, next, answer>>

SetExternalQueryAnalyzers(a, sources) ==
    /\ pc = "idle" /\ a \in live
    /\ own' = [own EXCEPT ![a] = sources]
    /\ shared' = sources
    /\ UNCHANGED <<live, prepared, pc, caller, text, next, answer>>

(* The checks of analyzeStatement that precede the preparation may refuse the *)
(* text; a text that cannot be scanned for calls is refused there too.        *)
RefuseText(a) ==
    /\ pc = "idle" /\ a \in live
    /\ answer' = Failure("refused")
    /\ UNCHANGED <<live, own, shared, prepared, pc, caller, text, next>>

(* Mutant of BeginStatement: the position in the calls is not reset. *)
BeginStatementResumes(a, t) ==
    /\ pc = "idle" /\ a \in live
    /\ pc' = "prepare" /\ caller' = a /\ text' = t
    /\ answer' = NoAnswer
    /\ UNCHANGED <<live, own, shared, prepared, next>>

BeginStatement(a, t) ==
    /\ pc = "idle" /\ a \in live
    /\ pc' = "prepare" /\ caller' = a /\ text' = t /\ next' = 1
    /\ answer' = NoAnswer
    /\ UNCHANGED <<live, own, shared, prepared>>

(* Mutant of PrepareCall: a row type that is there already is not asked for   *)
(* again.                                                                     *)
PrepareCallOnce ==
    /\ pc = "prepare" /\ next <= Len(text)
    /\ RowTypeFor(caller, text[next]) # Missing
    /\ prepared' = IF prepared[text[next]] # Missing THEN prepared
                   ELSE [prepared EXCEPT ![text[next]] = RowTypeFor(caller, text[next])]
    /\ next' = next + 1
    /\ UNCHANGED <<live, own, shared, pc, caller, text, answer>>

PrepareCall ==
    /\ pc = "prepare" /\ next <= Len(text)
    /\ RowTypeFor(caller, text[next]) # Missing
    /\ prepared' = [prepared EXCEPT ![text[next]] = RowTypeFor(caller, text[next])]
    /\ next' = next + 1
    /\ UNCHANGED <<live, own, shared, pc, caller, text, answer>>

(* The error returns before the deferred clearing is set up. *)
PrepareFails ==
    /\ pc = "prepare" /\ next <= Len(text)
    /\ RowTypeFor(caller, text[next]) = Missing
    /\ pc' = "idle" /\ answer' = Failure("preparation")
    /\ UNCHANGED <<live, own, shared, prepared, caller, text, next>>

(* Mutant of Prepared: the clearing runs when the preparation returns. *)
PreparedTooShort ==
    /\ pc = "prepare" /\ next > Len(text)
    /\ pc' = "analyze" /\ prepared' = Nothing
    /\ UNCHANGED <<live, own, shared, caller, text, next, answer>>

Prepared ==
    /\ pc = "prepare" /\ next > Len(text)
    /\ pc' = "analyze"
    /\ UNCHANGED <<live, own, shared, prepared, caller, text, next, answer>>

(* findRowType, for every call the native analysis resolves. *)
Unprepared(t) == \E i \in DOMAIN t : t[i] = Malformed \/ prepared[t[i]] = Missing
Answered(kind, a, t) ==
    IF Unprepared(t) THEN Failure("unprepared")
    ELSE [kind |-> kind, by |-> a, text |-> t, types |-> [i \in DOMAIN t |-> prepared[t[i]]]]

(* The native analysis may fail for reasons of its own; either way the        *)
(* prepared row types are cleared.                                            *)
AnalyzeStatement ==
    /\ pc = "analyze"
    /\ answer' \in {Answered("statement", caller, text), Failure("analysis")}
    /\ prepared' = Nothing
    /\ pc' = "idle"
    /\ UNCHANGED <<live, own, shared, caller, text, next>>

(* TableSchemaForExpression, and ResolvedASTDebugString of an expression: the *)
(* analysis runs on what is prepared, and nothing is prepared for it.         *)
AnalyzeExpression(a, t) ==
    /\ pc = "idle" /\ a \in live
    /\ answer' \in {Answered("expression", a, t), Failure("analysis")}
    /\ UNCHANGED <<live, own, shared, prepared, pc, caller, text, next>>

QueryNext ==
    \/ \E a \in Analyzers : NewAnalyzer(a) \/ RefuseText(a)
    \/ \E a \in Analyzers, sources \in [Connections -> Sources \cup {Missing}] :
          SetExternalQueryAnalyzers(a, sources)
    \/ \E a \in Analyzers, t \in Texts : BeginStatement(a, t) \/ AnalyzeExpression(a, t)
    \/ PrepareCall \/ PrepareFails \/ Prepared \/ AnalyzeStatement

QuerySpec == QueryInit /\ [][QueryNext]_queryVars
------------------------------------------------------------------------------
(* Type invariant: shapes of the maps, of the program counter, of the answer. *)
QueryTypeOK ==
    /\ live \subseteq Analyzers
    /\ own \in [Analyzers -> [Connections -> Sources \cup {Missing}]]
    /\ shared \in [Connections -> Sources \cup {Missing}]
    /\ prepared \in [Connections \X Queries -> RowTypes \cup {Missing}]
    /\ pc \in {"idle", "prepare", "analyze"}
    /\ pc # "idle" => caller \in live
    /\ text \in Seq(Calls)
    /\ next \in 1 .. Len(text) + 1

(* The calls before next are prepared, with the row types that the running    *)
(* call's analyzer infers for them, whatever an earlier call left behind.     *)
PreparedUpTo(n) ==
    \A i \in DOMAIN text : i < n => text[i] # Malformed
                                   /\ prepared[text[i]] = RowTypeFor(caller, text[i])
                                   /\ prepared[text[i]] # Missing
PreparationInv ==
    /\ pc = "prepare" => PreparedUpTo(next)
    /\ pc = "analyze" => PreparedUpTo(Len(text) + 1)
QueryInv == QueryTypeOK /\ PreparationInv

(* The schema of a statement is built from the row types that the analyzer's  *)
(* configuration gives for its calls at that moment: never from what an       *)
(* earlier statement, another analyzer or an earlier configuration left in    *)
(* the catalog.                                                               *)
StatementTypesAreCurrent ==
    [][pc = "analyze" /\ answer'.kind = "statement" =>
         answer'.types = [i \in DOMAIN text |-> RowTypeFor(caller, text[i])]]_queryVars

(* No statement that was prepared fails for want of a row type.               *)
StatementsAreFullyPrepared == [][pc = "analyze" => answer'.kind # "unprepared"]_queryVars

(* README.md: EXTERNAL_QUERY "returns the row type inferred from the inner     *)
(* Spanner query using the connection-specific Spanner catalog".              *)
ExpressionTypesAreCurrent ==
    [][answer' # answer /\ answer'.kind = "expression" =>
         \A i \in DOMAIN answer'.text :
            answer'.types[i] = RowTypeFor(answer'.by, answer'.text[i])]_queryVars

\* A statement is analyzed with the row types of its own calls, all of them and
\* none of anybody else's, however many failed before it.
StatementsUseOwnTypes == StatementTypesAreCurrent /\ StatementsAreFullyPrepared
==============================================================================
