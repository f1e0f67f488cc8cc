--------------------------- MODULE ExternalDatasets ---------------------------
(* Names, and the requests to project a Spanner source into BigQuery: what     *)
(* bigquery.go reads from the arguments of AddSpannerExternalDataset before    *)
(* and while it builds the projection.                                        *)
EXTENDS Naturals, Sequences, SequencesExt

CONSTANTS Fold,   \* the case-folded form of every identifier
          None    \* no project; also the absence of a call or a stage

(* A name is a sequence of identifiers (more than one when it was written with *)
(* dots inside one pair of quotes); a path is a sequence of names.            *)
Idents == DOMAIN Fold
Names == Seq(Idents)
Paths == Seq(Names)
FoldName(name) == [i \in DOMAIN name |-> Fold[name[i]]]
FoldPath(path) == [i \in DOMAIN path |-> FoldName(path[i])]
Same(m, n) == FoldName(m) = FoldName(n)
Dotted(path) == FlattenSeq(path)

(* The dataset a request names: the project is the one the path carries, or   *)
(* the explicit one, or the default.                                          *)
ProjectOf(r) ==
    IF Len(r.dataset) = 2 THEN r.dataset[1]
    ELSE IF r.project # None THEN r.project ELSE r.defaultProject
RefPath(r) ==
    IF ProjectOf(r) = None THEN << <<Last(r.dataset)>> >>
    ELSE << <<ProjectOf(r)>>, <<Last(r.dataset)>> >>
AliasPath(r) == << <<Last(r.dataset)>> >>

(* What a request is made of: the tables are those of the Spanner catalog, by  *)
(* name, in the order of their keys.                                          *)
SourceTables == [name : Paths \ {<< >>}, columns : SUBSET [name : Idents, kind : STRING]]
RequestForms ==
    [dataset : Seq(Idents), project : Idents \cup {None}, defaultProject : Idents \cup {None},
     tables : Seq(SourceTables), unsupported : STRING, named : STRING, metadata : BOOLEAN]

BuiltIn(t) == Fold[t.name[1][1]] \in {"information_schema", "spanner_sys"}
InDefaultSchema(t) == Len(t.name) = 1
DefaultTables(r) == {t \in ToSet(r.tables) : ~BuiltIn(t) /\ InDefaultSchema(t)}
VisibleColumns(t) == {c.name : c \in {d \in t.columns : d.kind = "visible"}}
ColumnsCollide(t) ==
    \E c, d \in VisibleColumns(t) : c # d /\ Fold[c] = Fold[d]

(* The request on its own: a readable dataset path, no two projects, accepted *)
(* metadata, and no two tables that differ only in case.                      *)
WellFormed(r) ==
    /\ Len(r.dataset) \in 1 .. 2
    /\ Len(r.dataset) = 2 /\ r.project # None => r.project = r.dataset[1]
    /\ r.metadata
    /\ \A s, t \in DefaultTables(r) : Same(s.name[1], t.name[1]) => s = t

FullPath(r, t) == Append(RefPath(r), t.name[1])
ShortPath(r, t) == Append(AliasPath(r), t.name[1])
Projection(r, t) == [full |-> FullPath(r, t), columns |-> VisibleColumns(t)]

(* Every place a table must be found in: its path, the dotted form of the     *)
(* path as one quoted name, and both again without the project.               *)
Entries(r) ==
    UNION {LET paths == {FullPath(r, t), ShortPath(r, t)}
           IN  {[in |-> FoldPath(Front(p)), name |-> FoldName(Last(p)), table |-> Projection(r, t)] : p \in paths}
               \cup {[in |-> << >>, name |-> FoldName(Dotted(p)), table |-> Projection(r, t)] : p \in paths}
           : t \in DefaultTables(r)}
==============================================================================
