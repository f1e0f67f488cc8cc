---------------------------- MODULE TableCatalog ----------------------------
(***************************************************************************)
(* The table half of the schema catalog that a DDL script builds: tables   *)
(* with their columns, primary key and synonyms, and the secondary indexes *)
(* over them (catalog.go).  One action is one DDL statement handed to      *)
(* Catalog.ApplyDDL; RENAME TABLE, which walks a list of pairs, takes one  *)
(* step per pair.  A handler that returns an error ends the build, as      *)
(* buildSchemaCatalog does: the catalog is dropped and nil is returned.    *)
(*                                                                         *)
(* Catalog keys are compared exactly (a Go map), while columns, synonyms,  *)
(* stored columns and the table an index names are compared ignoring case. *)
(* Identifiers are therefore taken from DOMAIN FoldOf, where FoldOf maps   *)
(* each spelling to its case class.                                        *)
(***************************************************************************)
EXTENDS Naturals, Sequences, FiniteSets, SequencesExt

CONSTANTS
  FoldOf,         \* identifier spelling -> case class (strings.EqualFold)
  Root,           \* the schema part of an unqualified name
  RowId,          \* the identifier of the generated hidden key column
  NoSynonym,      \* "no ADD SYNONYM clause"
  Types,          \* column types schemaTypeToTypeSpec accepts
  Int64,          \* the type of the generated key column
  Unsupported,    \* a type schemaTypeToTypeSpec rejects
  Exprs,          \* expressions of DEFAULT, ON UPDATE and generated columns
  NoExpr,         \* "no expression", the empty string in the code
  Builtins,       \* names of the INFORMATION_SCHEMA and SPANNER_SYS tables
  Vocabularies    \* what the statements of one script may say, see below

VARIABLES
  words,     \* the vocabulary of the script, fixed before its first statement
  tables,    \* Catalog.Tables: name -> table
  indexes,   \* Catalog.Indexes: name -> index
  created,   \* history: tables created so far; stamps each table's identity
  renames,   \* the pairs of the current RENAME TABLE still to be applied
  status     \* "applying", "built" or "failed"

tableVars == <<tables, indexes, created, renames, status>>

\* A script draws its statements from one vocabulary.
CreateNames   == words.createNames    \* names CREATE TABLE may use, <<schema, leaf>>
RefNames      == words.refNames       \* names statements may refer to a table by
RenameLeaves  == words.renameLeaves   \* leaf identifiers a rename may choose
Synonyms      == words.synonyms       \* synonym spellings
TableBodies   == words.tableBodies    \* bodies of CREATE TABLE: [columns, primaryKeys, synonyms]
AddedColumns  == words.addedColumns   \* column definitions of ADD COLUMN
ColumnNames   == words.columnNames    \* column spellings ALTER TABLE may refer to
Alterations   == words.alterations    \* ALTER COLUMN alterations
IndexNames    == words.indexNames     \* index keys
StoredColumns == words.storedColumns  \* column spellings STORING may name
MaxCreated    == words.maxCreated     \* bound: how many tables one script creates
MaxRenames    == words.maxRenames     \* bound: pairs in one RENAME TABLE statement

Idents == DOMAIN FoldOf
EqualFold(a, b) == FoldOf[a] = FoldOf[b]
EqualFoldName(m, n) == EqualFold(m[1], n[1]) /\ EqualFold(m[2], n[2])

\* Every name a table can get: by creation or by a rename.
TableNames == CreateNames \cup ({n[1] : n \in CreateNames} \cup {Root}) \X RenameLeaves

\* A column definition of the DDL text; its type may be one the code rejects.
\* Of its options allow_commit_timestamp alone is kept.
Definition == [name : Idents, type : Types \cup {Unsupported}, notNull : BOOLEAN, allowCommitTimestamp : BOOLEAN,
               hidden : BOOLEAN, primaryKey : BOOLEAN, default : Exprs \cup {NoExpr},
               onUpdate : Exprs \cup {NoExpr}, generated : Exprs \cup {NoExpr}]
Column == {d \in Definition : d.type \in Types}

FoldDistinct(cols) ==
  \A i, j \in DOMAIN cols : EqualFold(cols[i].name, cols[j].name) => i = j

\* What an ALTER COLUMN clause says, by its kind.
MaybeExpr  == Exprs \cup {NoExpr}
Alteration ==
  [kind : {"type"}, type : Types \cup {Unsupported}, notNull : BOOLEAN, default : MaybeExpr, onUpdate : MaybeExpr]
  \cup [kind : {"setDefault"}, default : MaybeExpr, onUpdate : MaybeExpr]
  \cup [kind : {"setOnUpdate"}, onUpdate : MaybeExpr]
  \cup [kind : {"dropDefault", "dropOnUpdate", "setOtherOptions"}]
  \cup [kind : {"setOptions"}, allowCommitTimestamp : BOOLEAN]

\* The CREATE TABLE and ADD COLUMN inputs are those Spanner itself accepts:
\* column names differ by more than case, a PRIMARY KEY clause names columns
\* of the table, and a column added later is not a key column.
ASSUME InputsAssumption ==
  /\ RowId \in Idents /\ Root \in Idents /\ Unsupported \notin Types /\ NoExpr \notin Exprs
  /\ Int64 \in Types /\ Exprs # {}
  /\ \A w \in Vocabularies :
       /\ w.columnNames \cup w.storedColumns \cup w.synonyms \subseteq Idents
       /\ w.createNames \cup w.refNames \subseteq Idents \X Idents /\ w.renameLeaves \subseteq Idents
       /\ NoSynonym \notin w.synonyms
       /\ \A b \in w.tableBodies :
            /\ b.columns \in Seq(Definition) /\ FoldDistinct(b.columns)
            /\ b.synonyms \subseteq w.synonyms /\ b.primaryKeys \subseteq Idents
            /\ \A k \in b.primaryKeys : \E i \in DOMAIN b.columns : EqualFold(b.columns[i].name, k)
       /\ \A d \in w.addedColumns : d \in Definition /\ ~d.primaryKey
       /\ w.alterations \subseteq Alteration
       /\ w.maxCreated \in Nat /\ w.maxRenames \in Nat

Keyed(f, k, v) == [x \in DOMAIN f \cup {k} |-> IF x = k THEN v ELSE f[x]]
Without(f, k)  == [x \in DOMAIN f \ {k} |-> f[x]]

Ready  == status = "applying" /\ renames = <<>>
\* The handler returns an error: buildSchemaCatalog returns nil and the error.
Reject == status' = "failed" /\ renames' = <<>> /\ UNCHANGED <<tables, indexes, created>>
\* The handler returns nil without a change (IF NOT EXISTS, silent DROP).
Ignore == UNCHANGED tableVars
PutTable(n, t) ==
  tables' = Keyed(tables, n, t) /\ UNCHANGED <<indexes, created, renames, status>>
PutIndex(i, x) ==
  indexes' = Keyed(indexes, i, x) /\ UNCHANGED <<tables, created, renames, status>>

-----------------------------------------------------------------------------
(* Columns *)

\* Table.Column: the position of the first column of that name, 0 for none.
ColumnIndex(cols, name) == SelectInSeq(cols, LAMBDA c : EqualFold(c.name, name))

\* Mutant of Representable: every type is taken.
RepresentableAnyType(def) == TRUE

\* columnFromDef fails on a type it cannot represent.
Representable(def) == def.type \in Types

HiddenRowId == [name |-> RowId, type |-> Int64, notNull |-> TRUE, hidden |-> TRUE,
                allowCommitTimestamp |-> FALSE, primaryKey |-> TRUE, default |-> NoExpr, onUpdate |-> NoExpr,
                generated |-> CHOOSE e \in Exprs : TRUE]

\* The key columns: those declared PRIMARY KEY in line, then the clause's.
BodyKeys(body) ==
  {body.columns[i].name : i \in {j \in DOMAIN body.columns : body.columns[j].primaryKey}}
    \cup body.primaryKeys

ColumnsOf(body) ==
  [i \in DOMAIN body.columns |->
    [body.columns[i] EXCEPT
       !.primaryKey = @ \/ \E k \in body.primaryKeys : ColumnIndex(body.columns, k) = i]]

NewTable(n, body) ==
  LET keyless == BodyKeys(body) = {}
  IN  [id         |-> created + 1,
       name       |-> n,
       columns    |-> IF keyless THEN Append(ColumnsOf(body), HiddenRowId) ELSE ColumnsOf(body),
       primaryKey |-> IF keyless THEN {RowId} ELSE BodyKeys(body),
       synonyms   |-> body.synonyms]

\* A keyless table gets a hidden rowid, so it may not define one itself.
BuildableBody(body) ==
  /\ \A i \in DOMAIN body.columns : Representable(body.columns[i])
  /\ BodyKeys(body) = {} => ColumnIndex(body.columns, RowId) = 0

\* applyColumnAlteration: the attributes an ALTER COLUMN clause rewrites.
Altered(col, alt) ==
  CASE alt.kind = "type" ->
         [col EXCEPT !.type = alt.type, !.notNull = alt.notNull,
                     !.default  = IF alt.default  = NoExpr THEN @ ELSE alt.default,
                     !.onUpdate = IF alt.onUpdate = NoExpr THEN @ ELSE alt.onUpdate]
    [] alt.kind = "setDefault" ->
         [col EXCEPT !.default = alt.default,
                     !.onUpdate = IF alt.onUpdate = NoExpr THEN @ ELSE alt.onUpdate]
    [] alt.kind = "dropDefault"  -> [col EXCEPT !.default = NoExpr]
    [] alt.kind = "setOnUpdate"  -> [col EXCEPT !.onUpdate = alt.onUpdate]
    [] alt.kind = "dropOnUpdate" -> [col EXCEPT !.onUpdate = NoExpr]
    [] alt.kind = "setOptions"   -> [col EXCEPT !.allowCommitTimestamp = alt.allowCommitTimestamp]
    [] alt.kind = "setOtherOptions" -> col

-----------------------------------------------------------------------------
(* CREATE TABLE, DROP TABLE and ALTER TABLE *)

CreateTable(n, ifNotExists, body) ==
  /\ Ready
  /\ \/ n \in DOMAIN tables /\ ifNotExists /\ Ignore
     \/ n \in DOMAIN tables /\ ~ifNotExists /\ Reject
     \/ n \notin DOMAIN tables /\ ~BuildableBody(body) /\ Reject
     \/ /\ n \notin DOMAIN tables /\ BuildableBody(body)
        /\ created < MaxCreated
        /\ tables' = Keyed(tables, n, NewTable(n, body))
        /\ created' = created + 1
        /\ UNCHANGED <<indexes, renames, status>>

\* DROP TABLE deletes the exact key and says nothing when there is none.
DropTable(n) ==
  /\ Ready
  /\ tables' = Without(tables, n)
  /\ UNCHANGED <<indexes, created, renames, status>>

\* ALTER TABLE of a table that is not there, or by an unsupported clause.
RejectAlterTable(n, supported) == Ready /\ (n \in DOMAIN tables => ~supported) /\ Reject

AddColumn(n, ifNotExists, def) ==
  /\ Ready /\ n \in DOMAIN tables
  /\ LET present == ColumnIndex(tables[n].columns, def.name) # 0
     IN  \/ present /\ ifNotExists /\ Ignore
         \/ present /\ ~ifNotExists /\ Reject
         \/ ~present /\ ~Representable(def) /\ Reject
         \/ /\ ~present /\ Representable(def)
            /\ PutTable(n, [tables[n] EXCEPT !.columns = Append(@, def)])

\* Mutant of DropColumn: the column stays in the primary key list.
DropColumnKeepsKey(n, c) ==
  /\ Ready /\ n \in DOMAIN tables
  /\ ColumnIndex(tables[n].columns, c) # 0
  /\ PutTable(n, [tables[n] EXCEPT !.columns = RemoveAt(@, ColumnIndex(@, c))])

DropColumn(n, c) ==
  /\ Ready /\ n \in DOMAIN tables
  /\ LET cols == tables[n].columns
         i    == ColumnIndex(cols, c)
     IN  \/ i = 0 /\ Reject
         \/ /\ i # 0
            /\ PutTable(n, [tables[n] EXCEPT
                 !.columns    = RemoveAt(cols, i),
                 !.primaryKey = {k \in @ : ~EqualFold(k, c)}])

AlterColumn(n, c, alt) ==
  /\ Ready /\ n \in DOMAIN tables
  /\ LET i == ColumnIndex(tables[n].columns, c)
     IN  \/ i = 0 /\ Reject
         \/ i # 0 /\ alt.kind = "type" /\ alt.type \notin Types /\ Reject
         \/ /\ i # 0 /\ (alt.kind = "type" => alt.type \in Types)
            /\ PutTable(n, [tables[n] EXCEPT !.columns[i] = Altered(@, alt)])

AddSynonym(n, s) ==
  /\ Ready /\ n \in DOMAIN tables
  /\ LET syns == tables[n].synonyms
     IN  \/ (\E t \in syns : EqualFold(t, s)) /\ Ignore
         \/ syns # {} /\ (\A t \in syns : ~EqualFold(t, s)) /\ Reject
         \/ syns = {} /\ PutTable(n, [tables[n] EXCEPT !.synonyms = {s}])

DropSynonym(n, s) ==
  /\ Ready /\ n \in DOMAIN tables
  /\ LET hits == {t \in tables[n].synonyms : EqualFold(t, s)}
     IN  \/ hits = {} /\ Reject
         \/ \E t \in hits : PutTable(n, [tables[n] EXCEPT !.synonyms = @ \ {t}])

-----------------------------------------------------------------------------
(* ALTER TABLE ... RENAME TO and RENAME TABLE *)

\* Mutant of RenamedTable: the table moves but keeps its old Name.
RenamedTableKeepsName(old, new, syn) == tables[old]

\* renameTable moves the table to its new key and re-points the indexes that
\* name it; an ADD SYNONYM clause replaces every synonym of the table.
RenamedTable(old, new, syn) ==
  [tables[old] EXCEPT !.name = new, !.synonyms = IF syn = NoSynonym THEN @ ELSE {syn}]
RenamedTables(old, new, syn) == Keyed(Without(tables, old), new, RenamedTable(old, new, syn))

\* Mutant of RepointedIndexes: a rename leaves the indexes alone.
RepointedIndexesNone(old, new) == indexes

RepointedIndexes(old, new) ==
  [i \in DOMAIN indexes |->
     IF old # new /\ EqualFoldName(indexes[i].tableName, tables[old].name)
     THEN [indexes[i] EXCEPT !.tableName = new] ELSE indexes[i]]

\* Mutant of CanRename: the new name is not checked.
CanRenameOver(old, new) == old \in DOMAIN tables

CanRename(old, new) == old \in DOMAIN tables /\ (old = new \/ new \notin DOMAIN tables)

Rename(old, new, syn, rest) ==
  \/ ~CanRename(old, new) /\ Reject
  \/ /\ CanRename(old, new)
     /\ tables'  = RenamedTables(old, new, syn)
     /\ indexes' = RepointedIndexes(old, new)
     /\ renames' = rest
     /\ UNCHANGED <<created, status>>

\* renamedObjectName keeps the schema of the table and replaces the leaf.
RenameTo(n, leaf, syn) == Ready /\ n \in DOMAIN tables /\ Rename(n, <<n[1], leaf>>, syn, <<>>)

\* RENAME TABLE a TO b, ...: applyRenameTable takes unqualified identifiers and
\* applies the pairs in order, each on the result of the one before.
BeginRenameTable(pairs) ==
  /\ Ready
  /\ pairs # <<>>
  /\ renames' = pairs
  /\ UNCHANGED <<tables, indexes, created, status>>
ApplyRenamePair ==
  /\ status = "applying" /\ renames # <<>>
  /\ Rename(<<Root, Head(renames)[1]>>, <<Root, Head(renames)[2]>>, NoSynonym, Tail(renames))

-----------------------------------------------------------------------------
(* CREATE INDEX, ALTER INDEX and DROP INDEX *)

\* The table an index names is not looked up when the index is created.
CreateIndex(i, ifNotExists, ref, stored) ==
  /\ Ready
  /\ \/ i \in DOMAIN indexes /\ ifNotExists /\ Ignore
     \/ i \in DOMAIN indexes /\ ~ifNotExists /\ Reject
     \/ i \notin DOMAIN indexes /\ PutIndex(i, [tableName |-> ref, stored |-> stored])

\* ALTER INDEX of an index that is not there, or by an unsupported clause.
RejectAlterIndex(i, supported) == Ready /\ (i \in DOMAIN indexes => ~supported) /\ Reject

AddStoredColumn(i, c) ==
  /\ Ready /\ i \in DOMAIN indexes
  /\ \/ (\E s \in indexes[i].stored : EqualFold(s, c)) /\ Ignore
     \/ /\ \A s \in indexes[i].stored : ~EqualFold(s, c)
        /\ PutIndex(i, [indexes[i] EXCEPT !.stored = @ \cup {c}])

DropStoredColumn(i, c) ==
  /\ Ready /\ i \in DOMAIN indexes
  /\ PutIndex(i, [indexes[i] EXCEPT !.stored = {s \in @ : ~EqualFold(s, c)}])

DropIndex(i) ==
  /\ Ready
  /\ indexes' = Without(indexes, i)
  /\ UNCHANGED <<tables, created, renames, status>>

-----------------------------------------------------------------------------
TableInit ==
  /\ words \in Vocabularies
  /\ tables = <<>> /\ indexes = <<>>
  /\ created = 0 /\ renames = <<>> /\ status = "applying"

TableStatement ==
  \/ \E n \in CreateNames, ine \in BOOLEAN, b \in TableBodies : CreateTable(n, ine, b)
  \/ \E n \in RefNames :
       \/ DropTable(n)
       \/ \E supported \in BOOLEAN : RejectAlterTable(n, supported)
       \/ \E ine \in BOOLEAN, d \in AddedColumns : AddColumn(n, ine, d)
       \/ \E c \in ColumnNames : DropColumn(n, c) \/ \E a \in Alterations : AlterColumn(n, c, a)
       \/ \E s \in Synonyms : AddSynonym(n, s) \/ DropSynonym(n, s)
       \/ \E leaf \in RenameLeaves, s \in Synonyms \cup {NoSynonym} : RenameTo(n, leaf, s)
  \/ \E k \in 1..MaxRenames : \E pairs \in [1..k -> RenameLeaves \X RenameLeaves] :
       BeginRenameTable(pairs)
  \/ ApplyRenamePair

IndexStatement ==
  \E i \in IndexNames :
    \/ \E ine \in BOOLEAN, ref \in RefNames, st \in SUBSET StoredColumns : CreateIndex(i, ine, ref, st)
    \/ \E supported \in BOOLEAN : RejectAlterIndex(i, supported)
    \/ \E c \in StoredColumns : AddStoredColumn(i, c) \/ DropStoredColumn(i, c)
    \/ DropIndex(i)

\* The script has no statement left: the system tables are added, over
\* whatever a statement may have put under their names.
BuiltinTable(n) ==
  [id |-> 0, name |-> n, columns |-> <<>>, primaryKey |-> {}, synonyms |-> {}]
FinishBuild ==
  /\ Ready
  /\ tables' = [n \in DOMAIN tables \cup Builtins |->
                  IF n \in Builtins THEN BuiltinTable(n) ELSE tables[n]]
  /\ status' = "built"
  /\ UNCHANGED <<indexes, created, renames>>

TableNext == TableStatement \/ IndexStatement \/ FinishBuild

-----------------------------------------------------------------------------
(* Properties *)

\* catalogTable, as query generation looks up the table of an index: the exact
\* key first, else any table or synonym of that name ignoring case.
IndexTables(i) ==
  LET ref == indexes[i].tableName
  IN  IF ref \in DOMAIN tables THEN {tables[ref].id}
      ELSE {tables[n].id : n \in {m \in DOMAIN tables :
              \/ EqualFoldName(tables[m].name, ref)
              \/ ref[1] = Root /\ \E s \in tables[m].synonyms : EqualFold(s, ref[2])}}

TableIds == {tables[n].id : n \in DOMAIN tables}

TableType ==
  [id : 0..MaxCreated, name : TableNames \cup Builtins, columns : Seq(Column),
   primaryKey : SUBSET Idents, synonyms : SUBSET Synonyms]
IndexType == [tableName : RefNames \cup TableNames, stored : SUBSET StoredColumns]

\* Every value the handlers store is of the shape the Go structs declare; in
\* particular no column carries a type schemaTypeToTypeSpec rejects.
TableTypeOK ==
  /\ DOMAIN tables \subseteq TableNames \cup (IF status = "built" THEN Builtins ELSE {})
  /\ \A n \in DOMAIN tables : tables[n] \in TableType
  /\ DOMAIN indexes \subseteq IndexNames
  /\ \A i \in DOMAIN indexes : indexes[i] \in IndexType
  /\ created \in 0..MaxCreated
  /\ renames \in Seq(RenameLeaves \X RenameLeaves)
  /\ status \in {"applying", "built", "failed"}

\* A table sits under the key its own Name spells, whatever sequence of
\* creations and renames brought it there, and no two keys hold one table:
\* ALTER TABLE, the re-pointing of indexes and the analyzer catalog all go from
\* key to name or back on the strength of this.
TableIdentity ==
  /\ \A n \in DOMAIN tables : tables[n].name = n
  /\ \A m, n \in DOMAIN tables \ Builtins : tables[m].id = tables[n].id => m = n

\* The PrimaryKey flag of the columns and the PrimaryKey list of the table tell
\* the same story after any sequence of column changes: the analyzer takes the
\* key from the flags (addTable), graphs and generated writes from the list.
KeyFlagsAgree ==
  \A n \in DOMAIN tables :
    {FoldOf[k] : k \in tables[n].primaryKey} =
      {FoldOf[tables[n].columns[i].name] :
         i \in {j \in DOMAIN tables[n].columns : tables[n].columns[j].primaryKey}}

\* No two columns of a table differ in case alone: a column is looked up by the
\* first that matches, and what is dropped or altered must be the one meant.
ColumnsDistinct == \A n \in DOMAIN tables : FoldDistinct(tables[n].columns)

\* What Spanner sees to and the catalog does not check: no two tables differ in
\* case alone, none has the name of a system table, and no index names a table
\* by a synonym.
NamesApart ==
  /\ \A m, n \in DOMAIN tables : EqualFoldName(m, n) => m = n
  /\ status = "applying" => DOMAIN tables \cap Builtins = {}
  /\ \A i \in DOMAIN indexes, n \in DOMAIN tables : \A s \in tables[n].synonyms :
       indexes[i].tableName[1] = Root => ~EqualFold(s, indexes[i].tableName[2])

\* It holds of every script over vocabularies that keep their names apart.
VocabulariesApart ==
  \A w \in Vocabularies :
    LET names == w.createNames \cup ({n[1] : n \in w.createNames} \cup {Root}) \X w.renameLeaves
    IN  /\ names \cap Builtins = {}
        /\ \A m, n \in names \cup Builtins : EqualFoldName(m, n) => m = n
        /\ \A n \in names \cup w.refNames, s \in w.synonyms : n[1] = Root => ~EqualFold(s, n[2])

\* A table leaves the catalog only by the DROP TABLE that names it: no rename,
\* swap of names or failed pair of a RENAME TABLE overwrites or loses one.
TablesOnlyDropped ==
  [][TableIds \subseteq TableIds' \/ \E n \in RefNames : DropTable(n)]_tableVars

\* An index that belongs to one table keeps belonging to it for as long as both
\* exist, through every rename of that table and of the others.
IndexesKeepTable ==
  [][\A i \in DOMAIN indexes \cap DOMAIN indexes', t \in TableIds' :
       IndexTables(i) = {t} => IndexTables(i)' = {t}]_tableVars
=============================================================================
