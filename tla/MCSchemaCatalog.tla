-------------------------- MODULE MCSchemaCatalog ---------------------------
(***************************************************************************)
(* Instances of SchemaCatalog for TLC: four vocabularies of DDL scripts,   *)
(* one for tables with their renames and indexes, one for columns, one for *)
(* the options of columns, one for the other objects.                      *)
(***************************************************************************)
EXTENDS SchemaCatalog, TLC

CONSTANTS q1, q2, g, s, m, f, p1

\* "t" is another spelling of "T", "X" of "x"; "sys" is a system schema.
MCFoldOf ==
  [i \in {"", "s", "sys", "T", "t", "U", "V", "W", "Z", "x", "X", "y", "rowid", "syn", "SYN", "alias"} |->
     CASE i = "T" -> "t" [] i = "X" -> "x" [] i = "SYN" -> "syn" [] OTHER -> i]

Plain(name, key) ==
  [name |-> name, type |-> "INT64", notNull |-> key, hidden |-> FALSE, primaryKey |-> key,
   allowCommitTimestamp |-> FALSE, default |-> "", onUpdate |-> "", generated |-> ""]
Body(cols, keys, syns) == [columns |-> cols, primaryKeys |-> keys, synonyms |-> syns]

\* Tables, renames and indexes: the columns do not matter.
NamesBodies == {Body(<<Plain("x", TRUE)>>, {}, {})}
NamesCreate == {<<"", "T">>, <<"", "U">>, <<"s", "T">>}
NamesRef    == {<<"", "T">>, <<"", "t">>, <<"", "U">>, <<"s", "T">>}

\* One table and everything that happens to its columns and its index: an in-line key, a
\* PRIMARY KEY clause in another spelling, no key, a user rowid, a bad type.
BadType(name) == [Plain(name, FALSE) EXCEPT !.type = "TIME"]
ColumnBodies ==
  { Body(<<Plain("x", TRUE), Plain("y", FALSE)>>, {}, {"syn"}),
    Body(<<Plain("x", FALSE), Plain("y", FALSE)>>, {"X"}, {}),
    Body(<<Plain("x", FALSE)>>, {}, {}),
    Body(<<Plain("rowid", FALSE)>>, {}, {}),
    Body(<<BadType("x")>>, {}, {}) }
ColumnAdds == {Plain("x", FALSE), BadType("y"), Plain("rowid", FALSE)}
ColumnAlts ==
  { [kind |-> "type", type |-> "INT64", notNull |-> TRUE, default |-> "e", onUpdate |-> ""],
    [kind |-> "type", type |-> "TIME", notNull |-> TRUE, default |-> "", onUpdate |-> ""],
    [kind |-> "setDefault", default |-> "e", onUpdate |-> "e"],
    [kind |-> "setDefault", default |-> "e", onUpdate |-> ""],
    [kind |-> "dropDefault"], [kind |-> "setOnUpdate", onUpdate |-> "e"],
    [kind |-> "dropOnUpdate"] }
OptionAlts ==
  [kind : {"setOptions"}, allowCommitTimestamp : BOOLEAN] \cup [kind : {"setOtherOptions"}]
    \cup {alt \in ColumnAlts : alt.kind \in {"type", "dropDefault"}}
ColumnsCreate == {<<"", "T">>}
SysNames == {<<"sys", "T">>}
NoWords ==
  [createNames |-> {}, refNames |-> {}, renameLeaves |-> {"T"}, synonyms |-> {},
   tableBodies |-> {}, addedColumns |-> {}, columnNames |-> {}, alterations |-> {},
   indexNames |-> {}, storedColumns |-> {}, maxCreated |-> 1, maxRenames |-> 1,
   viewNames |-> {}, queries |-> {}, graphNames |-> {}, sequenceNames |-> {},
   modelNames |-> {}, functionNames |-> {}, protoNames |-> {}]
NamesWords ==
  [NoWords EXCEPT !.createNames = NamesCreate, !.refNames = NamesRef,
     !.renameLeaves = {"T", "U", "V"}, !.synonyms = {"syn"}, !.tableBodies = NamesBodies,
     !.indexNames = {"i"}, !.maxCreated = 3, !.maxRenames = 2]
ColumnWords ==
  [NoWords EXCEPT !.createNames = ColumnsCreate, !.refNames = ColumnsCreate,
     !.synonyms = {"syn", "SYN", "alias"}, !.tableBodies = ColumnBodies,
     !.addedColumns = ColumnAdds, !.columnNames = {"x", "X", "rowid"},
     !.alterations = ColumnAlts, !.indexNames = {"i"}, !.storedColumns = {"x"}, !.maxCreated = 2]
\* Options of columns next to the other alterations.
OptionWords ==
  [NoWords EXCEPT !.createNames = ColumnsCreate, !.refNames = ColumnsCreate,
     !.tableBodies = {b \in ColumnBodies : b.synonyms = {}}, !.addedColumns = {[Plain("x", FALSE) EXCEPT !.allowCommitTimestamp = TRUE]},
     !.columnNames = {"x", "X", "rowid"}, !.alterations = OptionAlts]
\* Views V, W and Z next to a table T.
ObjectWords ==
  [NoWords EXCEPT !.createNames = ColumnsCreate, !.refNames = ColumnsCreate,
     !.tableBodies = {Body(<<Plain("x", TRUE)>>, {}, {})},
     !.viewNames = {<<"", "V">>, <<"", "W">>, <<"", "Z">>}, !.queries = {q1, q2},
     !.graphNames = {g}, !.sequenceNames = {s}, !.modelNames = {m},
     !.functionNames = {f}, !.protoNames = {p1}]
MCVocabularies == {NamesWords, ColumnWords, OptionWords, ObjectWords}

\* The hypothesis of the theorems about names holds of these scripts.
ASSUME NamesAreApart == VocabulariesApart
=============================================================================
