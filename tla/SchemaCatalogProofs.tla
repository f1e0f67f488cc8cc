------------------------- MODULE SchemaCatalogProofs -------------------------
(***************************************************************************)
(* Proofs about SchemaCatalog, for any script over any vocabulary: views    *)
(* and their order list the same names, a table sits under its own name and *)
(* nowhere else, every part has its type with keys told twice alike, and no *)
(* statement moves what it does not name.                                   *)
(***************************************************************************)
EXTENDS SchemaCatalog, SequenceTheorems, TLAPS

\* A part of a sequence, by its bounds.
LEMMA Piece ==
  ASSUME NEW S, NEW s, NEW m \in Nat \ {0}, NEW n \in Nat, m <= n + 1, \A i \in m..n : s[i] \in S
  PROVE  /\ SubSeq(s, m, n) \in Seq(S) /\ Len(SubSeq(s, m, n)) = n - m + 1
         /\ \A i \in 1..(n - m + 1) : SubSeq(s, m, n)[i] = s[m + i - 1]
  OBVIOUS

\* Removing the k-th element moves those behind it one place forward.
LEMMA RemovedAt ==
  ASSUME NEW S, NEW s \in Seq(S), NEW k \in 1..Len(s)
  PROVE  /\ RemoveAt(s, k) \in Seq(S) /\ DOMAIN RemoveAt(s, k) = 1..(Len(s) - 1)
         /\ \A i \in 1..(Len(s) - 1) : RemoveAt(s, k)[i] = IF i < k THEN s[i] ELSE s[i + 1]
<1>0. Len(s) \in Nat /\ k \in Nat /\ k >= 1 /\ k <= Len(s) /\ \A i \in 1..Len(s) : s[i] \in S
  OBVIOUS
<1>1. PICK x \in Seq(S) : /\ x = SubSeq(s, 1, k - 1) /\ Len(x) = k - 1
                          /\ \A i \in 1..(k - 1) : x[i] = s[i]
  <2> DEFINE n == k - 1
  <2>1. n \in Nat /\ 1 <= n + 1 /\ \A i \in 1..n : s[i] \in S
    BY <1>0
  <2> HIDE DEF n
  <2>2. /\ SubSeq(s, 1, n) \in Seq(S) /\ Len(SubSeq(s, 1, n)) = n - 1 + 1
        /\ \A i \in 1..(n - 1 + 1) : SubSeq(s, 1, n)[i] = s[1 + i - 1]
    BY <2>1, Piece
  <2>3. /\ SubSeq(s, 1, k - 1) \in Seq(S) /\ Len(SubSeq(s, 1, k - 1)) = k - 1
        /\ \A i \in 1..(k - 1) : SubSeq(s, 1, k - 1)[i] = s[i]
    BY <2>1, <2>2 DEF n
  <2> QED BY <2>3, Zenon
<1>2. PICK y \in Seq(S) : /\ y = SubSeq(s, k + 1, Len(s)) /\ Len(y) = Len(s) - k
                          /\ \A i \in 1..(Len(s) - k) : y[i] = s[k + i]
  <2> DEFINE j == k + 1  n == Len(s)
  <2>1. j \in Nat \ {0} /\ n \in Nat /\ j <= n + 1 /\ \A i \in j..n : s[i] \in S
    BY <1>0
  <2> HIDE DEF j, n
  <2>2. /\ SubSeq(s, j, n) \in Seq(S) /\ Len(SubSeq(s, j, n)) = n - j + 1
        /\ \A i \in 1..(n - j + 1) : SubSeq(s, j, n)[i] = s[j + i - 1]
    BY <2>1, Piece
  <2>3. n - j + 1 = Len(s) - k /\ \A i \in 1..(Len(s) - k) : j + i - 1 = k + i
    BY <1>0 DEF j, n
  <2>4. /\ SubSeq(s, k + 1, Len(s)) \in Seq(S) /\ Len(SubSeq(s, k + 1, Len(s))) = Len(s) - k
        /\ \A i \in 1..(Len(s) - k) : SubSeq(s, k + 1, Len(s))[i] = s[k + i]
    BY <2>2, <2>3 DEF j, n
  <2> QED BY <2>4, Zenon
<1>3. RemoveAt(s, k) = x \o y
  BY <1>1, <1>2 DEF RemoveAt
<1>4. /\ x \o y \in Seq(S) /\ Len(x \o y) = Len(x) + Len(y)
      /\ \A i \in 1..(Len(x) + Len(y)) : (x \o y)[i] = IF i <= Len(x) THEN x[i] ELSE y[i - Len(x)]
  BY ConcatProperties
<1> DEFINE r == x \o y
<1>5. /\ r \in Seq(S) /\ Len(r) = Len(x) + Len(y)
      /\ \A i \in 1..(Len(x) + Len(y)) : r[i] = IF i <= Len(x) THEN x[i] ELSE y[i - Len(x)]
  BY <1>4
<1>6. RemoveAt(s, k) = r
  BY <1>3
<1> HIDE DEF r
<1>7. Len(x) + Len(y) = Len(s) - 1
  <2>1. Len(x) = k - 1 /\ Len(y) = Len(s) - k
    BY <1>1, <1>2, Zenon
  <2>2. (k - 1) + (Len(s) - k) = Len(s) - 1
    BY <1>0
  <2> QED BY <2>1, <2>2, Zenon
<1>8. DOMAIN r = 1..(Len(s) - 1)
  <2>1. DOMAIN r = 1..Len(r)
    BY <1>5
  <2> QED BY <2>1, <1>5, <1>7
<1>9. \A i \in 1..(Len(s) - 1) : r[i] = IF i <= k - 1 THEN x[i] ELSE y[i - (k - 1)]
  <2>1. Len(x) = k - 1
    BY <1>1
  <2> QED BY <2>1, <1>5, <1>7
<1>10. ASSUME NEW i \in 1..(Len(s) - 1) PROVE r[i] = IF i < k THEN s[i] ELSE s[i + 1]
  <2>1. CASE i < k
    <3>1. x[i] = s[i]
      BY <2>1, <1>0, <1>1
    <3>2. r[i] = x[i]
      BY <2>1, <1>0, <1>9
    <3> QED BY <2>1, <3>1, <3>2
  <2>2. CASE i >= k
    <3>1. i - (k - 1) \in 1..(Len(s) - k) /\ k + (i - (k - 1)) = i + 1
      BY <2>2, <1>0
    <3>2. y[i - (k - 1)] = s[i + 1]
      BY <3>1, <1>2
    <3>3. r[i] = y[i - (k - 1)]
      BY <2>2, <1>0, <1>9
    <3> QED BY <2>2, <3>2, <3>3, <1>0
  <2> QED BY <2>1, <2>2, <1>0
<1> QED BY <1>6, <1>5, <1>8, <1>10

\* What occurs once is removed where it occurs.
LEMMA RemoveFirstAt ==
  ASSUME NEW s, NEW k \in 1..Len(s), \A i, j \in 1..Len(s) : s[i] = s[j] => i = j
  PROVE  RemoveFirst(s, s[k]) = RemoveAt(s, k)
<1> DEFINE e == s[k]
           I == {i \in 1..Len(s) : s[i] = e}
<1>1. I = {k}
  OBVIOUS
<1>2. Min(I) = k
  <2> HIDE DEF I
  <2> QED BY <1>1 DEF Min
<1>3. SelectInSeq(s, LAMBDA v : v = e) = IF I # {} THEN Min(I) ELSE 0
  BY DEF SelectInSeq
<1>4. RemoveFirst(s, e) = RemoveAt(s, SelectInSeq(s, LAMBDA v : v = e))
  BY DEF RemoveFirst
<1> QED BY <1>1, <1>2, <1>3, <1>4

\* Removing a name from a list without repetitions removes that name only.
LEMMA RemoveFirstOnce ==
  ASSUME NEW S, NEW s \in Seq(S), NEW e,
         \A i, j \in DOMAIN s : s[i] = s[j] => i = j
  PROVE  /\ RemoveFirst(s, e) \in Seq(S)
         /\ Range(RemoveFirst(s, e)) = Range(s) \ {e}
         /\ \A i, j \in DOMAIN RemoveFirst(s, e) : RemoveFirst(s, e)[i] = RemoveFirst(s, e)[j] => i = j
<1>0. Len(s) \in Nat /\ DOMAIN s = 1..Len(s)
  OBVIOUS
<1>1. CASE ~\E i \in 1..Len(s) : s[i] = e
  <2>1. RemoveFirst(s, e) = s
    BY <1>1 DEF RemoveFirst
  <2>2. e \notin Range(s)
    BY <1>0, <1>1 DEF Range
  <2> QED BY <2>1, <2>2
<1>2. CASE \E i \in 1..Len(s) : s[i] = e
  <2>1. PICK k \in 1..Len(s) : s[k] = e
    BY <1>2
  <2> DEFINE r == RemoveAt(s, k)
  <2>4. RemoveFirst(s, e) = r
    BY <1>0, <2>1, RemoveFirstAt
  <2>5. /\ r \in Seq(S) /\ DOMAIN r = 1..(Len(s) - 1)
        /\ \A i \in 1..(Len(s) - 1) : r[i] = IF i < k THEN s[i] ELSE s[i + 1]
    BY RemovedAt
  <2> HIDE DEF r
  <2>6. \A i, j \in DOMAIN r : r[i] = r[j] => i = j
    <3> DEFINE from(i) == IF i < k THEN i ELSE i + 1
    <3>1. \A i \in DOMAIN r : from(i) \in DOMAIN s /\ r[i] = s[from(i)]
      BY <1>0, <2>1, <2>5
    <3>2. \A i, j \in DOMAIN r : from(i) = from(j) => i = j
      BY <1>0, <2>1, <2>5
    <3> HIDE DEF from
    <3> QED BY <3>1, <3>2
  <2>7. Range(r) = Range(s) \ {e}
    <3>1. ASSUME NEW i \in DOMAIN r PROVE r[i] \in Range(s) \ {e}
      BY <1>0, <2>1, <2>5 DEF Range
    <3>2. ASSUME NEW i \in DOMAIN s, s[i] # e PROVE s[i] \in Range(r)
      <4>1. CASE i < k
        BY <1>0, <2>1, <2>5, <4>1 DEF Range
      <4>2. CASE i > k
        <5>1. i - 1 \in DOMAIN r /\ r[i - 1] = s[i]
          BY <1>0, <2>1, <2>5, <4>2
        <5> QED BY <5>1 DEF Range
      <4>3. i # k
        BY <3>2, <2>1
      <4> QED BY <1>0, <2>1, <4>1, <4>2, <4>3
    <3> QED BY <3>1, <3>2 DEF Range
  <2> QED BY <2>4, <2>5, <2>6, <2>7
<1> QED BY <1>1, <1>2

-----------------------------------------------------------------------------
(* Views *)

ViewInv == viewOrder \in Seq(ViewNames) /\ ViewOrderListsViews

LEMMA CreateViewInv ==
  ASSUME ViewInv, UNCHANGED words, NEW n \in ViewNames, NEW orReplace, NEW q, CreateView(n, orReplace, q)
  PROVE  ViewInv'
<1>0. ViewNames' = ViewNames
  BY DEF ViewNames
<1>1. CASE UNCHANGED viewVars
  BY <1>0, <1>1 DEF ViewInv, ViewOrderListsViews, viewVars
<1>2. CASE /\ views' = Keyed(views, n, q)
           /\ viewOrder' = IF n \in DOMAIN views THEN viewOrder ELSE Append(viewOrder, n)
  <2>1. DOMAIN views' = DOMAIN views \cup {n}
    BY <1>2 DEF Keyed
  <2>2. CASE n \in DOMAIN views
    BY <1>0, <1>2, <2>1, <2>2 DEF ViewInv, ViewOrderListsViews
  <2>3. CASE n \notin DOMAIN views
    <3>1. /\ Len(viewOrder) \in Nat /\ DOMAIN viewOrder = 1..Len(viewOrder)
          /\ viewOrder' \in Seq(ViewNames) /\ DOMAIN viewOrder' = 1..(Len(viewOrder) + 1)
          /\ \A i \in 1..(Len(viewOrder) + 1) :
               viewOrder'[i] = IF i = Len(viewOrder) + 1 THEN n ELSE viewOrder[i]
      BY <1>2, <2>3 DEF ViewInv
    <3>2. n \notin Range(viewOrder)
      BY <2>3 DEF ViewInv, ViewOrderListsViews
    <3>3. Range(viewOrder') = Range(viewOrder) \cup {n}
      BY <3>1 DEF Range
    <3>4. \A i, j \in DOMAIN viewOrder' : viewOrder'[i] = viewOrder'[j] => i = j
      BY <3>1, <3>2 DEF ViewInv, ViewOrderListsViews, Range
    <3> QED BY <1>0, <2>1, <3>1, <3>3, <3>4 DEF ViewInv, ViewOrderListsViews
  <2> QED BY <2>2, <2>3
<1> QED BY <1>1, <1>2 DEF CreateView

LEMMA DropViewInv ==
  ASSUME ViewInv, UNCHANGED words, NEW n \in ViewNames, DropView(n) PROVE ViewInv'
<1>1. viewOrder' = RemoveFirst(viewOrder, n) /\ DOMAIN views' = DOMAIN views \ {n}
  BY DEF DropView, Without
<1>2. /\ RemoveFirst(viewOrder, n) \in Seq(ViewNames)
      /\ Range(RemoveFirst(viewOrder, n)) = Range(viewOrder) \ {n}
      /\ \A i, j \in DOMAIN RemoveFirst(viewOrder, n) :
           RemoveFirst(viewOrder, n)[i] = RemoveFirst(viewOrder, n)[j] => i = j
  BY RemoveFirstOnce DEF ViewInv, ViewOrderListsViews
<1>3. ViewNames' = ViewNames
  BY DEF ViewNames
<1> QED BY <1>1, <1>2, <1>3 DEF ViewInv, ViewOrderListsViews

LEMMA ViewsInit == Init => ViewInv
  BY DEF Init, ViewInv, ViewOrderListsViews, Range

LEMMA ViewsStep == ViewInv /\ [Next]_vars => ViewInv'
<1> SUFFICES ASSUME ViewInv, [Next]_vars PROVE ViewInv'
  OBVIOUS
<1>1. CASE UNCHANGED words /\ UNCHANGED viewVars
  BY <1>1 DEF ViewInv, ViewOrderListsViews, viewVars, ViewNames
<1>2. CASE UNCHANGED words /\ ViewStatement
  BY <1>2, CreateViewInv, DropViewInv DEF ViewStatement
<1>3. ObjectStatement => UNCHANGED viewVars
  BY DEF ObjectStatement, CreatePropertyGraph, DropPropertyGraph, CreateModel, DropModel, CreateFunction,
         DropFunction, CreateSequence, DropSequence, CreateProtoBundle, AlterProtoBundle, DropProtoBundle,
         SetBundle
<1> QED BY <1>1, <1>2, <1>3 DEF Next, vars

\* ViewOrder lists every view once and nothing else, after any script.
THEOREM ViewsAreListed == Spec => []ViewOrderListsViews
<1>1. ViewInv => ViewOrderListsViews
  BY DEF ViewInv
<1> QED BY <1>1, ViewsInit, ViewsStep, PTL DEF Spec
-----------------------------------------------------------------------------
(* Tables *)

HasFields(t) == "id" \in DOMAIN t /\ "name" \in DOMAIN t
\* What the numbers of tables tell apart: all of them, until the system tables
\* come, over whatever was under their names.
Numbered == DOMAIN tables \ (IF status = "built" THEN Builtins ELSE {})

IdentityInv ==
  /\ created \in Nat
  /\ \A n \in DOMAIN tables : HasFields(tables[n]) /\ tables[n].name = n
  /\ \A n \in Numbered : tables[n].id \in Nat /\ tables[n].id <= created
  /\ \A m, n \in Numbered : tables[m].id = tables[n].id => m = n

\* A table replaced under its key, keeping name and number.
LEMMA PutTableIdentity ==
  ASSUME IdentityInv, NEW n \in DOMAIN tables, NEW t, HasFields(t),
         t.id = tables[n].id, t.name = tables[n].name, PutTable(n, t)
  PROVE  IdentityInv'
<1>1. DOMAIN tables' = DOMAIN tables /\ \A m \in DOMAIN tables : tables'[m] = IF m = n THEN t ELSE tables[m]
  BY DEF PutTable, Keyed
<1>2. Numbered' = Numbered /\ created' = created
  BY <1>1 DEF PutTable, Numbered
<1>3. \A m \in DOMAIN tables : tables'[m].id = tables[m].id /\ tables'[m].name = tables[m].name /\ HasFields(tables'[m])
  BY <1>1 DEF IdentityInv
<1>4. Numbered \subseteq DOMAIN tables
  BY DEF Numbered
<1> QED BY <1>1, <1>2, <1>3, <1>4 DEF IdentityInv

LEMMA UnchangedIdentity ==
  ASSUME IdentityInv, UNCHANGED <<tables, created>>, status' = status \/ (status # "built" /\ status' # "built")
  PROVE  IdentityInv'
<1>1. Numbered' = Numbered
  BY DEF Numbered
<1> QED BY <1>1 DEF IdentityInv, HasFields

LEMMA RejectIdentity == ASSUME IdentityInv, status = "applying", Reject PROVE IdentityInv'
  BY UnchangedIdentity DEF Reject

LEMMA CreateTableIdentity ==
  ASSUME IdentityInv, NEW n, NEW ifNotExists, NEW body, CreateTable(n, ifNotExists, body)
  PROVE  IdentityInv'
<1>0. status = "applying"
  BY DEF CreateTable, Ready
<1>1. CASE Ignore
  BY <1>1, UnchangedIdentity DEF Ignore, tableVars
<1>2. CASE Reject
  BY <1>0, <1>2, RejectIdentity
<1>3. CASE /\ n \notin DOMAIN tables /\ tables' = Keyed(tables, n, NewTable(n, body))
           /\ created' = created + 1 /\ status' = status
  <2> DEFINE t == NewTable(n, body)
  <2>1. t.id = created + 1 /\ t.name = n /\ HasFields(t)
    BY DEF NewTable, HasFields
  <2> HIDE DEF t
  <2>2. /\ DOMAIN tables' = DOMAIN tables \cup {n} /\ tables'[n] = t
        /\ \A m \in DOMAIN tables : tables'[m] = tables[m]
    BY <1>3 DEF Keyed, t
  <2>3. Numbered = DOMAIN tables /\ Numbered' = DOMAIN tables'
    BY <1>0, <1>3 DEF Numbered
  <2>4. \A m \in DOMAIN tables : tables[m].id \in Nat /\ tables[m].id <= created
    BY <2>3 DEF IdentityInv
  <2>5. created \in Nat /\ created' \in Nat
    BY <1>3 DEF IdentityInv
  <2>6. \A m \in DOMAIN tables' : HasFields(tables'[m]) /\ tables'[m].name = m
    BY <2>1, <2>2 DEF IdentityInv
  <2>7. \A m \in DOMAIN tables' : tables'[m].id \in Nat /\ tables'[m].id <= created'
    BY <1>3, <2>1, <2>2, <2>4, <2>5
  <2>8. \A k, m \in DOMAIN tables' : tables'[k].id = tables'[m].id => k = m
    <3>1. \A m \in DOMAIN tables : tables[m].id # created + 1
      BY <2>4, <2>5
    <3>2. \A k, m \in DOMAIN tables : tables[k].id = tables[m].id => k = m
      BY <2>3 DEF IdentityInv
    <3> QED BY <1>3, <2>1, <2>2, <3>1, <3>2
  <2> QED BY <2>3, <2>5, <2>6, <2>7, <2>8 DEF IdentityInv
<1> QED BY <1>1, <1>2, <1>3 DEF CreateTable

LEMMA DropTableIdentity == ASSUME IdentityInv, NEW n, DropTable(n) PROVE IdentityInv'
<1>1. DOMAIN tables' = DOMAIN tables \ {n} /\ \A m \in DOMAIN tables' : tables'[m] = tables[m]
  BY DEF DropTable, Without
<1>2. Numbered' = Numbered \ {n} /\ created' = created /\ Numbered' \subseteq DOMAIN tables'
  BY <1>1 DEF DropTable, Numbered
<1> QED BY <1>1, <1>2 DEF IdentityInv

\* ALTER TABLE by a clause on columns or synonyms.
LEMMA AlterTableIdentity ==
  ASSUME IdentityInv, NEW n,
         \/ \E supported \in BOOLEAN : RejectAlterTable(n, supported)
         \/ \E ine \in BOOLEAN, d \in AddedColumns : AddColumn(n, ine, d)
         \/ \E c \in ColumnNames : DropColumn(n, c) \/ \E a \in Alterations : AlterColumn(n, c, a)
         \/ \E s \in Synonyms : AddSynonym(n, s) \/ DropSynonym(n, s)
  PROVE  IdentityInv'
<1>0. status = "applying"
  BY DEF RejectAlterTable, AddColumn, DropColumn, AlterColumn, AddSynonym, DropSynonym, Ready
<1>1. CASE Reject
  BY <1>0, <1>1, RejectIdentity
<1>2. CASE Ignore
  BY <1>2, UnchangedIdentity DEF Ignore, tableVars
<1>3. ASSUME n \in DOMAIN tables,
             \/ \E v : PutTable(n, [tables[n] EXCEPT !.columns = v])
             \/ \E v, k : PutTable(n, [tables[n] EXCEPT !.columns = v, !.primaryKey = k])
             \/ \E v : PutTable(n, [tables[n] EXCEPT !.synonyms = v])
      PROVE  IdentityInv'
  <2>1. HasFields(tables[n])
    BY <1>3 DEF IdentityInv
  <2>2. CASE \E v : PutTable(n, [tables[n] EXCEPT !.columns = v])
    <3>1. PICK v : PutTable(n, [tables[n] EXCEPT !.columns = v])
      BY <2>2
    <3> QED BY <1>3, <2>1, <3>1, PutTableIdentity DEF HasFields
  <2>3. CASE \E v, k : PutTable(n, [tables[n] EXCEPT !.columns = v, !.primaryKey = k])
    <3>1. PICK v, k : PutTable(n, [tables[n] EXCEPT !.columns = v, !.primaryKey = k])
      BY <2>3
    <3> QED BY <1>3, <2>1, <3>1, PutTableIdentity DEF HasFields
  <2>4. CASE \E v : PutTable(n, [tables[n] EXCEPT !.synonyms = v])
    <3>1. PICK v : PutTable(n, [tables[n] EXCEPT !.synonyms = v])
      BY <2>4
    <3> QED BY <1>3, <2>1, <3>1, PutTableIdentity DEF HasFields
  <2> QED BY <1>3, <2>2, <2>3, <2>4
<1>4. CASE \E supported \in BOOLEAN : RejectAlterTable(n, supported)
  BY <1>1, <1>4 DEF RejectAlterTable
<1>5. CASE \E ine \in BOOLEAN, d \in AddedColumns : AddColumn(n, ine, d)
  BY <1>1, <1>2, <1>3, <1>5 DEF AddColumn
<1>6. CASE \E c \in ColumnNames : DropColumn(n, c)
  BY <1>1, <1>3, <1>6 DEF DropColumn
<1>7. CASE \E c \in ColumnNames, a \in Alterations : AlterColumn(n, c, a)
  BY <1>1, <1>3, <1>7 DEF AlterColumn
<1>8. CASE \E s \in Synonyms : AddSynonym(n, s)
  BY <1>1, <1>2, <1>3, <1>8 DEF AddSynonym
<1>9. CASE \E s \in Synonyms : DropSynonym(n, s)
  BY <1>1, <1>3, <1>9 DEF DropSynonym
<1> QED BY <1>4, <1>5, <1>6, <1>7, <1>8, <1>9

LEMMA RenameIdentity ==
  ASSUME IdentityInv, status = "applying", NEW old, NEW new, NEW syn, NEW rest, Rename(old, new, syn, rest)
  PROVE  IdentityInv'
<1>1. CASE Reject
  BY <1>1, RejectIdentity
<1>2. CASE /\ CanRename(old, new) /\ tables' = RenamedTables(old, new, syn)
           /\ created' = created /\ status' = status
  <2> DEFINE t == RenamedTable(old, new, syn)
  <2>1. old \in DOMAIN tables /\ (old = new \/ new \notin DOMAIN tables) /\ HasFields(tables[old])
    BY <1>2 DEF CanRename, IdentityInv
  <2>2. t.id = tables[old].id /\ t.name = new /\ HasFields(t)
    BY <2>1 DEF RenamedTable, HasFields
  <2> HIDE DEF t
  <2>3. /\ DOMAIN tables' = (DOMAIN tables \ {old}) \cup {new} /\ tables'[new] = t
        /\ \A m \in DOMAIN tables' \ {new} : m \in DOMAIN tables /\ m # old /\ tables'[m] = tables[m]
    BY <1>2, <2>1 DEF RenamedTables, Keyed, Without, t
  <2>4. Numbered = DOMAIN tables /\ Numbered' = DOMAIN tables'
    BY <1>2 DEF Numbered
  <2>5. \A m \in DOMAIN tables' : HasFields(tables'[m]) /\ tables'[m].name = m
    BY <2>2, <2>3 DEF IdentityInv
  <2>6. \A m \in DOMAIN tables' : tables'[m].id \in Nat /\ tables'[m].id <= created'
    BY <1>2, <2>1, <2>2, <2>3, <2>4 DEF IdentityInv
  <2>7. \A k, m \in DOMAIN tables' : tables'[k].id = tables'[m].id => k = m
    <3>1. \A k, m \in DOMAIN tables : tables[k].id = tables[m].id => k = m
      BY <2>4 DEF IdentityInv
    <3> QED BY <2>1, <2>2, <2>3, <3>1
  <2> QED BY <1>2, <2>4, <2>5, <2>6, <2>7 DEF IdentityInv
<1> QED BY <1>1, <1>2 DEF Rename

\* The system tables have no number of their own and may share one.
LEMMA FinishBuildIdentity == ASSUME IdentityInv, FinishBuild PROVE IdentityInv'
<1>1. /\ DOMAIN tables' = DOMAIN tables \cup Builtins /\ status' = "built" /\ created' = created
      /\ \A m \in Builtins : tables'[m] = BuiltinTable(m)
      /\ \A m \in DOMAIN tables \ Builtins : tables'[m] = tables[m]
  BY DEF FinishBuild
<1>2. Numbered = DOMAIN tables /\ Numbered' = DOMAIN tables \ Builtins
  BY <1>1 DEF Numbered, FinishBuild, Ready
<1>3. \A m \in Builtins : HasFields(tables'[m]) /\ tables'[m].name = m
  BY <1>1 DEF BuiltinTable, HasFields
<1> QED BY <1>1, <1>2, <1>3 DEF IdentityInv

LEMMA TableStatementIdentity == ASSUME IdentityInv, TableStatement PROVE IdentityInv'
<1>1. CASE \E n \in CreateNames, ine \in BOOLEAN, b \in TableBodies : CreateTable(n, ine, b)
  BY <1>1, CreateTableIdentity
<1>2. CASE \E n \in RefNames : DropTable(n)
  BY <1>2, DropTableIdentity
<1>3. CASE \E n \in RefNames :
             \/ \E supported \in BOOLEAN : RejectAlterTable(n, supported)
             \/ \E ine \in BOOLEAN, d \in AddedColumns : AddColumn(n, ine, d)
             \/ \E c \in ColumnNames : DropColumn(n, c) \/ \E a \in Alterations : AlterColumn(n, c, a)
             \/ \E s \in Synonyms : AddSynonym(n, s) \/ DropSynonym(n, s)
  BY <1>3, AlterTableIdentity
<1>4. CASE \E n \in RefNames : \E leaf \in RenameLeaves, s \in Synonyms \cup {NoSynonym} : RenameTo(n, leaf, s)
  BY <1>4, RenameIdentity DEF RenameTo, Ready
<1>5. CASE \E k \in 1..MaxRenames : \E pairs \in [1..k -> RenameLeaves \X RenameLeaves] : BeginRenameTable(pairs)
  BY <1>5, UnchangedIdentity DEF BeginRenameTable
<1>6. CASE ApplyRenamePair
  BY <1>6, RenameIdentity DEF ApplyRenamePair
<1> QED BY <1>1, <1>2, <1>3, <1>4, <1>5, <1>6 DEF TableStatement

LEMMA IndexStatementIdentity == ASSUME IdentityInv, IndexStatement PROVE IdentityInv'
<1>1. status = "applying" /\ (Reject \/ UNCHANGED <<tables, created, status>>)
  BY DEF IndexStatement, CreateIndex, RejectAlterIndex, AddStoredColumn, DropStoredColumn, DropIndex,
         PutIndex, Ready, Ignore, tableVars
<1> QED BY <1>1, RejectIdentity, UnchangedIdentity

LEMMA IdentityInit == Init => IdentityInv
  BY DEF Init, TableInit, IdentityInv, Numbered

\* Statements on views and on the other objects leave tables and indexes alone.
LEMMA OtherStatements ==
  ASSUME ViewStatement \/ ObjectStatement PROVE status = "applying" /\ (Reject \/ UNCHANGED tableVars)
  BY DEF ViewStatement, DropView, CreateView, ObjectStatement, CreatePropertyGraph, DropPropertyGraph, CreateModel,
         DropModel, CreateFunction, DropFunction, CreateSequence, DropSequence, CreateProtoBundle, AlterProtoBundle,
         DropProtoBundle, SetBundle, Ready

LEMMA IdentityStep == IdentityInv /\ [Next]_vars => IdentityInv'
<1> SUFFICES ASSUME IdentityInv, [Next]_vars PROVE IdentityInv'
  OBVIOUS
<1>1. CASE TableNext
  BY <1>1, TableStatementIdentity, IndexStatementIdentity, FinishBuildIdentity DEF TableNext
<1>2. CASE ViewStatement \/ ObjectStatement
  BY <1>2, OtherStatements, RejectIdentity, UnchangedIdentity DEF tableVars
<1>3. CASE UNCHANGED vars
  BY <1>3, UnchangedIdentity DEF vars, tableVars
<1> QED BY <1>1, <1>2, <1>3 DEF Next

\* A table sits under the key its own name spells and under no other, after any
\* script: ALTER TABLE, indexes and the analyzer go from key to name and back.
THEOREM TablesKeepTheirNames == Spec => []TableIdentity
<1>1. IdentityInv => TableIdentity
  <2> SUFFICES ASSUME IdentityInv PROVE TableIdentity
    OBVIOUS
  <2>1. DOMAIN tables \ Builtins \subseteq Numbered
    BY DEF Numbered
  <2> QED BY <2>1 DEF IdentityInv, TableIdentity
<1> QED BY <1>1, IdentityInit, IdentityStep, PTL DEF Spec
-----------------------------------------------------------------------------
(* Columns and keys *)

KeysAgree(t) ==
  {FoldOf[k] : k \in t.primaryKey} =
    {FoldOf[t.columns[i].name] : i \in {j \in DOMAIN t.columns : t.columns[j].primaryKey}}
Fits(t) == t \in TableType /\ FoldDistinct(t.columns) /\ KeysAgree(t)

\* A table has at most one column of a name, so the first is the one.
LEMMA ColumnFound ==
  ASSUME NEW S, NEW cols \in Seq(S), FoldDistinct(cols), NEW name
  PROVE  /\ ColumnIndex(cols, name) = 0 <=> \A i \in DOMAIN cols : ~EqualFold(cols[i].name, name)
         /\ \A i \in DOMAIN cols : EqualFold(cols[i].name, name) => ColumnIndex(cols, name) = i
<1> DEFINE I == {i \in 1..Len(cols) : EqualFold(cols[i].name, name)}
<1>1. ColumnIndex(cols, name) = IF I # {} THEN Min(I) ELSE 0
  BY DEF ColumnIndex, SelectInSeq
<1>2. DOMAIN cols = 1..Len(cols) /\ Len(cols) \in Nat
  OBVIOUS
<1>3. ASSUME NEW i \in I PROVE Min(I) = i /\ i \in 1..Len(cols)
  <2>1. I = {i} /\ i \in 1..Len(cols)
    BY <1>2, <1>3 DEF FoldDistinct, EqualFold
  <2> HIDE DEF I
  <2> QED BY <2>1 DEF Min
<1>4. \A i \in DOMAIN cols : EqualFold(cols[i].name, name) <=> i \in I
  BY <1>2
<1>5. I \subseteq DOMAIN cols
  BY <1>2
<1> HIDE DEF I
<1> QED BY <1>1, <1>2, <1>3, <1>4, <1>5

LEMMA DefinitionFields ==
  ASSUME NEW d \in Definition PROVE /\ d.name \in Idents /\ d.primaryKey \in BOOLEAN
                                    /\ (d.type \in Types => d \in Column)
  BY DEF Definition, Column

\* ColumnsOf keeps names and adds the flags of the PRIMARY KEY clause.
LEMMA ColumnsOfBody ==
  ASSUME words \in Vocabularies, NEW body \in TableBodies, BuildableBody(body)
  PROVE  /\ ColumnsOf(body) \in Seq(Column) /\ DOMAIN ColumnsOf(body) = DOMAIN body.columns
         /\ FoldDistinct(ColumnsOf(body))
         /\ \A i \in DOMAIN body.columns :
              /\ ColumnsOf(body)[i].name = body.columns[i].name
              /\ ColumnsOf(body)[i].primaryKey =
                   (body.columns[i].primaryKey \/ \E k \in body.primaryKeys : EqualFold(body.columns[i].name, k))
<1>1. /\ body.columns \in Seq(Definition) /\ FoldDistinct(body.columns)
      /\ \A k \in body.primaryKeys : \E i \in DOMAIN body.columns : EqualFold(body.columns[i].name, k)
  BY InputsAssumption DEF TableBodies
<1>2. \A i \in DOMAIN body.columns : body.columns[i] \in Definition /\ body.columns[i].type \in Types
  BY <1>1 DEF BuildableBody, Representable
<1>3. \A i \in DOMAIN body.columns, k \in body.primaryKeys :
        ColumnIndex(body.columns, k) = i <=> EqualFold(body.columns[i].name, k)
  <2> TAKE i \in DOMAIN body.columns, k \in body.primaryKeys
  <2>1. PICK j \in DOMAIN body.columns : EqualFold(body.columns[j].name, k)
    BY <1>1
  <2> QED BY <2>1, <1>1, ColumnFound
<1>4. ASSUME NEW i \in DOMAIN body.columns
      PROVE  /\ ColumnsOf(body)[i] \in Column
             /\ ColumnsOf(body)[i].name = body.columns[i].name
             /\ ColumnsOf(body)[i].primaryKey =
                  (body.columns[i].primaryKey \/ \E k \in body.primaryKeys : EqualFold(body.columns[i].name, k))
  <2> DEFINE c == body.columns[i]
             b == c.primaryKey \/ \E k \in body.primaryKeys : ColumnIndex(body.columns, k) = i
  <2>1. ColumnsOf(body)[i] = [c EXCEPT !.primaryKey = b]
    BY <1>4 DEF ColumnsOf
  <2>2. b = (c.primaryKey \/ \E k \in body.primaryKeys : EqualFold(c.name, k))
    BY <1>3, Zenon
  <2>3. c \in Definition /\ c.type \in Types /\ b \in BOOLEAN
    BY <1>2 DEF Definition
  <2> HIDE DEF b, c
  <2>4. [c EXCEPT !.primaryKey = b] \in Column /\ [c EXCEPT !.primaryKey = b].name = c.name
        /\ [c EXCEPT !.primaryKey = b].primaryKey = b
    BY <2>3 DEF Definition, Column
  <2> QED BY <2>1, <2>2, <2>4 DEF c
<1>5. DOMAIN ColumnsOf(body) = DOMAIN body.columns
  BY DEF ColumnsOf
<1>6. ColumnsOf(body) \in Seq(Column)
  <2>1. \E n \in Nat : DOMAIN body.columns = 1..n
    BY <1>1
  <2> QED BY <2>1, <1>4, <1>5 DEF ColumnsOf
<1>7. FoldDistinct(ColumnsOf(body))
  BY <1>1, <1>4, <1>5 DEF FoldDistinct
<1> QED BY <1>4, <1>5, <1>6, <1>7

LEMMA NewTableFits ==
  ASSUME words \in Vocabularies, NEW n \in CreateNames, NEW body \in TableBodies, BuildableBody(body),
         created \in Nat, created < MaxCreated
  PROVE  Fits(NewTable(n, body))
<1> DEFINE cols == ColumnsOf(body)
           keyless == BodyKeys(body) = {}
           t == NewTable(n, body)
<1>1. /\ body.columns \in Seq(Definition) /\ body.synonyms \subseteq Synonyms /\ body.primaryKeys \subseteq Idents
      /\ \A k \in body.primaryKeys : \E i \in DOMAIN body.columns : EqualFold(body.columns[i].name, k)
      /\ MaxCreated \in Nat /\ RowId \in Idents /\ Int64 \in Types /\ n \in TableNames
  BY InputsAssumption DEF TableBodies, Synonyms, MaxCreated, TableNames
<1>2. /\ cols \in Seq(Column) /\ DOMAIN cols = DOMAIN body.columns /\ FoldDistinct(cols)
      /\ \A i \in DOMAIN body.columns :
              /\ cols[i].name = body.columns[i].name
              /\ cols[i].primaryKey =
                   (body.columns[i].primaryKey \/ \E k \in body.primaryKeys : EqualFold(body.columns[i].name, k))
  BY ColumnsOfBody
<1>3. \A i \in DOMAIN body.columns : body.columns[i].name \in Idents /\ body.columns[i].primaryKey \in BOOLEAN
  BY <1>1, DefinitionFields
<1>4. BodyKeys(body) \subseteq Idents
  BY <1>1, <1>3 DEF BodyKeys
<1>5. CASE keyless
  <2> DEFINE h == HiddenRowId
             all == Append(cols, h)
  <2>1. /\ t.columns = all /\ t.primaryKey = {RowId} /\ t.id = created + 1 /\ t.name = n /\ t.synonyms = body.synonyms
        /\ t = [id |-> created + 1, name |-> n, columns |-> all, primaryKey |-> {RowId}, synonyms |-> body.synonyms]
    BY <1>5 DEF NewTable
  <2>2. h \in Column /\ h.name = RowId /\ h.primaryKey = TRUE
    BY <1>1, InputsAssumption DEF HiddenRowId, Column, Definition
  <2> HIDE DEF h
  <2>3. /\ all \in Seq(Column) /\ DOMAIN all = DOMAIN cols \cup {Len(cols) + 1} /\ Len(cols) + 1 \notin DOMAIN cols
        /\ all[Len(cols) + 1] = h /\ \A i \in DOMAIN cols : all[i] = cols[i]
    BY <1>2, <2>2
  <2>4. \A i \in DOMAIN cols : ~EqualFold(cols[i].name, RowId)
    <3>1. ColumnIndex(body.columns, RowId) = 0 /\ FoldDistinct(body.columns)
      BY <1>5, InputsAssumption DEF BuildableBody, TableBodies
    <3>2. \A i \in DOMAIN body.columns : ~EqualFold(body.columns[i].name, RowId)
      BY <1>1, <3>1, ColumnFound
    <3> QED BY <1>2, <3>2
  <2>5. \A i \in DOMAIN cols : ~cols[i].primaryKey
    BY <1>2, <1>3, <1>5 DEF BodyKeys
  <2>6. FoldDistinct(all)
    BY <1>2, <2>2, <2>3, <2>4 DEF FoldDistinct, EqualFold
  <2>7. {i \in DOMAIN all : all[i].primaryKey} = {Len(cols) + 1}
    BY <2>2, <2>3, <2>5
  <2>8. KeysAgree(t)
    <3> HIDE DEF t, all
    <3>1. {FoldOf[t.columns[i].name] : i \in {Len(cols) + 1}} = {FoldOf[RowId]}
      BY <2>1, <2>2, <2>3
    <3> QED BY <2>1, <2>7, <3>1 DEF KeysAgree
  <2>9. t \in TableType
    <3> HIDE DEF all, t
    <3> QED BY <1>1, <2>1, <2>3 DEF TableType
  <2>10. Fits(t)
    <3> HIDE DEF t, all
    <3> QED BY <2>1, <2>6, <2>8, <2>9 DEF Fits
  <2> QED BY <2>10
<1>6. CASE ~keyless
  <2>1. /\ t.columns = cols /\ t.primaryKey = BodyKeys(body)
        /\ t = [id |-> created + 1, name |-> n, columns |-> cols, primaryKey |-> BodyKeys(body), synonyms |-> body.synonyms]
    BY <1>6 DEF NewTable
  <2> HIDE DEF t, cols
  <2>2. KeysAgree(t)
    <3>1. ASSUME NEW k \in BodyKeys(body) PROVE \E i \in DOMAIN cols : cols[i].primaryKey /\ FoldOf[cols[i].name] = FoldOf[k]
      BY <1>1, <1>2, <3>1 DEF BodyKeys, EqualFold
    <3>2. ASSUME NEW i \in DOMAIN cols, cols[i].primaryKey PROVE \E k \in BodyKeys(body) : FoldOf[cols[i].name] = FoldOf[k]
      <4>1. CASE body.columns[i].primaryKey
        BY <1>2, <3>2, <4>1 DEF BodyKeys
      <4>2. CASE \E k \in body.primaryKeys : EqualFold(body.columns[i].name, k)
        BY <1>2, <3>2, <4>2 DEF BodyKeys, EqualFold
      <4> QED BY <1>2, <3>2, <4>1, <4>2
    <3> QED BY <2>1, <3>1, <3>2 DEF KeysAgree
  <2>3. t \in TableType
    BY <1>1, <1>2, <1>4, <2>1 DEF TableType
  <2>4. Fits(t)
    BY <1>2, <2>1, <2>2, <2>3 DEF Fits, cols
  <2> QED BY <2>4 DEF t
<1> QED BY <1>5, <1>6

LEMMA AddColumnFits ==
  ASSUME words \in Vocabularies, NEW t, Fits(t), NEW def \in AddedColumns, ColumnIndex(t.columns, def.name) = 0,
         Representable(def)
  PROVE  Fits([t EXCEPT !.columns = Append(@, def)])
<1> DEFINE cols == t.columns
           all == Append(cols, def)
           u == [t EXCEPT !.columns = Append(@, def)]
<1>1. def \in Column /\ ~def.primaryKey
  BY InputsAssumption, DefinitionFields DEF AddedColumns, Representable
<1>2. cols \in Seq(Column) /\ t \in TableType /\ FoldDistinct(cols)
  BY DEF Fits, TableType
<1>3. /\ all \in Seq(Column) /\ DOMAIN all = DOMAIN cols \cup {Len(cols) + 1} /\ Len(cols) + 1 \notin DOMAIN cols
      /\ all[Len(cols) + 1] = def /\ \A i \in DOMAIN cols : all[i] = cols[i]
  BY <1>1, <1>2
<1>4. u = [t EXCEPT !.columns = all] /\ u.columns = all /\ u.primaryKey = t.primaryKey
  BY <1>2 DEF TableType
<1>5. u \in TableType
  BY <1>2, <1>3, <1>4 DEF TableType
<1>6. FoldDistinct(all)
  <2>1. \A i \in DOMAIN cols : ~EqualFold(cols[i].name, def.name)
    BY <1>2, ColumnFound
  <2> HIDE DEF all
  <2> QED BY <1>2, <1>3, <2>1 DEF FoldDistinct, EqualFold
<1>7. KeysAgree(u)
  <2> HIDE DEF all, u
  <2>1. {FoldOf[k] : k \in t.primaryKey} = {FoldOf[cols[j].name] : j \in {m \in DOMAIN cols : cols[m].primaryKey}}
    BY DEF Fits, KeysAgree
  <2> DEFINE X == {m \in DOMAIN cols : cols[m].primaryKey}
             Y == {m \in DOMAIN u.columns : u.columns[m].primaryKey}
  <2>2. X = Y
    BY <1>1, <1>3, <1>4
  <2>3. \A j \in X : FoldOf[u.columns[j].name] = FoldOf[cols[j].name]
    BY <1>3, <1>4
  <2>4. {FoldOf[u.columns[j].name] : j \in Y} = {FoldOf[cols[j].name] : j \in X}
    <3> HIDE DEF X, Y
    <3> QED BY <2>2, <2>3
  <2> QED BY <1>4, <2>1, <2>4 DEF KeysAgree
<1>8. Fits(u)
  <2> HIDE DEF all, u
  <2> QED BY <1>4, <1>5, <1>6, <1>7 DEF Fits
<1> QED BY <1>8

\* The column goes and its name leaves the key.
LEMMA DropColumnFits ==
  ASSUME NEW t, Fits(t), NEW c, NEW i, i = ColumnIndex(t.columns, c), i # 0
  PROVE  Fits([t EXCEPT !.columns = RemoveAt(t.columns, i), !.primaryKey = {k \in @ : ~EqualFold(k, c)}])
<1> DEFINE cols == t.columns
           left == RemoveAt(cols, i)
           keys == {k \in t.primaryKey : ~EqualFold(k, c)}
           u == [t EXCEPT !.columns = RemoveAt(t.columns, i), !.primaryKey = {k \in @ : ~EqualFold(k, c)}]
           from(j) == IF j < i THEN j ELSE j + 1
<1>1. cols \in Seq(Column) /\ t \in TableType /\ FoldDistinct(cols) /\ DOMAIN cols = 1..Len(cols) /\ Len(cols) \in Nat
  BY DEF Fits, TableType
<1>2. i \in 1..Len(cols) /\ EqualFold(cols[i].name, c)
  BY <1>1, ColumnFound
<1>3. /\ left \in Seq(Column) /\ DOMAIN left = 1..(Len(cols) - 1)
      /\ \A j \in 1..(Len(cols) - 1) : left[j] = IF j < i THEN cols[j] ELSE cols[j + 1]
  BY <1>1, <1>2, RemovedAt
<1>4. u.columns = left /\ u.primaryKey = keys /\ u = [t EXCEPT !.columns = left, !.primaryKey = keys]
  BY <1>1 DEF TableType
<1> HIDE DEF left, u, keys
<1>5. \A j \in DOMAIN left : from(j) \in DOMAIN cols /\ from(j) # i /\ left[j] = cols[from(j)]
  BY <1>1, <1>2, <1>3
<1>6. \A j, k \in DOMAIN left : from(j) = from(k) => j = k
  BY <1>1, <1>2, <1>3
<1>7. \A k \in DOMAIN cols : k # i => \E j \in DOMAIN left : k = from(j)
  <2> TAKE k \in DOMAIN cols
  <2>1. CASE k < i
    BY <1>1, <1>2, <1>3, <2>1
  <2>2. CASE k > i
    <3>1. k - 1 \in DOMAIN left /\ k = from(k - 1)
      BY <1>1, <1>2, <1>3, <2>2
    <3> QED BY <3>1
  <2> QED BY <1>1, <1>2, <2>1, <2>2
<1> HIDE DEF from
<1>8. FoldDistinct(left)
  BY <1>1, <1>5, <1>6 DEF FoldDistinct
<1>9. KeysAgree(u)
  <2> DEFINE K(s, pk) == {FoldOf[s[j].name] : j \in {m \in DOMAIN s : s[m].primaryKey}}
  <2>1. {FoldOf[k] : k \in t.primaryKey} = {FoldOf[cols[j].name] : j \in {m \in DOMAIN cols : cols[m].primaryKey}}
    BY DEF Fits, KeysAgree
  <2>2. ASSUME NEW k \in keys PROVE \E j \in DOMAIN left : left[j].primaryKey /\ FoldOf[left[j].name] = FoldOf[k]
    <3>1. k \in t.primaryKey /\ FoldOf[k] # FoldOf[c]
      BY DEF keys, EqualFold
    <3>2. PICK m \in DOMAIN cols : cols[m].primaryKey /\ FoldOf[cols[m].name] = FoldOf[k]
      BY <2>1, <3>1
    <3>3. m # i
      BY <1>2, <3>1, <3>2 DEF EqualFold
    <3> QED BY <1>5, <1>7, <3>2, <3>3
  <2>3. ASSUME NEW j \in DOMAIN left, left[j].primaryKey PROVE \E k \in keys : FoldOf[left[j].name] = FoldOf[k]
    <3>1. left[j] = cols[from(j)] /\ from(j) \in DOMAIN cols /\ from(j) # i
      BY <1>5
    <3>2. PICK k \in t.primaryKey : FoldOf[cols[from(j)].name] = FoldOf[k]
      BY <2>1, <2>3, <3>1
    <3>3. FoldOf[k] # FoldOf[c]
      BY <1>1, <1>2, <3>1, <3>2 DEF FoldDistinct, EqualFold
    <3> QED BY <3>1, <3>2, <3>3 DEF keys, EqualFold
  <2> QED BY <1>4, <2>2, <2>3 DEF KeysAgree
<1>10. u \in TableType
  <2>1. keys \subseteq t.primaryKey
    BY DEF keys
  <2> QED BY <1>1, <1>3, <1>4, <2>1 DEF TableType
<1> QED BY <1>4, <1>8, <1>9, <1>10 DEF Fits, u

\* A change that leaves the columns, or their names and key flags, alone.
LEMMA SameKeysFit ==
  ASSUME NEW t, Fits(t), NEW u \in TableType, u.primaryKey = t.primaryKey, DOMAIN u.columns = DOMAIN t.columns,
         \A i \in DOMAIN t.columns : /\ u.columns[i].name = t.columns[i].name
                                    /\ u.columns[i].primaryKey = t.columns[i].primaryKey
  PROVE  Fits(u)
<1>1. FoldDistinct(u.columns)
  BY DEF Fits, FoldDistinct
<1>2. KeysAgree(u)
  <2>1. {FoldOf[k] : k \in t.primaryKey}
          = {FoldOf[t.columns[j].name] : j \in {m \in DOMAIN t.columns : t.columns[m].primaryKey}}
    BY DEF Fits, KeysAgree
  <2>2. {FoldOf[k] : k \in u.primaryKey}
          = {FoldOf[u.columns[j].name] : j \in {m \in DOMAIN u.columns : u.columns[m].primaryKey}}
    BY <2>1
  <2> QED BY <2>2 DEF KeysAgree
<1> QED BY <1>1, <1>2 DEF Fits

LEMMA AlteredColumn ==
  ASSUME NEW col \in Column, NEW alt \in Alteration, alt.kind = "type" => alt.type \in Types
  PROVE  Altered(col, alt) \in Column /\ Altered(col, alt).name = col.name
         /\ Altered(col, alt).primaryKey = col.primaryKey
<1>1. alt.kind \in {"type", "setDefault", "setOnUpdate", "dropDefault", "dropOnUpdate", "setOptions", "setOtherOptions"}
  BY DEF Alteration
<1>2. CASE alt.kind = "type"
  BY <1>2 DEF Altered, Column, Definition, Alteration, MaybeExpr
<1>3. CASE alt.kind = "setDefault"
  BY <1>3 DEF Altered, Column, Definition, Alteration, MaybeExpr
<1>4. CASE alt.kind = "setOnUpdate"
  BY <1>4 DEF Altered, Column, Definition, Alteration, MaybeExpr
<1>5. CASE alt.kind = "dropDefault"
  BY <1>5 DEF Altered, Column, Definition, Alteration, MaybeExpr
<1>6. CASE alt.kind = "dropOnUpdate"
  BY <1>6 DEF Altered, Column, Definition, Alteration, MaybeExpr
<1>7. CASE alt.kind = "setOptions"
  BY <1>7 DEF Altered, Column, Definition, Alteration, MaybeExpr
<1>8. CASE alt.kind = "setOtherOptions"
  BY <1>8 DEF Altered
<1> QED BY <1>1, <1>2, <1>3, <1>4, <1>5, <1>6, <1>7, <1>8

LEMMA AlterColumnFits ==
  ASSUME NEW t, Fits(t), NEW c, NEW i, i = ColumnIndex(t.columns, c), i # 0,
         NEW alt \in Alteration, alt.kind = "type" => alt.type \in Types
  PROVE  Fits([t EXCEPT !.columns[i] = Altered(@, alt)])
<1> DEFINE cols == t.columns
           new == Altered(cols[i], alt)
           all == [cols EXCEPT ![i] = new]
           u == [t EXCEPT !.columns[i] = Altered(@, alt)]
<1>1. cols \in Seq(Column) /\ t \in TableType /\ FoldDistinct(cols)
  BY DEF Fits, TableType
<1>2. i \in DOMAIN cols
  BY <1>1, ColumnFound
<1>3. new \in Column /\ new.name = cols[i].name /\ new.primaryKey = cols[i].primaryKey
  <2>1. cols[i] \in Column
    BY <1>1, <1>2
  <2> QED BY <2>1, AlteredColumn
<1>4. u = [t EXCEPT !.columns = all] /\ u.columns = all /\ u.primaryKey = t.primaryKey
  BY <1>1 DEF TableType
<1> HIDE DEF new
<1>5. /\ all \in Seq(Column) /\ DOMAIN all = DOMAIN cols
      /\ \A j \in DOMAIN cols : all[j].name = cols[j].name /\ all[j].primaryKey = cols[j].primaryKey
  BY <1>1, <1>2, <1>3
<1>6. u \in TableType
  BY <1>1, <1>4, <1>5 DEF TableType
<1>7. Fits(u)
  <2> HIDE DEF all, u
  <2> QED BY <1>4, <1>5, <1>6, SameKeysFit
<1> QED BY <1>7

-----------------------------------------------------------------------------
(* Types, columns and keys through every statement *)

TablesInv ==
  /\ words \in Vocabularies
  /\ TableTypeOK
  /\ \A n \in DOMAIN tables : Fits(tables[n])

\* The vocabulary of a script does not change, so neither do the types.
LEMMA SameWords ==
  ASSUME UNCHANGED words
  PROVE  /\ TableType' = TableType /\ IndexType' = IndexType /\ TableNames' = TableNames
         /\ IndexNames' = IndexNames /\ MaxCreated' = MaxCreated /\ RenameLeaves' = RenameLeaves
  BY DEF TableType, IndexType, TableNames, IndexNames, MaxCreated, RenameLeaves, CreateNames, RefNames,
         Synonyms, StoredColumns

LEMMA FitsNext ==
  ASSUME UNCHANGED words, \A n \in DOMAIN tables' : Fits(tables'[n])
  PROVE  (\A n \in DOMAIN tables : Fits(tables[n]))'
  BY SameWords DEF Fits, KeysAgree

LEMMA KeepTables ==
  ASSUME TablesInv, UNCHANGED words, UNCHANGED <<tables, indexes, created>>,
         UNCHANGED <<renames, status>> \/ (status = "applying" /\ status' \in {"applying", "failed"} /\
                                          renames' \in Seq(RenameLeaves \X RenameLeaves))
  PROVE  TablesInv'
  BY SameWords, FitsNext DEF TablesInv, TableTypeOK

LEMMA RejectTables ==
  ASSUME TablesInv, UNCHANGED words, status = "applying", Reject PROVE TablesInv'
  BY KeepTables DEF Reject

LEMMA PutTableTables ==
  ASSUME TablesInv, UNCHANGED words, NEW n \in DOMAIN tables, NEW t, Fits(t), PutTable(n, t)
  PROVE  TablesInv'
<1>1. DOMAIN tables' = DOMAIN tables /\ \A m \in DOMAIN tables : tables'[m] = IF m = n THEN t ELSE tables[m]
  BY DEF PutTable, Keyed
<1>2. \A m \in DOMAIN tables' : Fits(tables'[m])
  BY <1>1 DEF TablesInv
<1>3. \A m \in DOMAIN tables' : tables'[m] \in TableType
  BY <1>2 DEF Fits
<1>4. UNCHANGED <<indexes, created, renames, status>>
  BY DEF PutTable
<1> QED BY <1>1, <1>2, <1>3, <1>4, SameWords, FitsNext DEF TablesInv, TableTypeOK

LEMMA CreateTableTables ==
  ASSUME TablesInv, UNCHANGED words, NEW n \in CreateNames, NEW ifNotExists \in BOOLEAN, NEW body \in TableBodies,
         CreateTable(n, ifNotExists, body)
  PROVE  TablesInv'
<1>0. status = "applying"
  BY DEF CreateTable, Ready
<1>1. CASE Ignore
  BY <1>1, KeepTables DEF Ignore, tableVars
<1>2. CASE Reject
  BY <1>0, <1>2, RejectTables
<1>3. CASE /\ BuildableBody(body) /\ created < MaxCreated /\ tables' = Keyed(tables, n, NewTable(n, body))
           /\ created' = created + 1 /\ UNCHANGED <<indexes, renames, status>>
  <2>1. created \in Nat /\ MaxCreated \in Nat /\ created \in 0..MaxCreated
    BY InputsAssumption DEF TablesInv, TableTypeOK, MaxCreated
  <2>2. Fits(NewTable(n, body))
    BY <1>3, <2>1, NewTableFits DEF TablesInv
  <2>3. /\ DOMAIN tables' = DOMAIN tables \cup {n}
        /\ \A m \in DOMAIN tables' : Fits(tables'[m])
    BY <1>3, <2>2 DEF TablesInv, Keyed
  <2>4. \A m \in DOMAIN tables' : tables'[m] \in TableType
    BY <2>3 DEF Fits
  <2>5. created' \in 0..MaxCreated /\ n \in TableNames
    BY <1>3, <2>1 DEF TableNames
  <2> QED BY <1>0, <1>3, <2>3, <2>4, <2>5, SameWords, FitsNext DEF TablesInv, TableTypeOK
<1> QED BY <1>1, <1>2, <1>3 DEF CreateTable

LEMMA DropTableTables ==
  ASSUME TablesInv, UNCHANGED words, NEW n, DropTable(n) PROVE TablesInv'
<1>1. DOMAIN tables' = DOMAIN tables \ {n} /\ \A m \in DOMAIN tables' : tables'[m] = tables[m]
  BY DEF DropTable, Without
<1>2. \A m \in DOMAIN tables' : Fits(tables'[m]) /\ tables'[m] \in TableType
  BY <1>1 DEF TablesInv, Fits
<1> QED BY <1>1, <1>2, SameWords, FitsNext DEF TablesInv, TableTypeOK, DropTable

LEMMA AlterTableTables ==
  ASSUME TablesInv, UNCHANGED words, NEW n,
         \/ \E supported \in BOOLEAN : RejectAlterTable(n, supported)
         \/ \E ine \in BOOLEAN, d \in AddedColumns : AddColumn(n, ine, d)
         \/ \E c \in ColumnNames : DropColumn(n, c) \/ \E a \in Alterations : AlterColumn(n, c, a)
         \/ \E s \in Synonyms : AddSynonym(n, s) \/ DropSynonym(n, s)
  PROVE  TablesInv'
<1>0. status = "applying"
  BY DEF RejectAlterTable, AddColumn, DropColumn, AlterColumn, AddSynonym, DropSynonym, Ready
<1>1. CASE Reject
  BY <1>0, <1>1, RejectTables
<1>2. CASE Ignore
  BY <1>2, KeepTables DEF Ignore, tableVars
<1>3. \A m \in DOMAIN tables : Fits(tables[m])
  BY DEF TablesInv
<1>4. CASE \E supported \in BOOLEAN : RejectAlterTable(n, supported)
  BY <1>1, <1>4 DEF RejectAlterTable
<1>5. CASE \E ine \in BOOLEAN, d \in AddedColumns : AddColumn(n, ine, d)
  <2>1. PICK ine \in BOOLEAN, d \in AddedColumns : AddColumn(n, ine, d)
    BY <1>5
  <2>2. CASE /\ n \in DOMAIN tables /\ ColumnIndex(tables[n].columns, d.name) = 0 /\ Representable(d)
             /\ PutTable(n, [tables[n] EXCEPT !.columns = Append(@, d)])
    <3>1. Fits([tables[n] EXCEPT !.columns = Append(@, d)])
      BY <1>3, <2>2, AddColumnFits DEF TablesInv
    <3> QED BY <2>2, <3>1, PutTableTables
  <2> QED BY <1>1, <1>2, <2>1, <2>2 DEF AddColumn
<1>6. CASE \E c \in ColumnNames : DropColumn(n, c)
  <2>1. PICK c \in ColumnNames : DropColumn(n, c)
    BY <1>6
  <2> DEFINE i == ColumnIndex(tables[n].columns, c)
             t == [tables[n] EXCEPT !.columns = RemoveAt(tables[n].columns, i), !.primaryKey = {k \in @ : ~EqualFold(k, c)}]
  <2>2. CASE n \in DOMAIN tables /\ i # 0 /\ PutTable(n, t)
    <3>1. Fits(t)
      BY <1>3, <2>2, DropColumnFits
    <3> QED BY <2>2, <3>1, PutTableTables
  <2> QED BY <1>1, <2>1, <2>2 DEF DropColumn
<1>7. CASE \E c \in ColumnNames, a \in Alterations : AlterColumn(n, c, a)
  <2>1. PICK c \in ColumnNames, a \in Alterations : AlterColumn(n, c, a)
    BY <1>7
  <2> DEFINE i == ColumnIndex(tables[n].columns, c)
             t == [tables[n] EXCEPT !.columns[i] = Altered(@, a)]
  <2>2. CASE n \in DOMAIN tables /\ i # 0 /\ (a.kind = "type" => a.type \in Types) /\ PutTable(n, t)
    <3>1. a \in Alteration
      BY InputsAssumption DEF Alterations, TablesInv
    <3>2. Fits(t)
      BY <1>3, <2>2, <3>1, AlterColumnFits
    <3> QED BY <2>2, <3>2, PutTableTables
  <2> QED BY <1>1, <2>1, <2>2 DEF AlterColumn
<1>8. ASSUME NEW v \in SUBSET Synonyms, n \in DOMAIN tables, PutTable(n, [tables[n] EXCEPT !.synonyms = v])
      PROVE  TablesInv'
  <2> DEFINE t == [tables[n] EXCEPT !.synonyms = v]
  <2>1. t \in TableType /\ t.columns = tables[n].columns /\ t.primaryKey = tables[n].primaryKey
    BY <1>3, <1>8 DEF Fits, TableType
  <2>2. Fits(t)
    <3> HIDE DEF t
    <3> QED BY <1>3, <1>8, <2>1, SameKeysFit
  <2> QED BY <1>8, <2>2, PutTableTables
<1>9. CASE \E s \in Synonyms : AddSynonym(n, s)
  BY <1>1, <1>2, <1>8, <1>9 DEF AddSynonym
<1>10. CASE \E s \in Synonyms : DropSynonym(n, s)
  <2>1. n \in DOMAIN tables => tables[n].synonyms \subseteq Synonyms
    BY <1>3 DEF Fits, TableType
  <2>2. PICK s \in Synonyms : DropSynonym(n, s)
    BY <1>10
  <2>3. CASE \E x \in tables[n].synonyms : PutTable(n, [tables[n] EXCEPT !.synonyms = @ \ {x}])
    <3>1. PICK x \in tables[n].synonyms : PutTable(n, [tables[n] EXCEPT !.synonyms = @ \ {x}])
      BY <2>3
    <3>2. [tables[n] EXCEPT !.synonyms = @ \ {x}] = [tables[n] EXCEPT !.synonyms = tables[n].synonyms \ {x}]
      OBVIOUS
    <3>3. n \in DOMAIN tables
      BY <2>2 DEF DropSynonym
    <3> QED BY <1>8, <2>1, <3>1, <3>2, <3>3
  <2> QED BY <1>1, <2>2, <2>3 DEF DropSynonym
<1> QED BY <1>4, <1>5, <1>6, <1>7, <1>9, <1>10

LEMMA RenameTables ==
  ASSUME TablesInv, UNCHANGED words, status = "applying", NEW old, NEW new \in TableNames,
         NEW syn \in Synonyms \cup {NoSynonym}, NEW rest \in Seq(RenameLeaves \X RenameLeaves),
         Rename(old, new, syn, rest)
  PROVE  TablesInv'
<1>1. CASE Reject
  BY <1>1, RejectTables
<1>2. CASE /\ CanRename(old, new) /\ tables' = RenamedTables(old, new, syn) /\ indexes' = RepointedIndexes(old, new)
           /\ renames' = rest /\ UNCHANGED <<created, status>>
  <2> DEFINE t == RenamedTable(old, new, syn)
  <2>1. old \in DOMAIN tables /\ Fits(tables[old])
    BY <1>2 DEF CanRename, TablesInv
  <2>2. t \in TableType /\ t.columns = tables[old].columns /\ t.primaryKey = tables[old].primaryKey
    BY <2>1 DEF RenamedTable, Fits, TableType
  <2>3. Fits(t)
    <3> HIDE DEF t
    <3> QED BY <2>1, <2>2, SameKeysFit
  <2>4. /\ DOMAIN tables' = (DOMAIN tables \ {old}) \cup {new}
        /\ \A m \in DOMAIN tables' : Fits(tables'[m])
    BY <1>2, <2>3 DEF RenamedTables, Keyed, Without, TablesInv
  <2>5. \A m \in DOMAIN tables' : tables'[m] \in TableType
    BY <2>4 DEF Fits
  <2>6. DOMAIN indexes' = DOMAIN indexes /\ \A i \in DOMAIN indexes' : indexes'[i] \in IndexType
    BY <1>2 DEF RepointedIndexes, TablesInv, TableTypeOK, IndexType
  <2> QED BY <1>2, <2>4, <2>5, <2>6, SameWords, FitsNext DEF TablesInv, TableTypeOK
<1> QED BY <1>1, <1>2 DEF Rename

LEMMA FinishBuildTables ==
  ASSUME TablesInv, UNCHANGED words, FinishBuild PROVE TablesInv'
<1>1. \A n \in Builtins : Fits(BuiltinTable(n))
  <2> TAKE n \in Builtins
  <2>1. 0 \in 0..MaxCreated /\ <<>> \in Seq(Column)
    BY InputsAssumption DEF TablesInv, MaxCreated
  <2>2. BuiltinTable(n) \in TableType
    BY <2>1 DEF BuiltinTable, TableType
  <2>3. BuiltinTable(n).columns = <<>> /\ BuiltinTable(n).primaryKey = {}
    BY DEF BuiltinTable
  <2> QED BY <2>2, <2>3 DEF Fits, FoldDistinct, KeysAgree
<1>2. /\ DOMAIN tables' = DOMAIN tables \cup Builtins
      /\ \A m \in DOMAIN tables' : Fits(tables'[m])
  BY <1>1 DEF FinishBuild, TablesInv
<1>3. \A m \in DOMAIN tables' : tables'[m] \in TableType
  BY <1>2 DEF Fits
<1>4. DOMAIN tables \subseteq TableNames
  BY DEF TablesInv, TableTypeOK, FinishBuild, Ready
<1> QED BY <1>2, <1>3, <1>4, SameWords, FitsNext DEF TablesInv, TableTypeOK, FinishBuild

LEMMA TableStatementTables == ASSUME TablesInv, UNCHANGED words, TableStatement PROVE TablesInv'
<1>1. CASE \E n \in CreateNames, ine \in BOOLEAN, b \in TableBodies : CreateTable(n, ine, b)
  BY <1>1, CreateTableTables
<1>2. CASE \E n \in RefNames : DropTable(n)
  BY <1>2, DropTableTables
<1>3. CASE \E n \in RefNames :
             \/ \E supported \in BOOLEAN : RejectAlterTable(n, supported)
             \/ \E ine \in BOOLEAN, d \in AddedColumns : AddColumn(n, ine, d)
             \/ \E c \in ColumnNames : DropColumn(n, c) \/ \E a \in Alterations : AlterColumn(n, c, a)
             \/ \E s \in Synonyms : AddSynonym(n, s) \/ DropSynonym(n, s)
  BY <1>3, AlterTableTables
<1>4. CASE \E n \in RefNames : \E leaf \in RenameLeaves, s \in Synonyms \cup {NoSynonym} : RenameTo(n, leaf, s)
  <2>1. PICK n \in RefNames, leaf \in RenameLeaves, s \in Synonyms \cup {NoSynonym} : RenameTo(n, leaf, s)
    BY <1>4
  <2>2. n \in TableNames /\ status = "applying"
    BY <2>1 DEF RenameTo, Ready, TablesInv, TableTypeOK
  <2>3. <<n[1], leaf>> \in TableNames
    BY <2>2 DEF TableNames
  <2>4. <<>> \in Seq(RenameLeaves \X RenameLeaves)
    OBVIOUS
  <2>5. Rename(n, <<n[1], leaf>>, s, <<>>)
    BY <2>1 DEF RenameTo
  <2> QED BY <2>2, <2>3, <2>4, <2>5, RenameTables
<1>5. CASE \E k \in 1..MaxRenames : \E pairs \in [1..k -> RenameLeaves \X RenameLeaves] : BeginRenameTable(pairs)
  <2>1. PICK k \in 1..MaxRenames : \E pairs \in [1..k -> RenameLeaves \X RenameLeaves] : BeginRenameTable(pairs)
    BY <1>5
  <2>2. k \in Nat
    BY <2>1, InputsAssumption DEF TablesInv, MaxRenames
  <2>3. PICK pairs \in [1..k -> RenameLeaves \X RenameLeaves] : BeginRenameTable(pairs)
    BY <2>1
  <2>4. pairs \in Seq(RenameLeaves \X RenameLeaves)
    BY <2>2
  <2> QED BY <2>3, <2>4, KeepTables DEF BeginRenameTable, Ready
<1>6. CASE ApplyRenamePair
  <2> DEFINE L == RenameLeaves \X RenameLeaves
  <2>1. renames \in Seq(L) /\ renames # <<>>
    BY <1>6 DEF ApplyRenamePair, TablesInv, TableTypeOK
  <2>2. Head(renames) \in L /\ Tail(renames) \in Seq(L)
    <3> HIDE DEF L
    <3> QED BY <2>1
  <2>3. <<Root, Head(renames)[2]>> \in TableNames
    BY <2>2 DEF TableNames
  <2> QED BY <1>6, <2>2, <2>3, RenameTables DEF ApplyRenamePair
<1> QED BY <1>1, <1>2, <1>3, <1>4, <1>5, <1>6 DEF TableStatement

LEMMA PutIndexTables ==
  ASSUME TablesInv, UNCHANGED words, NEW i \in IndexNames, NEW x \in IndexType, PutIndex(i, x) PROVE TablesInv'
<1>1. DOMAIN indexes' = DOMAIN indexes \cup {i} /\ \A j \in DOMAIN indexes' : indexes'[j] \in IndexType
  BY DEF PutIndex, Keyed, TablesInv, TableTypeOK
<1>2. UNCHANGED <<tables, created, renames, status>>
  BY DEF PutIndex
<1> QED BY <1>1, <1>2, SameWords, FitsNext DEF TablesInv, TableTypeOK

LEMMA IndexStatementTables == ASSUME TablesInv, UNCHANGED words, IndexStatement PROVE TablesInv'
<1>1. PICK i \in IndexNames :
        \/ \E ine \in BOOLEAN, ref \in RefNames, st \in SUBSET StoredColumns : CreateIndex(i, ine, ref, st)
        \/ \E supported \in BOOLEAN : RejectAlterIndex(i, supported)
        \/ \E c \in StoredColumns : AddStoredColumn(i, c) \/ DropStoredColumn(i, c)
        \/ DropIndex(i)
  BY DEF IndexStatement
<1>2. status = "applying"
  BY <1>1 DEF CreateIndex, RejectAlterIndex, AddStoredColumn, DropStoredColumn, DropIndex, Ready
<1>3. CASE Ignore \/ Reject
  BY <1>2, <1>3, RejectTables, KeepTables DEF Ignore, tableVars
<1>4. CASE DropIndex(i)
  <2>1. DOMAIN indexes' \subseteq DOMAIN indexes /\ \A j \in DOMAIN indexes' : indexes'[j] = indexes[j]
    BY <1>4 DEF DropIndex, Without
  <2>2. UNCHANGED <<tables, created, renames, status>>
    BY <1>4 DEF DropIndex
  <2> QED BY <2>1, <2>2, SameWords, FitsNext DEF TablesInv, TableTypeOK
<1>5. CASE \E ine \in BOOLEAN, ref \in RefNames, st \in SUBSET StoredColumns : CreateIndex(i, ine, ref, st)
  <2>1. \A ref \in RefNames, st \in SUBSET StoredColumns : [tableName |-> ref, stored |-> st] \in IndexType
    BY DEF IndexType
  <2> QED BY <1>3, <1>5, <2>1, PutIndexTables DEF CreateIndex
<1>6. CASE \E c \in StoredColumns : AddStoredColumn(i, c) \/ DropStoredColumn(i, c)
  <2>1. PICK c \in StoredColumns : AddStoredColumn(i, c) \/ DropStoredColumn(i, c)
    BY <1>6
  <2>2. i \in DOMAIN indexes /\ indexes[i] \in IndexType
    BY <2>1 DEF AddStoredColumn, DropStoredColumn, TablesInv, TableTypeOK
  <2>3. [indexes[i] EXCEPT !.stored = @ \cup {c}] \in IndexType
    BY <2>2 DEF IndexType
  <2>4. [indexes[i] EXCEPT !.stored = {s \in @ : ~EqualFold(s, c)}] \in IndexType
    BY <2>2 DEF IndexType
  <2> QED BY <1>3, <2>1, <2>3, <2>4, PutIndexTables DEF AddStoredColumn, DropStoredColumn
<1> QED BY <1>1, <1>3, <1>4, <1>5, <1>6 DEF RejectAlterIndex
-----------------------------------------------------------------------------
(* The other objects *)

\* The objects but the views, whose order has an invariant of its own.
ObjectInv ==
  /\ DOMAIN views \subseteq ViewNames /\ \A n \in DOMAIN views : views[n] \in Queries
  /\ DOMAIN graphs \subseteq GraphNames /\ \A g \in DOMAIN graphs : graphs[g] \in Definitions
  /\ DOMAIN models \subseteq ModelNames /\ \A m \in DOMAIN models : models[m] \in Definitions
  /\ DOMAIN functions \subseteq FunctionNames /\ \A f \in DOMAIN functions : functions[f] \in Definitions
  /\ sequences \subseteq SequenceNames /\ protoTypes \subseteq ProtoNames

ObjectVocabulary == <<ViewNames, Queries, GraphNames, SequenceNames, ModelNames, FunctionNames, ProtoNames>>

LEMMA SameObjectWords == ASSUME UNCHANGED words PROVE UNCHANGED ObjectVocabulary
  BY DEF ObjectVocabulary, ViewNames, Queries, GraphNames, SequenceNames, ModelNames, FunctionNames, ProtoNames

LEMMA KeepObjects ==
  ASSUME ObjectInv, UNCHANGED words, UNCHANGED <<views, objectVars>> PROVE ObjectInv'
  BY SameObjectWords DEF ObjectInv, ObjectVocabulary, objectVars

\* A map of definitions takes none that its handler refuses.
LEMMA AcceptedDefinitions ==
  ASSUME NEW map, NEW K, DOMAIN map \subseteq K, \A x \in DOMAIN map : map[x] \in Definitions, NEW k \in K,
         NEW ine \in BOOLEAN, NEW orr \in BOOLEAN, NEW def \in Definitions \cup {Rejected},
         Accepted(map, k, ine, orr, def), NEW new, new = AfterCreate(map, k, ine, def)
  PROVE  DOMAIN new \subseteq K /\ \A x \in DOMAIN new : new[x] \in Definitions
  BY ObjectsAssumption DEF Accepted, AfterCreate, Keyed

LEMMA RemovedDefinition ==
  ASSUME NEW map, NEW K, NEW D, DOMAIN map \subseteq K, \A x \in DOMAIN map : map[x] \in D, NEW k, NEW new,
         new = Without(map, k)
  PROVE  DOMAIN new \subseteq K /\ \A x \in DOMAIN new : new[x] \in D
  BY DEF Without

LEMMA ViewStatementObjects ==
  ASSUME ObjectInv, UNCHANGED words, ViewStatement PROVE ObjectInv'
<1>1. PICK n \in ViewNames : DropView(n) \/ \E orReplace \in BOOLEAN, q \in Queries : CreateView(n, orReplace, q)
  BY DEF ViewStatement
<1>2. UNCHANGED objectVars
  BY <1>1 DEF DropView, CreateView
<1>3. CASE UNCHANGED views
  BY <1>2, <1>3, KeepObjects
<1>4. CASE \E q \in Queries : views' = Keyed(views, n, q)
  <2>1. DOMAIN views' \subseteq ViewNames /\ \A m \in DOMAIN views' : views'[m] \in Queries
    BY <1>4 DEF ObjectInv, Keyed
  <2> QED BY <1>2, <2>1, SameObjectWords DEF ObjectInv, ObjectVocabulary, objectVars
<1>5. CASE views' = Without(views, n)
  <2>1. DOMAIN views' \subseteq ViewNames /\ \A m \in DOMAIN views' : views'[m] \in Queries
    BY <1>5 DEF ObjectInv, Without
  <2> QED BY <1>2, <2>1, SameObjectWords DEF ObjectInv, ObjectVocabulary, objectVars
<1> QED BY <1>1, <1>3, <1>4, <1>5 DEF DropView, CreateView, viewVars

LEMMA ObjectStatementObjects ==
  ASSUME ObjectInv, UNCHANGED words, ObjectStatement PROVE ObjectInv'
<1>1. views' = views
  BY DEF ObjectStatement, CreatePropertyGraph, DropPropertyGraph, CreateModel, DropModel, CreateFunction,
         DropFunction, CreateSequence, DropSequence, CreateProtoBundle, AlterProtoBundle, DropProtoBundle,
         SetBundle, viewVars
<1>2. CASE \E g \in GraphNames :
             \/ DropPropertyGraph(g)
             \/ \E ine, orr \in BOOLEAN, d \in Definitions \cup {Rejected} : CreatePropertyGraph(g, ine, orr, d)
  <2>1. DOMAIN graphs' \subseteq GraphNames /\ \A g \in DOMAIN graphs' : graphs'[g] \in Definitions
    <3>1. DOMAIN graphs \subseteq GraphNames /\ \A g \in DOMAIN graphs : graphs[g] \in Definitions
      BY DEF ObjectInv
    <3>2. PICK g \in GraphNames : \/ DropPropertyGraph(g)
            \/ \E ine, orr \in BOOLEAN, d \in Definitions \cup {Rejected} : CreatePropertyGraph(g, ine, orr, d)
      BY <1>2
    <3>3. CASE graphs' = Without(graphs, g)
      BY <3>1, <3>3, RemovedDefinition
    <3>4. CASE graphs' = graphs
      BY <3>1, <3>4
    <3>5. ASSUME NEW ine \in BOOLEAN, NEW orr \in BOOLEAN, NEW d \in Definitions \cup {Rejected},
                 Accepted(graphs, g, ine, orr, d), graphs' = AfterCreate(graphs, g, ine, d)
          PROVE  DOMAIN graphs' \subseteq GraphNames /\ \A x \in DOMAIN graphs' : graphs'[x] \in Definitions
      BY <3>1, <3>5, AcceptedDefinitions
    <3> QED BY <3>2, <3>3, <3>4, <3>5 DEF DropPropertyGraph, CreatePropertyGraph
  <2>2. UNCHANGED <<sequences, models, functions, protoTypes>>
    BY <1>2 DEF DropPropertyGraph, CreatePropertyGraph
  <2> QED BY <1>1, <2>1, <2>2, SameObjectWords DEF ObjectInv, ObjectVocabulary
<1>3. CASE \E m \in ModelNames :
             \/ DropModel(m)
             \/ \E ine, orr \in BOOLEAN, d \in Definitions \cup {Rejected} : CreateModel(m, ine, orr, d)
  <2>1. DOMAIN models' \subseteq ModelNames /\ \A m \in DOMAIN models' : models'[m] \in Definitions
    <3>1. DOMAIN models \subseteq ModelNames /\ \A m \in DOMAIN models : models[m] \in Definitions
      BY DEF ObjectInv
    <3>2. PICK m \in ModelNames : \/ DropModel(m)
            \/ \E ine, orr \in BOOLEAN, d \in Definitions \cup {Rejected} : CreateModel(m, ine, orr, d)
      BY <1>3
    <3>3. CASE models' = Without(models, m)
      BY <3>1, <3>3, RemovedDefinition
    <3>4. CASE models' = models
      BY <3>1, <3>4
    <3>5. ASSUME NEW ine \in BOOLEAN, NEW orr \in BOOLEAN, NEW d \in Definitions \cup {Rejected},
                 Accepted(models, m, ine, orr, d), models' = AfterCreate(models, m, ine, d)
          PROVE  DOMAIN models' \subseteq ModelNames /\ \A x \in DOMAIN models' : models'[x] \in Definitions
      BY <3>1, <3>5, AcceptedDefinitions
    <3> QED BY <3>2, <3>3, <3>4, <3>5 DEF DropModel, CreateModel
  <2>2. UNCHANGED <<graphs, sequences, functions, protoTypes>>
    BY <1>3 DEF DropModel, CreateModel
  <2> QED BY <1>1, <2>1, <2>2, SameObjectWords DEF ObjectInv, ObjectVocabulary
<1>4. CASE \E f \in FunctionNames :
             \/ DropFunction(f)
             \/ \E orr \in BOOLEAN, d \in Definitions \cup {Rejected} : CreateFunction(f, orr, d)
  <2>1. DOMAIN functions' \subseteq FunctionNames /\ \A f \in DOMAIN functions' : functions'[f] \in Definitions
    <3>1. DOMAIN functions \subseteq FunctionNames /\ \A f \in DOMAIN functions : functions[f] \in Definitions
      BY DEF ObjectInv
    <3>2. PICK f \in FunctionNames :
            DropFunction(f) \/ \E orr \in BOOLEAN, d \in Definitions \cup {Rejected} : CreateFunction(f, orr, d)
      BY <1>4
    <3>3. CASE functions' = Without(functions, f)
      BY <3>1, <3>3, RemovedDefinition
    <3>4. CASE functions' = functions
      BY <3>1, <3>4
    <3>5. ASSUME NEW orr \in BOOLEAN, NEW d \in Definitions \cup {Rejected},
                 Accepted(functions, f, FALSE, orr, d), functions' = AfterCreate(functions, f, FALSE, d)
          PROVE  DOMAIN functions' \subseteq FunctionNames /\ \A x \in DOMAIN functions' : functions'[x] \in Definitions
      BY <3>1, <3>5, ObjectsAssumption DEF Accepted, AfterCreate, Keyed
    <3> QED BY <3>2, <3>3, <3>4, <3>5 DEF DropFunction, CreateFunction
  <2>2. UNCHANGED <<graphs, sequences, models, protoTypes>>
    BY <1>4 DEF DropFunction, CreateFunction
  <2> QED BY <1>1, <2>1, <2>2, SameObjectWords DEF ObjectInv, ObjectVocabulary
<1>5. CASE \E s \in SequenceNames : DropSequence(s) \/ \E ine \in BOOLEAN : CreateSequence(s, ine)
  <2>1. sequences' \subseteq SequenceNames /\ UNCHANGED <<graphs, models, functions, protoTypes>>
    BY <1>5 DEF ObjectInv, DropSequence, CreateSequence
  <2> QED BY <1>1, <2>1, SameObjectWords DEF ObjectInv, ObjectVocabulary
<1>6. CASE \/ \E types \in SUBSET ProtoNames : CreateProtoBundle(types)
           \/ \E ins, upd, del \in SUBSET ProtoNames : AlterProtoBundle(ins, upd, del)
           \/ DropProtoBundle
  <2>1. protoTypes' \subseteq ProtoNames /\ UNCHANGED <<graphs, sequences, models, functions>>
    BY <1>6 DEF ObjectInv, CreateProtoBundle, AlterProtoBundle, DropProtoBundle, SetBundle
  <2> QED BY <1>1, <2>1, SameObjectWords DEF ObjectInv, ObjectVocabulary
<1> QED BY <1>2, <1>3, <1>4, <1>5, <1>6 DEF ObjectStatement

LEMMA TablesInit == Init => TablesInv
<1> SUFFICES ASSUME Init PROVE TablesInv
  OBVIOUS
<1>1. 0 \in 0..MaxCreated /\ <<>> \in Seq(RenameLeaves \X RenameLeaves)
  BY InputsAssumption DEF Init, TableInit, MaxCreated
<1> QED BY <1>1 DEF Init, TableInit, TablesInv, TableTypeOK

LEMMA TablesStep == TablesInv /\ [Next]_vars => TablesInv'
<1> SUFFICES ASSUME TablesInv, [Next]_vars PROVE TablesInv'
  OBVIOUS
<1>1. CASE UNCHANGED words /\ TableNext
  BY <1>1, TableStatementTables, IndexStatementTables, FinishBuildTables DEF TableNext
<1>2. CASE UNCHANGED words /\ (ViewStatement \/ ObjectStatement)
  BY <1>2, OtherStatements, RejectTables, KeepTables DEF tableVars
<1>3. CASE UNCHANGED vars
  BY <1>3, KeepTables DEF vars, tableVars
<1> QED BY <1>1, <1>2, <1>3 DEF Next

LEMMA ObjectsStep == ObjectInv /\ [Next]_vars => ObjectInv'
<1> SUFFICES ASSUME ObjectInv, [Next]_vars PROVE ObjectInv'
  OBVIOUS
<1>1. CASE UNCHANGED words /\ UNCHANGED <<viewVars, objectVars>>
  BY <1>1, KeepObjects DEF viewVars
<1>2. CASE UNCHANGED words /\ ViewStatement
  BY <1>2, ViewStatementObjects
<1>3. CASE UNCHANGED words /\ ObjectStatement
  BY <1>3, ObjectStatementObjects
<1> QED BY <1>1, <1>2, <1>3 DEF Next, vars

\* Every part of the catalog has its type, no name stands for two columns of a
\* table, and key flags and key list agree, after any script.
THEOREM SchemaStaysWhole == Spec => []SchemaInv
<1>1. Init => ObjectInv
  BY DEF Init, ObjectInv
<1>2. TablesInv /\ ObjectInv /\ ViewInv => SchemaInv
  BY DEF TablesInv, Fits, KeysAgree, ObjectInv, ViewInv, SchemaInv, ColumnsDistinct, KeyFlagsAgree, ObjectTypeOK
<1> QED BY <1>1, <1>2, TablesInit, TablesStep, ObjectsStep, ViewsInit, ViewsStep, PTL DEF Spec
-----------------------------------------------------------------------------
(* Nothing moves but what a statement names *)

LEMMA NamesStayApart == ASSUME VocabulariesApart PROVE Spec => []NamesApart
<1>1. TablesInv => NamesApart
  <2> SUFFICES ASSUME TablesInv PROVE NamesApart
    OBVIOUS
  <2>1. /\ TableNames \cap Builtins = {}
        /\ \A m, n \in TableNames \cup Builtins : EqualFoldName(m, n) => m = n
        /\ \A n \in TableNames \cup RefNames, s \in Synonyms : n[1] = Root => ~EqualFold(s, n[2])
    BY DEF VocabulariesApart, TablesInv, TableNames, CreateNames, RenameLeaves, RefNames, Synonyms
  <2>2. DOMAIN tables \subseteq TableNames \cup Builtins /\ (status = "applying" => DOMAIN tables \subseteq TableNames)
    BY DEF TablesInv, TableTypeOK
  <2>3. \A i \in DOMAIN indexes : indexes[i].tableName \in TableNames \cup RefNames
    BY DEF TablesInv, TableTypeOK, IndexType
  <2>4. \A n \in DOMAIN tables : tables[n].synonyms \subseteq Synonyms
    BY DEF TablesInv, TableTypeOK, TableType
  <2> QED BY <2>1, <2>2, <2>3, <2>4 DEF NamesApart
<1> QED BY <1>1, TablesInit, TablesStep, PTL DEF Spec

\* The tables of which some name matches: where names are apart, at most one,
\* and it is the same by key as by name.
LEMMA OneHolder ==
  ASSUME NEW tabs, NEW ref, \A n \in DOMAIN tabs : tabs[n].name = n,
         \A m, n \in DOMAIN tabs : EqualFoldName(m, n) => m = n,
         \A n \in DOMAIN tabs : \A s \in tabs[n].synonyms : ref[1] = Root => ~EqualFold(s, ref[2])
  PROVE  (IF ref \in DOMAIN tabs THEN {tabs[ref].id}
          ELSE {tabs[n].id : n \in {m \in DOMAIN tabs :
                  \/ EqualFoldName(tabs[m].name, ref)
                  \/ ref[1] = Root /\ \E s \in tabs[m].synonyms : EqualFold(s, ref[2])}})
         = {tabs[n].id : n \in {m \in DOMAIN tabs : EqualFoldName(m, ref)}}
<1> DEFINE X == {m \in DOMAIN tabs : EqualFoldName(m, ref)}
           Y == {m \in DOMAIN tabs : \/ EqualFoldName(tabs[m].name, ref)
                                     \/ ref[1] = Root /\ \E s \in tabs[m].synonyms : EqualFold(s, ref[2])}
<1>1. X = Y
  OBVIOUS
<1>2. ASSUME ref \in DOMAIN tabs PROVE X = {ref}
  BY <1>2 DEF EqualFoldName, EqualFold
<1>3. (IF ref \in DOMAIN tabs THEN {tabs[ref].id} ELSE {tabs[n].id : n \in Y}) = {tabs[n].id : n \in X}
  <2> HIDE DEF X, Y
  <2> QED BY <1>1, <1>2
<1> QED BY <1>3

LEMMA HoldersOf ==
  ASSUME IdentityInv, NamesApart, NEW i \in DOMAIN indexes
  PROVE  IndexTables(i) = {tables[n].id : n \in {m \in DOMAIN tables : EqualFoldName(m, indexes[i].tableName)}}
<1> DEFINE ref == indexes[i].tableName
<1>1. /\ \A n \in DOMAIN tables : tables[n].name = n
      /\ \A m, n \in DOMAIN tables : EqualFoldName(m, n) => m = n
      /\ \A n \in DOMAIN tables : \A s \in tables[n].synonyms : ref[1] = Root => ~EqualFold(s, ref[2])
  BY DEF IdentityInv, NamesApart
<1> HIDE DEF ref
<1>2. (IF ref \in DOMAIN tables THEN {tables[ref].id}
       ELSE {tables[n].id : n \in {m \in DOMAIN tables :
                \/ EqualFoldName(tables[m].name, ref)
                \/ ref[1] = Root /\ \E s \in tables[m].synonyms : EqualFold(s, ref[2])}})
         = {tables[n].id : n \in {m \in DOMAIN tables : EqualFoldName(m, ref)}}
  BY <1>1, OneHolder
<1> QED BY <1>2 DEF IndexTables, ref

LEMMA HoldersOfNext ==
  ASSUME IdentityInv', NamesApart', NEW i \in DOMAIN indexes'
  PROVE  IndexTables(i)' = {tables'[n].id : n \in {m \in DOMAIN tables' : EqualFoldName(m, indexes'[i].tableName)}}
<1> DEFINE ref == indexes'[i].tableName
<1>1. /\ \A n \in DOMAIN tables' : tables'[n].name = n
      /\ \A m, n \in DOMAIN tables' : EqualFoldName(m, n) => m = n
      /\ \A n \in DOMAIN tables' : \A s \in tables'[n].synonyms : ref[1] = Root => ~EqualFold(s, ref[2])
  BY DEF IdentityInv, NamesApart
<1> HIDE DEF ref
<1>2. (IF ref \in DOMAIN tables' THEN {tables'[ref].id}
       ELSE {tables'[n].id : n \in {m \in DOMAIN tables' :
                \/ EqualFoldName(tables'[m].name, ref)
                \/ ref[1] = Root /\ \E s \in tables'[m].synonyms : EqualFold(s, ref[2])}})
         = {tables'[n].id : n \in {m \in DOMAIN tables' : EqualFoldName(m, ref)}}
  BY <1>1, OneHolder
<1> QED BY <1>2 DEF IndexTables, ref

\* A table lives on: under its key or another, with the same number, and the
\* indexes that named it name it still.
LivesOn(n) ==
  \E m \in DOMAIN tables' :
    /\ tables'[m].id = tables[n].id
    /\ \A i \in DOMAIN indexes \cap DOMAIN indexes' :
         EqualFoldName(n, indexes[i].tableName) => EqualFoldName(m, indexes'[i].tableName)

LEMMA UnchangedLivesOn ==
  ASSUME UNCHANGED <<tables, indexes>>, NEW n \in DOMAIN tables PROVE LivesOn(n)
  BY DEF LivesOn

LEMMA PutTableLivesOn ==
  ASSUME NEW k \in DOMAIN tables, NEW t, t.id = tables[k].id, PutTable(k, t), NEW n \in DOMAIN tables PROVE LivesOn(n)
<1>1. n \in DOMAIN tables' /\ tables'[n].id = tables[n].id /\ indexes' = indexes
  BY DEF PutTable, Keyed
<1> QED BY <1>1 DEF LivesOn

LEMMA CreateTableLivesOn ==
  ASSUME NEW k, NEW ifNotExists, NEW body, CreateTable(k, ifNotExists, body), NEW n \in DOMAIN tables PROVE LivesOn(n)
<1>1. CASE UNCHANGED <<tables, indexes>>
  BY <1>1, UnchangedLivesOn
<1>2. CASE k \notin DOMAIN tables /\ tables' = Keyed(tables, k, NewTable(k, body)) /\ indexes' = indexes
  <2>1. n \in DOMAIN tables' /\ tables'[n] = tables[n]
    BY <1>2 DEF Keyed
  <2> QED BY <1>2, <2>1 DEF LivesOn
<1> QED BY <1>1, <1>2 DEF CreateTable, Ignore, Reject, tableVars

LEMMA AlterTableLivesOn ==
  ASSUME IdentityInv, NEW n \in DOMAIN tables, NEW k,
         \/ \E supported \in BOOLEAN : RejectAlterTable(k, supported)
         \/ \E ine \in BOOLEAN, d \in AddedColumns : AddColumn(k, ine, d)
         \/ \E c \in ColumnNames : DropColumn(k, c) \/ \E a \in Alterations : AlterColumn(k, c, a)
         \/ \E s \in Synonyms : AddSynonym(k, s) \/ DropSynonym(k, s)
  PROVE  LivesOn(n)
<1>1. CASE UNCHANGED <<tables, indexes>>
  BY <1>1, UnchangedLivesOn
<1>2. ASSUME k \in DOMAIN tables,
             \/ \E v : PutTable(k, [tables[k] EXCEPT !.columns = v])
             \/ \E v, w : PutTable(k, [tables[k] EXCEPT !.columns = v, !.primaryKey = w])
             \/ \E v : PutTable(k, [tables[k] EXCEPT !.synonyms = v])
      PROVE  LivesOn(n)
  <2>1. "id" \in DOMAIN tables[k]
    BY <1>2 DEF IdentityInv, HasFields
  <2>2. \A v, w : /\ [tables[k] EXCEPT !.columns = v].id = tables[k].id
                  /\ [tables[k] EXCEPT !.columns = v, !.primaryKey = w].id = tables[k].id
                  /\ [tables[k] EXCEPT !.synonyms = v].id = tables[k].id
    BY <2>1
  <2> QED BY <1>2, <2>2, PutTableLivesOn
<1>3. CASE \E supported \in BOOLEAN : RejectAlterTable(k, supported)
  BY <1>1, <1>3 DEF RejectAlterTable, Reject
<1>4. CASE \E ine \in BOOLEAN, d \in AddedColumns : AddColumn(k, ine, d)
  BY <1>1, <1>2, <1>4 DEF AddColumn, Reject, Ignore, tableVars
<1>5. CASE \E c \in ColumnNames : DropColumn(k, c)
  BY <1>1, <1>2, <1>5 DEF DropColumn, Reject
<1>6. CASE \E c \in ColumnNames, a \in Alterations : AlterColumn(k, c, a)
  BY <1>1, <1>2, <1>6 DEF AlterColumn, Reject
<1>7. CASE \E s \in Synonyms : AddSynonym(k, s)
  BY <1>1, <1>2, <1>7 DEF AddSynonym, Reject, Ignore, tableVars
<1>8. CASE \E s \in Synonyms : DropSynonym(k, s)
  BY <1>1, <1>2, <1>8 DEF DropSynonym, Reject
<1> QED BY <1>3, <1>4, <1>5, <1>6, <1>7, <1>8

\* A renamed table takes its indexes along, and no other.
LEMMA RenameLivesOn ==
  ASSUME IdentityInv, TablesInv, NamesApart, NEW old, NEW new, NEW syn, NEW rest, Rename(old, new, syn, rest),
         NEW n \in DOMAIN tables
  PROVE  LivesOn(n)
<1>1. CASE Reject
  BY <1>1, UnchangedLivesOn DEF Reject
<1>2. CASE CanRename(old, new) /\ tables' = RenamedTables(old, new, syn) /\ indexes' = RepointedIndexes(old, new)
  <2>1. old \in DOMAIN tables /\ (old = new \/ new \notin DOMAIN tables) /\ HasFields(tables[old]) /\ tables[old].name = old
    BY <1>2 DEF CanRename, IdentityInv
  <2>2. /\ DOMAIN tables' = (DOMAIN tables \ {old}) \cup {new} /\ tables'[new].id = tables[old].id
        /\ \A m \in DOMAIN tables' \ {new} : tables'[m] = tables[m]
    BY <1>2, <2>1 DEF RenamedTables, RenamedTable, Keyed, Without, HasFields
  <2>3. ASSUME NEW i \in DOMAIN indexes
        PROVE  indexes'[i].tableName = IF old # new /\ EqualFoldName(indexes[i].tableName, old) THEN new
                                       ELSE indexes[i].tableName
    BY <1>2, <2>1, <2>3 DEF RepointedIndexes, TablesInv, TableTypeOK, IndexType
  <2>4. CASE n = old
    <3>1. \A i \in DOMAIN indexes : EqualFoldName(n, indexes[i].tableName) =>
             EqualFoldName(new, indexes'[i].tableName)
      BY <2>3, <2>4 DEF EqualFoldName, EqualFold
    <3> QED BY <2>2, <2>4, <3>1 DEF LivesOn
  <2>5. CASE n # old
    <3>1. n # new /\ n \in DOMAIN tables' /\ tables'[n] = tables[n]
      BY <2>1, <2>2, <2>5
    <3>2. \A i \in DOMAIN indexes : EqualFoldName(n, indexes[i].tableName) => ~EqualFoldName(indexes[i].tableName, old)
      BY <2>1, <2>5 DEF NamesApart, EqualFoldName, EqualFold
    <3> QED BY <2>3, <3>1, <3>2 DEF LivesOn
  <2> QED BY <2>4, <2>5
<1> QED BY <1>1, <1>2 DEF Rename

LEMMA FinishBuildLivesOn == ASSUME NamesApart, FinishBuild, NEW n \in DOMAIN tables PROVE LivesOn(n)
<1>1. n \in DOMAIN tables' /\ tables'[n] = tables[n] /\ indexes' = indexes
  BY DEF NamesApart, FinishBuild, Ready
<1> QED BY <1>1 DEF LivesOn

LEMMA IndexStatementLivesOn == ASSUME TablesInv, IndexStatement, NEW n \in DOMAIN tables PROVE LivesOn(n)
<1>1. PICK k \in IndexNames :
        \/ \E ine \in BOOLEAN, ref \in RefNames, st \in SUBSET StoredColumns : CreateIndex(k, ine, ref, st)
        \/ \E supported \in BOOLEAN : RejectAlterIndex(k, supported)
        \/ \E c \in StoredColumns : AddStoredColumn(k, c) \/ DropStoredColumn(k, c)
        \/ DropIndex(k)
  BY DEF IndexStatement
<1>2. tables' = tables
  BY <1>1 DEF CreateIndex, RejectAlterIndex, AddStoredColumn, DropStoredColumn, DropIndex, PutIndex, Reject, Ignore,
              tableVars
<1>3. \A i \in DOMAIN indexes \cap DOMAIN indexes' : indexes'[i].tableName = indexes[i].tableName
  <2>1. CASE indexes' = indexes
    BY <2>1
  <2>2. CASE DropIndex(k)
    BY <2>2 DEF DropIndex, Without
  <2>3. CASE \E ine \in BOOLEAN, ref \in RefNames, st \in SUBSET StoredColumns : CreateIndex(k, ine, ref, st)
    BY <2>1, <2>3 DEF CreateIndex, PutIndex, Keyed, Reject, Ignore, tableVars
  <2>4. CASE \E c \in StoredColumns : AddStoredColumn(k, c) \/ DropStoredColumn(k, c)
    <3>1. PICK c \in StoredColumns : AddStoredColumn(k, c) \/ DropStoredColumn(k, c)
      BY <2>4
    <3>2. CASE \E v : k \in DOMAIN indexes /\ PutIndex(k, [indexes[k] EXCEPT !.stored = v])
      BY <3>2 DEF PutIndex, Keyed, TablesInv, TableTypeOK, IndexType
    <3> QED BY <2>1, <3>1, <3>2 DEF AddStoredColumn, DropStoredColumn, Ignore, tableVars
  <2> QED BY <1>1, <2>1, <2>2, <2>3, <2>4 DEF RejectAlterIndex, Reject
<1> QED BY <1>2, <1>3 DEF LivesOn

\* Every table lives on through every step but the DROP TABLE that names it.
LEMMA TablesLiveOn ==
  ASSUME IdentityInv, TablesInv, NamesApart, [Next]_vars, NEW n \in DOMAIN tables
  PROVE  LivesOn(n) \/ (DropTable(n) /\ n \in RefNames)
<1> SUFFICES ASSUME ~(DropTable(n) /\ n \in RefNames) PROVE LivesOn(n)
  BY Zenon
<1>1. CASE UNCHANGED <<tables, indexes>>
  BY <1>1, UnchangedLivesOn
<1>2. CASE TableStatement
  <2>1. CASE \E k \in CreateNames, ine \in BOOLEAN, b \in TableBodies : CreateTable(k, ine, b)
    BY <2>1, CreateTableLivesOn
  <2>2. CASE \E k \in RefNames : DropTable(k)
    <3>1. PICK k \in RefNames : DropTable(k)
      BY <2>2
    <3>2. CASE n # k
      <4>1. n \in DOMAIN tables' /\ tables'[n] = tables[n] /\ indexes' = indexes
        BY <3>1, <3>2 DEF DropTable, Without
      <4> QED BY <4>1 DEF LivesOn
    <3>3. n # k
      BY <3>1
    <3> QED BY <3>2, <3>3
  <2>3. CASE \E k \in RefNames :
               \/ \E supported \in BOOLEAN : RejectAlterTable(k, supported)
               \/ \E ine \in BOOLEAN, d \in AddedColumns : AddColumn(k, ine, d)
               \/ \E c \in ColumnNames : DropColumn(k, c) \/ \E a \in Alterations : AlterColumn(k, c, a)
               \/ \E s \in Synonyms : AddSynonym(k, s) \/ DropSynonym(k, s)
    BY <2>3, AlterTableLivesOn
  <2>4. CASE \E k \in RefNames : \E leaf \in RenameLeaves, s \in Synonyms \cup {NoSynonym} : RenameTo(k, leaf, s)
    BY <2>4, RenameLivesOn DEF RenameTo
  <2>5. CASE \E k \in 1..MaxRenames : \E pairs \in [1..k -> RenameLeaves \X RenameLeaves] : BeginRenameTable(pairs)
    BY <1>1, <2>5 DEF BeginRenameTable
  <2>6. CASE ApplyRenamePair
    BY <2>6, RenameLivesOn DEF ApplyRenamePair
  <2> QED BY <1>2, <2>1, <2>2, <2>3, <2>4, <2>5, <2>6 DEF TableStatement
<1>3. CASE IndexStatement
  BY <1>3, IndexStatementLivesOn
<1>4. CASE FinishBuild
  BY <1>4, FinishBuildLivesOn
<1>5. CASE ViewStatement \/ ObjectStatement
  BY <1>1, <1>5, OtherStatements DEF Reject, tableVars
<1> QED BY <1>1, <1>2, <1>3, <1>4, <1>5 DEF Next, TableNext, vars, tableVars

LEMMA TablesStay ==
  ASSUME IdentityInv, TablesInv, NamesApart, [Next]_vars
  PROVE  TableIds \subseteq TableIds' \/ \E n \in RefNames : DropTable(n)
<1> SUFFICES ASSUME ~\E n \in RefNames : DropTable(n), NEW n \in DOMAIN tables PROVE tables[n].id \in TableIds'
  BY Zenon DEF TableIds
<1>1. LivesOn(n)
  BY TablesLiveOn
<1> QED BY <1>1 DEF LivesOn, TableIds

LEMMA IndexesStay ==
  ASSUME IdentityInv, IdentityInv', TablesInv, NamesApart, NamesApart', [Next]_vars,
         NEW i \in DOMAIN indexes \cap DOMAIN indexes', NEW t \in TableIds', IndexTables(i) = {t}
  PROVE  IndexTables(i)' = {t}
<1> DEFINE ref == indexes[i].tableName
           ref2 == indexes'[i].tableName
<1>1. PICK n \in DOMAIN tables : EqualFoldName(n, ref) /\ tables[n].id = t
  BY HoldersOf
<1>2. LivesOn(n)
  <2>1. CASE DropTable(n)
    <3>1. status = "applying" /\ DOMAIN tables' = DOMAIN tables \ {n} /\ \A m \in DOMAIN tables' : tables'[m] = tables[m]
      BY <2>1 DEF DropTable, Without, Ready
    <3>2. PICK m \in DOMAIN tables' : tables'[m].id = t
      BY DEF TableIds
    <3>3. m # n /\ m \in Numbered /\ n \in Numbered /\ tables[m].id = tables[n].id
      BY <1>1, <3>1, <3>2 DEF Numbered
    <3> QED BY <3>3 DEF IdentityInv
  <2> QED BY <2>1, TablesLiveOn
<1>3. PICK m \in DOMAIN tables' : tables'[m].id = t /\ EqualFoldName(m, ref2)
  BY <1>1, <1>2 DEF LivesOn
<1>4. IndexTables(i)' = {tables'[k].id : k \in {k \in DOMAIN tables' : EqualFoldName(k, ref2)}}
  BY HoldersOfNext
<1>5. {k \in DOMAIN tables' : EqualFoldName(k, ref2)} = {m}
  BY <1>3 DEF NamesApart, EqualFoldName, EqualFold
<1> HIDE DEF ref2
<1> QED BY <1>3, <1>4, <1>5

\* Taking one name out of a list leaves the others in their order.
LEMMA RemoveFirstKeepsOrder ==
  ASSUME NEW S, NEW s \in Seq(S), \A i, j \in DOMAIN s : s[i] = s[j] => i = j,
         NEW e, NEW a, NEW b, a # e, b # e, Before(s, a, b)
  PROVE  Before(RemoveFirst(s, e), a, b)
<1>0. Len(s) \in Nat /\ DOMAIN s = 1..Len(s)
  OBVIOUS
<1>1. CASE ~\E i \in 1..Len(s) : s[i] = e
  BY <1>1 DEF RemoveFirst
<1>2. CASE \E i \in 1..Len(s) : s[i] = e
  <2>1. PICK k \in 1..Len(s) : s[k] = e
    BY <1>2
  <2> DEFINE r == RemoveAt(s, k)
  <2>2. RemoveFirst(s, e) = r
    BY <1>0, <2>1, RemoveFirstAt
  <2>3. /\ DOMAIN r = 1..(Len(s) - 1)
        /\ \A i \in 1..(Len(s) - 1) : r[i] = IF i < k THEN s[i] ELSE s[i + 1]
    BY RemovedAt
  <2> HIDE DEF r
  <2>4. PICK i, j \in DOMAIN s : i < j /\ s[i] = a /\ s[j] = b
    BY DEF Before
  <2> DEFINE to(m) == IF m < k THEN m ELSE m - 1
  <2>5. i # k /\ j # k
    BY <2>1, <2>4
  <2>6. \A m \in DOMAIN s \ {k} : to(m) \in DOMAIN r /\ r[to(m)] = s[m]
    BY <1>0, <2>1, <2>3
  <2>7. to(i) < to(j)
    BY <1>0, <2>1, <2>4, <2>5
  <2> HIDE DEF to
  <2> QED BY <2>2, <2>4, <2>5, <2>6, <2>7 DEF Before
<1> QED BY <1>1, <1>2

LEMMA ViewsKeepOrder ==
  ASSUME ViewInv, [Next]_vars, NEW a \in DOMAIN views', NEW b \in DOMAIN views', a \in DOMAIN views, a # b,
         b \in DOMAIN views => Before(viewOrder, a, b)
  PROVE  Before(viewOrder', a, b)
<1>1. CASE UNCHANGED viewVars
  BY <1>1 DEF viewVars
<1>2. CASE ViewStatement
  <2>1. PICK n \in ViewNames : DropView(n) \/ \E orReplace \in BOOLEAN, q \in Queries : CreateView(n, orReplace, q)
    BY <1>2 DEF ViewStatement
  <2>2. CASE DropView(n)
    <3>1. viewOrder' = RemoveFirst(viewOrder, n) /\ a # n /\ b # n /\ b \in DOMAIN views
      BY <2>2 DEF DropView, Without
    <3> QED BY <3>1, RemoveFirstKeepsOrder DEF ViewInv, ViewOrderListsViews
  <2>3. CASE \E q : views' = Keyed(views, n, q) /\
               viewOrder' = IF n \in DOMAIN views THEN viewOrder ELSE Append(viewOrder, n)
    <3>1. CASE b \in DOMAIN views /\ viewOrder' = viewOrder
      BY <3>1
    <3>2. CASE n \notin DOMAIN views
      <4>1. /\ Len(viewOrder) \in Nat /\ DOMAIN viewOrder = 1..Len(viewOrder)
            /\ DOMAIN viewOrder' = 1..(Len(viewOrder) + 1) /\ viewOrder'[Len(viewOrder) + 1] = n
            /\ \A i \in DOMAIN viewOrder : viewOrder'[i] = viewOrder[i]
        BY <2>3, <3>2 DEF ViewInv
      <4>2. CASE b \in DOMAIN views
        BY <4>1, <4>2 DEF Before
      <4>3. CASE b \notin DOMAIN views
        <5>1. b = n
          BY <2>3, <4>3 DEF Keyed
        <5>2. PICK i \in DOMAIN viewOrder : viewOrder[i] = a
          BY DEF ViewInv, ViewOrderListsViews, Range
        <5> QED BY <4>1, <5>1, <5>2 DEF Before
      <4> QED BY <4>2, <4>3
    <3>3. n \in DOMAIN views => b \in DOMAIN views /\ viewOrder' = viewOrder
      BY <2>3 DEF Keyed
    <3> QED BY <3>1, <3>2, <3>3
  <2> QED BY <1>1, <2>1, <2>2, <2>3 DEF CreateView
<1>3. ObjectStatement => UNCHANGED viewVars
  BY DEF ObjectStatement, CreatePropertyGraph, DropPropertyGraph, CreateModel, DropModel, CreateFunction,
         DropFunction, CreateSequence, DropSequence, CreateProtoBundle, AlterProtoBundle, DropProtoBundle,
         SetBundle
<1> QED BY <1>1, <1>2, <1>3 DEF Next, vars

\* Of every script whose names Spanner would keep apart: a table leaves by its
\* DROP alone, an index stays with its table through every rename, and the views
\* that stay keep the order in which they were created.
THEOREM ObjectsStayInPlace == Spec /\ []NamesApart => ObjectsKeepTheirPlace
<1>1. IdentityInv /\ TablesInv /\ NamesApart /\ [Next]_vars
        => [TableIds \subseteq TableIds' \/ \E n \in RefNames : DropTable(n)]_tableVars
  BY TablesStay
<1>2. IdentityInv /\ IdentityInv' /\ TablesInv /\ NamesApart /\ NamesApart' /\ [Next]_vars
        => [\A i \in DOMAIN indexes \cap DOMAIN indexes', t \in TableIds' :
               IndexTables(i) = {t} => IndexTables(i)' = {t}]_tableVars
  BY IndexesStay
<1>3. ViewInv /\ [Next]_vars
        => [\A a, b \in DOMAIN views' :
              a \in DOMAIN views /\ (b \in DOMAIN views => Before(viewOrder, a, b)) /\ a # b
                => Before(viewOrder', a, b)]_vars
  BY ViewsKeepOrder
<1> QED BY <1>1, <1>2, <1>3, IdentityInit, IdentityStep, TablesInit, TablesStep, ViewsInit, ViewsStep, PTL
        DEF Spec, ObjectsKeepTheirPlace, TablesOnlyDropped, IndexesKeepTable, ViewOrderIsSeniority
==============================================================================
