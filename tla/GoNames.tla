------------------------------- MODULE GoNames -------------------------------
(***************************************************************************)
(* Names in internal/querygen.  SQL compares names ignoring case; the      *)
(* generated Go code needs exported identifiers that differ.  A Go         *)
(* identifier is the sequence of the words it is put together from, so     *)
(* <<"List">> \o <<"All">> and <<"ListAll">> cannot be told apart by Go    *)
(* only when a configuration spells them alike: configurations here name   *)
(* their queries by such sequences too.                                    *)
(***************************************************************************)
EXTENDS Naturals, Sequences, FiniteSets, SequencesExt

CONSTANTS
  LowerOf,   \* names with capitals -> the name in lower case
  ExportedOf \* column names -> the word exportedIdentifier makes of them

Lower(n) == IF n \in DOMAIN LowerOf THEN LowerOf[n] ELSE n
LowerSet(s) == {Lower(s[i]) : i \in DOMAIN s}

\* exportedIdentifier of a column name; a name with no letter gets the fallback.
Exported(n, fallback) == IF n \in DOMAIN ExportedOf THEN <<ExportedOf[n]>> ELSE fallback
FieldFallback == <<<<"Field1">>, <<"Field2">>, <<"Field3">>, <<"Field4">>, <<"Field5">>, <<"Field6">>>>

Digits == <<"", "2", "3", "4", "5", "6">>
Suffixed(name, i) == IF i = 1 THEN name ELSE Append(name, Digits[i])
\* uniqueIdentifier: the first of name, name2, name3, ... that is not used.
Unique(name, used) ==
  Suffixed(name, CHOOSE i \in DOMAIN Digits :
                   /\ Suffixed(name, i) \notin used
                   /\ \A j \in 1..(i - 1) : Suffixed(name, j) \in used)

\* Mutant of UniqueNamesOf: names taken by methods are not avoided.
UniqueNamesIgnoringReserved(names, reserved) ==
  LET f[i \in 0..Len(names)] ==
        IF i = 0 THEN <<>> ELSE Append(f[i - 1], Unique(names[i], ToSet(f[i - 1])))
  IN  f[Len(names)]

\* One name after the other is made different from those before it and from
\* the reserved ones.
UniqueNamesOf(names, reserved) ==
  LET f[i \in 0..Len(names)] ==
        IF i = 0 THEN <<>> ELSE Append(f[i - 1], Unique(names[i], reserved \cup ToSet(f[i - 1])))
  IN  f[Len(names)]
=============================================================================
