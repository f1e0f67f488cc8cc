---------------------------- MODULE ResultStructs ----------------------------
(***************************************************************************)
(* The fields of the Go structs that query results are read into           *)
(* (internal/querygen/querygen.go, mergeGoResultFields and its helpers).   *)
(* Queries that name the same result struct share one, merged from the     *)
(* fields of each; a query that lacks a field leaves it NULL.  A field is  *)
(* [name, kind, repeated, nullable, fields], fields those of a STRUCT.     *)
(* For a repeated field nullable is about its elements.                    *)
(***************************************************************************)
EXTENDS GoNames

Aliases == [INTEGER |-> "INT64", FLOAT |-> "FLOAT64", DOUBLE |-> "FLOAT64",
            BOOLEAN |-> "BOOL", RECORD |-> "STRUCT"]
CanonicalKind(k) == IF k \in DOMAIN Aliases THEN Aliases[k] ELSE k
SameShape(a, b) == CanonicalKind(a.kind) = CanonicalKind(b.kind) /\ a.repeated = b.repeated

ForceNullable(f) == [f EXCEPT !.nullable = TRUE]
Position(fields, name) ==
  LET at == {i \in DOMAIN fields : Lower(fields[i].name) = Lower(name)}
  IN  IF at = {} THEN 0 ELSE CHOOSE i \in at : \A j \in at : i >= j
HasField(fields, name) == Position(fields, name) # 0
FieldOf(fields, name) == fields[Position(fields, name)]

\* Two lists of fields merge when what they share has the same shape, at
\* every level.
RECURSIVE Mergeable(_, _)
Mergeable(existing, next) ==
  \A i \in DOMAIN existing, j \in DOMAIN next :
    Lower(existing[i].name) = Lower(next[j].name) =>
      SameShape(existing[i], next[j]) /\ Mergeable(existing[i].fields, next[j].fields)

\* Mutant of Merge: a field only the earlier queries have keeps its nullability.
RECURSIVE MergeKeepingRequired(_, _)
MergeKeepingRequired(existing, next) ==
  IF existing = <<>> THEN next
  ELSE [i \in DOMAIN existing |->
          IF ~HasField(next, existing[i].name) THEN existing[i]
          ELSE LET other == FieldOf(next, existing[i].name)
               IN  [existing[i] EXCEPT !.nullable = @ \/ other.nullable,
                                       !.fields = MergeKeepingRequired(@, other.fields)]]
       \o [i \in DOMAIN SelectSeq(next, LAMBDA f : ~HasField(existing, f.name)) |->
             ForceNullable(SelectSeq(next, LAMBDA f : ~HasField(existing, f.name))[i])]

\* Mutant of Merge: what both have keeps the nullability of the earlier.
RECURSIVE MergeKeepingNotNull(_, _)
MergeKeepingNotNull(existing, next) ==
  IF existing = <<>> THEN next
  ELSE [i \in DOMAIN existing |->
          IF ~HasField(next, existing[i].name) THEN ForceNullable(existing[i])
          ELSE [existing[i] EXCEPT !.fields = MergeKeepingNotNull(@, FieldOf(next, existing[i].name).fields)]]
       \o [i \in DOMAIN SelectSeq(next, LAMBDA f : ~HasField(existing, f.name)) |->
             ForceNullable(SelectSeq(next, LAMBDA f : ~HasField(existing, f.name))[i])]

\* The fields of one query after those merged so far.  An empty list, also of
\* the fields of a STRUCT, takes the other as it is.
RECURSIVE Merge(_, _)
Merge(existing, next) ==
  LET both(f) == LET other == FieldOf(next, f.name)
                 IN  [f EXCEPT !.nullable = @ \/ other.nullable, !.fields = Merge(@, other.fields)]
      added   == SelectSeq(next, LAMBDA f : ~HasField(existing, f.name))
  IN  IF existing = <<>> THEN next
      ELSE [i \in DOMAIN existing |->
              IF HasField(next, existing[i].name) THEN both(existing[i]) ELSE ForceNullable(existing[i])]
           \o [i \in DOMAIN added |-> ForceNullable(added[i])]

\* A struct that several queries share, query after query.
MergeAll(queries) ==
  LET f[n \in 0..Len(queries)] == IF n = 0 THEN <<>> ELSE Merge(f[n - 1], queries[n])
  IN  f[Len(queries)]
AllMergeable(queries) ==
  LET f[n \in 0..Len(queries)] == IF n = 0 THEN <<>> ELSE Merge(f[n - 1], queries[n])
  IN  \A n \in DOMAIN queries : Mergeable(f[n - 1], queries[n])

-----------------------------------------------------------------------------
(* What a query asks of its own fields first *)

RECURSIVE UniqueFieldNames(_)
UniqueFieldNames(fields) ==
  /\ \A i, j \in DOMAIN fields : Lower(fields[i].name) = Lower(fields[j].name) => i = j
  /\ \A i \in DOMAIN fields : UniqueFieldNames(fields[i].fields)

\* result.required: policy strict refuses a field that may be NULL, override
\* declares that it is not.
RequiredApplies(fields, required, policy) ==
  /\ required # {} => policy \in {"override", "strict"}
  /\ \A n \in required :
       /\ HasField(fields, n)
       /\ policy = "strict" => ~FieldOf(fields, n).nullable
ApplyRequired(fields, required) ==
  [i \in DOMAIN fields |->
     [fields[i] EXCEPT !.nullable = @ /\ Lower(fields[i].name) \notin LowerSet(SetToSeq(required))]]

-----------------------------------------------------------------------------
(* Properties of merging *)

\* A row of a query can be read into the struct when each of its fields is
\* there with the same shape and takes NULL if the query's may be NULL; what
\* the query does not return must take NULL, else its zero reads as a value.
RECURSIVE Fits(_, _)
Fits(query, struct) ==
  /\ \A i \in DOMAIN query :
       /\ HasField(struct, query[i].name)
       /\ LET f == FieldOf(struct, query[i].name)
          IN  /\ SameShape(f, query[i])
              /\ query[i].nullable => f.nullable
              /\ query[i].fields # <<>> => Fits(query[i].fields, f.fields)
  /\ \A i \in DOMAIN struct : HasField(query, struct[i].name) \/ struct[i].nullable

\* Equal up to the order of the fields and the spelling of names and kinds.
RECURSIVE SameStruct(_, _)
SameStruct(s, t) ==
  /\ Len(s) = Len(t)
  /\ \A i \in DOMAIN s :
       /\ HasField(t, s[i].name)
       /\ LET f == FieldOf(t, s[i].name)
          IN  SameShape(f, s[i]) /\ f.nullable = s[i].nullable /\ SameStruct(f.fields, s[i].fields)
=============================================================================
