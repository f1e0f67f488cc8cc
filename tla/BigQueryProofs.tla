---------------------------- MODULE BigQueryProofs ----------------------------
(* What holds of a BigQuery catalog for any scripts, requests and number of   *)
(* registrations, and of EXTERNAL_QUERY for any analyzers, connections and    *)
(* statements.                                                                *)
(*                                                                            *)
(* The catalog's invariant relates four things: the native namespaces form a  *)
(* tree in which no two names differ only in case; each key of the cache      *)
(* leads to the namespace whose path it spells; the stage completes that tree *)
(* with namespaces and tables nothing native stands in the way of; and every  *)
(* source table the stage has passed is in all of its places, or was left out *)
(* for a reason the request allows.  All of it rests on PathsApart.           *)
EXTENDS BigQueryCatalog, ExternalQuery, Recursion, SequenceTheorems

------------------------------------------------------------------------------
Folds == {Fold[a] : a \in Idents}

(* Folding a name folds its identifiers one by one.                           *)
LEMMA FoldNameType ==
    ASSUME NEW n \in Names
    PROVE  FoldName(n) \in Seq(Folds) /\ Len(FoldName(n)) = Len(n) /\ \A i \in 1 .. Len(n) : FoldName(n)[i] = Fold[n[i]]
BY DEF Names, Folds, FoldName

(* Folding a path folds its names one by one.                                 *)
LEMMA FoldPathType ==
    ASSUME NEW p \in Paths
    PROVE  /\ FoldPath(p) \in Seq(Seq(Folds)) /\ Len(FoldPath(p)) = Len(p)
           /\ \A i \in 1 .. Len(p) : FoldPath(p)[i] = FoldName(p[i])
<1>1. \A i \in 1 .. Len(p) : FoldName(p[i]) \in Seq(Folds)
    BY FoldNameType DEF Paths
<1> QED BY <1>1 DEF Paths, FoldPath

(* A path and one more name fold to the folded path and the folded name.      *)
LEMMA FoldAppend ==
    ASSUME NEW p \in Paths, NEW n \in Names
    PROVE  FoldPath(Append(p, n)) = Append(FoldPath(p), FoldName(n))
<1>1. Append(p, n) \in Paths /\ FoldName(n) \in Seq(Folds)
    BY FoldNameType DEF Paths
<1>2. FoldPath(Append(p, n)) \in Seq(Seq(Folds)) /\ Append(FoldPath(p), FoldName(n)) \in Seq(Seq(Folds))
    BY <1>1, FoldPathType
<1>3. Len(FoldPath(Append(p, n))) = Len(p) + 1 /\ Len(Append(FoldPath(p), FoldName(n))) = Len(p) + 1
    <2>1. Len(Append(p, n)) = Len(p) + 1
        BY DEF Paths
    <2>2. FoldPath(p) \in Seq(Seq(Folds)) /\ Len(FoldPath(p)) = Len(p)
        BY FoldPathType
    <2>3. Len(Append(FoldPath(p), FoldName(n))) = Len(p) + 1
        BY <1>1, <2>2, AppendProperties
    <2>4. Len(FoldPath(Append(p, n))) = Len(p) + 1
        BY <1>1, <2>1, FoldPathType
    <2> QED BY <2>3, <2>4
<1>4. ASSUME NEW i \in 1 .. Len(FoldPath(Append(p, n)))
      PROVE  FoldPath(Append(p, n))[i] = Append(FoldPath(p), FoldName(n))[i]
    <2>0. i \in 1 .. Len(p) + 1 /\ Len(Append(p, n)) = Len(p) + 1
        BY <1>1, <1>3 DEF Paths
    <2>1. FoldPath(Append(p, n))[i] = FoldName(Append(p, n)[i])
        BY <1>1, <2>0, FoldPathType
    <2>2. CASE i = Len(p) + 1
        <3>1. Append(p, n)[i] = n /\ Append(FoldPath(p), FoldName(n))[i] = FoldName(n)
            BY <2>0, <2>2, <1>1, FoldPathType DEF Paths
        <3> QED BY <2>1, <3>1
    <2>3. CASE i # Len(p) + 1
        <3>1. i \in 1 .. Len(p) /\ Append(p, n)[i] = p[i] /\ Append(FoldPath(p), FoldName(n))[i] = FoldPath(p)[i]
            BY <2>0, <2>3, <1>1, FoldPathType DEF Paths
        <3> QED BY <2>1, <3>1, FoldPathType
    <2> QED BY <2>2, <2>3
<1> HIDE DEF Paths
<1> QED BY <1>2, <1>3, <1>4, SeqEqual

(* Two paths of at least one name fold alike exactly when what is above       *)
(* their last names and those names do.                                       *)
LEMMA FoldAppendInjective ==
    ASSUME NEW p \in Paths, NEW q \in Paths, NEW m \in Names, NEW n \in Names
    PROVE  FoldPath(Append(p, m)) = FoldPath(Append(q, n)) <=> FoldPath(p) = FoldPath(q) /\ Same(m, n)
<1>1. FoldPath(Append(p, m)) = Append(FoldPath(p), FoldName(m)) /\ FoldPath(Append(q, n)) = Append(FoldPath(q), FoldName(n))
    BY FoldAppend
<1>2. FoldPath(p) \in Seq(Seq(Folds)) /\ FoldPath(q) \in Seq(Seq(Folds)) /\ FoldName(m) \in Seq(Folds) /\ FoldName(n) \in Seq(Folds)
    BY FoldPathType, FoldNameType
<1> QED BY <1>1, <1>2, AppendInjective DEF Same

(* A sequence that is not empty is what is before its last element, and that  *)
(* element.                                                                   *)
LEMMA FrontAndLast ==
    ASSUME NEW S, NEW p \in Seq(S), p # << >>
    PROVE  Front(p) \in Seq(S) /\ Last(p) \in S /\ p = Append(Front(p), Last(p)) /\ Len(Front(p)) = Len(p) - 1
<1>1. Len(p) \in Nat /\ Len(p) > 0
    BY EmptySeq
<1>2. Front(p) \in Seq(S) /\ Len(Front(p)) = Len(p) - 1 /\ \A i \in 1 .. Len(p) - 1 : Front(p)[i] = p[i]
    <2> DEFINE k == Len(p) - 1
    <2>1. k \in Nat /\ \A i \in 1 .. k : p[i] \in S
        BY <1>1
    <2>2. SubSeq(p, 1, k) \in Seq(S) /\ Len(SubSeq(p, 1, k)) = k /\ \A i \in 1 .. k : SubSeq(p, 1, k)[i] = p[i]
        <3> HIDE DEF k
        <3> QED BY <2>1
    <2> QED BY <2>2 DEF Front
<1>3. Last(p) \in S /\ Last(p) = p[Len(p)]
    BY <1>1 DEF Last
<1>4. p = Append(Front(p), Last(p))
    <2> DEFINE q == Append(Front(p), Last(p))
    <2>1. q \in Seq(S) /\ Len(q) = Len(p) /\ \A i \in 1 .. Len(p) : q[i] = p[i]
        BY <1>1, <1>2, <1>3
    <2>2. p = q
        <3> HIDE DEF q
        <3> QED BY <2>1, SeqEqual
    <2> QED BY <2>2
<1> QED BY <1>2, <1>3, <1>4

(* Front and Last take an appended sequence apart again.                      *)
LEMMA AppendParts ==
    ASSUME NEW S, NEW p \in Seq(S), NEW n \in S
    PROVE  Front(Append(p, n)) = p /\ Last(Append(p, n)) = n
<1>1. /\ Append(p, n) \in Seq(S) /\ Len(Append(p, n)) = Len(p) + 1 /\ Append(p, n)[Len(p) + 1] = n
      /\ \A i \in 1 .. Len(p) : Append(p, n)[i] = p[i]
    BY AppendProperties
<1>2. Last(Append(p, n)) = n
    BY <1>1 DEF Last
<1>3. Front(Append(p, n)) \in Seq(S) /\ Len(Front(Append(p, n))) = Len(p)
      /\ \A i \in 1 .. Len(p) : Front(Append(p, n))[i] = p[i]
    <2> DEFINE q == Append(p, n)
    <2>1. Len(p) \in Nat /\ q \in Seq(S) /\ Len(q) - 1 = Len(p) /\ \A i \in 1 .. Len(p) : q[i] = p[i]
        BY <1>1
    <2>2. Front(q) \in Seq(S) /\ Len(Front(q)) = Len(p) /\ \A i \in 1 .. Len(p) : Front(q)[i] = q[i]
        <3> HIDE DEF q
        <3> QED BY <2>1 DEF Front
    <2> QED BY <2>1, <2>2
<1> QED BY <1>2, <1>3, SeqEqual

(* The root is a path, and the only one that folds to nothing.                *)
LEMMA FoldRoot ==
    /\ Root \in Paths /\ FoldPath(Root) = << >> /\ Dotted(Root) = << >>
    /\ \A p \in Paths : FoldPath(p) = << >> => p = Root
<1>1. Root \in Paths
    BY DEF Root, Paths
<1>2. FoldPath(Root) = << >>
    BY <1>1, FoldPathType DEF Root
<1>3. Dotted(Root) = << >>
    BY DEF Dotted, Root, FlattenSeq
<1>4. ASSUME NEW p \in Paths, FoldPath(p) = << >> PROVE p = Root
    <2>1. Len(p) = 0
        BY <1>4, FoldPathType
    <2> QED BY <2>1 DEF Paths, Root
<1> QED BY <1>1, <1>2, <1>3, <1>4

(* Each prefix of a path is the one before it and one more name.              *)
LEMMA PrefixGrows ==
    ASSUME NEW p \in Paths, NEW i \in 1 .. Len(p)
    PROVE  /\ Prefix(p, i) \in Paths /\ Prefix(p, i - 1) \in Paths /\ p[i] \in Names
           /\ Prefix(p, i) = Append(Prefix(p, i - 1), p[i])
<1>1. p[i] \in Names
    BY DEF Paths
<1>2. Prefix(p, i) \in Paths /\ Prefix(p, i - 1) \in Paths
    BY DEF Paths, Prefix
<1>3. Prefix(p, i) = Append(Prefix(p, i - 1), p[i])
    BY DEF Paths, Prefix
<1> QED BY <1>1, <1>2, <1>3

(* The first prefix of a path is the root, the one short of it by a name its  *)
(* front.                                                                     *)
LEMMA PrefixEnds ==
    ASSUME NEW p \in Paths, p # Root
    PROVE  Prefix(p, 0) = Root /\ Prefix(p, Len(p) - 1) = Front(p)
BY DEF Paths, Prefix, Root, Front

(* Folding and taking a prefix may change places.                             *)
LEMMA FoldPrefix ==
    ASSUME NEW p \in Paths, NEW i \in 0 .. Len(p)
    PROVE  FoldPath(Prefix(p, i)) = SubSeq(FoldPath(p), 1, i)
<1>1. Prefix(p, i) \in Paths /\ Len(Prefix(p, i)) = i /\ \A j \in 1 .. i : Prefix(p, i)[j] = p[j]
    BY DEF Paths, Prefix
<1>2. FoldPath(p) \in Seq(Seq(Folds)) /\ Len(FoldPath(p)) = Len(p) /\ \A j \in 1 .. Len(p) : FoldPath(p)[j] = FoldName(p[j])
    BY FoldPathType
<1>3. /\ FoldPath(Prefix(p, i)) \in Seq(Seq(Folds)) /\ Len(FoldPath(Prefix(p, i))) = i
      /\ \A j \in 1 .. i : FoldPath(Prefix(p, i))[j] = FoldName(p[j])
    BY <1>1, FoldPathType
<1>4. SubSeq(FoldPath(p), 1, i) \in Seq(Seq(Folds)) /\ Len(SubSeq(FoldPath(p), 1, i)) = i
      /\ \A j \in 1 .. i : SubSeq(FoldPath(p), 1, i)[j] = FoldPath(p)[j]
    BY <1>2
<1> HIDE DEF Prefix
<1>5. ASSUME NEW j \in 1 .. Len(FoldPath(Prefix(p, i))) PROVE FoldPath(Prefix(p, i))[j] = SubSeq(FoldPath(p), 1, i)[j]
    <2>1. j \in 1 .. i /\ j \in 1 .. Len(p)
        BY <1>3, <1>2 DEF Paths
    <2> QED BY <1>2, <1>3, <1>4, <2>1
<1> QED BY <1>3, <1>4, <1>5, SeqEqual

(* The dotted form of a path is the concatenation of its names, from the left. *)
LEMMA DottedIsConcatenation ==
    ASSUME NEW p \in Paths, p # Root
    PROVE  \E g \in [1 .. Len(p) -> Names] :
               /\ Dotted(p) = g[Len(p)] /\ g[1] = p[1]
               /\ \A i \in 2 .. Len(p) : g[i] = g[i - 1] \o p[i]
<1> DEFINE n == Len(p)
           F == [z \in Names \X (1 .. n) |-> IF z[2] = 1 THEN p[1] ELSE z[1] \o p[z[2]]]
           Eq(f) == f = [i \in 1 .. n |-> IF i = 1 THEN p[i] ELSE f[i - 1] \o p[i]]
<1>1. n \in Nat /\ n > 0 /\ \A i \in 1 .. n : p[i] \in Names
    BY DEF Paths, Root
<1>2. << >> \in Names
    BY DEF Names
<1>3. F \in [Names \X (1 .. n) -> Names]
    <2>1. ASSUME NEW z \in Names \X (1 .. n) PROVE (IF z[2] = 1 THEN p[1] ELSE z[1] \o p[z[2]]) \in Names
        <3>1. z[1] \in Names /\ p[z[2]] \in Names /\ p[1] \in Names
            BY <1>1
        <3> QED BY <3>1 DEF Names
    <2> QED BY <2>1
<1>4. PICK g \in [0 .. n -> Names] : g[0] = << >> /\ \A i \in 1 .. n : g[i] = F[<<g[i - 1], i>>]
    <2>1. n \in Nat
        BY <1>1
    <2> HIDE DEF F, n
    <2>2. PICK g : IsRun(g, n, Names, << >>, F)
        BY <1>2, <1>3, <2>1, RunOf
    <2> QED BY <2>2 DEF IsRun
<1>5. \A i \in 1 .. n : g[i] = IF i = 1 THEN p[i] ELSE g[i - 1] \o p[i]
    <2>1. ASSUME NEW i \in 1 .. n PROVE g[i] = IF i = 1 THEN p[i] ELSE g[i - 1] \o p[i]
        <3>1. <<g[i - 1], i>> \in Names \X (1 .. n)
            BY <1>1
        <3> QED BY <1>4, <3>1
    <2> QED BY <2>1
<1> DEFINE h == [i \in 1 .. n |-> g[i]]
<1>6. \E f : Eq(f)
    <2>1. ASSUME NEW i \in 1 .. n PROVE h[i] = IF i = 1 THEN p[i] ELSE h[i - 1] \o p[i]
        <3>1. h[i] = g[i] /\ (i # 1 => h[i - 1] = g[i - 1])
            BY <1>1
        <3> HIDE DEF h
        <3> QED BY <1>5, <3>1
    <2>2. h = [i \in 1 .. n |-> h[i]]
        OBVIOUS
    <2>3. Eq(h)
        <3> HIDE DEF h
        <3> QED BY <2>1, <2>2
    <2> QED BY <2>3
<1> DEFINE d == CHOOSE f : Eq(f)
<1>7. Eq(d)
    <2> HIDE DEF Eq
    <2> QED BY <1>6
<1>8. Dotted(p) = d[n]
    BY <1>1 DEF Dotted, FlattenSeq
<1> HIDE DEF d, F, n
<1>9. DOMAIN d = 1 .. n /\ \A i \in 1 .. n : d[i] = IF i = 1 THEN p[i] ELSE d[i - 1] \o p[i]
    BY <1>7
<1>10. ASSUME NEW i \in 1 .. n PROVE d[i] \in Names
    <2> DEFINE A == {k \in 0 .. n : k = 0 \/ d[k] \in Names}
    <2>1. ASSUME NEW k \in A, k < i PROVE k + 1 \in A
        <3>1. k \in Nat /\ k + 1 \in 1 .. n
            BY <1>1, <2>1
        <3>2. d[k + 1] = IF k + 1 = 1 THEN p[k + 1] ELSE d[k] \o p[k + 1]
            BY <1>1, <1>9, <3>1
        <3>3. d[k + 1] \in Names
            BY <1>1, <3>1, <3>2 DEF Names
        <3> QED BY <3>1, <3>3
    <2>2. 0 \in A /\ i \in Nat
        BY <1>1
    <2>3. i \in A
        <3> HIDE DEF A
        <3> QED BY <2>1, <2>2, UpTo
    <2> QED BY <2>3
<1>11. d \in [1 .. n -> Names] /\ d[1] = p[1] /\ \A i \in 2 .. n : d[i] = d[i - 1] \o p[i]
    <2>1. d = [i \in 1 .. n |-> d[i]]
        BY <1>7
    <2>2. d \in [1 .. n -> Names]
        BY <1>10, <2>1
    <2>3. d[1] = p[1] /\ \A i \in 2 .. n : d[i] = d[i - 1] \o p[i]
        BY <1>1, <1>9
    <2> QED BY <2>2, <2>3
<1> QED BY <1>8, <1>11 DEF n

(* The dotted form of a path is a name.                                       *)
LEMMA DottedType ==
    ASSUME NEW p \in Paths
    PROVE  Dotted(p) \in Names
<1>1. CASE p = Root
    BY <1>1, FoldRoot DEF Names
<1>2. CASE p # Root
    <2>1. Len(p) \in 1 .. Len(p)
        BY <1>2 DEF Paths, Root
    <2>2. PICK g \in [1 .. Len(p) -> Names] : Dotted(p) = g[Len(p)]
        BY <1>2, DottedIsConcatenation
    <2> QED BY <2>1, <2>2
<1> QED BY <1>1, <1>2

(* Folding a concatenation folds its two parts.                               *)
LEMMA FoldConcatenation ==
    ASSUME NEW m \in Names, NEW n \in Names
    PROVE  FoldName(m \o n) = FoldName(m) \o FoldName(n)
<1>1. m \o n \in Names /\ Len(m \o n) = Len(m) + Len(n) /\ Len(m) \in Nat /\ Len(n) \in Nat
    BY DEF Names
<1>2. /\ FoldName(m) \in Seq(Folds) /\ FoldName(n) \in Seq(Folds)
      /\ Len(FoldName(m)) = Len(m) /\ Len(FoldName(n)) = Len(n)
    BY FoldNameType
<1>3. /\ FoldName(m \o n) \in Seq(Folds) /\ Len(FoldName(m \o n)) = Len(m) + Len(n)
      /\ \A i \in 1 .. Len(m) + Len(n) : FoldName(m \o n)[i] = Fold[(m \o n)[i]]
    BY <1>1, FoldNameType
<1>4. /\ FoldName(m) \o FoldName(n) \in Seq(Folds) /\ Len(FoldName(m) \o FoldName(n)) = Len(m) + Len(n)
      /\ \A i \in 1 .. Len(m) + Len(n) : (FoldName(m) \o FoldName(n))[i] =
             IF i <= Len(m) THEN FoldName(m)[i] ELSE FoldName(n)[i - Len(m)]
    <2> DEFINE a == FoldName(m)
               b == FoldName(n)
    <2> HIDE DEF a, b
    <2>1. /\ a \o b \in Seq(Folds) /\ Len(a \o b) = Len(a) + Len(b)
          /\ \A i \in 1 .. Len(a) + Len(b) : (a \o b)[i] = IF i <= Len(a) THEN a[i] ELSE b[i - Len(a)]
        BY <1>2, ConcatProperties DEF a, b
    <2>2. Len(a) = Len(m) /\ Len(b) = Len(n)
        BY <1>2 DEF a, b
    <2> QED BY <2>1, <2>2 DEF a, b
<1>5. \A i \in 1 .. Len(m) + Len(n) : (m \o n)[i] = IF i <= Len(m) THEN m[i] ELSE n[i - Len(m)]
    BY ConcatProperties DEF Names
<1>6. ASSUME NEW i \in 1 .. Len(FoldName(m \o n)) PROVE FoldName(m \o n)[i] = (FoldName(m) \o FoldName(n))[i]
    <2>0. i \in 1 .. Len(m) + Len(n)
        BY <1>3
    <2>1. CASE i <= Len(m)
        <3>1. i \in 1 .. Len(m)
            BY <2>0, <2>1, <1>1
        <3>2. FoldName(m)[i] = Fold[m[i]]
            BY <3>1, FoldNameType
        <3> QED BY <1>3, <1>4, <1>5, <2>0, <2>1, <3>2
    <2>2. CASE ~(i <= Len(m))
        <3>1. i - Len(m) \in 1 .. Len(n)
            BY <2>0, <2>2, <1>1
        <3>2. FoldName(n)[i - Len(m)] = Fold[n[i - Len(m)]]
            BY <3>1, FoldNameType
        <3> QED BY <1>3, <1>4, <1>5, <2>0, <2>2, <3>2
    <2> QED BY <2>1, <2>2
<1> QED BY <1>3, <1>4, <1>6, SeqEqual

(* Paths that differ only in case have dotted forms that differ only in case. *)
LEMMA DottedFolds ==
    ASSUME NEW p \in Paths, NEW q \in Paths, FoldPath(p) = FoldPath(q)
    PROVE  Same(Dotted(p), Dotted(q))
<1>1. Len(p) = Len(q) /\ Len(p) \in Nat /\ \A i \in 1 .. Len(p) : FoldName(p[i]) = FoldName(q[i])
    <2>1. Len(p) = Len(q) /\ Len(p) \in Nat
        BY FoldPathType DEF Paths
    <2>2. \A i \in 1 .. Len(p) : FoldPath(p)[i] = FoldName(p[i]) /\ FoldPath(q)[i] = FoldName(q[i])
        BY <2>1, FoldPathType
    <2> QED BY <2>1, <2>2
<1>2. CASE p = Root
    <2>1. q = Root
        BY <1>2, FoldRoot
    <2> QED BY <1>2, <2>1 DEF Same
<1>3. CASE p # Root
    <2>0. q # Root /\ Len(p) > 0
        BY <1>3, FoldRoot DEF Paths, Root
    <2>1. PICK g \in [1 .. Len(p) -> Names] :
               /\ Dotted(p) = g[Len(p)] /\ g[1] = p[1]
               /\ \A i \in 2 .. Len(p) : g[i] = g[i - 1] \o p[i]
        BY <1>3, DottedIsConcatenation
    <2>2. PICK h \in [1 .. Len(q) -> Names] :
               /\ Dotted(q) = h[Len(q)] /\ h[1] = q[1]
               /\ \A i \in 2 .. Len(q) : h[i] = h[i - 1] \o q[i]
        BY <2>0, DottedIsConcatenation
    <2> DEFINE A == {k \in 0 .. Len(p) : k = 0 \/ FoldName(g[k]) = FoldName(h[k])}
    <2>3. ASSUME NEW k \in A, k < Len(p) PROVE k + 1 \in A
        <3>1. k + 1 \in 1 .. Len(p) /\ k \in Nat
            BY <1>1, <2>3
        <3>2. CASE k = 0
            BY <1>1, <2>1, <2>2, <3>1, <3>2
        <3>3. CASE k # 0
            <4>1. k \in 1 .. Len(p) /\ k + 1 \in 2 .. Len(p) /\ (k + 1) - 1 = k
                BY <3>1, <3>3
            <4>2. g[k] \in Names /\ h[k] \in Names /\ p[k + 1] \in Names /\ q[k + 1] \in Names
                BY <1>1, <3>1, <4>1, <2>1, <2>2 DEF Paths
            <4>3. g[k + 1] = g[k] \o p[k + 1] /\ h[k + 1] = h[k] \o q[k + 1]
                BY <1>1, <2>1, <2>2, <4>1
            <4>4. FoldName(g[k + 1]) = FoldName(g[k]) \o FoldName(p[k + 1]) /\ FoldName(h[k + 1]) = FoldName(h[k]) \o FoldName(q[k + 1])
                BY <4>2, <4>3, FoldConcatenation
            <4>5. FoldName(g[k]) = FoldName(h[k]) /\ FoldName(p[k + 1]) = FoldName(q[k + 1])
                BY <1>1, <3>1, <3>3
            <4>6. FoldName(g[k + 1]) = FoldName(h[k + 1])
                BY <4>4, <4>5
            <4> QED BY <3>1, <4>6
        <3> QED BY <3>2, <3>3
    <2>4. Len(p) \in A
        <3>1. 0 \in A
            BY <1>1
        <3> HIDE DEF A
        <3> QED BY <1>1, <2>3, <3>1, UpTo
    <2> QED BY <1>1, <2>0, <2>1, <2>2, <2>4 DEF Same
<1> QED BY <1>2, <1>3

(* Requests: where their paths lie. *)
LEMMA RequestTypes ==
    ASSUME NEW r \in Requests, WellFormed(r)
    PROVE  /\ RefPath(r) \in Paths /\ AliasPath(r) \in Paths /\ AliasPath(r) = << <<Last(r.dataset)>> >>
           /\ Len(RefPath(r)) \in 1 .. 2 /\ RefPath(r)[Len(RefPath(r))] = <<Last(r.dataset)>>
           /\ ProjectOf(r) = None => RefPath(r) = AliasPath(r)
<1>1. r \in RequestForms
    BY InputsAssumption DEF InputsAssumption
<1>2. Len(r.dataset) \in 1 .. 2 /\ r.dataset \in Seq(Idents)
    BY <1>1 DEF WellFormed, RequestForms
<1>3. Last(r.dataset) \in Idents /\ r.dataset[1] \in Idents
    BY <1>2 DEF Last
<1>4. ProjectOf(r) # None => ProjectOf(r) \in Idents
    BY <1>1, <1>2, <1>3 DEF ProjectOf, RequestForms
<1> DEFINE d == Last(r.dataset)
<1> HIDE DEF d
<1>5. << <<d>> >> \in Paths
    BY <1>3 DEF Paths, Names, d
<1>6. ProjectOf(r) # None => << <<ProjectOf(r)>>, <<d>> >> \in Paths
    BY <1>3, <1>4 DEF Paths, Names, d
<1> QED BY <1>5, <1>6 DEF RefPath, AliasPath, d

(* The tables of a request are named by paths and have identifiers for        *)
(* columns.                                                                   *)
LEMMA TableTypes ==
    ASSUME NEW r \in Requests, NEW t \in ToSet(r.tables)
    PROVE  t \in SourceTables /\ t.name[1] \in Names /\ VisibleColumns(t) \in SUBSET Idents
<1>1. r \in RequestForms
    BY InputsAssumption DEF InputsAssumption
<1>2. t \in SourceTables
    BY <1>1 DEF RequestForms, ToSet
<1>3. t.name \in Seq(Names) /\ t.name # << >> /\ t.columns \in SUBSET [name : Idents, kind : STRING]
    BY <1>2 DEF SourceTables, Paths
<1>4. t.name[1] \in Names
    BY <1>3
<1> QED BY <1>2, <1>3, <1>4 DEF VisibleColumns

(* The short path is the last two names of the full one, whether or not       *)
(* there is a project in front.                                               *)
LEMMA LastTwo ==
    ASSUME NEW S, NEW d \in Seq(S), NEW x \in S, Len(d) \in 1 .. 2, NEW l \in S, d[Len(d)] = l
    PROVE  /\ Append(d, x) \in Seq(S) /\ Append(<<l>>, x) \in Seq(S)
           /\ Len(Append(d, x)) = Len(d) + 1 /\ Len(Append(<<l>>, x)) = 2
           /\ Append(<<l>>, x) = SubSeq(Append(d, x), Len(d), Len(d) + 1)
<1> DEFINE e == Append(d, x)
           n == Len(d)
           b == Append(<<l>>, x)
<1>1. e \in Seq(S) /\ Len(e) = n + 1 /\ n \in 1 .. 2 /\ (\A i \in 1 .. n : e[i] = d[i]) /\ e[n + 1] = x
    BY AppendProperties
<1>2. b \in Seq(S) /\ Len(b) = 2 /\ b[1] = l /\ b[2] = x
    <2>1. <<l>> \in Seq(S) /\ Len(<<l>>) = 1 /\ <<l>>[1] = l
        OBVIOUS
    <2> QED BY <2>1, AppendProperties
<1>3. e[n] = l
    BY <1>1, n \in 1 .. n
<1> HIDE DEF e, b, n
<1>4. \A i \in n .. n + 1 : e[i] \in S
    BY <1>1
<1>5. SubSeq(e, n, n + 1) \in Seq(S) /\ Len(SubSeq(e, n, n + 1)) = 2
      /\ \A i \in 1 .. 2 : SubSeq(e, n, n + 1)[i] = e[n + i - 1]
    BY <1>1, <1>4
<1>6. SubSeq(e, n, n + 1)[1] = l /\ SubSeq(e, n, n + 1)[2] = x
    <2>1. n + 1 - 1 = n /\ n + 2 - 1 = n + 1
        BY <1>1
    <2> QED BY <1>1, <1>3, <1>5, <2>1
<1>7. b = SubSeq(e, n, n + 1)
    <2>1. ASSUME NEW i \in 1 .. Len(b) PROVE b[i] = SubSeq(e, n, n + 1)[i]
        <3>1. i = 1 \/ i = 2
            BY <1>2
        <3>2. b[1] = SubSeq(e, n, n + 1)[1] /\ b[2] = SubSeq(e, n, n + 1)[2]
            BY <1>2, <1>6
        <3> QED BY <3>1, <3>2
    <2> QED BY <1>2, <1>5, <2>1, SeqEqual
<1> QED BY <1>1, <1>2, <1>7 DEF e, b, n

(* The two paths of a table: the short one is the end of the full one, and    *)
(* both are among the paths that relations are placed under.                  *)
LEMMA PathTypes ==
    ASSUME NEW r \in Requests, WellFormed(r), NEW t \in DefaultTables(r)
    PROVE  /\ FullPath(r, t) \in Paths /\ ShortPath(r, t) \in Paths
           /\ Len(FullPath(r, t)) \in 2 .. 3 /\ Len(ShortPath(r, t)) = 2
           /\ ShortPath(r, t) = SubSeq(FullPath(r, t), Len(FullPath(r, t)) - 1, Len(FullPath(r, t)))
           /\ ProjectOf(r) = None => ShortPath(r, t) = FullPath(r, t)
           /\ FullPath(r, t) \in PlacedPaths /\ ShortPath(r, t) \in PlacedPaths
<1>1. t.name[1] \in Names
    BY TableTypes DEF DefaultTables
<1> DEFINE d == RefPath(r)
           a == AliasPath(r)
           x == t.name[1]
           l == <<Last(r.dataset)>>
<1>2. d \in Seq(Names) /\ a \in Seq(Names) /\ a = <<l>> /\ Len(d) \in 1 .. 2 /\ d[Len(d)] = l /\ (ProjectOf(r) = None => d = a)
    BY RequestTypes DEF Paths
<1> HIDE DEF d, a, x, l
<1>3. Append(d, x) \in Seq(Names) /\ Append(a, x) \in Seq(Names) /\ Len(Append(d, x)) = Len(d) + 1
      /\ Len(Append(a, x)) = 2 /\ Append(a, x) = SubSeq(Append(d, x), Len(d), Len(d) + 1)
    <2>1. x \in Names /\ l \in Names
        BY <1>1, <1>2 DEF x
    <2> QED BY <1>2, <2>1, LastTwo
<1>5. FullPath(r, t) = Append(d, x) /\ ShortPath(r, t) = Append(a, x)
    BY DEF FullPath, ShortPath, d, a, x
<1>6. FullPath(r, t) \in PlacedPaths /\ ShortPath(r, t) \in PlacedPaths
    <2> DEFINE Q == {q \in Requests : WellFormed(q)}
               Of(q) == UNION {{FullPath(q, u), ShortPath(q, u)} : u \in DefaultTables(q)}
    <2>1. FullPath(r, t) \in Of(r) /\ ShortPath(r, t) \in Of(r) /\ r \in Q
        OBVIOUS
    <2>2. FullPath(r, t) \in UNION {Of(q) : q \in Q} /\ ShortPath(r, t) \in UNION {Of(q) : q \in Q}
        <3> HIDE DEF Q, Of
        <3> QED BY <2>1
    <2> QED BY <2>2 DEF PlacedPaths
<1>7. /\ FullPath(r, t) \in Paths /\ ShortPath(r, t) \in Paths /\ Len(FullPath(r, t)) = Len(d) + 1
      /\ Len(FullPath(r, t)) \in 2 .. 3 /\ Len(ShortPath(r, t)) = 2
    BY <1>2, <1>3, <1>5 DEF Paths
<1>8. ShortPath(r, t) = SubSeq(FullPath(r, t), Len(FullPath(r, t)) - 1, Len(FullPath(r, t)))
    <2>1. Len(d) + 1 - 1 = Len(d)
        BY <1>2
    <2> QED BY <1>3, <1>5, <1>7, <2>1
<1>9. ProjectOf(r) = None => ShortPath(r, t) = FullPath(r, t)
    BY <1>2, <1>5
<1> QED BY <1>2, <1>6, <1>7, <1>8, <1>9

(* What a statement of a script registers is placed under its path.           *)
LEMMA StatementPaths ==
    ASSUME NEW script \in Scripts, NEW i \in DOMAIN script, script[i].kind \in Registers
    PROVE  script[i] \in Statements /\ script[i].path \in Paths \ {Root} /\ script[i].path \in PlacedPaths
<1>1. script[i] \in Statements
    BY InputsAssumption DEF InputsAssumption
<1>2. script[i].path \in Paths \ {Root}
    BY <1>1 DEF Statements
<1>3. script[i].path \in PlacedPaths
    <2> DEFINE Of(q) == {q[k].path : k \in {j \in DOMAIN q : q[j].kind \in Registers}}
    <2>1. script[i].path \in Of(script)
        OBVIOUS
    <2>2. script[i].path \in UNION {Of(q) : q \in Scripts}
        <3> HIDE DEF Of
        <3> QED BY <2>1
    <2> QED BY <2>2 DEF PlacedPaths
<1> QED BY <1>1, <1>2, <1>3

(* Relations are placed under paths of at least one name.                     *)
LEMMA PlacedAreNonempty == PlacedPaths \subseteq Paths \ {Root}
<1> SUFFICES ASSUME NEW p \in PlacedPaths PROVE p \in Paths /\ p # Root
    OBVIOUS
<1> DEFINE S(q) == {q[k].path : k \in {j \in DOMAIN q : q[j].kind \in Registers}}
           Of(q) == UNION {{FullPath(q, u), ShortPath(q, u)} : u \in DefaultTables(q)}
           Q == {q \in Requests : WellFormed(q)}
<1>1. (\E q \in Scripts : p \in S(q)) \/ (\E q \in Q : p \in Of(q))
    BY DEF PlacedPaths
<1>2. CASE \E q \in Scripts : p \in S(q)
    BY <1>2, StatementPaths
<1>3. CASE \E q \in Q : p \in Of(q)
    <2>1. PICK q \in Requests : WellFormed(q) /\ p \in Of(q)
        BY <1>3
    <2>2. PICK u \in DefaultTables(q) : p = FullPath(q, u) \/ p = ShortPath(q, u)
        BY <2>1
    <2>3. p \in Paths /\ Len(p) \in 2 .. 3
        <3>1. CASE p = FullPath(q, u)
            BY <2>1, <2>2, <3>1, PathTypes
        <3>2. CASE p = ShortPath(q, u)
            <4>1. ShortPath(q, u) \in Paths /\ Len(ShortPath(q, u)) = 2
                BY <2>1, <2>2, PathTypes
            <4> QED BY <3>2, <4>1
        <3> QED BY <2>2, <3>1, <3>2
    <2> QED BY <2>3 DEF Root
<1> QED BY <1>1, <1>2, <1>3

(* Every prefix of a placed path that is short of the path is a namespace. *)
LEMMA NamespacesAbove ==
    ASSUME NEW p \in PlacedPaths
    PROVE  /\ p \in Paths /\ p # Root /\ Len(p) - 1 \in Nat
           /\ \A i \in 0 .. Len(p) - 1 : Prefix(p, i) \in NamespacePaths
<1>1. p \in Paths /\ p # Root
    BY PlacedAreNonempty
<1>2. Len(p) - 1 \in Nat
    BY <1>1 DEF Paths, Root
<1> DEFINE Of(q) == {Prefix(q, i) : i \in 0 .. Len(q) - 1}
<1>3. ASSUME NEW i \in 0 .. Len(p) - 1 PROVE Prefix(p, i) \in NamespacePaths
    <2>1. Prefix(p, i) \in Of(p)
        OBVIOUS
    <2>2. Prefix(p, i) \in UNION {Of(q) : q \in PlacedPaths}
        <3> HIDE DEF Of
        <3> QED BY <2>1
    <2> QED BY <2>2 DEF NamespacePaths
<1> QED BY <1>1, <1>2, <1>3

(* The namespaces above placed relations are paths.                           *)
LEMMA NamespacesArePaths == NamespacePaths \subseteq Paths
<1> SUFFICES ASSUME NEW x \in NamespacePaths PROVE x \in Paths
    OBVIOUS
<1> DEFINE Of(q) == {Prefix(q, i) : i \in 0 .. Len(q) - 1}
<1>1. CASE x = Root
    BY <1>1, FoldRoot
<1>2. CASE x # Root
    <2>1. PICK p \in PlacedPaths : x \in Of(p)
        BY <1>2 DEF NamespacePaths
    <2>2. PICK i \in 0 .. Len(p) - 1 : x = Prefix(p, i)
        BY <2>1
    <2>3. p \in Paths /\ Len(p) - 1 \in Nat
        BY NamespacesAbove
    <2>4. i + 1 \in 1 .. Len(p) /\ (i + 1) - 1 = i
        BY <2>2, <2>3
    <2> QED BY <2>2, <2>3, <2>4, PrefixGrows
<1> QED BY <1>1, <1>2

------------------------------------------------------------------------------
(* The tree of native namespaces, and caches that lead into it.               *)

Caches == UNION {[D -> Paths] : D \in SUBSET Names}

(* Assigning a key of a cache sets it and leaves the other keys alone.        *)
LEMMA CacheAssigns ==
    ASSUME NEW c \in Caches, NEW k \in Names, NEW v \in Paths
    PROVE  /\ Assign(c, k, v) \in Caches /\ DOMAIN Assign(c, k, v) = DOMAIN c \cup {k}
           /\ Assign(c, k, v)[k] = v
           /\ \A x \in DOMAIN c : x # k => Assign(c, k, v)[x] = c[x]
<1>1. PICK D \in SUBSET Names : c \in [D -> Paths]
    BY DEF Caches
<1> DEFINE d == Assign(c, k, v)
           E == D \cup {k}
<1>2. d \in [E -> Paths] /\ d[k] = v /\ (\A x \in D : x # k => d[x] = c[x]) /\ DOMAIN d = E
    BY <1>1 DEF Assign
<1>3. d \in Caches
    <2>1. E \in SUBSET Names
        BY <1>1
    <2> HIDE DEF d, E
    <2> QED BY <1>2, <2>1 DEF Caches
<1> HIDE DEF d
<1> QED BY <1>1, <1>2, <1>3 DEF d

IsTree(N) ==
    /\ N \subseteq Paths \ {Root}
    /\ \A n \in N : Front(n) \in N \cup {Root}
    /\ \A m, n \in N : FoldPath(m) = FoldPath(n) => m = n

Leads(c, N) ==
    /\ c \in Caches
    /\ \A k \in DOMAIN c : /\ c[k] \in N \cup {Root}
                           /\ \E p \in NamespacePaths : k = Dotted(p) /\ FoldPath(c[k]) = FoldPath(p)

(* A cache knows the namespace above every namespace it knows. *)
Kept(c) == Root \in Range(c) /\ \A n \in Range(c) : n = Root \/ Front(n) \in Range(c)

(* A cache that leads into a tree holds its namespaces and the root only.     *)
LEMMA LeadsInto == ASSUME NEW N, NEW c, Leads(c, N) PROVE Range(c) \subseteq N \cup {Root}
BY DEF Leads, Range

(* A namespace of a tree is known by its path up to case.                     *)
LEMMA TreeUnique ==
    ASSUME NEW N, IsTree(N), NEW m \in N \cup {Root}, NEW n \in N \cup {Root}, FoldPath(m) = FoldPath(n)
    PROVE  m = n
BY FoldRoot DEF IsTree

(* What HasNamespace asks for, the namespace of that name below a given one,  *)
(* is the namespace whose path folds to theirs.                               *)
LEMMA TreeHas ==
    ASSUME NEW N, IsTree(N), NEW at \in N \cup {Root}, NEW name \in Names, NEW n \in N
    PROVE  Front(n) = at /\ Same(Last(n), name) <=> FoldPath(n) = FoldPath(Append(at, name))
<1>1. n \in Paths /\ n # Root /\ at \in Paths /\ Front(n) \in N \cup {Root}
    BY FoldRoot DEF IsTree
<1>2. Front(n) \in Paths /\ Last(n) \in Names /\ n = Append(Front(n), Last(n))
    BY <1>1, FrontAndLast DEF Paths, Root
<1>3. FoldPath(n) = FoldPath(Append(at, name)) <=> FoldPath(Front(n)) = FoldPath(at) /\ Same(Last(n), name)
    <2>1. FoldPath(Append(Front(n), Last(n))) = FoldPath(Append(at, name)) <=> FoldPath(Front(n)) = FoldPath(at) /\ Same(Last(n), name)
        BY <1>1, <1>2, FoldAppendInjective
    <2>2. FoldPath(Append(Front(n), Last(n))) = FoldPath(n)
        BY <1>2
    <2> QED BY <2>1, <2>2
<1>4. FoldPath(Front(n)) = FoldPath(at) <=> Front(n) = at
    BY <1>1, TreeUnique
<1> QED BY <1>3, <1>4

(* A namespace made where HasNamespace finds none keeps the tree a tree.      *)
LEMMA TreeGrows ==
    ASSUME NEW N, IsTree(N), NEW at \in N \cup {Root}, NEW name \in Names,
           \A n \in N : FoldPath(n) # FoldPath(Append(at, name))
    PROVE  IsTree(N \cup {Append(at, name)}) /\ Append(at, name) \in Paths
<1> DEFINE made == Append(at, name)
<1>1. at \in Paths
    BY FoldRoot DEF IsTree
<1>2. made \in Paths /\ made # Root /\ Front(made) = at
    <2>1. at \in Seq(Names)
        BY <1>1 DEF Paths
    <2> QED BY <2>1, AppendParts, AppendProperties DEF Paths, Root
<1>3. \A n \in N : FoldPath(n) # FoldPath(made)
    OBVIOUS
<1> HIDE DEF made
<1>4. IsTree(N \cup {made})
    BY <1>2, <1>3 DEF IsTree
<1> QED BY <1>2, <1>4 DEF made

(* Where namespaces are apart, a key that matches the dotted form of a path   *)
(* leads to that path, whichever of the matching keys is taken: the order in  *)
(* which the code ranges over its map does not matter.                        *)
LEMMA KeyLeads ==
    ASSUME PathsApart, NEW N, NEW c, Leads(c, N), NEW p \in NamespacePaths, NEW k \in DOMAIN c, Same(k, Dotted(p))
    PROVE  FoldPath(c[k]) = FoldPath(p)
<1>1. PICK q \in NamespacePaths : k = Dotted(q) /\ FoldPath(c[k]) = FoldPath(q)
    BY DEF Leads
<1>2. FoldPath(q) = FoldPath(p)
    BY <1>1 DEF PathsApart
<1> QED BY <1>1, <1>2

(* Every key that leads to a path matches its dotted form.                    *)
LEMMA KeyFound ==
    ASSUME NEW N, NEW c, Leads(c, N), NEW p \in NamespacePaths, NEW k \in DOMAIN c, FoldPath(c[k]) = FoldPath(p)
    PROVE  Same(k, Dotted(p))
<1>1. PICK q \in NamespacePaths : k = Dotted(q) /\ FoldPath(c[k]) = FoldPath(q)
    BY DEF Leads
<1> QED BY <1>1, NamespacesArePaths, DottedFolds

(* A namespace entered under the dotted form of its own path keeps the cache  *)
(* leading to where its keys say.                                             *)
LEMMA LeadsAssigns ==
    ASSUME NEW N, NEW M, N \subseteq M, NEW c, Leads(c, N), NEW p \in NamespacePaths,
           NEW v \in M \cup {Root}, M \subseteq Paths, FoldPath(v) = FoldPath(p)
    PROVE  Leads(Assign(c, Dotted(p), v), M)
<1> DEFINE k == Dotted(p)
           d == Assign(c, k, v)
<1>1. k \in Names /\ v \in Paths /\ c \in Caches
    BY NamespacesArePaths, DottedType, FoldRoot DEF Leads
<1>2. /\ d \in Caches /\ DOMAIN d = DOMAIN c \cup {k} /\ d[k] = v
      /\ \A x \in DOMAIN c : x # k => d[x] = c[x]
    <2> HIDE DEF k
    <2> QED BY <1>1, CacheAssigns
<1> HIDE DEF d
<1>3. ASSUME NEW x \in DOMAIN d
      PROVE  d[x] \in M \cup {Root} /\ \E q \in NamespacePaths : x = Dotted(q) /\ FoldPath(d[x]) = FoldPath(q)
    <2>1. CASE x = k
        BY <1>2, <2>1
    <2>2. CASE x # k
        <3>1. x \in DOMAIN c /\ d[x] = c[x]
            BY <1>2, <2>2
        <3> QED BY <3>1 DEF Leads
    <2> QED BY <2>1, <2>2
<1> QED BY <1>2, <1>3 DEF Leads, d

------------------------------------------------------------------------------
(* Building from DDL: simpleCatalogForObjectName.                             *)

Walks == [at : Paths, namespaces : SUBSET Paths, cache : Caches, taken : BOOLEAN]

WalkInv(w, path, i) ==
    /\ w \in Walks
    /\ w.taken \/ /\ IsTree(w.namespaces) /\ Leads(w.cache, w.namespaces)
                  /\ w.at \in w.namespaces \cup {Root} /\ FoldPath(w.at) = FoldPath(Prefix(path, i))
                  /\ namespaces \subseteq w.namespaces /\ w.namespaces \cup {Root} \subseteq Range(w.cache)

(* A cache holds paths.                                                       *)
LEMMA CacheValues == ASSUME NEW c \in Caches, NEW k \in DOMAIN c PROVE c[k] \in Paths
BY DEF Caches

(* A level of simpleCatalogForObjectName has its type.                        *)
LEMMA EnterType ==
    ASSUME NEW w \in Walks, NEW path \in PlacedPaths, NEW i \in 1 .. Len(path) - 1
    PROVE  EnterNamespace(w, path, i) \in Walks
<1> DEFINE key == Dotted(Prefix(path, i))
           made == Append(w.at, path[i])
<1>1. i \in 1 .. Len(path) /\ path \in Paths
    BY NamespacesAbove
<1>2. key \in Names /\ path[i] \in Names
    BY <1>1, PrefixGrows, DottedType
<1>3. made \in Paths
    BY <1>2 DEF Paths, Walks
<1> HIDE DEF key, made
<1>4. CASE key \in DOMAIN w.cache
    <2>1. EnterNamespace(w, path, i) = [w EXCEPT !.at = w.cache[key]]
        BY <1>4 DEF EnterNamespace, key
    <2>2. w.cache[key] \in Paths
        BY <1>4, CacheValues DEF Walks
    <2> QED BY <2>1, <2>2 DEF Walks
<1>5. CASE key \notin DOMAIN w.cache
    <2> DEFINE tk == w.taken \/ HasNamespace(w.namespaces, w.at, path[i])
               c == Assign(w.cache, key, made)
    <2>1. EnterNamespace(w, path, i) = [at |-> made, namespaces |-> w.namespaces \cup {made}, cache |-> c, taken |-> tk]
        BY <1>5 DEF EnterNamespace, key, made
    <2>2. c \in Caches /\ tk \in BOOLEAN
        BY <1>2, <1>3, CacheAssigns DEF Walks, HasNamespace
    <2> HIDE DEF tk, c
    <2> QED BY <1>3, <2>1, <2>2 DEF Walks
<1> QED BY <1>4, <1>5

(* A level of simpleCatalogForObjectName keeps the tree, the cache and its    *)
(* place on the path, until it meets a namespace the cache does not know.     *)
LEMMA EnterKeeps ==
    ASSUME PathsApart, NEW path \in PlacedPaths, NEW i \in 1 .. Len(path) - 1, NEW w, WalkInv(w, path, i - 1)
    PROVE  WalkInv(EnterNamespace(w, path, i), path, i)
<1> DEFINE p == Prefix(path, i)
           key == Dotted(p)
           made == Append(w.at, path[i])
           u == EnterNamespace(w, path, i)
<1>1. i \in 1 .. Len(path) /\ path \in Paths /\ p \in NamespacePaths
    BY NamespacesAbove
<1>2. /\ key \in Names /\ path[i] \in Names /\ p \in Paths /\ Prefix(path, i - 1) \in Paths
      /\ p = Append(Prefix(path, i - 1), path[i])
    BY <1>1, PrefixGrows, DottedType
<1>3. w \in Walks /\ u \in Walks
    BY EnterType DEF WalkInv
<1>4. SUFFICES ASSUME ~u.taken
      PROVE  /\ IsTree(u.namespaces) /\ Leads(u.cache, u.namespaces)
             /\ u.at \in u.namespaces \cup {Root} /\ FoldPath(u.at) = FoldPath(p)
             /\ namespaces \subseteq u.namespaces /\ u.namespaces \cup {Root} \subseteq Range(u.cache)
    BY <1>3 DEF WalkInv
<1> HIDE DEF p, key, made, u
<1>5. CASE key \in DOMAIN w.cache
    <2>1. u = [w EXCEPT !.at = w.cache[key]]
        BY <1>5 DEF EnterNamespace, u, key, p
    <2>2. u.taken = w.taken /\ u.namespaces = w.namespaces /\ u.cache = w.cache /\ u.at = w.cache[key]
        BY <1>3, <2>1 DEF Walks
    <2>3. Leads(w.cache, w.namespaces) /\ IsTree(w.namespaces)
          /\ namespaces \subseteq w.namespaces /\ w.namespaces \cup {Root} \subseteq Range(w.cache)
        BY <1>4, <2>2 DEF WalkInv
    <2>4. Same(key, key)
        BY DEF Same
    <2>5. FoldPath(w.cache[key]) = FoldPath(p)
        BY <1>1, <1>5, <2>3, <2>4, KeyLeads DEF key
    <2>6. w.cache[key] \in w.namespaces \cup {Root}
        BY <1>5, <2>3 DEF Leads
    <2> QED BY <2>2, <2>3, <2>5, <2>6
<1>6. CASE key \notin DOMAIN w.cache
    <2> DEFINE tk == w.taken \/ HasNamespace(w.namespaces, w.at, path[i])
               c == Assign(w.cache, key, made)
    <2>1. u = [at |-> made, namespaces |-> w.namespaces \cup {made}, cache |-> c, taken |-> tk]
        BY <1>6 DEF EnterNamespace, u, key, made, p
    <2>2. u.taken = tk /\ u.namespaces = w.namespaces \cup {made} /\ u.cache = c /\ u.at = made
        BY <2>1
    <2>3. ~w.taken /\ ~HasNamespace(w.namespaces, w.at, path[i])
        BY <1>4, <2>2
    <2>4. /\ Leads(w.cache, w.namespaces) /\ IsTree(w.namespaces)
          /\ w.at \in w.namespaces \cup {Root} /\ FoldPath(w.at) = FoldPath(Prefix(path, i - 1))
          /\ namespaces \subseteq w.namespaces /\ w.namespaces \cup {Root} \subseteq Range(w.cache)
        BY <2>3 DEF WalkInv
    <2>5. w.at \in Paths
        BY <1>3 DEF Walks
    <2>6. FoldPath(made) = FoldPath(p)
        BY <1>2, <2>4, <2>5, FoldAppendInjective DEF made, Same
    <2>7. \A n \in w.namespaces : FoldPath(n) # FoldPath(made)
        BY <1>2, <2>3, <2>4, TreeHas DEF made, HasNamespace
    <2>8. IsTree(w.namespaces \cup {made}) /\ made \in Paths
        BY <1>2, <2>4, <2>7, TreeGrows DEF made
    <2>9. Leads(c, w.namespaces \cup {made})
        <3> DEFINE M == w.namespaces \cup {made}
        <3>1. M \subseteq Paths /\ w.namespaces \subseteq M /\ made \in M \cup {Root}
            BY <2>8 DEF IsTree
        <3> HIDE DEF M
        <3>2. Leads(Assign(w.cache, Dotted(p), made), M)
            BY <1>1, <2>4, <2>6, <3>1, LeadsAssigns DEF p
        <3> QED BY <3>2 DEF M, key
    <2>10. w.namespaces \cup {made} \cup {Root} \subseteq Range(c)
        <3>1. w.cache \in Caches
            BY <1>3 DEF Walks
        <3>2. DOMAIN c = DOMAIN w.cache \cup {key} /\ c[key] = made /\ \A x \in DOMAIN w.cache : x # key => c[x] = w.cache[x]
            BY <1>2, <2>8, <3>1, CacheAssigns
        <3> HIDE DEF c
        <3>3. Range(w.cache) \cup {made} \subseteq Range(c)
            BY <1>6, <3>2 DEF Range
        <3> QED BY <2>4, <3>3
    <2> HIDE DEF c, tk
    <2> QED BY <2>2, <2>4, <2>6, <2>8, <2>9, <2>10
<1> QED BY <1>5, <1>6

(* simpleCatalogForObjectName, by induction on the levels, ends in the        *)
(* namespace above the last name of the path.                                 *)
LEMMA NamespaceForLeads ==
    ASSUME PathsApart, NEW path \in PlacedPaths, IsTree(namespaces), Leads(cache, namespaces), namespaces \cup {Root} \subseteq Range(cache)
    PROVE  WalkInv(NamespaceFor(path), path, Len(path) - 1)
<1> DEFINE n == Len(path) - 1
           start == [at |-> Root, namespaces |-> namespaces, cache |-> cache, taken |-> FALSE]
           F == [z \in Walks \X (1 .. n) |-> EnterNamespace(z[1], path, z[2])]
           Eq(f) == f = [i \in 0 .. n |-> IF i = 0 THEN start ELSE EnterNamespace(f[i - 1], path, i)]
           level == CHOOSE f : Eq(f)
<1>1. path \in Paths /\ path # Root /\ n \in Nat
    BY NamespacesAbove
<1>2. start \in Walks /\ WalkInv(start, path, 0)
    <2>1. start \in Walks
        BY FoldRoot DEF Walks, IsTree, Leads
    <2>2. Prefix(path, 0) = Root
        BY <1>1, PrefixEnds
    <2> QED BY <2>1, <2>2 DEF WalkInv
<1>3. F \in [Walks \X (1 .. n) -> Walks]
    <2>1. ASSUME NEW z \in Walks \X (1 .. n) PROVE EnterNamespace(z[1], path, z[2]) \in Walks
        <3>1. z[1] \in Walks /\ z[2] \in 1 .. Len(path) - 1
            OBVIOUS
        <3> QED BY <3>1, EnterType
    <2> QED BY <2>1
<1> HIDE DEF start
<1>4. \E f : Eq(f)
    <2>1. PICK g : IsRun(g, n, Walks, start, F)
        <3> HIDE DEF F, n
        <3> QED BY <1>1, <1>2, <1>3, RunOf
    <2>2. g = [i \in 0 .. n |-> g[i]] /\ g[0] = start /\ \A i \in 1 .. n : g[i] = F[<<g[i - 1], i>>]
        <3> HIDE DEF F, n
        <3> QED BY <2>1 DEF IsRun
    <2>3. ASSUME NEW i \in 1 .. n PROVE g[i] = EnterNamespace(g[i - 1], path, i)
        <3>1. <<g[i - 1], i>> \in Walks \X (1 .. n)
            <4>1. i - 1 \in 0 .. n
                BY <1>1
            <4> HIDE DEF F, n
            <4> QED BY <2>1, <4>1 DEF IsRun
        <3> QED BY <2>2, <3>1
    <2>4. \A i \in 0 .. n : g[i] = IF i = 0 THEN start ELSE EnterNamespace(g[i - 1], path, i)
        <3>1. \A i \in 0 .. n : i = 0 \/ i \in 1 .. n
            BY <1>1
        <3> HIDE DEF F, n
        <3> QED BY <2>2, <2>3, <3>1
    <2>5. Eq(g)
        <3> HIDE DEF F, n
        <3> QED BY <2>2, <2>4
    <2> QED BY <2>5
<1>5. Eq(level)
    <2> HIDE DEF Eq
    <2> QED BY <1>4
<1>6. NamespaceFor(path) = level[n]
    BY DEF NamespaceFor, start
<1> HIDE DEF level, F
<1>7. level[0] = start /\ \A i \in 1 .. n : level[i] = EnterNamespace(level[i - 1], path, i)
    <2>1. \A i \in 1 .. n : i # 0 /\ i \in 0 .. n
        BY <1>1
    <2>2. 0 \in 0 .. n
        BY <1>1
    <2> HIDE DEF n
    <2> QED BY <1>5, <2>1, <2>2
<1> DEFINE A == {i \in 0 .. n : WalkInv(level[i], path, i)}
<1>8. ASSUME NEW i \in A, i < n PROVE i + 1 \in A
    <2>1. i + 1 \in 1 .. n /\ (i + 1) - 1 = i /\ i + 1 \in 0 .. n
        BY <1>1, <1>8
    <2>2. level[i + 1] = EnterNamespace(level[i], path, i + 1)
        BY <1>7, <2>1
    <2>3. WalkInv(level[i], path, i)
        OBVIOUS
    <2>4. WalkInv(EnterNamespace(level[i], path, i + 1), path, i + 1)
        <3> HIDE DEF A
        <3> QED BY <2>1, <2>3, EnterKeeps
    <2> QED BY <2>1, <2>2, <2>4
<1>9. n \in A
    <2>1. 0 \in A
        BY <1>1, <1>2, <1>7
    <2> HIDE DEF A, n
    <2> QED BY <1>1, <1>8, <2>1, UpTo
<1> QED BY <1>6, <1>9

------------------------------------------------------------------------------
(* The abstract registry and its vocabulary.                                  *)

(* The abstract registry reads a request as the catalog does: its copies of   *)
(* the definitions of ExternalDatasets are the same. First, whether a         *)
(* request is well formed, and its tables.                                    *)
LEMMA SameRequests ==
    ASSUME NEW r
    PROVE  /\ Registry!WellFormed(r) = WellFormed(r)
           /\ Registry!DefaultTables(r) = DefaultTables(r)
<1>1. Registry!DefaultTables(r) = DefaultTables(r)
    BY DEF Registry!DefaultTables, DefaultTables, Registry!BuiltIn, BuiltIn, Registry!InDefaultSchema, InDefaultSchema,
           Registry!ToSet, ToSet
<1>2. Registry!WellFormed(r) = WellFormed(r)
    BY <1>1 DEF Registry!WellFormed, WellFormed, Registry!Same, Same, Registry!FoldName, FoldName
<1> QED BY <1>1, <1>2

(* The same of what is asked of one table.                                    *)
LEMMA SameTables ==
    ASSUME NEW t
    PROVE  /\ Registry!BuiltIn(t) = BuiltIn(t)
           /\ Registry!InDefaultSchema(t) = InDefaultSchema(t)
           /\ Registry!ColumnsCollide(t) = ColumnsCollide(t)
BY DEF Registry!BuiltIn, BuiltIn, Registry!InDefaultSchema, InDefaultSchema, Registry!ColumnsCollide, ColumnsCollide,
       Registry!VisibleColumns, VisibleColumns
(* The same of paths and names.                                               *)
LEMMA SamePaths ==
    ASSUME NEW p
    PROVE  /\ Registry!FoldPath(p) = FoldPath(p) /\ Registry!Dotted(p) = Dotted(p) /\ Registry!FoldName(p) = FoldName(p)
           /\ Registry!Front(p) = Front(p) /\ Registry!Last(p) = Last(p)
BY DEF Registry!FoldPath, FoldPath, Registry!FoldName, FoldName, Registry!Dotted, Dotted, Registry!FlattenSeq, FlattenSeq,
  Registry!Front, Front, Registry!Last, Last
(* The same of the paths of a table and its projection.                       *)
LEMMA SameProjections ==
    ASSUME NEW r, NEW t
    PROVE  /\ Registry!FullPath(r, t) = FullPath(r, t) /\ Registry!ShortPath(r, t) = ShortPath(r, t)
           /\ Registry!Projection(r, t) = Projection(r, t)
<1>1. Registry!FullPath(r, t) = FullPath(r, t) /\ Registry!ShortPath(r, t) = ShortPath(r, t)
 BY DEF Registry!FullPath, FullPath, Registry!ShortPath, ShortPath, Registry!RefPath, RefPath, Registry!AliasPath, AliasPath,
   Registry!ProjectOf, ProjectOf, Registry!Last, Last
<1> QED BY <1>1 DEF Registry!Projection, Projection, Registry!VisibleColumns, VisibleColumns
(* The same of the entries of a request.                                      *)
LEMMA SameEntries == ASSUME NEW r PROVE Registry!Entries(r) = Entries(r)
BY SamePaths, SameRequests, SameProjections DEF Entries, Registry!Entries

------------------------------------------------------------------------------
(* The stage of a call.                                                       *)

TableForms == [full : Paths, columns : SUBSET Idents]
TableEntries == [in : Paths, name : Names, table : TableForms]
Seen(t) == [in |-> FoldPath(t.in), name |-> FoldName(t.name), table |-> t.table]
Refused(r) == ~Registry!Admissible(r)

(* A table of the request, under one of its two paths. *)
Places(r, path, table) ==
    \E t \in DefaultTables(r) : path \in {FullPath(r, t), ShortPath(r, t)} /\ table = Projection(r, t)

(* The entries of a request, one by one: every table, at its own place and    *)
(* at the root under its dotted name, for both of its paths.                  *)
LEMMA EntriesOf ==
    ASSUME NEW r
    PROVE  \A e : e \in Entries(r) <=>
               \E t \in DefaultTables(r) : \E p \in {FullPath(r, t), ShortPath(r, t)} :
                   \/ e = [in |-> FoldPath(Front(p)), name |-> FoldName(Last(p)), table |-> Projection(r, t)]
                   \/ e = [in |-> << >>, name |-> FoldName(Dotted(p)), table |-> Projection(r, t)]
<1> DEFINE In(t, p) == [in |-> FoldPath(Front(p)), name |-> FoldName(Last(p)), table |-> Projection(r, t)]
           At(t, p) == [in |-> << >>, name |-> FoldName(Dotted(p)), table |-> Projection(r, t)]
           P(t) == {FullPath(r, t), ShortPath(r, t)}
           Of(t) == {In(t, p) : p \in P(t)} \cup {At(t, p) : p \in P(t)}
<1>1. Entries(r) = UNION {Of(t) : t \in DefaultTables(r)}
    BY DEF Entries
<1>2. \A t, e : e \in Of(t) <=> \E p \in P(t) : e = In(t, p) \/ e = At(t, p)
    <2> HIDE DEF In, At, P
    <2> QED BY Zenon
<1>3. \A e : e \in UNION {Of(t) : t \in DefaultTables(r)} <=> \E t \in DefaultTables(r) : e \in Of(t)
    <2> HIDE DEF Of
    <2> QED BY Zenon
<1>4. \A e : e \in Entries(r) <=> \E t \in DefaultTables(r) : \E p \in P(t) : e = In(t, p) \/ e = At(t, p)
    <2> HIDE DEF In, At, P, Of
    <2> QED BY <1>1, <1>2, <1>3
<1> QED BY <1>4

(* A path of a table gives two entries.                                       *)
LEMMA PlacesEntries ==
    ASSUME NEW r, NEW path, NEW table, Places(r, path, table)
    PROVE  /\ [in |-> FoldPath(Front(path)), name |-> FoldName(Last(path)), table |-> table] \in Entries(r)
           /\ [in |-> << >>, name |-> FoldName(Dotted(path)), table |-> table] \in Entries(r)
BY EntriesOf, Zenon DEF Places

(* Three reasons to refuse a request: an entry that is taken, two entries     *)
(* for one name, a foreign namespace above an entry.                          *)
LEMMA RefusedBy ==
    ASSUME NEW r, NEW e \in Entries(r)
    PROVE  /\ (\E t \in tables : FoldPath(t.in) = e.in /\ FoldName(t.name) = e.name) => Refused(r)
           /\ (\E f \in Entries(r) : e.in = f.in /\ e.name = f.name /\ e.table # f.table) => Refused(r)
           /\ (\E n \in namespaces \ Range(cache) : \E i \in 1 .. Len(e.in) : FoldPath(n) = SubSeq(e.in, 1, i)) => Refused(r)
<1>1. e \in Registry!Entries(r)
    BY SameEntries
<1>2. ASSUME NEW t \in tables, FoldPath(t.in) = e.in, FoldName(t.name) = e.name PROVE Refused(r)
    <2> DEFINE f == [in |-> FoldPath(t.in), name |-> FoldName(t.name), table |-> t.table]
    <2>1. f \in {[in |-> FoldPath(u.in), name |-> FoldName(u.name), table |-> u.table] : u \in tables}
        OBVIOUS
    <2>2. f.in = e.in /\ f.name = e.name
        BY <1>2
    <2> HIDE DEF f
    <2> QED BY <1>1, <2>1, <2>2, Zenon DEF Refused, Registry!Admissible
<1>3. ASSUME NEW f \in Entries(r), e.in = f.in, e.name = f.name, e.table # f.table PROVE Refused(r)
    <2>1. f \in Registry!Entries(r)
        BY SameEntries
    <2> QED BY <1>1, <1>3, <2>1, Zenon DEF Refused, Registry!Admissible, Registry!Collides
<1>4. ASSUME NEW n \in namespaces \ Range(cache), NEW i \in 1 .. Len(e.in), FoldPath(n) = SubSeq(e.in, 1, i) PROVE Refused(r)
    <2>1. SubSeq(e.in, 1, i) \in {FoldPath(m) : m \in namespaces \ Range(cache)}
        BY <1>4
    <2> QED BY <1>1, <2>1, Zenon DEF Refused, Registry!Admissible
<1> QED BY <1>2, <1>3, <1>4

Reports == [source : Paths, visible : BOOLEAN, full : Paths, columns : SUBSET Idents]
Stages == [request : Requests, todo : Seq(SourceTables), at : Paths, ok : BOOLEAN, catalogs : Caches,
           namespaces : Seq(Paths), tables : Seq(TableEntries), projected : Seq(Reports)]

Tree(s) == namespaces \cup ToSet(s.namespaces)

(* What is built natively and kept in the cache when a step begins. *)
Ground ==
    /\ IsTree(namespaces) /\ Leads(cache, namespaces) /\ Kept(cache)
    /\ tables \subseteq TableEntries
    /\ \A t \in tables : t.in \in namespaces \cup {Root}
    /\ \A t, u \in tables : t.in = u.in /\ Same(t.name, u.name) => t = u

(* The staged namespaces complete the native ones, and each is kept under its key. *)
Branches(s) ==
    /\ IsTree(Tree(s)) /\ Leads(s.catalogs, Tree(s)) /\ Kept(s.catalogs)
    /\ ToSet(s.namespaces) \cap namespaces = {}
    /\ ToSet(s.namespaces) \subseteq Range(s.catalogs)
    /\ Range(s.catalogs) \subseteq Range(cache) \cup ToSet(s.namespaces)
    /\ \A k \in DOMAIN cache : k \in DOMAIN s.catalogs /\ s.catalogs[k] = cache[k]

Opened(s, path, i) ==
    /\ s \in Stages
    /\ IF s.ok THEN Branches(s) /\ s.at \in Range(s.catalogs) /\ FoldPath(s.at) = FoldPath(Prefix(path, i))
       ELSE Refused(s.request)

(* What opening namespaces leaves alone. *)
Extends(s, u) ==
    /\ u.request = s.request /\ u.todo = s.todo /\ u.projected = s.projected /\ u.tables = s.tables
    /\ (u.ok => s.ok) /\ ToSet(s.namespaces) \subseteq ToSet(u.namespaces) /\ Range(s.catalogs) \subseteq Range(u.catalogs)

(* An appended element joins the elements of a sequence.                      *)
LEMMA ToSetAppend ==
    ASSUME NEW S, NEW s \in Seq(S), NEW x \in S
    PROVE  Append(s, x) \in Seq(S) /\ ToSet(Append(s, x)) = ToSet(s) \cup {x}
<1>1. /\ Append(s, x) \in Seq(S) /\ Len(Append(s, x)) = Len(s) + 1 /\ Len(s) \in Nat
      /\ (\A i \in 1 .. Len(s) : Append(s, x)[i] = s[i]) /\ Append(s, x)[Len(s) + 1] = x
    BY AppendProperties
<1>2. DOMAIN s = 1 .. Len(s) /\ DOMAIN Append(s, x) = 1 .. Len(s) + 1
    BY <1>1, LenProperties
<1>3. ASSUME NEW y \in ToSet(Append(s, x)) PROVE y \in ToSet(s) \cup {x}
    <2>1. PICK i \in 1 .. Len(s) + 1 : y = Append(s, x)[i]
        BY <1>2 DEF ToSet
    <2>2. i = Len(s) + 1 \/ i \in 1 .. Len(s)
        BY <1>1
    <2> QED BY <1>1, <1>2, <2>1, <2>2 DEF ToSet
<1>4. ASSUME NEW y \in ToSet(s) \cup {x} PROVE y \in ToSet(Append(s, x))
    <2>1. CASE y = x
        <3>1. Len(s) + 1 \in DOMAIN Append(s, x)
            BY <1>1, <1>2
        <3> QED BY <1>1, <2>1, <3>1 DEF ToSet
    <2>2. CASE y \in ToSet(s)
        <3>1. PICK i \in 1 .. Len(s) : y = s[i]
            BY <1>2, <2>2 DEF ToSet
        <3>2. i \in DOMAIN Append(s, x)
            BY <1>1, <1>2
        <3> QED BY <1>1, <3>1, <3>2 DEF ToSet
    <2> QED BY <2>1, <2>2
<1> QED BY <1>1, <1>3, <1>4

(* A level of externalDatasetStage.parent has its type.                       *)
LEMMA OpenType ==
    ASSUME NEW s \in Stages, NEW path \in PlacedPaths, NEW i \in 1 .. Len(path) - 1
    PROVE  OpenNamespace(s, path, i) \in Stages
<1> DEFINE key == Dotted(Prefix(path, i))
           hits == {k \in DOMAIN s.catalogs : Same(k, key)}
           child == s.catalogs[CHOOSE k \in hits : TRUE]
           made == Append(s.at, path[i])
<1>1. i \in 1 .. Len(path) /\ path \in Paths
    BY NamespacesAbove
<1>2. key \in Names /\ path[i] \in Names
    BY <1>1, PrefixGrows, DottedType
<1>3. made \in Paths
    BY <1>2 DEF Paths, Stages
<1>4. s.catalogs \in Caches /\ s.namespaces \in Seq(Paths)
    BY DEF Stages
<1>5. hits # {} => child \in Paths
    BY <1>4, CacheValues
<1>6. \/ OpenNamespace(s, path, i) = s
      \/ OpenNamespace(s, path, i) = [s EXCEPT !.ok = FALSE]
      \/ hits # {} /\ OpenNamespace(s, path, i) = [s EXCEPT !.at = child, !.catalogs = Assign(s.catalogs, key, child)]
      \/ OpenNamespace(s, path, i) = [s EXCEPT !.at = made, !.catalogs = Assign(s.catalogs, key, made),
                                               !.namespaces = Append(s.namespaces, made)]
    BY DEF OpenNamespace
<1> HIDE DEF key, hits, child, made
<1>7. hits # {} => Assign(s.catalogs, key, child) \in Caches
    BY <1>2, <1>4, <1>5, CacheAssigns
<1>8. Assign(s.catalogs, key, made) \in Caches /\ Append(s.namespaces, made) \in Seq(Paths)
    BY <1>2, <1>3, <1>4, CacheAssigns, ToSetAppend
<1> QED BY <1>3, <1>5, <1>6, <1>7, <1>8 DEF Stages

(* The prefixes of a path that are short of it are those of its front.        *)
LEMMA PrefixOfFront ==
    ASSUME NEW p \in Paths, p # Root, NEW i \in 0 .. Len(p) - 1
    PROVE  Prefix(Front(p), i) = Prefix(p, i) /\ Front(p) \in Paths /\ Len(Front(p)) = Len(p) - 1
<1>1. Front(p) \in Paths /\ Len(Front(p)) = Len(p) - 1 /\ p = Append(Front(p), Last(p)) /\ Last(p) \in Names
    BY FrontAndLast DEF Paths, Root
<1>2. Front(p) \in Seq(Names) /\ p \in Seq(Names) /\ Len(p) \in Nat
    BY <1>1 DEF Paths
<1>3. \A j \in 1 .. Len(p) - 1 : p[j] = Front(p)[j]
    BY <1>1, <1>2, AppendProperties
<1>4. \A j \in 1 .. i : p[j] = Front(p)[j] /\ p[j] \in Names
    BY <1>2, <1>3
<1> DEFINE a == SubSeq(p, 1, i)
           b == SubSeq(Front(p), 1, i)
<1>5. a \in Seq(Names) /\ Len(a) = i /\ \A j \in 1 .. i : a[j] = p[j]
    BY <1>2
<1>6. b \in Seq(Names) /\ Len(b) = i /\ \A j \in 1 .. i : b[j] = Front(p)[j]
    BY <1>1, <1>2
<1>7. a = b
    <2> HIDE DEF a, b
    <2> QED BY <1>4, <1>5, <1>6, SeqEqual
<1> QED BY <1>1, <1>7 DEF Prefix

(* A namespace the cache does not know stands in the way of the request. *)
LEMMA RefusedByNamespace ==
    ASSUME NEW r, NEW path \in PlacedPaths, NEW table, Places(r, path, table), NEW i \in 1 .. Len(path) - 1,
           NEW n \in namespaces \ Range(cache), FoldPath(n) = FoldPath(Prefix(path, i))
    PROVE  Refused(r)
<1>1. path \in Paths /\ path # Root /\ Len(path) - 1 \in Nat
    BY NamespacesAbove
<1>2. i \in 0 .. Len(path) - 1
    BY <1>1
<1>3. Prefix(Front(path), i) = Prefix(path, i) /\ Front(path) \in Paths /\ Len(Front(path)) = Len(path) - 1
    BY <1>1, <1>2, PrefixOfFront
<1>4. FoldPath(Prefix(path, i)) = SubSeq(FoldPath(Front(path)), 1, i) /\ Len(FoldPath(Front(path))) = Len(path) - 1
    BY <1>2, <1>3, FoldPrefix, FoldPathType
<1> DEFINE e == [in |-> FoldPath(Front(path)), name |-> FoldName(Last(path)), table |-> table]
<1>5. e \in Entries(r) /\ e.in = FoldPath(Front(path))
    BY PlacesEntries
<1> HIDE DEF e
<1>6. i \in 1 .. Len(e.in) /\ FoldPath(n) = SubSeq(e.in, 1, i)
    BY <1>4, <1>5
<1> QED BY <1>5, <1>6, RefusedBy

(* A level of externalDatasetStage.parent keeps the stage complete, or        *)
(* refuses a request that is not admissible.                                  *)
LEMMA OpenKeeps ==
    ASSUME PathsApart, Ground, NEW path \in PlacedPaths, NEW table, NEW i \in 1 .. Len(path) - 1,
           NEW s, Opened(s, path, i - 1), Places(s.request, path, table)
    PROVE  Opened(OpenNamespace(s, path, i), path, i) /\ Extends(s, OpenNamespace(s, path, i))
<1> DEFINE p == Prefix(path, i)
           key == Dotted(p)
           hits == {k \in DOMAIN s.catalogs : Same(k, key)}
           child == s.catalogs[CHOOSE k \in hits : TRUE]
           made == Append(s.at, path[i])
           u == OpenNamespace(s, path, i)
<1>1. i \in 1 .. Len(path) /\ path \in Paths /\ p \in NamespacePaths
    BY NamespacesAbove
<1>2. /\ key \in Names /\ path[i] \in Names /\ p \in Paths /\ Prefix(path, i - 1) \in Paths
      /\ p = Append(Prefix(path, i - 1), path[i])
    BY <1>1, PrefixGrows, DottedType
<1>3. s \in Stages /\ u \in Stages
    BY OpenType DEF Opened
<1>4. u = IF ~s.ok THEN s
          ELSE IF hits # {} THEN [s EXCEPT !.at = child, !.catalogs = Assign(s.catalogs, key, child)]
          ELSE IF HasNamespace(namespaces, s.at, path[i]) THEN [s EXCEPT !.ok = FALSE]
          ELSE [s EXCEPT !.at = made, !.catalogs = Assign(s.catalogs, key, made), !.namespaces = Append(s.namespaces, made)]
    BY DEF OpenNamespace
<1> HIDE DEF p, key, hits, child, made, u
<1>5. CASE ~s.ok
    <2>1. u = s
        BY <1>4, <1>5
    <2> QED BY <2>1, <1>3, <1>5 DEF Opened, Extends, u
<1>6. CASE s.ok
    <2>0. Branches(s) /\ s.at \in Range(s.catalogs) /\ FoldPath(s.at) = FoldPath(Prefix(path, i - 1)) /\ Kept(s.catalogs)
        BY <1>6 DEF Opened, Branches
    <2>1. /\ Branches(s) /\ s.at \in Tree(s) \cup {Root} /\ FoldPath(s.at) = FoldPath(Prefix(path, i - 1))
          /\ s.at \in Paths /\ s.catalogs \in Caches /\ s.namespaces \in Seq(Paths)
        <3>1. s.at \in Tree(s) \cup {Root}
            BY <2>0, LeadsInto DEF Branches
        <3> QED BY <1>3, <2>0, <3>1 DEF Stages
    <2>2. IsTree(Tree(s)) /\ Leads(s.catalogs, Tree(s)) /\ namespaces \subseteq Tree(s) /\ ToSet(s.namespaces) \subseteq Tree(s)
        BY <2>1 DEF Branches, Tree
    <2>3. FoldPath(made) = FoldPath(p)
        BY <1>2, <2>1, FoldAppendInjective DEF made, Same
    <2>4. Same(key, key)
        BY DEF Same
    <2>5. CASE hits # {}
        <3>1. u = [s EXCEPT !.at = child, !.catalogs = Assign(s.catalogs, key, child)]
            BY <1>4, <1>6, <2>5
        <3>2. PICK k \in DOMAIN s.catalogs : Same(k, key) /\ child = s.catalogs[k]
            BY <2>5 DEF hits, child
        <3>3. FoldPath(child) = FoldPath(p) /\ child \in Tree(s) \cup {Root}
            <4>1. FoldPath(s.catalogs[k]) = FoldPath(p)
                BY <1>1, <2>2, <3>2, KeyLeads DEF key
            <4>2. s.catalogs[k] \in Tree(s) \cup {Root}
                BY <2>2, <3>2 DEF Leads
            <4> QED BY <3>2, <4>1, <4>2
        <3>4. key \in DOMAIN s.catalogs => s.catalogs[key] = child
            <4>1. SUFFICES ASSUME key \in DOMAIN s.catalogs PROVE s.catalogs[key] = child
                OBVIOUS
            <4>2. FoldPath(s.catalogs[key]) = FoldPath(p) /\ s.catalogs[key] \in Tree(s) \cup {Root}
                <5>1. FoldPath(s.catalogs[key]) = FoldPath(p)
                    BY <1>1, <2>2, <2>4, <4>1, KeyLeads DEF key
                <5>2. s.catalogs[key] \in Tree(s) \cup {Root}
                    BY <2>2, <4>1 DEF Leads
                <5> QED BY <5>1, <5>2
            <4> QED BY <2>2, <3>3, <4>2, TreeUnique
        <3> DEFINE c == Assign(s.catalogs, key, child)
        <3>5. child \in Paths
            BY <2>2, <3>3, FoldRoot DEF IsTree
        <3>6. /\ c \in Caches /\ DOMAIN c = DOMAIN s.catalogs \cup {key}
              /\ (\A x \in DOMAIN s.catalogs : c[x] = s.catalogs[x]) /\ Range(c) = Range(s.catalogs) \cup {child}
            <4>1. key \in Names /\ s.catalogs \in Caches
                BY <1>2, <2>1
            <4>2. /\ c \in Caches /\ DOMAIN c = DOMAIN s.catalogs \cup {key} /\ c[key] = child
                  /\ \A x \in DOMAIN s.catalogs : x # key => c[x] = s.catalogs[x]
                BY <3>5, <4>1, CacheAssigns
            <4> HIDE DEF c
            <4>3. \A x \in DOMAIN s.catalogs : c[x] = s.catalogs[x]
                BY <3>4, <4>2
            <4> QED BY <4>2, <4>3 DEF Range
        <3>7. Leads(c, Tree(s))
            <4>1. Tree(s) \subseteq Paths /\ Tree(s) \subseteq Tree(s)
                BY <2>2 DEF IsTree
            <4> QED BY <1>1, <2>2, <3>3, <4>1, LeadsAssigns DEF key
        <3> HIDE DEF c
        <3>8. /\ u.ok = s.ok /\ u.at = child /\ u.catalogs = c /\ u.namespaces = s.namespaces
              /\ u.request = s.request /\ u.todo = s.todo /\ u.projected = s.projected /\ u.tables = s.tables
            BY <1>3, <3>1 DEF Stages, c
        <3>9. child \in Range(s.catalogs)
            BY <3>2 DEF Range
        <3>10. Range(c) = Range(s.catalogs)
            BY <3>6, <3>9
        <3>11. Tree(u) = Tree(s)
            BY <3>8 DEF Tree
        <3>12. Branches(u)
            <4>1. IsTree(Tree(u)) /\ Leads(u.catalogs, Tree(u)) /\ Kept(u.catalogs)
                BY <2>0, <2>2, <3>7, <3>8, <3>10, <3>11 DEF Kept
            <4>2. ToSet(u.namespaces) \cap namespaces = {} /\ ToSet(u.namespaces) \subseteq Range(u.catalogs)
                  /\ Range(u.catalogs) \subseteq Range(cache) \cup ToSet(u.namespaces)
                BY <2>1, <3>8, <3>10 DEF Branches
            <4>3. \A x \in DOMAIN cache : x \in DOMAIN u.catalogs /\ u.catalogs[x] = cache[x]
                BY <2>1, <3>6, <3>8 DEF Branches
            <4> QED BY <4>1, <4>2, <4>3 DEF Branches
        <3>13. Opened(u, path, i)
            BY <1>3, <1>6, <3>3, <3>8, <3>9, <3>10, <3>12 DEF Opened, p
        <3> QED BY <3>8, <3>10, <3>13 DEF Extends, u
    <2>6. CASE hits = {} /\ HasNamespace(namespaces, s.at, path[i])
        <3>1. u = [s EXCEPT !.ok = FALSE]
            BY <1>4, <1>6, <2>6
        <3>2. /\ ~u.ok /\ u.namespaces = s.namespaces /\ u.catalogs = s.catalogs
              /\ u.request = s.request /\ u.todo = s.todo /\ u.projected = s.projected /\ u.tables = s.tables
            BY <1>3, <3>1 DEF Stages
        <3>3. PICK n \in namespaces : Front(n) = s.at /\ Same(Last(n), path[i])
            BY <2>6 DEF HasNamespace
        <3>4. FoldPath(n) = FoldPath(p)
            BY <1>2, <2>1, <2>2, <2>3, <3>3, TreeHas DEF made
        <3>5. n \notin Range(cache)
            <4>1. SUFFICES ASSUME n \in Range(cache) PROVE FALSE
                OBVIOUS
            <4>2. PICK k \in DOMAIN cache : n = cache[k]
                BY <4>1 DEF Range
            <4>3. k \in DOMAIN s.catalogs /\ s.catalogs[k] = n
                BY <2>1, <4>2 DEF Branches
            <4>4. Same(k, key)
                BY <1>1, <2>2, <3>4, <4>3, KeyFound DEF key
            <4> QED BY <2>6, <4>3, <4>4 DEF hits
        <3>6. Refused(s.request)
            BY <3>4, <3>5, RefusedByNamespace DEF p
        <3>7. Opened(u, path, i)
            BY <1>3, <3>2, <3>6 DEF Opened
        <3> QED BY <3>2, <3>7 DEF Extends, u
    <2>7. CASE hits = {} /\ ~HasNamespace(namespaces, s.at, path[i])
        <3> DEFINE c == Assign(s.catalogs, key, made)
        <3>1. u = [s EXCEPT !.at = made, !.catalogs = c, !.namespaces = Append(s.namespaces, made)]
            BY <1>4, <1>6, <2>7
        <3>2. \A n \in Tree(s) : FoldPath(n) # FoldPath(made)
            <4>1. ASSUME NEW n \in namespaces, FoldPath(n) = FoldPath(made) PROVE FALSE
                <5>1. n \in Tree(s)
                    BY <2>2
                <5>2. Front(n) = s.at /\ Same(Last(n), path[i])
                    BY <1>2, <2>1, <2>2, <4>1, <5>1, TreeHas DEF made
                <5> QED BY <2>7, <5>2 DEF HasNamespace
            <4>2. ASSUME NEW n \in ToSet(s.namespaces), FoldPath(n) = FoldPath(made) PROVE FALSE
                <5>1. PICK k \in DOMAIN s.catalogs : n = s.catalogs[k]
                    BY <2>1 DEF Branches, Range
                <5>2. Same(k, key)
                    BY <1>1, <2>2, <2>3, <4>2, <5>1, KeyFound DEF key
                <5> QED BY <2>7, <5>1, <5>2 DEF hits
            <4> QED BY <4>1, <4>2 DEF Tree
        <3>3. IsTree(Tree(s) \cup {made}) /\ made \in Paths
            BY <1>2, <2>1, <2>2, <3>2, TreeGrows DEF made
        <3>4. key \notin DOMAIN s.catalogs
            BY <2>4, <2>7 DEF hits
        <3>5. /\ c \in Caches /\ DOMAIN c = DOMAIN s.catalogs \cup {key}
              /\ (\A x \in DOMAIN s.catalogs : c[x] = s.catalogs[x]) /\ Range(c) = Range(s.catalogs) \cup {made}
            <4>1. key \in Names /\ s.catalogs \in Caches
                BY <1>2, <2>1
            <4>2. /\ c \in Caches /\ DOMAIN c = DOMAIN s.catalogs \cup {key} /\ c[key] = made
                  /\ \A x \in DOMAIN s.catalogs : x # key => c[x] = s.catalogs[x]
                BY <3>3, <4>1, CacheAssigns
            <4> HIDE DEF c
            <4>3. \A x \in DOMAIN s.catalogs : c[x] = s.catalogs[x]
                BY <3>4, <4>2
            <4> QED BY <4>2, <4>3 DEF Range
        <3>6. Append(s.namespaces, made) \in Seq(Paths) /\ ToSet(Append(s.namespaces, made)) = ToSet(s.namespaces) \cup {made}
            BY <2>1, <3>3, ToSetAppend
        <3>7. Leads(c, Tree(s) \cup {made})
            <4> DEFINE M == Tree(s) \cup {made}
            <4>1. M \subseteq Paths /\ Tree(s) \subseteq M /\ made \in M \cup {Root}
                BY <3>3 DEF IsTree
            <4> HIDE DEF M
            <4>2. Leads(Assign(s.catalogs, Dotted(p), made), M)
                BY <1>1, <2>2, <2>3, <4>1, LeadsAssigns
            <4> QED BY <4>2 DEF M, key
        <3> HIDE DEF c
        <3>8. /\ u.ok = s.ok /\ u.at = made /\ u.catalogs = c /\ u.namespaces = Append(s.namespaces, made)
              /\ u.request = s.request /\ u.todo = s.todo /\ u.projected = s.projected /\ u.tables = s.tables
            BY <1>3, <3>1 DEF Stages
        <3>9. ToSet(u.namespaces) = ToSet(s.namespaces) \cup {made} /\ Tree(u) = Tree(s) \cup {made}
            BY <3>6, <3>8 DEF Tree
        <3>10. Branches(u)
            <4>1. IsTree(Tree(u)) /\ Leads(u.catalogs, Tree(u))
                BY <3>3, <3>7, <3>8, <3>9
            <4>5. Kept(u.catalogs)
                <5>1. Front(made) = s.at
                    <6> DEFINE n == path[i]
                    <6>1. s.at \in Seq(Names) /\ n \in Names
                        BY <1>2, <2>1 DEF Paths
                    <6> HIDE DEF n
                    <6>2. Front(Append(s.at, n)) = s.at
                        BY <6>1, AppendParts
                    <6> QED BY <6>2 DEF made, n
                <5> QED BY <2>0, <3>5, <3>8, <5>1 DEF Kept
            <4>2. ToSet(u.namespaces) \cap namespaces = {}
                BY <2>1, <2>2, <3>2, <3>9 DEF Branches
            <4>3. ToSet(u.namespaces) \subseteq Range(u.catalogs) /\ Range(u.catalogs) \subseteq Range(cache) \cup ToSet(u.namespaces)
                BY <2>1, <3>5, <3>8, <3>9 DEF Branches
            <4>4. \A x \in DOMAIN cache : x \in DOMAIN u.catalogs /\ u.catalogs[x] = cache[x]
                BY <2>1, <3>5, <3>8 DEF Branches
            <4> QED BY <4>1, <4>2, <4>3, <4>4, <4>5 DEF Branches
        <3>11. Opened(u, path, i)
            BY <1>3, <1>6, <2>3, <3>5, <3>8, <3>9, <3>10 DEF Opened, p
        <3> QED BY <3>5, <3>8, <3>9, <3>11 DEF Extends, u
    <2> QED BY <2>5, <2>6, <2>7
<1> QED BY <1>5, <1>6

(* externalDatasetStage.parent, by induction on the levels.                   *)
LEMMA OpenNamespacesKeeps ==
    ASSUME PathsApart, Ground, NEW path \in PlacedPaths, NEW table, NEW s \in Stages,
           IF s.ok THEN Branches(s) ELSE Refused(s.request), Places(s.request, path, table)
    PROVE  Opened(OpenNamespaces(s, path), path, Len(path) - 1) /\ Extends(s, OpenNamespaces(s, path))
<1> DEFINE n == Len(path) - 1
           start == [s EXCEPT !.at = Root]
           F == [z \in Stages \X (1 .. n) |-> OpenNamespace(z[1], path, z[2])]
           Eq(f) == f = [i \in 0 .. n |-> IF i = 0 THEN start ELSE OpenNamespace(f[i - 1], path, i)]
           level == CHOOSE f : Eq(f)
<1>1. path \in Paths /\ path # Root /\ n \in Nat
    BY NamespacesAbove
<1>2. start \in Stages /\ Opened(start, path, 0) /\ Extends(s, start)
    <2>1. start \in Stages
        BY FoldRoot DEF Stages
    <2>2. Prefix(path, 0) = Root
        BY <1>1, PrefixEnds
    <2>3. /\ start.ok = s.ok /\ start.catalogs = s.catalogs /\ start.namespaces = s.namespaces /\ start.at = Root
          /\ start.request = s.request /\ start.todo = s.todo /\ start.projected = s.projected /\ start.tables = s.tables
        BY DEF Stages
    <2> HIDE DEF start
    <2>4. Tree(start) = Tree(s) /\ (Branches(s) => Branches(start) /\ start.at \in Range(start.catalogs))
        BY <2>3 DEF Tree, Branches, Kept
    <2> QED BY <2>1, <2>2, <2>3, <2>4 DEF Opened, Extends
<1>3. F \in [Stages \X (1 .. n) -> Stages]
    <2>1. ASSUME NEW z \in Stages \X (1 .. n) PROVE OpenNamespace(z[1], path, z[2]) \in Stages
        <3>1. z[1] \in Stages /\ z[2] \in 1 .. Len(path) - 1
            OBVIOUS
        <3> QED BY <3>1, OpenType
    <2> QED BY <2>1
<1> HIDE DEF start
<1>4. \E f : Eq(f)
    <2>1. PICK g : IsRun(g, n, Stages, start, F)
        <3> HIDE DEF F, n
        <3> QED BY <1>1, <1>2, <1>3, RunOf
    <2>2. g = [i \in 0 .. n |-> g[i]] /\ g[0] = start /\ \A i \in 1 .. n : g[i] = F[<<g[i - 1], i>>]
        <3> HIDE DEF F, n
        <3> QED BY <2>1 DEF IsRun
    <2>3. ASSUME NEW i \in 1 .. n PROVE g[i] = OpenNamespace(g[i - 1], path, i)
        <3>1. <<g[i - 1], i>> \in Stages \X (1 .. n)
            <4>1. i - 1 \in 0 .. n
                BY <1>1
            <4> HIDE DEF F, n
            <4> QED BY <2>1, <4>1 DEF IsRun
        <3> QED BY <2>2, <3>1
    <2>4. \A i \in 0 .. n : g[i] = IF i = 0 THEN start ELSE OpenNamespace(g[i - 1], path, i)
        <3>1. \A i \in 0 .. n : i = 0 \/ i \in 1 .. n
            BY <1>1
        <3> HIDE DEF F, n
        <3> QED BY <2>2, <2>3, <3>1
    <2>5. Eq(g)
        <3> HIDE DEF F, n
        <3> QED BY <2>2, <2>4
    <2> QED BY <2>5
<1>5. Eq(level)
    <2> HIDE DEF Eq
    <2> QED BY <1>4
<1>6. OpenNamespaces(s, path) = level[n]
    BY DEF OpenNamespaces, start
<1> HIDE DEF level, F
<1>7. level[0] = start /\ \A i \in 1 .. n : level[i] = OpenNamespace(level[i - 1], path, i)
    <2>1. \A i \in 1 .. n : i # 0 /\ i \in 0 .. n
        BY <1>1
    <2>2. 0 \in 0 .. n
        BY <1>1
    <2> HIDE DEF n
    <2> QED BY <1>5, <2>1, <2>2
<1> DEFINE A == {i \in 0 .. n : Opened(level[i], path, i) /\ Extends(s, level[i])}
<1>8. ASSUME NEW i \in A, i < n PROVE i + 1 \in A
    <2>1. i + 1 \in 1 .. n /\ (i + 1) - 1 = i /\ i + 1 \in 0 .. n
        BY <1>1, <1>8
    <2>2. level[i + 1] = OpenNamespace(level[i], path, i + 1)
        BY <1>7, <2>1
    <2>3. Opened(level[i], path, i) /\ Extends(s, level[i])
        OBVIOUS
    <2>4. Places(level[i].request, path, table)
        BY <2>3 DEF Extends
    <2>5. Opened(OpenNamespace(level[i], path, i + 1), path, i + 1) /\ Extends(level[i], OpenNamespace(level[i], path, i + 1))
        <3> HIDE DEF A
        <3> QED BY <2>1, <2>3, <2>4, OpenKeeps
    <2>6. Extends(s, level[i + 1])
        <3> HIDE DEF A
        <3> QED BY <2>2, <2>3, <2>5 DEF Extends
    <2> QED BY <2>1, <2>2, <2>5, <2>6
<1>9. n \in A
    <2>1. 0 \in A
        BY <1>1, <1>2, <1>7
    <2> HIDE DEF A, n
    <2> QED BY <1>1, <1>8, <2>1, UpTo
<1> QED BY <1>6, <1>9

(* The staged tables are entries of the request, under names nothing else has, *)
(* and each table is staged under its own full path.                          *)
Placed(s, path, table) ==
    \E t \in ToSet(s.tables) : t.table = table /\ FoldPath(Append(t.in, t.name)) = FoldPath(path)

Leaves(s) ==
    /\ \A t \in ToSet(s.tables) :
         t.in \in Range(s.catalogs) /\ Seen(t) \in Entries(s.request) /\ Placed(s, t.table.full, t.table)
    /\ \A t, u \in tables \cup ToSet(s.tables) : t.in = u.in /\ Same(t.name, u.name) => t = u
    /\ ToSet(s.tables) \cap tables = {}

Staged(s) == s \in Stages /\ IF s.ok THEN Branches(s) /\ Leaves(s) ELSE Refused(s.request)

Grows(s, u) ==
    /\ u.request = s.request /\ u.todo = s.todo /\ u.projected = s.projected
    /\ (u.ok => s.ok) /\ ToSet(s.tables) \subseteq ToSet(u.tables)

(* reserveTable keeps the staged names distinct from each other and from the  *)
(* native ones, and refuses only what is not admissible; where it succeeds    *)
(* the table is staged.                                                       *)
LEMMA ReserveKeeps ==
    ASSUME Ground, NEW s, Staged(s), NEW parent \in Paths, NEW name \in Names, NEW table \in TableForms,
           s.ok => /\ parent \in Range(s.catalogs)
                   /\ [in |-> FoldPath(parent), name |-> FoldName(name), table |-> table] \in Entries(s.request)
                   /\ Placed(s, table.full, table) \/ FoldPath(Append(parent, name)) = FoldPath(table.full)
    PROVE  /\ Staged(ReserveTable(s, parent, name, table)) /\ Grows(s, ReserveTable(s, parent, name, table))
           /\ ReserveTable(s, parent, name, table).ok =>
                  \E t \in ToSet(ReserveTable(s, parent, name, table).tables) :
                      t.table = table /\ t.in = parent /\ Same(t.name, name)
<1> DEFINE u == ReserveTable(s, parent, name, table)
           pending == {t \in ToSet(s.tables) : t.in = parent /\ Same(t.name, name)}
           new == [in |-> parent, name |-> name, table |-> table]
           same == \A t \in pending : t.table = table
<1>1. u = IF ~s.ok THEN s
          ELSE IF HasTable(parent, name) THEN [s EXCEPT !.ok = FALSE]
          ELSE IF pending # {} THEN [s EXCEPT !.ok = same]
          ELSE [s EXCEPT !.tables = Append(s.tables, new)]
    BY DEF ReserveTable
<1>2. s \in Stages /\ s.tables \in Seq(TableEntries) /\ same \in BOOLEAN /\ new \in TableEntries
    BY DEF Staged, Stages, TableEntries
<1>3. new.in = parent /\ new.name = name /\ new.table = table /\ Seen(new) = [in |-> FoldPath(parent), name |-> FoldName(name), table |-> table]
    BY DEF Seen
<1> HIDE DEF u, pending, new, same
<1>4. CASE ~s.ok
    BY <1>1, <1>4 DEF Grows, u
<1>5. CASE s.ok
    <2> DEFINE e == [in |-> FoldPath(parent), name |-> FoldName(name), table |-> table]
    <2>1. Branches(s) /\ Leaves(s) /\ parent \in Range(s.catalogs) /\ e \in Entries(s.request)
          /\ e.in = FoldPath(parent) /\ e.name = FoldName(name) /\ e.table = table
        BY <1>5 DEF Staged
    <2>2. Placed(s, table.full, table) \/ FoldPath(Append(parent, name)) = FoldPath(table.full)
        BY <1>5
    <2> HIDE DEF e
    <2>3. CASE HasTable(parent, name)
        <3>1. u = [s EXCEPT !.ok = FALSE]
            BY <1>1, <1>5, <2>3
        <3>2. /\ u \in Stages /\ ~u.ok /\ u.request = s.request /\ u.todo = s.todo /\ u.projected = s.projected
              /\ u.tables = s.tables
            BY <1>2, <3>1 DEF Stages
        <3>3. PICK t \in tables : t.in = parent /\ Same(t.name, name)
            BY <2>3 DEF HasTable
        <3>4. FoldPath(t.in) = e.in /\ FoldName(t.name) = e.name
            BY <2>1, <3>3 DEF Same
        <3>5. Refused(s.request)
            BY <2>1, <3>4, RefusedBy
        <3> QED BY <3>2, <3>5 DEF Staged, Grows, u
    <2>4. CASE ~HasTable(parent, name) /\ pending # {}
        <3>1. u = [s EXCEPT !.ok = same]
            BY <1>1, <1>5, <2>4
        <3>2. /\ u \in Stages /\ u.ok = same /\ u.request = s.request /\ u.todo = s.todo /\ u.projected = s.projected
              /\ u.tables = s.tables /\ u.namespaces = s.namespaces /\ u.catalogs = s.catalogs
            BY <1>2, <3>1 DEF Stages
        <3>3. PICK t \in ToSet(s.tables) : t \in pending /\ t.in = parent /\ Same(t.name, name)
            BY <2>4 DEF pending
        <3>4. CASE same
            <4>1. t.table = table
                BY <3>3, <3>4 DEF same
            <4>2. Tree(u) = Tree(s)
                BY <3>2 DEF Tree
            <4>3. Branches(u)
                BY <2>1, <3>2, <4>2 DEF Branches
            <4>4. Leaves(u)
                BY <2>1, <3>2, <4>2 DEF Leaves, Placed
            <4> QED BY <1>5, <3>2, <3>3, <3>4, <4>1, <4>3, <4>4 DEF Staged, Grows, u
        <3>5. CASE ~same
            <4>1. PICK v \in ToSet(s.tables) : v.in = parent /\ Same(v.name, name) /\ v.table # table
                BY <3>5 DEF same, pending
            <4>2. Seen(v) \in Entries(s.request) /\ Seen(v).in = e.in /\ Seen(v).name = e.name /\ Seen(v).table # e.table
                BY <2>1, <4>1 DEF Leaves, Seen, Same
            <4>3. Refused(s.request)
                BY <2>1, <4>2, RefusedBy
            <4> QED BY <3>2, <3>5, <4>3 DEF Staged, Grows, u
        <3> QED BY <3>4, <3>5
    <2>5. CASE ~HasTable(parent, name) /\ pending = {}
        <3>1. u = [s EXCEPT !.tables = Append(s.tables, new)]
            BY <1>1, <1>5, <2>5
        <3>2. Append(s.tables, new) \in Seq(TableEntries) /\ ToSet(Append(s.tables, new)) = ToSet(s.tables) \cup {new}
            BY <1>2, ToSetAppend
        <3>3. /\ u \in Stages /\ u.ok = s.ok /\ u.request = s.request /\ u.todo = s.todo /\ u.projected = s.projected
              /\ u.tables = Append(s.tables, new) /\ u.namespaces = s.namespaces /\ u.catalogs = s.catalogs
            BY <1>2, <3>1, <3>2 DEF Stages
        <3>4. ToSet(u.tables) = ToSet(s.tables) \cup {new} /\ Tree(u) = Tree(s)
            BY <3>2, <3>3 DEF Tree
        <3>5. Branches(u)
            BY <2>1, <3>3, <3>4 DEF Branches
        <3>6. \A t \in tables \cup ToSet(s.tables) : ~(t.in = parent /\ Same(t.name, name))
            BY <2>5 DEF HasTable, pending
        <3>7. Leaves(u)
            <4>1. \A x : Placed(s, x, table) => Placed(u, x, table)
                BY <3>4 DEF Placed
            <4>2. Placed(u, table.full, table)
                BY <1>3, <2>2, <3>4 DEF Placed
            <4>3. ASSUME NEW t \in ToSet(u.tables)
                  PROVE  t.in \in Range(u.catalogs) /\ Seen(t) \in Entries(u.request) /\ Placed(u, t.table.full, t.table)
                <5>1. CASE t = new
                    BY <1>3, <2>1, <3>3, <3>4, <4>2, <5>1 DEF e
                <5>2. CASE t # new
                    <6>1. t \in ToSet(s.tables)
                        BY <3>4, <5>2
                    <6> QED BY <2>1, <3>3, <3>4, <6>1 DEF Leaves, Placed
                <5> QED BY <5>1, <5>2
            <4>4. ASSUME NEW t \in tables \cup ToSet(u.tables), NEW v \in tables \cup ToSet(u.tables), t.in = v.in, Same(t.name, v.name)
                  PROVE  t = v
                <5>1. Same(v.name, t.name)
                    BY <4>4 DEF Same
                <5>2. CASE t = new \/ v = new
                    BY <1>3, <3>4, <3>6, <4>4, <5>1, <5>2
                <5>3. CASE t # new /\ v # new
                    BY <2>1, <3>4, <4>4, <5>3 DEF Leaves
                <5> QED BY <5>2, <5>3
            <4>5. ToSet(u.tables) \cap tables = {}
                <5>1. Same(name, name)
                    BY DEF Same
                <5>2. new \notin tables
                    BY <1>3, <3>6, <5>1
                <5> QED BY <2>1, <3>4, <5>2 DEF Leaves
            <4> QED BY <4>3, <4>4, <4>5 DEF Leaves
        <3>8. Same(new.name, name)
            BY <1>3 DEF Same
        <3> QED BY <1>3, <1>5, <3>3, <3>4, <3>5, <3>7, <3>8 DEF Staged, Grows, u
    <2> QED BY <2>3, <2>4, <2>5
<1> QED BY <1>4, <1>5

(* A table staged below the namespace of a path, under its last name, is      *)
(* placed there.                                                              *)
LEMMA EntryPlaces ==
    ASSUME NEW s \in Stages, NEW parent \in Paths, NEW name \in Names, NEW path \in Paths, NEW table,
           FoldPath(Append(parent, name)) = FoldPath(path),
           \E t \in ToSet(s.tables) : t.table = table /\ t.in = parent /\ Same(t.name, name)
    PROVE  Placed(s, path, table)
<1>1. PICK t \in ToSet(s.tables) : t.table = table /\ t.in = parent /\ Same(t.name, name)
    OBVIOUS
<1>2. t.in \in Paths /\ t.name \in Names
    <2>1. t \in TableEntries
        BY DEF Stages, ToSet
    <2> QED BY <2>1 DEF TableEntries
<1>3. FoldPath(Append(t.in, t.name)) = FoldPath(Append(parent, name))
    BY <1>1, <1>2, FoldAppendInjective
<1> QED BY <1>1, <1>3 DEF Placed

(* Opening namespaces leaves what is staged in place.                         *)
LEMMA OpenedStays ==
    ASSUME NEW path, NEW s, Staged(s), NEW u, Opened(u, path, Len(path) - 1), Extends(s, u)
    PROVE  Staged(u) /\ Grows(s, u)
<1>1. /\ u.request = s.request /\ u.todo = s.todo /\ u.projected = s.projected /\ u.tables = s.tables
      /\ (u.ok => s.ok) /\ Range(s.catalogs) \subseteq Range(u.catalogs) /\ u \in Stages
    BY DEF Opened, Extends
<1>2. CASE ~u.ok
    BY <1>1, <1>2 DEF Staged, Grows, Opened
<1>3. CASE u.ok
    <2>1. Branches(u) /\ Leaves(s)
        BY <1>1, <1>3 DEF Opened, Staged
    <2>2. Leaves(u)
        BY <1>1, <2>1 DEF Leaves, Placed
    <2> QED BY <1>1, <1>3, <2>1, <2>2 DEF Staged, Grows
<1> QED BY <1>2, <1>3

(* addTable: both forms of one path are staged, or the request is refused.    *)
LEMMA AddKeeps ==
    ASSUME PathsApart, Ground, NEW path \in PlacedPaths, NEW table \in TableForms, NEW s, Staged(s),
           Places(s.request, path, table),
           s.ok => Placed(s, table.full, table) \/ FoldPath(path) = FoldPath(table.full)
    PROVE  /\ Staged(AddTable(s, path, table)) /\ Grows(s, AddTable(s, path, table))
           /\ AddTable(s, path, table).ok =>
                  /\ Placed(AddTable(s, path, table), path, table)
                  /\ Placed(AddTable(s, path, table), <<Dotted(path)>>, table)
<1> DEFINE o == OpenNamespaces(s, path)
           l == ReserveTable(o, o.at, Last(path), table)
           u == ReserveTable(l, Root, Dotted(path), table)
<1>1. AddTable(s, path, table) = u
    BY DEF AddTable
<1>2. path \in Paths /\ path # Root /\ Len(path) - 1 \in Nat
    BY NamespacesAbove
<1>3. /\ Front(path) \in Paths /\ Last(path) \in Names /\ path = Append(Front(path), Last(path))
      /\ Prefix(path, Len(path) - 1) = Front(path) /\ Dotted(path) \in Names /\ <<Dotted(path)>> \in Paths
    <2>1. Front(path) \in Paths /\ Last(path) \in Names /\ path = Append(Front(path), Last(path))
        BY <1>2, FrontAndLast DEF Paths, Root
    <2>2. Dotted(path) \in Names
        BY <1>2, DottedType
    <2>3. <<Dotted(path)>> \in Paths
        <3> DEFINE d == Dotted(path)
        <3> HIDE DEF d
        <3> QED BY <2>2 DEF Paths, d
    <2> QED BY <1>2, <2>1, <2>2, <2>3, PrefixEnds
<1> DEFINE e == [in |-> FoldPath(Front(path)), name |-> FoldName(Last(path)), table |-> table]
           f == [in |-> << >>, name |-> FoldName(Dotted(path)), table |-> table]
<1>4. e \in Entries(s.request) /\ f \in Entries(s.request)
    BY PlacesEntries
<1>5. Opened(o, path, Len(path) - 1) /\ Extends(s, o)
    <2>1. s \in Stages /\ IF s.ok THEN Branches(s) ELSE Refused(s.request)
        BY DEF Staged
    <2> QED BY <2>1, OpenNamespacesKeeps
<1>6. Staged(o) /\ Grows(s, o) /\ o \in Stages /\ o.at \in Paths
    BY <1>5, OpenedStays DEF Opened, Stages
<1> HIDE DEF o
<1>7. o.ok => /\ o.at \in Range(o.catalogs) /\ Kept(o.catalogs)
              /\ FoldPath(o.at) = FoldPath(Front(path))
    BY <1>3, <1>5 DEF Opened, Branches
<1>8. o.ok => FoldPath(Append(o.at, Last(path))) = FoldPath(path)
    <2> DEFINE n == Last(path)
               q == Front(path)
    <2>1. n \in Names /\ q \in Paths /\ path = Append(q, n)
        BY <1>3
    <2>2. Same(n, n)
        BY DEF Same
    <2>3. o.ok => FoldPath(o.at) = FoldPath(q)
        BY <1>7
    <2> HIDE DEF n, q
    <2>4. o.ok => FoldPath(Append(o.at, n)) = FoldPath(Append(q, n))
        BY <1>6, <2>1, <2>2, <2>3, FoldAppendInjective
    <2>5. o.ok => FoldPath(Append(o.at, n)) = FoldPath(path)
        BY <2>1, <2>4
    <2> QED BY <2>5 DEF n
<1>9. o.ok => Placed(o, table.full, table) \/ FoldPath(Append(o.at, Last(path))) = FoldPath(table.full)
    <2>1. o.ok => s.ok
        BY <1>6 DEF Grows
    <2>2. Placed(s, table.full, table) => Placed(o, table.full, table)
        BY <1>6 DEF Grows, Placed
    <2> QED BY <1>8, <2>1, <2>2
<1>10. o.ok => [in |-> FoldPath(o.at), name |-> FoldName(Last(path)), table |-> table] \in Entries(o.request)
    <2>1. o.request = s.request
        BY <1>6 DEF Grows
    <2> QED BY <1>4, <1>7, <2>1
<1>11. /\ Staged(l) /\ Grows(o, l)
       /\ l.ok => \E t \in ToSet(l.tables) : t.table = table /\ t.in = o.at /\ Same(t.name, Last(path))
    BY <1>3, <1>6, <1>7, <1>9, <1>10, ReserveKeeps
<1> HIDE DEF l
<1>12. l \in Stages /\ Grows(s, l)
    BY <1>6, <1>11 DEF Staged, Grows
<1>13. l.ok => Placed(l, path, table)
    <2>1. l.ok => o.ok
        BY <1>11 DEF Grows
    <2>2. CASE l.ok
        <3> DEFINE n == Last(path)
        <3>1. n \in Names /\ FoldPath(Append(o.at, n)) = FoldPath(path)
            BY <1>3, <1>8, <2>1, <2>2
        <3>2. \E t \in ToSet(l.tables) : t.table = table /\ t.in = o.at /\ Same(t.name, n)
            BY <1>11, <2>2
        <3> HIDE DEF n
        <3> QED BY <1>2, <1>6, <1>12, <3>1, <3>2, EntryPlaces
    <2> QED BY <2>2
<1>14. l.ok => Placed(l, table.full, table)
    <2>1. l.ok => s.ok
        BY <1>12 DEF Grows
    <2>2. Placed(s, table.full, table) => Placed(l, table.full, table)
        BY <1>12 DEF Grows, Placed
    <2>3. FoldPath(path) = FoldPath(table.full) /\ Placed(l, path, table) => Placed(l, table.full, table)
        BY DEF Placed
    <2> QED BY <1>13, <2>1, <2>2, <2>3
<1> DEFINE d == Dotted(path)
<1>15. /\ Staged(u) /\ Grows(l, u)
       /\ u.ok => \E t \in ToSet(u.tables) : t.table = table /\ t.in = Root /\ Same(t.name, d)
    <2>0. l.ok => Root \in Range(l.catalogs)
        BY <1>11 DEF Staged, Branches, Kept
    <2>1. Root \in Paths /\ FoldPath(Root) = << >> /\ l.request = s.request
        BY <1>12, FoldRoot DEF Grows
    <2>2. [in |-> FoldPath(Root), name |-> FoldName(d), table |-> table] \in Entries(l.request)
        BY <1>4, <2>1
    <2>3. d \in Names
        BY <1>3
    <2> HIDE DEF d
    <2>4. u = ReserveTable(l, Root, d, table)
        BY DEF d
    <2> HIDE DEF u
    <2>5. /\ Staged(ReserveTable(l, Root, d, table)) /\ Grows(l, ReserveTable(l, Root, d, table))
          /\ ReserveTable(l, Root, d, table).ok =>
               \E t \in ToSet(ReserveTable(l, Root, d, table).tables) : t.table = table /\ t.in = Root /\ Same(t.name, d)
        BY <1>11, <1>14, <2>0, <2>1, <2>2, <2>3, ReserveKeeps
    <2> QED BY <2>4, <2>5
<1> HIDE DEF u
<1>16. u \in Stages /\ Grows(s, u)
    BY <1>12, <1>15 DEF Staged, Grows
<1>17. u.ok => Placed(u, path, table)
    BY <1>13, <1>15 DEF Grows, Placed
<1>18. u.ok => Placed(u, <<Dotted(path)>>, table)
    <2>1. d \in Names /\ <<d>> \in Paths /\ Root \in Paths
        BY <1>3, FoldRoot
    <2>2. u.ok => \E t \in ToSet(u.tables) : t.table = table /\ t.in = Root /\ Same(t.name, d)
        BY <1>15
    <2> HIDE DEF d
    <2>3. Append(Root, d) = <<d>>
        BY DEF Root
    <2>4. u.ok => Placed(u, <<d>>, table)
        BY <1>16, <2>1, <2>2, <2>3, EntryPlaces
    <2> QED BY <2>4 DEF d
<1> QED BY <1>1, <1>15, <1>16, <1>17, <1>18

(* Every place a table of a request is to be found in holds its projection. *)
Done(s, r, t) ==
    \A path \in {FullPath(r, t), ShortPath(r, t)} :
        Placed(s, path, Projection(r, t)) /\ Placed(s, <<Dotted(path)>>, Projection(r, t))

(* Four more reasons to refuse a request: columns that differ only in case,   *)
(* an unsupported column or a named schema that is not to be omitted, and a   *)
(* request that is not well formed.                                           *)
LEMMA RefusedTables ==
    ASSUME NEW r, NEW t
    PROVE  /\ t \in DefaultTables(r) /\ ColumnsCollide(t) => Refused(r)
           /\ t \in DefaultTables(r) /\ Unsupported(r, t) => Refused(r)
           /\ t \in ToSet(r.tables) /\ ~BuiltIn(t) /\ ~InDefaultSchema(t) /\ r.named = "error" => Refused(r)
           /\ ~WellFormed(r) => Refused(r)
<1>1. /\ Registry!DefaultTables(r) = DefaultTables(r) /\ Registry!ColumnsCollide(t) = ColumnsCollide(t)
      /\ Registry!BuiltIn(t) = BuiltIn(t) /\ Registry!InDefaultSchema(t) = InDefaultSchema(t)
      /\ Registry!WellFormed(r) = WellFormed(r) /\ Registry!ToSet(r.tables) = ToSet(r.tables)
    BY SameRequests, SameTables DEF Registry!ToSet, ToSet
<1>2. t \in DefaultTables(r) /\ ColumnsCollide(t) => Refused(r)
    BY <1>1, Zenon DEF Refused, Registry!Admissible
<1>3. t \in DefaultTables(r) /\ Unsupported(r, t) => Refused(r)
    <2>1. Unsupported(r, t) => r.unsupported = "error" /\ \E c \in t.columns : ~(c.kind # "unsupported")
        BY DEF Unsupported
    <2> QED BY <1>1, <2>1, Zenon DEF Refused, Registry!Admissible
<1>4. t \in ToSet(r.tables) /\ ~BuiltIn(t) /\ ~InDefaultSchema(t) /\ r.named = "error" => Refused(r)
    BY <1>1, Zenon DEF Refused, Registry!Admissible
<1>5. ~WellFormed(r) => Refused(r)
    BY <1>1, Zenon DEF Refused, Registry!Admissible
<1> QED BY <1>2, <1>3, <1>4, <1>5

(* The projection of a table is a table, placed under both of its paths.      *)
LEMMA Projections ==
    ASSUME NEW r \in Requests, WellFormed(r), NEW t \in DefaultTables(r)
    PROVE  /\ Projection(r, t) \in TableForms /\ Projection(r, t).full = FullPath(r, t)
           /\ Places(r, FullPath(r, t), Projection(r, t)) /\ Places(r, ShortPath(r, t), Projection(r, t))
<1>1. FullPath(r, t) \in Paths /\ VisibleColumns(t) \in SUBSET Idents
    BY PathTypes, TableTypes DEF DefaultTables
<1> QED BY <1>1 DEF Projection, TableForms, Places

(* The checks and the reservations of one source table: it ends up in every   *)
(* place it has to be found in, or the request is refused.                    *)
LEMMA StageTableKeeps ==
    ASSUME PathsApart, Ground, NEW s, Staged(s), s.ok, s.request \in Requests, WellFormed(s.request),
           NEW t \in DefaultTables(s.request)
    PROVE  /\ Staged(StageTable(s, t)) /\ Grows(s, StageTable(s, t))
           /\ StageTable(s, t).ok => ~ColumnsCollide(t) /\ Done(StageTable(s, t), s.request, t)
<1> DEFINE r == s.request
           table == Projection(r, t)
           ok == ~ColumnsCollide(t)
           start == [s EXCEPT !.ok = ok]
           full == FullPath(r, t)
           short == ShortPath(r, t)
           first == AddTable(start, full, table)
           u == StageTable(s, t)
<1>1. /\ table \in TableForms /\ table.full = full /\ Places(r, full, table) /\ Places(r, short, table)
      /\ full \in PlacedPaths /\ short \in PlacedPaths /\ (ProjectOf(r) = None => short = full)
    BY Projections, PathTypes
<1>2. u = IF ProjectOf(r) = None THEN first ELSE AddTable(first, short, table)
    <2>1. start.request = r
        BY DEF Staged, Stages
    <2> QED BY <1>1 DEF StageTable
<1>3. Staged(start) /\ start.request = r /\ start.ok = ok /\ Grows(s, start)
    <2>1. /\ start \in Stages /\ start.request = r /\ start.ok = ok /\ start.todo = s.todo /\ start.projected = s.projected
          /\ start.tables = s.tables /\ start.namespaces = s.namespaces /\ start.catalogs = s.catalogs
        <3>1. ok \in BOOLEAN
            BY DEF ColumnsCollide
        <3> HIDE DEF ok
        <3> QED BY <3>1 DEF Staged, Stages
    <2> HIDE DEF start
    <2>2. Tree(start) = Tree(s)
        BY <2>1 DEF Tree
    <2>3. Branches(start) /\ Leaves(start)
        BY <2>1, <2>2 DEF Staged, Branches, Leaves, Placed
    <2>4. ~ok => Refused(r)
        BY RefusedTables
    <2> QED BY <2>1, <2>3, <2>4 DEF Staged, Grows
<1> HIDE DEF start
<1>4. /\ Staged(first) /\ Grows(start, first)
      /\ first.ok => Placed(first, full, table) /\ Placed(first, <<Dotted(full)>>, table)
    <2>1. FoldPath(full) = FoldPath(table.full) /\ Places(start.request, full, table)
        BY <1>1, <1>3
    <2> HIDE DEF full, table
    <2> QED BY <1>1, <1>3, <2>1, AddKeeps
<1> HIDE DEF first
<1>5. first.request = r /\ (first.ok => ok) /\ Grows(s, first)
    BY <1>3, <1>4 DEF Grows
<1> HIDE DEF ok
<1>6. CASE ProjectOf(r) = None
    <2>1. u = first /\ short = full
        BY <1>1, <1>2, <1>6
    <2> HIDE DEF u, full, short, table, r
    <2>2. u.ok => ~ColumnsCollide(t)
        BY <1>5, <2>1 DEF ok
    <2>3. u.ok => Done(u, r, t)
        BY <1>4, <2>1 DEF Done, full, short, table
    <2> QED BY <1>4, <1>5, <2>1, <2>2, <2>3 DEF u, r
<1>7. CASE ProjectOf(r) # None
    <2>1. u = AddTable(first, short, table)
        BY <1>2, <1>7
    <2>2. first.ok => Placed(first, table.full, table)
        BY <1>1, <1>4
    <2> HIDE DEF u, full, short, table
    <2>3. Places(first.request, short, table)
        BY <1>1, <1>5
    <2>4. /\ Staged(u) /\ Grows(first, u)
          /\ u.ok => Placed(u, short, table) /\ Placed(u, <<Dotted(short)>>, table)
        BY <1>1, <1>4, <2>1, <2>2, <2>3, AddKeeps
    <2>5. u.ok => Placed(u, full, table) /\ Placed(u, <<Dotted(full)>>, table)
        BY <1>4, <2>4 DEF Grows, Placed
    <2> HIDE DEF r
    <2>6. u.ok => Done(u, r, t)
        BY <2>4, <2>5 DEF Done, full, short, table
    <2>7. Grows(s, u)
        BY <1>5, <2>4 DEF Grows
    <2>8. u.ok => ~ColumnsCollide(t)
        BY <1>5, <2>4 DEF Grows, ok
    <2> QED BY <2>4, <2>6, <2>7, <2>8 DEF u, r
<1> QED BY <1>6, <1>7

------------------------------------------------------------------------------
(* The inductive invariant.                                                   *)

Handled(s, t) ==
    \/ BuiltIn(t)
    \/ InDefaultSchema(t) /\ ~ColumnsCollide(t) /\ ~Unsupported(s.request, t) /\ Done(s, s.request, t)
    \/ ~InDefaultSchema(t) /\ s.request.named # "error"

Vouched(s, p) ==
    p.visible => \E t \in DefaultTables(s.request) :
                     /\ p.full = FullPath(s.request, t) /\ p.columns = VisibleColumns(t)
                     /\ Done(s, s.request, t)

Staging(s) ==
    /\ Staged(s) /\ s.ok /\ WellFormed(s.request)
    /\ ToSet(s.todo) \subseteq ToSet(s.request.tables)
    /\ \A t \in ToSet(s.request.tables) : t \in ToSet(s.todo) \/ Handled(s, t)
    /\ \A p \in ToSet(s.projected) : Vouched(s, p)

(* A visible report is found under each of its four paths. *)
Found(path, table) == \E t \in tables : t.table = table /\ FoldPath(Append(t.in, t.name)) = FoldPath(path)
Short(p) == SubSeq(p.full, Len(p.full) - 1, Len(p.full))
Shown(p) ==
    \A path \in {p.full, Short(p), <<Dotted(p.full)>>, <<Dotted(Short(p))>>} :
        Found(path, [full |-> p.full, columns |-> p.columns])

Bindings == [dataset : Paths, projected : Seq(Reports)]

Pending ==
    /\ todo \in Seq(Statements)
    /\ \A st \in ToSet(todo) : st.kind \in Registers => st.path \in PlacedPaths

IInv ==
    /\ phase \in {"ddl", "ready", "staging", "failed"}
    /\ Pending
    /\ Ground
    /\ \A t \in tables : Found(t.table.full, t.table)
    /\ phase = "ddl" => namespaces \cup {Root} \subseteq Range(cache)
    /\ bindings \in Seq(Bindings) /\ Len(bindings) <= MaxDatasets
    /\ \A i \in DOMAIN bindings : \A p \in ToSet(bindings[i].projected) : p.visible => Shown(p)
    /\ IF phase = "staging" THEN Staging(stage) /\ Len(bindings) < MaxDatasets ELSE stage = None

(* Taking the head off a sequence leaves the other elements.                  *)
LEMMA TailSet ==
    ASSUME NEW S, NEW s \in Seq(S), s # << >>
    PROVE  /\ Tail(s) \in Seq(S) /\ Head(s) \in S /\ Head(s) \in ToSet(s)
           /\ ToSet(s) = {Head(s)} \cup ToSet(Tail(s))
<1>1. /\ Tail(s) \in Seq(S) /\ Head(s) = s[1] /\ Len(Tail(s)) = Len(s) - 1 /\ Len(s) \in Nat /\ Len(s) > 0
      /\ \A i \in 1 .. Len(s) - 1 : Tail(s)[i] = s[i + 1]
    BY EmptySeq, HeadTailProperties
<1>2. DOMAIN s = 1 .. Len(s) /\ DOMAIN Tail(s) = 1 .. Len(s) - 1 /\ 1 \in 1 .. Len(s) /\ \A i \in 1 .. Len(s) : s[i] \in S
    BY <1>1, LenProperties, ElementOfSeq
<1> DEFINE h == Head(s)
           r == Tail(s)
<1> HIDE DEF h, r
<1>3. h = s[1] /\ (\A i \in 1 .. Len(s) - 1 : r[i] = s[i + 1]) /\ DOMAIN r = 1 .. Len(s) - 1
    BY <1>1, <1>2 DEF h, r
<1>4. ASSUME NEW x \in ToSet(s) PROVE x = h \/ x \in ToSet(r)
    <2>1. PICK i \in 1 .. Len(s) : x = s[i]
        BY <1>2 DEF ToSet
    <2>2. CASE i = 1
        BY <1>3, <2>1, <2>2
    <2>3. CASE i # 1
        <3>1. i - 1 \in 1 .. Len(s) - 1 /\ (i - 1) + 1 = i
            BY <1>1, <2>3
        <3>2. r[i - 1] = x
            BY <1>3, <2>1, <3>1
        <3> QED BY <1>3, <3>1, <3>2 DEF ToSet
    <2> QED BY <2>2, <2>3
<1>5. ASSUME NEW x \in ToSet(r) PROVE x \in ToSet(s)
    <2>1. PICK i \in 1 .. Len(s) - 1 : x = r[i]
        BY <1>3 DEF ToSet
    <2>2. i + 1 \in 1 .. Len(s) /\ x = s[i + 1]
        BY <1>1, <1>3, <2>1
    <2> QED BY <1>2, <2>2 DEF ToSet
<1>6. h \in ToSet(s) /\ h \in S
    BY <1>2, <1>3 DEF ToSet
<1> QED BY <1>1, <1>4, <1>5, <1>6 DEF h, r

(* In the native catalog a path that is resolved without regard to case has   *)
(* at most one table, and one namespace.                                      *)
LEMMA NativeTables ==
    ASSUME Ground
    PROVE  /\ \A t \in tables : t.in \in Paths /\ t.name \in Names /\ t.table \in TableForms
           /\ \A t, u \in tables : FoldPath(Append(t.in, t.name)) = FoldPath(Append(u.in, u.name)) => t = u
           /\ \A m, n \in namespaces : FoldPath(m) = FoldPath(n) => m = n
<1>1. ASSUME NEW t \in tables PROVE t.in \in Paths /\ t.name \in Names /\ t.table \in TableForms
    <2>1. t \in TableEntries
        BY DEF Ground
    <2> QED BY <2>1 DEF TableEntries
<1>2. ASSUME NEW t \in tables, NEW u \in tables, FoldPath(Append(t.in, t.name)) = FoldPath(Append(u.in, u.name))
      PROVE  t = u
    <2>1. FoldPath(t.in) = FoldPath(u.in) /\ Same(t.name, u.name)
        BY <1>1, <1>2, FoldAppendInjective
    <2>2. IsTree(namespaces) /\ t.in \in namespaces \cup {Root} /\ u.in \in namespaces \cup {Root}
        BY DEF Ground
    <2>3. t.in = u.in
        BY <2>1, <2>2, TreeUnique
    <2> QED BY <2>1, <2>3 DEF Ground
<1> QED BY <1>1, <1>2 DEF Ground, IsTree

(* The invariant implies what the catalog promises.                           *)
LEMMA InvImplies ==
    ASSUME PathsApart, IInv
    PROVE  CatalogInv /\ NamesStayTrue
<1>1. Ground /\ IsTree(namespaces) /\ Leads(cache, namespaces)
    BY DEF IInv, Ground
<1>2. CatalogTypeOK
    <2>1. phase \in {"ddl", "ready", "staging", "failed"} /\ Len(bindings) <= MaxDatasets
        BY DEF IInv
    <2>2. \A t \in tables : t.in \in namespaces \cup {Root} /\ DOMAIN t.table = {"full", "columns"}
        BY <1>1, NativeTables DEF Ground, TableForms
    <2>3. \A n \in namespaces : Front(n) \in namespaces \cup {Root}
        BY <1>1 DEF IsTree
    <2>4. IF phase = "staging" THEN stage.ok /\ stage.request \in Requests ELSE stage = None
        BY DEF IInv, Staging, Staged, Stages
    <2> QED BY <2>1, <2>2, <2>3, <2>4 DEF CatalogTypeOK
<1>3. NativeNamesDistinct
    BY <1>1, NativeTables DEF NativeNamesDistinct, Ground
<1>4. CacheIsUnambiguous
    <2>1. ASSUME NEW k \in DOMAIN cache PROVE cache[k] \in namespaces \cup {Root} /\ Same(Dotted(cache[k]), k)
        <3>1. PICK p \in NamespacePaths : k = Dotted(p) /\ FoldPath(cache[k]) = FoldPath(p) /\ cache[k] \in namespaces \cup {Root}
            BY <1>1 DEF Leads
        <3>2. cache[k] \in Paths /\ p \in Paths
            BY <1>1, <3>1, FoldRoot, NamespacesArePaths DEF IsTree
        <3>3. Same(Dotted(cache[k]), Dotted(p))
            BY <3>1, <3>2, DottedFolds
        <3> QED BY <3>1, <3>3
    <2>2. ASSUME NEW k \in DOMAIN cache, NEW l \in DOMAIN cache, Same(k, l) PROVE cache[k] = cache[l]
        <3>1. PICK p \in NamespacePaths : l = Dotted(p) /\ FoldPath(cache[l]) = FoldPath(p)
            BY <1>1 DEF Leads
        <3>2. FoldPath(cache[k]) = FoldPath(p)
            BY <1>1, <2>2, <3>1, KeyLeads
        <3> QED BY <1>1, <2>1, <3>1, <3>2, TreeUnique
    <2> QED BY <2>1, <2>2 DEF CacheIsUnambiguous
<1>5. RegisteredRelationsResolve
    <2>1. ASSUME NEW t \in tables PROVE t.table \in {u.table : u \in Resolve(t.table.full)}
        <3>1. PICK u \in tables : u.table = t.table /\ FoldPath(Append(u.in, u.name)) = FoldPath(t.table.full)
            BY DEF IInv, Found
        <3>2. u \in Resolve(t.table.full)
            BY <3>1 DEF Resolve
        <3> QED BY <3>1, <3>2
    <2> QED BY <2>1 DEF RegisteredRelationsResolve
<1>6. ASSUME NEW path, NEW table, Found(path, table) PROVE {t.table : t \in Resolve(path)} = {table}
    <2>1. PICK u \in tables : u.table = table /\ FoldPath(Append(u.in, u.name)) = FoldPath(path)
        BY <1>6 DEF Found
    <2>2. u \in Resolve(path) /\ \A t \in Resolve(path) : t = u
        BY <1>1, <2>1, NativeTables DEF Resolve
    <2> QED BY <2>1, <2>2
<1>7. BindingsStayTrue
    <2>1. ASSUME NEW i \in DOMAIN bindings, NEW p \in {q \in ToSet(bindings[i].projected) : q.visible},
                 NEW path \in {p.full, Short(p), <<Dotted(p.full)>>, <<Dotted(Short(p))>>}
          PROVE  {t.table : t \in Resolve(path)} = {[full |-> p.full, columns |-> p.columns]}
        <3>1. Shown(p)
            BY DEF IInv
        <3>2. Found(path, [full |-> p.full, columns |-> p.columns])
            BY <3>1 DEF Shown
        <3> QED BY <1>6, <3>2
    <2> QED BY <2>1, Zenon DEF BindingsStayTrue, Short
<1> QED BY <1>2, <1>3, <1>4, <1>5, <1>7 DEF CatalogInv, NamesStayTrue

------------------------------------------------------------------------------
(* The steps.                                                                 *)

(* A stage keeps what holds of it while nothing below it moves.               *)
LEMMA Rests ==
    ASSUME NEW v, Staging(v), stage' = v, UNCHANGED <<namespaces, tables, cache>>
    PROVE  Staging(stage)'
<1>1. v.ok /\ v \in Stages /\ Branches(v) /\ Leaves(v)
    BY DEF Staging, Staged
<1>2. Staged(stage)'
    <2>1. Branches(stage)'
        BY <1>1 DEF Branches, Tree
    <2>2. Leaves(stage)'
        BY <1>1 DEF Leaves, Placed
    <2> QED BY <1>1, <2>1, <2>2 DEF Staged
<1>3. \A t : Handled(v, t) => Handled(stage, t)'
    BY DEF Handled, Done, Placed
<1>4. \A p : Vouched(v, p) => Vouched(stage, p)'
    BY DEF Vouched, Done, Placed
<1> QED BY <1>2, <1>3, <1>4 DEF Staging

(* What is native and found stays so while nothing native moves.              *)
LEMMA GroundStays ==
    ASSUME IInv, UNCHANGED <<namespaces, tables, cache>>
    PROVE  /\ Ground' /\ (\A t \in tables : Found(t.table.full, t.table))'
           /\ \A p : Shown(p) => Shown(p)'
<1>1. Ground'
    BY DEF IInv, Ground
<1>2. (\A t \in tables : Found(t.table.full, t.table))'
    BY DEF IInv, Found
<1>3. \A p : Shown(p) => Shown(p)'
    BY DEF Shown, Found
<1> QED BY <1>1, <1>2, <1>3

(* Steps that leave the native catalog, the cache and the bindings alone. *)
LEMMA OutsideKeeps ==
    ASSUME IInv, UNCHANGED <<namespaces, tables, cache, bindings>>,
           phase' \in {"ddl", "ready", "staging", "failed"}, Pending', phase' = "ddl" => phase = "ddl",
           IF phase' = "staging" THEN Staging(stage)' /\ Len(bindings) < MaxDatasets ELSE stage' = None
    PROVE  IInv'
<1>1. Ground' /\ (\A t \in tables : Found(t.table.full, t.table))'
    BY GroundStays
<1>2. (\A i \in DOMAIN bindings : \A p \in ToSet(bindings[i].projected) : p.visible => Shown(p))'
    BY GroundStays DEF IInv
<1>3. (phase = "ddl" => namespaces \cup {Root} \subseteq Range(cache))'
    BY DEF IInv
<1>4. bindings' \in Seq(Bindings) /\ Len(bindings') <= MaxDatasets
    BY DEF IInv
<1> QED BY <1>1, <1>2, <1>3, <1>4 DEF IInv

(* The rest of a script is a script.                                          *)
LEMMA PendingTail ==
    ASSUME Pending, todo # << >>
    PROVE  /\ Head(todo) \in Statements /\ (Head(todo).kind \in Registers => Head(todo).path \in PlacedPaths)
           /\ todo' = Tail(todo) => Pending'
<1>1. /\ Tail(todo) \in Seq(Statements) /\ Head(todo) \in Statements /\ Head(todo) \in ToSet(todo)
      /\ ToSet(Tail(todo)) \subseteq ToSet(todo)
    BY TailSet DEF Pending
<1>2. todo' = Tail(todo) => Pending'
    BY <1>1 DEF Pending
<1> QED BY <1>1, <1>2 DEF Pending

(* The catalog starts in the invariant.                                       *)
LEMMA InitKeeps == CatalogInit => IInv
<1> SUFFICES ASSUME CatalogInit PROVE IInv
    OBVIOUS
<1> USE DEF CatalogInit
<1>1. Pending
    <2>1. todo \in Seq(Statements)
        BY InputsAssumption DEF InputsAssumption
    <2>2. \A st \in ToSet(todo) : st.kind \in Registers => st.path \in PlacedPaths
        BY StatementPaths DEF ToSet
    <2> QED BY <2>1, <2>2 DEF Pending
<1>2. cache \in Caches /\ DOMAIN cache = {Dotted(Root)} /\ cache[Dotted(Root)] = Root /\ Range(cache) = {Root}
    <2> DEFINE k == Dotted(Root)
               D == {k}
    <2>1. k \in Names /\ Root \in Paths
        BY FoldRoot, DottedType
    <2>2. cache = [x \in {k} |-> Root]
        OBVIOUS
    <2> HIDE DEF k
    <2>3. cache \in [D -> Paths] /\ D \in SUBSET Names
        BY <2>1, <2>2
    <2>4. cache \in Caches
        <3> HIDE DEF D
        <3> QED BY <2>3 DEF Caches
    <2>5. DOMAIN cache = {k} /\ cache[k] = Root /\ Range(cache) = {Root}
        BY <2>2 DEF Range
    <2> QED BY <2>4, <2>5 DEF k
<1>3. Ground
    <2>1. IsTree(namespaces)
        BY DEF IsTree
    <2>2. Root \in NamespacePaths
        BY DEF NamespacePaths
    <2>3. Leads(cache, namespaces)
        BY <1>2, <2>2 DEF Leads
    <2>4. Kept(cache)
        BY <1>2 DEF Kept
    <2> QED BY <2>1, <2>3, <2>4 DEF Ground
<1>4. bindings \in Seq(Bindings) /\ Len(bindings) <= MaxDatasets /\ DOMAIN bindings = {}
    BY InputsAssumption DEF InputsAssumption
<1> QED BY <1>1, <1>2, <1>3, <1>4 DEF IInv

(* Statements that register nothing, and the ways a script ends.              *)
LEMMA ScriptKeeps ==
    ASSUME IInv, IgnoreStatement \/ RefuseStatement \/ RefuseAnalysis \/ EndOfScript
    PROVE  IInv'
<1>1. Pending /\ phase = "ddl" /\ stage = None
    BY DEF IInv, IgnoreStatement, RefuseStatement, RefuseAnalysis, EndOfScript
<1>2. UNCHANGED <<namespaces, tables, cache, bindings, stage>> /\ phase' \in {"ddl", "ready", "failed"}
    BY <1>1 DEF IgnoreStatement, RefuseStatement, RefuseAnalysis, EndOfScript, Stop
<1>3. Pending'
    <2>1. CASE todo' = todo
        BY <1>1, <2>1 DEF Pending
    <2>2. CASE todo # << >> /\ todo' = Tail(todo)
        BY <1>1, <2>2, PendingTail
    <2> QED BY <2>1, <2>2 DEF IgnoreStatement, RefuseStatement, RefuseAnalysis, EndOfScript, Stop
<1> QED BY <1>1, <1>2, <1>3, OutsideKeeps

(* A caller installs a namespace of its own.                                  *)
LEMMA InstallKeeps ==
    ASSUME IInv, InstallNamespace
    PROVE  IInv' /\ \E n \in CallerNamespaces : namespaces' = namespaces \cup {<<n>>}
<1>1. PICK n \in CallerNamespaces : ~HasNamespace(namespaces, Root, n) /\ namespaces' = namespaces \cup {<<n>>}
    BY DEF InstallNamespace
<1>2. n \in Names
    BY InputsAssumption DEF InputsAssumption
<1>3. Append(Root, n) = <<n>> /\ IsTree(namespaces) /\ Leads(cache, namespaces) /\ Ground
    BY <1>2 DEF Root, IInv, Ground
<1>4. \A m \in namespaces : FoldPath(m) # FoldPath(Append(Root, n))
    BY <1>1, <1>2, <1>3, TreeHas DEF HasNamespace
<1>5. IsTree(namespaces \cup {Append(Root, n)})
    BY <1>2, <1>3, <1>4, TreeGrows
<1>6. UNCHANGED <<phase, todo, tables, cache, bindings, stage>> /\ phase = "ready"
    BY DEF InstallNamespace
<1>7. Ground'
    <2>1. IsTree(namespaces')
        BY <1>1, <1>3, <1>5
    <2>2. Leads(cache', namespaces')
        BY <1>1, <1>3, <1>6 DEF Leads
    <2> QED BY <1>1, <1>3, <1>6, <2>1, <2>2 DEF Ground
<1>8. Pending' /\ (\A t \in tables : Found(t.table.full, t.table))'
    BY <1>6 DEF IInv, Pending, Found
<1>9. \A p : Shown(p) => Shown(p)'
    BY <1>6 DEF Shown, Found
<1>10. (\A i \in DOMAIN bindings : \A p \in ToSet(bindings[i].projected) : p.visible => Shown(p))'
    BY <1>6, <1>9 DEF IInv
<1>11. IInv'
    BY <1>6, <1>7, <1>8, <1>10 DEF IInv
<1> QED BY <1>1, <1>11

(* A statement registers a relation.                                          *)
LEMMA CreateKeeps ==
    ASSUME PathsApart, IInv, CreateRelation
    PROVE  IInv' /\ namespaces' \subseteq Range(cache')
<1> DEFINE path == Head(todo).path
           place == NamespaceFor(path)
           table == [full |-> path, columns |-> Head(todo).columns]
           new == [in |-> place.at, name |-> Last(path), table |-> table]
<1>1. /\ phase = "ddl" /\ todo # << >> /\ Head(todo).kind \in Registers
      /\ ~place.taken /\ ~HasTable(place.at, Last(path))
      /\ namespaces' = place.namespaces /\ cache' = place.cache /\ tables' = tables \cup {new}
      /\ todo' = Tail(todo) /\ UNCHANGED <<phase, failure, bindings, stage, decided>>
    BY DEF CreateRelation
<1>2. Pending /\ Ground /\ namespaces \cup {Root} \subseteq Range(cache) /\ stage = None
    BY <1>1 DEF IInv
<1>3. Head(todo) \in Statements /\ path \in PlacedPaths /\ Pending'
    BY <1>1, <1>2, PendingTail
<1>4. path \in Paths /\ path # Root /\ Head(todo).columns \in SUBSET Idents /\ table \in TableForms
    <2>1. path \in Paths /\ path # Root /\ Head(todo).columns \in SUBSET Idents
        BY <1>3 DEF Statements
    <2> QED BY <2>1 DEF TableForms
<1>5. WalkInv(place, path, Len(path) - 1)
    BY <1>2, <1>3, NamespaceForLeads DEF Ground
<1> HIDE DEF place, path
<1>6. /\ place \in Walks /\ IsTree(place.namespaces) /\ Leads(place.cache, place.namespaces)
      /\ place.at \in place.namespaces \cup {Root} /\ FoldPath(place.at) = FoldPath(Prefix(path, Len(path) - 1))
      /\ namespaces \subseteq place.namespaces /\ place.namespaces \cup {Root} \subseteq Range(place.cache)
    BY <1>1, <1>5 DEF WalkInv
<1>7. Front(path) \in Paths /\ Last(path) \in Names /\ path = Append(Front(path), Last(path)) /\ Prefix(path, Len(path) - 1) = Front(path)
    BY <1>4, FrontAndLast, PrefixEnds DEF Paths, Root
<1>8. place.at \in Paths /\ new \in TableEntries
    BY <1>4, <1>6, <1>7 DEF Walks, TableEntries
<1>9. FoldPath(Append(place.at, Last(path))) = FoldPath(path)
    <2> DEFINE n == Last(path)
               q == Front(path)
    <2>1. n \in Names /\ q \in Paths /\ path = Append(q, n) /\ FoldPath(place.at) = FoldPath(q) /\ Same(n, n)
        BY <1>6, <1>7 DEF Same
    <2> HIDE DEF n, q
    <2>2. FoldPath(Append(place.at, n)) = FoldPath(Append(q, n))
        BY <1>8, <2>1, FoldAppendInjective
    <2>3. FoldPath(Append(place.at, n)) = FoldPath(path)
        BY <2>1, <2>2
    <2> QED BY <2>3 DEF n
<1>10. new.in = place.at /\ new.name = Last(path) /\ new.table = table /\ table.full = path
    OBVIOUS
<1> HIDE DEF new, table
<1>11. Kept(place.cache)
    <2>1. Range(place.cache) \subseteq place.namespaces \cup {Root}
        BY <1>6, LeadsInto
    <2> QED BY <1>6, <2>1 DEF Kept, IsTree
<1>12. Ground'
    <2>1. IsTree(namespaces') /\ Leads(cache', namespaces') /\ Kept(cache')
        BY <1>1, <1>6, <1>11
    <2>2. tables' \subseteq TableEntries
        BY <1>1, <1>2, <1>8 DEF Ground
    <2>3. \A t \in tables' : t.in \in namespaces' \cup {Root}
        BY <1>1, <1>2, <1>6, <1>10 DEF Ground
    <2>4. \A t \in tables : ~(t.in = new.in /\ Same(t.name, new.name))
        BY <1>1, <1>10 DEF HasTable
    <2>5. ASSUME NEW t \in tables', NEW u \in tables', t.in = u.in, Same(t.name, u.name) PROVE t = u
        <3>1. Same(u.name, t.name)
            BY <2>5 DEF Same
        <3>2. CASE t = new \/ u = new
            BY <1>1, <2>4, <2>5, <3>1, <3>2
        <3>3. CASE t # new /\ u # new
            BY <1>1, <1>2, <2>5, <3>3 DEF Ground
        <3> QED BY <3>2, <3>3
    <2> QED BY <2>1, <2>2, <2>3, <2>5 DEF Ground
<1>13. ASSUME NEW q, NEW x, Found(q, x) PROVE Found(q, x)'
    BY <1>1, <1>13 DEF Found
<1>14. (\A t \in tables : Found(t.table.full, t.table))'
    <2>1. new \in tables' /\ new.table = table /\ FoldPath(Append(new.in, new.name)) = FoldPath(table.full)
        BY <1>1, <1>9, <1>10
    <2>2. ASSUME NEW t \in tables'
          PROVE  \E u \in tables' : u.table = t.table /\ FoldPath(Append(u.in, u.name)) = FoldPath(t.table.full)
        <3>1. CASE t = new
            BY <1>10, <2>1, <3>1
        <3>2. CASE t # new
            <4>1. t \in tables
                BY <1>1, <3>2
            <4>2. \E u \in tables : u.table = t.table /\ FoldPath(Append(u.in, u.name)) = FoldPath(t.table.full)
                BY <4>1 DEF IInv, Found
            <4> QED BY <1>1, <4>2
        <3> QED BY <3>1, <3>2
    <2> QED BY <2>2 DEF Found
<1>15. ASSUME NEW p, Shown(p) PROVE Shown(p)'
    BY <1>13, <1>15 DEF Shown
<1>16. bindings' \in Seq(Bindings) /\ Len(bindings') <= MaxDatasets
       /\ \A i \in DOMAIN bindings' : \A p \in ToSet(bindings'[i].projected) : p.visible => Shown(p)'
    BY <1>1, <1>15 DEF IInv
<1>17. namespaces' \cup {Root} \subseteq Range(cache')
    BY <1>1, <1>6
<1>18. phase' = "ddl" /\ stage' = None
    BY <1>1, <1>2
<1> QED BY <1>3, <1>12, <1>14, <1>16, <1>17, <1>18 DEF IInv

(* A call starts with an empty stage.                                         *)
LEMMA BeginKeeps ==
    ASSUME IInv, Begin
    PROVE  IInv'
<1>1. PICK r \in Requests :
         /\ WellFormed(r)
         /\ stage' = [request |-> r, todo |-> r.tables, at |-> Root, ok |-> TRUE, catalogs |-> cache,
                      namespaces |-> << >>, tables |-> << >>, projected |-> << >>]
    BY DEF Begin
<1>2. /\ phase' = "staging" /\ UNCHANGED <<todo, failure, namespaces, tables, cache, bindings, decided>>
      /\ Len(bindings) < MaxDatasets /\ Ground
    BY DEF Begin, IInv
<1> DEFINE v == [request |-> r, todo |-> r.tables, at |-> Root, ok |-> TRUE, catalogs |-> cache,
                 namespaces |-> << >>, tables |-> << >>, projected |-> << >>]
<1>3. r.tables \in Seq(SourceTables)
    BY InputsAssumption DEF InputsAssumption, RequestForms
<1>4. /\ v.request = r /\ v.todo = r.tables /\ v.ok /\ v.catalogs = cache /\ v.namespaces = << >>
      /\ v.tables = << >> /\ v.projected = << >> /\ v \in Stages
    <2>1. cache \in Caches /\ Root \in Paths
        BY <1>2, FoldRoot DEF Ground, Leads
    <2>2. << >> \in Seq(Paths) /\ << >> \in Seq(TableEntries) /\ << >> \in Seq(Reports)
        OBVIOUS
    <2> QED BY <1>3, <2>1, <2>2 DEF Stages
<1> HIDE DEF v
<1>5. ToSet(v.namespaces) = {} /\ ToSet(v.tables) = {} /\ ToSet(v.projected) = {}
    BY <1>4 DEF ToSet
<1>6. Staged(v)
    <2>1. Tree(v) = namespaces
        BY <1>5 DEF Tree
    <2>2. Branches(v)
        BY <1>2, <1>4, <1>5, <2>1 DEF Branches, Ground
    <2>3. Leaves(v)
        BY <1>2, <1>5 DEF Leaves, Ground
    <2> QED BY <1>4, <2>2, <2>3 DEF Staged
<1>7. Staging(v)
    BY <1>1, <1>4, <1>5, <1>6 DEF Staging
<1>8. Staging(stage)'
    BY <1>1, <1>2, <1>7, Rests DEF v
<1>9. Pending'
    BY <1>2 DEF IInv, Pending
<1> QED BY <1>2, <1>8, <1>9, OutsideKeeps

(* A call that returns without publishing drops its stage.                    *)
LEMMA ReturnKeeps ==
    ASSUME IInv, UNCHANGED <<todo, namespaces, tables, cache, bindings>>, phase' = "ready", stage' = None
    PROVE  IInv'
<1>1. Pending'
    BY DEF IInv, Pending
<1> QED BY <1>1, OutsideKeeps

(* A request that is not well formed is refused.                              *)
LEMMA RefuseKeeps ==
    ASSUME IInv, RefuseRequest
    PROVE  IInv'
<1>1. stage = None /\ phase = "ready"
    BY DEF IInv, RefuseRequest
<1> QED BY <1>1, ReturnKeeps DEF RefuseRequest

(* One table of the source has been dealt with. *)
LEMMA Passes ==
    ASSUME NEW s, Staging(s), s.todo # << >>, NEW u, Staged(u), u.ok, Grows(s, u), Handled(u, Head(s.todo)),
           NEW v, v \in Stages, v.ok, v.request = u.request, v.todo = Tail(s.todo), v.catalogs = u.catalogs,
           v.namespaces = u.namespaces, v.tables = u.tables,
           ToSet(v.projected) \subseteq ToSet(s.projected) \cup {Projected(s.request, Head(s.todo))}, 
           v.projected = s.projected \/ ~BuiltIn(Head(s.todo))
    PROVE  Staging(v)
<1>1. Tail(s.todo) \in Seq(SourceTables) /\ Head(s.todo) \in ToSet(s.todo) /\ ToSet(s.todo) = {Head(s.todo)} \cup ToSet(v.todo)
    <2>1. s.todo \in Seq(SourceTables)
        BY DEF Staging, Staged, Stages
    <2> QED BY <2>1, TailSet
<1>2. /\ u.request = s.request /\ u.todo = s.todo /\ u.projected = s.projected /\ ToSet(s.tables) \subseteq ToSet(v.tables)
      /\ v.request = s.request
    BY DEF Grows
<1>3. Staged(v)
    <2>1. Tree(v) = Tree(u)
        BY DEF Tree
    <2>2. Branches(v)
        BY <2>1 DEF Staged, Branches
    <2>3. Leaves(v)
        BY DEF Staged, Leaves, Placed
    <2> QED BY <2>2, <2>3 DEF Staged
<1>4. \A q, x : (Placed(s, q, x) => Placed(v, q, x)) /\ (Placed(u, q, x) => Placed(v, q, x))
    BY <1>2 DEF Placed
<1>5. \A t : (Done(s, s.request, t) => Done(v, v.request, t)) /\ (Done(u, u.request, t) => Done(v, v.request, t))
    BY <1>2, <1>4 DEF Done
<1>6. Handled(v, Head(s.todo)) /\ \A t : Handled(s, t) => Handled(v, t)
    BY <1>2, <1>5 DEF Handled
<1>7. \A t \in ToSet(v.request.tables) : t \in ToSet(v.todo) \/ Handled(v, t)
    BY <1>1, <1>2, <1>6 DEF Staging
<1>8. \A p \in ToSet(s.projected) : Vouched(v, p)
    BY <1>2, <1>5 DEF Staging, Vouched
<1> DEFINE h == Head(s.todo)
<1>9. ~BuiltIn(h) => Vouched(v, Projected(s.request, h))
    <2>1. SUFFICES ASSUME ~BuiltIn(h), InDefaultSchema(h) PROVE Vouched(v, Projected(s.request, h))
        BY DEF Vouched, Projected
    <2>2. h \in ToSet(s.request.tables)
        BY <1>1 DEF Staging
    <2> HIDE DEF h
    <2>3. h \in DefaultTables(s.request)
        BY <2>1, <2>2 DEF DefaultTables
    <2>4. Done(v, v.request, h)
        <3>1. Handled(v, h)
            BY <1>6 DEF h
        <3> QED BY <2>1, <3>1 DEF Handled
    <2>5. Projected(s.request, h).full = FullPath(s.request, h) /\ Projected(s.request, h).columns = VisibleColumns(h)
        BY <2>1 DEF Projected
    <2> QED BY <1>2, <2>3, <2>4, <2>5 DEF Vouched
<1>10. \A p \in ToSet(v.projected) : Vouched(v, p)
    BY <1>8, <1>9
<1>11. WellFormed(v.request) /\ ToSet(v.todo) \subseteq ToSet(v.request.tables)
    BY <1>1, <1>2 DEF Staging
<1> QED BY <1>3, <1>7, <1>10, <1>11 DEF Staging

(* The next table of a stage is one of its request.                           *)
LEMMA HeadTyped ==
    ASSUME NEW s, Staging(s), s.todo # << >>
    PROVE  /\ Head(s.todo) \in ToSet(s.request.tables) /\ Head(s.todo) \in SourceTables
           /\ Tail(s.todo) \in Seq(SourceTables) /\ s.request \in Requests
           /\ ~BuiltIn(Head(s.todo)) /\ InDefaultSchema(Head(s.todo)) => Head(s.todo) \in DefaultTables(s.request)
<1>1. s.todo \in Seq(SourceTables) /\ s.request \in Requests
    BY DEF Staging, Staged, Stages
<1>2. Tail(s.todo) \in Seq(SourceTables) /\ Head(s.todo) \in ToSet(s.todo) /\ Head(s.todo) \in SourceTables
    BY <1>1, TailSet
<1>3. Head(s.todo) \in ToSet(s.request.tables)
    BY <1>2 DEF Staging
<1> QED BY <1>1, <1>2, <1>3 DEF DefaultTables

(* The report of a table has its type.                                        *)
LEMMA ReportTyped ==
    ASSUME NEW r \in Requests, WellFormed(r), NEW t \in SourceTables, t \in ToSet(r.tables), ~BuiltIn(t)
    PROVE  Projected(r, t) \in Reports
<1>1. t.name \in Paths /\ VisibleColumns(t) \in SUBSET Idents
    BY TableTypes DEF SourceTables
<1>2. CASE InDefaultSchema(t)
    <2>1. t \in DefaultTables(r)
        BY <1>2 DEF DefaultTables
    <2>2. FullPath(r, t) \in Paths
        BY <2>1, PathTypes
    <2> QED BY <1>1, <1>2, <2>2 DEF Projected, Reports
<1>3. CASE ~InDefaultSchema(t)
    BY <1>1, <1>3 DEF Projected, Reports
<1> QED BY <1>2, <1>3

(* A stage that is left alone does not shrink.                                *)
LEMMA GrowsItself == ASSUME NEW s PROVE Grows(s, s)
BY DEF Grows

(* A table of a system schema is passed over.                                 *)
LEMMA BuiltInKeeps ==
    ASSUME IInv, SkipBuiltIn
    PROVE  IInv'
<1> DEFINE v == [stage EXCEPT !.todo = Tail(stage.todo)]
<1>1. /\ phase = "staging" /\ stage.todo # << >> /\ BuiltIn(Head(stage.todo)) /\ stage' = v
      /\ UNCHANGED <<phase, todo, failure, namespaces, tables, cache, bindings, decided>>
    BY DEF SkipBuiltIn
<1>2. Staging(stage) /\ Staged(stage) /\ stage.ok /\ stage \in Stages /\ Len(bindings) < MaxDatasets
    BY <1>1 DEF IInv, Staging, Staged
<1>3. Tail(stage.todo) \in Seq(SourceTables)
    BY <1>1, <1>2, HeadTyped
<1>4. /\ v \in Stages /\ v.ok /\ v.request = stage.request /\ v.todo = Tail(stage.todo) /\ v.catalogs = stage.catalogs
      /\ v.namespaces = stage.namespaces /\ v.tables = stage.tables /\ v.projected = stage.projected
    BY <1>2, <1>3 DEF Stages
<1> HIDE DEF v
<1>5. Handled(stage, Head(stage.todo)) /\ Grows(stage, stage)
    BY <1>1, GrowsItself DEF Handled
<1>6. Staging(v)
    <2>1. ToSet(v.projected) \subseteq ToSet(stage.projected) \cup {Projected(stage.request, Head(stage.todo))}
        BY <1>4
    <2> QED BY <1>1, <1>2, <1>4, <1>5, <2>1, Passes
<1>7. Staging(stage)'
    BY <1>1, <1>6, Rests
<1>8. Pending'
    BY <1>1 DEF IInv, Pending
<1> QED BY <1>1, <1>2, <1>7, <1>8, OutsideKeeps

(* A table that has been dealt with is reported.                              *)
LEMMA AdvanceKeeps ==
    ASSUME IInv, phase = "staging", stage.todo # << >>, ~BuiltIn(Head(stage.todo)),
           NEW u, Staged(u), u.ok, Grows(stage, u), Handled(u, Head(stage.todo)), Advance(u, Head(stage.todo))
    PROVE  IInv'
<1> DEFINE h == Head(stage.todo)
           p == Projected(u.request, h)
           v == [u EXCEPT !.todo = Tail(u.todo), !.projected = Append(u.projected, p)]
<1>1. stage' = v /\ UNCHANGED <<phase, todo, failure, namespaces, tables, cache, bindings, decided>>
    BY DEF Advance
<1>2. /\ Staging(stage) /\ Len(bindings) < MaxDatasets
      /\ u.request = stage.request /\ u.todo = stage.todo /\ u.projected = stage.projected /\ u \in Stages
    BY DEF IInv, Grows, Staged
<1>3. /\ h \in ToSet(stage.request.tables) /\ h \in SourceTables /\ Tail(stage.todo) \in Seq(SourceTables)
      /\ stage.request \in Requests /\ WellFormed(stage.request)
    BY <1>2, HeadTyped DEF Staging
<1>4. p \in Reports /\ u.projected \in Seq(Reports) /\ p = Projected(stage.request, h)
    <2>1. Projected(stage.request, h) \in Reports
        BY <1>3, ReportTyped
    <2> QED BY <1>2, <2>1 DEF Stages
<1> HIDE DEF p
<1>5. Append(u.projected, p) \in Seq(Reports) /\ ToSet(Append(u.projected, p)) = ToSet(u.projected) \cup {p}
    BY <1>4, ToSetAppend
<1>6. /\ v \in Stages /\ v.ok /\ v.request = u.request /\ v.todo = Tail(stage.todo) /\ v.catalogs = u.catalogs
      /\ v.namespaces = u.namespaces /\ v.tables = u.tables /\ v.projected = Append(u.projected, p)
    BY <1>2, <1>3, <1>5 DEF Stages
<1> HIDE DEF v
<1>7. ToSet(v.projected) \subseteq ToSet(stage.projected) \cup {Projected(stage.request, h)}
    BY <1>2, <1>4, <1>5, <1>6
<1>8. Staging(v)
    BY <1>2, <1>6, <1>7, Passes
<1>9. Staging(stage)'
    BY <1>1, <1>8, Rests
<1>10. Pending'
    BY <1>1 DEF IInv, Pending
<1> QED BY <1>1, <1>2, <1>9, <1>10, OutsideKeeps

(* A call is abandoned only when the catalog does not admit its request. *)
Abandoned == Abandon /\ Refused(stage.request)
Aside == UNCHANGED <<phase, namespaces, tables, cache, decided>>

(* A table of a named schema is left out, or refuses the request.             *)
LEMMA NamedKeeps ==
    ASSUME IInv, SkipNamedSchema
    PROVE  IInv' /\ (Abandoned \/ Aside)
<1> DEFINE h == Head(stage.todo)
<1>1. phase = "staging" /\ stage.todo # << >> /\ ~BuiltIn(h) /\ ~InDefaultSchema(h)
    BY DEF SkipNamedSchema
<1>2. Staging(stage) /\ Staged(stage) /\ stage.ok
    BY <1>1 DEF IInv, Staging
<1>3. h \in ToSet(stage.request.tables)
    BY <1>1, <1>2, HeadTyped
<1>4. CASE stage.request.named = "error"
    <2>1. Refused(stage.request)
        BY <1>1, <1>3, <1>4, RefusedTables
    <2>2. Abandon
        BY <1>4 DEF SkipNamedSchema
    <2>3. IInv'
        BY <2>2, ReturnKeeps DEF Abandon
    <2> QED BY <2>1, <2>2, <2>3 DEF Abandoned
<1>5. CASE stage.request.named # "error"
    <2>1. Advance(stage, h)
        BY <1>5 DEF SkipNamedSchema
    <2>2. Handled(stage, h) /\ Grows(stage, stage)
        BY <1>1, <1>5, GrowsItself DEF Handled
    <2>3. IInv'
        BY <1>1, <1>2, <2>1, <2>2, AdvanceKeeps
    <2> QED BY <2>1, <2>3 DEF Advance, Aside
<1> QED BY <1>4, <1>5

(* A table is staged, or refuses the request.                                 *)
LEMMA StageKeeps ==
    ASSUME PathsApart, IInv, StageNext
    PROVE  IInv' /\ (Abandoned \/ Aside)
<1> DEFINE h == Head(stage.todo)
           u == StageTable(stage, h)
<1>1. /\ phase = "staging" /\ stage.todo # << >> /\ ~BuiltIn(h) /\ InDefaultSchema(h)
      /\ IF u.ok /\ ~Unsupported(stage.request, h) THEN Advance(u, h) ELSE Abandon
    BY DEF StageNext
<1>2. Staging(stage) /\ Staged(stage) /\ stage.ok /\ WellFormed(stage.request) /\ Ground
    BY <1>1 DEF IInv, Staging
<1>3. h \in DefaultTables(stage.request) /\ stage.request \in Requests
    BY <1>1, <1>2, HeadTyped
<1>4. /\ Staged(u) /\ Grows(stage, u)
      /\ u.ok => ~ColumnsCollide(h) /\ Done(u, stage.request, h)
    <2> HIDE DEF h
    <2> QED BY <1>2, <1>3, StageTableKeeps
<1> HIDE DEF u
<1>5. u.request = stage.request
    BY <1>4 DEF Grows
<1>6. CASE u.ok /\ ~Unsupported(stage.request, h)
    <2>1. Advance(u, h)
        BY <1>1, <1>6
    <2>2. Handled(u, h)
        BY <1>1, <1>4, <1>5, <1>6 DEF Handled
    <2>3. IInv'
        BY <1>1, <1>4, <1>6, <2>1, <2>2, AdvanceKeeps
    <2> QED BY <2>1, <2>3 DEF Advance, Aside
<1>7. CASE ~(u.ok /\ ~Unsupported(stage.request, h))
    <2>1. Abandon
        BY <1>1, <1>7
    <2>2. Refused(stage.request)
        <3>1. CASE ~u.ok
            BY <1>4, <1>5, <3>1 DEF Staged
        <3>2. CASE Unsupported(stage.request, h)
            BY <1>3, <3>2, RefusedTables
        <3> QED BY <1>7, <3>1, <3>2
    <2>3. IInv'
        BY <2>1, ReturnKeeps DEF Abandon
    <2> QED BY <2>1, <2>2, <2>3 DEF Abandoned
<1> QED BY <1>6, <1>7

------------------------------------------------------------------------------
(* What publishing does.                                                      *)

(* What a staged table is.                                                    *)
LEMMA StagedTables ==
    ASSUME NEW s, Staging(s), NEW u \in ToSet(s.tables)
    PROVE  /\ u.in \in Paths /\ u.name \in Names /\ u.table \in TableForms
           /\ u.in \in Range(s.catalogs) /\ u.in \in Tree(s) \cup {Root} /\ Seen(u) \in Entries(s.request)
<1>1. s \in Stages /\ Branches(s) /\ Leaves(s)
    BY DEF Staging, Staged
<1>2. u \in TableEntries
    BY <1>1 DEF Stages, ToSet
<1>3. u.in \in Tree(s) \cup {Root} /\ u.in \in Range(s.catalogs)
    BY <1>1, LeadsInto DEF Leaves, Branches
<1> QED BY <1>1, <1>2, <1>3 DEF TableEntries, Leaves

(* When every table has been dealt with, every entry of the request is        *)
(* staged.                                                                    *)
LEMMA EntryStaged ==
    ASSUME NEW s, Staging(s), s.todo = << >>, NEW e \in Entries(s.request)
    PROVE  \E u \in ToSet(s.tables) : Seen(u) = e
<1> DEFINE r == s.request
<1>0. PICK t \in DefaultTables(r) : \E p \in {FullPath(r, t), ShortPath(r, t)} :
          \/ e = [in |-> FoldPath(Front(p)), name |-> FoldName(Last(p)), table |-> Projection(r, t)]
          \/ e = [in |-> << >>, name |-> FoldName(Dotted(p)), table |-> Projection(r, t)]
    BY EntriesOf
<1>1. PICK p \in {FullPath(r, t), ShortPath(r, t)} :
          \/ e = [in |-> FoldPath(Front(p)), name |-> FoldName(Last(p)), table |-> Projection(r, t)]
          \/ e = [in |-> << >>, name |-> FoldName(Dotted(p)), table |-> Projection(r, t)]
    BY <1>0
<1>2. t \in ToSet(r.tables) /\ ~BuiltIn(t) /\ InDefaultSchema(t) /\ r \in Requests /\ WellFormed(r) /\ ToSet(s.todo) = {}
    BY DEF DefaultTables, Staging, Staged, Stages, ToSet
<1>3. Done(s, r, t)
    BY <1>2 DEF Staging, Handled
<1>4. p \in PlacedPaths
    BY <1>2, PathTypes
<1>5. p \in Paths /\ p # Root /\ Dotted(p) \in Names
    BY <1>4, NamespacesAbove, DottedType
<1>6. Front(p) \in Paths /\ Last(p) \in Names /\ p = Append(Front(p), Last(p))
    BY <1>5, FrontAndLast DEF Paths, Root
<1> DEFINE table == Projection(r, t)
           n == Last(p)
           q == Front(p)
           d == Dotted(p)
<1> HIDE DEF table, n, q, d
<1>7. CASE e = [in |-> FoldPath(q), name |-> FoldName(n), table |-> table]
    <2>1. PICK u \in ToSet(s.tables) : u.table = table /\ FoldPath(Append(u.in, u.name)) = FoldPath(p)
        BY <1>3 DEF Done, Placed, table
    <2>2. u.in \in Paths /\ u.name \in Names
        BY StagedTables
    <2>3. FoldPath(Append(u.in, u.name)) = FoldPath(Append(q, n)) /\ q \in Paths /\ n \in Names
        BY <1>6, <2>1 DEF q, n
    <2>4. FoldPath(u.in) = FoldPath(q) /\ Same(u.name, n)
        BY <2>2, <2>3, FoldAppendInjective
    <2>5. Seen(u) = e
        BY <1>7, <2>1, <2>4 DEF Seen, Same
    <2> QED BY <2>5
<1>8. CASE e = [in |-> << >>, name |-> FoldName(d), table |-> table]
    <2>1. PICK u \in ToSet(s.tables) : u.table = table /\ FoldPath(Append(u.in, u.name)) = FoldPath(<<d>>)
        BY <1>3 DEF Done, Placed, table, d
    <2>2. u.in \in Paths /\ u.name \in Names /\ Root \in Paths /\ d \in Names
        BY <1>5, StagedTables, FoldRoot DEF d
    <2>3. FoldPath(Append(u.in, u.name)) = FoldPath(Append(Root, d))
        <3>1. Append(Root, d) = <<d>>
            BY DEF Root
        <3> QED BY <2>1, <3>1
    <2>4. FoldPath(u.in) = FoldPath(Root) /\ Same(u.name, d)
        BY <2>2, <2>3, FoldAppendInjective
    <2>5. Seen(u) = e
        BY <1>8, <2>1, <2>4, FoldRoot DEF Seen, Same
    <2> QED BY <2>5
<1> QED BY <1>1, <1>7, <1>8 DEF q, n, d, table

(* The namespaces above a staged table are all kept in the stage's cache. *)
LEMMA KeptAbove ==
    ASSUME NEW c \in Caches, Kept(c), NEW n \in Range(c), NEW i \in 0 .. Len(n)
    PROVE  Prefix(n, i) \in Range(c)
<1>1. n \in Paths
    BY DEF Caches, Range
<1>2. Len(n) \in Nat
    BY <1>1 DEF Paths
<1> DEFINE m == Len(n)
           A == {k \in 0 .. m : Prefix(n, m - k) \in Range(c)}
<1>3. Prefix(n, m) = n
    BY <1>1 DEF Paths, Prefix
<1>4. ASSUME NEW k \in A, k < m PROVE k + 1 \in A
    <2>1. m - k \in 1 .. m /\ (m - k) - 1 = m - (k + 1) /\ k + 1 \in 0 .. m
        BY <1>2, <1>4
    <2>2. /\ Prefix(n, m - k) \in Paths /\ Prefix(n, (m - k) - 1) \in Paths /\ n[m - k] \in Names
          /\ Prefix(n, m - k) = Append(Prefix(n, (m - k) - 1), n[m - k])
        BY <1>1, <2>1, PrefixGrows
    <2> DEFINE p == Prefix(n, m - k)
               q == Prefix(n, (m - k) - 1)
               x == n[m - k]
    <2>3. p \in Range(c)
        OBVIOUS
    <2> HIDE DEF p, q, x
    <2>4. q \in Seq(Names) /\ x \in Names /\ p = Append(q, x)
        BY <2>2 DEF p, q, x, Paths
    <2>5. Front(p) = q /\ p # Root
        BY <2>4, AppendParts, AppendProperties DEF Root
    <2>6. q \in Range(c)
        BY <2>3, <2>5 DEF Kept
    <2> QED BY <2>1, <2>6 DEF q
<1>5. \A k \in 0 .. m : k \in A
    <2>1. 0 \in A
        BY <1>2, <1>3
    <2> SUFFICES ASSUME NEW k \in 0 .. m PROVE k \in A
        OBVIOUS
    <2>2. k \in Nat /\ \A j \in A : j \in Nat /\ j < k => j + 1 \in A
        BY <1>2, <1>4
    <2> HIDE DEF A
    <2> QED BY <2>1, <2>2, UpTo
<1>6. m - i \in 0 .. m /\ m - (m - i) = i
    BY <1>2
<1> HIDE DEF m
<1> QED BY <1>5, <1>6

(* Only an admissible request is published: each of the checks the abstract   *)
(* registry makes at once has been made by some step of the stage.            *)
LEMMA PublishAdmits ==
    ASSUME IInv, Publish
    PROVE  ~Refused(stage.request)
<1> DEFINE s == stage
           r == s.request
<1>1. Staging(s) /\ s.todo = << >> /\ Ground
    BY DEF Publish, IInv
<1>2. s \in Stages /\ Branches(s) /\ Leaves(s) /\ WellFormed(r) /\ ToSet(s.todo) = {}
    BY <1>1 DEF Staging, Staged, ToSet
<1>3. \A t \in ToSet(r.tables) : Handled(s, t)
    BY <1>1, <1>2 DEF Staging
<1> HIDE DEF s
<1>4. \A t \in DefaultTables(r) : ~ColumnsCollide(t) /\ ~Unsupported(r, t)
    BY <1>3 DEF Handled, DefaultTables
<1>5. r.named = "error" => \A t \in ToSet(r.tables) : BuiltIn(t) \/ InDefaultSchema(t)
    BY <1>3 DEF Handled
<1>6. r.unsupported = "error" => \A t \in DefaultTables(r) : \A c \in t.columns : c.kind # "unsupported"
    BY <1>4 DEF Unsupported
<1>7. ASSUME NEW u \in ToSet(s.tables), NEW v \in tables \cup ToSet(s.tables),
             FoldPath(u.in) = FoldPath(v.in), FoldName(u.name) = FoldName(v.name)
      PROVE  u = v
    <2>1. u.in \in Tree(s) \cup {Root} /\ v.in \in Tree(s) \cup {Root}
        BY <1>1, StagedTables DEF Ground, Tree
    <2>2. u.in = v.in
        BY <1>2, <1>7, <2>1, TreeUnique DEF Branches
    <2> QED BY <1>2, <1>7, <2>2 DEF Leaves, Same
<1>8. ASSUME NEW e \in Entries(r), NEW t \in tables PROVE ~(e.in = FoldPath(t.in) /\ e.name = FoldName(t.name))
    <2>1. PICK u \in ToSet(s.tables) : Seen(u) = e
        BY <1>1, EntryStaged
    <2>2. u \notin tables
        BY <1>2 DEF Leaves
    <2> QED BY <1>7, <2>1, <2>2 DEF Seen
<1>9. ASSUME NEW e \in Entries(r), NEW f \in Entries(r), e.in = f.in, e.name = f.name PROVE e.table = f.table
    <2>1. PICK u \in ToSet(s.tables) : Seen(u) = e
        BY <1>1, EntryStaged
    <2>2. PICK v \in ToSet(s.tables) : Seen(v) = f
        BY <1>1, EntryStaged
    <2>3. u = v
        BY <1>7, <1>9, <2>1, <2>2 DEF Seen
    <2> QED BY <2>1, <2>2, <2>3
<1>10. ASSUME NEW e \in Entries(r), NEW i \in 1 .. Len(e.in), NEW n \in namespaces \ Range(cache),
              SubSeq(e.in, 1, i) = FoldPath(n)
       PROVE  FALSE
    <2>1. PICK u \in ToSet(s.tables) : Seen(u) = e
        BY <1>1, EntryStaged
    <2>2. u.in \in Paths /\ u.in \in Range(s.catalogs) /\ e.in = FoldPath(u.in)
        BY <1>1, <2>1, StagedTables DEF Seen
    <2>3. Len(e.in) = Len(u.in) /\ Len(u.in) \in Nat
        BY <2>2, FoldPathType DEF Paths
    <2>4. i \in 0 .. Len(u.in)
        BY <2>3
    <2>5. Prefix(u.in, i) \in Range(s.catalogs)
        BY <1>2, <2>2, <2>4, KeptAbove DEF Branches, Stages
    <2>6. FoldPath(Prefix(u.in, i)) = FoldPath(n)
        BY <1>10, <2>2, <2>4, FoldPrefix
    <2>7. Prefix(u.in, i) \in Tree(s) \cup {Root} /\ n \in Tree(s) \cup {Root} /\ IsTree(Tree(s))
        BY <1>2, <2>5, LeadsInto DEF Branches, Tree
    <2>8. n \in Range(s.catalogs)
        BY <2>5, <2>6, <2>7, TreeUnique
    <2> QED BY <1>2, <2>8 DEF Branches
<1>11. /\ Registry!WellFormed(r) /\ (\A t \in Registry!DefaultTables(r) : ~Registry!ColumnsCollide(t))
       /\ (r.unsupported = "error" => \A t \in Registry!DefaultTables(r) : \A c \in t.columns : c.kind # "unsupported")
       /\ (r.named = "error" => \A t \in Registry!ToSet(r.tables) : Registry!BuiltIn(t) \/ Registry!InDefaultSchema(t))
    <2>1. Registry!ToSet(r.tables) = ToSet(r.tables)
        BY DEF Registry!ToSet, ToSet
    <2> QED BY <1>2, <1>4, <1>5, <1>6, <2>1, SameRequests, SameTables
<1>12. \A e \in Registry!Entries(r) :
          \A f \in {[in |-> FoldPath(t.in), name |-> FoldName(t.name), table |-> t.table] : t \in tables} :
              ~(e.in = f.in /\ e.name = f.name)
    BY <1>8, SameEntries
<1>13. \A e, f \in Registry!Entries(r) : ~Registry!Collides(e, f)
    BY <1>9, SameEntries DEF Registry!Collides
<1>14. \A e \in Registry!Entries(r) : \A i \in 1 .. Len(e.in) :
           SubSeq(e.in, 1, i) \notin {FoldPath(n) : n \in namespaces \ Range(cache)}
    BY <1>10, SameEntries
<1>15. Registry!Admissible(r)
    BY <1>11, <1>12, <1>13, <1>14, Zenon DEF Registry!Admissible
<1> QED BY <1>15 DEF Refused, s

------------------------------------------------------------------------------
(* The theorems.                                                              *)

(* Publishing makes exactly the entries of the request visible, all at once,  *)
(* and makes no namespace foreign.                                            *)
LEMMA PublishKeeps ==
    ASSUME IInv, Publish
    PROVE  /\ IInv' /\ namespaces' \ Range(cache') = namespaces \ Range(cache)
           /\ \A e : e \in {[in |-> FoldPath(t.in), name |-> FoldName(t.name), table |-> t.table] : t \in tables'} <=>
                     \/ e \in {[in |-> FoldPath(t.in), name |-> FoldName(t.name), table |-> t.table] : t \in tables}
                     \/ e \in Entries(stage.request)
<1> DEFINE s == stage
           r == s.request
           new == [dataset |-> RefPath(r), projected |-> s.projected]
<1>1. /\ phase = "staging" /\ s.todo = << >>
      /\ namespaces' = Tree(s) /\ tables' = tables \cup ToSet(s.tables) /\ cache' = s.catalogs
      /\ bindings' = Append(bindings, new) /\ phase' = "ready" /\ stage' = None /\ UNCHANGED <<todo, failure>>
    BY DEF Publish, Tree
<1>2. Staging(s) /\ Len(bindings) < MaxDatasets /\ Ground /\ bindings \in Seq(Bindings)
    BY <1>1 DEF IInv
<1>3. s \in Stages /\ Branches(s) /\ Leaves(s) /\ WellFormed(r) /\ r \in Requests
    BY <1>2 DEF Staging, Staged, Stages
<1>4. new \in Bindings /\ new.projected = s.projected
    BY <1>3, RequestTypes DEF Bindings, Stages
<1> HIDE DEF s, new
<1>5. Ground'
    <2>1. IsTree(namespaces') /\ Leads(cache', namespaces') /\ Kept(cache')
        BY <1>1, <1>3 DEF Branches
    <2>2. ToSet(s.tables) \subseteq TableEntries
        BY <1>3 DEF Stages, ToSet
    <2>3. \A t \in tables' : t.in \in namespaces' \cup {Root}
        BY <1>1, <1>2, StagedTables DEF Ground, Tree
    <2>4. \A t, u \in tables' : t.in = u.in /\ Same(t.name, u.name) => t = u
        BY <1>1, <1>3 DEF Leaves
    <2> QED BY <1>1, <1>2, <2>1, <2>2, <2>3, <2>4 DEF Ground
<1>6. ASSUME NEW path, NEW table, Found(path, table) PROVE Found(path, table)'
    BY <1>1, <1>6 DEF Found
<1>7. ASSUME NEW path, NEW table, Placed(s, path, table) PROVE Found(path, table)'
    BY <1>1, <1>7 DEF Found, Placed
<1>8. ASSUME NEW t \in tables' PROVE Found(t.table.full, t.table)'
    <2>1. CASE t \in tables
        <3>1. Found(t.table.full, t.table)
            BY <2>1 DEF IInv
        <3> QED BY <1>6, <3>1
    <2>2. CASE t \in ToSet(s.tables)
        <3>1. Placed(s, t.table.full, t.table)
            BY <1>3, <2>2 DEF Leaves
        <3> QED BY <1>7, <3>1
    <2> QED BY <1>1, <2>1, <2>2
<1>9. (\A t \in tables : Found(t.table.full, t.table))'
    BY <1>8
<1>10. ASSUME NEW p \in ToSet(s.projected), p.visible PROVE Shown(p)'
    <2>1. PICK t \in DefaultTables(r) : p.full = FullPath(r, t) /\ p.columns = VisibleColumns(t) /\ Done(s, r, t)
        BY <1>2, <1>10 DEF Staging, Vouched
    <2>2. Short(p) = ShortPath(r, t)
        BY <1>3, <2>1, PathTypes DEF Short
    <2> DEFINE table == Projection(r, t)
    <2>3. table = [full |-> p.full, columns |-> p.columns]
        BY <2>1 DEF Projection
    <2> HIDE DEF table
    <2>4. \A path \in {p.full, Short(p)} : Placed(s, path, table) /\ Placed(s, <<Dotted(path)>>, table)
        BY <2>1, <2>2 DEF Done, table
    <2>5. \A path \in {p.full, Short(p), <<Dotted(p.full)>>, <<Dotted(Short(p))>>} : Placed(s, path, table)
        BY <2>4, Zenon
    <2>6. \A path \in {p.full, Short(p), <<Dotted(p.full)>>, <<Dotted(Short(p))>>} :
              \E u \in tables' : u.table = table /\ FoldPath(Append(u.in, u.name)) = FoldPath(path)
        BY <1>1, <2>5, Zenon DEF Placed
    <2> QED BY <2>3, <2>6 DEF Shown, Found, Short
<1>11. ASSUME NEW p, Shown(p) PROVE Shown(p)'
    BY <1>6, <1>11 DEF Shown
<1>12. /\ bindings' \in Seq(Bindings) /\ Len(bindings') = Len(bindings) + 1 /\ Len(bindings) \in Nat
       /\ (\A i \in 1 .. Len(bindings) : bindings'[i] = bindings[i]) /\ bindings'[Len(bindings) + 1] = new
    BY <1>1, <1>2, <1>4, AppendProperties
<1>13. ASSUME NEW i \in DOMAIN bindings', NEW p \in ToSet(bindings'[i].projected), p.visible PROVE Shown(p)'
    <2>1. i \in 1 .. Len(bindings) + 1 /\ DOMAIN bindings = 1 .. Len(bindings)
        BY <1>2, <1>12, LenProperties
    <2>2. CASE i \in 1 .. Len(bindings)
        <3>1. Shown(p)
            BY <1>12, <1>13, <2>1, <2>2 DEF IInv
        <3> QED BY <1>11, <3>1
    <2>3. CASE i = Len(bindings) + 1
        <3>1. p \in ToSet(s.projected)
            BY <1>4, <1>12, <2>3
        <3> QED BY <1>10, <1>13, <3>1
    <2> QED BY <1>12, <2>1, <2>2, <2>3
<1>14. Pending'
    BY <1>1 DEF IInv, Pending
<1>15. Len(bindings') <= MaxDatasets
    BY <1>2, <1>12, InputsAssumption DEF InputsAssumption
<1>16. IInv'
    BY <1>1, <1>5, <1>9, <1>12, <1>13, <1>14, <1>15 DEF IInv
<1>17. namespaces' \ Range(cache') = namespaces \ Range(cache)
    <2>1. Range(cache) \subseteq Range(s.catalogs)
        BY <1>3 DEF Branches, Range
    <2>2. /\ ToSet(s.namespaces) \cap namespaces = {} /\ ToSet(s.namespaces) \subseteq Range(s.catalogs)
          /\ Range(s.catalogs) \subseteq Range(cache) \cup ToSet(s.namespaces)
        BY <1>3 DEF Branches
    <2>3. namespaces' = namespaces \cup ToSet(s.namespaces)
        BY <1>1 DEF Tree
    <2> QED BY <1>1, <2>1, <2>2, <2>3
<1>18. \A e : e \in {Seen(t) : t \in tables'} <=> e \in {Seen(t) : t \in tables} \/ e \in Entries(r)
    <2>1. \A t \in ToSet(s.tables) : Seen(t) \in Entries(r)
        BY <1>3 DEF Leaves
    <2>2. \A e \in Entries(r) : \E u \in ToSet(s.tables) : Seen(u) = e
        BY <1>1, <1>2, EntryStaged
    <2> QED BY <1>1, <2>1, <2>2
<1> QED BY <1>16, <1>17, <1>18 DEF Seen, s

(* Every step of the catalog keeps the invariant.                             *)
LEMMA Inductive ==
    ASSUME PathsApart, IInv, [CatalogNext]_catalogVars
    PROVE  IInv'
<1>1. CASE UNCHANGED catalogVars
    <2>1. Pending' /\ phase' \in {"ddl", "ready", "staging", "failed"}
        BY <1>1 DEF IInv, Pending, catalogVars
    <2>2. IF phase' = "staging" THEN Staging(stage)' /\ Len(bindings) < MaxDatasets ELSE stage' = None
        <3>1. phase = "staging" => Staging(stage)'
            BY <1>1, Rests DEF IInv, catalogVars
        <3> QED BY <1>1, <3>1 DEF IInv, catalogVars
    <2>3. UNCHANGED <<namespaces, tables, cache, bindings, phase>>
        BY <1>1 DEF catalogVars
    <2> QED BY <2>1, <2>2, <2>3, OutsideKeeps
<1>2. CASE CreateRelation
    BY <1>2, CreateKeeps
<1>3. CASE IgnoreStatement \/ RefuseStatement \/ RefuseAnalysis \/ EndOfScript
    BY <1>3, ScriptKeeps
<1>4. CASE InstallNamespace
    BY <1>4, InstallKeeps
<1>5. CASE Begin
    BY <1>5, BeginKeeps
<1>6. CASE RefuseRequest
    BY <1>6, RefuseKeeps
<1>7. CASE SkipBuiltIn
    BY <1>7, BuiltInKeeps
<1>8. CASE SkipNamedSchema
    BY <1>8, NamedKeeps
<1>9. CASE StageNext
    BY <1>9, StageKeeps
<1>10. CASE Publish
    BY <1>10, PublishKeeps
<1> QED BY <1>1, <1>2, <1>3, <1>4, <1>5, <1>6, <1>7, <1>8, <1>9, <1>10 DEF CatalogNext

(* For any scripts and requests whose namespaces are apart, any number of     *)
(* registrations and any namespaces the caller installs: the native catalog   *)
(* never holds two names that differ only in case, and no key of the cache    *)
(* stands for two places.                                                     *)
THEOREM CatalogStaysOfOneMind ==
    ASSUME PathsApart
    PROVE  CatalogSpec => []CatalogInv
<1>1. CatalogInit => IInv
    BY InitKeeps
<1>2. IInv /\ [CatalogNext]_catalogVars => IInv'
    BY Inductive
<1>3. IInv => CatalogInv
    BY InvImplies
<1> QED BY <1>1, <1>2, <1>3, PTL DEF CatalogSpec

(* Every registered relation stays resolvable by the path it was registered   *)
(* under, and every table a binding reports as visible stays queryable, with  *)
(* the reported columns, under its four names.                                *)
THEOREM PublishedNamesStayTrue ==
    ASSUME PathsApart
    PROVE  CatalogSpec => []NamesStayTrue
<1>1. CatalogInit => IInv
    BY InitKeeps
<1>2. IInv /\ [CatalogNext]_catalogVars => IInv'
    BY Inductive
<1>3. IInv => NamesStayTrue
    BY InvImplies
<1> QED BY <1>1, <1>2, <1>3, PTL DEF CatalogSpec

(* Every step of the catalog is a step of the abstract registry, or leaves    *)
(* its state alone: a call's effect falls into the step that publishes it.    *)
LEMMA StepRefines ==
    ASSUME PathsApart, IInv, [CatalogNext]_catalogVars
    PROVE  [Registry!Declare \/ Registry!Install \/ Registry!Accept \/ Registry!Refuse]_(Registry!vars)
<1> DEFINE Look(t) == [in |-> FoldPath(t.in), name |-> FoldName(t.name), table |-> t.table]
<1>1. ASSUME UNCHANGED <<namespaces, tables, cache, decided>>, (phase = "ddl") = (phase' = "ddl")
      PROVE  UNCHANGED Registry!vars
    BY <1>1 DEF Registry!vars
<1>2. CASE UNCHANGED catalogVars
    BY <1>1, <1>2 DEF catalogVars
<1>3. CASE CreateRelation
    <2>1. phase = "ddl" /\ tables \subseteq tables' /\ decided' = decided
        BY <1>3 DEF CreateRelation
    <2>2. namespaces \subseteq Range(cache) /\ namespaces' \subseteq Range(cache')
        BY <1>3, <2>1, CreateKeeps DEF IInv
    <2>3. {FoldPath(n) : n \in namespaces \ Range(cache)} = {} /\ {FoldPath(n) : n \in namespaces' \ Range(cache')} = {}
        BY <2>2
    <2>4. Registry!Declare
        BY <2>1, <2>3 DEF Registry!Declare
    <2> QED BY <2>4
<1>4. CASE IgnoreStatement
    BY <1>1, <1>4 DEF IgnoreStatement
<1>5. CASE RefuseStatement \/ RefuseAnalysis \/ EndOfScript
    <2>1. phase = "ddl" /\ UNCHANGED <<namespaces, tables, cache, decided>>
        BY <1>5 DEF RefuseStatement, RefuseAnalysis, EndOfScript, Stop
    <2>2. Registry!Declare
        BY <2>1 DEF Registry!Declare
    <2> QED BY <2>2
<1>6. CASE InstallNamespace
    <2>1. /\ phase = "ready" /\ phase' = "ready" /\ UNCHANGED <<tables, cache, decided>>
          /\ namespaces \subseteq namespaces'
        BY <1>6 DEF InstallNamespace
    <2>2. Registry!Install
        BY <2>1 DEF Registry!Install
    <2> QED BY <2>2
<1>7. CASE Begin
    BY <1>1, <1>7 DEF Begin
<1>8. CASE RefuseRequest
    <2>1. PICK r \in Requests : ~WellFormed(r) /\ decided' = [request |-> r, accepted |-> FALSE]
        BY <1>8 DEF RefuseRequest, Return
    <2>2. phase = "ready" /\ phase' = "ready" /\ UNCHANGED <<namespaces, tables, cache>>
        BY <1>8 DEF RefuseRequest
    <2>3. ~Registry!Admissible(r)
        BY <2>1, RefusedTables DEF Refused
    <2>4. Registry!Return(r, FALSE)
        BY <2>1, <2>2 DEF Registry!Return
    <2>5. Registry!Refuse
        BY <2>2, <2>3, <2>4 DEF Registry!Refuse
    <2> QED BY <2>5
<1>9. CASE SkipBuiltIn
    BY <1>1, <1>9 DEF SkipBuiltIn
<1>10. ASSUME phase = "staging", Abandoned \/ Aside
       PROVE  [Registry!Refuse]_(Registry!vars)
    <2>1. CASE Aside
        BY <1>1, <2>1 DEF Aside
    <2>2. CASE Abandoned
        <3>1. /\ phase' = "ready" /\ UNCHANGED <<namespaces, tables, cache>>
              /\ decided' = [request |-> stage.request, accepted |-> FALSE]
            BY <2>2 DEF Abandoned, Abandon, Return
        <3>2. stage.request \in Requests /\ ~Registry!Admissible(stage.request)
            BY <1>10, <2>2 DEF Abandoned, Refused, IInv, Staging, Staged, Stages
        <3>3. Registry!Return(stage.request, FALSE)
            BY <1>10, <3>1 DEF Registry!Return
        <3>4. Registry!Refuse
            BY <3>1, <3>2, <3>3 DEF Registry!Refuse
        <3> QED BY <3>4
    <2> QED BY <1>10, <2>1, <2>2
<1>11. CASE SkipNamedSchema
    <2>1. phase = "staging" /\ (Abandoned \/ Aside)
        BY <1>11, NamedKeeps DEF SkipNamedSchema
    <2> QED BY <1>10, <2>1
<1>12. CASE StageNext
    <2>1. phase = "staging" /\ (Abandoned \/ Aside)
        BY <1>12, StageKeeps DEF StageNext
    <2> QED BY <1>10, <2>1
<1>13. CASE Publish
    <2>1. /\ phase = "staging" /\ phase' = "ready" /\ decided' = [request |-> stage.request, accepted |-> TRUE]
        BY <1>13 DEF Publish, Return
    <2>2. stage.request \in Requests /\ Registry!Admissible(stage.request)
        BY <1>13, <2>1, PublishAdmits DEF Refused, IInv, Staging, Staged, Stages
    <2>3. /\ namespaces' \ Range(cache') = namespaces \ Range(cache)
          /\ \A e : e \in {Look(t) : t \in tables'} <=> e \in {Look(t) : t \in tables} \/ e \in Entries(stage.request)
        BY <1>13, PublishKeeps
    <2>4. {Look(t) : t \in tables'} = {Look(t) : t \in tables} \cup Registry!Entries(stage.request)
        <3> HIDE DEF Look
        <3> QED BY <2>3, SameEntries
    <2>5. Registry!Return(stage.request, TRUE)
        BY <2>1, <2>3 DEF Registry!Return
    <2>6. Registry!Accept
        BY <2>2, <2>4, <2>5, Zenon DEF Registry!Accept
    <2> QED BY <2>6
<1> QED BY <1>2, <1>3, <1>4, <1>5, <1>6, <1>7, <1>8, <1>9, <1>11, <1>12, <1>13 DEF CatalogNext

(* The staged registration implements the atomic one: a call is accepted      *)
(* exactly when its request is admissible at that moment, makes everything    *)
(* visible in one step, and otherwise leaves no trace.                        *)
THEOREM RegistrationIsAtomic ==
    ASSUME PathsApart
    PROVE  CatalogSpec => ImplementsRegistry
<1>1. CatalogInit => IInv
    BY InitKeeps
<1>2. IInv /\ [CatalogNext]_catalogVars => IInv'
    BY Inductive
<1>3. CatalogInit => Registry!RegistryInit
    BY DEF CatalogInit, Registry!RegistryInit
<1>4. IInv /\ [CatalogNext]_catalogVars =>
          [Registry!Declare \/ Registry!Install \/ Registry!Accept \/ Registry!Refuse]_(Registry!vars)
    BY StepRefines
<1> QED BY <1>1, <1>2, <1>3, <1>4, PTL DEF CatalogSpec, ImplementsRegistry, Registry!RegistrySpec

------------------------------------------------------------------------------
(* EXTERNAL_QUERY: a statement is analyzed with the row types its own         *)
(* analyzer gives, and never lacks one. The invariant says what the loop of   *)
(* prepareExternalQueryTVFCalls has done so far; it needs no word about what  *)
(* earlier calls left in the map, because the loop writes every entry that    *)
(* the statement will read.                                                   *)
USE CallAssumption DEF CallAssumption

(* Where no error is returned there is a row type, and the call is well formed. *)
LEMMA RowTypeRange ==
    ASSUME QueryTypeOK, NEW a \in Analyzers, NEW call \in Calls, RowTypeFor(a, call) # Missing
    PROVE  call \in Connections \X Queries /\ call # Malformed /\ RowTypeFor(a, call) \in RowTypes
BY DEF QueryTypeOK, RowTypeFor, SourceFor, Calls, Malformed

(* Nothing is prepared at first.                                              *)
LEMMA InitEstablishes == QueryInit => QueryInv
BY DEF QueryInit, QueryInv, QueryTypeOK, PreparationInv, Unset, Nothing, Calls

(* A step that leaves the running call alone keeps what it has prepared. *)
LEMMA KeepsPreparation ==
    ASSUME QueryInv, UNCHANGED <<own, shared, prepared, pc, caller, text, next>>
    PROVE  PreparationInv'
BY DEF QueryInv, PreparationInv, PreparedUpTo, RowTypeFor, SourceFor

(* While no call runs, the invariant says nothing of the prepared row types. *)
LEMMA IdlePrepares == ASSUME pc' = "idle" PROVE PreparationInv'
BY DEF PreparationInv

(* The loop prepares one call.                                                *)
LEMMA PrepareCallKeeps == QueryInv /\ PrepareCall => QueryInv'
<1> SUFFICES ASSUME QueryInv, PrepareCall PROVE QueryInv'
    OBVIOUS
<1> DEFINE call == text[next]
           rowType == RowTypeFor(caller, call)
<1>1. next \in 1 .. Len(text) /\ call \in Calls /\ caller \in Analyzers
    BY DEF QueryInv, QueryTypeOK, PrepareCall
<1>2. call \in Connections \X Queries /\ call # Malformed /\ rowType \in RowTypes /\ rowType # Missing
    BY <1>1, RowTypeRange DEF QueryInv, PrepareCall
<1>3. prepared' = [prepared EXCEPT ![call] = rowType]
    BY DEF PrepareCall
<1>4. QueryTypeOK'
    BY <1>1, <1>2, <1>3 DEF QueryInv, QueryTypeOK, PrepareCall
<1>5. ASSUME NEW i \in DOMAIN text, i < next + 1
      PROVE  text[i] # Malformed /\ prepared'[text[i]] = RowTypeFor(caller, text[i]) /\ prepared'[text[i]] # Missing
    <2>1. CASE text[i] = call
        BY <1>2, <1>3, <2>1 DEF QueryInv, QueryTypeOK
    <2>2. CASE text[i] # call
        <3>1. i < next
            BY <1>1, <1>5, <2>2 DEF QueryInv, QueryTypeOK
        <3>2. prepared'[text[i]] = prepared[text[i]]
            BY <1>3, <2>2 DEF QueryInv, QueryTypeOK
        <3> QED
            BY <3>1, <3>2 DEF QueryInv, PreparationInv, PreparedUpTo, PrepareCall
    <2> QED
        BY <2>1, <2>2
<1>6. PreparationInv'
    BY <1>5 DEF PreparationInv, PreparedUpTo, PrepareCall, RowTypeFor, SourceFor
<1> QED
    BY <1>4, <1>6 DEF QueryInv

(* The loop ends.                                                             *)
LEMMA PreparedKeeps == QueryInv /\ Prepared => QueryInv'
<1> SUFFICES ASSUME QueryInv, Prepared PROVE QueryInv'
    OBVIOUS
<1>1. QueryTypeOK'
    BY DEF QueryInv, QueryTypeOK, Prepared
<1>2. PreparedUpTo(Len(text) + 1)
    BY DEF QueryInv, QueryTypeOK, PreparationInv, PreparedUpTo, Prepared
<1>3. PreparationInv'
    BY <1>2 DEF PreparationInv, PreparedUpTo, Prepared, RowTypeFor, SourceFor
<1> QED
    BY <1>1, <1>3 DEF QueryInv

(* A statement begins with nothing prepared.                                  *)
LEMMA BeginStatementKeeps ==
    ASSUME QueryInv, NEW a \in Analyzers, NEW t \in Texts, BeginStatement(a, t)
    PROVE  QueryInv'
<1>1. QueryTypeOK'
    BY DEF QueryInv, QueryTypeOK, BeginStatement
<1>2. PreparationInv'
    BY DEF PreparationInv, PreparedUpTo, BeginStatement
<1> QED
    BY <1>1, <1>2 DEF QueryInv

(* A statement is analyzed.                                                   *)
LEMMA AnalyzeStatementKeeps == QueryInv /\ AnalyzeStatement => QueryInv'
BY IdlePrepares DEF QueryInv, QueryTypeOK, AnalyzeStatement, Nothing

(* Every step keeps the invariant.                                            *)
LEMMA StepKeeps == QueryInv /\ [QueryNext]_queryVars => QueryInv'
<1> SUFFICES ASSUME QueryInv, [QueryNext]_queryVars PROVE QueryInv'
    OBVIOUS
<1>1. ASSUME NEW a \in Analyzers, NewAnalyzer(a) PROVE QueryInv'
    BY <1>1, KeepsPreparation DEF QueryInv, QueryTypeOK, NewAnalyzer
<1>2. ASSUME NEW a \in Analyzers, RefuseText(a) PROVE QueryInv'
    BY <1>2, KeepsPreparation DEF QueryInv, QueryTypeOK, RefuseText
<1>3. ASSUME NEW a \in Analyzers, NEW sources \in [Connections -> Sources \cup {Missing}],
             SetExternalQueryAnalyzers(a, sources)
      PROVE  QueryInv'
    BY <1>3, IdlePrepares DEF QueryInv, QueryTypeOK, SetExternalQueryAnalyzers
<1>4. ASSUME NEW a \in Analyzers, NEW t \in Texts, AnalyzeExpression(a, t) PROVE QueryInv'
    BY <1>4, KeepsPreparation DEF QueryInv, QueryTypeOK, AnalyzeExpression
<1>5. ASSUME PrepareFails PROVE QueryInv'
    BY <1>5, IdlePrepares DEF QueryInv, QueryTypeOK, PrepareFails
<1>6. ASSUME UNCHANGED queryVars PROVE QueryInv'
    BY <1>6, KeepsPreparation DEF QueryInv, QueryTypeOK, queryVars
<1> QED
    BY <1>1, <1>2, <1>3, <1>4, <1>5, <1>6, BeginStatementKeeps, PrepareCallKeeps, PreparedKeeps,
       AnalyzeStatementKeeps DEF QueryNext

(* The invariant holds in every run of the analyzers of a catalog: types, and *)
(* every call before the loop's position prepared for the running analyzer.   *)
THEOREM QueryInvariant == QuerySpec => []QueryInv
BY InitEstablishes, StepKeeps, PTL DEF QuerySpec

(* In the state the native analysis reads, every call is prepared. *)
LEMMA AllPrepared ==
    ASSUME QueryInv, pc = "analyze"
    PROVE  \A i \in DOMAIN text : text[i] # Malformed
                               /\ prepared[text[i]] = RowTypeFor(caller, text[i])
                               /\ prepared[text[i]] # Missing
BY DEF QueryInv, QueryTypeOK, PreparationInv, PreparedUpTo

(* While a statement is analyzed only AnalyzeStatement can step. *)
LEMMA OnlyAnalysis ==
    ASSUME pc = "analyze", [QueryNext]_queryVars
    PROVE  AnalyzeStatement \/ UNCHANGED queryVars
BY DEF QueryNext, queryVars, NewAnalyzer, RefuseText, SetExternalQueryAnalyzers, BeginStatement,
       AnalyzeExpression, PrepareCall, PrepareFails, Prepared

(* A statement that is analyzed reads the row types of its own analyzer.      *)
LEMMA CurrentStep ==
    ASSUME QueryInv, [QueryNext]_queryVars, ~UNCHANGED queryVars, pc = "analyze", answer'.kind = "statement"
    PROVE  answer'.types = [i \in DOMAIN text |-> RowTypeFor(caller, text[i])]
<1>1. AnalyzeStatement
    BY OnlyAnalysis
<1>2. answer' = Answered("statement", caller, text) /\ ~Unprepared(text)
    BY <1>1 DEF AnalyzeStatement, Failure, Answered
<1>3. answer'.types = [i \in DOMAIN text |-> prepared[text[i]]]
    BY <1>2 DEF Answered
<1> QED
    BY <1>3, AllPrepared

(* The schema of a statement is built from the row types its own analyzer's   *)
(* configuration gives, whatever earlier calls left in the catalog.           *)
THEOREM StatementsUseCurrentTypes == QuerySpec => StatementTypesAreCurrent
BY QueryInvariant, CurrentStep, PTL DEF QuerySpec, StatementTypesAreCurrent

(* A statement that is analyzed lacks no row type.                            *)
LEMMA PreparedStep ==
    ASSUME QueryInv, [QueryNext]_queryVars, ~UNCHANGED queryVars, pc = "analyze"
    PROVE  answer'.kind # "unprepared"
<1>1. AnalyzeStatement
    BY OnlyAnalysis
<1>2. ~Unprepared(text)
    BY AllPrepared DEF Unprepared
<1> QED
    BY <1>1, <1>2 DEF AnalyzeStatement, Failure, Answered

(* No statement fails for want of a prepared row type. *)
THEOREM StatementsFindTheirTypes == QuerySpec => StatementsAreFullyPrepared
BY QueryInvariant, PreparedStep, PTL DEF QuerySpec, StatementsAreFullyPrepared

(* Both at once: a statement is analyzed with the row types of its own calls, *)
(* all of them and none of anybody else's.                                    *)
THEOREM StatementsKeepToThemselves == QuerySpec => StatementsUseOwnTypes
BY StatementsUseCurrentTypes, StatementsFindTheirTypes, PTL DEF StatementsUseOwnTypes
==============================================================================
