------------------------------- MODULE Recursion -------------------------------
(* Induction and recursion up to a number, for the definitions that walk along *)
(* a sequence: what NaturalsInduction states with an operator as parameter,    *)
(* stated with sets and functions.                                             *)
EXTENDS Naturals, FiniteSetTheorems, TLAPS

(* Induction up to n, with a set in place of a predicate: were n missing, the *)
(* members below n could be moved up by one, and none is left over for 0.     *)
LEMMA UpTo ==
    ASSUME NEW n \in Nat, NEW A, 0 \in A, \A i \in A : i \in Nat /\ i < n => i + 1 \in A
    PROVE  n \in A
<1> SUFFICES ASSUME n \notin A PROVE FALSE
    OBVIOUS
<1> DEFINE B == {i \in 0 .. n : i \in A /\ i < n}
           C == B \ {0}
           f == [i \in B |-> i + 1]
<1>1. 0 \in B /\ B \in SUBSET (0 .. n)
    OBVIOUS
<1>2. IsFiniteSet(B)
    <2>1. IsFiniteSet(0 .. n)
        BY FS_Interval
    <2> HIDE DEF B
    <2> QED BY <1>1, <2>1, FS_Subset
<1>3. IsFiniteSet(C) /\ Cardinality(B) \in Nat /\ Cardinality(C) = Cardinality(B) - 1
    <2> HIDE DEF B
    <2> QED BY <1>1, <1>2, FS_RemoveElement, FS_CardinalityType
<1>4. f \in [B -> C]
    <2>1. ASSUME NEW i \in B PROVE i + 1 \in C
        OBVIOUS
    <2> QED BY <2>1
<1>5. \A x, y \in B : f[x] = f[y] => x = y
    OBVIOUS
<1> HIDE DEF B, C, f
<1> QED BY <1>2, <1>3, <1>4, <1>5, FS_PigeonHole

(* A value and a step on values that stay in X define a run of n steps.       *)
IsRun(g, n, X, start, F) ==
    /\ g \in [0 .. n -> X] /\ g[0] = start
    /\ \A i \in 1 .. n : g[i] = F[<<g[i - 1], i>>]

(* Such a run exists, so a function defined by recursion on a number has the  *)
(* values its definition says.                                                *)
LEMMA RunOf ==
    ASSUME NEW n \in Nat, NEW X, NEW start \in X, NEW F \in [X \X (1 .. n) -> X]
    PROVE  \E g : IsRun(g, n, X, start, F)
<1> DEFINE Good(m, g) == IsRun(g, m, X, start, F)
           A == {m \in 0 .. n : \E g : Good(m, g)}
<1>1. 0 \in A
    <2>1. Good(0, [i \in 0 .. 0 |-> start])
        BY DEF IsRun
    <2> HIDE DEF Good
    <2> QED BY <2>1
<1>2. ASSUME NEW m \in A, m < n PROVE m + 1 \in A
    <2>1. PICK g : Good(m, g)
        OBVIOUS
    <2>2. m \in 0 .. n /\ m + 1 \in 1 .. n /\ g[m] \in X
        BY <1>2, <2>1 DEF IsRun
    <2> DEFINE v == F[<<g[m], m + 1>>]
               h == [i \in 0 .. m + 1 |-> IF i = m + 1 THEN v ELSE g[i]]
    <2>3. v \in X
        BY <2>2
    <2>4. Good(m + 1, h)
        <3> HIDE DEF v
        <3>1. h \in [0 .. m + 1 -> X] /\ h[0] = start
            BY <2>1, <2>2, <2>3 DEF IsRun
        <3>2. ASSUME NEW i \in 1 .. m + 1 PROVE h[i] = F[<<h[i - 1], i>>]
            <4>1. CASE i = m + 1
                <5>1. h[i] = v /\ h[i - 1] = g[m]
                    BY <2>2, <4>1
                <5> HIDE DEF h
                <5> QED BY <4>1, <5>1 DEF v
            <4>2. CASE i # m + 1
                <5>1. i \in 1 .. m /\ h[i] = g[i] /\ h[i - 1] = g[i - 1]
                    BY <2>2, <4>2
                <5> HIDE DEF h
                <5> QED BY <2>1, <5>1 DEF IsRun
            <4> QED BY <4>1, <4>2
        <3> HIDE DEF h
        <3> QED BY <3>1, <3>2 DEF IsRun
    <2> HIDE DEF Good, h
    <2> QED BY <2>2, <2>4
<1>3. n \in A
    <2> HIDE DEF A
    <2> QED BY <1>1, <1>2, UpTo
<1> QED BY <1>3
==============================================================================
