------------------------ MODULE VocabObserverProofs -------------------------
(***************************************************************************)
(* Proofs about VocabObserver, for any number of threads, plans and calls  *)
(* and any positive bound: what the observer promises holds in every       *)
(* reachable state, and its steps are steps of VocabLog.                   *)
(***************************************************************************)
EXTENDS VocabObserver, FiniteSetTheorems, TLAPS

\* What one action may assume, and the parts of the invariant by name.
USE ObserverAssumption DEF ObserverAssumption

\* A plan's findings are a sequence of fingerprints.
LEMMA PlansAreSequences == Plans \subseteq Seq(Fingerprints)
<1> SUFFICES ASSUME NEW p \in Plans PROVE p \in Seq(Fingerprints)
  OBVIOUS
<1>1. PICK n \in 0..MaxFindings : p \in [1..n -> Fingerprints]
  BY DEF Plans
<1> QED BY <1>1

\* Adding a fingerprint that is not there makes the set one larger.
LEMMA AddOne ==
  ASSUME NEW S, IsFiniteSet(S), NEW x, x \notin S
  PROVE  IsFiniteSet(S \cup {x}) /\ Cardinality(S \cup {x}) = Cardinality(S) + 1
BY FS_AddElement

\* The observer starts in the invariant.
LEMMA InitInv == Init => ObserverInv
<1>1. IsFiniteSet({}) /\ Cardinality({}) = 0
  BY FS_EmptySet
<1>2. ASSUME Init PROVE TypeOK
  <2>1. mu \in Threads \cup {Free} /\ seen \subseteq Fingerprints /\ IsFiniteSet(seen)
    BY <1>1, <1>2 DEF Init
  <2>2. suppressed \in Nat /\ suppressionLogged \in BOOLEAN /\ notices \in Nat
    BY <1>2 DEF Init
  <2>3. pc \in [Threads -> Steps] /\ findings \in [Threads -> Seq(Fingerprints)]
    BY <1>2 DEF Init, Steps
  <2>4. verdict \in [Threads -> {"none", "finding", "notice"}] /\ calls \in [Threads -> 0..MaxCalls]
    BY <1>2 DEF Init
  <2>5. records \in [Fingerprints -> Nat]
    BY <1>2 DEF Init
  <2> QED BY <2>1, <2>2, <2>3, <2>4, <2>5 DEF TypeOK
<1>3. ASSUME Init PROVE MutexInv /\ DecisionInv /\ RecordInv /\ NoticeInv
  BY <1>3 DEF Init, MutexInv, DecisionInv, RecordInv, NoticeInv, Pending, Critical
<1>4. ASSUME Init PROVE LoggedAtMostOnce /\ BoundedSet /\ OneNotice
  BY <1>1, <1>4 DEF Init, LoggedAtMostOnce, BoundedSet, OneNotice
<1> QED BY <1>2, <1>3, <1>4 DEF ObserverInv

\* Observe and Return move a thread in and out of the loop and touch nothing
\* that is shared.
LEMMA ObserveInv ==
  ASSUME NEW t \in Threads, NEW p \in Plans, ObserverInv, Observe(t, p) PROVE ObserverInv'
<1>1. TypeOK'
  BY PlansAreSequences DEF ObserverInv, TypeOK, Observe, Goto, sharedVars, Steps
<1>2. MutexInv' /\ DecisionInv' /\ RecordInv' /\ NoticeInv'
  BY DEF ObserverInv, TypeOK, MutexInv, DecisionInv, RecordInv, NoticeInv, Pending, Critical,
     Observe, Goto, Current, sharedVars
<1>3. LoggedAtMostOnce' /\ BoundedSet' /\ OneNotice'
  BY DEF ObserverInv, LoggedAtMostOnce, BoundedSet, OneNotice, Observe, sharedVars
<1> QED BY <1>1, <1>2, <1>3 DEF ObserverInv

LEMMA ReturnInv ==
  ASSUME NEW t \in Threads, ObserverInv, Return(t) PROVE ObserverInv'
<1>1. TypeOK'
  BY DEF ObserverInv, TypeOK, Return, Goto, sharedVars, Steps
<1>2. MutexInv' /\ DecisionInv' /\ RecordInv' /\ NoticeInv'
  BY DEF ObserverInv, TypeOK, MutexInv, DecisionInv, RecordInv, NoticeInv, Pending, Critical,
     Return, Goto, Current, sharedVars
<1>3. LoggedAtMostOnce' /\ BoundedSet' /\ OneNotice'
  BY DEF ObserverInv, LoggedAtMostOnce, BoundedSet, OneNotice, Return, sharedVars
<1> QED BY <1>1, <1>2, <1>3 DEF ObserverInv

\* Only a thread that finds the mutex free becomes its holder.
LEMMA LockInv ==
  ASSUME NEW t \in Threads, ObserverInv, Lock(t) PROVE ObserverInv'
<1>1. TypeOK'
  BY DEF ObserverInv, TypeOK, Lock, Goto, Steps, Critical
<1>2. MutexInv' /\ DecisionInv' /\ RecordInv' /\ NoticeInv'
  BY DEF ObserverInv, TypeOK, MutexInv, DecisionInv, RecordInv, NoticeInv, Pending, Critical,
     Lock, Goto, Current
<1>3. LoggedAtMostOnce' /\ BoundedSet' /\ OneNotice'
  BY DEF ObserverInv, LoggedAtMostOnce, BoundedSet, OneNotice, Lock
<1> QED BY <1>1, <1>2, <1>3 DEF ObserverInv

LEMMA LookupInv ==
  ASSUME NEW t \in Threads, ObserverInv, Lookup(t) PROVE ObserverInv'
<1>1. TypeOK'
  BY DEF ObserverInv, TypeOK, Lookup, Goto, sharedVars, Steps, Critical
<1>2. Cardinality(seen) \in Nat
  BY FS_CardinalityType DEF ObserverInv, TypeOK
<1>3. DecisionInv'
  BY <1>2 DEF ObserverInv, TypeOK, DecisionInv, BoundedSet, Critical, Lookup, Goto, Current, sharedVars
<1>4. MutexInv'
  BY DEF ObserverInv, TypeOK, MutexInv, Critical, Lookup, Goto, sharedVars
<1>5. RecordInv'
  BY DEF ObserverInv, TypeOK, RecordInv, Pending, Lookup, Goto, Current, sharedVars
<1>6. NoticeInv'
  BY DEF ObserverInv, TypeOK, NoticeInv, Pending, Lookup, Goto, sharedVars
<1>7. LoggedAtMostOnce' /\ BoundedSet' /\ OneNotice'
  BY DEF ObserverInv, LoggedAtMostOnce, BoundedSet, OneNotice, Lookup, sharedVars
<1> QED BY <1>1, <1>3, <1>4, <1>5, <1>6, <1>7 DEF ObserverInv

\* The holder of the mutex is the only one that changes the set: the others
\* still see what they looked up, because none of them is past its lookup.
LEMMA AddInv ==
  ASSUME NEW t \in Threads, ObserverInv, Add(t) PROVE ObserverInv'
<1>1. Cardinality(seen) \in Nat /\ IsFiniteSet(seen) /\ Current(t) \notin seen
      /\ Cardinality(seen) < MaxFingerprints /\ findings[t] # <<>>
  BY FS_CardinalityType DEF ObserverInv, TypeOK, DecisionInv, Critical, Add
<1>2. Current(t) \in Fingerprints
  BY <1>1 DEF ObserverInv, TypeOK, Current
<1>3. IsFiniteSet(seen') /\ Cardinality(seen') = Cardinality(seen) + 1
  BY <1>1, AddOne DEF Add
<1>4. \A u \in Threads \ {t} : pc[u] \notin Critical
  BY DEF ObserverInv, TypeOK, MutexInv, Critical, Add
<1>5. TypeOK'
  BY <1>2, <1>3 DEF ObserverInv, TypeOK, Add, Goto, Steps, Critical
<1>6. MutexInv'
  BY DEF ObserverInv, TypeOK, MutexInv, Critical, Add, Goto
<1>7. DecisionInv'
  BY <1>1, <1>4 DEF ObserverInv, TypeOK, DecisionInv, Critical, Add, Goto, Current
<1>8. RecordInv'
  <2>1. records[Current(t)] = 0
    BY <1>1, <1>2 DEF ObserverInv, TypeOK, LoggedAtMostOnce
  <2> QED BY <1>1, <2>1 DEF ObserverInv, TypeOK, RecordInv, Pending, Add, Goto, Current
<1>9. NoticeInv'
  BY DEF ObserverInv, TypeOK, NoticeInv, Pending, Add, Goto
<1>10. LoggedAtMostOnce' /\ BoundedSet' /\ OneNotice'
  BY <1>1, <1>3 DEF ObserverInv, TypeOK, LoggedAtMostOnce, BoundedSet, OneNotice, Add
<1> QED BY <1>5, <1>6, <1>7, <1>8, <1>9, <1>10 DEF ObserverInv

\* A finding beyond the bound is counted; the first one asks for the notice.
LEMMA SuppressInv ==
  ASSUME NEW t \in Threads, ObserverInv, Suppress(t) PROVE ObserverInv'
<1>1. Cardinality(seen) = MaxFingerprints
  BY DEF ObserverInv, DecisionInv, Suppress
<1>2. TypeOK'
  BY DEF ObserverInv, TypeOK, Suppress, Goto, Steps, Critical
<1>3. MutexInv' /\ DecisionInv'
  BY DEF ObserverInv, TypeOK, MutexInv, DecisionInv, Critical, Suppress, Goto, Current
<1>4. RecordInv'
  BY DEF ObserverInv, TypeOK, RecordInv, Pending, Suppress, Goto, Current
<1>5. NoticeInv'
  <2>1. notices = 0 \/ suppressionLogged
    BY DEF ObserverInv, TypeOK, NoticeInv, OneNotice
  <2> QED BY <2>1 DEF ObserverInv, TypeOK, NoticeInv, Pending, Suppress, Goto
<1>6. LoggedAtMostOnce' /\ BoundedSet' /\ OneNotice'
  BY <1>1 DEF ObserverInv, TypeOK, LoggedAtMostOnce, BoundedSet, OneNotice, Suppress
<1> QED BY <1>2, <1>3, <1>4, <1>5, <1>6 DEF ObserverInv

LEMMA UnlockInv ==
  ASSUME NEW t \in Threads, ObserverInv, Unlock(t) PROVE ObserverInv'
<1>1. TypeOK'
  BY DEF ObserverInv, TypeOK, Unlock, Goto, Steps, Critical
<1>2. MutexInv' /\ DecisionInv'
  BY DEF ObserverInv, TypeOK, MutexInv, DecisionInv, Critical, Unlock, Goto, Current
<1>3. RecordInv' /\ NoticeInv'
  BY DEF ObserverInv, TypeOK, RecordInv, NoticeInv, Pending, Unlock, Goto, Current
<1>4. LoggedAtMostOnce' /\ BoundedSet' /\ OneNotice'
  BY DEF ObserverInv, LoggedAtMostOnce, BoundedSet, OneNotice, Unlock
<1> QED BY <1>1, <1>2, <1>3, <1>4 DEF ObserverInv

\* The records are written without the mutex, by the one thread they were
\* given out to.
LEMMA LogNoticeInv ==
  ASSUME NEW t \in Threads, ObserverInv, LogNotice(t) PROVE ObserverInv'
<1>1. findings[t] # <<>> /\ notices = 0 /\ suppressed > 0
  BY DEF ObserverInv, TypeOK, DecisionInv, NoticeInv, Pending, Critical, LogNotice
<1>2. TypeOK'
  BY <1>1 DEF ObserverInv, TypeOK, LogNotice, Done, Goto, sharedVars, Steps
<1>3. MutexInv' /\ DecisionInv'
  BY DEF ObserverInv, TypeOK, MutexInv, DecisionInv, Critical, LogNotice, Done, Goto, Current, sharedVars
<1>4. RecordInv' /\ NoticeInv'
  BY DEF ObserverInv, TypeOK, RecordInv, NoticeInv, Pending, LogNotice, Done, Goto, Current, sharedVars
<1>5. LoggedAtMostOnce' /\ BoundedSet' /\ OneNotice'
  BY <1>1 DEF ObserverInv, LoggedAtMostOnce, BoundedSet, OneNotice, LogNotice, sharedVars
<1> QED BY <1>2, <1>3, <1>4, <1>5 DEF ObserverInv

LEMMA LogFindingInv ==
  ASSUME NEW t \in Threads, ObserverInv, LogFinding(t) PROVE ObserverInv'
<1>1. findings[t] # <<>> /\ Current(t) \in seen /\ records[Current(t)] = 0
  BY DEF ObserverInv, TypeOK, DecisionInv, RecordInv, Pending, Critical, LogFinding
<1>2. Current(t) \in Fingerprints
  BY <1>1 DEF ObserverInv, TypeOK, Current
<1>3. TypeOK'
  BY <1>1, <1>2 DEF ObserverInv, TypeOK, LogFinding, Done, Goto, sharedVars, Steps
<1>4. MutexInv' /\ DecisionInv'
  BY DEF ObserverInv, TypeOK, MutexInv, DecisionInv, Critical, LogFinding, Done, Goto, Current, sharedVars
<1>5. RecordInv'
  BY <1>1, <1>2 DEF ObserverInv, TypeOK, RecordInv, Pending, LogFinding, Done, Goto, Current, sharedVars
<1>6. NoticeInv'
  BY DEF ObserverInv, TypeOK, NoticeInv, Pending, LogFinding, Done, Goto, sharedVars
<1>7. LoggedAtMostOnce' /\ BoundedSet' /\ OneNotice'
  BY <1>1, <1>2 DEF ObserverInv, TypeOK, LoggedAtMostOnce, BoundedSet, OneNotice, LogFinding, sharedVars
<1> QED BY <1>3, <1>4, <1>5, <1>6, <1>7 DEF ObserverInv

LEMMA SkipInv ==
  ASSUME NEW t \in Threads, ObserverInv, Skip(t) PROVE ObserverInv'
<1>1. findings[t] # <<>>
  BY DEF ObserverInv, DecisionInv, Critical, Skip
<1>2. TypeOK'
  BY <1>1 DEF ObserverInv, TypeOK, Skip, Done, Goto, sharedVars, Steps
<1>3. MutexInv' /\ DecisionInv'
  BY DEF ObserverInv, TypeOK, MutexInv, DecisionInv, Critical, Skip, Done, Goto, Current, sharedVars
<1>4. RecordInv' /\ NoticeInv'
  BY DEF ObserverInv, TypeOK, RecordInv, NoticeInv, Pending, Skip, Done, Goto, Current, sharedVars
<1>5. LoggedAtMostOnce' /\ BoundedSet' /\ OneNotice'
  BY DEF ObserverInv, LoggedAtMostOnce, BoundedSet, OneNotice, Skip, sharedVars
<1> QED BY <1>2, <1>3, <1>4, <1>5 DEF ObserverInv

LEMMA NextInv == ObserverInv /\ [Next]_vars => ObserverInv'
<1>1. ASSUME ObserverInv, UNCHANGED vars PROVE ObserverInv'
  <2>1. TypeOK'
    BY <1>1 DEF ObserverInv, TypeOK, vars
  <2>2. MutexInv' /\ DecisionInv' /\ RecordInv' /\ NoticeInv'
    BY <1>1 DEF ObserverInv, MutexInv, DecisionInv, RecordInv, NoticeInv, Pending, Current, vars
  <2>3. LoggedAtMostOnce' /\ BoundedSet' /\ OneNotice'
    BY <1>1 DEF ObserverInv, LoggedAtMostOnce, BoundedSet, OneNotice, vars
  <2> QED BY <2>1, <2>2, <2>3 DEF ObserverInv
<1>2. ASSUME ObserverInv, Next PROVE ObserverInv'
  BY <1>2, ObserveInv, ReturnInv, LockInv, LookupInv, AddInv, SuppressInv, UnlockInv,
     LogNoticeInv, LogFindingInv, SkipInv DEF Next, Step
<1> QED BY <1>1, <1>2

\* Every reachable state satisfies the inductive invariant, whatever the
\* number of goroutines calling Observe and the plans they pass.
THEOREM ObserverInvariant == Spec => []ObserverInv
BY InitInv, NextInv, PTL DEF Spec

\* No fingerprint is logged twice, and none that is not remembered.
THEOREM LoggedOnce == Spec => []LoggedAtMostOnce
<1>1. ObserverInv => LoggedAtMostOnce
  BY DEF ObserverInv
<1> QED BY <1>1, ObserverInvariant, PTL

\* The set stays within its bound, and suppression starts only when it is full.
THEOREM SetIsBounded == Spec => []BoundedSet
<1>1. ObserverInv => BoundedSet
  BY DEF ObserverInv
<1> QED BY <1>1, ObserverInvariant, PTL

\* There is at most one suppression record, and only for a counted finding.
THEOREM NoticeOnce == Spec => []OneNotice
<1>1. ObserverInv => OneNotice
  BY DEF ObserverInv
<1> QED BY <1>1, ObserverInvariant, PTL

-----------------------------------------------------------------------------
(* The observer implements VocabLog. *)

\* The cardinality the instance speaks of is that of this module.
LEMMA SameCardinality == \A S : Log!Cardinality(S) = Cardinality(S)
BY DEF Cardinality, Log!Cardinality

LEMMA InitRefines == Init => Log!LogInit
BY DEF Init, Log!LogInit, Written, Notice

\* Adding to the set under the mutex is the moment the log accepts the
\* fingerprint, counting is the moment it overflows, and the writes are its
\* writes; every other step is invisible.
LEMMA StepRefines ==
  ASSUME ObserverInv, [Next]_vars PROVE [Log!LogNext]_(Log!logVars)
<1> USE DEF Log!logVars
<1>1. CASE UNCHANGED vars
  BY <1>1 DEF vars, Written, Notice
<1>2. ASSUME NEW t \in Threads, NEW p \in Plans, Observe(t, p) PROVE UNCHANGED Log!logVars
  BY <1>2 DEF Observe, sharedVars, Written, Notice
<1>3. ASSUME NEW t \in Threads, Return(t) \/ Lock(t) \/ Lookup(t) \/ Unlock(t) \/ Skip(t)
      PROVE  UNCHANGED Log!logVars
  BY <1>3 DEF Return, Lock, Lookup, Unlock, Skip, sharedVars, Written, Notice
<1>4. ASSUME NEW t \in Threads, Add(t) PROVE Log!LogNext
  <2>1. Current(t) \in Fingerprints
    BY <1>4 DEF ObserverInv, TypeOK, DecisionInv, Critical, Current, Add
  <2>2. Log!Accept(Current(t))
    BY <1>4, SameCardinality DEF ObserverInv, DecisionInv, Add, Log!Accept, Written, Notice
  <2> QED BY <2>1, <2>2 DEF Log!LogNext
<1>5. ASSUME NEW t \in Threads, Suppress(t) PROVE Log!LogNext
  <2>1. Current(t) \in Fingerprints
    BY <1>5 DEF ObserverInv, TypeOK, DecisionInv, Critical, Current, Suppress
  <2>2. Notice' = IF Notice = "none" THEN "due" ELSE Notice
    BY <1>5 DEF ObserverInv, TypeOK, NoticeInv, OneNotice, Suppress, Notice
  <2>3. Log!Overflow(Current(t))
    BY <1>5, <2>2, SameCardinality DEF ObserverInv, DecisionInv, Suppress, Log!Overflow, Written
  <2> QED BY <2>1, <2>3 DEF Log!LogNext
<1>6. ASSUME NEW t \in Threads, LogNotice(t) PROVE Log!LogNext
  <2>1. suppressionLogged /\ notices = 0
    BY <1>6 DEF ObserverInv, NoticeInv, Pending, LogNotice
  <2>2. Notice = "due" /\ Notice' = "written"
    BY <1>6, <2>1 DEF LogNotice, Notice
  <2>3. UNCHANGED <<seen, Written, suppressed>>
    BY <1>6 DEF LogNotice, sharedVars, Written
  <2>4. Log!WriteNotice
    BY <2>2, <2>3 DEF Log!WriteNotice
  <2> QED BY <2>4 DEF Log!LogNext
<1>7. ASSUME NEW t \in Threads, LogFinding(t) PROVE Log!LogNext
  <2>1. Current(t) \in Fingerprints /\ Current(t) \in seen /\ records[Current(t)] = 0
    BY <1>7 DEF ObserverInv, TypeOK, DecisionInv, RecordInv, Pending, Critical, Current, LogFinding
  <2>2. \A f \in Fingerprints : records'[f] > 0 <=> records[f] > 0 \/ f = Current(t)
    BY <1>7, <2>1 DEF ObserverInv, TypeOK, LogFinding
  <2>3. Written' = Written \cup {Current(t)} /\ Current(t) \notin Written
    BY <2>1, <2>2 DEF Written
  <2>4. Log!Write(Current(t))
    BY <1>7, <2>1, <2>3 DEF LogFinding, sharedVars, Log!Write, Notice
  <2> QED BY <2>1, <2>4 DEF Log!LogNext
<1> QED BY <1>1, <1>2, <1>3, <1>4, <1>5, <1>6, <1>7 DEF Next, Step

\* Its callers cannot tell the observer, whose records are written outside the
\* mutex, from the log that VocabLog describes.
THEOREM ObserverRefinesLog == Spec => RefinesLog
<1>1. Spec => [][Log!LogNext]_(Log!logVars)
  BY ObserverInvariant, StepRefines, PTL DEF Spec
<1> QED BY <1>1, InitRefines, PTL DEF Spec, RefinesLog, Log!LogSpec

=============================================================================
