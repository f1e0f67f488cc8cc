------------------------- MODULE NativeCatalogProofs -------------------------
(***************************************************************************)
(* Proofs about the construction of the native catalog.  ViewResolution    *)
(* and DescriptorPool pass over what is left until all of it is done or a  *)
(* pass gets nowhere, for any finite set of views, whatever they read and  *)
(* in whatever order they are listed, and for any descriptor sets and any  *)
(* order of the passes.  NativeCatalog builds exactly the sound schemas,   *)
(* in whatever order it picks their tables.                                *)
(***************************************************************************)
EXTENDS ViewResolution, DescriptorPool, NativeCatalog, Recursion, FiniteSetTheorems, SequenceTheorems, TLAPS

-----------------------------------------------------------------------------
(* Views: the passes register exactly the views that can be registered,    *)
(* and implement ViewFixpoint.                                             *)

\* Distinct views that include every view are as many as there are views, so
\* comparing two numbers tells addViews whether all views are done.
LEMMA CountTellsAll ==
  ASSUME NEW p \in Seq(Views), NEW d \in SUBSET Views,
         \A i, j \in DOMAIN p : p[i] = p[j] => i = j,
         \A v \in Views : \E i \in DOMAIN p : p[i] = v
  PROVE  Cardinality(d) < Len(p) <=> d # Views
<1>1. IsFiniteSet(Views)
  BY OrdersAssumption DEF OrdersAssumption
<1>2. Len(p) \in Nat /\ DOMAIN p = 1..Len(p)
  OBVIOUS
<1>3. Cardinality(1..Len(p)) = Len(p) /\ IsFiniteSet(1..Len(p))
  BY <1>2, FS_Interval
<1>4. ExistsBijection(1..Len(p), Views)
  <2>1. p \in [1..Len(p) -> Views]
    BY <1>2
  <2>2. p \in Bijection(1..Len(p), Views)
    BY <2>1, <1>2 DEF Bijection, Injection, Surjection, IsInjective
  <2> QED BY <2>2 DEF ExistsBijection
<1>5. Cardinality(Views) = Len(p)
  BY <1>3, <1>4, <1>1, FS_Bijection
<1>6. Cardinality(d) <= Cardinality(Views) /\ Cardinality(d) \in Nat
      /\ (Cardinality(d) = Cardinality(Views) => d = Views)
  BY <1>1, FS_Subset, FS_CardinalityType
<1> QED BY <1>5, <1>6, <1>2

-----------------------------------------------------------------------------
(* The sets of ViewFixpoint *)

\* A view that can be analyzed on the strength of views that can be registered
\* can itself be registered.
LEMMA RegisterResolvable ==
  ASSUME done \subseteq Fixpoint!Resolvable, NEW v \in Views, Analyzable(v)
  PROVE  v \in Fixpoint!Resolvable
<1>1. ASSUME NEW S \in SUBSET Views, Fixpoint!Closed(S) PROVE v \in S
  <2>1. done \subseteq S
    BY <1>1 DEF Fixpoint!Resolvable
  <2>2. Fixpoint!Analyzable(v, S)
    BY <2>1 DEF Analyzable, Fixpoint!Analyzable
  <2> QED BY <1>1, <2>2 DEF Fixpoint!Closed
<1> QED BY <1>1 DEF Fixpoint!Resolvable

\* When no view that is left can be analyzed, nothing more can be registered.
LEMMA NothingLeft ==
  ASSUME done \in SUBSET Views, \A v \in Views \ done : ~Analyzable(v)
  PROVE  Fixpoint!Resolvable \subseteq done
<1>1. Fixpoint!Closed(done)
  BY DEF Fixpoint!Closed, Fixpoint!Analyzable, Analyzable
<1> QED BY <1>1 DEF Fixpoint!Resolvable

\* All of the above depends on reads alone, which no step changes.
LEMMA SameResolvable ==
  ASSUME reads' = reads PROVE Fixpoint!Resolvable' = Fixpoint!Resolvable
BY DEF Fixpoint!Resolvable, Fixpoint!Closed, Fixpoint!Analyzable

-----------------------------------------------------------------------------
(* The invariant *)

LEMMA InitResolution == ASSUME Init PROVE ResolutionInv
<1> USE OrdersAssumption DEF OrdersAssumption
<1>1. PICK o \in Orders : keys = IF o = <<>> THEN Sorted ELSE o
  BY DEF Init
<1>2. keys \in Seq(Keys) /\ \A v \in Views : \E k \in DOMAIN keys : keys[k] = v
  <2>1. CASE o = <<>>
    <3>1. keys = Sorted /\ Sorted \in Seq(Views)
      BY <1>1, <2>1
    <3>2. keys \in Seq(Keys)
      BY <3>1
    <3> QED BY <3>1, <3>2
  <2>2. CASE o # <<>>
    BY <1>1, <2>2
  <2> QED BY <2>1, <2>2
<1>3. TypeOK
  <2>1. pending \in Seq(Views) /\ done \subseteq Views
    BY DEF Init
  <2>2. pc = "order" /\ pos \in Nat \ {0} /\ lastErr = NoError
    BY DEF Init
  <2>3. progress \in BOOLEAN
    BY DEF Init
  <2> QED BY <2>1, <2>2, <2>3 DEF TypeOK
<1>4. OrderInv
  BY <1>2 DEF Init, OrderInv
<1>5. PassInv /\ OutcomeIsFixpoint /\ ErrorIsCurrent
  BY DEF Init, PassInv, OutcomeIsFixpoint, ErrorIsCurrent
<1> QED BY <1>3, <1>4, <1>5 DEF ResolutionInv

\* While the views are being ordered, OrderInv is about the two lists alone.
LEMMA SameInputs ==
  ASSUME OrderInv, UNCHANGED <<reads, keys>>, pc' = "order",
         \A i, j \in DOMAIN pending' : pending'[i] = pending'[j] => i = j,
         \A i \in DOMAIN pending' : \E m \in DOMAIN keys : m < pos' /\ keys[m] = pending'[i],
         \A m \in DOMAIN keys : m < pos' /\ keys[m] \in Views
           => \E i \in DOMAIN pending' : pending'[i] = keys[m]
  PROVE  OrderInv'
BY DEF OrderInv

LEMMA OrderKeyStep == ASSUME ResolutionInv, OrderKey PROVE ResolutionInv'
<1> USE DEF ResolutionInv, OrderKey
<1> DEFINE k == keys[pos]
           new == k \in Views /\ ~\E i \in 1..(pos - 1) : keys[i] = k
<1>1. pos \in DOMAIN keys /\ pos \in Nat \ {0} /\ keys \in Seq(Keys) /\ pending \in Seq(Views)
  BY DEF TypeOK, OrderInv
<1>2. pending' \in Seq(Views) /\ pos' = pos + 1
  BY <1>1
<1>0. OrderInv /\ UNCHANGED <<reads, keys>> /\ pc' = "order"
  OBVIOUS
<1>3. TypeOK'
  BY <1>1, <1>2 DEF TypeOK
<1>4. ASSUME new PROVE OrderInv'
  <2>1. pending' = Append(pending, k) /\ Len(pending') = Len(pending) + 1
        /\ pending'[Len(pending) + 1] = k /\ \A i \in DOMAIN pending : pending'[i] = pending[i]
    BY <1>1, <1>4
  <2>2. DOMAIN pending' = DOMAIN pending \cup {Len(pending) + 1}
    BY <1>1, <2>1
  <2>3. \A i \in DOMAIN pending : pending[i] # k
    BY <1>1, <1>4 DEF OrderInv
  <2>4. \A i, j \in DOMAIN pending' : pending'[i] = pending'[j] => i = j
    BY <2>1, <2>2, <2>3 DEF OrderInv
  <2>5. \A i \in DOMAIN pending' : \E m \in DOMAIN keys : m < pos' /\ keys[m] = pending'[i]
    BY <1>1, <2>1, <2>2 DEF OrderInv
  <2>6. \A m \in DOMAIN keys : m < pos' /\ keys[m] \in Views
          => \E i \in DOMAIN pending' : pending'[i] = keys[m]
    <3> SUFFICES ASSUME NEW m \in DOMAIN keys, m < pos', keys[m] \in Views
                 PROVE  \E i \in DOMAIN pending' : pending'[i] = keys[m]
      OBVIOUS
    <3>1. CASE m < pos
      <4>1. PICK i \in DOMAIN pending : pending[i] = keys[m]
        BY <3>1 DEF OrderInv
      <4> QED BY <4>1, <2>1, <2>2
    <3>2. CASE m = pos
      BY <3>2, <2>1, <2>2
    <3> QED BY <3>1, <3>2, <1>1
  <2> HIDE DEF ResolutionInv, OrderKey
  <2> QED BY <1>0, <2>4, <2>5, <2>6, SameInputs
<1>5. ASSUME ~new PROVE OrderInv'
  <2>1. pending' = pending
    BY <1>5
  <2>2. \A m \in DOMAIN keys : m < pos' /\ keys[m] \in Views
          => \E i \in DOMAIN pending : pending[i] = keys[m]
    <3> SUFFICES ASSUME NEW m \in DOMAIN keys, m < pos', keys[m] \in Views
                 PROVE  \E i \in DOMAIN pending : pending[i] = keys[m]
      OBVIOUS
    <3>1. CASE m < pos
      BY <3>1 DEF OrderInv
    <3>2. CASE m = pos
      <4>1. PICK i \in 1..(pos - 1) : keys[i] = keys[m]
        BY <3>2, <1>5
      <4>2. i \in DOMAIN keys /\ i < pos
        BY <1>1
      <4> QED BY <4>1, <4>2 DEF OrderInv
    <3> QED BY <3>1, <3>2, <1>1
  <2>3. \A i \in DOMAIN pending : \E m \in DOMAIN keys : m < pos' /\ keys[m] = pending[i]
    BY <1>1 DEF OrderInv
  <2>4. \A i, j \in DOMAIN pending : pending[i] = pending[j] => i = j
    BY DEF OrderInv
  <2> HIDE DEF ResolutionInv, OrderKey
  <2> QED BY <1>0, <2>1, <2>2, <2>3, <2>4, SameInputs
<1>6. PassInv' /\ ErrorIsCurrent'
  BY DEF PassInv, ErrorIsCurrent
<1>7. OutcomeIsFixpoint'
  BY SameResolvable DEF OutcomeIsFixpoint
<1> QED BY <1>3, <1>4, <1>5, <1>6, <1>7

\* The whole list has been gone through, so every view is pending.
LEMMA EndOrderStep == ASSUME ResolutionInv, EndOrder PROVE ResolutionInv'
<1> USE DEF ResolutionInv, EndOrder
<1>1. TypeOK'
  BY DEF TypeOK
<1>2. \A k \in DOMAIN keys : k < pos
  BY DEF TypeOK, OrderInv
<1>3. OrderInv'
  BY <1>2 DEF OrderInv
<1>4. PassInv' /\ ErrorIsCurrent'
  BY DEF PassInv, ErrorIsCurrent
<1>5. OutcomeIsFixpoint'
  BY SameResolvable DEF OutcomeIsFixpoint
<1> QED BY <1>1, <1>3, <1>4, <1>5

LEMMA BeginPassStep == ASSUME ResolutionInv, BeginPass PROVE ResolutionInv'
<1> USE DEF ResolutionInv, BeginPass
<1>1. TypeOK'
  <2>1. progress' \in BOOLEAN
    OBVIOUS
  <2>2. pos' \in Nat \ {0} /\ pc' = "pass"
    OBVIOUS
  <2> QED BY <2>1, <2>2 DEF TypeOK
<1>2. OrderInv'
  BY DEF OrderInv
<1>3. done # Views
  BY CountTellsAll DEF TypeOK, OrderInv
<1>4. PassInv'
  BY <1>3 DEF PassInv, TypeOK
<1>5. ErrorIsCurrent'
  BY DEF ErrorIsCurrent
<1>6. OutcomeIsFixpoint'
  BY SameResolvable DEF OutcomeIsFixpoint
<1> QED BY <1>1, <1>2, <1>4, <1>5, <1>6

LEMMA FinishStep == ASSUME ResolutionInv, Finish PROVE ResolutionInv' /\ done = Views
<1> USE DEF ResolutionInv, Finish
<1>1. TypeOK'
  BY DEF TypeOK
<1>2. OrderInv'
  BY DEF OrderInv
<1>3. done = Views
  BY CountTellsAll DEF TypeOK, OrderInv
<1>4. PassInv' /\ ErrorIsCurrent'
  BY DEF PassInv, ErrorIsCurrent
<1>5. OutcomeIsFixpoint'
  BY <1>3, SameResolvable DEF OutcomeIsFixpoint
<1> QED BY <1>1, <1>2, <1>3, <1>4, <1>5

LEMMA VisitStep == ASSUME ResolutionInv, Visit PROVE ResolutionInv'
<1> USE DEF ResolutionInv, Visit
<1> DEFINE v == pending[pos]
<1>1. v \in Views /\ pos \in DOMAIN pending /\ pos' = pos + 1 /\ pos \in Nat \ {0}
  BY DEF TypeOK
<1>2. TypeOK'
  <2>1. progress' \in BOOLEAN
    BY DEF TypeOK
  <2>2. pos' \in Nat \ {0} /\ done' \subseteq Views /\ lastErr' \in Views \cup {NoError}
    BY <1>1 DEF TypeOK
  <2> QED BY <2>1, <2>2 DEF TypeOK
<1>3. OrderInv'
  BY DEF OrderInv
<1>4. ErrorIsCurrent'
  BY DEF ErrorIsCurrent
<1>5. OutcomeIsFixpoint'
  <2>1. done' \subseteq Fixpoint!Resolvable
    BY <1>1, RegisterResolvable DEF OutcomeIsFixpoint
  <2> QED BY <2>1, SameResolvable DEF OutcomeIsFixpoint
<1>6. PassInv'
  <2>1. CASE v \in done
    BY <1>1, <2>1 DEF PassInv, Analyzable, TypeOK
  <2>2. CASE v \notin done /\ ~Analyzable(v)
    BY <1>1, <2>2 DEF PassInv, Analyzable, TypeOK
  <2>3. CASE v \notin done /\ Analyzable(v)
    BY <1>1, <2>3 DEF PassInv
  <2> QED BY <2>1, <2>2, <2>3
<1> QED BY <1>2, <1>3, <1>4, <1>5, <1>6

\* A pass that got nowhere has visited every view: those left cannot be
\* analyzed, and the last error is of one of them.
LEMMA EndPassFails ==
  ASSUME ResolutionInv, EndPass, ~progress
  PROVE  /\ \A v \in Views \ done : ~Analyzable(v)
         /\ done # Views /\ lastErr \in Views \ done
<1> USE DEF ResolutionInv, EndPass
<1>1. \A i \in DOMAIN pending : i < pos
  BY DEF TypeOK
<1>2. \A v \in Views : \E i \in DOMAIN pending : pending[i] = v
  BY DEF OrderInv
<1>3. done # Views /\ done \subseteq Views
  BY DEF PassInv, TypeOK
<1>4. \A v \in Views \ done : ~Analyzable(v) /\ lastErr \in Views \ done
  BY <1>1, <1>2 DEF PassInv
<1> QED BY <1>3, <1>4

LEMMA EndPassStep == ASSUME ResolutionInv, EndPass PROVE ResolutionInv'
<1> USE DEF ResolutionInv, EndPass
<1>1. TypeOK'
  BY DEF TypeOK
<1>2. OrderInv'
  BY DEF OrderInv
<1>3. PassInv'
  BY DEF PassInv
<1>4. ErrorIsCurrent'
  BY EndPassFails DEF ErrorIsCurrent, TypeOK
<1>5. OutcomeIsFixpoint'
  <2>1. CASE progress
    BY <2>1, SameResolvable DEF OutcomeIsFixpoint, TypeOK
  <2>2. CASE ~progress
    <3>1. done = Fixpoint!Resolvable /\ done # Views
      BY <2>2, EndPassFails, NothingLeft DEF OutcomeIsFixpoint, TypeOK
    <3> QED BY <2>2, <3>1, SameResolvable DEF OutcomeIsFixpoint, TypeOK
  <2> QED BY <2>1, <2>2
<1> QED BY <1>1, <1>2, <1>3, <1>4, <1>5

LEMMA StutterStep == ASSUME ResolutionInv, UNCHANGED vars PROVE ResolutionInv'
<1> USE DEF ResolutionInv, vars
<1>1. TypeOK' /\ OrderInv'
  BY DEF TypeOK, OrderInv
<1>2. PassInv' /\ ErrorIsCurrent'
  BY DEF PassInv, ErrorIsCurrent, Analyzable
<1>3. OutcomeIsFixpoint'
  BY SameResolvable DEF OutcomeIsFixpoint
<1> QED BY <1>1, <1>2, <1>3

\* The strengthened invariant holds for any finite set of views.
THEOREM ResolutionInvariant == Spec => []ResolutionInv
<1>1. Init => ResolutionInv
  BY InitResolution
<1>2. ResolutionInv /\ [Next]_vars => ResolutionInv'
  BY OrderKeyStep, EndOrderStep, BeginPassStep, FinishStep, VisitStep, EndPassStep, StutterStep
     DEF Next
<1> QED BY <1>1, <1>2, PTL DEF Spec

\* On success every view is registered; on failure exactly those that could
\* not be, whatever the order: no view is left out that a further pass would
\* have resolved.
THEOREM OutcomeCorrect == Spec => []OutcomeIsFixpoint
<1>1. ResolutionInv => OutcomeIsFixpoint
  BY DEF ResolutionInv
<1> QED BY <1>1, ResolutionInvariant, PTL

\* The error returned belongs to a view that is indeed unresolved.
THEOREM ErrorCorrect == Spec => []ErrorIsCurrent
<1>1. ResolutionInv => ErrorIsCurrent
  BY DEF ResolutionInv
<1> QED BY <1>1, ResolutionInvariant, PTL

-----------------------------------------------------------------------------
(* The passes implement ViewFixpoint (its safety part) *)

LEMMA InitFix == Init => Fixpoint!FixInit
BY DEF Init, Fixpoint!FixInit, Outcome

LEMMA StepFix ==
  ASSUME ResolutionInv, [Next]_vars PROVE [Fixpoint!FixNext]_(Fixpoint!fixVars)
<1> USE DEF Fixpoint!fixVars
<1>1. CASE OrderKey \/ EndOrder \/ BeginPass \/ UNCHANGED vars
  BY <1>1 DEF OrderKey, EndOrder, BeginPass, vars, Outcome
<1>2. CASE Finish
  BY <1>2, FinishStep DEF Finish, Outcome, Fixpoint!FixNext, Fixpoint!Succeed
<1>3. CASE Visit
  <2> DEFINE v == pending[pos]
  <2>1. v \in Views
    BY <1>3 DEF ResolutionInv, TypeOK, Visit
  <2>2. CASE v \in done \/ ~Analyzable(v)
    BY <1>3, <2>2 DEF Visit, Outcome
  <2>3. CASE v \notin done /\ Analyzable(v)
    <3>1. Fixpoint!Register(v)
      BY <1>3, <2>3 DEF Visit, Outcome, Analyzable, Fixpoint!Register, Fixpoint!Analyzable
    <3> QED BY <2>1, <3>1 DEF Fixpoint!FixNext
  <2> QED BY <2>2, <2>3
<1>4. CASE EndPass
  <2>1. CASE progress
    BY <1>4, <2>1 DEF EndPass, Outcome
  <2>2. CASE ~progress
    <3>1. (\A v \in Views \ done : ~Fixpoint!Analyzable(v, done)) /\ done # Views
      BY <1>4, <2>2, EndPassFails DEF Fixpoint!Analyzable, Analyzable
    <3>2. Fixpoint!Fail
      BY <1>4, <2>2, <3>1 DEF EndPass, Outcome, Fixpoint!Fail
    <3> QED BY <3>2 DEF Fixpoint!FixNext
  <2> QED BY <2>1, <2>2
<1> QED BY <1>1, <1>2, <1>3, <1>4 DEF Next

\* Each registration, and each of the two ends, is a step of the abstract
\* registration; the bookkeeping of passes does not show.
THEOREM ImplementsFixpoint == Spec => Fixpoint!FixSpec
<1>1. Spec => [][Fixpoint!FixNext]_(Fixpoint!fixVars)
  BY ResolutionInvariant, StepFix, PTL DEF Spec
<1> QED BY <1>1, InitFix, PTL DEF Spec, Fixpoint!FixSpec

-----------------------------------------------------------------------------
(* Descriptors: what is handed out is closed under imports and complete,   *)
(* and files that are linked are never left over.                          *)

\* Among the files left over there is one all of whose imports are built, since
\* imports are acyclic: that nothing could be built is the fault of such a file.
LEMMA SomeFileIsNext ==
  ASSUME Linkable(merged), remaining \subseteq DOMAIN merged, remaining # {},
         pool = DOMAIN merged \ remaining
  PROVE  \E n \in remaining : Imports(merged, n) \subseteq pool
<1>1. PICK n \in remaining : Imports(merged, n) \cap remaining = {}
  BY DEF Linkable
<1>2. Imports(merged, n) \subseteq DOMAIN merged
  BY DEF Linkable
<1> QED BY <1>1, <1>2

LEMMA PoolInitInv == ASSUME PoolInit PROVE PoolInv
<1>1. phase \in {"none", "merging"} /\ DOMAIN merged = {} /\ pool = {} /\ remaining = {} /\ unvisited = {}
      /\ progressed = FALSE
  BY DEF PoolInit
<1> QED BY <1>1 DEF PoolInv, PoolTypeOK, PoolIsClosed, OnlyRefusedFilesFail, Phases

LEMMA MergeFileInv == ASSUME PoolInv, MergeFile PROVE PoolInv'
<1> DEFINE file == Canonical(Head(unread))
<1>1. DOMAIN merged' = DOMAIN merged \cup {file.name}
  BY DEF MergeFile
<1>2. phase = "merging" /\ phase' = phase /\ pool' = {} /\ remaining' = {} /\ unvisited' = {}
      /\ progressed' \in BOOLEAN
  BY DEF MergeFile, PoolInv, PoolTypeOK
<1> QED BY <1>1, <1>2 DEF PoolInv, PoolTypeOK, PoolIsClosed, OnlyRefusedFilesFail, Phases

LEMMA RefuseInv == ASSUME PoolInv, Refuse PROVE PoolInv'
BY DEF Refuse, PoolInv, PoolTypeOK, PoolIsClosed, OnlyRefusedFilesFail, Phases, Imports

LEMMA BeginBuildingInv == ASSUME PoolInv, BeginBuilding PROVE PoolInv'
<1>1. phase' = "building" /\ pool' = {} /\ merged' = merged /\ remaining' = DOMAIN merged
      /\ unvisited' = DOMAIN merged /\ progressed' = FALSE /\ Linkable(merged)
  BY DEF BeginBuilding, PoolInv
<1> QED BY <1>1 DEF PoolInv, PoolTypeOK, PoolIsClosed, OnlyRefusedFilesFail, Phases

LEMMA BuildFileInv == ASSUME PoolInv, NEW n \in unvisited, BuildFile(n) PROVE PoolInv'
<1>1. n \in remaining /\ n \in DOMAIN merged /\ Imports(merged, n) \subseteq pool
  BY DEF BuildFile, Buildable, PoolInv, PoolTypeOK
<1>2. phase = "building" /\ phase' = "building" /\ merged' = merged /\ progressed' = TRUE
      /\ pool' = pool \cup {n} /\ remaining' = remaining \ {n} /\ unvisited' = unvisited \ {n}
  BY DEF BuildFile
<1>3. PoolTypeOK'
  BY <1>1, <1>2 DEF PoolInv, PoolTypeOK, Phases
<1>4. PoolIsClosed'
  BY <1>1, <1>2 DEF PoolInv, PoolIsClosed, Imports
<1>5. Linkable(merged') /\ pool' = DOMAIN merged' \ remaining'
  BY <1>1, <1>2 DEF PoolInv
<1> QED BY <1>2, <1>3, <1>4, <1>5 DEF PoolInv, OnlyRefusedFilesFail

LEMMA PassOverInv == ASSUME PoolInv, NEW n \in unvisited, PassOver(n) PROVE PoolInv'
<1>1. phase = "building" /\ phase' = "building" /\ merged' = merged /\ progressed' = progressed
      /\ pool' = pool /\ remaining' = remaining /\ unvisited' = unvisited \ {n} /\ ~Buildable(n)
  BY DEF PassOver
<1>2. ~progressed => \A m \in remaining \ unvisited' : ~Buildable(m)
  BY <1>1 DEF PoolInv
<1>3. (\A m \in remaining \ unvisited' : ~Buildable(m)) => (\A m \in remaining \ unvisited : ~Buildable(m))'
  BY <1>1 DEF Buildable, Imports
<1> QED BY <1>1, <1>2, <1>3 DEF PoolInv, PoolTypeOK, PoolIsClosed, OnlyRefusedFilesFail, Phases, Imports

LEMMA EndRoundInv == ASSUME PoolInv, EndRound PROVE PoolInv'
<1>1. phase = "building" /\ unvisited = {} /\ merged' = merged /\ progressed' = FALSE
      /\ pool' = pool /\ remaining' = remaining /\ unvisited' = remaining
      /\ phase' = IF remaining = {} THEN "built" ELSE IF progressed THEN "building" ELSE "failed"
  BY DEF EndRound
<1>2. Linkable(merged) /\ pool = DOMAIN merged \ remaining /\ remaining \subseteq DOMAIN merged
  BY <1>1 DEF PoolInv, PoolTypeOK
<1>3. phase' = "failed" => \E n \in remaining : ~merged[n].accepted
  <2> SUFFICES ASSUME phase' = "failed" PROVE \E n \in remaining : ~merged[n].accepted
    OBVIOUS
  <2>1. remaining # {} /\ ~progressed
    BY <1>1
  <2>2. PICK n \in remaining : Imports(merged, n) \subseteq pool
    BY <1>2, <2>1, SomeFileIsNext
  <2>3. ~Buildable(n)
    BY <1>1, <2>1 DEF PoolInv
  <2> QED BY <2>2, <2>3 DEF Buildable
<1>4. phase' \in {"built", "building", "failed"} /\ (phase' = "built" => remaining = {})
  BY <1>1
<1>5. PoolTypeOK'
  BY <1>1, <1>2, <1>4 DEF PoolInv, PoolTypeOK, Phases
<1>6. PoolIsClosed'
  BY <1>1, <1>2, <1>4 DEF PoolInv, PoolIsClosed, Imports
<1>7. OnlyRefusedFilesFail'
  BY <1>1, <1>3 DEF OnlyRefusedFilesFail
<1> QED BY <1>1, <1>2, <1>4, <1>5, <1>6, <1>7 DEF PoolInv

\* No order of the map, and no order of the sets, breaks the invariant.
THEOREM PoolSafe == PoolSpec => []PoolInv
<1>1. PoolInit => PoolInv
  BY PoolInitInv
<1>2. PoolInv /\ [PoolNext]_poolVars => PoolInv'
  <2> SUFFICES ASSUME PoolInv, [PoolNext]_poolVars PROVE PoolInv'
    OBVIOUS
  <2>1. CASE MergeFile BY <2>1, MergeFileInv
  <2>2. CASE Refuse BY <2>2, RefuseInv
  <2>3. CASE BeginBuilding BY <2>3, BeginBuildingInv
  <2>4. CASE EndRound BY <2>4, EndRoundInv
  <2>5. ASSUME NEW n \in unvisited, BuildFile(n) PROVE PoolInv'
    BY <2>5, BuildFileInv
  <2>6. ASSUME NEW n \in unvisited, PassOver(n) PROVE PoolInv'
    BY <2>6, PassOverInv
  <2>7. CASE UNCHANGED poolVars
    BY <2>7 DEF poolVars, PoolInv, PoolTypeOK, PoolIsClosed, OnlyRefusedFilesFail, Buildable, Imports
  <2> QED BY <2>1, <2>2, <2>3, <2>4, <2>5, <2>6, <2>7 DEF PoolNext
<1> QED BY <1>1, <1>2, PTL DEF PoolSpec

\* The passes end without success only for a file the pool's library refuses:
\* what protodesc has linked is built, in every order.
THEOREM LinkedFilesAreBuilt == PoolSpec => []OnlyRefusedFilesFail
<1>1. PoolInv => OnlyRefusedFilesFail
  BY DEF PoolInv
<1> QED BY <1>1, PoolSafe, PTL

-----------------------------------------------------------------------------
(* Descriptors: sets are taken or refused as a whole. *)

\* The files merged so far, those before the ones still to be read.
Behind == Len(input) - Len(unread)
Read == {input[i] : i \in 1..Behind}

\* The files merged are the canonical forms of those read, which agree where
\* they have a name in common; a refusal has its ground in the file at hand.
MergeInv ==
  /\ input \in Inputs
  /\ unread \in Seq(Listed) /\ Len(unread) <= Len(input)
  /\ \A i \in 1..Len(unread) : unread[i] = input[i + Behind]
  /\ merged = [n \in DOMAIN merged |-> merged[n]]
  /\ DOMAIN merged = {f.name : f \in Read}
  /\ \A f \in Read : f # Unreadable /\ f.name # Blank /\ merged[f.name] = Canonical(f)
  /\ phase \in {"building", "built", "failed"} => unread = << >> /\ Linkable(merged)
  /\ phase = "refused" => IF unread = << >> THEN ~Linkable(merged) ELSE ~Acceptable(Head(unread))
  /\ phase \in Phases

LEMMA InputSequence ==
  ASSUME input \in Inputs
  PROVE  /\ input \in Seq(Listed) /\ Len(input) \in Nat /\ DOMAIN input = 1..Len(input)
         /\ \A f \in Listed : f # Unreadable => DOMAIN f = {"name", "imports", "defines", "notes", "accepted"}
<1>1. input \in Seq(Listed) /\ \A f \in Listed : f = Unreadable \/ DOMAIN f = {"name", "imports", "defines", "notes", "accepted"}
  BY FilesAssumption DEF Listed
<1> QED BY <1>1

LEMMA CanonicalName ==
  ASSUME NEW f, DOMAIN f = {"name", "imports", "defines", "notes", "accepted"} PROVE Canonical(f).name = f.name
  BY DEF Canonical

LEMMA MergeInit == ASSUME PoolInit PROVE MergeInv
<1>1. input \in Inputs /\ unread = input /\ merged = << >> /\ phase \in {"none", "merging"}
  BY DEF PoolInit
<1>2. input \in Seq(Listed) /\ Len(input) \in Nat /\ Behind = 0
  BY <1>1, InputSequence DEF Behind
<1>3. Read = {}
  BY <1>2 DEF Read
<1>4. \A i \in 1..Len(unread) : unread[i] = input[i + Behind]
  BY <1>1, <1>2
<1> QED BY <1>1, <1>2, <1>3, <1>4 DEF MergeInv, Phases

\* What does not read on changes nothing of this.
LEMMA SameRead ==
  ASSUME MergeInv, UNCHANGED <<input, unread, merged>>, phase' \in Phases,
         phase' \in {"building", "built", "failed"} => unread = << >> /\ Linkable(merged),
         phase' = "refused" => IF unread = << >> THEN ~Linkable(merged) ELSE ~Acceptable(Head(unread))
  PROVE  MergeInv'
<1>1. Behind' = Behind /\ Read' = Read /\ Listed' = Listed /\ (Acceptable(Head(unread)) <=> Acceptable(Head(unread))')
  BY DEF Behind, Read, Listed, Acceptable
<1> QED BY <1>1 DEF MergeInv

LEMMA MergeFileMerges == ASSUME MergeInv, MergeFile PROVE MergeInv'
<1> DEFINE h == Head(unread)
           n == Len(unread)
<1>1. /\ unread \in Seq(Listed) /\ unread # << >> /\ unread' = Tail(unread) /\ input' = input /\ phase = "merging"
      /\ phase' = phase /\ Acceptable(h) /\ input \in Inputs
  BY DEF MergeInv, MergeFile
<1>2. /\ Len(input) \in Nat /\ n \in Nat /\ n >= 1 /\ h = unread[1] /\ Tail(unread) \in Seq(Listed) /\ Len(Tail(unread)) = n - 1
      /\ \A i \in 1..(n - 1) : Tail(unread)[i] = unread[i + 1]
  BY <1>1, InputSequence
<1>3. n <= Len(input) /\ Behind' = Behind + 1 /\ Behind \in Nat /\ Listed' = Listed
  BY <1>1, <1>2 DEF MergeInv, Behind, Listed
<1>4. h = input[Behind + 1] /\ h \in Listed
  <2>1. unread[1] = input[1 + Behind] /\ 1 + Behind = Behind + 1
    BY <1>2, <1>3 DEF MergeInv
  <2>2. unread[1] \in Listed
    BY <1>1, <1>2
  <2> QED BY <1>2, <2>1, <2>2
<1>5. Read' = Read \cup {h}
  BY <1>1, <1>3, <1>4 DEF Read
<1>6. h # Unreadable /\ h.name # Blank /\ Canonical(h).name = h.name
      /\ (h.name \in DOMAIN merged => merged[h.name] = Canonical(h))
  BY <1>1, <1>4, InputSequence, CanonicalName DEF Acceptable
<1> DEFINE new == [m \in DOMAIN merged \cup {h.name} |-> IF m = h.name THEN Canonical(h) ELSE merged[m]]
<1>0. merged' = new
  BY <1>6 DEF MergeFile
<1>7. /\ merged' = [m \in DOMAIN merged' |-> merged'[m]] /\ DOMAIN merged' = DOMAIN merged \cup {h.name}
      /\ merged'[h.name] = Canonical(h) /\ \A m \in DOMAIN merged : merged'[m] = merged[m]
  <2>1. DOMAIN new = DOMAIN merged \cup {h.name} /\ new = [m \in DOMAIN new |-> new[m]] /\ new[h.name] = Canonical(h)
    OBVIOUS
  <2>2. \A m \in DOMAIN merged : new[m] = merged[m]
    BY <1>6
  <2> HIDE DEF new
  <2> QED BY <1>0, <2>1, <2>2
<1>8. DOMAIN merged' = {f.name : f \in Read'}
  BY <1>5, <1>7 DEF MergeInv
<1>9. \A f \in Read' : f # Unreadable /\ f.name # Blank /\ merged'[f.name] = Canonical(f)
  BY <1>5, <1>6, <1>7 DEF MergeInv
<1>10. \A i \in 1..Len(unread') : unread'[i] = input'[i + Behind']
  BY <1>1, <1>2, <1>3 DEF MergeInv
<1>11. unread' \in Seq(Listed) /\ Len(unread') <= Len(input)
  BY <1>1, <1>2, <1>3
<1> QED BY <1>1, <1>3, <1>7, <1>8, <1>9, <1>10, <1>11 DEF MergeInv

LEMMA MergeStep == MergeInv /\ [PoolNext]_poolVars => MergeInv'
<1> SUFFICES ASSUME MergeInv, [PoolNext]_poolVars PROVE MergeInv'
  OBVIOUS
<1>1. CASE MergeFile
  BY <1>1, MergeFileMerges
<1>2. CASE Refuse
  BY <1>2, SameRead DEF Refuse, Phases
<1>3. CASE BeginBuilding
  BY <1>3, SameRead DEF BeginBuilding, Phases
<1>4. CASE EndRound \/ \E n \in unvisited : BuildFile(n) \/ PassOver(n)
  BY <1>4, SameRead DEF MergeInv, EndRound, BuildFile, PassOver, Phases
<1>5. CASE UNCHANGED poolVars
  BY <1>5, SameRead DEF MergeInv, poolVars
<1> QED BY <1>1, <1>2, <1>3, <1>4, <1>5 DEF PoolNext

\* Once all files are read, what has been merged is what Consistent links.
LEMMA MergedIsListed ==
  ASSUME MergeInv, unread = << >>
  PROVE  /\ Unreadable \notin Listed /\ \A f \in Listed : f.name # Blank
         /\ \A f, g \in Listed : f.name = g.name => Canonical(f) = Canonical(g)
         /\ merged = [n \in {f.name : f \in Listed} |-> Canonical(CHOOSE f \in Listed : f.name = n)]
<1>1. Read = Listed
  BY InputSequence DEF Read, Behind, Listed, MergeInv
<1>2. \A f \in Listed : f # Unreadable /\ f.name # Blank /\ merged[f.name] = Canonical(f)
  BY <1>1 DEF MergeInv
<1>3. merged = [n \in DOMAIN merged |-> merged[n]] /\ DOMAIN merged = {f.name : f \in Listed}
  BY <1>1 DEF MergeInv
<1>4. \A n \in {f.name : f \in Listed} : merged[n] = Canonical(CHOOSE f \in Listed : f.name = n)
  <2> TAKE n \in {f.name : f \in Listed}
  <2>1. (CHOOSE f \in Listed : f.name = n) \in Listed /\ (CHOOSE f \in Listed : f.name = n).name = n
    OBVIOUS
  <2> QED BY <1>2, <2>1
<1>5. \A f, g \in Listed : f.name = g.name => Canonical(f) = Canonical(g)
  BY <1>2
<1> QED BY <1>2, <1>3, <1>4, <1>5

LEMMA MergeTells == ASSUME MergeInv PROVE TakenIffConsistent
<1>1. ASSUME phase \in {"building", "built", "failed"} PROVE Consistent
  BY <1>1, MergedIsListed DEF MergeInv, Consistent
<1>2. ASSUME phase = "refused" PROVE ~Consistent
  <2>1. CASE unread = << >>
    BY <1>2, <2>1, MergedIsListed DEF MergeInv, Consistent
  <2>2. CASE unread # << >>
    <3> DEFINE h == Head(unread)
    <3>1. ~Acceptable(h) /\ h \in Listed
      BY <1>2, <2>2 DEF MergeInv
    <3>2. ASSUME h.name \in DOMAIN merged, merged[h.name] # Canonical(h)
          PROVE  \E f \in Listed : f.name = h.name /\ Canonical(f) # Canonical(h)
      <4>1. PICK f \in Read : f.name = h.name
        BY <3>2 DEF MergeInv
      <4>2. f \in Listed /\ merged[h.name] = Canonical(f)
        BY <4>1, InputSequence DEF MergeInv, Read, Listed, Behind
      <4> QED BY <3>2, <4>1, <4>2
    <3> QED BY <3>1, <3>2 DEF Acceptable, Consistent
  <2> QED BY <2>1, <2>2
<1> QED BY <1>1, <1>2 DEF TakenIffConsistent, MergeInv, Phases

\* Descriptor sets are taken or refused by the files they list, whatever their
\* order and however often they repeat one.
THEOREM SetsAreTakenWhole == PoolSpec => []TakenIffConsistent
<1>1. PoolInit => MergeInv
  BY MergeInit
<1>2. MergeInv => TakenIffConsistent
  BY MergeTells
<1> QED BY <1>1, <1>2, MergeStep, PTL DEF PoolSpec

-----------------------------------------------------------------------------
(* The native catalog: the elements of a graph, one after the other        *)

\* What is asked of a graph read from DDL for its elements to be counted.
IsGraph(g) ==
  /\ g.nodes \in Seq(ToSet(g.nodes)) /\ g.edges \in Seq(ToSet(g.edges))
  /\ \A i \in Places(g) : ElementAt(g, i).labels \in Seq(ToSet(ElementAt(g, i).labels))

\* A list mapped element by element is a list of the same length.
LEMMA MappedList ==
  ASSUME NEW S, NEW s \in Seq(S), NEW f, DOMAIN f = DOMAIN s, f = [i \in DOMAIN s |-> f[i]]
  PROVE  f \in Seq(ToSet(f)) /\ Len(f) = Len(s) /\ DOMAIN f = 1..Len(s) /\ Len(s) \in Nat
<1>1. DOMAIN s = 1..Len(s) /\ Len(s) \in Nat
  OBVIOUS
<1>2. f \in [1..Len(s) -> ToSet(f)]
  BY <1>1 DEF ToSet
<1> QED BY <1>1, <1>2

LEMMA StatesRun ==
  ASSUME NEW g, IsGraph(g)
  PROVE  /\ Len(g.nodes) \in Nat /\ Len(g.edges) \in Nat
         /\ DOMAIN g.nodes = 1..Len(g.nodes) /\ DOMAIN g.edges = 1..Len(g.edges)
         /\ States(g)[0] = NewState
         /\ \A n \in Places(g) :
              States(g)[n] = IF n \in DOMAIN g.nodes THEN AddNodeTable(States(g)[n - 1], ElementAt(g, n), n)
                             ELSE AddEdgeTable(States(g)[n - 1], ElementAt(g, n))
<1>1. Len(g.nodes) \in Nat /\ Len(g.edges) \in Nat /\ DOMAIN g.nodes = 1..Len(g.nodes) /\ DOMAIN g.edges = 1..Len(g.edges)
  BY DEF IsGraph
<1> DEFINE N == Len(g.nodes) + Len(g.edges)
           Next1(s, n) == IF n \in DOMAIN g.nodes THEN AddNodeTable(s, ElementAt(g, n), n) ELSE AddEdgeTable(s, ElementAt(g, n))
           R(m, f) == [n \in {0} \cup (1..m) |-> IF n = 0 THEN NewState ELSE Next1(f[n - 1], n)]
           A == {m \in 0..N : \E f : f = R(m, f)}
<1>2. N \in Nat
  <2>1. ASSUME NEW a \in Nat, NEW b \in Nat PROVE a + b \in Nat
    OBVIOUS
  <2> QED BY <1>1, <2>1
<1>3. 0 \in A
  <2> DEFINE f == [n \in {0} |-> NewState]
  <2>1. ASSUME NEW n \in {0} \cup (1..0) PROVE n = 0
    OBVIOUS
  <2>2. {0} \cup (1..0) = {0}
    BY <2>1
  <2>3. R(0, f) = [n \in {0} |-> NewState]
    <3> HIDE DEF Next1
    <3> QED BY <2>2
  <2>4. f = R(0, f)
    BY <2>3
  <2> HIDE DEF R, f, N
  <2>5. 0 \in 0..N
    BY <1>2
  <2> QED BY <2>4, <2>5
<1>4. ASSUME NEW m \in A, m < N PROVE m + 1 \in A
  <2>1. PICK f : f = R(m, f)
    <3> HIDE DEF R
    <3> QED OBVIOUS
  <2>2. m \in Nat /\ m + 1 \in 0..N
    <3>1. m \in 0..N
      <4> HIDE DEF R, N
      <4> QED OBVIOUS
    <3> HIDE DEF A, N
    <3> QED BY <1>2, <1>4, <3>1
  <2> DEFINE v == Next1(f[m], m + 1)
             h == [n \in {0} \cup (1..(m + 1)) |-> IF n = m + 1 THEN v ELSE f[n]]
  <2>3. ASSUME NEW n \in {0} \cup (1..(m + 1)) PROVE h[n] = R(m + 1, h)[n]
    <3>1. CASE n = 0
      <4>3. R(m + 1, h)[n] = NewState
        <5> HIDE DEF h, Next1
        <5> QED BY <3>1
      <4>1. f[0] = NewState
        <5>1. f[0] = R(m, f)[0]
          BY <2>1
        <5>2. R(m, f)[0] = NewState
          <6> HIDE DEF Next1
          <6> QED OBVIOUS
        <5> QED BY <5>1, <5>2
      <4>2. h[0] = f[0]
        BY <2>2
      <4> HIDE DEF h, R
      <4> QED BY <3>1, <4>1, <4>2, <4>3
    <3>2. CASE n = m + 1
      <4>1. h[n] = v /\ h[n - 1] = f[m] /\ n # 0
        BY <2>2, <3>2
      <4>2. R(m + 1, h)[n] = Next1(h[n - 1], n)
        <5> HIDE DEF h, Next1
        <5> QED BY <4>1
      <4> HIDE DEF h, R
      <4> QED BY <3>2, <4>1, <4>2
    <3>3. CASE n \in 1..m
      <4>1. h[n] = f[n] /\ h[n - 1] = f[n - 1] /\ n # 0
        BY <2>2, <3>3
      <4>2. f[n] = Next1(f[n - 1], n)
        <5>1. f[n] = R(m, f)[n]
          BY <2>1
        <5>2. R(m, f)[n] = Next1(f[n - 1], n)
          <6> HIDE DEF Next1
          <6> QED BY <3>3, <4>1
        <5> QED BY <5>1, <5>2
      <4>3. R(m + 1, h)[n] = Next1(h[n - 1], n)
        <5> HIDE DEF h, Next1
        <5> QED BY <4>1
      <4> HIDE DEF h, R, Next1
      <4> QED BY <4>1, <4>2, <4>3
    <3> QED BY <2>2, <3>1, <3>2, <3>3
  <2>4. h = R(m + 1, h)
    <3>1. h = [n \in {0} \cup (1..(m + 1)) |-> h[n]]
      OBVIOUS
    <3>2. R(m + 1, h) = [n \in {0} \cup (1..(m + 1)) |-> R(m + 1, h)[n]]
      OBVIOUS
    <3> HIDE DEF h, R
    <3> QED BY <2>3, <3>1, <3>2
  <2> HIDE DEF h, R
  <2> QED BY <2>2, <2>4
<1>5. N \in A
  <2> HIDE DEF A, N
  <2>1. \A m \in A : m \in Nat /\ m < N => m + 1 \in A
    BY <1>4
  <2> QED BY <1>2, <1>3, <2>1, UpTo
<1>6. PICK f : f = R(N, f)
  BY <1>5
<1>7. States(g) = CHOOSE s : s = R(N, s)
  BY DEF States, Places
<1> DEFINE T == States(g)
<1>8. T = R(N, T)
  <2> HIDE DEF R
  <2> QED BY <1>6, <1>7
<1>9. \A n \in {0} \cup (1..N) : T[n] = IF n = 0 THEN NewState ELSE Next1(T[n - 1], n)
  <2> HIDE DEF T, Next1
  <2> QED BY <1>8
<1>10. T[0] = NewState /\ \A n \in 1..N : T[n] = Next1(T[n - 1], n)
  <2> HIDE DEF T, Next1, N
  <2>1. T[0] = NewState
    BY <1>9
  <2>2. ASSUME NEW n \in 1..N PROVE T[n] = Next1(T[n - 1], n)
    <3>1. n # 0
      BY <1>2
    <3> QED BY <1>9, <3>1
  <2> QED BY <2>1, <2>2
<1> QED BY <1>1, <1>10 DEF Places

\* Where the elements of a graph stand.
LEMMA PlacesOf ==
  ASSUME NEW g, IsGraph(g)
  PROVE  /\ \A i \in DOMAIN g.nodes : i \in Places(g) /\ ElementAt(g, i) = g.nodes[i]
         /\ \A i \in DOMAIN g.edges : /\ i + Len(g.nodes) \in Places(g) /\ i + Len(g.nodes) \notin DOMAIN g.nodes
                                      /\ ElementAt(g, i + Len(g.nodes)) = g.edges[i]
         /\ \A n \in Places(g) : n \notin DOMAIN g.nodes =>
              n - Len(g.nodes) \in DOMAIN g.edges /\ ElementAt(g, n) = g.edges[n - Len(g.nodes)]
         /\ \E N \in Nat : N = Len(g.nodes) + Len(g.edges) /\ Places(g) = 1..N
<1>1. ASSUME NEW a \in Nat, NEW b \in Nat
      PROVE /\ a + b \in Nat /\ \A i \in 1..a : i \in 1..(a + b)
            /\ \A n \in 1..(a + b) : n \notin 1..a => n - a \in 1..b
            /\ \A i \in 1..b : i + a \in 1..(a + b) /\ i + a \notin 1..a /\ (i + a) - a = i
  OBVIOUS
<1> DEFINE a == Len(g.nodes)
           b == Len(g.edges)
<1>2. a \in Nat /\ b \in Nat /\ DOMAIN g.nodes = 1..a /\ DOMAIN g.edges = 1..b /\ Places(g) = 1..(a + b)
  BY StatesRun DEF Places
<1>3. /\ \A n \in Places(g) : n \notin DOMAIN g.nodes => ElementAt(g, n) = g.edges[n - a]
      /\ \A n \in DOMAIN g.nodes : ElementAt(g, n) = g.nodes[n]
  BY DEF ElementAt
<1> HIDE DEF a, b
<1>4. /\ \A n \in Places(g) : n \notin DOMAIN g.nodes => n - a \in DOMAIN g.edges
      /\ \A i \in DOMAIN g.nodes : i \in Places(g)
      /\ \A i \in DOMAIN g.edges : i + a \in Places(g) /\ i + a \notin DOMAIN g.nodes /\ (i + a) - a = i
  <2>1. /\ \A i \in 1..a : i \in 1..(a + b)
        /\ \A n \in 1..(a + b) : n \notin 1..a => n - a \in 1..b
        /\ \A i \in 1..b : i + a \in 1..(a + b) /\ i + a \notin 1..a /\ (i + a) - a = i
    BY <1>1, <1>2
  <2> QED BY <1>2, <2>1, Zenon
<1>5. \A i \in DOMAIN g.edges : ElementAt(g, i + a) = g.edges[i]
  BY <1>3, <1>4
<1>6. \E N \in Nat : N = a + b /\ Places(g) = 1..N
  BY <1>1, <1>2
<1> QED BY <1>3, <1>4, <1>5, <1>6 DEF a, b

\* The state after the last element, all nodes being in.
LEMMA FinalOf ==
  ASSUME NEW g, IsGraph(g)
  PROVE  \E N \in Nat : /\ Places(g) = 1..N /\ N \in {0} \cup Places(g) /\ Final(g) = States(g)[N]
                        /\ \A i \in DOMAIN g.nodes : i \in Nat /\ i <= N
<1>1. PICK N \in Nat : N = Len(g.nodes) + Len(g.edges) /\ Places(g) = 1..N
  BY PlacesOf
<1>2. Final(g) = States(g)[N]
  BY <1>1 DEF Final
<1>3. Places(g) = 1..N
  BY <1>1
<1>4. N \in {0} \cup (1..N) /\ \A i \in 1..N : i \in Nat /\ i <= N
  OBVIOUS
<1>5. \A i \in DOMAIN g.nodes : i \in Places(g)
  BY PlacesOf
<1> QED BY <1>2, <1>3, <1>4, <1>5

\* A set of numbers that has a member has a least one.
LEMMA SomeIsLeast ==
  ASSUME NEW S \in SUBSET Nat, NEW x \in S
  PROVE  \E l \in S : \A m \in S : l <= m
<1> SUFFICES ASSUME \A l \in S : \E m \in S : ~(l <= m) PROVE FALSE
  OBVIOUS
<1> DEFINE A == {n \in Nat : \A m \in S : n <= m}
<1>1. 0 \in A
  OBVIOUS
<1>2. \A n \in A : n \in Nat /\ n < x + 1 => n + 1 \in A
  <2> SUFFICES ASSUME NEW n \in A PROVE n + 1 \in A
    OBVIOUS
  <2>1. n \notin S
    OBVIOUS
  <2>2. ASSUME NEW m \in S PROVE n + 1 <= m
    <3>1. n <= m /\ n # m /\ m \in Nat /\ n \in Nat
      BY <2>1
    <3> QED BY <3>1
  <2> QED BY <2>2
<1>3. x + 1 \in A
  <2>1. x + 1 \in Nat
    OBVIOUS
  <2> HIDE DEF A
  <2> QED BY <1>1, <1>2, <2>1, UpTo
<1>4. x + 1 <= x /\ x \in Nat
  BY <1>3
<1> QED BY <1>4

\* What an element that agrees with the declarations adds to them.
AddsTo(declared, old, e) ==
  /\ DOMAIN declared = DOMAIN old \cup {LowerCase[b.name] : b \in Uses(e)}
  /\ \A p \in DOMAIN old : declared[p] = old[p]
  /\ \A b \in Uses(e) : declared[LowerCase[b.name]] = TypeOf(Backing(e), b.sql)

LEMMA DeclareAll == ASSUME NEW s, NEW e, Agrees(s, e) PROVE AddsTo(Declare(s, e), s.declarations, e)
<1>1. DOMAIN Declare(s, e) = DOMAIN s.declarations \cup {LowerCase[b.name] : b \in Uses(e)}
  BY DEF Declare
<1>2. \A p \in DOMAIN s.declarations : Declare(s, e)[p] = s.declarations[p]
  BY DEF Declare
<1>3. ASSUME NEW b \in Uses(e) PROVE Declare(s, e)[LowerCase[b.name]] = TypeOf(Backing(e), b.sql)
  <2> DEFINE p == LowerCase[b.name]
             c == CHOOSE c \in Uses(e) : LowerCase[c.name] = p
  <2>1. c \in Uses(e) /\ LowerCase[c.name] = p
    OBVIOUS
  <2>2. TypeOf(Backing(e), c.sql) = TypeOf(Backing(e), b.sql)
    <3> HIDE DEF c
    <3> QED BY <2>1 DEF Agrees, Alike
  <2>3. p \in DOMAIN s.declarations => s.declarations[p] = TypeOf(Backing(e), b.sql)
    BY DEF Agrees
  <2>4. Declare(s, e)[p] = IF p \in DOMAIN s.declarations THEN s.declarations[p] ELSE TypeOf(Backing(e), c.sql)
    BY DEF Declare
  <2> HIDE DEF p, c
  <2>5. Declare(s, e)[p] = TypeOf(Backing(e), b.sql)
    BY <2>2, <2>3, <2>4
  <2> QED BY <2>5 DEF p
<1> QED BY <1>1, <1>2, <1>3 DEF AddsTo

\* What the labels of an element add to those of the graph.
LEMMA AddTheLabels ==
  ASSUME NEW s, NEW e, e.labels \in Seq(ToSet(e.labels))
  PROVE  /\ DOMAIN AddLabels(s, e) = DOMAIN s.labels \cup LabelKeys(e)
         /\ \A k \in DOMAIN AddLabels(s, e) :
              \/ k \in DOMAIN s.labels /\ AddLabels(s, e)[k] = s.labels[k]
              \/ \E l \in DOMAIN LabelsOf(e) : AddLabels(s, e)[k] = Properties(e, l)
<1>1. DOMAIN AddLabels(s, e) = DOMAIN s.labels \cup LabelKeys(e)
  BY DEF AddLabels
<1>2. DOMAIN LabelsOf(e) \subseteq Nat
  <2>1. DOMAIN e.labels \subseteq Nat
    OBVIOUS
  <2> QED BY <2>1 DEF LabelsOf
<1>3. ASSUME NEW k \in LabelKeys(e), k \notin DOMAIN s.labels
      PROVE  \E l \in DOMAIN LabelsOf(e) : AddLabels(s, e)[k] = Properties(e, l)
  <2> DEFINE First(l) == LabelKey(e, l) = k /\ \A m \in 1..(l - 1) : LabelKey(e, m) # k
             S == {l \in DOMAIN LabelsOf(e) : LabelKey(e, l) = k}
             c == CHOOSE l \in DOMAIN LabelsOf(e) : First(l)
  <2>1. S \in SUBSET Nat /\ S # {}
    BY <1>2 DEF LabelKeys
  <2>2. PICK l \in S : \A m \in S : l <= m
    <3> HIDE DEF S
    <3> QED BY <2>1, SomeIsLeast
  <2>3. First(l)
    <3> SUFFICES ASSUME NEW m \in 1..(l - 1), LabelKey(e, m) = k PROVE FALSE
      OBVIOUS
    <3>1. l \in Nat /\ l \in DOMAIN LabelsOf(e) /\ m < l
      BY <2>1
    <3>2. m \in DOMAIN LabelsOf(e)
      <4>1. DOMAIN LabelsOf(e) = 1..Len(LabelsOf(e)) /\ Len(LabelsOf(e)) \in Nat
        BY DEF LabelsOf
      <4> QED BY <3>1, <4>1
    <3> QED BY <2>2, <3>1, <3>2
  <2>4. c \in DOMAIN LabelsOf(e)
    <3> HIDE DEF First
    <3> QED BY <2>3
  <2>5. AddLabels(s, e)[k] = Properties(e, c)
    BY <1>3 DEF AddLabels
  <2> HIDE DEF c
  <2> QED BY <2>4, <2>5
<1>4. ASSUME NEW k \in DOMAIN s.labels PROVE AddLabels(s, e)[k] = s.labels[k]
  BY DEF AddLabels
<1> QED BY <1>1, <1>3, <1>4

\* The state after one more element.
LEMMA StateAfter ==
  ASSUME NEW g, IsGraph(g), NEW n \in Places(g)
  PROVE  LET s == States(g)[n - 1]
             t == States(g)[n]
             e == ElementAt(g, n)
         IN  /\ t.declarations = Declare(s, e) /\ t.labels = AddLabels(s, e)
             /\ n \in DOMAIN g.nodes => e = g.nodes[n] /\ t.nodeTables =
                  [x \in {ElementName(e), e.name} \cup DOMAIN s.nodeTables |->
                     IF x \in {ElementName(e), e.name} THEN n ELSE s.nodeTables[x]]
             /\ n \notin DOMAIN g.nodes => t.nodeTables = s.nodeTables
<1> DEFINE s == States(g)[n - 1]
           t == States(g)[n]
           e == ElementAt(g, n)
<1>1. t = IF n \in DOMAIN g.nodes THEN AddNodeTable(s, e, n) ELSE AddEdgeTable(s, e)
  BY StatesRun
<1>2. n \in DOMAIN g.nodes => e = g.nodes[n]
  BY DEF ElementAt
<1> HIDE DEF s, t, e
<1>3. CASE n \in DOMAIN g.nodes
  <2>1. t = AddNodeTable(s, e, n)
    BY <1>1, <1>3
  <2> QED BY <1>2, <1>3, <2>1 DEF AddNodeTable, s, t, e
<1>4. CASE n \notin DOMAIN g.nodes
  <2>1. t = AddEdgeTable(s, e)
    BY <1>1, <1>4
  <2> QED BY <1>2, <1>4, <2>1 DEF AddEdgeTable, s, t, e
<1> QED BY <1>3, <1>4

\* What is declared, labelled and found once n elements are in.
Declared(g, n) ==
  LET s == States(g)[n]
  IN  /\ \A p \in DOMAIN s.declarations : \E i \in 1..n : \E b \in Uses(ElementAt(g, i)) :
           p = LowerCase[b.name] /\ s.declarations[p] = TypeOf(Backing(ElementAt(g, i)), b.sql)
      /\ \A i \in 1..n : \A b \in Uses(ElementAt(g, i)) :
           LowerCase[b.name] \in DOMAIN s.declarations
             /\ s.declarations[LowerCase[b.name]] = TypeOf(Backing(ElementAt(g, i)), b.sql)
Labelled(g, n) ==
  LET s == States(g)[n]
  IN  /\ \A i \in 1..n : LabelKeys(ElementAt(g, i)) \subseteq DOMAIN s.labels
      /\ \A k \in DOMAIN s.labels : \E i \in 1..n : \E l \in DOMAIN LabelsOf(ElementAt(g, i)) :
           s.labels[k] = Properties(ElementAt(g, i), l)
NodeNames(g, i) == {ElementName(g.nodes[i]), g.nodes[i].name}
Found(g, n) ==
  LET t == States(g)[n].nodeTables
  IN  /\ \A i \in DOMAIN g.nodes : i <= n => NodeNames(g, i) \subseteq DOMAIN t
      /\ \A x \in DOMAIN t : /\ t[x] \in DOMAIN g.nodes /\ t[x] <= n /\ x \in NodeNames(g, t[x])
                             /\ \A i \in DOMAIN g.nodes : i <= n /\ x \in NodeNames(g, i) => i <= t[x]

\* Nothing is declared, labelled or found before the first element.
LEMMA NothingFirst == ASSUME NEW g, IsGraph(g) PROVE Declared(g, 0) /\ Labelled(g, 0) /\ Found(g, 0)
<1>1. States(g)[0] = NewState
  BY StatesRun
<1>2. /\ DOMAIN States(g)[0].declarations = {} /\ DOMAIN States(g)[0].labels = {}
      /\ DOMAIN States(g)[0].nodeTables = {}
  BY <1>1 DEF NewState
<1>3. \A i \in DOMAIN g.nodes : ~(i <= 0)
  BY StatesRun
<1> QED BY <1>2, <1>3 DEF Declared, Labelled, Found

LEMMA DeclaredNext ==
  ASSUME NEW g, IsGraph(g), NEW n \in Places(g), Declared(g, n - 1), Agrees(States(g)[n - 1], ElementAt(g, n))
  PROVE  Declared(g, n)
<1> DEFINE s == States(g)[n - 1]
           t == States(g)[n]
           e == ElementAt(g, n)
<1>1. t.declarations = Declare(s, e)
  BY StateAfter
<1>2. n \in Nat /\ n # 0 /\ \A i \in 1..n : i = n \/ i \in 1..(n - 1)
  BY StatesRun DEF Places
<1>0. Agrees(s, e)
  OBVIOUS
<1>3. /\ DOMAIN t.declarations = DOMAIN s.declarations \cup {LowerCase[b.name] : b \in Uses(e)}
      /\ \A p \in DOMAIN s.declarations : t.declarations[p] = s.declarations[p]
      /\ \A b \in Uses(e) : t.declarations[LowerCase[b.name]] = TypeOf(Backing(e), b.sql)
  <2> HIDE DEF s, t, e
  <2>1. AddsTo(Declare(s, e), s.declarations, e)
    BY <1>0, DeclareAll
  <2>2. AddsTo(t.declarations, s.declarations, e)
    BY <1>1, <2>1
  <2> QED BY <2>2 DEF AddsTo
<1>4. /\ \A p \in DOMAIN s.declarations : \E i \in 1..(n - 1) : \E b \in Uses(ElementAt(g, i)) :
           p = LowerCase[b.name] /\ s.declarations[p] = TypeOf(Backing(ElementAt(g, i)), b.sql)
      /\ \A i \in 1..(n - 1) : \A b \in Uses(ElementAt(g, i)) :
           LowerCase[b.name] \in DOMAIN s.declarations
             /\ s.declarations[LowerCase[b.name]] = TypeOf(Backing(ElementAt(g, i)), b.sql)
  BY DEF Declared
<1> HIDE DEF s, t
<1>5. ASSUME NEW p \in DOMAIN t.declarations
      PROVE  \E i \in 1..n : \E b \in Uses(ElementAt(g, i)) :
               p = LowerCase[b.name] /\ t.declarations[p] = TypeOf(Backing(ElementAt(g, i)), b.sql)
  <2>1. CASE p \in DOMAIN s.declarations
    <3>1. PICK i \in 1..(n - 1) : \E b \in Uses(ElementAt(g, i)) :
            p = LowerCase[b.name] /\ s.declarations[p] = TypeOf(Backing(ElementAt(g, i)), b.sql)
      BY <1>4, <2>1
    <3>2. i \in 1..n
      BY <1>2
    <3> QED BY <1>3, <2>1, <3>1, <3>2
  <2>2. CASE p \in {LowerCase[b.name] : b \in Uses(e)}
    <3>1. PICK b \in Uses(e) : p = LowerCase[b.name]
      BY <2>2
    <3>2. n \in 1..n
      BY <1>2
    <3> QED BY <1>3, <3>1, <3>2 DEF e
  <2> QED BY <1>3, <2>1, <2>2
<1>6. ASSUME NEW i \in 1..n, NEW b \in Uses(ElementAt(g, i))
      PROVE  LowerCase[b.name] \in DOMAIN t.declarations
               /\ t.declarations[LowerCase[b.name]] = TypeOf(Backing(ElementAt(g, i)), b.sql)
  <2>1. CASE i = n
    BY <1>3, <2>1
  <2>2. CASE i \in 1..(n - 1)
    BY <1>3, <1>4, <2>2
  <2> QED BY <1>2, <2>1, <2>2
<1> QED BY <1>5, <1>6 DEF Declared, t

LEMMA LabelledNext ==
  ASSUME NEW g, IsGraph(g), NEW n \in Places(g), Labelled(g, n - 1)
  PROVE  Labelled(g, n)
<1> DEFINE s == States(g)[n - 1]
           t == States(g)[n]
           e == ElementAt(g, n)
<1>1. t.labels = AddLabels(s, e)
  BY StateAfter
<1>2. n \in Nat /\ n # 0 /\ \A i \in 1..n : i = n \/ i \in 1..(n - 1)
  BY StatesRun DEF Places
<1>3. /\ DOMAIN t.labels = DOMAIN s.labels \cup LabelKeys(e)
      /\ \A k \in DOMAIN t.labels :
           \/ k \in DOMAIN s.labels /\ t.labels[k] = s.labels[k]
           \/ \E l \in DOMAIN LabelsOf(e) : t.labels[k] = Properties(e, l)
  <2>1. e.labels \in Seq(ToSet(e.labels))
    BY DEF IsGraph
  <2> HIDE DEF s, t, e
  <2>2. /\ DOMAIN AddLabels(s, e) = DOMAIN s.labels \cup LabelKeys(e)
        /\ \A k \in DOMAIN AddLabels(s, e) :
             \/ k \in DOMAIN s.labels /\ AddLabels(s, e)[k] = s.labels[k]
             \/ \E l \in DOMAIN LabelsOf(e) : AddLabels(s, e)[k] = Properties(e, l)
    BY <2>1, AddTheLabels
  <2> QED BY <1>1, <2>2
<1>4. /\ \A i \in 1..(n - 1) : LabelKeys(ElementAt(g, i)) \subseteq DOMAIN s.labels
      /\ \A k \in DOMAIN s.labels : \E i \in 1..(n - 1) : \E l \in DOMAIN LabelsOf(ElementAt(g, i)) :
           s.labels[k] = Properties(ElementAt(g, i), l)
  BY DEF Labelled
<1> HIDE DEF s, t
<1>5. ASSUME NEW k \in DOMAIN t.labels
      PROVE  \E i \in 1..n : \E l \in DOMAIN LabelsOf(ElementAt(g, i)) : t.labels[k] = Properties(ElementAt(g, i), l)
  <2>1. CASE k \in DOMAIN s.labels /\ t.labels[k] = s.labels[k]
    <3>1. PICK i \in 1..(n - 1) : \E l \in DOMAIN LabelsOf(ElementAt(g, i)) : s.labels[k] = Properties(ElementAt(g, i), l)
      BY <1>4, <2>1
    <3>2. i \in 1..n
      BY <1>2
    <3> QED BY <2>1, <3>1, <3>2
  <2>2. CASE \E l \in DOMAIN LabelsOf(e) : t.labels[k] = Properties(e, l)
    <3>1. n \in 1..n
      BY <1>2
    <3> QED BY <2>2, <3>1
  <2> QED BY <1>3, <2>1, <2>2
<1>6. ASSUME NEW i \in 1..n PROVE LabelKeys(ElementAt(g, i)) \subseteq DOMAIN t.labels
  <2>1. CASE i = n
    BY <1>3, <2>1
  <2>2. CASE i \in 1..(n - 1)
    BY <1>3, <1>4, <2>2
  <2> QED BY <1>2, <2>1, <2>2
<1> QED BY <1>5, <1>6 DEF Labelled, t

LEMMA FoundNext ==
  ASSUME NEW g, IsGraph(g), NEW n \in Places(g), Found(g, n - 1)
  PROVE  Found(g, n)
<1> DEFINE s == States(g)[n - 1].nodeTables
           t == States(g)[n].nodeTables
<1>1. n \in Nat /\ n # 0 /\ DOMAIN g.nodes \subseteq Nat
  <2>1. n \in Nat /\ n # 0
    BY StatesRun DEF Places
  <2>2. DOMAIN g.nodes = 1..Len(g.nodes) /\ Len(g.nodes) \in Nat
    BY StatesRun
  <2> QED BY <2>1, <2>2
<1>2. /\ \A i \in DOMAIN g.nodes : i <= n - 1 => NodeNames(g, i) \subseteq DOMAIN s
      /\ \A x \in DOMAIN s : /\ s[x] \in DOMAIN g.nodes /\ s[x] <= n - 1 /\ x \in NodeNames(g, s[x])
                             /\ \A i \in DOMAIN g.nodes : i <= n - 1 /\ x \in NodeNames(g, i) => i <= s[x]
  BY DEF Found
<1>3. CASE n \in DOMAIN g.nodes
  <2>1. t = [x \in NodeNames(g, n) \cup DOMAIN s |-> IF x \in NodeNames(g, n) THEN n ELSE s[x]]
    <3> DEFINE e == ElementAt(g, n)
    <3>1. e = g.nodes[n] /\ t = [x \in {ElementName(e), e.name} \cup DOMAIN s |->
                                  IF x \in {ElementName(e), e.name} THEN n ELSE s[x]]
      BY <1>3, StateAfter
    <3>2. NodeNames(g, n) = {ElementName(e), e.name}
      BY <3>1 DEF NodeNames
    <3> HIDE DEF e, s, t
    <3> QED BY <3>1, <3>2
  <2> HIDE DEF s, t
  <2>2. DOMAIN t = NodeNames(g, n) \cup DOMAIN s
    BY <2>1
  <2>3. ASSUME NEW i \in DOMAIN g.nodes, i <= n PROVE NodeNames(g, i) \subseteq DOMAIN t
    <3>1. i = n \/ i <= n - 1
      BY <1>1, <2>3
    <3> QED BY <1>2, <2>2, <3>1
  <2>4. ASSUME NEW x \in DOMAIN t
        PROVE  /\ t[x] \in DOMAIN g.nodes /\ t[x] <= n /\ x \in NodeNames(g, t[x])
               /\ \A i \in DOMAIN g.nodes : i <= n /\ x \in NodeNames(g, i) => i <= t[x]
    <3>1. CASE x \in NodeNames(g, n)
      <4>1. t[x] = n
        BY <2>1, <3>1
      <4> QED BY <1>1, <1>3, <3>1, <4>1
    <3>2. CASE x \notin NodeNames(g, n)
      <4>1. t[x] = s[x] /\ x \in DOMAIN s
        BY <2>1, <2>2, <3>2
      <4>2. s[x] \in DOMAIN g.nodes /\ s[x] <= n - 1 /\ x \in NodeNames(g, s[x])
            /\ \A i \in DOMAIN g.nodes : i <= n - 1 /\ x \in NodeNames(g, i) => i <= s[x]
        BY <1>2, <4>1
      <4>3. \A i \in DOMAIN g.nodes : i <= n /\ x \in NodeNames(g, i) => i <= n - 1
        BY <1>1, <3>2
      <4> QED BY <1>1, <4>1, <4>2, <4>3
    <3> QED BY <3>1, <3>2
  <2> QED BY <2>3, <2>4 DEF Found, t
<1>4. CASE n \notin DOMAIN g.nodes
  <2>1. t = s
    BY <1>4, StateAfter
  <2>2. \A i \in DOMAIN g.nodes : i <= n => i <= n - 1
    BY <1>1, <1>4
  <2>3. \A x \in DOMAIN s : s[x] <= n
    BY <1>1, <1>2
  <2> HIDE DEF s, t
  <2> QED BY <1>2, <2>1, <2>2, <2>3 DEF Found, t
<1> QED BY <1>3, <1>4

\* Every element but the ones still to come is labelled and found.
LEMMA LabelledAndFound ==
  ASSUME NEW g, IsGraph(g), NEW n \in {0} \cup Places(g)
  PROVE  Labelled(g, n) /\ Found(g, n)
<1> DEFINE N == Len(g.nodes) + Len(g.edges)
           A == {m \in Nat : m <= N => Labelled(g, m) /\ Found(g, m)}
<1>1. Places(g) = 1..N /\ N \in Nat
  BY PlacesOf
<1> HIDE DEF N
<1>2. 0 \in A
  BY NothingFirst
<1>3. ASSUME NEW m \in A PROVE m + 1 \in A
  <2> SUFFICES ASSUME m + 1 <= N PROVE Labelled(g, m + 1) /\ Found(g, m + 1)
    OBVIOUS
  <2>1. m <= N /\ m + 1 \in Places(g) /\ (m + 1) - 1 = m
    BY <1>1
  <2>2. Labelled(g, (m + 1) - 1) /\ Found(g, (m + 1) - 1)
    BY <2>1
  <2> QED BY <2>1, <2>2, LabelledNext, FoundNext
<1>4. n \in Nat /\ n <= N
  BY <1>1
<1>5. n \in A
  <2> HIDE DEF A
  <2>1. \A m \in A : m \in Nat /\ m < n => m + 1 \in A
    BY <1>3
  <2> QED BY <1>2, <1>4, <2>1, UpTo
<1> QED BY <1>4, <1>5

\* Elements that all agree with what was declared before them are declared.
LEMMA DeclaredThroughout ==
  ASSUME NEW g, IsGraph(g), NEW n \in {0} \cup Places(g),
         \A m \in Places(g) : Declared(g, m - 1) /\ m <= n => Agrees(States(g)[m - 1], ElementAt(g, m))
  PROVE  Declared(g, n)
<1> DEFINE N == Len(g.nodes) + Len(g.edges)
           A == {m \in Nat : m <= n => Declared(g, m)}
<1>1. Places(g) = 1..N /\ N \in Nat
  BY PlacesOf
<1> HIDE DEF N
<1>4. n \in Nat /\ n <= N
  BY <1>1
<1>2. 0 \in A
  BY NothingFirst
<1>3. ASSUME NEW m \in A PROVE m + 1 \in A
  <2> SUFFICES ASSUME m + 1 <= n PROVE Declared(g, m + 1)
    OBVIOUS
  <2>1. m <= n /\ m + 1 \in Places(g) /\ (m + 1) - 1 = m
    BY <1>1, <1>4
  <2>2. Declared(g, (m + 1) - 1)
    BY <2>1
  <2>3. Agrees(States(g)[(m + 1) - 1], ElementAt(g, m + 1))
    BY <2>1, <2>2
  <2> QED BY <2>1, <2>2, <2>3, DeclaredNext
<1>5. n \in A
  <2> HIDE DEF A
  <2>1. \A m \in A : m \in Nat /\ m < n => m + 1 \in A
    BY <1>3
  <2> QED BY <1>2, <1>4, <2>1, UpTo
<1> QED BY <1>4, <1>5

\* An element agrees with the declarations when its properties have types that
\* are those of the elements up to it.
LEMMA AgreesIsSame ==
  ASSUME NEW g, IsGraph(g), NEW n \in Places(g), Declared(g, n - 1)
  PROVE  Agrees(States(g)[n - 1], ElementAt(g, n)) <=>
           /\ \A b \in Uses(ElementAt(g, n)) : Typeable(Backing(ElementAt(g, n)), b.sql)
           /\ \A i \in 1..n : SameTypes(ElementAt(g, i), ElementAt(g, n))
<1> DEFINE s == States(g)[n - 1]
           e == ElementAt(g, n)
<1>1. n \in Nat /\ n \in 1..n /\ \A i \in 1..n : i = n \/ i \in 1..(n - 1)
  BY StatesRun DEF Places
<1>2. /\ \A p \in DOMAIN s.declarations : \E i \in 1..(n - 1) : \E b \in Uses(ElementAt(g, i)) :
           p = LowerCase[b.name] /\ s.declarations[p] = TypeOf(Backing(ElementAt(g, i)), b.sql)
      /\ \A i \in 1..(n - 1) : \A b \in Uses(ElementAt(g, i)) :
           LowerCase[b.name] \in DOMAIN s.declarations
             /\ s.declarations[LowerCase[b.name]] = TypeOf(Backing(ElementAt(g, i)), b.sql)
  BY DEF Declared
<1>3. \A i \in 1..(n - 1) : i \in 1..n
  BY <1>1
<1> HIDE DEF s
<1>4. ASSUME Agrees(s, e)
      PROVE  /\ \A b \in Uses(e) : Typeable(Backing(e), b.sql)
             /\ \A i \in 1..n : SameTypes(ElementAt(g, i), e)
  <2> HIDE DEF e
  <2>1. /\ \A b \in Uses(e) : Typeable(Backing(e), b.sql)
        /\ \A a, b \in Uses(e) : Alike(a.name, b.name) => TypeOf(Backing(e), a.sql) = TypeOf(Backing(e), b.sql)
        /\ \A b \in Uses(e) : LowerCase[b.name] \in DOMAIN s.declarations
                              => s.declarations[LowerCase[b.name]] = TypeOf(Backing(e), b.sql)
    BY <1>4 DEF Agrees
  <2>2. SameTypes(e, e)
    BY <2>1 DEF SameTypes
  <2>3. ASSUME NEW i \in 1..(n - 1) PROVE SameTypes(ElementAt(g, i), e)
    <3> SUFFICES ASSUME NEW a \in Uses(ElementAt(g, i)), NEW b \in Uses(e), Alike(a.name, b.name)
                 PROVE  TypeOf(Backing(ElementAt(g, i)), a.sql) = TypeOf(Backing(e), b.sql)
      BY DEF SameTypes
    <3>1. LowerCase[a.name] \in DOMAIN s.declarations
          /\ s.declarations[LowerCase[a.name]] = TypeOf(Backing(ElementAt(g, i)), a.sql)
      BY <1>2
    <3> QED BY <2>1, <3>1 DEF Alike
  <2>4. SameTypes(ElementAt(g, n), e)
    BY <2>2 DEF e
  <2>5. ASSUME NEW i \in 1..n PROVE SameTypes(ElementAt(g, i), e)
    <3>1. CASE i = n
      BY <2>4, <3>1
    <3>2. CASE i \in 1..(n - 1)
      BY <2>3, <3>2
    <3> QED BY <1>1, <3>1, <3>2
  <2> QED BY <2>1, <2>5
<1>5. ASSUME \A b \in Uses(e) : Typeable(Backing(e), b.sql),
             \A i \in 1..n : SameTypes(ElementAt(g, i), e)
      PROVE  Agrees(s, e)
  <2>1. SameTypes(e, e)
    BY <1>1, <1>5
  <2> HIDE DEF e
  <2>2. \A a, b \in Uses(e) : Alike(a.name, b.name) => TypeOf(Backing(e), a.sql) = TypeOf(Backing(e), b.sql)
    BY <2>1 DEF SameTypes
  <2>3. ASSUME NEW b \in Uses(e), LowerCase[b.name] \in DOMAIN s.declarations
        PROVE  s.declarations[LowerCase[b.name]] = TypeOf(Backing(e), b.sql)
    <3>1. PICK i \in 1..(n - 1) : \E a \in Uses(ElementAt(g, i)) :
            LowerCase[b.name] = LowerCase[a.name]
              /\ s.declarations[LowerCase[b.name]] = TypeOf(Backing(ElementAt(g, i)), a.sql)
      BY <1>2, <2>3
    <3>2. SameTypes(ElementAt(g, i), e)
      BY <1>3, <1>5
    <3> QED BY <3>1, <3>2 DEF SameTypes, Alike
  <2> QED BY <1>5, <2>2, <2>3 DEF Agrees
<1> QED BY <1>4, <1>5 DEF s

\* When the nodes are all in, an edge reaches exactly the nodes of the graph.
LEMMA ReachableIsSound ==
  ASSUME NEW g, IsGraph(g), NEW n \in Places(g), n \notin DOMAIN g.nodes, NEW e, NEW endpoint
  PROVE  Reachable(States(g)[n - 1], e, endpoint) <=> SoundEndpoint(g, e, endpoint)
<1> DEFINE t == States(g)[n - 1].nodeTables
<1>1. n - 1 \in {0} \cup Places(g) /\ \A i \in DOMAIN g.nodes : i <= n - 1
  <2>1. ASSUME NEW a \in Nat, NEW b \in Nat, NEW m \in 1..(a + b), m \notin 1..a
        PROVE  m - 1 \in {0} \cup (1..(a + b)) /\ \A i \in 1..a : i <= m - 1
    BY <2>1
  <2>2. Len(g.nodes) \in Nat /\ Len(g.edges) \in Nat /\ DOMAIN g.nodes = 1..Len(g.nodes)
    BY StatesRun
  <2>3. n \in 1..(Len(g.nodes) + Len(g.edges)) /\ n \notin 1..Len(g.nodes)
    BY <2>2 DEF Places
  <2> DEFINE a == Len(g.nodes)
             b == Len(g.edges)
  <2>4. a \in Nat /\ b \in Nat /\ n \in 1..(a + b) /\ n \notin 1..a /\ DOMAIN g.nodes = 1..a /\ Places(g) = 1..(a + b)
    BY <2>2, <2>3 DEF Places
  <2> HIDE DEF a, b
  <2> QED BY <2>1, <2>4
<1>2. Found(g, n - 1)
  BY <1>1, LabelledAndFound
<1>3. \A x : x \in DOMAIN t <=> \E i \in DOMAIN g.nodes : x \in NodeNames(g, i)
  BY <1>1, <1>2 DEF Found
<1>4. \A x : x \in DOMAIN t <=> \E i \in DOMAIN g.nodes : x \in {g.nodes[i].name, ElementName(g.nodes[i])}
  BY <1>3 DEF NodeNames
<1> HIDE DEF t
<1>5. endpoint.element \in DOMAIN States(g)[n - 1].nodeTables
        <=> \E i \in DOMAIN g.nodes : endpoint.element \in {g.nodes[i].name, ElementName(g.nodes[i])}
  BY <1>4 DEF t
<1> DEFINE s == States(g)[n - 1]
<1> HIDE DEF s
<1>6. endpoint.element \in DOMAIN s.nodeTables
        <=> \E i \in DOMAIN g.nodes : endpoint.element \in {g.nodes[i].name, ElementName(g.nodes[i])}
  BY <1>5 DEF s
<1>7. Reachable(s, e, endpoint) <=> SoundEndpoint(g, e, endpoint)
  BY <1>6 DEF Reachable, SoundEndpoint
<1> QED BY <1>7 DEF s

\* The tables of the schema that the elements name are known to the catalog.
TablesAreKnown(g) ==
  \A n \in Places(g) : <<ElementAt(g, n).name>> \in DOMAIN schema.tables => <<ElementAt(g, n).name>> \in DOMAIN tablesByName

\* Whether an element fits is said of the graph, not of the state it is put into.
EndpointsAreSound(g, e) == SoundEndpoint(g, e, e.source) /\ SoundEndpoint(g, e, e.destination)
FitsUpTo(g, n) ==
  /\ SoundElement(ElementAt(g, n))
  /\ \A i \in 1..n : SameTypes(ElementAt(g, i), ElementAt(g, n))
  /\ n \notin DOMAIN g.nodes => EndpointsAreSound(g, ElementAt(g, n))
LEMMA FitsIsSound ==
  ASSUME NEW g, IsGraph(g), TablesAreKnown(g), NEW n \in Places(g), Declared(g, n - 1)
  PROVE  ElementFits(g, n) <=> FitsUpTo(g, n)
<1> DEFINE s == States(g)[n - 1]
           e == ElementAt(g, n)
           same == \A i \in 1..n : SameTypes(ElementAt(g, i), e)
<1>1. Agrees(s, e) <=> (\A b \in Uses(e) : Typeable(Backing(e), b.sql)) /\ same
  BY AgreesIsSame
<1>2. <<e.name>> \in DOMAIN schema.tables <=> Backed(e)
  BY DEF TablesAreKnown, Backed
<1>3. n \notin DOMAIN g.nodes =>
        (EndpointsAreSound(g, e) <=> Reachable(s, e, e.source) /\ Reachable(s, e, e.destination))
  BY ReachableIsSound DEF EndpointsAreSound
<1>4. ElementFits(g, n) <=> FitsNode(s, e) /\ (n \notin DOMAIN g.nodes => Reachable(s, e, e.source) /\ Reachable(s, e, e.destination))
  BY DEF ElementFits, FitsEdge
<1>5. FitsUpTo(g, n) <=> SoundElement(e) /\ same /\ (n \notin DOMAIN g.nodes => EndpointsAreSound(g, e))
  BY DEF FitsUpTo
<1> HIDE DEF s, e, same
<1>6. FitsNode(s, e) <=> SoundElement(e) /\ same
  <2> DEFINE columns == HasColumns(Backing(e), KeyColumns(Backing(e), e.key))
             typed == \A b \in Uses(e) : Typeable(Backing(e), b.sql)
  <2>1. FitsNode(s, e) <=> Backed(e) /\ columns /\ Agrees(s, e)
    BY DEF FitsNode
  <2>2. SoundElement(e) <=> <<e.name>> \in DOMAIN schema.tables /\ columns /\ typed
    BY DEF SoundElement
  <2>3. Agrees(s, e) <=> typed /\ same
    BY <1>1
  <2> HIDE DEF columns, typed
  <2> QED BY <1>2, <2>1, <2>2, <2>3
<1> QED BY <1>3, <1>4, <1>5, <1>6

\* A graph is taken when it is sound, and all it declares is then declared.
LEMMA AcceptedIsSound ==
  ASSUME NEW g, IsGraph(g), TablesAreKnown(g)
  PROVE  /\ Accepted(g) <=> SoundGraph(g)
         /\ Accepted(g) => \A n \in {0} \cup Places(g) : Declared(g, n)
<1>1. /\ \A n \in Places(g) : n \in Nat /\ n - 1 \in {0} \cup Places(g) /\ n \in 1..n
      /\ \A n \in Places(g) : \A i \in 1..n : i \in Places(g)
      /\ \A i, j \in Places(g) : i \in 1..j \/ j \in 1..i
  <2>1. ASSUME NEW a \in Nat, NEW b \in Nat
        PROVE /\ \A n \in 1..(a + b) : n \in Nat /\ n - 1 \in {0} \cup (1..(a + b)) /\ n \in 1..n
              /\ \A n \in 1..(a + b) : \A i \in 1..n : i \in 1..(a + b)
              /\ \A i, j \in 1..(a + b) : i \in 1..j \/ j \in 1..i
    OBVIOUS
  <2> QED BY <2>1, StatesRun DEF Places
<1>2. ASSUME \A n \in Places(g) : Declared(g, n - 1) => Agrees(States(g)[n - 1], ElementAt(g, n))
      PROVE  \A n \in {0} \cup Places(g) : Declared(g, n)
  BY <1>2, DeclaredThroughout
<1>3. ASSUME NEW n \in Places(g), ElementFits(g, n) PROVE Agrees(States(g)[n - 1], ElementAt(g, n))
  BY <1>3 DEF ElementFits, FitsEdge, FitsNode
<1>4. ASSUME NEW n \in Places(g), FitsUpTo(g, n), Declared(g, n - 1) PROVE Agrees(States(g)[n - 1], ElementAt(g, n))
  BY <1>4, AgreesIsSame DEF FitsUpTo, SoundElement
<1>5. (\A n \in Places(g) : ElementFits(g, n)) => \A n \in {0} \cup Places(g) : Declared(g, n)
  BY <1>2, <1>3
<1>6. (\A n \in Places(g) : ElementFits(g, n)) <=> \A n \in Places(g) : FitsUpTo(g, n)
  <2>1. ASSUME \A n \in Places(g) : ElementFits(g, n), NEW n \in Places(g) PROVE FitsUpTo(g, n)
    BY <1>1, <1>5, <2>1, FitsIsSound
  <2>2. ASSUME \A n \in Places(g) : FitsUpTo(g, n), NEW n \in Places(g) PROVE ElementFits(g, n)
    <3>1. \A m \in {0} \cup Places(g) : Declared(g, m)
      BY <1>2, <1>4, <2>2
    <3> QED BY <1>1, <2>2, <3>1, FitsIsSound
  <2> QED BY <2>1, <2>2
<1>7. (\A i \in DOMAIN g.edges : \A endpoint \in {g.edges[i].source, g.edges[i].destination} : SoundEndpoint(g, g.edges[i], endpoint))
        <=> \A n \in Places(g) : n \notin DOMAIN g.nodes => EndpointsAreSound(g, ElementAt(g, n))
  <2>1. /\ \A n \in Places(g) : n \notin DOMAIN g.nodes => n - Len(g.nodes) \in DOMAIN g.edges /\ ElementAt(g, n) = g.edges[n - Len(g.nodes)]
        /\ \A i \in DOMAIN g.edges : /\ i + Len(g.nodes) \in Places(g) /\ i + Len(g.nodes) \notin DOMAIN g.nodes
                                     /\ ElementAt(g, i + Len(g.nodes)) = g.edges[i]
    BY PlacesOf
  <2>2. \A e : EndpointsAreSound(g, e) <=> \A endpoint \in {e.source, e.destination} : SoundEndpoint(g, e, endpoint)
    BY DEF EndpointsAreSound
  <2> DEFINE Sound1(e) == EndpointsAreSound(g, e)
  <2>3. (\A i \in DOMAIN g.edges : \A endpoint \in {g.edges[i].source, g.edges[i].destination} : SoundEndpoint(g, g.edges[i], endpoint))
          <=> \A i \in DOMAIN g.edges : Sound1(g.edges[i])
    BY <2>2
  <2> HIDE DEF Sound1
  <2>4. ASSUME \A i \in DOMAIN g.edges : Sound1(g.edges[i]), NEW n \in Places(g), n \notin DOMAIN g.nodes
        PROVE  Sound1(ElementAt(g, n))
    BY <2>1, <2>4
  <2>5. ASSUME \A n \in Places(g) : n \notin DOMAIN g.nodes => Sound1(ElementAt(g, n)), NEW i \in DOMAIN g.edges
        PROVE  Sound1(g.edges[i])
    <3>1. /\ i + Len(g.nodes) \in Places(g) /\ i + Len(g.nodes) \notin DOMAIN g.nodes
          /\ ElementAt(g, i + Len(g.nodes)) = g.edges[i]
      BY <2>1
    <3>2. Sound1(ElementAt(g, i + Len(g.nodes)))
      BY <2>5, <3>1
    <3> QED BY <3>1, <3>2
  <2>6. (\A i \in DOMAIN g.edges : Sound1(g.edges[i])) <=> \A n \in Places(g) : n \notin DOMAIN g.nodes => Sound1(ElementAt(g, n))
    BY <2>4, <2>5
  <2> QED BY <2>3, <2>6 DEF Sound1
<1>8. ASSUME NEW e, NEW f, SameTypes(e, f) PROVE SameTypes(f, e)
  BY <1>8 DEF SameTypes, Alike
<1>9. (\A i, j \in Places(g) : SameTypes(ElementAt(g, i), ElementAt(g, j)))
        <=> \A n \in Places(g) : \A i \in 1..n : SameTypes(ElementAt(g, i), ElementAt(g, n))
  BY <1>1, <1>8
<1>10. (\A n \in Places(g) : FitsUpTo(g, n)) <=>
         /\ \A n \in Places(g) : SoundElement(ElementAt(g, n))
         /\ \A n \in Places(g) : \A i \in 1..n : SameTypes(ElementAt(g, i), ElementAt(g, n))
         /\ \A n \in Places(g) : n \notin DOMAIN g.nodes => EndpointsAreSound(g, ElementAt(g, n))
  BY DEF FitsUpTo
<1>11. Accepted(g) <=> SoundGraph(g)
  BY <1>6, <1>7, <1>9, <1>10 DEF Accepted, SoundGraph
<1>12. Accepted(g) => \A n \in Places(g) : ElementFits(g, n)
  BY DEF Accepted
<1> QED BY <1>5, <1>11, <1>12

\* What is known of an element of the completed graph: where it comes from.
MadeOf(x, g, e) ==
  /\ x.over = <<e.name>> /\ x.input = InputTable(e) /\ x.labels = LabelKeys(e) /\ x.definitions = Definitions(e)
  /\ \A r \in {x.source, x.destination} \ {Nothing} : \E endpoint :
       /\ SoundEndpoint(g, e, endpoint) /\ endpoint # Nothing
       /\ r.node = Final(g).nodeTables[endpoint.element] /\ r.target = <<endpoint.element>>
LEMMA ElementOf ==
  ASSUME NEW g, NEW e, NEW a, NEW b, SoundEndpoint(g, e, a), SoundEndpoint(g, e, b)
  PROVE  MadeOf(Element(Final(g), e, a, b), g, e)
<1> DEFINE s == Final(g)
           x == Element(s, e, a, b)
<1>1. /\ x.over = <<e.name>> /\ x.input = InputTable(e) /\ x.labels = LabelKeys(e) /\ x.definitions = Definitions(e)
      /\ x.source = Reference(s, e, a) /\ x.destination = Reference(s, e, b)
  BY DEF Element
<1> HIDE DEF s, x
<1>2. ASSUME NEW c PROVE /\ c = Nothing => Reference(s, e, c) = Nothing
                         /\ c # Nothing => Reference(s, e, c).node = s.nodeTables[c.element] /\ Reference(s, e, c).target = <<c.element>>
  BY DEF Reference
<1>3. ASSUME NEW r \in {x.source, x.destination} \ {Nothing}
      PROVE  \E endpoint : /\ SoundEndpoint(g, e, endpoint) /\ endpoint # Nothing
                           /\ r.node = s.nodeTables[endpoint.element] /\ r.target = <<endpoint.element>>
  <2>1. CASE r = Reference(s, e, a)
    BY <1>2, <2>1
  <2>2. CASE r = Reference(s, e, b)
    BY <1>2, <2>2
  <2> QED BY <1>1, <2>1, <2>2
<1> QED BY <1>1, <1>3 DEF MadeOf, s, x

LEMMA CompleteIsMade ==
  ASSUME NEW g, IsGraph(g), SoundGraph(g)
  PROVE  LET h == Complete(g)
         IN  /\ h.name = g.name /\ h.declarations = Final(g).declarations /\ h.labels = Final(g).labels
             /\ DOMAIN h.nodes = DOMAIN g.nodes
             /\ \A i \in DOMAIN g.nodes : h.nodes[i].name = ElementName(g.nodes[i]) /\ h.nodes[i].over = <<g.nodes[i].name>>
             /\ \A x \in Elements(h) : \E n \in Places(g) : MadeOf(x, g, ElementAt(g, n))
<1> DEFINE h == Complete(g)
           s == Final(g)
<1>1. /\ h.name = g.name /\ h.declarations = s.declarations /\ h.labels = s.labels
      /\ h.nodes = [i \in DOMAIN g.nodes |-> NodeElement(s, g.nodes[i])]
      /\ h.edges = [i \in DOMAIN g.edges |-> EdgeElement(s, g.edges[i])]
  BY DEF Complete
<1> HIDE DEF h
<1>2. ASSUME NEW i \in DOMAIN g.nodes
      PROVE  h.nodes[i].name = ElementName(g.nodes[i]) /\ h.nodes[i].over = <<g.nodes[i].name>>
  <2>1. h.nodes[i] = NodeElement(s, g.nodes[i])
    BY <1>1
  <2> HIDE DEF s
  <2>2. h.nodes[i] = Element(s, g.nodes[i], Nothing, Nothing)
    BY <2>1 DEF NodeElement
  <2>3. /\ Element(s, g.nodes[i], Nothing, Nothing).name = ElementName(g.nodes[i])
        /\ Element(s, g.nodes[i], Nothing, Nothing).over = <<g.nodes[i].name>>
    BY DEF Element
  <2> QED BY <2>2, <2>3
<1>3. ASSUME NEW i \in DOMAIN g.nodes PROVE \E n \in Places(g) : MadeOf(h.nodes[i], g, ElementAt(g, n))
  <2>1. i \in Places(g) /\ ElementAt(g, i) = g.nodes[i]
    BY PlacesOf
  <2>2. SoundEndpoint(g, g.nodes[i], Nothing)
    BY DEF SoundEndpoint
  <2>3. MadeOf(Element(Final(g), g.nodes[i], Nothing, Nothing), g, g.nodes[i])
    BY <2>2, ElementOf
  <2>4. h.nodes[i] = Element(Final(g), g.nodes[i], Nothing, Nothing)
    BY <1>1 DEF NodeElement
  <2> QED BY <2>1, <2>3, <2>4
<1>4. ASSUME NEW i \in DOMAIN g.edges PROVE \E n \in Places(g) : MadeOf(h.edges[i], g, ElementAt(g, n))
  <2> DEFINE e == g.edges[i]
  <2>1. i + Len(g.nodes) \in Places(g) /\ ElementAt(g, i + Len(g.nodes)) = e
    BY PlacesOf
  <2>2. SoundEndpoint(g, e, e.source) /\ SoundEndpoint(g, e, e.destination)
    BY DEF SoundGraph
  <2>3. MadeOf(Element(Final(g), e, e.source, e.destination), g, e)
    BY <2>2, ElementOf
  <2>4. h.edges[i] = Element(Final(g), e, e.source, e.destination)
    BY <1>1 DEF EdgeElement
  <2> QED BY <2>1, <2>3, <2>4
<1>5. \A x \in Elements(h) : \E n \in Places(g) : MadeOf(x, g, ElementAt(g, n))
  <2>1. DOMAIN h.nodes = DOMAIN g.nodes /\ DOMAIN h.edges = DOMAIN g.edges
    BY <1>1
  <2> QED BY <1>3, <1>4, <2>1 DEF Elements
<1>6. DOMAIN h.nodes = DOMAIN g.nodes
  BY <1>1
<1> QED BY <1>1, <1>2, <1>5, <1>6 DEF h

\* What an element defines, one of its labels binds.
LEMMA DefinitionsAreUses ==
  ASSUME NEW e, NEW d \in Definitions(e)
  PROVE  \E b \in Uses(e) : d.property = LowerCase[b.name] /\ d.sql = b.sql
<1> DEFINE places == UNION {{<<l, i>> : i \in DOMAIN BindingsOf(e, l)} : l \in DOMAIN LabelsOf(e)}
           at(x) == BindingsOf(e, x[1])[x[2]]
<1>1. PICK x \in places : d = [property |-> LowerCase[at(x).name], sql |-> at(x).sql]
  BY DEF Definitions
<1>2. PICK l \in DOMAIN LabelsOf(e) : \E i \in DOMAIN BindingsOf(e, l) : x = <<l, i>>
  OBVIOUS
<1>3. PICK i \in DOMAIN BindingsOf(e, l) : x = <<l, i>>
  BY <1>2
<1>4. at(x) = BindingsOf(e, l)[i]
  BY <1>3
<1>5. at(x) \in Uses(e)
  BY <1>4 DEF Uses, ToSet
<1> HIDE DEF at
<1> QED BY <1>1, <1>5

LEMMA PropertiesAreUses ==
  ASSUME NEW e, NEW l \in DOMAIN LabelsOf(e), NEW p \in Properties(e, l)
  PROVE  \E b \in Uses(e) : p = LowerCase[b.name]
BY DEF Properties, Uses

LEMMA CompleteIsClosed == ASSUME NEW g, IsGraph(g), TablesAreKnown(g), Accepted(g) PROVE Closed(Complete(g))
<1> DEFINE h == Complete(g)
           s == Final(g)
<1>1. SoundGraph(g)
  BY AcceptedIsSound
<1>3. PICK N \in Nat : Places(g) = 1..N /\ N \in {0} \cup Places(g) /\ s = States(g)[N]
  BY FinalOf
<1>4. Declared(g, N) /\ Labelled(g, N)
  <2> HIDE DEF s
  <2> QED BY <1>3, AcceptedIsSound, LabelledAndFound
<1>5. /\ h.declarations = s.declarations /\ h.labels = s.labels
      /\ \A x \in Elements(h) : \E n \in Places(g) : MadeOf(x, g, ElementAt(g, n))
  BY <1>1, CompleteIsMade
<1> HIDE DEF h
<1>6. \A i \in Places(g) : \A b \in Uses(ElementAt(g, i)) :
        LowerCase[b.name] \in DOMAIN s.declarations
          /\ s.declarations[LowerCase[b.name]] = TypeOf(Backing(ElementAt(g, i)), b.sql)
  <2> HIDE DEF s
  <2> QED BY <1>3, <1>4 DEF Declared
<1>7. /\ \A i \in Places(g) : LabelKeys(ElementAt(g, i)) \subseteq DOMAIN s.labels
      /\ \A k \in DOMAIN s.labels : \E i \in Places(g) : \E l \in DOMAIN LabelsOf(ElementAt(g, i)) :
           s.labels[k] = Properties(ElementAt(g, i), l)
  <2> HIDE DEF s
  <2> QED BY <1>3, <1>4 DEF Labelled
<1> HIDE DEF s
<1>8. ASSUME NEW k \in DOMAIN s.labels PROVE s.labels[k] \subseteq DOMAIN s.declarations
  <2>1. PICK i \in Places(g) : \E l \in DOMAIN LabelsOf(ElementAt(g, i)) : s.labels[k] = Properties(ElementAt(g, i), l)
    BY <1>7
  <2> DEFINE e == ElementAt(g, i)
  <2>2. PICK l \in DOMAIN LabelsOf(e) : s.labels[k] = Properties(e, l)
    BY <2>1
  <2>3. \A b \in Uses(e) : LowerCase[b.name] \in DOMAIN s.declarations
    BY <1>6
  <2> HIDE DEF e
  <2> QED BY <2>2, <2>3, PropertiesAreUses
<1>9. ASSUME NEW x \in Elements(h)
      PROVE  /\ \A d \in x.definitions : d.property \in DOMAIN s.declarations
                  /\ s.declarations[d.property] = TypeOf(schema.tables[x.over], d.sql)
             /\ x.labels \subseteq DOMAIN s.labels
             /\ \A l \in x.labels : s.labels[l] \subseteq DOMAIN s.declarations
  <2>1. PICK n \in Places(g) : MadeOf(x, g, ElementAt(g, n))
    BY <1>5
  <2> DEFINE e == ElementAt(g, n)
  <2>2. /\ LabelKeys(e) \subseteq DOMAIN s.labels
        /\ \A b \in Uses(e) : LowerCase[b.name] \in DOMAIN s.declarations
             /\ s.declarations[LowerCase[b.name]] = TypeOf(Backing(e), b.sql)
    BY <1>6, <1>7
  <2>3. x.over = <<e.name>> /\ x.labels = LabelKeys(e) /\ x.definitions = Definitions(e)
    BY <2>1 DEF MadeOf
  <2> HIDE DEF e
  <2>4. schema.tables[x.over] = Backing(e)
    BY <2>3 DEF Backing
  <2>5. ASSUME NEW d \in x.definitions
        PROVE  d.property \in DOMAIN s.declarations /\ s.declarations[d.property] = TypeOf(schema.tables[x.over], d.sql)
    <3>1. PICK b \in Uses(e) : d.property = LowerCase[b.name] /\ d.sql = b.sql
      BY <2>3, DefinitionsAreUses
    <3> QED BY <2>2, <2>4, <3>1
  <2> QED BY <1>8, <2>2, <2>3, <2>5
<1>10. Closed(h)
  BY <1>5, <1>9 DEF Closed
<1> QED BY <1>10 DEF h

LEMMA CompleteEdgesMatch == ASSUME NEW g, IsGraph(g), SoundGraph(g) PROVE EdgesMatch(Complete(g))
<1> DEFINE h == Complete(g)
           t == Final(g).nodeTables
<1>3. PICK N \in Nat : /\ Places(g) = 1..N /\ N \in {0} \cup Places(g) /\ Final(g) = States(g)[N]
                       /\ \A i \in DOMAIN g.nodes : i \in Nat /\ i <= N
  BY FinalOf
<1>4. Found(g, N)
  BY <1>3, LabelledAndFound
<1>5. /\ DOMAIN h.nodes = DOMAIN g.nodes
      /\ \A i \in DOMAIN g.nodes : h.nodes[i].name = ElementName(g.nodes[i]) /\ h.nodes[i].over = <<g.nodes[i].name>>
      /\ \A x \in Elements(h) : \E n \in Places(g) : MadeOf(x, g, ElementAt(g, n))
  BY CompleteIsMade
<1>6. \A x : (\E i \in DOMAIN g.nodes : x \in NodeNames(g, i)) =>
                 /\ t[x] \in DOMAIN g.nodes /\ x \in NodeNames(g, t[x])
                 /\ \A i \in DOMAIN g.nodes : x \in NodeNames(g, i) => i <= t[x]
  BY <1>3, <1>4 DEF Found
<1> HIDE DEF h, t
<1>7. ASSUME NEW x \in Elements(h), NEW r \in {x.source, x.destination} \ {Nothing}
      PROVE  \/ h.nodes[r.node].over = r.target
             \/ <<h.nodes[r.node].name>> = r.target /\ \A i \in DOMAIN h.nodes : h.nodes[i].over = r.target => i < r.node
  <2>1. PICK n \in Places(g) : MadeOf(x, g, ElementAt(g, n))
    BY <1>5
  <2> DEFINE e == ElementAt(g, n)
  <2>2. PICK endpoint : /\ SoundEndpoint(g, e, endpoint) /\ endpoint # Nothing
                        /\ r.node = Final(g).nodeTables[endpoint.element] /\ r.target = <<endpoint.element>>
    BY <2>1 DEF MadeOf
  <2> DEFINE name == endpoint.element
             k == r.node
  <2>3. \E i \in DOMAIN g.nodes : name \in NodeNames(g, i)
    <3>1. \E i \in DOMAIN g.nodes : name \in {g.nodes[i].name, ElementName(g.nodes[i])}
      BY <2>2 DEF SoundEndpoint
    <3> QED BY <3>1 DEF NodeNames
  <2>4. k = t[name] /\ r.target = <<name>>
    BY <2>2 DEF t
  <2> HIDE DEF name, k
  <2>5. /\ k \in DOMAIN g.nodes /\ name \in NodeNames(g, k)
        /\ \A i \in DOMAIN g.nodes : name \in NodeNames(g, i) => i <= k
    BY <1>6, <2>3, <2>4
  <2>6. h.nodes[k].name = ElementName(g.nodes[k]) /\ h.nodes[k].over = <<g.nodes[k].name>>
    BY <1>5, <2>5
  <2>7. CASE name = g.nodes[k].name
    BY <2>4, <2>6, <2>7 DEF k
  <2>8. CASE name # g.nodes[k].name
    <3>1. name = ElementName(g.nodes[k])
      BY <2>5, <2>8 DEF NodeNames
    <3>2. ASSUME NEW i \in DOMAIN h.nodes, h.nodes[i].over = <<name>> PROVE i < k
      <4>1. i \in DOMAIN g.nodes /\ g.nodes[i].name = name
        <5>1. <<g.nodes[i].name>> = <<name>>
          BY <1>5, <3>2
        <5> QED BY <1>5, <5>1
      <4>2. i <= k /\ i # k
        BY <2>5, <2>8, <4>1 DEF NodeNames
      <4>3. i \in Nat /\ k \in Nat
        BY <1>3, <2>5, <4>1
      <4> QED BY <4>2, <4>3
    <3> QED BY <2>4, <2>6, <3>1, <3>2 DEF k
  <2> QED BY <2>7, <2>8
<1>8. EdgesMatch(h)
  BY <1>7 DEF EdgesMatch
<1> QED BY <1>8 DEF h

\* The tables known to the catalog are found under their own names, unless
\* two of them have the same last name.
TablesAreOwn == \A p \in DOMAIN schema.tables : p \in DOMAIN tablesByName => tablesByName[p] = p
LEMMA CompleteOwnsTables ==
  ASSUME NEW g, IsGraph(g), TablesAreKnown(g), SoundGraph(g), TablesAreOwn PROVE OwnTables(Complete(g))
<1> DEFINE h == Complete(g)
<1>1. \A x \in Elements(h) : \E n \in Places(g) : MadeOf(x, g, ElementAt(g, n))
  BY CompleteIsMade
<1> HIDE DEF h
<1>2. ASSUME NEW x \in Elements(h) PROVE x.input = x.over
  <2>1. PICK n \in Places(g) : MadeOf(x, g, ElementAt(g, n))
    BY <1>1
  <2> DEFINE e == ElementAt(g, n)
  <2>2. <<e.name>> \in DOMAIN schema.tables /\ <<e.name>> \in DOMAIN tablesByName
    BY DEF SoundGraph, SoundElement, TablesAreKnown
  <2>3. x.input = InputTable(e) /\ x.over = <<e.name>>
    BY <2>1 DEF MadeOf
  <2> HIDE DEF e
  <2> QED BY <2>2, <2>3 DEF InputTable, TablesAreOwn
<1>3. OwnTables(h)
  BY <1>2 DEF OwnTables
<1> QED BY <1>3 DEF h

\* A graph of the schema is a graph whose elements can be counted.
LEMMA GraphsFromDDL ==
  ASSUME schema \in Schemas, NEW i \in DOMAIN schema.graphs
  PROVE  IsGraph(GraphFromDDL(schema.graphs[i])) /\ GraphFromDDL(schema.graphs[i]).name = schema.graphs[i].name
<1> DEFINE d == schema.graphs[i]
           g == GraphFromDDL(d)
<1>1. d \in ToSet(schema.graphs)
  BY DEF ToSet
<1>2. /\ d.nodes \in Seq(ToSet(d.nodes)) /\ d.edges \in Seq(ToSet(d.edges))
      /\ \A e \in ToSet(d.nodes) \cup ToSet(d.edges) : e.clause \in Seq(ToSet(e.clause))
  <2> HIDE DEF d
  <2> QED BY <1>1, SchemaShape
<1> HIDE DEF d
<1>3. /\ g.name = d.name
      /\ g.nodes = [j \in DOMAIN d.nodes |-> ElementFromDDL(d.nodes[j])]
      /\ g.edges = [j \in DOMAIN d.edges |-> ElementFromDDL(d.edges[j])]
  BY DEF GraphFromDDL
<1> HIDE DEF g
<1>4. g.nodes \in Seq(ToSet(g.nodes)) /\ g.edges \in Seq(ToSet(g.edges))
  <2>1. DOMAIN g.nodes = DOMAIN d.nodes /\ g.nodes = [j \in DOMAIN d.nodes |-> g.nodes[j]]
    BY <1>3
  <2>2. DOMAIN g.edges = DOMAIN d.edges /\ g.edges = [j \in DOMAIN d.edges |-> g.edges[j]]
    BY <1>3
  <2> QED BY <1>2, <2>1, <2>2, MappedList
<1>5. ASSUME NEW e, e.clause \in Seq(ToSet(e.clause))
      PROVE  ElementFromDDL(e).labels \in Seq(ToSet(ElementFromDDL(e).labels))
  <2> DEFINE l == ElementFromDDL(e).labels
             c == e.clause
  <2>1. l = [j \in DOMAIN c |-> LabelFromDDL(c[j])]
    BY DEF ElementFromDDL
  <2>2. c \in Seq(ToSet(c))
    BY <1>5
  <2> HIDE DEF l, c
  <2>3. DOMAIN l = DOMAIN c /\ l = [j \in DOMAIN c |-> l[j]]
    BY <2>1
  <2>4. l \in Seq(ToSet(l))
    BY <2>2, <2>3, MappedList
  <2> QED BY <2>4 DEF l
<1>6. ASSUME NEW n \in Places(g) PROVE ElementAt(g, n).labels \in Seq(ToSet(ElementAt(g, n).labels))
  <2>1. \E e \in ToSet(d.nodes) \cup ToSet(d.edges) : ElementAt(g, n) = ElementFromDDL(e)
    <3>1. CASE n \in DOMAIN g.nodes
      <4>1. ElementAt(g, n) = ElementFromDDL(d.nodes[n]) /\ n \in DOMAIN d.nodes
        BY <1>3, <3>1 DEF ElementAt
      <4> QED BY <4>1 DEF ToSet
    <3>2. CASE n \notin DOMAIN g.nodes
      <4> DEFINE a == Len(g.nodes)
                 b == Len(g.edges)
      <4>1. a \in Nat /\ b \in Nat /\ DOMAIN g.nodes = 1..a /\ DOMAIN g.edges = 1..b
        BY <1>4
      <4>5. n \in 1..(a + b)
        BY DEF Places
      <4>2. ElementAt(g, n) = g.edges[n - a]
        BY <3>2 DEF ElementAt
      <4> HIDE DEF a, b
      <4>3. n - a \in DOMAIN g.edges
        BY <3>2, <4>1, <4>5
      <4>4. n - a \in DOMAIN d.edges /\ g.edges[n - a] = ElementFromDDL(d.edges[n - a])
        BY <1>3, <4>3
      <4> QED BY <4>2, <4>4 DEF ToSet
    <3> QED BY <3>1, <3>2
  <2> QED BY <1>2, <1>5, <2>1
<1>7. IsGraph(g)
  BY <1>4, <1>6 DEF IsGraph
<1> QED BY <1>3, <1>7 DEF d, g

-----------------------------------------------------------------------------

\* How far the schema's relations have been added, and under which conditions.
AddedSoFar ==
  /\ Registered \subseteq Relations
  /\ stage = "tables" => Registered = DOMAIN schema.tables \ unregistered /\ unregistered \subseteq DOMAIN schema.tables
  /\ stage \in {"sequences", "models", "functions"} => Registered = DOMAIN schema.tables
  /\ stage = "views" => Registered = Relations \ unregistered /\ unregistered \subseteq DOMAIN schema.views
  /\ stage \in {"graphs", "built"} => Registered = Relations
RelationsFit ==
  /\ NativeNames = UNION {NamesOf(p) : p \in Registered}
  /\ Distinguished(NativeNames)
  /\ \A p, q \in Registered : p # q => NamesOf(p) \cap NamesOf(q) = {}
  /\ \A p \in Registered : AllConvertible(Relation(p).columns) /\ OwnNamesDiffer(p)
ParentsOf(S) == UNION {Parents(p) : p \in S}
CatalogsFit ==
  /\ stage \in {"tables", "sequences", "models", "functions"} => catalogs = ParentsOf(Registered)
  /\ stage \in {"views", "graphs", "built"} => catalogs = ParentsOf(Registered) \cup FunctionParents
  /\ Distinguished(catalogs)
\* Of some views that are not all still to be added there is one that reads none of them.
ViewsFit ==
  \A V \in SUBSET DOMAIN schema.views :
    V \cap Registered # {} => \E v \in V : schema.views[v].reads \subseteq Relations \ V
OthersFit ==
  /\ stage \in {"models", "functions", "views", "graphs", "built"} => SequencesFit
  /\ stage \in {"functions", "views", "graphs", "built"} => ModelsFit
  /\ stage \in {"views", "graphs", "built"} =>
       /\ Distinguished(DOMAIN schema.functions)
       /\ \A f \in DOMAIN schema.functions : schema.functions[f] \subseteq Convertible
\* A borrowed table is found by its path, and otherwise by its last name.
TablesByName ==
  /\ \A p \in Registered : NeedsBorrowedTable(p) => p \in DOMAIN tablesByName
  /\ \A n \in DOMAIN tablesByName : tablesByName[n] \in Relations /\ (n = tablesByName[n] \/ n = <<Last(tablesByName[n])>>)
\* The graphs so far are those of the schema, sound and as its elements say.
GraphsSoFar ==
  /\ graphs \in Seq(ToSet(graphs)) /\ Len(graphs) <= Len(schema.graphs)
  /\ stage = "built" => Len(graphs) = Len(schema.graphs)
  /\ \A i \in DOMAIN graphs :
       /\ SoundGraph(GraphFromDDL(schema.graphs[i])) /\ graphs[i].name = schema.graphs[i].name
       /\ EdgesMatch(graphs[i]) /\ Closed(graphs[i]) /\ (LastNamesDiffer => OwnTables(graphs[i]))
  /\ \A i, j \in DOMAIN graphs : Alike(graphs[i].name, graphs[j].name) => i = j

Stages == {"tables", "sequences", "models", "functions", "views", "graphs", "built", "failed"}
NativeInv ==
  /\ schema \in Schemas /\ stage \in Stages
  /\ stage = "failed" => ~Sound
  /\ AddedSoFar /\ RelationsFit /\ CatalogsFit /\ ViewsFit /\ OthersFit /\ TablesByName /\ GraphsSoFar


-----------------------------------------------------------------------------
(* What the schema says does not change. *)

LEMMA SameRelations ==
  ASSUME schema' = schema
  PROVE  /\ Relations' = Relations /\ FunctionParents' = FunctionParents
         /\ \A p : Relation(p)' = Relation(p) /\ NamesOf(p)' = NamesOf(p)
         /\ \A p : (OwnNamesDiffer(p)' <=> OwnNamesDiffer(p)) /\ (NeedsBorrowedTable(p)' <=> NeedsBorrowedTable(p))
BY DEF Relations, FunctionParents, Relation, NamesOf, OwnNamesDiffer, NeedsBorrowedTable

LEMMA SameOthers ==
  ASSUME schema' = schema
  PROVE  (SequencesFit' <=> SequencesFit) /\ (ModelsFit' <=> ModelsFit) /\ (LastNamesDiffer' <=> LastNamesDiffer)
BY SameRelations DEF SequencesFit, ModelsFit, LastNamesDiffer

LEMMA SameGraphs ==
  ASSUME schema' = schema, NEW g
  PROVE  (SoundGraph(g)' <=> SoundGraph(g)) /\ (Closed(g)' <=> Closed(g))
<1>1. \A e : Backing(e)' = Backing(e)
  BY DEF Backing
<1>2. \A e, l : BindingsOf(e, l)' = BindingsOf(e, l)
  BY <1>1 DEF BindingsOf
<1>3. \A e : Uses(e)' = Uses(e)
  BY <1>2 DEF Uses
<1>4. \A e : SoundElement(e)' <=> SoundElement(e)
  BY <1>1, <1>3 DEF SoundElement
<1>5. \A e, f : SameTypes(e, f)' <=> SameTypes(e, f)
  BY <1>1, <1>3 DEF SameTypes
<1>6. \A e, endpoint : SoundEndpoint(g, e, endpoint)' <=> SoundEndpoint(g, e, endpoint)
  BY <1>1 DEF SoundEndpoint
<1>7. SoundGraph(g)' <=> SoundGraph(g)
  BY <1>4, <1>5, <1>6 DEF SoundGraph
<1>8. Closed(g)' <=> Closed(g)
  BY DEF Closed
<1> QED BY <1>7, <1>8

LEMMA SameSound == ASSUME schema' = schema PROVE Sound' <=> Sound
<1>1. Relations' = Relations /\ \A p : Relation(p)' = Relation(p) /\ NamesOf(p)' = NamesOf(p) /\ (OwnNamesDiffer(p)' <=> OwnNamesDiffer(p))
  BY SameRelations
<1>2. (SequencesFit' <=> SequencesFit) /\ (ModelsFit' <=> ModelsFit)
  BY SameOthers
<1>3. (\A i \in DOMAIN schema.graphs : SoundGraph(GraphFromDDL(schema.graphs[i])))'
        <=> \A i \in DOMAIN schema.graphs : SoundGraph(GraphFromDDL(schema.graphs[i]))
  BY SameGraphs
<1>4. ViewsAreGrounded' <=> ViewsAreGrounded
  BY <1>1 DEF ViewsAreGrounded
<1>5. UNION {NamesOf(p) : p \in Relations}' = UNION {NamesOf(p) : p \in Relations}
  BY <1>1
<1>6. (\A p, q \in Relations : p # q => NamesOf(p) \cap NamesOf(q) = {})' <=> \A p, q \in Relations : p # q => NamesOf(p) \cap NamesOf(q) = {}
  BY <1>1
<1>7. (\A p \in Relations : AllConvertible(Relation(p).columns) /\ OwnNamesDiffer(p))'
        <=> \A p \in Relations : AllConvertible(Relation(p).columns) /\ OwnNamesDiffer(p)
  BY <1>1
<1> QED BY <1>1, <1>2, <1>3, <1>4, <1>5, <1>6, <1>7 DEF Sound

-----------------------------------------------------------------------------
(* The steps *)

LEMMA FewerDistinguished == ASSUME NEW S, NEW T, S \subseteq T, Distinguished(T) PROVE Distinguished(S)
BY DEF Distinguished

LEMMA KeepRelations ==
  ASSUME NativeInv, UNCHANGED <<schema, registered, tablesByName>>
  PROVE  /\ Relations' = Relations /\ Registered' = Registered /\ ParentsOf(Registered)' = ParentsOf(Registered)
         /\ RelationsFit' /\ ViewsFit' /\ TablesByName'
<1>1. Registered' = Registered /\ NativeNames' = NativeNames
  BY DEF Registered, NativeNames
<1>2. Relations' = Relations /\ \A p : Relation(p)' = Relation(p) /\ NamesOf(p)' = NamesOf(p)
      /\ (OwnNamesDiffer(p)' <=> OwnNamesDiffer(p)) /\ (NeedsBorrowedTable(p)' <=> NeedsBorrowedTable(p))
  BY SameRelations
<1>3. RelationsFit'
  <2> USE DEF NativeInv
  <2>1. NativeNames' = UNION {NamesOf(p)' : p \in Registered'} /\ Distinguished(NativeNames)'
    BY <1>1, <1>2 DEF RelationsFit
  <2>2. \A p, q \in Registered' : p # q => NamesOf(p)' \cap NamesOf(q)' = {}
    BY <1>1, <1>2 DEF RelationsFit
  <2>3. \A p \in Registered' : AllConvertible(Relation(p).columns)' /\ OwnNamesDiffer(p)'
    BY <1>1, <1>2 DEF RelationsFit
  <2> QED BY <2>1, <2>2, <2>3 DEF RelationsFit
<1>4. ViewsFit'
  BY <1>1, <1>2 DEF NativeInv, ViewsFit
<1>5. TablesByName'
  BY <1>1, <1>2 DEF NativeInv, TablesByName
<1>6. ParentsOf(Registered)' = ParentsOf(Registered)
  BY <1>1 DEF ParentsOf
<1> QED BY <1>1, <1>2, <1>3, <1>4, <1>5, <1>6

LEMMA KeepGraphs ==
  ASSUME GraphsSoFar, UNCHANGED <<schema, graphs>>, stage' = "built" => Len(graphs) = Len(schema.graphs)
  PROVE  GraphsSoFar'
<1>1. LastNamesDiffer' <=> LastNamesDiffer
  BY SameOthers
<1>2. \A i \in DOMAIN graphs :
        /\ SoundGraph(GraphFromDDL(schema.graphs[i]))' /\ graphs[i].name = schema.graphs[i].name
        /\ EdgesMatch(graphs[i]) /\ Closed(graphs[i])' /\ (LastNamesDiffer' => OwnTables(graphs[i]))
  BY <1>1, SameGraphs DEF GraphsSoFar
<1>3. \A i \in DOMAIN graphs : EdgesMatch(graphs[i])' /\ (LastNamesDiffer' => OwnTables(graphs[i])')
  BY <1>2 DEF EdgesMatch, OwnTables
<1> QED BY <1>2, <1>3 DEF GraphsSoFar

LEMMA FailStep == ASSUME NativeInv, Fail, ~Sound PROVE NativeInv'
<1> USE DEF Fail
<1>1. /\ Relations' = Relations /\ Registered' = Registered /\ RelationsFit' /\ ViewsFit' /\ TablesByName'
  BY KeepRelations
<1>2. GraphsSoFar'
  BY KeepGraphs DEF NativeInv
<1>3. AddedSoFar' /\ CatalogsFit' /\ OthersFit'
  BY <1>1 DEF NativeInv, AddedSoFar, CatalogsFit, OthersFit
<1>4. ~Sound'
  BY SameSound
<1> QED BY <1>1, <1>2, <1>3, <1>4 DEF NativeInv, Stages

\* In a sound schema every relation can be added, after whichever others.
LEMMA SoundIsAddable ==
  ASSUME NativeInv, Sound, NEW path \in Relations, path \notin Registered, stage \in {"tables", "views"}
  PROVE  Addable(path)
<1>1. Distinguished(catalogs \cup Parents(path))
  <2>1. catalogs \subseteq UNION {Parents(p) : p \in Relations \cup DOMAIN schema.functions}
    BY DEF NativeInv, CatalogsFit, AddedSoFar, ParentsOf, FunctionParents
  <2>2. catalogs \cup Parents(path) \subseteq UNION {Parents(p) : p \in Relations \cup DOMAIN schema.functions}
    BY <2>1
  <2>3. Distinguished(UNION {Parents(p) : p \in Relations \cup DOMAIN schema.functions})
    BY DEF Sound
  <2> QED BY <2>2, <2>3, FewerDistinguished
<1>2. AllConvertible(Relation(path).columns) /\ OwnNamesDiffer(path)
  BY DEF Sound
<1>3. Distinguished(NativeNames \cup NamesOf(path))
  <2>1. NativeNames \cup NamesOf(path) \subseteq UNION {NamesOf(p) : p \in Relations}
    BY DEF NativeInv, RelationsFit, AddedSoFar
  <2>2. Distinguished(UNION {NamesOf(p) : p \in Relations})
    BY DEF Sound
  <2> QED BY <2>1, <2>2, FewerDistinguished
<1>4. NativeNames \cap NamesOf(path) = {}
  <2>1. \A p \in Registered : NamesOf(p) \cap NamesOf(path) = {}
    BY DEF NativeInv, AddedSoFar, Sound
  <2> QED BY <2>1 DEF NativeInv, RelationsFit
<1> QED BY <1>1, <1>2, <1>3, <1>4 DEF Addable

LEMMA AddTableFailsStep == ASSUME NativeInv, AddTableFails PROVE NativeInv'
<1>1. PICK path \in unregistered : ~Addable(path)
  BY DEF AddTableFails
<1>2. path \in Relations /\ path \notin Registered
  BY DEF AddTableFails, NativeInv, AddedSoFar, Relations
<1>3. ~Sound
  BY <1>1, <1>2, SoundIsAddable DEF AddTableFails
<1> QED BY <1>3, FailStep DEF AddTableFails

\* Among the views of a sound schema that are left there is one to add.
LEMMA AddViewsFailsStep == ASSUME NativeInv, AddViewsFails PROVE NativeInv'
<1>1. unregistered # {} /\ unregistered \subseteq DOMAIN schema.views /\ Registered = Relations \ unregistered
  BY DEF AddViewsFails, NativeInv, AddedSoFar
<1>2. ASSUME Sound PROVE FALSE
  <2>1. PICK v \in unregistered : schema.views[v].reads \subseteq Relations \ unregistered
    BY <1>1, <1>2 DEF Sound, ViewsAreGrounded
  <2>2. v \in Relations /\ v \notin Registered
    BY <1>1 DEF Relations
  <2>3. Addable(v)
    BY <1>2, <2>2, SoundIsAddable DEF AddViewsFails
  <2> QED BY <1>1, <2>1, <2>3 DEF AddViewsFails, Ready
<1> QED BY <1>2, FailStep DEF AddViewsFails

\* What registering a relation changes.
LEMMA RegisterAdds ==
  ASSUME NEW path, Register(path), schema' = schema
  PROVE  /\ Registered' = Registered \cup {path} /\ NativeNames' = NativeNames \cup NamesOf(path)
         /\ ParentsOf(Registered)' = ParentsOf(Registered) \cup Parents(path)
<1> DEFINE new == {[path |-> n, table |-> path] : n \in NamesOf(path)}
<1>1. registered' = registered \cup new
  BY DEF Register
<1>2. {r.table : r \in new} = {path} /\ {r.path : r \in new} = NamesOf(path)
  <2>1. path \in NamesOf(path)
    BY DEF NamesOf
  <2>2. ASSUME NEW n \in NamesOf(path) PROVE \E r \in new : r.path = n /\ r.table = path
    <3> WITNESS [path |-> n, table |-> path] \in new
    <3> QED OBVIOUS
  <2>3. \A r \in new : r.table = path /\ r.path \in NamesOf(path)
    OBVIOUS
  <2> HIDE DEF new
  <2> QED BY <2>1, <2>2, <2>3
<1> HIDE DEF new
<1>3. Registered' = Registered \cup {path}
  BY <1>1, <1>2 DEF Registered
<1>4. NativeNames' = NativeNames \cup NamesOf(path)
  BY <1>1, <1>2 DEF NativeNames
<1>5. ParentsOf(Registered)' = ParentsOf(Registered) \cup Parents(path)
  BY <1>3 DEF ParentsOf
<1> QED BY <1>3, <1>4, <1>5

LEMMA RegisterStep ==
  ASSUME NativeInv, NEW path \in unregistered, path \in Relations, path \notin Registered,
         Addable(path), Register(path), UNCHANGED <<schema, stage, graphs>>, stage \in {"tables", "views"},
         path \in DOMAIN schema.views => schema.views[path].reads \subseteq Registered
  PROVE  NativeInv'
<1>1. Relations' = Relations /\ \A p : Relation(p)' = Relation(p) /\ NamesOf(p)' = NamesOf(p)
      /\ (OwnNamesDiffer(p)' <=> OwnNamesDiffer(p)) /\ (NeedsBorrowedTable(p)' <=> NeedsBorrowedTable(p))
  BY SameRelations
<1>2. /\ Registered' = Registered \cup {path} /\ NativeNames' = NativeNames \cup NamesOf(path)
      /\ ParentsOf(Registered)' = ParentsOf(Registered) \cup Parents(path)
  BY RegisterAdds
<1>3. AddedSoFar'
  <2>1. unregistered' = unregistered \ {path}
    BY DEF Register
  <2> QED BY <1>1, <1>2, <2>1 DEF NativeInv, AddedSoFar, Relations
<1>4. RelationsFit'
  <2>1. NativeNames' = UNION {NamesOf(p)' : p \in Registered'}
    BY <1>1, <1>2 DEF NativeInv, RelationsFit
  <2>2. Distinguished(NativeNames')
    BY <1>2 DEF Addable
  <2>3. ASSUME NEW p \in Registered', NEW q \in Registered', p # q PROVE NamesOf(p) \cap NamesOf(q) = {}
    <3>1. \A r \in Registered : NamesOf(r) \cap NamesOf(path) = {}
      BY DEF NativeInv, RelationsFit, Addable
    <3> QED BY <1>2, <2>3, <3>1 DEF NativeInv, RelationsFit
  <2>4. \A p \in Registered' : AllConvertible(Relation(p).columns) /\ OwnNamesDiffer(p)
    BY <1>2 DEF NativeInv, RelationsFit, Addable
  <2>5. Distinguished(NativeNames)'
    BY <2>2 DEF Distinguished
  <2>6. \A p \in Registered' : AllConvertible(Relation(p).columns)' /\ OwnNamesDiffer(p)'
    BY <1>1, <2>4 DEF AllConvertible
  <2>7. \A p, q \in Registered' : p # q => NamesOf(p)' \cap NamesOf(q)' = {}
    BY <1>1, <2>3
  <2> QED BY <2>1, <2>5, <2>6, <2>7 DEF RelationsFit
<1>5. CatalogsFit'
  <2>1. catalogs' = catalogs \cup Parents(path) /\ FunctionParents' = FunctionParents
    BY SameRelations DEF Register
  <2>2. Distinguished(catalogs)'
    BY <2>1 DEF Addable, Distinguished
  <2> QED BY <1>2, <2>1, <2>2 DEF NativeInv, CatalogsFit
<1>6. ViewsFit'
  <2> SUFFICES ASSUME NEW V \in SUBSET DOMAIN schema.views, V \cap Registered' # {}
               PROVE  \E v \in V : schema.views[v].reads \subseteq Relations \ V
    BY <1>1 DEF ViewsFit
  <2>1. CASE V \cap Registered # {}
    BY <2>1 DEF NativeInv, ViewsFit
  <2>2. CASE V \cap Registered = {}
    <3>1. path \in V
      BY <1>2, <2>2
    <3>2. schema.views[path].reads \subseteq Relations \ V
      BY <2>2, <3>1 DEF NativeInv, AddedSoFar
    <3> QED BY <3>1, <3>2
  <2> QED BY <2>1, <2>2
<1>7. TablesByName'
  <2>1. CASE NeedsBorrowedTable(path)
    <3>1. tablesByName' = [n \in {path, <<Last(path)>>} \cup DOMAIN tablesByName |->
                             IF n \in {path, <<Last(path)>>} THEN path ELSE tablesByName[n]]
      BY <2>1 DEF Register
    <3>2. \A p \in Registered : NeedsBorrowedTable(p) => p \in DOMAIN tablesByName
      BY DEF NativeInv, TablesByName
    <3>3. \A n \in DOMAIN tablesByName : tablesByName[n] \in Relations /\ (n = tablesByName[n] \/ n = <<Last(tablesByName[n])>>)
      BY DEF NativeInv, TablesByName
    <3>4. \A p \in Registered' : NeedsBorrowedTable(p) => p \in DOMAIN tablesByName'
      BY <1>2, <3>1, <3>2
    <3>5. \A n \in DOMAIN tablesByName' : tablesByName'[n] \in Relations /\ (n = tablesByName'[n] \/ n = <<Last(tablesByName'[n])>>)
      BY <3>1, <3>3
    <3> QED BY <1>1, <3>4, <3>5 DEF TablesByName
  <2>2. CASE ~NeedsBorrowedTable(path)
    <3>1. tablesByName' = tablesByName
      BY <2>2 DEF Register
    <3> QED BY <1>1, <1>2, <2>2, <3>1 DEF NativeInv, TablesByName
  <2> QED BY <2>1, <2>2
<1>8. GraphsSoFar'
  BY KeepGraphs DEF NativeInv
<1>9. OthersFit'
  BY SameOthers DEF NativeInv, OthersFit
<1> QED BY <1>3, <1>4, <1>5, <1>6, <1>7, <1>8, <1>9 DEF NativeInv, Stages

LEMMA AddTableStep == ASSUME NativeInv, AddTable PROVE NativeInv'
<1>1. PICK path \in unregistered : Addable(path) /\ Register(path)
  BY DEF AddTable
<1>2. path \in DOMAIN schema.tables /\ path \notin Registered
  BY DEF AddTable, NativeInv, AddedSoFar
<1>3. path \in Relations /\ path \notin DOMAIN schema.views
  BY <1>2, SchemaShape DEF NativeInv, Relations
<1> QED BY <1>1, <1>2, <1>3, RegisterStep DEF AddTable

LEMMA AddViewStep == ASSUME NativeInv, AddView PROVE NativeInv'
<1>1. PICK path \in Ready : Register(path)
  BY DEF AddView
<1>2. path \in unregistered /\ path \in Relations /\ path \notin Registered
  BY <1>1 DEF AddView, Ready, NativeInv, AddedSoFar, Relations
<1>3. Addable(path) /\ schema.views[path].reads \subseteq Registered
  BY <1>1 DEF Ready
<1> QED BY <1>1, <1>2, <1>3, RegisterStep DEF AddView

LEMMA EndTablesStep == ASSUME NativeInv, EndTables PROVE NativeInv'
<1>1. /\ Relations' = Relations /\ Registered' = Registered /\ ParentsOf(Registered)' = ParentsOf(Registered)
      /\ RelationsFit' /\ ViewsFit' /\ TablesByName'
  BY KeepRelations DEF EndTables
<1>2. GraphsSoFar'
  BY KeepGraphs DEF NativeInv, EndTables
<1>3. AddedSoFar' /\ CatalogsFit' /\ OthersFit'
  BY <1>1 DEF EndTables, NativeInv, AddedSoFar, CatalogsFit, OthersFit
<1> QED BY <1>1, <1>2, <1>3 DEF NativeInv, EndTables, Stages

LEMMA AddSequencesStep == ASSUME NativeInv, AddSequences PROVE NativeInv'
<1>1. CASE stage = "sequences" /\ ~SequencesFit /\ Fail
  BY <1>1, FailStep DEF Sound
<1>2. CASE /\ stage = "sequences" /\ SequencesFit /\ stage' = "models"
           /\ UNCHANGED <<schema, unregistered, catalogs, registered, tablesByName, graphs>>
  <2>1. /\ Relations' = Relations /\ Registered' = Registered /\ ParentsOf(Registered)' = ParentsOf(Registered)
        /\ RelationsFit' /\ ViewsFit' /\ TablesByName'
    BY <1>2, KeepRelations
  <2>2. GraphsSoFar'
    BY <1>2, KeepGraphs DEF NativeInv
  <2>3. AddedSoFar' /\ CatalogsFit'
    BY <1>2, <2>1 DEF NativeInv, AddedSoFar, CatalogsFit
  <2>4. OthersFit'
    BY <1>2, SameOthers DEF OthersFit
  <2> QED BY <1>2, <2>1, <2>2, <2>3, <2>4 DEF NativeInv, Stages
<1> QED BY <1>1, <1>2 DEF AddSequences

LEMMA AddModelsStep == ASSUME NativeInv, AddModels PROVE NativeInv'
<1>1. CASE stage = "models" /\ ~ModelsFit /\ Fail
  BY <1>1, FailStep DEF Sound
<1>2. CASE /\ stage = "models" /\ ModelsFit /\ stage' = "functions"
           /\ UNCHANGED <<schema, unregistered, catalogs, registered, tablesByName, graphs>>
  <2>1. /\ Relations' = Relations /\ Registered' = Registered /\ ParentsOf(Registered)' = ParentsOf(Registered)
        /\ RelationsFit' /\ ViewsFit' /\ TablesByName'
    BY <1>2, KeepRelations
  <2>2. GraphsSoFar'
    BY <1>2, KeepGraphs DEF NativeInv
  <2>3. AddedSoFar' /\ CatalogsFit'
    BY <1>2, <2>1 DEF NativeInv, AddedSoFar, CatalogsFit
  <2>4. OthersFit'
    BY <1>2, SameOthers DEF NativeInv, OthersFit
  <2> QED BY <1>2, <2>1, <2>2, <2>3, <2>4 DEF NativeInv, Stages
<1> QED BY <1>1, <1>2 DEF AddModels

LEMMA AddRemoteFunctionsStep == ASSUME NativeInv, AddRemoteFunctions PROVE NativeInv'
<1>1. CASE stage = "functions" /\ ~FunctionsFit /\ Fail
  <2>1. ASSUME Sound PROVE FunctionsFit
    <3>1. catalogs \cup FunctionParents \subseteq UNION {Parents(p) : p \in Relations \cup DOMAIN schema.functions}
      BY <1>1 DEF NativeInv, CatalogsFit, AddedSoFar, ParentsOf, FunctionParents
    <3>2. Distinguished(catalogs \cup FunctionParents)
      BY <2>1, <3>1, FewerDistinguished DEF Sound
    <3> QED BY <2>1, <3>2 DEF Sound, FunctionsFit
  <2> QED BY <1>1, <2>1, FailStep
<1>2. CASE /\ stage = "functions" /\ FunctionsFit
           /\ stage' = "views" /\ unregistered' = DOMAIN schema.views
           /\ catalogs' = catalogs \cup FunctionParents
           /\ UNCHANGED <<schema, registered, tablesByName, graphs>>
  <2>1. /\ Relations' = Relations /\ Registered' = Registered /\ ParentsOf(Registered)' = ParentsOf(Registered)
        /\ RelationsFit' /\ ViewsFit' /\ TablesByName'
    BY <1>2, KeepRelations
  <2>2. GraphsSoFar'
    BY <1>2, KeepGraphs DEF NativeInv
  <2>3. AddedSoFar'
    <3>1. DOMAIN schema.tables \cap DOMAIN schema.views = {}
      BY SchemaShape DEF NativeInv
    <3>2. Registered = DOMAIN schema.tables
      BY <1>2 DEF NativeInv, AddedSoFar
    <3>3. Registered = Relations \ DOMAIN schema.views
      BY <3>1, <3>2 DEF Relations
    <3> QED BY <1>2, <2>1, <3>3 DEF NativeInv, AddedSoFar
  <2>4. CatalogsFit'
    <3>1. FunctionParents' = FunctionParents
      BY <1>2, SameRelations
    <3>2. catalogs' = ParentsOf(Registered)' \cup FunctionParents'
      BY <1>2, <2>1, <3>1 DEF NativeInv, CatalogsFit
    <3>3. Distinguished(catalogs)'
      BY <1>2 DEF FunctionsFit, Distinguished
    <3> QED BY <1>2, <3>2, <3>3 DEF CatalogsFit
  <2>5. OthersFit'
    <3>1. (SequencesFit' <=> SequencesFit) /\ (ModelsFit' <=> ModelsFit)
      BY <1>2, SameOthers
    <3>2. SequencesFit' /\ ModelsFit'
      BY <1>2, <3>1 DEF NativeInv, OthersFit
    <3>3. /\ Distinguished(DOMAIN schema.functions)
          /\ \A f \in DOMAIN schema.functions : schema.functions[f] \subseteq Convertible
      BY <1>2 DEF FunctionsFit
    <3> QED BY <1>2, <3>2, <3>3 DEF OthersFit, Distinguished
  <2> QED BY <1>2, <2>1, <2>2, <2>3, <2>4, <2>5 DEF NativeInv, Stages
<1> QED BY <1>1, <1>2 DEF AddRemoteFunctions

LEMMA EndViewsStep == ASSUME NativeInv, EndViews PROVE NativeInv'
<1>1. /\ Relations' = Relations /\ Registered' = Registered /\ ParentsOf(Registered)' = ParentsOf(Registered)
      /\ RelationsFit' /\ ViewsFit' /\ TablesByName'
  BY KeepRelations DEF EndViews
<1>2. GraphsSoFar'
  BY KeepGraphs DEF NativeInv, EndViews
<1>3. AddedSoFar'
  BY <1>1 DEF EndViews, NativeInv, AddedSoFar
<1>4. CatalogsFit'
  BY <1>1, SameRelations DEF EndViews, NativeInv, CatalogsFit
<1>5. OthersFit'
  BY SameOthers DEF EndViews, NativeInv, OthersFit
<1> QED BY <1>1, <1>2, <1>3, <1>4, <1>5 DEF NativeInv, EndViews, Stages

LEMMA EndGraphsStep == ASSUME NativeInv, EndGraphs PROVE NativeInv'
<1>1. /\ Relations' = Relations /\ Registered' = Registered /\ ParentsOf(Registered)' = ParentsOf(Registered)
      /\ RelationsFit' /\ ViewsFit' /\ TablesByName'
  BY KeepRelations DEF EndGraphs
<1>2. GraphsSoFar'
  BY KeepGraphs DEF NativeInv, EndGraphs
<1>3. AddedSoFar'
  BY <1>1 DEF EndGraphs, NativeInv, AddedSoFar
<1>4. CatalogsFit'
  BY <1>1, SameRelations DEF EndGraphs, NativeInv, CatalogsFit
<1>5. OthersFit'
  BY SameOthers DEF EndGraphs, NativeInv, OthersFit
<1> QED BY <1>1, <1>2, <1>3, <1>4, <1>5 DEF NativeInv, EndGraphs, Stages

\* When the graphs are built, every table of the schema is known and found.
LEMMA TablesKnown ==
  ASSUME NativeInv, stage = "graphs", schema.graphs # << >>, NEW g
  PROVE  TablesAreKnown(g) /\ (LastNamesDiffer => TablesAreOwn)
<1>1. DOMAIN schema.tables \subseteq DOMAIN tablesByName
  BY DEF NativeInv, AddedSoFar, TablesByName, NeedsBorrowedTable, Relations
<1>2. ASSUME LastNamesDiffer, NEW p \in DOMAIN schema.tables PROVE tablesByName[p] = p
  <2> DEFINE q == tablesByName[p]
  <2>1. q \in Relations /\ p \in Relations /\ (p = q \/ p = <<Last(q)>>)
    BY <1>1 DEF NativeInv, TablesByName, Relations
  <2>2. \A x : Last(<<x>>) = x
    <3> SUFFICES ASSUME NEW x PROVE Last(<<x>>) = x
      OBVIOUS
    <3>1. Len(<<x>>) = 1 /\ <<x>>[1] = x
      OBVIOUS
    <3> QED BY <3>1 DEF Last
  <2> HIDE DEF q
  <2>3. p = q
    BY <1>2, <2>1, <2>2 DEF LastNamesDiffer
  <2> QED BY <2>3 DEF q
<1> QED BY <1>1, <1>2 DEF TablesAreKnown, TablesAreOwn

LEMMA AddPropertyGraphStep == ASSUME NativeInv, AddPropertyGraph PROVE NativeInv'
<1> DEFINE k == Len(graphs) + 1
           g == GraphFromDDL(schema.graphs[k])
           fits == Accepted(g) /\ \A i \in DOMAIN graphs : ~Alike(graphs[i].name, g.name)
<1>1. /\ stage = "graphs" /\ Len(graphs) < Len(schema.graphs)
      /\ \/ /\ fits /\ graphs' = Append(graphs, Complete(g))
            /\ UNCHANGED <<schema, stage, unregistered, catalogs, registered, tablesByName>>
         \/ ~fits /\ Fail
  BY DEF AddPropertyGraph
<1>2. /\ graphs \in Seq(ToSet(graphs)) /\ Len(graphs) \in Nat /\ DOMAIN graphs = 1..Len(graphs)
      /\ schema.graphs \in Seq(ToSet(schema.graphs)) /\ Len(schema.graphs) \in Nat
      /\ DOMAIN schema.graphs = 1..Len(schema.graphs)
  BY SchemaShape DEF NativeInv, GraphsSoFar
<1>3. k \in DOMAIN schema.graphs /\ k \notin DOMAIN graphs /\ schema.graphs # << >> /\ DOMAIN graphs \subseteq DOMAIN schema.graphs
  BY <1>1, <1>2
<1>4. IsGraph(g) /\ g.name = schema.graphs[k].name
  BY <1>3, GraphsFromDDL DEF NativeInv
<1>5. TablesAreKnown(g) /\ (LastNamesDiffer => TablesAreOwn)
  BY <1>1, <1>3, TablesKnown
<1>6. Accepted(g) <=> SoundGraph(g)
  BY <1>4, <1>5, AcceptedIsSound
<1>7. ASSUME ~fits PROVE ~Sound
  <2>1. CASE ~SoundGraph(g)
    BY <1>3, <2>1 DEF Sound
  <2>2. CASE \E i \in DOMAIN graphs : Alike(graphs[i].name, g.name)
    <3>1. PICK i \in DOMAIN graphs : Alike(graphs[i].name, g.name)
      BY <2>2
    <3>2. Alike(schema.graphs[i].name, schema.graphs[k].name) /\ i # k /\ i \in DOMAIN schema.graphs
      BY <1>3, <1>4, <3>1 DEF NativeInv, GraphsSoFar
    <3> QED BY <1>3, <3>2 DEF Sound
  <2> QED BY <1>6, <1>7, <2>1, <2>2
<1>8. CASE ~fits /\ Fail
  <2> HIDE DEF fits
  <2> QED BY <1>7, <1>8, FailStep
<1>9. CASE /\ fits /\ graphs' = Append(graphs, Complete(g))
           /\ UNCHANGED <<schema, stage, unregistered, catalogs, registered, tablesByName>>
  <2> DEFINE h == Complete(g)
  <2>1. /\ Relations' = Relations /\ Registered' = Registered /\ ParentsOf(Registered)' = ParentsOf(Registered)
        /\ RelationsFit' /\ ViewsFit' /\ TablesByName'
    BY <1>9, KeepRelations
  <2>2. AddedSoFar'
    BY <1>9, <2>1 DEF NativeInv, AddedSoFar
  <2>3. CatalogsFit'
    BY <1>9, <2>1, SameRelations DEF NativeInv, CatalogsFit
  <2>4. OthersFit'
    BY <1>9, SameOthers DEF NativeInv, OthersFit
  <2>5. SoundGraph(g)
    BY <1>6, <1>9
  <2>6. /\ SoundGraph(g) /\ h.name = schema.graphs[k].name
        /\ EdgesMatch(h) /\ Closed(h) /\ (LastNamesDiffer => OwnTables(h))
    BY <1>4, <1>5, <1>9, <2>5, CompleteIsMade, CompleteEdgesMatch, CompleteIsClosed, CompleteOwnsTables
  <2>7. \A i \in DOMAIN graphs : ~Alike(graphs[i].name, h.name)
    BY <1>4, <1>9, <2>6
  <2> HIDE DEF g, h, fits
  <2>8. /\ graphs' \in Seq(ToSet(graphs)') /\ DOMAIN graphs' = DOMAIN graphs \cup {k} /\ Len(graphs') = k
        /\ graphs'[k] = h /\ \A i \in DOMAIN graphs : graphs'[i] = graphs[i]
    <3>1. graphs' = Append(graphs, h)
      BY <1>9 DEF h
    <3>2. graphs' \in Seq(ToSet(graphs) \cup {h})
      BY <1>2, <3>1
    <3>3. /\ DOMAIN graphs' = DOMAIN graphs \cup {k} /\ Len(graphs') = k
          /\ graphs'[k] = h /\ \A i \in DOMAIN graphs : graphs'[i] = graphs[i]
      BY <1>2, <3>1
    <3>4. graphs' \in Seq(ToSet(graphs'))
      <4>1. \A i \in 1..Len(graphs') : graphs'[i] \in ToSet(graphs')
        BY <3>2 DEF ToSet
      <4> QED BY <3>2, <4>1
    <3>5. ToSet(graphs)' = ToSet(graphs')
      BY DEF ToSet
    <3> QED BY <3>3, <3>4, <3>5
  <2>9. \A i \in DOMAIN graphs' :
          /\ SoundGraph(GraphFromDDL(schema.graphs[i])) /\ graphs'[i].name = schema.graphs[i].name
          /\ EdgesMatch(graphs'[i]) /\ Closed(graphs'[i]) /\ (LastNamesDiffer => OwnTables(graphs'[i]))
    BY <2>6, <2>8 DEF NativeInv, GraphsSoFar, g
  <2>10. \A i, j \in DOMAIN graphs' : Alike(graphs'[i].name, graphs'[j].name) => i = j
    BY <2>7, <2>8 DEF NativeInv, GraphsSoFar, Alike
  <2>11. GraphsSoFar'
    <3>1. \A i \in DOMAIN graphs' :
            /\ SoundGraph(GraphFromDDL(schema.graphs[i]))' /\ (graphs[i].name = schema.graphs[i].name)'
            /\ EdgesMatch(graphs[i])' /\ Closed(graphs[i])' /\ (LastNamesDiffer' => OwnTables(graphs[i])')
      <4>1. LastNamesDiffer' <=> LastNamesDiffer
        BY <1>9, SameOthers
      <4>2. \A x : (SoundGraph(x)' <=> SoundGraph(x)) /\ (Closed(x)' <=> Closed(x))
        BY <1>9, SameGraphs
      <4> QED BY <1>9, <2>9, <4>1, <4>2
    <3>2. Len(graphs') <= Len(schema.graphs) /\ stage' # "built"
      BY <1>1, <1>2, <1>9, <2>8
    <3> QED BY <1>9, <2>8, <2>10, <3>1, <3>2 DEF GraphsSoFar, Alike
  <2> QED BY <1>1, <1>9, <2>1, <2>2, <2>3, <2>4, <2>11 DEF NativeInv, Stages
<1> QED BY <1>1, <1>8, <1>9

LEMMA InitNative == ASSUME NativeInit PROVE NativeInv
<1> USE DEF NativeInit
<1>1. Registered = {} /\ NativeNames = {} /\ ParentsOf(Registered) = {}
  BY DEF Registered, NativeNames, ParentsOf
<1>2. AddedSoFar /\ RelationsFit /\ ViewsFit /\ OthersFit
  BY <1>1 DEF AddedSoFar, RelationsFit, ViewsFit, OthersFit, Distinguished
<1>3. CatalogsFit
  BY <1>1 DEF CatalogsFit, Distinguished
<1>4. TablesByName
  BY <1>1 DEF TablesByName
<1>5. GraphsSoFar
  <2>1. Len(schema.graphs) \in Nat
    BY SchemaShape
  <2> QED BY <2>1 DEF GraphsSoFar
<1> QED BY <1>2, <1>3, <1>4, <1>5 DEF NativeInv, Stages

LEMMA NativeStutter == ASSUME NativeInv, UNCHANGED nativeVars PROVE NativeInv'
<1> USE DEF nativeVars
<1>1. /\ Relations' = Relations /\ Registered' = Registered /\ ParentsOf(Registered)' = ParentsOf(Registered)
      /\ RelationsFit' /\ ViewsFit' /\ TablesByName'
  BY KeepRelations
<1>2. GraphsSoFar'
  BY KeepGraphs DEF NativeInv, GraphsSoFar
<1>3. AddedSoFar' /\ CatalogsFit' /\ OthersFit' /\ (Sound' <=> Sound)
  BY <1>1, SameRelations, SameOthers, SameSound DEF NativeInv, AddedSoFar, CatalogsFit, OthersFit
<1> QED BY <1>1, <1>2, <1>3 DEF NativeInv

\* The strengthened invariant holds for any schemas of the shape, however the
\* tables and views are picked.
THEOREM NativeInvariant == NativeSpec => []NativeInv
<1>1. NativeInv /\ [NativeNext]_nativeVars => NativeInv'
  BY AddTableStep, AddTableFailsStep, EndTablesStep, AddSequencesStep, AddModelsStep, AddRemoteFunctionsStep,
     AddViewStep, AddViewsFailsStep, EndViewsStep, AddPropertyGraphStep, EndGraphsStep, NativeStutter
     DEF NativeNext
<1> QED BY <1>1, InitNative, PTL DEF NativeSpec

\* What has been built in full is sound.
LEMMA BuiltIsSound == ASSUME NativeInv, stage = "built" PROVE Sound
<1>1. Registered = Relations /\ catalogs = ParentsOf(Relations) \cup FunctionParents
  BY DEF NativeInv, AddedSoFar, CatalogsFit
<1>2. Distinguished(UNION {Parents(p) : p \in Relations \cup DOMAIN schema.functions})
  <2>1. UNION {Parents(p) : p \in Relations \cup DOMAIN schema.functions} = catalogs
    BY <1>1 DEF ParentsOf, FunctionParents
  <2> QED BY <2>1 DEF NativeInv, CatalogsFit
<1>3. /\ Distinguished(UNION {NamesOf(p) : p \in Relations})
      /\ \A p, q \in Relations : p # q => NamesOf(p) \cap NamesOf(q) = {}
      /\ \A p \in Relations : AllConvertible(Relation(p).columns) /\ OwnNamesDiffer(p)
  BY <1>1 DEF NativeInv, RelationsFit
<1>4. ViewsAreGrounded
  BY <1>1 DEF NativeInv, ViewsFit, ViewsAreGrounded, Relations
<1>5. /\ SequencesFit /\ ModelsFit /\ Distinguished(DOMAIN schema.functions)
      /\ \A f \in DOMAIN schema.functions : schema.functions[f] \subseteq Convertible
  BY DEF NativeInv, OthersFit
<1>6. DOMAIN graphs = DOMAIN schema.graphs
  <2>1. graphs \in Seq(ToSet(graphs)) /\ schema.graphs \in Seq(ToSet(schema.graphs)) /\ Len(graphs) = Len(schema.graphs)
    BY SchemaShape DEF NativeInv, GraphsSoFar
  <2> QED BY <2>1
<1>7. /\ \A i \in DOMAIN schema.graphs : SoundGraph(GraphFromDDL(schema.graphs[i]))
      /\ \A i, j \in DOMAIN schema.graphs : Alike(schema.graphs[i].name, schema.graphs[j].name) => i = j
  BY <1>6 DEF NativeInv, GraphsSoFar
<1> QED BY <1>2, <1>3, <1>4, <1>5, <1>7 DEF Sound

\* For any schemas: exactly the sound ones are built, in whatever order their
\* tables are picked, and what is built of them is what they declare.
THEOREM NativeCatalogsAreSound == NativeSpec => []NativeCatalogIsSound
<1>1. ASSUME NativeInv PROVE NativeCatalogIsSound
  <2>1. \A h \in Built : EdgesMatch(h) /\ Closed(h) /\ (LastNamesDiffer => OwnTables(h))
    BY <1>1 DEF NativeInv, GraphsSoFar, Built
  <2>2. EdgesMatchTheirNodes
    BY <2>1 DEF EdgesMatchTheirNodes, EdgesMatch
  <2>3. GraphsAreClosed
    BY <2>1 DEF GraphsAreClosed, Closed
  <2>4. LastNamesDiffer => ElementsUseTheirTables
    BY <2>1 DEF ElementsUseTheirTables, OwnTables
  <2>5. BuildsSoundSchemas
    BY <1>1, BuiltIsSound DEF NativeInv, BuildsSoundSchemas
  <2> QED BY <2>2, <2>3, <2>4, <2>5 DEF NativeCatalogIsSound
<1> QED BY <1>1, NativeInvariant, PTL
==============================================================================
