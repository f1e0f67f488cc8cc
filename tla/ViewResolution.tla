--------------------------- MODULE ViewResolution ---------------------------
(***************************************************************************)
(* How GoogleSQLCatalog registers the views of a schema catalog:           *)
(* orderedViews takes each view once, in ViewOrder or, for a catalog       *)
(* without one, in sorted order; addViews then passes over them, analyzing *)
(* those not done, until all are done or a pass gets nowhere.              *)
(*                                                                         *)
(* Whether the analyzer accepts a view's query is external; a query is     *)
(* taken to be accepted exactly when every name it reads is registered.    *)
(***************************************************************************)
EXTENDS Naturals, Sequences, FiniteSets

CONSTANTS
  Views,    \* keys of Catalog.Views
  Base,     \* names registered before the views
  Names,    \* every name a query may refer to
  Keys,     \* the keys a ViewOrder may hold, views or not
  Sorted,   \* the keys of Catalog.Views in sorted order
  Orders,   \* what Catalog.ViewOrder may be
  NoError   \* lastErr = nil

\* A ViewOrder that is not empty lists every view (ViewOrderListsViews of
\* SchemaCatalog); it may repeat a key or keep one that is gone.
ASSUME OrdersAssumption ==
  /\ IsFiniteSet(Views) /\ Views \subseteq Keys /\ Views \cap Base = {} /\ NoError \notin Views
  /\ Sorted \in Seq(Views) /\ \A v \in Views : \E i \in DOMAIN Sorted : Sorted[i] = v
  /\ \A o \in Orders : o \in Seq(Keys)
  /\ \A o \in Orders : o = <<>> \/ \A v \in Views : \E i \in DOMAIN o : o[i] = v

VARIABLES
  reads,     \* reads[v]: the names the query of v refers to (an input)
  keys,      \* orderedViews: the keys to go through
  pending,   \* the views to register, in order
  done,      \* keys of the views registered
  pc,        \* "order", "loop", "pass", "ok" or "failed"
  pos,       \* position in keys (order) or in pending (pass)
  progress,  \* a view was registered in this pass
  lastErr    \* the view whose analysis failed last

vars == <<reads, keys, pending, done, pc, pos, progress, lastErr>>

Analyzable(v) == reads[v] \subseteq Base \cup done

Init ==
  /\ reads \in [Views -> SUBSET Names]
  /\ \E o \in Orders : keys = IF o = <<>> THEN Sorted ELSE o
  /\ pending = <<>> /\ done = {}
  /\ pc = "order" /\ pos = 1
  /\ progress = FALSE /\ lastErr = NoError

\* Mutant of OrderKey: a key that is no view any more is kept.
OrderKeyAny ==
  /\ pc = "order" /\ pos <= Len(keys)
  /\ pending' = Append(pending, keys[pos]) /\ pos' = pos + 1
  /\ UNCHANGED <<reads, keys, done, pc, progress, lastErr>>

\* orderedViews: one key of the list.
OrderKey ==
  /\ pc = "order" /\ pos <= Len(keys)
  /\ LET k == keys[pos]
         seen == \E i \in 1..(pos - 1) : keys[i] = k
     IN  pending' = IF k \in Views /\ ~seen THEN Append(pending, k) ELSE pending
  /\ pos' = pos + 1
  /\ UNCHANGED <<reads, keys, done, pc, progress, lastErr>>
EndOrder ==
  /\ pc = "order" /\ pos > Len(keys)
  /\ pc' = "loop"
  /\ UNCHANGED <<reads, keys, pending, done, pos, progress, lastErr>>

\* Mutant of BeginPass: progress is not reset.
BeginPassStale ==
  /\ pc = "loop" /\ Cardinality(done) < Len(pending)
  /\ pc' = "pass" /\ pos' = 1
  /\ UNCHANGED <<reads, keys, pending, done, progress, lastErr>>

\* addViews: for len(done) < len(pending).
BeginPass ==
  /\ pc = "loop" /\ Cardinality(done) < Len(pending)
  /\ pc' = "pass" /\ pos' = 1 /\ progress' = FALSE
  /\ UNCHANGED <<reads, keys, pending, done, lastErr>>

\* Mutant of Finish: it may return with views left.
FinishEarly ==
  /\ pc = "loop" /\ pc' = "ok"
  /\ UNCHANGED <<reads, keys, pending, done, pos, progress, lastErr>>

Finish ==
  /\ pc = "loop" /\ ~(Cardinality(done) < Len(pending))
  /\ pc' = "ok"
  /\ UNCHANGED <<reads, keys, pending, done, pos, progress, lastErr>>

\* Mutant of Visit: only the first error is kept.
VisitFirstError ==
  /\ pc = "pass" /\ pos <= Len(pending)
  /\ LET v == pending[pos]
     IN  IF v \in done \/ ~Analyzable(v)
         THEN /\ lastErr' = IF v \in done \/ lastErr # NoError THEN lastErr ELSE v
              /\ UNCHANGED <<done, progress>>
         ELSE done' = done \cup {v} /\ progress' = TRUE /\ UNCHANGED lastErr
  /\ pos' = pos + 1
  /\ UNCHANGED <<reads, keys, pending, pc>>

\* One view of the pass: done already, failing, or registered now.
Visit ==
  /\ pc = "pass" /\ pos <= Len(pending)
  /\ LET v == pending[pos]
     IN  \/ v \in done /\ UNCHANGED <<done, progress, lastErr>>
         \/ v \notin done /\ ~Analyzable(v) /\ lastErr' = v /\ UNCHANGED <<done, progress>>
         \/ /\ v \notin done /\ Analyzable(v)
            /\ done' = done \cup {v} /\ progress' = TRUE
            /\ UNCHANGED lastErr
  /\ pos' = pos + 1
  /\ UNCHANGED <<reads, keys, pending, pc>>

\* Mutant of EndPass: any error ends the registration.
EndPassStrict ==
  /\ pc = "pass" /\ pos > Len(pending)
  /\ pc' = IF lastErr = NoError THEN "loop" ELSE "failed"
  /\ UNCHANGED <<reads, keys, pending, done, pos, progress, lastErr>>

EndPass ==
  /\ pc = "pass" /\ pos > Len(pending)
  /\ pc' = IF progress THEN "loop" ELSE "failed"
  /\ UNCHANGED <<reads, keys, pending, done, pos, progress, lastErr>>

Next == OrderKey \/ EndOrder \/ BeginPass \/ Finish \/ Visit \/ EndPass
Spec == Init /\ [][Next]_vars

\* The loop is sequential code: it keeps running until it returns.
FairSpec == Spec /\ WF_vars(Next)

-----------------------------------------------------------------------------
(* Properties *)

TypeOK ==
  /\ pending \in Seq(Views) /\ done \subseteq Views
  /\ pc \in {"order", "loop", "pass", "ok", "failed"}
  /\ pos \in Nat \ {0} /\ progress \in BOOLEAN /\ lastErr \in Views \cup {NoError}

Outcome == IF pc \in {"ok", "failed"} THEN pc ELSE "running"
Fixpoint == INSTANCE ViewFixpoint WITH registered <- done, outcome <- Outcome

\* Whatever the order of the views, exactly those that can be registered at all
\* are: success leaves none out, failure has left out only views that lie on a
\* cycle or read something missing, directly or through other views.
OutcomeIsFixpoint ==
  /\ done \subseteq Fixpoint!Resolvable
  /\ pc = "ok" => done = Views
  /\ pc = "failed" => done = Fixpoint!Resolvable /\ done # Views

\* The error reported is that of a view still unresolved, never a left-over of
\* an earlier pass whose view was registered since.
ErrorIsCurrent == pc = "failed" => lastErr \in Views \ done

\* What makes them hold, and is inductive: orderedViews turns the keys seen so
\* far into distinct views and in the end lists every view; and a pass that has
\* registered nothing yet started with views left, and has found each of those
\* it visited not analyzable as things stand.
OrderInv ==
  /\ reads \in [Views -> SUBSET Names] /\ keys \in Seq(Keys)
  /\ \A v \in Views : \E k \in DOMAIN keys : keys[k] = v
  /\ \A i, j \in DOMAIN pending : pending[i] = pending[j] => i = j
  /\ pc = "order" =>
       /\ \A i \in DOMAIN pending : \E k \in DOMAIN keys : k < pos /\ keys[k] = pending[i]
       /\ \A k \in DOMAIN keys : k < pos /\ keys[k] \in Views
            => \E i \in DOMAIN pending : pending[i] = keys[k]
  /\ pc # "order" => \A v \in Views : \E i \in DOMAIN pending : pending[i] = v
PassInv ==
  pc = "pass" /\ ~progress =>
    /\ done # Views
    /\ \A i \in DOMAIN pending : i < pos /\ pending[i] \notin done
         => ~Analyzable(pending[i]) /\ lastErr \in Views \ done
ResolutionInv == TypeOK /\ OrderInv /\ PassInv /\ OutcomeIsFixpoint /\ ErrorIsCurrent

\* The passes implement the abstract registration, and come to an end.
RefinesFixpoint == Fixpoint!FairFixSpec
Terminates == <>(pc \in {"ok", "failed"})
=============================================================================
