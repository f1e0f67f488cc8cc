---------------------------- MODULE ViewFixpoint ----------------------------
(***************************************************************************)
(* What the registration of views promises, whatever order it tries them   *)
(* in: views enter the analyzer catalog one at a time, each only when all  *)
(* it reads is there, and it ends with every view registered, or in        *)
(* failure when some view is left and none of those left can be analyzed.  *)
(***************************************************************************)
CONSTANTS
  Views,   \* names of the views
  Base,    \* names registered before: tables, system tables, functions
  Names    \* every name a query may refer to

VARIABLES
  reads,       \* reads[v]: the names the query of v refers to (an input)
  registered,  \* the views registered so far
  outcome      \* "running", "ok" or "failed"
fixVars == <<reads, registered, outcome>>

Analyzable(v, done) == reads[v] \subseteq Base \cup done

\* The views that can be registered at all: the least set closed under
\* "everything it reads is there".
Closed(S)  == \A v \in Views : Analyzable(v, S) => v \in S
Resolvable == {v \in Views : \A S \in SUBSET Views : Closed(S) => v \in S}

FixInit == reads \in [Views -> SUBSET Names] /\ registered = {} /\ outcome = "running"

Register(v) ==
  /\ outcome = "running"
  /\ v \notin registered /\ Analyzable(v, registered)
  /\ registered' = registered \cup {v}
  /\ UNCHANGED <<reads, outcome>>
Succeed ==
  /\ outcome = "running"
  /\ registered = Views
  /\ outcome' = "ok"
  /\ UNCHANGED <<reads, registered>>
Fail ==
  /\ outcome = "running"
  /\ registered # Views
  /\ \A v \in Views \ registered : ~Analyzable(v, registered)
  /\ outcome' = "failed"
  /\ UNCHANGED <<reads, registered>>

FixNext == (\E v \in Views : Register(v)) \/ Succeed \/ Fail
FixSpec == FixInit /\ [][FixNext]_fixVars
FairFixSpec == FixSpec /\ WF_fixVars(FixNext)
=============================================================================
