--------------------------- MODULE VocabObserver ----------------------------
(***************************************************************************)
(* planvocab.Observer under concurrent calls of Observe (observer.go).     *)
(* Each thread walks the findings of its plan; recordFingerprint decides   *)
(* under the mutex whether a finding is logged, and the records themselves *)
(* are written after the mutex is released.                                *)
(***************************************************************************)
EXTENDS Naturals, Sequences, FiniteSets

CONSTANTS
  Threads,          \* goroutines sharing the observer
  Free,             \* the mutex is not held
  Fingerprints,     \* fingerprints of unknown plan operators
  MaxFingerprints,  \* ObserverOptions.MaxFingerprints, made positive
  MaxFindings,      \* bound: findings of one plan
  MaxCalls          \* bound: calls of Observe one thread makes

ASSUME ObserverAssumption ==
  /\ Free \notin Threads
  /\ MaxFingerprints \in Nat \ {0}
  /\ MaxFindings \in Nat
  /\ MaxCalls \in Nat

\* What Inspect returns for a plan: findings in node order, which may repeat a
\* fingerprint.
Plans == UNION {[1..n -> Fingerprints] : n \in 0..MaxFindings}

VARIABLES
  mu,                 \* the holder of the mutex
  seen,               \* fingerprints remembered
  suppressed,         \* findings counted after seen was full
  suppressionLogged,  \* the suppression record is given out
  pc,                 \* where each thread is in Observe
  findings,           \* the findings each thread has still to handle
  verdict,            \* what recordFingerprint returned to each thread
  calls,              \* calls each thread has made
  records,            \* records[f]: finding records written for f
  notices             \* suppression records written

sharedVars == <<mu, seen, suppressed, suppressionLogged>>
vars == <<mu, seen, suppressed, suppressionLogged, pc, findings, verdict, calls, records, notices>>

Goto(t, l) == pc' = [pc EXCEPT ![t] = l]
Current(t) == Head(findings[t])
Done(t)    == Goto(t, "loop") /\ findings' = [findings EXCEPT ![t] = Tail(@)]

Init ==
  /\ mu = Free /\ seen = {} /\ suppressed = 0 /\ suppressionLogged = FALSE
  /\ pc = [t \in Threads |-> "idle"]
  /\ findings = [t \in Threads |-> <<>>]
  /\ verdict = [t \in Threads |-> "none"]
  /\ calls = [t \in Threads |-> 0]
  /\ records = [f \in Fingerprints |-> 0] /\ notices = 0

Observe(t, plan) ==
  /\ pc[t] = "idle" /\ calls[t] < MaxCalls
  /\ Goto(t, "loop")
  /\ findings' = [findings EXCEPT ![t] = plan]
  /\ calls' = [calls EXCEPT ![t] = @ + 1]
  /\ UNCHANGED <<sharedVars, verdict, records, notices>>
Return(t) ==
  /\ pc[t] = "loop" /\ findings[t] = <<>>
  /\ Goto(t, "idle")
  /\ UNCHANGED <<sharedVars, findings, verdict, calls, records, notices>>

\* Mutant of Lock: the mutex is not waited for.
LockHeld(t) ==
  /\ pc[t] = "loop" /\ findings[t] # <<>>
  /\ mu' = t /\ Goto(t, "lookup")
  /\ UNCHANGED <<seen, suppressed, suppressionLogged, findings, verdict, calls, records, notices>>

\* recordFingerprint, for the next finding.
Lock(t) ==
  /\ pc[t] = "loop" /\ findings[t] # <<>>
  /\ mu = Free
  /\ mu' = t
  /\ Goto(t, "lookup")
  /\ UNCHANGED <<seen, suppressed, suppressionLogged, findings, verdict, calls, records, notices>>

\* Mutant of Lookup: off by one at the bound.
LookupOneMore(t) ==
  /\ pc[t] = "lookup"
  /\ Goto(t, IF Current(t) \in seen THEN "unlock"
             ELSE IF Cardinality(seen) <= MaxFingerprints THEN "add" ELSE "suppress")
  /\ verdict' = [verdict EXCEPT ![t] = IF Current(t) \in seen THEN "none" ELSE @]
  /\ UNCHANGED <<sharedVars, findings, calls, records, notices>>

Lookup(t) ==
  /\ pc[t] = "lookup"
  /\ \/ Current(t) \in seen /\ Goto(t, "unlock") /\ verdict' = [verdict EXCEPT ![t] = "none"]
     \/ /\ Current(t) \notin seen /\ Cardinality(seen) < MaxFingerprints
        /\ Goto(t, "add") /\ UNCHANGED verdict
     \/ /\ Current(t) \notin seen /\ ~(Cardinality(seen) < MaxFingerprints)
        /\ Goto(t, "suppress") /\ UNCHANGED verdict
  /\ UNCHANGED <<sharedVars, findings, calls, records, notices>>

\* Mutants of Add: the fingerprint is not remembered, or not to be logged.
AddForgets(t) ==
  /\ pc[t] = "add" /\ Goto(t, "unlock")
  /\ verdict' = [verdict EXCEPT ![t] = "finding"]
  /\ UNCHANGED <<sharedVars, findings, calls, records, notices>>
AddSilently(t) ==
  /\ pc[t] = "add" /\ Goto(t, "unlock")
  /\ seen' = seen \cup {Current(t)}
  /\ verdict' = [verdict EXCEPT ![t] = "none"]
  /\ UNCHANGED <<mu, suppressed, suppressionLogged, findings, calls, records, notices>>

Add(t) ==
  /\ pc[t] = "add"
  /\ seen' = seen \cup {Current(t)}
  /\ verdict' = [verdict EXCEPT ![t] = "finding"]
  /\ Goto(t, "unlock")
  /\ UNCHANGED <<mu, suppressed, suppressionLogged, findings, calls, records, notices>>

\* Mutant of Suppress: every suppressed finding gives a notice.
SuppressAlwaysTold(t) ==
  /\ pc[t] = "suppress" /\ Goto(t, "unlock")
  /\ suppressed' = suppressed + 1 /\ suppressionLogged' = TRUE
  /\ verdict' = [verdict EXCEPT ![t] = "notice"]
  /\ UNCHANGED <<mu, seen, findings, calls, records, notices>>

Suppress(t) ==
  /\ pc[t] = "suppress"
  /\ suppressed' = suppressed + 1
  /\ verdict' = [verdict EXCEPT ![t] = IF suppressionLogged THEN "none" ELSE "notice"]
  /\ suppressionLogged' = TRUE
  /\ Goto(t, "unlock")
  /\ UNCHANGED <<mu, seen, findings, calls, records, notices>>

\* Mutant of Unlock: the mutex is kept.
UnlockForgotten(t) ==
  /\ pc[t] = "unlock" /\ Goto(t, "log")
  /\ UNCHANGED <<sharedVars, findings, verdict, calls, records, notices>>

Unlock(t) ==
  /\ pc[t] = "unlock"
  /\ mu' = Free
  /\ Goto(t, "log")
  /\ UNCHANGED <<seen, suppressed, suppressionLogged, findings, verdict, calls, records, notices>>

\* Back in Observe, without the mutex: write what was decided, if anything.
LogNotice(t) ==
  /\ pc[t] = "log" /\ verdict[t] = "notice"
  /\ notices' = notices + 1
  /\ Done(t)
  /\ UNCHANGED <<sharedVars, verdict, calls, records>>
LogFinding(t) ==
  /\ pc[t] = "log" /\ verdict[t] = "finding"
  /\ records' = [records EXCEPT ![Current(t)] = @ + 1]
  /\ Done(t)
  /\ UNCHANGED <<sharedVars, verdict, calls, notices>>
Skip(t) ==
  /\ pc[t] = "log" /\ verdict[t] = "none"
  /\ Done(t)
  /\ UNCHANGED <<sharedVars, verdict, calls, records, notices>>

Step(t) ==
  \/ Return(t) \/ Lookup(t) \/ Add(t) \/ Suppress(t) \/ Unlock(t)
  \/ LogNotice(t) \/ LogFinding(t) \/ Skip(t)
Next == \E t \in Threads : Step(t) \/ Lock(t) \/ \E p \in Plans : Observe(t, p)

Spec == Init /\ [][Next]_vars

\* A goroutine inside Observe keeps running, and sync.Mutex hands the lock to
\* a waiter that has waited long enough; nobody is obliged to call Observe.
Fairness == \A t \in Threads : WF_vars(Step(t)) /\ SF_vars(Lock(t))
FairSpec == Spec /\ Fairness

-----------------------------------------------------------------------------
(* Properties *)

Critical == {"lookup", "add", "suppress", "unlock"}
Steps    == {"idle", "loop", "log"} \cup Critical

TypeOK ==
  /\ mu \in Threads \cup {Free}
  /\ seen \subseteq Fingerprints /\ IsFiniteSet(seen)
  /\ suppressed \in Nat /\ suppressionLogged \in BOOLEAN
  /\ pc \in [Threads -> Steps]
  /\ findings \in [Threads -> Seq(Fingerprints)]
  /\ verdict \in [Threads -> {"none", "finding", "notice"}]
  /\ calls \in [Threads -> 0..MaxCalls]
  /\ records \in [Fingerprints -> Nat] /\ notices \in Nat

\* "logs each unknown fingerprint at most once": whatever the interleaving, no
\* fingerprint gets two records, and none is logged that is not remembered.
LoggedAtMostOnce ==
  \A f \in Fingerprints : records[f] <= 1 /\ (records[f] > 0 => f \in seen)

\* "until its bounded set is full": the set never outgrows its bound, and
\* nothing is suppressed while there is room.
BoundedSet ==
  /\ Cardinality(seen) <= MaxFingerprints
  /\ suppressed > 0 => Cardinality(seen) = MaxFingerprints

\* "one suppression record is logged": at most one, and only for a finding
\* that was counted.
OneNotice == notices <= 1 /\ (notices = 1 => suppressed > 0)

\* What makes the three hold, and is inductive: the mutex is held by the thread
\* between Lock and Unlock; what it looked up is still so when it acts on it;
\* and of the records decided but not written yet, which other threads cannot
\* see, no two are of one fingerprint, none is of one already written, and at
\* most one is the notice.
Pending(t, v) == pc[t] \in {"unlock", "log"} /\ verdict[t] = v
MutexInv == \A t \in Threads : mu = t <=> pc[t] \in Critical
DecisionInv ==
  \A t \in Threads :
    /\ pc[t] \in Critical \cup {"log"} => findings[t] # <<>>
    /\ pc[t] = "add" => Current(t) \notin seen /\ Cardinality(seen) < MaxFingerprints
    /\ pc[t] = "suppress" => Current(t) \notin seen /\ Cardinality(seen) = MaxFingerprints
RecordInv ==
  \A t \in Threads : Pending(t, "finding") =>
    /\ Current(t) \in seen /\ records[Current(t)] = 0
    /\ \A u \in Threads \ {t} : Pending(u, "finding") => Current(u) # Current(t)
NoticeInv ==
  /\ suppressionLogged <=> suppressed > 0
  /\ \A t \in Threads : Pending(t, "notice") =>
       /\ suppressionLogged /\ notices = 0
       /\ \A u \in Threads \ {t} : ~Pending(u, "notice")
ObserverInv ==
  /\ TypeOK /\ MutexInv /\ DecisionInv /\ RecordInv /\ NoticeInv
  /\ LoggedAtMostOnce /\ BoundedSet /\ OneNotice

\* The observer shows its callers what VocabLog promises.
Written == {f \in Fingerprints : records[f] > 0}
Notice ==
  IF notices > 0 THEN "written" ELSE IF suppressionLogged THEN "due" ELSE "none"
Log == INSTANCE VocabLog
  WITH accepted <- seen, logged <- Written, overflow <- suppressed, notice <- Notice
RefinesLog == Log!LogSpec

\* A remembered fingerprint does get its record, and a suppressed finding does
\* lead to the notice, although both are written after the mutex is released.
RememberedIsLogged ==
  /\ \A f \in Fingerprints : f \in seen ~> records[f] = 1
  /\ suppressed > 0 ~> notices = 1
=============================================================================
