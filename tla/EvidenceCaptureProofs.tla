------------------------- MODULE EvidenceCaptureProofs -------------------------
(* For any number of runs, paths and captures, and wherever runs are killed:   *)
(* canonical files are whole, the first observation under a path stays, and   *)
(* the runs implement EvidenceStore.  The invariant carries what the order of *)
(* the file operations buys: a run that is about to link holds the whole file. *)
EXTENDS EvidenceCapture, TLAPS

USE CaptureAssumption DEF CaptureAssumption

LEMMA InitEstablishes == Init => CaptureInv
BY DEF Init, CaptureInv, CaptureTypeOK, CanonicalIsWhole, OnlyKilledRunsLitter, ProgressInv, Steps

LEMMA LinkKeeps == ASSUME CaptureInv, NEW r \in Runs, Link(r) PROVE CaptureInv'
<1>1. temporary[r] = document[r] /\ document[r] \in Documents /\ document[r].path \in Paths
    BY DEF CaptureInv, CaptureTypeOK, ProgressInv, Link
<1>2. canonical' = [canonical EXCEPT ![document[r].path] = document[r]]
    BY <1>1 DEF Link
<1>3. CaptureTypeOK'
    BY <1>1, <1>2 DEF CaptureInv, CaptureTypeOK, Link, Decide, Goto, Steps
<1>4. CanonicalIsWhole'
    BY <1>1, <1>2 DEF CaptureInv, CaptureTypeOK, CanonicalIsWhole
<1>5. OnlyKilledRunsLitter' /\ ProgressInv'
    BY DEF CaptureInv, CaptureTypeOK, OnlyKilledRunsLitter, ProgressInv, Link, Decide, Goto
<1> QED
    BY <1>3, <1>4, <1>5 DEF CaptureInv

(* The other steps of a run write no canonical path. *)
LEMMA StepKeeps == ASSUME CaptureInv, NEW r \in Runs, Step(r) PROVE CaptureInv'
<1>1. CASE CreateTemp(r)
    BY <1>1 DEF CaptureInv, CaptureTypeOK, CanonicalIsWhole, OnlyKilledRunsLitter, ProgressInv, Steps,
                CreateTemp, Goto
<1>2. CASE Write(r)
    BY <1>2 DEF CaptureInv, CaptureTypeOK, CanonicalIsWhole, OnlyKilledRunsLitter, ProgressInv, Steps,
                Write, Goto
<1>3. CASE FileError(r)
    BY <1>3 DEF CaptureInv, CaptureTypeOK, CanonicalIsWhole, OnlyKilledRunsLitter, ProgressInv, Steps,
                FileError, Decide, Goto
<1>4. CASE LinkExists(r)
    BY <1>4 DEF CaptureInv, CaptureTypeOK, CanonicalIsWhole, OnlyKilledRunsLitter, ProgressInv, Steps,
                LinkExists, Goto
<1>5. CASE Compare(r)
    BY <1>5 DEF CaptureInv, CaptureTypeOK, CanonicalIsWhole, OnlyKilledRunsLitter, ProgressInv, Steps,
                Compare, Decide, Goto
<1>6. CASE RemoveTemp(r)
    BY <1>6 DEF CaptureInv, CaptureTypeOK, CanonicalIsWhole, OnlyKilledRunsLitter, ProgressInv, Steps,
                RemoveTemp
<1>7. CASE End(r)
    BY <1>7 DEF CaptureInv, CaptureTypeOK, CanonicalIsWhole, OnlyKilledRunsLitter, ProgressInv, Steps,
                End, Goto
<1> QED
    BY <1>1, <1>2, <1>3, <1>4, <1>5, <1>6, <1>7, LinkKeeps DEF Step

LEMMA KilledKeeps == ASSUME CaptureInv, NEW r \in Runs, Killed(r) PROVE CaptureInv'
BY DEF CaptureInv, CaptureTypeOK, CanonicalIsWhole, OnlyKilledRunsLitter, ProgressInv, Steps, Killed, Goto

LEMMA CurateKeeps == ASSUME CaptureInv, NEW p \in Paths, Curate(p) PROVE CaptureInv'
BY DEF CaptureInv, CaptureTypeOK, CanonicalIsWhole, OnlyKilledRunsLitter, ProgressInv, Curate

LEMMA StutterKeeps == ASSUME CaptureInv, UNCHANGED captureVars PROVE CaptureInv'
BY DEF CaptureInv, CaptureTypeOK, CanonicalIsWhole, OnlyKilledRunsLitter, ProgressInv, captureVars

(* Canonical files are whole at every moment, and only killed runs leave      *)
(* their temporary files behind.                                              *)
THEOREM CaptureInvariant == Spec => []CaptureInv
<1>1. CaptureInv /\ [Next]_captureVars => CaptureInv'
    BY StepKeeps, KilledKeeps, CurateKeeps, StutterKeeps DEF Next
<1> QED
    BY <1>1, InitEstablishes, PTL DEF Spec

LEMMA StaysStep ==
    ASSUME CaptureInv, [Next]_captureVars
    PROVE  \A p \in Paths : canonical[p] # Absent => canonical'[p] \in {canonical[p], Absent}
<1>1. ASSUME NEW r \in Runs, Link(r), NEW p \in Paths, canonical[p] # Absent PROVE canonical'[p] = canonical[p]
    BY <1>1 DEF CaptureInv, CaptureTypeOK, Link
<1>2. ASSUME NEW q \in Paths, Curate(q), NEW p \in Paths PROVE canonical'[p] \in {canonical[p], Absent}
    BY <1>2 DEF CaptureInv, CaptureTypeOK, Curate
<1>3. ASSUME NEW r \in Runs, Step(r), ~Link(r) PROVE UNCHANGED canonical
    BY <1>3 DEF Step, CreateTemp, Write, FileError, LinkExists, Compare, RemoveTemp, End
<1>4. ASSUME NEW r \in Runs, Killed(r) PROVE UNCHANGED canonical
    BY <1>4 DEF Killed
<1>5. ASSUME UNCHANGED captureVars PROVE UNCHANGED canonical
    BY <1>5 DEF captureVars
<1> QED
    BY <1>1, <1>2, <1>3, <1>4, <1>5 DEF Next

(* No run replaces the observation that a path holds. *)
THEOREM FirstObservation == Spec => FirstObservationStays
BY CaptureInvariant, StaysStep, PTL DEF Spec, FirstObservationStays

LEMMA InitRefines == Init => Store!StoreInit
BY DEF Init, Store!StoreInit

(* Link writes the register, Compare answers from it, the steps before and    *)
(* after them are invisible.                                                  *)
LEMMA StepRefines ==
    ASSUME CaptureInv, NEW r \in Runs, Step(r)
    PROVE  [Store!StoreNext]_(Store!storeVars)
<1>1. CASE Link(r)
    <2>1. temporary[r] = document[r] /\ verdict[r] = "none"
        BY <1>1 DEF CaptureInv, ProgressInv, Link
    <2>2. Store!Put(r)
        BY <1>1, <2>1 DEF Link, Decide, Store!Put, Store!Answer
    <2> QED
        BY <2>2 DEF Store!StoreNext
<1>2. CASE Compare(r)
    <2>1. verdict[r] = "none"
        BY <1>2 DEF CaptureInv, ProgressInv, Compare
    <2>2. Store!Find(r) \/ Store!GiveUp(r)
        BY <1>2, <2>1 DEF Compare, Decide, Equivalent, Store!Find, Store!GiveUp, Store!Answer, Store!Equivalent
    <2> QED
        BY <2>2 DEF Store!StoreNext
<1>3. CASE FileError(r)
    <2>1. verdict[r] = "none"
        BY <1>3 DEF CaptureInv, ProgressInv, FileError
    <2>2. Store!GiveUp(r)
        BY <1>3, <2>1 DEF FileError, Decide, Store!GiveUp, Store!Answer
    <2> QED
        BY <2>2 DEF Store!StoreNext
<1>4. CASE CreateTemp(r) \/ Write(r) \/ LinkExists(r) \/ RemoveTemp(r) \/ End(r)
    BY <1>4 DEF CreateTemp, Write, LinkExists, RemoveTemp, End, Store!storeVars
<1> QED
    BY <1>1, <1>2, <1>3, <1>4 DEF Step

LEMMA NextRefines ==
    ASSUME CaptureInv, [Next]_captureVars
    PROVE  [Store!StoreNext]_(Store!storeVars)
<1>1. ASSUME NEW r \in Runs, Killed(r) PROVE UNCHANGED Store!storeVars
    BY <1>1 DEF Killed, Store!storeVars
<1>2. ASSUME NEW p \in Paths, Curate(p) PROVE Store!StoreNext
    BY <1>2 DEF Curate, Store!StoreNext, Store!Empty
<1>3. ASSUME UNCHANGED captureVars PROVE UNCHANGED Store!storeVars
    BY <1>3 DEF captureVars, Store!storeVars
<1> QED
    BY <1>1, <1>2, <1>3, StepRefines DEF Next

(* The runs of a capture command, killed or not, are clients of a register    *)
(* that is written once between two reviews.                                  *)
THEOREM CaptureRefinesStore == Spec => ImplementsStore
BY InitRefines, CaptureInvariant, NextRefines, PTL DEF Spec, ImplementsStore, Store!StoreSpec
==============================================================================
