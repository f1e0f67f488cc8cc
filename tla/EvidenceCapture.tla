---------------------------- MODULE EvidenceCapture ----------------------------
(* createAtomically and writeCapture of survey/cmd/infoschema-capture and      *)
(* writeCapture of survey/cmd/spanner-sys-capture: how runs of a capture       *)
(* command, in processes of their own that may be killed at any point, publish *)
(* their observations under canonical paths of one repository.                *)
(*                                                                            *)
(* A capture is [path, producer, time]: the canonical path it belongs to, the *)
(* producer identity, and everything else.  Files are what the file system    *)
(* shows to other processes; a machine that loses power is not modelled.      *)

CONSTANTS Runs, Paths, Documents, Foreign, Absent,
          Partial,         \* the bytes of a file that is being written
          EarlyRuns        \* the runs of infoschema-capture, whose
                           \* createAtomically has returned, and removed its
                           \* temporary file, before the retained file is read

ASSUME CaptureAssumption ==
    /\ \A d \in Documents : d.path \in Paths
    /\ {Foreign, Absent, Partial} \cap Documents = {}
    /\ Foreign # Absent /\ Partial # Absent /\ Partial # Foreign
    /\ EarlyRuns \subseteq Runs

VARIABLES canonical,  \* what the canonical paths hold
          temporary,  \* what each run's temporary file holds
          document,   \* the capture each run has made
          pc,         \* where each run is
          verdict     \* "wrote", "retained" or "failed" once it is known

captureVars == <<canonical, temporary, document, pc, verdict>>

Steps == {"create", "write", "link", "compare", "return", "ended", "killed"}
Equivalent(d, e) == d.path = e.path /\ d.producer = e.producer

Init ==
    /\ canonical \in [Paths -> Documents \cup {Foreign, Absent}]
    /\ document \in [Runs -> Documents]
    /\ temporary = [r \in Runs |-> Absent]
    /\ pc = [r \in Runs |-> "create"]
    /\ verdict = [r \in Runs |-> "none"]

Goto(r, step) == pc' = [pc EXCEPT ![r] = step]
Decide(r, v) == verdict' = [verdict EXCEPT ![r] = v] /\ Goto(r, "return")
------------------------------------------------------------------------------
(* os.CreateTemp never returns a file that exists. *)
CreateTemp(r) ==
    /\ pc[r] = "create"
    /\ temporary' = [temporary EXCEPT ![r] = Partial]
    /\ Goto(r, "write")
    /\ UNCHANGED <<canonical, document, verdict>>

(* Mutant of Write: a short write is not noticed. *)
WriteShort(r) ==
    /\ pc[r] = "write"
    /\ temporary' \in {temporary, [temporary EXCEPT ![r] = document[r]]}
    /\ Goto(r, "link")
    /\ UNCHANGED <<canonical, document, verdict>>

Write(r) ==
    /\ pc[r] = "write"
    /\ temporary' = [temporary EXCEPT ![r] = document[r]]
    /\ Goto(r, "link")
    /\ UNCHANGED <<canonical, document, verdict>>

(* Any of the file operations before the path is taken may fail. *)
FileError(r) ==
    /\ pc[r] \in {"create", "write", "link"}
    /\ Decide(r, "failed")
    /\ UNCHANGED <<canonical, temporary, document>>

(* Mutant of Link: os.Rename, which replaces. *)
LinkReplaces(r) ==
    /\ pc[r] = "link"
    /\ canonical' = [canonical EXCEPT ![document[r].path] = temporary[r]]
    /\ Decide(r, "wrote")
    /\ UNCHANGED <<temporary, document>>

(* os.Link: the path comes to exist with the whole file, or it existed.       *)
Link(r) ==
    /\ pc[r] = "link" /\ canonical[document[r].path] = Absent
    /\ canonical' = [canonical EXCEPT ![document[r].path] = temporary[r]]
    /\ Decide(r, "wrote")
    /\ UNCHANGED <<temporary, document>>

LinkExists(r) ==
    /\ pc[r] = "link" /\ canonical[document[r].path] # Absent
    /\ Goto(r, "compare")
    /\ UNCHANGED <<canonical, temporary, document, verdict>>

(* Mutant of Compare: the producer identity is not compared. *)
CompareByPath(r) ==
    /\ pc[r] = "compare" /\ (r \in EarlyRuns => temporary[r] = Absent)
    /\ LET held == canonical[document[r].path]
       IN  Decide(r, IF held \in Documents /\ held.path = document[r].path THEN "retained" ELSE "failed")
    /\ UNCHANGED <<canonical, temporary, document>>

(* The retained file is read, decoded and compared: it may be gone by now, or *)
(* be no capture, or a capture of another path or producer.                   *)
Compare(r) ==
    /\ pc[r] = "compare" /\ (r \in EarlyRuns => temporary[r] = Absent)
    /\ LET held == canonical[document[r].path]
       IN  Decide(r, IF held \in Documents /\ Equivalent(held, document[r]) THEN "retained" ELSE "failed")
    /\ UNCHANGED <<canonical, temporary, document>>

RemoveTemp(r) ==
    /\ pc[r] = "return" \/ (r \in EarlyRuns /\ pc[r] = "compare")
    /\ temporary[r] # Absent
    /\ temporary' = [temporary EXCEPT ![r] = Absent]
    /\ UNCHANGED <<canonical, document, pc, verdict>>

End(r) ==
    /\ pc[r] = "return" /\ temporary[r] = Absent
    /\ Goto(r, "ended")
    /\ UNCHANGED <<canonical, temporary, document, verdict>>

Killed(r) ==
    /\ pc[r] \notin {"ended", "killed"}
    /\ Goto(r, "killed")
    /\ UNCHANGED <<canonical, temporary, document, verdict>>

(* "review or remove the retained file before recapturing" *)
Curate(p) ==
    /\ canonical[p] # Absent
    /\ canonical' = [canonical EXCEPT ![p] = Absent]
    /\ UNCHANGED <<temporary, document, pc, verdict>>

Step(r) == CreateTemp(r) \/ Write(r) \/ FileError(r) \/ Link(r) \/ LinkExists(r) \/ Compare(r)
           \/ RemoveTemp(r) \/ End(r)
Next == (\E r \in Runs : Step(r) \/ Killed(r)) \/ (\E p \in Paths : Curate(p))

Spec == Init /\ [][Next]_captureVars
------------------------------------------------------------------------------
(* Type invariant: what files hold and where runs are.                        *)
CaptureTypeOK ==
    /\ canonical \in [Paths -> Documents \cup {Foreign, Absent, Partial}]
    /\ temporary \in [Runs -> Documents \cup {Absent, Partial}]
    /\ document \in [Runs -> Documents]
    /\ pc \in [Runs -> Steps]
    /\ verdict \in [Runs -> {"none", "wrote", "retained", "failed"}]

(* Nobody reading a canonical path, at any moment and whoever was killed when, *)
(* finds a file that is not whole.                                            *)
CanonicalIsWhole == \A p \in Paths : canonical[p] # Partial

(* A temporary file outlives its run only when the run was killed.            *)
OnlyKilledRunsLitter == \A r \in Runs : pc[r] = "ended" => temporary[r] = Absent

(* What the local state of a run says about the files and about its verdict.  *)
ProgressInv ==
    \A r \in Runs :
        /\ pc[r] = "link" => temporary[r] = document[r]
        /\ pc[r] = "create" => temporary[r] = Absent
        /\ pc[r] \in {"create", "write", "link", "compare"} => verdict[r] = "none"

CaptureInv == CaptureTypeOK /\ CanonicalIsWhole /\ OnlyKilledRunsLitter /\ ProgressInv

(* The first observation under a path stays until a curator removes it: no    *)
(* run, however late, replaces it.                                            *)
FirstObservationStays ==
    [][\A p \in Paths : canonical[p] # Absent => canonical'[p] \in {canonical[p], Absent}]_captureVars

(* The runs of a command are the clients of a register that is written once.  *)
Store == INSTANCE EvidenceStore
ImplementsStore == Store!StoreSpec
==============================================================================
