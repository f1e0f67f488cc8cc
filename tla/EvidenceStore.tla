----------------------------- MODULE EvidenceStore -----------------------------
(* What the capture commands promise about the retained evidence: a canonical  *)
(* path is a register that is written once.  A run either writes its document *)
(* into an empty path, or finds an equivalent observation there, or reports   *)
(* that it could do neither; only a curator empties a path.                   *)

CONSTANTS Runs,       \* runs of a capture command
          Paths,      \* canonical paths
          Documents,  \* captures: [path, producer, time]
          Foreign,    \* the bytes of a file that is not a capture
          Absent      \* no file

VARIABLES canonical,  \* what each canonical path holds
          document,   \* the capture each run has made
          verdict     \* what each run has found: "none" while it has not

storeVars == <<canonical, document, verdict>>

(* One observation may stand for another: same place, same producer.          *)
Equivalent(d, e) == d.path = e.path /\ d.producer = e.producer

StoreInit ==
    /\ canonical \in [Paths -> Documents \cup {Foreign, Absent}]
    /\ document \in [Runs -> Documents]
    /\ verdict = [r \in Runs |-> "none"]

Answer(r, v) == verdict[r] = "none" /\ verdict' = [verdict EXCEPT ![r] = v] /\ UNCHANGED document

Put(r) ==
    /\ Answer(r, "wrote")
    /\ canonical[document[r].path] = Absent
    /\ canonical' = [canonical EXCEPT ![document[r].path] = document[r]]

Find(r) ==
    /\ Answer(r, "retained")
    /\ LET held == canonical[document[r].path]
       IN  held \in Documents /\ Equivalent(held, document[r])
    /\ UNCHANGED canonical

GiveUp(r) == Answer(r, "failed") /\ UNCHANGED canonical

(* The review that the commands' message asks for. *)
Empty(p) == canonical' = [canonical EXCEPT ![p] = Absent] /\ UNCHANGED <<document, verdict>>

StoreNext == (\E r \in Runs : Put(r) \/ Find(r) \/ GiveUp(r)) \/ (\E p \in Paths : Empty(p))
StoreSpec == StoreInit /\ [][StoreNext]_storeVars
==============================================================================
