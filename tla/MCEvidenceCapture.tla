-------------------------- MODULE MCEvidenceCapture --------------------------
(* A run of each command; captures of one path by two producers, one of them  *)
(* at two times, and one capture of another path, which a curator may have    *)
(* misplaced.  What a path holds at the start stands for the runs before.     *)
EXTENDS EvidenceCapture

CONSTANTS p1, p2, r1, r2
Capture(p, producer, time) == [path |-> p, producer |-> producer, time |-> time]
MCDocuments == {Capture(p1, "a", 1), Capture(p1, "a", 2), Capture(p1, "b", 1), Capture(p2, "a", 1)}
==============================================================================
