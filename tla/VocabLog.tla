------------------------------ MODULE VocabLog ------------------------------
(***************************************************************************)
(* What the vocabulary observer promises its caller, whoever calls it      *)
(* (observer.go): each unknown fingerprint is logged at most once until a  *)
(* bounded set is full; further ones are counted, and one notice says so.  *)
(***************************************************************************)
EXTENDS Naturals, FiniteSets

CONSTANTS
  Fingerprints,     \* fingerprints of unknown plan operators
  MaxFingerprints   \* how many the observer remembers

VARIABLES
  accepted,    \* the fingerprints remembered
  logged,      \* those whose record has been written
  overflow,    \* findings counted after the set was full
  notice       \* the suppression record: "none", "due" or "written"
logVars == <<accepted, logged, overflow, notice>>

LogInit == accepted = {} /\ logged = {} /\ overflow = 0 /\ notice = "none"

Accept(f) ==
  /\ f \notin accepted /\ Cardinality(accepted) < MaxFingerprints
  /\ accepted' = accepted \cup {f}
  /\ UNCHANGED <<logged, overflow, notice>>
Write(f) ==
  /\ f \in accepted \ logged
  /\ logged' = logged \cup {f}
  /\ UNCHANGED <<accepted, overflow, notice>>
Overflow(f) ==
  /\ f \notin accepted /\ ~(Cardinality(accepted) < MaxFingerprints)
  /\ overflow' = overflow + 1
  /\ notice' = IF notice = "none" THEN "due" ELSE notice
  /\ UNCHANGED <<accepted, logged>>
WriteNotice ==
  /\ notice = "due"
  /\ notice' = "written"
  /\ UNCHANGED <<accepted, logged, overflow>>

LogNext ==
  \/ \E f \in Fingerprints : Accept(f) \/ Write(f) \/ Overflow(f)
  \/ WriteNotice

LogSpec == LogInit /\ [][LogNext]_logVars
=============================================================================
