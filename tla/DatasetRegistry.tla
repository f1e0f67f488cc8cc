--------------------------- MODULE DatasetRegistry ---------------------------
(* What AddSpannerExternalDataset promises, without saying how: a call either  *)
(* makes every default-schema table of its Spanner source visible under all   *)
(* of its names at once, or is refused and changes nothing.  Which of the two *)
(* depends on the request and on what is visible already, and on nothing else. *)
EXTENDS ExternalDatasets

CONSTANT Requests   \* the calls that may be made

VARIABLES built,     \* the DDL script has been applied, or has failed
          visible,   \* [in, name, table]: what resolves, by case-folded place and name
          unmanaged, \* namespaces the caller installed behind the catalog's back
          decided    \* the last call and whether it was accepted

vars == <<built, visible, unmanaged, decided>>

Collides(e, f) == e.in = f.in /\ e.name = f.name /\ e.table # f.table

Admissible(r) ==
    /\ WellFormed(r)
    /\ \A t \in DefaultTables(r) : ~ColumnsCollide(t)
    /\ r.unsupported = "error" =>
         \A t \in DefaultTables(r) : \A c \in t.columns : c.kind # "unsupported"
    /\ r.named = "error" => \A t \in ToSet(r.tables) : BuiltIn(t) \/ InDefaultSchema(t)
    /\ \A e \in Entries(r) : \A f \in visible : ~(e.in = f.in /\ e.name = f.name)
    /\ \A e, f \in Entries(r) : ~Collides(e, f)
    /\ \A e \in Entries(r) : \A i \in 1 .. Len(e.in) : SubSeq(e.in, 1, i) \notin unmanaged
------------------------------------------------------------------------------
RegistryInit ==
    /\ built = FALSE
    /\ visible = {}
    /\ unmanaged = {}
    /\ decided = None

(* A statement of the script adds what it adds. *)
Declare ==
    /\ ~built
    /\ visible \subseteq visible'
    /\ UNCHANGED <<unmanaged, decided>>

Install ==
    /\ built /\ built'
    /\ unmanaged \subseteq unmanaged'
    /\ UNCHANGED <<visible, decided>>

Return(r, accepted) ==
    /\ built /\ built'
    /\ decided' = [request |-> r, accepted |-> accepted]
    /\ UNCHANGED unmanaged

Accept == \E r \in Requests : Return(r, TRUE) /\ Admissible(r) /\ visible' = visible \cup Entries(r)
Refuse == \E r \in Requests : Return(r, FALSE) /\ ~Admissible(r) /\ UNCHANGED visible

RegistrySpec == RegistryInit /\ [][Declare \/ Install \/ Accept \/ Refuse]_vars
==============================================================================
