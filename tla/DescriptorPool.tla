--------------------------- MODULE DescriptorPool ----------------------------
(***************************************************************************)
(* Proto descriptors on their way into an analyzer: the files of the given *)
(* descriptor sets are merged (LoadProtoDescriptorSetFiles, protobundle.go) *)
(* and then built, passes over them in the order of a Go map, into the pool *)
(* in which GoogleSQL finds messages and enums (googlesql_proto.go).  A     *)
(* file is [name, imports, defines, notes, accepted]: notes its source      *)
(* locations and comments, accepted whether the pool's own library takes it *)
(* once its imports are there.  Without any path there are no descriptors;  *)
(* sets that list no file are descriptors all the same, and an empty pool.  *)
(***************************************************************************)
EXTENDS Naturals, Sequences, FiniteSets

CONSTANTS
  Inputs,      \* sequences of files, as the given sets list them
  Unreadable,  \* stands in such a sequence for a set that cannot be read
  Blank,       \* the name of a file without one
  Stripped     \* the notes of a canonical file

\* What descriptor sets list is files; one that cannot be read stands for itself.
ASSUME FilesAssumption ==
  \A s \in Inputs :
    /\ s \in Seq({s[i] : i \in DOMAIN s})
    /\ \A i \in DOMAIN s : s[i] = Unreadable \/ DOMAIN s[i] = {"name", "imports", "defines", "notes", "accepted"}

VARIABLES
  input,      \* the files given
  phase,      \* what the code is doing, or how it ended
  unread,     \* files still to be merged
  merged,     \* the canonical files, by name
  remaining,  \* names of the files not in the pool
  unvisited,  \* of those, the ones this pass has not come to
  progressed, \* the pass has built a file
  pool        \* names of the files built

poolVars == <<input, phase, unread, merged, remaining, unvisited, progressed, pool>>

Canonical(file) == [file EXCEPT !.notes = Stripped]
Imports(files, n) == files[n].imports

\* protodesc.NewFiles: imports are there and acyclic, and no name is defined twice.
Linkable(files) ==
  /\ \A n \in DOMAIN files : Imports(files, n) \subseteq DOMAIN files
  /\ \A S \in SUBSET DOMAIN files : S # {} => \E n \in S : Imports(files, n) \cap S = {}
  /\ \A m, n \in DOMAIN files : m # n => files[m].defines \cap files[n].defines = {}

PoolInit ==
  /\ input \in Inputs /\ unread = input
  /\ phase \in {"merging"} \cup (IF input = << >> THEN {"none"} ELSE {})
  /\ merged = << >>
  /\ remaining = {} /\ unvisited = {} /\ progressed = FALSE /\ pool = {}

\* Mutant of Acceptable: source locations and comments are compared as well.
AcceptableAsWritten(file) ==
  /\ file # Unreadable
  /\ file.name # Blank
  /\ file.name \in DOMAIN merged => merged[file.name] = file
Acceptable(file) ==
  /\ file # Unreadable
  /\ file.name # Blank
  /\ file.name \in DOMAIN merged => merged[file.name] = Canonical(file)

MergeFile ==
  /\ phase = "merging" /\ unread # << >> /\ Acceptable(Head(unread))
  /\ LET file == Canonical(Head(unread))
     IN  merged' = [n \in DOMAIN merged \cup {file.name} |-> IF n = file.name THEN file ELSE merged[n]]
  /\ unread' = Tail(unread)
  /\ UNCHANGED <<input, phase, remaining, unvisited, progressed, pool>>
Refuse ==
  /\ phase = "merging"
  /\ IF unread = << >> THEN ~Linkable(merged) ELSE ~Acceptable(Head(unread))
  /\ phase' = "refused"
  /\ UNCHANGED <<input, unread, merged, remaining, unvisited, progressed, pool>>
BeginBuilding ==
  /\ phase = "merging" /\ unread = << >> /\ Linkable(merged)
  /\ phase' = "building"
  /\ remaining' = DOMAIN merged /\ unvisited' = DOMAIN merged /\ progressed' = FALSE
  /\ UNCHANGED <<input, unread, merged, pool>>
-----------------------------------------------------------------------------
Buildable(n) == merged[n].accepted /\ Imports(merged, n) \subseteq pool

\* One file of a pass, whichever the map gives next.
BuildFile(n) ==
  /\ phase = "building" /\ n \in unvisited /\ Buildable(n)
  /\ pool' = pool \cup {n} /\ remaining' = remaining \ {n}
  /\ unvisited' = unvisited \ {n} /\ progressed' = TRUE
  /\ UNCHANGED <<input, phase, unread, merged>>
\* Mutant of PassOver: the file is not tried again.
PassOverForGood(n) ==
  /\ phase = "building" /\ n \in unvisited /\ ~Buildable(n)
  /\ unvisited' = unvisited \ {n} /\ remaining' = remaining \ {n}
  /\ UNCHANGED <<input, phase, unread, merged, progressed, pool>>
PassOver(n) ==
  /\ phase = "building" /\ n \in unvisited /\ ~Buildable(n)
  /\ unvisited' = unvisited \ {n}
  /\ UNCHANGED <<input, phase, unread, merged, remaining, progressed, pool>>

\* Mutants of EndRound: progress is not asked for, or progress of any pass counts.
EndRoundAtOnce ==
  /\ phase = "building" /\ unvisited = {}
  /\ phase' = IF remaining = {} THEN "built" ELSE "failed"
  /\ UNCHANGED <<input, unread, merged, remaining, unvisited, progressed, pool>>
EndRoundStale ==
  /\ phase = "building" /\ unvisited = {}
  /\ phase' = IF remaining = {} THEN "built" ELSE IF progressed THEN "building" ELSE "failed"
  /\ unvisited' = IF phase' = "building" THEN remaining ELSE {}
  /\ UNCHANGED <<input, unread, merged, remaining, progressed, pool>>
EndRound ==
  /\ phase = "building" /\ unvisited = {}
  /\ phase' = IF remaining = {} THEN "built" ELSE IF progressed THEN "building" ELSE "failed"
  /\ unvisited' = remaining /\ progressed' = FALSE
  /\ UNCHANGED <<input, unread, merged, remaining, pool>>

PoolNext ==
  \/ MergeFile \/ Refuse \/ BeginBuilding \/ EndRound
  \/ \E n \in unvisited : BuildFile(n) \/ PassOver(n)
PoolSpec == PoolInit /\ [][PoolNext]_poolVars
-----------------------------------------------------------------------------
(* Properties *)

Phases == {"none", "merging", "refused", "building", "built", "failed"}
PoolTypeOK ==
  /\ phase \in Phases
  /\ remaining \subseteq DOMAIN merged /\ pool \subseteq DOMAIN merged
  /\ unvisited \subseteq remaining
  /\ progressed \in BOOLEAN

\* In the pool every file stands with all it imports, and a pool that is
\* handed out has every file of the sets.
PoolIsClosed ==
  /\ \A n \in pool : Imports(merged, n) \subseteq pool
  /\ phase = "built" => pool = DOMAIN merged

\* Whatever order the map gives, the passes end without success only for a file
\* that the pool's library refuses: files that are linked are never left over.
OnlyRefusedFilesFail ==
  phase = "failed" => \E n \in remaining : ~merged[n].accepted

\* What makes the two hold: between passes nothing is lost; within a pass that
\* has built nothing, no file passed over has become buildable.
PoolInv ==
  /\ PoolTypeOK /\ PoolIsClosed /\ OnlyRefusedFilesFail
  /\ phase \in {"none", "merging", "refused"} => pool = {} /\ remaining = {}
  /\ phase \in {"building", "built", "failed"} =>
       /\ Linkable(merged)
       /\ pool = DOMAIN merged \ remaining
  /\ phase = "building" /\ ~progressed => \A n \in remaining \ unvisited : ~Buildable(n)

\* The sets are taken or refused as a whole, whatever their order and however
\* often they repeat a file: by the files they list.
Listed == {input[i] : i \in DOMAIN input}
Consistent ==
  /\ Unreadable \notin Listed
  /\ \A f \in Listed : f.name # Blank
  /\ \A f, g \in Listed : f.name = g.name => Canonical(f) = Canonical(g)
  /\ Linkable([n \in {f.name : f \in Listed} |-> Canonical(CHOOSE f \in Listed : f.name = n)])
TakenIffConsistent == phase \notin {"none", "merging"} => (phase = "refused" <=> ~Consistent)

\* Loading ends.
PoolEnds == <>(phase \in {"none", "refused", "built", "failed"})
==============================================================================
