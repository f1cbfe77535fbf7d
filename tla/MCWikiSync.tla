------------------------------ MODULE MCWikiSync ------------------------------
(***************************************************************************)
(* The instances of WikiSync that TLC checks.                              *)
(***************************************************************************)
EXTENDS WikiSync

CONSTANT branch

(* A node leads to a folder once, whatever the way to it.                  *)
FolderPaths ==
  {f \in UNION {[1..k -> Branches \cup Links] : k \in 0..Cardinality(Branches \cup Links)} :
     \A a, b \in DOMAIN f : f[a] = f[b] => a = b}
OnlyItself == [f \in Folders |-> {f}]
AllToBranch == [s \in Links |-> branch]

(* Incremental runs over all of the wiki, and full ones up to a limit.     *)
SomeModes ==
  {[incremental |-> TRUE,  limit |-> 0],
   [incremental |-> FALSE, limit |-> 1]}
IncrementalModes == [incremental : {TRUE}, limit : {0}]
(* Nothing is of interest after the last run, and what is changed before   *)
(* the first one makes another initial state.                              *)
BeforeTheEnd == (pc # "idle" \/ runs < MaxRuns) /\ (changes > 0 => runs > 0)

=============================================================================
