----------------------------- MODULE MCSpaceSync -----------------------------
(***************************************************************************)
(* The instances of SpaceSync that TLC checks: a root folder with one      *)
(* subfolder, documents that may be in either, shortcuts in the subfolder. *)
(***************************************************************************)
EXTENDS SpaceSync

CONSTANTS root, sub, link

TwoFolders == {root, sub}
TheTree == [f \in {root, sub} |-> IF f = root THEN {root, sub} ELSE {sub}]
TheParent == [f \in {sub} |-> root]

LinkTarget == [s \in Links |-> CHOOSE d \in Docs : TRUE]
LinkPlace == [s \in Links |-> sub]

(* Incremental and full runs, with and without a limit or clean_deleted.   *)
SomeModes ==
  {[incremental |-> TRUE,  limit |-> 0, clean |-> FALSE],
   [incremental |-> TRUE,  limit |-> 1, clean |-> FALSE],
   [incremental |-> TRUE,  limit |-> 0, clean |-> TRUE],
   [incremental |-> FALSE, limit |-> 0, clean |-> FALSE]}
CleaningModes == [incremental : {TRUE}, limit : {0}, clean : {TRUE}]
(* Nothing is of interest after the last run.                              *)
BeforeTheEnd == pc # "idle" \/ runs < MaxRuns

=============================================================================
