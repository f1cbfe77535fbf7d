------------------------------- MODULE RunQueue -------------------------------
(***************************************************************************)
(* What the scheduler promises with force_queue: runs wait in line and are *)
(* served one at a time, first come first served; a run that waits may be  *)
(* withdrawn (cancelled, refused, deleted with its config) and is then not *)
(* served.  Nothing is said of what serving a run means.                   *)
(***************************************************************************)
CONSTANT Runs      \* the ids of runs

VARIABLES
  waiting,         \* the runs in line
  ahead,           \* which of them is ahead of which
  serving          \* the run being served, if any

vars == <<waiting, ahead, serving>>

Init == waiting = {} /\ ahead = {} /\ serving = {}

(* A run joins behind all the others.                                      *)
Submit(r) ==
  /\ r \notin waiting
  /\ waiting' = waiting \cup {r}
  /\ ahead' = ahead \cup (waiting \X {r})
  /\ UNCHANGED serving

Leave(S) ==
  /\ waiting' = waiting \ S
  /\ ahead' = ahead \cap (waiting' \X waiting')

(* One that nobody is ahead of is served, provided nobody else is.         *)
Serve(r) ==
  /\ r \in waiting
  /\ \A q \in waiting : <<q, r>> \notin ahead
  /\ serving = {}
  /\ serving' = {r}
  /\ Leave({r})

(* Some runs are withdrawn, wherever they stand in the line.               *)
Withdraw(S) == Leave(S) /\ UNCHANGED serving

Finish ==
  /\ serving # {}
  /\ serving' = {}
  /\ UNCHANGED <<waiting, ahead>>

(* The server stops: the line and the work in progress are lost.           *)
Reset == waiting' = {} /\ ahead' = {} /\ serving' = {}

Next ==
  \/ \E r \in Runs : Submit(r) \/ Serve(r)
  \/ \E S \in SUBSET Runs : Withdraw(S)
  \/ Finish
  \/ Reset

Spec == Init /\ [][Next]_vars

=============================================================================
