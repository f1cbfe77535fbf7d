------------------------------- MODULE MCLogin -------------------------------
(***************************************************************************)
(* One run for the three users of the token endpoint: the server's user,   *)
(* the command line, and the command line that logs in through the server. *)
(* They share no state but the endpoint, which knows them as different     *)
(* grants, so a behaviour of the run is one of any of the three.           *)
(***************************************************************************)
EXTENDS WebTokens, CliTokens, CliSessions

VARIABLE part   \* whose behaviour it is

WebFrozen     == UNCHANGED webState
CliFrozen     == UNCHANGED cliState
SessionFrozen == UNCHANGED sessionState

loginVars == <<serviceVars, webState, cliState, sessionState, part>>

(* Pairs issued in each part.                                              *)
Limit == [web |-> 3, cli |-> 2, sessions |-> 2]

LoginInit ==
  /\ ServiceInit /\ WebInit /\ CliInit /\ SessionInit
  /\ part \in {"web", "cli", "sessions"}

LoginNext ==
  /\ \/ part = "web" /\ WebNext /\ CliFrozen /\ SessionFrozen
     \/ part = "cli" /\ CliNext /\ WebFrozen /\ SessionFrozen
     \/ part = "sessions" /\ SessionNext /\ WebFrozen /\ CliFrozen
  /\ issued' <= Limit[part]
  /\ UNCHANGED part

(* Requests time out, and the scheduler, the refresh route and a thread go *)
(* on; a thread has finitely many requests to send; and the endpoint, asked*)
(* again and again by the periodic job, accepts a good token some day.     *)
(* Nothing is assumed of browsers and logins.                              *)
WebFairness ==
  /\ WF_webVars(part = "web" /\ JobAnswer)
  /\ WF_webVars(part = "web" /\ TriggerAnswer)
  /\ WF_webVars(part = "web" /\ (Dispatch \/ DispatchAnswer))
  /\ WF_webVars(part = "web" /\ RefreshAnswer)
  /\ WF_webVars(part = "web" /\ Thread)
  /\ <>[][~ (part = "web" /\ \E w \in Workers : Denied(w))]_webVars
  /\ SF_webVars(part = "web" /\ JobAsk /\ Got("job", "granted")')

(* A thread of a command goes on, and its requests time out.               *)
CliFairness ==
  \A c \in CliCallers : WF_cliVars(part = "cli" /\ CliStep(c))

LoginSpec ==
  LoginInit /\ [][LoginNext]_loginVars /\ WebFairness /\ CliFairness

(* All variables have their types, those of the parts that rest included.  *)
LoginTypeOK == WebTypeOK /\ CliTypeOK /\ SessionTypeOK

(* The instance: two requests of a run at once, two commands, one session  *)
(* of a login and two browser tabs.                                        *)
OneEach == [c \in {"p1", "p2"} |-> c]
=============================================================================
