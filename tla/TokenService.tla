---------------------------- MODULE TokenService ----------------------------
(***************************************************************************)
(* Feishu's token endpoint as the code uses it (web/auth.py,               *)
(* web/sync_service.py, cli_oauth.py): a code buys a pair of tokens, a     *)
(* refresh token buys the next pair and is used up by it.  A pair is named *)
(* by the number of its issue.  An answer is in flight between the request *)
(* of a caller and the code that stores or drops it; "taken" is the answer *)
(* of a caller that stores it in several steps.                            *)
(***************************************************************************)
EXTENDS Integers, FiniteSets

CONSTANTS
  Callers,      \* whoever sends requests to the endpoint
  Nobody,       \* stands for no caller
  MaxGrants,    \* bound: pairs that are issued
  MaxLosses     \* bound: answers that get lost after the endpoint has acted

ASSUME ServiceAssumption ==
  /\ Nobody \notin Callers
  /\ MaxGrants \in Nat
  /\ MaxLosses \in Nat

Grants  == 1..MaxGrants
NoGrant == 0

VARIABLES
  issued,       \* how many pairs were issued
  usable,       \* the pairs whose refresh token is still accepted
  age,          \* [Grants -> age of the access token]
  answer,       \* [Callers -> Answer]: what is on its way to each caller
  usedBy,       \* [Grants -> who has used up the refresh token] (history)
  lost          \* refresh tokens used up for a pair that was lost: its answer
                \* was, or its writing failed or met another writing (history)

serviceVars == <<issued, usable, age, answer, usedBy, lost>>

(* "due" is within token_refresh_margin_minutes of its end.                *)
Ages   == {"fresh", "due", "expired"}
Answer == [state : {"none", "granted", "taken", "refused", "failed"},
           sent : Grants \cup {NoGrant}, got : Grants \cup {NoGrant}]
NoAnswer == [state |-> "none", sent |-> NoGrant, got |-> NoGrant]

ServiceTypeOK ==
  /\ issued \in 0..MaxGrants
  /\ usable \subseteq 1..issued
  /\ age \in [Grants -> Ages]
  /\ answer \in [Callers -> Answer]
  /\ usedBy \in [Grants -> Callers \cup {Nobody}]
  /\ lost \subseteq Grants \ usable

ServiceInit ==
  /\ issued = 0
  /\ usable = {}
  /\ age = [g \in Grants |-> "fresh"]
  /\ answer = [c \in Callers |-> NoAnswer]
  /\ usedBy = [g \in Grants |-> Nobody]
  /\ lost = {}

Stale(g)   == g # NoGrant /\ age[g] # "fresh"
Expired(g) == g # NoGrant /\ age[g] = "expired"

Free(c)    == answer[c].state = "none"
Got(c, st) == answer[c].state = st

(* c has, or is about to have, the successor of the token it has sent.     *)
Replaces(c) == Got(c, "granted") \/ Got(c, "taken")

Answers(c, st, sent, got) ==
  answer' = [answer EXCEPT ![c] = [state |-> st, sent |-> sent, got |-> got]]

Issue == issued < MaxGrants /\ issued' = issued + 1

(* The request of c fails on its way.                                      *)
Fails(c) ==
  /\ Free(c)
  /\ Answers(c, "failed", NoGrant, NoGrant)
  /\ UNCHANGED <<issued, usable, age, usedBy, lost>>

(* The request of c with refresh token g.  Its answer arrives later, or    *)
(* is lost; the caller sees a lost answer as a failed request.             *)
Ask(c, g) ==
  \/ /\ Free(c)
     /\ g \in usable
     /\ Issue
     /\ usable' = (usable \ {g}) \cup {issued'}
     /\ usedBy' = [usedBy EXCEPT ![g] = c]
     /\ \/ Answers(c, "granted", g, issued') /\ UNCHANGED lost
        \/ /\ Cardinality(lost) < MaxLosses
           /\ Answers(c, "failed", NoGrant, NoGrant)
           /\ lost' = lost \cup {g}
     /\ UNCHANGED age
  \/ /\ Free(c)
     /\ g \notin usable
     /\ Answers(c, "refused", g, NoGrant)
     /\ UNCHANGED <<issued, usable, age, usedBy, lost>>
  \/ Fails(c)

(* The request of c with an authorization code; one that fails changes     *)
(* nothing.                                                                *)
AskWithCode(c) ==
  /\ Free(c)
  /\ Issue
  /\ usable' = usable \cup {issued'}
  /\ Answers(c, "granted", NoGrant, issued')
  /\ UNCHANGED <<age, usedBy, lost>>

(* c has dealt with its answer.                                            *)
Settle(c) ==
  /\ answer' = [answer EXCEPT ![c] = NoAnswer]
  /\ UNCHANGED <<issued, usable, age, usedBy, lost>>

(* The processes of `cs` die, or fail to store what they were granted:     *)
(* what was on its way to them is lost.                                    *)
Forget(cs) ==
  /\ answer' = [c \in Callers |-> IF c \in cs THEN NoAnswer ELSE answer[c]]
  /\ lost' = (lost \cup {answer[c].sent : c \in {d \in cs : Replaces(d)}}) \ {NoGrant}
  /\ UNCHANGED <<issued, usable, age, usedBy>>

(* Time passes for the access token of g.                                  *)
GrowOld(g) ==
  /\ g \in 1..issued
  /\ \/ age[g] = "fresh" /\ age' = [age EXCEPT ![g] = "due"]
     \/ age[g] = "due"   /\ age' = [age EXCEPT ![g] = "expired"]
  /\ UNCHANGED <<issued, usable, answer, usedBy, lost>>

(* A token kept by a holder is alive, or the caller who used it up has its *)
(* successor coming or in hand, or that one was lost.                      *)
Redeemable(g) ==
  \/ g \in usable
  \/ g \in lost
  \/ \E c \in Callers : Replaces(c) /\ answer[c].sent = g

-----------------------------------------------------------------------------
(* Properties.                                                             *)

(* Whoever presents a refresh token is refused only because another has    *)
(* used it up, or its own request did and the answer or its writing was    *)
(* lost: no session, thread or command comes back with a token that it has *)
(* itself exchanged, and is marked unauthorised or sent to the browser for *)
(* nothing.                                                                *)
RefusalHasCause ==
  \A c \in Callers :
    Got(c, "refused") /\ answer[c].sent # NoGrant =>
      answer[c].sent \in lost \/ usedBy[answer[c].sent] \notin {c, Nobody}

=============================================================================
