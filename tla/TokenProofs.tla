------------------------------ MODULE TokenProofs ------------------------------
(***************************************************************************)
(* What TLAPS proves of the users of the token endpoint that keep pairs:   *)
(* the web server (WebTokens) and the command line (CliTokens), for any    *)
(* number of threads and commands and without the bounds TLC needs; and of *)
(* the three users together, with the one that has proofs of its own       *)
(* (CliSessionsProofs).                                                    *)
(***************************************************************************)
EXTENDS MCLogin, CliSessionsProofs, TLAPS

-----------------------------------------------------------------------------
(* The endpoint, and what is on its way from it.                           *)

AnswerTypes ==
  /\ issued \in 0..MaxGrants
  /\ usable \subseteq 1..issued
  /\ age \in [Grants -> Ages]
  /\ answer \in [Callers -> Answer]
  /\ usedBy \in [Grants -> Callers \cup {Nobody}]
  /\ lost \subseteq (1..issued) \ usable

(* A pair on its way is good, and what it was bought with was used up by   *)
(* the caller it is on its way to.                                         *)
OnItsWay(c) ==
  /\ Got(c, "granted") => answer[c].got \in usable
  /\ Replaces(c) /\ answer[c].sent # NoGrant =>
       answer[c].sent \in (1..issued) \ usable /\ usedBy[answer[c].sent] = c
  /\ Got(c, "refused") => answer[c].sent \in (1..issued) \ usable

OnTheWay == \A c \in Callers : OnItsWay(c)

(* No pair is on its way to two callers.                                   *)
OnItsOwnWay ==
  \A c, d \in Callers :
    Got(c, "granted") /\ Got(d, "granted") /\ answer[c].got = answer[d].got => c = d

UsedBySomebody == \A g \in (1..issued) \ usable : usedBy[g] # Nobody

ServiceInv == AnswerTypes /\ OnTheWay /\ OnItsOwnWay /\ UsedBySomebody /\ RefusalHasCause

(* The pair of g is not on its way, as whoever holds g needs it to be.     *)
Secret(g) == \A c \in Callers : Got(c, "granted") => answer[c].got # g

(* What no step of anybody undoes.                                         *)
Remembers ==
  /\ issued <= issued'
  /\ \A g \in 0..issued : Secret(g) => Secret(g)'
  /\ \A g \in (1..issued) \ usable : g \notin usable' /\ usedBy'[g] = usedBy[g]
  /\ lost \subseteq lost'

LEMMA GrantTypes ==
  ASSUME AnswerTypes
  PROVE  /\ issued \in Nat /\ 0..issued \subseteq Grants \cup {NoGrant} /\ 1..issued \subseteq Grants
         /\ \A c \in Callers : /\ answer[c] \in Answer
                               /\ answer[c].sent \in Grants \cup {NoGrant}
                               /\ answer[c].got \in Grants \cup {NoGrant}
         /\ ServiceTypeOK
BY ServiceAssumption DEF AnswerTypes, Grants, NoGrant, Answer, ServiceTypeOK

(* One answer is put where there was none.                                 *)
LEMMA AnswersDoes ==
  ASSUME AnswerTypes, NEW c \in Callers, NEW st \in {"none", "granted", "taken", "refused", "failed"},
         NEW s \in Grants \cup {NoGrant}, NEW g \in Grants \cup {NoGrant}, Answers(c, st, s, g)
  PROVE  /\ answer' \in [Callers -> Answer]
         /\ answer'[c].state = st /\ answer'[c].sent = s /\ answer'[c].got = g
         /\ \A d \in Callers \ {c} : answer'[d] = answer[d]
<1> DEFINE a == [state |-> st, sent |-> s, got |-> g]
<1>1. a \in Answer /\ a.state = st /\ a.sent = s /\ a.got = g
  BY DEF Answer
<1>2. answer' = [answer EXCEPT ![c] = a]
  BY DEF Answers
<1> HIDE DEF a
<1> QED
  BY <1>1, <1>2 DEF AnswerTypes

(* What an answer that is no pair changes, the rest of the endpoint as it  *)
(* was.                                                                    *)
LEMMA NoPairKeeps ==
  ASSUME ServiceInv, NEW c \in Callers, UNCHANGED <<issued, usable, age, usedBy>>,
         lost \subseteq lost', lost' \subseteq (1..issued) \ usable,
         answer' \in [Callers -> Answer], answer'[c].state # "granted",
         \A d \in Callers \ {c} : answer'[d] = answer[d],
         OnItsWay(c)',
         answer'[c].state = "refused" /\ answer'[c].sent # NoGrant =>
           answer'[c].sent \in lost \/ usedBy[answer'[c].sent] \notin {c, Nobody}
  PROVE  ServiceInv' /\ Remembers
<1> USE DEF ServiceInv
<1>1. AnswerTypes'
  BY DEF AnswerTypes
<1>2. OnTheWay'
  <2>1. ASSUME NEW d \in Callers \ {c} PROVE OnItsWay(d)'
    BY <2>1 DEF OnTheWay, OnItsWay, Got, Replaces
  <2> QED
    BY <2>1 DEF OnTheWay
<1>3. OnItsOwnWay'
  BY DEF OnItsOwnWay, Got
<1>4. UsedBySomebody'
  BY DEF UsedBySomebody
<1>5. RefusalHasCause'
  BY DEF RefusalHasCause, Got
<1>6. Remembers
  <2>1. issued <= issued'
    BY GrantTypes
  <2> QED
    BY <2>1 DEF Remembers, Secret, Got
<1> QED
  BY <1>1, <1>2, <1>3, <1>4, <1>5, <1>6

(* A new pair is on its way to c, bought with g or with a code.            *)
LEMMA IssueKeeps ==
  ASSUME ServiceInv, NEW c \in Callers, NEW g \in usable \cup {NoGrant}, Secret(g),
         Free(c), Issue, usable' = (usable \ {g}) \cup {issued'},
         IF g = NoGrant THEN usedBy' = usedBy ELSE usedBy' = [usedBy EXCEPT ![g] = c],
         \/ Answers(c, "granted", g, issued') /\ UNCHANGED lost
         \/ g # NoGrant /\ Answers(c, "failed", NoGrant, NoGrant) /\ lost' = lost \cup {g},
         UNCHANGED age
  PROVE  /\ ServiceInv' /\ Remembers
         /\ \A d \in Callers \ {c} : answer'[d] = answer[d]
         /\ \A h \in 1..issued : Redeemable(h) => Redeemable(h)'
<1> USE DEF ServiceInv, NoGrant
<1>1. /\ issued \in Nat /\ issued' = issued + 1 /\ issued' \in 1..MaxGrants
      /\ usable \subseteq 1..issued
      /\ 1..issued \subseteq 1..issued' /\ issued' \notin 1..issued
  BY ServiceAssumption, GrantTypes DEF Issue, AnswerTypes
<1>2. usable' \subseteq 1..issued' /\ issued' \in usable'
  BY <1>1
<1>3. g \in Grants \cup {NoGrant} /\ issued' \in Grants \cup {NoGrant} /\ c # Nobody
  BY <1>1, GrantTypes, ServiceAssumption DEF Grants
<1>4. /\ answer' \in [Callers -> Answer]
      /\ \A d \in Callers \ {c} : answer'[d] = answer[d]
      /\ \/ /\ answer'[c].state = "granted" /\ answer'[c].sent = g /\ answer'[c].got = issued'
            /\ lost' = lost
         \/ g # NoGrant /\ answer'[c].state = "failed" /\ lost' = lost \cup {g}
  BY SMTT(30), <1>3, AnswersDoes
<1>5. /\ usedBy' \in [Grants -> Callers \cup {Nobody}]
      /\ g # NoGrant => usedBy'[g] = c
      /\ \A h \in (1..issued) \ {g} : usedBy'[h] = usedBy[h]
  BY <1>1, GrantTypes DEF AnswerTypes
<1>6. \A d \in Callers : Got(d, "granted") => answer[d].got \in usable \ {g} /\ d # c
  BY DEF Secret, OnTheWay, OnItsWay, Free, Got, Replaces
<1>7. AnswerTypes'
  <2>1. lost' \subseteq (1..issued') \ usable'
    BY <1>1, <1>4 DEF AnswerTypes
  <2> QED
    BY <1>1, <1>2, <1>4, <1>5, <2>1 DEF AnswerTypes
<1>8. OnTheWay'
  <2>1. OnItsWay(c)'
    BY <1>1, <1>2, <1>4, <1>5 DEF OnItsWay, Got, Replaces
  <2>2. ASSUME NEW d \in Callers \ {c} PROVE OnItsWay(d)'
    <3>1. Got(d, "granted") => answer[d].got \in usable'
      BY <1>6
    <3>2. \A h \in (1..issued) \ usable :
            h \in (1..issued') \ usable' /\ usedBy'[h] = usedBy[h]
      BY <1>1, <1>5
    <3> QED
      BY <1>4, <3>1, <3>2 DEF OnTheWay, OnItsWay, Got, Replaces
  <2> QED
    BY <2>1, <2>2 DEF OnTheWay
<1>9. OnItsOwnWay'
  <2>1. \A d \in Callers : Got(d, "granted") => answer[d].got # issued'
    BY <1>1, <1>6
  <2> QED
    BY <1>4, <2>1 DEF OnItsOwnWay, Got
<1>10. UsedBySomebody'
  <2>1. ASSUME NEW h \in (1..issued') \ usable' PROVE usedBy'[h] # Nobody
    <3>1. h \in 1..issued /\ (h = g \/ h \notin usable)
      BY <1>1, <1>2, <2>1
    <3> QED
      BY <1>1, <1>3, <1>5, <3>1 DEF UsedBySomebody
  <2> QED
    BY <2>1 DEF UsedBySomebody
<1>11. RefusalHasCause'
  <2>1. ASSUME NEW d \in Callers \ {c}, Got(d, "refused"), answer[d].sent # NoGrant
        PROVE  answer[d].sent \in lost' \/ usedBy'[answer[d].sent] \notin {d, Nobody}
    <3>1. answer[d].sent \in (1..issued) \ {g}
      BY <2>1 DEF OnTheWay, OnItsWay
    <3> QED
      BY <1>4, <1>5, <2>1, <3>1 DEF RefusalHasCause
  <2> QED
    BY <1>4, <2>1 DEF RefusalHasCause, Got
<1>12. Remembers
  <2>1. \A h \in 0..issued : Secret(h) => Secret(h)'
    BY <1>1, <1>4 DEF Secret, Got
  <2>2. issued <= issued' /\ lost \subseteq lost'
    BY <1>1, <1>4
  <2> QED
    BY <1>1, <1>5, <2>1, <2>2 DEF Remembers
<1>13. ASSUME NEW h \in 1..issued, Redeemable(h) PROVE Redeemable(h)'
  <2>1. CASE h = g
    <3>1. h # NoGrant
      BY <1>1
    <3> QED
      BY <1>4, <2>1, <3>1 DEF Redeemable, Got, Replaces
  <2>2. CASE h # g /\ (h \in usable \/ h \in lost)
    BY <1>4, <2>2 DEF Redeemable
  <2>3. CASE \E d \in Callers : Replaces(d) /\ answer[d].sent = h
    BY <1>4, <2>3 DEF Redeemable, Free, Got, Replaces
  <2> QED
    BY <1>13, <2>1, <2>2, <2>3 DEF Redeemable
<1> QED
  BY <1>4, <1>7, <1>8, <1>9, <1>10, <1>11, <1>12, <1>13

(* A refresh token that is kept by somebody is presented: it is good, or   *)
(* its successor is lost, or somebody else has used it up.                 *)
LEMMA AskKeeps ==
  ASSUME ServiceInv, NEW c \in Callers, NEW g \in 1..issued, Secret(g),
         g \in usable \cup lost \/ usedBy[g] # c, Ask(c, g)
  PROVE  /\ ServiceInv' /\ Remembers
         /\ \A h \in 1..issued : Redeemable(h) => Redeemable(h)'
         /\ \A d \in Callers \ {c} : answer'[d] = answer[d]
<1>1. AnswerTypes /\ NoGrant \in Grants \cup {NoGrant} /\ g \in Grants \cup {NoGrant} /\ g # NoGrant
  BY GrantTypes DEF ServiceInv, NoGrant
<1>2. Free(c)
  BY DEF Ask, Fails
<1>3. ASSUME ServiceInv' /\ Remembers, usable' = usable, lost' = lost,
             \A d \in Callers \ {c} : answer'[d] = answer[d]
      PROVE  \A h \in 1..issued : Redeemable(h) => Redeemable(h)'
  BY <1>2, <1>3 DEF Redeemable, Free, Got, Replaces
<1>4. CASE g \in usable /\ ~Fails(c)
  <2>1. /\ Issue /\ usable' = (usable \ {g}) \cup {issued'}
        /\ usedBy' = [usedBy EXCEPT ![g] = c]
        /\ \/ Answers(c, "granted", g, issued') /\ UNCHANGED lost
           \/ Answers(c, "failed", NoGrant, NoGrant) /\ lost' = lost \cup {g}
        /\ UNCHANGED age
    BY <1>4 DEF Ask
  <2> QED
    BY <1>1, <1>2, <1>4, <2>1, IssueKeeps
<1>5. CASE Fails(c)
  <2>1. Answers(c, "failed", NoGrant, NoGrant) /\ UNCHANGED <<issued, usable, age, usedBy, lost>>
    BY <1>5 DEF Fails
  <2>2. /\ answer' \in [Callers -> Answer] /\ answer'[c].state = "failed"
        /\ \A d \in Callers \ {c} : answer'[d] = answer[d]
    BY <1>1, <2>1, AnswersDoes
  <2>3. ServiceInv' /\ Remembers
    BY <2>1, <2>2, NoPairKeeps DEF ServiceInv, AnswerTypes, OnItsWay, Got, Replaces
  <2> QED
    BY <1>3, <2>1, <2>2, <2>3
<1>6. CASE g \notin usable /\ ~Fails(c)
  <2>1. Answers(c, "refused", g, NoGrant) /\ UNCHANGED <<issued, usable, age, usedBy, lost>>
    BY <1>6 DEF Ask
  <2>2. /\ answer' \in [Callers -> Answer]
        /\ answer'[c].state = "refused" /\ answer'[c].sent = g
        /\ \A d \in Callers \ {c} : answer'[d] = answer[d]
    BY <1>1, <2>1, AnswersDoes
  <2>3. g \in lost \/ usedBy[g] \notin {c, Nobody}
    BY <1>6 DEF ServiceInv, UsedBySomebody
  <2>4. ServiceInv' /\ Remembers
    BY <1>6, <2>1, <2>2, <2>3, NoPairKeeps DEF ServiceInv, AnswerTypes, OnItsWay, Got, Replaces
  <2> QED
    BY <1>3, <2>1, <2>2, <2>4
<1> QED
  BY <1>4, <1>5, <1>6

(* Only the refresh token that is presented is used up, by who presents it. *)
LEMMA AskUses ==
  ASSUME ServiceInv, NEW c \in Callers, NEW g \in 1..issued, Ask(c, g)
  PROVE  /\ \A h \in usable : h \in usable' \/ (h = g /\ usedBy'[h] = c)
         /\ ~Got(c, "taken")'
         /\ Got(c, "granted")' => answer'[c].sent = g
<1>1. \A h \in usable : h \in usable' \/ (h = g /\ usedBy'[h] = c)
  BY GrantTypes DEF Ask, Fails, ServiceInv, AnswerTypes
<1>2. \E st \in {"granted", "failed", "refused"} : \E s, t :
        Answers(c, st, s, t) /\ (st = "granted" => s = g)
  BY DEF Ask, Fails
<1> QED
  BY <1>1, <1>2 DEF Answers, Got, ServiceInv, AnswerTypes

LEMMA AskWithCodeKeeps ==
  ASSUME ServiceInv, NEW c \in Callers, AskWithCode(c)
  PROVE  /\ ServiceInv' /\ Remembers
         /\ \A h \in 1..issued : Redeemable(h) => Redeemable(h)'
         /\ answer'[c].state = "granted" /\ answer'[c].sent = NoGrant
         /\ \A d \in Callers \ {c} : answer'[d] = answer[d]
<1>1. /\ Free(c) /\ Issue /\ Answers(c, "granted", NoGrant, issued')
      /\ usable' = (usable \ {NoGrant}) \cup {issued'}
      /\ UNCHANGED <<age, usedBy, lost>>
  BY DEF AskWithCode, ServiceInv, AnswerTypes, NoGrant
<1>2. Secret(NoGrant)
  BY DEF Secret, ServiceInv, OnTheWay, OnItsWay, AnswerTypes, NoGrant
<1>3. issued' \in Grants
  BY <1>1, ServiceAssumption DEF Issue, ServiceInv, AnswerTypes, Grants
<1>4. /\ answer'[c].state = "granted" /\ answer'[c].sent = NoGrant
      /\ \A d \in Callers \ {c} : answer'[d] = answer[d]
  BY <1>1, <1>3, AnswersDoes DEF ServiceInv
<1>5. ServiceInv' /\ Remembers /\ \A h \in 1..issued : Redeemable(h) => Redeemable(h)'
  BY <1>1, <1>2, IssueKeeps
<1> QED
  BY <1>4, <1>5

(* Answers are dealt with or dropped: what else is told of a pair that is  *)
(* not recorded as lost goes with it.                                      *)
LEMMA DropKeeps ==
  ASSUME ServiceInv, NEW cs \in SUBSET Callers,
         answer' = [c \in Callers |-> IF c \in cs THEN NoAnswer ELSE answer[c]],
         UNCHANGED <<issued, usable, age, usedBy>>,
         lost \subseteq lost', lost' \subseteq (1..issued) \ usable
  PROVE  /\ ServiceInv' /\ Remembers
         /\ \A h \in 1..issued :
              Redeemable(h) =>
                \/ Redeemable(h)'
                \/ \E c \in cs : Replaces(c) /\ answer[c].sent = h /\ h \notin lost'
         /\ \A c \in cs : /\ \A g : Got(c, "granted") /\ answer[c].got = g => Secret(g)'
                          /\ ~Got(c, "granted")'
         /\ \A d \in Callers : ~Got(d, "none")' => answer'[d] = answer[d] /\ d \notin cs
<1> USE DEF ServiceInv
<1>1. NoAnswer \in Answer /\ NoAnswer.state = "none" /\ answer \in [Callers -> Answer]
  BY DEF NoAnswer, Answer, NoGrant, AnswerTypes
<1>2. /\ answer' \in [Callers -> Answer]
      /\ \A c \in cs : answer'[c].state = "none"
      /\ \A d \in Callers \ cs : answer'[d] = answer[d]
  BY <1>1
<1>3. AnswerTypes'
  BY <1>2 DEF AnswerTypes
<1>4. OnTheWay'
  <2>1. ASSUME NEW d \in Callers \ cs PROVE OnItsWay(d)'
    BY <1>2, <2>1 DEF OnTheWay, OnItsWay, Got, Replaces
  <2>2. ASSUME NEW d \in cs PROVE OnItsWay(d)'
    BY <1>2, <2>2 DEF OnItsWay, Got, Replaces
  <2> QED
    BY <2>1, <2>2 DEF OnTheWay
<1>5. OnItsOwnWay' /\ UsedBySomebody'
  BY <1>2 DEF OnItsOwnWay, UsedBySomebody, Got
<1>6. RefusalHasCause'
  BY <1>2 DEF RefusalHasCause, Got
<1>7. Remembers
  <2>1. issued <= issued'
    BY GrantTypes
  <2> QED
    BY <1>2, <2>1 DEF Remembers, Secret, Got
<1>8. \A h \in 1..issued :
        Redeemable(h) =>
          \/ Redeemable(h)'
          \/ \E c \in cs : Replaces(c) /\ answer[c].sent = h /\ h \notin lost'
  BY <1>2 DEF Redeemable, Got, Replaces
<1>9. \A c \in cs : /\ \A g : Got(c, "granted") /\ answer[c].got = g => Secret(g)'
                    /\ ~Got(c, "granted")'
  BY <1>2 DEF OnItsOwnWay, Secret, Got
<1>10. \A d \in Callers : ~Got(d, "none")' => answer'[d] = answer[d] /\ d \notin cs
  BY <1>2 DEF Got
<1> QED
  BY <1>3, <1>4, <1>5, <1>6, <1>7, <1>8, <1>9, <1>10

LEMMA SettleKeeps ==
  ASSUME ServiceInv, NEW c \in Callers, Settle(c)
  PROVE  /\ ServiceInv' /\ Remembers /\ usable' = usable /\ issued' = issued
         /\ \A h \in 1..issued :
              Redeemable(h) => Redeemable(h)' \/ (Replaces(c) /\ answer[c].sent = h)
         /\ \A g : Got(c, "granted") /\ answer[c].got = g => Secret(g)'
         /\ \A d \in Callers : ~Got(d, "none")' => answer'[d] = answer[d] /\ d # c
<1>1. /\ answer' = [d \in Callers |-> IF d \in {c} THEN NoAnswer ELSE answer[d]]
      /\ UNCHANGED <<issued, usable, age, usedBy, lost>>
  BY DEF Settle, ServiceInv, AnswerTypes
<1>2. lost \subseteq lost' /\ lost' \subseteq (1..issued) \ usable
  BY <1>1 DEF ServiceInv, AnswerTypes
<1>3. {c} \in SUBSET Callers
  OBVIOUS
<1>4. \A h \in 1..issued :
        Redeemable(h) => Redeemable(h)' \/ (Replaces(c) /\ answer[c].sent = h)
  <2>1. \A h \in 1..issued :
          Redeemable(h) =>
            \/ Redeemable(h)'
            \/ \E d \in {c} : Replaces(d) /\ answer[d].sent = h /\ h \notin lost'
    BY <1>1, <1>2, <1>3, DropKeeps
  <2> QED
    BY <2>1
<1> QED
  BY <1>1, <1>2, <1>3, <1>4, DropKeeps

LEMMA ForgetKeeps ==
  ASSUME ServiceInv, NEW cs \in SUBSET Callers, Forget(cs)
  PROVE  /\ ServiceInv' /\ Remembers
         /\ \A h \in 1..issued : Redeemable(h) => Redeemable(h)'
         /\ \A c \in cs : ~Got(c, "granted")'
         /\ \A d \in Callers : ~Got(d, "none")' => answer'[d] = answer[d] /\ d \notin cs
<1> DEFINE dropped == {answer[c].sent : c \in {d \in cs : Replaces(d)}}
<1>1. /\ answer' = [c \in Callers |-> IF c \in cs THEN NoAnswer ELSE answer[c]]
      /\ UNCHANGED <<issued, usable, age, usedBy>>
      /\ lost' = (lost \cup dropped) \ {NoGrant}
  BY DEF Forget
<1>2. lost \subseteq (1..issued) \ usable /\ NoGrant \notin 1..issued
  BY DEF ServiceInv, AnswerTypes, NoGrant
<1>3. dropped \ {NoGrant} \subseteq (1..issued) \ usable
  BY DEF ServiceInv, OnTheWay, OnItsWay
<1>4. \A c \in cs : Replaces(c) => answer[c].sent \in dropped
  OBVIOUS
<1> HIDE DEF dropped
<1>5. lost \subseteq lost' /\ lost' \subseteq (1..issued) \ usable
  BY <1>1, <1>2, <1>3
<1>6. \A h \in 1..issued : h \in dropped => h \in lost'
  BY <1>1, <1>2
<1>7. \A h \in 1..issued : Redeemable(h) => Redeemable(h)'
  BY <1>1, <1>4, <1>5, <1>6, DropKeeps
<1> QED
  BY <1>1, <1>5, <1>7, DropKeeps

LEMMA GrowOldKeeps ==
  ASSUME ServiceInv, NEW g, GrowOld(g)
  PROVE  /\ ServiceInv' /\ UNCHANGED <<issued, usable, answer, usedBy, lost>>
<1>1. UNCHANGED <<issued, usable, answer, usedBy, lost>> /\ age' \in [Grants -> Ages]
  BY DEF GrowOld, ServiceInv, AnswerTypes, Ages
<1> QED
  BY <1>1 DEF ServiceInv, AnswerTypes, OnTheWay, OnItsWay, OnItsOwnWay, UsedBySomebody,
              RefusalHasCause, Got, Replaces

LEMMA NothingAsked ==
  ASSUME UNCHANGED serviceVars, ServiceInv
  PROVE  /\ ServiceInv' /\ Remembers
         /\ UNCHANGED <<issued, usable, answer, usedBy, lost>>
<1>1. UNCHANGED <<issued, usable, age, answer, usedBy, lost>>
  BY DEF serviceVars
<1>2. issued <= issued'
  BY <1>1, GrantTypes DEF ServiceInv
<1> QED
  BY <1>1, <1>2 DEF ServiceInv, AnswerTypes, OnTheWay, OnItsWay, OnItsOwnWay, UsedBySomebody,
              RefusalHasCause, Got, Replaces, Remembers, Secret

LEMMA ServiceInitial == ASSUME ServiceInit PROVE ServiceInv
<1>1. NoAnswer \in Answer /\ NoAnswer.state = "none"
  BY DEF NoAnswer, Answer, NoGrant
<1>2. \A c \in Callers : answer[c].state = "none"
  BY <1>1 DEF ServiceInit
<1>3. AnswerTypes
  BY <1>1, ServiceAssumption DEF ServiceInit, AnswerTypes, Ages
<1> QED
  BY <1>2, <1>3 DEF ServiceInv, ServiceInit, OnTheWay, OnItsWay, OnItsOwnWay, UsedBySomebody,
     RefusalHasCause, Got, Replaces

-----------------------------------------------------------------------------
(* The web server.                                                         *)

(* The requests that use the session of the thread.                        *)
ThreadCallers == {"thread"} \cup Workers

LEMMA CallersAre ==
  /\ WebCallers \subseteq Callers /\ ThreadCallers \subseteq WebCallers
  /\ {"trigger", "runner", "job", "route", "login"} \subseteq WebCallers \ ThreadCallers
  /\ "thread" \in ThreadCallers /\ Workers \subseteq ThreadCallers
/\ \A c \in {"trigger", "runner", "job", "route", "login", "thread"} : c \notin Workers
BY WebAssumption DEF WebAssumption, WebCallers, ThreadCallers, Coroutines

(* Whoever holds a refresh token, nobody is about to be given it.          *)
Held(g) == g \in 0..issued /\ Secret(g)

(* What the session of the thread still shows can be refreshed, or was by  *)
(* somebody who does not use that session.                                 *)
ViewKept ==
  view.refresh # NoGrant =>
    Redeemable(view.refresh) \/ usedBy[view.refresh] \notin ThreadCallers \cup {Nobody}

HeldInv ==
  /\ TokensArePaired /\ Held(row.refresh) /\ RefreshTokenKept
  /\ Held(view.refresh) /\ ViewKept

(* The requests that have set a part of their pair, and the refresh tokens *)
(* that are still to come to the row that way.                             *)
Setting == {w \in Workers : worker[w] = "setting"}

Coming(h) ==
  /\ h # NoGrant
  /\ \/ h = unsaved.refresh
     \/ h = flushed.refresh
     \/ \E w \in Setting : h = answer[w].got

(* Such a token can be refreshed, or was by another request of the run: no *)
(* other session shows it yet.                                             *)
OwnToken(h) ==
  /\ Held(h) /\ Redeemable(h)
  /\ h \in usable \/ usedBy[h] \in Workers

ComingInv ==
  /\ \A h : Coming(h) => OwnToken(h) /\ h \notin {row.refresh, view.refresh}
  /\ \A w \in Setting : answer[w].got \notin {NoGrant, unsaved.refresh, flushed.refresh}
  /\ \A v, w \in Setting : answer[v].got = answer[w].got => v = w

(* What the session has to write: nothing, or the columns of the one pair  *)
(* that is being written, as far as its request has come, or columns of    *)
(* pairs that clash.  A broken session writes nothing.                     *)
Clean == Writers = {} /\ unsaved = NoTokens /\ flushed = NoTokens

WritesAlone(w) ==
  /\ Writers = {w}
  /\ \/ /\ worker[w] = "setting" /\ flushed = NoTokens
        /\ unsaved = [access |-> answer[w].got, refresh |-> NoGrant]
     \/ worker[w] = "set" /\ flushed = NoTokens /\ unsaved = Pair(answer[w].got)
     \/ worker[w] = "committing" /\ flushed = Pair(answer[w].got) /\ unsaved = NoTokens

Clash ==
  /\ Writers # {}
  /\ \A w \in Writers : answer[w].sent \in lost /\ answer[w].got \in clashed
  /\ {unsaved.access, unsaved.refresh, flushed.access, flushed.refresh}
       \subseteq clashed \cup {NoGrant}

WritersInv ==
  /\ \A w \in Workers : Got(w, "taken") <=> worker[w] \in Writing
  /\ \A w \in Workers : Replaces(w) => answer[w].sent # NoGrant
  /\ \A w \in Writers : answer[w].got \in Grants /\ answer[w].got # answer[w].sent
  /\ broken => flushed = NoTokens
  /\ broken \/ Clean \/ Clash \/ \E w \in Workers : WritesAlone(w)

SharedInv == ComingInv /\ WritersInv

(* Where no pair is stored, the tokens of the row and of the session stay  *)
(* what they are.                                                          *)
LEMMA HoldersKeep ==
  ASSUME ServiceInv, HeldInv, ServiceInv', Remembers,
         \A h \in 1..issued : Redeemable(h) => Redeemable(h)',
         row' \in {row, NoTokens}, view' \in {view, row, NoTokens},
         clashed \subseteq clashed'
  PROVE  HeldInv'
<1>1. /\ issued \in Nat /\ issued' \in Nat /\ issued <= issued' /\ NoGrant = 0
      /\ NoTokens.access = NoGrant /\ NoTokens.refresh = NoGrant
  BY ServiceAssumption DEF ServiceInv, AnswerTypes, Remembers, NoGrant, NoTokens
<1>2. Held(NoGrant)'
  BY <1>1 DEF ServiceInv, OnTheWay, OnItsWay, AnswerTypes, Held, Secret, NoGrant
<1>3. \A h \in 0..issued : Held(h) => Held(h)'
  BY <1>1 DEF Held, Remembers
<1>4. ASSUME NEW h \in 1..issued,
             Redeemable(h) \/ usedBy[h] \notin ThreadCallers \cup {Nobody}
      PROVE  Redeemable(h)' \/ usedBy'[h] \notin ThreadCallers \cup {Nobody}
  <2>1. CASE Redeemable(h)
    BY <2>1
  <2>2. CASE ~Redeemable(h)
    <3>1. h \notin usable
      BY <2>2 DEF Redeemable
    <3> QED
      BY <1>4, <2>2, <3>1 DEF Remembers
  <2> QED
    BY <2>1, <2>2
<1>5. Held(row.refresh)' /\ TokensArePaired' /\ RefreshTokenKept'
  <2>1. CASE row' = row
    <3>1. row.refresh \in 0..issued
      BY DEF HeldInv, Held
    <3>2. row.refresh # NoGrant => row.refresh \in 1..issued
      BY <1>1, <3>1
    <3> QED
      BY <1>3, <2>1, <3>1, <3>2 DEF HeldInv, Held, TokensArePaired, RefreshTokenKept
  <2>2. CASE row' = NoTokens
    BY <1>1, <1>2, <2>2 DEF Held, TokensArePaired, RefreshTokenKept
  <2> QED
    BY <2>1, <2>2
<1>6. Held(view.refresh)' /\ ViewKept'
  <2>1. CASE view' = NoTokens
    BY <1>1, <1>2, <2>1 DEF Held, ViewKept
  <2>2. CASE view' = view
    <3>1. view.refresh \in 0..issued
      BY DEF HeldInv, Held
    <3>2. view.refresh # NoGrant => view.refresh \in 1..issued
      BY <1>1, <3>1
    <3> QED
      BY <1>3, <1>4, <2>2, <3>1, <3>2 DEF HeldInv, Held, ViewKept
  <2>3. CASE view' = row
    <3>1. row.refresh \in 0..issued
      BY DEF HeldInv, Held
    <3>2. ASSUME NEW h, h = row.refresh, h # NoGrant PROVE Redeemable(h)'
      BY <1>1, <3>1, <3>2 DEF HeldInv, RefreshTokenKept
    <3>3. Held(view.refresh)'
      BY <1>3, <2>3, <3>1 DEF HeldInv, Held
    <3>4. ViewKept'
      <4>1. view'.refresh = row.refresh
        BY <2>3
      <4>2. view'.refresh # NoGrant => Redeemable(view.refresh)'
        BY <3>2, <4>1
      <4> QED
        BY <4>2 DEF ViewKept
    <3> QED
      BY <3>3, <3>4
  <2> QED
    BY <2>1, <2>2, <2>3
<1> QED
  BY <1>5, <1>6 DEF HeldInv

(* Steps that no request of a run takes while it writes, and what they     *)
(* leave of the answers the requests have in hand.                         *)
Undisturbed ==
  /\ UNCHANGED <<unsaved, flushed, broken, clashed>>
  /\ \A w \in Workers : worker'[w] = worker[w] \/ (worker[w] \notin Writing /\ worker'[w] \notin Writing)

TakenStay ==
  \A w \in Workers :
    /\ Got(w, "taken") => answer'[w] = answer[w]
    /\ Got(w, "taken")' => Got(w, "taken")
    /\ Got(w, "granted")' => answer'[w] = answer[w] \/ answer'[w].sent # NoGrant

(* Such a step leaves what is to come as it is, if it leaves each token    *)
(* that is to come with a successor.                                       *)
LEMMA SharedKeeps ==
  ASSUME ServiceInv, ServiceInv', Remembers, SharedInv, Undisturbed, TakenStay,
         \A h \in 1..issued : OwnToken(h) => Redeemable(h)' \/ h \in {row.refresh, view.refresh},
         \A h \in usable : h \in usable' \/ usedBy'[h] \in Workers \/ h \in {row.refresh, view.refresh},
         \A h : Coming(h) => h # row'.refresh,
         view' \in {view, row, NoTokens}
  PROVE  SharedInv'
<1>1. Writers' = Writers /\ \A w \in Writers : answer'[w] = answer[w]
  BY DEF TakenStay, Writers, Got
<1>2. Setting' = Setting /\ \A w \in Setting : answer'[w] = answer[w]
  <2>1. \A w \in Setting : Got(w, "taken")
    BY DEF SharedInv, WritersInv, Setting, Writing
  <2>2. \A w \in Workers : worker'[w] = "setting" <=> worker[w] = "setting"
    BY DEF Undisturbed, Writing
  <2> QED
    BY <2>1, <2>2 DEF TakenStay, Setting
<1>3. \A h : Coming(h)' <=> Coming(h)
  BY <1>2 DEF Coming, Undisturbed
<1>4. WritersInv'
  <2>1. \A w \in Workers : Got(w, "taken")' <=> worker'[w] \in Writing
    BY DEF Undisturbed, TakenStay, SharedInv, WritersInv, Got
  <2>2. Clean => Clean'
    BY <1>1 DEF Clean, Undisturbed, NoTokens
  <2>3. Clash => Clash'
    BY <1>1 DEF Clash, Undisturbed, Remembers
  <2>4. ASSUME NEW w \in Workers, WritesAlone(w) PROVE WritesAlone(w)'
    <3>1. answer'[w] = answer[w] /\ worker'[w] = worker[w] /\ Writers' = {w}
      BY <1>1, <2>4 DEF WritesAlone, Undisturbed, Writing
    <3> QED
      BY <2>4, <3>1 DEF WritesAlone, Undisturbed
  <2> QED
    <3>1. \A w \in Workers : Replaces(w)' => answer'[w].sent # NoGrant
      BY DEF TakenStay, SharedInv, WritersInv, Replaces, Got
    <3> QED
      BY <1>1, <2>1, <2>2, <2>3, <2>4, <3>1 DEF SharedInv, WritersInv, Undisturbed
<1>5. ComingInv'
  <2>1. ASSUME NEW h, Coming(h) PROVE OwnToken(h)' /\ h \notin {row'.refresh, view'.refresh}
    <3>1. OwnToken(h) /\ h \notin {row.refresh, view.refresh} /\ h # NoGrant
      BY <2>1 DEF SharedInv, ComingInv, Coming
    <3>2. h \in 0..issued /\ h \in 1..issued /\ Secret(h) /\ issued \in Nat /\ issued' \in Nat
      BY <3>1, GrantTypes DEF OwnToken, Held, NoGrant, ServiceInv, AnswerTypes
    <3>3. Held(h)'
      BY <3>2 DEF Held, Remembers
    <3>4. Redeemable(h)'
      BY <3>1, <3>2
    <3>5. h \in usable' \/ usedBy'[h] \in Workers
      BY <3>1, <3>2 DEF OwnToken, Remembers
    <3> QED
      BY <2>1, <3>1, <3>3, <3>4, <3>5 DEF OwnToken, NoTokens
  <2> QED
    BY <1>2, <1>3, <2>1 DEF SharedInv, ComingInv, Undisturbed
<1> QED
  BY <1>4, <1>5 DEF SharedInv

(* The session of the thread ends, or is rolled back, with no request      *)
(* writing.                                                                *)
CleanedUp ==
  /\ unsaved' = NoTokens /\ flushed' = NoTokens /\ clashed' = clashed
  /\ \A w \in Workers : worker'[w] \notin Writing /\ ~Got(w, "taken")'
  /\ \A w \in Workers : Got(w, "granted")' => answer'[w].sent # NoGrant

LEMMA CleanKeeps == ASSUME CleanedUp PROVE SharedInv'
<1>1. Writers' = {} /\ Setting' = {} /\ NoTokens.refresh = NoGrant
  BY DEF CleanedUp, Writers, Setting, Writing, NoTokens
<1> QED
  BY <1>1 DEF CleanedUp, SharedInv, ComingInv, Coming, WritersInv, Clean, Replaces

(* A request is sent with the token of the row, or one the session shows.  *)
LEMMA WebAskKeeps ==
  ASSUME ServiceInv, HeldInv, SharedInv, NEW c \in WebCallers, NEW g, g # NoGrant,
         \/ g = row.refresh
         \/ g = view.refresh /\ c \in ThreadCallers
         \/ Coming(g) /\ c \in Workers,
         Ask(c, g), row' = row, view' \in {view, row, NoTokens}, Undisturbed
  PROVE  /\ ServiceInv' /\ HeldInv' /\ SharedInv'
         /\ \A d \in Callers \ {c} : answer'[d] = answer[d]
<1>1. c \in Callers /\ c # Nobody
  BY WebAssumption, ServiceAssumption DEF WebAssumption
<1>2. g \in 1..issued /\ Secret(g)
  <2>1. Held(g)
    BY DEF HeldInv, SharedInv, ComingInv, OwnToken
  <2> QED
    BY <2>1, GrantTypes DEF Held, ServiceInv, NoGrant
<1>3. Free(c)
  BY DEF Ask, Fails
<1>4. g \in usable \cup lost \/ usedBy[g] # c
  <2>1. CASE Redeemable(g)
    BY <1>3, <2>1, <1>2 DEF Redeemable, ServiceInv, OnTheWay, OnItsWay, Free, Got, Replaces, NoGrant
  <2>2. CASE ~Redeemable(g)
    BY <2>2 DEF HeldInv, ViewKept, RefreshTokenKept, SharedInv, ComingInv, OwnToken
  <2> QED
    BY <2>1, <2>2
<1>5. /\ ServiceInv' /\ Remembers
      /\ \A h \in 1..issued : Redeemable(h) => Redeemable(h)'
      /\ \A d \in Callers \ {c} : answer'[d] = answer[d]
  BY <1>1, <1>2, <1>4, AskKeeps
<1>6. /\ \A h \in usable : h \in usable' \/ (h = g /\ usedBy'[h] = c)
      /\ ~Got(c, "taken")'
      /\ Got(c, "granted")' => answer'[c].sent = g
  BY <1>1, <1>2, AskUses
<1>7. HeldInv'
  BY <1>5, HoldersKeep DEF Undisturbed
<1>8. SharedInv'
  <2>1. TakenStay
    BY <1>3, <1>5, <1>6, CallersAre DEF TakenStay, Free, Got
  <2>2. \A h : Coming(h) => h # row'.refresh
    BY DEF SharedInv, ComingInv
  <2>3. \A h \in usable : h \in usable' \/ usedBy'[h] \in Workers \/ h \in {row.refresh, view.refresh}
    BY <1>6 DEF SharedInv, ComingInv
  <2> QED
    BY <1>5, <2>1, <2>2, <2>3, SharedKeeps DEF OwnToken
<1> QED
  BY <1>5, <1>7, <1>8

(* What becomes of the tokens to come when c, not a request of the run,    *)
(* has dealt with its answer.                                              *)
LEMMA OthersDealKeeps ==
  ASSUME ServiceInv, ServiceInv', Remembers, SharedInv, NEW c \in WebCallers \ Workers,
         usable' = usable,
         \A h \in 1..issued :
           Redeemable(h) => Redeemable(h)' \/ (Replaces(c) /\ answer[c].sent = h),
         \A d \in Callers \ {c} : answer'[d] = answer[d],
         \/ Undisturbed /\ view' \in {view, row, NoTokens}
            /\ (row'.refresh \in {row.refresh, NoGrant}
                \/ (Got(c, "granted") /\ row'.refresh = answer[c].got))
         \/ CleanedUp
  PROVE  SharedInv'
<1>1. c \in Callers /\ Workers \subseteq Callers \ {c}
  BY CallersAre
<1>2. CASE CleanedUp
  BY <1>2, CleanKeeps
<1>3. CASE Undisturbed /\ view' \in {view, row, NoTokens}
           /\ (row'.refresh \in {row.refresh, NoGrant}
               \/ (Got(c, "granted") /\ row'.refresh = answer[c].got))
  <2>1. TakenStay
    BY <1>1 DEF TakenStay, Got
  <2>2. ASSUME NEW h \in 1..issued, OwnToken(h) PROVE Redeemable(h)'
    <3>1. Redeemable(h) /\ (h \in usable \/ usedBy[h] \in Workers)
      BY <2>2 DEF OwnToken
    <3>2. ~(Replaces(c) /\ answer[c].sent = h)
      BY <1>1, <3>1, GrantTypes DEF ServiceInv, OnTheWay, OnItsWay, NoGrant
    <3> QED
      BY <3>1, <3>2
  <2>3. \A h : Coming(h) => h # row'.refresh
    BY <1>1, <1>3 DEF SharedInv, ComingInv, OwnToken, Held, Secret, Coming
  <2> QED
    BY <1>3, <2>1, <2>2, <2>3, SharedKeeps
<1> QED
  BY <1>2, <1>3

(* The pair on its way to c is stored; if c is not of the thread, the      *)
(* session of the thread does not see it.                                  *)
LEMMA StoreKeeps ==
  ASSUME ServiceInv, HeldInv, SharedInv, NEW c \in WebCallers \ Workers, Got(c, "granted"), Store(c),
         \/ view' = NoTokens /\ CleanedUp
         \/ view' = view /\ c \notin ThreadCallers /\ Undisturbed
  PROVE  /\ ServiceInv' /\ HeldInv' /\ SharedInv' /\ row' \in Row
         /\ \A d \in Callers : ~Got(d, "none")' => answer'[d] = answer[d] /\ d # c
<1>1. c \in Callers /\ c # Nobody
  BY WebAssumption, ServiceAssumption DEF WebAssumption
<1>g. PICK g : g = answer[c].got
  OBVIOUS
<1>2. /\ g \in usable /\ g \in 1..issued /\ issued \in Nat /\ g # NoGrant /\ g \in Grants
      /\ answer[c].sent # NoGrant =>
           answer[c].sent \in (1..issued) \ usable /\ usedBy[answer[c].sent] = c
  <2>1. OnItsWay(c) /\ usable \subseteq 1..issued
    BY <1>1 DEF ServiceInv, OnTheWay, AnswerTypes
  <2>2. issued \in Nat /\ 1..issued \subseteq Grants /\ NoGrant \notin 1..issued
    BY GrantTypes DEF ServiceInv, NoGrant
  <2> QED
    BY <1>g, <2>1, <2>2 DEF OnItsWay, Replaces
<1>3. row' = Pair(g) /\ Settle(c) /\ Pair(g) \in Row /\ row'.access = g /\ row'.refresh = g
  BY <1>g, <1>2 DEF Store, Pair, Row
<1>4. /\ ServiceInv' /\ Remembers /\ usable' = usable /\ issued' = issued
      /\ \A h \in 1..issued :
           Redeemable(h) => Redeemable(h)' \/ (Replaces(c) /\ answer[c].sent = h)
      /\ Secret(g)'
      /\ \A d \in Callers : ~Got(d, "none")' => answer'[d] = answer[d] /\ d # c
  BY <1>1, <1>3, <1>g, SettleKeeps
<1>5. Held(row.refresh)' /\ TokensArePaired' /\ RefreshTokenKept'
  <2>1. Redeemable(g)'
    BY <1>2, <1>4 DEF Redeemable
  <2>2. Held(g)'
    BY <1>2, <1>4 DEF Held
  <2> QED
    BY <1>3, <2>1, <2>2 DEF Held, Secret, Redeemable, TokensArePaired, RefreshTokenKept
<1>6. Held(view.refresh)' /\ ViewKept'
  <2>1. CASE view' = NoTokens
    <3>1. Held(NoGrant)'
      BY <1>2, <1>4 DEF ServiceInv, OnTheWay, OnItsWay, AnswerTypes, Held, Secret, NoGrant
    <3> QED
      BY <2>1, <3>1 DEF NoTokens, Held, ViewKept
  <2>2. CASE view' = view /\ c \notin ThreadCallers
    <3>1. view.refresh \in 0..issued /\ Held(view.refresh)
      BY DEF HeldInv, Held
    <3>2. Held(view.refresh)'
      BY <1>2, <1>4, <2>2, <3>1 DEF Held, Remembers
    <3>3. ASSUME NEW h, h = view.refresh, h # NoGrant
          PROVE  Redeemable(h)' \/ usedBy'[h] \notin ThreadCallers \cup {Nobody}
      <4>1. h \in 1..issued
        BY <1>2, <3>1, <3>3 DEF NoGrant
      <4>2. CASE answer[c].sent = h
        BY <1>1, <1>2, <1>4, <2>2, <3>3, <4>2 DEF Remembers
      <4>3. CASE Redeemable(h) /\ answer[c].sent # h
        BY <1>4, <4>1, <4>3
      <4>4. CASE ~Redeemable(h)
        <5>1. h \notin usable /\ usedBy[h] \notin ThreadCallers \cup {Nobody}
          BY <3>3, <4>4 DEF HeldInv, ViewKept, Redeemable
        <5> QED
          BY <1>4, <4>1, <5>1 DEF Remembers
      <4> QED
        BY <4>2, <4>3, <4>4
    <3>4. ViewKept'
      BY <2>2, <3>3 DEF ViewKept
    <3> QED
      BY <2>2, <3>2, <3>4
  <2> QED
    BY <2>1, <2>2
<1>7. SharedInv'
  <2>1. \A d \in Callers \ {c} : answer'[d] = answer[d]
    BY <1>3 DEF Settle, ServiceInv, AnswerTypes
  <2> QED
    BY <1>3, <1>4, <1>g, <2>1, OthersDealKeeps
<1> QED
  BY <1>3, <1>4, <1>5, <1>6, <1>7 DEF HeldInv

(* An answer that is no pair to be kept is dealt with.                     *)
LEMMA WebSettleKeeps ==
  ASSUME ServiceInv, HeldInv, SharedInv, NEW c \in WebCallers, Settle(c),
         ~Replaces(c) \/ (answer[c].sent = NoGrant /\ c \notin Workers),
         row' = row, view' \in {view, row, NoTokens}, clashed' = clashed, Undisturbed \/ CleanedUp
  PROVE  /\ ServiceInv' /\ HeldInv' /\ SharedInv'
         /\ \A d \in Callers : ~Got(d, "none")' => answer'[d] = answer[d] /\ d # c
<1>1. c \in Callers
  BY WebAssumption DEF WebAssumption
<1>2. /\ ServiceInv' /\ Remembers /\ usable' = usable
      /\ \A h \in 1..issued :
           Redeemable(h) => Redeemable(h)' \/ (Replaces(c) /\ answer[c].sent = h)
      /\ \A d \in Callers : ~Got(d, "none")' => answer'[d] = answer[d] /\ d # c
  BY <1>1, SettleKeeps
<1>3. \A h \in 1..issued : Redeemable(h) => Redeemable(h)'
  BY <1>2 DEF NoGrant
<1>4. HeldInv'
  BY <1>2, <1>3, HoldersKeep
<1>5. SharedInv'
  <2>1. \A d \in Callers \ {c} : answer'[d] = answer[d]
    BY DEF Settle, ServiceInv, AnswerTypes
  <2>2. TakenStay
    BY <1>1, <1>2, <2>1, CallersAre DEF TakenStay, Replaces, Got
  <2>3. \A h : Coming(h) => h # row'.refresh
    BY DEF SharedInv, ComingInv
  <2> QED
    BY <1>2, <1>3, <2>2, <2>3, SharedKeeps, CleanKeeps DEF OwnToken
<1> QED
  BY <1>2, <1>4, <1>5

(* A pair cannot be stored and is lost.                                    *)
LEMMA WebForgetKeeps ==
  ASSUME ServiceInv, HeldInv, SharedInv, NEW c \in WebCallers \ Workers, Forget({c}),
         row' = row, view' \in {view, row, NoTokens}, clashed' = clashed, Undisturbed \/ CleanedUp
  PROVE  /\ ServiceInv' /\ HeldInv' /\ SharedInv'
         /\ \A d \in Callers : ~Got(d, "none")' => answer'[d] = answer[d] /\ d # c
<1>1. c \in Callers /\ {c} \in SUBSET Callers
  BY WebAssumption DEF WebAssumption
<1>2. /\ ServiceInv' /\ Remembers /\ usable' = usable
      /\ \A h \in 1..issued : Redeemable(h) => Redeemable(h)'
      /\ \A d \in Callers : ~Got(d, "none")' => answer'[d] = answer[d] /\ d # c
  BY <1>1, ForgetKeeps DEF Forget
<1>3. HeldInv'
  BY <1>2, HoldersKeep
<1>4. \A d \in Callers \ {c} : answer'[d] = answer[d]
  BY DEF Forget
<1>5. SharedInv'
  BY <1>2, <1>4, OthersDealKeeps
<1> QED
  BY <1>2, <1>3, <1>5

LEMMA OverIs ==
  ASSUME NEW top \in Row, NEW base \in Row
  PROVE  /\ Over(top, base) \in Row
         /\ Over(top, base).refresh = IF top.refresh # NoGrant THEN top.refresh ELSE base.refresh
         /\ Over(top, base).access = IF top.access # NoGrant THEN top.access ELSE base.access
         /\ Over(NoTokens, base) = base
BY DEF Over, Row, NoTokens

SharedTypes ==
  /\ row \in Row /\ view \in Row /\ unsaved \in Row /\ flushed \in Row
  /\ worker \in [Workers -> RequestState]

(* A request takes the pair it was granted: its refresh token is to come.  *)
LEMMA TakeKeeps ==
  ASSUME ServiceInv, HeldInv, SharedInv, SharedTypes, NEW w \in Workers, WorkerTakes(w)
  PROVE  /\ ServiceInv' /\ HeldInv' /\ SharedInv'
         /\ \A d \in Callers \ {w} : answer'[d] = answer[d]
         /\ clashed' \subseteq clashed \cup Grants
<1>1. w \in Callers /\ Writers \subseteq Callers /\ Got(w, "granted") /\ w \notin Writers
  BY CallersAre DEF WorkerTakes, Writers, Got
<1>g. PICK g, t : g = answer[w].got /\ t = answer[w].sent
  OBVIOUS
<1>2. /\ answer' \in [Callers -> Answer]
      /\ answer'[w].state = "taken" /\ answer'[w].sent = t /\ answer'[w].got = g
      /\ \A d \in Callers \ {w} : answer'[d] = answer[d]
  BY <1>1, <1>g DEF WorkerTakes, ServiceInv, AnswerTypes, Answer
<1>3. UNCHANGED <<issued, usable, age, usedBy, row, view, flushed, broken>>
  BY DEF WorkerTakes
<1>4. /\ g \in usable /\ g \in 1..issued /\ g \in Grants /\ g # NoGrant
      /\ t # g /\ t \in (1..issued) \ usable /\ usedBy[t] = w
  <2>1. OnItsWay(w) /\ usable \subseteq 1..issued /\ Replaces(w) /\ t # NoGrant
    BY <1>1, <1>g DEF ServiceInv, OnTheWay, AnswerTypes, Replaces, SharedInv, WritersInv
  <2>2. 1..issued \subseteq Grants /\ NoGrant \notin 1..issued
    BY GrantTypes DEF ServiceInv, NoGrant
  <2> QED
    BY <1>1, <1>g, <2>1, <2>2 DEF OnItsWay
<1>5. \A v \in Writers : answer[v].sent \in (1..issued) \ usable /\ answer[v].got \in Grants
  <2>1. \A v \in Writers : Replaces(v) /\ OnItsWay(v) /\ answer[v].sent # NoGrant
    BY <1>1 DEF Writers, Replaces, SharedInv, WritersInv, ServiceInv, OnTheWay
  <2> QED
    BY <2>1 DEF OnItsWay, SharedInv, WritersInv
<1>6. \/ Writers = {} /\ UNCHANGED <<lost, clashed>>
      \/ /\ Writers # {}
         /\ lost' = lost \cup {answer[v].sent : v \in Writers \cup {w}}
         /\ clashed' = clashed \cup {answer[v].got : v \in Writers \cup {w}}
  BY DEF WorkerTakes
<1>7. /\ lost \subseteq lost' /\ lost' \subseteq (1..issued) \ usable
      /\ clashed \subseteq clashed' /\ clashed' \subseteq clashed \cup Grants
  <2>1. lost \subseteq (1..issued) \ usable
    BY DEF ServiceInv, AnswerTypes
  <2>2. \A v \in Writers \cup {w} : answer[v].sent \in (1..issued) \ usable /\ answer[v].got \in Grants
    BY <1>g, <1>4, <1>5
  <2> QED
    BY <1>6, <2>1, <2>2
<1>8. ServiceInv' /\ Remembers
  <2>1. OnItsWay(w)'
    BY <1>2, <1>3, <1>4 DEF OnItsWay, Got, Replaces
  <2> QED
    BY <1>1, <1>2, <1>3, <1>7, <2>1, NoPairKeeps
<1>9. \A h : Redeemable(h) => Redeemable(h)'
  <2>1. \A d \in Callers : Replaces(d) => Replaces(d)' /\ answer'[d].sent = answer[d].sent
    BY <1>1, <1>2, <1>g DEF Replaces, Got
  <2> QED
    BY <1>3, <1>7, <2>1 DEF Redeemable
<1>10. HeldInv'
  BY <1>3, <1>7, <1>8, <1>9, HoldersKeep
<1>11. /\ worker' = [worker EXCEPT ![w] = "setting"] /\ worker \in [Workers -> RequestState]
       /\ worker[w] = "asking"
       /\ unsaved'.access = g /\ unsaved'.refresh = unsaved.refresh /\ unsaved \in Row
  BY <1>g DEF WorkerTakes, SharedTypes, Row
<1>12. Setting' = Setting \cup {w} /\ w \notin Setting /\ Writers' = Writers \cup {w}
  <2>1. \A v \in Workers : worker'[v] = IF v = w THEN "setting" ELSE worker[v]
    BY <1>11
  <2>2. \A v \in Workers \ {w} : answer'[v] = answer[v]
    BY <1>2, CallersAre
  <2> QED
    BY <1>2, <1>11, <2>1, <2>2 DEF Setting, Writers, Got
<1>13. \A v \in Setting : answer'[v] = answer[v]
  BY <1>2, <1>12, CallersAre DEF Setting
<1>14. ComingInv'
  <2>1. \A h : Coming(h)' <=> Coming(h) \/ h = g
    BY <1>2, <1>3, <1>4, <1>11, <1>12, <1>13 DEF Coming
  <2>2. \A h : Held(h) => Held(h)' /\ h # g
    BY <1>1, <1>3, <1>8, <1>g DEF Held, Remembers, Secret
  <2>3. ASSUME NEW h, Coming(h) PROVE OwnToken(h)' /\ h \notin {row'.refresh, view'.refresh}
    BY <1>3, <1>9, <2>2, <2>3 DEF SharedInv, ComingInv, OwnToken
  <2>4. OwnToken(g)' /\ g \notin {row'.refresh, view'.refresh}
    <3>1. Secret(g)'
      BY <1>1, <1>2, <1>g DEF Secret, Got, ServiceInv, OnItsOwnWay
    <3>2. Held(g)' /\ Redeemable(g)'
      BY <1>3, <1>4, <3>1, GrantTypes DEF Held, Redeemable, ServiceInv
    <3> QED
      BY <1>3, <1>4, <2>2, <3>2 DEF OwnToken, HeldInv
  <2>5. \A v \in Setting : answer[v].got # g /\ Coming(answer[v].got)
    BY <2>2 DEF SharedInv, ComingInv, OwnToken, Coming
  <2>6. g \notin {NoGrant, unsaved'.refresh, flushed'.refresh}
    <3>1. \A h : Coming(h) => h # g
      BY <2>2 DEF SharedInv, ComingInv, OwnToken
    <3> QED
      BY <1>3, <1>4, <1>11, <3>1 DEF Coming
  <2>7. \A v \in Setting' : answer'[v].got \notin {NoGrant, unsaved'.refresh, flushed'.refresh}
    BY <1>2, <1>3, <1>11, <1>12, <1>13, <2>6 DEF SharedInv, ComingInv
  <2>8. \A u, v \in Setting' : answer'[u].got = answer'[v].got => u = v
    BY <1>2, <1>12, <1>13, <2>5 DEF SharedInv, ComingInv
  <2> QED
    BY <2>1, <2>3, <2>4, <2>7, <2>8 DEF ComingInv
<1>15. WritersInv'
  <2>1. \A v \in Workers : Got(v, "taken")' <=> worker'[v] \in Writing
    BY <1>2, <1>11, CallersAre DEF SharedInv, WritersInv, Got, Writing
  <2>2. \A v \in Workers : Replaces(v)' => answer'[v].sent # NoGrant
    BY <1>2, <1>4, CallersAre DEF SharedInv, WritersInv, Replaces, Got, NoGrant
  <2>3. \A v \in Writers' : answer'[v].got \in Grants /\ answer'[v].got # answer'[v].sent
    BY <1>1, <1>2, <1>4, <1>12 DEF SharedInv, WritersInv
  <2>4. CASE broken
    BY <1>3, <2>1, <2>2, <2>3, <2>4 DEF SharedInv, WritersInv, NoTokens
  <2>5. CASE ~broken /\ Writers = {}
    <3>1. Clean
      BY <2>5 DEF SharedInv, WritersInv, Clash, WritesAlone, Clean
    <3>2. unsaved' = [access |-> g, refresh |-> NoGrant]
      BY <1>g, <3>1 DEF WorkerTakes, Clean, NoTokens
    <3>3. WritesAlone(w)'
      BY <1>2, <1>3, <1>11, <1>12, <2>5, <3>1, <3>2 DEF WritesAlone, Clean, NoTokens, NoGrant
    <3> QED
      BY <1>3, <2>1, <2>2, <2>3, <2>5, <3>3 DEF WritersInv
  <2>6. CASE ~broken /\ Writers # {}
    <3>1. \A v \in Writers' : answer'[v].sent \in lost' /\ answer'[v].got \in clashed'
      BY <1>1, <1>2, <1>6, <1>12, <1>g, <2>6
    <3>2. {unsaved.access, unsaved.refresh, flushed.access, flushed.refresh} \subseteq clashed' \cup {NoGrant}
      <4>1. CASE Clash
        BY <1>7, <4>1 DEF Clash
      <4>2. ASSUME NEW v \in Workers, WritesAlone(v)
            PROVE  {unsaved.access, unsaved.refresh, flushed.access, flushed.refresh} \subseteq clashed' \cup {NoGrant}
        <5>1. v \in Writers /\ answer[v].got \in clashed'
          BY <1>6, <2>6, <4>2 DEF WritesAlone
        <5>2. {unsaved.access, unsaved.refresh, flushed.access, flushed.refresh} \subseteq {answer[v].got, NoGrant}
          BY <4>2 DEF WritesAlone, Pair, NoTokens
        <5> QED
          BY <5>1, <5>2
      <4> QED
        BY <2>6, <4>1, <4>2 DEF SharedInv, WritersInv, Clean
    <3>3. g \in clashed'
      BY <1>6, <1>g, <2>6
    <3>4. Clash'
      BY <1>3, <1>11, <1>12, <3>1, <3>2, <3>3 DEF Clash, NoGrant
    <3> QED
      BY <1>3, <2>1, <2>2, <2>3, <2>6, <3>4 DEF WritersInv
  <2> QED
    BY <2>4, <2>5, <2>6
<1> QED
  BY <1>2, <1>7, <1>8, <1>10, <1>14, <1>15 DEF SharedInv

(* The second column is set, or what is set gets flushed: no token is to   *)
(* come that was not, and none of another pair is mixed in but in a clash. *)
LEMMA WriteKeeps ==
  ASSUME ServiceInv, HeldInv, SharedInv, SharedTypes, NEW w \in Workers,
         WorkerSets(w) \/ WorkerFlushes(w)
  PROVE  ServiceInv' /\ HeldInv' /\ SharedInv'
<1>1. /\ UNCHANGED <<serviceVars, row, view, broken, clashed>>
      /\ worker[w] \in {"setting", "set"} /\ worker'[w] \in {"set", "committing"}
      /\ \A v \in Workers \ {w} : worker'[v] = worker[v]
  BY DEF WorkerSets, WorkerFlushes, SharedTypes
<1>2. ServiceInv' /\ Remembers /\ UNCHANGED <<issued, usable, answer, usedBy, lost>>
  BY <1>1, NothingAsked
<1>3. \A h : Redeemable(h) => Redeemable(h)'
  BY <1>2 DEF Redeemable, Replaces, Got
<1>4. HeldInv'
  BY <1>1, <1>2, <1>3, HoldersKeep
<1>5. Writers' = Writers /\ w \in Writers /\ answer[w].got \in Grants /\ answer[w].got # NoGrant
  BY <1>1, <1>2 DEF Writers, Got, SharedInv, WritersInv, Writing, Grants, NoGrant
<1>6. Setting' = Setting \ {w} /\ (worker[w] = "setting" => w \in Setting)
  BY <1>1 DEF Setting
<1>7. /\ \A h \in {unsaved'.refresh, flushed'.refresh} :
           h \in {NoGrant, unsaved.refresh, flushed.refresh} \/ (w \in Setting /\ h = answer[w].got)
      /\ {unsaved'.access, unsaved'.refresh, flushed'.access, flushed'.refresh} \subseteq
           {unsaved.access, unsaved.refresh, flushed.access, flushed.refresh, answer[w].got, NoGrant}
  BY <1>6, OverIs DEF WorkerSets, WorkerFlushes, SharedTypes, Row, NoTokens
<1>8. ComingInv'
  <2>1. \A h : Coming(h)' => Coming(h)
    BY <1>2, <1>6, <1>7 DEF Coming
  <2>2. \A h : OwnToken(h) => OwnToken(h)'
    BY <1>2, <1>3 DEF OwnToken, Held, Secret, Got
  <2>3. \A v \in Setting' : answer[v].got \notin {NoGrant, unsaved'.refresh, flushed'.refresh}
    BY <1>6, <1>7 DEF SharedInv, ComingInv
  <2> QED
    BY <1>1, <1>2, <1>6, <2>1, <2>2, <2>3 DEF SharedInv, ComingInv
<1>9. WritersInv'
  <2>1. \A v \in Workers : Got(v, "taken")' <=> worker'[v] \in Writing
    BY <1>1, <1>2 DEF SharedInv, WritersInv, Got, Writing
  <2>2. /\ \A v \in Workers : Replaces(v)' => answer'[v].sent # NoGrant
        /\ \A v \in Writers' : answer'[v].got \in Grants /\ answer'[v].got # answer'[v].sent
    BY <1>2, <1>5 DEF SharedInv, WritersInv, Replaces, Got
  <2>3. broken' => flushed' = NoTokens
    BY <1>1 DEF SharedInv, WritersInv, WorkerSets, WorkerFlushes
  <2>4. CASE broken
    BY <1>1, <2>1, <2>2, <2>3, <2>4 DEF WritersInv
  <2>5. CASE Clash
    <3>1. Clash'
      BY <1>1, <1>2, <1>5, <1>7, <2>5 DEF Clash
    <3> QED
      BY <2>1, <2>2, <2>3, <3>1 DEF WritersInv
  <2>6. ASSUME NEW v \in Workers, WritesAlone(v) PROVE WritersInv'
    <3>1. v = w
      BY <1>5, <2>6 DEF WritesAlone
    <3>2. CASE WorkerSets(w)
      <4>1. unsaved = [access |-> answer[w].got, refresh |-> NoGrant] /\ flushed' = NoTokens
        BY <2>6, <3>1, <3>2 DEF WritesAlone, WorkerSets
      <4>2. unsaved' = Pair(answer[w].got) /\ worker'[w] = "set"
        BY <1>1, <3>2, <4>1 DEF WorkerSets, Pair, SharedTypes
      <4> QED
        BY <1>2, <1>5, <2>1, <2>2, <2>3, <2>6, <3>1, <4>1, <4>2 DEF WritersInv, WritesAlone
    <3>3. CASE WorkerFlushes(w)
      <4>1. unsaved = Pair(answer[w].got) /\ flushed = NoTokens /\ unsaved' = NoTokens
        BY <2>6, <3>1, <3>3 DEF WritesAlone, WorkerFlushes
      <4>2. flushed' = Pair(answer[w].got) /\ worker'[w] = "committing"
        BY <1>1, <1>5, <3>3, <4>1 DEF WorkerFlushes, Over, Pair, NoTokens, SharedTypes
      <4> QED
        BY <1>2, <1>5, <2>1, <2>2, <2>3, <2>6, <3>1, <4>1, <4>2 DEF WritersInv, WritesAlone
    <3> QED
      BY <3>2, <3>3
  <2> QED
    BY <1>5, <2>4, <2>5, <2>6 DEF SharedInv, WritersInv, Clean
<1> QED
  BY <1>2, <1>4, <1>8, <1>9 DEF SharedInv

(* A request is through with writing, and leaves the row as it was or with *)
(* what was flushed, which in a clash is of pairs that clash.              *)
LEMMA LeaveKeeps ==
  ASSUME ServiceInv, HeldInv, SharedInv, SharedTypes, NEW w \in Workers,
         worker[w] \in {"set", "committing"}, ServiceInv', Remembers,
         UNCHANGED <<usable, usedBy, clashed>>,
         \A h \in 1..issued : Redeemable(h) => Redeemable(h)',
         \A d \in Callers \ {w} : answer'[d] = answer[d], answer'[w].state = "none",
         NEW st, st \notin Writing, worker' = [worker EXCEPT ![w] = st],
         \/ UNCHANGED <<row, view, unsaved, flushed, broken>> /\ (broken \/ Writers # {w})
         \/ Forgets /\ (broken => broken')
            /\ row' \in {row, Over(flushed, row)} /\ (row' = row \/ broken \/ Clash \/ Writers # {w})
  PROVE  HeldInv' /\ SharedInv'
<1>1. /\ worker'[w] = st /\ \A v \in Workers \ {w} : worker'[v] = worker[v]
      /\ \A v \in Workers \ {w} : answer'[v] = answer[v]
  BY CallersAre DEF SharedTypes
<1>2. w \in Writers /\ Writers' = Writers \ {w} /\ Setting' = Setting
  BY <1>1 DEF Writers, Setting, Got, SharedInv, WritersInv, Writing
<1>3. NoTokens.access = NoGrant /\ NoTokens.refresh = NoGrant
  BY DEF NoTokens
<1>4. \A v \in Setting : answer'[v] = answer[v]
  BY <1>1 DEF Setting
<1>5. /\ row'.refresh \in {row.refresh, flushed.refresh} /\ view' \in {view, NoTokens}
      /\ ~broken' => ~broken
      /\ Held(NoGrant) /\ Held(NoGrant)'
  <2>1. Over(flushed, row).refresh \in {row.refresh, flushed.refresh}
    BY OverIs DEF SharedTypes
  <2>2. Held(NoGrant) /\ Held(NoGrant)'
    BY GrantTypes DEF ServiceInv, OnTheWay, OnItsWay, AnswerTypes, Held, Secret, NoGrant
  <2> QED
    BY <2>1, <2>2 DEF Forgets
<1>6. broken \/ Clash \/ (row' = row /\ Writers = {w})
  BY <1>2 DEF SharedInv, WritersInv, Clean, WritesAlone
<1>7. HeldInv'
  <2>1. CASE row' = row
    BY <1>5, <2>1, HoldersKeep
  <2>2. CASE row' # row /\ row' = Over(flushed, row) /\ Forgets
    <3>1. Clash
      BY <1>6, <2>2, OverIs DEF SharedInv, WritersInv, SharedTypes
    <3>2. TokensArePaired'
      <4>1. \/ flushed.access \in clashed /\ row'.access = flushed.access
            \/ flushed.refresh \in clashed /\ row'.refresh = flushed.refresh
        <5>1. flushed.access # NoGrant \/ flushed.refresh # NoGrant
          BY <2>2 DEF Over, SharedTypes, Row
        <5> QED
          BY <2>2, <3>1, <5>1, OverIs DEF Clash, SharedTypes
      <4> QED
        BY <4>1 DEF TokensArePaired
    <3>3. Held(row.refresh)' /\ RefreshTokenKept'
      <4>1. PICK h : h = row'.refresh
        OBVIOUS
      <4>2. Held(h) /\ (h # NoGrant => Redeemable(h))
        <5>1. CASE h = row.refresh
          BY <5>1 DEF HeldInv, RefreshTokenKept
        <5>2. CASE h = flushed.refresh /\ h # NoGrant
          BY <5>2 DEF SharedInv, ComingInv, Coming, OwnToken
        <5> QED
          BY <1>5, <4>1, <5>1, <5>2
      <4>3. Held(h)' /\ (h # NoGrant => Redeemable(h)')
        BY <4>2, GrantTypes DEF Held, Remembers, ServiceInv, AnswerTypes, NoGrant
      <4> QED
        BY <4>1, <4>3 DEF Held, Secret, Redeemable, RefreshTokenKept
    <3>4. Held(view.refresh)' /\ ViewKept'
      BY <1>3, <1>5, <2>2 DEF Forgets, Held, Secret, ViewKept
    <3> QED
      BY <3>2, <3>3, <3>4 DEF HeldInv
  <2> QED
    BY <2>1, <2>2
<1>8. ComingInv'
  <2>1. \A h : Coming(h)' => Coming(h)
    BY <1>2, <1>3, <1>4 DEF Coming, Forgets
  <2>2. ASSUME NEW h, OwnToken(h), h # NoGrant PROVE OwnToken(h)'
    BY <2>2, GrantTypes DEF OwnToken, Held, Remembers, ServiceInv, AnswerTypes, NoGrant
  <2>3. ASSUME NEW h, Coming(h)' PROVE h \notin {row'.refresh, view'.refresh}
    <3>1. CASE UNCHANGED <<row, view>>
      BY <2>1, <2>3, <3>1 DEF SharedInv, ComingInv
    <3>2. CASE Forgets
      <4>1. PICK v \in Setting : h = answer[v].got /\ h # NoGrant
        BY <1>2, <1>3, <1>4, <2>3, <3>2 DEF Coming, Forgets
      <4> QED
        BY <1>3, <1>5, <2>1, <2>3, <3>2, <4>1 DEF SharedInv, ComingInv, Forgets
    <3> QED
      BY <3>1, <3>2
  <2>4. \A v \in Setting' : answer'[v].got \notin {NoGrant, unsaved'.refresh, flushed'.refresh}
    BY <1>2, <1>3, <1>4 DEF SharedInv, ComingInv, Forgets
  <2>5. \A u, v \in Setting' : answer'[u].got = answer'[v].got => u = v
    BY <1>2, <1>4 DEF SharedInv, ComingInv
  <2>6. ASSUME NEW h, Coming(h)' PROVE OwnToken(h)'
    BY <2>1, <2>2, <2>6 DEF SharedInv, ComingInv, Coming
  <2> QED
    BY <2>3, <2>4, <2>5, <2>6 DEF ComingInv
<1>9. WritersInv'
  <2>1. \A v \in Workers : Got(v, "taken")' <=> worker'[v] \in Writing
    BY <1>1 DEF SharedInv, WritersInv, Got
  <2>2. /\ \A v \in Workers : Replaces(v)' => answer'[v].sent # NoGrant
        /\ \A v \in Writers' : answer'[v].got \in Grants /\ answer'[v].got # answer'[v].sent
    BY <1>1, <1>2 DEF SharedInv, WritersInv, Replaces, Got, Writers
  <2>3. broken' => flushed' = NoTokens
    BY DEF SharedInv, WritersInv, Forgets
  <2>4. CASE broken'
    BY <2>1, <2>2, <2>3, <2>4 DEF WritersInv
  <2>5. CASE ~broken' /\ Writers' = {}
    <3>1. Forgets
      BY <1>2, <1>5, <1>6, <2>5
    <3> QED
      BY <2>1, <2>2, <2>3, <2>5, <3>1 DEF Forgets, WritersInv, Clean
  <2>6. CASE ~broken' /\ Writers' # {}
    <3>1. Clash
      BY <1>2, <1>5, <1>6, <2>6
    <3>2. \A v \in Writers' : answer'[v].sent \in lost' /\ answer'[v].got \in clashed'
      BY <1>1, <1>2, <3>1 DEF Clash, Remembers, Writers
    <3>3. Clash'
      BY <1>3, <2>6, <3>1, <3>2 DEF Clash, Forgets
    <3> QED
      BY <2>1, <2>2, <2>3, <3>3 DEF WritersInv
  <2> QED
    BY <2>4, <2>5, <2>6
<1> QED
  BY <1>7, <1>8, <1>9 DEF SharedInv

(* A request commits: its own pair if it writes alone, and then that pair  *)
(* can be refreshed; or what there is in a clash.                          *)
LEMMA CommitKeeps ==
  ASSUME ServiceInv, HeldInv, SharedInv, SharedTypes, NEW w \in Workers, WorkerCommits(w)
  PROVE  ServiceInv' /\ HeldInv' /\ SharedInv'
<1>1. /\ worker[w] = "committing" /\ ~broken /\ broken' = broken /\ clashed' = clashed
      /\ row' = Over(flushed, row) /\ Settle(w) /\ Forgets
      /\ worker' = [worker EXCEPT ![w] = "renewed"] /\ w \in Callers
  BY CallersAre DEF WorkerCommits
<1>2. /\ ServiceInv' /\ Remembers /\ usable' = usable /\ issued' = issued
      /\ \A h \in 1..issued :
           Redeemable(h) => Redeemable(h)' \/ (Replaces(w) /\ answer[w].sent = h)
  BY <1>1, SettleKeeps
<1>3. /\ UNCHANGED <<usedBy, lost>> /\ answer'[w].state = "none"
      /\ \A d \in Callers \ {w} : answer'[d] = answer[d]
  BY <1>1 DEF Settle, ServiceInv, AnswerTypes, NoAnswer
<1>4. w \in Writers /\ Setting \subseteq Writers /\ w \notin Setting
  BY <1>1 DEF Writers, Setting, SharedInv, WritersInv, Writing
<1>5. CASE Clash
  <2>1. \A h \in 1..issued : Redeemable(h) => Redeemable(h)'
    BY <1>2, <1>3, <1>4, <1>5 DEF Clash, Redeemable
  <2>2. "renewed" \notin Writing
    BY DEF Writing
  <2> QED
    BY <1>1, <1>2, <1>3, <1>5, <2>1, <2>2, LeaveKeeps
<1>6. ASSUME NEW v \in Workers, WritesAlone(v) PROVE HeldInv' /\ SharedInv'
  <2>1. PICK g : g = answer[w].got
    OBVIOUS
  <2>2. Writers = {w} /\ flushed = Pair(g) /\ g \in Grants /\ g # NoGrant /\ g # answer[w].sent
    BY <1>1, <1>4, <1>6, <2>1 DEF WritesAlone, SharedInv, WritersInv, Grants, NoGrant
  <2>3. row' = Pair(g) /\ row'.access = g /\ row'.refresh = g
    BY <1>1, <2>2 DEF Over, Pair
  <2>4. Held(g) /\ Redeemable(g) /\ g \in 1..issued
    BY <2>2, GrantTypes DEF SharedInv, ComingInv, Coming, OwnToken, Pair, Held, NoGrant, ServiceInv, AnswerTypes
  <2>5. Held(g)' /\ Redeemable(g)' /\ Held(NoGrant)'
    <3>1. Redeemable(g)'
      BY <1>2, <2>2, <2>4
    <3>2. Held(NoGrant)'
      BY <1>2, GrantTypes DEF ServiceInv, OnTheWay, OnItsWay, AnswerTypes, Held, Secret, NoGrant
    <3> QED
      BY <1>2, <2>4, <3>1, <3>2 DEF Held, Remembers
  <2>6. HeldInv'
    BY <1>1, <2>3, <2>5
    DEF HeldInv, Held, Secret, Redeemable, TokensArePaired, RefreshTokenKept, ViewKept, Forgets, NoTokens
  <2>7. CleanedUp
    <3>1. \A u \in Workers : worker'[u] = IF u = w THEN "renewed" ELSE worker[u]
      BY <1>1 DEF SharedTypes
    <3>2. \A u \in Workers \ {w} : answer'[u] = answer[u] /\ ~Got(u, "taken") /\ worker[u] \notin Writing
      BY <1>3, <2>2, CallersAre DEF Writers, SharedInv, WritersInv
    <3>3. \A u \in Workers : Got(u, "granted")' => u # w /\ answer'[u].sent # NoGrant
      BY <1>3, <3>2 DEF SharedInv, WritersInv, Replaces, Got
    <3> QED
      BY <1>1, <1>3, <3>1, <3>2, <3>3 DEF CleanedUp, Forgets, Writing, Got
  <2> QED
    BY <2>6, <2>7, CleanKeeps
<1> QED
  BY <1>1, <1>2, <1>4, <1>5, <1>6 DEF SharedInv, WritersInv, Clean

(* A request writes the pair it was granted, or fails to.                  *)
LEMMA WorkerWritesKeeps ==
  ASSUME ServiceInv, HeldInv, SharedInv, SharedTypes, NEW w \in Workers, WorkerWrites(w)
  PROVE  /\ ServiceInv' /\ HeldInv' /\ SharedInv'
         /\ \A d \in Callers \ {w} : answer'[d] = answer[d]
<1> USE CallersAre
<1>1. CASE WorkerTakes(w)
  BY <1>1, TakeKeeps
<1>2. CASE WorkerSets(w) \/ WorkerFlushes(w)
  BY <1>2, WriteKeeps DEF WorkerSets, WorkerFlushes, serviceVars
<1>3. CASE WorkerCommits(w)
  BY <1>3, CommitKeeps DEF WorkerCommits, Settle, ServiceInv, AnswerTypes
<1>4. CASE FlushFails(w) \/ CommitRefused(w) \/ CommitRaises(w)
  <2>1. /\ worker[w] \in {"set", "committing"} /\ Forget({w}) /\ clashed' = clashed
        /\ worker' = [worker EXCEPT ![w] = "failed"] /\ "failed" \notin Writing
    BY <1>4 DEF FlushFails, CommitRefused, CommitRaises, shared, Writing
  <2>2. /\ ServiceInv' /\ Remembers
        /\ \A h \in 1..issued : Redeemable(h) => Redeemable(h)'
    BY <2>1, ForgetKeeps
  <2>3. /\ UNCHANGED <<usable, usedBy>> /\ answer'[w].state = "none"
        /\ \A d \in Callers \ {w} : answer'[d] = answer[d]
    BY <2>1 DEF Forget, NoAnswer
  <2>4. Committing \subseteq Writers /\ (worker[w] = "set" => w \notin Committing)
    BY DEF Committing, Writers, SharedInv, WritersInv, Writing
  <2>5. \/ UNCHANGED <<row, view, unsaved, flushed, broken>> /\ (broken \/ Writers # {w})
        \/ Forgets /\ (broken => broken')
           /\ row' \in {row, Over(flushed, row)} /\ (row' = row \/ broken \/ Writers # {w})
    <3>1. CASE FlushFails(w)
      BY <3>1 DEF FlushFails
    <3>2. CASE CommitRefused(w)
      BY <2>4, <3>2 DEF CommitRefused, shared
    <3>3. CASE CommitRaises(w)
      <4>1. broken \/ Writers # {w}
        BY <2>4, <3>3 DEF CommitRaises, Committing
      <4> QED
        BY <3>3, <4>1 DEF CommitRaises
    <3> QED
      BY <1>4, <3>1, <3>2, <3>3
  <2> QED
    BY <2>1, <2>2, <2>3, <2>5, LeaveKeeps
<1> QED
  BY <1>1, <1>2, <1>3, <1>4 DEF WorkerWrites

(* The other variables of the server.                                      *)
RestTypes ==
  /\ registered \in BOOLEAN /\ SharedTypes /\ loaded \in BOOLEAN
  /\ broken \in BOOLEAN /\ clashed \subseteq Grants
  /\ run \in RunStatus /\ runs \in 0..MaxRuns /\ thread \in ThreadState
  /\ client \in Grants \cup {NoGrant}
  /\ thread # "none" => run \in {"pending", "running"}
  /\ thread \notin AtWork => AllIdle

(* While a run waits for a token before it is queued none is active, and   *)
(* while one does before it is dispatched that one is queued; the thread   *)
(* of a run waits for one only where it asks for it.                       *)
Waiting == {"renewing", "recovering"}

RunsApart ==
  /\ ~Free("trigger") => run \notin RunActive
  /\ ~Free("runner") => run = "queued"
  /\ ~Free("thread") => thread \in Waiting

(* Without a user nobody asks for anything but for a login.                *)
Unregistered ==
  ~registered =>
    /\ row = NoTokens /\ view = NoTokens /\ run = "none"
    /\ \A c \in WebCallers \ {"login"} : Free(c)

CodeOnly == Replaces("login") => answer["login"].sent = NoGrant

WebInv ==
  ServiceInv /\ HeldInv /\ SharedInv /\ RestTypes /\ RunsApart /\ Unregistered /\ CodeOnly

LEMMA UserIs ==
  ASSUME WebInv, \/ row.refresh # NoGrant \/ run # "none" \/ thread # "none"
                 \/ \E c \in WebCallers \ {"login"} : ~Free(c)
  PROVE  registered
BY DEF WebInv, Unregistered, RestTypes, NoTokens

(* No answer has come, or only one for c.                                  *)
NoNewAnswer == \A d \in Callers : ~Got(d, "none")' => answer'[d] = answer[d]
OneNewAnswer(c) == \A d \in Callers \ {c} : answer'[d] = answer[d]

LEMMA RunsApartKeeps ==
  ASSUME RunsApart,
         \/ NoNewAnswer
         \/ \E c \in WebCallers \ {"trigger", "runner"} :
              OneNewAnswer(c) /\ (c = "thread" => thread' \in Waiting),
         run' = run \/ run \in {"pending", "running"},
         \/ thread' = thread \/ thread \notin Waiting \/ thread' \in Waiting
         \/ Free("thread") \/ Free("thread")'
  PROVE  RunsApart'
<1>1. /\ Free("trigger") => Free("trigger")'
      /\ Free("runner") => Free("runner")'
      /\ Free("thread") => Free("thread")' \/ thread' \in Waiting
  BY CallersAre DEF NoNewAnswer, OneNewAnswer, Free, Got
<1> QED
  BY <1>1 DEF RunsApart, RunActive

(* With no request of the run writing, what ends or rolls back the session *)
(* leaves nothing to be written.                                           *)
LEMMA ForgetsCleans ==
  ASSUME SharedInv, Forgets, clashed' = clashed, NoNewAnswer,
         \A w \in Workers : worker[w] \notin Writing /\ worker'[w] \notin Writing
  PROVE  CleanedUp
<1>1. \A w \in Workers : ~Got(w, "none")' => answer'[w] = answer[w]
  BY CallersAre DEF NoNewAnswer
<1> QED
  BY <1>1 DEF CleanedUp, Forgets, SharedInv, WritersInv, Replaces, Got

LEMMA IdleIs ==
  ASSUME RestTypes, thread \notin AtWork \/ AllIdle
  PROVE  \A w \in Workers : worker[w] = "idle" /\ worker[w] \notin Writing
BY DEF RestTypes, AllIdle, Writing

(* Steps without a new answer.                                             *)
LEMMA NoAnswerStep ==
  ASSUME WebInv, ServiceInv', HeldInv', SharedInv', RestTypes', RunsApart', NoNewAnswer,
         registered' = registered, row' \in {row, NoTokens} \/ registered,
         view' \in {view, row, NoTokens} \/ registered, run' = run \/ registered
  PROVE  WebInv'
<1>1. Unregistered'
  BY CallersAre DEF WebInv, Unregistered, NoNewAnswer, Free, Got
<1>2. CodeOnly'
  BY CallersAre DEF WebInv, CodeOnly, NoNewAnswer, Replaces, Got
<1> QED
  BY <1>1, <1>2 DEF WebInv

(* Steps that send a refresh token that there is.                          *)
LEMMA AskStep ==
  ASSUME WebInv, registered, NEW c \in WebCallers \ {"login"}, NEW g, g # NoGrant,
         \/ g = row.refresh
         \/ g = view.refresh /\ c \in ThreadCallers
         \/ Coming(g) /\ c \in Workers,
         Ask(c, g), row' = row, view' \in {view, row, NoTokens}, Undisturbed,
         registered' = registered, RestTypes', RunsApart'
  PROVE  WebInv'
<1>1. ServiceInv' /\ HeldInv' /\ SharedInv' /\ OneNewAnswer(c)
  BY WebAskKeeps DEF WebInv, OneNewAnswer
<1>2. CodeOnly'
  BY <1>1, CallersAre DEF WebInv, CodeOnly, OneNewAnswer, Replaces, Got
<1> QED
  BY <1>1, <1>2 DEF WebInv, Unregistered

(* Steps that store the pair for c in one go.                              *)
LEMMA StoreStep ==
  ASSUME WebInv, NEW c \in WebCallers \ Workers, Got(c, "granted"), Store(c),
         \/ view' = NoTokens /\ CleanedUp
         \/ view' = view /\ c \notin ThreadCallers /\ Undisturbed,
         registered' \in {registered, TRUE}, registered \/ c # "login" \/ registered',
         row' \in Row => RestTypes',
         RunsApart'
  PROVE  WebInv'
<1>1. /\ ServiceInv' /\ HeldInv' /\ SharedInv' /\ row' \in Row /\ NoNewAnswer
  BY StoreKeeps DEF WebInv, NoNewAnswer
<1>2. registered'
  BY UserIs DEF Free, Got, WebInv, RestTypes
<1>3. CodeOnly'
  BY <1>1, CallersAre DEF WebInv, CodeOnly, NoNewAnswer, Replaces, Got
<1> QED
  BY <1>1, <1>2, <1>3 DEF WebInv, Unregistered

(* Steps that deal with an answer that brings nothing to be kept, or whose *)
(* pair is lost.                                                           *)
LEMMA SettleStep ==
  ASSUME WebInv, NEW c \in WebCallers,
         \/ Settle(c) /\ ~Replaces(c)
         \/ Settle(c) /\ c \notin Workers /\ answer[c].sent = NoGrant
         \/ Forget({c}) /\ c \notin Workers,
         row' = row, view' \in {view, row, NoTokens}, registered' = registered,
         clashed' = clashed, Undisturbed \/ CleanedUp, run' = run \/ registered,
         RestTypes', RunsApart'
  PROVE  WebInv'
<1>1. ServiceInv' /\ HeldInv' /\ SharedInv' /\ NoNewAnswer
  <2>1. CASE Settle(c) /\ (~Replaces(c) \/ (answer[c].sent = NoGrant /\ c \notin Workers))
    BY <2>1, WebSettleKeeps DEF WebInv, NoNewAnswer
  <2>2. CASE Forget({c}) /\ c \notin Workers
    BY <2>2, WebForgetKeeps DEF WebInv, NoNewAnswer
  <2> QED
    BY <2>1, <2>2
<1> QED
  BY <1>1, NoAnswerStep

(* Steps that do not concern the endpoint.                                 *)
LEMMA InnerStep ==
  ASSUME WebInv, UNCHANGED serviceVars, row' \in {row, NoTokens},
         view' \in {view, row, NoTokens}, registered' = registered,
         clashed' = clashed, Undisturbed \/ CleanedUp, run' = run \/ registered,
         RestTypes', RunsApart'
  PROVE  WebInv'
<1>1. ServiceInv' /\ Remembers /\ UNCHANGED <<issued, usable, answer, usedBy, lost>>
  BY NothingAsked DEF WebInv
<1>2. \A h \in 1..issued : Redeemable(h) => Redeemable(h)'
  BY <1>1 DEF Redeemable, Got, Replaces
<1>3. HeldInv'
  BY <1>1, <1>2, HoldersKeep DEF WebInv
<1>4. SharedInv'
  <2>1. CASE Undisturbed
    <3>1. TakenStay
      BY <1>1 DEF TakenStay, Got
    <3>2. \A h : Coming(h) => h # row'.refresh
      BY DEF WebInv, SharedInv, ComingInv, Coming, NoTokens
    <3> QED
      BY <1>1, <1>2, <2>1, <3>1, <3>2, SharedKeeps DEF WebInv, OwnToken
  <2> QED
    BY <2>1, CleanKeeps
<1>5. NoNewAnswer
  BY <1>1 DEF NoNewAnswer
<1> QED
  BY <1>1, <1>3, <1>4, <1>5, NoAnswerStep

(* What a settled caller leaves of the others' answers.                    *)
LEMMA SettleAnswers ==
  ASSUME ServiceInv, NEW c \in WebCallers, Settle(c) \/ Forget({c})
  PROVE  NoNewAnswer /\ Free(c)'
<1> NoAnswer.state = "none" /\ c \in Callers
  BY CallersAre DEF NoAnswer
<1>1. CASE Settle(c)
  BY <1>1 DEF Settle, NoNewAnswer, Free, Got, ServiceInv, AnswerTypes
<1>2. CASE Forget({c})
  BY <1>2 DEF Forget, NoNewAnswer, Free, Got
<1> QED
  BY <1>1, <1>2

LEMMA AskAnswers ==
  ASSUME ServiceInv, NEW c \in WebCallers, NEW g, Ask(c, g)
  PROVE  OneNewAnswer(c) /\ Free(c)
<1>1. c \in Callers
  BY CallersAre
<1>2. Free(c) /\ \E st, s, t : Answers(c, st, s, t)
  BY DEF Ask, Fails
<1> QED
  BY <1>1, <1>2 DEF Answers, OneNewAnswer, ServiceInv, AnswerTypes

LEMMA CoroutineStep ==
  ASSUME WebInv,
         \/ LoginAsk \/ LoginAnswer \/ Logout \/ RefreshAsk \/ RefreshAnswer
         \/ JobAsk \/ JobAnswer
  PROVE  WebInv'
<1> USE CallersAre
<1>0. ServiceInv /\ RestTypes /\ RunsApart /\ SharedInv
  BY DEF WebInv
<1>1. ASSUME UNCHANGED <<run, runs, thread, shared, client, worker>>, UNCHANGED registered \/ registered'
      PROVE  /\ UNCHANGED <<run, runs, thread, view, client, worker, clashed>> /\ Undisturbed
             /\ row' \in Row /\ registered' \in BOOLEAN => RestTypes'
  BY <1>0, <1>1 DEF shared, RestTypes, SharedTypes, Undisturbed, AllIdle
<1>2. CASE LoginAsk
  <2>1. AskWithCode("login") /\ UNCHANGED webState
    BY <1>2 DEF LoginAsk
  <2>2. /\ ServiceInv' /\ Remembers
        /\ \A h \in 1..issued : Redeemable(h) => Redeemable(h)'
        /\ answer'["login"].sent = NoGrant
        /\ OneNewAnswer("login")
    BY <1>0, <2>1, AskWithCodeKeeps DEF OneNewAnswer
  <2>3. /\ UNCHANGED <<registered, row, run, runs, thread, view, client, worker, clashed>>
        /\ Undisturbed /\ RestTypes'
    BY <1>0, <1>1, <2>1 DEF webState, RestTypes, SharedTypes
  <2>4. HeldInv'
    BY <2>2, <2>3, HoldersKeep DEF WebInv
  <2>5. SharedInv'
    <3>1. TakenStay
      BY <2>2 DEF TakenStay, OneNewAnswer, Got
    <3>2. \A h \in usable : h \in usable'
      BY <2>1 DEF AskWithCode
    <3>3. \A h : Coming(h) => h # row'.refresh
      BY <1>0, <2>3 DEF SharedInv, ComingInv
    <3> QED
      BY <1>0, <2>2, <2>3, <3>1, <3>2, <3>3, SharedKeeps DEF OwnToken
  <2>6. RunsApart'
    BY <1>0, <2>2, <2>3, RunsApartKeeps
  <2>7. CodeOnly' /\ Unregistered'
    BY <2>2, <2>3 DEF CodeOnly, Unregistered, WebInv, OneNewAnswer, Free, Got
  <2> QED
    BY <2>2, <2>3, <2>4, <2>5, <2>6, <2>7 DEF WebInv
<1>3. CASE LoginAnswer
  <2>1. UNCHANGED <<run, runs, thread, shared, client, worker>> /\ Settle("login")
    BY <1>3 DEF LoginAnswer, Store
  <2>2. RunsApart'
    BY <1>0, <2>1, RunsApartKeeps, SettleAnswers
  <2>3. CASE Got("login", "granted") /\ registered' = TRUE /\ Store("login")
    BY <1>1, <2>1, <2>2, <2>3, StoreStep
  <2>4. CASE UNCHANGED <<registered, row>>
    <3>1. RestTypes'
      BY <1>0, <1>1, <2>1, <2>4 DEF RestTypes, SharedTypes
    <3>2. ~Replaces("login") \/ answer["login"].sent = NoGrant
      BY DEF WebInv, CodeOnly
    <3> QED
      BY <1>1, <2>1, <2>2, <2>4, <3>1, <3>2, SettleStep
  <2> QED
    BY <1>3, <2>3, <2>4 DEF LoginAnswer
<1>4. CASE Logout
  <2>1. /\ NoTokens \in Row /\ row' = NoTokens /\ registered' = registered
        /\ UNCHANGED <<serviceVars, run, runs, thread, shared, client, worker>>
    BY <1>4 DEF Logout, NoTokens, Row
  <2>2. RestTypes'
    BY <1>0, <1>1, <2>1 DEF RestTypes
  <2>3. NoNewAnswer
    BY <2>1 DEF NoNewAnswer, serviceVars
  <2>4. RunsApart'
    BY <1>0, <2>1, <2>3, RunsApartKeeps
  <2> QED
    BY <1>1, <2>1, <2>2, <2>4, InnerStep
<1>5. ASSUME NEW c \in {"route", "job"}, row.refresh # NoGrant, Ask(c, row.refresh),
             UNCHANGED webState
      PROVE  WebInv'
  <2>1. c \in WebCallers \ {"login", "trigger", "runner", "thread"} /\ registered
    BY <1>5, UserIs
  <2>2. /\ UNCHANGED <<registered, row, run, runs, thread, shared, client, worker>>
        /\ UNCHANGED <<view, clashed>> /\ Undisturbed /\ RestTypes'
    BY <1>0, <1>1, <1>5 DEF webState, RestTypes, SharedTypes
  <2>3. RunsApart'
    BY <1>0, <1>5, <2>1, <2>2, AskAnswers, RunsApartKeeps
  <2> QED
    BY <1>5, <2>1, <2>2, <2>3, AskStep
<1>6. ASSUME NEW c \in {"route", "job"},
             \/ Got(c, "granted") /\ Store(c)
             \/ (StoreFails(c) \/ NothingToStore(c)) /\ UNCHANGED row,
             UNCHANGED <<registered, run, runs, thread, shared, client, worker>>
      PROVE  WebInv'
  <2>1. c \in WebCallers \ {"login"} /\ c \notin ThreadCallers /\ c \notin Workers
    OBVIOUS
  <2>2. RunsApart'
    BY <1>0, <1>6, <2>1, SettleAnswers, RunsApartKeeps DEF Store, StoreFails, NothingToStore
  <2>3. row' \in Row => RestTypes'
    BY <1>0, <1>1, <1>6 DEF RestTypes
  <2>4. CASE Got(c, "granted") /\ Store(c)
    BY <1>0, <1>1, <1>6, <2>1, <2>2, <2>3, <2>4, StoreStep DEF RestTypes
  <2>5. CASE (StoreFails(c) \/ NothingToStore(c)) /\ UNCHANGED row
    <3>1. RestTypes'
      BY <1>0, <2>3, <2>5 DEF RestTypes, SharedTypes
    <3>2. \/ Settle(c) /\ ~Replaces(c)
          \/ Forget({c}) /\ c \notin Workers
      BY <2>1, <2>5 DEF StoreFails, NothingToStore, Replaces, Got
    <3> QED
      BY <1>1, <1>6, <2>1, <2>2, <2>5, <3>1, <3>2, SettleStep
  <2> QED
    BY <1>6, <2>4, <2>5
<1>7. CASE RefreshAsk \/ JobAsk
  BY <1>5, <1>7 DEF RefreshAsk, JobAsk
<1>8. CASE RefreshAnswer \/ JobAnswer
  BY <1>6, <1>8 DEF RefreshAnswer, JobAnswer
<1> QED
  BY <1>2, <1>3, <1>4, <1>7, <1>8

LEMMA RunStep ==
  ASSUME WebInv, Trigger \/ TriggerAnswer \/ Dispatch \/ DispatchAnswer
  PROVE  WebInv'
<1> USE CallersAre
<1>0. ServiceInv /\ RestTypes /\ RunsApart
  BY DEF WebInv
<1>f. thread = "none" => Free("thread")
  BY <1>0 DEF RunsApart, Waiting
<1>s. ASSUME UNCHANGED <<registered, thread, shared, client, worker>>, thread = "none"
      PROVE  /\ UNCHANGED <<view, clashed>> /\ Undisturbed
             /\ row' \in Row /\ run' \in RunStatus /\ runs' \in 0..MaxRuns => RestTypes'
  BY <1>0, <1>s DEF shared, RestTypes, SharedTypes, Undisturbed, AllIdle
<1>1. ASSUME NEW c \in {"trigger", "runner"}, NEW next \in {"queued", "pending"},
             Ensure(c, next), thread = "none", runs' \in 0..MaxRuns, registered,
             c = "trigger" => run \notin RunActive /\ next = "queued",
             c = "runner" => run = "queued" /\ Free("trigger"),
             Free(c), Free("runner"),
             UNCHANGED <<registered, row, thread, shared, client, worker>>
      PROVE  WebInv'
  <2>1. c \in WebCallers \ {"login"}
    OBVIOUS
  <2>2. run' \in RunStatus => RestTypes'
    BY <1>0, <1>1, <1>s DEF RestTypes, SharedTypes
  <2>3. CASE UNCHANGED serviceVars /\ run' \in {next, "auth_required"}
    <3>1. RunsApart'
      BY <1>1, <1>f, <2>3 DEF RunsApart, Free, Got, serviceVars
    <3>2. RestTypes'
      BY <2>2, <2>3 DEF RunStatus, RunActive
    <3> QED
      BY <1>1, <1>s, <2>3, <3>1, <3>2, InnerStep
  <2>4. CASE row.refresh # NoGrant /\ Ask(c, row.refresh) /\ UNCHANGED run
    <3>1. OneNewAnswer(c)
      BY <1>0, <2>1, <2>4, AskAnswers
    <3>2. RunsApart'
      BY <1>1, <1>f, <2>4, <3>1 DEF RunsApart, OneNewAnswer, Free, Got
    <3>3. RestTypes'
      BY <1>0, <2>2, <2>4 DEF RestTypes
    <3> QED
      BY <1>1, <1>s, <2>1, <2>4, <3>2, <3>3, AskStep
  <2> QED
    BY <1>1, <2>3, <2>4 DEF Ensure
<1>2. ASSUME NEW c \in {"trigger", "runner"}, NEW next \in {"queued", "pending"},
             NEW stuck \in RunStatus,
             Ensured(c, next, stuck), thread = "none", Free("trigger") \/ Free("runner"), ~Free(c),
             UNCHANGED <<registered, runs, thread, shared, client, worker>>
      PROVE  WebInv'
  <2>1. c \in WebCallers \ {"login"} /\ c \notin ThreadCallers /\ c \notin Workers /\ registered
    BY <1>2, UserIs
  <2>2. (Settle(c) \/ Forget({c})) /\ run' \in {next, stuck, "auth_required"}
    BY <1>2 DEF Ensured, Store, StoreFails, NothingToStore
  <2>3. NoNewAnswer /\ Free(c)'
    BY <1>0, <2>1, <2>2, SettleAnswers
  <2>4. RunsApart'
    BY <1>2, <1>f, <2>2, <2>3 DEF RunsApart, NoNewAnswer, Free, Got
  <2>5. row' \in Row => RestTypes'
    BY <1>0, <1>2, <1>s, <2>2 DEF RestTypes, RunStatus, RunActive
  <2>6. CASE Got(c, "granted") /\ Store(c)
    BY <1>0, <1>2, <1>s, <2>1, <2>4, <2>5, <2>6, StoreStep
  <2>7. CASE (StoreFails(c) \/ NothingToStore(c)) /\ UNCHANGED row
    <3>1. RestTypes'
      BY <1>0, <2>5, <2>7 DEF RestTypes, SharedTypes
    <3>2. \/ Settle(c) /\ ~Replaces(c)
          \/ Forget({c}) /\ c \notin Workers
      BY <2>1, <2>7 DEF StoreFails, NothingToStore, Replaces, Got
    <3> QED
      BY <1>2, <1>s, <2>1, <2>4, <2>7, <3>1, <3>2, SettleStep
  <2> QED
    BY <1>2, <2>6, <2>7 DEF Ensured
<1>3. CASE Trigger
  <2>1. run \notin RunActive /\ thread = "none" /\ Free("runner") /\ Free("trigger")
    BY <1>0, <1>3 DEF Trigger, RestTypes, RunsApart, RunActive
  <2>2. runs' \in 0..MaxRuns
    BY <1>0, <1>3, WebAssumption DEF Trigger, RestTypes, WebAssumption
  <2> QED
    BY <1>1, <1>3, <2>1, <2>2 DEF Trigger
<1>4. CASE Dispatch
  <2>1. run = "queued" /\ thread = "none" /\ Free("runner") /\ Free("trigger") /\ registered
    BY <1>0, <1>4, UserIs DEF Dispatch, RestTypes, RunsApart, RunActive
  <2> QED
    BY <1>0, <1>1, <1>4, <2>1 DEF Dispatch, RestTypes
<1>5. CASE TriggerAnswer
  <2>1. ~Free("trigger") /\ run \in RunStatus
    BY <1>0, <1>5 DEF TriggerAnswer, Ensured, StoreFails, NothingToStore, Free, Got, RestTypes
  <2>2. thread = "none" /\ Free("runner")
    BY <1>0, <2>1 DEF RestTypes, RunsApart, RunActive
  <2> QED
    BY <1>2, <1>5, <2>1, <2>2 DEF TriggerAnswer
<1>6. CASE DispatchAnswer
  <2>1. ~Free("runner")
    BY <1>6 DEF DispatchAnswer, Ensured, StoreFails, NothingToStore, Free, Got
  <2>2. thread = "none" /\ Free("trigger") /\ "abandoned" \in RunStatus
    BY <1>0, <2>1 DEF RestTypes, RunsApart, RunActive, RunStatus
  <2> QED
    BY <1>2, <1>6, <2>1, <2>2 DEF DispatchAnswer
<1> QED
  BY <1>3, <1>4, <1>5, <1>6

(* The tokens the session shows are those of the row or of its view, or    *)
(* are still to come; outside of the writing of requests, only the former. *)
LEMMA SeenIs ==
  ASSUME WebInv
  PROVE  /\ Loaded \in {view, row}
         /\ \/ Seen.refresh \in {NoGrant, row.refresh, view.refresh}
            \/ Coming(Seen.refresh)
         /\ ~broken /\ thread \notin AtWork => Seen \in {view, row}
         /\ Seen.access \in Grants \cup {NoGrant}
<1>1. Loaded \in {view, row} /\ Loaded \in Row /\ unsaved \in Row /\ flushed \in Row
  BY DEF Loaded, WebInv, RestTypes, SharedTypes
<1>2. PICK inner \in Row : inner = Over(flushed, Loaded)
  BY <1>1, OverIs
<1>3. /\ Seen = Over(unsaved, inner) /\ Seen \in Row
      /\ inner.refresh = IF flushed.refresh # NoGrant THEN flushed.refresh ELSE Loaded.refresh
      /\ Seen.refresh = IF unsaved.refresh # NoGrant THEN unsaved.refresh ELSE inner.refresh
  BY <1>1, <1>2, OverIs DEF Seen
<1>4. Seen.refresh \in {NoGrant, row.refresh, view.refresh} \/ Coming(Seen.refresh)
  BY <1>1, <1>3 DEF Coming
<1>5. ASSUME ~broken, thread \notin AtWork PROVE Seen \in {view, row}
  <2>1. Writers = {}
    BY <1>5, IdleIs DEF WebInv, SharedInv, WritersInv, Writers
  <2>2. unsaved = NoTokens /\ flushed = NoTokens
    BY <1>5, <2>1 DEF WebInv, SharedInv, WritersInv, Clean, Clash, WritesAlone
  <2> QED
    BY <1>1, <1>2, <1>3, <2>2, OverIs
<1> QED
  BY <1>1, <1>3, <1>4, <1>5 DEF Row

LEMMA ThreadStep ==
  ASSUME WebInv,
         \/ ThreadBegin \/ ThreadAsk \/ ThreadCannotAsk \/ ThreadAnswer \/ ThreadStart
         \/ ThreadEnd \/ Progress
  PROVE  WebInv'
<1> USE CallersAre
<1>0. /\ ServiceInv /\ RestTypes /\ RunsApart /\ SharedInv
      /\ NoTokens \in Row /\ NoGrant \in Grants \cup {NoGrant}
  BY DEF WebInv, NoTokens, Row
<1>1. "thread" \in WebCallers \ {"login", "trigger", "runner"} /\ "thread" \notin Workers
  OBVIOUS
<1>2. ASSUME UNCHANGED <<serviceVars, row, worker, registered, runs>>, RestTypes',
             view' \in {view, row, NoTokens}, run' = run \/ run \in {"pending", "running"},
             clashed' = clashed, Undisturbed \/ CleanedUp,
             thread \notin Waiting \/ Free("thread")
      PROVE  WebInv'
  <2>1. NoNewAnswer
    BY <1>2 DEF NoNewAnswer, serviceVars
  <2>2. RunsApart'
    BY <1>0, <1>2, <2>1, RunsApartKeeps
  <2>3. run' = run \/ registered
    BY <1>2, UserIs
  <2> QED
    BY <1>2, <2>2, <2>3, InnerStep
<1>3. ASSUME NEW status \in {"auth_required", "completed", "failed", "abandoned"},
             EndThread(status), UNCHANGED <<registered, runs, worker>>, row' = row,
             thread \notin AtWork \/ AllIdle
      PROVE  /\ RestTypes' /\ view' = NoTokens /\ clashed' = clashed
             /\ NoNewAnswer => CleanedUp
  <2>1. RestTypes'
    BY <1>0, <1>3, IdleIs
    DEF EndThread, Forgets, RestTypes, SharedTypes, RunStatus, RunActive, ThreadState, AllIdle
  <2>2. NoNewAnswer => CleanedUp
    BY <1>0, <1>3, IdleIs, ForgetsCleans DEF EndThread
  <2> QED
    BY <1>3, <2>1, <2>2 DEF EndThread, Forgets
<1>4. ASSUME Look, UNCHANGED <<row, registered, run, runs, client, worker>>,
             thread' \in {"renewing", "recovering", "starting"}, run = "pending" \/ thread' = thread,
             thread \notin AtWork
      PROVE  /\ RestTypes' /\ Undisturbed /\ clashed' = clashed
             /\ view' \in {view, row, NoTokens}
  BY <1>0, <1>4, SeenIs, IdleIs
  DEF Look, RestTypes, SharedTypes, ThreadState, Undisturbed, AllIdle, AtWork
<1>5. CASE ThreadBegin
  <2>1. /\ UNCHANGED <<serviceVars, row, worker, registered, runs>> /\ run = "pending"
        /\ thread = "none" /\ NoNewAnswer
    BY <1>5 DEF ThreadBegin, WebFrame, NoNewAnswer, serviceVars
  <2>2. CASE EndThread("auth_required")
    BY <1>2, <1>3, <2>1, <2>2 DEF Waiting, AtWork
  <2>3. CASE thread' \in {"renewing", "starting"} /\ Look /\ UNCHANGED <<run, client>>
    BY <1>2, <1>4, <2>1, <2>3 DEF Waiting, AtWork
  <2> QED
    BY <1>5, <2>2, <2>3 DEF ThreadBegin
<1>6. CASE ThreadAsk
  <2>1. /\ Seen.refresh # NoGrant /\ Look /\ Ask("thread", Seen.refresh)
        /\ UNCHANGED <<row, run, thread, client, worker, registered, runs>>
        /\ thread' \in Waiting /\ thread \in {"renewing", "recovering"} /\ thread \notin AtWork
        /\ thread # "none"
    BY <1>6 DEF ThreadAsk, WebFrame, Waiting, AtWork
  <2>2. RestTypes' /\ Undisturbed /\ view' \in {view, row, NoTokens} /\ registered
    BY <1>4, <2>1, UserIs
  <2>3. RunsApart'
    BY <1>0, <1>1, <2>1, AskAnswers, RunsApartKeeps
  <2>4. Seen.refresh = row.refresh \/ Seen.refresh = view.refresh
    BY <2>1, SeenIs DEF Look
  <2> QED
    BY <1>1, <2>1, <2>2, <2>3, <2>4, AskStep
<1>7. CASE ThreadCannotAsk
  <2>1. /\ UNCHANGED <<serviceVars, row, worker, registered, runs>> /\ Free("thread")
        /\ EndThread("auth_required") /\ thread \notin AtWork
        /\ run \in {"pending", "running"} /\ NoNewAnswer
    BY <1>0, <1>7 DEF ThreadCannotAsk, WebFrame, RestTypes, AtWork, NoNewAnswer, serviceVars
  <2> QED
    BY <1>2, <1>3, <2>1
<1>8. CASE ThreadAnswer
  <2>1. /\ UNCHANGED <<worker, registered, runs>>
        /\ Settle("thread") \/ Forget({"thread"})
        /\ ~Free("thread")
    BY <1>8 DEF ThreadAnswer, WebFrame, Store, StoreFails, NothingToStore, Free, Got
  <2>2. /\ thread \in Waiting /\ thread \notin AtWork /\ run \in {"pending", "running"}
        /\ registered /\ NoNewAnswer /\ Free("thread")'
    BY <1>0, <1>1, <2>1, UserIs, SettleAnswers DEF RunsApart, Waiting, AtWork, RestTypes
  <2>3. CASE /\ Got("thread", "granted") /\ Store("thread") /\ Forgets
             /\ thread' \in {"starting", "restarting"}
             /\ UNCHANGED <<run, client, broken, clashed, worker, registered, runs>>
    <3>1. row' \in Row => RestTypes'
      BY <1>0, <2>2, <2>3, IdleIs
      DEF RestTypes, SharedTypes, ThreadState, Forgets, AllIdle
    <3>2. RunsApart'
      BY <1>0, <2>2, <2>3, RunsApartKeeps
    <3>3. CleanedUp /\ view' = NoTokens
      BY <1>0, <2>2, <2>3, IdleIs, ForgetsCleans DEF Forgets
    <3> QED
      BY <1>0, <1>1, <2>2, <2>3, <3>1, <3>2, <3>3, StoreStep
  <2>4. CASE /\ StoreFails("thread") \/ NothingToStore("thread")
             /\ EndThread("abandoned") \/ EndThread("auth_required")
             /\ UNCHANGED <<row, worker, registered, runs>>
    <3>1. RestTypes' /\ view' = NoTokens /\ clashed' = clashed /\ CleanedUp
      BY <1>3, <2>2, <2>4
    <3>2. RunsApart'
      BY <1>0, <2>2, RunsApartKeeps
    <3>3. \/ Settle("thread") /\ ~Replaces("thread")
          \/ Forget({"thread"}) /\ "thread" \notin Workers
      BY <2>4 DEF StoreFails, NothingToStore, Replaces, Got
    <3> QED
      BY <1>1, <2>2, <2>4, <3>1, <3>2, <3>3, SettleStep
  <2> QED
    BY <1>8, <2>3, <2>4 DEF ThreadAnswer, WebFrame
<1>9. CASE ThreadStart
  <2>1. /\ run \in {"pending", "running"} /\ thread \notin Waiting /\ thread \notin AtWork
        /\ UNCHANGED <<serviceVars, row, worker, registered, runs, unsaved, flushed, broken, clashed>>
        /\ view' = row
    BY <1>0, <1>9 DEF ThreadStart, WebFrame, RestTypes, Waiting, AtWork
  <2>2. RestTypes'
    BY <1>0, <1>9, <2>1, IdleIs
    DEF ThreadStart, RestTypes, SharedTypes, ThreadState, RunStatus, RunActive, Row, AllIdle
  <2>3. Undisturbed
    BY <2>1 DEF Undisturbed
  <2> QED
    BY <1>2, <2>1, <2>2, <2>3
<1>10. CASE ThreadEnd
  <2>1. /\ run \in {"pending", "running"} /\ thread \notin Waiting /\ AllIdle /\ NoNewAnswer
        /\ UNCHANGED <<serviceVars, row, worker, registered, runs>>
    BY <1>0, <1>10 DEF ThreadEnd, AtWork, RestTypes, WebFrame, Waiting, NoNewAnswer, serviceVars
  <2>2. PICK status \in {"completed", "failed", "abandoned"} : EndThread(status)
    BY <1>10 DEF ThreadEnd
  <2> QED
    BY <1>2, <1>3, <2>1, <2>2
<1>11. CASE Progress
  <2>1. /\ UNCHANGED <<serviceVars, row, worker, run, registered, runs, thread, client, clashed>>
        /\ thread \notin Waiting /\ AllIdle /\ Forgets /\ broken' = FALSE /\ NoNewAnswer
        /\ view' = NoTokens
    BY <1>11 DEF Progress, AtWork, WebFrame, Waiting, NoNewAnswer, serviceVars, Forgets
  <2>2. RestTypes'
    BY <1>0, <2>1 DEF RestTypes, SharedTypes, Forgets, AllIdle
  <2>3. CleanedUp
    BY <1>0, <2>1, IdleIs, ForgetsCleans
  <2> QED
    BY <1>2, <2>1, <2>2, <2>3
<1> QED
  BY <1>5, <1>6, <1>7, <1>8, <1>9, <1>10, <1>11

(* The requests of a run keep the types of what they share.                *)
LEMMA WorkerTypes ==
  ASSUME WebInv, NEW w \in Workers, WorkerWrites(w)
  PROVE  /\ row' \in Row /\ view' \in Row /\ unsaved' \in Row /\ flushed' \in Row
         /\ loaded' \in BOOLEAN /\ broken' \in BOOLEAN /\ clashed' \subseteq Grants
         /\ worker' \in [Workers -> RequestState] /\ worker[w] # "idle"
<1> /\ NoTokens \in Row /\ SharedTypes /\ loaded \in BOOLEAN /\ broken \in BOOLEAN
    /\ clashed \subseteq Grants /\ answer[w].got \in Grants \cup {NoGrant}
    /\ \A st \in RequestState : [worker EXCEPT ![w] = st] \in [Workers -> RequestState]
  BY CallersAre, GrantTypes DEF NoTokens, Row, WebInv, ServiceInv, RestTypes, SharedTypes
<1>1. CASE WorkerTakes(w)
  <2>1. clashed' \subseteq Grants
    BY <1>1, TakeKeeps DEF WebInv
  <2> QED
    BY <1>1, <2>1 DEF WorkerTakes, SharedTypes, Row, RequestState, Writing
<1>2. CASE WorkerSets(w)
  BY <1>2 DEF WorkerSets, SharedTypes, Row, RequestState, Writing
<1>3. CASE WorkerFlushes(w)
  BY <1>3, OverIs DEF WorkerFlushes, SharedTypes, RequestState, Writing
<1>4. CASE FlushFails(w)
  BY <1>4 DEF FlushFails, Forgets, SharedTypes, RequestState
<1>5. CASE CommitRefused(w)
  BY <1>5 DEF CommitRefused, shared, SharedTypes, RequestState
<1>6. CASE WorkerCommits(w)
  BY <1>6, OverIs DEF WorkerCommits, Forgets, SharedTypes, RequestState
<1>7. CASE CommitRaises(w)
  BY <1>7, OverIs DEF CommitRaises, Forgets, SharedTypes, RequestState
<1> QED
  BY <1>1, <1>2, <1>3, <1>4, <1>5, <1>6, <1>7 DEF WorkerWrites

LEMMA WorkerStep ==
  ASSUME WebInv, NEW w \in Workers,
         \/ Denied(w) \/ WorkerAsk(w) \/ CannotRead(w) \/ WorkerRefused(w) \/ WorkerWrites(w)
         \/ WorkerRetry(w) \/ FailureCaught(w) \/ FailureRaised(w)
  PROVE  WebInv'
<1> USE CallersAre
<1>0. /\ ServiceInv /\ RestTypes /\ RunsApart /\ SharedInv /\ worker \in [Workers -> RequestState]
      /\ NoTokens \in Row /\ NoGrant \in Grants \cup {NoGrant}
  BY DEF WebInv, NoTokens, Row, RestTypes, SharedTypes
<1>1. /\ w \in WebCallers \ {"login", "trigger", "runner"} /\ w \in ThreadCallers
      /\ w # "thread"
  BY WebAssumption DEF WebAssumption
<1>2. thread \in AtWork /\ thread \notin Waiting /\ run \in {"pending", "running"} /\ registered
  <2>1. thread \in AtWork
    <3>1. CASE WorkerWrites(w)
      BY <1>0, <3>1, IdleIs, WorkerTypes
    <3>2. CASE ~WorkerWrites(w)
      BY <1>0, <3>2, IdleIs
      DEF Denied, WorkerAsk, CannotRead, WorkerRefused, WorkerRetry, FailureCaught, FailureRaised
    <3> QED
      BY <3>1, <3>2
  <2> QED
    BY <1>0, <2>1, UserIs DEF RestTypes, AtWork, Waiting
<1>3. ASSUME UNCHANGED <<row, run, thread, registered, runs>>, NEW from \in RequestState \ Writing,
             NEW to \in RequestState \ Writing, worker[w] = from, worker' = [worker EXCEPT ![w] = to],
             client' \in Grants \cup {NoGrant}, Look \/ UNCHANGED shared
      PROVE  /\ RestTypes' /\ view' \in {view, row, NoTokens} /\ clashed' = clashed /\ Undisturbed
             /\ (NoNewAnswer \/ OneNewAnswer(w)) => RunsApart'
  <2>1. /\ UNCHANGED <<unsaved, flushed, broken, clashed>> /\ view' \in {view, row}
        /\ loaded' \in BOOLEAN
    BY <1>0, <1>3, SeenIs DEF Look, shared, RestTypes
  <2>2. worker' \in [Workers -> RequestState] /\ Undisturbed
    BY <1>0, <1>3, <2>1 DEF Undisturbed
  <2>3. RestTypes'
    BY <1>0, <1>2, <1>3, <2>1, <2>2 DEF RestTypes, SharedTypes
  <2>4. (NoNewAnswer \/ OneNewAnswer(w)) => RunsApart'
    BY <1>0, <1>1, <1>3, RunsApartKeeps
  <2> QED
    BY <2>1, <2>2, <2>3, <2>4
<1>4. ASSUME UNCHANGED serviceVars PROVE NoNewAnswer
  BY <1>4 DEF NoNewAnswer, serviceVars
<1>5. CASE Denied(w) \/ CannotRead(w) \/ FailureCaught(w)
  <2>1. UNCHANGED <<serviceVars, row, run, thread, shared, client, registered, runs>>
    BY <1>5 DEF Denied, CannotRead, FailureCaught, WebFrame
  <2>2. /\ worker[w] \in RequestState \ Writing
        /\ \E to \in RequestState \ Writing : worker' = [worker EXCEPT ![w] = to]
    BY <1>5 DEF Denied, CannotRead, FailureCaught, RequestState, Writing
  <2> QED
    BY <1>0, <1>3, <1>4, <2>1, <2>2, InnerStep DEF RestTypes
<1>6. CASE WorkerAsk(w)
  <2>1. Look /\ UNCHANGED <<row, run, thread, client, registered, runs>>
    BY <1>6 DEF WorkerAsk, WebFrame
  <2>2. /\ worker[w] \in RequestState \ Writing
        /\ \E to \in RequestState \ Writing : worker' = [worker EXCEPT ![w] = to]
    BY <1>6 DEF WorkerAsk, RequestState, Writing
  <2>3. /\ RestTypes' /\ view' \in {view, row, NoTokens} /\ clashed' = clashed /\ Undisturbed
        /\ (NoNewAnswer \/ OneNewAnswer(w)) => RunsApart'
    BY <1>0, <1>3, <2>1, <2>2 DEF RestTypes
  <2>4. CASE UNCHANGED serviceVars
    BY <1>4, <2>1, <2>3, <2>4, InnerStep
  <2>5. CASE Seen.refresh # NoGrant /\ Ask(w, Seen.refresh)
    <3>1. RunsApart'
      BY <1>0, <1>1, <2>3, <2>5, AskAnswers
    <3> QED
      BY <1>1, <1>2, <2>1, <2>3, <2>5, <3>1, SeenIs, AskStep
  <2> QED
    BY <1>6, <2>4, <2>5 DEF WorkerAsk
<1>7. CASE WorkerRefused(w)
  <2>1. /\ UNCHANGED <<row, run, thread, shared, client, registered, runs>>
        /\ Settle(w) /\ ~Replaces(w)
    BY <1>7 DEF WorkerRefused, NothingToStore, Replaces, Got, WebFrame
  <2>2. /\ worker[w] \in RequestState \ Writing
        /\ \E to \in RequestState \ Writing : worker' = [worker EXCEPT ![w] = to]
    BY <1>7 DEF WorkerRefused, RequestState, Writing
  <2>3. RestTypes' /\ view' \in {view, row, NoTokens} /\ clashed' = clashed /\ Undisturbed /\ RunsApart'
    BY <1>0, <1>1, <1>3, <2>1, <2>2, SettleAnswers DEF RestTypes
  <2> QED
    BY <1>1, <2>1, <2>3, SettleStep
<1>8. CASE WorkerWrites(w)
  <2>1. ServiceInv' /\ HeldInv' /\ SharedInv' /\ OneNewAnswer(w)
    BY <1>0, <1>8, WorkerWritesKeeps DEF WebInv, RestTypes, OneNewAnswer
  <2>2. UNCHANGED <<run, thread, client, registered, runs>>
    BY <1>8
    DEF WorkerWrites, WorkerTakes, WorkerSets, WorkerFlushes, FlushFails, CommitRefused,
        WorkerCommits, CommitRaises, WebFrame
  <2>3. RestTypes'
    BY <1>0, <1>2, <1>8, <2>2, WorkerTypes DEF RestTypes, SharedTypes
  <2>4. RunsApart'
    BY <1>0, <1>1, <2>1, <2>2, RunsApartKeeps
  <2>5. CodeOnly' /\ Unregistered'
    BY <1>1, <1>2, <2>1, <2>2 DEF WebInv, CodeOnly, Unregistered, OneNewAnswer, Replaces, Got
  <2> QED
    BY <2>1, <2>3, <2>4, <2>5 DEF WebInv
<1>9. CASE WorkerRetry(w)
  <2>1. /\ Look /\ client' \in {client, Seen.access}
        /\ UNCHANGED <<serviceVars, row, run, thread, registered, runs>>
    BY <1>9 DEF WorkerRetry, WebFrame
  <2>2. /\ worker[w] \in RequestState \ Writing
        /\ \E to \in RequestState \ Writing : worker' = [worker EXCEPT ![w] = to]
    BY <1>9 DEF WorkerRetry, RequestState, Writing
  <2> QED
    BY <1>0, <1>3, <1>4, <2>1, <2>2, SeenIs, InnerStep DEF RestTypes
<1>10. CASE FailureRaised(w)
  <2>1. /\ UNCHANGED <<serviceVars, row, registered, runs>> /\ worker' = [v \in Workers |-> "idle"]
        /\ \A v \in Workers : worker[v] \notin Writing /\ worker'[v] \notin Writing
        /\ AllIdle' /\ worker' \in [Workers -> RequestState]
    BY <1>10 DEF FailureRaised, WebFrame, Writing, AllIdle, RequestState
  <2>2. NoNewAnswer
    BY <1>4, <2>1
  <2>3. CASE thread = "working" /\ thread' = "recovering" /\ UNCHANGED <<run, shared, client>>
    <3>1. RestTypes' /\ Undisturbed /\ UNCHANGED <<view, clashed>>
      BY <1>0, <2>1, <2>3 DEF RestTypes, SharedTypes, ThreadState, shared, Undisturbed
    <3>2. RunsApart'
      BY <1>0, <1>2, <2>2, <2>3, RunsApartKeeps
    <3> QED
      BY <2>1, <2>3, <3>1, <3>2, InnerStep
  <2>4. CASE EndThread("abandoned") \/ EndThread("auth_required")
    <3>1. RestTypes' /\ view' = NoTokens /\ clashed' = clashed /\ CleanedUp
      <4>1. CleanedUp
        BY <1>0, <2>1, <2>2, <2>4, ForgetsCleans DEF EndThread
      <4> QED
        BY <1>0, <2>1, <2>4, <4>1
        DEF RestTypes, SharedTypes, ThreadState, EndThread, Forgets, RunStatus, RunActive
    <3>2. RunsApart'
      BY <1>0, <1>2, <2>2, RunsApartKeeps
    <3> QED
      BY <1>2, <2>1, <3>1, <3>2, InnerStep
  <2> QED
    BY <1>10, <2>3, <2>4 DEF FailureRaised
<1> QED
  BY <1>5, <1>6, <1>7, <1>8, <1>9, <1>10

LEMMA CrashStep == ASSUME WebInv, Crash PROVE WebInv'
<1>0. ServiceInv /\ HeldInv /\ RestTypes /\ NoTokens \in Row
  BY DEF WebInv, NoTokens, Row
<1>1. /\ ServiceInv' /\ Remembers
      /\ \A h \in 1..issued : Redeemable(h) => Redeemable(h)'
      /\ \A d \in Callers : ~Got(d, "none")' => answer'[d] = answer[d] /\ d \notin WebCallers
  BY <1>0, CallersAre, ForgetKeeps DEF Crash
<1>2. /\ view' = NoTokens /\ UNCHANGED <<registered, row, runs, clashed>> /\ Forgets
      /\ loaded' = FALSE /\ thread' = "none" /\ client' = NoGrant /\ broken' = FALSE
      /\ run' = IF run \in RunActive THEN "failed" ELSE run
      /\ worker' \in [Workers -> RequestState] /\ \A w \in Workers : worker'[w] = "idle"
  BY DEF Crash, EndThread, Forgets, RequestState
<1>3. RestTypes'
  BY <1>0, <1>2 DEF RestTypes, SharedTypes, RunStatus, RunActive, ThreadState, Forgets, AllIdle
<1>4. RunsApart'
  BY <1>1, CallersAre DEF RunsApart, Free, Got
<1>5. HeldInv'
  BY <1>0, <1>1, <1>2, HoldersKeep
<1>6. SharedInv'
  <2>1. \A w \in Workers : Got(w, "none")'
    BY <1>1, CallersAre
  <2> QED
    BY <1>2, <2>1, CleanKeeps DEF CleanedUp, Forgets, Writing, Got
<1>7. run' = run \/ registered
  BY <1>2, UserIs DEF RunActive
<1> QED
  BY <1>1, <1>2, <1>3, <1>4, <1>5, <1>6, <1>7, NoAnswerStep DEF NoNewAnswer

LEMMA AgeStep == ASSUME WebInv, Age PROVE WebInv'
<1>0. ServiceInv /\ HeldInv /\ RestTypes /\ RunsApart /\ SharedInv
  BY DEF WebInv
<1>1. PICK g : GrowOld(g)
  BY DEF Age
<1>2. ServiceInv' /\ UNCHANGED <<issued, usable, answer, usedBy, lost>>
  BY <1>0, <1>1, GrowOldKeeps
<1>3. /\ UNCHANGED <<registered, row, run, runs, thread, view, loaded, client, worker>>
      /\ UNCHANGED <<unsaved, flushed, broken, clashed>>
  BY DEF Age, webState, shared
<1>4. Remembers
  <2>1. issued <= issued'
    BY <1>0, <1>2, GrantTypes DEF ServiceInv
  <2> QED
    BY <1>2, <2>1 DEF Remembers, Secret, Got
<1>5. \A h \in 1..issued : Redeemable(h) => Redeemable(h)'
  BY <1>2 DEF Redeemable, Got, Replaces
<1>6. HeldInv'
  BY <1>0, <1>2, <1>3, <1>4, <1>5, HoldersKeep
<1>7. RestTypes' /\ RunsApart'
  BY <1>0, <1>2, <1>3 DEF RestTypes, SharedTypes, RunsApart, Free, Got, AllIdle
<1>8. SharedInv'
  <2>1. TakenStay /\ Undisturbed
    BY <1>2, <1>3 DEF TakenStay, Undisturbed, Got
  <2>2. \A h : Coming(h) => h # row'.refresh
    BY <1>0, <1>3 DEF SharedInv, ComingInv
  <2> QED
    BY <1>0, <1>2, <1>3, <1>4, <1>5, <2>1, <2>2, SharedKeeps DEF OwnToken
<1> QED
  BY <1>2, <1>3, <1>6, <1>7, <1>8, NoAnswerStep DEF NoNewAnswer

LEMMA WebInitial == ASSUME ServiceInit, WebInit PROVE WebInv
<1>1. ServiceInv
  BY ServiceInitial
<1>2. /\ row = NoTokens /\ view = NoTokens /\ unsaved = NoTokens /\ flushed = NoTokens
      /\ NoTokens.access = NoGrant /\ NoTokens.refresh = NoGrant /\ NoTokens \in Row
  BY DEF WebInit, NoTokens, Row
<1>3. NoAnswer.state = "none"
  BY DEF NoAnswer
<1>4. \A c \in Callers : Free(c) /\ ~Got(c, "granted") /\ ~Got(c, "taken") /\ ~Replaces(c)
  BY <1>3 DEF ServiceInit, Free, Got, Replaces
<1>5. HeldInv
  BY <1>2, <1>4, ServiceAssumption
  DEF ServiceInit, HeldInv, TokensArePaired, Held, Secret, RefreshTokenKept, ViewKept, NoGrant
<1>6. \A w \in Workers : worker[w] = "idle"
  BY DEF WebInit
<1>7. RestTypes
  <2>1. runs \in 0..MaxRuns
    BY WebAssumption DEF WebInit, WebAssumption
  <2>2. worker \in [Workers -> RequestState]
    BY DEF WebInit, RequestState
  <2> QED
    BY <1>2, <1>6, <2>1, <2>2
    DEF WebInit, RestTypes, SharedTypes, RunStatus, ThreadState, AllIdle
<1>8. SharedInv
  <2>1. Writers = {} /\ Setting = {}
    BY <1>4, <1>6, CallersAre DEF Writers, Setting
  <2> QED
    BY <1>2, <1>4, <1>6, <2>1, CallersAre
    DEF SharedInv, ComingInv, Coming, WritersInv, Clean, Writing
<1>9. RunsApart /\ Unregistered /\ CodeOnly
  BY <1>2, <1>4, CallersAre DEF RunsApart, Unregistered, CodeOnly, WebInit
<1> QED
  BY <1>1, <1>5, <1>7, <1>8, <1>9 DEF WebInv

LEMMA WebNextKeeps == ASSUME WebInv, [WebNext]_webVars PROVE WebInv'
<1>1. CASE UNCHANGED webVars
  <2>1. /\ UNCHANGED <<serviceVars, registered, row, run, runs, thread, view, loaded, client, worker>>
        /\ UNCHANGED <<unsaved, flushed, broken, clashed>>
    BY <1>1 DEF webVars, webState, shared
  <2>2. RestTypes' /\ RunsApart' /\ Undisturbed
    BY <2>1 DEF WebInv, RestTypes, SharedTypes, RunsApart, Free, Got, serviceVars, AllIdle, Undisturbed
  <2> QED
    BY <2>1, <2>2, InnerStep
<1> QED
  BY <1>1, CoroutineStep, RunStep, ThreadStep, WorkerStep, CrashStep, AgeStep
  DEF WebNext, Thread

LEMMA WebInvHolds == WebSpec => []WebInv
<1>1. ServiceInit /\ WebInit => WebInv
  BY WebInitial
<1>2. WebInv /\ [WebNext]_webVars => WebInv'
  BY WebNextKeeps
<1> QED
  BY <1>1, <1>2, PTL DEF WebSpec

LEMMA WebTypes == WebInv => WebTypeOK
BY GrantTypes
DEF WebInv, ServiceInv, RestTypes, SharedTypes, SharedInv, WritersInv, Unregistered, WebTypeOK

(* The variables of the server's user and of the token endpoint keep their *)
(* types: a thread works only for a run that is under way, without a user  *)
(* there are no tokens, and a request has a pair in hand just while it     *)
(* writes it.                                                              *)
THEOREM WebTypeCorrect == WebSpec => []WebTypeOK
<1> QED
  BY WebTypes, WebInvHolds, PTL

(* No refresh of the server's user throws away what another has got, as    *)
(* long as the requests of a run do not write at the same time: the row    *)
(* holds a refresh token that is good, or whose successor is on its way or *)
(* being written, or was lost: with an answer, with a commit that failed,  *)
(* or in two writings that overlapped.                                     *)
THEOREM RenewalsAreKept == WebSpec => []RefreshTokenKept
<1>1. WebInv => RefreshTokenKept
  BY DEF WebInv, HeldInv
<1> QED
  BY <1>1, WebInvHolds, PTL

(* The coroutines and the thread of a run, which write a pair at one go,   *)
(* and the requests of a run, which write it column by column in a session *)
(* they share, never mix the pairs of two refreshes in the row, but where  *)
(* the writings of two requests overlap: then one of the tokens is from    *)
(* such a writing.                                                         *)
THEOREM RowIsOnePair == WebSpec => []TokensArePaired
<1>1. WebInv => TokensArePaired
  BY DEF WebInv, HeldInv
<1> QED
  BY <1>1, WebInvHolds, PTL

(* Nobody in the server is refused a refresh token that only it has used.  *)
THEOREM WebRefusalsHaveCause == WebSpec => []RefusalHasCause
<1>1. WebInv => RefusalHasCause
  BY DEF WebInv, ServiceInv
<1> QED
  BY <1>1, WebInvHolds, PTL

-----------------------------------------------------------------------------
(* The command line.                                                       *)

Serving == {"listening", "called"}
Saving  == {"opening", "writing", "unlinked"}

CliTypes ==
  /\ file \in File
  /\ pc \in [CliCallers -> CliPc]
  /\ port \in CliCallers \cup {Nobody}
  /\ code \subseteq Commands /\ late \subseteq Commands
  /\ \A c \in CliCallers : port = c <=> pc[c] \in Serving
  /\ \A c \in CliCallers : pc[c] \in Saving => Got(c, "granted")

(* Nobody is about to be given the pair of the cache, and it is not lost   *)
(* but with the answer that has its successor.                             *)
CacheHeld ==
  file.state = "whole" =>
    /\ file.refresh \in 1..issued /\ Secret(file.refresh) /\ Redeemable(file.refresh)
    /\ file.access = file.refresh

CliInv == ServiceInv /\ CliTypes /\ CacheHeld

LEMMA CliCallersAre ==
  /\ CliCallers \subseteq Callers /\ Nobody \notin CliCallers
  /\ \A c \in CliCallers : CommandOf[c] \in Commands
BY ServiceAssumption, CliAssumption DEF CliAssumption

(* One caller moves on, and with it the port it takes or gives back.       *)
LEMMA CallerMoves ==
  ASSUME CliTypes, NEW c \in CliCallers, NEW to \in CliPc, Goes(c, to), OneNewAnswer(c),
         to \in Saving => Got(c, "granted")',
         file' \in File, code' \subseteq Commands, late' \subseteq Commands,
         \/ port' = port /\ (to \in Serving <=> pc[c] \in Serving)
         \/ port = Nobody /\ port' = c /\ to \in Serving
         \/ port = c /\ port' = Nobody /\ to \notin Serving
  PROVE  CliTypes'
<1> USE CliCallersAre
<1>1. /\ pc' \in [CliCallers -> CliPc] /\ pc'[c] = to
      /\ \A d \in CliCallers \ {c} : pc'[d] = pc[d]
  BY DEF CliTypes, Goes
<1>2. port' \in CliCallers \cup {Nobody}
  BY DEF CliTypes
<1>3. ASSUME NEW d \in CliCallers PROVE port' = d <=> pc'[d] \in Serving
  <2>1. CASE d = c
    BY <1>1, <2>1 DEF CliTypes
  <2>2. CASE d # c
    BY <1>1, <2>2 DEF CliTypes
  <2> QED
    BY <2>1, <2>2
<1>4. ASSUME NEW d \in CliCallers, pc'[d] \in Saving PROVE Got(d, "granted")'
  <2>1. CASE d = c
    BY <1>1, <1>4, <2>1
  <2>2. CASE d # c
    BY <1>1, <1>4, <2>2 DEF CliTypes, OneNewAnswer, Got
  <2> QED
    BY <2>1, <2>2
<1> QED
  BY <1>1, <1>2, <1>3, <1>4 DEF CliTypes

(* A cache that is left alone or made unreadable.                          *)
LEMMA CacheKeeps ==
  ASSUME ServiceInv, ServiceInv', Remembers, CacheHeld,
         \A h \in 1..issued : Redeemable(h) => Redeemable(h)',
         file' = file \/ file'.state # "whole"
  PROVE  CacheHeld'
<1>1. CASE file'.state # "whole"
  BY <1>1 DEF CacheHeld
<1>2. CASE file' = file /\ file.state = "whole"
  <2>1. PICK g : g = file.refresh
    OBVIOUS
  <2>2. g \in 1..issued /\ Secret(g) /\ Redeemable(g)
    BY <1>2, <2>1 DEF CacheHeld
  <2>3. g \in 1..issued' /\ Secret(g)' /\ Redeemable(g)'
    BY <2>2, GrantTypes DEF ServiceInv, AnswerTypes, Remembers
  <2>4. file'.refresh = g /\ file'.access = g
    BY <1>2, <2>1 DEF CacheHeld
  <2> QED
    BY <2>3, <2>4 DEF CacheHeld, Secret, Redeemable
<1> QED
  BY <1>1, <1>2

(* Steps of one caller that do not concern the endpoint.                   *)
LEMMA QuietMove ==
  ASSUME CliInv, NEW c \in CliCallers, NEW to \in CliPc, Goes(c, to), UNCHANGED serviceVars,
         to \in Saving => Got(c, "granted"),
         file' = file \/ (file' \in File /\ file'.state # "whole"),
         code' \subseteq Commands, late' \subseteq Commands,
         \/ port' = port /\ (to \in Serving <=> pc[c] \in Serving)
         \/ port = Nobody /\ port' = c /\ to \in Serving
         \/ port = c /\ port' = Nobody /\ to \notin Serving
  PROVE  CliInv'
<1>1. ServiceInv' /\ Remembers /\ UNCHANGED <<issued, usable, answer, usedBy, lost>>
  BY NothingAsked DEF CliInv
<1>2. \A h \in 1..issued : Redeemable(h) => Redeemable(h)'
  BY <1>1 DEF Redeemable, Got, Replaces
<1>3. CacheHeld'
  BY <1>1, <1>2, CacheKeeps DEF CliInv
<1>4. OneNewAnswer(c) /\ (to \in Saving => Got(c, "granted")')
  BY <1>1 DEF OneNewAnswer, Got
<1>5. CliTypes'
  BY <1>4, CallerMoves DEF CliInv, CliTypes
<1> QED
  BY <1>1, <1>3, <1>5 DEF CliInv
(* The pair that c has not saved is not told to anybody, nor is it lost.   *)
LEMMA DropPairStep ==
  ASSUME CliInv, NEW c \in CliCallers, DropPair(c), pc[c] \in Saving,
         UNCHANGED <<file, port, code, late>>
  PROVE  CliInv'
<1> USE CliCallersAre
<1>1. Forget({c}) /\ Goes(c, "idle") /\ {c} \in SUBSET Callers
  BY DEF DropPair
<1>2. /\ ServiceInv' /\ Remembers
      /\ \A h \in 1..issued : Redeemable(h) => Redeemable(h)'
  BY <1>1, ForgetKeeps DEF CliInv
<1>3. OneNewAnswer(c)
  BY <1>1 DEF Forget, OneNewAnswer, CliInv, ServiceInv, AnswerTypes
<1>4. CliTypes'
  BY <1>1, <1>3, CallerMoves DEF CliInv, CliTypes, CliPc, Serving, Saving
<1>5. CacheHeld'
  BY <1>2, CacheKeeps DEF CliInv
<1> QED
  BY <1>2, <1>4, <1>5 DEF CliInv

LEMMA SettledAnswers ==
  ASSUME ServiceInv, NEW c \in CliCallers, Settle(c)
  PROVE  OneNewAnswer(c)
BY CliCallersAre DEF Settle, OneNewAnswer, ServiceInv, AnswerTypes

LEMMA LoadStep ==
  ASSUME CliInv, NEW c \in CliCallers, Load(c)
  PROVE  CliInv'
<1> USE CliCallersAre
<1>0. CliTypes /\ pc[c] = "idle" /\ UNCHANGED <<file, port, code, late>>
  BY DEF CliInv, Load
<1>1. CASE file.state # "whole" /\ Goes(c, "binding") /\ UNCHANGED serviceVars
  BY <1>0, <1>1, QuietMove DEF CliTypes, CliPc, Serving, Saving
<1>2. CASE file.state = "whole" /\ Ask(c, file.refresh) /\ Goes(c, "asking")
  <2>1. PICK g : g = file.refresh
    OBVIOUS
  <2>2. g \in 1..issued /\ Secret(g) /\ Redeemable(g)
    BY <1>2, <2>1 DEF CliInv, CacheHeld
  <2>3. g \in usable \cup lost \/ usedBy[g] # c
    <3>1. Free(c)
      BY <1>2 DEF Ask, Fails
    <3> QED
      BY <2>2, <3>1 DEF Redeemable, CliInv, ServiceInv, OnTheWay, OnItsWay, Free, Got, Replaces, NoGrant
  <2>4. /\ ServiceInv' /\ Remembers
        /\ \A h \in 1..issued : Redeemable(h) => Redeemable(h)'
        /\ OneNewAnswer(c)
    BY <1>2, <2>1, <2>2, <2>3, AskKeeps DEF CliInv, OneNewAnswer
  <2>5. CliTypes'
    BY <1>0, <1>2, <2>4, CallerMoves DEF CliTypes, CliPc, Serving, Saving
  <2>6. CacheHeld'
    BY <1>0, <2>4, CacheKeeps DEF CliInv
  <2> QED
    BY <2>4, <2>5, <2>6 DEF CliInv
<1> QED
  BY <1>1, <1>2 DEF Load

LEMMA RefreshedStep ==
  ASSUME CliInv, NEW c \in CliCallers, Refreshed(c)
  PROVE  CliInv'
<1> USE CliCallersAre
<1>0. CliTypes /\ pc[c] = "asking" /\ UNCHANGED <<file, port, code, late>>
  BY DEF CliInv, Refreshed
<1>1. CASE Got(c, "granted") /\ Goes(c, "opening") /\ UNCHANGED serviceVars
  BY <1>0, <1>1, QuietMove DEF CliTypes, CliPc, Serving, Saving
<1>2. CASE (Got(c, "refused") \/ Got(c, "failed")) /\ Settle(c) /\ Goes(c, "binding")
  <2>1. /\ ServiceInv' /\ Remembers
        /\ \A h \in 1..issued : Redeemable(h) => Redeemable(h)'
    <3>1. ~Replaces(c)
      BY <1>2 DEF Replaces, Got
    <3> QED
      BY <1>2, <3>1, SettleKeeps DEF CliInv
  <2>2. OneNewAnswer(c)
    BY <1>2, SettledAnswers DEF CliInv
  <2>3. CliTypes'
    BY <1>0, <1>2, <2>2, CallerMoves DEF CliTypes, CliPc, Serving, Saving
  <2>4. CacheHeld'
    BY <1>0, <2>1, CacheKeeps DEF CliInv
  <2> QED
    BY <2>1, <2>3, <2>4 DEF CliInv
<1> QED
  BY <1>1, <1>2 DEF Refreshed

LEMMA SaveStep ==
  ASSUME CliInv, NEW c \in CliCallers, OpenCache(c) \/ WriteCache(c) \/ WriteUnlinked(c)
  PROVE  CliInv'
<1> USE CliCallersAre
<1>0. /\ CliTypes /\ pc[c] \in Saving /\ UNCHANGED <<port, code, late>>
      /\ \A st \in {"empty", "mixed"} : NoPair(st) \in File /\ NoPair(st).state = st
  BY DEF CliInv, OpenCache, WriteCache, WriteUnlinked, Saving, NoPair, File
<1>1. CASE DropPair(c) /\ UNCHANGED file
  BY <1>0, <1>1, DropPairStep
<1>2. CASE pc[c] = "opening" /\ file' = NoPair("empty") /\ Goes(c, "writing") /\ UNCHANGED serviceVars
  <2>1. Got(c, "granted")
    BY <1>0 DEF CliTypes
  <2> QED
    BY <1>0, <1>2, <2>1, QuietMove DEF CliTypes, CliPc, Serving, Saving
<1>3. CASE /\ file' = Whole(answer[c].got) \/ file' = NoPair("mixed")
           /\ Settle(c) /\ Goes(c, "idle")
  <2>1. PICK g : g = answer[c].got
    OBVIOUS
  <2>2. Got(c, "granted") /\ g \in usable /\ g \in 1..issued /\ g \in Grants
    BY <1>0, <2>1, GrantTypes DEF CliTypes, CliInv, ServiceInv, AnswerTypes, OnTheWay, OnItsWay
  <2>3. ServiceInv' /\ Secret(g)' /\ usable' = usable /\ issued' = issued /\ OneNewAnswer(c)
    BY <1>3, <2>1, <2>2, SettleKeeps, SettledAnswers DEF CliInv
  <2>4. Whole(g) \in File /\ Whole(g).state = "whole" /\ Whole(g).refresh = g /\ Whole(g).access = g
    BY <2>2 DEF Whole, File
  <2>5. file' \in File /\ CacheHeld'
    <3>1. CASE file' = Whole(g)
      BY <2>2, <2>3, <2>4, <3>1 DEF CacheHeld, Secret, Redeemable
    <3>2. CASE file' = NoPair("mixed")
      BY <1>0, <3>2 DEF CacheHeld
    <3> QED
      BY <1>3, <2>1, <3>1, <3>2
  <2>6. CliTypes'
    BY <1>0, <1>3, <2>3, <2>5, CallerMoves DEF CliTypes, CliPc, Serving, Saving
  <2> QED
    BY <2>3, <2>5, <2>6 DEF CliInv
<1> QED
  BY <1>1, <1>2, <1>3 DEF OpenCache, WriteCache, WriteUnlinked

(* The login in the browser.                                               *)
LEMMA LoginStep ==
  ASSUME CliInv, NEW c \in CliCallers,
         \/ Bind(c) \/ BrowserCalls(c) \/ LoginTimesOut(c) \/ CloseServer(c)
         \/ TakeCode(c) \/ Exchange(c)
  PROVE  CliInv'
<1> USE CliCallersAre
<1>0. CliTypes
  BY DEF CliInv
<1>1. CASE Bind(c)
  BY <1>0, <1>1, QuietMove DEF Bind, CliTypes, CliPc, Serving, Saving
<1>2. CASE BrowserCalls(c) \/ LoginTimesOut(c)
  BY <1>0, <1>2, QuietMove DEF BrowserCalls, LoginTimesOut, CliTypes, CliPc, Serving, Saving
<1>3. CASE CloseServer(c)
  <2>1. port = c
    BY <1>0, <1>3 DEF CloseServer, CliTypes, Serving
  <2> QED
    BY <1>0, <1>3, <2>1, QuietMove DEF CloseServer, CliTypes, CliPc, Serving, Saving
<1>4. CASE TakeCode(c)
  BY <1>0, <1>4, QuietMove DEF TakeCode, CliTypes, CliPc, Serving, Saving
<1>5. CASE Exchange(c)
  <2>1. pc[c] = "exchanging" /\ UNCHANGED <<file, port, code, late>>
    BY <1>5 DEF Exchange
  <2>2. CASE Goes(c, "idle") /\ UNCHANGED serviceVars
    BY <1>0, <2>1, <2>2, QuietMove DEF CliTypes, CliPc, Serving, Saving
  <2>3. CASE AskWithCode(c) /\ Goes(c, "opening")
    <3>1. /\ ServiceInv' /\ Remembers
          /\ \A h \in 1..issued : Redeemable(h) => Redeemable(h)'
          /\ Got(c, "granted")' /\ OneNewAnswer(c)
      BY <2>3, AskWithCodeKeeps DEF CliInv, OneNewAnswer, Got
    <3>2. CliTypes'
      BY <1>0, <2>1, <2>3, <3>1, CallerMoves DEF CliTypes, CliPc, Serving, Saving
    <3>3. CacheHeld'
      BY <2>1, <3>1, CacheKeeps DEF CliInv
    <3> QED
      BY <3>1, <3>2, <3>3 DEF CliInv
  <2> QED
    BY <1>5, <2>2, <2>3 DEF Exchange
<1> QED
  BY <1>1, <1>2, <1>3, <1>4, <1>5
LEMMA ClearStep == ASSUME CliInv, ClearCache PROVE CliInv'
<1> USE CliCallersAre
<1>0. CliTypes
  BY DEF CliInv
<1>1. ServiceInv' /\ Remembers /\ UNCHANGED <<issued, usable, answer, usedBy, lost>>
  BY NothingAsked DEF ClearCache, CliInv
<1>2. file' \in File /\ file'.state = "missing"
  BY DEF ClearCache, NoPair, File
<1>3. /\ pc' \in [CliCallers -> CliPc]
      /\ \A c \in CliCallers : /\ pc'[c] \in Serving <=> pc[c] \in Serving
                               /\ pc'[c] \in Saving <=> pc[c] \in Saving
  BY <1>0 DEF ClearCache, CliTypes, CliPc, Serving, Saving
<1>4. CliTypes'
  BY <1>0, <1>1, <1>2, <1>3 DEF ClearCache, CliTypes, Got
<1>5. CacheHeld'
  BY <1>2 DEF CacheHeld
<1> QED
  BY <1>1, <1>4, <1>5 DEF CliInv

LEMMA CommandStep ==
  ASSUME CliInv, NEW p \in Commands, CommandOver(p) \/ LateCode(p)
  PROVE  CliInv'
<1> USE CliCallersAre
<1>0. CliTypes
  BY DEF CliInv
<1>1. CASE CommandOver(p)
  <2> DEFINE threads == {c \in CliCallers : CommandOf[c] = p}
  <2>1. /\ Forget(threads) /\ threads \in SUBSET Callers /\ threads \subseteq CliCallers
        /\ pc' = [c \in CliCallers |-> IF c \in threads THEN "idle" ELSE pc[c]]
        /\ port' = IF port \in threads THEN Nobody ELSE port
        /\ code' = code \ {p} /\ late' = late \ {p} /\ file' = file
    BY <1>1 DEF CommandOver
  <2> HIDE DEF threads
  <2>2. /\ ServiceInv' /\ Remembers
        /\ \A h \in 1..issued : Redeemable(h) => Redeemable(h)'
    BY <2>1, ForgetKeeps DEF CliInv
  <2>3. \A d \in CliCallers \ threads : answer'[d] = answer[d]
    BY <2>1 DEF Forget, CliInv, ServiceInv, AnswerTypes
  <2>4. /\ pc' \in [CliCallers -> CliPc]
        /\ \A c \in threads : pc'[c] = "idle"
        /\ \A c \in CliCallers \ threads : pc'[c] = pc[c]
    BY <1>0, <2>1 DEF CliTypes, CliPc
  <2>5. port' \in CliCallers \cup {Nobody}
    BY <1>0, <2>1 DEF CliTypes
  <2>6. ASSUME NEW c \in CliCallers PROVE port' = c <=> pc'[c] \in Serving
    <3>1. CASE c \in threads
      BY <2>1, <2>4, <3>1 DEF Serving
    <3>2. CASE c \notin threads
      BY <1>0, <2>1, <2>4, <3>2 DEF CliTypes
    <3> QED
      BY <3>1, <3>2
  <2>7. ASSUME NEW c \in CliCallers, pc'[c] \in Saving PROVE Got(c, "granted")'
    BY <1>0, <2>3, <2>4, <2>7 DEF CliTypes, Saving, Got
  <2>8. CliTypes'
    BY <1>0, <2>1, <2>4, <2>5, <2>6, <2>7 DEF CliTypes
  <2>9. CacheHeld'
    BY <2>1, <2>2, CacheKeeps DEF CliInv
  <2> QED
    BY <2>2, <2>8, <2>9 DEF CliInv
<1>2. CASE LateCode(p)
  <2>1. ServiceInv' /\ Remembers /\ UNCHANGED <<issued, usable, answer, usedBy, lost>>
    BY <1>2, NothingAsked DEF LateCode, CliInv
  <2>2. CliTypes'
    BY <1>0, <1>2, <2>1 DEF LateCode, CliTypes, Got
  <2>3. CacheHeld'
    BY <1>2, <2>1 DEF LateCode, CliInv, CacheHeld, Secret, Redeemable, Replaces, Got
  <2> QED
    BY <2>1, <2>2, <2>3 DEF CliInv
<1> QED
  BY <1>1, <1>2

LEMMA CliAgeStep == ASSUME CliInv, CliAge PROVE CliInv'
<1>1. /\ ServiceInv' /\ UNCHANGED <<issued, usable, answer, usedBy, lost>>
      /\ UNCHANGED <<file, pc, port, code, late>>
  BY GrowOldKeeps DEF CliAge, CliInv, cliState
<1> QED
  BY <1>1 DEF CliInv, CliTypes, CacheHeld, Secret, Redeemable, Replaces, Got

LEMMA CliInitial == ASSUME ServiceInit, CliInit PROVE CliInv
<1>1. NoPair("missing") \in File /\ NoPair("missing").state = "missing"
  BY DEF NoPair, File
<1>2. CliTypes /\ CacheHeld
  BY <1>1, CliCallersAre DEF CliInit, CliTypes, CacheHeld, CliPc, Serving, Saving
<1> QED
  BY <1>2, ServiceInitial DEF CliInv

LEMMA CliNextKeeps == ASSUME CliInv, [CliNext]_cliVars PROVE CliInv'
<1>1. CASE UNCHANGED cliVars
  <2>1. UNCHANGED serviceVars /\ UNCHANGED <<file, pc, port, code, late>>
    BY <1>1 DEF cliVars, cliState
  <2>2. ServiceInv' /\ UNCHANGED <<issued, usable, answer, usedBy, lost>>
    BY <2>1, NothingAsked DEF CliInv
  <2> QED
    BY <2>1, <2>2 DEF CliInv, CliTypes, CacheHeld, Secret, Redeemable, Replaces, Got
<1> QED
  BY <1>1, LoadStep, RefreshedStep, SaveStep, LoginStep, ClearStep, CommandStep, CliAgeStep
  DEF CliNext, CliStep

LEMMA CliInvHolds == CliSpec => []CliInv
<1>1. ServiceInit /\ CliInit => CliInv
  BY CliInitial
<1>2. CliInv /\ [CliNext]_cliVars => CliInv'
  BY CliNextKeeps
<1> QED
  BY <1>1, <1>2, PTL DEF CliSpec

(* The variables of the commands keep their types; the port of the         *)
(* callback server is with the one caller that listens on it, and whoever  *)
(* is about to save a pair has been granted one.                           *)
THEOREM CliTypeCorrect == CliSpec => []CliTypeOK
<1>1. CliInv => CliTypeOK
  BY GrantTypes DEF CliInv, ServiceInv, CliTypes, CliTypeOK, Serving, Saving
<1> QED
  BY <1>1, CliInvHolds, PTL

(* However many commands renew, log in, clear the cache or die, a pair     *)
(* that can be read from the cache can be refreshed, or its successor is   *)
(* on the way to the file or got lost.                                     *)
THEOREM CachedPairIsKept == CliSpec => []CachedTokenKept
<1>1. CliInv => CachedTokenKept
  BY DEF CliInv, CacheHeld, CachedTokenKept
<1> QED
  BY <1>1, CliInvHolds, PTL

(* No command is refused a refresh token that only it has used.            *)
THEOREM CliRefusalsHaveCause == CliSpec => []RefusalHasCause
<1>1. CliInv => RefusalHasCause
  BY DEF CliInv, ServiceInv
<1> QED
  BY <1>1, CliInvHolds, PTL

-----------------------------------------------------------------------------
(* The three users together.                                               *)

(* Whose behaviour it is keeps what was proved of it; the others are as    *)
(* they were, whatever became of the endpoint.  Only browser tabs ask for  *)
(* the sessions.                                                           *)
OthersAskNothing == \A c \in Callers \ Tabs : Free(c)

(* Only the requests of a run store what they get in several steps.        *)
NothingTaken == \A c \in Callers : ~Got(c, "taken")

LoginInv ==
  \/ part = "web" /\ WebInv /\ CliInit /\ SessionInit
  \/ part = "cli" /\ CliInv /\ WebInit /\ SessionInit /\ NothingTaken
  \/ /\ part = "sessions" /\ SessionInv /\ OthersAskNothing /\ TerminalAgreesWithPage
     /\ WebInit /\ CliInit /\ NothingTaken

LEMMA LoginInitial == ASSUME LoginInit PROVE LoginInv
<1>1. ServiceInit /\ WebInit /\ CliInit /\ SessionInit /\ part \in {"web", "cli", "sessions"}
  BY DEF LoginInit
<1>2. WebInv /\ CliInv /\ SessionInv
  BY <1>1, WebInitial, CliInitial, SessionInitial
<1>3. OthersAskNothing /\ NothingTaken
  BY <1>1 DEF ServiceInit, OthersAskNothing, NothingTaken, Free, Got, NoAnswer
<1>4. TerminalAgreesWithPage
  BY <1>1 DEF SessionInit, TerminalAgreesWithPage
<1>5. QED
  BY <1>1, <1>2, <1>3, <1>4 DEF LoginInv

LEMMA OthersKeepQuiet ==
  ASSUME SessionInv, OthersAskNothing, [SessionNext]_sessionVars
  PROVE  OthersAskNothing'
<1>1. answer \in [Callers -> Answer] /\ Tabs \subseteq Callers
  BY SessionAssumption DEF SessionInv, EndpointTypes
<1>2. ASSUME NEW t \in Tabs, NEW s \in Sessions, CallbackAsk(t, s) PROVE OthersAskNothing'
  BY <1>1, <1>2 DEF CallbackAsk, AskWithCode, Fails, Answers, OthersAskNothing, Free
<1>3. ASSUME NEW t \in Tabs, CallbackAnswer(t) PROVE OthersAskNothing'
  BY <1>1, <1>3 DEF CallbackAnswer, Settle, OthersAskNothing, Free
<1>4. CASE ServerRestarts
  BY <1>1, <1>4 DEF ServerRestarts, Forget, OthersAskNothing, Free
<1>5. CASE UNCHANGED answer
  BY <1>5 DEF OthersAskNothing, Free
<1>6. ASSUME NEW s \in Sessions,
             CreateSession(s) \/ Poll(s) \/ CallbackTooLate(s) \/ CallbackWithoutCode(s) \/ GetTooOld(s)
      PROVE  UNCHANGED answer
  BY <1>6 DEF CreateSession, Poll, CallbackTooLate, CallbackWithoutCode, GetTooOld, serviceVars
<1>7. QED
  BY <1>2, <1>3, <1>4, <1>5, <1>6 DEF SessionNext, sessionVars, serviceVars

LEMMA NothingTakenStays ==
  ASSUME NothingTaken, answer \in [Callers -> Answer],
         \/ UNCHANGED answer
         \/ \E c \in Callers : \/ (\E g : Ask(c, g)) \/ AskWithCode(c) \/ Fails(c) \/ Settle(c)
         \/ \E cs \in SUBSET Callers : Forget(cs)
  PROVE  NothingTaken'
<1> NoAnswer.state = "none"
  BY DEF NoAnswer
<1>1. ASSUME NEW c \in Callers, NEW st \in {"granted", "refused", "failed"}, NEW s, NEW g,
             Answers(c, st, s, g)
      PROVE  NothingTaken'
  BY <1>1 DEF Answers, NothingTaken, Got
<1>2. ASSUME NEW c \in Callers, (\E g : Ask(c, g)) \/ AskWithCode(c) \/ Fails(c)
      PROVE  NothingTaken'
  <2>1. \E st \in {"granted", "refused", "failed"} : \E s, g : Answers(c, st, s, g)
    BY <1>2 DEF Ask, AskWithCode, Fails
  <2> QED
    BY <1>1, <2>1
<1>3. ASSUME NEW c \in Callers, Settle(c) PROVE NothingTaken'
  BY <1>3 DEF Settle, NothingTaken, Got
<1>4. ASSUME NEW cs \in SUBSET Callers, Forget(cs) PROVE NothingTaken'
  BY <1>4 DEF Forget, NothingTaken, Got
<1>5. CASE UNCHANGED answer
  BY <1>5 DEF NothingTaken, Got
<1> QED
  BY <1>2, <1>3, <1>4, <1>5

LEMMA CliTakesNothing ==
  ASSUME NothingTaken, CliInv, [CliNext]_cliVars
  PROVE  NothingTaken'
<1>1. answer \in [Callers -> Answer]
  BY DEF CliInv, ServiceInv, AnswerTypes
<1>2. ASSUME NEW c \in CliCallers, Load(c) \/ CliStep(c) \/ BrowserCalls(c) PROVE NothingTaken'
  <2>1. \/ UNCHANGED answer
        \/ (\E g : Ask(c, g)) \/ AskWithCode(c) \/ Settle(c)
        \/ Forget({c})
    BY <1>2
    DEF Load, CliStep, BrowserCalls, Refreshed, OpenCache, WriteCache, WriteUnlinked, DropPair,
        Bind, LoginTimesOut, CloseServer, TakeCode, Exchange, serviceVars
  <2>2. c \in Callers /\ {c} \in SUBSET Callers
    BY CliCallersAre
  <2> QED
    BY <1>1, <2>1, <2>2, NothingTakenStays
<1>3. ASSUME NEW p \in Commands, CommandOver(p) PROVE NothingTaken'
  <2>1. \E cs \in SUBSET Callers : Forget(cs)
    BY <1>3, CliCallersAre DEF CommandOver
  <2> QED
    BY <1>1, <2>1, NothingTakenStays
<1>4. CASE ClearCache \/ CliAge \/ UNCHANGED cliVars \/ \E p \in Commands : LateCode(p)
  <2>1. UNCHANGED answer
    BY <1>4 DEF ClearCache, CliAge, GrowOld, cliVars, LateCode, serviceVars
  <2> QED
    BY <1>1, <2>1, NothingTakenStays
<1> QED
  BY <1>2, <1>3, <1>4 DEF CliNext

LEMMA SessionsTakeNothing ==
  ASSUME NothingTaken, SessionInv, [SessionNext]_sessionVars
  PROVE  NothingTaken'
<1>1. answer \in [Callers -> Answer] /\ Tabs \subseteq Callers
  BY SessionAssumption DEF SessionInv, EndpointTypes
<1>2. ASSUME NEW t \in Tabs, (\E s \in Sessions : CallbackAsk(t, s)) \/ CallbackAnswer(t)
      PROVE  NothingTaken'
  <2>1. AskWithCode(t) \/ Fails(t) \/ Settle(t)
    BY <1>2 DEF CallbackAsk, CallbackAnswer
  <2> QED
    BY <1>1, <2>1, NothingTakenStays
<1>3. CASE ServerRestarts
  <2>1. \E cs \in SUBSET Callers : Forget(cs)
    BY <1>1, <1>3 DEF ServerRestarts
  <2> QED
    BY <1>1, <2>1, NothingTakenStays
<1>4. ASSUME NEW s \in Sessions,
             CreateSession(s) \/ Poll(s) \/ CallbackTooLate(s) \/ CallbackWithoutCode(s) \/ GetTooOld(s)
      PROVE  UNCHANGED answer
  BY <1>4 DEF CreateSession, Poll, CallbackTooLate, CallbackWithoutCode, GetTooOld, serviceVars
<1> QED
  BY <1>1, <1>2, <1>3, <1>4, NothingTakenStays DEF SessionNext, sessionVars, serviceVars

LEMMA RestStays ==
  /\ WebInit /\ UNCHANGED webState => WebInit'
  /\ CliInit /\ UNCHANGED cliState => CliInit'
  /\ SessionInit /\ UNCHANGED sessionState => SessionInit'
<1>1. WebInit /\ UNCHANGED webState => WebInit'
  BY DEF WebInit, webState, shared
<1>2. CliInit /\ UNCHANGED cliState => CliInit'
  BY DEF CliInit, cliState
<1>3. SessionInit /\ UNCHANGED sessionState => SessionInit'
  BY DEF SessionInit, sessionState
<1>4. QED
  BY <1>1, <1>2, <1>3

LEMMA TogetherStep == ASSUME LoginInv, [LoginNext]_loginVars PROVE LoginInv'
<1>1. /\ part' = part
      /\ part = "web" => [WebNext]_webVars /\ UNCHANGED <<cliState, sessionState>>
      /\ part = "cli" => [CliNext]_cliVars /\ UNCHANGED <<webState, sessionState>>
      /\ part = "sessions" => [SessionNext]_sessionVars /\ UNCHANGED <<webState, cliState>>
  <2>1. CASE LoginNext
    BY <2>1 DEF LoginNext, WebFrozen, CliFrozen, SessionFrozen
  <2>2. CASE UNCHANGED loginVars
    BY <2>2 DEF loginVars, webVars, cliVars, sessionVars
  <2>3. QED
    BY <2>1, <2>2
<1>2. CASE part = "web" /\ WebInv /\ CliInit /\ SessionInit
  BY <1>1, <1>2, WebNextKeeps, RestStays DEF LoginInv
<1>3. CASE part = "cli" /\ CliInv /\ WebInit /\ SessionInit /\ NothingTaken
  BY <1>1, <1>3, CliNextKeeps, CliTakesNothing, RestStays DEF LoginInv
<1>4. CASE /\ part = "sessions" /\ SessionInv /\ OthersAskNothing /\ TerminalAgreesWithPage
           /\ WebInit /\ CliInit /\ NothingTaken
  <2>1. [SessionNext]_sessionVars
    BY <1>1, <1>4
  <2>2. SessionInv' /\ OthersAskNothing' /\ TerminalAgreesWithPage' /\ NothingTaken'
    BY <1>4, <2>1, SessionStep, OthersKeepQuiet, SessionsTakeNothing, TerminalKeeps DEF SessionBox
  <2>3. QED
    BY <1>1, <1>4, <2>2, RestStays DEF LoginInv
<1>5. QED
  BY <1>2, <1>3, <1>4 DEF LoginInv

LEMMA LoginInvHolds == LoginSpec => []LoginInv
<1>1. LoginInit => LoginInv
  BY LoginInitial
<1>2. LoginInv /\ [LoginNext]_loginVars => LoginInv'
  BY TogetherStep
<1>3. QED
  BY <1>1, <1>2, PTL DEF LoginSpec

(* What a user keeps that has not begun.                                   *)
LEMMA RestingTypes ==
  ASSUME ServiceTypeOK
  PROVE  /\ WebInit /\ NothingTaken => WebTypeOK /\ RefreshTokenKept /\ TokensArePaired
         /\ CliInit => CliTypeOK /\ CachedTokenKept
         /\ SessionInit => SessionTypeOK /\ SuccessIsKept /\ TerminalAgreesWithPage
<1>1. ASSUME WebInit, NothingTaken PROVE WebTypeOK /\ RefreshTokenKept /\ TokensArePaired
  <2>1. NoTokens \in Row /\ NoTokens.access = NoGrant /\ NoTokens.refresh = NoGrant
    BY DEF NoTokens, Row
  <2>2. runs \in 0..MaxRuns
    BY <1>1, WebAssumption DEF WebInit
  <2>3. worker \in [Workers -> RequestState]
    BY <1>1 DEF WebInit, RequestState
  <2>4. \A w \in Workers : ~Got(w, "taken") /\ worker[w] \notin Writing
    BY <1>1, CallersAre DEF WebInit, NothingTaken, Writing
  <2>5. QED
    BY <1>1, <2>1, <2>2, <2>3, <2>4
    DEF WebInit, WebTypeOK, RunStatus, ThreadState, RefreshTokenKept, TokensArePaired
<1>2. ASSUME CliInit PROVE CliTypeOK /\ CachedTokenKept
  <2>1. NoPair("missing") \in File /\ NoPair("missing").state = "missing"
    BY DEF NoPair, File
  <2>2. Nobody \notin CliCallers
    BY CliAssumption, ServiceAssumption
  <2>3. QED
    BY <1>2, <2>1, <2>2 DEF CliInit, CliTypeOK, CliPc, CachedTokenKept
<1>3. ASSUME SessionInit PROVE SessionTypeOK /\ SuccessIsKept /\ TerminalAgreesWithPage
  <2>1. session \in [Sessions -> Session]
    BY <1>3 DEF SessionInit, Session
  <2>2. QED
    BY <1>3, <2>1 DEF SessionInit, SessionTypeOK, SuccessIsKept, TerminalAgreesWithPage
<1>4. QED
  BY <1>1, <1>2, <1>3

(* Whichever of the three users of the token endpoint runs, the variables  *)
(* of all have their types.                                                *)
THEOREM LoginTypesCorrect == LoginSpec => []LoginTypeOK
<1>1. LoginInv => LoginTypeOK
  <2>1. ASSUME WebInv PROVE WebTypeOK /\ ServiceTypeOK
    BY <2>1, WebTypes DEF WebTypeOK
  <2>2. ASSUME CliInv PROVE CliTypeOK /\ ServiceTypeOK
    BY <2>2, GrantTypes DEF CliInv, ServiceInv, CliTypes, CliTypeOK, Serving, Saving
  <2>3. ASSUME SessionInv PROVE SessionTypeOK /\ ServiceTypeOK
    BY <2>3, TypesTogether DEF SessionInv, SessionTypeOK
  <2>4. QED
    BY <2>1, <2>2, <2>3, RestingTypes DEF LoginInv, LoginTypeOK
<1>2. QED
  BY <1>1, LoginInvHolds, PTL

(* Whichever of the three users of the token endpoint runs: a refresh      *)
(* token that is kept can be refreshed, unless its successor was lost, as  *)
(* it may be with an answer, with a writing that failed or in writings     *)
(* that overlapped; the tokens of a row are of one pair, unless one comes  *)
(* from such an overlap; no refusal is without a cause; and what the       *)
(* terminal and the page say agrees.                                       *)
THEOREM LoginIsSafe ==
  LoginSpec => []( /\ RefusalHasCause /\ RefreshTokenKept /\ TokensArePaired /\ CachedTokenKept
                   /\ SuccessIsKept /\ TerminalAgreesWithPage )
<1> DEFINE Safe == /\ RefusalHasCause /\ RefreshTokenKept /\ TokensArePaired /\ CachedTokenKept
                   /\ SuccessIsKept /\ TerminalAgreesWithPage
<1>1. LoginInv => Safe
  <2>1. CASE part = "web" /\ WebInv /\ CliInit /\ SessionInit
    <3>1. ServiceTypeOK /\ RefusalHasCause /\ RefreshTokenKept /\ TokensArePaired
      BY <2>1, GrantTypes DEF WebInv, ServiceInv, HeldInv
    <3>2. QED
      BY <2>1, <3>1, RestingTypes
  <2>2. CASE part = "cli" /\ CliInv /\ WebInit /\ SessionInit /\ NothingTaken
    <3>1. ServiceTypeOK /\ RefusalHasCause /\ CachedTokenKept
      BY <2>2, GrantTypes DEF CliInv, ServiceInv, CacheHeld, CachedTokenKept
    <3>2. QED
      BY <2>2, <3>1, RestingTypes
  <2>3. CASE /\ part = "sessions" /\ SessionInv /\ OthersAskNothing /\ TerminalAgreesWithPage
             /\ WebInit /\ CliInit /\ NothingTaken
    <3>1. ServiceTypeOK
      BY <2>3, TypesTogether DEF SessionInv, SessionTypeOK
    <3>2. RefusalHasCause
      BY <2>3 DEF SessionInv, InFlight, OthersAskNothing, RefusalHasCause, Free, Got
    <3>3. SuccessIsKept
      BY <2>3, SessionsAreRight
    <3>4. QED
      BY <2>3, <3>1, <3>2, <3>3, RestingTypes
  <2>4. QED
    BY <2>1, <2>2, <2>3 DEF LoginInv
<1>2. QED
  BY <1>1, LoginInvHolds, PTL
=============================================================================
