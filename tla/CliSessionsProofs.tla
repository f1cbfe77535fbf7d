--------------------------- MODULE CliSessionsProofs ---------------------------
(***************************************************************************)
(* Proofs about module CliSessions, for any number of sessions and tabs.   *)
(***************************************************************************)
EXTENDS CliSessions, TLAPS

USE SessionAssumption, ServiceAssumption

SessionBox == [SessionNext]_sessionVars

(* The types of the parts an action can disturb, apart from each other.    *)
EndpointTypes ==
  /\ answer \in [Callers -> Answer]
  /\ issued \in 0..MaxGrants
  /\ usable \subseteq 1..issued
  /\ age \in [Grants -> Ages]
  /\ usedBy \in [Grants -> Callers \cup {Nobody}]
  /\ lost \subseteq (1..issued) \ usable

StoreTypes ==
  /\ sessions \subseteq Sessions
  /\ states = sessions
  /\ session \in [Sessions -> Session]
  /\ tab \in [Tabs -> Sessions \cup {NoSession}]
  /\ expired \subseteq Sessions
  /\ terminal \in [Sessions -> {"none", "polling", "authorized", "error", "gone"}]
  /\ pages \subseteq Sessions \X BOOLEAN

LEMMA TypesTogether == EndpointTypes /\ StoreTypes => SessionTypeOK
<1>1. 1..issued \subseteq Grants \/ ~EndpointTypes
  BY DEF EndpointTypes, Grants
<1>2. QED
  BY <1>1 DEF SessionTypeOK, ServiceTypeOK, EndpointTypes, StoreTypes

(* What is in flight: a tab waits while its session is noted, and the pair *)
(* it is about to be given is good; it never presents a refresh token.     *)
InFlight ==
  \A t \in Tabs :
    /\ ~Free(t) => tab[t] \in Sessions
    /\ Got(t, "granted") => answer[t].got \in usable
    /\ answer[t].sent = NoGrant

(* What a session holds has been shown, and a session that was not created *)
(* has left no trace.                                                      *)
Shown ==
  \A s \in Sessions :
    /\ session[s].error => <<s, FALSE>> \in pages
    /\ session[s].tokens # NoGrant => <<s, TRUE>> \in pages
    /\ terminal[s] = "none" =>
         /\ s \notin sessions /\ \A t \in Tabs : tab[t] # s
         /\ <<s, TRUE>> \notin pages /\ <<s, FALSE>> \notin pages

(* A success that was shown is in the session, while there is one.         *)
SessionHeld == \A s \in sessions : <<s, TRUE>> \in pages => session[s].tokens \in usable

-----------------------------------------------------------------------------
LEMMA CodeAskKeeps ==
  ASSUME EndpointTypes, NEW t \in Tabs, AskWithCode(t) \/ Fails(t)
  PROVE  /\ EndpointTypes'
         /\ usable \subseteq usable'
         /\ Free(t)
         /\ \A c \in Callers \ {t} : answer'[c] = answer[c]
         /\ answer'[t].sent = NoGrant
         /\ Got(t, "granted")' => answer'[t].got \in usable'
<1>1. t \in Callers
  OBVIOUS
<1>2. CASE AskWithCode(t)
  BY <1>1, <1>2
  DEF AskWithCode, Answers, Issue, EndpointTypes, Answer, Grants, NoGrant, Free, Got, Ages
<1>3. CASE Fails(t)
  BY <1>1, <1>3 DEF Fails, Answers, EndpointTypes, Answer, NoGrant, Free, Got
<1>4. QED
  BY <1>2, <1>3

LEMMA SettledKeeps ==
  ASSUME EndpointTypes, NEW t \in Tabs, Settle(t)
  PROVE  /\ EndpointTypes' /\ usable' = usable
         /\ \A c \in Callers \ {t} : answer'[c] = answer[c]
         /\ answer'[t] = NoAnswer
BY DEF Settle, EndpointTypes, Answer, NoAnswer, NoGrant

LEMMA RestartForgets ==
  ASSUME EndpointTypes, InFlight, Forget(Tabs)
  PROVE  /\ EndpointTypes' /\ usable' = usable
         /\ \A t \in Tabs : answer'[t] = NoAnswer
<1>1. \A c \in {d \in Tabs : Replaces(d)} : answer[c].sent = NoGrant
  BY DEF InFlight
<1>2. lost' = lost
  BY <1>1 DEF Forget, EndpointTypes, Grants, NoGrant
<1>3. NoAnswer \in Answer
  BY DEF NoAnswer, Answer, NoGrant
<1>4. answer' \in [Callers -> Answer] /\ \A t \in Tabs : answer'[t] = NoAnswer
  BY <1>3 DEF Forget, EndpointTypes
<1>5. QED
  BY <1>2, <1>4 DEF Forget, EndpointTypes

-----------------------------------------------------------------------------
(* The types, which need InFlight: an answer comes only to a tab that has  *)
(* its session noted.                                                      *)
SessionInv == EndpointTypes /\ StoreTypes /\ InFlight /\ Shown /\ SessionHeld

LEMMA SessionInitial == ASSUME ServiceInit, SessionInit PROVE SessionInv
<1>1. EndpointTypes
  BY DEF ServiceInit, EndpointTypes, Answer, NoAnswer, Grants, NoGrant, Ages
<1>2. StoreTypes
  BY DEF SessionInit, StoreTypes, Session, NoGrant
<1>3. InFlight
  BY DEF ServiceInit, InFlight, Free, Got, NoAnswer, NoGrant
<1>4. Shown /\ SessionHeld
  BY DEF SessionInit, Shown, SessionHeld, NoGrant
<1>5. QED
  BY <1>1, <1>2, <1>3, <1>4 DEF SessionInv

(* Steps that leave the endpoint alone.                                    *)
LEMMA QuietStep ==
  ASSUME EndpointTypes, InFlight, UNCHANGED <<serviceVars, tab>>
  PROVE  EndpointTypes' /\ InFlight'
BY DEF serviceVars, EndpointTypes, InFlight, Free, Got

LEMMA CreateStep ==
  ASSUME SessionInv, NEW s \in Sessions, CreateSession(s)
  PROVE  SessionInv'
<1>1. EndpointTypes' /\ InFlight'
  BY QuietStep DEF CreateSession, SessionInv
<1>2. StoreTypes' /\ Shown' /\ SessionHeld'
  BY DEF CreateSession, Learns, SessionInv, StoreTypes, Shown, SessionHeld, serviceVars
<1>3. QED
  BY <1>1, <1>2 DEF SessionInv

LEMMA PollStep ==
  ASSUME SessionInv, NEW s \in Sessions, Poll(s)
  PROVE  SessionInv'
<1>1. EndpointTypes' /\ InFlight'
  BY QuietStep DEF Poll, SessionInv
<1>2. sessions' \subseteq sessions /\ states' = sessions'
  BY DEF Poll, Remove, SessionInv, StoreTypes
<1>3. terminal[s] = "polling" /\ \E what \in {"gone", "error", "authorized"} : Learns(s, what)
  BY DEF Poll, Status
<1>4. UNCHANGED <<session, tab, pages, expired, usable>>
  BY DEF Poll, serviceVars
<1>5. StoreTypes'
  BY <1>2, <1>3, <1>4 DEF Learns, SessionInv, StoreTypes
<1>6. Shown'
  BY <1>2, <1>3, <1>4 DEF Learns, SessionInv, StoreTypes, Shown
<1>7. SessionHeld'
  BY <1>2, <1>4 DEF SessionInv, SessionHeld
<1>8. QED
  BY <1>1, <1>5, <1>6, <1>7 DEF SessionInv

LEMMA LateStep ==
  ASSUME SessionInv, NEW s \in Sessions, CallbackTooLate(s)
  PROVE  SessionInv'
<1>1. EndpointTypes' /\ InFlight'
  BY QuietStep DEF CallbackTooLate, SessionInv
<1>2. StoreTypes' /\ Shown' /\ SessionHeld'
  BY DEF CallbackTooLate, Remove, SessionInv, StoreTypes, Shown, SessionHeld, serviceVars
<1>3. QED
  BY <1>1, <1>2 DEF SessionInv

(* An error touches one field of one session.                              *)
LEMMA ErrorInRecord ==
  ASSUME NEW G, NEW B, NEW r \in [tokens : G, error : B], NEW e \in B
  PROVE  /\ [r EXCEPT !.error = e] \in [tokens : G, error : B]
         /\ [r EXCEPT !.error = e].tokens = r.tokens
OBVIOUS

LEMMA ErrorKeeps ==
  ASSUME StoreTypes, NEW s \in Sessions, NEW text \in BOOLEAN, UpdateError(s, text)
  PROVE  /\ session' \in [Sessions -> Session]
         /\ \A u \in Sessions : session'[u].tokens = session[u].tokens
         /\ \A u \in Sessions \ {s} : session'[u].error = session[u].error
<1>1. CASE s \in sessions
  <2>1. session' = [session EXCEPT ![s] = [session[s] EXCEPT !.error = text]]
    BY <1>1 DEF UpdateError
  <2>2. /\ [session[s] EXCEPT !.error = text] \in Session
        /\ [session[s] EXCEPT !.error = text].tokens = session[s].tokens
    <3>1. text \in BOOLEAN /\ session[s] \in Session
      BY DEF StoreTypes
    <3>2. QED
      BY <3>1, ErrorInRecord DEF Session
  <2>3. QED
    BY <2>1, <2>2 DEF StoreTypes
<1>2. CASE s \notin sessions
  BY <1>2 DEF UpdateError, StoreTypes
<1>3. QED
  BY <1>1, <1>2

LEMMA PageAdded ==
  ASSUME NEW A, NEW B, NEW p \in SUBSET (A \X B), NEW a \in A, NEW b \in B
  PROVE  p \cup {<<a, b>>} \subseteq A \X B
OBVIOUS

(* Whatever a callback puts into its session it shows.                     *)
LEMMA ShownKeeps ==
  ASSUME StoreTypes, Shown,
         NEW s \in Sessions, terminal[s] # "none",
         pages' = pages \cup {<<s, TRUE>>} \/ pages' = pages \cup {<<s, FALSE>>},
         UNCHANGED <<sessions, terminal>>,
         \A t \in Tabs : tab'[t] \in {tab[t], NoSession},
         \A u \in Sessions : session'[u].error => session[u].error \/ <<u, FALSE>> \in pages',
         \A u \in Sessions : session'[u].tokens # NoGrant =>
                               session[u].tokens # NoGrant \/ <<u, TRUE>> \in pages'
  PROVE  Shown'
<1> SUFFICES ASSUME NEW u \in Sessions
             PROVE  /\ session'[u].error => <<u, FALSE>> \in pages'
                    /\ session'[u].tokens # NoGrant => <<u, TRUE>> \in pages'
                    /\ terminal'[u] = "none" =>
                         /\ u \notin sessions' /\ \A t \in Tabs : tab'[t] # u
                         /\ <<u, TRUE>> \notin pages' /\ <<u, FALSE>> \notin pages'
  BY DEF Shown
<1>1. session'[u].error => <<u, FALSE>> \in pages'
  BY DEF Shown
<1>2. session'[u].tokens # NoGrant => <<u, TRUE>> \in pages'
  BY DEF Shown
<1>3. ASSUME terminal'[u] = "none"
      PROVE  /\ u \notin sessions' /\ \A t \in Tabs : tab'[t] # u
             /\ <<u, TRUE>> \notin pages' /\ <<u, FALSE>> \notin pages'
  <2>1. terminal[u] = "none" /\ u # s
    BY <1>3
  <2>2. u \notin sessions /\ (\A t \in Tabs : tab[t] # u) /\ <<u, TRUE>> \notin pages /\ <<u, FALSE>> \notin pages
    BY <2>1 DEF Shown
  <2>3. QED
    BY <2>1, <2>2
<1>4. QED
  BY <1>1, <1>2, <1>3

LEMMA WithoutCodeStep ==
  ASSUME SessionInv, NEW s \in Sessions, CallbackWithoutCode(s)
  PROVE  SessionInv'
<1>1. EndpointTypes' /\ InFlight'
  BY QuietStep DEF CallbackWithoutCode, SessionInv
<1>2. /\ session' \in [Sessions -> Session]
      /\ \A u \in Sessions : session'[u].tokens = session[u].tokens
      /\ \A u \in Sessions \ {s} : session'[u].error = session[u].error
  <2>1. TRUE \in BOOLEAN
    OBVIOUS
  <2>2. QED
    BY <2>1, ErrorKeeps DEF CallbackWithoutCode, SessionInv
<1>3. pages' = pages \cup {<<s, FALSE>>} /\ s \in sessions
  BY DEF CallbackWithoutCode, Shows, SessionInv, StoreTypes
<1>4. StoreTypes'
  <2>1. FALSE \in BOOLEAN /\ pages \in SUBSET (Sessions \X BOOLEAN)
    BY DEF SessionInv, StoreTypes
  <2>2. pages' \subseteq Sessions \X BOOLEAN
    BY <1>3, <2>1, PageAdded
  <2>3. QED
    BY <1>2, <2>2 DEF CallbackWithoutCode, SessionInv, StoreTypes
<1>5. Shown'
  <2>1. terminal[s] # "none" /\ UNCHANGED <<sessions, terminal, tab>>
    BY <1>3 DEF CallbackWithoutCode, SessionInv, Shown
  <2>2. \A u \in Sessions : session'[u].error => session[u].error \/ <<u, FALSE>> \in pages'
    BY <1>2, <1>3
  <2>3. QED
    BY <1>2, <1>3, <2>1, <2>2, ShownKeeps DEF SessionInv
<1>6. SessionHeld'
  BY <1>2, <1>3 DEF CallbackWithoutCode, SessionInv, StoreTypes, SessionHeld, serviceVars
<1>7. QED
  BY <1>1, <1>4, <1>5, <1>6 DEF SessionInv

LEMMA CallbackAskStep ==
  ASSUME SessionInv, NEW t \in Tabs, NEW s \in Sessions, CallbackAsk(t, s)
  PROVE  SessionInv'
<1>1. /\ EndpointTypes'
      /\ usable \subseteq usable'
      /\ \A c \in Callers \ {t} : answer'[c] = answer[c]
      /\ answer'[t].sent = NoGrant
      /\ Got(t, "granted")' => answer'[t].got \in usable'
  BY CodeAskKeeps DEF CallbackAsk, SessionInv
<1>2. StoreTypes' /\ Shown' /\ SessionHeld'
  BY <1>1 DEF CallbackAsk, SessionInv, StoreTypes, Shown, SessionHeld
<1>3. InFlight'
  BY <1>1 DEF CallbackAsk, SessionInv, StoreTypes, InFlight, Free, Got
<1>4. QED
  BY <1>1, <1>2, <1>3 DEF SessionInv

LEMMA TokensKeep ==
  ASSUME StoreTypes, NEW s \in Sessions, NEW g \in Grants \cup {NoGrant}, UpdateTokens(s, g)
  PROVE  /\ session' \in [Sessions -> Session]
         /\ \A u \in Sessions : session'[u].error = session[u].error
         /\ \A u \in Sessions \ {s} : session'[u].tokens = session[u].tokens
         /\ s \in sessions => session'[s].tokens = g
BY DEF StoreTypes, UpdateTokens, Session

LEMMA AnswerStep ==
  ASSUME SessionInv, NEW t \in Tabs, CallbackAnswer(t)
  PROVE  SessionInv'
<1> DEFINE s == tab[t]
<1>1. s \in Sessions /\ t \in Callers
  BY DEF CallbackAnswer, SessionInv, InFlight, Free, Got
<1>2. /\ EndpointTypes' /\ usable' = usable
      /\ \A c \in Callers \ {t} : answer'[c] = answer[c]
      /\ answer'[t] = NoAnswer
  BY SettledKeeps DEF CallbackAnswer, SessionInv
<1>3. InFlight'
  BY <1>2 DEF CallbackAnswer, SessionInv, StoreTypes, InFlight, Free, Got, NoAnswer, NoGrant
<1>4. terminal[s] # "none"
  BY <1>1 DEF SessionInv, Shown
<1>5. UNCHANGED <<sessions, terminal>> /\ \A u \in Tabs : tab'[u] \in {tab[u], NoSession}
  BY DEF CallbackAnswer, SessionInv, StoreTypes
<1>. tab' \in [Tabs -> Sessions \cup {NoSession}] /\ UNCHANGED <<sessions, states, expired, terminal>>
  BY DEF CallbackAnswer, SessionInv, StoreTypes
<1>6. CASE Got(t, "granted") /\ UpdateTokens(s, answer[t].got) /\ Shows(s, TRUE)
  <2>1. answer[t].got \in Grants \cup {NoGrant} /\ answer[t].got \in usable
    BY <1>1, <1>6 DEF SessionInv, EndpointTypes, Answer, InFlight
  <2>2. /\ session' \in [Sessions -> Session]
        /\ \A u \in Sessions : session'[u].error = session[u].error
        /\ \A u \in Sessions \ {s} : session'[u].tokens = session[u].tokens
        /\ s \in sessions => session'[s].tokens = answer[t].got
    BY <1>1, <1>6, <2>1, TokensKeep DEF SessionInv
  <2>3. pages' = pages \cup {<<s, TRUE>>}
    BY <1>6 DEF Shows
  <2>4. StoreTypes'
    <3> HIDE DEF s
    <3>1. TRUE \in BOOLEAN /\ pages \in SUBSET (Sessions \X BOOLEAN)
      BY DEF SessionInv, StoreTypes
    <3>2. pages' \subseteq Sessions \X BOOLEAN
      BY ZenonT(40), <1>1, <2>3, <3>1, PageAdded
    <3>3. QED
      BY <2>2, <3>2 DEF SessionInv, StoreTypes
  <2>5. Shown'
    <3>1. \A u \in Sessions : session'[u].error => session[u].error \/ <<u, FALSE>> \in pages'
      BY <2>2
    <3>2. \A u \in Sessions : session'[u].tokens # NoGrant =>
                               session[u].tokens # NoGrant \/ <<u, TRUE>> \in pages'
      BY <2>2, <2>3
    <3>3. QED
      BY <1>1, <1>4, <1>5, <2>3, <3>1, <3>2, ShownKeeps DEF SessionInv
  <2>6. SessionHeld'
    BY <1>1, <1>2, <2>1, <2>2, <2>3 DEF CallbackAnswer, SessionInv, StoreTypes, SessionHeld
  <2>7. QED
    BY <1>2, <1>3, <2>4, <2>5, <2>6 DEF SessionInv
<1>7. ASSUME NEW text \in BOOLEAN, UpdateError(s, text), Got(t, "failed"), Shows(s, FALSE)
      PROVE  SessionInv'
  <2>1. /\ session' \in [Sessions -> Session]
        /\ \A u \in Sessions : session'[u].tokens = session[u].tokens
        /\ \A u \in Sessions \ {s} : session'[u].error = session[u].error
    BY <1>1, <1>7, ErrorKeeps DEF SessionInv
  <2>2. pages' = pages \cup {<<s, FALSE>>}
    BY <1>7 DEF Shows
  <2>3. StoreTypes'
    <3> HIDE DEF s
    <3>1. FALSE \in BOOLEAN /\ pages \in SUBSET (Sessions \X BOOLEAN)
      BY DEF SessionInv, StoreTypes
    <3>2. pages' \subseteq Sessions \X BOOLEAN
      BY ZenonT(40), <1>1, <2>2, <3>1, PageAdded
    <3>3. QED
      BY <2>1, <3>2 DEF SessionInv, StoreTypes
  <2>4. Shown'
    <3>1. \A u \in Sessions : session'[u].error => session[u].error \/ <<u, FALSE>> \in pages'
      BY <2>1, <2>2
    <3>2. QED
      BY <1>1, <1>4, <1>5, <2>1, <2>2, <3>1, ShownKeeps DEF SessionInv
  <2>5. SessionHeld'
    BY <1>1, <1>2, <2>1, <2>2 DEF CallbackAnswer, SessionInv, StoreTypes, SessionHeld
  <2>6. QED
    BY <1>2, <1>3, <2>3, <2>4, <2>5 DEF SessionInv
<1>8. QED
  BY <1>6, <1>7 DEF CallbackAnswer

LEMMA ExpiryStep ==
  ASSUME SessionInv, NEW s \in Sessions, GetTooOld(s)
  PROVE  SessionInv'
<1>1. EndpointTypes' /\ InFlight'
  BY QuietStep DEF GetTooOld, SessionInv
<1>2. StoreTypes' /\ Shown' /\ SessionHeld'
  BY DEF GetTooOld, SessionInv, StoreTypes, Shown, SessionHeld, serviceVars
<1>3. QED
  BY <1>1, <1>2 DEF SessionInv

LEMMA RestartStep ==
  ASSUME SessionInv, ServerRestarts
  PROVE  SessionInv'
<1>1. /\ EndpointTypes' /\ usable' = usable
      /\ \A t \in Tabs : answer'[t] = NoAnswer
  BY RestartForgets DEF ServerRestarts, SessionInv
<1>2. InFlight'
  BY <1>1 DEF InFlight, Free, Got, NoAnswer, NoGrant
<1>3. StoreTypes' /\ Shown' /\ SessionHeld'
  BY DEF ServerRestarts, SessionInv, StoreTypes, Shown, SessionHeld
<1>4. QED
  BY <1>1, <1>2, <1>3 DEF SessionInv

LEMMA SessionStep ==
  ASSUME SessionInv, SessionBox
  PROVE  SessionInv'
<1>1. CASE UNCHANGED sessionVars
  BY <1>1 DEF sessionVars, sessionState, serviceVars, SessionInv, EndpointTypes, StoreTypes,
              InFlight, Shown, SessionHeld, Free, Got
<1>2. CASE SessionNext
  BY <1>2, CreateStep, PollStep, LateStep, WithoutCodeStep, CallbackAskStep, AnswerStep, ExpiryStep,
     RestartStep DEF SessionNext
<1>3. QED
  BY <1>1, <1>2 DEF SessionBox

LEMMA SessionInvHolds == SessionSpec => []SessionInv
<1>1. ServiceInit /\ SessionInit => SessionInv
  BY SessionInitial
<1>2. SessionInv /\ [SessionNext]_sessionVars => SessionInv'
  BY SessionStep DEF SessionBox
<1>3. QED
  BY <1>1, <1>2, PTL DEF SessionSpec

-----------------------------------------------------------------------------
(* Type correctness; a session and its state are added and removed as one. *)
THEOREM SessionTypeCorrect == SessionSpec => []SessionTypeOK
<1>1. SessionInv => SessionTypeOK
  BY TypesTogether DEF SessionInv
<1>2. QED
  BY <1>1, SessionInvHolds, PTL

LEMMA SessionsAreRight == ASSUME SessionInv PROVE SuccessIsKept
<1> SUFFICES ASSUME NEW s \in sessions, <<s, TRUE>> \in pages
             PROVE  /\ session[s].tokens \in usable
                    /\ <<s, FALSE>> \notin pages => Status(s) = "authorized"
  BY DEF SuccessIsKept
<1>1. session[s].tokens \in usable
  BY DEF SessionInv, SessionHeld
<1>2. session[s].tokens # NoGrant
  BY <1>1 DEF SessionInv, EndpointTypes, NoGrant
<1>3. ASSUME <<s, FALSE>> \notin pages PROVE Status(s) = "authorized"
  BY <1>2, <1>3 DEF SessionInv, StoreTypes, Shown, Status
<1>4. QED
  BY <1>1, <1>3

(* A page that has told of a success is right, however many pages are      *)
(* loaded beside it or again, while the server has the session.            *)
THEOREM ShownSuccessIsKept == SessionSpec => []SuccessIsKept
<1>1. SessionInv => SuccessIsKept
  BY SessionsAreRight
<1>2. QED
  BY <1>1, SessionInvHolds, PTL

LEMMA TerminalKeeps ==
  ASSUME SessionInv, TerminalAgreesWithPage, [SessionNext]_sessionVars
  PROVE  TerminalAgreesWithPage'
<1>1. pages \subseteq pages'
  BY DEF SessionNext, sessionVars, sessionState, CreateSession, Poll, CallbackTooLate,
         CallbackWithoutCode, CallbackAsk, CallbackAnswer, GetTooOld, ServerRestarts, Shows
<1>2. CASE \E s \in Sessions : Poll(s)
  <2>1. PICK s \in Sessions : Poll(s)
    BY <1>2
  <2>2. \A u \in Sessions \ {s} : terminal'[u] = terminal[u]
    BY <2>1 DEF Poll, Learns, SessionInv, StoreTypes
  <2>3. terminal'[s] = "error" => session[s].error
    BY <2>1 DEF Poll, Learns, Status, SessionInv, StoreTypes
  <2>4. terminal'[s] = "authorized" => session[s].tokens # NoGrant
    BY <2>1 DEF Poll, Learns, Status, SessionInv, StoreTypes
  <2>5. QED
    BY <1>1, <2>2, <2>3, <2>4 DEF TerminalAgreesWithPage, SessionInv, Shown
<1>3. CASE \E s \in Sessions : CreateSession(s)
  BY <1>1, <1>3 DEF CreateSession, Learns, SessionInv, StoreTypes, TerminalAgreesWithPage
<1>4. CASE UNCHANGED terminal
  BY <1>1, <1>4 DEF TerminalAgreesWithPage
<1>5. QED
  BY <1>2, <1>3, <1>4
  DEF SessionNext, sessionVars, sessionState, CallbackTooLate, CallbackWithoutCode,
      CallbackAsk, CallbackAnswer, GetTooOld, ServerRestarts

(* What the terminal learns was shown on a page.                           *)
THEOREM TerminalLearnsWhatWasShown == SessionSpec => []TerminalAgreesWithPage
<1>1. ServiceInit /\ SessionInit => TerminalAgreesWithPage
  BY DEF SessionInit, TerminalAgreesWithPage
<1>2. SessionInv /\ TerminalAgreesWithPage /\ [SessionNext]_sessionVars => TerminalAgreesWithPage'
  BY TerminalKeeps
<1>3. QED
  BY <1>1, <1>2, SessionInvHolds, PTL DEF SessionSpec

=============================================================================
