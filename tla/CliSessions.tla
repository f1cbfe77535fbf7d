----------------------------- MODULE CliSessions -----------------------------
(***************************************************************************)
(* The login of a command line through the server (web/state.py,           *)
(* web/routes/cli_auth.py): a terminal creates a session and polls it; the *)
(* browser, sent back by Feishu, has the server exchange its code, and the *)
(* tokens wait in the session.  A session lives for ttl_seconds.  Browser  *)
(* pages may be loaded several times, at once, and after the session ended.*)
(***************************************************************************)
EXTENDS TokenService

CONSTANTS
  Sessions,     \* session ids; each stands for its OAuth state as well
  Tabs,         \* browser tabs that load the callback page
  NoSession

ASSUME SessionAssumption ==
  /\ Tabs \subseteq Callers
  /\ NoSession \notin Sessions

VARIABLES
  sessions,     \* ids in CLIOAuthSessionStore._sessions
  states,       \* states in CLIOAuthSessionStore._state_to_session
  session,      \* [Sessions -> CLIOAuthSession]
  expired,      \* sessions older than ttl_seconds
  terminal,     \* what each terminal has learned
  tab,          \* the session whose code each tab has being exchanged
  pages         \* the pages shown: <<session, success>> (history)

sessionState == <<sessions, states, session, expired, terminal, tab, pages>>
sessionVars  == <<serviceVars, sessionState>>

(* error: whether a text of an error is kept that is not empty.            *)
Session == [tokens : Grants \cup {NoGrant}, error : BOOLEAN]

(* Faulty variant: no error means success.                                 *)
StatusByError(s) == IF session[s].error THEN "error" ELSE "authorized"

(* CLIOAuthSession.status                                                  *)
Status(s) ==
  CASE session[s].error -> "error"
    [] ~session[s].error /\ session[s].tokens # NoGrant -> "authorized"
    [] OTHER -> "pending"

SessionTypeOK ==
  /\ ServiceTypeOK
  /\ sessions \subseteq Sessions
  /\ states = sessions
  /\ session \in [Sessions -> Session]
  /\ expired \subseteq Sessions
  /\ terminal \in [Sessions -> {"none", "polling", "authorized", "error", "gone"}]
  /\ tab \in [Tabs -> Sessions \cup {NoSession}]
  /\ pages \subseteq Sessions \X BOOLEAN

SessionInit ==
  /\ sessions = {}
  /\ states = {}
  /\ session = [s \in Sessions |-> [tokens |-> NoGrant, error |-> FALSE]]
  /\ expired = {}
  /\ terminal = [s \in Sessions |-> "none"]
  /\ tab = [t \in Tabs |-> NoSession]
  /\ pages = {}

Learns(s, what) == terminal' = [terminal EXCEPT ![s] = what]
Shows(s, success) == pages' = pages \cup {<<s, success>>}

(* POST /cli/oauth/session                                                 *)
CreateSession(s) ==
  /\ terminal[s] = "none"
  /\ sessions' = sessions \cup {s}
  /\ states' = states \cup {s}
  /\ Learns(s, "polling")
  /\ UNCHANGED <<serviceVars, session, expired, tab, pages>>

(* Faulty variant: only the session itself is removed.                     *)
RemoveOne(s) == sessions' = sessions \ {s} /\ UNCHANGED states

(* _remove_session                                                         *)
Remove(s) ==
  /\ sessions' = sessions \ {s}
  /\ states' = states \ {s}

(* GET /cli/oauth/session/{id}: 404 when the session is not there or too   *)
(* old, which removes it, and its status otherwise.  (A poll that finds it *)
(* pending changes nothing.)                                               *)
Poll(s) ==
  /\ terminal[s] = "polling"
  /\ \/ s \notin sessions /\ Learns(s, "gone") /\ UNCHANGED <<sessions, states>>
     \/ s \in sessions \cap expired /\ Remove(s) /\ Learns(s, "gone")
     \/ /\ s \in sessions \ expired
        /\ Status(s) # "pending"
        /\ Learns(s, Status(s))
        /\ UNCHANGED <<sessions, states>>
  /\ UNCHANGED <<serviceVars, session, expired, tab, pages>>

(* GET /cli/oauth/callback with a state that is unknown by now is a 400.   *)
CallbackTooLate(s) ==
  /\ s \in states \cap expired
  /\ Remove(s)
  /\ UNCHANGED <<serviceVars, session, expired, terminal, tab, pages>>

(* update_session: fields that are given, whatever the age.                *)
UpdateTokens(s, g) ==
  session' = IF s \in sessions THEN [session EXCEPT ![s].tokens = g] ELSE session
UpdateError(s, text) ==
  session' = IF s \in sessions THEN [session EXCEPT ![s].error = text] ELSE session

(* The user has declined, or the callback has no code.                     *)
CallbackWithoutCode(s) ==
  /\ s \in states \ expired
  /\ UpdateError(s, TRUE)
  /\ Shows(s, FALSE)
  /\ UNCHANGED <<serviceVars, sessions, states, expired, terminal, tab>>

(* A code is sent to the endpoint, for the first time, or once more, which *)
(* fails ...                                                               *)
CallbackAsk(t, s) ==
  /\ tab[t] = NoSession
  /\ s \in states \ expired
  /\ AskWithCode(t) \/ Fails(t)
  /\ tab' = [tab EXCEPT ![t] = s]
  /\ UNCHANGED <<sessions, states, session, expired, terminal, pages>>

(* Faulty variant: every field of the session is written.                  *)
CallbackAnswerAllFields(t) ==
  /\ ~Free(t)
  /\ session' = [session EXCEPT ![tab[t]] =
                   [tokens |-> answer[t].got, error |-> Got(t, "failed")]]
  /\ Shows(tab[t], Got(t, "granted"))
  /\ Settle(t)
  /\ tab' = [tab EXCEPT ![t] = NoSession]
  /\ UNCHANGED <<sessions, states, expired, terminal>>

(* ... and its answer goes to the session, if that is still there.  The    *)
(* page does not depend on it.  An exception may have no text (a timeout), *)
(* and then there is no error in the session, not even an earlier one.     *)
CallbackAnswer(t) ==
  /\ \/ Got(t, "granted") /\ UpdateTokens(tab[t], answer[t].got) /\ Shows(tab[t], TRUE)
     \/ /\ Got(t, "failed")
        /\ \E text \in BOOLEAN : UpdateError(tab[t], text)
        /\ Shows(tab[t], FALSE)
  /\ Settle(t)
  /\ tab' = [tab EXCEPT ![t] = NoSession]
  /\ UNCHANGED <<sessions, states, expired, terminal>>

GetTooOld(s) ==
  /\ terminal[s] # "none"
  /\ expired' = expired \cup {s}
  /\ UNCHANGED <<serviceVars, sessions, states, session, terminal, tab, pages>>

(* The store is in memory: it is empty after a restart of the server.      *)
ServerRestarts ==
  /\ Forget(Tabs)
  /\ sessions' = {}
  /\ states' = {}
  /\ tab' = [t \in Tabs |-> NoSession]
  /\ UNCHANGED <<session, expired, terminal, pages>>

SessionNext ==
  \/ \E s \in Sessions :
       \/ CreateSession(s) \/ Poll(s) \/ CallbackTooLate(s) \/ CallbackWithoutCode(s)
       \/ GetTooOld(s)
       \/ \E t \in Tabs : CallbackAsk(t, s)
  \/ \E t \in Tabs : CallbackAnswer(t)
  \/ ServerRestarts

SessionSpec == ServiceInit /\ SessionInit /\ [][SessionNext]_sessionVars

-----------------------------------------------------------------------------
(* Properties.                                                             *)

(* When a page has told the user of a success, the session has the tokens, *)
(* still good, for as long as the server has the session: no callback      *)
(* beside it takes them away, and as long as no page has told of a failure *)
(* the next poll hands them out.                                           *)
SuccessIsKept ==
  \A s \in sessions :
    <<s, TRUE>> \in pages =>
      /\ session[s].tokens \in usable
      /\ <<s, FALSE>> \notin pages => Status(s) = "authorized"

(* A terminal learns of a failure only if a page told the user so, and has *)
(* tokens only if a page told of the success.  (The converse is not so: a  *)
(* failure without a text leaves the terminal polling until the session is *)
(* too old.)                                                               *)
TerminalAgreesWithPage ==
  \A s \in Sessions :
    /\ terminal[s] = "error" => <<s, FALSE>> \in pages
    /\ terminal[s] = "authorized" => <<s, TRUE>> \in pages

=============================================================================
