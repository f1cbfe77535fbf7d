------------------------------ MODULE CliTokens ------------------------------
(***************************************************************************)
(* The tokens of the command line (larksync/cli_oauth.py): a cache file    *)
(* under the home directory that every command shares, and the login in a  *)
(* browser that a command falls back to.  Each API request of each thread  *)
(* of a command asks CLITokenManager.get_valid_token for its token, so     *)
(* several of them may run at once, in one process and in several.         *)
(***************************************************************************)
EXTENDS TokenService

CONSTANTS
  CliCallers,   \* the threads of the commands
  Commands,     \* their processes
  CommandOf     \* [CliCallers -> Commands]

ASSUME CliAssumption ==
  /\ CliCallers \subseteq Callers
  /\ CommandOf \in [CliCallers -> Commands]

VARIABLES
  file,         \* the cache file
  pc,           \* where each caller is in get_valid_token
  port,         \* who holds the port of the callback server
  code,         \* the processes with OAuthCallbackHandler.authorization_code set
  late          \* the processes whose handler still works on a request

cliState == <<file, pc, port, code, late>>
cliVars  == <<serviceVars, cliState>>

(* Opening the file for writing empties it; two writers may mix their data *)
File == [state : {"missing", "empty", "mixed", "whole"},
         access : Grants \cup {NoGrant}, refresh : Grants \cup {NoGrant}]
NoPair(state) == [state |-> state, access |-> NoGrant, refresh |-> NoGrant]
Whole(g) == [state |-> "whole", access |-> g, refresh |-> g]

CliPc == {"idle", "asking", "opening", "writing", "unlinked", "binding",
          "listening", "called", "closed", "exchanging"}

CliTypeOK ==
  /\ ServiceTypeOK
  /\ file \in File
  /\ pc \in [CliCallers -> CliPc]
  /\ port \in CliCallers \cup {Nobody}
  /\ code \subseteq Commands
  /\ late \subseteq Commands
  /\ \A c \in CliCallers : port = c <=> pc[c] \in {"listening", "called"}
  /\ \A c \in CliCallers : pc[c] \in {"opening", "writing", "unlinked"} => Got(c, "granted")

CliInit ==
  /\ file = NoPair("missing")
  /\ pc = [c \in CliCallers |-> "idle"]
  /\ port = Nobody
  /\ code = {}
  /\ late = {}

Goes(c, to) == pc' = [pc EXCEPT ![c] = to]

(* get_valid_token reads the cache: a pair that is good for longer than    *)
(* the margin is used (nothing changes), an older one is refreshed, and    *)
(* without a readable pair the user is asked to log in.                    *)
Load(c) ==
  /\ pc[c] = "idle"
  /\ \/ /\ file.state = "whole" /\ Stale(file.access)
        /\ Ask(c, file.refresh)
        /\ Goes(c, "asking")
     \/ /\ file.state # "whole"
        /\ Goes(c, "binding")
        /\ UNCHANGED serviceVars
  /\ UNCHANGED <<file, port, code, late>>

(* Faulty variant: the new pair is used, and not saved.                    *)
RefreshedUnsaved(c) ==
  /\ pc[c] = "asking"
  /\ Settle(c)
  /\ Goes(c, IF Got(c, "granted") THEN "idle" ELSE "binding")
  /\ UNCHANGED <<file, port, code, late>>

(* A refresh that fails, for whatever reason, leads to a login.            *)
Refreshed(c) ==
  /\ pc[c] = "asking"
  /\ \/ Got(c, "granted") /\ Goes(c, "opening") /\ UNCHANGED serviceVars
     \/ (Got(c, "refused") \/ Got(c, "failed")) /\ Settle(c) /\ Goes(c, "binding")
  /\ UNCHANGED <<file, port, code, late>>

(* The caller has its token, but the cache will not show the pair.         *)
DropPair(c) ==
  /\ Forget({c})
  /\ Goes(c, "idle")

(* TokenCache.save opens the file, which empties it, and writes it.  An    *)
(* error of either is logged and the caller goes on with its token.        *)
OpenCache(c) ==
  /\ pc[c] = "opening"
  /\ \/ /\ file' = NoPair("empty")
        /\ Goes(c, "writing")
        /\ UNCHANGED serviceVars
     \/ /\ Cardinality(lost) < MaxLosses
        /\ DropPair(c)
        /\ UNCHANGED file
  /\ UNCHANGED <<port, code, late>>

(* Two writers that opened the file together may leave a mix of both, which *)
(* no command can read.                                                    *)
WriteCache(c) ==
  /\ pc[c] = "writing"
  /\ \/ /\ \/ file' = Whole(answer[c].got)
           \/ file.state # "empty" /\ file' = NoPair("mixed")
        /\ Settle(c)
        /\ Goes(c, "idle")
     \/ /\ Cardinality(lost) < MaxLosses
        /\ DropPair(c)
        /\ UNCHANGED file
  /\ UNCHANGED <<port, code, late>>

(* What is written to a file that was deleted meanwhile is gone.           *)
WriteUnlinked(c) ==
  /\ pc[c] = "unlinked"
  /\ DropPair(c)
  /\ UNCHANGED <<file, port, code, late>>

(* TokenCache.clear, by a command of its own.                              *)
ClearCache ==
  /\ file.state # "missing"
  /\ file' = NoPair("missing")
  /\ pc' = [c \in CliCallers |-> IF pc[c] = "writing" THEN "unlinked" ELSE pc[c]]
  /\ UNCHANGED <<serviceVars, port, code, late>>

(* Faulty variant: a caller waits until it can have the port.              *)
BindWaits(c) ==
  /\ pc[c] = "binding"
  /\ port = Nobody
  /\ port' = c
  /\ Goes(c, "listening")
  /\ UNCHANGED <<serviceVars, file, code, late>>

(* authorize_interactive: the callback server needs the port to itself; a  *)
(* caller who cannot have it goes on without a token.                      *)
Bind(c) ==
  /\ pc[c] = "binding"
  /\ \/ port = Nobody /\ port' = c /\ Goes(c, "listening")
     \/ port # Nobody /\ Goes(c, "idle") /\ UNCHANGED port
  /\ UNCHANGED <<serviceVars, file, code, late>>

(* handle_request serves one request: one with a code, or any other.       *)
BrowserCalls(c) ==
  /\ pc[c] = "listening"
  /\ code' \in {code, code \cup {CommandOf[c]}}
  /\ Goes(c, "called")
  /\ UNCHANGED <<serviceVars, file, port, late>>

(* ... and 120 seconds are the longest it is waited for, although the      *)
(* handler may just have got its request.                                  *)
LoginTimesOut(c) ==
  /\ pc[c] = "listening"
  /\ late' \in {late, late \cup {CommandOf[c]}}
  /\ Goes(c, "called")
  /\ UNCHANGED <<serviceVars, file, port, code>>

LateCode(p) ==
  /\ p \in late
  /\ late' = late \ {p}
  /\ code' = code \cup {p}
  /\ UNCHANGED <<serviceVars, file, pc, port>>

(* The port is free again.                                                 *)
CloseServer(c) ==
  /\ pc[c] = "called"
  /\ port' = Nobody
  /\ Goes(c, "closed")
  /\ UNCHANGED <<serviceVars, file, code, late>>

(* The code is taken and exchanged; without one, or when the exchange      *)
(* fails, the caller goes on without a token.                              *)
TakeCode(c) ==
  /\ pc[c] = "closed"
  /\ code' = code \ {CommandOf[c]}
  /\ Goes(c, IF CommandOf[c] \in code THEN "exchanging" ELSE "idle")
  /\ UNCHANGED <<serviceVars, file, port, late>>

Exchange(c) ==
  /\ pc[c] = "exchanging"
  /\ \/ AskWithCode(c) /\ Goes(c, "opening")
     \/ Goes(c, "idle") /\ UNCHANGED serviceVars
  /\ UNCHANGED <<file, port, code, late>>

(* A command is killed, or ends: the file stays as it is.                  *)
CommandOver(p) ==
  LET threads == {c \in CliCallers : CommandOf[c] = p} IN
  /\ Forget(threads)
  /\ Cardinality(lost') <= MaxLosses
  /\ pc' = [c \in CliCallers |-> IF c \in threads THEN "idle" ELSE pc[c]]
  /\ port' = IF port \in threads THEN Nobody ELSE port
  /\ code' = code \ {p}
  /\ late' = late \ {p}
  /\ UNCHANGED file

CliAge == GrowOld(file.access) /\ UNCHANGED cliState

CliStep(c) ==
  \/ Refreshed(c) \/ OpenCache(c) \/ WriteCache(c) \/ WriteUnlinked(c)
  \/ Bind(c) \/ LoginTimesOut(c) \/ CloseServer(c) \/ TakeCode(c) \/ Exchange(c)

CliNext ==
  \/ \E c \in CliCallers : Load(c) \/ CliStep(c) \/ BrowserCalls(c)
  \/ \E p \in Commands : LateCode(p) \/ CommandOver(p)
  \/ ClearCache
  \/ CliAge

CliSpec == ServiceInit /\ CliInit /\ [][CliNext]_cliVars

-----------------------------------------------------------------------------
(* Properties.                                                             *)

(* However the refreshes and logins of several commands cross, a pair that *)
(* can be read from the cache can be refreshed, or its successor is still  *)
(* on the way to the file or got lost on it.                               *)
CachedTokenKept == file.state = "whole" => Redeemable(file.refresh)

(* Every request for a token comes back, with one or without: no login     *)
(* waits for ever for a browser, and none keeps the port.  (Callers are    *)
(* alike: what holds of one holds of each.)                                *)
TokenRequestEnds ==
  LET c == CHOOSE d \in CliCallers : TRUE
  IN  pc[c] # "idle" ~> pc[c] = "idle"

=============================================================================
