---------------------------- MODULE OAuthBroker ----------------------------
(* The broker of the OAuth tokens of MCP servers (internal/mcp/oauth):      *)
(* callers acquire and revoke, the authorization server issues, rotates and *)
(* expires tokens, the user answers the browser flow or does not, the file  *)
(* of tokens may refuse a write, and the process may end at any step. b.mu  *)
(* is held through a whole operation, the network included. A token is its  *)
(* number; its refresh token is a number too, 0 when it has none.           *)
EXTENDS Integers, FiniteSets

CONSTANTS
  Sites,        \* names of servers that ask for tokens
  Callers,      \* goroutines that use the broker, "nobody" not among them
  MaxTokens,    \* bound on the tokens issued
  MaxUses       \* bound on the operations begun

ASSUME OAuthAssumption == "nobody" \notin Callers /\ MaxTokens \in Nat

VARIABLES
  disk,         \* the token file: the token of each site, or NoToken
  mutex,        \* the caller that holds b.mu
  op,           \* what each caller is doing
  issued,       \* tokens issued so far
  fresh,        \* access tokens that will not expire within the skew
  honoured,     \* refresh tokens the authorization server takes
  uses,         \* operations begun
  grant,        \* history: the refresh token each site last gave us
  lost,         \* history: sites whose entry could not be written, or whose rotation was not heard of
  revoked,      \* history: access tokens taken back by Revoke
  undeleted     \* history: those of them whose entry stays in the file

oauthVars == <<disk, mutex, op, issued, fresh, honoured, uses, grant, lost, revoked, undeleted>>

NoToken == [site |-> "none", access |-> 0, refresh |-> 0]
Tokens == [site : Sites, access : 1..MaxTokens, refresh : 0..MaxTokens] \cup {NoToken}
Idle == [what |-> "idle", site |-> "none", at |-> "idle", token |-> NoToken, result |-> "none"]

OAuthTypeOK ==
  /\ disk \in [Sites -> Tokens] /\ mutex \in Callers \cup {"nobody"}
  /\ \A c \in Callers :
       /\ op[c].token \in Tokens
       /\ op[c].at \in {"idle", "lock", "load", "refresh", "callback", "exchange", "save", "revoke",
                        "delete", "done"}
       /\ op[c].result \in {"none", "token", "reauth", "error", "revoked"}
  /\ fresh \subseteq 1..issued /\ honoured \subseteq 1..issued

OAuthInit ==
  /\ disk = [s \in Sites |-> NoToken] /\ mutex = "nobody"
  /\ op = [c \in Callers |-> Idle]
  /\ issued = 0 /\ fresh = {} /\ honoured = {} /\ uses = 0 /\ lost = {} /\ grant = [s \in Sites |-> 0]
  /\ revoked = {} /\ undeleted = {}

-----------------------------------------------------------------------------
Use(c, what, site) ==
  /\ op[c].at \in {"idle", "done"} /\ uses < MaxUses /\ uses' = uses + 1
  /\ op' = [op EXCEPT ![c] = [Idle EXCEPT !.what = what, !.site = site, !.at = "lock"]]
  /\ UNCHANGED <<disk, mutex, issued, fresh, honoured, grant, lost, revoked, undeleted>>

Lock(c) ==
  /\ op[c].at = "lock" /\ mutex = "nobody" /\ mutex' = c
  /\ op' = [op EXCEPT ![c].at = "load"]
  /\ UNCHANGED <<disk, issued, fresh, honoured, uses, grant, lost, revoked, undeleted>>

(* c goes on at, or returns result and unlocks.                             *)
GoOn(c, at, token) ==
  op' = [op EXCEPT ![c].at = at, ![c].token = token] /\ UNCHANGED mutex
Return(c, result, token) ==
  /\ op' = [op EXCEPT ![c].at = "done", ![c].result = result, ![c].token = token]
  /\ mutex' = "nobody"

(* The file may be unreadable: then Acquire asks the user, and the others   *)
(* return the error.                                                        *)
LoadFails(c) ==
  /\ op[c].at = "load"
  /\ IF op[c].what = "acquire" THEN GoOn(c, "callback", NoToken) ELSE Return(c, "error", NoToken)
  /\ UNCHANGED <<disk, issued, fresh, honoured, uses, grant, lost, revoked, undeleted>>

Load(c) ==
  /\ op[c].at = "load"
  /\ LET tok == disk[op[c].site] IN
       CASE op[c].what = "revoke" ->
              IF tok = NoToken THEN Return(c, "revoked", NoToken) ELSE GoOn(c, "revoke", tok)
         [] op[c].what # "revoke" /\ tok.access \in fresh -> Return(c, "token", tok)
         [] op[c].what # "revoke" /\ tok.access \notin fresh /\ tok.refresh # 0 -> GoOn(c, "refresh", tok)
         [] OTHER -> IF op[c].what = "acquire" THEN GoOn(c, "callback", NoToken)
                     ELSE Return(c, "reauth", NoToken)
  /\ UNCHANGED <<disk, issued, fresh, honoured, uses, grant, lost, revoked, undeleted>>

MutIssue(c, rotated) ==     \* a response without a refresh token is taken as it is
  LET old == op[c].token.refresh
      new == [site |-> op[c].site, access |-> issued + 1, refresh |-> IF rotated THEN issued + 1 ELSE 0]
  IN  /\ issued < MaxTokens /\ issued' = issued + 1
      /\ fresh' = fresh \cup {issued'}
      /\ honoured' = IF rotated THEN (honoured \ {old}) \cup {issued'} ELSE honoured
      /\ op' = [op EXCEPT ![c].at = "save", ![c].token = new]

(* The token endpoint answers with a new access token; if it sends no new   *)
(* refresh token the old one is carried over.                               *)
Issue(c, rotated) ==
  LET old == op[c].token.refresh
      new == [site |-> op[c].site, access |-> issued + 1, refresh |-> IF rotated THEN issued + 1 ELSE old]
  IN  /\ issued < MaxTokens /\ issued' = issued + 1
      /\ fresh' = fresh \cup {issued'}
      /\ honoured' = IF rotated THEN (honoured \ {old}) \cup {issued'} ELSE honoured
      /\ op' = [op EXCEPT ![c].at = "save", ![c].token = new]

Refresh(c) ==
  /\ op[c].at = "refresh" /\ op[c].token.refresh \in honoured
  /\ \E rotated \in BOOLEAN :
       /\ Issue(c, rotated)
       /\ grant' = [grant EXCEPT ![op[c].site] = IF rotated THEN issued' ELSE op[c].token.refresh]
  /\ UNCHANGED <<disk, mutex, uses, lost, revoked, undeleted>>

(* Refused as no longer valid, or no answer: the interactive caller goes on *)
(* to ask the user for either.                                              *)
RefreshFails(c) ==
  /\ op[c].at = "refresh"
  /\ \/ op[c].what = "acquire" /\ GoOn(c, "callback", NoToken)
     \/ op[c].what = "quietly" /\ op[c].token.refresh \notin honoured /\ Return(c, "reauth", NoToken)
     \/ op[c].what = "quietly" /\ Return(c, "error", NoToken)
  /\ UNCHANGED <<disk, issued, fresh, honoured, uses, grant, lost, revoked, undeleted>>

(* The server has taken the refresh token and rotated it, and its answer is *)
(* lost or unreadable: the broker takes it for any other failed refresh.    *)
AnswerLost(c) ==
  LET old == op[c].token.refresh IN
  /\ op[c].at = "refresh" /\ old \in honoured /\ honoured' = honoured \ {old}
  /\ lost' = lost \cup {op[c].site}
  /\ IF op[c].what = "acquire" THEN GoOn(c, "callback", NoToken) ELSE Return(c, "error", NoToken)
  /\ UNCHANGED <<disk, issued, fresh, uses, grant, revoked, undeleted>>

(* The first callback decides: a code with the state of this flow, or else  *)
(* an error; none within the timeout is an error too.                       *)
Callback(c) ==
  /\ op[c].at = "callback" /\ GoOn(c, "exchange", NoToken)
  /\ UNCHANGED <<disk, issued, fresh, honoured, uses, grant, lost, revoked, undeleted>>
Exchange(c) ==
  /\ op[c].at = "exchange"
  /\ \E refreshable \in BOOLEAN :
       /\ Issue(c, refreshable)
       /\ grant' = [grant EXCEPT ![op[c].site] = IF refreshable THEN issued' ELSE 0]
  /\ UNCHANGED <<disk, mutex, uses, lost, revoked, undeleted>>
FlowFails(c) ==
  /\ op[c].at \in {"callback", "exchange"} /\ Return(c, "error", NoToken)
  /\ UNCHANGED <<disk, issued, fresh, honoured, uses, grant, lost, revoked, undeleted>>

(* By way of a temporary file and a rename. The error of a write is         *)
(* returned to the caller that does not ask the user, and else ignored.     *)
Save(c) ==
  /\ op[c].at = "save"
  /\ \/ /\ disk' = [disk EXCEPT ![op[c].site] = op[c].token]
        /\ Return(c, "token", op[c].token) /\ lost' = lost \ {op[c].site}
        /\ undeleted' = undeleted \ {disk[op[c].site].access}
     \/ /\ UNCHANGED <<disk, undeleted>> /\ lost' = lost \cup {op[c].site}
        /\ IF op[c].what = "acquire" THEN Return(c, "token", op[c].token)
           ELSE Return(c, "error", NoToken)
  /\ UNCHANGED <<issued, fresh, honoured, uses, grant, revoked>>

MutRevoke(c) ==         \* what could not be revoked is kept
  /\ op[c].at = "revoke"
  /\ \E reached \in BOOLEAN :
       /\ honoured' = IF reached THEN honoured \ {op[c].token.refresh} ELSE honoured
       /\ revoked' = revoked \cup {op[c].token.access}
       /\ IF reached THEN GoOn(c, "delete", op[c].token) ELSE Return(c, "error", NoToken)
  /\ UNCHANGED <<disk, issued, fresh, uses, grant, lost, undeleted>>

(* The revocation endpoint is asked, and the entry deleted whatever it says. *)
Revoke(c) ==
  /\ op[c].at = "revoke"
  /\ \E reached \in BOOLEAN :
       IF reached THEN /\ honoured' = honoured \ {op[c].token.refresh}
                       /\ grant' = [grant EXCEPT ![op[c].site] = 0]
       ELSE UNCHANGED <<honoured, grant>>
  /\ revoked' = revoked \cup {op[c].token.access}
  /\ GoOn(c, "delete", op[c].token)
  /\ UNCHANGED <<disk, issued, fresh, uses, lost, undeleted>>

Delete(c) ==
  /\ op[c].at = "delete"
  /\ \/ /\ disk' = [disk EXCEPT ![op[c].site] = NoToken] /\ lost' = lost \ {op[c].site}
        /\ grant' = [grant EXCEPT ![op[c].site] = 0]
        /\ \E result \in {"revoked", "error"} : Return(c, result, NoToken)
        /\ undeleted' = undeleted \ {op[c].token.access}
     \/ /\ lost' = lost \cup {op[c].site} /\ undeleted' = undeleted \cup {op[c].token.access}
        /\ Return(c, "error", NoToken) /\ UNCHANGED <<disk, grant>>
  /\ UNCHANGED <<issued, fresh, honoured, uses, revoked>>

Expire(a) ==
  /\ a \in fresh /\ fresh' = fresh \ {a}
  /\ UNCHANGED <<disk, mutex, op, issued, honoured, uses, grant, lost, revoked, undeleted>>

(* The process ends; what was being written is not there.                   *)
Crash ==
  /\ mutex # "nobody" /\ mutex' = "nobody"
  /\ lost' = IF op[mutex].at \in {"save", "delete"} THEN lost \cup {op[mutex].site} ELSE lost
  /\ op' = [c \in Callers |-> Idle]
  /\ undeleted' = IF op[mutex].at = "delete" THEN undeleted \cup {op[mutex].token.access} ELSE undeleted
  /\ UNCHANGED <<disk, issued, fresh, honoured, uses, grant, revoked>>

OAuthNext ==
  \/ \E c \in Callers :
       \/ \E what \in {"acquire", "quietly", "revoke"}, s \in Sites : Use(c, what, s)
       \/ Lock(c) \/ LoadFails(c) \/ Load(c) \/ Refresh(c) \/ RefreshFails(c) \/ AnswerLost(c)
       \/ Callback(c) \/ Exchange(c) \/ FlowFails(c) \/ Save(c) \/ Revoke(c) \/ Delete(c)
  \/ \E a \in fresh : Expire(a)
  \/ Crash

OAuthSpec == OAuthInit /\ [][OAuthNext]_oauthVars

-----------------------------------------------------------------------------
(* The file has the refresh token that the authorization server still       *)
(* takes, so that a caller is not sent to the user for want of it - unless  *)
(* a write failed, the process ended before it, or the answer to a refresh  *)
(* was lost after the server had rotated the token                          *)
(* (broker.go:419-438, 459-468, storage.go:106-138).                        *)
GrantIsKept ==
  mutex = "nobody" => \A s \in Sites \ lost :
    disk[s].refresh = grant[s] /\ (grant[s] # 0 => grant[s] \in honoured)

TakenBack == revoked \ undeleted

(* A caller gets a token of the site it asked for, that was fresh when it   *)
(* was given out, and none that Revoke had taken back, but for one whose    *)
(* entry could not be deleted or was not when the process ended: that one   *)
(* Acquire still hands out, although broker.go:259 says that no error       *)
(* leaves a stale entry (broker.go:137-157, 172-206, 260-303).              *)
TokensFit ==
  [][\A c \in Callers :
       op'[c].result = "token" /\ op[c].result = "none" =>
         /\ op'[c].token.site = op[c].site
         /\ op'[c].token.access \notin TakenBack
         /\ op[c].at = "load" => op'[c].token.access \in fresh]_oauthVars
=============================================================================
