----------------------------- MODULE Credentials -----------------------------
(* The credentials of the providers (internal/auth): credentials.json holds  *)
(* a key or a token for each and the active provider, auth.json a token of   *)
(* earlier versions that /auth login still writes and /auth logout removes.  *)
(* Every program resolves its credential when it starts and may log in       *)
(* later; both files are read, changed and written in place, emptied first,  *)
(* with no lock between programs. Keys and tokens are numbers.               *)
EXTENDS Integers, FiniteSets

CONSTANTS
  Programs,       \* runs of the program
  MaxSecrets,     \* bound on the keys and tokens ever made
  MaxLogins       \* bound on the logins and logouts

ASSUME CredentialsAssumption == MaxSecrets \in Nat

VARIABLES
  store,          \* credentials.json
  legacy,         \* auth.json
  prog,           \* what each program does, and the credential it uses
  secrets,        \* keys and tokens made
  unexpired,      \* tokens that are not expired
  renewable,      \* refresh tokens the token endpoint takes
  logins,         \* logins and logouts done
  overtaken,      \* history: entries others wrote since each program read the file
  clashed,        \* history: entries that an overtaken or a broken write may have lost
  entered,        \* history: the last key a login wrote for each provider, or 0
  handed,         \* history: the refresh tokens the endpoint gave
  wasted          \* history: those it took for one that reached no file

secretVars == <<secrets, unexpired, renewable, handed, wasted>>
credVars == <<store, legacy, prog, secretVars, logins, overtaken, clashed, entered>>

Providers == {"anthropic", "openai"}
NoCred == [method |-> "none", key |-> 0, refresh |-> 0]
Creds == [method : {"none", "api_key", "oauth"}, key : 0..MaxSecrets, refresh : 0..MaxSecrets]
EmptyStore == [active |-> "none", creds |-> [v \in Providers |-> NoCred]]
(* Opened for writing, and not written to; and what does not parse.         *)
Truncated == [EmptyStore EXCEPT !.active = "truncated"]
Garbled == [EmptyStore EXCEPT !.active = "torn"]
NoSession == [provider |-> "none", key |-> 0]
Off == [at |-> "off", base |-> EmptyStore, cred |-> NoCred, old |-> 0, target |-> "none", login |-> FALSE,
        uses |-> NoSession]

CredentialsTypeOK ==
  /\ store.active \in Providers \cup {"none", "truncated", "torn"} /\ store.creds \in [Providers -> Creds]
  /\ legacy \in Creds
  /\ \A p \in Programs :
       /\ prog[p].at \in {"off", "resolve", "refresh", "load", "open", "write", "flow", "save_legacy", "ready"}
       /\ prog[p].target \in Providers \cup {"none"} /\ prog[p].cred \in Creds
       /\ prog[p].uses \in {NoSession} \cup [provider : Providers, key : 1..MaxSecrets]
  /\ unexpired \subseteq 1..secrets /\ renewable \subseteq 1..secrets
  /\ clashed \subseteq Providers

CredentialsInit ==
  /\ store = EmptyStore /\ legacy = NoCred /\ prog = [p \in Programs |-> Off]
  /\ secrets = 0 /\ unexpired = {} /\ renewable = {} /\ logins = 0 /\ handed = {} /\ wasted = {}
  /\ overtaken = [p \in Programs |-> {}] /\ clashed = {} /\ entered = [v \in Providers |-> 0]

-----------------------------------------------------------------------------
Readable == store.active \notin {"truncated", "torn"}
(* A store that does not parse counts as an empty one.                      *)
LoadCredentialStore == IF Readable THEN store ELSE EmptyStore

Becomes(p, what) == prog' = [prog EXCEPT ![p] = what]
Ready(p, session) == Becomes(p, [Off EXCEPT !.at = "ready", !.uses = session])
Adopt(p, provider, key) == Ready(p, [provider |-> provider, key |-> key])

(* The token p was given reaches no file: whoever logs in hears of it, a    *)
(* start ignores the error and uses the token.                              *)
Unsaved(p) ==
  /\ IF prog[p].login THEN Ready(p, prog[p].uses) ELSE Adopt(p, prog[p].target, prog[p].cred.key)
  /\ wasted' = wasted \cup ({prog[p].old} \ {0})
Ends(p) == Becomes(p, Off) /\ wasted' = wasted \cup ({prog[p].old} \ {0})

Launch(p) ==
  /\ prog[p].at = "off" /\ Becomes(p, [Off EXCEPT !.at = "resolve"])
  /\ UNCHANGED <<store, legacy, secretVars, logins, overtaken, clashed, entered>>

MutResolveCredentials(p) ==    \* what the store has for the provider, whatever it is
  LET now == LoadCredentialStore
      active == IF now.active = "none" THEN "anthropic" ELSE now.active
      cred == now.creds[active]
  IN  /\ prog[p].at = "resolve"
      /\ CASE cred.method = "api_key" -> Adopt(p, active, cred.key)
           [] cred.method = "oauth" /\ cred.key \in unexpired -> Adopt(p, active, cred.key)
           [] cred.method = "oauth" /\ cred.key \notin unexpired /\ cred.refresh # 0 ->
                Becomes(p, [Off EXCEPT !.at = "refresh", !.old = cred.refresh, !.target = active])
           [] cred.method = "none" /\ active = "anthropic" /\ legacy.key \in unexpired ->
                Adopt(p, "anthropic", legacy.key)
           [] OTHER -> Adopt(p, active, cred.key)
      /\ UNCHANGED <<store, legacy, secretVars, logins, overtaken, clashed, entered>>

(* No key in the environment: the active provider of the store, else        *)
(* auth.json, else nothing.                                                 *)
ResolveCredentials(p) ==
  LET now == LoadCredentialStore
      active == IF now.active = "none" THEN "anthropic" ELSE now.active
      cred == now.creds[active]
  IN  /\ prog[p].at = "resolve"
      /\ CASE cred.method = "api_key" -> Adopt(p, active, cred.key)
           [] cred.method = "oauth" /\ cred.key \in unexpired -> Adopt(p, active, cred.key)
           [] cred.method = "oauth" /\ cred.key \notin unexpired /\ cred.refresh # 0 ->
                Becomes(p, [Off EXCEPT !.at = "refresh", !.old = cred.refresh, !.target = active])
           [] cred.method = "none" /\ active = "anthropic" /\ legacy.key \in unexpired ->
                Adopt(p, "anthropic", legacy.key)
           [] OTHER -> Ready(p, NoSession)
      /\ UNCHANGED <<store, legacy, secretVars, logins, overtaken, clashed, entered>>

(* A key of the environment comes before the files, and is not written.     *)
ResolveFromEnv(p, provider) ==
  /\ prog[p].at = "resolve" /\ secrets < MaxSecrets /\ secrets' = secrets + 1
  /\ Adopt(p, provider, secrets')
  /\ UNCHANGED <<store, legacy, unexpired, renewable, handed, wasted, logins, overtaken, clashed, entered>>

(* The token endpoint answers: a token, and maybe a refresh token, which    *)
(* then replaces the one it was handed.                                      *)
Answer(p, refreshable) ==
  /\ secrets < MaxSecrets /\ secrets' = secrets + 1
  /\ unexpired' = unexpired \cup {secrets'}
  /\ renewable' = IF refreshable THEN (renewable \ {prog[p].old}) \cup {secrets'} ELSE renewable
  /\ handed' = IF refreshable THEN handed \cup {secrets'} ELSE handed
  /\ Becomes(p, [prog[p] EXCEPT !.at = IF prog[p].target = "none" THEN "save_legacy" ELSE "load",
                   !.cred = [method |-> "oauth", key |-> secrets', refresh |-> IF refreshable THEN secrets' ELSE 0]])
  /\ UNCHANGED wasted

(* It refuses or does not answer; or has rotated the token and its answer   *)
(* is lost.                                                                 *)
RefreshToken(p) ==
  /\ prog[p].at = "refresh"
  /\ \/ prog[p].old \in renewable /\ \E r \in BOOLEAN : Answer(p, r)
     \/ /\ Ready(p, NoSession)
        /\ \/ UNCHANGED <<renewable, wasted>>
           \/ /\ prog[p].old \in renewable
              /\ renewable' = renewable \ {prog[p].old} /\ wasted' = wasted \cup {prog[p].old}
        /\ UNCHANGED <<secrets, unexpired, handed>>
  /\ UNCHANGED <<store, legacy, logins, overtaken, clashed, entered>>

(* /login with a key; /login by the browser; /auth login.                   *)
BeginLogin(p) ==
  /\ prog[p].at = "ready" /\ logins < MaxLogins /\ logins' = logins + 1
  /\ \/ secrets < MaxSecrets /\ secrets' = secrets + 1
        /\ \E v \in Providers :
             Becomes(p, [prog[p] EXCEPT !.at = "load", !.login = TRUE, !.target = v,
                                        !.cred = [method |-> "api_key", key |-> secrets', refresh |-> 0]])
     \/ /\ \E v \in {"anthropic", "none"} :
             Becomes(p, [prog[p] EXCEPT !.at = "flow", !.login = TRUE, !.target = v])
        /\ UNCHANGED secrets
  /\ UNCHANGED <<store, legacy, unexpired, renewable, handed, wasted, overtaken, clashed, entered>>

FlowEnds(p) ==
  /\ prog[p].at = "flow"
  /\ \/ \E r \in BOOLEAN : Answer(p, r)
     \/ Ready(p, prog[p].uses) /\ UNCHANGED secretVars
  /\ UNCHANGED <<store, legacy, logins, overtaken, clashed, entered>>

SaveTokens(p) ==
  /\ prog[p].at = "save_legacy" /\ legacy' = prog[p].cred /\ Ready(p, prog[p].uses)
  /\ UNCHANGED <<store, secretVars, logins, overtaken, clashed, entered>>

MutLoadForChange(p) ==  \* starts from an empty store
  /\ prog[p].at = "load" /\ Becomes(p, [prog[p] EXCEPT !.at = "open", !.base = EmptyStore])
  /\ overtaken' = [overtaken EXCEPT ![p] = IF Readable THEN {} ELSE Providers]
  /\ UNCHANGED <<store, legacy, secretVars, logins, clashed, entered>>

(* SetProviderAPIKey and SetProviderOAuth read the file again. What another *)
(* is writing just then is read as an empty store.                          *)
LoadForChange(p) ==
  /\ prog[p].at = "load" /\ Becomes(p, [prog[p] EXCEPT !.at = "open", !.base = LoadCredentialStore])
  /\ overtaken' = [overtaken EXCEPT ![p] = IF Readable THEN {} ELSE Providers]
  /\ UNCHANGED <<store, legacy, secretVars, logins, clashed, entered>>

(* A file that is there and cannot be read: a start has no store to look    *)
(* into and ends, a change is not made.                                     *)
ReadFails(p) ==
  /\ \/ prog[p].at = "resolve" /\ Ends(p)
     \/ prog[p].at = "load" /\ Unsaved(p)
  /\ UNCHANGED <<store, legacy, secrets, unexpired, renewable, handed, logins, overtaken, clashed, entered>>

(* os.WriteFile empties the file before it writes.                          *)
OpenStore(p) ==
  /\ prog[p].at = "open" /\ Becomes(p, [prog[p] EXCEPT !.at = "write"]) /\ store' = Truncated
  /\ UNCHANGED <<legacy, secretVars, logins, overtaken, clashed, entered>>

MutSaveCredentialStore(p) ==    \* the old refresh token stays, as if none had come with the answer
  /\ prog[p].at = "write"
  /\ LET v == prog[p].target
         new == [active |-> v, creds |-> [prog[p].base.creds EXCEPT
                   ![v] = [prog[p].cred EXCEPT !.refresh = prog[p].base.creds[v].refresh]]]
     IN  /\ store' \in IF store.active = "truncated" THEN {new} ELSE {new, Garbled}
         /\ clashed' = IF store' = Garbled THEN Providers ELSE (clashed \cup overtaken[p]) \ {v}
         /\ overtaken' = [q \in Programs |-> IF prog[q].at \in {"open", "write"} /\ q # p THEN overtaken[q] \cup {v} ELSE {}]
         /\ entered' = [entered EXCEPT ![v] = IF prog[p].cred.method = "api_key" THEN prog[p].cred.key ELSE 0]
         /\ Adopt(p, v, prog[p].cred.key)
  /\ UNCHANGED <<legacy, secretVars, logins>>

(* All of the store is written, the provider made the active one. What      *)
(* another wrote after the file was emptied is written over, and the end of *)
(* it stays if it was longer.                                               *)
SaveCredentialStore(p) ==
  /\ prog[p].at = "write"
  /\ LET v == prog[p].target
         new == [active |-> v, creds |-> [prog[p].base.creds EXCEPT ![v] = prog[p].cred]]
     IN  /\ store' \in IF store.active = "truncated" THEN {new} ELSE {new, Garbled}
         /\ clashed' = IF store' = Garbled THEN Providers ELSE (clashed \cup overtaken[p]) \ {v}
         /\ overtaken' = [q \in Programs |-> IF prog[q].at \in {"open", "write"} /\ q # p THEN overtaken[q] \cup {v} ELSE {}]
         /\ entered' = [entered EXCEPT ![v] = IF prog[p].cred.method = "api_key" THEN prog[p].cred.key ELSE 0]
         /\ Adopt(p, v, prog[p].cred.key)
  /\ UNCHANGED <<legacy, secretVars, logins>>

(* An error of a write, or the end of the program, may cut the file short.  *)
SaveFails(p) ==
  /\ \/ prog[p].at = "open" /\ UNCHANGED <<store, legacy, clashed>>
     \/ prog[p].at = "write" /\ store' \in {store, Garbled} /\ clashed' = Providers /\ UNCHANGED legacy
     \/ prog[p].at = "save_legacy" /\ legacy' \in {legacy, NoCred} /\ UNCHANGED <<store, clashed>>
  /\ Unsaved(p) \/ Ends(p)
  /\ UNCHANGED <<secrets, unexpired, renewable, handed, logins, overtaken, entered>>

(* ClearTokens.                                                             *)
Logout(p) ==
  /\ prog[p].at = "ready" /\ logins < MaxLogins /\ logins' = logins + 1
  /\ legacy' = NoCred
  /\ UNCHANGED <<store, prog, secretVars, overtaken, clashed, entered>>

Quit(p) ==
  /\ \/ prog[p].at \in {"resolve", "refresh", "flow", "ready"} /\ Becomes(p, Off) /\ UNCHANGED wasted
     \/ prog[p].at = "load" /\ Ends(p)
  /\ UNCHANGED <<store, legacy, secrets, unexpired, renewable, handed, logins, overtaken, clashed, entered>>

TokenExpires(k) ==
  /\ k \in unexpired /\ unexpired' = unexpired \ {k}
  /\ UNCHANGED <<store, legacy, prog, secrets, renewable, handed, wasted, logins, overtaken, clashed, entered>>

CredentialsNext ==
  \/ \E p \in Programs :
       \/ Launch(p) \/ ResolveCredentials(p) \/ RefreshToken(p) \/ BeginLogin(p) \/ FlowEnds(p)
       \/ \E v \in Providers : ResolveFromEnv(p, v)
       \/ SaveTokens(p) \/ LoadForChange(p) \/ ReadFails(p) \/ OpenStore(p) \/ SaveCredentialStore(p)
       \/ SaveFails(p) \/ Logout(p) \/ Quit(p)
  \/ \E k \in unexpired : TokenExpires(k)

CredentialsSpec == CredentialsInit /\ [][CredentialsNext]_credVars

-----------------------------------------------------------------------------
(* When no program is writing the file, a key that a login wrote is the key *)
(* of its provider, through logins to others, refreshes and restarts - but  *)
(* for the entries that a program lost which had read the file before they  *)
(* were written, or in the middle of a write, and for all of them after a   *)
(* write that was cut short or met another (credentials.go:59-100).         *)
KeysSurvive ==
  (\A p \in Programs : prog[p].at # "write") => \A v \in Providers \ clashed :
    entered[v] # 0 => store.creds[v] = [method |-> "api_key", key |-> entered[v], refresh |-> 0]

(* When no program is between the endpoint and its file, the file has the   *)
(* refresh token that came with its access token, and the endpoint still    *)
(* takes it - but for an entry lost as above, and for a token exchanged for *)
(* one that never reached the file: the answer was lost, the program ended  *)
(* before the write, or the write or the read before it failed, which a     *)
(* start ignores (credentials.go:134, 143-151, oauth.go:161-205).           *)
RenewalIsKept ==
  (\A p \in Programs : prog[p].at \in {"off", "ready"}) /\ "anthropic" \notin clashed =>
    LET cred == store.creds["anthropic"] IN
    IF cred.refresh = 0 THEN cred.key \notin handed ELSE cred.refresh \in renewable \cup wasted

(* "Logged out. Stored tokens cleared." (internal/commands/auth.go:103): a  *)
(* program started after a logout finds no token of an earlier login.       *)
LogoutForgets ==
  [][\A p \in Programs : Logout(p) => LoadCredentialStore.creds["anthropic"].method # "oauth"]_credVars
=============================================================================
